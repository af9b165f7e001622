----------------------------- MODULE MCManaged ------------------------------
(* Small instances of Managed for TLC: intervals from 1 to 4, a startup     *)
(* jitter of 2 and a scheduled jitter of at most 1.                         *)
EXTENDS Managed

LocalConfig == [heartbeat |-> 1, inventory |-> 4, level |-> "info"]

\* A valid policy, one that changes the other fields, and one that is valid
\* only in part.
Quick == [heartbeat |-> 2, inventory |-> None, level |-> None]
Verbose == [heartbeat |-> None, inventory |-> 2, level |-> "debug"]
Mixed == [heartbeat |-> 3, inventory |-> 9, level |-> None]

SomeSettings == {Quick, Verbose, Mixed}
=============================================================================
