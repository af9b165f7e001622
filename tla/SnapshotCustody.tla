-------------------------- MODULE SnapshotCustody --------------------------
(***************************************************************************)
(* What the delivery side of the agent promises about every snapshot it    *)
(* has published, with no queue order, retries, files, processes or        *)
(* crashes.  A published snapshot stays pending until exactly one of three *)
(* things ends the agent's responsibility for it: the server holds it, it  *)
(* is put aside in quarantine, or it is dropped to respect the capacity    *)
(* limit while something else stays pending.  An ending is final: no       *)
(* snapshot comes back and none is in two places.                          *)
(***************************************************************************)
CONSTANT Snapshots      \* identities of snapshots

VARIABLES
  pending,              \* published and not yet settled
  held,                 \* applied by the server
  discharged,           \* given up by the agent because the server holds them
  quarantined,          \* put aside by the agent
  dropped               \* evicted for capacity

vars == <<pending, held, discharged, quarantined, dropped>>

Known == pending \cup discharged \cup quarantined \cup dropped

Init ==
  /\ pending = {}
  /\ held = {}
  /\ discharged = {}
  /\ quarantined = {}
  /\ dropped = {}

\* A snapshot is published; its identity was never used before.
Admit(id) ==
  /\ id \notin Known
  /\ pending' = pending \cup {id}
  /\ UNCHANGED <<held, discharged, quarantined, dropped>>

\* The server applies a published snapshot, perhaps after the agent has
\* stopped caring (a delayed request).
Hold(id) ==
  /\ id \in Known
  /\ held' = held \cup {id}
  /\ UNCHANGED <<pending, discharged, quarantined, dropped>>

\* The agent forgets a snapshot, allowed only once the server holds it.
Discharge(id) ==
  /\ id \in pending \cap held
  /\ pending' = pending \ {id}
  /\ discharged' = discharged \cup {id}
  /\ UNCHANGED <<held, quarantined, dropped>>

\* Some snapshots are put aside (several at once when a start finds several
\* unreadable files).
PutAside(S) ==
  /\ S \subseteq pending
  /\ pending' = pending \ S
  /\ quarantined' = quarantined \cup S
  /\ UNCHANGED <<held, discharged, dropped>>

\* Capacity: a snapshot is dropped, but never the only one left.
Drop(id) ==
  /\ id \in pending
  /\ pending # {id}
  /\ pending' = pending \ {id}
  /\ dropped' = dropped \cup {id}
  /\ UNCHANGED <<held, discharged, quarantined>>

Next ==
  \/ \E id \in Snapshots : Admit(id) \/ Hold(id) \/ Discharge(id) \/ Drop(id)
  \/ \E S \in SUBSET pending : PutAside(S)

Spec == Init /\ [][Next]_vars
=============================================================================
