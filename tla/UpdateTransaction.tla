------------------------- MODULE UpdateTransaction -------------------------
(***************************************************************************)
(* What the native updater promises of its transactions: they follow one   *)
(* another, each is installed at most once, and its recorded ending tells  *)
(* the truth about the installation and about its health.                  *)
(***************************************************************************)
CONSTANTS Nonces   \* identities of update requests

VARIABLES
  phase,   \* of each request
  placed,  \* requests whose package was installed
  proven   \* requests acknowledged by the agent they installed

vars == <<phase, placed, proven>>

Phases == {"new", "open", "healthy", "rolled back", "interrupted"}

Init ==
  /\ phase = [n \in Nonces |-> "new"]
  /\ placed = {} /\ proven = {}

Open(n) ==
  /\ \A m \in Nonces : phase[m] # "open"
  /\ phase[n] = "new"
  /\ phase' = [phase EXCEPT ![n] = "open"]
  /\ UNCHANGED <<placed, proven>>

Place(n) ==
  /\ phase[n] = "open" /\ n \notin placed
  /\ placed' = placed \cup {n}
  /\ UNCHANGED <<phase, proven>>

\* An acknowledgement can arrive when its transaction is already over.
Prove(n) ==
  /\ n \in placed
  /\ proven' = proven \cup {n}
  /\ UNCHANGED <<phase, placed>>

End(n, outcome) ==
  /\ phase[n] = "open"
  /\ \/ outcome = "healthy" /\ n \in proven
     \/ outcome = "interrupted" /\ n \notin placed
     \/ outcome = "rolled back"
  /\ phase' = [phase EXCEPT ![n] = outcome]
  /\ UNCHANGED <<placed, proven>>

Next ==
  \E n \in Nonces :
    \/ Open(n) \/ Place(n) \/ Prove(n)
    \/ \E outcome \in Phases : End(n, outcome)

Spec == Init /\ [][Next]_vars
=============================================================================
