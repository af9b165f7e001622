---------------------------- MODULE UpdateProofs ----------------------------
(***************************************************************************)
(* Theorems about NativeUpdate for any releases, emergency exceptions,     *)
(* limits, crashes and failing operations: the state keeps its types, no   *)
(* request is installed twice, ledger and journal always agree, a rollback *)
(* always finds its package, and the anti-rollback floor is that of proven *)
(* releases.                                                               *)
(***************************************************************************)
EXTENDS NativeUpdate, FiniteSetTheorems, TLAPS

-----------------------------------------------------------------------------
(* The inductive invariant.                                                *)

\* The request that was given nonce n offers release r.
Genuine(n, r) == n \in 1..Len(offers) /\ offers[n] = r

Receipt(n, r) == [nonce |-> n, rel |-> r] \in journal.consumed

\* A transaction of request n was opened and installed or ended.
Used(n) == installs[n] > 0 \/ ended[n] # None

\* The open transaction is that of the request tx, or of the journal's entry.
LedgerHas(p) == ledger.pending.nonce = p.nonce /\ ledger.pending.rel = p.rel

SeedPcs == {"seedRemember", "seedCopy", "seedFloor", "seedJournal", "seedPrune"}

\* Phases in which the supervisor works on a request it has admitted.
OpenedPcs == {"unack", "announce", "journal", "accepted", "install", "arm", "restart"}
AdmittedPcs == {"reserve", "commit"} \cup OpenedPcs

\* Phases in which recovery works on the open transaction.
JudgedPcs == {"judge", "accept", "deadline", "rbInstall", "rbRestart", "rbFinish"}

\* The agent has an offer or an acknowledgement exactly while it works on one.
AgentOK ==
  /\ aPc \in {"reap", "stage", "download"} => aRel # None
  /\ aPc = "ack" => aAck # None

\* The supervisor's copy of the journal is the journal.
MemoryOK ==
  /\ jmem # None => jmem = journal
  /\ sPc \notin {"down", "top"} => jmem # None

\* It holds a request exactly while it works on one.
RequestOK ==
  /\ sPc \in AdmittedPcs \cup SeedPcs \cup {"refuse", "drop"} => tx # None
  /\ sPc \in {"down", "top", "interrupted", "abort", "completed", "pending", "judge",
              "accept", "deadline", "scan"} => tx = None
  /\ sPc \in SeedPcs => tx.nonce \in SeedDirs
  /\ tx # None /\ sPc \notin SeedPcs \cup {"drop"} => tx.nonce \in Nonces

\* Every record of a request is one of a request that was really made.
GenuineOK ==
  /\ \A q \in incoming : Genuine(q.nonce, q.rel)
  /\ \A c \in journal.consumed : Genuine(c.nonce, c.rel)
  /\ tx # None /\ tx.nonce \in Nonces => Genuine(tx.nonce, tx.rel)
  /\ ledger.pending # None => Genuine(ledger.pending.nonce, ledger.pending.rel)
  /\ journal.pending # None => Genuine(journal.pending.nonce, journal.pending.rel)
  /\ journal.active.dir \in Nonces => Genuine(journal.active.dir, journal.active.rel)

\* Which records of a transaction are there in which phase.
PhaseOK ==
  /\ NoRepairNeeded
  /\ sPc \in {"interrupted", "abort"} => ledger.pending # None /\ journal.pending = None
  /\ sPc \in {"completed", "settle"} => ledger.pending = None /\ journal.pending # None
  /\ sPc \in JudgedPcs \cup {"pending"} =>
       ledger.pending # None /\ journal.pending # None
  /\ sPc \in {"clear", "clearHealth"} => ledger.pending = None
  /\ sPc = "prune" => (ledger.pending = None <=> journal.pending = None)
  /\ sPc \in {"scan", "reserve", "commit"} =>
       ledger.pending = None /\ journal.pending = None
  /\ sPc \in OpenedPcs => ledger.pending # None /\ LedgerHas(tx)
  /\ sPc \in {"unack", "announce"} => journal.pending \in {None, tx}
  /\ sPc = "journal" => journal.pending = None
  /\ sPc \in {"accepted", "install", "arm", "restart"} => journal.pending = tx
  /\ sPc \in SeedPcs => journal.pending = None
  /\ sPc \in {"seedFloor", "seedJournal", "seedPrune"} => ledger.pending = None
  /\ sPc = "drop" => tx.nonce \in Nonces \/ journal.pending = None

\* The package to roll back to is cached apart from that of the request.
CacheOK ==
  /\ RollbackPossible
  /\ sPc \in AdmittedPcs \cup {"drop"} /\ tx.nonce \in Nonces =>
       journal.active.dir \in cache /\ tx.nonce # journal.active.dir

\* A request that was used has a receipt or is below the floor, and one whose
\* transaction is open has a receipt before anything depends on it.
UsedHaveReceipts ==
  \A n \in Nonces : Used(n) =>
    /\ n \in 1..Len(offers)
    /\ Receipt(n, offers[n]) \/ (Emergency = {} /\ ~AboveFloor(offers[n]))

OpenHasReceipt ==
  /\ sPc \in JudgedPcs \cup {"abort"} =>
       Receipt(ledger.pending.nonce, ledger.pending.rel)
  /\ sPc \in OpenedPcs \cup {"commit"} => Receipt(tx.nonce, tx.rel)

ReceiptsOK == UsedHaveReceipts /\ OpenHasReceipt

\* A request is used once: it is new when its transaction opens, not ended
\* while it is open, and not installed before the journal names it.
OnceOK ==
  /\ NeverReplayed
  /\ sPc \in {"reserve", "commit"} => ~Used(tx.nonce)
  /\ ledger.pending # None => ended[ledger.pending.nonce] = None
  /\ ledger.pending # None /\ journal.pending = None =>
       installs[ledger.pending.nonce] = 0
  /\ sPc \in {"accepted", "install"} => installs[tx.nonce] = 0

\* Without update-seed the floor is one of FirstAndHealthy, and in any case it
\* is above them.
FirstAndHealthy ==
  {First} \cup {offers[n] : n \in {m \in 1..Len(offers) : ended[m] = "healthy"}}

FloorOK ==
  /\ sPc \in SeedPcs => MaxSeeds # 0
  /\ \A r \in FirstAndHealthy : r.version <= ledger.version /\ r.sequence <= ledger.sequence
  /\ MaxSeeds = 0 => \E r \in FirstAndHealthy : r.version = ledger.version
  /\ MaxSeeds = 0 => \E r \in FirstAndHealthy : r.sequence = ledger.sequence

\* What is installed while nothing has failed or was interrupted.
Expected ==
  IF journal.pending = None THEN journal.active.rel
  ELSE IF ledger.pending = None
  THEN IF Last.outcome = "healthy" THEN journal.pending.rel ELSE journal.active.rel
  ELSE IF sPc \in {"accepted", "install", "rbRestart", "rbFinish"} THEN journal.active.rel
  ELSE journal.pending.rel

InstalledOK ==
  mishaps = 0 =>
    /\ installed = Expected
    /\ sPc \in {"seedFloor", "seedJournal"} => tx.rel.version = installed.version

\* A version names one release, as update-seed takes for granted.
OneReleasePerVersion == \A r, s \in Releases : r.version = s.version => r = s

UpdateInv ==
  /\ AgentOK /\ MemoryOK /\ RequestOK /\ GenuineOK /\ PhaseOK /\ CacheOK /\ ReceiptsOK /\ OnceOK

-----------------------------------------------------------------------------
(* What the supervisor's file operations do.                               *)

\* The record of a request in a window or in the journal.
LEMMA WindowFields ==
  ASSUME TypeOK, ledger.pending # None
  PROVE  /\ ledger.pending \in Windows /\ ledger.pending.nonce \in Nonces
         /\ ledger.pending.rel \in Releases
         /\ [nonce |-> ledger.pending.nonce, rel |-> ledger.pending.rel] \in Requests
<1>1. ledger.pending \in Windows
  BY DEF TypeOK
<1>. QED
  BY <1>1 DEF Windows, Requests, Dirs

\* The releases, directories and requests the journal names are of their kinds.
LEMMA JournalFields ==
  ASSUME TypeOK
  PROVE  /\ journal.active \in Caches /\ journal.active.dir \in Dirs
         /\ journal.active.rel \in Releases
         /\ journal.consumed \subseteq Requests
         /\ journal.pending # None =>
              /\ journal.pending \in Requests /\ journal.pending.nonce \in Dirs
              /\ journal.pending.rel \in Releases
              /\ [nonce |-> journal.pending.nonce, rel |-> journal.pending.rel]
                   = journal.pending
BY DEF TypeOK, Journals, Caches, Requests

\* The oldest entries go, the appended ending stays and is the last.
LEMMA TruncatedAppend ==
  ASSUME NEW h \in Seq(Endings), NEW e \in Endings
  PROVE  LET t == Truncated(Append(h, e))
         IN /\ t \in Seq(Endings) /\ Len(t) <= HistoryLimit
            /\ t # << >> /\ t[Len(t)] = e
<1>. DEFINE a == Append(h, e)
            t == Truncated(a)
<1>1. a \in Seq(Endings) /\ Len(a) = Len(h) + 1 /\ a[Len(a)] = e /\ Len(h) \in Nat
  OBVIOUS
<1>2. HistoryLimit \in Nat /\ HistoryLimit > 0
  BY BoundsOK
<1>. HIDE DEF a
<1>3. CASE Len(a) <= HistoryLimit
  <2>1. t = a
    BY <1>1, <1>2, <1>3 DEF Truncated
  <2>2. a # << >>
    BY <1>1
  <2>. QED
    BY <1>1, <1>3, <2>1, <2>2 DEF a
<1>4. CASE Len(a) > HistoryLimit
  <2>. DEFINE m == Len(a) - HistoryLimit + 1
  <2>1. m \in 1..Len(a) /\ Len(a) - m + 1 = HistoryLimit /\ HistoryLimit + m - 1 = Len(a)
    BY <1>1, <1>2, <1>4
  <2>2. t = SubSeq(a, m, Len(a))
    BY <1>1, <1>2, <1>4 DEF Truncated
  <2>. HIDE DEF m, t
  <2>3. t \in Seq(Endings) /\ Len(t) = HistoryLimit /\ t[HistoryLimit] = a[Len(a)]
    BY <1>1, <1>2, <2>1, <2>2
  <2>4. t # << >>
    BY <1>2, <2>3
  <2>. QED
    BY <1>1, <1>2, <2>3, <2>4 DEF a, t
<1>. QED
  BY <1>1, <1>2, <1>3, <1>4

\* What finish_update leaves in the ledger.
LEMMA FinishEffect ==
  ASSUME TypeOK, ledger.pending # None, NEW outcome \in Outcomes, Finish(outcome)
  PROVE  /\ ledger' \in [version : Nat, sequence : Nat, pending : Windows \cup {None},
                         history : Seq(Endings)]
         /\ ledger'.pending = None
         /\ Len(ledger'.history) <= HistoryLimit /\ ledger'.history # << >>
         /\ Last' = [nonce |-> ledger.pending.nonce, rel |-> ledger.pending.rel,
                     outcome |-> outcome]
         /\ ledger'.version >= ledger.version /\ ledger'.sequence >= ledger.sequence
         /\ ended' = [ended EXCEPT ![ledger.pending.nonce] = outcome]
<1>. DEFINE e == [nonce |-> ledger.pending.nonce, rel |-> ledger.pending.rel,
                  outcome |-> outcome]
<1>1. e \in Endings /\ ledger.history \in Seq(Endings)
  BY WindowFields DEF TypeOK, Endings
<1>2. /\ ledger'.history = Truncated(Append(ledger.history, e)) /\ ledger'.pending = None
      /\ ended' = [ended EXCEPT ![ledger.pending.nonce] = outcome]
  BY DEF Finish
<1>. HIDE DEF e
<1>3. /\ ledger'.history \in Seq(Endings) /\ Len(ledger'.history) <= HistoryLimit
      /\ ledger'.history # << >> /\ ledger'.history[Len(ledger'.history)] = e
  BY <1>1, <1>2, TruncatedAppend
<1>4. /\ ledger.version \in Nat /\ ledger.sequence \in Nat
      /\ ledger.pending.rel.version \in Nat /\ ledger.pending.rel.sequence \in Nat
  BY WindowFields, ReleasesOK DEF TypeOK
<1>5. /\ ledger' = [version |-> ledger'.version, sequence |-> ledger'.sequence,
                    pending |-> None, history |-> ledger'.history]
      /\ ledger'.version \in Nat /\ ledger'.version >= ledger.version
      /\ ledger'.sequence \in Nat /\ ledger'.sequence >= ledger.sequence
  BY <1>4 DEF Finish, Larger
<1>. QED
  BY <1>2, <1>3, <1>5 DEF Last, e

\* What remember_consumed_nonce leaves in the journal.
Remembered(n, r) ==
  /\ journal' \in Journals /\ jmem' = journal'
  /\ journal'.active = journal.active /\ journal'.pending = journal.pending
  /\ IsFiniteSet(journal'.consumed) /\ Cardinality(journal'.consumed) <= MaxConsumed
  /\ [nonce |-> n, rel |-> r] \in journal'.consumed
  /\ journal'.consumed \subseteq journal.consumed \cup {[nonce |-> n, rel |-> r]}
  /\ \A c \in journal.consumed \ journal'.consumed : Emergency = {} /\ ~AboveFloor(c.rel)

Proceeds(pc) == sPc' = pc /\ UNCHANGED <<tx, examined>>

\* Without room for the receipt the request is dropped, or supervise ends.
Abandons ==
  /\ UNCHANGED journal
  /\ \/ sPc = "reserve" /\ sPc' = "drop" /\ UNCHANGED <<jmem, tx, examined>>
     \/ sPc # "reserve" /\ Exit

\* A request is entered in the bounded replay ledger and the supervisor goes on, or it
\* gives the request up.
LEMMA RememberEffect ==
  ASSUME TypeOK, jmem = journal, NEW n, NEW r, [nonce |-> n, rel |-> r] \in Requests,
         NEW pc, RememberThen(n, r, pc)
  PROVE  (Remembered(n, r) /\ Proceeds(pc)) \/ Abandons
<1>. DEFINE c == [nonce |-> n, rel |-> r]
<1>1. /\ journal \in Journals /\ IsFiniteSet(journal.consumed)
      /\ Cardinality(journal.consumed) <= MaxConsumed
  BY DEF TypeOK
<1>2. ASSUME CanRemember(n, r), Known(n) # {}, Remember(n, r)
      PROVE  Remembered(n, r)
  BY <1>1, <1>2 DEF CanRemember, Remember, Remembered, Receipt
<1>3. ASSUME CanRemember(n, r), Known(n) = {}, Remember(n, r)
      PROVE  Remembered(n, r)
  <2>1. journal' = [journal EXCEPT !.consumed = Kept(journal) \cup {c}] /\ jmem' = journal'
    BY <1>3 DEF Remember
  <2>2. /\ Kept(journal) \subseteq journal.consumed
        /\ \A x \in journal.consumed \ Kept(journal) : Emergency = {} /\ ~AboveFloor(x.rel)
    BY DEF Kept, AboveFloor
  <2>3. IsFiniteSet(Kept(journal)) /\ Cardinality(Kept(journal)) < MaxConsumed
    BY <1>1, <1>3, <2>2, FS_Subset DEF CanRemember
  <2>. HIDE DEF c
  <2>4. /\ IsFiniteSet(Kept(journal) \cup {c})
        /\ Cardinality(Kept(journal) \cup {c}) <= Cardinality(Kept(journal)) + 1
        /\ Cardinality(Kept(journal)) \in Nat
    <3>1. Cardinality(Kept(journal)) \in Nat
      BY <2>3, FS_CardinalityType
    <3>2. /\ IsFiniteSet(Kept(journal) \cup {c})
          /\ \/ Cardinality(Kept(journal) \cup {c}) = Cardinality(Kept(journal))
             \/ Cardinality(Kept(journal) \cup {c}) = Cardinality(Kept(journal)) + 1
      BY <2>3, FS_AddElement
    <3>. QED
      BY <3>1, <3>2
  <2>5. Cardinality(Kept(journal) \cup {c}) <= MaxConsumed
    BY <2>3, <2>4, FS_CardinalityType, BoundsOK
  <2>6. journal'.consumed = Kept(journal) \cup {c}
    BY <1>1, <2>1 DEF Journals
  <2>7. journal' \in Journals
    BY <1>1, <2>1, <2>2 DEF Journals, c
  <2>8. journal'.active = journal.active /\ journal'.pending = journal.pending
    BY <1>1, <2>1 DEF Journals
  <2>. QED
    BY <2>1, <2>2, <2>4, <2>5, <2>6, <2>7, <2>8 DEF Remembered, Receipt, c
<1>. QED
  BY <1>2, <1>3 DEF RememberThen, Proceeds, Abandons, Goto

-----------------------------------------------------------------------------
(* Types.                                                                  *)

\* The request under work is one, with a release and a cache directory.
LEMMA AtRequest ==
  ASSUME TypeOK, tx # None
  PROVE  tx \in Requests /\ tx.nonce \in Dirs /\ tx.rel \in Releases
         /\ [nonce |-> tx.nonce, rel |-> tx.rel] = tx
BY DEF TypeOK, Requests

\* Every variable starts with a value of its kind.
LEMMA TypeInit == Init => TypeOK
BY FS_EmptySet, ReleasesOK, BoundsOK
   DEF Init, TypeOK, Dirs, SeedDirs, Caches, Journals, Nonces, Pcs

\* Every variable keeps its type, given that a request, a journal and the
\* records of a transaction are there when they are used.
LEMMA TypeStep ==
  ASSUME TypeOK, AgentOK, MemoryOK, RequestOK, PhaseOK, [Next]_vars
  PROVE  TypeOK'
<1>. USE DEF TypeOK, protectedVars, mailVars, supVars, agentVars, historyVars, boundVars,
         supervisorOnly, elsewhere, recoverOnly, mailboxOnly, restartOnly, publishOnly,
         answerOnly, failOnly
<1>1. CASE ReadAnnouncement
  BY <1>1 DEF ReadAnnouncement, Acks, Announcements, Announced
<1>2. CASE WriteHealth
  BY <1>2 DEF WriteHealth
<1>3. ASSUME NEW r \in Releases, TakeOffer(r) PROVE TypeOK'
  BY <1>3 DEF TakeOffer
<1>4. CASE ReapResult
  BY <1>4 DEF ReapResult
<1>5. CASE Stage
  <2>1. CASE incoming = {} /\ Len(offers) < MaxNonce
    <3>1. offers' = Append(offers, aRel) /\ aRel \in Releases
      BY <1>5, <2>1 DEF Stage, AgentOK
    <3>2. offers' \in Seq(Releases) /\ Len(offers') = Len(offers) + 1
      BY <3>1
    <3>3. Len(offers') \in Nonces /\ Len(offers') <= MaxNonce
      BY <2>1, <3>2, BoundsOK DEF Nonces
    <3>4. incoming' = {[nonce |-> Len(offers'), rel |-> aRel, ready |-> FALSE]}
      BY <1>5, <2>1 DEF Stage
    <3>5. incoming' \subseteq [nonce : Nonces, rel : Releases, ready : BOOLEAN]
      BY <3>1, <3>3, <3>4
    <3>. QED
      BY <1>5, <2>1, <3>2, <3>3, <3>5 DEF Stage
  <2>2. CASE ~(incoming = {} /\ Len(offers) < MaxNonce)
    BY <1>5, <2>2 DEF Stage
  <2>. QED
    BY <2>1, <2>2
<1>6. CASE Download
  <2>. DEFINE Staged == [nonce : Nonces, rel : Releases, ready : BOOLEAN]
  <2>1. \A q \in Staged : [q EXCEPT !.ready = TRUE] \in Staged
    OBVIOUS
  <2>2. incoming \subseteq Staged
    OBVIOUS
  <2>3. \/ incoming' = {[q EXCEPT !.ready = TRUE] : q \in incoming}
        \/ incoming' \subseteq incoming
    BY <1>6 DEF Download
  <2>4. incoming' \subseteq Staged
    BY <2>1, <2>2, <2>3
  <2>. QED
    BY <1>6, <2>4 DEF Download
<1>7. CASE ReadState
  BY <1>7 DEF ReadState, Found, Pcs
<1>8. CASE RememberInterrupted
  <2>1. jmem = journal /\ [nonce |-> ledger.pending.nonce, rel |-> ledger.pending.rel] \in Requests
    BY <1>8, WindowFields DEF RememberInterrupted, MemoryOK, PhaseOK, RequestOK,
       AdmittedPcs, Requests, Caches
  <2>2. CASE RememberThen(ledger.pending.nonce, ledger.pending.rel, "abort")
    BY <1>8, <2>1, <2>2, RememberEffect DEF Proceeds, Abandons, RememberInterrupted,
       Remembered, Goto, Exit, Pcs
  <2>. QED
    BY <1>8, <2>2 DEF RememberInterrupted, Goto, Exit, Pcs
<1>9. CASE RememberCompleted
  <2>1. jmem = journal /\ [nonce |-> jmem.pending.nonce, rel |-> jmem.pending.rel] \in Requests
    BY <1>9, JournalFields DEF RememberCompleted, MemoryOK, PhaseOK, RequestOK, AdmittedPcs,
       Requests, Caches
  <2>2. CASE RememberThen(jmem.pending.nonce, jmem.pending.rel, "settle")
    BY <1>9, <2>1, <2>2, RememberEffect DEF Proceeds, Abandons, RememberCompleted,
       Remembered, Goto, Exit, Pcs
  <2>. QED
    BY <1>9, <2>2 DEF RememberCompleted, Goto, Exit, Pcs
<1>10. CASE RememberPending
  <2>1. jmem = journal /\ [nonce |-> jmem.pending.nonce, rel |-> jmem.pending.rel] \in Requests
    BY <1>10, JournalFields DEF RememberPending, MemoryOK, PhaseOK, RequestOK, AdmittedPcs,
       Requests, Caches
  <2>2. CASE RememberThen(jmem.pending.nonce, jmem.pending.rel, "judge")
    BY <1>10, <2>1, <2>2, RememberEffect DEF Proceeds, Abandons, RememberPending,
       Remembered, Goto, Exit, Pcs
  <2>. QED
    BY <1>10, <2>2 DEF RememberPending, Goto, Exit, Pcs
<1>11. CASE Judge
  BY <1>11 DEF Judge, Goto, Judgement, Pcs
<1>12. CASE CheckDeadline
  BY <1>12 DEF CheckDeadline, Goto, Pcs
<1>13. CASE FinishInterrupted
  <2>1. ledger.pending # None /\ ledger.pending.nonce \in Nonces
    BY <1>13, WindowFields DEF FinishInterrupted, PhaseOK, JudgedPcs
  <2>2. "interrupted" \in Outcomes
    BY DEF Outcomes
  <2>. QED
    BY ZenonT(60), <1>13, <2>1, <2>2, FinishEffect DEF FinishInterrupted, Finish, Goto, Pcs
<1>14. CASE FinishHealthy
  <2>1. ledger.pending # None /\ ledger.pending.nonce \in Nonces
    BY <1>14, WindowFields DEF FinishHealthy, PhaseOK, JudgedPcs
  <2>2. "healthy" \in Outcomes
    BY DEF Outcomes
  <2>. QED
    BY ZenonT(60), <1>14, <2>1, <2>2, FinishEffect DEF FinishHealthy, Finish, Goto, Pcs
<1>15. CASE FinishRolledBack
  <2>1. ledger.pending # None /\ ledger.pending.nonce \in Nonces
    BY <1>15, WindowFields DEF FinishRolledBack, PhaseOK, JudgedPcs
  <2>2. "rolled back" \in Outcomes
    BY DEF Outcomes
  <2>. QED
    BY ZenonT(60), <1>15, <2>1, <2>2, FinishEffect DEF FinishRolledBack, Finish, Goto, Pcs
<1>16. CASE ClearAnnouncement
  BY <1>16 DEF ClearAnnouncement, Goto, Pcs
<1>17. CASE ClearHealth
  BY <1>17 DEF ClearHealth, Goto, Pcs
<1>18. CASE Settle
  <2>1. jmem = journal /\ journal.pending # None
    BY <1>18 DEF Settle, MemoryOK, PhaseOK
  <2>2. Survivor \in Caches
    BY <2>1, JournalFields DEF Survivor, Caches
  <2>3. journal' \in Journals /\ jmem' = journal' /\ journal'.consumed = journal.consumed
    BY <1>18, <2>1, <2>2 DEF Settle, TypeOK, Journals
  <2>. QED
    BY <1>18, <2>3 DEF Settle, Pcs
<1>19. CASE RollbackInstall
  <2>1. jmem.active.rel \in Releases
    BY <1>19, JournalFields DEF RollbackInstall, MemoryOK
  <2>. QED
    BY <1>19, <2>1 DEF RollbackInstall, Goto, Exit, Pcs
<1>20. CASE RollbackRestart
  BY <1>20 DEF RollbackRestart, RestartAgent, AgentRestarted, Goto, Pcs
<1>21. CASE Prune
  BY <1>21 DEF Prune, Goto, InUse, Pcs
<1>22. CASE Admit
  <2>1. PICK q \in incoming : /\ tx' = [nonce |-> q.nonce, rel |-> q.rel]
                              /\ examined' \subseteq examined \cup {q.nonce}
                              /\ cache' \subseteq cache \cup {q.nonce}
    BY <1>22 DEF Admit, Examine, Fresh
  <2>2. q.nonce \in Nonces /\ q.nonce \in Dirs /\ tx' \in Requests
    BY <2>1 DEF Requests, Dirs
  <2>. QED
    BY <1>22, <2>1, <2>2 DEF Admit, Examine, Pcs
<1>23. CASE TurnDown
  <2>1. PICK q \in incoming : /\ tx' = [nonce |-> q.nonce, rel |-> q.rel]
                              /\ examined' \subseteq examined \cup {q.nonce}
                              /\ cache' \subseteq cache \cup {q.nonce}
    BY <1>23 DEF TurnDown, Examine, Fresh
  <2>2. q.nonce \in Nonces /\ q.nonce \in Dirs /\ tx' \in Requests
    BY <2>1 DEF Requests, Dirs
  <2>. QED
    BY <1>23, <2>1, <2>2 DEF TurnDown, Examine, Pcs
<1>24. CASE NothingToDo
  BY <1>24 DEF NothingToDo, Goto, Pcs
<1>25. CASE Reserve
  <2>1. jmem = journal /\ [nonce |-> tx.nonce, rel |-> tx.rel] \in Requests
    BY <1>25, AtRequest DEF Reserve, MemoryOK, PhaseOK, RequestOK, AdmittedPcs, Requests,
       Caches
  <2>2. CASE RememberThen(tx.nonce, tx.rel, "commit")
    BY <1>25, <2>1, <2>2, RememberEffect DEF Proceeds, Abandons, Reserve, Remembered, Goto,
       Exit, Pcs
  <2>. QED
    BY <1>25, <2>2 DEF Reserve, Goto, Exit, Pcs
<1>26. CASE Commit
  <2>1. tx \in Requests /\ tx.nonce \in Nonces /\ tx.rel \in Releases
    BY <1>26, AtRequest DEF Commit, OpenWindow, RequestOK, AdmittedPcs, OpenedPcs, SeedPcs
  <2>2. Window \in Windows
    BY <2>1, BoundsOK DEF Window, Windows
  <2>. QED
    BY <1>26, <2>2 DEF Commit, OpenWindow, Goto, Pcs
<1>27. CASE Arm
  <2>1. tx \in Requests /\ tx.nonce \in Nonces /\ tx.rel \in Releases
    BY <1>27, AtRequest DEF Arm, OpenWindow, RequestOK, AdmittedPcs, OpenedPcs, SeedPcs
  <2>2. Window \in Windows
    BY <2>1, BoundsOK DEF Window, Windows
  <2>. QED
    BY <1>27, <2>2 DEF Arm, OpenWindow, Goto, Pcs
<1>28. CASE RemoveAck
  BY <1>28 DEF RemoveAck, Goto, Pcs
<1>29. CASE Announce
  <2>1. tx \in Requests /\ tx.nonce \in Nonces /\ tx.rel \in Releases
    BY <1>29, AtRequest DEF Announce, RequestOK, AdmittedPcs, OpenedPcs, SeedPcs
  <2>2. pendHealth' \in Announcements
    BY <1>29, <2>1, WindowFields, ReleasesOK DEF Announce, PhaseOK, OpenedPcs,
       Announcements, Windows
  <2>. QED
    BY <1>29, <2>2 DEF Announce, Goto, Pcs
<1>30. CASE WriteJournal
  <2>1. tx \in Requests /\ tx.nonce \in Nonces /\ tx.rel \in Releases
    BY <1>30, AtRequest DEF WriteJournal, RequestOK, AdmittedPcs, OpenedPcs, SeedPcs
  <2>2. journal' \in Journals /\ jmem' = journal' /\ journal'.consumed = journal.consumed
    BY <1>30, <2>1 DEF WriteJournal, MemoryOK, Journals
  <2>. QED
    BY <1>30, <2>2 DEF WriteJournal, Pcs
<1>31. CASE AnswerAccepted
  <2>1. tx \in Requests /\ tx.nonce \in Nonces /\ tx.rel \in Releases
    BY <1>31, AtRequest DEF AnswerAccepted, RequestOK, AdmittedPcs, OpenedPcs, SeedPcs
  <2>2. result' \in Results
    BY <1>31, <2>1 DEF AnswerAccepted, Answer, Results
  <2>. QED
    BY <1>31, <2>2 DEF AnswerAccepted, Answer, Goto, Refused, Pcs
<1>32. CASE Install
  <2>1. tx \in Requests /\ tx.nonce \in Nonces /\ tx.rel \in Releases
    BY <1>32, AtRequest DEF Install, RequestOK, AdmittedPcs, OpenedPcs, SeedPcs
  <2>. QED
    BY <1>32, <2>1 DEF Install, Goto, Pcs
<1>33. CASE RestartInstalled
  BY <1>33 DEF RestartInstalled, RestartAgent, AgentRestarted, Pcs
<1>34. CASE DropCopy
  BY <1>34 DEF DropCopy, Goto, Exit, Pcs
<1>35. CASE AnswerRefused
  <2>1. tx \in Requests /\ tx.nonce \in Nonces /\ tx.rel \in Releases
    BY <1>35, AtRequest DEF AnswerRefused, RequestOK, AdmittedPcs, OpenedPcs, SeedPcs
  <2>2. result' \in Results
    BY <1>35, <2>1 DEF AnswerRefused, Answer, Results
  <2>. QED
    BY <1>35, <2>2 DEF AnswerRefused, Answer, Goto, Refused, Pcs
<1>36. CASE SeedRemember
  <2>1. jmem = journal /\ [nonce |-> jmem.active.dir, rel |-> jmem.active.rel] \in Requests
    BY <1>36, JournalFields DEF SeedRemember, MemoryOK, PhaseOK, RequestOK, AdmittedPcs,
       Requests, Caches
  <2>2. CASE RememberThen(jmem.active.dir, jmem.active.rel, "seedCopy")
    BY <1>36, <2>1, <2>2, RememberEffect DEF Proceeds, Abandons, SeedRemember, Remembered,
       Goto, Exit, Pcs
  <2>. QED
    BY <1>36, <2>2 DEF SeedRemember, Goto, Exit, Pcs
<1>37. CASE SeedCopy
  <2>1. tx.nonce \in Dirs
    BY <1>37, AtRequest DEF SeedCopy, RequestOK, SeedPcs
  <2>. QED
    BY <1>37, <2>1 DEF SeedCopy, Goto, Exit, Pcs
<1>38. CASE SeedFloor
  <2>1. tx.rel \in Releases /\ tx.rel.version \in Nat /\ tx.rel.sequence \in Nat
    BY <1>38, AtRequest, ReleasesOK DEF SeedFloor, RequestOK, SeedPcs
  <2>. QED
    BY ZenonT(60), <1>38, <2>1 DEF SeedFloor, Goto, Larger, Pcs
<1>39. CASE SeedJournal
  <2>1. jmem = journal /\ tx \in Requests /\ tx.nonce \in Dirs /\ tx.rel \in Releases
    BY <1>39, AtRequest DEF SeedJournal, MemoryOK, RequestOK, SeedPcs
  <2>2. journal' \in Journals /\ jmem' = journal' /\ journal'.consumed = journal.consumed
    BY <1>39, <2>1 DEF SeedJournal, TypeOK, Journals, Caches
  <2>. QED
    BY <1>39, <2>2 DEF SeedJournal, Pcs
<1>40. CASE SeedPrune
  BY <1>40 DEF SeedPrune, Exit, InUse, Pcs
<1>41. CASE Start
  BY <1>41 DEF Start, Goto, Pcs
<1>42. CASE AgentRestart
  BY <1>42 DEF AgentRestart, AgentRestarted
<1>43. CASE Fail
  BY <1>43 DEF Fail, Goto, Exit, Refused, Pcs
<1>44. CASE Crash
  BY <1>44 DEF Crash, Exit, Pcs
<1>45. CASE Tick
  BY <1>45 DEF Tick
<1>46. ASSUME NEW r \in Releases, SeedBegin(r) PROVE TypeOK'
  <2>1. tx' \in Requests /\ seeds' \in 0..MaxSeeds
    BY SMTT(60), <1>46, BoundsOK DEF SeedBegin, Requests, Dirs, SeedDirs
  <2>. QED
    BY <1>46, <2>1 DEF SeedBegin, Pcs
<1>47. CASE UNCHANGED vars
  BY <1>47 DEF vars
<1>. QED
  BY <1>1, <1>2, <1>3, <1>4, <1>5, <1>6, <1>7, <1>8, <1>9, <1>10, <1>11, <1>12,
     <1>13, <1>14, <1>15, <1>16, <1>17, <1>18, <1>19, <1>20, <1>21, <1>22, <1>23,
     <1>24, <1>25, <1>26, <1>27, <1>28, <1>29, <1>30, <1>31, <1>32, <1>33, <1>34,
     <1>35, <1>36, <1>37, <1>38, <1>39, <1>40, <1>41, <1>42, <1>43, <1>44, <1>45,
     <1>46, <1>47
  DEF Next, Agent, Supervisor, Recover, Accept, Seed

-----------------------------------------------------------------------------
(* Requests under work.                                                    *)

\* The agent's copy of an offer or acknowledgement lives as long as its task.
LEMMA AgentStep ==
  ASSUME AgentOK, TypeOK, [Next]_vars
  PROVE  AgentOK'
<1>. USE DEF AgentOK, protectedVars, mailVars, supVars, agentVars, historyVars, boundVars,
         supervisorOnly, elsewhere, recoverOnly, mailboxOnly, restartOnly, publishOnly,
         answerOnly, failOnly
<1>1. CASE ReadAnnouncement
  <2>1. aAck' \in Acks
    BY <1>1 DEF ReadAnnouncement, TypeOK, Announcements, Acks, Announced
  <2>. QED
    BY <1>1, <2>1, NoneOK DEF ReadAnnouncement
<1>2. CASE WriteHealth
  BY <1>2 DEF WriteHealth
<1>3. ASSUME NEW r \in Releases, TakeOffer(r) PROVE AgentOK'
  <2>. QED
    BY <1>3, NoneOK DEF TakeOffer
<1>4. CASE ReapResult
  BY <1>4 DEF ReapResult
<1>5. CASE Stage
  BY <1>5 DEF Stage
<1>6. CASE Download
  BY <1>6 DEF Download, Unready
<1>7. CASE ReadState
  BY <1>7 DEF ReadState, Found
<1>8. CASE RememberInterrupted
  BY <1>8 DEF RememberInterrupted, RememberThen, Remember, Goto, Exit
<1>9. CASE RememberCompleted
  BY <1>9 DEF RememberCompleted, RememberThen, Remember, Goto, Exit
<1>10. CASE RememberPending
  BY <1>10 DEF RememberPending, RememberThen, Remember, Goto, Exit
<1>11. CASE Judge
  BY <1>11 DEF Judge, Goto, Judgement
<1>12. CASE CheckDeadline
  BY <1>12 DEF CheckDeadline, Goto
<1>13. CASE FinishInterrupted
  BY <1>13 DEF FinishInterrupted, Finish, Goto
<1>14. CASE FinishHealthy
  BY <1>14 DEF FinishHealthy, Finish, Goto
<1>15. CASE FinishRolledBack
  BY <1>15 DEF FinishRolledBack, Finish, Goto
<1>16. CASE ClearAnnouncement
  BY <1>16 DEF ClearAnnouncement, Goto
<1>17. CASE ClearHealth
  BY <1>17 DEF ClearHealth, Goto
<1>18. CASE Settle
  BY <1>18 DEF Settle, Survivor
<1>19. CASE RollbackInstall
  BY <1>19 DEF RollbackInstall, Goto, Exit
<1>20. CASE RollbackRestart
  BY <1>20 DEF RollbackRestart, RestartAgent, AgentRestarted, Goto
<1>21. CASE Prune
  BY <1>21 DEF Prune, Goto, InUse
<1>22. CASE Admit
  BY <1>22 DEF Admit, Examine, Fresh, Acceptable
<1>23. CASE TurnDown
  BY <1>23 DEF TurnDown, Examine, Fresh
<1>24. CASE NothingToDo
  BY <1>24 DEF NothingToDo, Goto
<1>25. CASE Reserve
  BY <1>25 DEF Reserve, RememberThen, Remember, Goto, Exit
<1>26. CASE Commit
  BY <1>26 DEF Commit, OpenWindow, Goto
<1>27. CASE Arm
  BY <1>27 DEF Arm, OpenWindow, Goto
<1>28. CASE RemoveAck
  BY <1>28 DEF RemoveAck, Goto
<1>29. CASE Announce
  BY <1>29 DEF Announce, Goto
<1>30. CASE WriteJournal
  BY <1>30 DEF WriteJournal
<1>31. CASE AnswerAccepted
  BY <1>31 DEF AnswerAccepted, Goto, Answer
<1>32. CASE Install
  BY <1>32 DEF Install, Goto
<1>33. CASE RestartInstalled
  BY <1>33 DEF RestartInstalled, RestartAgent, AgentRestarted
<1>34. CASE DropCopy
  BY <1>34 DEF DropCopy, Goto, Exit
<1>35. CASE AnswerRefused
  BY <1>35 DEF AnswerRefused, Answer, Refused
<1>36. CASE SeedRemember
  BY <1>36 DEF SeedRemember, RememberThen, Remember, Goto, Exit
<1>37. CASE SeedCopy
  BY <1>37 DEF SeedCopy, Goto, Exit
<1>38. CASE SeedFloor
  BY <1>38 DEF SeedFloor, Goto
<1>39. CASE SeedJournal
  BY <1>39 DEF SeedJournal
<1>40. CASE SeedPrune
  BY <1>40 DEF SeedPrune, Exit, InUse
<1>41. CASE Start
  BY <1>41 DEF Start, Goto
<1>42. CASE AgentRestart
  BY <1>42 DEF AgentRestart, AgentRestarted
<1>43. CASE Fail
  BY <1>43 DEF Fail, Goto, Exit, Refused
<1>44. CASE Crash
  BY <1>44 DEF Crash, Exit
<1>45. CASE Tick
  BY <1>45 DEF Tick
<1>46. ASSUME NEW r \in Releases, SeedBegin(r) PROVE AgentOK'
  BY <1>46 DEF SeedBegin
<1>47. CASE UNCHANGED vars
  BY <1>47 DEF vars
<1>. QED
  BY <1>1, <1>2, <1>3, <1>4, <1>5, <1>6, <1>7, <1>8, <1>9, <1>10, <1>11, <1>12,
     <1>13, <1>14, <1>15, <1>16, <1>17, <1>18, <1>19, <1>20, <1>21, <1>22, <1>23,
     <1>24, <1>25, <1>26, <1>27, <1>28, <1>29, <1>30, <1>31, <1>32, <1>33, <1>34,
     <1>35, <1>36, <1>37, <1>38, <1>39, <1>40, <1>41, <1>42, <1>43, <1>44, <1>45,
     <1>46, <1>47
  DEF Next, Agent, Supervisor, Recover, Accept, Seed

\* Whatever the supervisor writes to the journal it also has in memory.
LEMMA MemoryStep ==
  ASSUME TypeOK, TypeOK', MemoryOK, [Next]_vars
  PROVE  MemoryOK'
<1>. USE DEF MemoryOK, protectedVars, mailVars, supVars, agentVars, historyVars, boundVars,
         supervisorOnly, elsewhere, recoverOnly, mailboxOnly, restartOnly, publishOnly,
         answerOnly, failOnly
<1>0. journal # None /\ journal' # None
  BY NoneOK DEF TypeOK
<1>1. CASE ReadAnnouncement
  BY <1>1 DEF ReadAnnouncement
<1>2. CASE WriteHealth
  BY <1>2 DEF WriteHealth
<1>3. ASSUME NEW r \in Releases, TakeOffer(r) PROVE MemoryOK'
  BY <1>3 DEF TakeOffer
<1>4. CASE ReapResult
  BY <1>4 DEF ReapResult
<1>5. CASE Stage
  BY <1>5 DEF Stage
<1>6. CASE Download
  BY <1>6 DEF Download, Unready
<1>7. CASE ReadState
  BY <1>7, <1>0 DEF ReadState, Found
<1>8. CASE RememberInterrupted
  BY <1>8, <1>0 DEF RememberInterrupted, RememberThen, Remember, Goto, Exit
<1>9. CASE RememberCompleted
  BY <1>9, <1>0 DEF RememberCompleted, RememberThen, Remember, Goto, Exit
<1>10. CASE RememberPending
  BY <1>10, <1>0 DEF RememberPending, RememberThen, Remember, Goto, Exit
<1>11. CASE Judge
  BY <1>11 DEF Judge, Goto, Judgement
<1>12. CASE CheckDeadline
  BY <1>12 DEF CheckDeadline, Goto
<1>13. CASE FinishInterrupted
  BY <1>13 DEF FinishInterrupted, Finish, Goto
<1>14. CASE FinishHealthy
  BY <1>14 DEF FinishHealthy, Finish, Goto
<1>15. CASE FinishRolledBack
  BY <1>15 DEF FinishRolledBack, Finish, Goto
<1>16. CASE ClearAnnouncement
  BY <1>16 DEF ClearAnnouncement, Goto
<1>17. CASE ClearHealth
  BY <1>17 DEF ClearHealth, Goto
<1>18. CASE Settle
  BY <1>18, <1>0 DEF Settle, Survivor
<1>19. CASE RollbackInstall
  BY <1>19 DEF RollbackInstall, Goto, Exit
<1>20. CASE RollbackRestart
  BY <1>20 DEF RollbackRestart, RestartAgent, AgentRestarted, Goto
<1>21. CASE Prune
  BY <1>21 DEF Prune, Goto, InUse
<1>22. CASE Admit
  BY <1>22 DEF Admit, Examine, Fresh, Acceptable
<1>23. CASE TurnDown
  BY <1>23 DEF TurnDown, Examine, Fresh
<1>24. CASE NothingToDo
  BY <1>24 DEF NothingToDo, Goto
<1>25. CASE Reserve
  BY <1>25, <1>0 DEF Reserve, RememberThen, Remember, Goto, Exit
<1>26. CASE Commit
  BY <1>26 DEF Commit, OpenWindow, Goto
<1>27. CASE Arm
  BY <1>27 DEF Arm, OpenWindow, Goto
<1>28. CASE RemoveAck
  BY <1>28 DEF RemoveAck, Goto
<1>29. CASE Announce
  BY <1>29 DEF Announce, Goto
<1>30. CASE WriteJournal
  BY <1>30, <1>0 DEF WriteJournal
<1>31. CASE AnswerAccepted
  BY <1>31 DEF AnswerAccepted, Goto, Answer
<1>32. CASE Install
  BY <1>32 DEF Install, Goto
<1>33. CASE RestartInstalled
  BY <1>33 DEF RestartInstalled, RestartAgent, AgentRestarted
<1>34. CASE DropCopy
  BY <1>34 DEF DropCopy, Goto, Exit
<1>35. CASE AnswerRefused
  BY <1>35 DEF AnswerRefused, Answer, Refused
<1>36. CASE SeedRemember
  BY <1>36, <1>0 DEF SeedRemember, RememberThen, Remember, Goto, Exit
<1>37. CASE SeedCopy
  BY <1>37 DEF SeedCopy, Goto, Exit
<1>38. CASE SeedFloor
  BY <1>38 DEF SeedFloor, Goto
<1>39. CASE SeedJournal
  BY <1>39, <1>0 DEF SeedJournal
<1>40. CASE SeedPrune
  BY <1>40 DEF SeedPrune, Exit, InUse
<1>41. CASE Start
  BY <1>41 DEF Start, Goto
<1>42. CASE AgentRestart
  BY <1>42 DEF AgentRestart, AgentRestarted
<1>43. CASE Fail
  BY <1>43 DEF Fail, Goto, Exit, Refused
<1>44. CASE Crash
  BY <1>44 DEF Crash, Exit
<1>45. CASE Tick
  BY <1>45 DEF Tick
<1>46. ASSUME NEW r \in Releases, SeedBegin(r) PROVE MemoryOK'
  BY <1>46, <1>0 DEF SeedBegin
<1>47. CASE UNCHANGED vars
  BY <1>47 DEF vars
<1>. QED
  BY <1>1, <1>2, <1>3, <1>4, <1>5, <1>6, <1>7, <1>8, <1>9, <1>10, <1>11, <1>12,
     <1>13, <1>14, <1>15, <1>16, <1>17, <1>18, <1>19, <1>20, <1>21, <1>22, <1>23,
     <1>24, <1>25, <1>26, <1>27, <1>28, <1>29, <1>30, <1>31, <1>32, <1>33, <1>34,
     <1>35, <1>36, <1>37, <1>38, <1>39, <1>40, <1>41, <1>42, <1>43, <1>44, <1>45,
     <1>46, <1>47
  DEF Next, Agent, Supervisor, Recover, Accept, Seed

-----------------------------------------------------------------------------
(* Requests under work, continued.                                         *)

\* A request is taken up by a scan or by update-seed and put down at the top of
\* the loop or when the process ends.
LEMMA RequestStep ==
  ASSUME TypeOK, RequestOK, [Next]_vars
  PROVE  RequestOK'
<1>. USE DEF RequestOK, SeedPcs, AdmittedPcs, OpenedPcs, protectedVars, mailVars, supVars, agentVars, historyVars, boundVars,
         supervisorOnly, elsewhere, recoverOnly, mailboxOnly, restartOnly, publishOnly,
         answerOnly, failOnly
<1>1. CASE ReadAnnouncement
  BY <1>1 DEF ReadAnnouncement
<1>2. CASE WriteHealth
  BY <1>2 DEF WriteHealth
<1>3. ASSUME NEW r \in Releases, TakeOffer(r) PROVE RequestOK'
  BY <1>3 DEF TakeOffer
<1>4. CASE ReapResult
  BY <1>4 DEF ReapResult
<1>5. CASE Stage
  BY <1>5 DEF Stage
<1>6. CASE Download
  BY <1>6 DEF Download, Unready
<1>7. CASE ReadState
  BY <1>7 DEF ReadState, Found
<1>8. CASE RememberInterrupted
  BY <1>8 DEF RememberInterrupted, RememberThen, Remember, Goto, Exit
<1>9. CASE RememberCompleted
  BY <1>9 DEF RememberCompleted, RememberThen, Remember, Goto, Exit
<1>10. CASE RememberPending
  BY <1>10 DEF RememberPending, RememberThen, Remember, Goto, Exit
<1>11. CASE Judge
  BY <1>11 DEF Judge, Goto, Judgement
<1>12. CASE CheckDeadline
  BY <1>12 DEF CheckDeadline, Goto
<1>13. CASE FinishInterrupted
  BY <1>13 DEF FinishInterrupted, Finish, Goto
<1>14. CASE FinishHealthy
  BY <1>14 DEF FinishHealthy, Finish, Goto
<1>15. CASE FinishRolledBack
  BY <1>15 DEF FinishRolledBack, Finish, Goto
<1>16. CASE ClearAnnouncement
  BY <1>16 DEF ClearAnnouncement, Goto
<1>17. CASE ClearHealth
  BY <1>17 DEF ClearHealth, Goto
<1>18. CASE Settle
  BY <1>18 DEF Settle, Survivor
<1>19. CASE RollbackInstall
  BY <1>19 DEF RollbackInstall, Goto, Exit
<1>20. CASE RollbackRestart
  BY <1>20 DEF RollbackRestart, RestartAgent, AgentRestarted, Goto
<1>21. CASE Prune
  BY <1>21 DEF Prune, Goto, InUse
<1>22. CASE Admit
  <2>1. tx' \in Requests /\ tx'.nonce \in Nonces
    BY <1>22 DEF Admit, Examine, Fresh, TypeOK, Requests, Dirs
  <2>. QED
    BY <1>22, <2>1, NoneOK DEF Admit, Examine
<1>23. CASE TurnDown
  <2>1. tx' \in Requests /\ tx'.nonce \in Nonces
    BY <1>23 DEF TurnDown, Examine, Fresh, TypeOK, Requests, Dirs
  <2>. QED
    BY <1>23, <2>1, NoneOK DEF TurnDown, Examine
<1>24. CASE NothingToDo
  BY <1>24 DEF NothingToDo, Goto
<1>25. CASE Reserve
  BY <1>25 DEF Reserve, RememberThen, Remember, Goto, Exit
<1>26. CASE Commit
  BY <1>26 DEF Commit, OpenWindow, Goto
<1>27. CASE Arm
  BY <1>27 DEF Arm, OpenWindow, Goto
<1>28. CASE RemoveAck
  BY <1>28 DEF RemoveAck, Goto
<1>29. CASE Announce
  BY <1>29 DEF Announce, Goto
<1>30. CASE WriteJournal
  BY <1>30 DEF WriteJournal
<1>31. CASE AnswerAccepted
  BY <1>31 DEF AnswerAccepted, Goto, Answer
<1>32. CASE Install
  BY <1>32 DEF Install, Goto
<1>33. CASE RestartInstalled
  BY <1>33 DEF RestartInstalled, RestartAgent, AgentRestarted
<1>34. CASE DropCopy
  BY <1>34 DEF DropCopy, Goto, Exit
<1>35. CASE AnswerRefused
  BY <1>35 DEF AnswerRefused, Answer, Refused
<1>36. CASE SeedRemember
  BY <1>36 DEF SeedRemember, RememberThen, Remember, Goto, Exit
<1>37. CASE SeedCopy
  BY <1>37 DEF SeedCopy, Goto, Exit
<1>38. CASE SeedFloor
  BY <1>38 DEF SeedFloor, Goto
<1>39. CASE SeedJournal
  BY <1>39 DEF SeedJournal
<1>40. CASE SeedPrune
  BY <1>40 DEF SeedPrune, Exit, InUse
<1>41. CASE Start
  BY <1>41 DEF Start, Goto
<1>42. CASE AgentRestart
  BY <1>42 DEF AgentRestart, AgentRestarted
<1>43. CASE Fail
  BY <1>43 DEF Fail, Goto, Exit, Refused
<1>44. CASE Crash
  BY <1>44 DEF Crash, Exit
<1>45. CASE Tick
  BY <1>45 DEF Tick
<1>46. ASSUME NEW r \in Releases, SeedBegin(r) PROVE RequestOK'
  <2>1. tx' \in Requests /\ tx'.nonce \in SeedDirs
    BY SMTT(60), <1>46, BoundsOK DEF SeedBegin, TypeOK, Requests, Dirs, SeedDirs
  <2>. QED
    BY <1>46, <2>1, NoneOK DEF SeedBegin
<1>47. CASE UNCHANGED vars
  BY <1>47 DEF vars
<1>. QED
  BY <1>1, <1>2, <1>3, <1>4, <1>5, <1>6, <1>7, <1>8, <1>9, <1>10, <1>11, <1>12,
     <1>13, <1>14, <1>15, <1>16, <1>17, <1>18, <1>19, <1>20, <1>21, <1>22, <1>23,
     <1>24, <1>25, <1>26, <1>27, <1>28, <1>29, <1>30, <1>31, <1>32, <1>33, <1>34,
     <1>35, <1>36, <1>37, <1>38, <1>39, <1>40, <1>41, <1>42, <1>43, <1>44, <1>45,
     <1>46, <1>47
  DEF Next, Agent, Supervisor, Recover, Accept, Seed

-----------------------------------------------------------------------------
(* Genuine records.                                                        *)

\* Requests are made by Stage; every other record of one is a copy.
LEMMA GenuineStep ==
  ASSUME TypeOK, TypeOK', AgentOK, MemoryOK, RequestOK, PhaseOK, GenuineOK, [Next]_vars
  PROVE  GenuineOK'
<1>. USE DEF protectedVars, mailVars, supVars, agentVars, historyVars, boundVars,
         supervisorOnly, elsewhere, recoverOnly, mailboxOnly, restartOnly, publishOnly,
         answerOnly, failOnly
<1>1. CASE ReadAnnouncement
  BY <1>1 DEF ReadAnnouncement, GenuineOK, Genuine
<1>2. CASE WriteHealth
  BY <1>2 DEF WriteHealth, GenuineOK, Genuine
<1>3. ASSUME NEW r \in Releases, TakeOffer(r) PROVE GenuineOK'
  BY <1>3 DEF TakeOffer, GenuineOK, Genuine
<1>4. CASE ReapResult
  BY <1>4 DEF ReapResult, GenuineOK, Genuine
<1>5. CASE Stage
  <2>1. CASE incoming = {} /\ Len(offers) < MaxNonce
    <3>1. offers' = Append(offers, aRel) /\ aRel \in Releases /\ offers \in Seq(Releases)
      BY <1>5, <2>1 DEF Stage, AgentOK, TypeOK
    <3>2. \A n, r : Genuine(n, r) => Genuine(n, r)'
      BY <3>1 DEF Genuine
    <3>3. Len(offers') \in 1..Len(offers') /\ offers'[Len(offers')] = aRel
      BY <3>1
    <3>4. incoming' = {[nonce |-> Len(offers'), rel |-> aRel, ready |-> FALSE]}
      BY <1>5, <2>1 DEF Stage
    <3>5. \A q \in incoming' : Genuine(q.nonce, q.rel)'
      BY <3>1, <3>3, <3>4 DEF Genuine
    <3>6. UNCHANGED <<tx, ledger, journal>>
      BY <1>5 DEF Stage
    <3>. QED
      BY <3>2, <3>5, <3>6 DEF GenuineOK
  <2>2. CASE ~(incoming = {} /\ Len(offers) < MaxNonce)
    BY <1>5, <2>2 DEF Stage, GenuineOK, Genuine
  <2>. QED
    BY <2>1, <2>2
<1>6. CASE Download
  <2>1. \A p \in incoming' : \E q \in incoming : p.nonce = q.nonce /\ p.rel = q.rel
    BY <1>6 DEF Download, Unready, TypeOK
  <2>. QED
    BY <1>6, <2>1 DEF Download, GenuineOK, Genuine
<1>7. CASE ReadState
  BY <1>7 DEF ReadState, Found, GenuineOK, Genuine
<1>8. CASE RememberInterrupted
  <2>1. jmem = journal /\ [nonce |-> ledger.pending.nonce, rel |-> ledger.pending.rel] \in Requests
    BY <1>8, WindowFields DEF RememberInterrupted, MemoryOK, PhaseOK, RequestOK,
       AdmittedPcs, Requests, Caches
  <2>2. CASE RememberThen(ledger.pending.nonce, ledger.pending.rel, "abort")
    <3>1. Genuine(ledger.pending.nonce, ledger.pending.rel)
      BY <1>8, <2>1, <2>2 DEF RememberInterrupted, GenuineOK, PhaseOK, RequestOK,
         AdmittedPcs, SeedPcs
    <3>2. \/ Remembered(ledger.pending.nonce, ledger.pending.rel) /\ UNCHANGED tx
          \/ UNCHANGED journal /\ (UNCHANGED tx \/ tx' = None)
      BY <1>8, <2>1, <2>2, RememberEffect DEF Proceeds, Abandons, Goto, Exit
    <3>3. \A x \in journal'.consumed : Genuine(x.nonce, x.rel)
      BY <3>1, <3>2 DEF GenuineOK, Remembered
    <3>4. UNCHANGED <<offers, incoming, ledger>>
      BY <1>8 DEF RememberInterrupted
    <3>. QED
      BY <3>2, <3>3, <3>4 DEF GenuineOK, Genuine, Remembered
  <2>. QED
    BY <1>8, <2>2 DEF RememberInterrupted, Goto, Exit, GenuineOK, Genuine
<1>9. CASE RememberCompleted
  <2>1. jmem = journal /\ [nonce |-> jmem.pending.nonce, rel |-> jmem.pending.rel] \in Requests
    BY <1>9, JournalFields DEF RememberCompleted, MemoryOK, PhaseOK, RequestOK, AdmittedPcs,
       Requests, Caches
  <2>2. CASE RememberThen(jmem.pending.nonce, jmem.pending.rel, "settle")
    <3>1. Genuine(jmem.pending.nonce, jmem.pending.rel)
      BY <1>9, <2>1, <2>2 DEF RememberCompleted, GenuineOK, PhaseOK, RequestOK, AdmittedPcs,
         SeedPcs
    <3>2. \/ Remembered(jmem.pending.nonce, jmem.pending.rel) /\ UNCHANGED tx
          \/ UNCHANGED journal /\ (UNCHANGED tx \/ tx' = None)
      BY <1>9, <2>1, <2>2, RememberEffect DEF Proceeds, Abandons, Goto, Exit
    <3>3. \A x \in journal'.consumed : Genuine(x.nonce, x.rel)
      BY <3>1, <3>2 DEF GenuineOK, Remembered
    <3>4. UNCHANGED <<offers, incoming, ledger>>
      BY <1>9 DEF RememberCompleted
    <3>. QED
      BY <3>2, <3>3, <3>4 DEF GenuineOK, Genuine, Remembered
  <2>3. CASE Exit /\ UNCHANGED journal
    BY <1>9, <2>3 DEF RememberCompleted, Exit, GenuineOK, Genuine
  <2>. QED
    BY <1>9, <2>2, <2>3 DEF RememberCompleted
<1>10. CASE RememberPending
  <2>1. jmem = journal /\ [nonce |-> jmem.pending.nonce, rel |-> jmem.pending.rel] \in Requests
    BY <1>10, JournalFields DEF RememberPending, MemoryOK, PhaseOK, RequestOK, AdmittedPcs,
       Requests, Caches
  <2>2. CASE RememberThen(jmem.pending.nonce, jmem.pending.rel, "judge")
    <3>1. Genuine(jmem.pending.nonce, jmem.pending.rel)
      BY <1>10, <2>1, <2>2 DEF RememberPending, GenuineOK, PhaseOK, RequestOK, AdmittedPcs,
         SeedPcs
    <3>2. \/ Remembered(jmem.pending.nonce, jmem.pending.rel) /\ UNCHANGED tx
          \/ UNCHANGED journal /\ (UNCHANGED tx \/ tx' = None)
      BY <1>10, <2>1, <2>2, RememberEffect DEF Proceeds, Abandons, Goto, Exit
    <3>3. \A x \in journal'.consumed : Genuine(x.nonce, x.rel)
      BY <3>1, <3>2 DEF GenuineOK, Remembered
    <3>4. UNCHANGED <<offers, incoming, ledger>>
      BY <1>10 DEF RememberPending
    <3>. QED
      BY <3>2, <3>3, <3>4 DEF GenuineOK, Genuine, Remembered
  <2>3. CASE Exit /\ UNCHANGED journal
    BY <1>10, <2>3 DEF RememberPending, Exit, GenuineOK, Genuine
  <2>. QED
    BY <1>10, <2>2, <2>3 DEF RememberPending
<1>11. CASE Judge
  BY <1>11 DEF Judge, Goto, Judgement, GenuineOK, Genuine
<1>12. CASE CheckDeadline
  BY <1>12 DEF CheckDeadline, Goto, GenuineOK, Genuine
<1>13. CASE FinishInterrupted
  <2>1. ledger'.pending = None
    BY <1>13 DEF FinishInterrupted, Finish
  <2>. QED
    BY <1>13, <2>1 DEF FinishInterrupted, Finish, Goto, GenuineOK, Genuine
<1>14. CASE FinishHealthy
  <2>1. ledger'.pending = None
    BY <1>14 DEF FinishHealthy, Finish
  <2>. QED
    BY <1>14, <2>1 DEF FinishHealthy, Finish, Goto, GenuineOK, Genuine
<1>15. CASE FinishRolledBack
  <2>1. ledger'.pending = None
    BY <1>15 DEF FinishRolledBack, Finish
  <2>. QED
    BY <1>15, <2>1 DEF FinishRolledBack, Finish, Goto, GenuineOK, Genuine
<1>16. CASE ClearAnnouncement
  BY <1>16 DEF ClearAnnouncement, Goto, GenuineOK, Genuine
<1>17. CASE ClearHealth
  BY <1>17 DEF ClearHealth, Goto, GenuineOK, Genuine
<1>18. CASE Settle
  <2>1. jmem = journal /\ journal.pending # None /\ journal' \in Journals /\ journal \in Journals
    BY <1>18 DEF Settle, MemoryOK, PhaseOK, TypeOK
  <2>2. journal'.consumed = journal.consumed /\ journal'.pending = None
    BY <1>18, <2>1 DEF Settle, Journals
  <2>3. \/ journal'.active = journal.active
        \/ /\ journal'.active.dir = journal.pending.nonce
          /\ journal'.active.rel = journal.pending.rel
    BY <1>18, <2>1 DEF Settle, Survivor, Journals
  <2>. QED
    BY <1>18, <2>1, <2>2, <2>3 DEF Settle, GenuineOK, Genuine
<1>19. CASE RollbackInstall
  BY <1>19 DEF RollbackInstall, Goto, Exit, GenuineOK, Genuine
<1>20. CASE RollbackRestart
  BY <1>20 DEF RollbackRestart, RestartAgent, AgentRestarted, Goto, GenuineOK, Genuine
<1>21. CASE Prune
  BY <1>21 DEF Prune, Goto, InUse, GenuineOK, Genuine
<1>22. CASE Admit
  <2>1. PICK q \in incoming : tx' = [nonce |-> q.nonce, rel |-> q.rel]
    BY <1>22 DEF Admit, Examine, Fresh
  <2>2. UNCHANGED <<incoming, journal, ledger, offers>>
    BY <1>22 DEF Admit, Examine
  <2>. QED
    BY <2>1, <2>2 DEF GenuineOK, Genuine
<1>23. CASE TurnDown
  <2>1. PICK q \in incoming : tx' = [nonce |-> q.nonce, rel |-> q.rel]
    BY <1>23 DEF TurnDown, Examine, Fresh
  <2>2. UNCHANGED <<incoming, journal, ledger, offers>>
    BY <1>23 DEF TurnDown, Examine
  <2>. QED
    BY <2>1, <2>2 DEF GenuineOK, Genuine
<1>24. CASE NothingToDo
  BY <1>24 DEF NothingToDo, Goto, GenuineOK, Genuine
<1>25. CASE Reserve
  <2>1. jmem = journal /\ [nonce |-> tx.nonce, rel |-> tx.rel] \in Requests
    BY <1>25, AtRequest DEF Reserve, MemoryOK, PhaseOK, RequestOK, AdmittedPcs, Requests,
       Caches
  <2>2. CASE RememberThen(tx.nonce, tx.rel, "commit")
    <3>1. Genuine(tx.nonce, tx.rel)
      BY <1>25, <2>1, <2>2 DEF Reserve, GenuineOK, PhaseOK, RequestOK, AdmittedPcs, SeedPcs
    <3>2. \/ Remembered(tx.nonce, tx.rel) /\ UNCHANGED tx
          \/ UNCHANGED journal /\ (UNCHANGED tx \/ tx' = None)
      BY <1>25, <2>1, <2>2, RememberEffect DEF Proceeds, Abandons, Goto, Exit
    <3>3. \A x \in journal'.consumed : Genuine(x.nonce, x.rel)
      BY <3>1, <3>2 DEF GenuineOK, Remembered
    <3>4. UNCHANGED <<offers, incoming, ledger>>
      BY <1>25 DEF Reserve
    <3>. QED
      BY <3>2, <3>3, <3>4 DEF GenuineOK, Genuine, Remembered
  <2>. QED
    BY <1>25, <2>2 DEF Reserve, Goto, Exit, GenuineOK, Genuine
<1>26. CASE Commit
  <2>1. tx # None /\ tx.nonce \in Nonces
    BY <1>26 DEF Commit, OpenWindow, RequestOK, AdmittedPcs, OpenedPcs, SeedPcs
  <2>2. ledger'.pending.nonce = tx.nonce /\ ledger'.pending.rel = tx.rel
    BY <1>26 DEF Commit, OpenWindow, Window, TypeOK
  <2>. QED
    BY <1>26, <2>1, <2>2 DEF Commit, OpenWindow, Goto, GenuineOK, Genuine
<1>27. CASE Arm
  <2>1. tx # None /\ tx.nonce \in Nonces
    BY <1>27 DEF Arm, OpenWindow, RequestOK, AdmittedPcs, OpenedPcs, SeedPcs
  <2>2. ledger'.pending.nonce = tx.nonce /\ ledger'.pending.rel = tx.rel
    BY <1>27 DEF Arm, OpenWindow, Window, TypeOK
  <2>. QED
    BY <1>27, <2>1, <2>2 DEF Arm, OpenWindow, Goto, GenuineOK, Genuine
<1>28. CASE RemoveAck
  BY <1>28 DEF RemoveAck, Goto, GenuineOK, Genuine
<1>29. CASE Announce
  BY <1>29 DEF Announce, Goto, GenuineOK, Genuine
<1>30. CASE WriteJournal
  <2>1. tx # None /\ tx.nonce \in Nonces /\ jmem = journal
    BY <1>30 DEF WriteJournal, RequestOK, MemoryOK, AdmittedPcs, OpenedPcs, SeedPcs
  <2>2. /\ journal'.pending = tx /\ journal'.consumed = journal.consumed
        /\ journal'.active = journal.active
    BY <1>30, <2>1 DEF WriteJournal, TypeOK, Journals
  <2>. QED
    BY <1>30, <2>1, <2>2 DEF WriteJournal, GenuineOK, Genuine
<1>31. CASE AnswerAccepted
  BY <1>31 DEF AnswerAccepted, Goto, Answer, GenuineOK, Genuine
<1>32. CASE Install
  BY <1>32 DEF Install, Goto, GenuineOK, Genuine
<1>33. CASE RestartInstalled
  BY <1>33 DEF RestartInstalled, RestartAgent, AgentRestarted, GenuineOK, Genuine
<1>34. CASE DropCopy
  BY <1>34 DEF DropCopy, Goto, Exit, GenuineOK, Genuine
<1>35. CASE AnswerRefused
  BY <1>35 DEF AnswerRefused, Answer, Refused, GenuineOK, Genuine
<1>36. CASE SeedRemember
  <2>1. jmem = journal /\ [nonce |-> jmem.active.dir, rel |-> jmem.active.rel] \in Requests
    BY <1>36, JournalFields DEF SeedRemember, MemoryOK, PhaseOK, RequestOK, AdmittedPcs,
       Requests, Caches
  <2>2. CASE jmem.active.dir \in Nonces
    <3>0. RememberThen(jmem.active.dir, jmem.active.rel, "seedCopy")
      BY <1>36, <2>2 DEF SeedRemember
    <3>1. Genuine(jmem.active.dir, jmem.active.rel)
      BY <1>36, <2>1, <2>2 DEF SeedRemember, GenuineOK, PhaseOK, RequestOK, AdmittedPcs,
         SeedPcs
    <3>2. \/ Remembered(jmem.active.dir, jmem.active.rel) /\ UNCHANGED tx
          \/ UNCHANGED journal /\ (UNCHANGED tx \/ tx' = None)
      BY <1>36, <2>1, <3>0, RememberEffect DEF Proceeds, Abandons, Goto, Exit
    <3>3. \A x \in journal'.consumed : Genuine(x.nonce, x.rel)
      BY <3>1, <3>2 DEF GenuineOK, Remembered
    <3>4. UNCHANGED <<offers, incoming, ledger>>
      BY <1>36 DEF SeedRemember
    <3>. QED
      BY <3>2, <3>3, <3>4 DEF GenuineOK, Genuine, Remembered
  <2>3. CASE jmem.active.dir \notin Nonces
    BY <1>36, <2>3 DEF SeedRemember, Goto, GenuineOK, Genuine
  <2>. QED
    BY <1>36, <2>2, <2>3 DEF SeedRemember, Goto, Exit, GenuineOK, Genuine
<1>37. CASE SeedCopy
  BY <1>37 DEF SeedCopy, Goto, Exit, GenuineOK, Genuine
<1>38. CASE SeedFloor
  <2>1. ledger'.pending = ledger.pending
    BY <1>38 DEF SeedFloor, TypeOK
  <2>. QED
    BY <1>38, <2>1 DEF SeedFloor, Goto, GenuineOK, Genuine
<1>39. CASE SeedJournal
  <2>1. tx.nonce \in SeedDirs /\ tx.nonce \notin Nonces /\ jmem = journal
    BY <1>39, BoundsOK DEF SeedJournal, RequestOK, MemoryOK, SeedPcs, SeedDirs, Nonces
  <2>2. /\ journal'.pending = journal.pending /\ journal'.consumed = journal.consumed
        /\ journal'.active.dir = tx.nonce
    BY <1>39, <2>1 DEF SeedJournal, TypeOK, Journals
  <2>. QED
    BY <1>39, <2>1, <2>2 DEF SeedJournal, GenuineOK, Genuine
<1>40. CASE SeedPrune
  BY <1>40 DEF SeedPrune, Exit, InUse, GenuineOK, Genuine
<1>41. CASE Start
  BY <1>41 DEF Start, Goto, GenuineOK, Genuine
<1>42. CASE AgentRestart
  BY <1>42 DEF AgentRestart, AgentRestarted, GenuineOK, Genuine
<1>43. CASE Fail
  BY <1>43 DEF Fail, Goto, Exit, Refused, GenuineOK, Genuine
<1>44. CASE Crash
  BY <1>44 DEF Crash, Exit, GenuineOK, Genuine
<1>45. CASE Tick
  BY <1>45 DEF Tick, GenuineOK, Genuine
<1>46. ASSUME NEW r \in Releases, SeedBegin(r) PROVE GenuineOK'
  <2>1. tx'.nonce \notin Nonces
    BY SMTT(60), <1>46, BoundsOK DEF SeedBegin, TypeOK, Nonces
  <2>. QED
    BY <1>46, <2>1 DEF SeedBegin, GenuineOK, Genuine
<1>47. CASE UNCHANGED vars
  BY <1>47 DEF vars, GenuineOK, Genuine
<1>. QED
  BY <1>1, <1>2, <1>3, <1>4, <1>5, <1>6, <1>7, <1>8, <1>9, <1>10, <1>11, <1>12,
     <1>13, <1>14, <1>15, <1>16, <1>17, <1>18, <1>19, <1>20, <1>21, <1>22, <1>23,
     <1>24, <1>25, <1>26, <1>27, <1>28, <1>29, <1>30, <1>31, <1>32, <1>33, <1>34,
     <1>35, <1>36, <1>37, <1>38, <1>39, <1>40, <1>41, <1>42, <1>43, <1>44, <1>45,
     <1>46, <1>47
  DEF Next, Agent, Supervisor, Recover, Accept, Seed

-----------------------------------------------------------------------------
(* Agreement of ledger and journal.                                        *)

\* The ledger is written before the journal when a transaction opens and when it
\* ends, and recovery reads both before it goes on.
LEMMA PhaseStep ==
  ASSUME TypeOK, TypeOK', MemoryOK, RequestOK, PhaseOK, [Next]_vars
  PROVE  PhaseOK'
<1>. USE DEF protectedVars, mailVars, supVars, agentVars, historyVars, boundVars,
         supervisorOnly, elsewhere, recoverOnly, mailboxOnly, restartOnly, publishOnly,
         answerOnly, failOnly
<1>1. CASE ReadAnnouncement
  BY <1>1 DEF ReadAnnouncement, PhaseOK, NoRepairNeeded, Last, LedgerHas, OpenedPcs,
     JudgedPcs, SeedPcs
<1>2. CASE WriteHealth
  BY <1>2 DEF WriteHealth, PhaseOK, NoRepairNeeded, Last, LedgerHas, OpenedPcs, JudgedPcs,
     SeedPcs
<1>3. ASSUME NEW r \in Releases, TakeOffer(r) PROVE PhaseOK'
  BY <1>3 DEF TakeOffer, PhaseOK, NoRepairNeeded, Last, LedgerHas, OpenedPcs, JudgedPcs,
     SeedPcs
<1>4. CASE ReapResult
  BY <1>4 DEF ReapResult, PhaseOK, NoRepairNeeded, Last, LedgerHas, OpenedPcs, JudgedPcs,
     SeedPcs
<1>5. CASE Stage
  BY <1>5 DEF Stage, PhaseOK, NoRepairNeeded, Last, LedgerHas, OpenedPcs, JudgedPcs, SeedPcs
<1>6. CASE Download
  BY <1>6 DEF Download, Unready, PhaseOK, NoRepairNeeded, Last, LedgerHas, OpenedPcs,
     JudgedPcs, SeedPcs
<1>7. CASE ReadState
  BY <1>7 DEF ReadState, Found, PhaseOK, NoRepairNeeded, Last, LedgerHas, OpenedPcs,
     JudgedPcs, SeedPcs, MemoryOK, RequestOK, AdmittedPcs
<1>8. CASE RememberInterrupted
  <2>1. jmem = journal /\ [nonce |-> ledger.pending.nonce, rel |-> ledger.pending.rel] \in Requests
    BY <1>8, WindowFields DEF RememberInterrupted, MemoryOK, PhaseOK, RequestOK,
       AdmittedPcs, Requests, Caches
  <2>2. CASE RememberThen(ledger.pending.nonce, ledger.pending.rel, "abort")
    <3>0. (Remembered(ledger.pending.nonce, ledger.pending.rel) /\ Proceeds("abort")) \/ Abandons
      BY <1>8, <2>1, <2>2, RememberEffect
    <3>1. \/ journal'.pending = journal.pending /\ sPc' = "abort" /\ tx' = tx
          \/ journal' = journal /\ sPc' = "down" /\ sPc # "reserve" /\ tx' = None
          \/ journal' = journal /\ tx' = tx /\ sPc = "reserve" /\ sPc' = "drop"
      BY <3>0 DEF Remembered, Proceeds, Abandons, Exit
    <3>2. UNCHANGED ledger
      BY <1>8 DEF RememberInterrupted
    <3>. QED
      BY <1>8, <3>1, <3>2 DEF RememberInterrupted, PhaseOK, NoRepairNeeded, Last, LedgerHas,
         RequestOK, AdmittedPcs, OpenedPcs, JudgedPcs, SeedPcs
  <2>3. CASE UNCHANGED <<ledger, journal>> /\ sPc' = "down"
    BY <1>8, <2>3 DEF RememberInterrupted, PhaseOK, NoRepairNeeded, Last, LedgerHas,
       OpenedPcs, JudgedPcs, SeedPcs
  <2>. QED
    BY <1>8, <2>2, <2>3 DEF RememberInterrupted, Goto, Exit
<1>9. CASE RememberCompleted
  <2>1. jmem = journal /\ [nonce |-> jmem.pending.nonce, rel |-> jmem.pending.rel] \in Requests
    BY <1>9, JournalFields DEF RememberCompleted, MemoryOK, PhaseOK, RequestOK, AdmittedPcs,
       Requests, Caches
  <2>2. CASE RememberThen(jmem.pending.nonce, jmem.pending.rel, "settle")
    <3>0. (Remembered(jmem.pending.nonce, jmem.pending.rel) /\ Proceeds("settle")) \/ Abandons
      BY <1>9, <2>1, <2>2, RememberEffect
    <3>1. \/ journal'.pending = journal.pending /\ sPc' = "settle" /\ tx' = tx
          \/ journal' = journal /\ sPc' = "down" /\ sPc # "reserve" /\ tx' = None
          \/ journal' = journal /\ tx' = tx /\ sPc = "reserve" /\ sPc' = "drop"
      BY <3>0 DEF Remembered, Proceeds, Abandons, Exit
    <3>2. UNCHANGED ledger
      BY <1>9 DEF RememberCompleted
    <3>. QED
      BY <1>9, <3>1, <3>2 DEF RememberCompleted, PhaseOK, NoRepairNeeded, Last, LedgerHas,
         RequestOK, AdmittedPcs, OpenedPcs, JudgedPcs, SeedPcs
  <2>3. CASE UNCHANGED <<ledger, journal>> /\ sPc' = "down"
    BY <1>9, <2>3 DEF RememberCompleted, PhaseOK, NoRepairNeeded, Last, LedgerHas,
       OpenedPcs, JudgedPcs, SeedPcs
  <2>. QED
    BY <1>9, <2>2, <2>3 DEF RememberCompleted, Goto, Exit
<1>10. CASE RememberPending
  <2>1. jmem = journal /\ [nonce |-> jmem.pending.nonce, rel |-> jmem.pending.rel] \in Requests
    BY <1>10, JournalFields DEF RememberPending, MemoryOK, PhaseOK, RequestOK, AdmittedPcs,
       Requests, Caches
  <2>2. CASE RememberThen(jmem.pending.nonce, jmem.pending.rel, "judge")
    <3>0. (Remembered(jmem.pending.nonce, jmem.pending.rel) /\ Proceeds("judge")) \/ Abandons
      BY <1>10, <2>1, <2>2, RememberEffect
    <3>1. \/ journal'.pending = journal.pending /\ sPc' = "judge" /\ tx' = tx
          \/ journal' = journal /\ sPc' = "down" /\ sPc # "reserve" /\ tx' = None
          \/ journal' = journal /\ tx' = tx /\ sPc = "reserve" /\ sPc' = "drop"
      BY <3>0 DEF Remembered, Proceeds, Abandons, Exit
    <3>2. UNCHANGED ledger
      BY <1>10 DEF RememberPending
    <3>. QED
      BY <1>10, <3>1, <3>2 DEF RememberPending, PhaseOK, NoRepairNeeded, Last, LedgerHas,
         RequestOK, AdmittedPcs, OpenedPcs, JudgedPcs, SeedPcs
  <2>3. CASE UNCHANGED <<ledger, journal>> /\ sPc' = "down"
    BY <1>10, <2>3 DEF RememberPending, PhaseOK, NoRepairNeeded, Last, LedgerHas, OpenedPcs,
       JudgedPcs, SeedPcs
  <2>. QED
    BY <1>10, <2>2, <2>3 DEF RememberPending, Goto, Exit
<1>11. CASE Judge
  BY <1>11 DEF Judge, Goto, Judgement, PhaseOK, NoRepairNeeded, Last, LedgerHas, OpenedPcs,
     JudgedPcs, SeedPcs
<1>12. CASE CheckDeadline
  BY <1>12 DEF CheckDeadline, Goto, PhaseOK, NoRepairNeeded, Last, LedgerHas, OpenedPcs,
     JudgedPcs, SeedPcs
<1>13. CASE FinishInterrupted
  <2>1. ledger.pending # None /\ (journal.pending # None => LedgerHas(journal.pending))
    BY <1>13 DEF FinishInterrupted, PhaseOK, NoRepairNeeded, Last, LedgerHas, OpenedPcs,
       JudgedPcs, SeedPcs
  <2>2. PICK outcome \in Outcomes : Finish(outcome)
    BY <1>13 DEF FinishInterrupted, Outcomes
  <2>3. /\ ledger'.pending = None /\ ledger'.history # << >>
        /\ Last'.nonce = ledger.pending.nonce /\ Last'.rel = ledger.pending.rel
    BY <2>1, <2>2, FinishEffect
  <2>4. UNCHANGED journal /\ sPc' = "clear"
    BY <1>13 DEF FinishInterrupted, Finish, Goto
  <2>. QED
    BY <2>1, <2>3, <2>4 DEF PhaseOK, NoRepairNeeded, LedgerHas, OpenedPcs, JudgedPcs, SeedPcs
<1>14. CASE FinishHealthy
  <2>1. ledger.pending # None /\ (journal.pending # None => LedgerHas(journal.pending))
    BY <1>14 DEF FinishHealthy, PhaseOK, NoRepairNeeded, Last, LedgerHas, OpenedPcs,
       JudgedPcs, SeedPcs
  <2>2. PICK outcome \in Outcomes : Finish(outcome)
    BY <1>14 DEF FinishHealthy, Outcomes
  <2>3. /\ ledger'.pending = None /\ ledger'.history # << >>
        /\ Last'.nonce = ledger.pending.nonce /\ Last'.rel = ledger.pending.rel
    BY <2>1, <2>2, FinishEffect
  <2>4. UNCHANGED journal /\ sPc' = "clear"
    BY <1>14 DEF FinishHealthy, Finish, Goto
  <2>. QED
    BY <2>1, <2>3, <2>4 DEF PhaseOK, NoRepairNeeded, LedgerHas, OpenedPcs, JudgedPcs, SeedPcs
<1>15. CASE FinishRolledBack
  <2>1. ledger.pending # None /\ (journal.pending # None => LedgerHas(journal.pending))
    BY <1>15 DEF FinishRolledBack, PhaseOK, NoRepairNeeded, Last, LedgerHas, OpenedPcs,
       JudgedPcs, SeedPcs
  <2>2. PICK outcome \in Outcomes : Finish(outcome)
    BY <1>15 DEF FinishRolledBack, Outcomes
  <2>3. /\ ledger'.pending = None /\ ledger'.history # << >>
        /\ Last'.nonce = ledger.pending.nonce /\ Last'.rel = ledger.pending.rel
    BY <2>1, <2>2, FinishEffect
  <2>4. UNCHANGED journal /\ sPc' = "clear"
    BY <1>15 DEF FinishRolledBack, Finish, Goto
  <2>. QED
    BY <2>1, <2>3, <2>4 DEF PhaseOK, NoRepairNeeded, LedgerHas, OpenedPcs, JudgedPcs, SeedPcs
<1>16. CASE ClearAnnouncement
  BY <1>16 DEF ClearAnnouncement, Goto, PhaseOK, NoRepairNeeded, Last, LedgerHas, OpenedPcs,
     JudgedPcs, SeedPcs
<1>17. CASE ClearHealth
  BY <1>17 DEF ClearHealth, Goto, PhaseOK, NoRepairNeeded, Last, LedgerHas, OpenedPcs,
     JudgedPcs, SeedPcs, MemoryOK, RequestOK, AdmittedPcs
<1>18. CASE Settle
  <2>1. jmem = journal /\ journal \in Journals /\ ledger.pending = None
    BY <1>18 DEF Settle, MemoryOK, PhaseOK, TypeOK
  <2>2. journal'.pending = None
    BY <1>18, <2>1 DEF Settle, Journals
  <2>. QED
    BY <1>18, <2>1, <2>2 DEF Settle, PhaseOK, NoRepairNeeded, Last, LedgerHas, OpenedPcs,
       JudgedPcs, SeedPcs
<1>19. CASE RollbackInstall
  BY <1>19 DEF RollbackInstall, Goto, Exit, PhaseOK, NoRepairNeeded, Last, LedgerHas,
     OpenedPcs, JudgedPcs, SeedPcs
<1>20. CASE RollbackRestart
  BY <1>20 DEF RollbackRestart, RestartAgent, AgentRestarted, Goto, PhaseOK, NoRepairNeeded,
     Last, LedgerHas, OpenedPcs, JudgedPcs, SeedPcs
<1>21. CASE Prune
  BY <1>21 DEF Prune, Goto, InUse, PhaseOK, NoRepairNeeded, Last, LedgerHas, OpenedPcs,
     JudgedPcs, SeedPcs, MemoryOK, RequestOK, AdmittedPcs
<1>22. CASE Admit
  BY <1>22 DEF Admit, Examine, Fresh, Acceptable, PhaseOK, NoRepairNeeded, Last, LedgerHas,
     OpenedPcs, JudgedPcs, SeedPcs
<1>23. CASE TurnDown
  BY <1>23 DEF TurnDown, Examine, Fresh, PhaseOK, NoRepairNeeded, Last, LedgerHas,
     OpenedPcs, JudgedPcs, SeedPcs
<1>24. CASE NothingToDo
  BY <1>24 DEF NothingToDo, Goto, PhaseOK, NoRepairNeeded, Last, LedgerHas, OpenedPcs,
     JudgedPcs, SeedPcs
<1>25. CASE Reserve
  <2>1. jmem = journal /\ [nonce |-> tx.nonce, rel |-> tx.rel] \in Requests
    BY <1>25, AtRequest DEF Reserve, MemoryOK, PhaseOK, RequestOK, AdmittedPcs, Requests,
       Caches
  <2>2. CASE RememberThen(tx.nonce, tx.rel, "commit")
    <3>0. (Remembered(tx.nonce, tx.rel) /\ Proceeds("commit")) \/ Abandons
      BY <1>25, <2>1, <2>2, RememberEffect
    <3>1. \/ journal'.pending = journal.pending /\ sPc' = "commit" /\ tx' = tx
          \/ journal' = journal /\ sPc' = "down" /\ sPc # "reserve" /\ tx' = None
          \/ journal' = journal /\ tx' = tx /\ sPc = "reserve" /\ sPc' = "drop"
      BY <3>0 DEF Remembered, Proceeds, Abandons, Exit
    <3>2. UNCHANGED ledger
      BY <1>25 DEF Reserve
    <3>. QED
      BY <1>25, <3>1, <3>2 DEF Reserve, PhaseOK, NoRepairNeeded, Last, LedgerHas, RequestOK,
         AdmittedPcs, OpenedPcs, JudgedPcs, SeedPcs
  <2>3. CASE UNCHANGED <<ledger, journal>> /\ sPc' = "down"
    BY <1>25, <2>3 DEF Reserve, PhaseOK, NoRepairNeeded, Last, LedgerHas, OpenedPcs,
       JudgedPcs, SeedPcs
  <2>. QED
    BY <1>25, <2>2, <2>3 DEF Reserve, Goto, Exit
<1>26. CASE Commit
  <2>1. tx \in Requests /\ tx # None /\ tx.nonce \in Nonces /\ tx.rel \in Releases
    BY <1>26, AtRequest DEF Commit, OpenWindow, RequestOK, AdmittedPcs, OpenedPcs, SeedPcs
  <2>2. ledger'.pending = Window /\ Window.nonce = tx.nonce /\ Window.rel = tx.rel
    BY <1>26 DEF Commit, OpenWindow, Window, TypeOK
  <2>3. Window # None
    <3>1. now \in Nat /\ HealthTimeout \in Nat
      BY BoundsOK DEF TypeOK
    <3>2. Window \in Windows
      BY <2>1, <3>1 DEF Window, Windows
    <3>. QED
      BY <3>2, NoneOK
  <2>4. UNCHANGED <<journal, tx>> /\ sPc' = "unack"
    BY <1>26 DEF Commit, OpenWindow, Goto
  <2>. QED
    BY <1>26, <2>1, <2>2, <2>3, <2>4 DEF Commit, OpenWindow, PhaseOK, NoRepairNeeded, Last,
       LedgerHas, OpenedPcs, JudgedPcs, SeedPcs
<1>27. CASE Arm
  <2>1. tx \in Requests /\ tx # None /\ tx.nonce \in Nonces /\ tx.rel \in Releases
    BY <1>27, AtRequest DEF Arm, OpenWindow, RequestOK, AdmittedPcs, OpenedPcs, SeedPcs
  <2>2. ledger'.pending = Window /\ Window.nonce = tx.nonce /\ Window.rel = tx.rel
    BY <1>27 DEF Arm, OpenWindow, Window, TypeOK
  <2>3. Window # None
    <3>1. now \in Nat /\ HealthTimeout \in Nat
      BY BoundsOK DEF TypeOK
    <3>2. Window \in Windows
      BY <2>1, <3>1 DEF Window, Windows
    <3>. QED
      BY <3>2, NoneOK
  <2>4. UNCHANGED <<journal, tx>> /\ sPc' = "unack"
    BY <1>27 DEF Arm, OpenWindow, Goto
  <2>. QED
    BY <1>27, <2>1, <2>2, <2>3, <2>4 DEF Arm, OpenWindow, PhaseOK, NoRepairNeeded, Last,
       LedgerHas, OpenedPcs, JudgedPcs, SeedPcs
<1>28. CASE RemoveAck
  BY <1>28 DEF RemoveAck, Goto, PhaseOK, NoRepairNeeded, Last, LedgerHas, OpenedPcs,
     JudgedPcs, SeedPcs
<1>29. CASE Announce
  BY <1>29 DEF Announce, Goto, PhaseOK, NoRepairNeeded, Last, LedgerHas, OpenedPcs,
     JudgedPcs, SeedPcs, MemoryOK, RequestOK, AdmittedPcs
<1>30. CASE WriteJournal
  <2>1. jmem = journal /\ tx # None /\ tx.nonce \in Nonces
    BY <1>30 DEF WriteJournal, MemoryOK, RequestOK, AdmittedPcs, OpenedPcs, SeedPcs
  <2>2. journal'.pending = tx /\ UNCHANGED <<ledger, tx>>
    BY <1>30, <2>1 DEF WriteJournal, TypeOK, Journals
  <2>. QED
    BY <1>30, <2>1, <2>2 DEF WriteJournal, PhaseOK, NoRepairNeeded, Last, LedgerHas,
       OpenedPcs, JudgedPcs, SeedPcs
<1>31. CASE AnswerAccepted
  BY <1>31 DEF AnswerAccepted, Goto, Answer, PhaseOK, NoRepairNeeded, Last, LedgerHas,
     OpenedPcs, JudgedPcs, SeedPcs
<1>32. CASE Install
  BY <1>32 DEF Install, Goto, PhaseOK, NoRepairNeeded, Last, LedgerHas, OpenedPcs,
     JudgedPcs, SeedPcs
<1>33. CASE RestartInstalled
  BY <1>33 DEF RestartInstalled, RestartAgent, AgentRestarted, PhaseOK, NoRepairNeeded,
     Last, LedgerHas, OpenedPcs, JudgedPcs, SeedPcs
<1>34. CASE DropCopy
  BY <1>34 DEF DropCopy, Goto, Exit, PhaseOK, NoRepairNeeded, Last, LedgerHas, OpenedPcs,
     JudgedPcs, SeedPcs, MemoryOK, RequestOK, AdmittedPcs
<1>35. CASE AnswerRefused
  BY <1>35 DEF AnswerRefused, Answer, Refused, PhaseOK, NoRepairNeeded, Last, LedgerHas,
     OpenedPcs, JudgedPcs, SeedPcs
<1>36. CASE SeedRemember
  <2>1. jmem = journal /\ [nonce |-> jmem.active.dir, rel |-> jmem.active.rel] \in Requests
    BY <1>36, JournalFields DEF SeedRemember, MemoryOK, PhaseOK, RequestOK, AdmittedPcs,
       Requests, Caches
  <2>2. CASE RememberThen(jmem.active.dir, jmem.active.rel, "seedCopy")
    <3>0. (Remembered(jmem.active.dir, jmem.active.rel) /\ Proceeds("seedCopy")) \/ Abandons
      BY <1>36, <2>1, <2>2, RememberEffect
    <3>1. \/ journal'.pending = journal.pending /\ sPc' = "seedCopy" /\ tx' = tx
          \/ journal' = journal /\ sPc' = "down" /\ sPc # "reserve" /\ tx' = None
          \/ journal' = journal /\ tx' = tx /\ sPc = "reserve" /\ sPc' = "drop"
      BY <3>0 DEF Remembered, Proceeds, Abandons, Exit
    <3>2. UNCHANGED ledger
      BY <1>36 DEF SeedRemember
    <3>. QED
      BY <1>36, <3>1, <3>2 DEF SeedRemember, PhaseOK, NoRepairNeeded, Last, LedgerHas,
         RequestOK, AdmittedPcs, OpenedPcs, JudgedPcs, SeedPcs
  <2>3. CASE UNCHANGED <<ledger, journal>> /\ sPc' = "seedCopy"
    BY <1>36, <2>3 DEF SeedRemember, PhaseOK, NoRepairNeeded, Last, LedgerHas, OpenedPcs,
       JudgedPcs, SeedPcs
  <2>. QED
    BY <1>36, <2>2, <2>3 DEF SeedRemember, Goto, Exit
<1>37. CASE SeedCopy
  BY <1>37 DEF SeedCopy, Goto, Exit, PhaseOK, NoRepairNeeded, Last, LedgerHas, OpenedPcs,
     JudgedPcs, SeedPcs
<1>38. CASE SeedFloor
  <2>1. ledger'.pending = ledger.pending /\ UNCHANGED journal /\ sPc' = "seedJournal"
    BY <1>38 DEF SeedFloor, TypeOK, Goto
  <2>. QED
    BY <1>38, <2>1 DEF SeedFloor, PhaseOK, NoRepairNeeded, Last, LedgerHas, OpenedPcs,
       JudgedPcs, SeedPcs
<1>39. CASE SeedJournal
  <2>1. jmem = journal /\ journal \in Journals
    BY <1>39 DEF SeedJournal, MemoryOK, TypeOK
  <2>2. journal'.pending = journal.pending /\ UNCHANGED <<ledger, tx>>
    BY <1>39, <2>1 DEF SeedJournal, Journals
  <2>. QED
    BY <1>39, <2>1, <2>2 DEF SeedJournal, PhaseOK, NoRepairNeeded, Last, LedgerHas,
       OpenedPcs, JudgedPcs, SeedPcs
<1>40. CASE SeedPrune
  BY <1>40 DEF SeedPrune, Exit, InUse, PhaseOK, NoRepairNeeded, Last, LedgerHas, OpenedPcs,
     JudgedPcs, SeedPcs
<1>41. CASE Start
  BY <1>41 DEF Start, Goto, PhaseOK, NoRepairNeeded, Last, LedgerHas, OpenedPcs, JudgedPcs,
     SeedPcs
<1>42. CASE AgentRestart
  BY <1>42 DEF AgentRestart, AgentRestarted, PhaseOK, NoRepairNeeded, Last, LedgerHas,
     OpenedPcs, JudgedPcs, SeedPcs
<1>43. CASE Fail
  BY <1>43 DEF Fail, Goto, Exit, Refused, PhaseOK, NoRepairNeeded, Last, LedgerHas,
     OpenedPcs, JudgedPcs, SeedPcs, MemoryOK, RequestOK, AdmittedPcs
<1>44. CASE Crash
  BY <1>44 DEF Crash, Exit, PhaseOK, NoRepairNeeded, Last, LedgerHas, OpenedPcs, JudgedPcs,
     SeedPcs
<1>45. CASE Tick
  BY <1>45 DEF Tick, PhaseOK, NoRepairNeeded, Last, LedgerHas, OpenedPcs, JudgedPcs, SeedPcs
<1>46. ASSUME NEW r \in Releases, SeedBegin(r) PROVE PhaseOK'
  BY <1>46 DEF SeedBegin, PhaseOK, NoRepairNeeded, Last, LedgerHas, OpenedPcs, JudgedPcs,
     SeedPcs
<1>47. CASE UNCHANGED vars
  BY <1>47 DEF vars, PhaseOK, NoRepairNeeded, Last, LedgerHas, OpenedPcs, JudgedPcs, SeedPcs
<1>. QED
  BY <1>1, <1>2, <1>3, <1>4, <1>5, <1>6, <1>7, <1>8, <1>9, <1>10, <1>11, <1>12,
     <1>13, <1>14, <1>15, <1>16, <1>17, <1>18, <1>19, <1>20, <1>21, <1>22, <1>23,
     <1>24, <1>25, <1>26, <1>27, <1>28, <1>29, <1>30, <1>31, <1>32, <1>33, <1>34,
     <1>35, <1>36, <1>37, <1>38, <1>39, <1>40, <1>41, <1>42, <1>43, <1>44, <1>45,
     <1>46, <1>47
  DEF Next, Agent, Supervisor, Recover, Accept, Seed

-----------------------------------------------------------------------------
(* The package to roll back to.                                            *)

\* Only a copy that nothing refers to is dropped or pruned.
LEMMA CacheStep ==
  ASSUME TypeOK, MemoryOK, RequestOK, PhaseOK, CacheOK, [Next]_vars
  PROVE  CacheOK'
<1>. USE DEF protectedVars, mailVars, supVars, agentVars, historyVars, boundVars,
         supervisorOnly, elsewhere, recoverOnly, mailboxOnly, restartOnly, publishOnly,
         answerOnly, failOnly
<1>1. CASE ReadAnnouncement
  BY <1>1 DEF ReadAnnouncement, CacheOK, RollbackPossible, OpenedPcs, AdmittedPcs, SeedPcs
<1>2. CASE WriteHealth
  BY <1>2 DEF WriteHealth, CacheOK, RollbackPossible, OpenedPcs, AdmittedPcs, SeedPcs
<1>3. ASSUME NEW r \in Releases, TakeOffer(r) PROVE CacheOK'
  BY <1>3 DEF TakeOffer, CacheOK, RollbackPossible, OpenedPcs, AdmittedPcs, SeedPcs
<1>4. CASE ReapResult
  BY <1>4 DEF ReapResult, CacheOK, RollbackPossible, OpenedPcs, AdmittedPcs, SeedPcs
<1>5. CASE Stage
  BY <1>5 DEF Stage, CacheOK, RollbackPossible, OpenedPcs, AdmittedPcs, SeedPcs
<1>6. CASE Download
  BY <1>6 DEF Download, Unready, CacheOK, RollbackPossible, OpenedPcs, AdmittedPcs, SeedPcs
<1>7. CASE ReadState
  BY <1>7 DEF ReadState, Found, CacheOK, RollbackPossible, OpenedPcs, AdmittedPcs, SeedPcs
<1>8. CASE RememberInterrupted
  <2>1. jmem = journal /\ [nonce |-> ledger.pending.nonce, rel |-> ledger.pending.rel] \in Requests
    BY <1>8, WindowFields DEF RememberInterrupted, MemoryOK, PhaseOK, RequestOK,
       AdmittedPcs, Requests, Caches
  <2>2. CASE RememberThen(ledger.pending.nonce, ledger.pending.rel, "abort")
    <3>1. (Remembered(ledger.pending.nonce, ledger.pending.rel) /\ Proceeds("abort")) \/ Abandons
      BY <1>8, <2>1, <2>2, RememberEffect
    <3>2. /\ journal'.active = journal.active /\ journal'.pending = journal.pending
          /\ \/ sPc' = "abort" /\ tx' = tx
             \/ sPc # "reserve" /\ sPc' = "down"
             \/ sPc = "reserve" /\ sPc' = "drop" /\ tx' = tx
      BY <3>1 DEF Remembered, Proceeds, Abandons, Exit
    <3>. QED
      BY <1>8, <3>2 DEF RememberInterrupted, CacheOK, RollbackPossible, OpenedPcs,
         AdmittedPcs, SeedPcs
  <2>3. CASE UNCHANGED <<ledger, journal>> /\ sPc' = "down"
    BY <1>8, <2>3 DEF RememberInterrupted, CacheOK, RollbackPossible, OpenedPcs,
       AdmittedPcs, SeedPcs
  <2>. QED
    BY <1>8, <2>2, <2>3 DEF RememberInterrupted, Goto, Exit
<1>9. CASE RememberCompleted
  <2>1. jmem = journal /\ [nonce |-> jmem.pending.nonce, rel |-> jmem.pending.rel] \in Requests
    BY <1>9, JournalFields DEF RememberCompleted, MemoryOK, PhaseOK, RequestOK, AdmittedPcs,
       Requests, Caches
  <2>2. CASE RememberThen(jmem.pending.nonce, jmem.pending.rel, "settle")
    <3>1. (Remembered(jmem.pending.nonce, jmem.pending.rel) /\ Proceeds("settle")) \/ Abandons
      BY <1>9, <2>1, <2>2, RememberEffect
    <3>2. /\ journal'.active = journal.active /\ journal'.pending = journal.pending
          /\ \/ sPc' = "settle" /\ tx' = tx
             \/ sPc # "reserve" /\ sPc' = "down"
             \/ sPc = "reserve" /\ sPc' = "drop" /\ tx' = tx
      BY <3>1 DEF Remembered, Proceeds, Abandons, Exit
    <3>. QED
      BY <1>9, <3>2 DEF RememberCompleted, CacheOK, RollbackPossible, OpenedPcs,
         AdmittedPcs, SeedPcs
  <2>3. CASE UNCHANGED <<ledger, journal>> /\ sPc' = "down"
    BY <1>9, <2>3 DEF RememberCompleted, CacheOK, RollbackPossible, OpenedPcs, AdmittedPcs,
       SeedPcs
  <2>. QED
    BY <1>9, <2>2, <2>3 DEF RememberCompleted, Goto, Exit
<1>10. CASE RememberPending
  <2>1. jmem = journal /\ [nonce |-> jmem.pending.nonce, rel |-> jmem.pending.rel] \in Requests
    BY <1>10, JournalFields DEF RememberPending, MemoryOK, PhaseOK, RequestOK, AdmittedPcs,
       Requests, Caches
  <2>2. CASE RememberThen(jmem.pending.nonce, jmem.pending.rel, "judge")
    <3>1. (Remembered(jmem.pending.nonce, jmem.pending.rel) /\ Proceeds("judge")) \/ Abandons
      BY <1>10, <2>1, <2>2, RememberEffect
    <3>2. /\ journal'.active = journal.active /\ journal'.pending = journal.pending
          /\ \/ sPc' = "judge" /\ tx' = tx
             \/ sPc # "reserve" /\ sPc' = "down"
             \/ sPc = "reserve" /\ sPc' = "drop" /\ tx' = tx
      BY <3>1 DEF Remembered, Proceeds, Abandons, Exit
    <3>. QED
      BY <1>10, <3>2 DEF RememberPending, CacheOK, RollbackPossible, OpenedPcs, AdmittedPcs,
         SeedPcs
  <2>3. CASE UNCHANGED <<ledger, journal>> /\ sPc' = "down"
    BY <1>10, <2>3 DEF RememberPending, CacheOK, RollbackPossible, OpenedPcs, AdmittedPcs,
       SeedPcs
  <2>. QED
    BY <1>10, <2>2, <2>3 DEF RememberPending, Goto, Exit
<1>11. CASE Judge
  BY <1>11 DEF Judge, Goto, Judgement, CacheOK, RollbackPossible, OpenedPcs, AdmittedPcs,
     SeedPcs
<1>12. CASE CheckDeadline
  BY <1>12 DEF CheckDeadline, Goto, CacheOK, RollbackPossible, OpenedPcs, AdmittedPcs, SeedPcs
<1>13. CASE FinishInterrupted
  BY <1>13 DEF FinishInterrupted, Finish, Goto, CacheOK, RollbackPossible, OpenedPcs,
     AdmittedPcs, SeedPcs
<1>14. CASE FinishHealthy
  BY <1>14 DEF FinishHealthy, Finish, Goto, CacheOK, RollbackPossible, OpenedPcs,
     AdmittedPcs, SeedPcs
<1>15. CASE FinishRolledBack
  BY <1>15 DEF FinishRolledBack, Finish, Goto, CacheOK, RollbackPossible, OpenedPcs,
     AdmittedPcs, SeedPcs
<1>16. CASE ClearAnnouncement
  BY <1>16 DEF ClearAnnouncement, Goto, CacheOK, RollbackPossible, OpenedPcs, AdmittedPcs,
     SeedPcs
<1>17. CASE ClearHealth
  BY <1>17 DEF ClearHealth, Goto, CacheOK, RollbackPossible, OpenedPcs, AdmittedPcs, SeedPcs
<1>18. CASE Settle
  <2>1. journal'.pending = None
    BY <1>18 DEF Settle, MemoryOK, PhaseOK, TypeOK, Journals
  <2>. QED
    BY <1>18, <2>1 DEF Settle, CacheOK, RollbackPossible, OpenedPcs, AdmittedPcs, SeedPcs
<1>19. CASE RollbackInstall
  BY <1>19 DEF RollbackInstall, Goto, Exit, CacheOK, RollbackPossible, OpenedPcs,
     AdmittedPcs, SeedPcs
<1>20. CASE RollbackRestart
  BY <1>20 DEF RollbackRestart, RestartAgent, AgentRestarted, Goto, CacheOK,
     RollbackPossible, OpenedPcs, AdmittedPcs, SeedPcs
<1>21. CASE Prune
  <2>1. jmem = journal
    BY <1>21 DEF Prune, MemoryOK
  <2>. QED
    BY <1>21, <2>1 DEF Prune, InUse, Goto, CacheOK, RollbackPossible, OpenedPcs,
       AdmittedPcs, SeedPcs
<1>22. CASE Admit
  <2>1. jmem = journal
    BY <1>22 DEF Admit, MemoryOK
  <2>2. PICK q \in incoming : /\ tx' = [nonce |-> q.nonce, rel |-> q.rel]
                              /\ PreviousCached /\ q.nonce \notin cache
                              /\ cache' = cache \cup {q.nonce} /\ UNCHANGED journal
    BY <1>22 DEF Admit, Examine, Fresh, Acceptable
  <2>. QED
    BY <2>1, <2>2 DEF PreviousCached, CacheOK, RollbackPossible, OpenedPcs, AdmittedPcs,
       SeedPcs
<1>23. CASE TurnDown
  BY <1>23 DEF TurnDown, Examine, Fresh, CacheOK, RollbackPossible, OpenedPcs, AdmittedPcs,
     SeedPcs
<1>24. CASE NothingToDo
  BY <1>24 DEF NothingToDo, Goto, CacheOK, RollbackPossible, OpenedPcs, AdmittedPcs, SeedPcs
<1>25. CASE Reserve
  <2>1. jmem = journal /\ [nonce |-> tx.nonce, rel |-> tx.rel] \in Requests
    BY <1>25, AtRequest DEF Reserve, MemoryOK, PhaseOK, RequestOK, AdmittedPcs, Requests,
       Caches
  <2>2. CASE RememberThen(tx.nonce, tx.rel, "commit")
    <3>1. (Remembered(tx.nonce, tx.rel) /\ Proceeds("commit")) \/ Abandons
      BY <1>25, <2>1, <2>2, RememberEffect
    <3>2. /\ journal'.active = journal.active /\ journal'.pending = journal.pending
          /\ \/ sPc' = "commit" /\ tx' = tx
             \/ sPc # "reserve" /\ sPc' = "down"
             \/ sPc = "reserve" /\ sPc' = "drop" /\ tx' = tx
      BY <3>1 DEF Remembered, Proceeds, Abandons, Exit
    <3>. QED
      BY <1>25, <3>2 DEF Reserve, CacheOK, RollbackPossible, OpenedPcs, AdmittedPcs, SeedPcs
  <2>. QED
    BY <1>25, <2>2 DEF Reserve
<1>26. CASE Commit
  BY <1>26 DEF Commit, OpenWindow, Goto, CacheOK, RollbackPossible, OpenedPcs, AdmittedPcs,
     SeedPcs
<1>27. CASE Arm
  BY <1>27 DEF Arm, OpenWindow, Goto, CacheOK, RollbackPossible, OpenedPcs, AdmittedPcs,
     SeedPcs
<1>28. CASE RemoveAck
  BY <1>28 DEF RemoveAck, Goto, CacheOK, RollbackPossible, OpenedPcs, AdmittedPcs, SeedPcs
<1>29. CASE Announce
  BY <1>29 DEF Announce, Goto, CacheOK, RollbackPossible, OpenedPcs, AdmittedPcs, SeedPcs
<1>30. CASE WriteJournal
  <2>1. jmem = journal /\ tx # None /\ tx.nonce \in Nonces
    BY <1>30 DEF WriteJournal, MemoryOK, RequestOK, AdmittedPcs, OpenedPcs, SeedPcs
  <2>2. journal'.active = journal.active
    BY <1>30, <2>1 DEF WriteJournal, TypeOK, Journals
  <2>. QED
    BY <1>30, <2>1, <2>2 DEF WriteJournal, CacheOK, RollbackPossible, OpenedPcs,
       AdmittedPcs, SeedPcs
<1>31. CASE AnswerAccepted
  BY <1>31 DEF AnswerAccepted, Goto, Answer, CacheOK, RollbackPossible, OpenedPcs,
     AdmittedPcs, SeedPcs
<1>32. CASE Install
  BY <1>32 DEF Install, Goto, CacheOK, RollbackPossible, OpenedPcs, AdmittedPcs, SeedPcs
<1>33. CASE RestartInstalled
  BY <1>33 DEF RestartInstalled, RestartAgent, AgentRestarted, CacheOK, RollbackPossible,
     OpenedPcs, AdmittedPcs, SeedPcs
<1>34. CASE DropCopy
  <2>1. sPc' # "drop" /\ sPc' \notin AdmittedPcs /\ cache' = cache \ {tx.nonce}
    BY <1>34 DEF DropCopy, Goto, Exit, AdmittedPcs, OpenedPcs
  <2>. QED
    BY <1>34, <2>1 DEF DropCopy, PhaseOK, CacheOK, RollbackPossible
<1>35. CASE AnswerRefused
  BY <1>35 DEF AnswerRefused, Answer, Refused, CacheOK, RollbackPossible, OpenedPcs,
     AdmittedPcs, SeedPcs
<1>36. CASE SeedRemember
  <2>1. jmem = journal /\ [nonce |-> jmem.active.dir, rel |-> jmem.active.rel] \in Requests
    BY <1>36, JournalFields DEF SeedRemember, MemoryOK, PhaseOK, RequestOK, AdmittedPcs,
       Requests, Caches
  <2>2. CASE RememberThen(jmem.active.dir, jmem.active.rel, "seedCopy")
    <3>1. (Remembered(jmem.active.dir, jmem.active.rel) /\ Proceeds("seedCopy")) \/ Abandons
      BY <1>36, <2>1, <2>2, RememberEffect
    <3>2. /\ journal'.active = journal.active /\ journal'.pending = journal.pending
          /\ \/ sPc' = "seedCopy" /\ tx' = tx
             \/ sPc # "reserve" /\ sPc' = "down"
             \/ sPc = "reserve" /\ sPc' = "drop" /\ tx' = tx
      BY <3>1 DEF Remembered, Proceeds, Abandons, Exit
    <3>. QED
      BY <1>36, <3>2 DEF SeedRemember, CacheOK, RollbackPossible, OpenedPcs, AdmittedPcs,
         SeedPcs
  <2>3. CASE UNCHANGED <<ledger, journal>> /\ sPc' = "seedCopy"
    BY <1>36, <2>3 DEF SeedRemember, CacheOK, RollbackPossible, OpenedPcs, AdmittedPcs, SeedPcs
  <2>. QED
    BY <1>36, <2>2, <2>3 DEF SeedRemember, Goto, Exit
<1>37. CASE SeedCopy
  BY <1>37 DEF SeedCopy, Goto, Exit, CacheOK, RollbackPossible, OpenedPcs, AdmittedPcs, SeedPcs
<1>38. CASE SeedFloor
  BY <1>38 DEF SeedFloor, Goto, CacheOK, RollbackPossible, OpenedPcs, AdmittedPcs, SeedPcs
<1>39. CASE SeedJournal
  <2>1. tx.nonce \notin Nonces /\ jmem = journal /\ journal.pending = None
    BY <1>39, BoundsOK DEF SeedJournal, RequestOK, MemoryOK, PhaseOK, SeedPcs, SeedDirs, Nonces
  <2>2. journal'.pending = None
    BY <1>39, <2>1 DEF SeedJournal, TypeOK, Journals
  <2>. QED
    BY <1>39, <2>1, <2>2 DEF SeedJournal, CacheOK, RollbackPossible, OpenedPcs, AdmittedPcs,
       SeedPcs
<1>40. CASE SeedPrune
  <2>. QED
    BY <1>40 DEF SeedPrune, Exit, PhaseOK, CacheOK, RollbackPossible, OpenedPcs,
       AdmittedPcs, SeedPcs
<1>41. CASE Start
  BY <1>41 DEF Start, Goto, CacheOK, RollbackPossible, OpenedPcs, AdmittedPcs, SeedPcs
<1>42. CASE AgentRestart
  BY <1>42 DEF AgentRestart, AgentRestarted, CacheOK, RollbackPossible, OpenedPcs,
     AdmittedPcs, SeedPcs
<1>43. CASE Fail
  <2>1. /\ UNCHANGED <<journal, cache>>
        /\ sPc' = "drop" => tx' = tx /\ sPc \in AdmittedPcs \cup SeedPcs
        /\ sPc' \notin AdmittedPcs
    BY <1>43 DEF Fail, Goto, Exit, Refused, AdmittedPcs, OpenedPcs, SeedPcs
  <2>2. sPc \in SeedPcs => tx.nonce \notin Nonces
    BY BoundsOK DEF RequestOK, SeedDirs, Nonces
  <2>. QED
    BY <2>1, <2>2 DEF CacheOK, RollbackPossible
<1>44. CASE Crash
  BY <1>44 DEF Crash, Exit, CacheOK, RollbackPossible, OpenedPcs, AdmittedPcs, SeedPcs
<1>45. CASE Tick
  BY <1>45 DEF Tick, CacheOK, RollbackPossible, OpenedPcs, AdmittedPcs, SeedPcs
<1>46. ASSUME NEW r \in Releases, SeedBegin(r) PROVE CacheOK'
  BY <1>46 DEF SeedBegin, CacheOK, RollbackPossible, OpenedPcs, AdmittedPcs, SeedPcs
<1>47. CASE UNCHANGED vars
  BY <1>47 DEF vars, CacheOK, RollbackPossible, OpenedPcs, AdmittedPcs, SeedPcs
<1>. QED
  BY <1>1, <1>2, <1>3, <1>4, <1>5, <1>6, <1>7, <1>8, <1>9, <1>10, <1>11, <1>12,
     <1>13, <1>14, <1>15, <1>16, <1>17, <1>18, <1>19, <1>20, <1>21, <1>22, <1>23,
     <1>24, <1>25, <1>26, <1>27, <1>28, <1>29, <1>30, <1>31, <1>32, <1>33, <1>34,
     <1>35, <1>36, <1>37, <1>38, <1>39, <1>40, <1>41, <1>42, <1>43, <1>44, <1>45,
     <1>46, <1>47
  DEF Next, Agent, Supervisor, Recover, Accept, Seed

-----------------------------------------------------------------------------
(* Receipts of used requests.                                              *)

\* A receipt is dropped only when the floor rejects its release for good: offers
\* are never changed and the floor never falls.
LEMMA UsedKeepReceipts ==
  ASSUME TypeOK, TypeOK', GenuineOK, UsedHaveReceipts,
         \A n \in 1..Len(offers) : n \in 1..Len(offers') /\ offers'[n] = offers[n],
         ledger'.version >= ledger.version /\ ledger'.sequence >= ledger.sequence,
         \A c \in journal.consumed \ journal'.consumed : Emergency = {} /\ ~AboveFloor(c.rel),
         \A n \in Nonces : Used(n)' => Used(n) \/ (n \in 1..Len(offers) /\ Receipt(n, offers[n]))
  PROVE  UsedHaveReceipts'
<1>1. SUFFICES ASSUME NEW n \in Nonces, Used(n)'
               PROVE  /\ n \in 1..Len(offers')
                      /\ \/ Receipt(n, offers[n])'
                         \/ Emergency = {} /\ ~AboveFloor(offers[n])'
  BY DEF UsedHaveReceipts, Receipt, AboveFloor
<1>2. n \in 1..Len(offers) /\ (Receipt(n, offers[n]) \/ (Emergency = {} /\ ~AboveFloor(offers[n])))
  BY <1>1 DEF UsedHaveReceipts
<1>3. n \in 1..Len(offers') /\ offers'[n] = offers[n] /\ offers[n] \in Releases
  BY <1>2 DEF TypeOK
<1>4. offers[n].version \in Nat /\ offers[n].sequence \in Nat
  BY <1>3, ReleasesOK
<1>5. /\ ledger.version \in Nat /\ ledger.sequence \in Nat
      /\ ledger'.version \in Nat /\ ledger'.sequence \in Nat
  BY DEF TypeOK
<1>6. ~AboveFloor(offers[n]) => ~AboveFloor(offers[n])'
  BY <1>3, <1>4, <1>5 DEF AboveFloor
<1>7. ASSUME Receipt(n, offers[n]), ~Receipt(n, offers[n])'
      PROVE  Emergency = {} /\ ~AboveFloor(offers[n])
  <2>. DEFINE c == [nonce |-> n, rel |-> offers[n]]
  <2>1. c \in journal.consumed \ journal'.consumed /\ c.rel = offers[n]
    BY <1>3, <1>7 DEF Receipt
  <2>. QED
    BY <2>1
<1>. QED
  BY <1>2, <1>3, <1>6, <1>7

\* The receipt is written before the transaction opens, and again by recovery.
LEMMA ReceiptsStep ==
  ASSUME TypeOK, TypeOK', AgentOK, MemoryOK, RequestOK, GenuineOK, PhaseOK, ReceiptsOK, [Next]_vars
  PROVE  ReceiptsOK'
<1>. USE DEF protectedVars, mailVars, supVars, agentVars, historyVars, boundVars,
         supervisorOnly, elsewhere, recoverOnly, mailboxOnly, restartOnly, publishOnly,
         answerOnly, failOnly
<1>1. CASE ReadAnnouncement
  BY <1>1 DEF ReadAnnouncement, ReceiptsOK, UsedHaveReceipts, OpenHasReceipt, Used, Receipt,
     AboveFloor, OpenedPcs, JudgedPcs, SeedPcs
<1>2. CASE WriteHealth
  BY <1>2 DEF WriteHealth, ReceiptsOK, UsedHaveReceipts, OpenHasReceipt, Used, Receipt,
     AboveFloor, OpenedPcs, JudgedPcs, SeedPcs
<1>3. ASSUME NEW r \in Releases, TakeOffer(r) PROVE ReceiptsOK'
  BY <1>3 DEF TakeOffer, ReceiptsOK, UsedHaveReceipts, OpenHasReceipt, Used, Receipt,
     AboveFloor, OpenedPcs, JudgedPcs, SeedPcs
<1>4. CASE ReapResult
  BY <1>4 DEF ReapResult, ReceiptsOK, UsedHaveReceipts, OpenHasReceipt, Used, Receipt,
     AboveFloor, OpenedPcs, JudgedPcs, SeedPcs
<1>5. CASE Stage
  <2>1. /\ \A n \in 1..Len(offers) : n \in 1..Len(offers') /\ offers'[n] = offers[n]
        /\ UNCHANGED <<ledger, journal, installs, ended, tx, sPc>>
    <3>1. CASE UNCHANGED offers
      BY <1>5, <3>1 DEF Stage
    <3>2. CASE offers' = Append(offers, aRel)
      <4>1. aRel \in Releases /\ offers \in Seq(Releases)
        BY <1>5 DEF Stage, AgentOK, TypeOK
      <4>. QED
        BY <1>5, <3>2, <4>1 DEF Stage
    <3>. QED
      BY <1>5, <3>1, <3>2 DEF Stage
  <2>2. ledger'.version >= ledger.version /\ ledger'.sequence >= ledger.sequence
    BY <2>1 DEF TypeOK
  <2>3. UsedHaveReceipts'
    BY <2>1, <2>2, UsedKeepReceipts DEF ReceiptsOK, Used
  <2>. QED
    BY <2>1, <2>3 DEF ReceiptsOK, OpenHasReceipt, Receipt
<1>6. CASE Download
  BY <1>6 DEF Download, Unready, ReceiptsOK, UsedHaveReceipts, OpenHasReceipt, Used,
     Receipt, AboveFloor, OpenedPcs, JudgedPcs, SeedPcs
<1>7. CASE ReadState
  BY <1>7 DEF ReadState, Found, ReceiptsOK, UsedHaveReceipts, OpenHasReceipt, Used, Receipt,
     AboveFloor, OpenedPcs, JudgedPcs, SeedPcs
<1>8. CASE RememberInterrupted
  <2>1. jmem = journal /\ [nonce |-> ledger.pending.nonce, rel |-> ledger.pending.rel] \in Requests
    BY <1>8, WindowFields DEF RememberInterrupted, MemoryOK, PhaseOK, RequestOK,
       AdmittedPcs, Requests, Caches
  <2>2. CASE RememberThen(ledger.pending.nonce, ledger.pending.rel, "abort")
    <3>1. (Remembered(ledger.pending.nonce, ledger.pending.rel) /\ Proceeds("abort")) \/ Abandons
      BY <1>8, <2>1, <2>2, RememberEffect
    <3>2. /\ UNCHANGED <<ledger, offers, installs, ended>>
          /\ \/ [nonce |-> ledger.pending.nonce, rel |-> ledger.pending.rel] \in journal'.consumed /\ sPc' = "abort" /\ tx' = tx
             \/ sPc' \in {"drop", "down"}
          /\ \A x \in journal.consumed \ journal'.consumed : Emergency = {} /\ ~AboveFloor(x.rel)
      BY <1>8, <3>1 DEF RememberInterrupted, Remembered, Proceeds, Abandons, Exit
    <3>3. UsedHaveReceipts'
      <4>1. \A m \in Nonces : Used(m)' => Used(m)
        BY <3>2 DEF Used
      <4>2. ledger'.version >= ledger.version /\ ledger'.sequence >= ledger.sequence
        BY <3>2 DEF TypeOK
      <4>3. \A m \in 1..Len(offers) : m \in 1..Len(offers') /\ offers'[m] = offers[m]
        BY <3>2
      <4>. QED
        BY <3>2, <4>1, <4>2, <4>3, UsedKeepReceipts DEF ReceiptsOK
    <3>5. OpenHasReceipt'
      BY <1>8, <2>1, <3>2 DEF RememberInterrupted, SameTransaction, Receipt, OpenHasReceipt,
         OpenedPcs, JudgedPcs, SeedPcs
    <3>. QED
      BY <1>8, <3>3, <3>5 DEF RememberInterrupted, ReceiptsOK, UsedHaveReceipts, Used,
         Receipt, AboveFloor, OpenHasReceipt, OpenedPcs, JudgedPcs, SeedPcs
  <2>3. CASE UNCHANGED <<ledger, journal>> /\ sPc' = "down"
    BY <1>8, <2>3 DEF RememberInterrupted, ReceiptsOK, UsedHaveReceipts, Used, Receipt,
       AboveFloor, OpenHasReceipt, OpenedPcs, JudgedPcs, SeedPcs
  <2>. QED
    BY <1>8, <2>2, <2>3 DEF RememberInterrupted, Goto, Exit
<1>9. CASE RememberCompleted
  <2>1. jmem = journal /\ [nonce |-> jmem.pending.nonce, rel |-> jmem.pending.rel] \in Requests
    BY <1>9, JournalFields DEF RememberCompleted, MemoryOK, PhaseOK, RequestOK, AdmittedPcs,
       Requests, Caches
  <2>2. CASE RememberThen(jmem.pending.nonce, jmem.pending.rel, "settle")
    <3>1. (Remembered(jmem.pending.nonce, jmem.pending.rel) /\ Proceeds("settle")) \/ Abandons
      BY <1>9, <2>1, <2>2, RememberEffect
    <3>2. /\ UNCHANGED <<ledger, offers, installs, ended>>
          /\ \/ [nonce |-> jmem.pending.nonce, rel |-> jmem.pending.rel] \in journal'.consumed /\ sPc' = "settle" /\ tx' = tx
             \/ sPc' \in {"drop", "down"}
          /\ \A x \in journal.consumed \ journal'.consumed : Emergency = {} /\ ~AboveFloor(x.rel)
      BY <1>9, <3>1 DEF RememberCompleted, Remembered, Proceeds, Abandons, Exit
    <3>3. UsedHaveReceipts'
      <4>1. \A m \in Nonces : Used(m)' => Used(m)
        BY <3>2 DEF Used
      <4>2. ledger'.version >= ledger.version /\ ledger'.sequence >= ledger.sequence
        BY <3>2 DEF TypeOK
      <4>3. \A m \in 1..Len(offers) : m \in 1..Len(offers') /\ offers'[m] = offers[m]
        BY <3>2
      <4>. QED
        BY <3>2, <4>1, <4>2, <4>3, UsedKeepReceipts DEF ReceiptsOK
    <3>5. OpenHasReceipt'
      BY <1>9, <2>1, <3>2 DEF RememberCompleted, SameTransaction, Receipt, OpenHasReceipt,
         OpenedPcs, JudgedPcs, SeedPcs
    <3>. QED
      BY <1>9, <3>3, <3>5 DEF RememberCompleted, ReceiptsOK, UsedHaveReceipts, Used,
         Receipt, AboveFloor, OpenHasReceipt, OpenedPcs, JudgedPcs, SeedPcs
  <2>3. CASE UNCHANGED <<ledger, journal>> /\ sPc' = "down"
    BY <1>9, <2>3 DEF RememberCompleted, ReceiptsOK, UsedHaveReceipts, Used, Receipt,
       AboveFloor, OpenHasReceipt, OpenedPcs, JudgedPcs, SeedPcs
  <2>. QED
    BY <1>9, <2>2, <2>3 DEF RememberCompleted, Goto, Exit
<1>10. CASE RememberPending
  <2>1. jmem = journal /\ [nonce |-> jmem.pending.nonce, rel |-> jmem.pending.rel] \in Requests
    BY <1>10, JournalFields DEF RememberPending, MemoryOK, PhaseOK, RequestOK, AdmittedPcs,
       Requests, Caches
  <2>2. CASE SameTransaction /\ RememberThen(jmem.pending.nonce, jmem.pending.rel, "judge")
    <3>1. (Remembered(jmem.pending.nonce, jmem.pending.rel) /\ Proceeds("judge")) \/ Abandons
      BY <1>10, <2>1, <2>2, RememberEffect
    <3>2. /\ UNCHANGED <<ledger, offers, installs, ended>>
          /\ \/ [nonce |-> jmem.pending.nonce, rel |-> jmem.pending.rel] \in journal'.consumed /\ sPc' = "judge" /\ tx' = tx
             \/ sPc' \in {"drop", "down"}
          /\ \A x \in journal.consumed \ journal'.consumed : Emergency = {} /\ ~AboveFloor(x.rel)
      BY <1>10, <3>1 DEF RememberPending, Remembered, Proceeds, Abandons, Exit
    <3>3. UsedHaveReceipts'
      <4>1. \A m \in Nonces : Used(m)' => Used(m)
        BY <3>2 DEF Used
      <4>2. ledger'.version >= ledger.version /\ ledger'.sequence >= ledger.sequence
        BY <3>2 DEF TypeOK
      <4>3. \A m \in 1..Len(offers) : m \in 1..Len(offers') /\ offers'[m] = offers[m]
        BY <3>2
      <4>. QED
        BY <3>2, <4>1, <4>2, <4>3, UsedKeepReceipts DEF ReceiptsOK
    <3>5. OpenHasReceipt'
      BY <1>10, <2>1, <2>2, <3>2 DEF RememberPending, SameTransaction, Receipt,
         OpenHasReceipt, OpenedPcs, JudgedPcs, SeedPcs
    <3>. QED
      BY <1>10, <3>3, <3>5 DEF RememberPending, ReceiptsOK, UsedHaveReceipts, Used, Receipt,
         AboveFloor, OpenHasReceipt, OpenedPcs, JudgedPcs, SeedPcs
  <2>3. CASE UNCHANGED <<ledger, journal>> /\ sPc' = "down"
    BY <1>10, <2>3 DEF RememberPending, ReceiptsOK, UsedHaveReceipts, Used, Receipt,
       AboveFloor, OpenHasReceipt, OpenedPcs, JudgedPcs, SeedPcs
  <2>. QED
    BY <1>10, <2>2, <2>3 DEF RememberPending, Goto, Exit
<1>11. CASE Judge
  BY <1>11 DEF Judge, Goto, Judgement, ReceiptsOK, UsedHaveReceipts, OpenHasReceipt, Used,
     Receipt, AboveFloor, OpenedPcs, JudgedPcs, SeedPcs
<1>12. CASE CheckDeadline
  BY <1>12 DEF CheckDeadline, Goto, ReceiptsOK, UsedHaveReceipts, OpenHasReceipt, Used,
     Receipt, AboveFloor, OpenedPcs, JudgedPcs, SeedPcs
<1>13. CASE FinishInterrupted
  <2>1. PICK outcome \in Outcomes : Finish(outcome)
    BY <1>13 DEF FinishInterrupted, Outcomes
  <2>2. /\ ledger.pending # None /\ Receipt(ledger.pending.nonce, ledger.pending.rel)
        /\ Genuine(ledger.pending.nonce, ledger.pending.rel)
    BY <1>13 DEF FinishInterrupted, PhaseOK, GenuineOK, ReceiptsOK, OpenHasReceipt, JudgedPcs
  <2>3. /\ ended' = [ended EXCEPT ![ledger.pending.nonce] = outcome]
        /\ ledger'.version >= ledger.version /\ ledger'.sequence >= ledger.sequence
    BY <2>1, <2>2, FinishEffect
  <2>4. UNCHANGED <<journal, offers, installs>> /\ sPc' = "clear"
    BY <2>1 DEF Finish, Goto
  <2>5. \A n \in Nonces : Used(n)' => Used(n) \/ n = ledger.pending.nonce
    BY <2>3, <2>4 DEF Used, TypeOK
  <2>6. UsedHaveReceipts'
    BY <2>2, <2>3, <2>4, <2>5, UsedKeepReceipts DEF ReceiptsOK, Genuine
  <2>. QED
    BY <2>4, <2>6 DEF ReceiptsOK, OpenHasReceipt, OpenedPcs, JudgedPcs, SeedPcs
<1>14. CASE FinishHealthy
  <2>1. PICK outcome \in Outcomes : Finish(outcome)
    BY <1>14 DEF FinishHealthy, Outcomes
  <2>2. /\ ledger.pending # None /\ Receipt(ledger.pending.nonce, ledger.pending.rel)
        /\ Genuine(ledger.pending.nonce, ledger.pending.rel)
    BY <1>14 DEF FinishHealthy, PhaseOK, GenuineOK, ReceiptsOK, OpenHasReceipt, JudgedPcs
  <2>3. /\ ended' = [ended EXCEPT ![ledger.pending.nonce] = outcome]
        /\ ledger'.version >= ledger.version /\ ledger'.sequence >= ledger.sequence
    BY <2>1, <2>2, FinishEffect
  <2>4. UNCHANGED <<journal, offers, installs>> /\ sPc' = "clear"
    BY <2>1 DEF Finish, Goto
  <2>5. \A n \in Nonces : Used(n)' => Used(n) \/ n = ledger.pending.nonce
    BY <2>3, <2>4 DEF Used, TypeOK
  <2>6. UsedHaveReceipts'
    BY <2>2, <2>3, <2>4, <2>5, UsedKeepReceipts DEF ReceiptsOK, Genuine
  <2>. QED
    BY <2>4, <2>6 DEF ReceiptsOK, OpenHasReceipt, OpenedPcs, JudgedPcs, SeedPcs
<1>15. CASE FinishRolledBack
  <2>1. PICK outcome \in Outcomes : Finish(outcome)
    BY <1>15 DEF FinishRolledBack, Outcomes
  <2>2. /\ ledger.pending # None /\ Receipt(ledger.pending.nonce, ledger.pending.rel)
        /\ Genuine(ledger.pending.nonce, ledger.pending.rel)
    BY <1>15 DEF FinishRolledBack, PhaseOK, GenuineOK, ReceiptsOK, OpenHasReceipt, JudgedPcs
  <2>3. /\ ended' = [ended EXCEPT ![ledger.pending.nonce] = outcome]
        /\ ledger'.version >= ledger.version /\ ledger'.sequence >= ledger.sequence
    BY <2>1, <2>2, FinishEffect
  <2>4. UNCHANGED <<journal, offers, installs>> /\ sPc' = "clear"
    BY <2>1 DEF Finish, Goto
  <2>5. \A n \in Nonces : Used(n)' => Used(n) \/ n = ledger.pending.nonce
    BY <2>3, <2>4 DEF Used, TypeOK
  <2>6. UsedHaveReceipts'
    BY <2>2, <2>3, <2>4, <2>5, UsedKeepReceipts DEF ReceiptsOK, Genuine
  <2>. QED
    BY <2>4, <2>6 DEF ReceiptsOK, OpenHasReceipt, OpenedPcs, JudgedPcs, SeedPcs
<1>16. CASE ClearAnnouncement
  BY <1>16 DEF ClearAnnouncement, Goto, ReceiptsOK, UsedHaveReceipts, OpenHasReceipt, Used,
     Receipt, AboveFloor, OpenedPcs, JudgedPcs, SeedPcs
<1>17. CASE ClearHealth
  BY <1>17 DEF ClearHealth, Goto, ReceiptsOK, UsedHaveReceipts, OpenHasReceipt, Used,
     Receipt, AboveFloor, OpenedPcs, JudgedPcs, SeedPcs
<1>18. CASE Settle
  <2>1. journal'.consumed = journal.consumed
    BY <1>18 DEF Settle, MemoryOK, PhaseOK, TypeOK, Journals
  <2>. QED
    BY <1>18, <2>1 DEF Settle, ReceiptsOK, UsedHaveReceipts, OpenHasReceipt, Used, Receipt,
       AboveFloor, OpenedPcs, JudgedPcs, SeedPcs
<1>19. CASE RollbackInstall
  BY <1>19 DEF RollbackInstall, Goto, Exit, ReceiptsOK, UsedHaveReceipts, OpenHasReceipt,
     Used, Receipt, AboveFloor, OpenedPcs, JudgedPcs, SeedPcs
<1>20. CASE RollbackRestart
  BY <1>20 DEF RollbackRestart, RestartAgent, AgentRestarted, Goto, ReceiptsOK,
     UsedHaveReceipts, OpenHasReceipt, Used, Receipt, AboveFloor, OpenedPcs, JudgedPcs,
     SeedPcs
<1>21. CASE Prune
  BY <1>21 DEF Prune, Goto, InUse, ReceiptsOK, UsedHaveReceipts, OpenHasReceipt, Used,
     Receipt, AboveFloor, OpenedPcs, JudgedPcs, SeedPcs
<1>22. CASE Admit
  BY <1>22 DEF Admit, Examine, Fresh, Acceptable, ReceiptsOK, UsedHaveReceipts,
     OpenHasReceipt, Used, Receipt, AboveFloor, OpenedPcs, JudgedPcs, SeedPcs
<1>23. CASE TurnDown
  BY <1>23 DEF TurnDown, Examine, Fresh, ReceiptsOK, UsedHaveReceipts, OpenHasReceipt, Used,
     Receipt, AboveFloor, OpenedPcs, JudgedPcs, SeedPcs
<1>24. CASE NothingToDo
  BY <1>24 DEF NothingToDo, Goto, ReceiptsOK, UsedHaveReceipts, OpenHasReceipt, Used,
     Receipt, AboveFloor, OpenedPcs, JudgedPcs, SeedPcs
<1>25. CASE Reserve
  <2>1. jmem = journal /\ [nonce |-> tx.nonce, rel |-> tx.rel] \in Requests
    BY <1>25, AtRequest DEF Reserve, MemoryOK, PhaseOK, RequestOK, AdmittedPcs, Requests,
       Caches
  <2>2. CASE RememberThen(tx.nonce, tx.rel, "commit")
    <3>1. (Remembered(tx.nonce, tx.rel) /\ Proceeds("commit")) \/ Abandons
      BY <1>25, <2>1, <2>2, RememberEffect
    <3>2. /\ UNCHANGED <<ledger, offers, installs, ended>>
          /\ \/ [nonce |-> tx.nonce, rel |-> tx.rel] \in journal'.consumed /\ sPc' = "commit" /\ tx' = tx
             \/ sPc' \in {"drop", "down"}
          /\ \A x \in journal.consumed \ journal'.consumed : Emergency = {} /\ ~AboveFloor(x.rel)
      BY <1>25, <3>1 DEF Reserve, Remembered, Proceeds, Abandons, Exit
    <3>3. UsedHaveReceipts'
      <4>1. \A m \in Nonces : Used(m)' => Used(m)
        BY <3>2 DEF Used
      <4>2. ledger'.version >= ledger.version /\ ledger'.sequence >= ledger.sequence
        BY <3>2 DEF TypeOK
      <4>3. \A m \in 1..Len(offers) : m \in 1..Len(offers') /\ offers'[m] = offers[m]
        BY <3>2
      <4>. QED
        BY <3>2, <4>1, <4>2, <4>3, UsedKeepReceipts DEF ReceiptsOK
    <3>5. OpenHasReceipt'
      BY <1>25, <2>1, <3>2 DEF Reserve, SameTransaction, Receipt, OpenHasReceipt, OpenedPcs,
         JudgedPcs, SeedPcs
    <3>. QED
      BY <1>25, <3>3, <3>5 DEF Reserve, ReceiptsOK, UsedHaveReceipts, Used, Receipt,
         AboveFloor, OpenHasReceipt, OpenedPcs, JudgedPcs, SeedPcs
  <2>. QED
    BY <1>25, <2>2 DEF Reserve
<1>26. CASE Commit
  <2>1. /\ UNCHANGED <<journal, offers, installs, ended, tx>> /\ sPc' = "unack"
        /\ ledger'.version = ledger.version /\ ledger'.sequence = ledger.sequence
    BY <1>26 DEF Commit, OpenWindow, Goto, TypeOK
  <2>. QED
    BY <1>26, <2>1 DEF Commit, OpenWindow, ReceiptsOK, UsedHaveReceipts, OpenHasReceipt,
       Used, Receipt, AboveFloor, OpenedPcs, JudgedPcs, SeedPcs
<1>27. CASE Arm
  <2>1. /\ UNCHANGED <<journal, offers, installs, ended, tx>> /\ sPc' = "unack"
        /\ ledger'.version = ledger.version /\ ledger'.sequence = ledger.sequence
    BY <1>27 DEF Arm, OpenWindow, Goto, TypeOK
  <2>. QED
    BY <1>27, <2>1 DEF Arm, OpenWindow, ReceiptsOK, UsedHaveReceipts, OpenHasReceipt, Used,
       Receipt, AboveFloor, OpenedPcs, JudgedPcs, SeedPcs
<1>28. CASE RemoveAck
  BY <1>28 DEF RemoveAck, Goto, ReceiptsOK, UsedHaveReceipts, OpenHasReceipt, Used, Receipt,
     AboveFloor, OpenedPcs, JudgedPcs, SeedPcs
<1>29. CASE Announce
  BY <1>29 DEF Announce, Goto, ReceiptsOK, UsedHaveReceipts, OpenHasReceipt, Used, Receipt,
     AboveFloor, OpenedPcs, JudgedPcs, SeedPcs
<1>30. CASE WriteJournal
  <2>1. journal'.consumed = journal.consumed
    BY <1>30 DEF WriteJournal, MemoryOK, TypeOK, Journals
  <2>. QED
    BY <1>30, <2>1 DEF WriteJournal, ReceiptsOK, UsedHaveReceipts, OpenHasReceipt, Used,
       Receipt, AboveFloor, OpenedPcs, JudgedPcs, SeedPcs
<1>31. CASE AnswerAccepted
  BY <1>31 DEF AnswerAccepted, Goto, Answer, ReceiptsOK, UsedHaveReceipts, OpenHasReceipt,
     Used, Receipt, AboveFloor, OpenedPcs, JudgedPcs, SeedPcs
<1>32. CASE Install
  <2>1. tx # None /\ tx.nonce \in Nonces /\ Genuine(tx.nonce, tx.rel) /\ Receipt(tx.nonce, tx.rel)
    BY <1>32 DEF Install, RequestOK, GenuineOK, ReceiptsOK, AdmittedPcs, OpenHasReceipt,
       OpenedPcs, JudgedPcs, SeedPcs
  <2>2. /\ UNCHANGED <<ledger, journal, offers, ended, tx>> /\ sPc' = "arm"
        /\ \A n \in Nonces : n # tx.nonce => installs'[n] = installs[n]
    BY <1>32 DEF Install, Goto, TypeOK
  <2>. QED
    BY <2>1, <2>2 DEF Genuine, ReceiptsOK, UsedHaveReceipts, OpenHasReceipt, Used, Receipt,
       AboveFloor, OpenedPcs, JudgedPcs, SeedPcs
<1>33. CASE RestartInstalled
  BY <1>33 DEF RestartInstalled, RestartAgent, AgentRestarted, ReceiptsOK, UsedHaveReceipts,
     OpenHasReceipt, Used, Receipt, AboveFloor, OpenedPcs, JudgedPcs, SeedPcs
<1>34. CASE DropCopy
  BY <1>34 DEF DropCopy, Goto, Exit, ReceiptsOK, UsedHaveReceipts, OpenHasReceipt, Used,
     Receipt, AboveFloor, OpenedPcs, JudgedPcs, SeedPcs
<1>35. CASE AnswerRefused
  BY <1>35 DEF AnswerRefused, Answer, Refused, ReceiptsOK, UsedHaveReceipts, OpenHasReceipt,
     Used, Receipt, AboveFloor, OpenedPcs, JudgedPcs, SeedPcs
<1>36. CASE SeedRemember
  <2>1. jmem = journal /\ [nonce |-> jmem.active.dir, rel |-> jmem.active.rel] \in Requests
    BY <1>36, JournalFields DEF SeedRemember, MemoryOK, PhaseOK, RequestOK, AdmittedPcs,
       Requests, Caches
  <2>2. CASE RememberThen(jmem.active.dir, jmem.active.rel, "seedCopy")
    <3>1. (Remembered(jmem.active.dir, jmem.active.rel) /\ Proceeds("seedCopy")) \/ Abandons
      BY <1>36, <2>1, <2>2, RememberEffect
    <3>2. /\ UNCHANGED <<ledger, offers, installs, ended>>
          /\ \/ [nonce |-> jmem.active.dir, rel |-> jmem.active.rel] \in journal'.consumed /\ sPc' = "seedCopy" /\ tx' = tx
             \/ sPc' \in {"drop", "down"}
          /\ \A x \in journal.consumed \ journal'.consumed : Emergency = {} /\ ~AboveFloor(x.rel)
      BY <1>36, <3>1 DEF SeedRemember, Remembered, Proceeds, Abandons, Exit
    <3>3. UsedHaveReceipts'
      <4>1. \A m \in Nonces : Used(m)' => Used(m)
        BY <3>2 DEF Used
      <4>2. ledger'.version >= ledger.version /\ ledger'.sequence >= ledger.sequence
        BY <3>2 DEF TypeOK
      <4>3. \A m \in 1..Len(offers) : m \in 1..Len(offers') /\ offers'[m] = offers[m]
        BY <3>2
      <4>. QED
        BY <3>2, <4>1, <4>2, <4>3, UsedKeepReceipts DEF ReceiptsOK
    <3>5. OpenHasReceipt'
      BY <1>36, <2>1, <3>2 DEF SeedRemember, SameTransaction, Receipt, OpenHasReceipt,
         OpenedPcs, JudgedPcs, SeedPcs
    <3>. QED
      BY <1>36, <3>3, <3>5 DEF SeedRemember, ReceiptsOK, UsedHaveReceipts, Used, Receipt,
         AboveFloor, OpenHasReceipt, OpenedPcs, JudgedPcs, SeedPcs
  <2>3. CASE UNCHANGED <<ledger, journal>> /\ sPc' = "seedCopy"
    BY <1>36, <2>3 DEF SeedRemember, ReceiptsOK, UsedHaveReceipts, Used, Receipt,
       AboveFloor, OpenHasReceipt, OpenedPcs, JudgedPcs, SeedPcs
  <2>. QED
    BY <1>36, <2>2, <2>3 DEF SeedRemember, Goto, Exit
<1>37. CASE SeedCopy
  BY <1>37 DEF SeedCopy, Goto, Exit, ReceiptsOK, UsedHaveReceipts, OpenHasReceipt, Used,
     Receipt, AboveFloor, OpenedPcs, JudgedPcs, SeedPcs
<1>38. CASE SeedFloor
  <2>1. /\ ledger'.version = Larger(tx.rel.version, ledger.version)
        /\ ledger'.sequence = Larger(tx.rel.sequence, ledger.sequence)
        /\ ledger'.pending = ledger.pending
        /\ UNCHANGED <<journal, offers, installs, ended>> /\ sPc' = "seedJournal"
    BY <1>38 DEF SeedFloor, Goto, TypeOK
  <2>2. tx.rel \in Releases
    BY <1>38, AtRequest DEF SeedFloor, RequestOK, SeedPcs
  <2>3. /\ ledger.version \in Nat /\ ledger.sequence \in Nat
        /\ tx.rel.version \in Nat /\ tx.rel.sequence \in Nat
    BY <2>2, ReleasesOK DEF TypeOK
  <2>4. ledger'.version >= ledger.version /\ ledger'.sequence >= ledger.sequence
    BY <2>1, <2>3 DEF Larger
  <2>5. UsedHaveReceipts'
    BY <2>1, <2>4, UsedKeepReceipts DEF ReceiptsOK, Used
  <2>. QED
    BY <2>1, <2>5 DEF ReceiptsOK, OpenHasReceipt, OpenedPcs, JudgedPcs, SeedPcs
<1>39. CASE SeedJournal
  <2>1. journal'.consumed = journal.consumed
    BY <1>39 DEF SeedJournal, MemoryOK, TypeOK, Journals
  <2>. QED
    BY <1>39, <2>1 DEF SeedJournal, ReceiptsOK, UsedHaveReceipts, OpenHasReceipt, Used,
       Receipt, AboveFloor, OpenedPcs, JudgedPcs, SeedPcs
<1>40. CASE SeedPrune
  BY <1>40 DEF SeedPrune, Exit, InUse, ReceiptsOK, UsedHaveReceipts, OpenHasReceipt, Used,
     Receipt, AboveFloor, OpenedPcs, JudgedPcs, SeedPcs
<1>41. CASE Start
  BY <1>41 DEF Start, Goto, ReceiptsOK, UsedHaveReceipts, OpenHasReceipt, Used, Receipt,
     AboveFloor, OpenedPcs, JudgedPcs, SeedPcs
<1>42. CASE AgentRestart
  BY <1>42 DEF AgentRestart, AgentRestarted, ReceiptsOK, UsedHaveReceipts, OpenHasReceipt,
     Used, Receipt, AboveFloor, OpenedPcs, JudgedPcs, SeedPcs
<1>43. CASE Fail
  <2>1. /\ UNCHANGED <<ledger, journal, offers, installs, ended>>
        /\ sPc' \in JudgedPcs => \/ sPc \in JudgedPcs
                                \/ sPc \in OpenedPcs
        /\ sPc' \notin OpenedPcs \cup {"commit", "abort"}
    BY <1>43 DEF Fail, Goto, Exit, Refused, OpenedPcs, JudgedPcs
  <2>2. sPc \in OpenedPcs => LedgerHas(tx)
    BY DEF PhaseOK
  <2>. QED
    BY <2>1, <2>2 DEF LedgerHas, ReceiptsOK, OpenHasReceipt, UsedHaveReceipts, Used,
       Receipt, AboveFloor
<1>44. CASE Crash
  BY <1>44 DEF Crash, Exit, ReceiptsOK, UsedHaveReceipts, OpenHasReceipt, Used, Receipt,
     AboveFloor, OpenedPcs, JudgedPcs, SeedPcs
<1>45. CASE Tick
  BY <1>45 DEF Tick, ReceiptsOK, UsedHaveReceipts, OpenHasReceipt, Used, Receipt,
     AboveFloor, OpenedPcs, JudgedPcs, SeedPcs
<1>46. ASSUME NEW r \in Releases, SeedBegin(r) PROVE ReceiptsOK'
  BY <1>46 DEF SeedBegin, ReceiptsOK, UsedHaveReceipts, OpenHasReceipt, Used, Receipt,
     AboveFloor, OpenedPcs, JudgedPcs, SeedPcs
<1>47. CASE UNCHANGED vars
  BY <1>47 DEF vars, ReceiptsOK, UsedHaveReceipts, OpenHasReceipt, Used, Receipt,
     AboveFloor, OpenedPcs, JudgedPcs, SeedPcs
<1>. QED
  BY <1>1, <1>2, <1>3, <1>4, <1>5, <1>6, <1>7, <1>8, <1>9, <1>10, <1>11, <1>12,
     <1>13, <1>14, <1>15, <1>16, <1>17, <1>18, <1>19, <1>20, <1>21, <1>22, <1>23,
     <1>24, <1>25, <1>26, <1>27, <1>28, <1>29, <1>30, <1>31, <1>32, <1>33, <1>34,
     <1>35, <1>36, <1>37, <1>38, <1>39, <1>40, <1>41, <1>42, <1>43, <1>44, <1>45,
     <1>46, <1>47
  DEF Next, Agent, Supervisor, Recover, Accept, Seed

-----------------------------------------------------------------------------
(* Requests are used once.                                                 *)

\* A request that was used is not admitted again: it has a receipt, or the floor
\* rejects it.
LEMMA OnceStep ==
  ASSUME TypeOK, TypeOK', MemoryOK, RequestOK, GenuineOK, PhaseOK, ReceiptsOK, OnceOK, [Next]_vars
  PROVE  OnceOK'
<1>. USE DEF protectedVars, mailVars, supVars, agentVars, historyVars, boundVars,
         supervisorOnly, elsewhere, recoverOnly, mailboxOnly, restartOnly, publishOnly,
         answerOnly, failOnly
<1>1. CASE ReadAnnouncement
  BY <1>1 DEF ReadAnnouncement, OnceOK, NeverReplayed, Used, OpenedPcs, SeedPcs
<1>2. CASE WriteHealth
  BY <1>2 DEF WriteHealth, OnceOK, NeverReplayed, Used, OpenedPcs, SeedPcs
<1>3. ASSUME NEW r \in Releases, TakeOffer(r) PROVE OnceOK'
  BY <1>3 DEF TakeOffer, OnceOK, NeverReplayed, Used, OpenedPcs, SeedPcs
<1>4. CASE ReapResult
  BY <1>4 DEF ReapResult, OnceOK, NeverReplayed, Used, OpenedPcs, SeedPcs
<1>5. CASE Stage
  BY <1>5 DEF Stage, OnceOK, NeverReplayed, Used, OpenedPcs, SeedPcs
<1>6. CASE Download
  BY <1>6 DEF Download, Unready, OnceOK, NeverReplayed, Used, OpenedPcs, SeedPcs
<1>7. CASE ReadState
  BY <1>7 DEF ReadState, Found, OnceOK, NeverReplayed, Used, OpenedPcs, SeedPcs
<1>8. CASE RememberInterrupted
  <2>1. jmem = journal /\ [nonce |-> ledger.pending.nonce, rel |-> ledger.pending.rel] \in Requests
    BY <1>8, WindowFields DEF RememberInterrupted, MemoryOK, PhaseOK, RequestOK,
       AdmittedPcs, Requests, Caches
  <2>2. CASE RememberThen(ledger.pending.nonce, ledger.pending.rel, "abort")
    <3>1. (Remembered(ledger.pending.nonce, ledger.pending.rel) /\ Proceeds("abort")) \/ Abandons
      BY <1>8, <2>1, <2>2, RememberEffect
    <3>2. /\ journal'.pending = journal.pending
          /\ UNCHANGED <<ledger, installs, ended>>
          /\ sPc' = "commit" => sPc = "reserve" /\ tx' = tx
          /\ sPc' \notin {"reserve", "accepted", "install"}
      BY <1>8, <3>1 DEF RememberInterrupted, Remembered, Proceeds, Abandons, Exit
    <3>. QED
      BY <1>8, <3>2 DEF RememberInterrupted, OnceOK, NeverReplayed, Used, OpenedPcs, SeedPcs
  <2>3. CASE UNCHANGED <<ledger, journal>> /\ sPc' = "down"
    BY <1>8, <2>3 DEF RememberInterrupted, OnceOK, NeverReplayed, Used, OpenedPcs, SeedPcs
  <2>. QED
    BY <1>8, <2>2, <2>3 DEF RememberInterrupted, Goto, Exit
<1>9. CASE RememberCompleted
  <2>1. jmem = journal /\ [nonce |-> jmem.pending.nonce, rel |-> jmem.pending.rel] \in Requests
    BY <1>9, JournalFields DEF RememberCompleted, MemoryOK, PhaseOK, RequestOK, AdmittedPcs,
       Requests, Caches
  <2>2. CASE RememberThen(jmem.pending.nonce, jmem.pending.rel, "settle")
    <3>1. (Remembered(jmem.pending.nonce, jmem.pending.rel) /\ Proceeds("settle")) \/ Abandons
      BY <1>9, <2>1, <2>2, RememberEffect
    <3>2. /\ journal'.pending = journal.pending
          /\ UNCHANGED <<ledger, installs, ended>>
          /\ sPc' = "commit" => sPc = "reserve" /\ tx' = tx
          /\ sPc' \notin {"reserve", "accepted", "install"}
      BY <1>9, <3>1 DEF RememberCompleted, Remembered, Proceeds, Abandons, Exit
    <3>. QED
      BY <1>9, <3>2 DEF RememberCompleted, OnceOK, NeverReplayed, Used, OpenedPcs, SeedPcs
  <2>3. CASE UNCHANGED <<ledger, journal>> /\ sPc' = "down"
    BY <1>9, <2>3 DEF RememberCompleted, OnceOK, NeverReplayed, Used, OpenedPcs, SeedPcs
  <2>. QED
    BY <1>9, <2>2, <2>3 DEF RememberCompleted, Goto, Exit
<1>10. CASE RememberPending
  <2>1. jmem = journal /\ [nonce |-> jmem.pending.nonce, rel |-> jmem.pending.rel] \in Requests
    BY <1>10, JournalFields DEF RememberPending, MemoryOK, PhaseOK, RequestOK, AdmittedPcs,
       Requests, Caches
  <2>2. CASE RememberThen(jmem.pending.nonce, jmem.pending.rel, "judge")
    <3>1. (Remembered(jmem.pending.nonce, jmem.pending.rel) /\ Proceeds("judge")) \/ Abandons
      BY <1>10, <2>1, <2>2, RememberEffect
    <3>2. /\ journal'.pending = journal.pending
          /\ UNCHANGED <<ledger, installs, ended>>
          /\ sPc' = "commit" => sPc = "reserve" /\ tx' = tx
          /\ sPc' \notin {"reserve", "accepted", "install"}
      BY <1>10, <3>1 DEF RememberPending, Remembered, Proceeds, Abandons, Exit
    <3>. QED
      BY <1>10, <3>2 DEF RememberPending, OnceOK, NeverReplayed, Used, OpenedPcs, SeedPcs
  <2>3. CASE UNCHANGED <<ledger, journal>> /\ sPc' = "down"
    BY <1>10, <2>3 DEF RememberPending, OnceOK, NeverReplayed, Used, OpenedPcs, SeedPcs
  <2>. QED
    BY <1>10, <2>2, <2>3 DEF RememberPending, Goto, Exit
<1>11. CASE Judge
  BY <1>11 DEF Judge, Goto, Judgement, OnceOK, NeverReplayed, Used, OpenedPcs, SeedPcs
<1>12. CASE CheckDeadline
  BY <1>12 DEF CheckDeadline, Goto, OnceOK, NeverReplayed, Used, OpenedPcs, SeedPcs
<1>13. CASE FinishInterrupted
  <2>1. ledger'.pending = None /\ UNCHANGED installs /\ sPc' = "clear"
    BY <1>13 DEF FinishInterrupted, Finish, Goto
  <2>. QED
    BY <2>1 DEF OnceOK, NeverReplayed, Used, OpenedPcs, SeedPcs
<1>14. CASE FinishHealthy
  <2>1. ledger'.pending = None /\ UNCHANGED installs /\ sPc' = "clear"
    BY <1>14 DEF FinishHealthy, Finish, Goto
  <2>. QED
    BY <2>1 DEF OnceOK, NeverReplayed, Used, OpenedPcs, SeedPcs
<1>15. CASE FinishRolledBack
  <2>1. ledger'.pending = None /\ UNCHANGED installs /\ sPc' = "clear"
    BY <1>15 DEF FinishRolledBack, Finish, Goto
  <2>. QED
    BY <2>1 DEF OnceOK, NeverReplayed, Used, OpenedPcs, SeedPcs
<1>16. CASE ClearAnnouncement
  BY <1>16 DEF ClearAnnouncement, Goto, OnceOK, NeverReplayed, Used, OpenedPcs, SeedPcs
<1>17. CASE ClearHealth
  BY <1>17 DEF ClearHealth, Goto, OnceOK, NeverReplayed, Used, OpenedPcs, SeedPcs
<1>18. CASE Settle
  <2>1. ledger.pending = None
    BY <1>18 DEF Settle, PhaseOK
  <2>. QED
    BY <1>18, <2>1 DEF Settle, OnceOK, NeverReplayed, Used, OpenedPcs, SeedPcs
<1>19. CASE RollbackInstall
  BY <1>19 DEF RollbackInstall, Goto, Exit, OnceOK, NeverReplayed, Used, OpenedPcs, SeedPcs
<1>20. CASE RollbackRestart
  BY <1>20 DEF RollbackRestart, RestartAgent, AgentRestarted, Goto, OnceOK, NeverReplayed,
     Used, OpenedPcs, SeedPcs
<1>21. CASE Prune
  BY <1>21 DEF Prune, Goto, InUse, OnceOK, NeverReplayed, Used, OpenedPcs, SeedPcs
<1>22. CASE Admit
  <2>1. PICK q \in incoming : /\ tx' = [nonce |-> q.nonce, rel |-> q.rel]
                              /\ NotConsumed(q)
                              /\ q.rel.version \in Emergency \/ AboveFloor(q.rel)
    BY <1>22 DEF Admit, Examine, Fresh, Acceptable
  <2>2. /\ jmem = journal /\ UNCHANGED <<ledger, journal, installs, ended>>
        /\ sPc' = "reserve"
    BY <1>22 DEF Admit, Examine, MemoryOK
  <2>3. Genuine(q.nonce, q.rel) /\ q.nonce \in Nonces
    BY DEF GenuineOK, TypeOK
  <2>4. ~Receipt(q.nonce, q.rel)
    <3>1. \A c \in journal.consumed : c.nonce # q.nonce
      BY <2>1, <2>2 DEF NotConsumed, Known
    <3>2. [nonce |-> q.nonce, rel |-> q.rel].nonce = q.nonce
      OBVIOUS
    <3>. QED
      BY <3>1, <3>2 DEF Receipt
  <2>5. ~Used(q.nonce)
    BY <2>1, <2>3, <2>4 DEF ReceiptsOK, UsedHaveReceipts, Genuine
  <2>6. tx'.nonce = q.nonce
    BY <2>1
  <2>. QED
    BY <2>2, <2>5, <2>6 DEF OnceOK, NeverReplayed, Used, OpenedPcs, SeedPcs
<1>23. CASE TurnDown
  BY <1>23 DEF TurnDown, Examine, Fresh, OnceOK, NeverReplayed, Used, OpenedPcs, SeedPcs
<1>24. CASE NothingToDo
  BY <1>24 DEF NothingToDo, Goto, OnceOK, NeverReplayed, Used, OpenedPcs, SeedPcs
<1>25. CASE Reserve
  <2>1. jmem = journal /\ [nonce |-> tx.nonce, rel |-> tx.rel] \in Requests
    BY <1>25, AtRequest DEF Reserve, MemoryOK, PhaseOK, RequestOK, AdmittedPcs, Requests,
       Caches
  <2>2. CASE RememberThen(tx.nonce, tx.rel, "commit")
    <3>1. (Remembered(tx.nonce, tx.rel) /\ Proceeds("commit")) \/ Abandons
      BY <1>25, <2>1, <2>2, RememberEffect
    <3>2. /\ journal'.pending = journal.pending
          /\ UNCHANGED <<ledger, installs, ended>>
          /\ sPc' = "commit" => sPc = "reserve" /\ tx' = tx
          /\ sPc' \notin {"reserve", "accepted", "install"}
      BY <1>25, <3>1 DEF Reserve, Remembered, Proceeds, Abandons, Exit
    <3>. QED
      BY <1>25, <3>2 DEF Reserve, OnceOK, NeverReplayed, Used, OpenedPcs, SeedPcs
  <2>. QED
    BY <1>25, <2>2 DEF Reserve
<1>26. CASE Commit
  <2>1. tx \in Requests /\ tx # None /\ tx.nonce \in Nonces
    BY <1>26, AtRequest DEF Commit, OpenWindow, RequestOK, AdmittedPcs, OpenedPcs, SeedPcs
  <2>2. ledger'.pending.nonce = tx.nonce /\ UNCHANGED <<journal, installs, ended>> /\ sPc' = "unack"
    BY <1>26 DEF Commit, OpenWindow, Window, Goto, TypeOK
  <2>3. ended[tx.nonce] = None /\ ~installs[tx.nonce] > 0
    BY <1>26 DEF Commit, OpenWindow, OnceOK, Used
  <2>4. installs[tx.nonce] = 0
    BY <2>1, <2>3 DEF TypeOK
  <2>. QED
    BY <2>2, <2>3, <2>4 DEF OnceOK, NeverReplayed, Used, OpenedPcs, SeedPcs
<1>27. CASE Arm
  <2>1. tx # None /\ ledger.pending # None /\ journal.pending = tx /\ LedgerHas(tx)
    BY <1>27 DEF Arm, OpenWindow, RequestOK, PhaseOK, AdmittedPcs, OpenedPcs
  <2>2. ledger'.pending.nonce = tx.nonce /\ UNCHANGED <<journal, installs, ended>> /\ sPc' = "unack"
    BY <1>27 DEF Arm, OpenWindow, Window, Goto, TypeOK
  <2>. QED
    BY <2>1, <2>2 DEF LedgerHas, OnceOK, NeverReplayed, Used, OpenedPcs, SeedPcs
<1>28. CASE RemoveAck
  BY <1>28 DEF RemoveAck, Goto, OnceOK, NeverReplayed, Used, OpenedPcs, SeedPcs
<1>29. CASE Announce
  BY <1>29 DEF Announce, Goto, OnceOK, NeverReplayed, Used, OpenedPcs, SeedPcs
<1>30. CASE WriteJournal
  <2>1. /\ ledger.pending # None /\ LedgerHas(tx) /\ journal.pending = None
        /\ tx # None /\ jmem = journal
    BY <1>30 DEF WriteJournal, MemoryOK, RequestOK, PhaseOK, AdmittedPcs, OpenedPcs
  <2>2. /\ journal'.pending = tx /\ UNCHANGED <<ledger, installs, ended, tx>>
        /\ sPc' \in {"accepted", "drop"}
    BY <1>30, <2>1 DEF WriteJournal, TypeOK, Journals
  <2>. QED
    BY <2>1, <2>2 DEF LedgerHas, OnceOK, NeverReplayed, Used, OpenedPcs, SeedPcs
<1>31. CASE AnswerAccepted
  BY <1>31 DEF AnswerAccepted, Goto, Answer, OnceOK, NeverReplayed, Used, OpenedPcs, SeedPcs
<1>32. CASE Install
  <2>1. /\ tx # None /\ tx.nonce \in Nonces /\ journal.pending = tx
        /\ installs[tx.nonce] = 0
    BY <1>32 DEF Install, RequestOK, PhaseOK, OnceOK, AdmittedPcs, OpenedPcs, SeedPcs
  <2>2. /\ installs' = [installs EXCEPT ![tx.nonce] = installs[tx.nonce] + 1]
        /\ UNCHANGED <<ledger, journal, ended>> /\ sPc' = "arm"
    BY <1>32 DEF Install, Goto
  <2>. QED
    BY <2>1, <2>2 DEF TypeOK, OnceOK, NeverReplayed, Used, OpenedPcs, SeedPcs
<1>33. CASE RestartInstalled
  BY <1>33 DEF RestartInstalled, RestartAgent, AgentRestarted, OnceOK, NeverReplayed, Used,
     OpenedPcs, SeedPcs
<1>34. CASE DropCopy
  BY <1>34 DEF DropCopy, Goto, Exit, OnceOK, NeverReplayed, Used, OpenedPcs, SeedPcs
<1>35. CASE AnswerRefused
  BY <1>35 DEF AnswerRefused, Answer, Refused, OnceOK, NeverReplayed, Used, OpenedPcs, SeedPcs
<1>36. CASE SeedRemember
  <2>1. jmem = journal /\ [nonce |-> jmem.active.dir, rel |-> jmem.active.rel] \in Requests
    BY <1>36, JournalFields DEF SeedRemember, MemoryOK, PhaseOK, RequestOK, AdmittedPcs,
       Requests, Caches
  <2>2. CASE RememberThen(jmem.active.dir, jmem.active.rel, "seedCopy")
    <3>1. (Remembered(jmem.active.dir, jmem.active.rel) /\ Proceeds("seedCopy")) \/ Abandons
      BY <1>36, <2>1, <2>2, RememberEffect
    <3>2. /\ journal'.pending = journal.pending
          /\ UNCHANGED <<ledger, installs, ended>>
          /\ sPc' = "commit" => sPc = "reserve" /\ tx' = tx
          /\ sPc' \notin {"reserve", "accepted", "install"}
      BY <1>36, <3>1 DEF SeedRemember, Remembered, Proceeds, Abandons, Exit
    <3>. QED
      BY <1>36, <3>2 DEF SeedRemember, OnceOK, NeverReplayed, Used, OpenedPcs, SeedPcs
  <2>3. CASE UNCHANGED <<ledger, journal>> /\ sPc' = "seedCopy"
    BY <1>36, <2>3 DEF SeedRemember, OnceOK, NeverReplayed, Used, OpenedPcs, SeedPcs
  <2>. QED
    BY <1>36, <2>2, <2>3 DEF SeedRemember, Goto, Exit
<1>37. CASE SeedCopy
  BY <1>37 DEF SeedCopy, Goto, Exit, OnceOK, NeverReplayed, Used, OpenedPcs, SeedPcs
<1>38. CASE SeedFloor
  <2>1. ledger'.pending = ledger.pending
    BY <1>38 DEF SeedFloor, TypeOK
  <2>. QED
    BY <1>38, <2>1 DEF SeedFloor, Goto, OnceOK, NeverReplayed, Used, OpenedPcs, SeedPcs
<1>39. CASE SeedJournal
  <2>1. journal'.pending = journal.pending
    BY <1>39 DEF SeedJournal, MemoryOK, TypeOK, Journals
  <2>. QED
    BY <1>39, <2>1 DEF SeedJournal, OnceOK, NeverReplayed, Used, OpenedPcs, SeedPcs
<1>40. CASE SeedPrune
  BY <1>40 DEF SeedPrune, Exit, InUse, OnceOK, NeverReplayed, Used, OpenedPcs, SeedPcs
<1>41. CASE Start
  BY <1>41 DEF Start, Goto, OnceOK, NeverReplayed, Used, OpenedPcs, SeedPcs
<1>42. CASE AgentRestart
  BY <1>42 DEF AgentRestart, AgentRestarted, OnceOK, NeverReplayed, Used, OpenedPcs, SeedPcs
<1>43. CASE Fail
  BY <1>43 DEF Fail, Goto, Exit, Refused, OnceOK, NeverReplayed, Used, OpenedPcs, SeedPcs
<1>44. CASE Crash
  BY <1>44 DEF Crash, Exit, OnceOK, NeverReplayed, Used, OpenedPcs, SeedPcs
<1>45. CASE Tick
  BY <1>45 DEF Tick, OnceOK, NeverReplayed, Used, OpenedPcs, SeedPcs
<1>46. ASSUME NEW r \in Releases, SeedBegin(r) PROVE OnceOK'
  BY <1>46 DEF SeedBegin, OnceOK, NeverReplayed, Used, OpenedPcs, SeedPcs
<1>47. CASE UNCHANGED vars
  BY <1>47 DEF vars, OnceOK, NeverReplayed, Used, OpenedPcs, SeedPcs
<1>. QED
  BY <1>1, <1>2, <1>3, <1>4, <1>5, <1>6, <1>7, <1>8, <1>9, <1>10, <1>11, <1>12,
     <1>13, <1>14, <1>15, <1>16, <1>17, <1>18, <1>19, <1>20, <1>21, <1>22, <1>23,
     <1>24, <1>25, <1>26, <1>27, <1>28, <1>29, <1>30, <1>31, <1>32, <1>33, <1>34,
     <1>35, <1>36, <1>37, <1>38, <1>39, <1>40, <1>41, <1>42, <1>43, <1>44, <1>45,
     <1>46, <1>47
  DEF Next, Agent, Supervisor, Recover, Accept, Seed

-----------------------------------------------------------------------------
(* The anti-rollback floor.                                                *)

\* Every request the agent has offered has a nonce within the bound.
LEMMA OffersAreNonces ==
  ASSUME TypeOK
  PROVE  1..Len(offers) \subseteq Nonces
<1>1. offers \in Seq(Releases) /\ Len(offers) <= MaxNonce
  BY DEF TypeOK
<1>2. Len(offers) \in Nat /\ MaxNonce \in Nat
  BY <1>1, BoundsOK
<1>. QED
  BY <1>1, <1>2 DEF Nonces

\* Only releases are recorded healthy.
LEMMA ProvenAreReleases ==
  ASSUME TypeOK
  PROVE  FirstAndHealthy \subseteq Releases
<1>1. \A m \in 1..Len(offers) : offers[m] \in Releases
  BY DEF TypeOK
<1>. QED
  BY <1>1, ReleasesOK DEF FirstAndHealthy

\* A step that ends no transaction leaves the proven releases as they are: a
\* request that is made has no ending yet.
LEMMA HealthyKept ==
  ASSUME TypeOK, UsedHaveReceipts,
         \/ UNCHANGED offers
         \/ Len(offers) < MaxNonce /\ aRel \in Releases /\ offers' = Append(offers, aRel),
         UNCHANGED ended
  PROVE  FirstAndHealthy' = FirstAndHealthy
<1>1. CASE UNCHANGED offers
  BY <1>1 DEF FirstAndHealthy
<1>2. CASE Len(offers) < MaxNonce /\ aRel \in Releases /\ offers' = Append(offers, aRel)
  <2>. DEFINE k == Len(offers) + 1
  <2>1. /\ offers \in Seq(Releases) /\ Len(offers) \in Nat /\ Len(offers') = k
        /\ \A m \in 1..Len(offers) : offers'[m] = offers[m]
    BY <1>2 DEF TypeOK
  <2>2. k \in Nonces /\ k \notin 1..Len(offers)
    BY <1>2, <2>1, BoundsOK DEF Nonces
  <2>3. ended[k] = None
    BY <2>2 DEF UsedHaveReceipts, Used
  <2>4. ended[k] # "healthy"
    BY <2>3, NoneOK DEF Outcomes
  <2>5. \A m : m \in 1..Len(offers') /\ ended'[m] = "healthy"
               <=> m \in 1..Len(offers) /\ ended[m] = "healthy"
    BY <2>1, <2>4
  <2>. QED
    BY <2>1, <2>5 DEF FirstAndHealthy
<1>. QED
  BY <1>1, <1>2

\* Only a healthy ending and update-seed move the floor, and only up.
LEMMA FloorStep ==
  ASSUME TypeOK, TypeOK', UpdateInv, FloorOK, [Next]_vars
  PROVE  FloorOK'
<1>. USE DEF UpdateInv, protectedVars, mailVars, supVars, agentVars, historyVars, boundVars,
         supervisorOnly, elsewhere, recoverOnly, mailboxOnly, restartOnly, publishOnly,
         answerOnly, failOnly
<1>1. CASE ReadAnnouncement
  BY <1>1 DEF ReadAnnouncement, FloorOK, SeedPcs, FirstAndHealthy
<1>2. CASE WriteHealth
  BY <1>2 DEF WriteHealth, FloorOK, SeedPcs, FirstAndHealthy
<1>3. ASSUME NEW r \in Releases, TakeOffer(r) PROVE FloorOK'
  BY <1>3 DEF TakeOffer, FloorOK, SeedPcs, FirstAndHealthy
<1>4. CASE ReapResult
  BY <1>4 DEF ReapResult, FloorOK, SeedPcs, FirstAndHealthy
<1>5. CASE Stage
  <2>1. FirstAndHealthy' = FirstAndHealthy
    <3>1. UNCHANGED ended
      BY <1>5 DEF Stage
    <3>2. \/ UNCHANGED offers
          \/ Len(offers) < MaxNonce /\ aRel \in Releases /\ offers' = Append(offers, aRel)
      BY <1>5 DEF Stage, AgentOK, TypeOK
    <3>. QED
      BY <3>1, <3>2, HealthyKept DEF ReceiptsOK
  <2>. QED
    BY <1>5, <2>1 DEF Stage, FloorOK, SeedPcs
<1>6. CASE Download
  BY <1>6 DEF Download, Unready, FloorOK, SeedPcs, FirstAndHealthy
<1>7. CASE ReadState
  BY <1>7 DEF ReadState, Found, FloorOK, SeedPcs, FirstAndHealthy
<1>8. CASE RememberInterrupted
  <2>1. /\ UNCHANGED <<ledger, offers, ended>>
        /\ sPc' \in SeedPcs => sPc \in SeedPcs
    BY <1>8 DEF RememberInterrupted, RememberThen, Goto, Exit, SeedPcs
  <2>. QED
    BY <2>1 DEF FloorOK, FirstAndHealthy
<1>9. CASE RememberCompleted
  <2>1. /\ UNCHANGED <<ledger, offers, ended>>
        /\ sPc' \in SeedPcs => sPc \in SeedPcs
    BY <1>9 DEF RememberCompleted, RememberThen, Goto, Exit, SeedPcs
  <2>. QED
    BY <2>1 DEF FloorOK, FirstAndHealthy
<1>10. CASE RememberPending
  <2>1. /\ UNCHANGED <<ledger, offers, ended>>
        /\ sPc' \in SeedPcs => sPc \in SeedPcs
    BY <1>10 DEF RememberPending, RememberThen, Goto, Exit, SeedPcs
  <2>. QED
    BY <2>1 DEF FloorOK, FirstAndHealthy
<1>11. CASE Judge
  BY <1>11 DEF Judge, Goto, Judgement, FloorOK, SeedPcs, FirstAndHealthy
<1>12. CASE CheckDeadline
  BY <1>12 DEF CheckDeadline, Goto, FloorOK, SeedPcs, FirstAndHealthy
<1>13. CASE FinishInterrupted
  <2>1. PICK outcome \in Outcomes \ {"healthy"} : Finish(outcome)
    BY <1>13 DEF FinishInterrupted, Outcomes
  <2>2. ledger.pending # None /\ ledger.pending.nonce \in Nonces
    BY <1>13, WindowFields DEF FinishInterrupted, PhaseOK, JudgedPcs
  <2>3. /\ ledger'.version = ledger.version /\ ledger'.sequence = ledger.sequence
        /\ UNCHANGED offers /\ sPc' = "clear"
        /\ ended' = [ended EXCEPT ![ledger.pending.nonce] = outcome]
    BY <2>1 DEF Finish, Raises, Goto
  <2>4. ended[ledger.pending.nonce] # "healthy"
    BY <2>2, NoneOK DEF OnceOK, Outcomes
  <2>5. \A n \in Nonces : ended'[n] = "healthy" <=> ended[n] = "healthy"
    BY <2>1, <2>2, <2>3, <2>4 DEF TypeOK
  <2>6. FirstAndHealthy' = FirstAndHealthy
    <3>1. 1..Len(offers) \subseteq Nonces
      BY OffersAreNonces
    <3>. QED
      BY <2>3, <2>5, <3>1 DEF FirstAndHealthy
  <2>. QED
    BY <2>3, <2>6 DEF FloorOK, SeedPcs
<1>14. CASE FinishHealthy
  <2>1. Finish("healthy") /\ ledger.pending # None
    BY <1>14 DEF FinishHealthy, PhaseOK, JudgedPcs
  <2>. DEFINE p == ledger.pending
  <2>2. /\ p.nonce \in 1..Len(offers) /\ p.nonce \in Nonces /\ offers[p.nonce] = p.rel
        /\ p.rel \in Releases
    BY <2>1, WindowFields DEF GenuineOK, Genuine
  <2>3. /\ ledger'.version = Larger(p.rel.version, ledger.version)
        /\ ledger'.sequence = Larger(p.rel.sequence, ledger.sequence)
        /\ UNCHANGED offers /\ sPc' = "clear"
        /\ ended' = [ended EXCEPT ![p.nonce] = "healthy"]
    BY <2>1 DEF Finish, Raises, Goto
  <2>. HIDE DEF p
  <2>4. \A n \in Nonces : ended'[n] = "healthy" <=> n = p.nonce \/ ended[n] = "healthy"
    BY <2>2, <2>3 DEF TypeOK
  <2>5. FirstAndHealthy' = FirstAndHealthy \cup {p.rel}
    <3>1. 1..Len(offers) \subseteq Nonces
      BY OffersAreNonces
    <3>2. \A m : m \in 1..Len(offers') /\ ended'[m] = "healthy"
                 <=> \/ m = p.nonce
                     \/ m \in 1..Len(offers) /\ ended[m] = "healthy"
      BY <2>2, <2>3, <2>4, <3>1
    <3>. QED
      BY <2>2, <2>3, <3>2 DEF FirstAndHealthy
  <2>6. FirstAndHealthy \subseteq Releases
    BY ProvenAreReleases
  <2>7. /\ \A r \in Releases : r.version \in Nat /\ r.sequence \in Nat
        /\ ledger.version \in Nat /\ ledger.sequence \in Nat
    BY ReleasesOK DEF TypeOK
  <2>8. \A r \in FirstAndHealthy' : r.version <= ledger'.version /\ r.sequence <= ledger'.sequence
    BY <2>2, <2>3, <2>5, <2>6, <2>7 DEF FloorOK, Larger
  <2>9. ASSUME MaxSeeds = 0
        PROVE  /\ \E r \in FirstAndHealthy' : r.version = ledger'.version
               /\ \E r \in FirstAndHealthy' : r.sequence = ledger'.sequence
    BY <2>3, <2>5, <2>9 DEF FloorOK, Larger
  <2>. QED
    BY <2>3, <2>8, <2>9 DEF FloorOK, SeedPcs
<1>15. CASE FinishRolledBack
  <2>1. PICK outcome \in Outcomes \ {"healthy"} : Finish(outcome)
    BY <1>15 DEF FinishRolledBack, Outcomes
  <2>2. ledger.pending # None /\ ledger.pending.nonce \in Nonces
    BY <1>15, WindowFields DEF FinishRolledBack, PhaseOK, JudgedPcs
  <2>3. /\ ledger'.version = ledger.version /\ ledger'.sequence = ledger.sequence
        /\ UNCHANGED offers /\ sPc' = "clear"
        /\ ended' = [ended EXCEPT ![ledger.pending.nonce] = outcome]
    BY <2>1 DEF Finish, Raises, Goto
  <2>4. ended[ledger.pending.nonce] # "healthy"
    BY <2>2, NoneOK DEF OnceOK, Outcomes
  <2>5. \A n \in Nonces : ended'[n] = "healthy" <=> ended[n] = "healthy"
    BY <2>1, <2>2, <2>3, <2>4 DEF TypeOK
  <2>6. FirstAndHealthy' = FirstAndHealthy
    <3>1. 1..Len(offers) \subseteq Nonces
      BY OffersAreNonces
    <3>. QED
      BY <2>3, <2>5, <3>1 DEF FirstAndHealthy
  <2>. QED
    BY <2>3, <2>6 DEF FloorOK, SeedPcs
<1>16. CASE ClearAnnouncement
  BY <1>16 DEF ClearAnnouncement, Goto, FloorOK, SeedPcs, FirstAndHealthy
<1>17. CASE ClearHealth
  BY <1>17 DEF ClearHealth, Goto, FloorOK, SeedPcs, FirstAndHealthy
<1>18. CASE Settle
  BY <1>18 DEF Settle, Survivor, FloorOK, SeedPcs, FirstAndHealthy
<1>19. CASE RollbackInstall
  BY <1>19 DEF RollbackInstall, Goto, Exit, FloorOK, SeedPcs, FirstAndHealthy
<1>20. CASE RollbackRestart
  BY <1>20 DEF RollbackRestart, RestartAgent, AgentRestarted, Goto, FloorOK, SeedPcs,
     FirstAndHealthy
<1>21. CASE Prune
  BY <1>21 DEF Prune, Goto, InUse, FloorOK, SeedPcs, FirstAndHealthy
<1>22. CASE Admit
  BY <1>22 DEF Admit, Examine, Fresh, Acceptable, FloorOK, SeedPcs, FirstAndHealthy
<1>23. CASE TurnDown
  BY <1>23 DEF TurnDown, Examine, Fresh, FloorOK, SeedPcs, FirstAndHealthy
<1>24. CASE NothingToDo
  BY <1>24 DEF NothingToDo, Goto, FloorOK, SeedPcs, FirstAndHealthy
<1>25. CASE Reserve
  <2>1. /\ UNCHANGED <<ledger, offers, ended>>
        /\ sPc' \in SeedPcs => sPc \in SeedPcs
    BY <1>25 DEF Reserve, RememberThen, Goto, Exit, SeedPcs
  <2>. QED
    BY <2>1 DEF FloorOK, FirstAndHealthy
<1>26. CASE Commit
  <2>1. /\ UNCHANGED <<offers, ended>> /\ sPc' = "unack"
        /\ ledger'.version = ledger.version /\ ledger'.sequence = ledger.sequence
    BY <1>26 DEF Commit, OpenWindow, Goto, TypeOK
  <2>. QED
    BY <2>1 DEF FirstAndHealthy, FloorOK, SeedPcs
<1>27. CASE Arm
  <2>1. /\ UNCHANGED <<offers, ended>> /\ sPc' = "unack"
        /\ ledger'.version = ledger.version /\ ledger'.sequence = ledger.sequence
    BY <1>27 DEF Arm, OpenWindow, Goto, TypeOK
  <2>. QED
    BY <2>1 DEF FirstAndHealthy, FloorOK, SeedPcs
<1>28. CASE RemoveAck
  BY <1>28 DEF RemoveAck, Goto, FloorOK, SeedPcs, FirstAndHealthy
<1>29. CASE Announce
  BY <1>29 DEF Announce, Goto, FloorOK, SeedPcs, FirstAndHealthy
<1>30. CASE WriteJournal
  BY <1>30 DEF WriteJournal, FloorOK, SeedPcs, FirstAndHealthy
<1>31. CASE AnswerAccepted
  BY <1>31 DEF AnswerAccepted, Goto, Answer, FloorOK, SeedPcs, FirstAndHealthy
<1>32. CASE Install
  BY <1>32 DEF Install, Goto, FloorOK, SeedPcs, FirstAndHealthy
<1>33. CASE RestartInstalled
  BY <1>33 DEF RestartInstalled, RestartAgent, AgentRestarted, FloorOK, SeedPcs,
     FirstAndHealthy
<1>34. CASE DropCopy
  BY <1>34 DEF DropCopy, Goto, Exit, FloorOK, SeedPcs, FirstAndHealthy
<1>35. CASE AnswerRefused
  BY <1>35 DEF AnswerRefused, Answer, Refused, FloorOK, SeedPcs, FirstAndHealthy
<1>36. CASE SeedRemember
  <2>1. /\ UNCHANGED <<ledger, offers, ended>>
        /\ sPc' \in SeedPcs => sPc \in SeedPcs
    BY <1>36 DEF SeedRemember, RememberThen, Goto, Exit, SeedPcs
  <2>. QED
    BY <2>1 DEF FloorOK, FirstAndHealthy
<1>37. CASE SeedCopy
  BY <1>37 DEF SeedCopy, Goto, Exit, FloorOK, SeedPcs, FirstAndHealthy
<1>38. CASE SeedFloor
  <2>1. /\ ledger'.version = Larger(tx.rel.version, ledger.version)
        /\ ledger'.sequence = Larger(tx.rel.sequence, ledger.sequence)
        /\ UNCHANGED <<offers, ended>> /\ sPc' = "seedJournal" /\ MaxSeeds # 0
    BY <1>38 DEF SeedFloor, Goto, TypeOK, FloorOK, SeedPcs
  <2>2. tx.rel \in Releases
    BY <1>38, AtRequest DEF SeedFloor, RequestOK, SeedPcs
  <2>3. /\ ledger.version \in Nat /\ ledger.sequence \in Nat
        /\ tx.rel.version \in Nat /\ tx.rel.sequence \in Nat
        /\ \A r \in Releases : r.version \in Nat /\ r.sequence \in Nat
    BY <2>2, ReleasesOK DEF TypeOK
  <2>4. FirstAndHealthy \subseteq Releases /\ FirstAndHealthy' = FirstAndHealthy
    BY <2>1, ProvenAreReleases DEF FirstAndHealthy
  <2>5. \A r \in FirstAndHealthy : r.version <= ledger'.version /\ r.sequence <= ledger'.sequence
    BY <2>1, <2>3, <2>4 DEF FloorOK, Larger
  <2>. QED
    BY <2>1, <2>4, <2>5 DEF FloorOK, SeedPcs
<1>39. CASE SeedJournal
  BY <1>39 DEF SeedJournal, FloorOK, SeedPcs, FirstAndHealthy
<1>40. CASE SeedPrune
  BY <1>40 DEF SeedPrune, Exit, InUse, FloorOK, SeedPcs, FirstAndHealthy
<1>41. CASE Start
  BY <1>41 DEF Start, Goto, FloorOK, SeedPcs, FirstAndHealthy
<1>42. CASE AgentRestart
  BY <1>42 DEF AgentRestart, AgentRestarted, FloorOK, SeedPcs, FirstAndHealthy
<1>43. CASE Fail
  BY <1>43 DEF Fail, Goto, Exit, Refused, FloorOK, SeedPcs, FirstAndHealthy
<1>44. CASE Crash
  BY <1>44 DEF Crash, Exit, FloorOK, SeedPcs, FirstAndHealthy
<1>45. CASE Tick
  BY <1>45 DEF Tick, FloorOK, SeedPcs, FirstAndHealthy
<1>46. ASSUME NEW r \in Releases, SeedBegin(r) PROVE FloorOK'
  <2>1. MaxSeeds # 0 /\ UNCHANGED <<ledger, offers, ended>>
    BY <1>46, BoundsOK DEF SeedBegin, TypeOK
  <2>. QED
    BY <2>1 DEF FloorOK, FirstAndHealthy
<1>47. CASE UNCHANGED vars
  BY <1>47 DEF vars, FirstAndHealthy, FloorOK, SeedPcs
<1>. QED
  BY <1>1, <1>2, <1>3, <1>4, <1>5, <1>6, <1>7, <1>8, <1>9, <1>10, <1>11, <1>12,
     <1>13, <1>14, <1>15, <1>16, <1>17, <1>18, <1>19, <1>20, <1>21, <1>22, <1>23,
     <1>24, <1>25, <1>26, <1>27, <1>28, <1>29, <1>30, <1>31, <1>32, <1>33, <1>34,
     <1>35, <1>36, <1>37, <1>38, <1>39, <1>40, <1>41, <1>42, <1>43, <1>44, <1>45,
     <1>46, <1>47
  DEF Next, Agent, Supervisor, Recover, Accept, Seed

-----------------------------------------------------------------------------
(* What is installed.                                                      *)

\* Without mishaps the package manager follows the journal: no file operation
\* comes between an installation and the record of its outcome.
LEMMA InstalledStep ==
  ASSUME TypeOK, TypeOK', UpdateInv, FloorOK, InstalledOK,
         MaxSeeds = 0 \/ OneReleasePerVersion, [Next]_vars
  PROVE  InstalledOK'
<1>. USE DEF UpdateInv, protectedVars, mailVars, supVars, agentVars, historyVars, boundVars,
         supervisorOnly, elsewhere, recoverOnly, mailboxOnly, restartOnly, publishOnly,
         answerOnly, failOnly
<1>1. CASE ReadAnnouncement
  BY <1>1 DEF ReadAnnouncement, InstalledOK, Expected, Last
<1>2. CASE WriteHealth
  BY <1>2 DEF WriteHealth, InstalledOK, Expected, Last
<1>3. ASSUME NEW r \in Releases, TakeOffer(r) PROVE InstalledOK'
  BY <1>3 DEF TakeOffer, InstalledOK, Expected, Last
<1>4. CASE ReapResult
  BY <1>4 DEF ReapResult, InstalledOK, Expected, Last
<1>5. CASE Stage
  BY <1>5 DEF Stage, InstalledOK, Expected, Last
<1>6. CASE Download
  BY <1>6 DEF Download, Unready, InstalledOK, Expected, Last
<1>7. CASE ReadState
  <2>1. /\ UNCHANGED <<ledger, journal, installed, mishaps>> /\ sPc = "top"
        /\ sPc' \in {"prune", "interrupted", "completed", "pending"}
    BY <1>7 DEF ReadState, Found
  <2>. QED
    BY <2>1 DEF InstalledOK, Expected, Last
<1>8. CASE RememberInterrupted
  <2>1. jmem = journal /\ [nonce |-> ledger.pending.nonce, rel |-> ledger.pending.rel] \in Requests
    BY <1>8, WindowFields DEF RememberInterrupted, MemoryOK, PhaseOK, RequestOK,
       AdmittedPcs, Requests, Caches
  <2>2. CASE RememberThen(ledger.pending.nonce, ledger.pending.rel, "abort")
    <3>1. (Remembered(ledger.pending.nonce, ledger.pending.rel) /\ Proceeds("abort")) \/ Abandons
      BY <1>8, <2>1, <2>2, RememberEffect
    <3>2. /\ journal'.pending = journal.pending /\ journal'.active = journal.active
          /\ UNCHANGED <<ledger, installed, mishaps>>
          /\ sPc' \notin {"accepted", "install", "rbRestart", "rbFinish", "seedFloor", "seedJournal"}
      BY <1>8, <3>1 DEF RememberInterrupted, Remembered, Proceeds, Abandons, Exit
    <3>. QED
      BY <1>8, <3>2 DEF RememberInterrupted, InstalledOK, Expected, Last
  <2>3. CASE UNCHANGED <<ledger, journal>> /\ sPc' = "down"
    BY <1>8, <2>3 DEF RememberInterrupted, InstalledOK, Expected, Last
  <2>. QED
    BY <1>8, <2>2, <2>3 DEF RememberInterrupted, Goto, Exit
<1>9. CASE RememberCompleted
  <2>1. jmem = journal /\ [nonce |-> jmem.pending.nonce, rel |-> jmem.pending.rel] \in Requests
    BY <1>9, JournalFields DEF RememberCompleted, MemoryOK, PhaseOK, RequestOK, AdmittedPcs,
       Requests, Caches
  <2>2. CASE RememberThen(jmem.pending.nonce, jmem.pending.rel, "settle")
    <3>1. (Remembered(jmem.pending.nonce, jmem.pending.rel) /\ Proceeds("settle")) \/ Abandons
      BY <1>9, <2>1, <2>2, RememberEffect
    <3>2. /\ journal'.pending = journal.pending /\ journal'.active = journal.active
          /\ UNCHANGED <<ledger, installed, mishaps>>
          /\ sPc' \notin {"accepted", "install", "rbRestart", "rbFinish", "seedFloor", "seedJournal"}
      BY <1>9, <3>1 DEF RememberCompleted, Remembered, Proceeds, Abandons, Exit
    <3>. QED
      BY <1>9, <3>2 DEF RememberCompleted, InstalledOK, Expected, Last
  <2>3. CASE UNCHANGED <<ledger, journal>> /\ sPc' = "down"
    BY <1>9, <2>3 DEF RememberCompleted, InstalledOK, Expected, Last
  <2>. QED
    BY <1>9, <2>2, <2>3 DEF RememberCompleted, Goto, Exit
<1>10. CASE RememberPending
  <2>1. jmem = journal /\ [nonce |-> jmem.pending.nonce, rel |-> jmem.pending.rel] \in Requests
    BY <1>10, JournalFields DEF RememberPending, MemoryOK, PhaseOK, RequestOK, AdmittedPcs,
       Requests, Caches
  <2>2. CASE RememberThen(jmem.pending.nonce, jmem.pending.rel, "judge")
    <3>1. (Remembered(jmem.pending.nonce, jmem.pending.rel) /\ Proceeds("judge")) \/ Abandons
      BY <1>10, <2>1, <2>2, RememberEffect
    <3>2. /\ journal'.pending = journal.pending /\ journal'.active = journal.active
          /\ UNCHANGED <<ledger, installed, mishaps>>
          /\ sPc' \notin {"accepted", "install", "rbRestart", "rbFinish", "seedFloor", "seedJournal"}
      BY <1>10, <3>1 DEF RememberPending, Remembered, Proceeds, Abandons, Exit
    <3>. QED
      BY <1>10, <3>2 DEF RememberPending, InstalledOK, Expected, Last
  <2>3. CASE UNCHANGED <<ledger, journal>> /\ sPc' = "down"
    BY <1>10, <2>3 DEF RememberPending, InstalledOK, Expected, Last
  <2>. QED
    BY <1>10, <2>2, <2>3 DEF RememberPending, Goto, Exit
<1>11. CASE Judge
  BY <1>11 DEF Judge, Goto, Judgement, InstalledOK, Expected, Last
<1>12. CASE CheckDeadline
  BY <1>12 DEF CheckDeadline, Goto, InstalledOK, Expected, Last
<1>13. CASE FinishInterrupted
  <2>1. ledger.pending # None
    BY <1>13 DEF FinishInterrupted, PhaseOK, JudgedPcs
  <2>2. PICK outcome \in Outcomes : Finish(outcome) /\ (outcome = "healthy" <=> sPc = "accept")
    BY <1>13 DEF FinishInterrupted, Outcomes
  <2>3. ledger'.pending = None /\ Last'.outcome = outcome
    BY <2>1, <2>2, FinishEffect
  <2>4. UNCHANGED <<journal, installed, mishaps>> /\ sPc' = "clear"
    BY <2>2 DEF Finish, Goto
  <2>5. sPc \in {"rbFinish", "accept"} => journal.pending # None
    BY DEF PhaseOK, JudgedPcs
  <2>6. sPc = "abort" => journal.pending = None
    BY DEF PhaseOK
  <2>7. sPc \in {"abort", "accept", "rbFinish"}
    BY <1>13 DEF FinishInterrupted
  <2>. QED
    BY <2>1, <2>2, <2>3, <2>4, <2>5, <2>6, <2>7 DEF InstalledOK, Expected
<1>14. CASE FinishHealthy
  <2>1. ledger.pending # None
    BY <1>14 DEF FinishHealthy, PhaseOK, JudgedPcs
  <2>2. PICK outcome \in Outcomes : Finish(outcome) /\ (outcome = "healthy" <=> sPc = "accept")
    BY <1>14 DEF FinishHealthy, Outcomes
  <2>3. ledger'.pending = None /\ Last'.outcome = outcome
    BY <2>1, <2>2, FinishEffect
  <2>4. UNCHANGED <<journal, installed, mishaps>> /\ sPc' = "clear"
    BY <2>2 DEF Finish, Goto
  <2>5. sPc \in {"rbFinish", "accept"} => journal.pending # None
    BY DEF PhaseOK, JudgedPcs
  <2>6. sPc = "abort" => journal.pending = None
    BY DEF PhaseOK
  <2>7. sPc \in {"abort", "accept", "rbFinish"}
    BY <1>14 DEF FinishHealthy
  <2>. QED
    BY <2>1, <2>2, <2>3, <2>4, <2>5, <2>6, <2>7 DEF InstalledOK, Expected
<1>15. CASE FinishRolledBack
  <2>1. ledger.pending # None
    BY <1>15 DEF FinishRolledBack, PhaseOK, JudgedPcs
  <2>2. PICK outcome \in Outcomes : Finish(outcome) /\ (outcome = "healthy" <=> sPc = "accept")
    BY <1>15 DEF FinishRolledBack, Outcomes
  <2>3. ledger'.pending = None /\ Last'.outcome = outcome
    BY <2>1, <2>2, FinishEffect
  <2>4. UNCHANGED <<journal, installed, mishaps>> /\ sPc' = "clear"
    BY <2>2 DEF Finish, Goto
  <2>5. sPc \in {"rbFinish", "accept"} => journal.pending # None
    BY DEF PhaseOK, JudgedPcs
  <2>6. sPc = "abort" => journal.pending = None
    BY DEF PhaseOK
  <2>7. sPc \in {"abort", "accept", "rbFinish"}
    BY <1>15 DEF FinishRolledBack
  <2>. QED
    BY <2>1, <2>2, <2>3, <2>4, <2>5, <2>6, <2>7 DEF InstalledOK, Expected
<1>16. CASE ClearAnnouncement
  <2>1. /\ UNCHANGED <<ledger, journal, installed>> /\ sPc' \in {"clearHealth", "settle", "prune"}
        /\ sPc \in {"clear", "clearHealth"} /\ (mishaps' = 0 => mishaps = 0)
    BY <1>16 DEF ClearAnnouncement, Goto, TypeOK
  <2>. QED
    BY <2>1 DEF InstalledOK, Expected, Last
<1>17. CASE ClearHealth
  <2>1. /\ UNCHANGED <<ledger, journal, installed>> /\ sPc' \in {"clearHealth", "settle", "prune"}
        /\ sPc \in {"clear", "clearHealth"} /\ (mishaps' = 0 => mishaps = 0)
    BY <1>17 DEF ClearHealth, Goto, TypeOK
  <2>. QED
    BY <2>1 DEF InstalledOK, Expected, Last
<1>18. CASE Settle
  <2>1. ledger.pending = None /\ journal.pending # None /\ jmem = journal
    BY <1>18 DEF Settle, PhaseOK, MemoryOK
  <2>2. /\ journal'.pending = None /\ journal'.active = Survivor
        /\ UNCHANGED <<ledger, installed, mishaps>> /\ sPc' = "prune"
    BY <1>18, <2>1 DEF Settle, TypeOK, Journals
  <2>. QED
    BY <2>1, <2>2 DEF Survivor, InstalledOK, Expected
<1>19. CASE RollbackInstall
  <2>1. /\ ledger.pending # None /\ journal.pending # None /\ jmem = journal
        /\ jmem.active.dir \in cache
    BY <1>19 DEF RollbackInstall, PhaseOK, MemoryOK, CacheOK, RollbackPossible, JudgedPcs
  <2>. QED
    BY <1>19, <2>1 DEF RollbackInstall, Goto, InstalledOK, Expected, Last
<1>20. CASE RollbackRestart
  BY <1>20 DEF RollbackRestart, RestartAgent, AgentRestarted, Goto, InstalledOK, Expected, Last
<1>21. CASE Prune
  BY <1>21 DEF Prune, Goto, InUse, InstalledOK, Expected, Last
<1>22. CASE Admit
  BY <1>22 DEF Admit, Examine, Fresh, Acceptable, InstalledOK, Expected, Last
<1>23. CASE TurnDown
  BY <1>23 DEF TurnDown, Examine, Fresh, InstalledOK, Expected, Last
<1>24. CASE NothingToDo
  BY <1>24 DEF NothingToDo, Goto, InstalledOK, Expected, Last
<1>25. CASE Reserve
  <2>1. jmem = journal /\ [nonce |-> tx.nonce, rel |-> tx.rel] \in Requests
    BY <1>25, AtRequest DEF Reserve, MemoryOK, PhaseOK, RequestOK, AdmittedPcs, Requests,
       Caches
  <2>2. CASE RememberThen(tx.nonce, tx.rel, "commit")
    <3>1. (Remembered(tx.nonce, tx.rel) /\ Proceeds("commit")) \/ Abandons
      BY <1>25, <2>1, <2>2, RememberEffect
    <3>2. /\ journal'.pending = journal.pending /\ journal'.active = journal.active
          /\ UNCHANGED <<ledger, installed, mishaps>>
          /\ sPc' \notin {"accepted", "install", "rbRestart", "rbFinish", "seedFloor", "seedJournal"}
      BY <1>25, <3>1 DEF Reserve, Remembered, Proceeds, Abandons, Exit
    <3>. QED
      BY <1>25, <3>2 DEF Reserve, InstalledOK, Expected, Last
  <2>. QED
    BY <1>25, <2>2 DEF Reserve
<1>26. CASE Commit
  <2>1. sPc = "arm" => ledger.pending # None /\ journal.pending # None
    BY DEF PhaseOK, RequestOK, AdmittedPcs, OpenedPcs
  <2>2. sPc = "commit" => journal.pending = None
    BY DEF PhaseOK
  <2>3. ledger'.pending # None
    <3>1. tx # None /\ tx.nonce \in Nonces
      BY <1>26 DEF Commit, OpenWindow, RequestOK, AdmittedPcs, OpenedPcs, SeedPcs
    <3>2. now \in Nat /\ HealthTimeout \in Nat
      BY BoundsOK DEF TypeOK
    <3>3. Window \in Windows
      BY <3>1, <3>2, AtRequest DEF Window, Windows
    <3>4. ledger'.pending = Window
      BY <1>26 DEF Commit, OpenWindow, TypeOK
    <3>. QED
      BY <3>3, <3>4, NoneOK
  <2>. QED
    BY <1>26, <2>1, <2>2, <2>3 DEF Commit, OpenWindow, Goto, InstalledOK, Expected, Last
<1>27. CASE Arm
  <2>1. sPc = "arm" => ledger.pending # None /\ journal.pending # None
    BY DEF PhaseOK, RequestOK, AdmittedPcs, OpenedPcs
  <2>2. sPc = "commit" => journal.pending = None
    BY DEF PhaseOK
  <2>3. ledger'.pending # None
    <3>1. tx # None /\ tx.nonce \in Nonces
      BY <1>27 DEF Arm, OpenWindow, RequestOK, AdmittedPcs, OpenedPcs, SeedPcs
    <3>2. now \in Nat /\ HealthTimeout \in Nat
      BY BoundsOK DEF TypeOK
    <3>3. Window \in Windows
      BY <3>1, <3>2, AtRequest DEF Window, Windows
    <3>4. ledger'.pending = Window
      BY <1>27 DEF Arm, OpenWindow, TypeOK
    <3>. QED
      BY <3>3, <3>4, NoneOK
  <2>. QED
    BY <1>27, <2>1, <2>2, <2>3 DEF Arm, OpenWindow, Goto, InstalledOK, Expected, Last
<1>28. CASE RemoveAck
  BY <1>28 DEF RemoveAck, Goto, InstalledOK, Expected, Last
<1>29. CASE Announce
  BY <1>29 DEF Announce, Goto, InstalledOK, Expected, Last
<1>30. CASE WriteJournal
  <2>1. /\ ledger.pending # None /\ journal.pending = None /\ jmem = journal
    BY <1>30 DEF WriteJournal, MemoryOK, PhaseOK, OpenedPcs
  <2>2. /\ journal'.active = journal.active /\ UNCHANGED <<ledger, installed>>
        /\ mishaps' = 0 => mishaps = 0 /\ sPc' = "accepted"
    BY <1>30, <2>1 DEF WriteJournal, TypeOK, Journals
  <2>. QED
    BY <1>30, <2>1, <2>2 DEF WriteJournal, InstalledOK, Expected, Last
<1>31. CASE AnswerAccepted
  BY <1>31 DEF AnswerAccepted, Goto, Answer, InstalledOK, Expected, Last
<1>32. CASE Install
  <2>1. tx # None /\ ledger.pending # None /\ journal.pending = tx
    BY <1>32 DEF Install, RequestOK, PhaseOK, AdmittedPcs, OpenedPcs
  <2>. QED
    BY <1>32, <2>1 DEF Install, Goto, InstalledOK, Expected, Last
<1>33. CASE RestartInstalled
  BY <1>33 DEF RestartInstalled, RestartAgent, AgentRestarted, InstalledOK, Expected, Last
<1>34. CASE DropCopy
  BY <1>34 DEF DropCopy, Goto, Exit, InstalledOK, Expected, Last
<1>35. CASE AnswerRefused
  BY <1>35 DEF AnswerRefused, Answer, Refused, InstalledOK, Expected, Last
<1>36. CASE SeedRemember
  <2>1. jmem = journal /\ [nonce |-> jmem.active.dir, rel |-> jmem.active.rel] \in Requests
    BY <1>36, JournalFields DEF SeedRemember, MemoryOK, PhaseOK, RequestOK, AdmittedPcs,
       Requests, Caches
  <2>2. CASE RememberThen(jmem.active.dir, jmem.active.rel, "seedCopy")
    <3>1. (Remembered(jmem.active.dir, jmem.active.rel) /\ Proceeds("seedCopy")) \/ Abandons
      BY <1>36, <2>1, <2>2, RememberEffect
    <3>2. /\ journal'.pending = journal.pending /\ journal'.active = journal.active
          /\ UNCHANGED <<ledger, installed, mishaps>>
          /\ sPc' \notin {"accepted", "install", "rbRestart", "rbFinish", "seedFloor", "seedJournal"}
      BY <1>36, <3>1 DEF SeedRemember, Remembered, Proceeds, Abandons, Exit
    <3>. QED
      BY <1>36, <3>2 DEF SeedRemember, InstalledOK, Expected, Last
  <2>3. CASE UNCHANGED <<ledger, journal>> /\ sPc' = "seedCopy"
    BY <1>36, <2>3 DEF SeedRemember, InstalledOK, Expected, Last
  <2>. QED
    BY <1>36, <2>2, <2>3 DEF SeedRemember, Goto, Exit
<1>37. CASE SeedCopy
  BY <1>37 DEF SeedCopy, Goto, Exit, InstalledOK, Expected, Last
<1>38. CASE SeedFloor
  <2>1. journal.pending = None /\ UNCHANGED <<journal, tx, installed, mishaps>> /\ sPc = "seedFloor"
    BY <1>38 DEF SeedFloor, PhaseOK, SeedPcs, Goto
  <2>. QED
    BY <2>1 DEF InstalledOK, Expected
<1>39. CASE SeedJournal
  <2>1. jmem = journal /\ journal.pending = None /\ tx # None /\ MaxSeeds # 0
    BY <1>39 DEF SeedJournal, MemoryOK, PhaseOK, RequestOK, SeedPcs, FloorOK
  <2>2. journal'.active.rel = tx.rel /\ journal'.pending = None
    BY <1>39, <2>1 DEF SeedJournal, TypeOK, Journals
  <2>3. tx.rel \in Releases /\ installed \in Releases
    BY <2>1, AtRequest DEF TypeOK
  <2>4. /\ UNCHANGED <<ledger, installed>> /\ sPc' \in {"seedPrune", "drop"}
        /\ mishaps' = 0 => mishaps = 0
    BY <1>39 DEF SeedJournal, TypeOK
  <2>. QED
    BY <1>39, <2>1, <2>2, <2>3, <2>4 DEF SeedJournal, InstalledOK, Expected,
       OneReleasePerVersion
<1>40. CASE SeedPrune
  BY <1>40 DEF SeedPrune, Exit, InUse, InstalledOK, Expected, Last
<1>41. CASE Start
  BY <1>41 DEF Start, Goto, InstalledOK, Expected, Last
<1>42. CASE AgentRestart
  BY <1>42 DEF AgentRestart, AgentRestarted, InstalledOK, Expected, Last
<1>43. CASE Fail
  <2>1. mishaps' # 0
    BY <1>43 DEF Fail, TypeOK
  <2>. QED
    BY <2>1 DEF InstalledOK
<1>44. CASE Crash
  <2>1. mishaps' # 0
    BY <1>44 DEF Crash, TypeOK
  <2>. QED
    BY <2>1 DEF InstalledOK
<1>45. CASE Tick
  BY <1>45 DEF Tick, InstalledOK, Expected, Last
<1>46. ASSUME NEW r \in Releases, SeedBegin(r) PROVE InstalledOK'
  <2>1. /\ UNCHANGED <<ledger, journal, installed, mishaps>> /\ sPc' = "seedRemember"
        /\ sPc \in {"down", "top"}
    BY <1>46 DEF SeedBegin
  <2>. QED
    BY <2>1 DEF InstalledOK, Expected, Last
<1>47. CASE UNCHANGED vars
  BY <1>47 DEF vars, InstalledOK, Expected, Last
<1>. QED
  BY <1>1, <1>2, <1>3, <1>4, <1>5, <1>6, <1>7, <1>8, <1>9, <1>10, <1>11, <1>12,
     <1>13, <1>14, <1>15, <1>16, <1>17, <1>18, <1>19, <1>20, <1>21, <1>22, <1>23,
     <1>24, <1>25, <1>26, <1>27, <1>28, <1>29, <1>30, <1>31, <1>32, <1>33, <1>34,
     <1>35, <1>36, <1>37, <1>38, <1>39, <1>40, <1>41, <1>42, <1>43, <1>44, <1>45,
     <1>46, <1>47
  DEF Next, Agent, Supervisor, Recover, Accept, Seed

-----------------------------------------------------------------------------
(* Theorems.                                                               *)

\* A fresh installation, with whatever releases it is seeded with, satisfies the invariants.
LEMMA InvInit == Init => UpdateInv /\ FloorOK /\ InstalledOK
<1>. SUFFICES ASSUME Init PROVE UpdateInv /\ FloorOK /\ InstalledOK
  OBVIOUS
<1>1. TypeOK /\ Nonces \cap SeedDirs = {} /\ MaxNonce + 1 \notin Nonces
  BY TypeInit, BoundsOK DEF Nonces, SeedDirs
<1>2. /\ AgentOK /\ MemoryOK /\ RequestOK /\ PhaseOK /\ CacheOK
  BY DEF Init, AgentOK, MemoryOK, RequestOK, PhaseOK, CacheOK, NoRepairNeeded,
     RollbackPossible,
         AdmittedPcs, OpenedPcs, JudgedPcs, SeedPcs
<1>3. GenuineOK
  BY <1>1 DEF Init, GenuineOK
<1>4. ReceiptsOK /\ OnceOK
  BY DEF Init, ReceiptsOK, UsedHaveReceipts, OpenHasReceipt, OnceOK, NeverReplayed, Used,
         JudgedPcs, OpenedPcs
<1>5. FirstAndHealthy = {First}
  BY DEF Init, FirstAndHealthy
<1>6. FloorOK
  BY <1>5, ReleasesOK DEF Init, FloorOK, SeedPcs
<1>7. InstalledOK
  BY DEF Init, InstalledOK, Expected
<1>. QED
  BY <1>2, <1>3, <1>4, <1>6, <1>7 DEF UpdateInv

\* The types and the invariant are inductive together.
LEMMA InvStep ==
  ASSUME TypeOK, UpdateInv, [Next]_vars
  PROVE  TypeOK' /\ UpdateInv'
<1>. USE DEF UpdateInv
<1>1. TypeOK'
  BY TypeStep
<1>2. AgentOK'
  BY AgentStep
<1>3. MemoryOK'
  BY <1>1, MemoryStep
<1>4. RequestOK'
  BY RequestStep
<1>5. GenuineOK'
  BY <1>1, GenuineStep
<1>6. PhaseOK'
  BY <1>1, PhaseStep
<1>7. CacheOK'
  BY CacheStep
<1>8. ReceiptsOK'
  BY <1>1, ReceiptsStep
<1>9. OnceOK'
  BY <1>1, OnceStep
<1>. QED
  BY <1>1, <1>2, <1>3, <1>4, <1>5, <1>6, <1>7, <1>8, <1>9

\* The inductive invariant of the supervisor and the agent.
THEOREM Inductive == Spec => [](TypeOK /\ UpdateInv)
<1>1. Init => TypeOK /\ UpdateInv
  BY TypeInit, InvInit
<1>2. TypeOK /\ UpdateInv /\ [Next]_vars => (TypeOK /\ UpdateInv)'
  BY InvStep
<1>. QED
  BY <1>1, <1>2, PTL DEF Spec

\* Files, mailbox and both processes keep their types, the ledger at most
\* history_limit endings and the journal at most MAX_REQUESTS receipts.
THEOREM TypeCorrect == Spec => []TypeOK
<1>1. TypeOK /\ UpdateInv => TypeOK
  OBVIOUS
<1>. QED
  BY <1>1, Inductive, PTL

\* recover_or_ack never finds a ledger and a journal that an administrator has to
\* reconcile, wherever earlier supervisors crashed.
THEOREM LedgerAndJournalAgree == Spec => []NoRepairNeeded
<1>1. TypeOK /\ UpdateInv => NoRepairNeeded
  BY DEF UpdateInv, PhaseOK
<1>. QED
  BY <1>1, Inductive, PTL

\* While a transaction is open, prune_cache and CacheCleanup leave the package
\* that rollback installs.
THEOREM RollbackHasItsPackage == Spec => []RollbackPossible
<1>1. TypeOK /\ UpdateInv => RollbackPossible
  BY DEF UpdateInv, CacheOK
<1>. QED
  BY <1>1, Inductive, PTL

\* accept_request installs a request at most once, also one that is retried after
\* crashes, under an emergency exception, or after its receipt was pruned.
THEOREM InstalledOnce == Spec => []NeverReplayed
<1>1. TypeOK /\ UpdateInv => NeverReplayed
  BY DEF UpdateInv, OnceOK
<1>. QED
  BY <1>1, Inductive, PTL

\* remember_consumed_nonce drops the receipt of an installed request only when
\* verify_manifest refuses its release for good.
THEOREM ReceiptsUntilUseless == Spec => []ReceiptsKept
<1>1. TypeOK /\ UpdateInv => ReceiptsKept
  <2>. SUFFICES ASSUME TypeOK, UpdateInv, NEW n \in 1..Len(offers), installs[n] # 0
                PROVE  \/ \E c \in journal.consumed : c.nonce = n /\ c.rel = offers[n]
                       \/ ~AboveFloor(offers[n])
    BY DEF ReceiptsKept
  <2>1. n \in Nonces
    BY BoundsOK DEF TypeOK, Nonces
  <2>2. installs[n] > 0
    BY <2>1 DEF TypeOK
  <2>3. Receipt(n, offers[n]) \/ ~AboveFloor(offers[n])
    BY <2>1, <2>2 DEF UpdateInv, ReceiptsOK, UsedHaveReceipts, Used
  <2>. QED
    BY <2>3 DEF Receipt
<1>. QED
  BY <1>1, Inductive, PTL

\* On a host without update-seed the floor is that of the first release and of
\* the healthy ones: finish_update raises it for those only, nothing lowers it.
THEOREM FloorOfProvenReleases == MaxSeeds = 0 => (Spec => []FloorIsProven)
<1>. SUFFICES ASSUME MaxSeeds = 0 PROVE Spec => []FloorIsProven
  OBVIOUS
<1>1. Init => FloorOK
  BY InvInit
<1>2. (TypeOK /\ UpdateInv) /\ (TypeOK /\ UpdateInv)' /\ FloorOK /\ [Next]_vars => FloorOK'
  BY FloorStep
<1>3. FloorOK => FloorIsProven
  BY DEF FloorOK, FloorIsProven, FirstAndHealthy
<1>. QED
  BY <1>1, <1>2, <1>3, Inductive, PTL DEF Spec

\* With or without update-seed no proven release is above the floor.
FloorCoversProven ==
  \A r \in FirstAndHealthy : r.version <= ledger.version /\ r.sequence <= ledger.sequence

\* Neither a rollback, an emergency exception nor update-seed lowers the floor
\* below a release that was recorded healthy.
THEOREM FloorNeverBelowProven == Spec => []FloorCoversProven
<1>1. Init => FloorOK
  BY InvInit
<1>2. (TypeOK /\ UpdateInv) /\ (TypeOK /\ UpdateInv)' /\ FloorOK /\ [Next]_vars => FloorOK'
  BY FloorStep
<1>3. FloorOK => FloorCoversProven
  BY DEF FloorOK, FloorCoversProven
<1>. QED
  BY <1>1, <1>2, <1>3, Inductive, PTL DEF Spec

\* When nothing fails or crashes, the journal's active release is the installed
\* one whenever supervise looks for a request.  update-seed compares versions
\* only, so a host that uses it needs one release per version.
THEOREM ActiveWhenNothingFails ==
  MaxSeeds = 0 \/ OneReleasePerVersion => (Spec => []ActiveUnlessInterrupted)
<1>. SUFFICES ASSUME MaxSeeds = 0 \/ OneReleasePerVersion
              PROVE  Spec => []ActiveUnlessInterrupted
  OBVIOUS
<1>1. Init => FloorOK /\ InstalledOK
  BY InvInit
<1>2. /\ TypeOK /\ UpdateInv /\ (TypeOK /\ UpdateInv)' /\ FloorOK /\ InstalledOK
      /\ [Next]_vars
      => (FloorOK /\ InstalledOK)'
  BY FloorStep, InstalledStep
<1>3. TypeOK /\ UpdateInv /\ FloorOK /\ InstalledOK => ActiveUnlessInterrupted
  BY DEF UpdateInv, PhaseOK, InstalledOK, Expected, ActiveUnlessInterrupted, ActiveIsInstalled
<1>. QED
  BY <1>1, <1>2, <1>3, Inductive, PTL DEF Spec
=============================================================================
