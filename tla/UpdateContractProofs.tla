------------------------ MODULE UpdateContractProofs ------------------------
(***************************************************************************)
(* NativeUpdate refines UpdateTransaction, for any releases, limits,       *)
(* crashes and failing operations of a host without an emergency           *)
(* exception.                                                              *)
(***************************************************************************)
EXTENDS UpdateProofs

-----------------------------------------------------------------------------
(* The inductive invariant.                                                *)

\* Without exceptions every release that is accepted is above the floor, and
\* the floor is the version of the release that is, or is about to be, active.
NextActive ==
  IF journal.pending # None /\ ledger.pending = None /\ Last.outcome = "healthy"
  THEN journal.pending.rel ELSE journal.active.rel

FloorIsActive ==
  /\ NextActive.version = ledger.version
  /\ sPc \in {"seedFloor", "seedJournal"} => tx.rel.version = ledger.version
  /\ sPc \in {"reserve", "commit"} => tx.rel.version > ledger.version
  /\ ledger.pending # None => ledger.pending.rel.version > ledger.version

\* What runs or is installed is at most at the floor, or it is the release of
\* the open transaction, which was installed.
Placed(r) ==
  /\ ledger.pending # None /\ journal.pending # None
  /\ r = ledger.pending.rel /\ installs[ledger.pending.nonce] > 0

HostOK ==
  /\ \A r \in {running, installed} : r.version <= ledger.version \/ Placed(r)
  /\ sPc \in {"rbRestart", "rbFinish"} => installed.version <= ledger.version
  /\ sPc = "rbFinish" => running.version <= ledger.version

\* The announced transaction is the open one from before its installation, or
\* one that is over.
AnnouncementOK ==
  /\ pendHealth # None =>
       LET n == pendHealth.nonce
       IN /\ n \in 1..Len(offers) /\ pendHealth.version = offers[n].version
          /\ ended[n] # None \/ (ledger.pending # None /\ ledger.pending.nonce = n)
          /\ installs[n] = 0 => offers[n].version > ledger.version
  /\ ledger.pending # None /\ (journal.pending # None \/ sPc = "journal") =>
       pendHealth # None /\ pendHealth.nonce = ledger.pending.nonce

\* An acknowledgement of a transaction that is not over proves its release.
AcksOK ==
  /\ \A a \in {health, aAck} \ {None} : a.nonce \in proven \/ ended[a.nonce] # None
  /\ \A n \in proven : installs[n] > 0
  /\ sPc = "accept" => ledger.pending.nonce \in proven

ContractInv ==
  Emergency = {} => FloorIsActive /\ HostOK /\ AnnouncementOK /\ AcksOK

-----------------------------------------------------------------------------
(* Steps that matter.                                                      *)

\* Phases in which FloorIsActive, HostOK, AnnouncementOK or AcksOK say more.
MarkedPcs == {"seedFloor", "seedJournal", "reserve", "commit", "rbRestart", "rbFinish",
              "journal", "accept"}

\* What the other steps leave alone or change without consequence.
Minor ==
  /\ UNCHANGED <<ledger, installs, ended, proven, installed>>
  /\ journal'.active = journal.active /\ journal'.pending = journal.pending
  /\ \A n \in 1..Len(offers) : n \in 1..Len(offers') /\ offers'[n] = offers[n]
  /\ running' \in {running, installed}
  /\ pendHealth' = pendHealth \/ (pendHealth' = None /\ ledger.pending = None)
  /\ {health', aAck'} \subseteq {None, health, aAck}
  /\ \/ sPc' \notin MarkedPcs
     \/ sPc' = sPc /\ tx' = tx
     \/ sPc = "reserve" /\ sPc' = "commit" /\ tx' = tx

Major ==
  \/ ReadAnnouncement \/ Judge \/ FinishInterrupted \/ FinishHealthy
  \/ FinishRolledBack \/ Settle \/ RollbackInstall \/ RollbackRestart \/ Admit
  \/ Commit \/ Arm \/ Announce \/ WriteJournal \/ Install \/ SeedCopy \/ SeedFloor
  \/ SeedJournal

\* All other steps are minor.
LEMMA MinorOrMajor ==
  ASSUME TypeOK, UpdateInv, [Next]_vars
  PROVE  Minor \/ Major
<1>. USE DEF UpdateInv, protectedVars, mailVars, supVars, agentVars, historyVars, boundVars,
         supervisorOnly, elsewhere, recoverOnly, mailboxOnly, restartOnly, publishOnly,
         answerOnly, failOnly
<1>1. CASE ReadAnnouncement
  BY <1>1 DEF Major
<1>2. CASE WriteHealth
  BY <1>2 DEF WriteHealth, Minor, MarkedPcs
<1>3. ASSUME NEW r \in Releases, TakeOffer(r) PROVE Minor \/ Major
  BY <1>3 DEF TakeOffer, Minor, MarkedPcs
<1>4. CASE ReapResult
  BY <1>4 DEF ReapResult, Minor, MarkedPcs
<1>5. CASE Stage
  <2>1. \A n \in 1..Len(offers) : n \in 1..Len(offers') /\ offers'[n] = offers[n]
    <3>1. \/ UNCHANGED offers
          \/ aRel \in Releases /\ offers' = Append(offers, aRel)
      BY <1>5 DEF Stage, AgentOK, TypeOK
    <3>2. offers \in Seq(Releases)
      BY DEF TypeOK
    <3>. QED
      BY <3>1, <3>2
  <2>. QED
    BY <1>5, <2>1 DEF Stage, Minor, MarkedPcs
<1>6. CASE Download
  BY <1>6 DEF Download, Unready, Minor, MarkedPcs
<1>7. CASE ReadState
  BY <1>7 DEF ReadState, Found, Minor, MarkedPcs
<1>8. CASE RememberInterrupted
  <2>1. jmem = journal /\ [nonce |-> ledger.pending.nonce, rel |-> ledger.pending.rel] \in Requests
    BY <1>8, WindowFields DEF RememberInterrupted, MemoryOK, PhaseOK, RequestOK,
       AdmittedPcs, Requests, Caches
  <2>2. CASE RememberThen(ledger.pending.nonce, ledger.pending.rel, "abort")
    <3>1. (Remembered(ledger.pending.nonce, ledger.pending.rel) /\ Proceeds("abort")) \/ Abandons
      BY <1>8, <2>1, <2>2, RememberEffect
    <3>2. /\ journal'.pending = journal.pending /\ journal'.active = journal.active
          /\ \/ sPc' \notin MarkedPcs
             \/ sPc = "reserve" /\ sPc' = "commit" /\ tx' = tx
      BY <1>8, <3>1 DEF RememberInterrupted, Remembered, Proceeds, Abandons, Exit, MarkedPcs
    <3>. QED
      BY <1>8, <3>2 DEF RememberInterrupted, Minor, MarkedPcs
  <2>3. CASE UNCHANGED <<ledger, journal>> /\ sPc' = "down"
    BY <1>8, <2>3 DEF RememberInterrupted, Minor, MarkedPcs
  <2>. QED
    BY <1>8, <2>2, <2>3 DEF RememberInterrupted, Goto, Exit
<1>9. CASE RememberCompleted
  <2>1. jmem = journal /\ [nonce |-> jmem.pending.nonce, rel |-> jmem.pending.rel] \in Requests
    BY <1>9, JournalFields DEF RememberCompleted, MemoryOK, PhaseOK, RequestOK, AdmittedPcs,
       Requests, Caches
  <2>2. CASE RememberThen(jmem.pending.nonce, jmem.pending.rel, "settle")
    <3>1. (Remembered(jmem.pending.nonce, jmem.pending.rel) /\ Proceeds("settle")) \/ Abandons
      BY <1>9, <2>1, <2>2, RememberEffect
    <3>2. /\ journal'.pending = journal.pending /\ journal'.active = journal.active
          /\ \/ sPc' \notin MarkedPcs
             \/ sPc = "reserve" /\ sPc' = "commit" /\ tx' = tx
      BY <1>9, <3>1 DEF RememberCompleted, Remembered, Proceeds, Abandons, Exit, MarkedPcs
    <3>. QED
      BY <1>9, <3>2 DEF RememberCompleted, Minor, MarkedPcs
  <2>3. CASE UNCHANGED <<ledger, journal>> /\ sPc' = "down"
    BY <1>9, <2>3 DEF RememberCompleted, Minor, MarkedPcs
  <2>. QED
    BY <1>9, <2>2, <2>3 DEF RememberCompleted, Goto, Exit
<1>10. CASE RememberPending
  <2>1. jmem = journal /\ [nonce |-> jmem.pending.nonce, rel |-> jmem.pending.rel] \in Requests
    BY <1>10, JournalFields DEF RememberPending, MemoryOK, PhaseOK, RequestOK, AdmittedPcs,
       Requests, Caches
  <2>2. CASE RememberThen(jmem.pending.nonce, jmem.pending.rel, "judge")
    <3>1. (Remembered(jmem.pending.nonce, jmem.pending.rel) /\ Proceeds("judge")) \/ Abandons
      BY <1>10, <2>1, <2>2, RememberEffect
    <3>2. /\ journal'.pending = journal.pending /\ journal'.active = journal.active
          /\ \/ sPc' \notin MarkedPcs
             \/ sPc = "reserve" /\ sPc' = "commit" /\ tx' = tx
      BY <1>10, <3>1 DEF RememberPending, Remembered, Proceeds, Abandons, Exit, MarkedPcs
    <3>. QED
      BY <1>10, <3>2 DEF RememberPending, Minor, MarkedPcs
  <2>3. CASE UNCHANGED <<ledger, journal>> /\ sPc' = "down"
    BY <1>10, <2>3 DEF RememberPending, Minor, MarkedPcs
  <2>. QED
    BY <1>10, <2>2, <2>3 DEF RememberPending, Goto, Exit
<1>11. CASE Judge
  BY <1>11 DEF Major
<1>12. CASE CheckDeadline
  BY <1>12 DEF CheckDeadline, Goto, Minor, MarkedPcs
<1>13. CASE FinishInterrupted
  BY <1>13 DEF Major
<1>14. CASE FinishHealthy
  BY <1>14 DEF Major
<1>15. CASE FinishRolledBack
  BY <1>15 DEF Major
<1>16. CASE ClearAnnouncement
  <2>1. ledger.pending = None
    BY <1>16 DEF ClearAnnouncement, PhaseOK
  <2>. QED
    BY <1>16, <2>1 DEF ClearAnnouncement, Goto, Minor, MarkedPcs
<1>17. CASE ClearHealth
  BY <1>17 DEF ClearHealth, Goto, Minor, MarkedPcs
<1>18. CASE Settle
  BY <1>18 DEF Major
<1>19. CASE RollbackInstall
  BY <1>19 DEF Major
<1>20. CASE RollbackRestart
  BY <1>20 DEF Major
<1>21. CASE Prune
  BY <1>21 DEF Prune, Goto, InUse, Minor, MarkedPcs
<1>22. CASE Admit
  BY <1>22 DEF Major
<1>23. CASE TurnDown
  BY <1>23 DEF TurnDown, Examine, Fresh, Minor, MarkedPcs
<1>24. CASE NothingToDo
  BY <1>24 DEF NothingToDo, Goto, Minor, MarkedPcs
<1>25. CASE Reserve
  <2>1. jmem = journal /\ [nonce |-> tx.nonce, rel |-> tx.rel] \in Requests
    BY <1>25, AtRequest DEF Reserve, MemoryOK, PhaseOK, RequestOK, AdmittedPcs, Requests,
       Caches
  <2>2. CASE RememberThen(tx.nonce, tx.rel, "commit")
    <3>1. (Remembered(tx.nonce, tx.rel) /\ Proceeds("commit")) \/ Abandons
      BY <1>25, <2>1, <2>2, RememberEffect
    <3>2. /\ journal'.pending = journal.pending /\ journal'.active = journal.active
          /\ \/ sPc' \notin MarkedPcs
             \/ sPc = "reserve" /\ sPc' = "commit" /\ tx' = tx
      BY <1>25, <3>1 DEF Reserve, Remembered, Proceeds, Abandons, Exit, MarkedPcs
    <3>. QED
      BY <1>25, <3>2 DEF Reserve, Minor, MarkedPcs
  <2>. QED
    BY <1>25, <2>2 DEF Reserve
<1>26. CASE Commit
  BY <1>26 DEF Major
<1>27. CASE Arm
  BY <1>27 DEF Major
<1>28. CASE RemoveAck
  BY <1>28 DEF RemoveAck, Goto, Minor, MarkedPcs
<1>29. CASE Announce
  BY <1>29 DEF Major
<1>30. CASE WriteJournal
  BY <1>30 DEF Major
<1>31. CASE AnswerAccepted
  BY <1>31 DEF AnswerAccepted, Goto, Answer, Minor, MarkedPcs
<1>32. CASE Install
  BY <1>32 DEF Major
<1>33. CASE RestartInstalled
  BY <1>33 DEF RestartInstalled, RestartAgent, AgentRestarted, Minor, MarkedPcs
<1>34. CASE DropCopy
  BY <1>34 DEF DropCopy, Goto, Exit, Minor, MarkedPcs
<1>35. CASE AnswerRefused
  BY <1>35 DEF AnswerRefused, Answer, Refused, Minor, MarkedPcs
<1>36. CASE SeedRemember
  <2>1. jmem = journal /\ [nonce |-> jmem.active.dir, rel |-> jmem.active.rel] \in Requests
    BY <1>36, JournalFields DEF SeedRemember, MemoryOK, PhaseOK, RequestOK, AdmittedPcs,
       Requests, Caches
  <2>2. CASE RememberThen(jmem.active.dir, jmem.active.rel, "seedCopy")
    <3>1. (Remembered(jmem.active.dir, jmem.active.rel) /\ Proceeds("seedCopy")) \/ Abandons
      BY <1>36, <2>1, <2>2, RememberEffect
    <3>2. /\ journal'.pending = journal.pending /\ journal'.active = journal.active
          /\ \/ sPc' \notin MarkedPcs
             \/ sPc = "reserve" /\ sPc' = "commit" /\ tx' = tx
      BY <1>36, <3>1 DEF SeedRemember, Remembered, Proceeds, Abandons, Exit, MarkedPcs
    <3>. QED
      BY <1>36, <3>2 DEF SeedRemember, Minor, MarkedPcs
  <2>3. CASE UNCHANGED <<ledger, journal>> /\ sPc' = "seedCopy"
    BY <1>36, <2>3 DEF SeedRemember, Minor, MarkedPcs
  <2>. QED
    BY <1>36, <2>2, <2>3 DEF SeedRemember, Goto, Exit
<1>37. CASE SeedCopy
  BY <1>37 DEF Major
<1>38. CASE SeedFloor
  BY <1>38 DEF Major
<1>39. CASE SeedJournal
  BY <1>39 DEF Major
<1>40. CASE SeedPrune
  BY <1>40 DEF SeedPrune, Exit, InUse, Minor, MarkedPcs
<1>41. CASE Start
  BY <1>41 DEF Start, Goto, Minor, MarkedPcs
<1>42. CASE AgentRestart
  BY <1>42 DEF AgentRestart, AgentRestarted, Minor, MarkedPcs
<1>43. CASE Fail
  BY <1>43 DEF Fail, Goto, Exit, Refused, Minor, MarkedPcs
<1>44. CASE Crash
  BY <1>44 DEF Crash, Exit, Minor, MarkedPcs
<1>45. CASE Tick
  BY <1>45 DEF Tick, Minor, MarkedPcs
<1>46. ASSUME NEW r \in Releases, SeedBegin(r) PROVE Minor \/ Major
  BY <1>46 DEF SeedBegin, Minor, MarkedPcs
<1>47. CASE UNCHANGED vars
  BY <1>47 DEF vars, Minor, MarkedPcs
<1>. QED
  BY <1>1, <1>2, <1>3, <1>4, <1>5, <1>6, <1>7, <1>8, <1>9, <1>10, <1>11, <1>12,
     <1>13, <1>14, <1>15, <1>16, <1>17, <1>18, <1>19, <1>20, <1>21, <1>22, <1>23,
     <1>24, <1>25, <1>26, <1>27, <1>28, <1>29, <1>30, <1>31, <1>32, <1>33, <1>34,
     <1>35, <1>36, <1>37, <1>38, <1>39, <1>40, <1>41, <1>42, <1>43, <1>44, <1>45,
     <1>46, <1>47
  DEF Next, Agent, Supervisor, Recover, Accept, Seed

-----------------------------------------------------------------------------
(* The floor and the active release.                                       *)

\* A release that is admitted is above the floor, and becomes the floor when it
\* becomes the next active one.
LEMMA FloorIsActiveStep ==
  ASSUME TypeOK, TypeOK', UpdateInv, UpdateInv', Emergency = {}, FloorIsActive,
         HostOK, [Next]_vars
  PROVE  FloorIsActive'
<1>. USE DEF UpdateInv, protectedVars, mailVars, supVars, agentVars, historyVars, boundVars,
         supervisorOnly, elsewhere, recoverOnly, mailboxOnly, restartOnly, publishOnly,
         answerOnly, failOnly
<1>1. CASE Minor
  BY <1>1 DEF Minor, MarkedPcs, FloorIsActive, NextActive, Last
<1>2. CASE ReadAnnouncement
  BY <1>2 DEF ReadAnnouncement, FloorIsActive, NextActive, Last
<1>3. CASE Judge
  BY <1>3 DEF Judge, Goto, Judgement, FloorIsActive, NextActive, Last
<1>4. CASE FinishInterrupted
  <2>1. PICK outcome \in Outcomes : Finish(outcome) /\ (outcome = "healthy" <=> sPc = "accept")
    BY <1>4 DEF FinishInterrupted, Outcomes
  <2>2. ledger.pending # None
    BY <1>4 DEF FinishInterrupted, PhaseOK, JudgedPcs
  <2>3. /\ ledger'.pending = None /\ Last'.outcome = outcome
        /\ ended' = [ended EXCEPT ![ledger.pending.nonce] = outcome]
        /\ ledger'.version >= ledger.version
    BY <2>1, <2>2, FinishEffect
  <2>4. /\ UNCHANGED <<journal, installs, offers, installed, running, proven, pendHealth,
                       health, aAck>>
        /\ sPc' = "clear"
    BY <2>1 DEF Finish, Goto
  <2>5. ledger'.version = IF outcome = "healthy" THEN ledger.pending.rel.version ELSE ledger.version
    <3>1. /\ ledger.pending.rel.version > ledger.version /\ ledger.version \in Nat
          /\ ledger.pending.rel.version \in Nat
      BY <2>2, WindowFields, ReleasesOK DEF FloorIsActive, TypeOK
    <3>. QED
      BY <2>1, <3>1 DEF Finish, Raises, Larger
  <2>6. /\ sPc = "accept" => journal.pending # None
        /\ journal.pending # None => journal.pending.rel = ledger.pending.rel
    BY <2>2 DEF PhaseOK, NoRepairNeeded, JudgedPcs
  <2>7. NextActive.version = ledger.version /\ NextActive = journal.active.rel
    BY <2>2 DEF FloorIsActive, NextActive
  <2>8. NextActive' = IF outcome = "healthy" THEN ledger.pending.rel ELSE journal.active.rel
    BY <2>1, <2>3, <2>4, <2>6 DEF NextActive
  <2>. QED
    BY <2>3, <2>4, <2>5, <2>7, <2>8 DEF FloorIsActive
<1>5. CASE FinishHealthy
  <2>1. PICK outcome \in Outcomes : Finish(outcome) /\ (outcome = "healthy" <=> sPc = "accept")
    BY <1>5 DEF FinishHealthy, Outcomes
  <2>2. ledger.pending # None
    BY <1>5 DEF FinishHealthy, PhaseOK, JudgedPcs
  <2>3. /\ ledger'.pending = None /\ Last'.outcome = outcome
        /\ ended' = [ended EXCEPT ![ledger.pending.nonce] = outcome]
        /\ ledger'.version >= ledger.version
    BY <2>1, <2>2, FinishEffect
  <2>4. /\ UNCHANGED <<journal, installs, offers, installed, running, proven, pendHealth,
                       health, aAck>>
        /\ sPc' = "clear"
    BY <2>1 DEF Finish, Goto
  <2>5. ledger'.version = IF outcome = "healthy" THEN ledger.pending.rel.version ELSE ledger.version
    <3>1. /\ ledger.pending.rel.version > ledger.version /\ ledger.version \in Nat
          /\ ledger.pending.rel.version \in Nat
      BY <2>2, WindowFields, ReleasesOK DEF FloorIsActive, TypeOK
    <3>. QED
      BY <2>1, <3>1 DEF Finish, Raises, Larger
  <2>6. /\ sPc = "accept" => journal.pending # None
        /\ journal.pending # None => journal.pending.rel = ledger.pending.rel
    BY <2>2 DEF PhaseOK, NoRepairNeeded, JudgedPcs
  <2>7. NextActive.version = ledger.version /\ NextActive = journal.active.rel
    BY <2>2 DEF FloorIsActive, NextActive
  <2>8. NextActive' = IF outcome = "healthy" THEN ledger.pending.rel ELSE journal.active.rel
    BY <2>1, <2>3, <2>4, <2>6 DEF NextActive
  <2>. QED
    BY <2>3, <2>4, <2>5, <2>7, <2>8 DEF FloorIsActive
<1>6. CASE FinishRolledBack
  <2>1. PICK outcome \in Outcomes : Finish(outcome) /\ (outcome = "healthy" <=> sPc = "accept")
    BY <1>6 DEF FinishRolledBack, Outcomes
  <2>2. ledger.pending # None
    BY <1>6 DEF FinishRolledBack, PhaseOK, JudgedPcs
  <2>3. /\ ledger'.pending = None /\ Last'.outcome = outcome
        /\ ended' = [ended EXCEPT ![ledger.pending.nonce] = outcome]
        /\ ledger'.version >= ledger.version
    BY <2>1, <2>2, FinishEffect
  <2>4. /\ UNCHANGED <<journal, installs, offers, installed, running, proven, pendHealth,
                       health, aAck>>
        /\ sPc' = "clear"
    BY <2>1 DEF Finish, Goto
  <2>5. ledger'.version = IF outcome = "healthy" THEN ledger.pending.rel.version ELSE ledger.version
    <3>1. /\ ledger.pending.rel.version > ledger.version /\ ledger.version \in Nat
          /\ ledger.pending.rel.version \in Nat
      BY <2>2, WindowFields, ReleasesOK DEF FloorIsActive, TypeOK
    <3>. QED
      BY <2>1, <3>1 DEF Finish, Raises, Larger
  <2>6. /\ sPc = "accept" => journal.pending # None
        /\ journal.pending # None => journal.pending.rel = ledger.pending.rel
    BY <2>2 DEF PhaseOK, NoRepairNeeded, JudgedPcs
  <2>7. NextActive.version = ledger.version /\ NextActive = journal.active.rel
    BY <2>2 DEF FloorIsActive, NextActive
  <2>8. NextActive' = IF outcome = "healthy" THEN ledger.pending.rel ELSE journal.active.rel
    BY <2>1, <2>3, <2>4, <2>6 DEF NextActive
  <2>. QED
    BY <2>3, <2>4, <2>5, <2>7, <2>8 DEF FloorIsActive
<1>7. CASE Settle
  <2>1. ledger.pending = None /\ journal.pending # None /\ jmem = journal
    BY <1>7 DEF Settle, PhaseOK, MemoryOK
  <2>2. /\ journal'.pending = None /\ journal'.active = Survivor
        /\ UNCHANGED ledger /\ sPc' = "prune"
    BY <1>7, <2>1 DEF Settle, TypeOK, Journals
  <2>. QED
    BY <2>1, <2>2 DEF Survivor, FloorIsActive, NextActive, Last
<1>8. CASE RollbackInstall
  BY <1>8 DEF RollbackInstall, Goto, Exit, FloorIsActive, NextActive, Last
<1>9. CASE RollbackRestart
  BY <1>9 DEF RollbackRestart, RestartAgent, AgentRestarted, Goto, FloorIsActive,
     NextActive, Last
<1>10. CASE Admit
  <2>1. PICK q \in incoming : /\ tx' = [nonce |-> q.nonce, rel |-> q.rel]
                              /\ q.rel.version # jmem.active.rel.version
                              /\ q.rel.version \in Emergency \/ AboveFloor(q.rel)
    BY <1>10 DEF Admit, Examine, Fresh, Acceptable
  <2>2. /\ jmem = journal /\ journal.pending = None /\ ledger.pending = None
        /\ UNCHANGED <<ledger, journal>> /\ sPc' = "reserve"
    BY <1>10 DEF Admit, Examine, MemoryOK, PhaseOK
  <2>3. journal.active.rel.version = ledger.version
    BY <2>2 DEF FloorIsActive, NextActive
  <2>4. q.rel.version >= ledger.version /\ q.rel.version # ledger.version
    BY <2>1, <2>2, <2>3 DEF AboveFloor
  <2>5. q.rel.version \in Nat /\ ledger.version \in Nat
    BY ReleasesOK DEF TypeOK
  <2>6. tx'.rel.version > ledger.version
    BY <2>1, <2>4, <2>5
  <2>. QED
    BY <2>2, <2>6 DEF FloorIsActive, NextActive, Last
<1>11. CASE Commit
  <2>1. /\ ledger'.version = ledger.version /\ ledger'.pending.rel = tx.rel
        /\ UNCHANGED journal /\ sPc' = "unack" /\ tx.rel.version > ledger.version
        /\ journal.pending = None
    BY <1>11 DEF Commit, OpenWindow, Window, Goto, TypeOK, PhaseOK, FloorIsActive
  <2>. QED
    BY <2>1 DEF FloorIsActive, NextActive, Last
<1>12. CASE Arm
  <2>1. ledger.pending # None /\ LedgerHas(tx)
    BY <1>12 DEF Arm, OpenWindow, PhaseOK, OpenedPcs
  <2>2. /\ ledger'.version = ledger.version /\ ledger'.pending.rel = tx.rel
        /\ UNCHANGED journal /\ sPc' = "unack"
    BY <1>12 DEF Arm, OpenWindow, Window, Goto, TypeOK
  <2>3. ledger'.pending # None
    BY <2>2 DEF PhaseOK, OpenedPcs
  <2>. QED
    BY <2>1, <2>2, <2>3 DEF LedgerHas, FloorIsActive, NextActive, Last
<1>13. CASE Announce
  BY <1>13 DEF Announce, Goto, FloorIsActive, NextActive, Last
<1>14. CASE WriteJournal
  <2>1. ledger.pending # None /\ journal.pending = None /\ jmem = journal
    BY <1>14 DEF WriteJournal, MemoryOK, PhaseOK, OpenedPcs
  <2>2. /\ journal'.active = journal.active /\ UNCHANGED ledger
        /\ sPc' \in {"accepted", "drop"}
    BY <1>14, <2>1 DEF WriteJournal, TypeOK, Journals
  <2>. QED
    BY <2>1, <2>2 DEF FloorIsActive, NextActive, Last
<1>15. CASE Install
  BY <1>15 DEF Install, Goto, FloorIsActive, NextActive, Last
<1>16. CASE SeedCopy
  <2>1. CASE sPc' = "seedFloor"
    <3>1. /\ ledger.pending = None /\ tx.rel.version = installed.version
          /\ AboveFloor(tx.rel)
      BY <1>16, <2>1 DEF SeedCopy, Goto, Exit
    <3>2. installed.version <= ledger.version
      BY <3>1 DEF HostOK, Placed
    <3>3. installed.version \in Nat /\ ledger.version \in Nat
      BY ReleasesOK DEF TypeOK
    <3>4. tx.rel.version = ledger.version
      BY <3>1, <3>2, <3>3 DEF AboveFloor
    <3>. QED
      BY <1>16, <2>1, <3>4 DEF SeedCopy, Goto, Exit, FloorIsActive, NextActive, Last
  <2>2. CASE sPc' # "seedFloor"
    BY <1>16, <2>2 DEF SeedCopy, Goto, Exit, FloorIsActive, NextActive, Last
  <2>. QED
    BY <2>1, <2>2
<1>17. CASE SeedFloor
  <2>1. tx.rel.version = ledger.version /\ ledger.pending = None /\ journal.pending = None
    BY <1>17 DEF SeedFloor, FloorIsActive, PhaseOK, SeedPcs
  <2>2. /\ ledger'.version = ledger.version /\ ledger'.pending = ledger.pending
        /\ UNCHANGED <<journal, tx>> /\ sPc' = "seedJournal"
    BY <1>17, <2>1 DEF SeedFloor, Larger, Goto, TypeOK
  <2>. QED
    BY <2>1, <2>2 DEF FloorIsActive, NextActive, Last
<1>18. CASE SeedJournal
  <2>1. /\ jmem = journal /\ journal.pending = None /\ tx.rel.version = ledger.version
        /\ ledger.pending = None
    BY <1>18 DEF SeedJournal, MemoryOK, PhaseOK, SeedPcs, FloorIsActive
  <2>2. /\ journal'.active.rel = tx.rel /\ journal'.pending = None
        /\ UNCHANGED ledger /\ sPc' \in {"seedPrune", "drop"}
    BY <1>18, <2>1 DEF SeedJournal, TypeOK, Journals
  <2>. QED
    BY <2>1, <2>2 DEF FloorIsActive, NextActive, Last
<1>. QED
  BY <1>1, <1>2, <1>3, <1>4, <1>5, <1>6, <1>7, <1>8, <1>9, <1>10, <1>11, <1>12,
     <1>13, <1>14, <1>15, <1>16, <1>17, <1>18, MinorOrMajor DEF Major

-----------------------------------------------------------------------------
(* What runs and what is installed.                                        *)

\* Requests are numbered by their nonces.
LEMMA OfferNonces ==
  ASSUME TypeOK
  PROVE  1..Len(offers) \subseteq Nonces
<1>1. Len(offers) \in Nat /\ Len(offers) <= MaxNonce /\ MaxNonce \in Nat
  BY BoundsOK DEF TypeOK
<1>. QED
  BY <1>1 DEF Nonces

\* Only an installation puts a release above the floor on the host, and only a
\* rollback or its proof ends that.
LEMMA HostStep ==
  ASSUME TypeOK, TypeOK', UpdateInv, UpdateInv', FloorIsActive, HostOK, [Next]_vars
  PROVE  HostOK'
<1>. USE DEF UpdateInv, protectedVars, mailVars, supVars, agentVars, historyVars, boundVars,
         supervisorOnly, elsewhere, recoverOnly, mailboxOnly, restartOnly, publishOnly,
         answerOnly, failOnly
<1>1. CASE Minor
  BY <1>1 DEF Minor, MarkedPcs, HostOK, Placed
<1>2. CASE ReadAnnouncement
  BY <1>2 DEF ReadAnnouncement, HostOK, Placed
<1>3. CASE Judge
  BY <1>3 DEF Judge, Goto, Judgement, HostOK, Placed
<1>4. CASE FinishInterrupted
  <2>1. PICK outcome \in Outcomes : Finish(outcome) /\ (outcome = "healthy" <=> sPc = "accept")
    BY <1>4 DEF FinishInterrupted, Outcomes
  <2>2. ledger.pending # None
    BY <1>4 DEF FinishInterrupted, PhaseOK, JudgedPcs
  <2>3. /\ ledger'.pending = None /\ Last'.outcome = outcome
        /\ ended' = [ended EXCEPT ![ledger.pending.nonce] = outcome]
        /\ ledger'.version >= ledger.version
    BY <2>1, <2>2, FinishEffect
  <2>4. /\ UNCHANGED <<journal, installs, offers, installed, running, proven, pendHealth,
                       health, aAck>>
        /\ sPc' = "clear"
    BY <2>1 DEF Finish, Goto
  <2>5. /\ ledger.version \in Nat /\ ledger'.version \in Nat
        /\ installed.version \in Nat /\ running.version \in Nat
    BY ReleasesOK DEF TypeOK
  <2>6. \A r \in {running, installed} : r.version <= ledger'.version
    <3>. SUFFICES ASSUME NEW r \in {running, installed} PROVE r.version <= ledger'.version
      OBVIOUS
    <3>1. CASE r.version <= ledger.version
      BY <2>3, <2>5, <3>1
    <3>2. CASE Placed(r)
      BY <1>4, <3>2 DEF FinishInterrupted, PhaseOK, Placed
    <3>. QED
      BY <3>1, <3>2 DEF HostOK
  <2>. QED
    BY <2>4, <2>6 DEF HostOK
<1>5. CASE FinishHealthy
  <2>1. PICK outcome \in Outcomes : Finish(outcome) /\ (outcome = "healthy" <=> sPc = "accept")
    BY <1>5 DEF FinishHealthy, Outcomes
  <2>2. ledger.pending # None
    BY <1>5 DEF FinishHealthy, PhaseOK, JudgedPcs
  <2>3. /\ ledger'.pending = None /\ Last'.outcome = outcome
        /\ ended' = [ended EXCEPT ![ledger.pending.nonce] = outcome]
        /\ ledger'.version >= ledger.version
    BY <2>1, <2>2, FinishEffect
  <2>4. /\ UNCHANGED <<journal, installs, offers, installed, running, proven, pendHealth,
                       health, aAck>>
        /\ sPc' = "clear"
    BY <2>1 DEF Finish, Goto
  <2>5. /\ ledger.version \in Nat /\ ledger'.version \in Nat
        /\ installed.version \in Nat /\ running.version \in Nat
    BY ReleasesOK DEF TypeOK
  <2>6. \A r \in {running, installed} : r.version <= ledger'.version
    <3>. SUFFICES ASSUME NEW r \in {running, installed} PROVE r.version <= ledger'.version
      OBVIOUS
    <3>1. CASE r.version <= ledger.version
      BY <2>3, <2>5, <3>1
    <3>2. CASE Placed(r)
      <4>1. r = ledger.pending.rel /\ outcome = "healthy"
        BY <1>5, <2>1, <3>2 DEF FinishHealthy, Placed
      <4>. QED
        BY <2>1, <2>5, <4>1 DEF Finish, Raises, Larger
    <3>. QED
      BY <3>1, <3>2 DEF HostOK
  <2>. QED
    BY <2>4, <2>6 DEF HostOK
<1>6. CASE FinishRolledBack
  <2>1. PICK outcome \in Outcomes : Finish(outcome) /\ (outcome = "healthy" <=> sPc = "accept")
    BY <1>6 DEF FinishRolledBack, Outcomes
  <2>2. ledger.pending # None
    BY <1>6 DEF FinishRolledBack, PhaseOK, JudgedPcs
  <2>3. /\ ledger'.pending = None /\ Last'.outcome = outcome
        /\ ended' = [ended EXCEPT ![ledger.pending.nonce] = outcome]
        /\ ledger'.version >= ledger.version
    BY <2>1, <2>2, FinishEffect
  <2>4. /\ UNCHANGED <<journal, installs, offers, installed, running, proven, pendHealth,
                       health, aAck>>
        /\ sPc' = "clear"
    BY <2>1 DEF Finish, Goto
  <2>5. /\ ledger.version \in Nat /\ ledger'.version \in Nat
        /\ installed.version \in Nat /\ running.version \in Nat
    BY ReleasesOK DEF TypeOK
  <2>6. \A r \in {running, installed} : r.version <= ledger'.version
    <3>. SUFFICES ASSUME NEW r \in {running, installed} PROVE r.version <= ledger'.version
      OBVIOUS
    <3>1. CASE r.version <= ledger.version
      BY <2>3, <2>5, <3>1
    <3>2. CASE Placed(r)
      <4>1. r.version <= ledger.version
        BY <1>6 DEF FinishRolledBack, HostOK
      <4>. QED
        BY <2>3, <2>5, <4>1
    <3>. QED
      BY <3>1, <3>2 DEF HostOK
  <2>. QED
    BY <2>4, <2>6 DEF HostOK
<1>7. CASE Settle
  <2>1. ledger.pending = None
    BY <1>7 DEF Settle, PhaseOK
  <2>. QED
    BY <1>7, <2>1 DEF Settle, HostOK, Placed
<1>8. CASE RollbackInstall
  <2>1. /\ ledger.pending # None /\ jmem = journal
    BY <1>8 DEF RollbackInstall, PhaseOK, MemoryOK, JudgedPcs
  <2>2. journal.active.rel.version = ledger.version /\ ledger.version \in Nat
    BY <2>1 DEF FloorIsActive, NextActive, TypeOK
  <2>. QED
    BY <1>8, <2>1, <2>2 DEF RollbackInstall, Goto, Exit, HostOK, Placed
<1>9. CASE RollbackRestart
  BY <1>9 DEF RollbackRestart, RestartAgent, AgentRestarted, Goto, HostOK, Placed
<1>10. CASE Admit
  BY <1>10 DEF Admit, Examine, Fresh, Acceptable, HostOK, Placed
<1>11. CASE Commit
  <2>1. /\ ledger'.version = ledger.version /\ ledger.pending = None
        /\ UNCHANGED <<running, installed>> /\ sPc' = "unack"
    BY <1>11 DEF Commit, OpenWindow, Goto, TypeOK, PhaseOK
  <2>. QED
    BY <2>1 DEF HostOK, Placed
<1>12. CASE Arm
  <2>1. /\ ledger.pending # None /\ LedgerHas(tx)
        /\ ledger'.version = ledger.version
        /\ ledger'.pending.rel = tx.rel /\ ledger'.pending.nonce = tx.nonce
        /\ UNCHANGED <<running, installed, journal, installs>> /\ sPc' = "unack"
    BY <1>12 DEF Arm, OpenWindow, Window, Goto, TypeOK, PhaseOK, OpenedPcs
  <2>2. ledger'.pending # None
    BY <2>1 DEF PhaseOK, OpenedPcs
  <2>. QED
    BY <2>1, <2>2 DEF LedgerHas, HostOK, Placed
<1>13. CASE Announce
  BY <1>13 DEF Announce, Goto, HostOK, Placed
<1>14. CASE WriteJournal
  <2>1. journal.pending = None
    BY <1>14 DEF WriteJournal, PhaseOK
  <2>. QED
    BY <1>14, <2>1 DEF WriteJournal, HostOK, Placed
<1>15. CASE Install
  <2>1. /\ ledger.pending # None /\ LedgerHas(tx) /\ journal.pending = tx
        /\ tx # None /\ tx.nonce \in Nonces
    BY <1>15 DEF Install, PhaseOK, RequestOK, AdmittedPcs, OpenedPcs, SeedPcs
  <2>2. /\ UNCHANGED <<ledger, journal, running>> /\ installed' = tx.rel
        /\ installs'[tx.nonce] = installs[tx.nonce] + 1 /\ installs[tx.nonce] \in Nat
        /\ sPc' = "arm"
    BY <1>15, <2>1 DEF Install, Goto, TypeOK
  <2>3. installs'[ledger.pending.nonce] > 0
    BY <2>1, <2>2 DEF LedgerHas
  <2>. QED
    BY <2>1, <2>2, <2>3 DEF LedgerHas, HostOK, Placed
<1>16. CASE SeedCopy
  BY <1>16 DEF SeedCopy, Goto, Exit, HostOK, Placed
<1>17. CASE SeedFloor
  <2>1. tx.rel.version = ledger.version
    BY <1>17 DEF SeedFloor, FloorIsActive
  <2>2. /\ ledger'.version = ledger.version /\ ledger'.pending = ledger.pending
        /\ UNCHANGED <<journal, running, installed, installs>> /\ sPc' = "seedJournal"
    BY <1>17, <2>1 DEF SeedFloor, Larger, Goto, TypeOK
  <2>. QED
    BY <2>2 DEF HostOK, Placed
<1>18. CASE SeedJournal
  <2>1. ledger.pending = None
    BY <1>18 DEF SeedJournal, PhaseOK
  <2>. QED
    BY <1>18, <2>1 DEF SeedJournal, HostOK, Placed
<1>. QED
  BY <1>1, <1>2, <1>3, <1>4, <1>5, <1>6, <1>7, <1>8, <1>9, <1>10, <1>11, <1>12,
     <1>13, <1>14, <1>15, <1>16, <1>17, <1>18, MinorOrMajor DEF Major

-----------------------------------------------------------------------------
(* Announcements and acknowledgements.                                     *)

\* The transaction is announced before anything is installed.
LEMMA AnnouncementStep ==
  ASSUME TypeOK, TypeOK', UpdateInv, UpdateInv', FloorIsActive, AnnouncementOK,
         AcksOK, [Next]_vars
  PROVE  AnnouncementOK'
<1>. USE DEF UpdateInv, protectedVars, mailVars, supVars, agentVars, historyVars, boundVars,
         supervisorOnly, elsewhere, recoverOnly, mailboxOnly, restartOnly, publishOnly,
         answerOnly, failOnly
<1>1. CASE Minor
  <2>1. \A n \in 1..Len(offers) : n \in 1..Len(offers') /\ offers'[n] = offers[n]
    BY <1>1 DEF Minor
  <2>2. /\ UNCHANGED <<ledger, ended, installs>> /\ journal'.pending = journal.pending
        /\ pendHealth' = pendHealth \/ (pendHealth' = None /\ ledger.pending = None)
        /\ sPc' = "journal" => sPc = "journal"
    BY <1>1 DEF Minor, MarkedPcs
  <2>. QED
    BY <2>1, <2>2 DEF AnnouncementOK
<1>2. CASE ReadAnnouncement
  BY <1>2 DEF ReadAnnouncement, AnnouncementOK
<1>3. CASE Judge
  BY <1>3 DEF Judge, Goto, Judgement, AnnouncementOK
<1>4. CASE FinishInterrupted
  <2>1. PICK outcome \in Outcomes : Finish(outcome) /\ (outcome = "healthy" <=> sPc = "accept")
    BY <1>4 DEF FinishInterrupted, Outcomes
  <2>2. ledger.pending # None
    BY <1>4 DEF FinishInterrupted, PhaseOK, JudgedPcs
  <2>3. /\ ledger'.pending = None /\ Last'.outcome = outcome
        /\ ended' = [ended EXCEPT ![ledger.pending.nonce] = outcome]
        /\ ledger'.version >= ledger.version
    BY <2>1, <2>2, FinishEffect
  <2>4. /\ UNCHANGED <<journal, installs, offers, installed, running, proven, pendHealth,
                       health, aAck>>
        /\ sPc' = "clear"
    BY <2>1 DEF Finish, Goto
  <2>5. ASSUME pendHealth # None
        PROVE  /\ ended'[pendHealth.nonce] # None
               /\ installs[pendHealth.nonce] = 0 =>
                    offers[pendHealth.nonce].version > ledger'.version
    <3>. DEFINE n == pendHealth.nonce
                m == ledger.pending.nonce
    <3>1. /\ n \in 1..Len(offers) /\ (ended[n] # None \/ m = n)
          /\ installs[n] = 0 => offers[n].version > ledger.version
      BY <2>2, <2>5 DEF AnnouncementOK
    <3>2. n \in Nonces /\ m \in Nonces /\ outcome # None
      BY <2>2, <3>1, OfferNonces, WindowFields, NoneOK
    <3>. HIDE DEF n, m
    <3>3. ended'[n] # None
      BY <2>3, <3>1, <3>2 DEF TypeOK, m
    <3>4. CASE outcome = "healthy"
      <4>1. /\ m \in proven /\ installs[m] > 0 /\ journal.pending # None
        BY <2>1, <2>2, <3>4 DEF AcksOK, PhaseOK, JudgedPcs, m
      <4>2. m = n
        BY <2>2, <2>5, <4>1 DEF AnnouncementOK, m, n
      <4>. QED
        BY <3>3, <4>1, <4>2 DEF n
    <3>5. CASE outcome # "healthy"
      <4>1. ledger'.version = ledger.version
        BY <2>1, <3>5 DEF Finish, Raises
      <4>. QED
        BY <3>1, <3>3, <4>1 DEF n
    <3>. QED
      BY <3>4, <3>5
  <2>. QED
    BY <2>3, <2>4, <2>5 DEF AnnouncementOK
<1>5. CASE FinishHealthy
  <2>1. PICK outcome \in Outcomes : Finish(outcome) /\ (outcome = "healthy" <=> sPc = "accept")
    BY <1>5 DEF FinishHealthy, Outcomes
  <2>2. ledger.pending # None
    BY <1>5 DEF FinishHealthy, PhaseOK, JudgedPcs
  <2>3. /\ ledger'.pending = None /\ Last'.outcome = outcome
        /\ ended' = [ended EXCEPT ![ledger.pending.nonce] = outcome]
        /\ ledger'.version >= ledger.version
    BY <2>1, <2>2, FinishEffect
  <2>4. /\ UNCHANGED <<journal, installs, offers, installed, running, proven, pendHealth,
                       health, aAck>>
        /\ sPc' = "clear"
    BY <2>1 DEF Finish, Goto
  <2>5. ASSUME pendHealth # None
        PROVE  /\ ended'[pendHealth.nonce] # None
               /\ installs[pendHealth.nonce] = 0 =>
                    offers[pendHealth.nonce].version > ledger'.version
    <3>. DEFINE n == pendHealth.nonce
                m == ledger.pending.nonce
    <3>1. /\ n \in 1..Len(offers) /\ (ended[n] # None \/ m = n)
          /\ installs[n] = 0 => offers[n].version > ledger.version
      BY <2>2, <2>5 DEF AnnouncementOK
    <3>2. n \in Nonces /\ m \in Nonces /\ outcome # None
      BY <2>2, <3>1, OfferNonces, WindowFields, NoneOK
    <3>. HIDE DEF n, m
    <3>3. ended'[n] # None
      BY <2>3, <3>1, <3>2 DEF TypeOK, m
    <3>4. CASE outcome = "healthy"
      <4>1. /\ m \in proven /\ installs[m] > 0 /\ journal.pending # None
        BY <2>1, <2>2, <3>4 DEF AcksOK, PhaseOK, JudgedPcs, m
      <4>2. m = n
        BY <2>2, <2>5, <4>1 DEF AnnouncementOK, m, n
      <4>. QED
        BY <3>3, <4>1, <4>2 DEF n
    <3>5. CASE outcome # "healthy"
      <4>1. ledger'.version = ledger.version
        BY <2>1, <3>5 DEF Finish, Raises
      <4>. QED
        BY <3>1, <3>3, <4>1 DEF n
    <3>. QED
      BY <3>4, <3>5
  <2>. QED
    BY <2>3, <2>4, <2>5 DEF AnnouncementOK
<1>6. CASE FinishRolledBack
  <2>1. PICK outcome \in Outcomes : Finish(outcome) /\ (outcome = "healthy" <=> sPc = "accept")
    BY <1>6 DEF FinishRolledBack, Outcomes
  <2>2. ledger.pending # None
    BY <1>6 DEF FinishRolledBack, PhaseOK, JudgedPcs
  <2>3. /\ ledger'.pending = None /\ Last'.outcome = outcome
        /\ ended' = [ended EXCEPT ![ledger.pending.nonce] = outcome]
        /\ ledger'.version >= ledger.version
    BY <2>1, <2>2, FinishEffect
  <2>4. /\ UNCHANGED <<journal, installs, offers, installed, running, proven, pendHealth,
                       health, aAck>>
        /\ sPc' = "clear"
    BY <2>1 DEF Finish, Goto
  <2>5. ASSUME pendHealth # None
        PROVE  /\ ended'[pendHealth.nonce] # None
               /\ installs[pendHealth.nonce] = 0 =>
                    offers[pendHealth.nonce].version > ledger'.version
    <3>. DEFINE n == pendHealth.nonce
                m == ledger.pending.nonce
    <3>1. /\ n \in 1..Len(offers) /\ (ended[n] # None \/ m = n)
          /\ installs[n] = 0 => offers[n].version > ledger.version
      BY <2>2, <2>5 DEF AnnouncementOK
    <3>2. n \in Nonces /\ m \in Nonces /\ outcome # None
      BY <2>2, <3>1, OfferNonces, WindowFields, NoneOK
    <3>. HIDE DEF n, m
    <3>3. ended'[n] # None
      BY <2>3, <3>1, <3>2 DEF TypeOK, m
    <3>4. CASE outcome = "healthy"
      <4>1. /\ m \in proven /\ installs[m] > 0 /\ journal.pending # None
        BY <2>1, <2>2, <3>4 DEF AcksOK, PhaseOK, JudgedPcs, m
      <4>2. m = n
        BY <2>2, <2>5, <4>1 DEF AnnouncementOK, m, n
      <4>. QED
        BY <3>3, <4>1, <4>2 DEF n
    <3>5. CASE outcome # "healthy"
      <4>1. ledger'.version = ledger.version
        BY <2>1, <3>5 DEF Finish, Raises
      <4>. QED
        BY <3>1, <3>3, <4>1 DEF n
    <3>. QED
      BY <3>4, <3>5
  <2>. QED
    BY <2>3, <2>4, <2>5 DEF AnnouncementOK
<1>7. CASE Settle
  <2>1. ledger.pending = None
    BY <1>7 DEF Settle, PhaseOK
  <2>. QED
    BY <1>7, <2>1 DEF Settle, AnnouncementOK
<1>8. CASE RollbackInstall
  BY <1>8 DEF RollbackInstall, Goto, Exit, AnnouncementOK
<1>9. CASE RollbackRestart
  BY <1>9 DEF RollbackRestart, RestartAgent, AgentRestarted, Goto, AnnouncementOK
<1>10. CASE Admit
  BY <1>10 DEF Admit, Examine, Fresh, Acceptable, AnnouncementOK
<1>11. CASE Commit
  <2>1. /\ ledger'.version = ledger.version /\ ledger.pending = None /\ journal.pending = None
        /\ UNCHANGED <<journal, pendHealth, offers, ended, installs>> /\ sPc' = "unack"
    BY <1>11 DEF Commit, OpenWindow, Goto, TypeOK, PhaseOK
  <2>. QED
    BY <2>1 DEF AnnouncementOK
<1>12. CASE Arm
  <2>1. /\ ledger.pending # None /\ LedgerHas(tx) /\ journal.pending # None
        /\ ledger'.version = ledger.version /\ ledger'.pending.nonce = tx.nonce
        /\ UNCHANGED <<journal, pendHealth, offers, ended, installs>> /\ sPc' = "unack"
    BY <1>12 DEF Arm, OpenWindow, Window, Goto, TypeOK, PhaseOK, RequestOK, AdmittedPcs,
       OpenedPcs
  <2>2. ledger'.pending # None
    BY <2>1 DEF PhaseOK, OpenedPcs
  <2>. QED
    BY <2>1, <2>2 DEF LedgerHas, AnnouncementOK
<1>13. CASE Announce
  <2>1. /\ ledger.pending # None /\ LedgerHas(tx) /\ tx # None /\ tx.nonce \in Nonces
        /\ Genuine(tx.nonce, tx.rel)
    BY <1>13 DEF Announce, PhaseOK, RequestOK, GenuineOK, AdmittedPcs, OpenedPcs, SeedPcs
  <2>2. /\ pendHealth' \in Announcements /\ pendHealth' # None
        /\ pendHealth'.nonce = tx.nonce /\ pendHealth'.version = tx.rel.version
    <3>1. /\ pendHealth'.nonce = tx.nonce /\ pendHealth'.version = tx.rel.version
          /\ pendHealth' = [nonce |-> tx.nonce, version |-> tx.rel.version,
                            start |-> ledger.pending.start,
                            deadline |-> ledger.pending.deadline]
      BY <1>13 DEF Announce
    <3>2. ledger.pending.start \in Nat /\ ledger.pending.deadline \in Nat
      BY <2>1, WindowFields DEF Windows
    <3>3. tx.rel.version \in Nat
      BY <2>1, AtRequest, ReleasesOK
    <3>4. pendHealth' \in Announcements
      BY <2>1, <3>1, <3>2, <3>3 DEF Announcements
    <3>. QED
      BY <3>1, <3>4, NoneOK
  <2>3. UNCHANGED <<ledger, journal, offers, ended, installs>>
    BY <1>13 DEF Announce
  <2>4. tx.rel.version > ledger.version
    BY <2>1 DEF FloorIsActive, LedgerHas
  <2>. QED
    BY <2>1, <2>2, <2>3, <2>4 DEF Genuine, LedgerHas, AnnouncementOK
<1>14. CASE WriteJournal
  <2>1. /\ ledger.pending # None
        /\ UNCHANGED <<ledger, pendHealth, offers, ended, installs>> /\ sPc = "journal"
    BY <1>14 DEF WriteJournal, PhaseOK, OpenedPcs
  <2>. QED
    BY <2>1 DEF AnnouncementOK
<1>15. CASE Install
  <2>1. tx # None /\ tx.nonce \in Nonces
    BY <1>15 DEF Install, RequestOK, AdmittedPcs, OpenedPcs, SeedPcs
  <2>2. /\ UNCHANGED <<ledger, journal, pendHealth, offers, ended>> /\ sPc' = "arm"
        /\ installs' = [installs EXCEPT ![tx.nonce] = installs[tx.nonce] + 1]
        /\ installs[tx.nonce] \in Nat
    BY <1>15, <2>1 DEF Install, Goto, TypeOK
  <2>3. \A n \in Nonces : installs'[n] = 0 => installs[n] = 0
    BY <2>1, <2>2 DEF TypeOK
  <2>4. \A n \in 1..Len(offers) : n \in Nonces
    BY OfferNonces
  <2>. QED
    BY <2>2, <2>3, <2>4 DEF AnnouncementOK
<1>16. CASE SeedCopy
  BY <1>16 DEF SeedCopy, Goto, Exit, AnnouncementOK
<1>17. CASE SeedFloor
  <2>1. tx.rel.version = ledger.version
    BY <1>17 DEF SeedFloor, FloorIsActive
  <2>2. /\ ledger'.version = ledger.version /\ ledger'.pending = ledger.pending
        /\ UNCHANGED <<journal, pendHealth, offers, ended, installs>> /\ sPc' = "seedJournal"
    BY <1>17, <2>1 DEF SeedFloor, Larger, Goto, TypeOK
  <2>. QED
    BY <2>2 DEF AnnouncementOK
<1>18. CASE SeedJournal
  <2>1. ledger.pending = None
    BY <1>18 DEF SeedJournal, PhaseOK
  <2>. QED
    BY <1>18, <2>1 DEF SeedJournal, AnnouncementOK
<1>. QED
  BY <1>1, <1>2, <1>3, <1>4, <1>5, <1>6, <1>7, <1>8, <1>9, <1>10, <1>11, <1>12,
     <1>13, <1>14, <1>15, <1>16, <1>17, <1>18, MinorOrMajor DEF Major

\* A release above the floor runs only after its own installation, so whoever
\* acknowledges an open transaction is the release it installed.
LEMMA AcksStep ==
  ASSUME TypeOK, TypeOK', UpdateInv, UpdateInv', FloorIsActive, HostOK,
         AnnouncementOK, AcksOK, [Next]_vars
  PROVE  AcksOK'
<1>. USE DEF UpdateInv, protectedVars, mailVars, supVars, agentVars, historyVars, boundVars,
         supervisorOnly, elsewhere, recoverOnly, mailboxOnly, restartOnly, publishOnly,
         answerOnly, failOnly
<1>1. CASE Minor
  BY <1>1 DEF Minor, MarkedPcs, AcksOK
<1>2. CASE ReadAnnouncement
  <2>. DEFINE n == pendHealth.nonce
  <2>1. /\ n \in 1..Len(offers) /\ running.version = offers[n].version
        /\ ended[n] # None \/ (ledger.pending # None /\ ledger.pending.nonce = n)
        /\ installs[n] = 0 => offers[n].version > ledger.version
    BY <1>2 DEF ReadAnnouncement, Announced, AnnouncementOK
  <2>2. /\ aAck' = [nonce |-> n, version |-> pendHealth.version, at |-> now]
        /\ proven' = IF offers[n] = running THEN proven \cup {n} ELSE proven
        /\ UNCHANGED <<health, ended, installs, ledger, sPc>>
    BY <1>2 DEF ReadAnnouncement
  <2>3. n \in Nonces /\ installs[n] \in Nat
    BY <2>1, OfferNonces DEF TypeOK
  <2>4. ASSUME offers[n].version > ledger.version
        PROVE  installs[n] > 0 /\ (ended[n] = None => offers[n] = running)
    <3>1. running.version > ledger.version /\ ledger.version \in Nat /\ running.version \in Nat
      BY <2>1, <2>4, ReleasesOK DEF TypeOK
    <3>2. Placed(running)
      BY <3>1 DEF HostOK
    <3>3. ledger.pending.nonce = n /\ installs[n] > 0
      BY <1>2, <3>2 DEF Placed, ReadAnnouncement, Announced, AnnouncementOK
    <3>4. offers[n] = ledger.pending.rel
      BY <3>2, <3>3 DEF Placed, GenuineOK, Genuine
    <3>. QED
      BY <3>2, <3>3, <3>4 DEF Placed
  <2>5. installs[n] > 0
    BY <2>1, <2>3, <2>4
  <2>6. ended[n] # None \/ offers[n] = running
    <3>1. ended[n] = None => offers[n].version > ledger.version
      BY <2>1 DEF GenuineOK, Genuine, FloorIsActive
    <3>. QED
      BY <2>4, <3>1
  <2>7. aAck'.nonce = n
    BY <2>2
  <2>. HIDE DEF n
  <2>8. \A a \in {health', aAck'} \ {None} : a.nonce \in proven' \/ ended'[a.nonce] # None
    BY <2>2, <2>6, <2>7 DEF AcksOK
  <2>9. \A m \in proven' : installs'[m] > 0
    BY <2>2, <2>5 DEF AcksOK
  <2>. QED
    BY <2>2, <2>8, <2>9 DEF AcksOK
<1>3. CASE Judge
  <2>1. /\ ledger.pending # None /\ ended[ledger.pending.nonce] = None
        /\ UNCHANGED <<health, aAck, proven, installs, ended, ledger>>
        /\ sPc' = "accept" => Healthy
    BY <1>3 DEF Judge, Judgement, Goto, PhaseOK, JudgedPcs, OnceOK
  <2>2. Healthy => ledger.pending.nonce \in proven
    BY <2>1 DEF Healthy, AcksOK
  <2>. QED
    BY <2>1, <2>2 DEF AcksOK
<1>4. CASE FinishInterrupted
  <2>1. PICK outcome \in Outcomes : Finish(outcome) /\ (outcome = "healthy" <=> sPc = "accept")
    BY <1>4 DEF FinishInterrupted, Outcomes
  <2>2. ledger.pending # None
    BY <1>4 DEF FinishInterrupted, PhaseOK, JudgedPcs
  <2>3. /\ ledger'.pending = None /\ Last'.outcome = outcome
        /\ ended' = [ended EXCEPT ![ledger.pending.nonce] = outcome]
        /\ ledger'.version >= ledger.version
    BY <2>1, <2>2, FinishEffect
  <2>4. /\ UNCHANGED <<journal, installs, offers, installed, running, proven, pendHealth,
                       health, aAck>>
        /\ sPc' = "clear"
    BY <2>1 DEF Finish, Goto
  <2>5. \A n \in Nonces : ended[n] # None => ended'[n] # None
    BY <2>2, <2>3, WindowFields, NoneOK DEF TypeOK
  <2>6. \A a \in {health, aAck} \ {None} : a.nonce \in Nonces
    BY DEF TypeOK, Acks
  <2>. QED
    BY <2>4, <2>5, <2>6 DEF AcksOK
<1>5. CASE FinishHealthy
  <2>1. PICK outcome \in Outcomes : Finish(outcome) /\ (outcome = "healthy" <=> sPc = "accept")
    BY <1>5 DEF FinishHealthy, Outcomes
  <2>2. ledger.pending # None
    BY <1>5 DEF FinishHealthy, PhaseOK, JudgedPcs
  <2>3. /\ ledger'.pending = None /\ Last'.outcome = outcome
        /\ ended' = [ended EXCEPT ![ledger.pending.nonce] = outcome]
        /\ ledger'.version >= ledger.version
    BY <2>1, <2>2, FinishEffect
  <2>4. /\ UNCHANGED <<journal, installs, offers, installed, running, proven, pendHealth,
                       health, aAck>>
        /\ sPc' = "clear"
    BY <2>1 DEF Finish, Goto
  <2>5. \A n \in Nonces : ended[n] # None => ended'[n] # None
    BY <2>2, <2>3, WindowFields, NoneOK DEF TypeOK
  <2>6. \A a \in {health, aAck} \ {None} : a.nonce \in Nonces
    BY DEF TypeOK, Acks
  <2>. QED
    BY <2>4, <2>5, <2>6 DEF AcksOK
<1>6. CASE FinishRolledBack
  <2>1. PICK outcome \in Outcomes : Finish(outcome) /\ (outcome = "healthy" <=> sPc = "accept")
    BY <1>6 DEF FinishRolledBack, Outcomes
  <2>2. ledger.pending # None
    BY <1>6 DEF FinishRolledBack, PhaseOK, JudgedPcs
  <2>3. /\ ledger'.pending = None /\ Last'.outcome = outcome
        /\ ended' = [ended EXCEPT ![ledger.pending.nonce] = outcome]
        /\ ledger'.version >= ledger.version
    BY <2>1, <2>2, FinishEffect
  <2>4. /\ UNCHANGED <<journal, installs, offers, installed, running, proven, pendHealth,
                       health, aAck>>
        /\ sPc' = "clear"
    BY <2>1 DEF Finish, Goto
  <2>5. \A n \in Nonces : ended[n] # None => ended'[n] # None
    BY <2>2, <2>3, WindowFields, NoneOK DEF TypeOK
  <2>6. \A a \in {health, aAck} \ {None} : a.nonce \in Nonces
    BY DEF TypeOK, Acks
  <2>. QED
    BY <2>4, <2>5, <2>6 DEF AcksOK
<1>7. CASE Settle
  BY <1>7 DEF Settle, Survivor, AcksOK
<1>8. CASE RollbackInstall
  BY <1>8 DEF RollbackInstall, Goto, Exit, AcksOK
<1>9. CASE RollbackRestart
  BY <1>9 DEF RollbackRestart, RestartAgent, AgentRestarted, Goto, AcksOK
<1>10. CASE Admit
  BY <1>10 DEF Admit, Examine, Fresh, Acceptable, AcksOK
<1>11. CASE Commit
  <2>1. UNCHANGED <<health, aAck, proven, installs, ended>> /\ sPc' = "unack"
    BY <1>11 DEF Commit, OpenWindow, Goto
  <2>. QED
    BY <2>1 DEF AcksOK
<1>12. CASE Arm
  <2>1. UNCHANGED <<health, aAck, proven, installs, ended>> /\ sPc' = "unack"
    BY <1>12 DEF Arm, OpenWindow, Goto
  <2>. QED
    BY <2>1 DEF AcksOK
<1>13. CASE Announce
  BY <1>13 DEF Announce, Goto, AcksOK
<1>14. CASE WriteJournal
  BY <1>14 DEF WriteJournal, AcksOK
<1>15. CASE Install
  <2>1. tx # None /\ tx.nonce \in Nonces
    BY <1>15 DEF Install, RequestOK, AdmittedPcs, OpenedPcs, SeedPcs
  <2>2. /\ UNCHANGED <<health, aAck, proven, ended, ledger>> /\ sPc' = "arm"
        /\ installs' = [installs EXCEPT ![tx.nonce] = installs[tx.nonce] + 1]
        /\ installs[tx.nonce] \in Nat
    BY <1>15, <2>1 DEF Install, Goto, TypeOK
  <2>3. \A n \in Nonces : installs[n] > 0 => installs'[n] > 0
    BY <2>1, <2>2 DEF TypeOK
  <2>. QED
    BY <2>2, <2>3 DEF TypeOK, AcksOK
<1>16. CASE SeedCopy
  BY <1>16 DEF SeedCopy, Goto, Exit, AcksOK
<1>17. CASE SeedFloor
  BY <1>17 DEF SeedFloor, Goto, AcksOK
<1>18. CASE SeedJournal
  BY <1>18 DEF SeedJournal, AcksOK
<1>. QED
  BY <1>1, <1>2, <1>3, <1>4, <1>5, <1>6, <1>7, <1>8, <1>9, <1>10, <1>11, <1>12,
     <1>13, <1>14, <1>15, <1>16, <1>17, <1>18, MinorOrMajor DEF Major

-----------------------------------------------------------------------------
(* Refinement.                                                             *)

\* The requests whose package was installed.
PlacedSet == {n \in Nonces : installs[n] > 0}

\* Nothing has been requested, placed or ended when the system starts.
LEMMA ContractInit == Init => Contract!Init
BY NoneOK DEF Init, Contract!Init, phaseOf

\* The phases follow the endings and the window of the ledger, whose request is
\* the only one that is open.
LEMMA PhaseFacts ==
  ASSUME TypeOK, UpdateInv
  PROVE  /\ \A n \in Nonces : phaseOf[n] = "open" <=>
              ended[n] = None /\ ledger.pending # None /\ ledger.pending.nonce = n
         /\ \A n \in Nonces : phaseOf[n] = "new" <=>
              ended[n] = None /\ ~(ledger.pending # None /\ ledger.pending.nonce = n)
<1>1. \A n \in Nonces : ended[n] # None => ended[n] \in {"healthy", "rolled back", "interrupted"}
  BY DEF TypeOK, Outcomes
<1>. QED
  BY <1>1 DEF phaseOf

\* commit_pending opens, the package manager places, ack_health proves and
\* finish_update ends; everything else is invisible.
LEMMA ContractStep ==
  ASSUME TypeOK, TypeOK', UpdateInv, UpdateInv', OnceOK, AcksOK, AcksOK', [Next]_vars
  PROVE  [Contract!Next]_(Contract!vars)
<1>. USE DEF UpdateInv, protectedVars, mailVars, supVars, agentVars, historyVars, boundVars,
         supervisorOnly, elsewhere, recoverOnly, mailboxOnly, restartOnly, publishOnly,
         answerOnly, failOnly
<1>1. CASE Minor
  <2>1. UNCHANGED <<ledger, installs, ended, proven>>
    BY <1>1 DEF Minor
  <2>. QED
    BY <2>1 DEF phaseOf, Contract!vars
<1>2. CASE ReadAnnouncement
  <2>. DEFINE n == pendHealth.nonce
  <2>1. /\ UNCHANGED <<ledger, installs, ended>>
        /\ proven' = IF offers[n] = running THEN proven \cup {n} ELSE proven
    BY <1>2 DEF ReadAnnouncement
  <2>2. UNCHANGED phaseOf /\ UNCHANGED PlacedSet
    BY <2>1 DEF phaseOf, PlacedSet
  <2>3. CASE n \in proven'
    <3>1. n \in PlacedSet
      BY <2>1, <2>3 DEF AcksOK, TypeOK, PlacedSet
    <3>2. n \in Nonces
      BY <3>1 DEF PlacedSet
    <3>3. proven' = proven \cup {n}
      BY <2>1, <2>3
    <3>4. Contract!Prove(n)
      BY <2>2, <3>1, <3>3 DEF Contract!Prove, PlacedSet
    <3>. QED
      BY <3>2, <3>4 DEF Contract!Next
  <2>4. CASE n \notin proven'
    BY <2>1, <2>2, <2>4 DEF Contract!vars, PlacedSet
  <2>. QED
    BY <2>3, <2>4
<1>3. CASE Judge
  <2>1. UNCHANGED <<ledger, installs, ended, proven>>
    BY <1>3 DEF Judge, Goto, Judgement
  <2>. QED
    BY <2>1 DEF phaseOf, Contract!vars
<1>4. CASE FinishInterrupted
  <2>. DEFINE n == ledger.pending.nonce
  <2>1. PICK outcome \in Outcomes : Finish(outcome) /\ (outcome = "healthy" => sPc = "accept")
                                  /\ (outcome = "interrupted" => sPc = "abort")
    BY <1>4 DEF FinishInterrupted, Outcomes
  <2>2. ledger.pending # None /\ n \in Nonces /\ ended[n] = None /\ outcome # None
    BY <1>4, WindowFields, NoneOK DEF FinishInterrupted, PhaseOK, OnceOK, JudgedPcs
  <2>3. /\ ledger'.pending = None
        /\ ended' = [ended EXCEPT ![n] = outcome]
    BY <2>1, <2>2, FinishEffect
  <2>4. UNCHANGED <<installs, proven>>
    BY <2>1 DEF Finish
  <2>5. /\ sPc = "accept" => n \in proven
        /\ sPc = "abort" => installs[n] = 0
    BY <2>2 DEF AcksOK, PhaseOK, OnceOK
  <2>. HIDE DEF n
  <2>6. phaseOf[n] = "open"
    BY <2>2, PhaseFacts DEF n
  <2>7. phaseOf' = [phaseOf EXCEPT ![n] = outcome]
    BY <2>2, <2>3 DEF phaseOf, n, TypeOK
  <2>8. Contract!End(n, outcome)
    <3>1. PlacedSet' = PlacedSet
      BY <2>4 DEF PlacedSet
    <3>2. outcome = "healthy" => n \in proven
      BY <2>1, <2>5
    <3>3. outcome = "interrupted" => n \notin PlacedSet
      BY <2>1, <2>5 DEF PlacedSet
    <3>4. \/ outcome = "healthy" /\ n \in proven
          \/ outcome = "interrupted" /\ n \notin PlacedSet
          \/ outcome = "rolled back"
      BY <3>2, <3>3, Zenon DEF Outcomes
    <3>5. <<PlacedSet, proven>>' = <<PlacedSet, proven>>
      BY <2>4, <3>1
    <3>. QED
      BY <2>6, <2>7, <3>4, <3>5, Zenon DEF Contract!End, PlacedSet
  <2>9. outcome \in Contract!Phases
    BY <2>1 DEF Outcomes, Contract!Phases
  <2>. QED
    BY <2>2, <2>8, <2>9 DEF Contract!Next
<1>5. CASE FinishHealthy
  <2>. DEFINE n == ledger.pending.nonce
  <2>1. PICK outcome \in Outcomes : Finish(outcome) /\ (outcome = "healthy" => sPc = "accept")
                                  /\ (outcome = "interrupted" => sPc = "abort")
    BY <1>5 DEF FinishHealthy, Outcomes
  <2>2. ledger.pending # None /\ n \in Nonces /\ ended[n] = None /\ outcome # None
    BY <1>5, WindowFields, NoneOK DEF FinishHealthy, PhaseOK, OnceOK, JudgedPcs
  <2>3. /\ ledger'.pending = None
        /\ ended' = [ended EXCEPT ![n] = outcome]
    BY <2>1, <2>2, FinishEffect
  <2>4. UNCHANGED <<installs, proven>>
    BY <2>1 DEF Finish
  <2>5. /\ sPc = "accept" => n \in proven
        /\ sPc = "abort" => installs[n] = 0
    BY <2>2 DEF AcksOK, PhaseOK, OnceOK
  <2>. HIDE DEF n
  <2>6. phaseOf[n] = "open"
    BY <2>2, PhaseFacts DEF n
  <2>7. phaseOf' = [phaseOf EXCEPT ![n] = outcome]
    BY <2>2, <2>3 DEF phaseOf, n, TypeOK
  <2>8. Contract!End(n, outcome)
    <3>1. PlacedSet' = PlacedSet
      BY <2>4 DEF PlacedSet
    <3>2. outcome = "healthy" => n \in proven
      BY <2>1, <2>5
    <3>3. outcome = "interrupted" => n \notin PlacedSet
      BY <2>1, <2>5 DEF PlacedSet
    <3>4. \/ outcome = "healthy" /\ n \in proven
          \/ outcome = "interrupted" /\ n \notin PlacedSet
          \/ outcome = "rolled back"
      BY <3>2, <3>3, Zenon DEF Outcomes
    <3>5. <<PlacedSet, proven>>' = <<PlacedSet, proven>>
      BY <2>4, <3>1
    <3>. QED
      BY <2>6, <2>7, <3>4, <3>5, Zenon DEF Contract!End, PlacedSet
  <2>9. outcome \in Contract!Phases
    BY <2>1 DEF Outcomes, Contract!Phases
  <2>. QED
    BY <2>2, <2>8, <2>9 DEF Contract!Next
<1>6. CASE FinishRolledBack
  <2>. DEFINE n == ledger.pending.nonce
  <2>1. PICK outcome \in Outcomes : Finish(outcome) /\ (outcome = "healthy" => sPc = "accept")
                                  /\ (outcome = "interrupted" => sPc = "abort")
    BY <1>6 DEF FinishRolledBack, Outcomes
  <2>2. ledger.pending # None /\ n \in Nonces /\ ended[n] = None /\ outcome # None
    BY <1>6, WindowFields, NoneOK DEF FinishRolledBack, PhaseOK, OnceOK, JudgedPcs
  <2>3. /\ ledger'.pending = None
        /\ ended' = [ended EXCEPT ![n] = outcome]
    BY <2>1, <2>2, FinishEffect
  <2>4. UNCHANGED <<installs, proven>>
    BY <2>1 DEF Finish
  <2>5. /\ sPc = "accept" => n \in proven
        /\ sPc = "abort" => installs[n] = 0
    BY <2>2 DEF AcksOK, PhaseOK, OnceOK
  <2>. HIDE DEF n
  <2>6. phaseOf[n] = "open"
    BY <2>2, PhaseFacts DEF n
  <2>7. phaseOf' = [phaseOf EXCEPT ![n] = outcome]
    BY <2>2, <2>3 DEF phaseOf, n, TypeOK
  <2>8. Contract!End(n, outcome)
    <3>1. PlacedSet' = PlacedSet
      BY <2>4 DEF PlacedSet
    <3>2. outcome = "healthy" => n \in proven
      BY <2>1, <2>5
    <3>3. outcome = "interrupted" => n \notin PlacedSet
      BY <2>1, <2>5 DEF PlacedSet
    <3>4. \/ outcome = "healthy" /\ n \in proven
          \/ outcome = "interrupted" /\ n \notin PlacedSet
          \/ outcome = "rolled back"
      BY <3>2, <3>3, Zenon DEF Outcomes
    <3>5. <<PlacedSet, proven>>' = <<PlacedSet, proven>>
      BY <2>4, <3>1
    <3>. QED
      BY <2>6, <2>7, <3>4, <3>5, Zenon DEF Contract!End, PlacedSet
  <2>9. outcome \in Contract!Phases
    BY <2>1 DEF Outcomes, Contract!Phases
  <2>. QED
    BY <2>2, <2>8, <2>9 DEF Contract!Next
<1>7. CASE Settle
  <2>1. UNCHANGED <<ledger, installs, ended, proven>>
    BY <1>7 DEF Settle, Survivor
  <2>. QED
    BY <2>1 DEF phaseOf, Contract!vars
<1>8. CASE RollbackInstall
  <2>1. UNCHANGED <<ledger, installs, ended, proven>>
    BY <1>8 DEF RollbackInstall, Goto, Exit
  <2>. QED
    BY <2>1 DEF phaseOf, Contract!vars
<1>9. CASE RollbackRestart
  <2>1. UNCHANGED <<ledger, installs, ended, proven>>
    BY <1>9 DEF RollbackRestart, RestartAgent, AgentRestarted, Goto
  <2>. QED
    BY <2>1 DEF phaseOf, Contract!vars
<1>10. CASE Admit
  <2>1. UNCHANGED <<ledger, installs, ended, proven>>
    BY <1>10 DEF Admit, Examine, Fresh, Acceptable
  <2>. QED
    BY <2>1 DEF phaseOf, Contract!vars
<1>11. CASE Commit
  <2>. DEFINE n == tx.nonce
  <2>1. /\ n \in Nonces /\ ledger.pending = None /\ ended[n] = None
        /\ ledger'.pending # None /\ ledger'.pending.nonce = n
        /\ UNCHANGED <<installs, ended, proven>>
    <3>1. /\ n \in Nonces /\ ledger.pending = None /\ ended[n] = None
          /\ ledger'.pending.nonce = n /\ UNCHANGED <<installs, ended, proven, tx>>
          /\ sPc' = "unack"
      BY <1>11 DEF Commit, OpenWindow, Window, Goto, TypeOK, RequestOK, PhaseOK, OnceOK, Used,
                AdmittedPcs, SeedPcs
    <3>2. ledger'.pending # None
      BY <3>1 DEF PhaseOK, OpenedPcs
    <3>. QED
      BY <3>1, <3>2
  <2>. HIDE DEF n
  <2>2. phaseOf[n] = "new" /\ \A m \in Nonces : phaseOf[m] # "open"
    BY <2>1, PhaseFacts
  <2>3. phaseOf' = [phaseOf EXCEPT ![n] = "open"]
    BY <2>1 DEF phaseOf
  <2>4. Contract!Open(n)
    BY <2>1, <2>2, <2>3 DEF Contract!Open
  <2>. QED
    BY <2>1, <2>4 DEF Contract!Next
<1>12. CASE Arm
  <2>1. /\ ledger.pending # None /\ ledger'.pending # None
        /\ ledger'.pending.nonce = ledger.pending.nonce
        /\ UNCHANGED <<installs, ended, proven>>
    BY <1>12 DEF Arm, OpenWindow, Window, Goto, TypeOK, PhaseOK, LedgerHas, OpenedPcs
  <2>. QED
    BY <2>1 DEF phaseOf, Contract!vars
<1>13. CASE Announce
  <2>1. UNCHANGED <<ledger, installs, ended, proven>>
    BY <1>13 DEF Announce, Goto
  <2>. QED
    BY <2>1 DEF phaseOf, Contract!vars
<1>14. CASE WriteJournal
  <2>1. UNCHANGED <<ledger, installs, ended, proven>>
    BY <1>14 DEF WriteJournal
  <2>. QED
    BY <2>1 DEF phaseOf, Contract!vars
<1>15. CASE Install
  <2>0. PICK n \in Nonces : n = tx.nonce
    BY <1>15 DEF Install, RequestOK, AdmittedPcs, OpenedPcs, SeedPcs
  <2>1. /\ n \in Nonces /\ ledger.pending # None /\ ledger.pending.nonce = n
        /\ ended[n] = None /\ installs[n] = 0
        /\ installs' = [installs EXCEPT ![n] = installs[n] + 1]
        /\ UNCHANGED <<ledger, ended, proven>>
    BY <1>15, <2>0 DEF Install, Goto, RequestOK, PhaseOK, OnceOK, LedgerHas, AdmittedPcs,
       OpenedPcs, SeedPcs
  <2>2. phaseOf[n] = "open" /\ UNCHANGED phaseOf
    BY <2>1, PhaseFacts DEF phaseOf
  <2>3. n \notin PlacedSet /\ PlacedSet' = PlacedSet \cup {n}
    <3>1. \A m \in Nonces : installs'[m] > 0 <=> m = n \/ installs[m] > 0
      BY <2>1 DEF TypeOK
    <3>. QED
      BY <2>1, <3>1 DEF PlacedSet
  <2>4. Contract!Place(n)
    BY <2>1, <2>2, <2>3 DEF Contract!Place, PlacedSet
  <2>. QED
    BY <2>4 DEF Contract!Next
<1>16. CASE SeedCopy
  <2>1. UNCHANGED <<ledger, installs, ended, proven>>
    BY <1>16 DEF SeedCopy, Goto, Exit
  <2>. QED
    BY <2>1 DEF phaseOf, Contract!vars
<1>17. CASE SeedFloor
  <2>1. /\ ledger'.pending = ledger.pending
        /\ UNCHANGED <<installs, ended, proven>>
    BY <1>17 DEF SeedFloor, TypeOK
  <2>. QED
    BY <2>1 DEF phaseOf, Contract!vars
<1>18. CASE SeedJournal
  <2>1. UNCHANGED <<ledger, installs, ended, proven>>
    BY <1>18 DEF SeedJournal
  <2>. QED
    BY <2>1 DEF phaseOf, Contract!vars
<1>. QED
  BY <1>1, <1>2, <1>3, <1>4, <1>5, <1>6, <1>7, <1>8, <1>9, <1>10, <1>11, <1>12,
     <1>13, <1>14, <1>15, <1>16, <1>17, <1>18, MinorOrMajor DEF Major

\* ContractInv starts true and stays so.
LEMMA ContractInvariant ==
  ASSUME Emergency = {}
  PROVE  Spec => []ContractInv
<1>1. Init => ContractInv
  <2>. SUFFICES ASSUME Init PROVE FloorIsActive /\ HostOK /\ AnnouncementOK /\ AcksOK
    BY DEF ContractInv
  <2>1. FloorIsActive
    BY DEF Init, FloorIsActive, NextActive
  <2>2. HostOK
    BY ReleasesOK DEF Init, HostOK
  <2>3. AnnouncementOK /\ AcksOK
    BY DEF Init, AnnouncementOK, AcksOK
  <2>. QED
    BY <2>1, <2>2, <2>3
<1>2. /\ TypeOK /\ UpdateInv /\ (TypeOK /\ UpdateInv)' /\ ContractInv /\ [Next]_vars
      => ContractInv'
  <2>. SUFFICES ASSUME TypeOK, UpdateInv, TypeOK', UpdateInv', ContractInv, [Next]_vars
                PROVE  ContractInv'
    OBVIOUS
  <2>. USE DEF ContractInv
  <2>1. FloorIsActive'
    BY FloorIsActiveStep
  <2>2. HostOK'
    BY HostStep
  <2>3. AnnouncementOK'
    BY AnnouncementStep
  <2>4. AcksOK'
    BY AcksStep
  <2>. QED
    BY <2>1, <2>2, <2>3, <2>4
<1>. QED
  BY <1>1, <1>2, Inductive, PTL DEF Spec

\* The updater keeps the contract of its transactions as long as no emergency
\* exception lets a release below the floor run: one transaction at a time, each
\* installed at most once, recorded healthy only after the installed release
\* acknowledged, interrupted only when nothing was installed.
THEOREM ImplementsContract == Emergency = {} => (Spec => ImplementsTransaction)
<1>. SUFFICES ASSUME Emergency = {} PROVE Spec => ImplementsTransaction
  OBVIOUS
<1>1. /\ TypeOK /\ UpdateInv /\ (TypeOK /\ UpdateInv)' /\ ContractInv /\ ContractInv'
      /\ [Next]_vars
      => [Contract!Next]_(Contract!vars)
  BY ContractStep DEF ContractInv, UpdateInv
<1>. QED
  BY <1>1, ContractInit, ContractInvariant, Inductive, PTL
     DEF Spec, ImplementsTransaction, Contract!Spec
=============================================================================
