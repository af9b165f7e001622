--------------------------- MODULE DeliveryProofs ---------------------------
(***************************************************************************)
(* Theorems about Delivery.  For every number of snapshots, every content  *)
(* and size, every limit, and any crashes and failing file operations: the *)
(* type invariant, the accounting of snapshots (NoSilentLoss) and the      *)
(* refinement of SnapshotCustody.                                          *)
(*                                                                         *)
(* And what holds when modification times follow publication order and     *)
(* file operations work (Orderly): the worker drains the spool from its    *)
(* older end, the newest published snapshot is the last to leave, and so   *)
(* the digest enqueue_if_needed compares with is always the one of the     *)
(* newest pending snapshot.  From the order it follows that the server     *)
(* never goes back to an older snapshot, and that the baseline of an agent *)
(* that has not crashed is what is in force at the server.                 *)
(***************************************************************************)
EXTENDS Delivery, FiniteSetTheorems, TLAPS

\* The fields of DeliveryClient and the files keep their types, and
\* enqueue_if_needed has a snapshot, submit_one an entry, exactly while it
\* runs.
THEOREM TypeCorrect == Spec => []TypeOK
<1>. USE ConstantsOK, NoneIsNoEntry DEF TypeOK, DataOK, FlagsOK, producerVars, submitVars,
       workerVars, serverVars, boundVars, memoryVars, fileVars, workerOnly,
       ProducerPcs, WorkerPcs, Submitting, ProducerRuns, WorkerRuns
<1>1. Init => TypeOK
  <2>1. Init => FlagsOK
    BY DEF Init
  <2>2. Init => DataOK
    BY DEF Init
  <2>. QED
    BY <2>1, <2>2
<1>2. TypeOK /\ [Next]_vars => TypeOK'
  <2>. SUFFICES ASSUME TypeOK, [Next]_vars PROVE TypeOK'
    OBVIOUS
  <2>1. CASE Collect
    BY <2>1 DEF Collect
  <2>2. CASE CheckDue
    BY <2>2 DEF CheckDue, Due
  <2>3. CASE Suppress
    BY ZenonT(60), <2>3 DEF Suppress, ProducerIdle
  <2>4. CASE WriteFails
    BY ZenonT(60), <2>4 DEF WriteFails, ProducerIdle
  <2>5. CASE WriteUnsynced
    <3>1. FlagsOK'
      BY <2>5 DEF WriteUnsynced, ProducerIdle, AddEntry, WriteTimes, Entry
    <3>2. DataOK'
      BY <2>5 DEF WriteUnsynced, ProducerIdle, AddEntry, WriteTimes, Entry
    <3>. QED
      BY <3>1, <3>2
  <2>6. CASE WriteEntry
    BY <2>6 DEF WriteEntry, AddEntry, WriteTimes, Entry, ProducerPcs
  <2>7. CASE EvictOldest
    BY <2>7 DEF EvictOldest, Oldest, Entry, Ids
  <2>8. CASE Publish
    BY <2>8 DEF Publish, ProducerIdle
  <2>9. CASE ListPending
    BY <2>9 DEF ListPending
  <2>10. CASE ReadPending
    BY <2>10 DEF ReadPending, Oldest
  <2>11. CASE QuarantineUnreadable
    <3>1. PICK e \in todo \cap spool :
            /\ spool' = spool \ {e}
            /\ quarantine' = quarantine \cup {e.id}
            /\ \/ todo' = todo \ {e} /\ UNCHANGED <<wPc, submitVars>>
               \/ AbandonDrain
      BY <2>11 DEF QuarantineUnreadable
    <3>2. e.id \in Nat
      BY DEF Entry
    <3>3. UNCHANGED <<workerOnly, accFile, serverVars>>
      BY <2>11 DEF QuarantineUnreadable
    <3>4. CASE todo' = todo \ {e} /\ UNCHANGED <<wPc, submitVars>>
      BY <3>1, <3>2, <3>3, <3>4
    <3>5. CASE AbandonDrain
      BY ZenonT(60), <3>1, <3>2, <3>3, <3>5 DEF AbandonDrain, NoEntry
    <3>. QED
      BY <3>1, <3>4, <3>5
  <2>12. CASE ReadFails
    BY <2>12 DEF ReadFails, AbandonDrain, NoEntry
  <2>13. CASE DrainDone
    BY <2>13 DEF DrainDone
  <2>14. CASE SendSnapshot
    BY <2>14 DEF SendSnapshot
  <2>15. CASE TokenUnavailable
    BY <2>15 DEF TokenUnavailable, AbandonDrain, NoEntry
  <2>16. CASE Acknowledged
    BY <2>16 DEF Acknowledged
  <2>17. CASE Unauthorized
    BY <2>17 DEF Unauthorized
  <2>18. CASE Refused
    <3>1. quarantine' \subseteq Nat
      BY <2>18 DEF Refused, Ids, Entry
    <3>2. cur' = None /\ attempt' = 0 /\ refreshed' = FALSE
      BY <2>18 DEF Refused, NoEntry, AbandonDrain
    <3>3. wPc' \in {"next", "rest"} /\ todo' \subseteq todo
      BY <2>18 DEF Refused, AbandonDrain
    <3>4. spool' \subseteq spool /\ UNCHANGED <<workerOnly, accFile, serverVars>>
      BY <2>18 DEF Refused
    <3>. QED
      BY ZenonT(60), <3>1, <3>2, <3>3, <3>4
  <2>19. CASE TransientFailure
    BY <2>19 DEF TransientFailure
  <2>20. CASE BackoffElapsed
    BY <2>20 DEF BackoffElapsed
  <2>21. CASE GiveUp
    BY <2>21 DEF GiveUp, AbandonDrain, NoEntry
  <2>22. CASE RemoveAccepted
    BY <2>22 DEF RemoveAccepted
  <2>23. CASE RemoveFails
    BY <2>23 DEF RemoveFails, AbandonDrain, NoEntry
  <2>24. CASE StoreAccepted
    BY <2>24 DEF StoreAccepted, Entry
  <2>25. CASE RememberAccepted
    BY <2>25 DEF RememberAccepted, NoEntry, Entry
  <2>26. CASE ClearQueued
    BY <2>26 DEF ClearQueued
  <2>27. CASE Rest
    BY <2>27 DEF Rest
  <2>28. CASE Wake
    BY <2>28 DEF Wake
  <2>29. CASE RetryTimer
    BY <2>29 DEF RetryTimer
  <2>30. CASE Crash
    <3>1. FlagsOK'
      BY <2>30 DEF Crash, ProducerIdle, NoEntry
    <3>2. DataOK'
      BY <2>30 DEF Crash, ProducerIdle, NoEntry
    <3>. QED
      BY <3>1, <3>2
  <2>31. CASE Boot
    <3>1. FlagsOK'
      BY <2>31 DEF Boot
    <3>2. lastAccepted' \in [digest : Digests, expired : BOOLEAN] \cup {None}
      <4>1. ASSUME NEW late \in BOOLEAN, accFile # None,
                   lastAccepted' = [digest |-> accFile, expired |-> late]
            PROVE  lastAccepted' \in [digest : Digests, expired : BOOLEAN]
        BY <4>1
      <4>2. CASE lastAccepted' = None
        BY <4>2
      <4>. QED
        BY <2>31, <4>1, <4>2 DEF Boot, LoadAccepted
    <3>3. accFile' \in Digests \cup {None} /\ expiries' \in Nat
      BY <2>31 DEF Boot, LoadAccepted
    <3>4. /\ spool' \subseteq Entry /\ quarantine' \subseteq Nat
          /\ queued' \in Digests \cup {None}
      BY <2>31 DEF Boot, LoadQueued, Ids, Entry
    <3>. QED
      BY <2>31, <3>1, <3>2, <3>3, <3>4 DEF Boot
  <2>32. CASE Expire
    <3>1. FlagsOK'
      BY <2>32 DEF Expire
    <3>2. lastAccepted' \in [digest : Digests, expired : BOOLEAN] \cup {None}
      BY <2>32 DEF Expire
    <3>3. expiries' \in Nat
      BY <2>32 DEF Expire
    <3>. QED
      BY <2>32, <3>1, <3>2, <3>3 DEF Expire
  <2>33. CASE HostChange
    BY <2>33 DEF HostChange
  <2>34. ASSUME NEW r \in net, ServerApply(r) PROVE TypeOK'
    BY <2>34 DEF ServerApply, Entry
  <2>35. CASE UNCHANGED vars
    BY <2>35 DEF vars
  <2>. QED
    BY <2>1, <2>2, <2>3, <2>4, <2>5, <2>6, <2>7, <2>8, <2>9, <2>10, <2>11, <2>12, <2>13,
       <2>14, <2>15, <2>16, <2>17, <2>18, <2>19, <2>20, <2>21, <2>22, <2>23, <2>24, <2>25,
       <2>26, <2>27, <2>28, <2>29, <2>30, <2>31, <2>32, <2>33, <2>34, <2>35 DEF Next,
       Producer, Worker, Environment
<1>. QED
  BY <1>1, <1>2, PTL DEF Spec

-----------------------------------------------------------------------------
(* Custody.  The five variables of SnapshotCustody are functions of spool,  *)
(* quarantine, evicted, published and applied; the lemmas say what each     *)
(* kind of change to those five does to the accounting and to the contract. *)

\* Deleting entries deletes exactly their identities, because every spool
\* entry has an identity of its own.
LEMMA IdsMinus ==
  ASSUME NEW S, NEW T, T \subseteq S, \A e, f \in S : e.id = f.id => e = f
  PROVE  Ids(S \ T) = Ids(S) \ Ids(T)
BY DEF Ids

\* Publishing an entry adds its identity.
LEMMA IdsPlus ==
  ASSUME NEW S, NEW e
  PROVE  Ids(S \cup {e}) = Ids(S) \cup {e.id}
BY DEF Ids

\* The rename in Spool::write admits a snapshot whose identity is new.
LEMMA AdmitKeeps ==
  ASSUME Accounted, published \in Nat, published < MaxId, MaxId \in Nat,
         NEW e, e.id = published + 1, spool' = spool \cup {e},
         published' = published + 1, UNCHANGED <<quarantine, evicted, applied>>
  PROVE  Accounted' /\ (\E id \in 1..MaxId : Custody!Admit(id))
<1>1. Ids(spool') = Ids(spool) \cup {published + 1}
  BY IdsPlus
<1>2. 1..published' = (1..published) \cup {published + 1}
  OBVIOUS
<1>3. published + 1 \notin 1..published
  OBVIOUS
<1>4. Discharged' = Discharged
  <2>. DEFINE Old == 1..published
              All == 1..published'
              n == published + 1
              Gone == quarantine \cup evicted
  <2>1. /\ All = Old \cup {n} /\ n \notin Old
        /\ Ids(spool') = Ids(spool) \cup {n} /\ UNCHANGED Gone
    BY <1>1, <1>2, <1>3
  <2>2. /\ Discharged = Old \ (Ids(spool) \cup Gone)
        /\ Discharged' = All \ (Ids(spool') \cup Gone')
    BY DEF Discharged
  <2>3. Gone \subseteq Old
    BY DEF Accounted
  <2>. HIDE DEF Old, All, n, Gone
  <2>. QED
    BY <2>1, <2>2, <2>3
<1>5. \A f, g \in spool' : f.id = g.id => f = g
  BY <1>3 DEF Accounted, Ids
<1>6. Accounted'
  <2>1. published' <= MaxId
    OBVIOUS
  <2>2. published + 1 \notin quarantine \cup evicted
    BY <1>3 DEF Accounted
  <2>3. /\ Ids(spool') \cup quarantine' \cup evicted' \cup applied'
                \subseteq 1..published'
        /\ Ids(spool') \cap quarantine' = {}
        /\ Ids(spool') \cap evicted' = {}
        /\ quarantine' \cap evicted' = {}
    BY <1>1, <1>2, <2>2, Zenon DEF Accounted
  <2>4. NoSilentLoss'
    BY <1>4 DEF NoSilentLoss, Accounted
  <2>. QED
    BY <2>1, <1>5, <2>3, <2>4 DEF Accounted
<1>7. Custody!Admit(published + 1)
  BY <1>1, <1>3, <1>4 DEF Custody!Admit, Custody!Known, Accounted, Discharged
<1>. QED
  BY <1>6, <1>7

\* Renaming entries into spool/quarantine settles them once.
LEMMA PutAsideKeeps ==
  ASSUME Accounted, NEW S, S \subseteq spool, spool' = spool \ S,
         quarantine' = quarantine \cup Ids(S),
         UNCHANGED <<evicted, published, applied>>
  PROVE  Accounted' /\ (\E T \in SUBSET Ids(spool) : Custody!PutAside(T))
<1>1. Ids(spool') = Ids(spool) \ Ids(S)
  BY IdsMinus DEF Accounted
<1>2. Ids(S) \subseteq Ids(spool)
  BY DEF Ids
<1>3. Discharged' = Discharged
  BY <1>1, <1>2 DEF Discharged
<1>4. Accounted'
  BY <1>1, <1>2, <1>3 DEF Accounted, NoSilentLoss
<1>5. Custody!PutAside(Ids(S))
  BY <1>1, <1>2, <1>3 DEF Custody!PutAside
<1>. QED
  BY <1>2, <1>4, <1>5

\* A deletion by enforce_limit drops a snapshot while another stays pending.
LEMMA DropKeeps ==
  ASSUME Accounted, NEW e \in spool, Cardinality(spool) > 1,
         spool' = spool \ {e}, evicted' = evicted \cup {e.id},
         UNCHANGED <<quarantine, published, applied>>
  PROVE  Accounted' /\ Custody!Drop(e.id) /\ e.id \in 1..published
<1>1. Ids(spool') = Ids(spool) \ {e.id}
  <2>1. Ids({e}) = {e.id}
    BY DEF Ids
  <2>. QED
    BY <2>1, IdsMinus DEF Accounted
<1>2. e.id \in Ids(spool)
  BY DEF Ids
<1>3. Discharged' = Discharged
  BY <1>1, <1>2 DEF Discharged
<1>4. Accounted'
  BY <1>1, <1>2, <1>3 DEF Accounted, NoSilentLoss
<1>5. Ids(spool) # {e.id}
  <2>1. spool # {e}
    <3>1. Cardinality({e}) = 1
      BY FS_Singleton
    <3>. QED
      BY <3>1
  <2>2. PICK f \in spool : f # e
    BY <2>1
  <2>3. f.id # e.id /\ f.id \in Ids(spool)
    BY <2>2 DEF Accounted, Ids
  <2>. QED
    BY <2>3
<1>6. Custody!Drop(e.id)
  BY <1>1, <1>2, <1>3, <1>5 DEF Custody!Drop
<1>. QED
  BY <1>2, <1>4, <1>6 DEF Accounted

\* Spool::remove of an acknowledged entry gives up what the server holds.
LEMMA DischargeKeeps ==
  ASSUME Accounted, NEW e \in spool, e.id \in applied, spool' = spool \ {e},
         UNCHANGED <<quarantine, evicted, published, applied>>
  PROVE  Accounted' /\ Custody!Discharge(e.id) /\ e.id \in 1..published
<1>1. Ids(spool') = Ids(spool) \ {e.id}
  <2>1. Ids({e}) = {e.id}
    BY DEF Ids
  <2>. QED
    BY <2>1, IdsMinus DEF Accounted
<1>2. e.id \in Ids(spool)
  BY DEF Ids
<1>3. Discharged' = Discharged \cup {e.id}
  BY <1>1, <1>2 DEF Discharged, Accounted
<1>4. Accounted'
  BY <1>1, <1>2, <1>3 DEF Accounted, NoSilentLoss
<1>5. Custody!Discharge(e.id)
  BY <1>1, <1>2, <1>3 DEF Custody!Discharge
<1>. QED
  BY <1>2, <1>4, <1>5 DEF Accounted

\* The server applies a snapshot that was published.
LEMMA HoldKeeps ==
  ASSUME Accounted, NEW id \in 1..published, applied' = applied \cup {id},
         UNCHANGED <<spool, quarantine, evicted, published>>
  PROVE  Accounted' /\ Custody!Hold(id)
<1>1. UNCHANGED Discharged /\ Ids(spool') = Ids(spool)
  BY DEF Discharged
<1>2. Accounted'
  BY <1>1 DEF Accounted, NoSilentLoss
<1>3. Custody!Hold(id)
  BY <1>1 DEF Custody!Hold, Custody!Known, Discharged
<1>. QED
  BY <1>2, <1>3

\* A step that leaves files and server alone is a stutter of the contract.
LEMMA StutterKeeps ==
  ASSUME Accounted, UNCHANGED <<spool, quarantine, evicted, published, applied>>
  PROVE  Accounted' /\ UNCHANGED Custody!vars
<1>1. UNCHANGED Discharged /\ Ids(spool') = Ids(spool)
  BY DEF Discharged
<1>. QED
  BY <1>1 DEF Accounted, NoSilentLoss, Custody!vars

\* One step of the agent, the server or the host, seen from the contract.
LEMMA CustodyStep ==
  TypeOK /\ CustodyInv /\ [Next]_vars
     => CustodyInv' /\ [Custody!Next]_(Custody!vars)
<1>. SUFFICES ASSUME TypeOK, Accounted, WorkKnown, [Next]_vars
              PROVE  Accounted' /\ WorkKnown' /\ [Custody!Next]_(Custody!vars)
  BY DEF CustodyInv
<1>. USE ConstantsOK, NoneIsNoEntry DEF TypeOK, DataOK, producerVars,
       submitVars, workerVars, serverVars, boundVars, memoryVars, fileVars,
       workerOnly, WorkKnown, Submitting
<1>a. ASSUME UNCHANGED <<spool, quarantine, evicted, published, applied>>
      PROVE  Accounted' /\ [Custody!Next]_(Custody!vars)
  BY <1>a, StutterKeeps
<1>b. 1..published \subseteq 1..MaxId
  BY DEF Accounted
<1>1. CASE Collect
  <2>1. UNCHANGED <<spool, quarantine, evicted, published, applied>>
    BY <1>1 DEF Collect
  <2>2. WorkKnown'
    BY <1>1 DEF Collect
  <2>. QED
    BY <1>a, <2>1, <2>2
<1>2. CASE CheckDue
  <2>1. UNCHANGED <<spool, quarantine, evicted, published, applied>>
    BY <1>2 DEF CheckDue
  <2>2. WorkKnown'
    BY <1>2 DEF CheckDue
  <2>. QED
    BY <1>a, <2>1, <2>2
<1>3. CASE Suppress
  <2>1. UNCHANGED <<spool, quarantine, evicted, published, applied>>
    BY <1>3 DEF Suppress
  <2>2. WorkKnown'
    BY <1>3 DEF Suppress
  <2>. QED
    BY <1>a, <2>1, <2>2
<1>4. CASE WriteFails
  <2>1. UNCHANGED <<spool, quarantine, evicted, published, applied>>
    BY <1>4 DEF WriteFails
  <2>2. WorkKnown'
    BY <1>4 DEF WriteFails
  <2>. QED
    BY <1>a, <2>1, <2>2
<1>5. CASE WriteUnsynced
  <2>1. PICK e \in Entry : e.id = published + 1 /\ spool' = spool \cup {e}
    <3>1. PICK t \in WriteTimes :
            spool' = spool \cup {[id |-> published + 1, digest |-> pSnap, mtime |-> t]}
      BY <1>5 DEF WriteUnsynced, AddEntry
    <3>2. t \in Nat /\ pSnap \in Digests
      BY <1>5 DEF WriteUnsynced, WriteTimes
    <3>3. [id |-> published + 1, digest |-> pSnap, mtime |-> t] \in Entry
      BY <3>2 DEF Entry
    <3>. QED
      BY <3>1, <3>3
  <2>2. /\ published < MaxId /\ published' = published + 1
        /\ UNCHANGED <<quarantine, evicted, applied>>
    BY <1>5 DEF WriteUnsynced, AddEntry
  <2>3. Accounted' /\ (\E id \in 1..MaxId : Custody!Admit(id))
    BY <2>1, <2>2, AdmitKeeps
  <2>4. WorkKnown'
    BY <1>5, <2>2 DEF WriteUnsynced
  <2>. QED
    BY <2>3, <2>4 DEF Custody!Next
<1>6. CASE WriteEntry
  <2>1. PICK e \in Entry : e.id = published + 1 /\ spool' = spool \cup {e}
    <3>1. PICK t \in WriteTimes :
            spool' = spool \cup {[id |-> published + 1, digest |-> pSnap, mtime |-> t]}
      BY <1>6 DEF WriteEntry, AddEntry
    <3>2. t \in Nat /\ pSnap \in Digests
      BY <1>6 DEF WriteEntry, WriteTimes
    <3>3. [id |-> published + 1, digest |-> pSnap, mtime |-> t] \in Entry
      BY <3>2 DEF Entry
    <3>. QED
      BY <3>1, <3>3
  <2>2. /\ published < MaxId /\ published' = published + 1
        /\ UNCHANGED <<quarantine, evicted, applied>>
    BY <1>6 DEF WriteEntry, AddEntry
  <2>3. Accounted' /\ (\E id \in 1..MaxId : Custody!Admit(id))
    BY <2>1, <2>2, AdmitKeeps
  <2>4. WorkKnown'
    BY <1>6, <2>2 DEF WriteEntry
  <2>. QED
    BY <2>3, <2>4 DEF Custody!Next
<1>7. CASE EvictOldest
  <2>1. PICK e \in spool : spool' = spool \ {e} /\ evicted' = evicted \cup {e.id}
    BY <1>7 DEF EvictOldest
  <2>2. Cardinality(spool) > 1 /\ UNCHANGED <<quarantine, published, applied>>
    BY <1>7 DEF EvictOldest, OverLimit
  <2>3. Accounted' /\ Custody!Drop(e.id) /\ e.id \in 1..published
    BY <2>1, <2>2, DropKeeps
  <2>4. WorkKnown'
    BY <1>7 DEF EvictOldest
  <2>. QED
    BY <1>b, <2>3, <2>4 DEF Custody!Next
<1>8. CASE Publish
  <2>1. UNCHANGED <<spool, quarantine, evicted, published, applied>>
    BY <1>8 DEF Publish
  <2>2. WorkKnown'
    BY <1>8 DEF Publish
  <2>. QED
    BY <1>a, <2>1, <2>2
<1>9. CASE ListPending
  <2>1. UNCHANGED <<spool, quarantine, evicted, published, applied>>
    BY <1>9 DEF ListPending
  <2>2. WorkKnown'
    BY <1>9 DEF ListPending, Accounted, Ids
  <2>. QED
    BY <1>a, <2>1, <2>2
<1>10. CASE ReadPending
  <2>1. UNCHANGED <<spool, quarantine, evicted, published, applied>>
    BY <1>10 DEF ReadPending
  <2>2. WorkKnown'
    BY <1>10 DEF ReadPending
  <2>. QED
    BY <1>a, <2>1, <2>2
<1>11. CASE QuarantineUnreadable
  <2>1. PICK e \in spool : spool' = spool \ {e} /\ quarantine' = quarantine \cup {e.id}
    BY <1>11 DEF QuarantineUnreadable, AbandonDrain, NoEntry
  <2>2. Ids({e}) = {e.id} /\ UNCHANGED <<evicted, published, applied>>
    BY <1>11 DEF QuarantineUnreadable, Ids
  <2>3. Accounted' /\ (\E T \in SUBSET Ids(spool) : Custody!PutAside(T))
    BY <2>1, <2>2, PutAsideKeeps
  <2>4. WorkKnown'
    BY <1>11 DEF QuarantineUnreadable, AbandonDrain, NoEntry
  <2>. QED
    BY <2>3, <2>4 DEF Custody!Next
<1>12. CASE ReadFails
  <2>1. UNCHANGED <<spool, quarantine, evicted, published, applied>>
    BY <1>12 DEF ReadFails
  <2>2. WorkKnown'
    BY <1>12 DEF ReadFails, AbandonDrain, NoEntry
  <2>. QED
    BY <1>a, <2>1, <2>2
<1>13. CASE DrainDone
  <2>1. UNCHANGED <<spool, quarantine, evicted, published, applied>>
    BY <1>13 DEF DrainDone
  <2>2. WorkKnown'
    BY <1>13 DEF DrainDone
  <2>. QED
    BY <1>a, <2>1, <2>2
<1>14. CASE SendSnapshot
  <2>1. UNCHANGED <<spool, quarantine, evicted, published, applied>>
    BY <1>14 DEF SendSnapshot
  <2>2. WorkKnown'
    BY <1>14 DEF SendSnapshot
  <2>. QED
    BY <1>a, <2>1, <2>2
<1>15. CASE TokenUnavailable
  <2>1. UNCHANGED <<spool, quarantine, evicted, published, applied>>
    BY <1>15 DEF TokenUnavailable
  <2>2. WorkKnown'
    BY <1>15 DEF TokenUnavailable, AbandonDrain, NoEntry
  <2>. QED
    BY <1>a, <2>1, <2>2
<1>16. CASE Acknowledged
  <2>1. UNCHANGED <<spool, quarantine, evicted, published, applied>>
    BY <1>16 DEF Acknowledged
  <2>2. WorkKnown'
    BY <1>16 DEF Acknowledged
  <2>. QED
    BY <1>a, <2>1, <2>2
<1>17. CASE Unauthorized
  <2>1. UNCHANGED <<spool, quarantine, evicted, published, applied>>
    BY <1>17 DEF Unauthorized
  <2>2. WorkKnown'
    BY <1>17 DEF Unauthorized
  <2>. QED
    BY <1>a, <2>1, <2>2
<1>18. CASE Refused
  <2>. DEFINE S == {cur} \cap spool
  <2>1. /\ spool' = spool \ S /\ quarantine' = quarantine \cup Ids(S)
        /\ UNCHANGED <<evicted, published, applied>>
    BY <1>18 DEF Refused
  <2>2. Accounted' /\ (\E T \in SUBSET Ids(spool) : Custody!PutAside(T))
    <3>. HIDE DEF S
    <3>1. S \subseteq spool
      BY DEF S
    <3>. QED
      BY <2>1, <3>1, PutAsideKeeps
  <2>3. WorkKnown'
    BY <1>18 DEF Refused, AbandonDrain, NoEntry
  <2>. QED
    BY <2>2, <2>3 DEF Custody!Next
<1>19. CASE TransientFailure
  <2>1. UNCHANGED <<spool, quarantine, evicted, published, applied>>
    BY <1>19 DEF TransientFailure
  <2>2. WorkKnown'
    BY <1>19 DEF TransientFailure
  <2>. QED
    BY <1>a, <2>1, <2>2
<1>20. CASE BackoffElapsed
  <2>1. UNCHANGED <<spool, quarantine, evicted, published, applied>>
    BY <1>20 DEF BackoffElapsed
  <2>2. WorkKnown'
    BY <1>20 DEF BackoffElapsed
  <2>. QED
    BY <1>a, <2>1, <2>2
<1>21. CASE GiveUp
  <2>1. UNCHANGED <<spool, quarantine, evicted, published, applied>>
    BY <1>21 DEF GiveUp
  <2>2. WorkKnown'
    BY <1>21 DEF GiveUp, AbandonDrain, NoEntry
  <2>. QED
    BY <1>a, <2>1, <2>2
<1>22. CASE RemoveAccepted
  <2>1. /\ spool' = spool \ {cur} /\ cur.id \in applied
        /\ UNCHANGED <<quarantine, evicted, published, applied>>
    BY <1>22 DEF RemoveAccepted
  <2>2. WorkKnown'
    BY <1>22 DEF RemoveAccepted
  <2>3. CASE cur \in spool
    <3>1. Accounted' /\ Custody!Discharge(cur.id) /\ cur.id \in 1..published
      BY <2>1, <2>3, DischargeKeeps
    <3>. QED
      BY <1>b, <2>2, <3>1 DEF Custody!Next
  <2>4. CASE cur \notin spool
    <3>1. spool' = spool
      BY <2>1, <2>4
    <3>. QED
      BY <1>a, <2>1, <2>2, <3>1
  <2>. QED
    BY <2>3, <2>4
<1>23. CASE RemoveFails
  <2>1. UNCHANGED <<spool, quarantine, evicted, published, applied>>
    BY <1>23 DEF RemoveFails
  <2>2. WorkKnown'
    BY <1>23 DEF RemoveFails, AbandonDrain, NoEntry
  <2>. QED
    BY <1>a, <2>1, <2>2
<1>24. CASE StoreAccepted
  <2>1. UNCHANGED <<spool, quarantine, evicted, published, applied>>
    BY <1>24 DEF StoreAccepted
  <2>2. WorkKnown'
    BY <1>24 DEF StoreAccepted
  <2>. QED
    BY <1>a, <2>1, <2>2
<1>25. CASE RememberAccepted
  <2>1. UNCHANGED <<spool, quarantine, evicted, published, applied>>
    BY <1>25 DEF RememberAccepted
  <2>2. WorkKnown'
    BY <1>25 DEF RememberAccepted, NoEntry
  <2>. QED
    BY <1>a, <2>1, <2>2
<1>26. CASE ClearQueued
  <2>1. UNCHANGED <<spool, quarantine, evicted, published, applied>>
    BY <1>26 DEF ClearQueued
  <2>2. WorkKnown'
    BY <1>26 DEF ClearQueued
  <2>. QED
    BY <1>a, <2>1, <2>2
<1>27. CASE Rest
  <2>1. UNCHANGED <<spool, quarantine, evicted, published, applied>>
    BY <1>27 DEF Rest
  <2>2. WorkKnown'
    BY <1>27 DEF Rest
  <2>. QED
    BY <1>a, <2>1, <2>2
<1>28. CASE Wake
  <2>1. UNCHANGED <<spool, quarantine, evicted, published, applied>>
    BY <1>28 DEF Wake
  <2>2. WorkKnown'
    BY <1>28 DEF Wake
  <2>. QED
    BY <1>a, <2>1, <2>2
<1>29. CASE RetryTimer
  <2>1. UNCHANGED <<spool, quarantine, evicted, published, applied>>
    BY <1>29 DEF RetryTimer
  <2>2. WorkKnown'
    BY <1>29 DEF RetryTimer
  <2>. QED
    BY <1>a, <2>1, <2>2
<1>30. CASE Crash
  <2>1. UNCHANGED <<spool, quarantine, evicted, published, applied>>
    BY <1>30 DEF Crash
  <2>2. WorkKnown'
    BY <1>30 DEF Crash, NoEntry
  <2>. QED
    BY <1>a, <2>1, <2>2
<1>31. CASE Boot
  <2>1. PICK S \in SUBSET spool : spool' = spool \ S /\ quarantine' = quarantine \cup Ids(S)
    BY <1>31 DEF Boot, LoadQueued
  <2>2. UNCHANGED <<evicted, published, applied, todo, net, cur, wPc>>
    BY <1>31 DEF Boot
  <2>3. Accounted' /\ (\E T \in SUBSET Ids(spool) : Custody!PutAside(T))
    BY <2>1, <2>2, PutAsideKeeps
  <2>4. WorkKnown'
    BY <2>2
  <2>. QED
    BY <2>3, <2>4 DEF Custody!Next
<1>32. CASE Expire
  <2>1. UNCHANGED <<spool, quarantine, evicted, published, applied>>
    BY <1>32 DEF Expire
  <2>2. WorkKnown'
    BY <1>32 DEF Expire
  <2>. QED
    BY <1>a, <2>1, <2>2
<1>33. CASE HostChange
  <2>1. UNCHANGED <<spool, quarantine, evicted, published, applied>>
    BY <1>33 DEF HostChange
  <2>2. WorkKnown'
    BY <1>33 DEF HostChange
  <2>. QED
    BY <1>a, <2>1, <2>2
<1>34. ASSUME NEW r \in net, ServerApply(r)
      PROVE  Accounted' /\ WorkKnown' /\ [Custody!Next]_(Custody!vars)
  <2>1. /\ r.id \in 1..published /\ applied' = applied \cup {r.id}
        /\ UNCHANGED <<spool, quarantine, evicted, published>>
    BY <1>34 DEF ServerApply
  <2>2. Accounted' /\ Custody!Hold(r.id) /\ r.id \in 1..published
    BY <2>1, HoldKeeps
  <2>3. WorkKnown'
    BY <1>34 DEF ServerApply
  <2>. QED
    BY <1>b, <2>2, <2>3 DEF Custody!Next
<1>35. CASE UNCHANGED vars
  <2>1. UNCHANGED <<spool, quarantine, evicted, published, applied>> /\ WorkKnown'
    BY <1>35 DEF vars
  <2>. QED
    BY <1>a, <2>1
<1>. QED
  BY <1>1, <1>2, <1>3, <1>4, <1>5, <1>6, <1>7, <1>8, <1>9, <1>10, <1>11,
     <1>12, <1>13, <1>14, <1>15, <1>16, <1>17, <1>18, <1>19, <1>20, <1>21,
     <1>22, <1>23, <1>24, <1>25, <1>26, <1>27, <1>28, <1>29, <1>30, <1>31,
     <1>32, <1>33, <1>34, <1>35 DEF Next, Producer, Worker, Environment

\* An empty spool satisfies the accounting and starts the contract.
LEMMA CustodyInit == Init => CustodyInv /\ Custody!Init
  BY ConstantsOK DEF Init, CustodyInv, Accounted, WorkKnown, NoSilentLoss, Discharged,
     Ids, Custody!Init

\* Every snapshot ever published is accounted for: NoSilentLoss holds for any
\* number of snapshots, contents, crashes and failing file operations.
THEOREM NothingLost == Spec => []NoSilentLoss
<1>1. TypeOK /\ CustodyInv /\ [Next]_vars => CustodyInv'
  BY CustodyStep
<1>2. CustodyInv => NoSilentLoss
  BY DEF CustodyInv, Accounted
<1>. QED
  BY <1>1, <1>2, CustodyInit, TypeCorrect, PTL DEF Spec

\* The delivery side implements SnapshotCustody: what leaves the spool leaves
\* it once, for one of the three reasons, and never returns.
THEOREM ImplementsCustody == Spec => CustodyKept
<1>1. TypeOK /\ CustodyInv /\ [Next]_vars => CustodyInv' /\ [Custody!Next]_(Custody!vars)
  BY CustodyStep
<1>. QED
  BY <1>1, CustodyInit, TypeCorrect, PTL DEF Spec, CustodyKept, Custody!Spec

-----------------------------------------------------------------------------
(* Order *)

\* The environment of the theorems below.
Orderly == ClockMonotonic /\ ~DiskFaults

\* An empty spool is in order.
LEMMA OrderInit == Init => OrderInv
  BY DEF Init, OrderInv, InOrder, NewestStays

\* Deletions keep the order; what stays in the spool and in the worker's
\* enumeration is a part of what was there.
LEMMA ShrinkKeepsOrder ==
  ASSUME InOrder, spool' \subseteq spool,
         \/ todo' = todo /\ cur' = cur
         \/ todo' = todo /\ cur' = None /\ cur \notin spool'
         \/ todo' = {} /\ cur' = None
  PROVE  InOrder'
<1>1. CASE todo' = todo /\ cur' = cur
  BY <1>1 DEF InOrder
<1>2. CASE todo' = todo /\ cur' = None /\ cur \notin spool'
  BY <1>2 DEF InOrder
<1>3. CASE todo' = {} /\ cur' = None
  BY <1>3 DEF InOrder
<1>. QED
  BY <1>1, <1>2, <1>3

\* The worker deletes the entry it works on: if that was the newest published
\* snapshot, nothing older is left.
LEMMA DeleteCurKeepsNewest ==
  ASSUME TypeOK, Accounted, InOrder, NewestStays, cur # None,
         spool' = spool \ {cur}, UNCHANGED <<published, up, pPc, pSnap, queued>>
  PROVE  NewestStays'
<1>. SUFFICES ASSUME spool' # {}
              PROVE  \E e \in spool' :
                       /\ e.id = published
                       /\ up /\ pPc = "limit" => e.digest = pSnap
                       /\ up /\ pPc # "limit" => e.digest = queued
  BY DEF NewestStays
<1>1. PICK e \in spool :
        /\ e.id = published
        /\ up /\ pPc = "limit" => e.digest = pSnap
        /\ up /\ pPc # "limit" => e.digest = queued
  BY DEF NewestStays
<1>2. CASE e # cur
  BY <1>1, <1>2
<1>3. CASE e = cur
  <2>1. PICK f \in spool : f # cur
    OBVIOUS
  <2>2. cur.id < f.id
    BY <2>1 DEF InOrder
  <2>3. f.id \in 1..published
    BY DEF Accounted, Ids
  <2>4. published \in Nat
    BY DEF TypeOK, DataOK
  <2>. QED
    BY <1>1, <1>3, <2>2, <2>3, <2>4
<1>. QED
  BY <1>2, <1>3

\* A step that leaves the spool, the publication and the queued digest alone
\* leaves the newest pending entry described.
LEMMA SameKeepsNewest ==
  ASSUME NewestStays, UNCHANGED <<spool, published>>,
         ~up' \/ UNCHANGED <<up, pPc, pSnap, queued>>
                \/ (pPc # "limit" /\ pPc' # "limit" /\ UNCHANGED <<up, queued>>)
  PROVE  NewestStays'
BY DEF NewestStays

\* Every step keeps the spool in publication order, the worker at its older
\* end, and last_enqueued_digest the content of its newest entry.
LEMMA OrderStep ==
  ASSUME Orderly
  PROVE  TypeOK /\ CustodyInv /\ OrderInv /\ [Next]_vars
            => InOrder' /\ NewestStays'
<1>. SUFFICES ASSUME TypeOK, Accounted, WorkKnown, InOrder, NewestStays, [Next]_vars,
                     ~up => pPc # "limit",
                     wPc \in {"store", "remember"} => cur \notin spool
              PROVE  InOrder' /\ NewestStays'
  BY DEF CustodyInv, OrderInv
<1>. USE ConstantsOK, NoneIsNoEntry DEF producerVars,
       submitVars, workerVars, serverVars, boundVars, memoryVars, fileVars,
       workerOnly, ProducerRuns, WorkerRuns
<1>a. ~DiskFaults /\ ClockMonotonic
  BY DEF Orderly
<1>b. /\ spool \cup todo \subseteq Entry /\ published \in Nat
      /\ cur \in Entry \cup {None} /\ (cur = None <=> wPc \notin Submitting)
  BY DEF TypeOK, DataOK
<1>1. CASE Collect
  <2>1. /\ UNCHANGED <<spool, todo, cur, published, up, queued>>
        /\ pPc # "limit" /\ pPc' # "limit"
    BY <1>1 DEF Collect
  <2>2. InOrder'
    BY <2>1, ShrinkKeepsOrder
  <2>. QED
    BY <2>1, <2>2, SameKeepsNewest
<1>2. CASE CheckDue
  <2>1. /\ UNCHANGED <<spool, todo, cur, published, up, queued>>
        /\ pPc # "limit" /\ pPc' # "limit"
    BY <1>2 DEF CheckDue
  <2>2. InOrder'
    BY <2>1, ShrinkKeepsOrder
  <2>. QED
    BY <2>1, <2>2, SameKeepsNewest
<1>3. CASE Suppress
  <2>1. /\ UNCHANGED <<spool, todo, cur, published, up, queued>>
        /\ pPc # "limit" /\ pPc' # "limit"
    BY <1>3 DEF Suppress, ProducerIdle
  <2>2. InOrder'
    BY <2>1, ShrinkKeepsOrder
  <2>. QED
    BY <2>1, <2>2, SameKeepsNewest
<1>4. CASE WriteFails
  <2>1. /\ UNCHANGED <<spool, todo, cur, published, up, queued>>
        /\ pPc # "limit" /\ pPc' # "limit"
    BY <1>4 DEF WriteFails, ProducerIdle
  <2>2. InOrder'
    BY <2>1, ShrinkKeepsOrder
  <2>. QED
    BY <2>1, <2>2, SameKeepsNewest
<1>5. CASE WriteUnsynced
  BY <1>a, <1>5 DEF WriteUnsynced
<1>6. CASE WriteEntry
  <2>1. PICK t \in WriteTimes :
          spool' = spool \cup {[id |-> published + 1, digest |-> pSnap, mtime |-> t]}
    BY <1>6 DEF WriteEntry, AddEntry
  <2>. DEFINE new == [id |-> published + 1, digest |-> pSnap, mtime |-> published + 1]
  <2>2. spool' = spool \cup {new}
    BY <1>a, <2>1 DEF WriteTimes
  <2>3. new.id = published + 1 /\ new.mtime = published + 1 /\ new.digest = pSnap
    OBVIOUS
  <2>4. /\ published' = published + 1 /\ pPc' = "limit"
        /\ UNCHANGED <<todo, cur, pSnap>>
    BY <1>6 DEF WriteEntry, AddEntry
  <2>5. /\ \A e \in spool \cup todo : e.id < new.id
        /\ cur # None => cur.id < new.id
    <3>1. \A e \in spool \cup todo : e.id \in 1..published
      BY DEF Accounted, WorkKnown, Ids
    <3>2. cur # None => cur.id \in 1..published
      BY DEF WorkKnown
    <3>. QED
      BY <1>b, <2>3, <3>1, <3>2
  <2>. HIDE DEF new
  <2>6. InOrder'
    <3>1. \A e \in spool' \cup todo' : e.mtime = e.id
      BY <2>2, <2>3, <2>4 DEF InOrder
    <3>2. \A e, f \in spool' \cup todo' : e.id = f.id => e = f
      BY <1>b, <2>2, <2>3, <2>4, <2>5 DEF InOrder, Entry
    <3>3. \A f \in todo', e \in spool' : e \in todo' \cup {cur'} \/ f.id < e.id
      BY <2>2, <2>4, <2>5 DEF InOrder
    <3>4. cur' # None => /\ \A e \in spool' : e = cur' \/ cur'.id < e.id
                         /\ \A f \in todo' : cur'.id < f.id
      BY <2>2, <2>4, <2>5 DEF InOrder
    <3>. QED
      BY <3>1, <3>2, <3>3, <3>4 DEF InOrder
  <2>7. NewestStays'
    BY <2>2, <2>3, <2>4 DEF NewestStays
  <2>. QED
    BY <2>6, <2>7
<1>7. CASE EvictOldest
  <2>1. PICK e \in spool : Oldest(e, spool) /\ spool' = spool \ {e}
    BY <1>7 DEF EvictOldest
  <2>2. /\ Cardinality(spool) > 1
        /\ UNCHANGED <<up, pPc, pSnap, queued, published, todo, cur>>
    BY <1>7 DEF EvictOldest, OverLimit
  <2>3. InOrder'
    BY <2>1, <2>2, ShrinkKeepsOrder
  <2>4. PICK f \in spool : f # e
    <3>1. Cardinality({e}) = 1
      BY FS_Singleton
    <3>. QED
      BY <2>2, <3>1
  <2>5. e.id # published
    <3>1. e.id <= f.id /\ f.id # e.id
      BY <2>1, <2>4 DEF Oldest, InOrder
    <3>2. f.id \in 1..published /\ e.id \in 1..published
      BY DEF Accounted, Ids
    <3>. QED
      BY <1>b, <3>1, <3>2
  <2>6. NewestStays'
    BY <2>1, <2>2, <2>5 DEF NewestStays
  <2>. QED
    BY <2>3, <2>6
<1>8. CASE Publish
  <2>1. /\ UNCHANGED <<spool, todo, cur, published, up>>
        /\ up /\ pPc = "limit" /\ queued' = pSnap /\ pPc' = "idle"
    BY <1>8 DEF Publish, ProducerIdle
  <2>. QED
    BY <2>1 DEF InOrder, NewestStays
<1>9. CASE ListPending
  <2>1. /\ todo' = spool /\ cur = None
        /\ UNCHANGED <<spool, cur, published, up, pPc, pSnap, queued>>
    BY <1>a, <1>b, <1>9 DEF ListPending, Submitting
  <2>2. InOrder'
    BY <2>1 DEF InOrder
  <2>. QED
    BY <2>1, <2>2, SameKeepsNewest
<1>10. CASE ReadPending
  <2>1. PICK e \in todo \cap spool : Oldest(e, todo) /\ cur' = e /\ todo' = todo \ {e}
    BY <1>10 DEF ReadPending
  <2>2. cur = None /\ UNCHANGED <<spool, published, up, pPc, pSnap, queued>>
    BY <1>b, <1>10 DEF ReadPending, Submitting
  <2>3. \A f \in todo' : e.id < f.id
    <3>. TAKE f \in todo'
    <3>1. f \in todo /\ f # e
      BY <2>1
    <3>2. e.id <= f.id /\ e.id # f.id
      BY <2>1, <3>1 DEF Oldest, InOrder
    <3>. QED
      BY <1>b, <2>1, <3>1, <3>2 DEF Entry
  <2>4. \A g \in spool : g = e \/ e.id < g.id
    BY <1>b, <2>1, <2>2, <2>3 DEF InOrder
  <2>5. \A f \in todo', g \in spool : g \in todo' \cup {e} \/ f.id < g.id
    BY <1>b, <2>1, <2>2 DEF InOrder
  <2>6. /\ \A g \in spool' \cup todo' : g.mtime = g.id
        /\ \A g, f \in spool' \cup todo' : g.id = f.id => g = f
    BY <2>1, <2>2 DEF InOrder
  <2>7. InOrder'
    BY <2>1, <2>2, <2>3, <2>4, <2>5, <2>6 DEF InOrder
  <2>. QED
    BY <2>2, <2>7, SameKeepsNewest
<1>11. CASE QuarantineUnreadable
  BY <1>a, <1>11 DEF QuarantineUnreadable
<1>12. CASE ReadFails
  <2>1. /\ cur' = None /\ todo' = {}
        /\ UNCHANGED <<spool, published, up, pPc, pSnap, queued>>
    BY <1>12 DEF ReadFails, AbandonDrain, NoEntry
  <2>2. InOrder'
    BY <2>1, ShrinkKeepsOrder
  <2>. QED
    BY <2>1, <2>2, SameKeepsNewest
<1>13. CASE DrainDone
  <2>1. UNCHANGED <<spool, todo, cur, published, up, pPc, pSnap, queued>>
    BY <1>13 DEF DrainDone
  <2>2. InOrder'
    BY <2>1, ShrinkKeepsOrder
  <2>. QED
    BY <2>1, <2>2, SameKeepsNewest
<1>14. CASE SendSnapshot
  <2>1. UNCHANGED <<spool, todo, cur, published, up, pPc, pSnap, queued>>
    BY <1>14 DEF SendSnapshot
  <2>2. InOrder'
    BY <2>1, ShrinkKeepsOrder
  <2>. QED
    BY <2>1, <2>2, SameKeepsNewest
<1>15. CASE TokenUnavailable
  <2>1. /\ cur' = None /\ todo' = {}
        /\ UNCHANGED <<spool, published, up, pPc, pSnap, queued>>
    BY <1>15 DEF TokenUnavailable, AbandonDrain, NoEntry
  <2>2. InOrder'
    BY <2>1, ShrinkKeepsOrder
  <2>. QED
    BY <2>1, <2>2, SameKeepsNewest
<1>16. CASE Acknowledged
  <2>1. UNCHANGED <<spool, todo, cur, published, up, pPc, pSnap, queued>>
    BY <1>16 DEF Acknowledged
  <2>2. InOrder'
    BY <2>1, ShrinkKeepsOrder
  <2>. QED
    BY <2>1, <2>2, SameKeepsNewest
<1>17. CASE Unauthorized
  <2>1. UNCHANGED <<spool, todo, cur, published, up, pPc, pSnap, queued>>
    BY <1>17 DEF Unauthorized
  <2>2. InOrder'
    BY <2>1, ShrinkKeepsOrder
  <2>. QED
    BY <2>1, <2>2, SameKeepsNewest
<1>18. CASE Refused
  <2>1. /\ spool' = spool \ {cur} /\ cur # None
        /\ cur' = cur \/ cur' = None
        /\ UNCHANGED <<todo, published, up, pPc, pSnap, queued>>
    BY <1>a, <1>b, <1>18 DEF Refused, NoEntry, Submitting
  <2>2. InOrder'
    BY <2>1, ShrinkKeepsOrder
  <2>. QED
    BY <2>1, <2>2, DeleteCurKeepsNewest
<1>19. CASE TransientFailure
  <2>1. UNCHANGED <<spool, todo, cur, published, up, pPc, pSnap, queued>>
    BY <1>19 DEF TransientFailure
  <2>2. InOrder'
    BY <2>1, ShrinkKeepsOrder
  <2>. QED
    BY <2>1, <2>2, SameKeepsNewest
<1>20. CASE BackoffElapsed
  <2>1. UNCHANGED <<spool, todo, cur, published, up, pPc, pSnap, queued>>
    BY <1>20 DEF BackoffElapsed
  <2>2. InOrder'
    BY <2>1, ShrinkKeepsOrder
  <2>. QED
    BY <2>1, <2>2, SameKeepsNewest
<1>21. CASE GiveUp
  <2>1. /\ cur' = None /\ todo' = {}
        /\ UNCHANGED <<spool, published, up, pPc, pSnap, queued>>
    BY <1>21 DEF GiveUp, AbandonDrain, NoEntry
  <2>2. InOrder'
    BY <2>1, ShrinkKeepsOrder
  <2>. QED
    BY <2>1, <2>2, SameKeepsNewest
<1>22. CASE RemoveAccepted
  <2>1. /\ spool' = spool \ {cur} /\ cur # None
        /\ cur' = cur \/ cur' = None
        /\ UNCHANGED <<todo, published, up, pPc, pSnap, queued>>
    BY <1>b, <1>22 DEF RemoveAccepted, Submitting
  <2>2. InOrder'
    BY <2>1, ShrinkKeepsOrder
  <2>. QED
    BY <2>1, <2>2, DeleteCurKeepsNewest
<1>23. CASE RemoveFails
  BY <1>a, <1>23 DEF RemoveFails
<1>24. CASE StoreAccepted
  <2>1. UNCHANGED <<spool, todo, cur, published, up, pPc, pSnap, queued>>
    BY <1>24 DEF StoreAccepted
  <2>2. InOrder'
    BY <2>1, ShrinkKeepsOrder
  <2>. QED
    BY <2>1, <2>2, SameKeepsNewest
<1>25. CASE RememberAccepted
  <2>1. /\ cur # None /\ cur' = None /\ cur \notin spool
        /\ UNCHANGED <<spool, todo, published, up, pPc, pSnap, queued>>
    BY <1>b, <1>25 DEF RememberAccepted, NoEntry, Submitting
  <2>2. InOrder'
    BY <2>1, ShrinkKeepsOrder
  <2>. QED
    BY <2>1, <2>2, SameKeepsNewest
<1>26. CASE ClearQueued
  <2>1. /\ UNCHANGED <<spool, todo, cur, published, up, pPc, pSnap>>
        /\ spool # {} => UNCHANGED queued
    BY <1>26 DEF ClearQueued
  <2>. QED
    BY <2>1 DEF InOrder, NewestStays
<1>27. CASE Rest
  <2>1. UNCHANGED <<spool, todo, cur, published, up, pPc, pSnap, queued>>
    BY <1>27 DEF Rest
  <2>2. InOrder'
    BY <2>1, ShrinkKeepsOrder
  <2>. QED
    BY <2>1, <2>2, SameKeepsNewest
<1>28. CASE Wake
  <2>1. UNCHANGED <<spool, todo, cur, published, up, pPc, pSnap, queued>>
    BY <1>28 DEF Wake
  <2>2. InOrder'
    BY <2>1, ShrinkKeepsOrder
  <2>. QED
    BY <2>1, <2>2, SameKeepsNewest
<1>29. CASE RetryTimer
  <2>1. UNCHANGED <<spool, todo, cur, published, up, pPc, pSnap, queued>>
    BY <1>29 DEF RetryTimer
  <2>2. InOrder'
    BY <2>1, ShrinkKeepsOrder
  <2>. QED
    BY <2>1, <2>2, SameKeepsNewest
<1>30. CASE Crash
  <2>1. /\ cur' = None /\ todo' = {} /\ ~up'
        /\ UNCHANGED <<spool, published>>
    BY <1>30 DEF Crash, NoEntry
  <2>2. InOrder'
    BY <2>1, ShrinkKeepsOrder
  <2>. QED
    BY <2>1, <2>2, SameKeepsNewest
<1>31. CASE Boot
  <2>1. PICK e \in spool \cup {None} :
          /\ IF e = None THEN spool = {} ELSE Newest(e, spool)
          /\ queued' = IF e = None THEN None ELSE e.digest
          /\ spool' = spool
    BY <1>a, <1>31 DEF Boot, LoadQueued
  <2>2. UNCHANGED <<todo, cur, published, pPc>> /\ pPc # "limit"
    BY <1>31 DEF Boot
  <2>3. InOrder'
    BY <2>1, <2>2 DEF InOrder
  <2>4. CASE spool = {}
    BY <2>1, <2>3, <2>4 DEF NewestStays
  <2>5. CASE spool # {}
    <3>1. PICK g \in spool : g.id = published
      BY <2>5 DEF NewestStays
    <3>2. e \in spool /\ g.mtime <= e.mtime
      BY <1>b, <2>1, <2>5, <3>1 DEF Newest
    <3>3. e.id \in 1..published /\ e.mtime = e.id /\ g.mtime = g.id
      BY <3>1, <3>2 DEF Accounted, Ids, InOrder
    <3>4. e.id = published
      BY <1>b, <3>1, <3>2, <3>3
    <3>5. queued' = e.digest
      BY <1>b, <2>1, <3>2
    <3>. QED
      BY <2>1, <2>2, <2>3, <3>2, <3>4, <3>5 DEF NewestStays
  <2>. QED
    BY <2>4, <2>5
<1>32. CASE Expire
  <2>1. UNCHANGED <<spool, todo, cur, published, up, pPc, pSnap, queued>>
    BY <1>32 DEF Expire
  <2>2. InOrder'
    BY <2>1, ShrinkKeepsOrder
  <2>. QED
    BY <2>1, <2>2, SameKeepsNewest
<1>33. CASE HostChange
  <2>1. UNCHANGED <<spool, todo, cur, published, up, pPc, pSnap, queued>>
    BY <1>33 DEF HostChange
  <2>2. InOrder'
    BY <2>1, ShrinkKeepsOrder
  <2>. QED
    BY <2>1, <2>2, SameKeepsNewest
<1>34. ASSUME NEW r \in net, ServerApply(r) PROVE InOrder' /\ NewestStays'
  <2>1. UNCHANGED <<spool, todo, cur, published, up, pPc, pSnap, queued>>
    BY <1>34 DEF ServerApply
  <2>2. InOrder'
    BY <2>1, ShrinkKeepsOrder
  <2>. QED
    BY <2>1, <2>2, SameKeepsNewest
<1>35. CASE UNCHANGED vars
  <2>1. UNCHANGED <<spool, todo, cur, published, up, pPc, pSnap, queued>>
    BY <1>35 DEF vars
  <2>2. InOrder'
    BY <2>1, ShrinkKeepsOrder
  <2>. QED
    BY <2>1, <2>2, SameKeepsNewest
<1>. QED
  BY <1>1, <1>2, <1>3, <1>4, <1>5, <1>6, <1>7, <1>8, <1>9, <1>10, <1>11,
     <1>12, <1>13, <1>14, <1>15, <1>16, <1>17, <1>18, <1>19, <1>20, <1>21,
     <1>22, <1>23, <1>24, <1>25, <1>26, <1>27, <1>28, <1>29, <1>30, <1>31,
     <1>32, <1>33, <1>34, <1>35 DEF Next, Producer, Worker, Environment

\* While the agent is down no publication is half done, and an entry that was
\* acknowledged stays deleted.
LEMMA PcStep ==
  ASSUME Orderly
  PROVE  TypeOK /\ CustodyInv /\ OrderInv /\ [Next]_vars
            => /\ (~up => pPc # "limit")'
               /\ (wPc \in {"store", "remember"} => cur \notin spool)'
<1>. SUFFICES ASSUME TypeOK, WorkKnown, [Next]_vars,
                     ~up => pPc # "limit",
                     wPc \in {"store", "remember"} => cur \notin spool
              PROVE  /\ ~up' => pPc' # "limit"
                     /\ wPc' \in {"store", "remember"} => cur' \notin spool'
  BY DEF CustodyInv, OrderInv
<1>. USE ConstantsOK, NoneIsNoEntry DEF producerVars,
       submitVars, workerVars, serverVars, boundVars, memoryVars, fileVars,
       workerOnly, ProducerRuns, WorkerRuns
<1>1. CASE Collect
  BY <1>1 DEF Collect
<1>2. CASE CheckDue
  BY <1>2 DEF CheckDue
<1>3. CASE Suppress
  BY <1>3 DEF Suppress, ProducerIdle
<1>4. CASE WriteFails
  BY <1>4 DEF WriteFails, ProducerIdle
<1>5. CASE EvictOldest
  BY <1>5 DEF EvictOldest
<1>6. CASE Publish
  BY <1>6 DEF Publish, ProducerIdle
<1>7. CASE ListPending
  BY <1>7 DEF ListPending
<1>8. CASE ReadPending
  BY <1>8 DEF ReadPending
<1>9. CASE QuarantineUnreadable
  BY <1>9 DEF QuarantineUnreadable, AbandonDrain, NoEntry
<1>10. CASE ReadFails
  BY <1>10 DEF ReadFails, AbandonDrain, NoEntry
<1>11. CASE DrainDone
  BY <1>11 DEF DrainDone
<1>12. CASE SendSnapshot
  BY <1>12 DEF SendSnapshot
<1>13. CASE TokenUnavailable
  BY <1>13 DEF TokenUnavailable, AbandonDrain, NoEntry
<1>14. CASE Acknowledged
  BY <1>14 DEF Acknowledged
<1>15. CASE Unauthorized
  BY <1>15 DEF Unauthorized
<1>16. CASE Refused
  BY <1>16 DEF Refused, AbandonDrain, NoEntry
<1>17. CASE TransientFailure
  BY <1>17 DEF TransientFailure
<1>18. CASE BackoffElapsed
  BY <1>18 DEF BackoffElapsed
<1>19. CASE GiveUp
  BY <1>19 DEF GiveUp, AbandonDrain, NoEntry
<1>20. CASE RemoveAccepted
  BY <1>20 DEF RemoveAccepted
<1>21. CASE RemoveFails
  BY <1>21 DEF RemoveFails, AbandonDrain, NoEntry
<1>22. CASE StoreAccepted
  BY <1>22 DEF StoreAccepted
<1>23. CASE RememberAccepted
  BY <1>23 DEF RememberAccepted
<1>24. CASE ClearQueued
  BY <1>24 DEF ClearQueued
<1>25. CASE Rest
  BY <1>25 DEF Rest
<1>26. CASE Wake
  BY <1>26 DEF Wake
<1>27. CASE RetryTimer
  BY <1>27 DEF RetryTimer
<1>28. CASE Crash
  BY <1>28 DEF Crash, ProducerIdle, NoEntry
<1>29. CASE Boot
  BY <1>29 DEF Boot, LoadQueued
<1>30. CASE Expire
  BY <1>30 DEF Expire
<1>31. CASE HostChange
  BY <1>31 DEF HostChange
<1>32. CASE WriteEntry
  <2>1. PICK t : spool' = spool \cup {[id |-> published + 1, digest |-> pSnap, mtime |-> t]}
    BY <1>32 DEF WriteEntry, AddEntry
  <2>2. up' /\ UNCHANGED <<wPc, cur>>
    BY <1>32 DEF WriteEntry
  <2>3. published \in Nat /\ (cur # None => cur.id \in 1..published)
    BY DEF TypeOK, DataOK, WorkKnown
  <2>4. wPc \in {"store", "remember"} => cur # None
    BY DEF TypeOK, DataOK, Submitting
  <2>5. cur # None => cur # [id |-> published + 1, digest |-> pSnap, mtime |-> t]
    BY <2>3
  <2>. QED
    BY <2>1, <2>2, <2>4, <2>5
<1>33. CASE WriteUnsynced
  <2>1. PICK t : spool' = spool \cup {[id |-> published + 1, digest |-> pSnap, mtime |-> t]}
    BY <1>33 DEF WriteUnsynced, AddEntry
  <2>2. up' /\ UNCHANGED <<wPc, cur>>
    BY <1>33 DEF WriteUnsynced
  <2>3. published \in Nat /\ (cur # None => cur.id \in 1..published)
    BY DEF TypeOK, DataOK, WorkKnown
  <2>4. wPc \in {"store", "remember"} => cur # None
    BY DEF TypeOK, DataOK, Submitting
  <2>5. cur # None => cur # [id |-> published + 1, digest |-> pSnap, mtime |-> t]
    BY <2>3
  <2>. QED
    BY <2>1, <2>2, <2>4, <2>5
<1>34. ASSUME NEW r \in net, ServerApply(r)
      PROVE  /\ ~up' => pPc' # "limit"
             /\ wPc' \in {"store", "remember"} => cur' \notin spool'
  BY <1>34 DEF ServerApply
<1>35. CASE UNCHANGED vars
  BY <1>35 DEF vars
<1>. QED
  BY <1>1, <1>2, <1>3, <1>4, <1>5, <1>6, <1>7, <1>8, <1>9, <1>10, <1>11,
     <1>12, <1>13, <1>14, <1>15, <1>16, <1>17, <1>18, <1>19, <1>20, <1>21,
     <1>22, <1>23, <1>24, <1>25, <1>26, <1>27, <1>28, <1>29, <1>30, <1>31,
     <1>32, <1>33, <1>34, <1>35 DEF Next, Producer, Worker, Environment

\* The order of the spool holds in every reachable state.
LEMMA OrderInvariant ==
  ASSUME Orderly
  PROVE  Spec => [](TypeOK /\ CustodyInv /\ OrderInv)
<1>1. TypeOK /\ CustodyInv /\ [Next]_vars => CustodyInv'
  BY CustodyStep
<1>2. TypeOK /\ CustodyInv /\ OrderInv /\ [Next]_vars => OrderInv'
  BY OrderStep, PcStep DEF OrderInv
<1>. QED
  BY <1>1, <1>2, OrderInit, CustodyInit, TypeCorrect, PTL DEF Spec

\* The digest enqueue_if_needed compares a new snapshot with is the one of the
\* newest pending snapshot, whatever is evicted, refused, lost or restarted.
THEOREM QueuedDigestIsNewest ==
  ASSUME Orderly
  PROVE  Spec => []QueuedIsNewest
<1>1. TypeOK /\ CustodyInv /\ OrderInv => QueuedIsNewest
  <2>. SUFFICES ASSUME TypeOK, Accounted, InOrder, NewestStays,
                       up, pPc # "limit", spool # {}
                PROVE  \E e \in spool : Newest(e, spool) /\ queued = e.digest
    BY DEF CustodyInv, OrderInv, QueuedIsNewest
  <2>1. PICK e \in spool : e.id = published /\ e.digest = queued
    BY DEF NewestStays
  <2>2. \A f \in spool : f.id \in 1..published /\ f.mtime = f.id
    BY DEF Accounted, Ids, InOrder
  <2>3. published \in Nat
    BY DEF TypeOK, DataOK
  <2>4. Newest(e, spool)
    BY <2>1, <2>2, <2>3 DEF Newest
  <2>. QED
    BY <2>1, <2>4
<1>. QED
  BY <1>1, OrderInvariant, PTL

\* A step evicts only what has a newer entry beside it: every other step leaves
\* the evicted identities alone.
LEMMA EvictionStep ==
  ASSUME Orderly, TypeOK, CustodyInv, OrderInv, NewestRetained, [Next]_vars
  PROVE  NewestRetained'
<1>. USE DEF NewestRetained, fileVars, memoryVars, producerVars, submitVars,
       workerVars, serverVars, boundVars, workerOnly
<1>1. published \in Nat /\ evicted \subseteq 1..published
  BY DEF TypeOK, DataOK, CustodyInv, Accounted
<1>2. CASE EvictOldest
  <2>1. PICK e \in spool : Oldest(e, spool) /\ evicted' = evicted \cup {e.id}
    BY <1>2 DEF EvictOldest
  <2>2. PICK f \in spool : f # e
    <3>1. Cardinality(spool) > 1
      BY <1>2 DEF EvictOldest, OverLimit
    <3>2. Cardinality({e}) = 1
      BY FS_Singleton
    <3>. QED
      BY <3>1, <3>2
  <2>3. e.id \in 1..published /\ f.id \in 1..published
    BY DEF CustodyInv, Accounted, Ids
  <2>4. e.id < f.id
    <3>1. e.mtime = e.id /\ f.mtime = f.id /\ e.id # f.id
      BY <2>2 DEF OrderInv, InOrder
    <3>. QED
      BY <2>1, <2>3, <3>1 DEF Oldest
  <2>5. published' = published
    BY <1>2 DEF EvictOldest
  <2>. QED
    BY <1>1, <2>1, <2>3, <2>4, <2>5
<1>3. CASE AddEntry /\ UNCHANGED evicted
  BY <1>1, <1>3 DEF AddEntry
<1>4. CASE UNCHANGED <<published, evicted>>
  BY <1>4
<1>5. EvictOldest \/ (AddEntry /\ UNCHANGED evicted)
        \/ UNCHANGED <<published, evicted>>
  <2>1. CASE Producer
    BY <2>1 DEF Producer, Collect, CheckDue, Suppress, WriteFails,
       WriteUnsynced, WriteEntry, Publish
  <2>2. CASE Worker
    BY <2>2 DEF Worker, ListPending, ReadPending, QuarantineUnreadable,
       ReadFails, DrainDone, SendSnapshot, TokenUnavailable, Acknowledged,
       Unauthorized, Refused, TransientFailure, BackoffElapsed, GiveUp,
       RemoveAccepted, RemoveFails, StoreAccepted, RememberAccepted,
       ClearQueued, Rest, Wake, RetryTimer
  <2>3. CASE Environment
    BY <2>3 DEF Environment, Crash, Boot, Expire, HostChange, ServerApply
  <2>4. CASE UNCHANGED vars
    BY <2>4 DEF vars
  <2>. QED
    BY <2>1, <2>2, <2>3, <2>4 DEF Next
<1>. QED
  BY <1>2, <1>3, <1>4, <1>5

\* enforce_limit never deletes the newest published snapshot, for any limit and
\* any sizes, as long as the clock does not step back.
THEOREM NewestIsRetained ==
  ASSUME Orderly
  PROVE  Spec => []NewestRetained
<1>1. Init => NewestRetained
  BY DEF Init, NewestRetained
<1>2. TypeOK /\ CustodyInv /\ OrderInv /\ NewestRetained /\ [Next]_vars
        => NewestRetained'
  BY EvictionStep
<1>. QED
  BY <1>1, <1>2, OrderInvariant, PTL DEF Spec

-----------------------------------------------------------------------------
(* The server and the baseline.  As long as nothing is evicted or put       *)
(* aside, snapshots leave the spool in the order of their publication, and  *)
(* only after the server has them.                                          *)

Stored == wPc \in {"store", "remember"}

\* The server has everything older than what it has or is being sent, and what
\* is in force there is the newest it has.
ServerOK ==
  NothingDropped =>
    /\ \A i \in applied \cup Ids(net), j \in 1..published : j < i => j \in applied
    /\ applied # {} => effective # None
    /\ effective # None => \A i \in applied : i <= effective.id

\* What has left the spool is older than what is there, and the entry being
\* handled is the next to leave or the last that left.
LeavesInOrder ==
  NothingDropped =>
    /\ \A i \in Discharged, e \in spool : i < e.id
    /\ cur # None /\ ~Stored => cur \in spool
    /\ Stored => \A i \in Discharged : i <= cur.id

\* A request carries what was published, and the server has what it put in
\* force.
SameEntry ==
  /\ effective # None => effective.id \in applied
  /\ \A e \in spool \cup todo \cup {cur}, f \in net \cup {effective} :
       e # None /\ f # None /\ e.id = f.id => e = f

\* Without a crash, the last acceptance remembered is that of the last entry
\* that left the spool.
BaselineOK ==
  crashes = 0 =>
    /\ up
    /\ NothingDropped =>
         /\ lastAccepted # None => effective # None
         /\ ~Stored /\ effective # None /\ effective.id \in Discharged
              => lastAccepted.digest = effective.digest

ServedInv == ServerOK /\ LeavesInOrder /\ SameEntry /\ BaselineOK

\* The kinds of steps.
Ledger == <<spool, quarantine, evicted, published>>

\* Both halves proceed, the host changes, a refresh falls due.
Proceeds ==
  /\ UNCHANGED <<Ledger, serverVars, crashes, up>>
  /\ \/ lastAccepted' = lastAccepted
     \/ lastAccepted # None /\ lastAccepted'.digest = lastAccepted.digest
  /\ \/ UNCHANGED <<cur, todo, Stored>>
     \/ ~Stored /\ ~Stored' /\ todo' \subseteq todo \cup spool /\ cur' \in {cur, None} \cup spool

\* A snapshot is published.
Admits ==
  /\ published' = published + 1
  /\ \E e \in Entry : e.id = published + 1 /\ spool' = spool \cup {e}
  /\ UNCHANGED <<quarantine, evicted, serverVars, lastAccepted, crashes, up, cur, todo, wPc>>

\* A snapshot is evicted or put aside.
Drops ==
  /\ evicted' \cup quarantine' # {}
  /\ spool' \subseteq spool /\ todo' \subseteq todo /\ cur' \in {cur, None}
  /\ UNCHANGED <<published, serverVars, crashes, up>>

\* A request leaves.
Posts ==
  /\ ~Stored /\ ~Stored' /\ cur # None /\ net' = net \cup {cur}
  /\ UNCHANGED <<Ledger, applied, effective, lastAccepted, crashes, up, cur, todo>>

\* An accepted snapshot leaves the spool.
Removes ==
  /\ ~Stored /\ Stored' /\ cur # None /\ spool' = spool \ {cur}
  /\ UNCHANGED <<quarantine, evicted, published, serverVars, lastAccepted, crashes, up, cur, todo>>

\* Its acceptance is remembered.
Remembers ==
  /\ Stored /\ ~Stored' /\ cur # None /\ cur' = None
  /\ lastAccepted' = [digest |-> cur.digest, expired |-> FALSE]
  /\ UNCHANGED <<Ledger, serverVars, crashes, up, todo>>

Dies ==
  /\ crashes' # 0 /\ ~Stored' /\ cur' = None /\ todo' = {}
  /\ UNCHANGED <<Ledger, serverVars>>

Returns == ~up /\ UNCHANGED <<Ledger, serverVars, crashes, cur, todo, wPc>>

\* Every step is of one of these kinds, or the server processes a request.
LEMMA StepKinds ==
  ASSUME Orderly, TypeOK, [Next]_vars
  PROVE  \/ Proceeds \/ Admits \/ Drops \/ Posts \/ Removes \/ Remembers \/ Dies \/ Returns
         \/ \E r \in net : ServerApply(r)
<1>. USE DEF Orderly, producerVars, submitVars, workerVars, serverVars, boundVars, memoryVars,
       fileVars, workerOnly, Ledger, Stored
<1>0. /\ spool \subseteq Entry /\ published \in Nat /\ crashes \in Nat
      /\ (cur = None <=> wPc \notin Submitting) /\ (pSnap = None <=> pPc = "idle")
      /\ pSnap \in Digests \cup {None}
      /\ lastAccepted \in [digest : Digests, expired : BOOLEAN] \cup {None}
  BY DEF TypeOK, DataOK
<1>1. Collect \/ CheckDue \/ Suppress \/ WriteFails \/ Publish => Proceeds
  BY DEF Collect, CheckDue, Suppress, WriteFails, Publish, Proceeds
<1>2. WriteEntry \/ WriteUnsynced => Admits
  <2>. SUFFICES ASSUME WriteEntry PROVE Admits
    BY DEF WriteUnsynced
  <2>1. PICK t \in WriteTimes :
          spool' = spool \cup {[id |-> published + 1, digest |-> pSnap, mtime |-> t]}
    BY DEF WriteEntry, AddEntry
  <2>2. t \in Nat /\ pSnap \in Digests
    BY <1>0 DEF WriteEntry, WriteTimes
  <2>3. [id |-> published + 1, digest |-> pSnap, mtime |-> t] \in Entry
    BY <1>0, <2>2 DEF Entry
  <2>. QED
    BY <2>1, <2>3 DEF WriteEntry, AddEntry, Admits
<1>3. EvictOldest => Drops
  BY DEF EvictOldest, Drops
<1>4. ListPending \/ ReadPending \/ ReadFails \/ DrainDone \/ TokenUnavailable => Proceeds
  BY DEF ListPending, ReadPending, ReadFails, DrainDone, TokenUnavailable, AbandonDrain,
     NoEntry,
     Proceeds
<1>5. Acknowledged \/ Unauthorized \/ TransientFailure \/ BackoffElapsed \/ GiveUp \/ RemoveFails
        => Proceeds
  BY DEF Acknowledged, Unauthorized, TransientFailure, BackoffElapsed, GiveUp, RemoveFails,
     AbandonDrain, NoEntry, Proceeds
<1>6. StoreAccepted \/ ClearQueued \/ Rest \/ Wake \/ RetryTimer => Proceeds
  BY DEF StoreAccepted, ClearQueued, Rest, Wake, RetryTimer, Proceeds
<1>7. ~QuarantineUnreadable
  BY DEF QuarantineUnreadable
<1>8. Refused => Drops \/ Proceeds
  <2>1. ASSUME Refused PROVE /\ cur' = None /\ todo' \subseteq todo /\ ~Stored /\ ~Stored'
                             /\ spool' = spool \ {cur}
                             /\ quarantine' = quarantine \cup Ids({cur} \cap spool)
                             /\ UNCHANGED <<published, evicted, serverVars, crashes, up, lastAccepted>>
    BY <2>1 DEF Refused, AbandonDrain, NoEntry
  <2>2. CASE cur \in spool
    <3>1. Ids({cur} \cap spool) # {}
      BY <2>2 DEF Ids
    <3>. QED
      BY <2>1, <3>1 DEF Drops
  <2>3. CASE cur \notin spool
    <3>1. Ids({cur} \cap spool) = {} /\ spool \ {cur} = spool
      BY <2>3 DEF Ids
    <3>. QED
      BY <2>1, <3>1 DEF Proceeds
  <2>. QED
    BY <2>2, <2>3
<1>9. SendSnapshot => Posts
  BY <1>0 DEF SendSnapshot, Posts, Submitting
<1>10. RemoveAccepted => Removes
  BY <1>0 DEF RemoveAccepted, Removes, Submitting
<1>11. RememberAccepted => Remembers
  BY <1>0 DEF RememberAccepted, Remembers, NoEntry, Submitting
<1>12. Crash => Dies
  BY <1>0 DEF Crash, Dies, NoEntry
<1>13. Boot => Returns
  <2>1. ASSUME Boot PROVE UNCHANGED <<spool, quarantine>>
    <3>1. PICK S \in SUBSET {} : spool' = spool \ S /\ quarantine' = quarantine \cup Ids(S)
      BY <2>1 DEF Boot, LoadQueued
    <3>2. S = {} /\ Ids({}) = {}
      BY DEF Ids
    <3>. QED
      BY <3>1, <3>2
  <2>. QED
    BY <2>1 DEF Boot, Returns
<1>14. Expire => Proceeds
  BY <1>0 DEF Expire, Proceeds
<1>15. HostChange \/ UNCHANGED vars => Proceeds
  BY DEF HostChange, vars, Proceeds
<1>. QED
  BY <1>1, <1>2, <1>3, <1>4, <1>5, <1>6, <1>7, <1>8, <1>9, <1>10, <1>11, <1>12, <1>13, <1>14,
     <1>15 DEF Next, Producer, Worker, Environment

-----------------------------------------------------------------------------
\* Nothing is published, nothing is in force.
LEMMA ServedInit == Init => ServedInv
BY DEF Init, ServedInv, ServerOK, LeavesInOrder, SameEntry, BaselineOK, Stored, Discharged, Ids

\* Identities are numbers in the range published, and what is not in the spool
\* was dropped or left it.
LEMMA ServedFacts ==
  ASSUME TypeOK, CustodyInv
  PROVE  /\ published \in Nat /\ applied \subseteq 1..published /\ 1..published \subseteq Nat
         /\ Ids(spool) \subseteq 1..published /\ Ids(net) \subseteq 1..published
         /\ Discharged \subseteq applied
         /\ spool \subseteq Entry /\ net \subseteq Entry /\ None \notin Entry
         /\ cur \in Entry \cup {None} /\ effective \in Entry \cup {None}
         /\ cur # None => cur.id \in 1..published
BY NoneIsNoEntry DEF TypeOK, DataOK, CustodyInv, Accounted, WorkKnown, NoSilentLoss, Ids

\* Nothing is dropped later that was not dropped before.
LEMMA DropsStay ==
  ASSUME Orderly, TypeOK, [Next]_vars, NothingDropped'
  PROVE  NothingDropped /\ ~Drops
<1>1. ASSUME NEW r \in net, ServerApply(r) PROVE UNCHANGED <<evicted, quarantine>>
  BY <1>1 DEF ServerApply, fileVars
<1>2. ~Drops
  BY DEF Drops, NothingDropped
<1>. QED
  BY <1>1, <1>2, StepKinds DEF NothingDropped, Proceeds, Admits, Posts, Removes, Remembers,
     Dies,
     Returns, Ledger

\* The server processes requests in the order of their publication, or
\* processes them again.
LEMMA ServerStep ==
  ASSUME Orderly, TypeOK, CustodyInv, OrderInv, ServedInv, [Next]_vars
  PROVE  ServerOK'
<1>. SUFFICES ASSUME NothingDropped'
              PROVE  /\ \A i \in applied' \cup Ids(net'), j \in 1..published' :
                          j < i => j \in applied'
                     /\ applied' # {} => effective' # None
                     /\ effective' # None => \A i \in applied' : i <= effective'.id
  BY DEF ServerOK
<1>0. /\ NothingDropped /\ ~Drops
      /\ \A i \in applied \cup Ids(net), j \in 1..published : j < i => j \in applied
      /\ applied # {} => effective # None
      /\ effective # None => \A i \in applied : i <= effective.id
  BY DropsStay DEF ServedInv, ServerOK
<1>. USE DEF serverVars, Ledger
<1>1. CASE Proceeds \/ Remembers \/ Dies \/ Returns \/ Removes
  <2>1. UNCHANGED <<serverVars, published>>
    BY <1>1 DEF Proceeds, Remembers, Dies, Returns, Removes
  <2>. QED
    BY <1>0, <2>1
<1>2. CASE Admits
  <2>1. UNCHANGED serverVars /\ published' = published + 1
    BY <1>2 DEF Admits
  <2>2. \A i \in applied \cup Ids(net), j \in 1..published' : j < i => j \in 1..published
    BY <2>1, ServedFacts
  <2>. QED
    BY <1>0, <2>1, <2>2
<1>3. CASE Posts
  <2>1. /\ net' = net \cup {cur} /\ UNCHANGED <<applied, effective, published>>
        /\ cur # None /\ ~Stored
    BY <1>3 DEF Posts
  <2>2. Ids(net') = Ids(net) \cup {cur.id}
    BY <2>1 DEF Ids
  <2>3. ASSUME NEW j \in 1..published, j < cur.id PROVE j \in applied
    <3>1. \A e \in spool : e = cur \/ cur.id < e.id
      BY <2>1 DEF OrderInv, InOrder
    <3>2. j \in Nat /\ cur.id \in Nat /\ \A e \in spool : e.id \in Nat
      BY <2>1, ServedFacts DEF Ids
    <3>3. j \notin Ids(spool)
      BY <2>3, <3>1, <3>2 DEF Ids
    <3>4. j \in Discharged
      BY <1>0, <3>3 DEF Discharged, NothingDropped
    <3>. QED
      BY <3>4, ServedFacts
  <2>. QED
    BY <1>0, <2>1, <2>2, <2>3
<1>4. ASSUME NEW r \in net, ServerApply(r)
      PROVE  /\ \A i \in applied' \cup Ids(net'), j \in 1..published' :
                  j < i => j \in applied'
             /\ applied' # {} => effective' # None
             /\ effective' # None => \A i \in applied' : i <= effective'.id
  <2>1. /\ applied' = applied \cup {r.id} /\ published' = published /\ net' \subseteq net
        /\ effective' = IF r.id \in applied THEN effective ELSE r
    BY <1>4 DEF ServerApply, Repeated
  <2>2. Ids(net') \subseteq Ids(net) /\ r.id \in Ids(net) /\ r \in Entry /\ r # None
    BY <2>1, ServedFacts DEF Ids
  <2>3. ASSUME r.id \notin applied, NEW i \in applied PROVE i <= r.id
    <3>1. i \in Nat /\ r.id \in Nat /\ r.id \in 1..published
      BY <2>2, ServedFacts
    <3>2. ~(r.id < i)
      BY <1>0, <2>3, <3>1
    <3>. QED
      BY <3>1, <3>2
  <2>4. CASE r.id \in applied
    BY <1>0, <2>1, <2>2, <2>4
  <2>5. CASE r.id \notin applied
    <3>1. r.id \in Nat
      BY <2>2, ServedFacts
    <3>2. r.id <= r.id
      BY <3>1
    <3>. QED
      BY <1>0, <2>1, <2>2, <2>3, <2>5, <3>2
  <2>. QED
    BY <2>4, <2>5
<1>. QED
  BY <1>0, <1>1, <1>2, <1>3, <1>4, StepKinds

\* Only the oldest entry of the spool leaves it.
LEMMA LeavesStep ==
  ASSUME Orderly, TypeOK, CustodyInv, CustodyInv', OrderInv, ServedInv, [Next]_vars
  PROVE  LeavesInOrder'
<1>. SUFFICES ASSUME NothingDropped'
              PROVE  /\ \A i \in Discharged', e \in spool' : i < e.id
                     /\ cur' # None /\ ~Stored' => cur' \in spool'
                     /\ Stored' => \A i \in Discharged' : i <= cur'.id
  BY DEF LeavesInOrder
<1>0. /\ NothingDropped /\ ~Drops
      /\ \A i \in Discharged, e \in spool : i < e.id
      /\ cur # None /\ ~Stored => cur \in spool
      /\ Stored => \A i \in Discharged : i <= cur.id
  BY DropsStay DEF ServedInv, LeavesInOrder
<1>. USE DEF serverVars, Ledger
<1>1. ASSUME UNCHANGED Ledger PROVE Discharged' = Discharged
  BY <1>1 DEF Discharged, Ids
<1>2. CASE Proceeds
  BY <1>0, <1>1, <1>2 DEF Proceeds
<1>3. CASE Posts
  BY <1>0, <1>1, <1>3 DEF Posts
<1>4. CASE Remembers
  BY <1>0, <1>1, <1>4 DEF Remembers
<1>5. CASE Dies
  BY <1>0, <1>1, <1>5 DEF Dies
<1>6. CASE Returns
  BY <1>0, <1>1, <1>6 DEF Returns, Stored
<1>7. ASSUME NEW r \in net, ServerApply(r) PROVE UNCHANGED <<Ledger, cur, wPc>>
  BY <1>7 DEF ServerApply, fileVars, workerVars, submitVars
<1>8. CASE Admits
  <2>1. PICK e \in Entry : e.id = published + 1 /\ spool' = spool \cup {e}
    BY <1>8 DEF Admits
  <2>2. /\ published' = published + 1
        /\ UNCHANGED <<quarantine, evicted, cur, Stored>>
    BY <1>8 DEF Admits, Stored
  <2>3. Ids(spool') = Ids(spool) \cup {published + 1}
    BY <2>1 DEF Ids
  <2>4. 1..published' = (1..published) \cup {published + 1} /\ published + 1 \notin 1..published
    BY <2>2, ServedFacts
  <2>5. Discharged' = Discharged
    BY <2>2, <2>3, <2>4 DEF Discharged
  <2>6. \A i \in Discharged : i < e.id
    BY <2>1, ServedFacts
  <2>. QED
    BY <1>0, <2>1, <2>2, <2>5, <2>6
<1>9. CASE Removes
  <2>1. /\ spool' = spool \ {cur} /\ cur # None /\ ~Stored /\ Stored'
        /\ UNCHANGED <<quarantine, evicted, published, cur>>
    BY <1>9 DEF Removes
  <2>2. cur \in spool /\ cur.id \in Nat
    BY <1>0, <2>1, ServedFacts
  <2>3. \A i \in Discharged' : i \in Discharged \/ i = cur.id
    BY <2>1 DEF Discharged, Ids
  <2>4. \A e \in spool' : cur.id < e.id
    BY <2>1 DEF OrderInv, InOrder
  <2>5. \A i \in Discharged : i < cur.id /\ i \in Nat
    BY <1>0, <2>2, ServedFacts
  <2>. QED
    BY <2>1, <2>2, <2>3, <2>4, <2>5, <1>0
<1>10. CASE \E r \in net : ServerApply(r)
  BY <1>0, <1>1, <1>7, <1>10 DEF Stored
<1>. QED
  BY <1>0, <1>2, <1>3, <1>4, <1>5, <1>6, <1>8, <1>9, <1>10, StepKinds

\* Requests are sent from the spool, and an identity is never used twice.
LEMMA SameStep ==
  ASSUME Orderly, TypeOK, CustodyInv, OrderInv, ServedInv, [Next]_vars
  PROVE  SameEntry'
<1>0. /\ effective # None => effective.id \in applied
      /\ \A e \in spool \cup todo \cup {cur}, f \in net \cup {effective} :
           e # None /\ f # None /\ e.id = f.id => e = f
  BY DEF ServedInv, SameEntry
<1>. USE DEF serverVars, Ledger
<1>1. ASSUME UNCHANGED serverVars, spool' \subseteq spool,
             todo' \subseteq todo \cup spool, cur' \in {cur, None} \cup spool
      PROVE  SameEntry'
  BY <1>0, <1>1 DEF SameEntry
<1>2. Proceeds \/ Drops \/ Removes \/ Remembers \/ Dies \/ Returns => SameEntry'
  <2>1. Proceeds => SameEntry'
    BY <1>1 DEF Proceeds
  <2>2. Drops => SameEntry'
    BY <1>1 DEF Drops
  <2>3. Removes \/ Remembers => SameEntry'
    BY <1>1 DEF Removes, Remembers
  <2>4. Dies \/ Returns => SameEntry'
    BY <1>1 DEF Dies, Returns
  <2>. QED
    BY <2>1, <2>2, <2>3, <2>4
<1>3. CASE Admits
  <2>1. PICK n \in Entry : n.id = published + 1 /\ spool' = spool \cup {n}
    BY <1>3 DEF Admits
  <2>2. UNCHANGED <<serverVars, todo, cur>>
    BY <1>3 DEF Admits
  <2>3. ASSUME NEW f \in net \cup {effective}, f # None PROVE f.id # n.id
    <3>1. published + 1 \notin 1..published
      BY ServedFacts
    <3>2. f.id \in 1..published
      BY <1>0, <2>3, ServedFacts DEF Ids
    <3>. QED
      BY <2>1, <3>1, <3>2
  <2>. QED
    BY <1>0, <2>1, <2>2, <2>3 DEF SameEntry
<1>4. CASE Posts
  <2>1. net' = net \cup {cur} /\ cur # None /\ UNCHANGED <<spool, todo, cur, applied, effective>>
    BY <1>4 DEF Posts
  <2>2. ASSUME NEW e \in spool \cup todo \cup {cur}, e # None, e.id = cur.id PROVE e = cur
    <3>1. /\ \A s \in spool : s = cur \/ cur.id < s.id
          /\ \A f \in todo : cur.id < f.id
      BY <2>1 DEF OrderInv, InOrder
    <3>2. cur.id \in Nat
      BY <2>1, ServedFacts
    <3>3. ~(cur.id < cur.id)
      BY <3>2
    <3>. QED
      BY <2>2, <3>1, <3>3
  <2>. QED
    BY <1>0, <2>1, <2>2 DEF SameEntry
<1>5. ASSUME NEW r \in net, ServerApply(r) PROVE SameEntry'
  <2>1. /\ net' \cup {effective'} \subseteq net \cup {effective}
        /\ UNCHANGED <<spool, todo, cur>>
    BY <1>5 DEF ServerApply, fileVars, workerVars, submitVars
  <2>2. effective' # None => effective'.id \in applied'
    BY <1>0, <1>5 DEF ServerApply, Repeated
  <2>. QED
    BY <1>0, <2>1, <2>2 DEF SameEntry
<1>. QED
  BY <1>2, <1>3, <1>4, <1>5, StepKinds

-----------------------------------------------------------------------------
\* The baseline lags behind the server only between the removal of an accepted
\* entry and the storing of its digest.
LEMMA BaselineStep ==
  ASSUME Orderly, TypeOK, CustodyInv, OrderInv, ServedInv, [Next]_vars
  PROVE  BaselineOK'
<1>. SUFFICES ASSUME crashes' = 0
              PROVE  /\ up'
                     /\ NothingDropped' =>
                          /\ lastAccepted' # None => effective' # None
                          /\ ~Stored' /\ effective' # None /\ effective'.id \in Discharged'
                               => lastAccepted'.digest = effective'.digest
  BY DEF BaselineOK
<1>. USE DEF serverVars, Ledger
<1>1. ~Dies
  BY DEF Dies
<1>2. crashes = 0 /\ up' = up
  BY <1>1, StepKinds DEF Proceeds, Admits, Drops, Posts, Removes, Remembers, Returns,
     ServerApply,
     memoryVars, boundVars, ServedInv, BaselineOK
<1>3. /\ up
      /\ NothingDropped =>
           /\ lastAccepted # None => effective # None
           /\ ~Stored /\ effective # None /\ effective.id \in Discharged
                => lastAccepted.digest = effective.digest
  BY <1>2 DEF ServedInv, BaselineOK
<1>. SUFFICES ASSUME NothingDropped'
              PROVE  /\ lastAccepted' # None => effective' # None
                     /\ ~Stored' /\ effective' # None /\ effective'.id \in Discharged'
                          => lastAccepted'.digest = effective'.digest
  BY <1>2, <1>3
<1>4. NothingDropped /\ ~Drops /\ ~Returns
  BY <1>3, DropsStay DEF Returns
<1>5. ASSUME UNCHANGED Ledger PROVE Discharged' = Discharged
  BY <1>5 DEF Discharged, Ids
<1>6. CASE Proceeds
  BY <1>3, <1>4, <1>5, <1>6 DEF Proceeds
<1>7. CASE Posts
  BY <1>3, <1>4, <1>5, <1>7 DEF Posts
<1>8. CASE Removes
  BY <1>3, <1>4, <1>8 DEF Removes
<1>9. CASE Admits
  <2>1. UNCHANGED <<serverVars, lastAccepted, Stored>>
    BY <1>9 DEF Admits, Stored
  <2>2. effective # None => effective.id \in 1..published
    BY ServedFacts DEF ServedInv, SameEntry
  <2>3. Ids(spool) \subseteq Ids(spool') /\ UNCHANGED <<quarantine, evicted>>
    BY <1>9 DEF Admits, Ids
  <2>4. effective # None /\ effective.id \in Discharged' => effective.id \in Discharged
    BY <2>2, <2>3 DEF Discharged
  <2>. QED
    BY <1>3, <1>4, <2>1, <2>4
<1>10. CASE Remembers
  <2>1. /\ cur # None /\ Stored /\ UNCHANGED <<Ledger, serverVars>>
        /\ lastAccepted' = [digest |-> cur.digest, expired |-> FALSE]
    BY <1>10 DEF Remembers
  <2>2. lastAccepted'.digest = cur.digest
    BY <2>1
  <2>3. cur \notin spool
    BY <2>1 DEF OrderInv, Stored
  <2>4. cur.id \in 1..published /\ cur.id \in Nat
    BY <2>1, ServedFacts
  <2>5. cur.id \notin Ids(spool)
    <3>1. \A e \in spool : e = cur \/ cur.id < e.id
      BY <2>1 DEF OrderInv, InOrder
    <3>. QED
      BY <2>3, <2>4, <3>1 DEF Ids
  <2>6. cur.id \in Discharged /\ cur.id \in applied
    BY <1>4, <2>4, <2>5, ServedFacts DEF Discharged, NothingDropped
  <2>7. effective # None /\ cur.id <= effective.id
    BY <1>4, <2>6 DEF ServedInv, ServerOK
  <2>8. ASSUME effective.id \in Discharged PROVE effective.id <= cur.id /\ effective.id \in Nat
    BY <1>4, <2>1, <2>8, ServedFacts DEF ServedInv, LeavesInOrder
  <2>9. ASSUME effective.id \in Discharged PROVE effective = cur
    <3>1. effective.id = cur.id
      BY <2>4, <2>7, <2>8, <2>9
    <3>. QED
      BY <2>1, <2>7, <3>1 DEF ServedInv, SameEntry
  <2>. QED
    BY <1>5, <2>1, <2>2, <2>7, <2>9
<1>11. ASSUME NEW r \in net, ServerApply(r)
       PROVE  /\ lastAccepted' # None => effective' # None
              /\ ~Stored' /\ effective' # None /\ effective'.id \in Discharged'
                   => lastAccepted'.digest = effective'.digest
  <2>1. /\ UNCHANGED <<Ledger, lastAccepted, Stored>>
        /\ effective' = IF r.id \in applied THEN effective ELSE r
    BY <1>11 DEF ServerApply, Repeated, fileVars, memoryVars, workerVars, Stored
  <2>2. CASE r.id \in applied
    BY <1>3, <1>4, <1>5, <2>1, <2>2
  <2>3. CASE r.id \notin applied
    BY <1>5, <2>1, <2>3, ServedFacts
  <2>. QED
    BY <2>2, <2>3
<1>. QED
  BY <1>1, <1>4, <1>6, <1>7, <1>8, <1>9, <1>10, <1>11, StepKinds

\* The server, the spool and the baseline stay as ServedInv says.
LEMMA ServedInvariant ==
  ASSUME Orderly
  PROVE  Spec => [](TypeOK /\ CustodyInv /\ OrderInv /\ ServedInv)
<1>1. ASSUME TypeOK, CustodyInv, CustodyInv', OrderInv, ServedInv, [Next]_vars
      PROVE  ServedInv'
  <2>1. ServerOK'
    BY <1>1, ServerStep
  <2>2. LeavesInOrder'
    BY <1>1, LeavesStep
  <2>3. SameEntry'
    BY <1>1, SameStep
  <2>4. BaselineOK'
    BY <1>1, BaselineStep
  <2>. QED
    BY <2>1, <2>2, <2>3, <2>4 DEF ServedInv
<1>2. TypeOK /\ CustodyInv /\ CustodyInv' /\ OrderInv /\ ServedInv /\ [Next]_vars => ServedInv'
  BY <1>1
<1>. QED
  BY <1>2, ServedInit, OrderInvariant, PTL DEF Spec

\* Whatever is retried, answered late or answered twice, the server never goes
\* from a newer snapshot back to an older one while nothing is evicted or
\* refused.
THEOREM ServerKeepsNewest ==
  ASSUME Orderly
  PROVE  Spec => ServerNeverRegresses
<1>1. ASSUME TypeOK, CustodyInv, OrderInv, ServedInv, [Next]_vars, NothingDropped,
             effective # None, effective' # effective
      PROVE  effective'.id >= effective.id
  <2>1. PICK r \in net : ServerApply(r) /\ effective' = r /\ r.id \notin applied
    BY <1>1, StepKinds DEF Proceeds, Admits, Drops, Posts, Removes, Remembers, Dies, Returns,
       serverVars, ServerApply, Repeated
  <2>2. /\ \A i \in applied \cup Ids(net), j \in 1..published : j < i => j \in applied
        /\ effective.id \in applied
    BY <1>1 DEF ServedInv, ServerOK, SameEntry
  <2>3. r.id \in 1..published /\ r.id \in Nat /\ effective.id \in Nat
    BY <1>1, <2>2, ServedFacts DEF Ids
  <2>4. ~(r.id < effective.id)
    BY <2>1, <2>2, <2>3
  <2>. QED
    BY <2>1, <2>3, <2>4
<1>2. TypeOK /\ CustodyInv /\ OrderInv /\ ServedInv /\ [Next]_vars
        => [NothingDropped /\ effective # None => effective'.id >= effective.id]_effective
  BY <1>1
<1>. QED
  BY <1>2, ServedInvariant, PTL DEF Spec, ServerNeverRegresses

\* drain_spool: unless a crash separates the removal of an entry from the
\* storing of its digest, the baseline of a quiet agent is what is in force at
\* the server.
THEOREM BaselineIsCurrent ==
  ASSUME Orderly
  PROVE  Spec => []BaselineUnlessCrashed
<1>1. ASSUME TypeOK, CustodyInv, ServedInv, crashes = 0, NothingDropped, Quiet,
             lastAccepted # None
      PROVE  lastAccepted.digest = effective.digest
  <2>1. effective # None /\ ~Stored /\ spool = {}
    BY <1>1 DEF ServedInv, BaselineOK, Quiet, Stored
  <2>2. effective.id \in 1..published
    BY <1>1, <2>1, ServedFacts DEF ServedInv, SameEntry
  <2>3. effective.id \in Discharged
    BY <1>1, <2>1, <2>2 DEF Discharged, Ids, NothingDropped
  <2>. QED
    BY <1>1, <2>1, <2>3 DEF ServedInv, BaselineOK
<1>2. TypeOK /\ CustodyInv /\ ServedInv => BaselineUnlessCrashed
  BY <1>1 DEF BaselineUnlessCrashed
<1>. QED
  BY <1>2, ServedInvariant, PTL
=============================================================================
