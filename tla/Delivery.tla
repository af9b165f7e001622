------------------------------ MODULE Delivery ------------------------------
(***************************************************************************)
(* Inventory delivery (src/src/delivery): a durable spool of snapshots,    *)
(* the producer half that publishes into it (enqueue_if_needed), and the   *)
(* worker half that drains it to the server (run_loop, drain_spool,        *)
(* submit_one), with the accepted-state file both halves are restarted     *)
(* from.                                                                   *)
(*                                                                         *)
(* Both halves are branches of one task, so a half gives way to the other  *)
(* only at an await; everything between two awaits is one critical section *)
(* for the other half, but not for a crash, which may come between any two *)
(* file operations.  A snapshot is its identity, its content digest and    *)
(* the modification time of its spool file.                                *)
(***************************************************************************)
EXTENDS Naturals, FiniteSets, FiniteSetsExt

CONSTANTS
  Digests,        \* contents an inventory can have
  None,           \* absence of a digest, a record or an entry
  Size,           \* Size[d]: bytes of a spool file with content d
  MaxEntries,     \* config max_spool_entries
  MaxBytes,       \* MAX_SPOOL_BYTES
  MaxEntryBytes,  \* MAX_SNAPSHOT_BYTES
  MaxAttempts,    \* MAX_ATTEMPTS_PER_ENTRY
  DiskFaults,     \* may file operations fail and files become unreadable?
  Rejections,     \* may the server refuse a payload (409, 413, 422)?
  ClockMonotonic, \* do modification times follow publication order?
  MaxId,          \* bound on published snapshots: the disk takes no more
  MaxChanges,     \* bound on changes of the host's inventory
  MaxCrashes,     \* bound on crashes
  MaxExpiries     \* bound on full-refresh deadlines reached

ASSUME ConstantsOK ==
  /\ None \notin Digests
  /\ Digests # {}
  /\ Size \in [Digests -> Nat]
  /\ MaxEntries \in Nat /\ MaxBytes \in Nat /\ MaxEntryBytes \in Nat
  /\ MaxAttempts \in Nat \ {0}
  /\ {DiskFaults, Rejections, ClockMonotonic} \subseteq BOOLEAN
  /\ {MaxId, MaxChanges, MaxCrashes, MaxExpiries} \subseteq Nat

Entry == [id : Nat \ {0}, digest : Digests, mtime : Nat]

ASSUME NoneIsNoEntry == None \notin Entry

VARIABLES
  \* files
  spool,        \* set of pending entries
  quarantine,   \* identities put aside under spool/quarantine
  accFile,      \* digest in delivery-state-v1.json, or None
  \* process
  up,           \* is the agent running?
  lastAccepted, \* DeliveryClient.last_accepted: None or [digest, expired]
  queued,       \* DeliveryClient.last_enqueued_digest
  permit,       \* the stored permit of wake_delivery
  \* producer half
  pPc, pSnap, pDue,
  \* worker half
  wPc,
  todo,         \* entries enumerated by this drain and not yet handled
  cur,          \* the entry submit_one works on
  attempt, refreshed,
  \* surroundings
  host,         \* digest of the inventory the host has now
  net,          \* requests sent and not processed by the server
  applied,      \* identities the server has applied
  effective,    \* the entry the server applied last, or None
  \* history and bounds
  published,    \* number of snapshots published so far
  evicted,      \* identities evicted for capacity
  changes, crashes, expiries

producerVars == <<pPc, pSnap, pDue>>
submitVars == <<cur, attempt, refreshed>>
workerVars == <<wPc, todo, submitVars>>
serverVars == <<net, applied, effective>>
boundVars == <<changes, crashes, expiries>>
memoryVars == <<up, lastAccepted, queued, permit>>
fileVars == <<spool, quarantine, accFile>>

vars == <<fileVars, memoryVars, producerVars, workerVars, host, serverVars,
          published, evicted, boundVars>>

-----------------------------------------------------------------------------
(* The spool, Spool in spool.rs.                                           *)

Ids(S) == {e.id : e \in S}

\* pending_files sorts by modification time; ties are in directory order.
Oldest(e, S) == e \in S /\ \A f \in S : e.mtime <= f.mtime
Newest(e, S) == e \in S /\ \A f \in S : f.mtime <= e.mtime

EntryLimit == IF MaxEntries = 0 THEN 1 ELSE MaxEntries
TotalBytes(S) == MapThenSumSet(LAMBDA e : Size[e.digest], S)

\* enforce_limit keeps deleting while this holds.
OverLimit(S) ==
  /\ Cardinality(S) > EntryLimit \/ TotalBytes(S) > MaxBytes
  /\ Cardinality(S) > 1

\* The modification time a file written now can get: later than every
\* earlier one, or anything when the wall clock was stepped.
WriteTimes == IF ClockMonotonic THEN {published + 1} ELSE 1..MaxId

-----------------------------------------------------------------------------
Init ==
  /\ spool = {} /\ quarantine = {} /\ accFile = None
  /\ up = TRUE /\ lastAccepted = None /\ queued = None /\ permit = FALSE
  /\ pPc = "idle" /\ pSnap = None /\ pDue = FALSE
  /\ wPc = "start" /\ todo = {} /\ cur = None
  /\ attempt = 0 /\ refreshed = FALSE
  /\ host \in Digests
  /\ net = {} /\ applied = {} /\ effective = None
  /\ published = 0 /\ evicted = {}
  /\ changes = 0 /\ crashes = 0 /\ expiries = 0

\* The worker is suspended at an await, so the producer can run.
WorkerYields ==
  wPc \in {"start", "token", "refresh", "await", "backoff", "remember",
           "clear", "poll", "park"}

ProducerRuns == up /\ WorkerYields
WorkerRuns == up /\ pPc # "limit"

-----------------------------------------------------------------------------
(* Producer: enqueue_if_needed.                                            *)

\* Variant: only the refresh deadline makes content due.
DueByAge(d) == lastAccepted = None \/ lastAccepted.expired

\* due_for_submission: nothing accepted yet, other content, or the full
\* refresh deadline passed (or lies in the future).
Due(d) ==
  \/ lastAccepted = None
  \/ lastAccepted.digest # d
  \/ lastAccepted.expired

\* The digest is queued last already, or is the accepted one and no other
\* content is queued in between.
Suppressed == queued = pSnap \/ (~pDue /\ queued = None)

ProducerIdle == pPc' = "idle" /\ pSnap' = None /\ pDue' = FALSE

\* A collection ends with the content the host has at that moment.
Collect ==
  /\ ProducerRuns /\ pPc = "idle"
  /\ pSnap' = host /\ pPc' = "collected"
  /\ UNCHANGED <<fileVars, memoryVars, pDue, workerVars, host, serverVars,
                 published, evicted, boundVars>>

\* The first lock: decide whether the content is due.
CheckDue ==
  /\ ProducerRuns /\ pPc = "collected"
  /\ pDue' = Due(pSnap) /\ pPc' = "checked"
  /\ UNCHANGED <<fileVars, memoryVars, pSnap, workerVars, host, serverVars,
                 published, evicted, boundVars>>

\* The second lock is taken: nothing to send.
Suppress ==
  /\ ProducerRuns /\ pPc = "checked" /\ Suppressed
  /\ ProducerIdle
  /\ UNCHANGED <<fileVars, memoryVars, workerVars, host, serverVars,
                 published, evicted, boundVars>>

\* Spool::write fails before the rename: no file.  After MaxId publications
\* the disk is full for good.
WriteFails ==
  /\ ProducerRuns /\ pPc = "checked" /\ ~Suppressed
  /\ DiskFaults \/ Size[pSnap] > MaxEntryBytes \/ published = MaxId
  /\ ProducerIdle
  /\ UNCHANGED <<fileVars, memoryVars, workerVars, host, serverVars,
                 published, evicted, boundVars>>

\* The rename makes the file a pending entry.
AddEntry ==
  /\ published < MaxId
  /\ published' = published + 1
  /\ \E t \in WriteTimes :
       spool' = spool \cup {[id |-> published', digest |-> pSnap, mtime |-> t]}

\* The directory sync after the rename fails: the entry is there, and the
\* early return skips the limit, the digest and the wake-up.
WriteUnsynced ==
  /\ ProducerRuns /\ pPc = "checked" /\ ~Suppressed
  /\ DiskFaults /\ Size[pSnap] <= MaxEntryBytes
  /\ AddEntry
  /\ ProducerIdle
  /\ UNCHANGED <<quarantine, accFile, memoryVars, workerVars, host,
                 serverVars, evicted, boundVars>>

WriteEntry ==
  /\ ProducerRuns /\ pPc = "checked" /\ ~Suppressed
  /\ Size[pSnap] <= MaxEntryBytes
  /\ AddEntry
  /\ pPc' = "limit"
  /\ UNCHANGED <<quarantine, accFile, memoryVars, pSnap, pDue, workerVars,
                 host, serverVars, evicted, boundVars>>

\* Variant: the listing is sorted newest first.
EvictNewest ==
  /\ up /\ pPc = "limit" /\ OverLimit(spool)
  /\ \E e \in spool :
       /\ Newest(e, spool)
       /\ spool' = spool \ {e}
       /\ evicted' = evicted \cup {e.id}
  /\ UNCHANGED <<quarantine, accFile, memoryVars, producerVars, workerVars,
                 host, serverVars, published, boundVars>>

\* One deletion of enforce_limit.
EvictOldest ==
  /\ up /\ pPc = "limit" /\ OverLimit(spool)
  /\ \E e \in spool :
       /\ Oldest(e, spool)
       /\ spool' = spool \ {e}
       /\ evicted' = evicted \cup {e.id}
  /\ UNCHANGED <<quarantine, accFile, memoryVars, producerVars, workerVars,
                 host, serverVars, published, boundVars>>

\* The digest is remembered and the worker notified; a failed eviction is
\* only logged.
Publish ==
  /\ up /\ pPc = "limit" /\ (DiskFaults \/ ~OverLimit(spool))
  /\ queued' = pSnap /\ permit' = TRUE
  /\ ProducerIdle
  /\ UNCHANGED <<fileVars, up, lastAccepted, workerVars, host, serverVars,
                 published, evicted, boundVars>>

Producer ==
  \/ Collect \/ CheckDue \/ Suppress \/ WriteFails \/ WriteUnsynced
  \/ WriteEntry \/ EvictOldest \/ Publish

-----------------------------------------------------------------------------
(* Worker: run_loop, drain_spool and submit_one.                           *)

NoEntry == cur' = None /\ attempt' = 0 /\ refreshed' = FALSE

\* drain_spool returns an error: the rest of the enumeration is dropped.
AbandonDrain == todo' = {} /\ NoEntry /\ wPc' = "rest"

workerOnly == <<memoryVars, producerVars, host, published, evicted, boundVars>>

\* pending_paths.
ListPending ==
  /\ WorkerRuns /\ wPc = "start"
  /\ \/ todo' = spool /\ wPc' = "next"
     \/ DiskFaults /\ todo' = {} /\ wPc' = "rest"
  /\ UNCHANGED <<workerOnly, fileVars, submitVars, serverVars>>

\* Variant: the newest entry is taken first.
ReadNewest ==
  /\ WorkerRuns /\ wPc = "next"
  /\ \E e \in todo \cap spool :
       /\ Newest(e, todo)
       /\ cur' = e /\ todo' = todo \ {e}
  /\ attempt' = 1 /\ refreshed' = FALSE
  /\ wPc' = "token"
  /\ UNCHANGED <<workerOnly, fileVars, serverVars>>

\* read_pending decodes the oldest enumerated entry.
ReadPending ==
  /\ WorkerRuns /\ wPc = "next"
  /\ \E e \in todo \cap spool :
       /\ Oldest(e, todo)
       /\ cur' = e /\ todo' = todo \ {e}
  /\ attempt' = 1 /\ refreshed' = FALSE
  /\ wPc' = "token"
  /\ UNCHANGED <<workerOnly, fileVars, serverVars>>

\* Variant: an unreadable entry is deleted.
DeleteUnreadable ==
  /\ WorkerRuns /\ wPc = "next" /\ DiskFaults
  /\ \E e \in todo \cap spool :
       /\ Oldest(e, todo)
       /\ spool' = spool \ {e}
       /\ todo' = todo \ {e}
  /\ UNCHANGED <<workerOnly, quarantine, accFile, wPc, submitVars, serverVars>>

\* An entry that cannot be read or decoded is put aside and skipped, unless
\* the directory sync after the rename fails: then the drain ends.
QuarantineUnreadable ==
  /\ WorkerRuns /\ wPc = "next" /\ DiskFaults
  /\ \E e \in todo \cap spool :
       /\ Oldest(e, todo)
       /\ spool' = spool \ {e}
       /\ quarantine' = quarantine \cup {e.id}
       /\ \/ todo' = todo \ {e} /\ UNCHANGED <<wPc, submitVars>>
          \/ AbandonDrain
  /\ UNCHANGED <<workerOnly, accFile, serverVars>>

\* The enumerated entry was evicted since, or quarantining it fails: the
\* rename of read_pending fails and the error ends the drain.
ReadFails ==
  /\ WorkerRuns /\ wPc = "next"
  /\ \E e \in todo : Oldest(e, todo) /\ (DiskFaults \/ e \notin spool)
  /\ AbandonDrain
  /\ UNCHANGED <<workerOnly, fileVars, serverVars>>

DrainDone ==
  /\ WorkerRuns /\ wPc = "next" /\ todo = {}
  /\ wPc' = "clear"
  /\ UNCHANGED <<workerOnly, fileVars, todo, submitVars, serverVars>>

\* A token is at hand and the request leaves.
SendSnapshot ==
  /\ WorkerRuns /\ wPc \in {"token", "refresh"}
  /\ net' = net \cup {cur}
  /\ wPc' = "await"
  /\ UNCHANGED <<workerOnly, fileVars, todo, cur, attempt, refreshed, applied,
                 effective>>

\* token or force_refresh fails: blocking.
TokenUnavailable ==
  /\ WorkerRuns /\ wPc \in {"token", "refresh"}
  /\ AbandonDrain
  /\ UNCHANGED <<workerOnly, fileVars, serverVars>>

\* Variant: an answer of any kind counts as acceptance.
AnswerAccepts ==
  /\ WorkerRuns /\ wPc = "await"
  /\ wPc' = "remove"
  /\ UNCHANGED <<workerOnly, fileVars, todo, submitVars, serverVars>>

\* 2xx.
Acknowledged ==
  /\ WorkerRuns /\ wPc = "await" /\ cur.id \in applied
  /\ wPc' = "remove"
  /\ UNCHANGED <<workerOnly, fileVars, todo, submitVars, serverVars>>

\* The first 401 of this entry: refresh the token and post again within the
\* same attempt.
Unauthorized ==
  /\ WorkerRuns /\ wPc = "await" /\ ~refreshed
  /\ refreshed' = TRUE /\ wPc' = "refresh"
  /\ UNCHANGED <<workerOnly, fileVars, todo, cur, attempt, serverVars>>

\* 409, 413 or 422: quarantine_by_id, which finds nothing when the entry was
\* evicted meanwhile, or moves it and fails to sync, which blocks.  Copies of
\* the request still under way stay in net.
Refused ==
  /\ WorkerRuns /\ wPc = "await" /\ Rejections
  /\ spool' = spool \ {cur}
  /\ quarantine' = quarantine \cup Ids({cur} \cap spool)
  /\ \/ NoEntry /\ wPc' = "next" /\ UNCHANGED todo
     \/ DiskFaults /\ AbandonDrain
  /\ UNCHANGED <<workerOnly, accFile, serverVars>>

\* A network error, 429 or 5xx: back off while attempts are left.
TransientFailure ==
  /\ WorkerRuns /\ wPc = "await" /\ attempt < MaxAttempts
  /\ wPc' = "backoff"
  /\ UNCHANGED <<workerOnly, fileVars, todo, submitVars, serverVars>>

BackoffElapsed ==
  /\ WorkerRuns /\ wPc = "backoff"
  /\ attempt' = attempt + 1 /\ wPc' = "token"
  /\ UNCHANGED <<workerOnly, fileVars, todo, cur, refreshed,
                 serverVars>>

\* The last attempt fails, a second 401, 403, any other status, or a refused
\* entry that cannot be quarantined: blocking, the entry stays.
GiveUp ==
  /\ WorkerRuns /\ wPc = "await"
  /\ AbandonDrain
  /\ UNCHANGED <<workerOnly, fileVars, serverVars>>

\* Spool::remove tolerates a missing file; any other error ends the drain.
RemoveAccepted ==
  /\ WorkerRuns /\ wPc = "remove"
  /\ spool' = spool \ {cur} /\ wPc' = "store"
  /\ UNCHANGED <<workerOnly, quarantine, accFile, todo, submitVars,
                 serverVars>>

RemoveFails ==
  /\ WorkerRuns /\ wPc = "remove" /\ DiskFaults
  /\ AbandonDrain
  /\ UNCHANGED <<workerOnly, fileVars, serverVars>>

\* DeliveryStateStore::store; its failure is only logged.
StoreAccepted ==
  /\ WorkerRuns /\ wPc = "store"
  /\ \/ accFile' = cur.digest
     \/ DiskFaults /\ UNCHANGED accFile
  /\ wPc' = "remember"
  /\ UNCHANGED <<workerOnly, spool, quarantine, todo, submitVars, serverVars>>

RememberAccepted ==
  /\ WorkerRuns /\ wPc = "remember"
  /\ lastAccepted' = [digest |-> cur.digest, expired |-> FALSE]
  /\ NoEntry /\ wPc' = "next"
  /\ UNCHANGED <<fileVars, up, queued, permit, producerVars, todo, host,
                 serverVars, published, evicted, boundVars>>

\* Variant: the digest stays after the spool was drained.
ClearNothing ==
  /\ WorkerRuns /\ wPc = "clear" /\ wPc' = "rest"
  /\ UNCHANGED <<workerOnly, fileVars, todo, submitVars, serverVars>>

\* clear_enqueued_if_spool_empty.
ClearQueued ==
  /\ WorkerRuns /\ wPc = "clear"
  /\ \/ queued' = IF spool = {} THEN None ELSE queued
     \/ DiskFaults /\ UNCHANGED queued
  /\ wPc' = "rest"
  /\ UNCHANGED <<fileVars, up, lastAccepted, permit, producerVars, todo,
                 submitVars, host, serverVars, published, evicted, boundVars>>

\* Variant: no retry timer.
RestWithoutTimer ==
  /\ WorkerRuns /\ wPc = "rest" /\ wPc' = "park"
  /\ UNCHANGED <<workerOnly, fileVars, todo, submitVars, serverVars>>

\* has_pending decides whether the wait includes the retry timer; it counts
\* an unreadable directory as pending.
Rest ==
  /\ WorkerRuns /\ wPc = "rest"
  /\ \/ wPc' = IF spool # {} THEN "poll" ELSE "park"
     \/ DiskFaults /\ wPc' = "poll"
  /\ UNCHANGED <<workerOnly, fileVars, todo, submitVars, serverVars>>

\* wake_delivery.notified consumes the permit.
Wake ==
  /\ WorkerRuns /\ wPc \in {"poll", "park"} /\ permit
  /\ permit' = FALSE /\ wPc' = "start"
  /\ UNCHANGED <<fileVars, up, lastAccepted, queued, producerVars, todo,
                 submitVars, host, serverVars, published, evicted, boundVars>>

\* DELIVERY_RETRY_INTERVAL.
RetryTimer ==
  /\ WorkerRuns /\ wPc = "poll"
  /\ wPc' = "start"
  /\ UNCHANGED <<workerOnly, fileVars, todo, submitVars, serverVars>>

Worker ==
  \/ ListPending \/ ReadPending \/ QuarantineUnreadable \/ ReadFails
  \/ DrainDone \/ SendSnapshot \/ TokenUnavailable \/ Acknowledged
  \/ Unauthorized \/ Refused \/ TransientFailure \/ BackoffElapsed \/ GiveUp
  \/ RemoveAccepted \/ RemoveFails \/ StoreAccepted \/ RememberAccepted
  \/ ClearQueued \/ Rest \/ Wake \/ RetryTimer

-----------------------------------------------------------------------------
(* Process, host and server.                                               *)

\* The process ends at any point, by a crash, a kill or a shutdown that drops
\* both halves.
Crash ==
  /\ up /\ crashes < MaxCrashes
  /\ crashes' = crashes + 1
  /\ up' = FALSE
  /\ lastAccepted' = None /\ queued' = None /\ permit' = FALSE
  /\ ProducerIdle
  /\ wPc' = "start" /\ todo' = {} /\ NoEntry
  /\ UNCHANGED <<fileVars, host, serverVars, published, evicted, changes,
                 expiries>>

\* load_or_discard_invalid; the refresh deadline may have passed meanwhile.
LoadAccepted ==
  \/ \E late \in BOOLEAN :
       /\ accFile # None /\ UNCHANGED accFile
       /\ late => expiries < MaxExpiries
       /\ expiries' = IF late THEN expiries + 1 ELSE expiries
       /\ lastAccepted' = [digest |-> accFile, expired |-> late]
  \/ /\ accFile = None \/ DiskFaults
     /\ lastAccepted' = None /\ accFile' = None
     /\ UNCHANGED expiries

\* Variant: the enumeration is not reversed.
LoadOldestQueued ==
  /\ UNCHANGED <<spool, quarantine>>
  /\ IF spool = {} THEN queued' = None
     ELSE \E e \in spool : Oldest(e, spool) /\ queued' = e.digest

\* newest_pending_digest takes the newest readable entry; the ones it passes
\* over, all newer ones among them, are put aside, or stay when that fails.
LoadQueued ==
  \E e \in spool \cup {None} :
    LET passed == IF e = None THEN spool
                              ELSE {f \in spool \ {e} : e.mtime <= f.mtime}
    IN /\ DiskFaults \/ IF e = None THEN spool = {} ELSE Newest(e, spool)
       /\ \E S \in SUBSET (IF DiskFaults THEN passed ELSE {}) :
            /\ spool' = spool \ S
            /\ quarantine' = quarantine \cup Ids(S)
       /\ queued' = IF e = None THEN None ELSE e.digest

\* DeliveryClient::new.
Boot ==
  /\ ~up /\ up' = TRUE
  /\ LoadAccepted /\ LoadQueued
  /\ UNCHANGED <<permit, producerVars, workerVars, host, serverVars,
                 published, evicted, changes, crashes>>

\* The full-refresh interval elapses, or the clock is stepped behind the
\* acceptance time.
Expire ==
  /\ up /\ lastAccepted # None /\ ~lastAccepted.expired
  /\ expiries < MaxExpiries
  /\ expiries' = expiries + 1
  /\ lastAccepted' = [lastAccepted EXCEPT !.expired = TRUE]
  /\ UNCHANGED <<fileVars, up, queued, permit, producerVars, workerVars, host,
                 serverVars, published, evicted, changes, crashes>>

HostChange ==
  /\ changes < MaxChanges /\ changes' = changes + 1
  /\ \E d \in Digests \ {host} : host' = d
  /\ UNCHANGED <<fileVars, memoryVars, producerVars, workerVars, serverVars,
                 published, evicted, crashes, expiries>>

\* Variant: requests carry no key.
NeverRepeated(r) == FALSE

\* post sends the snapshot_id as Idempotency-Key, so the server recognises a
\* repetition.
Repeated(r) == r.id \in applied

\* The server processes a request, at once or long after the agent gave up on
\* it.
ServerApply(r) ==
  /\ r \in net
  /\ net' = net \ {r}
  /\ applied' = applied \cup {r.id}
  /\ effective' = IF Repeated(r) THEN effective ELSE r
  /\ UNCHANGED <<fileVars, memoryVars, producerVars, workerVars, host,
                 published, evicted, boundVars>>

Environment ==
  \/ Crash \/ Boot \/ Expire \/ HostChange
  \/ \E r \in net : ServerApply(r)

Next == Producer \/ Worker \/ Environment

Spec == Init /\ [][Next]_vars

\* Both halves are polled whenever they can run, a stopped agent is started
\* again, and a server that is asked again and again eventually answers.
Fairness ==
  /\ WF_vars(Producer) /\ WF_vars(Worker) /\ WF_vars(Boot)
  /\ SF_vars(SendSnapshot) /\ SF_vars(Acknowledged)
  /\ SF_vars(\E r \in net : r = cur /\ ServerApply(r))

FairSpec == Spec /\ Fairness

-----------------------------------------------------------------------------
(* Properties.                                                             *)

ProducerPcs == {"idle", "collected", "checked", "limit"}
WorkerPcs == {"start", "next", "token", "refresh", "await", "backoff",
              "remove", "store", "remember", "clear", "rest", "poll", "park"}
Submitting == {"token", "refresh", "await", "backoff", "remove", "store",
               "remember"}

FlagsOK ==
  /\ up \in BOOLEAN /\ permit \in BOOLEAN
  /\ pDue \in BOOLEAN /\ refreshed \in BOOLEAN

DataOK ==
  /\ spool \subseteq Entry /\ quarantine \subseteq Nat
  /\ accFile \in Digests \cup {None}
  /\ lastAccepted \in [digest : Digests, expired : BOOLEAN] \cup {None}
  /\ queued \in Digests \cup {None}
  /\ pPc \in ProducerPcs
  /\ pSnap \in Digests \cup {None} /\ (pSnap = None <=> pPc = "idle")
  /\ wPc \in WorkerPcs /\ todo \subseteq Entry
  /\ cur \in Entry \cup {None} /\ (cur = None <=> wPc \notin Submitting)
  /\ attempt \in Nat
  /\ host \in Digests
  /\ net \subseteq Entry /\ applied \subseteq Nat
  /\ effective \in Entry \cup {None}
  /\ published \in Nat /\ evicted \subseteq Nat
  /\ changes \in Nat /\ crashes \in Nat /\ expiries \in Nat

\* The variables keep their types; enqueue_if_needed has a snapshot and
\* submit_one an entry exactly while they run.
TypeOK == FlagsOK /\ DataOK

Discharged == (1..published) \ (Ids(spool) \cup quarantine \cup evicted)

\* Every snapshot ever published is still in the spool, in quarantine, evicted
\* for capacity, or held by the server, across any crash and any failing file
\* operation (spool.rs: killing the process mid-upload never loses it).
NoSilentLoss == Discharged \subseteq applied

\* The inductive strengthening of NoSilentLoss: identities are unique and in
\* one place each; everything the worker handles was published; and what it is
\* about to remove is already held by the server.
Accounted ==
  /\ published <= MaxId
  /\ \A e, f \in spool : e.id = f.id => e = f
  /\ Ids(spool) \cup quarantine \cup evicted \cup applied \subseteq 1..published
  /\ Ids(spool) \cap quarantine = {}
  /\ Ids(spool) \cap evicted = {}
  /\ quarantine \cap evicted = {}
  /\ NoSilentLoss

WorkKnown ==
  /\ \A e \in todo \cup net : e.id \in 1..published
  /\ cur # None => cur.id \in 1..published
  /\ wPc = "remove" => cur.id \in applied

CustodyInv == Accounted /\ WorkKnown

\* The detailed model implements the custody contract.
Custody == INSTANCE SnapshotCustody WITH
  Snapshots <- 1..MaxId,
  pending <- Ids(spool),
  held <- applied,
  discharged <- Discharged,
  quarantined <- quarantine,
  dropped <- evicted

\* Behaviours of the model are behaviours of SnapshotCustody: what leaves the
\* spool leaves it once, for a reason, and never comes back.
CustodyKept == Custody!Spec

\* last_enqueued_digest describes the newest pending entry, so enqueue never
\* suppresses a snapshot on account of one that is no longer queued; a clock
\* that does not step back and working files are assumed.
QueuedIsNewest ==
  up /\ pPc # "limit" /\ spool # {} =>
    \E e \in spool : Newest(e, spool) /\ queued = e.digest

\* The inductive strengthening of QueuedIsNewest: file times follow identities,
\* the worker holds the older end of the spool in order, and the newest
\* published snapshot is the last one to leave.
InOrder ==
  /\ \A e \in spool \cup todo : e.mtime = e.id
  /\ \A e, f \in spool \cup todo : e.id = f.id => e = f
  /\ \A f \in todo, e \in spool : e \in todo \cup {cur} \/ f.id < e.id
  /\ cur # None => /\ \A e \in spool : e = cur \/ cur.id < e.id
                   /\ \A f \in todo : cur.id < f.id

NewestStays ==
  spool # {} =>
    \E e \in spool :
      /\ e.id = published
      /\ up /\ pPc = "limit" => e.digest = pSnap
      /\ up /\ pPc # "limit" => e.digest = queued

OrderInv ==
  /\ InOrder /\ NewestStays
  /\ ~up => pPc # "limit"
  /\ wPc \in {"store", "remember"} => cur \notin spool

\* The newest published snapshot is never the one evicted.
NewestRetained == published \notin evicted

\* Nothing was put aside, so every snapshot is submitted until it is accepted.
NothingDropped == evicted = {} /\ quarantine = {}

\* As long as nothing is evicted or refused, the server never goes from a newer
\* snapshot back to an older one, in spite of retries, lost answers and requests
\* that arrive late.  (A request the agent gave up on is not withdrawn when its
\* entry is evicted.)
ServerNeverRegresses ==
  [][NothingDropped /\ effective # None => effective'.id >= effective.id]_effective

\* When nothing is pending or under way, the baseline that decides what to
\* suppress is what the server really has, unless a crash came between the
\* removal of an entry and the storing of its digest (drain_spool).
Quiet == up /\ pPc = "idle" /\ wPc = "park" /\ spool = {} /\ queued = None
BaselineUnlessCrashed ==
  crashes = 0 /\ NothingDropped /\ Quiet /\ lastAccepted # None =>
    lastAccepted.digest = effective.digest

\* Every pending snapshot is eventually settled.
EverythingSettles ==
  \A i \in 1..MaxId : (i \in Ids(spool)) ~> (i \notin Ids(spool))

\* Once the host stops changing, the server ends up with the host's state.
Convergence ==
  \A d \in Digests :
    <>[](host = d) => <>[](effective # None /\ effective.digest = d)

\* A full refresh that falls due is eventually delivered although nothing
\* changed.
RefreshHappens ==
  (lastAccepted # None /\ lastAccepted.expired)
     ~> (lastAccepted # None /\ ~lastAccepted.expired)
=============================================================================
