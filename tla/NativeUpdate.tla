---------------------------- MODULE NativeUpdate ----------------------------
(***************************************************************************)
(* Signed native updates (src/src/native_update.rs, src/src/update.rs).    *)
(* The agent stages a release it is offered and acknowledges its health;   *)
(* the privileged supervisor verifies the request again, installs it,      *)
(* restarts the agent and rolls back when no acknowledgement arrives in    *)
(* time.  The two are separate processes that share a mailbox directory;   *)
(* ledger, journal and package cache belong to the supervisor.             *)
(*                                                                         *)
(* Each action is one file or system operation of one process, so the      *)
(* other process, a crash or a failure can come between any two.           *)
(***************************************************************************)
EXTENDS Naturals, Sequences, FiniteSets

CONSTANTS
  Releases,      \* signed releases: records with a version and a sequence
  First,         \* the release installed and seeded at the beginning
  Working,       \* releases whose agent reaches the server
  None,          \* absence of a record, a request or an outcome
  Emergency,     \* versions allowed by config updates.emergency_version
  HistoryLimit,  \* config updates.history_limit
  MaxConsumed,   \* MAX_REQUESTS
  HealthTimeout, \* config updates.health_timeout_secs
  MaxNonce,      \* bound on requests
  MaxSeeds,      \* bound on uses of update-seed
  MaxMishaps     \* bound on supervisor crashes and failing operations

ASSUME ReleasesOK ==
  /\ Releases \subseteq [version : Nat, sequence : Nat \ {0}]
  /\ First \in Releases /\ Working \subseteq Releases
  /\ Emergency \subseteq Nat

ASSUME BoundsOK ==
  /\ {HistoryLimit, MaxConsumed, HealthTimeout} \subseteq Nat \ {0}
  /\ {MaxNonce, MaxSeeds, MaxMishaps} \subseteq Nat

Nonces == 1..MaxNonce

\* Cache directories: a request's is named by its nonce, a seed's is not.
SeedDirs == MaxNonce + 1 .. MaxNonce + MaxSeeds + 1

Dirs == Nonces \cup SeedDirs
Requests == [nonce : Dirs, rel : Releases]
Caches == [rel : Releases, dir : Dirs]
Journals == [active : Caches, pending : Requests \cup {None},
             consumed : SUBSET Requests]
Windows == [nonce : Nonces, rel : Releases, start : Nat, deadline : Nat]
Outcomes == {"healthy", "rolled back", "interrupted"}
Endings == [nonce : Nonces, rel : Releases, outcome : Outcomes]
Announcements == [nonce : Nonces, version : Nat, start : Nat, deadline : Nat]
Acks == [nonce : Nonces, version : Nat, at : Nat]
Results == [nonce : Nonces, outcome : {"accepted", "refused"}]

ASSUME NoneOK ==
  None \notin Requests \cup Journals \cup Windows \cup Outcomes \cup Announcements
             \cup Acks \cup Results \cup Releases

VARIABLES
  \* protected files
  ledger,     \* update-state.json: floor, pending, history
  journal,    \* native-journal.json: active, pending, consumed
  cache,      \* directories of cached packages
  \* mailbox
  pendHealth, \* pending-health.json
  health,     \* health.json
  result,     \* request-result.json
  incoming,   \* requests staged by the agent, ready or not
  \* host
  installed,  \* release the package manager has installed
  \* supervisor process
  sPc,
  jmem,       \* its copy of the journal
  tx,         \* the request accept_request works on
  examined,   \* nonces it has tried
  \* agent process
  running,    \* release of the running agent
  aPc, aRel, aAck,
  \* history and bounds
  installs,   \* how often each request was installed
  proven,     \* requests acknowledged by a working agent of their release
  ended,      \* outcome of each request
  offers,     \* releases of the requests, by nonce
  now, seeds, mishaps

protectedVars == <<ledger, journal, cache>>
mailVars == <<pendHealth, health, result, incoming>>
supVars == <<sPc, jmem, tx, examined>>
agentVars == <<running, aPc, aRel, aAck>>
historyVars == <<installs, proven, ended, offers>>
boundVars == <<now, seeds, mishaps>>

vars == <<protectedVars, mailVars, installed, supVars, agentVars,
          historyVars, boundVars>>

Init ==
  /\ ledger = [version |-> First.version, sequence |-> First.sequence,
               pending |-> None, history |-> << >>]
  /\ journal = [active |-> [rel |-> First, dir |-> MaxNonce + 1],
                pending |-> None, consumed |-> {}]
  /\ cache = {MaxNonce + 1}
  /\ pendHealth = None /\ health = None /\ result = None /\ incoming = {}
  /\ installed = First /\ running = First
  /\ sPc = "down" /\ jmem = None /\ tx = None /\ examined = {}
  /\ aPc = "idle" /\ aRel = None /\ aAck = None
  /\ installs = [n \in Nonces |-> 0] /\ proven = {}
  /\ ended = [n \in Nonces |-> None]
  /\ now = 0 /\ offers = << >> /\ seeds = 0 /\ mishaps = 0

-----------------------------------------------------------------------------
(* Agent: ack_health and queue_update, both called by the heartbeat loop.   *)

\* The announced transaction is that of the agent's own version.
Announced ==
  pendHealth # None /\ pendHealth.version = running.version

\* ack_health reads the announced transaction after an authenticated
\* registration or heartbeat.
ReadAnnouncement ==
  /\ aPc = "idle" /\ running \in Working
  /\ Announced
  /\ now \in pendHealth.start..pendHealth.deadline
  /\ aAck' = [nonce |-> pendHealth.nonce, version |-> pendHealth.version,
              at |-> now]
  /\ aPc' = "ack"
  /\ proven' = IF offers[pendHealth.nonce] = running
               THEN proven \cup {pendHealth.nonce} ELSE proven
  /\ UNCHANGED <<protectedVars, mailVars, installed, supVars, running, aRel,
                 installs, ended, offers, boundVars>>

WriteHealth ==
  /\ aPc = "ack"
  /\ health' = aAck
  /\ aPc' = "idle" /\ aAck' = None
  /\ UNCHANGED <<protectedVars, pendHealth, result, incoming, installed,
                 supVars, running, aRel, historyVars, boundVars>>

\* verify_manifest against the ledger the agent sees: its own version is the
\* floor.  reap_consumed_request deletes an answered request.
TakeOffer(r) ==
  /\ aPc = "idle" /\ running \in Working
  /\ r.version >= running.version \/ r.version \in Emergency
  /\ aRel' = r
  /\ IF result = None
     THEN aPc' = "stage" /\ UNCHANGED incoming
     ELSE /\ aPc' = "reap"
          /\ incoming' = {q \in incoming : q.nonce # result.nonce}
  /\ UNCHANGED <<protectedVars, pendHealth, health, result, installed,
                 supVars, running, aAck, historyVars, boundVars>>

ReapResult ==
  /\ aPc = "reap"
  /\ result' = None /\ aPc' = "stage"
  /\ UNCHANGED <<protectedVars, pendHealth, health, incoming, installed,
                 supVars, running, aRel, aAck, historyVars, boundVars>>

\* One request at a time: anything in the directory refuses the offer.
Stage ==
  /\ aPc = "stage"
  /\ IF incoming = {} /\ Len(offers) < MaxNonce
     THEN /\ offers' = Append(offers, aRel)
          /\ incoming' = {[nonce |-> Len(offers'), rel |-> aRel, ready |-> FALSE]}
          /\ aPc' = "download" /\ UNCHANGED aRel
     ELSE /\ aPc' = "idle" /\ aRel' = None
          /\ UNCHANGED <<offers, incoming>>
  /\ UNCHANGED <<protectedVars, pendHealth, health, result, installed,
                 supVars, running, aAck, installs, proven, ended, boundVars>>

Unready == {q \in incoming : ~q.ready}

\* The download ends: ready.json is published, or the staging is dropped.
Download ==
  /\ aPc = "download"
  /\ \/ incoming' = {[q EXCEPT !.ready = TRUE] : q \in incoming}
     \/ incoming' = incoming \ Unready
  /\ aPc' = "idle" /\ aRel' = None
  /\ UNCHANGED <<protectedVars, pendHealth, health, result, installed,
                 supVars, running, aAck, historyVars, boundVars>>

AgentRestarted ==
  running' = installed /\ aPc' = "idle" /\ aRel' = None /\ aAck' = None

\* The agent ends, by itself or by a package script, and the service manager
\* starts what is installed; a killed agent leaves its staging behind.
AgentRestart ==
  /\ AgentRestarted
  /\ incoming' \in {incoming, incoming \ Unready}
  /\ UNCHANGED <<protectedVars, pendHealth, health, result, installed,
                 supVars, historyVars, boundVars>>

Agent ==
  \/ ReadAnnouncement \/ WriteHealth
  \/ \E r \in Releases : TakeOffer(r)
  \/ ReapResult \/ Stage \/ Download

-----------------------------------------------------------------------------
(* Supervisor: recover_or_ack_with.                                        *)

supervisorOnly == <<running, aPc, aRel, aAck, proven, offers, seeds>>
elsewhere == <<supervisorOnly, mailVars, installed, installs, ended, now>>

Goto(pc) == sPc' = pc /\ UNCHANGED <<jmem, tx, examined>>
Exit == sPc' = "down" /\ jmem' = None /\ tx' = None /\ examined' = {}

Last == ledger.history[Len(ledger.history)]

\* Variant: the ledger is looked at before the journal.
LedgerFirst ==
  IF ledger.pending # None THEN "interrupted"
  ELSE IF journal.pending = None THEN "prune" ELSE "completed"

\* What recover_or_ack_with finds decides how it goes on.
Found ==
  IF journal.pending = None
  THEN IF ledger.pending = None THEN "prune" ELSE "interrupted"
  ELSE IF ledger.pending = None THEN "completed" ELSE "pending"

\* supervise reads the journal at the top of its loop, recover_or_ack_with the
\* ledger.
ReadState ==
  /\ sPc = "top"
  /\ jmem' = journal
  /\ sPc' = Found
  /\ UNCHANGED <<protectedVars, mailVars, installed, tx, examined, agentVars,
                 historyVars, boundVars>>

\* Variant: a receipt of the floor's own release is dropped as well.
KeptAboveFloor(j) ==
  IF Emergency # {} THEN j.consumed
  ELSE {c \in j.consumed : /\ c.rel.version > ledger.version
                           /\ c.rel.sequence > ledger.sequence}

\* remember_consumed_nonce drops receipts that the floor makes useless.
Kept(j) ==
  IF Emergency # {} THEN j.consumed
  ELSE {c \in j.consumed : /\ c.rel.version >= ledger.version
                           /\ c.rel.sequence >= ledger.sequence}

Known(n) == {c \in jmem.consumed : c.nonce = n}

CanRemember(n, r) ==
  IF Known(n) # {} THEN [nonce |-> n, rel |-> r] \in jmem.consumed
                   ELSE Cardinality(Kept(jmem)) < MaxConsumed

\* A receipt that is there already is not written again.
Remember(n, r) ==
  IF Known(n) # {} THEN UNCHANGED <<jmem, journal>>
  ELSE /\ jmem' = [jmem EXCEPT !.consumed =
                     Kept(jmem) \cup {[nonce |-> n, rel |-> r]}]
       /\ journal' = jmem'

RememberThen(n, r, pc) ==
  \/ /\ CanRemember(n, r) /\ Remember(n, r)
     /\ sPc' = pc /\ UNCHANGED <<tx, examined>>
  \/ /\ ~CanRemember(n, r) /\ UNCHANGED journal
     /\ IF sPc = "reserve" THEN Goto("drop") ELSE Exit

recoverOnly == <<elsewhere, cache, mishaps>>

RememberInterrupted ==
  /\ sPc = "interrupted"
  /\ RememberThen(ledger.pending.nonce, ledger.pending.rel, "abort")
  /\ UNCHANGED <<recoverOnly, ledger, ended>>

MatchesHistory ==
  /\ Last.rel = jmem.pending.rel
  /\ Last.nonce = jmem.pending.nonce

RememberCompleted ==
  /\ sPc = "completed"
  /\ IF ledger.history # << >> /\ MatchesHistory
     THEN RememberThen(jmem.pending.nonce, jmem.pending.rel, "settle")
     ELSE Exit /\ UNCHANGED journal
  /\ UNCHANGED <<recoverOnly, ledger, ended>>

SameTransaction ==
  /\ ledger.pending.nonce = jmem.pending.nonce
  /\ ledger.pending.rel = jmem.pending.rel

RememberPending ==
  /\ sPc = "pending"
  /\ IF SameTransaction
     THEN RememberThen(jmem.pending.nonce, jmem.pending.rel, "judge")
     ELSE Exit /\ UNCHANGED journal
  /\ UNCHANGED <<recoverOnly, ledger, ended>>

\* health_status_for_pending.
Healthy ==
  /\ health # None
  /\ health.nonce = ledger.pending.nonce
  /\ health.version = ledger.pending.rel.version
  /\ health.at \in ledger.pending.start..ledger.pending.deadline

\* Variant: the deadline is checked only when an acknowledgement is there.
WaitForHealth ==
  IF Healthy THEN "accept" ELSE IF health = None THEN "prune" ELSE "deadline"

Judgement == IF Healthy THEN "accept" ELSE "deadline"

Judge ==
  /\ sPc = "judge"
  /\ Goto(Judgement)
  /\ UNCHANGED <<elsewhere, protectedVars, mishaps>>

CheckDeadline ==
  /\ sPc = "deadline"
  /\ Goto(IF now >= ledger.pending.deadline THEN "rbInstall" ELSE "prune")
  /\ UNCHANGED <<elsewhere, protectedVars, mishaps>>

-----------------------------------------------------------------------------
(* Supervisor: finish_update and rollback_with.                            *)

Larger(a, b) == IF a > b THEN a ELSE b

\* Variant: the newest entries are dropped.
KeepOldest(h) == IF Len(h) > HistoryLimit THEN SubSeq(h, 1, HistoryLimit) ELSE h

\* The oldest entries beyond history_limit are dropped.
Truncated(h) ==
  IF Len(h) > HistoryLimit
  THEN SubSeq(h, Len(h) - HistoryLimit + 1, Len(h)) ELSE h

\* Variant: every ending raises the floor.
AnyEnding(outcome) == TRUE

\* Only a healthy release raises the floor.
Raises(outcome) == outcome = "healthy"

Finish(outcome) ==
  LET p == ledger.pending
      ok == Raises(outcome)
  IN /\ ledger' =
          [version |-> IF ok THEN Larger(p.rel.version, ledger.version)
                             ELSE ledger.version,
           sequence |-> IF ok THEN Larger(p.rel.sequence, ledger.sequence)
                              ELSE ledger.sequence,
           pending |-> None,
           history |-> Truncated(Append(ledger.history,
             [nonce |-> p.nonce, rel |-> p.rel, outcome |-> outcome]))]
     /\ ended' = [ended EXCEPT ![p.nonce] = outcome]
     /\ Goto("clear")
     /\ UNCHANGED <<supervisorOnly, journal, cache, mailVars, installed,
                    installs, now, mishaps>>

FinishInterrupted == sPc = "abort" /\ Finish("interrupted")
FinishHealthy == sPc = "accept" /\ Finish("healthy")
FinishRolledBack == sPc = "rbFinish" /\ Finish("rolled back")

mailboxOnly == <<supervisorOnly, protectedVars, installed, installs, ended,
                 now, result, incoming>>

\* finish_update ignores a failing removal of either file.
ClearAnnouncement ==
  /\ sPc = "clear" /\ Goto("clearHealth")
  /\ \/ pendHealth' = None /\ UNCHANGED mishaps
     \/ /\ mishaps < MaxMishaps /\ mishaps' = mishaps + 1
        /\ UNCHANGED pendHealth
  /\ UNCHANGED <<mailboxOnly, health>>

ClearHealth ==
  /\ sPc = "clearHealth"
  /\ Goto(IF jmem.pending = None THEN "prune" ELSE "settle")
  /\ \/ health' = None /\ UNCHANGED mishaps
     \/ /\ mishaps < MaxMishaps /\ mishaps' = mishaps + 1
        /\ UNCHANGED health
  /\ UNCHANGED <<mailboxOnly, pendHealth>>

\* Variant: the outcome is not looked at.
PendingActive == [rel |-> jmem.pending.rel, dir |-> jmem.pending.nonce]

\* A healthy release becomes the active one.
Survivor ==
  IF Last.outcome = "healthy"
  THEN [rel |-> jmem.pending.rel, dir |-> jmem.pending.nonce]
  ELSE jmem.active

\* The journal follows the ledger; in any case nothing is pending.
Settle ==
  /\ sPc = "settle"
  /\ jmem' = [jmem EXCEPT !.active = Survivor, !.pending = None]
  /\ journal' = jmem'
  /\ sPc' = "prune" /\ UNCHANGED <<tx, examined>>
  /\ UNCHANGED <<recoverOnly, ledger, ended>>

\* The cached previous package is installed again; one that is missing fails.
RollbackInstall ==
  /\ sPc = "rbInstall"
  /\ IF jmem.active.dir \in cache
     THEN installed' = jmem.active.rel /\ Goto("rbRestart")
     ELSE UNCHANGED installed /\ (IF tx = None THEN Exit ELSE Goto("refuse"))
  /\ UNCHANGED <<supervisorOnly, protectedVars, mailVars, installs, ended,
                 now, mishaps>>

RestartAgent ==
  /\ AgentRestarted
  /\ incoming' \in {incoming, incoming \ Unready}

restartOnly == <<protectedVars, pendHealth, health, result, installed,
                 historyVars, boundVars>>

RollbackRestart ==
  /\ sPc = "rbRestart"
  /\ RestartAgent /\ Goto("rbFinish")
  /\ UNCHANGED restartOnly

InUse ==
  {jmem.active.dir} \cup
  (IF jmem.pending = None THEN {} ELSE {jmem.pending.nonce})

\* prune_cache, called by settle, by rollback and by supervise.
Prune ==
  /\ sPc = "prune"
  /\ cache' = cache \cap InUse
  /\ Goto(IF tx # None THEN "refuse"
          ELSE IF jmem.pending = None THEN "scan" ELSE "top")
  /\ UNCHANGED <<elsewhere, ledger, journal, mishaps>>

-----------------------------------------------------------------------------
(* Supervisor: accept_request_with.                                        *)

\* Ready requests it has not tried since it started.
Fresh == {q \in incoming : q.ready /\ q.nonce \notin examined}

\* Variant: the receipts are not looked at.
AnyNonce(q) == TRUE

NotConsumed(q) == Known(q.nonce) = {}

\* Variant: the previous package is not verified before an update.
Trusted == TRUE

PreviousCached == jmem.active.dir \in cache

AboveFloor(r) == r.version >= ledger.version /\ r.sequence >= ledger.sequence

NotRolledBack(r) ==
  ~\E i \in DOMAIN ledger.history :
     ledger.history[i].outcome = "rolled back" /\ ledger.history[i].rel = r

Acceptable(q) ==
  /\ NotConsumed(q)
  /\ PreviousCached /\ q.nonce \notin cache
  /\ ledger.pending = None
  /\ q.rel.version \in Emergency \/ AboveFloor(q.rel)
  /\ q.rel.version # jmem.active.rel.version
  /\ q.rel.version \in Emergency \/ NotRolledBack(q.rel)

Examine(q) ==
  /\ tx' = [nonce |-> q.nonce, rel |-> q.rel]
  /\ examined' = (examined \cap {p.nonce : p \in incoming}) \cup {q.nonce}
  /\ UNCHANGED <<elsewhere, jmem, ledger, journal, mishaps>>

\* The verified copy is kept until the request is refused.
Admit ==
  /\ sPc = "scan"
  /\ \E q \in Fresh :
       /\ Acceptable(q) /\ Examine(q)
       /\ cache' = cache \cup {q.nonce}
  /\ sPc' = "reserve"

\* A request can also be refused for its age, target or signature.
TurnDown ==
  /\ sPc = "scan"
  /\ \E q \in Fresh : Examine(q)
  /\ sPc' = "refuse" /\ UNCHANGED cache

NothingToDo ==
  /\ sPc = "scan" /\ Fresh = {}
  /\ Goto("top")
  /\ UNCHANGED <<elsewhere, protectedVars, mishaps>>

Reserve ==
  /\ sPc = "reserve"
  /\ RememberThen(tx.nonce, tx.rel, "commit")
  /\ UNCHANGED <<recoverOnly, ledger, ended>>

Window == [nonce |-> tx.nonce, rel |-> tx.rel,
           start |-> now, deadline |-> now + HealthTimeout]

\* commit_pending opens the transaction in the ledger, arm_health starts its
\* health window again; both publish it through "unack" and "announce".
OpenWindow(pc) ==
  /\ sPc = pc /\ Goto("unack")
  /\ ledger' = [ledger EXCEPT !.pending = Window]
  /\ UNCHANGED <<elsewhere, journal, cache, mishaps>>

Commit == OpenWindow("commit")
Arm == OpenWindow("arm")

publishOnly == <<supervisorOnly, protectedVars, result, incoming, installed,
                 installs, ended, now, mishaps>>

RemoveAck ==
  /\ sPc = "unack" /\ Goto("announce")
  /\ health' = None
  /\ UNCHANGED <<publishOnly, pendHealth>>

Announce ==
  /\ sPc = "announce"
  /\ Goto(IF jmem.pending = None THEN "journal" ELSE "restart")
  /\ pendHealth' = [nonce |-> tx.nonce, version |-> tx.rel.version,
                    start |-> ledger.pending.start,
                    deadline |-> ledger.pending.deadline]
  /\ UNCHANGED <<publishOnly, health>>

\* The journal precedes the installation.  When only the sync after the
\* rename fails the record is there and the copy is dropped.
WriteJournal ==
  /\ sPc = "journal"
  /\ jmem' = [jmem EXCEPT !.pending = tx]
  /\ journal' = jmem'
  /\ \/ sPc' = "accepted" /\ UNCHANGED mishaps
     \/ mishaps < MaxMishaps /\ mishaps' = mishaps + 1 /\ sPc' = "drop"
  /\ UNCHANGED <<elsewhere, tx, examined, ledger, cache>>

answerOnly == <<supervisorOnly, protectedVars, pendHealth, health, incoming,
                installed, installs, ended, now, mishaps>>

\* ack_request.
Answer(outcome) ==
  /\ result' = [nonce |-> tx.nonce, outcome |-> outcome]
  /\ UNCHANGED answerOnly

AnswerAccepted ==
  /\ sPc = "accepted" /\ Goto("install")
  /\ Answer("accepted")

Install ==
  /\ sPc = "install" /\ Goto("arm")
  /\ installed' = tx.rel
  /\ installs' = [installs EXCEPT ![tx.nonce] = @ + 1]
  /\ UNCHANGED <<supervisorOnly, protectedVars, mailVars, ended, now, mishaps>>

RestartInstalled ==
  /\ sPc = "restart"
  /\ RestartAgent
  /\ sPc' = "top" /\ tx' = None /\ UNCHANGED <<jmem, examined>>
  /\ UNCHANGED restartOnly

\* CacheCleanup removes a copy that was not retained.
DropCopy ==
  /\ sPc = "drop"
  /\ cache' = cache \ {tx.nonce}
  /\ IF tx.nonce \in Nonces THEN Goto("refuse") ELSE Exit
  /\ UNCHANGED <<elsewhere, ledger, journal, mishaps>>

Refused == sPc' = "top" /\ tx' = None /\ UNCHANGED <<jmem, examined>>

\* Variant: a refusal is not reported.
RefuseSilently ==
  /\ sPc = "refuse" /\ Refused
  /\ UNCHANGED result /\ UNCHANGED answerOnly

AnswerRefused ==
  /\ sPc = "refuse" /\ Refused
  /\ Answer("refused")

-----------------------------------------------------------------------------
(* Supervisor: failures, crashes, update-seed and time.                    *)

failOnly == <<elsewhere, protectedVars>>

\* An operation fails without effect; one that fails after its effect is the
\* operation followed by a failure of the next.
Fail ==
  /\ mishaps < MaxMishaps /\ mishaps' = mishaps + 1
  /\ \/ sPc \in {"commit", "unack", "announce"} /\ jmem.pending = None /\ Goto("drop")
     \/ sPc \in {"reserve", "journal", "seedFloor", "seedJournal"} /\ Goto("drop")
     \/ sPc = "accepted" /\ Goto("refuse")
     \/ sPc \in {"install", "arm", "restart"} /\ Goto("rbInstall")
     \/ sPc \in {"unack", "announce"} /\ jmem.pending # None /\ Goto("rbInstall")
     \/ sPc = "judge" /\ Goto("deadline")
     \/ sPc = "refuse" /\ Refused
     \/ /\ sPc \in {"rbInstall", "rbRestart", "rbFinish", "clear", "settle", "prune"}
        /\ IF tx = None THEN Exit ELSE Goto("refuse")
     \/ sPc \in {"top", "interrupted", "abort", "completed", "pending",
                "accept", "scan", "seedRemember", "seedCopy", "seedPrune"} /\ Exit
  /\ UNCHANGED failOnly

Crash ==
  /\ mishaps < MaxMishaps /\ mishaps' = mishaps + 1
  /\ sPc # "down" /\ Exit
  /\ UNCHANGED failOnly

\* The service manager starts the supervisor again.
Start ==
  /\ sPc = "down" /\ Goto("top")
  /\ UNCHANGED <<failOnly, mishaps>>

\* update-seed makes the installed release the one to roll back to.  It needs
\* the lock of the supervisor, which ended or is stopped between two passes.
SeedBegin(r) ==
  /\ sPc \in {"down", "top"} /\ seeds < MaxSeeds /\ seeds' = seeds + 1
  /\ journal.pending = None
  /\ jmem' = journal /\ sPc' = "seedRemember" /\ examined' = {}
  /\ tx' = [nonce |-> MaxNonce + 1 + seeds', rel |-> r]
  /\ UNCHANGED <<protectedVars, mailVars, installed, agentVars, historyVars,
                 now, mishaps>>

SeedRemember ==
  /\ sPc = "seedRemember"
  /\ IF jmem.active.dir \in Nonces
     THEN RememberThen(jmem.active.dir, jmem.active.rel, "seedCopy")
     ELSE Goto("seedCopy") /\ UNCHANGED journal
  /\ UNCHANGED <<recoverOnly, ledger, ended>>

SeedCopy ==
  /\ sPc = "seedCopy"
  /\ IF /\ ledger.pending = None
        /\ tx.rel.version = installed.version
        /\ tx.rel.version \in Emergency \/ AboveFloor(tx.rel)
     THEN cache' = cache \cup {tx.nonce} /\ Goto("seedFloor")
     ELSE Exit /\ UNCHANGED cache
  /\ UNCHANGED <<elsewhere, ledger, journal, mishaps>>

SeedFloor ==
  /\ sPc = "seedFloor" /\ Goto("seedJournal")
  /\ ledger' = [ledger EXCEPT !.version = Larger(tx.rel.version, @),
                              !.sequence = Larger(tx.rel.sequence, @)]
  /\ UNCHANGED <<elsewhere, journal, cache, mishaps>>

SeedJournal ==
  /\ sPc = "seedJournal"
  /\ jmem' = [jmem EXCEPT !.active = [rel |-> tx.rel, dir |-> tx.nonce]]
  /\ journal' = jmem' /\ UNCHANGED <<tx, examined>>
  /\ \/ sPc' = "seedPrune" /\ UNCHANGED mishaps
     \/ mishaps < MaxMishaps /\ mishaps' = mishaps + 1 /\ sPc' = "drop"
  /\ UNCHANGED <<elsewhere, ledger, cache>>

SeedPrune ==
  /\ sPc = "seedPrune" /\ Exit
  /\ cache' = cache \cap InUse
  /\ UNCHANGED <<elsewhere, ledger, journal, mishaps>>

\* Time matters while a health window is open.
Tick ==
  /\ ledger.pending # None /\ now <= ledger.pending.deadline
  /\ now' = now + 1
  /\ UNCHANGED <<protectedVars, mailVars, installed, supVars, agentVars,
                 historyVars, seeds, mishaps>>

Recover ==
  \/ ReadState \/ RememberInterrupted \/ RememberCompleted \/ RememberPending
  \/ Judge \/ CheckDeadline
  \/ FinishInterrupted \/ FinishHealthy \/ FinishRolledBack
  \/ ClearAnnouncement \/ ClearHealth \/ Settle
  \/ RollbackInstall \/ RollbackRestart \/ Prune

Accept ==
  \/ Admit \/ TurnDown \/ NothingToDo \/ Reserve \/ Commit \/ Arm
  \/ RemoveAck \/ Announce \/ WriteJournal \/ AnswerAccepted \/ Install
  \/ RestartInstalled \/ DropCopy \/ AnswerRefused

Seed ==
  \/ SeedRemember \/ SeedCopy \/ SeedFloor \/ SeedJournal \/ SeedPrune

Supervisor == Recover \/ Accept \/ Seed \/ Start

Next ==
  \/ Agent \/ AgentRestart \/ Supervisor \/ Fail \/ Crash \/ Tick
  \/ \E r \in Releases : SeedBegin(r)

Spec == Init /\ [][Next]_vars

\* The supervisor is a loop, its service is started again when it ends, and
\* time goes on.  Nothing is assumed about the agent.
FairSpec == Spec /\ WF_vars(Supervisor) /\ WF_vars(Tick)

-----------------------------------------------------------------------------
(* Properties.                                                             *)

Pcs == {"down", "top", "interrupted", "abort", "completed", "pending", "judge",
        "accept", "deadline", "rbInstall", "rbRestart", "rbFinish", "clear",
        "clearHealth", "settle", "prune", "scan", "reserve", "commit", "unack",
        "announce", "journal", "accepted", "install", "arm", "restart",
        "refuse", "drop", "seedRemember", "seedCopy", "seedFloor",
        "seedJournal", "seedPrune"}

\* The variables have their types and the supervisor's records their bounds:
\* history_limit endings and MAX_REQUESTS receipts.
TypeOK ==
  /\ ledger \in [version : Nat, sequence : Nat, pending : Windows \cup {None},
                 history : Seq(Endings)]
  /\ Len(ledger.history) <= HistoryLimit
  /\ journal \in Journals /\ jmem \in Journals \cup {None}
  /\ IsFiniteSet(journal.consumed) /\ Cardinality(journal.consumed) <= MaxConsumed
  /\ tx \in Requests \cup {None} /\ examined \subseteq Nonces
  /\ cache \subseteq Dirs
  /\ pendHealth \in Announcements \cup {None}
  /\ {health, aAck} \subseteq Acks \cup {None}
  /\ result \in Results \cup {None}
  /\ incoming \subseteq [nonce : Nonces, rel : Releases, ready : BOOLEAN]
  /\ sPc \in Pcs /\ aPc \in {"idle", "ack", "reap", "stage", "download"}
  /\ {installed, running} \subseteq Releases /\ aRel \in Releases \cup {None}
  /\ installs \in [Nonces -> Nat] /\ proven \subseteq Nonces
  /\ ended \in [Nonces -> Outcomes \cup {None}]
  /\ offers \in Seq(Releases) /\ Len(offers) <= MaxNonce
  /\ {now, mishaps} \subseteq Nat /\ seeds \in 0..MaxSeeds

\* A request is installed at most once, whatever ends the supervisor and
\* however long the agent leaves the request in its queue
\* (remember_consumed_nonce: never evict replayable nonces).
NeverReplayed == \A n \in Nonces : installs[n] <= 1

\* Every installed request has a receipt or, without an emergency exception, is
\* below the floor (remember_consumed_nonce prunes what the floor must reject).
ReceiptsKept ==
  \A n \in 1..Len(offers) :
    \/ installs[n] = 0
    \/ \E c \in journal.consumed : c.nonce = n /\ c.rel = offers[n]
    \/ ~AboveFloor(offers[n])

\* While both records of a transaction are there they name the same one, and
\* a journal entry left alone is the newest ending of the ledger: no sequence
\* of crashes leads to the states that recover_or_ack leaves to an administrator.
NoRepairNeeded ==
  journal.pending # None =>
    LET p == journal.pending
        q == IF ledger.pending = None THEN Last ELSE ledger.pending
    IN /\ ledger.pending = None => ledger.history # << >>
       /\ q.nonce = p.nonce /\ q.rel = p.rel

\* The package an open transaction would be rolled back to is in the cache.
RollbackPossible == journal.pending # None => journal.active.dir \in cache

\* The anti-rollback floor is that of the first release and of the releases
\* recorded healthy: an unproven one does not raise it, and neither a rollback
\* nor an emergency exception lowers it (update-seed, which may raise it, apart).
FloorIsProven ==
  LET proved == {First} \cup {offers[n] : n \in {m \in 1..Len(offers) :
                                                ended[m] = "healthy"}}
  IN /\ \A r \in proved : r.version <= ledger.version /\ r.sequence <= ledger.sequence
     /\ \E r \in proved : r.version = ledger.version
     /\ \E r \in proved : r.sequence = ledger.sequence

\* With no transaction open the host runs the release the journal calls active,
\* the one later requests are compared with ("already installed") and rolled
\* back to.
ActiveIsInstalled ==
  sPc = "scan" => installed = journal.active.rel

\* The same of a host on which nothing failed or was interrupted.
ActiveUnlessInterrupted == mishaps = 0 => ActiveIsInstalled

\* Every transaction ends (supervise runs rollback when the health window is
\* over, also after it was interrupted).
TransactionEnds == ledger.pending # None ~> ledger.pending = None

Waiting(n) == \E q \in incoming : q.nonce = n /\ q.ready

\* Every published request is answered, unless the agent removes it first or
\* the file operation that reports the answer fails (supervise ignores that).
RequestAnswered ==
  \A n \in Nonces :
    Waiting(n) ~> \/ ~Waiting(n) \/ mishaps > 0
                  \/ result # None /\ result.nonce = n

\* The phase of a request in UpdateTransaction.
phaseOf == [n \in Nonces |->
  IF ended[n] # None THEN ended[n]
  ELSE IF ledger.pending # None /\ ledger.pending.nonce = n THEN "open"
  ELSE "new"]

Contract == INSTANCE UpdateTransaction WITH
  phase <- phaseOf, placed <- {n \in Nonces : installs[n] > 0}

\* Whatever the two processes do and whenever the supervisor ends, the requests
\* follow UpdateTransaction: one transaction at a time, installed at most once,
\* "interrupted" only when nothing was installed (recover_or_ack_with), "healthy"
\* only when it was proven, and endings are final.
ImplementsTransaction == Contract!Spec
=============================================================================
