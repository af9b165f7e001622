------------------------------ MODULE Startup ------------------------------
(***************************************************************************)
(* How an agent comes up and goes down: run_internal and run_async of      *)
(* app.rs with config.rs, crash.rs, service.rs and identity.rs.            *)
(*                                                                         *)
(* Two processes share one state directory: the one the service manager    *)
(* starts and restarts, and one an operator starts by hand.  Processes are *)
(* killed, the machine loses power, the disk and the server fail.  What    *)
(* the loops of a running agent do is in the other modules.                *)
(***************************************************************************)
EXTENDS Naturals, FiniteSets

CONSTANTS
    Configs,      \* the configurations the operator may write
    Pids,         \* process ids
    MaxIds,       \* bound on generated identities
    MaxPanics,    \* bound on panics
    MaxTroubles,  \* bound on faults, kills, power losses and stops
    None

ASSUME StartupAssumption ==
    /\ MaxIds \in Nat /\ MaxPanics \in Nat /\ MaxTroubles \in Nat
    /\ None \notin Nat \cup {"service", "manual"}

MIN_INTERVAL_SECS == 10
MAX_INTERVAL_SECS == 86400
REGISTER_MAX_ATTEMPTS == 5
DEFAULT_INTERVAL_SECS == 3600

VARIABLES
    windows,     \* the agent is a Windows service
    conf,        \* the configuration: file and environment
    proc,        \* by slot: a process, or one that is "off"
    lock,        \* the slot that holds lariska.lock
    agent_id,    \* the identity file as processes see it ...
    durable,     \* ... and as a power loss would leave it
    temps,       \* pids whose temporary identity file exists
    report,      \* crash_report.json
    wanted,      \* the operator wants the service to run
    generated, panics, troubles,
    registered,  \* server: identities it has registered
    logged,      \* crash reports some start has logged
    exposed,     \* identities whose start ended between the rename and the
                 \* sync of the directory: a power loss can take them back
    lost,        \* identities whose file could not be examined, or that a
                 \* power loss took back because nothing had synced them
    missed       \* crash reports that could not be read, or came while
                 \* another process was moving one aside

disk == <<agent_id, durable, temps, report>>
ghosts == <<registered, logged, exposed, lost, missed>>
setup == <<windows, conf>>
vars == <<setup, proc, lock, disk, wanted, generated, panics, troubles, ghosts>>

Slots == {"service", "manual"}

Off == [pc |-> "off", pid |-> None, id |-> None, attempts |-> 0, stop |-> FALSE]

-----------------------------------------------------------------------------
(* The configuration.  A setting that is absent is None; "garbage" stands  *)
(* for a value of the environment that does not parse.                     *)

Override(file, env) == IF env = None THEN file ELSE env

OrDefault(value, default) == IF value = None THEN default ELSE value

ValidUrl(scheme, plain) == scheme = "https" \/ (plain = "true" /\ scheme = "http")

validate_interval(secs) == secs \in MIN_INTERVAL_SECS .. MAX_INTERVAL_SECS

(* from_file_and_env: the environment overrides the file before the        *)
(* defaults and the checks apply.                                          *)
Valid(c) ==
    /\ c.env.plain # "garbage"
    /\ Override(c.file.scheme, c.env.scheme) # None
    /\ ValidUrl(Override(c.file.scheme, c.env.scheme),
                OrDefault(Override(c.file.plain, c.env.plain), "false"))
    /\ validate_interval(OrDefault(Override(c.file.interval, c.env.interval),
                                   DEFAULT_INTERVAL_SECS))
    /\ c.key_file

(* With --service the state directory must be absolute. *)
Accepted(s, c) == s = "service" => c.absolute

-----------------------------------------------------------------------------
Alive(s) == proc[s].pc # "off"
At(s, pc) == proc[s].pc = pc
Go(s, pc) == proc' = [proc EXCEPT ![s].pc = pc]
Trouble == troubles < MaxTroubles /\ troubles' = troubles + 1

(* The process ends; the system releases its lock. *)
Released_Never(s) == lock' = lock

Released(s) == lock' = IF lock = s THEN None ELSE lock

Exit(s) == proc' = [proc EXCEPT ![s] = Off] /\ Released(s)

(* The next start loads the new identity and does not sync it.             *)
Unsynced(s) == exposed' = exposed \cup {proc[t].id : t \in {t \in {s} : At(t, "sync")}}

(* A service that failed is started again; one that ended well is not, and *)
(* ends well only when it was asked to stop.                               *)
Launch(s) ==
    /\ At(s, "off")
    /\ IF s = "service" THEN wanted /\ UNCHANGED troubles ELSE Trouble
    /\ \E pid \in Pids \ {proc[t].pid : t \in Slots} :
           proc' = [proc EXCEPT ![s] = [Off EXCEPT !.pc = "config", !.pid = pid]]
    /\ UNCHANGED <<setup, lock, disk, wanted, generated, panics, ghosts>>

ReadConfig(s) ==
    /\ At(s, "config")
    /\ IF Valid(conf) THEN Go(s, "look") /\ UNCHANGED lock ELSE Exit(s)
    /\ UNCHANGED <<setup, disk, wanted, generated, panics, troubles, ghosts>>

Look_Unread(s) ==
    /\ At(s, "look")
    /\ Go(s, IF report = None THEN "lock" ELSE "archive")
    /\ UNCHANGED <<setup, lock, disk, wanted, generated, panics, troubles, ghosts>>

(* check_and_report_previous_crash comes before the lock: it logs the      *)
(* report it reads, and moves aside the one that is there then.            *)
Look(s) ==
    /\ At(s, "look")
    /\ Go(s, IF report = None THEN "lock" ELSE "archive")
    /\ \/ logged' = logged \cup ({report} \ {None}) /\ UNCHANGED <<missed, troubles>>
       \/ report # None /\ Trouble /\ missed' = missed \cup {report} /\ UNCHANGED logged
    /\ UNCHANGED <<setup, lock, disk, wanted, generated, panics, registered, exposed, lost>>

Archive(s) ==
    /\ At(s, "archive")
    /\ Go(s, "lock")
    /\ report' = None
    /\ UNCHANGED <<setup, lock, agent_id, durable, temps, wanted, generated, panics,
                   troubles, ghosts>>

acquire_Shared(s) == lock' = s /\ Go(s, "identity")

acquire(s) ==
    IF lock = None THEN lock' = s /\ Go(s, "identity") ELSE Exit(s)

Lock(s) ==
    /\ At(s, "lock")
    /\ IF Accepted(s, conf) THEN acquire(s) ELSE Exit(s)
    /\ UNCHANGED <<setup, disk, wanted, generated, panics, troubles, ghosts>>

-----------------------------------------------------------------------------
(* The identity *)

LoadIdentity(s) ==
    /\ At(s, "identity")
    /\ agent_id # None
    /\ proc' = [proc EXCEPT ![s].id = agent_id, ![s].pc = "register"]
    /\ UNCHANGED <<setup, lock, disk, wanted, generated, panics, troubles, ghosts>>

(* A new identity is written to a file named after the process, which must *)
(* not exist.  An identity file that cannot be examined is taken for a     *)
(* missing one.                                                            *)
NewIdentity(s) ==
    /\ At(s, "identity")
    /\ \/ agent_id = None /\ UNCHANGED <<troubles, lost>>
       \/ agent_id # None /\ Trouble /\ lost' = lost \cup {agent_id}
    /\ IF proc[s].pid \in temps
       THEN Exit(s) /\ UNCHANGED <<temps, generated>>
       ELSE /\ generated < MaxIds /\ generated' = generated + 1
            /\ temps' = temps \cup {proc[s].pid}
            /\ proc' = [proc EXCEPT ![s].id = generated', ![s].pc = "rename"]
            /\ UNCHANGED lock
    /\ UNCHANGED <<setup, agent_id, durable, report, wanted, panics,
                   registered, logged, exposed, missed>>

Rename(s) ==
    /\ At(s, "rename")
    /\ agent_id' = proc[s].id
    /\ temps' = temps \ {proc[s].pid}
    /\ Go(s, "sync")
    /\ UNCHANGED <<setup, lock, durable, report, wanted, generated, panics, troubles, ghosts>>

sync_parent_dir_Skipped == durable' = durable

(* Outside Unix it does nothing.                                           *)
sync_parent_dir == durable' = IF windows THEN durable ELSE agent_id

Sync(s) ==
    /\ At(s, "sync")
    /\ sync_parent_dir
    /\ Go(s, "register")
    /\ UNCHANGED <<setup, lock, agent_id, temps, report, wanted, generated, panics,
                   troubles, ghosts>>

(* Writing, renaming or syncing fails, and the start with it. *)
DiskFails(s) ==
    /\ proc[s].pc \in {"rename", "sync"}
    /\ Trouble
    /\ Exit(s) /\ Unsynced(s)
    /\ UNCHANGED <<setup, disk, wanted, generated, panics, registered, logged, lost, missed>>

-----------------------------------------------------------------------------
(* Registration *)

Registers(s) ==
    /\ At(s, "register")
    /\ registered' = registered \cup {proc[s].id}
    /\ Go(s, "run")
    /\ UNCHANGED <<setup, lock, disk, wanted, generated, panics, troubles,
                   logged, exposed, lost, missed>>

Exhausted(s) == proc[s].attempts + 1 >= REGISTER_MAX_ATTEMPTS

(* The server may have acted on a request whose answer failed.  Transient  *)
(* failures are retried, a few times; a refusal ends the process.          *)
RegisterFails(s) ==
    /\ At(s, "register")
    /\ registered' \in {registered, registered \cup {proc[s].id}}
    /\ IF Exhausted(s)
       THEN Exit(s)
       ELSE \/ proc' = [proc EXCEPT ![s].attempts = @ + 1] /\ UNCHANGED lock
            \/ Exit(s)
    /\ UNCHANGED <<setup, disk, wanted, generated, panics, troubles,
                   logged, exposed, lost, missed>>

-----------------------------------------------------------------------------
(* Going down *)

Notify(s) ==
    IF windows \/ At(s, "run")
    THEN proc' = [proc EXCEPT ![s].stop = TRUE] /\ UNCHANGED lock
    ELSE Exit(s)

AskToStop ==
    /\ wanted /\ Alive("service")
    /\ Trouble
    /\ wanted' = FALSE
    /\ Notify("service") /\ Unsynced("service")
    /\ UNCHANGED <<setup, disk, generated, panics, registered, logged, lost, missed>>

Stops(s) ==
    /\ At(s, "run") /\ proc[s].stop
    /\ Exit(s)
    /\ UNCHANGED <<setup, disk, wanted, generated, panics, troubles, ghosts>>

StartAgain ==
    /\ ~wanted /\ ~Alive("service")
    /\ Trouble
    /\ wanted' = TRUE
    /\ UNCHANGED <<setup, proc, lock, disk, generated, panics, ghosts>>

(* The hook is in place once the configuration has been read.  A panic of  *)
(* a collector's task is caught, any other ends the process.               *)
Hooked(s) == proc[s].pc \notin {"off", "config"}

Panic(s) ==
    /\ Hooked(s)
    /\ panics < MaxPanics /\ panics' = panics + 1
    /\ report' = panics'
    /\ missed' = IF \E t \in Slots \ {s} : At(t, "archive")
                THEN missed \cup {report'} ELSE missed
    /\ \/ Exit(s) /\ Unsynced(s)
       \/ At(s, "run") /\ UNCHANGED <<proc, lock, exposed>>
    /\ UNCHANGED <<setup, agent_id, durable, temps, wanted, generated, troubles,
                   registered, logged, lost>>

Killed(s) ==
    /\ Alive(s) /\ Trouble
    /\ Exit(s) /\ Unsynced(s)
    /\ UNCHANGED <<setup, disk, wanted, generated, panics, registered, logged, lost, missed>>

(* Nothing syncs the directory of the crash report or of the temporary     *)
(* identity files.                                                         *)
PowerLoss ==
    /\ Trouble
    /\ proc' = [s \in Slots |-> Off]
    /\ lock' = None
    /\ agent_id' \in {agent_id, durable} /\ durable' = agent_id'
    /\ temps' \in SUBSET temps
    /\ report' \in {report, None}
    /\ lost' = lost \cup {id \in {agent_id} \ {agent_id', None} : windows \/ id \in exposed}
    /\ exposed' = exposed \ {agent_id'}
    /\ UNCHANGED <<setup, wanted, generated, panics, registered, logged, missed>>

Reconfigure ==
    /\ Trouble
    /\ conf' \in Configs \ {conf}
    /\ UNCHANGED <<windows, proc, lock, disk, wanted, generated, panics, ghosts>>

-----------------------------------------------------------------------------
Init ==
    /\ windows \in BOOLEAN
    /\ conf \in Configs
    /\ proc = [s \in Slots |-> Off]
    /\ lock = None
    /\ agent_id = None /\ durable = None /\ temps = {} /\ report = None
    /\ wanted = TRUE
    /\ generated = 0 /\ panics = 0 /\ troubles = 0
    /\ registered = {} /\ logged = {} /\ exposed = {} /\ lost = {} /\ missed = {}

(* What a start does by itself. *)
Step(s) ==
    \/ Launch(s) \/ ReadConfig(s) \/ Look(s) \/ Archive(s) \/ Lock(s)
    \/ LoadIdentity(s) \/ NewIdentity(s) \/ Rename(s) \/ Sync(s)
    \/ Registers(s) \/ RegisterFails(s) \/ Stops(s)

Next ==
    \/ \E s \in Slots : Step(s) \/ DiskFails(s) \/ Panic(s) \/ Killed(s)
    \/ AskToStop \/ StartAgain \/ PowerLoss \/ Reconfigure

(* A process goes on, and the server answers a registration now and then.  *)
Fairness == \A s \in Slots :
    /\ WF_vars(ReadConfig(s) \/ Look(s) \/ Archive(s) \/ Lock(s)
               \/ LoadIdentity(s) \/ NewIdentity(s) \/ Rename(s) \/ Sync(s)
               \/ RegisterFails(s) \/ Stops(s))
    /\ WF_vars(s = "service" /\ Launch(s))
    /\ SF_vars(Registers(s))

Spec == Init /\ [][Next]_vars
FairSpec == Spec /\ Fairness

-----------------------------------------------------------------------------
Ids == 1 .. MaxIds

Reports == 1 .. MaxPanics

Processes ==
    [pc : {"off", "config", "look", "archive", "lock", "identity", "rename", "sync",
           "register", "run"},
     pid : Pids \cup {None}, id : Ids \cup {None},
     attempts : 0 .. REGISTER_MAX_ATTEMPTS - 1, stop : BOOLEAN]

(* Every variable holds a value of its kind; registration is retried a     *)
(* bounded number of times (app.rs:438).                                   *)
TypeOK ==
    /\ {windows, wanted} \subseteq BOOLEAN
    /\ conf \in Configs
    /\ proc \in [Slots -> Processes]
    /\ \A s \in Slots :
          /\ proc[s].pc # "off" => proc[s].pid \in Pids
          /\ proc[s].pc \in {"rename", "sync", "register", "run"} => proc[s].id \in Ids
    /\ lock \in Slots \cup {None}
    /\ {agent_id, durable} \subseteq Ids \cup {None}
    /\ temps \subseteq Pids /\ report \in Reports \cup {None}
    /\ generated \in 0 .. MaxIds /\ panics \in 0 .. MaxPanics /\ troubles \in 0 .. MaxTroubles
    /\ registered \cup exposed \cup lost \subseteq Ids
    /\ logged \cup missed \subseteq Reports

(* Whatever is killed or started beside it, a machine is registered under  *)
(* one identity (identity.rs:17, wiki/Operations.md:64), not counting the  *)
(* ones whose file could not be examined and the ones a power loss took    *)
(* back because nothing had synced them (lost).                            *)
OneIdentity == Cardinality(registered \ lost) <= 1

(* A registered identity stays in the file.  It is lost only if the file   *)
(* could not be examined, or in a power loss, and then only where nothing  *)
(* synced the directory: on Windows, and when a start was cut short        *)
(* between the rename and the sync, because the next one loads the         *)
(* identity and registers it without syncing (identity.rs:25, 67-68).      *)
RegisteredIsKept ==
    [][agent_id' # agent_id => agent_id \notin registered \ lost']_vars

(* A crash report goes only after a start has logged it, or with a power   *)
(* loss, unless it could not be read or a second start was moving an older *)
(* one aside (crash.rs:64).                                                *)
ReportsAreLogged ==
    [][report # None /\ report' = None
       => report \in logged \cup missed \/ PowerLoss]_vars

(* With faults over, an agent runs, unless the configuration is refused,   *)
(* the operator stopped the service, or temporary identity files are in    *)
(* the way.                                                                *)
Hindered == \/ ~wanted \/ ~Valid(conf) \/ ~conf.absolute
            \/ agent_id = None /\ temps # {}
AgentRuns == []<>(Hindered \/ \E s \in Slots : At(s, "run"))
=============================================================================
