------------------------------ MODULE Managed -------------------------------
(***************************************************************************)
(* Registration, heartbeat, managed settings and the inventory schedule    *)
(* (src/src/heartbeat.rs, managed.rs, app.rs): the heartbeat loop reports  *)
(* the revision it obeys and receives the server's decision, applies it to *)
(* the intervals both loops run on, and tries an offered build once; the   *)
(* inventory loop collects when its timer ends and starts the timer again  *)
(* when the intervals change.                                              *)
(*                                                                         *)
(* The two loops are branches of one task, so a loop is interrupted only   *)
(* at an await.  Timers count the time left in one unit; time passes only  *)
(* while no idle loop has something due.                                   *)
(***************************************************************************)
EXTENDS Naturals, Integers

CONSTANTS
  None,           \* absence of a value
  Settings,       \* settings an operator can publish: [heartbeat, inventory, level]
  Offers,         \* builds the server can offer
  Local,          \* Runtime::from_config and the configured log level
  Levels,         \* MANAGED_LOG_LEVELS
  MinInterval,    \* MIN_MANAGED_INTERVAL_SECS
  MaxInterval,    \* MAX_MANAGED_INTERVAL_SECS
  MaxEffective,   \* MAX_EFFECTIVE_INVENTORY_INTERVAL
  MaxStartup,     \* MAX_STARTUP_JITTER
  JitterDivisor,  \* INVENTORY_JITTER_DIVISOR
  BatteryFactor,  \* BATTERY_INTERVAL_MULTIPLIER
  AgentHash,      \* the digest of the agent's identity as a number
  MaxRegister,    \* REGISTER_MAX_ATTEMPTS
  Unstamped,      \* may a policy carry no revision (an older console)?
  MaxPolicies,    \* bound on policies published
  MaxOffers,      \* bound on changes of the offer
  MaxDowngrades,  \* bound on changes of the server's schema version
  MaxLag          \* bound on how late the heartbeat ticker can be

ASSUME ManagedConstants ==
  /\ None \notin Offers /\ None \notin Settings /\ None \notin Nat
  /\ {MinInterval, MaxInterval, MaxEffective, JitterDivisor, BatteryFactor, MaxRegister}
       \subseteq Nat \ {0}
  /\ {MaxStartup, AgentHash, MaxPolicies, MaxOffers, MaxDowngrades, MaxLag}
       \subseteq Nat
  /\ MaxStartup <= MaxEffective
  /\ Unstamped \in BOOLEAN
  /\ Local.heartbeat \in MinInterval..MaxInterval
  /\ Local.inventory \in MinInterval..MaxInterval

VARIABLES
  \* server
  policy,     \* the directive it repeats: [revision, settings]
  published,  \* published[r]: settings of the policies that carry revision r
  offer,      \* the build it offers, or None
  capability, \* the inventory schema version it announces
  reported,   \* the revision the last heartbeat reported
  \* process
  phase,      \* "down", "registering", "running"
  attempt,    \* attempts of register_with_retry
  runtime,    \* the watch channel: [heartbeat, inventory]
  level,      \* log level in force
  schema,     \* inventory_schema_version
  unversioned,\* last_unversioned_settings
  \* heartbeat loop
  hPc,        \* "idle", "sent", "answered", "trying"
  hLeft,      \* time until the ticker fires; negative when it is late
  hChanged,   \* is a change of the channel unseen by this loop?
  answer,     \* the directive and offer in the answer being handled
  applied, declined,
  \* inventory loop
  iPc,        \* "waiting", "collecting"
  iLeft, iChanged,
  iSchema,    \* the schema version read before the collection
  \* observations
  lastSnap,   \* the last snapshot handed to delivery: [schema, complete]
  tries,      \* builds tried by this process
  budget      \* what is left of each bound

server == <<policy, published, offer, capability>>
beat == <<hPc, hLeft, hChanged, answer, applied, declined, reported, tries>>
inventory == <<iPc, iLeft, iChanged, iSchema, lastSnap>>
vars == <<server, beat, inventory, phase, attempt, runtime, level, schema,
          unversioned, budget>>

Revisions == 1..MaxPolicies
Directive == [revision : Revisions \cup {None}, settings : Settings \cup {None}]
NoPolicy == [revision |-> None, settings |-> None]
Intervals == MinInterval..MaxInterval

Lower(a, b) == IF a < b THEN a ELSE b

-----------------------------------------------------------------------------
(* Schedule.                                                               *)

StableJitter(max) == AgentHash % (max + 1)

StartupDelay(base) == StableJitter(Lower(base \div JitterDivisor, MaxStartup))

\* A plausible bug: the jitter is not limited by the room below the maximum.
JitterBeyondRoom(base, battery) ==
  LET effective == Lower(base * (IF battery THEN BatteryFactor ELSE 1), MaxEffective)
  IN effective + StableJitter(effective \div JitterDivisor)

ScheduledDelay(base, battery) ==
  LET effective == Lower(base * (IF battery THEN BatteryFactor ELSE 1), MaxEffective)
      room == MaxEffective - effective
  IN effective + StableJitter(Lower(effective \div JitterDivisor, room))

-----------------------------------------------------------------------------
(* Settings.                                                               *)

ValidSettings(s) ==
  /\ s.heartbeat \in Intervals \cup {None}
  /\ s.inventory \in Intervals \cup {None}
  /\ s.level \in Levels \cup {None}

Override(new, old) == IF new = None THEN old ELSE new

Merged(s) == [heartbeat |-> Override(s.heartbeat, runtime.heartbeat),
              inventory |-> Override(s.inventory, runtime.inventory)]

\* The revision to acknowledge: one that was not applied is not.
Acknowledged(d) ==
  IF d.settings # None /\ ~ValidSettings(d.settings) THEN applied
  ELSE Override(d.revision, applied)

\* apply_settings has already acted on this revision.
Repeated(d) == d.revision # None /\ d.revision = applied

\* A plausible bug: only the inventory interval is compared.
InventoryChanges(next) == next.inventory # runtime.inventory

\* send_replace only for a real change.
Changes(next) == next # runtime

\* What apply_settings does with directive d.
ApplySettings(d) ==
  /\ applied' = Acknowledged(d)
  /\ IF \/ d.settings = None \/ Repeated(d) \/ ~ValidSettings(d.settings)
        \/ d.revision = None /\ unversioned = d.settings
     THEN UNCHANGED <<runtime, level, unversioned, hChanged, iChanged>>
     ELSE /\ unversioned' = IF d.revision = None THEN d.settings ELSE unversioned
          /\ level' = Override(d.settings.level, level)
          /\ IF Changes(Merged(d.settings))
             THEN /\ runtime' = Merged(d.settings)
                  /\ hChanged' = TRUE /\ iChanged' = TRUE
             ELSE UNCHANGED <<runtime, hChanged, iChanged>>

-----------------------------------------------------------------------------
(* The process.                                                            *)

Start ==
  /\ phase = "down"
  /\ phase' = "registering" /\ attempt' = 1
  /\ UNCHANGED <<server, beat, inventory, runtime, level, schema, unversioned, budget>>

\* The loops begin.
RegisterAccepted ==
  /\ phase = "registering"
  /\ phase' = "running" /\ attempt' = 0
  /\ schema' = capability
  /\ UNCHANGED <<server, beat, inventory, runtime, level, unversioned, budget>>

RegisterFails(retryable) ==
  /\ phase = "registering"
  /\ IF retryable /\ attempt < MaxRegister
     THEN attempt' = attempt + 1 /\ UNCHANGED phase
     ELSE phase' = "down" /\ attempt' = 0
  /\ UNCHANGED <<server, beat, inventory, runtime, level, schema, unversioned, budget>>

\* A stop, a failure of the process, or the restart after an update: the next
\* process has the local configuration, and its ticker skips the first tick.
Stop ==
  /\ phase # "down"
  /\ phase' = "down" /\ attempt' = 0
  /\ runtime' = [heartbeat |-> Local.heartbeat, inventory |-> Local.inventory]
  /\ level' = Local.level
  /\ schema' = 1 /\ unversioned' = None
  /\ hPc' = "idle" /\ hLeft' = Local.heartbeat /\ hChanged' = FALSE
  /\ answer' = None /\ applied' = None /\ declined' = None /\ tries' = 0
  /\ iPc' = "waiting" /\ iLeft' = StartupDelay(Local.inventory)
  /\ iChanged' = FALSE /\ iSchema' = 1 /\ lastSnap' = None
  /\ UNCHANGED <<server, reported, budget>>

-----------------------------------------------------------------------------
(* The heartbeat loop.                                                     *)

Running == phase = "running"

Beat ==
  /\ Running /\ hPc = "idle" /\ hLeft <= 0
  /\ hPc' = "sent"
  /\ hLeft' = hLeft + runtime.heartbeat
  /\ UNCHANGED <<server, inventory, phase, attempt, runtime, level, schema,
                 unversioned, budget, hChanged, answer, applied, declined,
                 reported, tries>>

\* The server records what the agent reports and repeats its decision.
ServerAnswers ==
  /\ Running /\ hPc = "sent"
  /\ hPc' = "answered"
  /\ reported' = applied
  /\ answer' = [directive |-> policy, offer |-> offer, schema |-> capability]
  /\ UNCHANGED <<server, inventory, phase, attempt, runtime, level, schema,
                 unversioned, budget, hLeft, hChanged, applied, declined, tries>>

\* The request fails, or its answer is lost.
BeatFails ==
  /\ Running /\ hPc \in {"sent", "answered"}
  /\ hPc' = "idle"
  /\ answer' = None
  /\ UNCHANGED <<server, inventory, phase, attempt, runtime, level, schema,
                 unversioned, budget, hLeft, hChanged, applied, declined,
                 reported, tries>>

\* A plausible bug: the build that was tried is not remembered.
NotDeclined(o) == o # None

Untried(o) == o # None /\ o # declined

\* The answer is handled up to the first await of try_update.
Receive ==
  /\ Running /\ hPc = "answered"
  /\ schema' = IF answer.schema = 2 THEN 2 ELSE 1
  /\ ApplySettings(answer.directive)
  /\ IF Untried(answer.offer)
     THEN hPc' = "trying" /\ tries' = tries + 1 /\ UNCHANGED answer
     ELSE hPc' = "idle" /\ answer' = None /\ UNCHANGED tries
  /\ UNCHANGED <<server, phase, attempt, budget, hLeft, declined, reported,
                 iPc, iLeft, iSchema, lastSnap>>

\* Queued, refused or failed: try_update always returns None.
Tried ==
  /\ Running /\ hPc = "trying"
  /\ hPc' = "idle"
  /\ declined' = answer.offer
  /\ answer' = None
  /\ UNCHANGED <<server, inventory, phase, attempt, runtime, level, schema,
                 unversioned, budget, hLeft, hChanged, applied, reported, tries>>

\* A plausible bug: the new value is read and not marked as seen.
RebuildUnseen ==
  /\ Running /\ hPc = "idle" /\ hChanged
  /\ hLeft' = runtime.heartbeat
  /\ UNCHANGED <<server, inventory, phase, attempt, runtime, level, schema,
                 unversioned, budget, hPc, hChanged, answer, applied, declined,
                 reported, tries>>

\* The ticker is rebuilt with the new period.
RebuildTicker ==
  /\ Running /\ hPc = "idle" /\ hChanged
  /\ hChanged' = FALSE
  /\ hLeft' = runtime.heartbeat
  /\ UNCHANGED <<server, inventory, phase, attempt, runtime, level, schema,
                 unversioned, budget, hPc, answer, applied, declined, reported, tries>>

-----------------------------------------------------------------------------
(* The inventory loop.                                                     *)

CollectBegin ==
  /\ Running /\ iPc = "waiting" /\ iLeft = 0
  /\ iPc' = "collecting"
  /\ iSchema' = schema
  /\ UNCHANGED <<server, beat, phase, attempt, runtime, level, schema,
                 unversioned, budget, iLeft, iChanged, lastSnap>>

\* A plausible bug: completeness is judged by the version announced now, the
\* snapshot is built for the one read before the collection.
PublishableNow(complete) == complete \/ schema # 1

\* A version 1 snapshot must be complete: the server reads absence as removal.
Publishable(complete) == complete \/ iSchema # 1

CollectEnd(complete, battery) ==
  /\ Running /\ iPc = "collecting"
  /\ lastSnap' = IF Publishable(complete)
                 THEN [schema |-> iSchema, complete |-> complete] ELSE lastSnap
  /\ iPc' = "waiting"
  /\ iLeft' = ScheduledDelay(runtime.inventory, battery)
  /\ UNCHANGED <<server, beat, phase, attempt, runtime, level, schema,
                 unversioned, budget, iChanged, iSchema>>

\* A change of the intervals starts the timer again.
Reschedule(battery) ==
  /\ Running /\ iPc = "waiting" /\ iChanged
  /\ iChanged' = FALSE
  /\ iLeft' = ScheduledDelay(runtime.inventory, battery)
  /\ UNCHANGED <<server, beat, phase, attempt, runtime, level, schema,
                 unversioned, budget, iPc, iSchema, lastSnap>>

-----------------------------------------------------------------------------
(* Server and time.                                                        *)

Publish(s) ==
  /\ budget.policies > 0
  /\ \/ LET r == MaxPolicies - budget.policies + 1 IN
        /\ policy' = [revision |-> r, settings |-> s]
        /\ published' = [published EXCEPT ![r] = s]
     \/ /\ Unstamped
        /\ policy' = [revision |-> None, settings |-> s]
        /\ UNCHANGED published
  /\ budget' = [budget EXCEPT !.policies = @ - 1]
  /\ UNCHANGED <<offer, capability, beat, inventory, phase, attempt, runtime,
                 level, schema, unversioned>>

Offer(o) ==
  /\ budget.offers > 0 /\ o # offer
  /\ offer' = o
  /\ budget' = [budget EXCEPT !.offers = @ - 1]
  /\ UNCHANGED <<policy, published, capability, beat, inventory, phase, attempt,
                 runtime, level, schema, unversioned>>

ChangeCapability ==
  /\ budget.downgrades > 0
  /\ capability' = 3 - capability
  /\ budget' = [budget EXCEPT !.downgrades = @ - 1]
  /\ UNCHANGED <<policy, published, offer, beat, inventory, phase, attempt,
                 runtime, level, schema, unversioned>>

\* A loop that is idle handles what is due before more time passes.
HeartbeatDue == hPc = "idle" /\ (hLeft <= 0 \/ hChanged)
InventoryDue == iPc = "waiting" /\ (iLeft = 0 \/ iChanged)

Tick ==
  /\ Running /\ ~HeartbeatDue /\ ~InventoryDue
  /\ hLeft > -MaxLag
  /\ hLeft' = hLeft - 1
  /\ iLeft' = IF iLeft > 0 THEN iLeft - 1 ELSE 0
  /\ UNCHANGED <<server, phase, attempt, runtime, level, schema, unversioned,
                 budget, hPc, hChanged, answer, applied, declined, reported,
                 tries, iPc, iChanged, iSchema, lastSnap>>

-----------------------------------------------------------------------------
Init ==
  /\ policy = NoPolicy
  /\ published = [r \in Revisions |-> None]
  /\ offer = None
  /\ capability \in {1, 2}
  /\ reported = None
  /\ phase = "down" /\ attempt = 0
  /\ runtime = [heartbeat |-> Local.heartbeat, inventory |-> Local.inventory]
  /\ level = Local.level
  /\ schema = 1 /\ unversioned = None
  /\ hPc = "idle" /\ hLeft = Local.heartbeat /\ hChanged = FALSE
  /\ answer = None /\ applied = None /\ declined = None /\ tries = 0
  /\ iPc = "waiting" /\ iLeft = StartupDelay(Local.inventory)
  /\ iChanged = FALSE /\ iSchema = 1 /\ lastSnap = None
  /\ budget = [policies |-> MaxPolicies, offers |-> MaxOffers,
               downgrades |-> MaxDowngrades]

Heartbeat == Beat \/ Receive \/ Tried \/ RebuildTicker
InventoryLoop ==
  \/ CollectBegin
  \/ \E battery \in BOOLEAN :
       Reschedule(battery) \/ \E complete \in BOOLEAN : CollectEnd(complete, battery)

Next ==
  \/ Start \/ RegisterAccepted \/ \E r \in BOOLEAN : RegisterFails(r)
  \/ Stop
  \/ Heartbeat \/ ServerAnswers \/ BeatFails
  \/ InventoryLoop
  \/ \E s \in Settings \cup {None} : Publish(s)
  \/ \E o \in Offers \cup {None} : Offer(o)
  \/ ChangeCapability
  \/ Tick

Spec == Init /\ [][Next]_vars

\* The service manager starts the agent, registration succeeds in the end, both
\* loops run, the clock advances, and a request repeated for ever is answered.
FairSpec ==
  /\ Spec
  /\ WF_vars(Start) /\ SF_vars(RegisterAccepted)
  /\ WF_vars(Heartbeat) /\ WF_vars(InventoryLoop) /\ WF_vars(Tick)
  /\ SF_vars(ServerAnswers) /\ SF_vars(Receive)

-----------------------------------------------------------------------------
(* Properties.                                                             *)

Answers == [directive : Directive, offer : Offers \cup {None}, schema : {1, 2}]

\* Every variable holds a value of its kind; an answer being handled is one.
TypeOK ==
  /\ policy \in Directive
  /\ published \in [Revisions -> Settings \cup {None}]
  /\ offer \in Offers \cup {None}
  /\ {capability, schema, iSchema} \subseteq {1, 2}
  /\ {reported, applied} \subseteq Revisions \cup {None}
  /\ phase \in {"down", "registering", "running"}
  /\ attempt \in 0..MaxRegister
  /\ runtime \in [heartbeat : Intervals, inventory : Intervals]
  /\ level \in Levels \cup {Local.level}
  /\ unversioned \in Settings \cup {None}
  /\ hPc \in {"idle", "sent", "answered", "trying"}
  /\ hLeft \in -MaxLag..MaxInterval
  /\ hPc \in {"answered", "trying"} => answer \in Answers
  /\ iPc \in {"waiting", "collecting"}
  /\ iLeft \in Nat
  /\ {hChanged, iChanged} \subseteq BOOLEAN
  /\ declined \in Offers \cup {None}
  /\ lastSnap \in [schema : {1, 2}, complete : BOOLEAN] \cup {None}
  /\ tries \in Nat
  /\ budget \in [policies : 0..MaxPolicies, offers : 0..MaxOffers,
                 downgrades : 0..MaxDowngrades]

\* The settings s are what the process runs with.
InForce(s) ==
  /\ Override(s.heartbeat, runtime.heartbeat) = runtime.heartbeat
  /\ Override(s.inventory, runtime.inventory) = runtime.inventory
  /\ Override(s.level, level) = level

\* The revision the agent acknowledges is the one it runs with: whatever its
\* settings ask for is in force, however policies were refused, repeated or
\* replaced before; and the server never hears a revision acknowledged whose
\* settings the agent must refuse.
AcknowledgedInForce ==
  /\ Running /\ applied # None /\ published[applied] # None =>
       InForce(published[applied])
  /\ reported # None /\ published[reported] # None =>
       ValidSettings(published[reported])

\* An incomplete snapshot is handed to delivery only as schema version 2, even
\* when the server changes its version while the collection runs.
PartialOnlyAsV2 == lastSnap # None /\ ~lastSnap.complete => lastSnap.schema = 2

\* The next collection is never further away than the longest interval.
NextScanBounded == iLeft <= MaxEffective

\* A build is tried once for each time the server changed its offer.
OneTryPerOffer == tries <= MaxOffers - budget.offers

\* The last policy, when it is valid, is acknowledged in the end, and for good,
\* by an agent that keeps running.
Settled ==
  \/ policy.settings = None \/ ~ValidSettings(policy.settings)
  \/ applied = policy.revision
PolicyConverges == <>[](Running /\ budget.policies = 0) => <>[]Settled
=============================================================================
