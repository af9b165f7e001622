--------------------------- MODULE StartupProofs ---------------------------
(***************************************************************************)
(* Theorems about Startup for any configurations, process ids and number   *)
(* of faults, kills, power losses and panics: a machine registers under    *)
(* one identity and keeps it, and a crash report is logged before it is    *)
(* moved aside.  Each theorem names the cases it leaves out.               *)
(***************************************************************************)
EXTENDS Startup, FiniteSetTheorems, TLAPS

-----------------------------------------------------------------------------
(* The inductive invariant.                                                *)

LockedPcs == {"identity", "rename", "sync", "register", "run"}

\* Whoever is past acquire holds lariska.lock.
LockOK == \A s \in Slots : proc[s].pc \in LockedPcs => lock = s

\* Identities are numbered as they are generated.
GeneratedOK ==
  /\ {agent_id, durable} \subseteq 1 .. generated \cup {None}
  /\ \A s \in Slots : proc[s].pc = "rename" => proc[s].id \in 1 .. generated
  /\ registered \subseteq 1 .. generated

\* An identity is made only when there is none, or none that can be examined;
\* its maker has not registered it, whoever goes on uses the one of the file, and
\* what was registered is that or is lost.
IdentityOK ==
  /\ \A s \in Slots : proc[s].pc = "rename" => agent_id \in lost \cup {None}
  /\ \A s \in Slots : proc[s].pc \in {"rename", "sync"} => proc[s].id \notin registered
  /\ \A s \in Slots : proc[s].pc \in {"sync", "register", "run"} => proc[s].id = agent_id
  /\ registered \subseteq lost \cup {agent_id}

\* On Unix the identity file is durable, except while its writer syncs it, and
\* after a start that was cut short there.
DurableOK ==
  durable = agent_id \/ agent_id \in exposed \/ \E s \in Slots : proc[s].pc = "sync"

\* The report that is moved aside was logged or could not be read.
ArchiveOK ==
  \A s \in Slots : proc[s].pc = "archive" /\ report # None => report \in logged \cup missed

StartupInv ==
  /\ LockOK /\ ArchiveOK /\ GeneratedOK /\ IdentityOK
  /\ ~windows => DurableOK

-----------------------------------------------------------------------------
(* Types.                                                                  *)

ProcsOK ==
  /\ proc \in [Slots -> Processes]
  /\ \A s \in Slots :
        /\ proc[s].pc # "off" => proc[s].pid \in Pids
        /\ proc[s].pc \in {"rename", "sync", "register", "run"} => proc[s].id \in Ids
  /\ lock \in Slots \cup {None}

\* A slot that is off is a process of its kind.
LEMMA OffIsProcess == Off \in Processes /\ Off.pc = "off"
BY DEF Off, Processes, REGISTER_MAX_ATTEMPTS

\* The variables start with values of their kinds.
LEMMA TypeInit == Init => TypeOK
<1>. SUFFICES ASSUME Init PROVE TypeOK
  OBVIOUS
<1>1. proc \in [Slots -> Processes] /\ \A s \in Slots : proc[s].pc = "off"
  BY OffIsProcess DEF Init
<1>2. {windows, wanted} \subseteq BOOLEAN /\ conf \in Configs
  BY DEF Init
<1>3. /\ generated \in 0 .. MaxIds /\ panics \in 0 .. MaxPanics
      /\ troubles \in 0 .. MaxTroubles
  BY StartupAssumption DEF Init
<1>4. /\ lock \in Slots \cup {None} /\ {agent_id, durable} \subseteq Ids \cup {None}
      /\ temps \subseteq Pids /\ report \in Reports \cup {None}
      /\ registered \cup exposed \cup lost \subseteq Ids /\ logged \cup missed \subseteq Reports
  BY DEF Init
<1>. QED
  BY <1>1, <1>2, <1>3, <1>4 DEF TypeOK

\* The end of a process leaves every slot a process of its kind.
LEMMA ExitTyped ==
  ASSUME ProcsOK, NEW s \in Slots, Exit(s)
  PROVE  ProcsOK'
<1>1. proc' \in [Slots -> Processes]
  BY OffIsProcess DEF Exit, ProcsOK
<1>2. \A t \in Slots : proc'[t] = proc[t] \/ proc'[t].pc = "off"
  BY OffIsProcess DEF Exit, ProcsOK
<1>3. lock' \in Slots \cup {None}
  BY DEF Exit, Released, ProcsOK
<1>. QED
  BY <1>1, <1>2, <1>3 DEF ProcsOK

\* So does a step within a start.
LEMMA GoTyped ==
  ASSUME ProcsOK, NEW s \in Slots, NEW p \in Processes, proc' = [proc EXCEPT ![s] = p],
         p.pid \in Pids, p.pc \in {"rename", "sync", "register", "run"} => p.id \in Ids,
         lock' \in Slots \cup {None}
  PROVE  ProcsOK'
<1>1. proc' \in [Slots -> Processes]
  BY DEF ProcsOK
<1>2. \A t \in Slots : proc'[t] = IF t = s THEN p ELSE proc[t]
  BY DEF ProcsOK
<1>. QED
  BY <1>1, <1>2 DEF ProcsOK

\* Every step leaves every slot a process of its kind.
LEMMA ProcsStep ==
  ASSUME TypeOK, [Next]_vars
  PROVE  ProcsOK'
<1>. ProcsOK
  BY DEF ProcsOK, TypeOK
<1>1. ASSUME NEW s \in Slots, Launch(s) PROVE ProcsOK'
  <2>1. PICK pid \in Pids : proc' = [proc EXCEPT ![s] = [Off EXCEPT !.pc = "config", !.pid = pid]]
    BY <1>1 DEF Launch
  <2> DEFINE p == [Off EXCEPT !.pc = "config", !.pid = pid]
  <2>2. p \in Processes /\ p.pid \in Pids /\ p.pc = "config"
    BY OffIsProcess DEF Processes
  <2>3. lock' \in Slots \cup {None}
    BY <1>1 DEF Launch, ProcsOK
  <2>. HIDE DEF p
  <2>4. proc' = [proc EXCEPT ![s] = p]
    BY <2>1 DEF p
  <2>. QED
    BY <2>2, <2>3, <2>4, GoTyped
<1>2. ASSUME NEW s \in Slots, ReadConfig(s) PROVE ProcsOK'
  <2>1. CASE Go(s, "look") /\ UNCHANGED lock
    <3> DEFINE p == [proc[s] EXCEPT !.pc = "look"]
    <3>1. p \in Processes /\ p.pid \in Pids /\ (p.pc \in {"rename", "sync", "register", "run"} => p.id \in Ids)
      BY <1>2, <2>1 DEF ReadConfig, At, Go, ProcsOK, Processes, Ids, REGISTER_MAX_ATTEMPTS
    <3>2. proc' = [proc EXCEPT ![s] = p]
      BY <1>2, <2>1 DEF ReadConfig, At, Go, ProcsOK, Processes
    <3>3. lock' \in Slots \cup {None}
      BY <1>2, <2>1 DEF ReadConfig, At, Go, ProcsOK
    <3>. HIDE DEF p
    <3>. QED
      BY <3>1, <3>2, <3>3, GoTyped
  <2>2. CASE Exit(s)
    BY <2>2, ExitTyped
  <2>. QED
    BY <1>2, <2>1, <2>2 DEF ReadConfig
<1>3. ASSUME NEW s \in Slots, Look(s) PROVE ProcsOK'
  <2> DEFINE p == [proc[s] EXCEPT !.pc = IF report = None THEN "lock" ELSE "archive"]
  <2>1. p \in Processes /\ p.pid \in Pids /\ (p.pc \in {"rename", "sync", "register", "run"} => p.id \in Ids)
    BY <1>3 DEF Look, At, Go, ProcsOK, Processes, Ids, REGISTER_MAX_ATTEMPTS
  <2>2. proc' = [proc EXCEPT ![s] = p]
    BY <1>3 DEF Look, At, Go, ProcsOK, Processes
  <2>3. lock' \in Slots \cup {None}
    BY <1>3 DEF Look, At, Go, ProcsOK
  <2>. HIDE DEF p
  <2>. QED
    BY <2>1, <2>2, <2>3, GoTyped
<1>4. ASSUME NEW s \in Slots, Archive(s) PROVE ProcsOK'
  <2> DEFINE p == [proc[s] EXCEPT !.pc = "lock"]
  <2>1. p \in Processes /\ p.pid \in Pids /\ (p.pc \in {"rename", "sync", "register", "run"} => p.id \in Ids)
    BY <1>4 DEF Archive, At, Go, ProcsOK, Processes, Ids, REGISTER_MAX_ATTEMPTS
  <2>2. proc' = [proc EXCEPT ![s] = p]
    BY <1>4 DEF Archive, At, Go, ProcsOK, Processes
  <2>3. lock' \in Slots \cup {None}
    BY <1>4 DEF Archive, At, Go, ProcsOK
  <2>. HIDE DEF p
  <2>. QED
    BY <2>1, <2>2, <2>3, GoTyped
<1>5. ASSUME NEW s \in Slots, Lock(s) PROVE ProcsOK'
  <2>1. CASE acquire(s) /\ lock = None
    <3> DEFINE p == [proc[s] EXCEPT !.pc = "identity"]
    <3>1. p \in Processes /\ p.pid \in Pids /\ (p.pc \in {"rename", "sync", "register", "run"} => p.id \in Ids)
      BY <1>5, <2>1 DEF Lock, At, acquire, Go, ProcsOK, Processes, Ids, REGISTER_MAX_ATTEMPTS
    <3>2. proc' = [proc EXCEPT ![s] = p]
      BY <1>5, <2>1 DEF Lock, At, acquire, Go, ProcsOK, Processes
    <3>3. lock' \in Slots \cup {None}
      BY <1>5, <2>1 DEF Lock, At, acquire, Go, ProcsOK
    <3>. HIDE DEF p
    <3>. QED
      BY <3>1, <3>2, <3>3, GoTyped
  <2>2. CASE Exit(s)
    BY <2>2, ExitTyped
  <2>. QED
    BY <1>5, <2>1, <2>2 DEF Lock, acquire
<1>6. ASSUME NEW s \in Slots, LoadIdentity(s) PROVE ProcsOK'
  <2> DEFINE p == [proc[s] EXCEPT !.id = agent_id, !.pc = "register"]
  <2>1. p \in Processes /\ p.pid \in Pids /\ (p.pc \in {"rename", "sync", "register", "run"} => p.id \in Ids)
    BY <1>6 DEF LoadIdentity, At, TypeOK, ProcsOK, Processes, Ids, REGISTER_MAX_ATTEMPTS
  <2>2. proc' = [proc EXCEPT ![s] = p]
    BY <1>6 DEF LoadIdentity, At, TypeOK, ProcsOK, Processes
  <2>3. lock' \in Slots \cup {None}
    BY <1>6 DEF LoadIdentity, At, TypeOK, ProcsOK
  <2>. HIDE DEF p
  <2>. QED
    BY <2>1, <2>2, <2>3, GoTyped
<1>7. ASSUME NEW s \in Slots, NewIdentity(s) PROVE ProcsOK'
  <2>1. CASE /\ generated < MaxIds /\ generated' = generated + 1
                 /\ proc' = [proc EXCEPT ![s].id = generated', ![s].pc = "rename"]
                 /\ UNCHANGED lock
    <3> DEFINE p == [proc[s] EXCEPT !.id = generated + 1, !.pc = "rename"]
    <3>1. p \in Processes /\ p.pid \in Pids /\ (p.pc \in {"rename", "sync", "register", "run"} => p.id \in Ids)
      BY <1>7, <2>1 DEF NewIdentity, At, TypeOK, ProcsOK, Processes, Ids, REGISTER_MAX_ATTEMPTS
    <3>2. proc' = [proc EXCEPT ![s] = p]
      BY <1>7, <2>1 DEF NewIdentity, At, TypeOK, ProcsOK, Processes
    <3>3. lock' \in Slots \cup {None}
      BY <1>7, <2>1 DEF NewIdentity, At, TypeOK, ProcsOK
    <3>. HIDE DEF p
    <3>. QED
      BY <3>1, <3>2, <3>3, GoTyped
  <2>2. CASE Exit(s)
    BY <2>2, ExitTyped
  <2>. QED
    BY <1>7, <2>1, <2>2 DEF NewIdentity
<1>8. ASSUME NEW s \in Slots, Rename(s) PROVE ProcsOK'
  <2> DEFINE p == [proc[s] EXCEPT !.pc = "sync"]
  <2>1. p \in Processes /\ p.pid \in Pids /\ (p.pc \in {"rename", "sync", "register", "run"} => p.id \in Ids)
    BY <1>8 DEF Rename, At, Go, ProcsOK, Processes, Ids, REGISTER_MAX_ATTEMPTS
  <2>2. proc' = [proc EXCEPT ![s] = p]
    BY <1>8 DEF Rename, At, Go, ProcsOK, Processes
  <2>3. lock' \in Slots \cup {None}
    BY <1>8 DEF Rename, At, Go, ProcsOK
  <2>. HIDE DEF p
  <2>. QED
    BY <2>1, <2>2, <2>3, GoTyped
<1>9. ASSUME NEW s \in Slots, Sync(s) PROVE ProcsOK'
  <2> DEFINE p == [proc[s] EXCEPT !.pc = "register"]
  <2>1. p \in Processes /\ p.pid \in Pids /\ (p.pc \in {"rename", "sync", "register", "run"} => p.id \in Ids)
    BY <1>9 DEF Sync, At, Go, ProcsOK, Processes, Ids, REGISTER_MAX_ATTEMPTS
  <2>2. proc' = [proc EXCEPT ![s] = p]
    BY <1>9 DEF Sync, At, Go, ProcsOK, Processes
  <2>3. lock' \in Slots \cup {None}
    BY <1>9 DEF Sync, At, Go, ProcsOK
  <2>. HIDE DEF p
  <2>. QED
    BY <2>1, <2>2, <2>3, GoTyped
<1>10. ASSUME NEW s \in Slots, Registers(s) PROVE ProcsOK'
  <2> DEFINE p == [proc[s] EXCEPT !.pc = "run"]
  <2>1. p \in Processes /\ p.pid \in Pids /\ (p.pc \in {"rename", "sync", "register", "run"} => p.id \in Ids)
    BY <1>10 DEF Registers, At, Go, ProcsOK, Processes, Ids, REGISTER_MAX_ATTEMPTS
  <2>2. proc' = [proc EXCEPT ![s] = p]
    BY <1>10 DEF Registers, At, Go, ProcsOK, Processes
  <2>3. lock' \in Slots \cup {None}
    BY <1>10 DEF Registers, At, Go, ProcsOK
  <2>. HIDE DEF p
  <2>. QED
    BY <2>1, <2>2, <2>3, GoTyped
<1>11. ASSUME NEW s \in Slots, RegisterFails(s) PROVE ProcsOK'
  <2>1. CASE /\ ~Exhausted(s) /\ UNCHANGED lock
                 /\ proc' = [proc EXCEPT ![s].attempts = @ + 1]
    <3> DEFINE p == [proc[s] EXCEPT !.attempts = proc[s].attempts + 1]
    <3>1. p \in Processes /\ p.pid \in Pids /\ (p.pc \in {"rename", "sync", "register", "run"} => p.id \in Ids)
      BY <1>11, <2>1 DEF RegisterFails, At, Exhausted, ProcsOK, Processes, Ids,
         REGISTER_MAX_ATTEMPTS
    <3>2. proc' = [proc EXCEPT ![s] = p]
      BY <1>11, <2>1 DEF RegisterFails, At, Exhausted, ProcsOK, Processes
    <3>3. lock' \in Slots \cup {None}
      BY <1>11, <2>1 DEF RegisterFails, At, Exhausted, ProcsOK
    <3>. HIDE DEF p
    <3>. QED
      BY <3>1, <3>2, <3>3, GoTyped
  <2>2. CASE Exit(s)
    BY <2>2, ExitTyped
  <2>. QED
    BY <1>11, <2>1, <2>2 DEF RegisterFails
<1>12. ASSUME NEW s \in Slots, Stops(s) PROVE ProcsOK'
  BY <1>12, ExitTyped DEF Stops
<1>13. ASSUME NEW s \in Slots, DiskFails(s) PROVE ProcsOK'
  BY <1>13, ExitTyped DEF DiskFails
<1>14. ASSUME NEW s \in Slots, Panic(s) PROVE ProcsOK'
  BY <1>14, ExitTyped DEF Panic, ProcsOK
<1>15. ASSUME NEW s \in Slots, Killed(s) PROVE ProcsOK'
  BY <1>15, ExitTyped DEF Killed
<1>16. CASE AskToStop
  <2> DEFINE p == [proc["service"] EXCEPT !.stop = TRUE]
  <2>. "service" \in Slots
    BY DEF Slots
  <2>1. CASE Exit("service")
    BY <2>1, ExitTyped
  <2>2. CASE proc' = [proc EXCEPT !["service"].stop = TRUE] /\ UNCHANGED lock
    <3>1. p \in Processes /\ p.pid \in Pids /\ (p.pc \in {"rename", "sync", "register", "run"} => p.id \in Ids)
      BY <1>16 DEF AskToStop, Alive, ProcsOK, Processes
    <3>2. proc' = [proc EXCEPT !["service"] = p]
      BY <2>2 DEF ProcsOK, Processes
    <3>3. lock' \in Slots \cup {None}
      BY <2>2 DEF ProcsOK
    <3>. HIDE DEF p
    <3>. QED
      BY <3>1, <3>2, <3>3, GoTyped
  <2>. QED
    BY <1>16, <2>1, <2>2 DEF AskToStop, Notify
<1>17. CASE StartAgain
  BY <1>17 DEF StartAgain, ProcsOK
<1>18. CASE PowerLoss
  BY <1>18, OffIsProcess DEF PowerLoss, ProcsOK
<1>19. CASE Reconfigure
  BY <1>19 DEF Reconfigure, ProcsOK
<1>20. CASE UNCHANGED vars
  BY <1>20 DEF vars, ProcsOK
<1>. QED
  BY <1>1, <1>2, <1>3, <1>4, <1>5, <1>6, <1>7, <1>8, <1>9, <1>10, <1>11, <1>12,
     <1>13, <1>14, <1>15, <1>16, <1>17, <1>18, <1>19, <1>20 DEF Next, Step

\* Every step gives each variable a value of its kind.
LEMMA TypeStep ==
  ASSUME TypeOK, [Next]_vars
  PROVE  TypeOK'
<1>1. ProcsOK'
  BY ProcsStep
<1> DEFINE Rest ==
      /\ {windows, wanted} \subseteq BOOLEAN
      /\ conf \in Configs
      /\ {agent_id, durable} \subseteq Ids \cup {None}
      /\ temps \subseteq Pids /\ report \in Reports \cup {None}
      /\ generated \in 0 .. MaxIds /\ panics \in 0 .. MaxPanics /\ troubles \in 0 .. MaxTroubles
      /\ registered \cup exposed \cup lost \subseteq Ids /\ logged \cup missed \subseteq Reports
<1>2. Rest'
  <2>. Rest
    BY DEF TypeOK
  <2>. \A s \in Slots :
         /\ proc[s].pc # "off" => proc[s].pid \in Pids
         /\ proc[s].pc \in {"rename", "sync", "register", "run"} => proc[s].id \in Ids
    BY DEF TypeOK
  <2>. USE StartupAssumption DEF Ids, Reports, setup, disk, ghosts
  <2>1. ASSUME NEW s \in Slots, Launch(s) PROVE Rest'
    BY <2>1 DEF Launch, At, Trouble
  <2>2. ASSUME NEW s \in Slots, ReadConfig(s) PROVE Rest'
    BY <2>2 DEF ReadConfig, At
  <2>3. ASSUME NEW s \in Slots, Look(s) PROVE Rest'
    BY <2>3 DEF Look, At, Trouble
  <2>4. ASSUME NEW s \in Slots, Archive(s) PROVE Rest'
    BY <2>4 DEF Archive, At
  <2>5. ASSUME NEW s \in Slots, Lock(s) PROVE Rest'
    BY <2>5 DEF Lock, At, acquire
  <2>6. ASSUME NEW s \in Slots, LoadIdentity(s) PROVE Rest'
    BY <2>6 DEF LoadIdentity, At
  <2>7. ASSUME NEW s \in Slots, NewIdentity(s) PROVE Rest'
    <3>1. generated' \in 0 .. MaxIds /\ troubles' \in 0 .. MaxTroubles
      BY <2>7 DEF NewIdentity, Trouble
    <3>2. temps' \subseteq Pids
      BY <2>7 DEF NewIdentity, At
    <3>3. lost' \subseteq Ids
      BY <2>7 DEF NewIdentity
    <3>. QED
      BY <2>7, <3>1, <3>2, <3>3 DEF NewIdentity
  <2>8. ASSUME NEW s \in Slots, Rename(s) PROVE Rest'
    BY <2>8 DEF Rename, At
  <2>9. ASSUME NEW s \in Slots, Sync(s) PROVE Rest'
    BY <2>9 DEF Sync, At, sync_parent_dir
  <2>10. ASSUME NEW s \in Slots, Registers(s) PROVE Rest'
    BY <2>10 DEF Registers, At
  <2>11. ASSUME NEW s \in Slots, RegisterFails(s) PROVE Rest'
    BY <2>11 DEF RegisterFails, At
  <2>12. ASSUME NEW s \in Slots, Stops(s) PROVE Rest'
    BY <2>12 DEF Stops, At
  <2>13. ASSUME NEW s \in Slots, DiskFails(s) PROVE Rest'
    BY <2>13 DEF DiskFails, Trouble, Unsynced, At
  <2>14. ASSUME NEW s \in Slots, Panic(s) PROVE Rest'
    <3>1. panics' \in 0 .. MaxPanics /\ report' \in Reports
      BY <2>14 DEF Panic
    <3>2. missed' \subseteq Reports
      BY <2>14, <3>1 DEF Panic
    <3>3. exposed' \subseteq Ids
      BY <2>14 DEF Panic, Unsynced, At
    <3>. QED
      BY <2>14, <3>1, <3>2, <3>3 DEF Panic
  <2>15. ASSUME NEW s \in Slots, Killed(s) PROVE Rest'
    BY <2>15 DEF Killed, Alive, Trouble, Unsynced, At
  <2>16. CASE AskToStop
    <3>1. troubles' \in 0 .. MaxTroubles
      BY <2>16 DEF AskToStop, Trouble
    <3>2. exposed' \subseteq Ids
      BY <2>16 DEF AskToStop, Unsynced, At, Slots
    <3>. QED
      BY <2>16, <3>1, <3>2 DEF AskToStop
  <2>17. CASE StartAgain
    BY <2>17 DEF StartAgain, Alive, Trouble
  <2>18. CASE PowerLoss
    <3>1. {agent_id', durable'} \subseteq Ids \cup {None} /\ troubles' \in 0 .. MaxTroubles
      BY <2>18 DEF PowerLoss, Trouble
    <3>2. lost' \subseteq Ids
      <4>1. \A id \in lost' \ lost : id = agent_id /\ id # None
        BY <2>18 DEF PowerLoss
      <4>. QED
        BY <4>1
    <3>3. exposed' \subseteq Ids /\ temps' \subseteq Pids /\ report' \in Reports \cup {None}
      BY <2>18 DEF PowerLoss
    <3>. QED
      BY <2>18, <3>1, <3>2, <3>3 DEF PowerLoss
  <2>19. CASE Reconfigure
    BY <2>19 DEF Reconfigure, Trouble
  <2>20. CASE UNCHANGED vars
    BY <2>20 DEF vars
  <2>. QED
    BY <2>1, <2>2, <2>3, <2>4, <2>5, <2>6, <2>7, <2>8, <2>9, <2>10, <2>11, <2>12,
       <2>13, <2>14, <2>15, <2>16, <2>17, <2>18, <2>19, <2>20 DEF Next, Step
<1>. QED
  BY <1>1, <1>2 DEF TypeOK, ProcsOK

-----------------------------------------------------------------------------
(* The lock.                                                               *)

\* lariska.lock is taken when it is free, and released by the end of its holder.
LEMMA LockStep ==
  ASSUME TypeOK, LockOK, [Next]_vars
  PROVE  LockOK'
<1>. USE StartupAssumption DEF LockOK, LockedPcs, TypeOK, Processes, Slots, Off, setup, disk, ghosts
<1>1. ASSUME NEW s \in Slots, Launch(s) PROVE LockOK'
  BY <1>1 DEF Launch, At, Off, Trouble
<1>2. ASSUME NEW s \in Slots, ReadConfig(s) PROVE LockOK'
  BY <1>2 DEF ReadConfig, At, Go, Exit, Released
<1>3. ASSUME NEW s \in Slots, Look(s) PROVE LockOK'
  BY <1>3 DEF Look, At, Go, Trouble
<1>4. ASSUME NEW s \in Slots, Archive(s) PROVE LockOK'
  BY <1>4 DEF Archive, At, Go
<1>5. ASSUME NEW s \in Slots, Lock(s) PROVE LockOK'
  BY <1>5 DEF Lock, At, acquire, Go, Exit, Released
<1>6. ASSUME NEW s \in Slots, LoadIdentity(s) PROVE LockOK'
  BY <1>6 DEF LoadIdentity, At
<1>7. ASSUME NEW s \in Slots, NewIdentity(s) PROVE LockOK'
  BY <1>7 DEF NewIdentity, At, Trouble, Exit, Released
<1>8. ASSUME NEW s \in Slots, Rename(s) PROVE LockOK'
  BY <1>8 DEF Rename, At, Go
<1>9. ASSUME NEW s \in Slots, Sync(s) PROVE LockOK'
  BY <1>9 DEF Sync, At, Go, sync_parent_dir
<1>10. ASSUME NEW s \in Slots, Registers(s) PROVE LockOK'
  BY <1>10 DEF Registers, At, Go
<1>11. ASSUME NEW s \in Slots, RegisterFails(s) PROVE LockOK'
  BY <1>11 DEF RegisterFails, At, Exit, Released
<1>12. ASSUME NEW s \in Slots, Stops(s) PROVE LockOK'
  BY <1>12 DEF Stops, At, Exit, Released
<1>13. ASSUME NEW s \in Slots, DiskFails(s) PROVE LockOK'
  BY <1>13 DEF DiskFails, Trouble, Exit, Released, Unsynced, At
<1>14. ASSUME NEW s \in Slots, Panic(s) PROVE LockOK'
  BY <1>14 DEF Panic, Hooked, At, Exit, Released, Unsynced
<1>15. ASSUME NEW s \in Slots, Killed(s) PROVE LockOK'
  BY <1>15 DEF Killed, Alive, Trouble, Exit, Released, Unsynced, At
<1>16. CASE AskToStop
  BY <1>16 DEF AskToStop, Alive, Trouble, Notify, Unsynced, At, Exit, Released
<1>17. CASE StartAgain
  BY <1>17 DEF StartAgain, Alive, Trouble
<1>18. CASE PowerLoss
  BY <1>18 DEF PowerLoss, Trouble
<1>19. CASE Reconfigure
  BY <1>19 DEF Reconfigure, Trouble
<1>20. CASE UNCHANGED vars
  BY <1>20 DEF vars
<1>. QED
  BY <1>1, <1>2, <1>3, <1>4, <1>5, <1>6, <1>7, <1>8, <1>9, <1>10, <1>11, <1>12,
     <1>13, <1>14, <1>15, <1>16, <1>17, <1>18, <1>19, <1>20 DEF Next, Step

-----------------------------------------------------------------------------
(* The identity.                                                           *)

\* Only a new identity raises the count, to its own number.
LEMMA GeneratedStep ==
  ASSUME TypeOK, GeneratedOK, IdentityOK, [Next]_vars
  PROVE  GeneratedOK'
<1>. USE StartupAssumption DEF GeneratedOK, LockedPcs, TypeOK, Processes, Slots, Off, setup, disk, ghosts
<1>1. ASSUME NEW s \in Slots, Launch(s) PROVE GeneratedOK'
  BY <1>1 DEF Launch, At, Off, Trouble
<1>2. ASSUME NEW s \in Slots, ReadConfig(s) PROVE GeneratedOK'
  BY <1>2 DEF ReadConfig, At, Go, Exit, Released
<1>3. ASSUME NEW s \in Slots, Look(s) PROVE GeneratedOK'
  BY <1>3 DEF Look, At, Go, Trouble
<1>4. ASSUME NEW s \in Slots, Archive(s) PROVE GeneratedOK'
  BY <1>4 DEF Archive, At, Go
<1>5. ASSUME NEW s \in Slots, Lock(s) PROVE GeneratedOK'
  BY <1>5 DEF Lock, At, acquire, Go, Exit, Released
<1>6. ASSUME NEW s \in Slots, LoadIdentity(s) PROVE GeneratedOK'
  BY <1>6 DEF LoadIdentity, At
<1>7. ASSUME NEW s \in Slots, NewIdentity(s) PROVE GeneratedOK'
  BY <1>7 DEF NewIdentity, At, Trouble, Exit, Released
<1>8. ASSUME NEW s \in Slots, Rename(s) PROVE GeneratedOK'
  BY <1>8 DEF Rename, At, Go
<1>9. ASSUME NEW s \in Slots, Sync(s) PROVE GeneratedOK'
  BY <1>9 DEF Sync, At, Go, sync_parent_dir
<1>10. ASSUME NEW s \in Slots, Registers(s) PROVE GeneratedOK'
  <2>1. proc[s].id \in 1 .. generated
    BY <1>10 DEF Registers, At, IdentityOK, Ids
  <2>2. registered' \subseteq registered \cup {proc[s].id} /\ UNCHANGED <<agent_id, durable, generated>>
    BY <1>10 DEF Registers
  <2>3. \A t \in Slots : proc'[t].pc = "rename" => proc[t].pc = "rename" /\ proc'[t].id = proc[t].id
    BY <1>10 DEF Registers, At, Go
  <2>. QED
    BY <2>1, <2>2, <2>3
<1>11. ASSUME NEW s \in Slots, RegisterFails(s) PROVE GeneratedOK'
  <2>1. proc[s].id \in 1 .. generated
    BY <1>11 DEF RegisterFails, At, IdentityOK, Ids
  <2>2. registered' \subseteq registered \cup {proc[s].id} /\ UNCHANGED <<agent_id, durable, generated>>
    BY <1>11 DEF RegisterFails
  <2>3. \A t \in Slots : proc'[t].pc = "rename" => proc[t].pc = "rename" /\ proc'[t].id = proc[t].id
    BY <1>11 DEF RegisterFails, At, Exit, Released
  <2>. QED
    BY <2>1, <2>2, <2>3
<1>12. ASSUME NEW s \in Slots, Stops(s) PROVE GeneratedOK'
  BY <1>12 DEF Stops, At, Exit, Released
<1>13. ASSUME NEW s \in Slots, DiskFails(s) PROVE GeneratedOK'
  BY <1>13 DEF DiskFails, Trouble, Exit, Released, Unsynced, At
<1>14. ASSUME NEW s \in Slots, Panic(s) PROVE GeneratedOK'
  BY <1>14 DEF Panic, Hooked, At, Exit, Released, Unsynced
<1>15. ASSUME NEW s \in Slots, Killed(s) PROVE GeneratedOK'
  BY <1>15 DEF Killed, Alive, Trouble, Exit, Released, Unsynced, At
<1>16. CASE AskToStop
  BY <1>16 DEF AskToStop, Alive, Trouble, Notify, Unsynced, At, Exit, Released
<1>17. CASE StartAgain
  BY <1>17 DEF StartAgain, Alive, Trouble
<1>18. CASE PowerLoss
  BY <1>18 DEF PowerLoss, Trouble
<1>19. CASE Reconfigure
  BY <1>19 DEF Reconfigure, Trouble
<1>20. CASE UNCHANGED vars
  BY <1>20 DEF vars
<1>. QED
  BY <1>1, <1>2, <1>3, <1>4, <1>5, <1>6, <1>7, <1>8, <1>9, <1>10, <1>11, <1>12,
     <1>13, <1>14, <1>15, <1>16, <1>17, <1>18, <1>19, <1>20 DEF Next, Step

\* A power loss takes the identity back only if it is not registered, or is lost.
LEMMA PowerLossKeeps ==
  ASSUME TypeOK, IdentityOK, ~windows => DurableOK, PowerLoss, agent_id' # agent_id
  PROVE  agent_id \notin registered \ lost'
<1>1. CASE windows \/ agent_id \in exposed
  <2>1. agent_id # None => agent_id \in lost'
    BY <1>1 DEF PowerLoss
  <2>2. None \notin registered
    BY StartupAssumption DEF TypeOK, Ids
  <2>. QED
    BY <2>1, <2>2
<1>2. CASE ~windows /\ agent_id \notin exposed
  <2>1. durable # agent_id
    BY DEF PowerLoss
  <2>2. PICK s \in Slots : proc[s].pc = "sync"
    BY <1>2, <2>1 DEF DurableOK
  <2>. QED
    BY <2>2 DEF IdentityOK
<1>. QED
  BY <1>1, <1>2

\* The holder of the lock alone changes the identity or registers it; what a
\* power loss takes back was never registered, or is lost.
LEMMA IdentityStep ==
  ASSUME TypeOK, LockOK, GeneratedOK, IdentityOK, ~windows => DurableOK, [Next]_vars
  PROVE  IdentityOK'
<1>. USE StartupAssumption DEF TypeOK, Processes, Slots, setup, disk, ghosts
<1>1. ASSUME NEW s \in Slots, Launch(s) PROVE IdentityOK'
  BY <1>1 DEF Launch, At, Off, Trouble, IdentityOK, LockedPcs, LockOK, Off
<1>2. ASSUME NEW s \in Slots, ReadConfig(s) PROVE IdentityOK'
  BY <1>2 DEF ReadConfig, At, Go, Exit, Released, IdentityOK, LockedPcs, LockOK, Off
<1>3. ASSUME NEW s \in Slots, Look(s) PROVE IdentityOK'
  BY <1>3 DEF Look, At, Go, Trouble, IdentityOK, LockedPcs, LockOK, Off
<1>4. ASSUME NEW s \in Slots, Archive(s) PROVE IdentityOK'
  BY <1>4 DEF Archive, At, Go, IdentityOK, LockedPcs, LockOK, Off
<1>5. ASSUME NEW s \in Slots, Lock(s) PROVE IdentityOK'
  BY <1>5 DEF Lock, At, acquire, Go, Exit, Released, IdentityOK, LockedPcs, LockOK, Off
<1>6. ASSUME NEW s \in Slots, LoadIdentity(s) PROVE IdentityOK'
  BY <1>6 DEF LoadIdentity, At, IdentityOK, LockedPcs, LockOK, Off
<1>7. ASSUME NEW s \in Slots, NewIdentity(s) PROVE IdentityOK'
  BY <1>7 DEF NewIdentity, At, Trouble, Exit, Released, IdentityOK, GeneratedOK, LockedPcs, LockOK, Off
<1>8. ASSUME NEW s \in Slots, Rename(s) PROVE IdentityOK'
  BY <1>8 DEF Rename, At, Go, Ids, IdentityOK, LockedPcs, LockOK, Off
<1>9. ASSUME NEW s \in Slots, Sync(s) PROVE IdentityOK'
  BY <1>9 DEF Sync, At, Go, sync_parent_dir, IdentityOK, LockedPcs, LockOK, Off
<1>10. ASSUME NEW s \in Slots, Registers(s) PROVE IdentityOK'
  BY <1>10 DEF Registers, At, Go, IdentityOK, LockedPcs, LockOK, Off
<1>11. ASSUME NEW s \in Slots, RegisterFails(s) PROVE IdentityOK'
  BY <1>11 DEF RegisterFails, At, Exit, Released, IdentityOK, LockedPcs, LockOK, Off
<1>12. ASSUME NEW s \in Slots, Stops(s) PROVE IdentityOK'
  BY <1>12 DEF Stops, At, Exit, Released, IdentityOK, LockedPcs, LockOK, Off
<1>13. ASSUME NEW s \in Slots, DiskFails(s) PROVE IdentityOK'
  BY <1>13 DEF DiskFails, Trouble, Exit, Released, Unsynced, At, IdentityOK, LockedPcs,
     LockOK, Off
<1>14. ASSUME NEW s \in Slots, Panic(s) PROVE IdentityOK'
  BY <1>14 DEF Panic, Hooked, At, Exit, Released, Unsynced, IdentityOK, LockedPcs, LockOK, Off
<1>15. ASSUME NEW s \in Slots, Killed(s) PROVE IdentityOK'
  BY <1>15 DEF Killed, Alive, Trouble, Exit, Released, Unsynced, At, IdentityOK, LockedPcs,
     LockOK, Off
<1>16. CASE AskToStop
  BY <1>16 DEF AskToStop, Alive, Trouble, Notify, Unsynced, At, Exit, Released, IdentityOK,
     LockedPcs, LockOK, Off
<1>17. CASE StartAgain
  BY <1>17 DEF StartAgain, Alive, Trouble, IdentityOK, LockedPcs, LockOK, Off
<1>18. CASE PowerLoss
  <2>1. \A s \in Slots : proc'[s].pc = "off"
    BY <1>18 DEF PowerLoss, Off
  <2>2. agent_id' # agent_id => agent_id \notin registered \ lost'
    BY <1>18, PowerLossKeeps
  <2>3. registered' = registered /\ lost \subseteq lost'
    BY <1>18 DEF PowerLoss
  <2>. QED
    BY <2>1, <2>2, <2>3 DEF IdentityOK
<1>19. CASE Reconfigure
  BY <1>19 DEF Reconfigure, Trouble, IdentityOK, LockedPcs, LockOK, Off
<1>20. CASE UNCHANGED vars
  BY <1>20 DEF vars, IdentityOK, LockedPcs, LockOK, Off
<1>. QED
  BY <1>1, <1>2, <1>3, <1>4, <1>5, <1>6, <1>7, <1>8, <1>9, <1>10, <1>11, <1>12,
     <1>13, <1>14, <1>15, <1>16, <1>17, <1>18, <1>19, <1>20 DEF Next, Step

\* A start that ends between the rename and the sync exposes the identity.
LEMMA DurableStep ==
  ASSUME TypeOK, LockOK, IdentityOK, ~windows => DurableOK, [Next]_vars
  PROVE  (~windows => DurableOK)'
<1>. USE StartupAssumption DEF TypeOK, Processes, Slots, setup, disk, ghosts
<1>1. ASSUME NEW s \in Slots, Launch(s) PROVE (~windows => DurableOK)'
  BY <1>1 DEF Launch, At, Off, Trouble, DurableOK, LockedPcs, LockOK, IdentityOK, Off
<1>2. ASSUME NEW s \in Slots, ReadConfig(s) PROVE (~windows => DurableOK)'
  BY <1>2 DEF ReadConfig, At, Go, Exit, Released, DurableOK, LockedPcs, LockOK, IdentityOK, Off
<1>3. ASSUME NEW s \in Slots, Look(s) PROVE (~windows => DurableOK)'
  BY <1>3 DEF Look, At, Go, Trouble, DurableOK, LockedPcs, LockOK, IdentityOK, Off
<1>4. ASSUME NEW s \in Slots, Archive(s) PROVE (~windows => DurableOK)'
  BY <1>4 DEF Archive, At, Go, DurableOK, LockedPcs, LockOK, IdentityOK, Off
<1>5. ASSUME NEW s \in Slots, Lock(s) PROVE (~windows => DurableOK)'
  BY <1>5 DEF Lock, At, acquire, Go, Exit, Released, DurableOK, LockedPcs, LockOK,
     IdentityOK, Off
<1>6. ASSUME NEW s \in Slots, LoadIdentity(s) PROVE (~windows => DurableOK)'
  BY <1>6 DEF LoadIdentity, At, DurableOK, LockedPcs, LockOK, IdentityOK, Off
<1>7. ASSUME NEW s \in Slots, NewIdentity(s) PROVE (~windows => DurableOK)'
  BY <1>7 DEF NewIdentity, At, Trouble, Exit, Released, DurableOK, LockedPcs, LockOK,
     IdentityOK, Off
<1>8. ASSUME NEW s \in Slots, Rename(s) PROVE (~windows => DurableOK)'
  BY <1>8 DEF Rename, At, Go, Ids, DurableOK, LockedPcs, LockOK, IdentityOK, Off
<1>9. ASSUME NEW s \in Slots, Sync(s) PROVE (~windows => DurableOK)'
  BY <1>9 DEF Sync, At, Go, sync_parent_dir, DurableOK, LockedPcs, LockOK, IdentityOK, Off
<1>10. ASSUME NEW s \in Slots, Registers(s) PROVE (~windows => DurableOK)'
  BY <1>10 DEF Registers, At, Go, DurableOK, LockedPcs, LockOK, IdentityOK, Off
<1>11. ASSUME NEW s \in Slots, RegisterFails(s) PROVE (~windows => DurableOK)'
  BY <1>11 DEF RegisterFails, At, Exit, Released, DurableOK, LockedPcs, LockOK, IdentityOK, Off
<1>12. ASSUME NEW s \in Slots, Stops(s) PROVE (~windows => DurableOK)'
  BY <1>12 DEF Stops, At, Exit, Released, DurableOK, LockedPcs, LockOK, IdentityOK, Off
<1>13. ASSUME NEW s \in Slots, DiskFails(s) PROVE (~windows => DurableOK)'
  BY <1>13 DEF DiskFails, Trouble, Exit, Released, Unsynced, At, DurableOK, LockedPcs,
     LockOK, IdentityOK, Off
<1>14. ASSUME NEW s \in Slots, Panic(s) PROVE (~windows => DurableOK)'
  <2>1. CASE Exit(s) /\ Unsynced(s)
    BY <1>14, <2>1 DEF Panic, At, Exit, Unsynced, DurableOK, IdentityOK, Off
  <2>2. CASE UNCHANGED <<proc, lock, exposed>>
    BY <1>14, <2>2 DEF Panic, DurableOK
  <2>. QED
    BY <1>14, <2>1, <2>2 DEF Panic
<1>15. ASSUME NEW s \in Slots, Killed(s) PROVE (~windows => DurableOK)'
  BY <1>15 DEF Killed, Alive, Trouble, Exit, Released, Unsynced, At, DurableOK, LockedPcs,
     LockOK, IdentityOK, Off
<1>16. CASE AskToStop
  <2>1. CASE Exit("service")
    BY <1>16, <2>1 DEF AskToStop, At, Exit, Unsynced, DurableOK, IdentityOK, Off
  <2>2. CASE proc' = [proc EXCEPT !["service"].stop = TRUE]
    BY <1>16, <2>2 DEF AskToStop, At, Unsynced, DurableOK
  <2>. QED
    BY <1>16, <2>1, <2>2 DEF AskToStop, Notify
<1>17. CASE StartAgain
  BY <1>17 DEF StartAgain, Alive, Trouble, DurableOK, LockedPcs, LockOK, IdentityOK, Off
<1>18. CASE PowerLoss
  BY <1>18 DEF PowerLoss, Trouble, DurableOK, LockedPcs, LockOK, IdentityOK, Off
<1>19. CASE Reconfigure
  BY <1>19 DEF Reconfigure, Trouble, DurableOK, LockedPcs, LockOK, IdentityOK, Off
<1>20. CASE UNCHANGED vars
  BY <1>20 DEF vars, DurableOK, LockedPcs, LockOK, IdentityOK, Off
<1>. QED
  BY <1>1, <1>2, <1>3, <1>4, <1>5, <1>6, <1>7, <1>8, <1>9, <1>10, <1>11, <1>12,
     <1>13, <1>14, <1>15, <1>16, <1>17, <1>18, <1>19, <1>20 DEF Next, Step

-----------------------------------------------------------------------------
(* Crash reports.                                                          *)

\* A report is logged or given up when it is read; one that replaces it
\* before it is moved aside is given up.
LEMMA ArchiveStep ==
  ASSUME TypeOK, ArchiveOK, [Next]_vars
  PROVE  ArchiveOK'
<1>. USE DEF ArchiveOK, TypeOK, Processes, Slots, Off, setup, disk, ghosts
<1>1. ASSUME NEW s \in Slots, Launch(s) PROVE ArchiveOK'
  BY <1>1 DEF Launch, At, Off, Trouble
<1>2. ASSUME NEW s \in Slots, ReadConfig(s) PROVE ArchiveOK'
  BY <1>2 DEF ReadConfig, At, Go, Exit, Released
<1>3. ASSUME NEW s \in Slots, Look(s) PROVE ArchiveOK'
  BY <1>3 DEF Look, At, Go, Trouble
<1>4. ASSUME NEW s \in Slots, Archive(s) PROVE ArchiveOK'
  BY <1>4 DEF Archive, At, Go
<1>5. ASSUME NEW s \in Slots, Lock(s) PROVE ArchiveOK'
  BY <1>5 DEF Lock, At, acquire, Go, Exit, Released
<1>6. ASSUME NEW s \in Slots, LoadIdentity(s) PROVE ArchiveOK'
  BY <1>6 DEF LoadIdentity, At
<1>7. ASSUME NEW s \in Slots, NewIdentity(s) PROVE ArchiveOK'
  BY <1>7 DEF NewIdentity, At, Trouble, Exit, Released
<1>8. ASSUME NEW s \in Slots, Rename(s) PROVE ArchiveOK'
  BY <1>8 DEF Rename, At, Go
<1>9. ASSUME NEW s \in Slots, Sync(s) PROVE ArchiveOK'
  BY <1>9 DEF Sync, At, Go, sync_parent_dir
<1>10. ASSUME NEW s \in Slots, Registers(s) PROVE ArchiveOK'
  BY <1>10 DEF Registers, At, Go
<1>11. ASSUME NEW s \in Slots, RegisterFails(s) PROVE ArchiveOK'
  BY <1>11 DEF RegisterFails, At, Exit, Released
<1>12. ASSUME NEW s \in Slots, Stops(s) PROVE ArchiveOK'
  BY <1>12 DEF Stops, At, Exit, Released
<1>13. ASSUME NEW s \in Slots, DiskFails(s) PROVE ArchiveOK'
  BY <1>13 DEF DiskFails, Trouble, Exit, Released, Unsynced, At
<1>14. ASSUME NEW s \in Slots, Panic(s) PROVE ArchiveOK'
  BY <1>14 DEF Panic, Hooked, At, Exit, Released, Unsynced
<1>15. ASSUME NEW s \in Slots, Killed(s) PROVE ArchiveOK'
  BY <1>15 DEF Killed, Alive, Trouble, Exit, Released, Unsynced, At
<1>16. CASE AskToStop
  BY <1>16 DEF AskToStop, Alive, Trouble, Notify, Unsynced, At, Exit, Released
<1>17. CASE StartAgain
  BY <1>17 DEF StartAgain, Alive, Trouble
<1>18. CASE PowerLoss
  BY <1>18 DEF PowerLoss, Trouble
<1>19. CASE Reconfigure
  BY <1>19 DEF Reconfigure, Trouble
<1>20. CASE UNCHANGED vars
  BY <1>20 DEF vars
<1>. QED
  BY <1>1, <1>2, <1>3, <1>4, <1>5, <1>6, <1>7, <1>8, <1>9, <1>10, <1>11, <1>12,
     <1>13, <1>14, <1>15, <1>16, <1>17, <1>18, <1>19, <1>20 DEF Next, Step

-----------------------------------------------------------------------------
(* The theorems.                                                           *)

\* A machine that never started has no identity and is not registered.
LEMMA InvInit == Init => StartupInv
BY DEF Init, Off, Slots, StartupInv, LockOK, LockedPcs, ArchiveOK, GeneratedOK, IdentityOK,
   DurableOK

\* The invariant is inductive.
LEMMA InvStep ==
  ASSUME TypeOK, StartupInv, [Next]_vars
  PROVE  StartupInv'
<1>. LockOK /\ ArchiveOK /\ GeneratedOK /\ IdentityOK /\ (~windows => DurableOK)
  BY DEF StartupInv
<1>1. LockOK' /\ ArchiveOK' /\ GeneratedOK'
  BY LockStep, ArchiveStep, GeneratedStep
<1>2. IdentityOK'
  BY IdentityStep
<1>3. (~windows => DurableOK)'
  BY DurableStep
<1>. QED
  BY <1>1, <1>2, <1>3 DEF StartupInv

\* The variables keep their types: registration is tried a bounded number of
\* times (app.rs:438), and who is up has a process id.
THEOREM TypeCorrect == Spec => []TypeOK
<1>. QED
  BY TypeInit, TypeStep, PTL DEF Spec

\* The holder of lariska.lock alone works on the identity, which is that of the
\* file and the only one registered that is not lost (app.rs:89, identity.rs:17).
THEOREM Inductive == Spec => [](TypeOK /\ StartupInv)
<1>. QED
  BY TypeInit, TypeStep, InvInit, InvStep, PTL DEF Spec

\* Any number of kills, restarts, lost answers and power losses leaves a machine
\* with one registration, not counting identities whose file could not be
\* examined and identities that a power loss took back because nothing had
\* synced them: on Windows, or after a start cut short between the rename and
\* the sync (identity.rs:17, 67-68).
THEOREM RegistersOnce == Spec => []OneIdentity
<1>1. TypeOK /\ StartupInv => OneIdentity
  <2>. SUFFICES ASSUME TypeOK, StartupInv PROVE Cardinality(registered \ lost) <= 1
    BY DEF OneIdentity
  <2>1. registered \ lost \subseteq {agent_id}
    BY DEF StartupInv, IdentityOK
  <2>2. IsFiniteSet({agent_id}) /\ Cardinality({agent_id}) = 1
    BY FS_Singleton
  <2>3. Cardinality(registered \ lost) <= Cardinality({agent_id})
    BY <2>1, <2>2, FS_Subset
  <2>. QED
    BY <2>2, <2>3
<1>. QED
  BY <1>1, Inductive, PTL

\* The identity the server has registered stays in the file over kills, restarts
\* and power losses.  It goes only if the file could not be examined, or in a
\* power loss on Windows or after a start cut short between the rename and the
\* sync: the next start registers that identity without syncing it
\* (identity.rs:25, 67-68).
THEOREM RegisteredSurvives == Spec => RegisteredIsKept
<1>1. TypeOK /\ StartupInv /\ [Next]_vars
      => [agent_id' # agent_id => agent_id \notin registered \ lost']_vars
  <2>. SUFFICES ASSUME TypeOK, StartupInv, Next, agent_id' # agent_id
                PROVE  agent_id \notin registered \ lost'
    BY DEF vars
  <2>. TypeOK /\ IdentityOK /\ GeneratedOK /\ (~windows => DurableOK)
    BY DEF StartupInv
  <2>1. CASE PowerLoss
    BY <2>1, PowerLossKeeps
  <2>2. ASSUME NEW s \in Slots, Rename(s) PROVE agent_id \notin registered \ lost'
    <3>1. agent_id \in lost \cup {None} /\ lost' = lost
      BY <2>2 DEF Rename, At, IdentityOK, ghosts
    <3>2. None \notin registered
      BY StartupAssumption DEF TypeOK, Ids
    <3>. QED
      BY <3>1, <3>2
  <2>3. PowerLoss \/ \E s \in Slots : Rename(s)
    BY DEF Next, Step, Launch, ReadConfig, Look, Archive, Lock, LoadIdentity, NewIdentity,
       Sync, Registers, RegisterFails, Stops, DiskFails, Panic, Killed, AskToStop, StartAgain,
       Reconfigure, disk, setup
  <2>. QED
    BY <2>1, <2>2, <2>3
<1>. QED
  BY <1>1, Inductive, PTL DEF Spec, RegisteredIsKept

\* A start moves a report aside only after one has logged it, with two
\* exceptions: a report that could not be read, and one that arrived while a
\* second start was moving an older one aside (crash.rs:64).  A newer panic
\* replaces a report, and a power loss may take it.
THEOREM ReportsReachTheLog == Spec => ReportsAreLogged
<1>1. TypeOK /\ StartupInv /\ [Next]_vars
      => [report # None /\ report' = None => report \in logged \cup missed \/ PowerLoss]_vars
  <2>. SUFFICES ASSUME TypeOK, StartupInv, Next, report # None, report' = None, ~PowerLoss
                PROVE  report \in logged \cup missed
    BY DEF vars
  <2>1. ASSUME NEW s \in Slots, Panic(s) PROVE FALSE
    BY <2>1, StartupAssumption DEF Panic, TypeOK
  <2>2. PICK s \in Slots : Archive(s)
    BY <2>1 DEF Next, Step, Launch, ReadConfig, Look, Lock, LoadIdentity, NewIdentity, Rename,
       Sync, Registers, RegisterFails, Stops, DiskFails, Killed, AskToStop, StartAgain,
       Reconfigure, disk, setup
  <2>. QED
    BY <2>2 DEF Archive, At, StartupInv, ArchiveOK
<1>. QED
  BY <1>1, Inductive, PTL DEF Spec, ReportsAreLogged
=============================================================================
