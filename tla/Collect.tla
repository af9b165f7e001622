------------------------------ MODULE Collect ------------------------------
(***************************************************************************)
(* The inventory cycle: inventory/cache.rs and collect_and_submit of       *)
(* app.rs.  A cycle runs the cached collectors one after the other.  For   *)
(* each it takes a fingerprint of the host, reuses the stored result when  *)
(* the fingerprint, the agent and the age allow, and collects and stores   *)
(* otherwise; then it reconciles the history of complete sources and hands *)
(* the snapshot over.  The host, the clock, the agent's version and the    *)
(* schema the server asks for change at any time in between.               *)
(*                                                                         *)
(* A hand-over reaches the server at once (Delivery models the queue), and *)
(* the server replaces what the contract says it may.                      *)
(***************************************************************************)
EXTENDS Collectors, Integers, Sequences

CONSTANTS
    Hosts,        \* the hosts an agent may be installed on
    Scans,        \* by os: the cached collectors that run, in their order
    Moves,        \* by os: the packages and the areas that change
    MaxAge,       \* full refresh interval: a stored result lives this long
    MaxTime,      \* bound on the clock
    ScanTicks,    \* bound on the time one cycle takes
    MaxEvents,    \* bound on changes of the host, faults, restarts, clock
                  \* steps and changes of the schema
    None,
    Garbage       \* a stored result that does not parse

VARIABLES
    host,       \* the machine
    stamp,      \* by collector: what its fingerprint would be now
    now,        \* real time
    skew,       \* the wall clock less real time
    version,    \* of the running agent
    schema,     \* the inventory schema the server negotiated
    cache,      \* inventory-cache-v2: by collector, the stored result
    history,    \* inventory-source-history-v2.json
    scan,       \* the cycle in progress
    effective,  \* server: the effective inventory
    report,     \* server: the source records of the last snapshot
    events,     \* how many changes and faults there were
    lapsed,     \* packages that could not be found at some time since the
                \* server last learnt of them
    blurred,    \* packages that changed where no fingerprint could notice
    told,       \* sources that some cycle found complete
    spoilt      \* what has been lost: the "clock" was stepped, or the
                \* "history" could not be read or written

machine == <<host, stamp, blurred>>
clock == <<now, skew>>
agent == <<version, schema>>
stores == <<cache, history>>
server == <<effective, report>>
vars == <<machine, clock, agent, stores, scan, server, events, lapsed, told, spoilt>>

Versions == {1, 2}
Time == 0 .. MaxTime

unix_time_secs == IF now + skew < 0 THEN 0 ELSE now + skew

cache_expired_Later(at) == at > unix_time_secs \/ unix_time_secs - at > MaxAge

cache_expired(at) == at > unix_time_secs \/ unix_time_secs - at >= MaxAge

Idle == [step |-> "idle", todo |-> <<>>, schema |-> 1, fp |-> None,
         result |-> None, parts |-> {}, since |-> 0, seen |-> {}]

-----------------------------------------------------------------------------
(* The host *)

AreaOf(p) ==
    CASE SourceOf[p] \in {"winreg", "msi"} ->
             IF p \in UserScope THEN "profile" ELSE "machine"
      [] SourceOf[p] = "kb" -> "updates"
      [] SourceOf[p] = "mac_bundle" -> "apps"
      [] SourceOf[p] = "pip" -> "python"
      [] SourceOf[p] = "npm" -> "nodejs"
      [] OTHER -> SourceOf[p]

(* Places that hold the packages themselves. *)
Places == {"apps", "brew", "python", "nodejs", "java"}

Present(h) ==
    {p \in Installed(h) : ~(AreaOf(p) \in Places /\ h.area[AreaOf(p)] = "absent")}

(* Installed, but passed over: an application in a directory the agent may *)
(* not search, and the software of a signed-out user.                      *)
Overlooked(h) ==
    {p \in Present(h) : \/ SourceOf[p] = "mac_bundle" /\ h.pkg[p] = "sealed"
                        \/ p \in UserScope /\ inactive_profiles(h)}

Visible(h) == Present(h) \ Overlooked(h)

PackageStates(p) ==
    IF SourceOf[p] \in Managers \cup {"brew"} THEN {"gone", "good"}
    ELSE {"gone", "good", "damaged", "sealed"}

AreaStates(a) ==
    IF a \in {"casks", "machine", "updates", "discovery"} THEN {"open", "fails"}
    ELSE {"open", "fails", "absent"}

HostStates ==
    {h \in [os : {"linux", "macos", "windows"}, relocated : BOOLEAN,
            pkg : [Packages -> {"gone", "good", "damaged", "sealed"}],
            area : [Areas -> {"open", "fails", "absent"}]] :
        /\ \A p \in Packages : h.pkg[p] \in PackageStates(p)
        /\ \A a \in Areas : h.area[a] \in AreaStates(a)}

ASSUME CollectAssumption ==
    /\ MaxAge \in Nat \ {0} /\ MaxTime \in Nat /\ ScanTicks \in Nat
    /\ MaxEvents \in Nat
    /\ None \notin Nat
    /\ Hosts \subseteq HostStates
    /\ \A os \in {"linux", "macos", "windows"} : Scans[os] \in Seq(Kinds) \ {<<>>}

Event == events < MaxEvents /\ events' = events + 1

(* The collectors of "kinds" would compute a new fingerprint; the changes  *)
(* of the packages "unseen" cannot be noticed.                             *)
ChangeHost(h, kinds, unseen) ==
    /\ Event
    /\ host' = h
    /\ stamp' = [k \in Kinds |-> IF k \in kinds THEN stamp[k] + 1 ELSE stamp[k]]
    /\ lapsed' = lapsed \cup (Packages \ Visible(h))
    /\ blurred' = blurred \cup unseen
    /\ scan' = [scan EXCEPT !.seen = @ \cap Visible(h)]
    /\ UNCHANGED <<clock, agent, stores, server, told, spoilt>>

(* Installing, removing or replacing files shows in the fingerprint, unless*)
(* a manager keeps its database elsewhere.  A change of permissions does   *)
(* not, but makes the fingerprint fail, unless it comes after it.          *)
ChangePackage(p, st) ==
    /\ p \in Moves[host.os] /\ st \in PackageStates(p) \ {host.pkg[p]}
    /\ LET chmod == {st, host.pkg[p]} = {"good", "sealed"}
           moved == host.relocated /\ SourceOf[p] \in Managers
           untraced == \/ moved
                       \/ st = "sealed" /\ scan.step = "collect" /\ scan.fp # None
                          /\ Head(scan.todo) = KindOf(p)
       IN ChangeHost([host EXCEPT !.pkg[p] = st],
                     IF chmod \/ moved THEN {} ELSE {KindOf(p)},
                     IF untraced THEN {p} ELSE {})

ChangeArea(a, st) ==
    /\ a \in Moves[host.os] /\ st \in AreaStates(a) \ {host.area[a]}
    /\ ChangeHost([host EXCEPT !.area[a] = st],
                  IF a \in Places /\ "absent" \in {st, host.area[a]}
                  THEN {KindOf(p) : p \in {q \in Packages : AreaOf(q) = a}} ELSE {},
                  {})

-----------------------------------------------------------------------------
(* The clock, the process, the server and the disk *)

Tick ==
    /\ now < MaxTime
    /\ scan.step # "idle" => now - scan.since < ScanTicks
    /\ now' = now + 1
    /\ UNCHANGED <<machine, skew, agent, stores, scan, server, events, lapsed, told, spoilt>>

StepClock ==
    /\ Event
    /\ \E d \in {-MaxAge, MaxAge} : skew' = skew + d
    /\ spoilt' = spoilt \cup {"clock"}
    /\ UNCHANGED <<machine, now, agent, stores, scan, server, lapsed, told>>

Negotiate ==
    /\ Event
    /\ schema' = 3 - schema
    /\ UNCHANGED <<machine, clock, version, stores, scan, server, lapsed, told, spoilt>>

(* A crash, a stop or an update, at any point of a cycle. *)
Restart ==
    /\ Event
    /\ scan' = Idle
    /\ version' \in IF scan = Idle THEN Versions \ {version} ELSE Versions
    /\ UNCHANGED <<machine, clock, schema, stores, server, lapsed, told, spoilt>>

Corrupt(k) ==
    /\ Event
    /\ cache[k] \notin {None, Garbage}
    /\ cache' = [cache EXCEPT ![k] = Garbage]
    /\ UNCHANGED <<machine, clock, agent, history, scan, server, lapsed, told, spoilt>>

-----------------------------------------------------------------------------
(* The cycle *)

ScanKeeps == UNCHANGED <<machine, clock, agent, lapsed, told, spoilt, history, server>>

kind == Head(scan.todo)

Part(k, result, read, by) == [kind |-> k, result |-> result, read |-> read, by |-> by]

(* The collector at the head of the list is done. *)
Advance(part) ==
    [scan EXCEPT !.step = IF Tail(scan.todo) = <<>> THEN "finish" ELSE "lookup",
                 !.todo = Tail(@), !.fp = None, !.result = None,
                 !.parts = @ \cup {part}]

Begin ==
    /\ scan.step = "idle"
    /\ scan' = [Idle EXCEPT !.step = "lookup", !.todo = Scans[host.os],
                            !.schema = schema, !.since = now, !.seen = Visible(host)]
    /\ ScanKeeps /\ UNCHANGED <<cache, events>>

(* A fingerprint covers the files; for Python also which roots were found. *)
fingerprint(k) == <<stamp[k], k = "python" /\ host.area["discovery"] = "open">>

load(k, fp) ==
    LET c == cache[k]
    IN IF /\ c \notin {None, Garbage}
          /\ c.by = version /\ c.fp = fp /\ c.result.complete /\ ~cache_expired(c.at)
       THEN c ELSE None

(* load_or_miss also removes a file it could not parse. *)
LookUp ==
    LET fp == fingerprint(kind)
        hit == load(kind, fp)
    IN /\ scan' = IF hit = None THEN [scan EXCEPT !.step = "collect", !.fp = fp]
                  ELSE Advance(Part(kind, hit.result, hit.read, hit.by))
       /\ cache' = IF cache[kind] = Garbage THEN [cache EXCEPT ![kind] = None] ELSE cache

(* Windows takes no fingerprint of the registry.  A fingerprint may also   *)
(* fail on too many files, or on one that changed underneath it.           *)
Fingerprinted(k) == ~FingerprintBlocked(host, k) /\ ~(host.os = "windows" /\ k = "platform")

Lookup ==
    /\ scan.step = "lookup"
    /\ \/ Fingerprinted(kind) /\ LookUp /\ UNCHANGED events
       \/ /\ IF Fingerprinted(kind) THEN Event ELSE UNCHANGED events
          /\ scan' = [scan EXCEPT !.step = "collect"]
          /\ UNCHANGED cache
    /\ ScanKeeps

degraded(res) ==
    [res EXCEPT !.complete = FALSE,
                !.sources = {Status(s.source, IF res.entries = {} THEN "failed"
                                              ELSE "partial") : s \in @}]

collected_Undegraded(k) == Pass(host, k)

(* A runtime collector without a fingerprint is not believed; a platform   *)
(* collector is.                                                           *)
collected(k) ==
    IF k # "platform" /\ scan.fp = None THEN degraded(Pass(host, k)) ELSE Pass(host, k)

Storable(res) == res.complete

Collect ==
    /\ scan.step = "collect"
    /\ LET part == Part(kind, collected(kind), now, version)
       IN scan' = IF scan.fp # None /\ Storable(part.result)
                  THEN [scan EXCEPT !.step = "store", !.result = part]
                  ELSE Advance(part)
    /\ ScanKeeps /\ UNCHANGED <<cache, events>>

(* On Windows the old file is removed before the new one takes its place.  *)
Kept(old) == IF host.os = "windows" THEN {None, old} ELSE {old}

Store ==
    /\ scan.step = "store"
    /\ LET new == [fp |-> scan.fp, at |-> unix_time_secs, by |-> version,
                   result |-> scan.result.result, read |-> scan.result.read]
       IN \/ cache' = [cache EXCEPT ![kind] = new] /\ UNCHANGED events
          \/ Event /\ \E c \in Kept(cache[kind]) : cache' = [cache EXCEPT ![kind] = c]
    /\ scan' = Advance(scan.result)
    /\ ScanKeeps

(* The runtime collectors run in one task: when it panics, what the earlier*)
(* ones found is lost as well.                                             *)
RuntimeSource(k) == CASE k = "python" -> "pip" [] k = "nodejs" -> "npm" [] k = "java" -> "java"

Panic ==
    /\ scan.step \in {"lookup", "collect", "store"} /\ kind # "platform"
    /\ Event
    /\ scan' = [scan EXCEPT !.step = "finish", !.todo = <<>>, !.fp = None, !.result = None,
                   !.parts = {q \in @ : q.kind = "platform"} \cup
                       {Part(k, failed(RuntimeSource(k)), now, version) :
                            k \in {"python", "nodejs", "java"}}]
    /\ ScanKeeps /\ UNCHANGED cache

(* The platform collector's own task, on Windows. *)
PlatformPanic ==
    /\ scan.step = "collect" /\ kind = "platform" /\ host.os = "windows"
    /\ Event
    /\ scan' = Advance(Part(kind, merge(failed("winreg"), merge(failed("msi"), failed("kb"))),
                            now, version))
    /\ ScanKeeps /\ UNCHANGED cache

-----------------------------------------------------------------------------
(* The end of the cycle *)

Entries == UNION {q.result.entries : q \in scan.parts}
AllComplete == \A q \in scan.parts : q.result.complete
Records == UNION {{[source |-> s.source, status |-> s.status, read |-> q.read] :
                       s \in q.result.sources} : q \in scan.parts}
CompleteSources == {r.source : r \in {x \in Records : x.status = "complete"}}

NoHistory == [s \in Sources |-> None]

reconciled_Anew(old) ==
    [s \in Sources |->
        IF s \in CompleteSources
        THEN (CHOOSE r \in Records : r.source = s /\ r.status = "complete").read
        ELSE None]

(* The new history: the last time each source was complete. *)
reconciled(old) ==
    [s \in Sources |->
        IF s \in CompleteSources
        THEN (CHOOSE r \in Records : r.source = s /\ r.status = "complete").read
        ELSE old[s]]

(* A record also says whether some cycle had found the source complete by  *)
(* then.                                                                   *)
Reported(hist) ==
    {[source |-> r.source, status |-> r.status, last |-> hist[r.source],
      known |-> r.source \in told \cup CompleteSources] : r \in Records}

ensure_authoritative_Always == TRUE

(* Schema 1 says nothing of sources: absence means removal. *)
ensure_authoritative == AllComplete

(* What the server makes of a snapshot. *)
Learn(hist) ==
    CASE scan.schema = 2 ->
            /\ effective' = {p \in effective : SourceOf[p] \notin CompleteSources} \cup
                            {p \in Entries : SourceOf[p] \in CompleteSources}
            /\ report' = Reported(hist)
      [] scan.schema = 1 /\ ensure_authoritative ->
            effective' = Entries /\ report' = {}
      [] OTHER -> UNCHANGED server

Forgets == spoilt' = spoilt \cup {"history"}

(* reconcile_last_complete, and the submission. *)
Finish ==
    /\ scan.step = "finish"
    /\ \/ /\ history' = reconciled(history)
          /\ Learn(reconciled(history))
          /\ UNCHANGED <<events, spoilt>>
       \/ /\ Event /\ Forgets            \* the file cannot be read
          /\ history' = reconciled(NoHistory)
          /\ Learn(reconciled(NoHistory))
       \/ /\ Event /\ Forgets            \* it cannot be written
          /\ history' \in IF host.os = "windows" THEN {history, NoHistory} ELSE {history}
          /\ Learn(reconciled(history))
    /\ told' = told \cup CompleteSources
    /\ lapsed' = (lapsed \ (effective' \ effective)) \cup (Packages \ Visible(host))
    /\ scan' = Idle
    /\ UNCHANGED <<machine, clock, agent, cache>>

-----------------------------------------------------------------------------
Init ==
    /\ host \in Hosts
    /\ stamp = [k \in Kinds |-> 0]
    /\ now = 0 /\ skew = 0
    /\ version = 1 /\ schema \in {1, 2}
    /\ cache = [k \in Kinds |-> None]
    /\ history = NoHistory
    /\ scan = Idle
    /\ effective = {} /\ report = {}
    /\ events = 0
    /\ lapsed = Packages \ Visible(host)
    /\ blurred = {} /\ told = {} /\ spoilt = {}

Next ==
    \/ \E p \in Packages : \E st \in PackageStates(p) : ChangePackage(p, st)
    \/ \E a \in Areas : \E st \in AreaStates(a) : ChangeArea(a, st)
    \/ Tick \/ StepClock \/ Negotiate \/ Restart
    \/ \E k \in Kinds : Corrupt(k)
    \/ Begin \/ Lookup \/ Collect \/ Store \/ Panic \/ PlatformPanic \/ Finish

Spec == Init /\ [][Next]_vars

-----------------------------------------------------------------------------
(* Every variable holds a value of its kind; a stored result is complete   *)
(* (cache.rs:126), and the collector that is to run or to store is at the  *)
(* head of the list.                                                       *)
SourceStates ==
    [source : Sources, status : {"complete", "partial", "failed", "not_applicable"}]
Results == [entries : SUBSET Packages, complete : BOOLEAN, sources : SUBSET SourceStates]
Prints == Nat \X BOOLEAN
Parts == [kind : Kinds, result : Results, read : Time, by : Versions]
Stored ==
    {c \in [fp : Prints, at : Nat, by : Versions, result : Results, read : Time] :
        c.result.complete}
Cycles == [step : {"idle", "lookup", "collect", "store", "finish"}, todo : Seq(Kinds),
           schema : {1, 2}, fp : Prints \cup {None}, result : Parts \cup {None},
           parts : SUBSET Parts, since : Time, seen : SUBSET Packages]

TypeOK ==
    /\ host \in HostStates /\ stamp \in [Kinds -> Nat] /\ blurred \subseteq Packages
    /\ now \in Time /\ skew \in Int /\ version \in Versions /\ schema \in {1, 2}
    /\ cache \in [Kinds -> Stored \cup {None, Garbage}]
    /\ history \in [Sources -> Time \cup {None}]
    /\ scan \in Cycles
    /\ scan.step \in {"lookup", "collect", "store"} <=> scan.todo # <<>>
    /\ scan.step = "store" =>
           /\ scan.fp \in Prints /\ scan.result \in Parts
           /\ scan.result.kind = Head(scan.todo) /\ scan.result.result.complete
    /\ effective \subseteq Packages /\ lapsed \subseteq Packages /\ told \subseteq Sources
    /\ report \subseteq [source : Sources, status : {"complete", "partial", "failed", "not_applicable"},
                         last : Time \cup {None}, known : BOOLEAN]
    /\ events \in 0 .. MaxEvents /\ spoilt \subseteq {"clock", "history"}

(* A package leaves the server's inventory only when it could really not   *)
(* be found at some time since the server learnt of it: a collector that   *)
(* fails, a result from the cache, a restart, a change of the schema in    *)
(* the middle of a cycle never remove one (app.rs:371, INVENTORY_V2.md:20).*)
NoManufacturedRemoval ==
    [][effective \ effective' \subseteq lapsed \cup blurred]_vars

(* A source that is called complete lists every package of the source that *)
(* was there to be found throughout the cycle, also when the list comes    *)
(* from the cache.                                                         *)
CompleteListsAll ==
    scan.step = "finish" =>
        \A p \in scan.seen \ blurred :
            SourceOf[p] \in CompleteSources => p \in Entries

(* What is reported was read by the running agent, and no longer ago than  *)
(* the refresh interval allows, unless the clock was stepped.              *)
EvidenceIsCurrent ==
    scan.step = "finish" =>
        \A q \in scan.parts :
            /\ q.by = version
            /\ "clock" \notin spoilt => scan.since - q.read < MaxAge + ScanTicks

(* A source that was complete once is never again reported as if it had    *)
(* never been, unless the history was lost.                                *)
LastCompleteKept ==
    "history" \notin spoilt =>
        /\ \A s \in told : history[s] # None
        /\ \A r \in report : r.known => r.last # None

=============================================================================
