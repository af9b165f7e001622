--------------------------- MODULE CollectProofs ---------------------------
(***************************************************************************)
(* What a cycle of the collectors may tell the server, on every host and   *)
(* for every number of changes and faults: a source that is called         *)
(* complete lists what was there, the evidence is recent and of this       *)
(* agent, and nothing leaves the server's inventory that could always be   *)
(* found.                                                                  *)
(*                                                                         *)
(* The last of these needs that a host whose package databases are not     *)
(* where the agent looks for them has one manager only: otherwise the      *)
(* pass stays complete when the command of one manager disappears.         *)
(***************************************************************************)
EXTENDS Collect, SequenceTheorems, TLAPS

-----------------------------------------------------------------------------
(* The age of what is reported *)

Scanning == scan.step # "idle"

\* A stored result.
IsStored(c) == c \notin {None, Garbage}

\* What was read in this cycle is younger than the cycle; what comes from the
\* cache was young enough when it was taken.
Recent(q) ==
  /\ q.by = version
  /\ "clock" \notin spoilt => scan.since - q.read < MaxAge + ScanTicks

EvidenceInv ==
  /\ "clock" \notin spoilt => skew = 0
  /\ Scanning => scan.since <= now /\ now - scan.since <= ScanTicks
  /\ \A q \in scan.parts : Recent(q)
  /\ scan.step = "store" => Recent(scan.result) /\ scan.result.read >= scan.since
  /\ \A k \in Kinds : IsStored(cache[k]) /\ "clock" \notin spoilt
                        => cache[k].at - cache[k].read <= ScanTicks

-----------------------------------------------------------------------------
(* The host and the cycle *)

\* The sources a collector speaks for on this kind of host, and the packages
\* it may list.
PlatformSources(os) ==
  CASE os = "linux"   -> Managers
    [] os = "macos"   -> {"mac_bundle", "brew"}
    [] os = "windows" -> {"winreg", "msi", "kb"}

Native(os, p) == SourceOf[p] \in PlatformSources(os) \cup {"pip", "npm", "java"}

\* Managers whose command the host lacks for good.
Lacks(h) == {m \in Managers : h.area[m] = "absent" /\ m \notin Moves[h.os]}

\* A host that keeps the databases of its managers elsewhere may lose the command
\* of one and still be complete with another, so that it answers for a
\* manager's packages only if no other manager can run.
Answers(h, p) ==
  h.relocated /\ SourceOf[p] \in Managers => Managers \ {SourceOf[p]} \subseteq Lacks(h)

\* What a result of the host's collector must list: what it calls complete, and
\* everything if it says so itself.
Owes(h, res, p) ==
  \/ Status(SourceOf[p], "complete") \in res.sources
  \/ res.complete /\ Answers(h, p) /\ Native(h.os, p)

Lists(h, res, p) == Owes(h, res, p) => p \in res.entries

\* A result is about the packages of its own collector.
OwnResult(h, k, res) ==
  /\ \A p \in res.entries : /\ KindOf(p) = k /\ Native(h.os, p)
                             /\ SourceOf[p] \notin Lacks(h)
  /\ \A s \in res.sources, p \in Packages :
       SourceOf[p] = s.source => KindOf(p) = k /\ Native(h.os, p)

OwnPart(q) ==
  /\ OwnResult(host, q.kind, q.result)
  /\ \A p \in scan.seen \ blurred : KindOf(p) = q.kind => Lists(host, q.result, p)

\* Whoever has been invisible has lapsed.
LapsedInv ==
  /\ Packages \ Visible(host) \subseteq lapsed
  /\ Scanning => scan.seen \subseteq Visible(host) /\ Packages \ scan.seen \subseteq lapsed

\* A directory that may not be searched is not passed over unnoticed once there
\* is a fingerprint.
Searched(h, p) == SourceOf[p] = "java" \/ (SourceOf[p] = "mac_bundle" /\ h.os = "macos")

PrintInv ==
  /\ scan.step = "lookup" => scan.fp = None
  /\ scan.step = "store" => scan.fp # None
  /\ scan.step \in {"collect", "store"} /\ scan.fp # None =>
       /\ scan.fp[1] <= stamp[kind]
       /\ ~(host.os = "windows" /\ kind = "platform")
       /\ scan.step = "collect" =>
            \A p \in Packages \ blurred :
              KindOf(p) = kind /\ Searched(host, p) => host.pkg[p] # "sealed"

\* A fingerprint that is still true vouches for the result it was stored with.
Vouches(fp, k, res) ==
  fp[1] = stamp[k] =>
    \A p \in Present(host) \ blurred : KindOf(p) = k => Lists(host, res, p)

PartsInv ==
  /\ \A q \in scan.parts : OwnPart(q)
  /\ scan.step = "store" =>
       /\ OwnPart(scan.result)
       /\ Vouches(scan.fp, kind, scan.result.result)

CacheInv ==
  \A k \in Kinds : IsStored(cache[k]) =>
    /\ cache[k].fp[1] <= stamp[k]
    /\ ~(host.os = "windows" /\ k = "platform")
    /\ OwnResult(host, k, cache[k].result)
    /\ Vouches(cache[k].fp, k, cache[k].result)

\* Every collector of the host has spoken by the end of a cycle, or what was
\* collected is not complete.
Elements(s) == {s[i] : i \in 1 .. Len(s)}

Mine == Elements(Scans[host.os])

CoverInv ==
  /\ Scanning => /\ Elements(scan.todo) \subseteq Mine
                 /\ AllComplete => Mine \subseteq Elements(scan.todo) \cup {q.kind : q \in scan.parts}
                 /\ \A q \in scan.parts : q.kind \in Mine \/ q.result.entries = {}
  /\ \A p \in effective : /\ KindOf(p) \in Mine /\ Native(host.os, p)
                           /\ SourceOf[p] \notin Lacks(host)

\* The history keeps what some cycle found complete.
HistoryInv ==
  "history" \notin spoilt =>
    /\ \A s \in told : history[s] # None
    /\ \A r \in report : r.known => r.last # None

CollectInv ==
  /\ TypeOK /\ EvidenceInv /\ LapsedInv /\ PrintInv /\ PartsInv /\ CacheInv
  /\ CoverInv /\ HistoryInv

-----------------------------------------------------------------------------
(* The collectors *)

\* A directory of a Java runtime that may not be searched passes for another
\* product.
Unsealed(h, p) == SourceOf[p] = "java" => h.pkg[p] # "sealed"

\* Databases are where they are looked for.
Standard(h, p) == h.relocated => SourceOf[p] \notin Managers

\* A result speaks for the sources S, and lists what it must of them.
Faithful(h, S, res) ==
  /\ res \in Results
  /\ \A p \in res.entries : SourceOf[p] \in S \ Lacks(h)
  /\ \A s \in res.sources : s.source \in S
  /\ \A p \in Visible(h) :
       SourceOf[p] \in S /\ Unsealed(h, p) =>
         (Status(SourceOf[p], "complete") \in res.sources \/ (res.complete /\ Standard(h, p))
            => p \in res.entries)

\* The fields of a state of the host, and the states packages and places may be
\* in.
LEMMA HostFacts ==
  ASSUME NEW h \in HostStates
  PROVE  /\ h.os \in {"linux", "macos", "windows"} /\ h.relocated \in BOOLEAN
         /\ \A p \in Packages : /\ SourceOf[p] \in Sources
                                /\ h.pkg[p] \in {"gone", "good", "damaged", "sealed"}
                                /\ SourceOf[p] \in Managers \cup {"brew"}
                                     => h.pkg[p] \in {"gone", "good"}
         /\ \A a \in Areas : h.area[a] \in {"open", "fails", "absent"}
         /\ \A a \in {"casks", "machine", "updates", "discovery"} : h.area[a] \in {"open", "fails"}
<1>1. /\ h.os \in {"linux", "macos", "windows"} /\ h.relocated \in BOOLEAN
      /\ h.pkg \in [Packages -> {"gone", "good", "damaged", "sealed"}]
      /\ h.area \in [Areas -> {"open", "fails", "absent"}]
      /\ \A p \in Packages : h.pkg[p] \in PackageStates(p)
      /\ \A a \in Areas : h.area[a] \in AreaStates(a)
  BY DEF HostStates
<1>2. SourceOf \in [Packages -> Sources]
  BY CollectorsAssumption
<1>3. \A p \in Packages : SourceOf[p] \in Managers \cup {"brew"} => h.pkg[p] \in {"gone", "good"}
  BY <1>1 DEF PackageStates
<1>4. \A a \in {"casks", "machine", "updates", "discovery"} : h.area[a] \in {"open", "fails"}
  BY <1>1 DEF AreaStates, Areas
<1>. QED
  BY <1>1, <1>2, <1>3, <1>4

\* What can be found is installed, and not in a place that is missing.
LEMMA VisibleFacts ==
  ASSUME NEW h \in HostStates, NEW p \in Visible(h)
  PROVE  /\ p \in Packages /\ h.pkg[p] # "gone"
         /\ SourceOf[p] = "mac_bundle" => h.pkg[p] # "sealed" /\ h.area["apps"] # "absent"
         /\ SourceOf[p] = "brew" => h.area["brew"] # "absent"
         /\ SourceOf[p] = "pip" => h.area["python"] # "absent"
         /\ SourceOf[p] = "npm" => h.area["nodejs"] # "absent"
         /\ SourceOf[p] = "java" => h.area["java"] # "absent"
         /\ p \in UserScope => h.area["profile"] # "absent"
<1>1. /\ p \in Packages /\ h.pkg[p] # "gone"
      /\ ~(AreaOf(p) \in Places /\ h.area[AreaOf(p)] = "absent")
      /\ ~(SourceOf[p] = "mac_bundle" /\ h.pkg[p] = "sealed")
      /\ ~(p \in UserScope /\ h.area["profile"] = "absent")
  BY DEF Visible, Overlooked, Present, Installed, inactive_profiles
<1>2. /\ SourceOf[p] = "mac_bundle" => AreaOf(p) = "apps"
      /\ SourceOf[p] = "brew" => AreaOf(p) = "brew"
      /\ SourceOf[p] = "pip" => AreaOf(p) = "python"
      /\ SourceOf[p] = "npm" => AreaOf(p) = "nodejs"
      /\ SourceOf[p] = "java" => AreaOf(p) = "java"
  BY DEF AreaOf
<1>. QED
  BY <1>1, <1>2 DEF Places

\* with_source: the status of a source follows from the pass.
LEMMA WithSourceFacts ==
  ASSUME NEW E \in SUBSET Packages, NEW c \in BOOLEAN, NEW s \in Sources
  PROVE  LET r == with_source(Result(E, c), s)
         IN /\ r \in Results /\ r.entries = E /\ r.complete = c
            /\ \A x \in r.sources : x.source = s /\ (x.status = "complete" => c)
<1>. DEFINE st == IF c THEN "complete" ELSE IF E = {} THEN "failed" ELSE "partial"
            r == with_source(Result(E, c), s)
<1>1. r = [entries |-> E, complete |-> c, sources |-> {[source |-> s, status |-> st]}]
  BY DEF with_source, Result, Status
<1>2. [source |-> s, status |-> st] \in SourceStates
  BY DEF SourceStates
<1>. QED
  BY <1>1, <1>2 DEF Results

\* A pass that says it read everything must have.
LEMMA PassFaithful ==
  ASSUME NEW h \in HostStates, NEW s \in Sources, NEW E \in SUBSET Of(s), NEW c \in BOOLEAN,
         E # {} => s \notin Lacks(h),
         \A p \in Visible(h) : c /\ SourceOf[p] = s /\ Unsealed(h, p) => p \in E
  PROVE  Faithful(h, {s}, with_source(Result(E, c), s))
<1>. DEFINE r == with_source(Result(E, c), s)
<1>1. E \in SUBSET Packages /\ \A p \in E : SourceOf[p] \in {s} \ Lacks(h)
  BY DEF Of
<1>2. /\ r \in Results /\ r.entries = E /\ r.complete = c
      /\ \A x \in r.sources : x.source = s /\ (x.status = "complete" => c)
  BY <1>1, WithSourceFacts
<1>3. ASSUME NEW p \in Visible(h), SourceOf[p] = s, Unsealed(h, p),
             Status(SourceOf[p], "complete") \in r.sources \/ (r.complete /\ Standard(h, p))
      PROVE  p \in r.entries
  <2>1. c
    BY <1>2, <1>3 DEF Status
  <2>. QED
    BY <1>2, <1>3, <2>1
<1>. HIDE DEF r
<1>. QED
  BY <1>1, <1>2, <1>3 DEF Faithful, r

\* A result that was not read from anywhere.
LEMMA StatusAlone ==
  ASSUME NEW E, NEW c, NEW x
  PROVE  [Result(E, c) EXCEPT !.sources = x] = [entries |-> E, complete |-> c, sources |-> x]
  BY DEF Result

\* A source that is not there is no gap where its packages cannot be.
LEMMA NotApplicableFaithful ==
  ASSUME NEW h \in HostStates, NEW s \in Sources,
         \A p \in Visible(h) : SourceOf[p] # s \/ ~Standard(h, p)
  PROVE  Faithful(h, {s}, not_applicable(s))
<1>1. not_applicable(s) = [entries |-> {}, complete |-> TRUE,
                           sources |-> {[source |-> s, status |-> "not_applicable"]}]
  BY StatusAlone, Zenon DEF not_applicable, Status
<1>2. [source |-> s, status |-> "not_applicable"] \in SourceStates
  BY DEF SourceStates
<1>3. not_applicable(s) \in Results
  BY <1>1, <1>2 DEF Results
<1>4. \A t : Status(t, "complete") \notin not_applicable(s).sources
  BY <1>1 DEF Status
<1>. QED
  BY <1>1, <1>3, <1>4 DEF Faithful

\* A failure promises nothing.
LEMMA FailedFaithful ==
  ASSUME NEW h \in HostStates, NEW s \in Sources
  PROVE  Faithful(h, {s}, failed(s))
<1>1. failed(s) = [entries |-> {}, complete |-> FALSE,
                   sources |-> {[source |-> s, status |-> "failed"]}]
  BY StatusAlone, Zenon DEF failed, Status
<1>2. [source |-> s, status |-> "failed"] \in SourceStates
  BY DEF SourceStates
<1>3. failed(s) \in Results
  BY <1>1, <1>2 DEF Results
<1>4. \A t : Status(t, "complete") \notin failed(s).sources
  BY <1>1 DEF Status
<1>. QED
  BY <1>1, <1>3, <1>4 DEF Faithful

\* merge keeps what both collectors promise.
LEMMA MergeFaithful ==
  ASSUME NEW h, NEW S, NEW T, NEW a, NEW b, Faithful(h, S, a), Faithful(h, T, b), S \cap T = {}
  PROVE  Faithful(h, S \cup T, merge(a, b))
<1>. DEFINE m == merge(a, b)
<1>1. /\ m.entries = a.entries \cup b.entries /\ m.complete = (a.complete /\ b.complete)
      /\ m.sources = a.sources \cup b.sources
  BY DEF merge
<1>2. /\ a \in Results /\ b \in Results
      /\ \A p \in a.entries : SourceOf[p] \in S \ Lacks(h)
      /\ \A p \in b.entries : SourceOf[p] \in T \ Lacks(h)
      /\ \A s \in a.sources : s.source \in S
      /\ \A s \in b.sources : s.source \in T
  BY DEF Faithful
<1>3. m \in Results
  BY <1>2 DEF Results, merge
<1>4. ASSUME NEW p \in Visible(h), SourceOf[p] \in S \cup T, Unsealed(h, p),
             Status(SourceOf[p], "complete") \in m.sources \/ (m.complete /\ Standard(h, p))
      PROVE  p \in m.entries
  <2>1. Status(SourceOf[p], "complete").source = SourceOf[p]
    BY DEF Status
  <2>2. CASE SourceOf[p] \in S
    <3>1. Status(SourceOf[p], "complete") \notin b.sources
      BY <1>2, <2>1, <2>2
    <3>2. p \in a.entries
      BY <1>1, <1>4, <2>2, <3>1 DEF Faithful
    <3>. QED
      BY <1>1, <3>2
  <2>3. CASE SourceOf[p] \in T
    <3>1. Status(SourceOf[p], "complete") \notin a.sources
      BY <1>2, <2>1, <2>3
    <3>2. p \in b.entries
      BY <1>1, <1>4, <2>3, <3>1 DEF Faithful
    <3>. QED
      BY <1>1, <3>2
  <2>. QED
    BY <1>4, <2>2, <2>3
<1>. HIDE DEF m
<1>. QED
  BY <1>1, <1>2, <1>3, <1>4 DEF Faithful, m

-----------------------------------------------------------------------------
\* A pass that is called incomplete, by a gap elsewhere, promises less.
LEMMA LessFaithful ==
  ASSUME NEW h, NEW S, NEW a, NEW c \in BOOLEAN, Faithful(h, S, a)
  PROVE  Faithful(h, S, [a EXCEPT !.complete = @ /\ c])
<1>. DEFINE b == [a EXCEPT !.complete = @ /\ c]
<1>1. a \in Results
  BY DEF Faithful
<1>2. /\ b \in Results /\ b.entries = a.entries /\ b.sources = a.sources
      /\ b.complete = (a.complete /\ c)
  BY <1>1 DEF Results
<1>. HIDE DEF b
<1>3. Faithful(h, S, b)
  BY <1>2 DEF Faithful
<1>. QED
  BY <1>3 DEF b

\* linux.rs: a manager that was probed lists its packages, one that was not has
\* none at the standard place.
LEMMA ManagerFaithful ==
  ASSUME NEW h \in HostStates, NEW m \in Managers
  PROVE  Faithful(h, {m}, collect_manager(h, m))
<1>0. m \in Sources /\ m \in Areas
  BY DEF Sources, Areas
<1>1. CASE m \in Probed(h) /\ h.area[m] = "open"
  <2>1. In(h, Of(m), {"good"}) \in SUBSET Of(m)
    BY DEF In
  <2>2. \A p \in Visible(h) : SourceOf[p] = m => p \in In(h, Of(m), {"good"})
    BY HostFacts, VisibleFacts DEF In, Of
  <2>3. m \notin Lacks(h)
    BY <1>1 DEF Lacks
  <2>4. Faithful(h, {m}, with_source(Result(In(h, Of(m), {"good"}), TRUE), m))
    BY <1>0, <2>1, <2>2, <2>3, PassFaithful
  <2>. QED
    BY <1>1, <2>4 DEF collect_manager
<1>2. CASE m \in Probed(h) /\ h.area[m] # "open"
  <2>1. Faithful(h, {m}, with_source(Result({}, FALSE), m))
    BY <1>0, PassFaithful
  <2>. QED
    BY <1>2, <2>1 DEF collect_manager
<1>3. CASE m \notin Probed(h) /\ database_present(h, m)
  BY <1>0, <1>3, FailedFaithful DEF collect_manager
<1>4. CASE m \notin Probed(h) /\ ~database_present(h, m)
  <2>1. ASSUME NEW p \in Visible(h), SourceOf[p] = m, Standard(h, p) PROVE FALSE
    <3>1. p \in In(h, Of(m), {"good"})
      BY <2>1, HostFacts, VisibleFacts DEF In, Of
    <3>. QED
      BY <1>4, <2>1, <3>1 DEF database_present, Standard
  <2>2. \A p \in Visible(h) : SourceOf[p] # m \/ ~Standard(h, p)
    BY <2>1
  <2>3. Faithful(h, {m}, not_applicable(m))
    BY <1>0, <2>2, NotApplicableFaithful
  <2>. QED
    BY <1>4, <2>3 DEF collect_manager
<1>. QED
  BY <1>1, <1>2, <1>3, <1>4

\* linux.rs: the three managers, one after the other.
LEMMA ManagersFaithful ==
  ASSUME NEW h \in HostStates
  PROVE  Faithful(h, Managers,
                  merge(collect_manager(h, "dpkg"),
                        merge(collect_manager(h, "rpm"), collect_manager(h, "pacman"))))
<1>. DEFINE a == collect_manager(h, "dpkg")
            b == collect_manager(h, "rpm")
            c == collect_manager(h, "pacman")
<1>1. Faithful(h, {"dpkg"}, a) /\ Faithful(h, {"rpm"}, b) /\ Faithful(h, {"pacman"}, c)
  BY ManagerFaithful DEF Managers
<1>. HIDE DEF a, b, c
<1>2. Faithful(h, {"rpm"} \cup {"pacman"}, merge(b, c))
  BY <1>1, MergeFaithful
<1>3. {"dpkg"} \cup ({"rpm"} \cup {"pacman"}) = Managers
      /\ {"dpkg"} \cap ({"rpm"} \cup {"pacman"}) = {}
  BY DEF Managers
<1>4. Faithful(h, {"dpkg"} \cup ({"rpm"} \cup {"pacman"}), merge(a, merge(b, c)))
  BY <1>1, <1>2, <1>3, MergeFaithful
<1>. QED
  BY <1>3, <1>4 DEF a, b, c

\* linux.rs collect.
LEMMA LinuxFaithful ==
  ASSUME NEW h \in HostStates
  PROVE  Faithful(h, Managers, collect_linux(h))
<1>. DEFINE all == merge(collect_manager(h, "dpkg"),
                         merge(collect_manager(h, "rpm"), collect_manager(h, "pacman")))
<1>1. Faithful(h, Managers, all) /\ (Probed(h) # {}) \in BOOLEAN
  BY ManagersFaithful
<1>. HIDE DEF all
<1>2. Faithful(h, Managers, [all EXCEPT !.complete = @ /\ Probed(h) # {}])
  BY <1>1, LessFaithful
<1>. QED
  BY <1>2 DEF collect_linux, all

\* linux.rs: a complete pass ran a manager, which is the package's own if no
\* other manager is there.
LEMMA OnlyManager ==
  ASSUME NEW h \in HostStates, collect_linux(h).complete, NEW p \in Visible(h),
         SourceOf[p] \in Managers, Managers \ {SourceOf[p]} \subseteq Lacks(h)
  PROVE  p \in collect_linux(h).entries
<1>. DEFINE m == SourceOf[p]
            r == collect_manager(h, m)
            all == merge(collect_manager(h, "dpkg"),
                         merge(collect_manager(h, "rpm"), collect_manager(h, "pacman")))
<1>1. /\ \A x \in Managers : all.complete => collect_manager(h, x).complete
      /\ \A x \in Managers : collect_manager(h, x).entries \subseteq all.entries
  BY DEF merge, Managers
<1>2. all \in Results
  BY ManagersFaithful DEF Faithful
<1>. HIDE DEF all
<1>3. /\ collect_linux(h).complete = (all.complete /\ Probed(h) # {})
      /\ collect_linux(h).entries = all.entries
  BY <1>2 DEF collect_linux, all, Results
<1>4. m \in Probed(h)
  BY <1>3 DEF Probed, Lacks
<1>5. h.area[m] \in {"open", "fails", "absent"} /\ h.area[m] # "absent"
  BY <1>4, HostFacts DEF Probed, Areas
<1>6. r = with_source(IF h.area[m] = "open" THEN Result(In(h, Of(m), {"good"}), TRUE)
                      ELSE Result({}, FALSE), m)
  BY <1>4 DEF collect_manager
<1>7. r.complete
  BY <1>1, <1>3
<1>8. r.entries = In(h, Of(m), {"good"})
  BY <1>5, <1>6, <1>7 DEF with_source, Result
<1>9. p \in In(h, Of(m), {"good"})
  BY HostFacts, VisibleFacts DEF In, Of
<1>. QED
  BY <1>1, <1>3, <1>8, <1>9

\* macos.rs: a bundle that cannot be read makes the pass incomplete, one that
\* cannot be seen is passed over.
LEMMA BundlesFaithful ==
  ASSUME NEW h \in HostStates
  PROVE  Faithful(h, {"mac_bundle"}, collect_bundles(h))
<1>. DEFINE seen == IF h.area["apps"] = "open" THEN Of("mac_bundle") ELSE {}
            E == In(h, seen, {"good"})
            c == h.area["apps"] # "fails" /\ In(h, seen, {"damaged"}) = {}
<1>1. /\ E \in SUBSET Of("mac_bundle") /\ c \in BOOLEAN
      /\ "mac_bundle" \in Sources /\ "mac_bundle" \notin Lacks(h)
  BY DEF In, Sources, Lacks, Managers
<1>2. ASSUME NEW p \in Visible(h), c, SourceOf[p] = "mac_bundle" PROVE p \in E
  <2>1. h.area["apps"] \in {"open", "fails", "absent"}
    BY HostFacts DEF Areas
  <2>2. h.area["apps"] = "open" /\ p \in seen
    BY <1>2, <2>1, VisibleFacts DEF Of
  <2>3. h.pkg[p] \in {"good", "damaged"}
    BY <1>2, HostFacts, VisibleFacts
  <2>. QED
    BY <1>2, <2>2, <2>3 DEF In
<1>. HIDE DEF E, c
<1>3. Faithful(h, {"mac_bundle"}, with_source(Result(E, c), "mac_bundle"))
  BY <1>1, <1>2, PassFaithful
<1>. QED
  BY <1>3 DEF collect_bundles, E, c

\* macos.rs collect_homebrew.
LEMMA HomebrewFaithful ==
  ASSUME NEW h \in HostStates
  PROVE  Faithful(h, {"brew"}, collect_homebrew(h))
<1>0. /\ h.area["brew"] \in {"open", "fails", "absent"} /\ "brew" \in Sources
      /\ "brew" \notin Lacks(h)
  BY HostFacts DEF Areas, Sources, Lacks, Managers
<1>1. CASE h.area["brew"] = "absent"
  <2>1. \A p \in Visible(h) : SourceOf[p] # "brew"
    BY <1>1, VisibleFacts
  <2>2. Faithful(h, {"brew"}, not_applicable("brew"))
    BY <1>0, <2>1, NotApplicableFaithful
  <2>. QED
    BY <1>1, <2>2 DEF collect_homebrew
<1>2. CASE h.area["brew"] = "fails"
  <2>1. Faithful(h, {"brew"}, with_source(Result({}, FALSE), "brew"))
    BY <1>0, PassFaithful
  <2>. QED
    BY <1>2, <2>1 DEF collect_homebrew
<1>3. CASE h.area["brew"] = "open"
  <2>1. In(h, Of("brew"), {"good"}) \in SUBSET Of("brew") /\ (h.area["casks"] = "open") \in BOOLEAN
    BY DEF In
  <2>2. \A p \in Visible(h) : SourceOf[p] = "brew" => p \in In(h, Of("brew"), {"good"})
    BY HostFacts, VisibleFacts DEF In, Of
  <2>3. Faithful(h, {"brew"}, with_source(Result(In(h, Of("brew"), {"good"}),
                                                 h.area["casks"] = "open"), "brew"))
    BY <1>0, <2>1, <2>2, PassFaithful
  <2>. QED
    BY <1>3, <2>3 DEF collect_homebrew
<1>. QED
  BY <1>0, <1>1, <1>2, <1>3

\* macos.rs collect.
LEMMA MacosFaithful ==
  ASSUME NEW h \in HostStates
  PROVE  Faithful(h, {"mac_bundle", "brew"}, collect_macos(h))
<1>1. Faithful(h, {"mac_bundle"} \cup {"brew"}, collect_macos(h))
  BY BundlesFaithful, HomebrewFaithful, MergeFaithful DEF collect_macos
<1>2. {"mac_bundle"} \cup {"brew"} = {"mac_bundle", "brew"}
  OBVIOUS
<1>. QED
  BY <1>1, <1>2

-----------------------------------------------------------------------------
\* windows.rs: an uninstall key read to its end lists what can be found there.
LEMMA KeyFacts ==
  ASSUME NEW h \in HostStates, NEW area \in {"machine", "profile", "updates"},
         NEW pkgs \in SUBSET Packages
  PROVE  LET r == collect_from_key(h, area, pkgs)
         IN /\ r.entries \in SUBSET pkgs /\ r.complete \in BOOLEAN
            /\ \A p \in Visible(h) :
                 r.complete /\ p \in pkgs /\ (p \in UserScope \/ area # "profile") => p \in r.entries
<1>. DEFINE seen == IF h.area[area] = "open" THEN pkgs ELSE {}
            r == collect_from_key(h, area, pkgs)
<1>1. /\ r.entries = In(h, seen, {"good"})
      /\ r.complete = (h.area[area] # "fails" /\ In(h, seen, {"damaged", "sealed"}) = {})
  BY DEF collect_from_key, Result
<1>2. ASSUME NEW p \in Visible(h), r.complete, p \in pkgs, p \in UserScope \/ area # "profile"
      PROVE  p \in r.entries
  <2>1. h.area[area] \in {"open", "fails", "absent"}
        /\ (area # "profile" => h.area[area] \in {"open", "fails"})
    BY HostFacts DEF Areas
  <2>2. h.area[area] = "open" /\ p \in seen
    BY <1>1, <1>2, <2>1, VisibleFacts
  <2>3. h.pkg[p] \in {"good", "damaged", "sealed"}
    BY HostFacts, VisibleFacts
  <2>. QED
    BY <1>1, <1>2, <2>2, <2>3 DEF In
<1>. HIDE DEF r
<1>3. r.entries \in SUBSET pkgs /\ r.complete \in BOOLEAN
  BY <1>1 DEF In
<1>. QED
  BY <1>2, <1>3 DEF r

\* windows.rs collect_sync: one verdict for the two sources of the registry, one
\* for the updates.
LEMMA WindowsFaithful ==
  ASSUME NEW h \in HostStates
  PROVE  Faithful(h, {"winreg", "msi", "kb"}, collect_windows(h))
<1>. DEFINE mach == collect_from_key(h, "machine", Registry \ UserScope)
            user == collect_from_key(h, "profile", Registry \cap UserScope)
            upd == collect_from_key(h, "updates", Of("kb"))
            regE == mach.entries \cup user.entries
            regC == mach.complete /\ user.complete
            gap == inactive_profiles(h)
            ss == {source_state("winreg", regE, regC, gap), source_state("msi", regE, regC, gap),
                   source_state("kb", upd.entries, upd.complete, FALSE)}
            r == [entries |-> regE \cup upd.entries, complete |-> regC /\ upd.complete, sources |-> ss]
<1>1. collect_windows(h) = r
  BY DEF collect_windows, collect_updates, collect_user_scope, merge
<1>2. /\ Registry \subseteq Packages /\ Of("kb") \subseteq Packages
      /\ \A p \in Registry : SourceOf[p] \in {"winreg", "msi"}
      /\ \A p \in Packages : /\ SourceOf[p] \in {"winreg", "msi"} => p \in Registry
                             /\ SourceOf[p] = "kb" <=> p \in Of("kb")
  BY DEF Registry, Of
<1>3. /\ mach.entries \in SUBSET (Registry \ UserScope) /\ mach.complete \in BOOLEAN
      /\ \A p \in Visible(h) : mach.complete /\ p \in Registry \ UserScope => p \in mach.entries
  BY <1>2, KeyFacts
<1>4. /\ user.entries \in SUBSET (Registry \cap UserScope) /\ user.complete \in BOOLEAN
      /\ \A p \in Visible(h) : user.complete /\ p \in Registry \cap UserScope => p \in user.entries
  BY <1>2, KeyFacts
<1>5. /\ upd.entries \in SUBSET Of("kb") /\ upd.complete \in BOOLEAN
      /\ \A p \in Visible(h) : upd.complete /\ p \in Of("kb") => p \in upd.entries
  BY <1>2, KeyFacts
<1>. HIDE DEF mach, user, upd
<1>6. /\ regE \subseteq Registry /\ regC \in BOOLEAN
      /\ \A p \in Visible(h) : regC /\ p \in Registry => p \in regE
  BY <1>3, <1>4
<1>. HIDE DEF regE, regC
<1>7. /\ \A s \in ss : s \in SourceStates /\ s.source \in {"winreg", "msi", "kb"}
      /\ \A s \in ss : s.source \in {"winreg", "msi"} /\ s.status = "complete" => regC
      /\ \A s \in ss : s.source = "kb" /\ s.status = "complete" => upd.complete
  BY DEF source_state, Status, SourceStates, Sources
<1>. HIDE DEF ss
<1>8. r \in Results
  BY <1>2, <1>5, <1>6, <1>7 DEF Results
<1>9. ASSUME NEW p \in Visible(h), SourceOf[p] \in {"winreg", "msi", "kb"},
             Status(SourceOf[p], "complete") \in r.sources \/ r.complete
      PROVE  p \in r.entries
  <2>1. Status(SourceOf[p], "complete").source = SourceOf[p]
        /\ Status(SourceOf[p], "complete").status = "complete"
    BY DEF Status
  <2>2. p \in Packages
    BY VisibleFacts
  <2>3. CASE SourceOf[p] = "kb"
    <3>1. upd.complete
      BY <1>7, <1>9, <2>1, <2>3
    <3>. QED
      BY <1>2, <1>5, <2>2, <2>3, <3>1
  <2>4. CASE SourceOf[p] \in {"winreg", "msi"}
    <3>1. regC
      BY <1>7, <1>9, <2>1, <2>4
    <3>. QED
      BY <1>2, <1>6, <2>2, <2>4, <3>1
  <2>. QED
    BY <1>9, <2>3, <2>4
<1>10. \A p \in r.entries : SourceOf[p] \in {"winreg", "msi", "kb"} \ Lacks(h)
  BY <1>2, <1>5, <1>6 DEF Lacks, Managers
<1>11. \A s \in r.sources : s.source \in {"winreg", "msi", "kb"}
  BY <1>7
<1>. HIDE DEF r
<1>12. Faithful(h, {"winreg", "msi", "kb"}, r)
  BY <1>8, <1>9, <1>10, <1>11 DEF Faithful
<1>. QED
  BY <1>1, <1>12

\* runtimes: metadata that cannot be read and roots that cannot be listed make
\* the pass incomplete.
LEMMA RuntimeFaithful ==
  ASSUME NEW h \in HostStates, NEW s \in {"pip", "npm", "java"}, NEW missed,
         missed = IF s = "java" THEN {"damaged"} ELSE {"damaged", "sealed"}
  PROVE  LET area == CASE s = "pip" -> "python" [] s = "npm" -> "nodejs" [] s = "java" -> "java"
         IN Faithful(h, {s}, RuntimePass(h, area, s, missed))
<1>. DEFINE area == CASE s = "pip" -> "python" [] s = "npm" -> "nodejs" [] s = "java" -> "java"
            dirs == child_dirs(h, area, s)
            E == In(h, dirs, {"good"})
            c == h.area[area] # "fails" /\ In(h, dirs, missed) = {}
<1>1. /\ area \in {"python", "nodejs", "java"} /\ s \in Sources /\ s \notin Lacks(h)
      /\ h.area[area] \in {"open", "fails", "absent"}
  <2>1. area \in {"python", "nodejs", "java"} /\ s \in Sources /\ s \notin Lacks(h)
    BY DEF Sources, Lacks, Managers
  <2>. QED
    BY <2>1, HostFacts DEF Areas
<1>2. \A p \in Visible(h) : SourceOf[p] = s => h.area[area] # "absent"
  BY VisibleFacts
<1>. HIDE DEF area
<1>3. E \in SUBSET Of(s) /\ c \in BOOLEAN
  BY DEF In, child_dirs
<1>4. ASSUME NEW p \in Visible(h), c, SourceOf[p] = s, Unsealed(h, p) PROVE p \in E
  <2>1. h.area[area] = "open"
    BY <1>1, <1>2, <1>4
  <2>2. p \in dirs
    BY <1>4, <2>1, VisibleFacts DEF child_dirs, Of
  <2>3. h.pkg[p] \in {"good", "damaged", "sealed"}
    BY HostFacts, VisibleFacts
  <2>4. h.pkg[p] \notin missed
    BY <1>4, <2>2 DEF In
  <2>. QED
    BY <1>4, <2>2, <2>3, <2>4 DEF In, Unsealed
<1>. HIDE DEF E, c
<1>5. Faithful(h, {s}, with_source(Result(E, c), s))
  BY <1>1, <1>3, <1>4, PassFaithful
<1>6. h.area[area] = "absent" => Faithful(h, {s}, not_applicable(s))
  <2>1. h.area[area] = "absent" => \A p \in Visible(h) : SourceOf[p] # s
    BY <1>2
  <2>. QED
    BY <1>1, <2>1, NotApplicableFaithful
<1>7. RuntimePass(h, area, s, missed)
        = IF h.area[area] = "absent" /\ Result(E, c).complete THEN not_applicable(s)
          ELSE with_source(Result(E, c), s)
  BY DEF RuntimePass, E, c
<1>. QED
  BY <1>5, <1>6, <1>7 DEF area

\* python.rs: roots that could not be searched for site-packages are a gap.
LEMMA PythonFaithful ==
  ASSUME NEW h \in HostStates
  PROVE  Faithful(h, {"pip"}, collect_python_packages(h))
<1>1. Faithful(h, {"pip"}, collect_python_dirs(h))
  BY RuntimeFaithful DEF collect_python_dirs
<1>2. Faithful(h, {"pip"}, with_source(Result({}, FALSE), "pip"))
  BY PassFaithful DEF Sources
<1>3. [not_applicable("pip") EXCEPT !.complete = FALSE, !.sources = {}] = Result({}, FALSE)
  <2>1. not_applicable("pip") = [entries |-> {}, complete |-> TRUE,
                                 sources |-> {Status("pip", "not_applicable")}]
    BY StatusAlone, Zenon DEF not_applicable
  <2>. DEFINE n == not_applicable("pip")
  <2>2. n = [entries |-> {}, complete |-> TRUE, sources |-> {Status("pip", "not_applicable")}]
    BY <2>1
  <2>. HIDE DEF n
  <2>3. n \in [entries : {{}}, complete : BOOLEAN, sources : {{}, {Status("pip", "not_applicable")}}]
    BY <2>2
  <2>4. [n EXCEPT !.complete = FALSE, !.sources = {}]
          \in [entries : {{}}, complete : {FALSE}, sources : {{}}]
    BY <2>3
  <2>5. [n EXCEPT !.complete = FALSE, !.sources = {}]
          = [entries |-> {}, complete |-> FALSE, sources |-> {}]
    <3>1. ASSUME NEW x \in [entries : {{}}, complete : {FALSE}, sources : {{}}]
          PROVE  x = [entries |-> {}, complete |-> FALSE, sources |-> {}]
      BY <3>1
    <3>. QED
      BY <2>4, <3>1
  <2>. QED
    BY <2>5 DEF n, Result
<1>. QED
  BY <1>1, <1>2, <1>3 DEF collect_python_packages

-----------------------------------------------------------------------------
\* The collector of every kind speaks for the sources of its kind.
LEMMA PassFacts ==
  ASSUME NEW h \in HostStates, NEW k \in Kinds
  PROVE  LET res == Pass(h, k)
         IN /\ res \in Results /\ OwnResult(h, k, res)
            /\ \A p \in Visible(h) : KindOf(p) = k /\ Unsealed(h, p) => Lists(h, res, p)
<1>. DEFINE res == Pass(h, k)
            S == CASE k = "platform" -> PlatformSources(h.os) [] k = "python" -> {"pip"}
                   [] k = "nodejs" -> {"npm"} [] k = "java" -> {"java"}
<1>1. Faithful(h, S, res)
  <2>1. CASE k = "platform"
    <3>1. /\ h.os = "linux" => Faithful(h, Managers, res)
          /\ h.os = "macos" => Faithful(h, {"mac_bundle", "brew"}, res)
          /\ h.os = "windows" => Faithful(h, {"winreg", "msi", "kb"}, res)
      BY <2>1, LinuxFaithful, MacosFaithful, WindowsFaithful DEF Pass
    <3>2. /\ h.os = "linux" => S = Managers
          /\ h.os = "macos" => S = {"mac_bundle", "brew"}
          /\ h.os = "windows" => S = {"winreg", "msi", "kb"}
      BY <2>1 DEF PlatformSources
    <3>3. h.os \in {"linux", "macos", "windows"}
      BY HostFacts
    <3>. QED
      BY <3>1, <3>2, <3>3
  <2>2. CASE k = "python"
    BY <2>2, PythonFaithful DEF Pass
  <2>3. CASE k = "nodejs"
    <3>1. Faithful(h, {"npm"}, collect_nodejs_packages(h))
      BY RuntimeFaithful DEF collect_nodejs_packages
    <3>. QED
      BY <2>3, <3>1 DEF Pass
  <2>4. CASE k = "java"
    <3>1. Faithful(h, {"java"}, collect_java_runtimes(h))
      BY RuntimeFaithful DEF collect_java_runtimes
    <3>. QED
      BY <2>4, <3>1 DEF Pass
  <2>. QED
    BY <2>1, <2>2, <2>3, <2>4 DEF Kinds
<1>2. ASSUME NEW p \in Packages
      PROVE  /\ SourceOf[p] \in S => KindOf(p) = k /\ Native(h.os, p)
             /\ KindOf(p) = k /\ Native(h.os, p) => SourceOf[p] \in S
  <2>1. h.os \in {"linux", "macos", "windows"}
    BY HostFacts
  <2>2. PlatformSources(h.os) \cap {"pip", "npm", "java"} = {}
    BY <2>1 DEF PlatformSources, Managers
  <2>. QED
    BY <2>2 DEF Kinds, KindOf, Native
<1>. HIDE DEF res, S
<1>3. /\ res \in Results /\ res.entries \subseteq Packages
      /\ \A p \in res.entries : SourceOf[p] \in S \ Lacks(h)
      /\ \A s \in res.sources : s.source \in S
  BY <1>1 DEF Faithful, Results
<1>4. OwnResult(h, k, res)
  BY <1>2, <1>3 DEF OwnResult
<1>5. ASSUME NEW p \in Visible(h), KindOf(p) = k, Unsealed(h, p), Owes(h, res, p)
      PROVE  p \in res.entries
  <2>1. p \in Packages /\ Status(SourceOf[p], "complete").source = SourceOf[p]
    BY VisibleFacts DEF Status
  <2>2. SourceOf[p] \in S
    BY <1>2, <1>3, <1>5, <2>1 DEF Owes
  <2>3. CASE Status(SourceOf[p], "complete") \in res.sources \/ (res.complete /\ Standard(h, p))
    BY <1>1, <1>5, <2>2, <2>3 DEF Faithful
  <2>4. CASE res.complete /\ ~Standard(h, p) /\ Answers(h, p)
    <3>1. SourceOf[p] \in Managers /\ Managers \ {SourceOf[p]} \subseteq Lacks(h)
      BY <2>4 DEF Standard, Answers
    <3>2. k = "platform" /\ h.os = "linux"
      BY <1>5, <2>2, <3>1, HostFacts DEF KindOf, Kinds, Managers, PlatformSources, S
    <3>3. res = collect_linux(h)
      BY <3>2 DEF res, Pass
    <3>. QED
      BY <2>4, <3>1, <3>3, OnlyManager
  <2>. QED
    BY <1>5, <2>3, <2>4 DEF Owes
<1>6. \A p \in Visible(h) : KindOf(p) = k /\ Unsealed(h, p) => Lists(h, res, p)
  BY <1>5 DEF Lists
<1>. QED
  BY <1>3, <1>4, <1>6 DEF res

\* collect_runtime_cached: a pass that is not believed calls nothing complete.
LEMMA DegradedFacts ==
  ASSUME NEW h, NEW k, NEW res \in Results, OwnResult(h, k, res)
  PROVE  LET d == degraded(res)
         IN /\ d \in Results /\ OwnResult(h, k, d) /\ ~d.complete
            /\ \A p \in Packages : ~Owes(h, d, p)
<1>. DEFINE st == IF res.entries = {} THEN "failed" ELSE "partial"
            ss == {Status(s.source, st) : s \in res.sources}
            d == degraded(res)
<1>1. /\ d.entries = res.entries /\ d.complete = FALSE /\ d.sources = ss
      /\ ss \subseteq SourceStates => d \in Results
  BY DEF degraded, Results
<1>2. \A x \in ss : \E s \in res.sources : x = [source |-> s.source, status |-> st]
  BY DEF Status
<1>3. \A s \in res.sources : s.source \in Sources
  BY DEF Results, SourceStates
<1>. HIDE DEF d, ss
<1>4. \A x \in ss : /\ x \in SourceStates /\ x.status # "complete"
                    /\ \E s \in res.sources : x.source = s.source
  <2>. SUFFICES ASSUME NEW x \in ss
                PROVE  /\ x \in SourceStates /\ x.status # "complete"
                       /\ \E s \in res.sources : x.source = s.source
    OBVIOUS
  <2>1. PICK s \in res.sources : x = [source |-> s.source, status |-> st]
    BY <1>2
  <2>2. x \in SourceStates
    BY <1>3, <2>1 DEF SourceStates
  <2>. QED
    BY <2>1, <2>2
<1>5. d \in Results
  BY <1>1, <1>4
<1>6. OwnResult(h, k, d)
  BY <1>1, <1>4 DEF OwnResult
<1>7. \A p : Status(SourceOf[p], "complete") \notin d.sources
  BY <1>1, <1>4 DEF Status
<1>. QED
  BY <1>1, <1>5, <1>6, <1>7 DEF d, Owes

\* A result that calls nothing complete owes nothing.
LEMMA FailedFacts ==
  ASSUME NEW h \in HostStates, NEW k \in {"python", "nodejs", "java"}
  PROVE  LET res == failed(RuntimeSource(k))
         IN /\ res \in Results /\ OwnResult(h, k, res) /\ ~res.complete /\ res.entries = {}
            /\ \A p \in Packages : ~Owes(h, res, p)
<1>. DEFINE s == RuntimeSource(k)
            res == failed(s)
<1>1. /\ s \in Sources
      /\ \A p \in Packages : SourceOf[p] = s => KindOf(p) = k /\ Native(h.os, p)
  BY DEF RuntimeSource, Sources, KindOf, Native
<1>. HIDE DEF s
<1>2. res = [entries |-> {}, complete |-> FALSE, sources |-> {[source |-> s, status |-> "failed"]}]
  BY StatusAlone, Zenon DEF failed, Status
<1>3. [source |-> s, status |-> "failed"] \in SourceStates
  BY <1>1 DEF SourceStates
<1>4. res \in Results
  BY <1>2, <1>3 DEF Results
<1>5. OwnResult(h, k, res)
  BY <1>1, <1>2 DEF OwnResult
<1>6. \A p \in Packages : ~Owes(h, res, p)
  BY <1>2 DEF Owes, Status
<1>7. ~res.complete /\ res.entries = {}
  BY <1>2
<1>. HIDE DEF res
<1>. QED
  BY <1>4, <1>5, <1>6, <1>7 DEF s, res

\* So does the whole platform collector of Windows when its task panics.
LEMMA WindowsFailedFacts ==
  ASSUME NEW h \in HostStates, h.os = "windows"
  PROVE  LET res == merge(failed("winreg"), merge(failed("msi"), failed("kb")))
         IN /\ res \in Results /\ OwnResult(h, "platform", res) /\ ~res.complete
            /\ res.entries = {} /\ \A p \in Packages : ~Owes(h, res, p)
<1>. DEFINE f(s) == [source |-> s, status |-> "failed"]
            res == merge(failed("winreg"), merge(failed("msi"), failed("kb")))
<1>1. \A s : failed(s) = [entries |-> {}, complete |-> FALSE, sources |-> {f(s)}]
  BY StatusAlone, Zenon DEF failed, Status
<1>. DEFINE ss == {f("winreg"), f("msi"), f("kb")}
<1>2. res = [entries |-> {}, complete |-> FALSE, sources |-> ss]
  BY <1>1 DEF merge
<1>3. ss \subseteq SourceStates
  BY DEF SourceStates, Sources
<1>4. res \in Results
  <2>. HIDE DEF ss, res
  <2>1. [entries |-> {}, complete |-> FALSE, sources |-> ss] \in Results
    BY <1>3 DEF Results
  <2>. QED
    BY <1>2, <2>1 DEF res
<1>5. \A p \in Packages : SourceOf[p] \in {"winreg", "msi", "kb"}
                            => KindOf(p) = "platform" /\ Native(h.os, p)
  BY DEF KindOf, Native, PlatformSources
<1>6. OwnResult(h, "platform", res)
  BY <1>2, <1>5 DEF OwnResult
<1>7. \A p \in Packages : ~Owes(h, res, p)
  BY <1>2 DEF Owes, Status
<1>. QED
  BY <1>2, <1>4, <1>6, <1>7

-----------------------------------------------------------------------------
(* Types *)

\* The fields of the cycle, and the collector whose turn it is.
LEMMA ScanFacts ==
  ASSUME TypeOK
  PROVE  /\ scan.step \in {"idle", "lookup", "collect", "store", "finish"}
         /\ scan.todo \in Seq(Kinds) /\ scan.schema \in {1, 2}
         /\ scan.fp \in Prints \cup {None} /\ scan.result \in Parts \cup {None}
         /\ scan.parts \subseteq Parts /\ scan.since \in Time /\ scan.seen \subseteq Packages
         /\ scan.step \in {"lookup", "collect", "store"} =>
              /\ scan.todo # <<>> /\ kind \in Kinds /\ Tail(scan.todo) \in Seq(Kinds)
              /\ Elements(scan.todo) = {kind} \cup Elements(Tail(scan.todo))
<1>. DEFINE s == scan.todo
<1>1. scan \in Cycles /\ (scan.step \in {"lookup", "collect", "store"} <=> s # <<>>)
  BY DEF TypeOK
<1>2. s \in Seq(Kinds)
  BY <1>1 DEF Cycles
<1>3. ASSUME s # <<>>
      PROVE  /\ Head(s) \in Kinds /\ Tail(s) \in Seq(Kinds)
             /\ Elements(s) = {Head(s)} \cup Elements(Tail(s))
  <2>. HIDE DEF s
  <2>1. /\ Len(s) \in Nat /\ Len(s) >= 1 /\ Head(s) = s[1] /\ Head(s) \in Kinds
        /\ Tail(s) \in Seq(Kinds) /\ Len(Tail(s)) = Len(s) - 1
        /\ \A i \in 1 .. Len(s) - 1 : Tail(s)[i] = s[i + 1]
    BY <1>2, <1>3, HeadTailProperties, EmptySeq
  <2>2. Elements(s) \subseteq {Head(s)} \cup Elements(Tail(s))
    <3>. SUFFICES ASSUME NEW i \in 1 .. Len(s), i # 1
                  PROVE  \E j \in 1 .. Len(Tail(s)) : s[i] = Tail(s)[j]
      BY <2>1 DEF Elements
    <3>1. i - 1 \in 1 .. Len(Tail(s)) /\ Tail(s)[i - 1] = s[i]
      BY <2>1
    <3>. QED
      BY <3>1
  <2>3. {Head(s)} \cup Elements(Tail(s)) \subseteq Elements(s)
    <3>1. 1 \in 1 .. Len(s) /\ \A j \in 1 .. Len(Tail(s)) : j + 1 \in 1 .. Len(s)
      BY <2>1
    <3>. QED
      BY <2>1, <3>1 DEF Elements
  <2>. QED
    BY <2>1, <2>2, <2>3
<1>. HIDE DEF s
<1>. QED
  BY <1>1, <1>3 DEF Cycles, kind, s

\* The fields of a part and of a stored result.
LEMMA PartFacts ==
  ASSUME NEW q \in Parts
  PROVE  /\ q.kind \in Kinds /\ q.result \in Results /\ q.read \in Nat /\ q.read \in Time
         /\ q.by \in Versions
         /\ q.result.entries \subseteq Packages /\ q.result.complete \in BOOLEAN
         /\ q.result.sources \subseteq SourceStates
<1>1. q.kind \in Kinds /\ q.result \in Results /\ q.read \in Time /\ q.by \in Versions
  BY DEF Parts
<1>. QED
  BY <1>1, CollectAssumption DEF Results, Time

\* Part, in terms of its fields.
LEMMA PartIs ==
  ASSUME NEW k \in Kinds, NEW res \in Results, NEW t \in Time, NEW v \in Versions
  PROVE  /\ Part(k, res, t, v) \in Parts
         /\ Part(k, res, t, v).kind = k /\ Part(k, res, t, v).result = res
         /\ Part(k, res, t, v).read = t /\ Part(k, res, t, v).by = v
BY DEF Part, Parts

\* The stored results.
LEMMA CacheFacts ==
  ASSUME TypeOK, NEW k \in Kinds, IsStored(cache[k])
  PROVE  /\ cache[k] \in Stored
         /\ cache[k].fp \in Prints /\ cache[k].fp[1] \in Nat /\ cache[k].at \in Nat
         /\ cache[k].by \in Versions /\ cache[k].result \in Results /\ cache[k].read \in Time
         /\ cache[k].read \in Nat /\ cache[k].result.complete
<1>1. cache[k] \in Stored
  BY DEF TypeOK, IsStored
<1>2. /\ cache[k].fp \in Prints /\ cache[k].at \in Nat /\ cache[k].by \in Versions
      /\ cache[k].result \in Results /\ cache[k].read \in Time /\ cache[k].result.complete
  BY <1>1 DEF Stored
<1>3. cache[k].fp[1] \in Nat
  BY <1>2 DEF Prints
<1>. QED
  BY <1>1, <1>2, <1>3, CollectAssumption DEF Time

\* The machine, the clocks and what is counted.
LEMMA StateFacts ==
  ASSUME TypeOK
  PROVE  /\ host \in HostStates /\ stamp \in [Kinds -> Nat] /\ now \in Time /\ now \in Nat
         /\ skew \in Int /\ version \in Versions /\ schema \in {1, 2} /\ unix_time_secs \in Nat
         /\ cache \in [Kinds -> Stored \cup {None, Garbage}]
         /\ history \in [Sources -> Time \cup {None}] /\ events \in Nat
         /\ effective \subseteq Packages /\ lapsed \subseteq Packages /\ blurred \subseteq Packages
         /\ told \subseteq Sources
         /\ MaxEvents \in Nat /\ MaxAge \in Nat \ {0} /\ MaxTime \in Nat /\ ScanTicks \in Nat
         /\ Time \subseteq Nat /\ None \notin Nat
  BY CollectAssumption DEF TypeOK, Time, unix_time_secs

\* The next collector's turn, or the end of the cycle.
LEMMA AdvanceFacts ==
  ASSUME TypeOK, scan.step \in {"lookup", "collect", "store"}, NEW part \in Parts
  PROVE  LET new == Advance(part)
         IN /\ new \in Cycles
            /\ new.step \in {"lookup", "finish"} /\ (new.step = "lookup" <=> new.todo # <<>>)
            /\ new.todo = Tail(scan.todo) /\ new.fp = None /\ new.result = None
            /\ new.parts = scan.parts \cup {part} /\ new.since = scan.since
            /\ new.seen = scan.seen /\ new.schema = scan.schema
<1>1. scan \in Cycles /\ Tail(scan.todo) \in Seq(Kinds)
  BY ScanFacts DEF TypeOK
<1>. QED
  BY <1>1 DEF Advance, Cycles

\* A fingerprint.
LEMMA FingerprintFacts ==
  ASSUME TypeOK, NEW k \in Kinds
  PROVE  fingerprint(k) \in Prints /\ fingerprint(k)[1] = stamp[k]
<1>1. stamp[k] \in Nat /\ (k = "python" /\ host.area["discovery"] = "open") \in BOOLEAN
  BY StateFacts
<1>. QED
  BY <1>1 DEF fingerprint, Prints

\* What a collector finds.  One that looks for its own fingerprint's
\* packages also finds those that are passed over.
LEMMA CollectedFacts ==
  ASSUME TypeOK, PrintInv, scan.step = "collect"
  PROVE  LET res == collected(kind)
         IN /\ res \in Results /\ OwnResult(host, kind, res)
            /\ \A p \in Visible(host) \ blurred : KindOf(p) = kind => Lists(host, res, p)
            /\ scan.fp # None =>
                 \A p \in Present(host) \ blurred : KindOf(p) = kind => Lists(host, res, p)
<1>. DEFINE res == collected(kind)
            raw == Pass(host, kind)
<1>1. kind \in Kinds /\ host \in HostStates
  BY ScanFacts, StateFacts
<1>2. /\ raw \in Results /\ OwnResult(host, kind, raw)
      /\ \A p \in Visible(host) : KindOf(p) = kind /\ Unsealed(host, p) => Lists(host, raw, p)
  BY <1>1, PassFacts
<1>3. CASE kind # "platform" /\ scan.fp = None
  <2>1. res = degraded(raw)
    BY <1>3 DEF collected
  <2>2. /\ degraded(raw) \in Results /\ OwnResult(host, kind, degraded(raw))
        /\ \A p \in Packages : ~Owes(host, degraded(raw), p)
    BY <1>2, DegradedFacts
  <2>3. \A p \in Visible(host) : p \in Packages
    BY <1>1, VisibleFacts
  <2>. QED
    BY <1>3, <2>1, <2>2, <2>3 DEF Lists
<1>4. CASE kind = "platform" \/ scan.fp # None
  <2>1. res = raw
    BY <1>4 DEF collected
  <2>2. ASSUME NEW p \in Packages \ blurred, KindOf(p) = kind
        PROVE  Unsealed(host, p)
    <3>1. SourceOf[p] = "java" => kind # "platform"
      BY <2>2 DEF KindOf
    <3>. QED
      BY <1>4, <2>2, <3>1 DEF PrintInv, Unsealed, Searched
  <2>3. \A p \in Visible(host) \ blurred : KindOf(p) = kind => Lists(host, raw, p)
    BY <1>1, <1>2, <2>2, VisibleFacts
  <2>4. ASSUME scan.fp # None, NEW p \in Present(host) \ blurred, KindOf(p) = kind,
               Owes(host, raw, p)
        PROVE  p \in Visible(host)
    <3>1. p \in Packages
      BY DEF Present, Installed
    <3>2. Native(host.os, p)
      BY <1>2, <2>4, <3>1 DEF OwnResult, Owes, Status
    <3>3. ~(host.os = "windows" /\ kind = "platform")
      BY <2>4 DEF PrintInv
    <3>4. SourceOf[p] = "mac_bundle" => host.os = "macos"
      BY <1>1, <3>2, HostFacts DEF Native, PlatformSources, Managers
    <3>5. ~(SourceOf[p] = "mac_bundle" /\ host.pkg[p] = "sealed")
      BY <2>4, <3>1, <3>4 DEF PrintInv, Searched
    <3>6. p \notin UserScope
      <4>1. SourceOf[p] \in {"winreg", "msi"} => host.os = "windows" /\ KindOf(p) = "platform"
        BY <1>1, <3>2, HostFacts DEF Native, PlatformSources, Managers, KindOf
      <4>. QED
        BY <2>4, <3>3, <4>1, CollectorsAssumption
    <3>. QED
      BY <2>4, <3>5, <3>6 DEF Visible, Overlooked
  <2>5. scan.fp # None =>
          \A p \in Present(host) \ blurred : KindOf(p) = kind => Lists(host, raw, p)
    BY <2>3, <2>4 DEF Lists
  <2>. QED
    BY <1>2, <2>1, <2>3, <2>5
<1>. QED
  BY <1>3, <1>4

-----------------------------------------------------------------------------
(* The host changes *)

HostStep ==
  \/ \E p \in Packages : \E st \in PackageStates(p) : ChangePackage(p, st)
  \/ \E a \in Areas : \E st \in AreaStates(a) : ChangeArea(a, st)

\* What every change of the host does.
LEMMA ChangeHostFacts ==
  ASSUME TypeOK, NEW h \in HostStates, NEW kinds, NEW unseen \in SUBSET Packages,
         ChangeHost(h, kinds, unseen)
  PROVE  /\ host' = h /\ events' \in 0 .. MaxEvents
         /\ stamp' \in [Kinds -> Nat]
         /\ \A k \in Kinds : /\ stamp'[k] >= stamp[k]
                             /\ k \in kinds => stamp'[k] > stamp[k]
         /\ lapsed' = lapsed \cup (Packages \ Visible(h)) /\ lapsed' \subseteq Packages
         /\ blurred' = blurred \cup unseen /\ blurred' \subseteq Packages
         /\ scan' = [scan EXCEPT !.seen = @ \cap Visible(h)]
         /\ UNCHANGED <<clock, agent, stores, server, told, spoilt>>
<1>1. /\ host' = h /\ Event
      /\ stamp' = [k \in Kinds |-> IF k \in kinds THEN stamp[k] + 1 ELSE stamp[k]]
      /\ lapsed' = lapsed \cup (Packages \ Visible(h))
      /\ blurred' = blurred \cup unseen
      /\ scan' = [scan EXCEPT !.seen = @ \cap Visible(h)]
      /\ UNCHANGED <<clock, agent, stores, server, told, spoilt>>
  BY DEF ChangeHost
<1>2. events' \in 0 .. MaxEvents
  BY <1>1, StateFacts DEF Event, TypeOK
<1>3. /\ stamp' \in [Kinds -> Nat]
      /\ \A k \in Kinds : /\ stamp'[k] >= stamp[k]
                          /\ k \in kinds => stamp'[k] > stamp[k]
  BY <1>1, StateFacts
<1>. QED
  BY <1>1, <1>2, <1>3, StateFacts

\* No change makes a package appear that a true fingerprint, or what is known to
\* be blurred, would not tell; and a directory that is closed while its
\* collector runs blurs what is in it.
LEMMA HostStepFacts ==
  ASSUME TypeOK, HostStep
  PROVE  /\ host' \in HostStates /\ host'.os = host.os /\ host'.relocated = host.relocated
         /\ Lacks(host') = Lacks(host)
         /\ events' \in 0 .. MaxEvents /\ stamp' \in [Kinds -> Nat]
         /\ \A k \in Kinds : stamp'[k] >= stamp[k]
         /\ lapsed' = lapsed \cup (Packages \ Visible(host')) /\ lapsed' \subseteq Packages
         /\ blurred \subseteq blurred' /\ blurred' \subseteq Packages
         /\ scan' = [scan EXCEPT !.seen = @ \cap Visible(host')]
         /\ UNCHANGED <<clock, agent, stores, server, told, spoilt>>
         /\ \A p \in Packages \ blurred' :
              /\ stamp'[KindOf(p)] = stamp[KindOf(p)] /\ p \in Present(host') => p \in Present(host)
              /\ scan.step = "collect" /\ scan.fp # None /\ KindOf(p) = kind =>
                   (Searched(host, p) /\ host.pkg[p] # "sealed" => host'.pkg[p] # "sealed")
<1>. DEFINE Goal == /\ host' \in HostStates /\ host'.os = host.os
                    /\ host'.relocated = host.relocated /\ Lacks(host') = Lacks(host)
                    /\ events' \in 0 .. MaxEvents /\ stamp' \in [Kinds -> Nat]
                    /\ \A k \in Kinds : stamp'[k] >= stamp[k]
                    /\ lapsed' = lapsed \cup (Packages \ Visible(host')) /\ lapsed' \subseteq Packages
                    /\ blurred \subseteq blurred' /\ blurred' \subseteq Packages
                    /\ scan' = [scan EXCEPT !.seen = @ \cap Visible(host')]
                    /\ UNCHANGED <<clock, agent, stores, server, told, spoilt>>
            Told(p) == stamp'[KindOf(p)] = stamp[KindOf(p)] /\ p \in Present(host')
                         => p \in Present(host)
            Open(p) == scan.step = "collect" /\ scan.fp # None /\ KindOf(p) = kind =>
                         (Searched(host, p) /\ host.pkg[p] # "sealed" => host'.pkg[p] # "sealed")
<1>0. /\ host \in HostStates
      /\ host \in [os : {"linux", "macos", "windows"}, relocated : BOOLEAN,
                   pkg : [Packages -> {"gone", "good", "damaged", "sealed"}],
                   area : [Areas -> {"open", "fails", "absent"}]]
      /\ \A p \in Packages : host.pkg[p] \in PackageStates(p)
      /\ \A a \in Areas : host.area[a] \in AreaStates(a)
      /\ \A p \in Packages : /\ PackageStates(p) \subseteq {"gone", "good", "damaged", "sealed"}
                             /\ KindOf(p) \in Kinds
      /\ \A a \in Areas : AreaStates(a) \subseteq {"open", "fails", "absent"}
      /\ stamp \in [Kinds -> Nat]
  BY DEF TypeOK, HostStates, PackageStates, AreaStates, KindOf, Kinds
<1>1. ASSUME NEW p \in Packages, NEW st \in PackageStates(p), ChangePackage(p, st)
      PROVE  Goal /\ \A q \in Packages \ blurred' : Told(q) /\ Open(q)
  <2>. DEFINE h == [host EXCEPT !.pkg[p] = st]
              chmod == {st, host.pkg[p]} = {"good", "sealed"}
              moved == host.relocated /\ SourceOf[p] \in Managers
              untraced == \/ moved
                          \/ st = "sealed" /\ scan.step = "collect" /\ scan.fp # None
                             /\ Head(scan.todo) = KindOf(p)
              kinds == IF chmod \/ moved THEN {} ELSE {KindOf(p)}
              unseen == IF untraced THEN {p} ELSE {}
  <2>1. ChangeHost(h, kinds, unseen) /\ st # host.pkg[p]
    BY <1>1 DEF ChangePackage
  <2>2. /\ h \in HostStates /\ h.os = host.os /\ h.relocated = host.relocated
        /\ h.area = host.area /\ h.pkg[p] = st
        /\ \A q \in Packages : q # p => h.pkg[q] = host.pkg[q]
        /\ Lacks(h) = Lacks(host)
    BY <1>0 DEF HostStates, Lacks
  <2>3. unseen \in SUBSET Packages
    OBVIOUS
  <2>. HIDE DEF h, kinds, unseen
  <2>4. Goal /\ host' = h /\ blurred' = blurred \cup unseen
        /\ \A k \in kinds : k \in Kinds => stamp'[k] > stamp[k]
    BY <2>1, <2>2, <2>3, ChangeHostFacts
  <2>. HIDE DEF Goal
  <2>5. ASSUME NEW q \in Packages \ blurred' PROVE Open(q)
    <3>1. q = p => ~untraced
      BY <2>4, <2>5 DEF unseen
    <3>. QED
      BY <2>2, <2>4, <3>1 DEF kind
  <2>6. ASSUME NEW q \in Packages \ blurred', stamp'[KindOf(q)] = stamp[KindOf(q)],
               q \in Present(host')
        PROVE  q \in Present(host)
    <3>1. h.pkg[q] # "gone" /\ ~(AreaOf(q) \in Places /\ host.area[AreaOf(q)] = "absent")
      BY <2>2, <2>4, <2>6 DEF Present, Installed
    <3>2. host.pkg[q] # "gone"
      <4>1. CASE q # p
        BY <2>2, <3>1, <4>1
      <4>2. CASE q = p
        <5>1. KindOf(p) \notin kinds
          BY <1>0, <2>4, <2>6, <4>2
        <5>2. p \notin unseen
          BY <2>4, <2>6, <4>2
        <5>3. chmod
          BY <5>1, <5>2 DEF kinds, unseen
        <5>. QED
          BY <4>2, <5>3
      <4>. QED
        BY <4>1, <4>2
    <3>. QED
      BY <3>1, <3>2 DEF Present, Installed
  <2>. QED
    BY <2>4, <2>5, <2>6
<1>2. ASSUME NEW a \in Areas, NEW st \in AreaStates(a), ChangeArea(a, st)
      PROVE  Goal /\ \A q \in Packages \ blurred' : Told(q) /\ Open(q)
  <2>. DEFINE h == [host EXCEPT !.area[a] = st]
              kinds == IF a \in Places /\ "absent" \in {st, host.area[a]}
                       THEN {KindOf(p) : p \in {q \in Packages : AreaOf(q) = a}} ELSE {}
  <2>1. ChangeHost(h, kinds, {}) /\ st # host.area[a]
    BY <1>2 DEF ChangeArea
  <2>2. /\ h \in HostStates /\ h.os = host.os /\ h.relocated = host.relocated
        /\ h.pkg = host.pkg /\ h.area[a] = st
        /\ \A b \in Areas : b # a => h.area[b] = host.area[b]
    BY <1>0 DEF HostStates
  <2>. HIDE DEF h
  <2>6. Lacks(h) = Lacks(host)
    <3>1. a \in Moves[host.os] /\ Managers \subseteq Areas
      BY <1>2 DEF ChangeArea, Areas
    <3>. QED
      BY <2>2, <3>1 DEF Lacks
  <2>3. Goal /\ host' = h /\ \A k \in kinds : k \in Kinds => stamp'[k] > stamp[k]
    <3>. HIDE DEF kinds
    <3>. QED
      BY <2>1, <2>2, <2>6, ChangeHostFacts
  <2>. HIDE DEF Goal
  <2>4. ASSUME NEW q \in Packages \ blurred', stamp'[KindOf(q)] = stamp[KindOf(q)],
               q \in Present(host')
        PROVE  q \in Present(host)
    <3>1. host.pkg[q] # "gone" /\ ~(AreaOf(q) \in Places /\ h.area[AreaOf(q)] = "absent")
      BY <2>2, <2>3, <2>4 DEF Present, Installed
    <3>2. Places \subseteq Areas
      BY DEF Places, Areas
    <3>3. ~(AreaOf(q) = a /\ a \in Places /\ host.area[a] = "absent")
      <4>1. KindOf(q) \notin kinds
        BY <1>0, <2>3, <2>4
      <4>. QED
        BY <4>1
    <3>4. ~(AreaOf(q) \in Places /\ host.area[AreaOf(q)] = "absent")
      BY <2>2, <3>1, <3>2, <3>3
    <3>. QED
      BY <3>1, <3>4 DEF Present, Installed
  <2>5. \A q \in Packages : host'.pkg[q] = host.pkg[q]
    BY <2>2, <2>3
  <2>. QED
    BY <2>3, <2>4, <2>5
<1>. HIDE DEF Goal, Told, Open
<1>3. Goal /\ \A q \in Packages \ blurred' : Told(q) /\ Open(q)
  BY <1>1, <1>2 DEF HostStep
<1>. QED
  BY <1>3 DEF Goal, Told, Open

-----------------------------------------------------------------------------
(* Every step keeps the types *)

\* A new cycle has the fields of the old one, except where a step changes them.
CycleTyped(s) ==
  /\ s \in Cycles
  /\ s.step \in {"lookup", "collect", "store"} <=> s.todo # <<>>
  /\ s.step = "store" =>
       /\ s.fp \in Prints /\ s.result \in Parts
       /\ s.result.kind = Head(s.todo) /\ s.result.result.complete

\* The cycle that has not begun.
LEMMA IdleTyped ==
  CycleTyped(Idle) /\ Idle.step = "idle" /\ Idle.parts = {} /\ Idle.todo = <<>>
<1>1. 0 \in Time /\ <<>> \in Seq(Kinds)
  BY CollectAssumption DEF Time
<1>. QED
  BY <1>1 DEF Idle, CycleTyped, Cycles

\* A turn ends in a well-formed cycle.
LEMMA AdvanceTyped ==
  ASSUME TypeOK, scan.step \in {"lookup", "collect", "store"}, NEW part \in Parts
  PROVE  CycleTyped(Advance(part))
  BY AdvanceFacts DEF CycleTyped

\* What is read of the cache is a part.
LEMMA HitFacts ==
  ASSUME TypeOK, NEW k \in Kinds, NEW fp, load(k, fp) # None
  PROVE  /\ IsStored(cache[k]) /\ load(k, fp) = cache[k]
         /\ cache[k].by = version /\ cache[k].fp = fp /\ ~cache_expired(cache[k].at)
  BY DEF load, IsStored

\* The steps of the cycle up to its last.
Scan == Begin \/ Lookup \/ Collect \/ Store \/ Panic \/ PlatformPanic

\* The parts a panic leaves.
LEMMA PanicParts ==
  ASSUME TypeOK, NEW k \in {"python", "nodejs", "java"}
  PROVE  Part(k, failed(RuntimeSource(k)), now, version) \in Parts
<1>1. k \in Kinds /\ failed(RuntimeSource(k)) \in Results
  BY StateFacts, FailedFacts DEF Kinds
<1>. QED
  BY <1>1, StateFacts, PartIs

\* A step of the cycle up to its last keeps the cycle and the cache typed, and
\* leaves everything else alone.
LEMMA ScanTyped ==
  ASSUME TypeOK, Scan
  PROVE  /\ CycleTyped(scan') /\ cache' \in [Kinds -> Stored \cup {None, Garbage}]
         /\ events' \in 0 .. MaxEvents
         /\ UNCHANGED <<machine, clock, agent, lapsed, told, spoilt, history, server>>
<1>0. /\ scan \in Cycles /\ events \in 0 .. MaxEvents /\ MaxEvents \in Nat
      /\ cache \in [Kinds -> Stored \cup {None, Garbage}] /\ host \in HostStates
      /\ now \in Time /\ version \in Versions
  BY StateFacts DEF TypeOK
<1>1. Event \/ UNCHANGED events => events' \in 0 .. MaxEvents
  BY <1>0 DEF Event
<1>2. ASSUME Begin PROVE CycleTyped(scan')
  <2>1. host.os \in {"linux", "macos", "windows"} /\ Visible(host) \subseteq Packages
    BY <1>0, HostFacts, VisibleFacts
  <2>2. Scans[host.os] \in Seq(Kinds) \ {<<>>}
    BY <2>1, CollectAssumption
  <2>3. scan' = [Idle EXCEPT !.step = "lookup", !.todo = Scans[host.os], !.schema = schema,
                             !.since = now, !.seen = Visible(host)]
    BY <1>2 DEF Begin
  <2>4. Idle \in Cycles
    BY IdleTyped DEF CycleTyped
  <2>. QED
    BY <1>0, <2>1, <2>2, <2>3, <2>4, StateFacts DEF CycleTyped, Cycles
<1>3. ASSUME Lookup
      PROVE  CycleTyped(scan') /\ cache' \in [Kinds -> Stored \cup {None, Garbage}]
  <2>1. scan.step = "lookup" /\ kind \in Kinds /\ scan.todo # <<>>
    BY <1>3, ScanFacts DEF Lookup
  <2>2. fingerprint(kind) \in Prints
    BY <2>1, FingerprintFacts
  <2>3. ASSUME NEW fp \in Prints, scan' = [scan EXCEPT !.step = "collect", !.fp = fp]
        PROVE  CycleTyped(scan')
    BY <1>0, <2>1, <2>3 DEF CycleTyped, Cycles
  <2>4. ASSUME LookUp
        PROVE  CycleTyped(scan') /\ cache' \in [Kinds -> Stored \cup {None, Garbage}]
    <3>. DEFINE fp == fingerprint(kind)
                hit == load(kind, fp)
    <3>1. cache' \in [Kinds -> Stored \cup {None, Garbage}]
      BY <1>0, <2>4 DEF LookUp
    <3>2. CASE hit = None
      BY <2>2, <2>3, <2>4, <3>1, <3>2 DEF LookUp
    <3>3. CASE hit # None
      <4>1. hit.result \in Results /\ hit.read \in Time /\ hit.by \in Versions
        BY <2>1, <3>3, HitFacts, CacheFacts
      <4>2. Part(kind, hit.result, hit.read, hit.by) \in Parts
        BY <2>1, <4>1, PartIs
      <4>3. scan' = Advance(Part(kind, hit.result, hit.read, hit.by))
        BY <2>4, <3>3 DEF LookUp
      <4>4. CycleTyped(Advance(Part(kind, hit.result, hit.read, hit.by)))
        BY <2>1, <4>2, AdvanceTyped
      <4>. QED
        BY <3>1, <4>3, <4>4
    <3>. QED
      BY <3>2, <3>3
  <2>5. ASSUME scan' = [scan EXCEPT !.step = "collect"], UNCHANGED cache
        PROVE  CycleTyped(scan') /\ cache' \in [Kinds -> Stored \cup {None, Garbage}]
    BY <1>0, <2>1, <2>5 DEF CycleTyped, Cycles
  <2>. QED
    BY <1>3, <2>4, <2>5 DEF Lookup
<1>4. ASSUME Collect PROVE CycleTyped(scan') /\ UNCHANGED cache
  <2>. DEFINE part == Part(kind, collected(kind), now, version)
  <2>1. scan.step = "collect" /\ kind \in Kinds /\ scan.todo # <<>> /\ UNCHANGED cache
    BY <1>4, ScanFacts DEF Collect
  <2>2. collected(kind) \in Results
    <3>1. Pass(host, kind) \in Results /\ OwnResult(host, kind, Pass(host, kind))
      BY <1>0, <2>1, PassFacts
    <3>2. degraded(Pass(host, kind)) \in Results
      BY <3>1, DegradedFacts
    <3>. QED
      BY <3>1, <3>2 DEF collected
  <2>3. part \in Parts /\ part.kind = kind
    BY <1>0, <2>1, <2>2, PartIs
  <2>4. CycleTyped(Advance(part))
    BY <2>1, <2>3, AdvanceTyped
  <2>5. \/ scan.fp # None /\ part.result.complete
           /\ scan' = [scan EXCEPT !.step = "store", !.result = part]
        \/ scan' = Advance(part)
    BY <1>4 DEF Collect, Storable
  <2>. HIDE DEF part
  <2>6. ASSUME scan.fp # None, part.result.complete, scan' = [scan EXCEPT !.step = "store", !.result = part]
        PROVE  CycleTyped(scan')
    BY <1>0, <2>1, <2>3, <2>6, ScanFacts DEF CycleTyped, Cycles, kind
  <2>. QED
    BY <2>1, <2>4, <2>5, <2>6
<1>5. ASSUME Store PROVE CycleTyped(scan') /\ cache' \in [Kinds -> Stored \cup {None, Garbage}]
  <2>. DEFINE new == [fp |-> scan.fp, at |-> unix_time_secs, by |-> version,
                      result |-> scan.result.result, read |-> scan.result.read]
  <2>1. scan.step = "store" /\ kind \in Kinds /\ scan' = Advance(scan.result)
    BY <1>5, ScanFacts DEF Store
  <2>2. scan.fp \in Prints /\ scan.result \in Parts /\ scan.result.result.complete
    BY <2>1 DEF TypeOK
  <2>3. CycleTyped(scan')
    BY <2>1, <2>2, AdvanceTyped
  <2>4. new \in Stored
    BY <1>0, <2>2, PartFacts, StateFacts DEF Stored
  <2>. HIDE DEF new
  <2>5. \/ cache' = [cache EXCEPT ![kind] = new]
        \/ \E c \in Kept(cache[kind]) : cache' = [cache EXCEPT ![kind] = c]
    BY <1>5 DEF Store, new
  <2>6. Kept(cache[kind]) \subseteq Stored \cup {None, Garbage}
    BY <1>0, <2>1 DEF Kept
  <2>. QED
    BY <1>0, <2>3, <2>4, <2>5, <2>6
<1>6. ASSUME Panic PROVE CycleTyped(scan') /\ UNCHANGED cache
  <2>. DEFINE ps == {q \in scan.parts : q.kind = "platform"} \cup
                      {Part(k, failed(RuntimeSource(k)), now, version) :
                         k \in {"python", "nodejs", "java"}}
  <2>1. /\ UNCHANGED cache
        /\ scan' = [scan EXCEPT !.step = "finish", !.todo = <<>>, !.fp = None, !.result = None,
                               !.parts = ps]
    BY <1>6 DEF Panic
  <2>2. ps \subseteq Parts /\ <<>> \in Seq(Kinds)
    BY ScanFacts, PanicParts
  <2>. HIDE DEF ps
  <2>. QED
    BY <1>0, <2>1, <2>2 DEF CycleTyped, Cycles
<1>7. ASSUME PlatformPanic PROVE CycleTyped(scan') /\ UNCHANGED cache
  <2>. DEFINE res == merge(failed("winreg"), merge(failed("msi"), failed("kb")))
  <2>1. /\ scan.step = "collect" /\ kind = "platform" /\ host.os = "windows" /\ UNCHANGED cache
        /\ scan' = Advance(Part(kind, res, now, version))
    BY <1>7 DEF PlatformPanic
  <2>2. res \in Results
    BY <1>0, <2>1, WindowsFailedFacts
  <2>. HIDE DEF res
  <2>3. Part(kind, res, now, version) \in Parts
    BY <1>0, <2>1, <2>2, PartIs DEF Kinds
  <2>. QED
    BY <2>1, <2>3, AdvanceTyped
<1>8. /\ Event \/ UNCHANGED events
      /\ UNCHANGED <<machine, clock, agent, lapsed, told, spoilt, history, server>>
  BY DEF Scan, Begin, Lookup, LookUp, Collect, Store, Panic, PlatformPanic, ScanKeeps
<1>9. Begin => UNCHANGED cache
  BY DEF Begin
<1>. QED
  BY <1>0, <1>1, <1>2, <1>3, <1>4, <1>5, <1>6, <1>7, <1>8, <1>9 DEF Scan

-----------------------------------------------------------------------------
\* What was collected, by source and by package.
LEMMA RecordFacts ==
  ASSUME TypeOK
  PROVE  /\ \A r \in Records : \E q \in scan.parts : \E s \in q.result.sources :
              r = [source |-> s.source, status |-> s.status, read |-> q.read]
         /\ \A q \in scan.parts : \A s \in q.result.sources :
              [source |-> s.source, status |-> s.status, read |-> q.read] \in Records
         /\ \A r \in Records : /\ r.source \in Sources /\ r.read \in Time
                               /\ r.status \in {"complete", "partial", "failed", "not_applicable"}
         /\ CompleteSources \subseteq Sources
         /\ \A s : s \in CompleteSources <=>
              \E r \in Records : r.source = s /\ r.status = "complete"
         /\ Entries \subseteq Packages
         /\ \A p : p \in Entries <=> \E q \in scan.parts : p \in q.result.entries
<1> DEFINE Held(q) == {[source |-> s.source, status |-> s.status, read |-> q.read] :
                       s \in q.result.sources}
<1>a. Records = UNION {Held(q) : q \in scan.parts}
  BY DEF Records
<1>b. \A q, r : r \in Held(q) <=> \E s \in q.result.sources :
        r = [source |-> s.source, status |-> s.status, read |-> q.read]
  OBVIOUS
<1>. HIDE DEF Held
<1>c. \A r : r \in Records <=> \E q \in scan.parts : r \in Held(q)
  BY <1>a
<1>1. /\ \A r \in Records : \E q \in scan.parts : \E s \in q.result.sources :
           r = [source |-> s.source, status |-> s.status, read |-> q.read]
      /\ \A q \in scan.parts : \A s \in q.result.sources :
           [source |-> s.source, status |-> s.status, read |-> q.read] \in Records
  <2>1. \A r \in Records : \E q \in scan.parts : \E s \in q.result.sources :
          r = [source |-> s.source, status |-> s.status, read |-> q.read]
    BY <1>b, <1>c
  <2>2. ASSUME NEW q \in scan.parts, NEW s \in q.result.sources
        PROVE  [source |-> s.source, status |-> s.status, read |-> q.read] \in Records
    BY <1>b, <1>c
  <2>. QED
    BY <2>1, <2>2
<1>2. \A q \in scan.parts : /\ q.read \in Time /\ q.result.entries \subseteq Packages
                            /\ q.result.sources \subseteq SourceStates
  BY ScanFacts, PartFacts
<1>3. \A r \in Records : /\ r.source \in Sources /\ r.read \in Time
                         /\ r.status \in {"complete", "partial", "failed", "not_applicable"}
  <2>. SUFFICES ASSUME NEW r \in Records
                PROVE  /\ r.source \in Sources /\ r.read \in Time
                       /\ r.status \in {"complete", "partial", "failed", "not_applicable"}
    OBVIOUS
  <2>1. PICK q \in scan.parts : \E s \in q.result.sources :
          r = [source |-> s.source, status |-> s.status, read |-> q.read]
    BY <1>1
  <2>. QED
    BY <1>2, <2>1 DEF SourceStates
<1>4. \A s : s \in CompleteSources <=> \E r \in Records : r.source = s /\ r.status = "complete"
  BY DEF CompleteSources
<1>5. \A p : p \in Entries <=> \E q \in scan.parts : p \in q.result.entries
  BY DEF Entries
<1>. QED
  BY <1>1, <1>2, <1>3, <1>4, <1>5

\* reconcile_last_complete: what this cycle found complete is dated by it,
\* everything else keeps its date.
LEMMA ReconciledFacts ==
  ASSUME TypeOK, NEW old \in [Sources -> Time \cup {None}]
  PROVE  /\ reconciled(old) \in [Sources -> Time \cup {None}]
         /\ \A s \in CompleteSources : reconciled(old)[s] # None
         /\ \A s \in Sources \ CompleteSources : reconciled(old)[s] = old[s]
<1>1. ASSUME NEW s \in CompleteSources
      PROVE  (CHOOSE r \in Records : r.source = s /\ r.status = "complete").read \in Time
  <2>1. \E r \in Records : r.source = s /\ r.status = "complete"
    BY RecordFacts
  <2>. QED
    BY <2>1, RecordFacts
<1>2. Time \subseteq Nat /\ None \notin Nat /\ CompleteSources \subseteq Sources
  BY StateFacts, RecordFacts
<1>. QED
  BY <1>1, <1>2 DEF reconciled

\* The last step of a cycle.
LEMMA FinishFacts ==
  ASSUME TypeOK, Finish
  PROVE  /\ scan.step = "finish" /\ scan' = Idle /\ UNCHANGED <<machine, clock, agent, cache>>
         /\ events' \in 0 .. MaxEvents
         /\ told' = told \cup CompleteSources
         /\ lapsed' = (lapsed \ (effective' \ effective)) \cup (Packages \ Visible(host))
         /\ spoilt' \in {spoilt, spoilt \cup {"history"}}
         /\ history' \in [Sources -> Time \cup {None}]
         /\ \E old \in [Sources -> Time \cup {None}] :
              /\ Learn(reconciled(old))
              /\ "history" \notin spoilt' => old = history /\ history' = reconciled(old)
<1>1. /\ scan.step = "finish" /\ scan' = Idle /\ UNCHANGED <<machine, clock, agent, cache>>
      /\ told' = told \cup CompleteSources
      /\ lapsed' = (lapsed \ (effective' \ effective)) \cup (Packages \ Visible(host))
  BY DEF Finish
<1>2. events' \in 0 .. MaxEvents
  <2>1. Event \/ UNCHANGED events
    BY DEF Finish
  <2>. QED
    BY <2>1, StateFacts DEF Event, TypeOK
<1>3. history \in [Sources -> Time \cup {None}] /\ NoHistory \in [Sources -> Time \cup {None}]
  BY StateFacts DEF NoHistory
<1>4. /\ reconciled(history) \in [Sources -> Time \cup {None}]
      /\ reconciled(NoHistory) \in [Sources -> Time \cup {None}]
  BY <1>3, ReconciledFacts
<1>5. CASE /\ history' = reconciled(history) /\ Learn(reconciled(history))
           /\ UNCHANGED <<events, spoilt>>
  BY <1>1, <1>2, <1>3, <1>4, <1>5
<1>6. CASE Forgets /\ history' = reconciled(NoHistory) /\ Learn(reconciled(NoHistory))
  BY <1>1, <1>2, <1>3, <1>4, <1>6 DEF Forgets
<1>7. CASE /\ Forgets /\ Learn(reconciled(history))
           /\ history' \in IF host.os = "windows" THEN {history, NoHistory} ELSE {history}
  BY <1>1, <1>2, <1>3, <1>4, <1>7 DEF Forgets
<1>. QED
  BY <1>5, <1>6, <1>7 DEF Finish

\* What the server may make of a snapshot.
LEMMA LearnFacts ==
  ASSUME TypeOK, NEW hist, Learn(hist)
  PROVE  \/ /\ effective' = {p \in effective : SourceOf[p] \notin CompleteSources} \cup
                            {p \in Entries : SourceOf[p] \in CompleteSources}
            /\ report' = Reported(hist)
         \/ AllComplete /\ effective' = Entries /\ report' = {}
         \/ UNCHANGED server
<1>1. scan.schema \in {1, 2}
  BY ScanFacts
<1>2. CASE scan.schema = 2
  BY <1>2 DEF Learn
<1>3. CASE scan.schema = 1 /\ ensure_authoritative
  BY <1>3 DEF Learn, ensure_authoritative
<1>4. CASE scan.schema = 1 /\ ~ensure_authoritative
  BY <1>4 DEF Learn
<1>. QED
  BY <1>1, <1>2, <1>3, <1>4

\* The rest of the steps: the clock, the process, the server and the disk.
Quiet == Tick \/ StepClock \/ Negotiate \/ Restart \/ \E k \in Kinds : Corrupt(k)

\* They leave the machine, the history and the server alone.
LEMMA QuietFacts ==
  ASSUME TypeOK, Quiet
  PROVE  /\ UNCHANGED <<machine, history, server, lapsed, told>>
         /\ scan' = scan \/ scan' = Idle
         /\ \/ UNCHANGED cache
            \/ \E k \in Kinds : cache' = [cache EXCEPT ![k] = Garbage]
         /\ events' \in 0 .. MaxEvents /\ version' \in Versions /\ schema' \in {1, 2}
         /\ now' \in Time /\ skew' \in Int /\ spoilt \subseteq spoilt'
         /\ spoilt' \subseteq spoilt \cup {"clock"}
<1>1. /\ events \in 0 .. MaxEvents /\ MaxEvents \in Nat /\ version \in Versions
      /\ schema \in {1, 2} /\ now \in Time /\ skew \in Int /\ MaxAge \in Nat /\ MaxTime \in Nat
  BY StateFacts DEF TypeOK
<1>. USE DEF machine, server, clock, agent, stores, Event
<1>2. CASE Tick
  BY <1>1, <1>2 DEF Tick, Time
<1>3. CASE StepClock
  BY <1>1, <1>3 DEF StepClock
<1>4. CASE Negotiate
  BY <1>1, <1>4 DEF Negotiate
<1>5. CASE Restart
  BY <1>1, <1>5 DEF Restart, Versions
<1>6. ASSUME NEW k \in Kinds, Corrupt(k)
      PROVE  /\ UNCHANGED <<machine, history, server, lapsed, told, scan, clock, agent, spoilt>>
             /\ cache' = [cache EXCEPT ![k] = Garbage] /\ events' \in 0 .. MaxEvents
  BY <1>1, <1>6 DEF Corrupt
<1>7. CASE \E k \in Kinds : Corrupt(k)
  BY <1>1, <1>6, <1>7
<1>. QED
  BY <1>2, <1>3, <1>4, <1>5, <1>7 DEF Quiet

\* The steps.
LEMMA StepKinds ==
  ASSUME [Next]_vars
  PROVE  HostStep \/ Quiet \/ Scan \/ Finish \/ UNCHANGED vars
  BY DEF Next, HostStep, Quiet, Scan

-----------------------------------------------------------------------------
\* The types hold at the start.
LEMMA TypeInit == Init => TypeOK
<1>. SUFFICES ASSUME Init PROVE TypeOK
  OBVIOUS
<1>1. /\ host \in HostStates /\ 0 \in Time /\ MaxEvents \in Nat
      /\ Packages \ Visible(host) \subseteq Packages
  BY CollectAssumption DEF Init, Time
<1>2. CycleTyped(scan)
  BY IdleTyped DEF Init
<1>. QED
  BY <1>1, <1>2 DEF Init, TypeOK, NoHistory, Versions, CycleTyped

\* Every step keeps them.
LEMMA TypeStep ==
  ASSUME TypeOK, [Next]_vars
  PROVE  TypeOK'
<1>0. CycleTyped(scan) /\ scan \in Cycles
  BY DEF TypeOK, CycleTyped
<1>1. CASE HostStep
  <2>1. /\ host' \in HostStates /\ events' \in 0 .. MaxEvents /\ stamp' \in [Kinds -> Nat]
        /\ lapsed' \subseteq Packages /\ blurred' \subseteq Packages
        /\ scan' = [scan EXCEPT !.seen = @ \cap Visible(host')]
        /\ UNCHANGED <<clock, agent, stores, server, told, spoilt>>
    BY <1>1, HostStepFacts
  <2>2. CycleTyped(scan')
    BY <1>0, <2>1 DEF CycleTyped, Cycles
  <2>. QED
    BY <2>1, <2>2 DEF TypeOK, CycleTyped, clock, agent, stores, server
<1>2. CASE Quiet
  <2>1. CycleTyped(scan')
    BY <1>0, <1>2, QuietFacts, IdleTyped
  <2>2. cache' \in [Kinds -> Stored \cup {None, Garbage}]
    BY <1>2, QuietFacts, StateFacts
  <2>3. spoilt' \subseteq {"clock", "history"}
    BY <1>2, QuietFacts DEF TypeOK
  <2>. QED
    BY <1>2, <2>1, <2>2, <2>3, QuietFacts DEF TypeOK, CycleTyped, machine, server
<1>3. CASE Scan
  BY <1>3, ScanTyped DEF TypeOK, CycleTyped, machine, clock, agent, server
<1>4. CASE Finish
  <2>1. /\ scan' = Idle /\ UNCHANGED <<machine, clock, agent, cache>>
        /\ events' \in 0 .. MaxEvents /\ told' \subseteq Sources
        /\ lapsed' \subseteq Packages
        /\ spoilt' \subseteq {"clock", "history"} /\ history' \in [Sources -> Time \cup {None}]
    <3>1. lapsed' = (lapsed \ (effective' \ effective)) \cup (Packages \ Visible(host))
      BY <1>4, FinishFacts
    <3>2. lapsed' \subseteq Packages
      BY <3>1 DEF TypeOK
    <3>3. told' \subseteq Sources
      BY <1>4, FinishFacts, RecordFacts DEF TypeOK
    <3>4. spoilt' \subseteq {"clock", "history"}
      BY <1>4, FinishFacts DEF TypeOK
    <3>. QED
      BY <1>4, <3>2, <3>3, <3>4, FinishFacts
  <2>2. PICK old \in [Sources -> Time \cup {None}] : Learn(reconciled(old))
    BY <1>4, FinishFacts
  <2>3. effective' \subseteq Packages
    BY <2>2, LearnFacts, RecordFacts DEF TypeOK, server
  <2>. DEFINE Rs == [source : Sources,
                     status : {"complete", "partial", "failed", "not_applicable"},
                     last : Time \cup {None}, known : BOOLEAN]
              hist == reconciled(old)
  <2>4. Reported(hist) \subseteq Rs
    <3>1. hist \in [Sources -> Time \cup {None}]
      BY ReconciledFacts
    <3>. HIDE DEF hist
    <3>2. ASSUME NEW r \in Records
          PROVE  [source |-> r.source, status |-> r.status, last |-> hist[r.source],
                  known |-> r.source \in told \cup CompleteSources] \in Rs
      BY <3>1, RecordFacts
    <3>. QED
      BY <3>2 DEF Reported
  <2>. HIDE DEF hist
  <2>5. report' \subseteq Rs
    <3>1. report \subseteq Rs
      BY DEF TypeOK
    <3>. HIDE DEF Rs
    <3>2. report' \in {report, {}, Reported(hist)}
      BY <2>2, LearnFacts DEF server, hist
    <3>. QED
      BY <2>4, <3>1, <3>2
  <2>6. CycleTyped(scan')
    BY <2>1, IdleTyped
  <2>. QED
    BY <2>1, <2>3, <2>5, <2>6 DEF TypeOK, CycleTyped, machine, clock, agent
<1>5. CASE UNCHANGED vars
  BY <1>5 DEF TypeOK, vars, machine, clock, agent, stores, server
<1>. QED
  BY <1>1, <1>2, <1>3, <1>4, <1>5, StepKinds

-----------------------------------------------------------------------------
(* The steps of a cycle *)

\* The cache had nothing, or nothing that could be used; a fingerprint may have
\* been taken.
Misses(fp) ==
  /\ scan.step = "lookup" /\ scan' = [scan EXCEPT !.step = "collect", !.fp = fp]
  /\ fp # None => fp = fingerprint(kind) /\ Fingerprinted(kind)
  /\ cache' \in {cache, [cache EXCEPT ![kind] = None]}

\* A stored result is taken.
Hits ==
  LET c == cache[kind]
  IN /\ scan.step = "lookup" /\ IsStored(c) /\ c.fp = fingerprint(kind) /\ Fingerprinted(kind)
     /\ c.by = version /\ ~cache_expired(c.at)
     /\ scan' = Advance(Part(kind, c.result, c.read, c.by)) /\ UNCHANGED cache

Found == Part(kind, collected(kind), now, version)

\* A result is to be stored.
Holds ==
  /\ scan.step = "collect" /\ scan.fp # None /\ collected(kind).complete
  /\ scan' = [scan EXCEPT !.step = "store", !.result = Found] /\ UNCHANGED cache

\* A result is not to be stored.
Passes == scan.step = "collect" /\ scan' = Advance(Found) /\ UNCHANGED cache

\* A result is stored, or storing it fails.
Stores ==
  /\ scan.step = "store" /\ scan' = Advance(scan.result)
  /\ \/ cache' = [cache EXCEPT ![kind] = [fp |-> scan.fp, at |-> unix_time_secs, by |-> version,
                                         result |-> scan.result.result,
                                         read |-> scan.result.read]]
     \/ cache' \in {cache, [cache EXCEPT ![kind] = None]}

\* A task panics.
Fails ==
  /\ scan.step = "collect" /\ kind = "platform" /\ host.os = "windows" /\ UNCHANGED cache
  /\ scan' = Advance(Part(kind, merge(failed("winreg"), merge(failed("msi"), failed("kb"))),
                          now, version))

PanicResults ==
  {Part(k, failed(RuntimeSource(k)), now, version) : k \in {"python", "nodejs", "java"}}

Panics ==
  /\ scan.step \in {"lookup", "collect", "store"} /\ UNCHANGED cache
  /\ scan' = [scan EXCEPT !.step = "finish", !.todo = <<>>, !.fp = None, !.result = None,
                !.parts = {q \in @ : q.kind = "platform"} \cup PanicResults]

Begins ==
  /\ ~Scanning /\ UNCHANGED cache
  /\ scan' = [Idle EXCEPT !.step = "lookup", !.todo = Scans[host.os], !.schema = schema,
                          !.since = now, !.seen = Visible(host)]

\* Every step of a cycle is one of these.
LEMMA ScanKinds ==
  ASSUME TypeOK, PrintInv, Scan
  PROVE  \/ Begins \/ (\E fp \in Prints \cup {None} : Misses(fp)) \/ Hits \/ Holds
         \/ Passes \/ Stores \/ Fails \/ Panics
<1>0. cache = [cache EXCEPT ![kind] = cache[kind]]
  BY StateFacts
<1>1. CASE Begin
  BY <1>1 DEF Begin, Begins, Scanning
<1>2. CASE Lookup
  <2>1. scan.step = "lookup" /\ kind \in Kinds /\ scan.fp = None /\ scan \in Cycles
    BY <1>2, ScanFacts DEF Lookup, PrintInv, TypeOK
  <2>2. CASE scan' = [scan EXCEPT !.step = "collect"] /\ UNCHANGED cache
    <3>1. scan' = [scan EXCEPT !.step = "collect", !.fp = None]
      BY <2>1, <2>2 DEF Cycles
    <3>2. Misses(None)
      BY <2>1, <2>2, <3>1 DEF Misses
    <3>. QED
      BY <3>2
  <2>3. CASE Fingerprinted(kind) /\ LookUp
    <3>. DEFINE fp == fingerprint(kind)
                hit == load(kind, fp)
    <3>1. /\ cache' \in {cache, [cache EXCEPT ![kind] = None]}
          /\ cache[kind] # Garbage => UNCHANGED cache
          /\ scan' = IF hit = None THEN [scan EXCEPT !.step = "collect", !.fp = fp]
                     ELSE Advance(Part(kind, hit.result, hit.read, hit.by))
      BY <2>3 DEF LookUp
    <3>2. fp \in Prints
      BY <2>1, FingerprintFacts
    <3>3. CASE hit = None
      <4>1. Misses(fp)
        BY <2>1, <2>3, <3>1, <3>3 DEF Misses
      <4>. QED
        BY <3>2, <4>1
    <3>4. CASE hit # None
      <4>1. /\ IsStored(cache[kind]) /\ hit = cache[kind] /\ cache[kind].by = version
            /\ cache[kind].fp = fp /\ ~cache_expired(cache[kind].at)
        BY <2>1, <3>4, HitFacts
      <4>2. UNCHANGED cache
        BY <3>1, <4>1 DEF IsStored
      <4>3. Hits
        BY <2>1, <2>3, <3>1, <3>4, <4>1, <4>2 DEF Hits
      <4>. QED
        BY <4>3
    <3>. QED
      BY <3>3, <3>4
  <2>. QED
    BY <1>2, <2>2, <2>3 DEF Lookup
<1>3. CASE Collect
  <2>1. /\ scan.step = "collect" /\ UNCHANGED cache
        /\ \/ scan.fp # None /\ Found.result.complete
              /\ scan' = [scan EXCEPT !.step = "store", !.result = Found]
           \/ scan' = Advance(Found)
    BY <1>3 DEF Collect, Found, Storable
  <2>2. Found.result = collected(kind)
    BY DEF Found, Part
  <2>. QED
    BY <2>1, <2>2 DEF Holds, Passes
<1>4. CASE Store
  <2>1. \A c \in Kept(cache[kind]) :
          [cache EXCEPT ![kind] = c] \in {cache, [cache EXCEPT ![kind] = None]}
    BY <1>0 DEF Kept
  <2>. QED
    BY <1>4, <2>1 DEF Store, Stores
<1>5. CASE Panic
  BY <1>5 DEF Panic, Panics, PanicResults
<1>6. CASE PlatformPanic
  BY <1>6 DEF PlatformPanic, Fails
<1>. QED
  BY <1>1, <1>2, <1>3, <1>4, <1>5, <1>6 DEF Scan

\* What a step of a cycle adds to it, by the kind of the step.
LEMMA ScanFields ==
  ASSUME TypeOK, PrintInv, Scan
  PROVE  /\ UNCHANGED <<machine, clock, agent, lapsed, told, spoilt, history, server>>
         /\ Begins => /\ scan'.step = "lookup" /\ scan'.fp = None /\ scan'.parts = {}
                      /\ scan'.since = now /\ scan'.seen = Visible(host)
                      /\ scan'.todo = Scans[host.os]
         /\ ~Begins => Scanning /\ scan'.since = scan.since /\ scan'.seen = scan.seen
         /\ \A fp \in Prints \cup {None} :
              Misses(fp) => /\ scan'.step = "collect" /\ scan'.fp = fp /\ scan'.todo = scan.todo
                            /\ scan'.parts = scan.parts
         /\ Holds => /\ scan'.step = "store" /\ scan'.fp = scan.fp /\ scan'.todo = scan.todo
                     /\ scan'.parts = scan.parts /\ scan'.result = Found
         /\ Panics => /\ scan'.step = "finish" /\ scan'.todo = <<>>
                      /\ scan'.parts = {q \in scan.parts : q.kind = "platform"} \cup PanicResults
         /\ \A part \in Parts :
              scan' = Advance(part) /\ (Hits \/ Passes \/ Stores \/ Fails) =>
                /\ scan'.step \in {"lookup", "finish"} /\ scan'.fp = None
                /\ scan'.todo = Tail(scan.todo) /\ scan'.parts = scan.parts \cup {part}
<1>. DEFINE Same == UNCHANGED <<machine, clock, agent, lapsed, told, spoilt, history, server>>
<1>0. Same /\ scan \in Cycles /\ Idle \in Cycles /\ Idle.fp = None /\ Idle.parts = {}
  BY ScanTyped, IdleTyped DEF TypeOK, CycleTyped, Idle
<1>. HIDE DEF Same
<1>1. Begins => /\ scan'.step = "lookup" /\ scan'.fp = None /\ scan'.parts = {}
                /\ scan'.since = now /\ scan'.seen = Visible(host) /\ scan'.todo = Scans[host.os]
  BY <1>0 DEF Begins, Cycles
<1>2. ASSUME NEW fp \in Prints \cup {None}, Misses(fp)
      PROVE  /\ scan'.step = "collect" /\ scan'.fp = fp /\ scan'.todo = scan.todo
             /\ scan'.parts = scan.parts /\ scan'.since = scan.since /\ scan'.seen = scan.seen
             /\ Scanning
  BY <1>0, <1>2 DEF Misses, Cycles, Scanning
<1>3. ASSUME Holds
      PROVE  /\ scan'.step = "store" /\ scan'.fp = scan.fp /\ scan'.todo = scan.todo
             /\ scan'.parts = scan.parts /\ scan'.result = Found
             /\ scan'.since = scan.since /\ scan'.seen = scan.seen /\ Scanning
  BY <1>0, <1>3 DEF Holds, Cycles, Scanning
<1>4. ASSUME Panics
      PROVE  /\ scan'.step = "finish" /\ scan'.todo = <<>>
             /\ scan'.parts = {q \in scan.parts : q.kind = "platform"} \cup PanicResults
             /\ scan'.since = scan.since /\ scan'.seen = scan.seen /\ Scanning
  BY <1>0, <1>4 DEF Panics, Cycles, Scanning
<1>5. ASSUME NEW part \in Parts, scan' = Advance(part), Hits \/ Passes \/ Stores \/ Fails
      PROVE  /\ scan'.step \in {"lookup", "finish"} /\ scan'.fp = None
             /\ scan'.todo = Tail(scan.todo) /\ scan'.parts = scan.parts \cup {part}
             /\ scan'.since = scan.since /\ scan'.seen = scan.seen /\ Scanning
  <2>1. scan.step \in {"lookup", "collect", "store"}
    BY <1>5 DEF Hits, Passes, Stores, Fails
  <2>. QED
    BY <1>5, <2>1, AdvanceFacts DEF Scanning
<1>6. Hits \/ Passes \/ Stores \/ Fails => \E part \in Parts : scan' = Advance(part)
  <2>1. scan.step \in {"lookup", "collect", "store"} => kind \in Kinds
    BY ScanFacts
  <2>2. CASE Hits
    BY <2>1, <2>2, CacheFacts, PartIs DEF Hits
  <2>3. CASE Passes
    <3>1. collected(kind) \in Results
      BY <2>3, CollectedFacts DEF Passes
    <3>2. Found \in Parts
      BY <2>1, <2>3, <3>1, PartIs, StateFacts DEF Passes, Found
    <3>. QED
      BY <2>3, <3>2 DEF Passes
  <2>4. CASE Stores
    BY <2>4 DEF Stores, TypeOK
  <2>5. CASE Fails
    <3>. DEFINE res == merge(failed("winreg"), merge(failed("msi"), failed("kb")))
    <3>1. res \in Results
      BY <2>5, StateFacts, WindowsFailedFacts DEF Fails
    <3>2. scan' = Advance(Part(kind, res, now, version))
      BY <2>5 DEF Fails
    <3>. HIDE DEF res
    <3>3. Part(kind, res, now, version) \in Parts
      BY <2>1, <2>5, <3>1, PartIs, StateFacts DEF Fails
    <3>. QED
      BY <3>2, <3>3
  <2>. QED
    BY <2>2, <2>3, <2>4, <2>5
<1>7. ~Begins => Scanning /\ scan'.since = scan.since /\ scan'.seen = scan.seen
  BY <1>2, <1>3, <1>4, <1>5, <1>6, ScanKinds
<1>. QED
  BY <1>0, <1>1, <1>2, <1>3, <1>4, <1>5, <1>7 DEF Same

-----------------------------------------------------------------------------
(* The parts that are added *)

HitPart == Part(kind, cache[kind].result, cache[kind].read, cache[kind].by)

FailPart ==
  Part(kind, merge(failed("winreg"), merge(failed("msi"), failed("kb"))), now, version)

\* What was found now, what comes from the cache, what a panic leaves.
LEMMA AddedFacts ==
  ASSUME TypeOK, PrintInv
  PROVE  /\ scan.step = "collect" =>
              /\ Found \in Parts /\ Found.kind = kind /\ Found.result = collected(kind)
              /\ Found.read = now /\ Found.by = version
         /\ Hits => /\ HitPart \in Parts /\ HitPart.kind = kind /\ scan' = Advance(HitPart)
                    /\ HitPart.result = cache[kind].result
                    /\ HitPart.read = cache[kind].read /\ HitPart.by = version
         /\ Stores => scan.result \in Parts /\ scan.result.kind = kind /\ scan.result.result.complete
         /\ Fails => /\ FailPart \in Parts /\ FailPart.kind = kind /\ scan' = Advance(FailPart)
                     /\ FailPart.read = now /\ FailPart.by = version
                     /\ OwnResult(host, kind, FailPart.result) /\ ~FailPart.result.complete
                     /\ FailPart.result.entries = {}
                     /\ \A p \in Packages : ~Owes(host, FailPart.result, p)
         /\ \A q \in PanicResults :
              /\ q \in Parts /\ q.read = now /\ q.by = version
              /\ OwnResult(host, q.kind, q.result) /\ ~q.result.complete /\ q.result.entries = {}
              /\ \A p \in Packages : ~Owes(host, q.result, p)
<1>0. /\ now \in Time /\ version \in Versions /\ host \in HostStates
      /\ scan.step \in {"lookup", "collect", "store"} => kind \in Kinds
  BY StateFacts, ScanFacts
<1>1. ASSUME scan.step = "collect"
      PROVE  /\ Found \in Parts /\ Found.kind = kind /\ Found.result = collected(kind)
             /\ Found.read = now /\ Found.by = version
  <2>1. collected(kind) \in Results
    BY <1>1, CollectedFacts
  <2>. QED
    BY <1>0, <1>1, <2>1, PartIs DEF Found
<1>2. ASSUME Hits
      PROVE  /\ HitPart \in Parts /\ HitPart.kind = kind /\ scan' = Advance(HitPart)
             /\ HitPart.result = cache[kind].result
             /\ HitPart.read = cache[kind].read /\ HitPart.by = version
  BY <1>0, <1>2, CacheFacts, PartIs DEF Hits, HitPart
<1>3. ASSUME Stores
      PROVE  scan.result \in Parts /\ scan.result.kind = kind /\ scan.result.result.complete
  BY <1>3 DEF Stores, TypeOK, kind
<1>4. ASSUME Fails
      PROVE  /\ FailPart \in Parts /\ FailPart.kind = kind /\ scan' = Advance(FailPart)
             /\ FailPart.read = now /\ FailPart.by = version
             /\ OwnResult(host, kind, FailPart.result) /\ ~FailPart.result.complete
             /\ FailPart.result.entries = {}
             /\ \A p \in Packages : ~Owes(host, FailPart.result, p)
  <2>. DEFINE res == merge(failed("winreg"), merge(failed("msi"), failed("kb")))
  <2>1. kind = "platform" /\ host.os = "windows" /\ scan' = Advance(FailPart) /\ kind \in Kinds
    BY <1>0, <1>4 DEF Fails, FailPart
  <2>2. /\ res \in Results /\ OwnResult(host, "platform", res) /\ ~res.complete
        /\ res.entries = {} /\ \A p \in Packages : ~Owes(host, res, p)
    BY <1>0, <2>1, WindowsFailedFacts
  <2>3. FailPart = Part(kind, res, now, version)
    BY DEF FailPart
  <2>. HIDE DEF res
  <2>4. FailPart \in Parts /\ FailPart.kind = kind /\ FailPart.result = res
        /\ FailPart.read = now /\ FailPart.by = version
    BY <1>0, <2>1, <2>2, <2>3, PartIs
  <2>. QED
    BY <2>1, <2>2, <2>4
<1>5. ASSUME NEW q \in PanicResults
      PROVE  /\ q \in Parts /\ q.read = now /\ q.by = version
             /\ OwnResult(host, q.kind, q.result) /\ ~q.result.complete /\ q.result.entries = {}
             /\ \A p \in Packages : ~Owes(host, q.result, p)
  <2>1. PICK k \in {"python", "nodejs", "java"} : q = Part(k, failed(RuntimeSource(k)), now, version)
    BY DEF PanicResults
  <2>. DEFINE res == failed(RuntimeSource(k))
  <2>2. /\ res \in Results /\ OwnResult(host, k, res) /\ ~res.complete /\ res.entries = {}
        /\ \A p \in Packages : ~Owes(host, res, p)
    BY <1>0, FailedFacts
  <2>. HIDE DEF res
  <2>3. q \in Parts /\ q.kind = k /\ q.result = res /\ q.read = now /\ q.by = version
    BY <1>0, <2>1, <2>2, PartIs DEF res, Kinds
  <2>. QED
    BY <2>2, <2>3
<1>. QED
  BY <1>1, <1>2, <1>3, <1>4, <1>5

-----------------------------------------------------------------------------
(* The evidence is recent *)

\* The steps of a cycle add only what is recent.
LEMMA EvidenceScan ==
  ASSUME TypeOK, PrintInv, EvidenceInv, Scan
  PROVE  EvidenceInv'
<1>. USE DEF machine, clock, agent, server
<1>0. /\ UNCHANGED <<now, skew, version, spoilt>> /\ now \in Nat /\ skew \in Int
      /\ MaxAge \in Nat /\ MaxAge >= 1 /\ ScanTicks \in Nat /\ scan.since \in Nat
      /\ "clock" \notin spoilt => skew = 0
      /\ Scanning => scan.since <= now /\ now - scan.since <= ScanTicks
  BY ScanFields, StateFacts, ScanFacts DEF EvidenceInv
<1>1. "clock" \notin spoilt => unix_time_secs = now
  BY <1>0 DEF unix_time_secs
<1>2. /\ Scanning' => scan'.since <= now' /\ now' - scan'.since <= ScanTicks
      /\ ~Begins => scan'.since = scan.since /\ Scanning
  BY <1>0, ScanFields
<1>3. ASSUME NEW q \in Parts, q.by = version, q.read = now, ~Begins PROVE Recent(q)'
  BY <1>0, <1>2, <1>3 DEF Recent
<1>4. ASSUME NEW q, Recent(q), ~Begins PROVE Recent(q)'
  BY <1>0, <1>2, <1>4 DEF Recent
<1>5. /\ \A q \in scan.parts : Recent(q)
      /\ scan.step = "store" => Recent(scan.result) /\ scan.result.read >= scan.since
      /\ \A k \in Kinds : IsStored(cache[k]) /\ "clock" \notin spoilt
                            => cache[k].at - cache[k].read <= ScanTicks
  BY DEF EvidenceInv
<1>6. ASSUME NEW part \in Parts, Recent(part), ~Begins, scan' = Advance(part),
             Hits \/ Passes \/ Stores \/ Fails
      PROVE  /\ \A q \in scan'.parts : Recent(q)'
             /\ scan'.step # "store"
  <2>1. scan'.parts = scan.parts \cup {part} /\ scan'.step \in {"lookup", "finish"}
    BY <1>6, ScanFields
  <2>. QED
    BY <1>4, <1>5, <1>6, <2>1
<1>7. ASSUME NEW q \in Parts, q.by = version, q.read = now, Scanning PROVE Recent(q)
  BY <1>0, <1>7 DEF Recent
<1>8. /\ \A q \in scan'.parts : Recent(q)'
      /\ scan'.step = "store" => Recent(scan.result)' /\ scan'.result.read >= scan'.since
  <2>1. CASE Begins
    BY <2>1, ScanFields
  <2>2. CASE ~Begins /\ \E fp \in Prints \cup {None} : Misses(fp)
    BY <1>4, <1>5, <2>2, ScanFields
  <2>3. CASE ~Begins /\ Hits
    <3>1. /\ HitPart \in Parts /\ scan' = Advance(HitPart) /\ HitPart.by = version
          /\ HitPart.read = cache[kind].read
      BY <2>3, AddedFacts
    <3>2. kind \in Kinds /\ IsStored(cache[kind]) /\ ~cache_expired(cache[kind].at)
      BY <2>3, ScanFacts DEF Hits
    <3>3. cache[kind].at \in Nat /\ cache[kind].read \in Nat
      BY <3>2, CacheFacts
    <3>4. ASSUME "clock" \notin spoilt PROVE scan.since - cache[kind].read < MaxAge + ScanTicks
      <4>1. cache[kind].at - cache[kind].read <= ScanTicks
        BY <1>5, <3>2, <3>4
      <4>2. now - cache[kind].at < MaxAge
        BY <1>0, <1>1, <3>2, <3>3, <3>4 DEF cache_expired
      <4>3. scan.since <= now
        BY <1>0, <1>2, <2>3
      <4>. QED
        BY <1>0, <3>3, <4>1, <4>2, <4>3
    <3>5. Recent(HitPart)
      BY <3>1, <3>4 DEF Recent
    <3>. QED
      BY <1>6, <2>3, <3>1, <3>5
  <2>4. CASE ~Begins /\ Holds
    <3>1. /\ scan'.step = "store" /\ scan'.result = Found /\ scan'.parts = scan.parts
          /\ Found \in Parts /\ Found.by = version /\ Found.read = now
      BY <2>4, AddedFacts, ScanFields DEF Holds
    <3>2. PICK q \in Parts : q = Found
      BY <3>1
    <3>3. Recent(q)' /\ q.read >= scan'.since /\ scan'.result = q
      BY <1>0, <1>2, <1>3, <2>4, <3>1, <3>2
    <3>4. Recent(scan.result)' /\ scan'.result.read >= scan'.since
      BY <3>3 DEF Recent
    <3>. QED
      BY <1>4, <1>5, <2>4, <3>1, <3>4
  <2>5. CASE ~Begins /\ Passes
    <3>1. Found \in Parts /\ Found.by = version /\ Found.read = now /\ scan' = Advance(Found)
      BY <2>5, AddedFacts DEF Passes
    <3>. QED
      BY <1>2, <1>6, <1>7, <2>5, <3>1
  <2>6. CASE ~Begins /\ Stores
    <3>1. scan.result \in Parts /\ Recent(scan.result) /\ scan' = Advance(scan.result)
      BY <1>5, <2>6, AddedFacts DEF Stores
    <3>. QED
      BY <1>6, <2>6, <3>1
  <2>7. CASE ~Begins /\ Fails
    <3>1. /\ FailPart \in Parts /\ FailPart.by = version /\ FailPart.read = now
          /\ scan' = Advance(FailPart)
      BY <2>7, AddedFacts
    <3>. QED
      BY <1>2, <1>6, <1>7, <2>7, <3>1
  <2>8. CASE ~Begins /\ Panics
    <3>1. scan'.step = "finish"
          /\ scan'.parts = {q \in scan.parts : q.kind = "platform"} \cup PanicResults
      BY <2>8, ScanFields
    <3>2. \A q \in PanicResults : Recent(q)'
      BY <1>3, <2>8, AddedFacts
    <3>. QED
      BY <1>4, <1>5, <2>8, <3>1, <3>2
  <2>. QED
    BY <2>1, <2>2, <2>3, <2>4, <2>5, <2>6, <2>7, <2>8, ScanKinds
<1>9. ASSUME NEW k \in Kinds, IsStored(cache'[k]), "clock" \notin spoilt
      PROVE  cache'[k].at - cache'[k].read <= ScanTicks
  <2>. DEFINE new == [fp |-> scan.fp, at |-> unix_time_secs, by |-> version,
                      result |-> scan.result.result, read |-> scan.result.read]
  <2>1. CASE cache' \in {cache, [cache EXCEPT ![kind] = None]}
    BY <1>5, <1>9, <2>1, StateFacts DEF IsStored
  <2>2. CASE Stores /\ cache' = [cache EXCEPT ![kind] = new]
    <3>1. /\ new.at = now /\ new.read = scan.result.read /\ scan.result.read \in Nat
          /\ scan.result.read >= scan.since /\ Scanning
      BY <1>1, <1>5, <1>9, <2>2, AddedFacts, PartFacts DEF Stores, Scanning
    <3>2. new.at - new.read <= ScanTicks
      BY <1>0, <3>1
    <3>3. cache'[k] = new \/ cache'[k] = cache[k]
      BY <2>2, StateFacts
    <3>. QED
      BY <1>5, <1>9, <3>2, <3>3
  <2>3. \/ cache' \in {cache, [cache EXCEPT ![kind] = None]}
        \/ Stores /\ cache' = [cache EXCEPT ![kind] = new]
    BY ScanKinds DEF Begins, Misses, Hits, Holds, Passes, Stores, Fails, Panics
  <2>. QED
    BY <2>1, <2>2, <2>3
<1>. QED
  BY <1>0, <1>2, <1>8, <1>9 DEF EvidenceInv, IsStored

-----------------------------------------------------------------------------
\* Nor do the others make anything older within a cycle.
LEMMA EvidenceStep ==
  ASSUME TypeOK, PrintInv, EvidenceInv, [Next]_vars
  PROVE  EvidenceInv'
<1>. USE DEF machine, clock, agent, server, stores
<1>0. /\ now \in Nat /\ skew \in Int /\ ScanTicks \in Nat /\ scan.since \in Nat /\ scan \in Cycles
      /\ Idle.step = "idle" /\ Idle.parts = {}
  BY StateFacts, ScanFacts, IdleTyped DEF TypeOK
<1>1. CASE HostStep
  <2>1. /\ scan' = [scan EXCEPT !.seen = @ \cap Visible(host')]
        /\ UNCHANGED <<now, skew, version, cache, spoilt>>
    BY <1>1, HostStepFacts
  <2>2. /\ scan'.step = scan.step /\ scan'.since = scan.since /\ scan'.parts = scan.parts
        /\ scan'.result = scan.result
    BY <1>0, <2>1 DEF Cycles
  <2>. QED
    BY <2>1, <2>2 DEF EvidenceInv, Recent, Scanning, IsStored
<1>2. CASE Tick
  BY <1>0, <1>2 DEF Tick, EvidenceInv, Recent, Scanning, IsStored
<1>3. CASE StepClock
  BY <1>0, <1>3 DEF StepClock, EvidenceInv, Recent, Scanning, IsStored
<1>4. CASE Negotiate
  BY <1>4 DEF Negotiate, EvidenceInv, Recent, Scanning, IsStored
<1>5. CASE Restart
  BY <1>0, <1>5 DEF Restart, EvidenceInv, Recent, Scanning, IsStored
<1>6. ASSUME NEW k \in Kinds, Corrupt(k) PROVE EvidenceInv'
  <2>1. UNCHANGED <<now, skew, version, spoilt, scan>> /\ cache' = [cache EXCEPT ![k] = Garbage]
    BY <1>6 DEF Corrupt
  <2>2. \A j \in Kinds : IsStored(cache'[j]) => cache'[j] = cache[j]
    BY <2>1, StateFacts DEF IsStored
  <2>. QED
    BY <2>1, <2>2 DEF EvidenceInv, Recent, Scanning, IsStored
<1>7. CASE Scan
  BY <1>7, EvidenceScan
<1>8. CASE Finish
  <2>1. scan' = Idle /\ UNCHANGED <<now, skew, cache>> /\ ("clock" \notin spoilt' => "clock" \notin spoilt)
    BY <1>8, FinishFacts
  <2>. QED
    BY <1>0, <2>1 DEF EvidenceInv, Scanning, IsStored
<1>9. CASE UNCHANGED vars
  BY <1>9 DEF vars, EvidenceInv, Recent, Scanning, IsStored
<1>. QED
  BY <1>1, <1>2, <1>3, <1>4, <1>5, <1>6, <1>7, <1>8, <1>9, StepKinds DEF Quiet

-----------------------------------------------------------------------------
(* What has lapsed, and the history *)

\* A package that cannot be found now, or could not at some time of this cycle,
\* has lapsed.
LEMMA LapsedStep ==
  ASSUME TypeOK, PrintInv, LapsedInv, [Next]_vars
  PROVE  LapsedInv'
<1>. USE DEF machine, clock, agent, server, stores
<1>0. /\ scan \in Cycles /\ Idle.step = "idle" /\ scan.seen \subseteq Packages
      /\ Packages \ Visible(host) \subseteq lapsed
      /\ Scanning => scan.seen \subseteq Visible(host) /\ Packages \ scan.seen \subseteq lapsed
  BY ScanFacts, IdleTyped DEF TypeOK, LapsedInv
<1>1. CASE HostStep
  <2>1. /\ scan' = [scan EXCEPT !.seen = @ \cap Visible(host')]
        /\ lapsed' = lapsed \cup (Packages \ Visible(host'))
    BY <1>1, HostStepFacts
  <2>2. scan'.step = scan.step /\ scan'.seen = scan.seen \cap Visible(host')
    BY <1>0, <2>1 DEF Cycles
  <2>3. Visible(host)' = Visible(host')
    OBVIOUS
  <2>. QED
    BY <1>0, <2>1, <2>2 DEF LapsedInv, Scanning
<1>2. CASE Quiet
  <2>1. Visible(host)' = Visible(host)
    BY <1>2, QuietFacts DEF Visible, Overlooked, Present, Installed, inactive_profiles, AreaOf,
       Places
  <2>. QED
    BY <1>0, <1>2, <2>1, QuietFacts DEF LapsedInv, Scanning
<1>3. CASE Scan
  <2>1. UNCHANGED <<host, lapsed>>
    BY <1>3, ScanFields
  <2>2. scan'.seen = Visible(host) \/ (Scanning /\ scan'.seen = scan.seen)
    BY <1>3, ScanFields
  <2>. QED
    BY <1>0, <2>1, <2>2 DEF LapsedInv
<1>4. CASE Finish
  <2>1. /\ scan' = Idle /\ UNCHANGED host
        /\ lapsed' = (lapsed \ (effective' \ effective)) \cup (Packages \ Visible(host))
    BY <1>4, FinishFacts
  <2>. QED
    BY <1>0, <2>1 DEF LapsedInv, Scanning
<1>5. CASE UNCHANGED vars
  BY <1>0, <1>5 DEF LapsedInv, vars, Scanning
<1>. QED
  BY <1>1, <1>2, <1>3, <1>4, <1>5, StepKinds

\* The history loses nothing but by a failure.
LEMMA HistoryStep ==
  ASSUME TypeOK, PrintInv, HistoryInv, [Next]_vars
  PROVE  HistoryInv'
<1>. USE DEF machine, clock, agent, server, stores
<1>1. CASE HostStep
  BY <1>1, HostStepFacts DEF HistoryInv
<1>2. CASE Quiet
  BY <1>2, QuietFacts DEF HistoryInv
<1>3. CASE Scan
  BY <1>3, ScanFields DEF HistoryInv
<1>4. CASE Finish
  <2>. SUFFICES ASSUME "history" \notin spoilt'
                PROVE  /\ \A s \in told' : history'[s] # None
                       /\ \A r \in report' : r.known => r.last # None
    BY DEF HistoryInv
  <2>1. /\ told' = told \cup CompleteSources /\ "history" \notin spoilt
        /\ history' = reconciled(history) /\ Learn(reconciled(history))
    BY <1>4, FinishFacts
  <2>2. /\ \A s \in told : history[s] # None
        /\ \A r \in report : r.known => r.last # None
    BY <2>1 DEF HistoryInv
  <2>. DEFINE hist == reconciled(history)
  <2>3. \A s \in told \cup CompleteSources : hist[s] # None
    <3>1. /\ \A s \in CompleteSources : hist[s] # None
          /\ \A s \in Sources \ CompleteSources : hist[s] = history[s]
      BY ReconciledFacts, StateFacts
    <3>. HIDE DEF hist
    <3>. QED
      BY <2>2, <3>1, StateFacts
  <2>. HIDE DEF hist
  <2>4. ASSUME NEW x \in Reported(hist), x.known PROVE x.last # None
    <3>1. PICK r \in Records :
            x = [source |-> r.source, status |-> r.status, last |-> hist[r.source],
                 known |-> r.source \in told \cup CompleteSources]
      BY DEF Reported
    <3>2. x.last = hist[r.source] /\ x.known = (r.source \in told \cup CompleteSources)
      BY <3>1
    <3>3. r.source \in told \cup CompleteSources
      BY <2>4, <3>2
    <3>. QED
      BY <2>3, <3>2, <3>3
  <2>5. report' \in {report, {}, Reported(hist)}
    BY <2>1, LearnFacts DEF hist
  <2>. QED
    BY <2>1, <2>2, <2>3, <2>4, <2>5 DEF hist
<1>5. CASE UNCHANGED vars
  BY <1>5 DEF HistoryInv, vars
<1>. QED
  BY <1>1, <1>2, <1>3, <1>4, <1>5, StepKinds

\* The fingerprint of the collector whose turn it is.
LEMMA PrintStep ==
  ASSUME TypeOK, PrintInv, [Next]_vars
  PROVE  PrintInv'
<1>. USE DEF machine, clock, agent, server, stores
<1>0. /\ scan \in Cycles /\ Idle.step = "idle" /\ host \in HostStates
      /\ scan.step \in {"lookup", "collect", "store"} => kind \in Kinds
  BY StateFacts, ScanFacts, IdleTyped DEF TypeOK
<1>1. CASE HostStep
  <2>1. /\ scan' = [scan EXCEPT !.seen = @ \cap Visible(host')]
        /\ host'.os = host.os /\ blurred \subseteq blurred'
        /\ \A k \in Kinds : stamp'[k] >= stamp[k] /\ stamp'[k] \in Nat /\ stamp[k] \in Nat
    BY <1>1, HostStepFacts, StateFacts
  <2>2. /\ scan'.step = scan.step /\ scan'.fp = scan.fp /\ scan'.todo = scan.todo
    BY <1>0, <2>1 DEF Cycles
  <2>3. kind' = kind
    BY <2>2 DEF kind
  <2>. SUFFICES ASSUME scan.step \in {"collect", "store"}, scan.fp # None
                PROVE  /\ scan.fp[1] <= stamp'[kind]
                       /\ ~(host'.os = "windows" /\ kind = "platform")
                       /\ scan.step = "collect" =>
                            \A p \in Packages \ blurred' :
                              KindOf(p) = kind /\ Searched(host', p) => host'.pkg[p] # "sealed"
    BY <2>2, <2>3 DEF PrintInv
  <2>4. scan.fp[1] <= stamp[kind] /\ ~(host.os = "windows" /\ kind = "platform")
    BY DEF PrintInv
  <2>5. scan.fp[1] \in Nat
    BY ScanFacts DEF Prints
  <2>6. ASSUME scan.step = "collect", NEW p \in Packages \ blurred', KindOf(p) = kind,
               Searched(host', p)
        PROVE  host'.pkg[p] # "sealed"
    <3>1. Searched(host, p) /\ p \in Packages \ blurred
      BY <2>1, <2>6 DEF Searched
    <3>2. host.pkg[p] # "sealed"
      BY <2>6, <3>1 DEF PrintInv
    <3>. QED
      BY <1>1, <2>6, <3>1, <3>2, HostStepFacts
  <2>. QED
    BY <1>0, <2>1, <2>4, <2>5, <2>6
<1>2. CASE Quiet
  BY <1>0, <1>2, QuietFacts DEF PrintInv, kind
<1>3. CASE Scan
  <2>1. UNCHANGED machine
    BY <1>3, ScanFields
  <2>2. CASE Begins
    BY <1>3, <2>2, ScanFields DEF PrintInv
  <2>3. ASSUME NEW fp \in Prints \cup {None}, Misses(fp) PROVE PrintInv'
    <3>1. scan'.step = "collect" /\ scan'.fp = fp /\ kind' = kind /\ kind \in Kinds
      BY <1>0, <1>3, <2>3, ScanFields DEF Misses, kind
    <3>2. CASE fp = None
      BY <3>1, <3>2 DEF PrintInv
    <3>3. CASE fp # None
      <4>1. fp = fingerprint(kind) /\ Fingerprinted(kind)
        BY <2>3, <3>3 DEF Misses
      <4>2. fp[1] = stamp[kind] /\ stamp[kind] \in Nat
        BY <3>1, <4>1, FingerprintFacts, StateFacts
      <4>3. ~(host.os = "windows" /\ kind = "platform") /\ ~FingerprintBlocked(host, kind)
        BY <4>1 DEF Fingerprinted
      <4>4. ASSUME NEW p \in Packages, KindOf(p) = kind, Searched(host, p), host.pkg[p] = "sealed"
            PROVE  FALSE
        <5>1. p \in In(host, {q \in Packages : KindOf(q) = kind}, {"sealed"})
          BY <4>4 DEF In
        <5>2. CASE SourceOf[p] = "java"
          <6>1. kind = "java"
            BY <4>4, <5>2 DEF KindOf
          <6>. QED
            BY <4>3, <5>1, <6>1 DEF FingerprintBlocked
        <5>3. CASE SourceOf[p] = "mac_bundle" /\ host.os = "macos"
          <6>1. kind = "platform"
            BY <4>4, <5>3 DEF KindOf
          <6>. QED
            BY <4>3, <5>1, <5>3, <6>1 DEF FingerprintBlocked
        <5>. QED
          BY <4>4, <5>2, <5>3 DEF Searched
      <4>. QED
        BY <2>1, <3>1, <4>2, <4>3, <4>4 DEF PrintInv
    <3>. QED
      BY <3>2, <3>3
  <2>4. CASE Holds
    <3>1. /\ scan.step = "collect" /\ scan'.step = "store" /\ scan'.fp = scan.fp /\ scan.fp # None
          /\ scan'.todo = scan.todo
      BY <1>3, <2>4, ScanFields DEF Holds
    <3>. QED
      BY <2>1, <3>1 DEF PrintInv, kind
  <2>5. CASE Hits \/ Passes \/ Stores \/ Fails
    <3>1. PICK part \in Parts : scan' = Advance(part)
      BY <2>5, AddedFacts DEF Passes, Stores
    <3>2. scan'.step \in {"lookup", "finish"} /\ scan'.fp = None
      BY <1>3, <2>5, <3>1, ScanFields
    <3>. QED
      BY <3>2 DEF PrintInv
  <2>6. CASE Panics
    BY <1>3, <2>6, ScanFields DEF PrintInv
  <2>. QED
    BY <1>3, <2>2, <2>3, <2>4, <2>5, <2>6, ScanKinds
<1>4. CASE Finish
  BY <1>0, <1>4, FinishFacts DEF PrintInv
<1>5. CASE UNCHANGED vars
  BY <1>5 DEF PrintInv, vars, kind
<1>. QED
  BY <1>1, <1>2, <1>3, <1>4, <1>5, StepKinds

-----------------------------------------------------------------------------
(* What is listed *)

\* A part that lists what it must goes on doing so while the cycle lasts.
LEMMA OwnPartKept ==
  ASSUME NEW q, OwnPart(q), host'.os = host.os, host'.relocated = host.relocated,
         Lacks(host') = Lacks(host),
         scan'.seen \ blurred' \subseteq scan.seen \ blurred
  PROVE  OwnPart(q)'
<1>1. OwnResult(host', q.kind, q.result)
  BY DEF OwnPart, OwnResult, Native
<1>2. \A p : Lists(host', q.result, p) <=> Lists(host, q.result, p)
  BY DEF Lists, Owes, Native, Answers
<1>. QED
  BY <1>1, <1>2 DEF OwnPart

\* What a true fingerprint vouches for outlives every change it does not show.
LEMMA VouchesKept ==
  ASSUME TypeOK, HostStep, NEW fp \in Prints, NEW k \in Kinds, NEW res,
         fp[1] <= stamp[k], Vouches(fp, k, res)
  PROVE  Vouches(fp, k, res)'
<1>1. /\ host'.os = host.os /\ host'.relocated = host.relocated /\ blurred \subseteq blurred'
      /\ Lacks(host') = Lacks(host)
      /\ stamp'[k] >= stamp[k] /\ stamp'[k] \in Nat /\ stamp[k] \in Nat /\ fp[1] \in Nat
  BY HostStepFacts, StateFacts DEF Prints
<1>2. ASSUME fp[1] = stamp'[k], NEW p \in Present(host') \ blurred', KindOf(p) = k
      PROVE  Lists(host', res, p)
  <2>1. stamp'[k] = stamp[k] /\ fp[1] = stamp[k]
    BY <1>1, <1>2
  <2>2. p \in Packages
    BY <1>2 DEF Present, Installed
  <2>3. p \in Present(host) \ blurred
    BY <1>1, <1>2, <2>1, <2>2, HostStepFacts
  <2>4. Lists(host, res, p)
    BY <1>2, <2>1, <2>3 DEF Vouches
  <2>. QED
    BY <1>1, <2>4 DEF Lists, Owes, Native, Answers
<1>3. Present(host)' = Present(host')
  BY DEF Present, Installed
<1>. QED
  BY <1>2, <1>3 DEF Vouches

\* What was found just now.
LEMMA FoundLists ==
  ASSUME TypeOK, PrintInv, LapsedInv, scan.step = "collect"
  PROVE  OwnPart(Found) /\ (scan.fp # None => Vouches(scan.fp, kind, Found.result))
<1>1. /\ Found.kind = kind /\ Found.result = collected(kind)
      /\ scan.seen \subseteq Visible(host)
  BY AddedFacts DEF LapsedInv, Scanning
<1>. QED
  BY <1>1, CollectedFacts DEF OwnPart, Vouches

\* What the cache has.
LEMMA HitLists ==
  ASSUME TypeOK, PrintInv, LapsedInv, CacheInv, Hits
  PROVE  OwnPart(HitPart)
<1>1. /\ HitPart.kind = kind /\ HitPart.result = cache[kind].result /\ kind \in Kinds
      /\ IsStored(cache[kind]) /\ cache[kind].fp = fingerprint(kind)
  BY AddedFacts, ScanFacts DEF Hits
<1>2. fingerprint(kind)[1] = stamp[kind]
  BY <1>1, FingerprintFacts
<1>3. /\ OwnResult(host, kind, cache[kind].result)
      /\ \A p \in Present(host) \ blurred : KindOf(p) = kind => Lists(host, cache[kind].result, p)
  BY <1>1, <1>2 DEF CacheInv, Vouches
<1>4. scan.seen \subseteq Present(host)
  BY DEF LapsedInv, Hits, Scanning, Visible
<1>. QED
  BY <1>1, <1>3, <1>4 DEF OwnPart

\* Every part of a cycle lists what its collector owed throughout it.
LEMMA PartsStep ==
  ASSUME TypeOK, PrintInv, LapsedInv, PartsInv, CacheInv, [Next]_vars
  PROVE  PartsInv'
<1>. USE DEF machine, clock, agent, server, stores
<1>0. /\ scan \in Cycles /\ Idle.step = "idle" /\ Idle.parts = {}
      /\ \A q \in scan.parts : OwnPart(q)
  BY IdleTyped DEF TypeOK, PartsInv
<1>1. CASE HostStep
  <2>1. /\ scan' = [scan EXCEPT !.seen = @ \cap Visible(host')] /\ blurred \subseteq blurred'
        /\ host'.os = host.os /\ host'.relocated = host.relocated
        /\ Lacks(host') = Lacks(host)
    BY <1>1, HostStepFacts
  <2>2. /\ scan'.step = scan.step /\ scan'.fp = scan.fp /\ scan'.todo = scan.todo
        /\ scan'.parts = scan.parts /\ scan'.result = scan.result
        /\ scan'.seen = scan.seen \cap Visible(host')
    BY <1>0, <2>1 DEF Cycles
  <2>3. scan'.seen \ blurred' \subseteq scan.seen \ blurred
    BY <2>1, <2>2
  <2>4. \A q \in scan'.parts : OwnPart(q)'
    BY <1>0, <2>1, <2>2, <2>3, OwnPartKept
  <2>5. ASSUME scan.step = "store"
        PROVE  OwnPart(scan.result)' /\ Vouches(scan.fp, kind, scan.result.result)'
    <3>1. /\ scan.fp \in Prints /\ kind \in Kinds /\ OwnPart(scan.result)
          /\ Vouches(scan.fp, kind, scan.result.result) /\ scan.fp # None
      BY <2>5, ScanFacts DEF PartsInv, TypeOK, PrintInv
    <3>2. scan.fp[1] <= stamp[kind]
      BY <2>5, <3>1 DEF PrintInv
    <3>3. PICK q, fp, k : q = scan.result /\ fp = scan.fp /\ k = kind
      OBVIOUS
    <3>4. OwnPart(q)' /\ Vouches(fp, k, q.result)'
      BY <1>1, <2>1, <2>3, <3>1, <3>2, <3>3, OwnPartKept, VouchesKept
    <3>5. scan'.result = q /\ scan'.fp = fp /\ kind' = k
      BY <2>2, <3>3 DEF kind
    <3>. QED
      BY <3>4, <3>5 DEF OwnPart, Vouches
  <2>. QED
    BY <2>2, <2>4, <2>5 DEF PartsInv
<1>2. CASE Quiet
  <2>1. UNCHANGED machine /\ (scan' = scan \/ scan' = Idle)
    BY <1>2, QuietFacts
  <2>2. CASE scan' = scan
    BY <2>1, <2>2 DEF PartsInv, OwnPart, Vouches, OwnResult, Present, Installed, Places, kind
  <2>3. CASE scan' = Idle
    BY <1>0, <2>3 DEF PartsInv
  <2>. QED
    BY <2>1, <2>2, <2>3
<1>3. CASE Scan
  <2>1. UNCHANGED machine
    BY <1>3, ScanFields
  <2>2. ~Begins => scan'.seen = scan.seen
    BY <1>3, ScanFields
  <2>3. ASSUME NEW q, OwnPart(q), ~Begins PROVE OwnPart(q)'
    BY <2>1, <2>2, <2>3, OwnPartKept
  <2>4. CASE Begins
    BY <1>3, <2>4, ScanFields DEF PartsInv
  <2>5. ASSUME NEW fp \in Prints \cup {None}, Misses(fp), ~Begins PROVE PartsInv'
    BY <1>0, <1>3, <2>3, <2>5, ScanFields DEF PartsInv
  <2>6. ASSUME NEW part \in Parts, OwnPart(part), scan' = Advance(part), ~Begins,
               Hits \/ Passes \/ Stores \/ Fails
        PROVE  PartsInv'
    <3>1. scan'.step \in {"lookup", "finish"} /\ scan'.parts = scan.parts \cup {part}
      BY <1>3, <2>6, ScanFields
    <3>. QED
      BY <1>0, <2>3, <2>6, <3>1 DEF PartsInv
  <2>7. CASE ~Begins /\ Hits
    BY <2>6, <2>7, HitLists, AddedFacts
  <2>8. CASE ~Begins /\ Passes
    BY <2>6, <2>8, FoundLists, AddedFacts DEF Passes
  <2>9. CASE ~Begins /\ Stores
    BY <2>6, <2>9, AddedFacts DEF Stores, PartsInv
  <2>10. CASE ~Begins /\ Fails
    <3>1. OwnPart(FailPart)
      <4>1. scan.seen \subseteq Packages
        BY ScanFacts
      <4>. QED
        BY <2>10, <4>1, AddedFacts DEF OwnPart, Lists
    <3>. QED
      BY <2>6, <2>10, <3>1, AddedFacts
  <2>11. CASE ~Begins /\ Panics
    <3>1. scan'.step = "finish"
          /\ scan'.parts = {q \in scan.parts : q.kind = "platform"} \cup PanicResults
      BY <1>3, <2>11, ScanFields
    <3>2. \A q \in PanicResults : OwnPart(q)
      <4>1. scan.seen \subseteq Packages
        BY ScanFacts
      <4>. QED
        BY <4>1, AddedFacts DEF OwnPart, Lists
    <3>3. ASSUME NEW q \in scan'.parts PROVE OwnPart(q)'
      BY <1>0, <2>3, <2>11, <3>1, <3>2
    <3>. QED
      BY <3>1, <3>3 DEF PartsInv
  <2>12. CASE ~Begins /\ Holds
    <3>1. /\ scan.step = "collect" /\ scan.fp # None /\ scan'.step = "store"
          /\ scan'.fp = scan.fp /\ scan'.todo = scan.todo /\ scan'.parts = scan.parts
          /\ scan'.result = Found
      BY <1>3, <2>12, ScanFields DEF Holds
    <3>2. OwnPart(Found) /\ Vouches(scan.fp, kind, Found.result)
      BY <3>1, FoundLists
    <3>3. PICK q, fp, k : q = Found /\ fp = scan.fp /\ k = kind
      OBVIOUS
    <3>4. OwnPart(q)' /\ Vouches(fp, k, q.result)'
      <4>1. OwnPart(q)'
        BY <2>3, <2>12, <3>2, <3>3
      <4>2. Vouches(fp, k, q.result)'
        BY <2>1, <3>2, <3>3 DEF Vouches, Present, Installed, Places
      <4>. QED
        BY <4>1, <4>2
    <3>5. scan'.result = q /\ scan'.fp = fp /\ kind' = k
      BY <3>1, <3>3 DEF kind
    <3>6. \A p \in scan'.parts : OwnPart(p)'
      BY <1>0, <2>3, <2>12, <3>1
    <3>. QED
      BY <3>1, <3>4, <3>5, <3>6 DEF PartsInv, OwnPart, Vouches
  <2>. QED
    BY <1>3, <2>4, <2>5, <2>7, <2>8, <2>9, <2>10, <2>11, <2>12, ScanKinds
<1>4. CASE Finish
  BY <1>0, <1>4, FinishFacts DEF PartsInv
<1>5. CASE UNCHANGED vars
  BY <1>5 DEF vars, PartsInv, OwnPart, Vouches, OwnResult, Present, Installed, Places, kind
<1>. QED
  BY <1>1, <1>2, <1>3, <1>4, <1>5, StepKinds

-----------------------------------------------------------------------------
\* The stored results stay true as long as their fingerprints.
LEMMA CacheStep ==
  ASSUME TypeOK, PrintInv, PartsInv, CacheInv, [Next]_vars
  PROVE  CacheInv'
<1>. USE DEF machine, clock, agent, server, stores
<1>. DEFINE Good(k, c) == /\ c.fp[1] <= stamp[k]
                          /\ ~(host.os = "windows" /\ k = "platform")
                          /\ OwnResult(host, k, c.result)
                          /\ Vouches(c.fp, k, c.result)
<1>0. \A k \in Kinds : IsStored(cache[k]) => Good(k, cache[k])
  BY DEF CacheInv
<1>1. CASE HostStep
  <2>1. ASSUME NEW k \in Kinds, IsStored(cache[k])
        PROVE  /\ cache[k].fp[1] <= stamp'[k]
               /\ ~(host'.os = "windows" /\ k = "platform")
               /\ OwnResult(host', k, cache[k].result)
               /\ Vouches(cache[k].fp, k, cache[k].result)'
    <3>1. PICK c : c = cache[k]
      OBVIOUS
    <3>2. /\ c.fp \in Prints /\ c.fp[1] \in Nat /\ c.fp[1] <= stamp[k] /\ Vouches(c.fp, k, c.result)
          /\ ~(host.os = "windows" /\ k = "platform") /\ OwnResult(host, k, c.result)
      BY <1>0, <2>1, <3>1, CacheFacts
    <3>3. /\ host'.os = host.os /\ Lacks(host') = Lacks(host) /\ stamp'[k] >= stamp[k] /\ stamp'[k] \in Nat /\ stamp[k] \in Nat
          /\ UNCHANGED cache
      BY <1>1, HostStepFacts, StateFacts
    <3>4. Vouches(c.fp, k, c.result)'
      BY <1>1, <3>2, VouchesKept
    <3>5. OwnResult(host', k, c.result)
      BY <3>2, <3>3 DEF OwnResult, Native
    <3>6. cache'[k] = c
      BY <3>1, <3>3
    <3>. QED
      BY <3>1, <3>2, <3>3, <3>4, <3>5, <3>6 DEF Vouches
  <2>2. UNCHANGED cache
    BY <1>1, HostStepFacts
  <2>. QED
    BY <2>1, <2>2 DEF CacheInv, IsStored, Vouches
<1>2. ASSUME UNCHANGED machine,
             \A k \in Kinds : IsStored(cache'[k]) => cache'[k] = cache[k] \/ Good(k, cache'[k])
      PROVE  CacheInv'
  <2>1. ASSUME NEW k \in Kinds, IsStored(cache'[k])
        PROVE  /\ cache'[k].fp[1] <= stamp'[k]
               /\ ~(host'.os = "windows" /\ k = "platform")
               /\ OwnResult(host', k, cache'[k].result)
               /\ Vouches(cache[k].fp, k, cache[k].result)'
    <3>1. PICK c : c = cache'[k]
      OBVIOUS
    <3>2. Good(k, c)
      BY <1>0, <1>2, <2>1, <3>1
    <3>3. Vouches(c.fp, k, c.result)'
      BY <1>2, <3>2 DEF Vouches, Present, Installed, Places
    <3>. QED
      BY <1>2, <3>1, <3>2, <3>3 DEF Vouches
  <2>. QED
    BY <2>1 DEF CacheInv, IsStored
<1>. HIDE DEF Good
<1>3. CASE Quiet
  <2>1. UNCHANGED machine
    BY <1>3, QuietFacts
  <2>2. \A k \in Kinds : IsStored(cache'[k]) => cache'[k] = cache[k]
    BY <1>3, QuietFacts, StateFacts DEF IsStored
  <2>. QED
    BY <1>2, <2>1, <2>2
<1>4. CASE Scan
  <2>. DEFINE new == [fp |-> scan.fp, at |-> unix_time_secs, by |-> version,
                      result |-> scan.result.result, read |-> scan.result.read]
  <2>1. UNCHANGED machine
    BY <1>4, ScanFields
  <2>2. CASE cache' \in {cache, [cache EXCEPT ![kind] = None]}
    <3>1. \A k \in Kinds : IsStored(cache'[k]) => cache'[k] = cache[k]
      BY <2>2, StateFacts DEF IsStored
    <3>. QED
      BY <1>2, <2>1, <3>1
  <2>3. CASE Stores /\ cache' = [cache EXCEPT ![kind] = new]
    <3>1. /\ scan.step = "store" /\ scan.fp # None /\ OwnPart(scan.result)
          /\ Vouches(scan.fp, kind, scan.result.result) /\ scan.result.kind = kind
      BY <2>3, AddedFacts DEF Stores, PrintInv, PartsInv
    <3>2. Good(kind, new)
      BY <3>1 DEF PrintInv, OwnPart, Good
    <3>3. \A k \in Kinds : cache'[k] = cache[k] \/ (k = kind /\ cache'[k] = new)
      BY <2>3, StateFacts
    <3>. HIDE DEF new
    <3>. QED
      BY <1>2, <2>1, <3>2, <3>3
  <2>4. \/ cache' \in {cache, [cache EXCEPT ![kind] = None]}
        \/ Stores /\ cache' = [cache EXCEPT ![kind] = new]
    BY <1>4, ScanKinds DEF Begins, Misses, Hits, Holds, Passes, Stores, Fails, Panics
  <2>. QED
    BY <2>2, <2>3, <2>4
<1>5. CASE Finish
  <2>1. UNCHANGED <<machine, cache>>
    BY <1>5, FinishFacts
  <2>. QED
    BY <1>2, <2>1
<1>6. CASE UNCHANGED vars
  BY <1>2, <1>6 DEF vars
<1>. QED
  BY <1>1, <1>3, <1>4, <1>5, <1>6, StepKinds

\* What the cycle covers depends on the machine, the cycle and the report only.
LEMMA CoverKept ==
  ASSUME CoverInv, UNCHANGED <<host, scan, effective>>
  PROVE  CoverInv'
<1>1. /\ Mine' = Mine /\ Elements(scan.todo)' = Elements(scan.todo)
      /\ AllComplete' = AllComplete /\ Scanning' = Scanning
  BY DEF Mine, Elements, AllComplete, Scanning
<1>. QED
  BY <1>1 DEF CoverInv

\* By the end of a cycle every collector has spoken.
LEMMA CoverStep ==
  ASSUME TypeOK, PrintInv, PartsInv, CoverInv, [Next]_vars
  PROVE  CoverInv'
<1>. USE DEF machine, clock, agent, server, stores
<1>0. /\ scan \in Cycles /\ Idle.step = "idle"
      /\ \A p \in effective : /\ KindOf(p) \in Mine /\ Native(host.os, p)
                              /\ SourceOf[p] \notin Lacks(host)
      /\ Scanning =>
           /\ Elements(scan.todo) \subseteq Mine
           /\ AllComplete => Mine \subseteq Elements(scan.todo) \cup {q.kind : q \in scan.parts}
           /\ \A q \in scan.parts : q.kind \in Mine \/ q.result.entries = {}
  BY IdleTyped DEF TypeOK, CoverInv
<1>1. CASE HostStep
  <2>1. /\ scan' = [scan EXCEPT !.seen = @ \cap Visible(host')]
        /\ host'.os = host.os /\ Lacks(host') = Lacks(host) /\ UNCHANGED effective
    BY <1>1, HostStepFacts
  <2>2. scan'.step = scan.step /\ scan'.todo = scan.todo /\ scan'.parts = scan.parts
    BY <1>0, <2>1 DEF Cycles
  <2>3. /\ Mine' = Mine /\ Elements(scan.todo)' = Elements(scan.todo)
        /\ AllComplete' = AllComplete /\ Scanning' = Scanning
    BY <2>1, <2>2 DEF Mine, Elements, AllComplete, Scanning
  <2>4. \A p \in effective' : /\ KindOf(p) \in Mine' /\ Native(host'.os, p)
                              /\ SourceOf[p] \notin Lacks(host')
    BY <1>0, <2>1, <2>3
  <2>. QED
    BY <1>0, <2>2, <2>3, <2>4 DEF CoverInv
<1>2. CASE Quiet
  <2>1. UNCHANGED <<host, effective>> /\ (scan' = scan \/ scan' = Idle)
    BY <1>2, QuietFacts
  <2>2. CASE scan' = scan
    BY <1>0, <2>1, <2>2, CoverKept
  <2>3. CASE scan' = Idle
    <3>1. Mine' = Mine /\ ~Scanning'
      BY <1>0, <2>1, <2>3 DEF Mine, Elements, Scanning
    <3>. QED
      BY <1>0, <2>1, <3>1 DEF CoverInv
  <2>. QED
    BY <2>1, <2>2, <2>3
<1>3. CASE Scan
  <2>1. UNCHANGED <<host, effective>>
    BY <1>3, ScanFields
  <2>2. Mine' = Mine
    BY <2>1 DEF Mine, Elements
  <2>3. ASSUME scan'.todo = scan.todo, scan'.parts = scan.parts, Scanning PROVE CoverInv'
    BY <1>0, <2>1, <2>2, <2>3 DEF CoverInv, AllComplete, Elements
  <2>4. ASSUME NEW part \in Parts, part.kind = kind, scan' = Advance(part),
               Hits \/ Passes \/ Stores \/ Fails
        PROVE  CoverInv'
    <3>1. scan'.parts = scan.parts \cup {part} /\ scan'.todo = Tail(scan.todo)
      BY <1>3, <2>4, ScanFields
    <3>2. scan.step \in {"lookup", "collect", "store"} /\ Scanning
      BY <2>4 DEF Hits, Passes, Stores, Fails, Scanning
    <3>3. Elements(scan.todo) = {kind} \cup Elements(Tail(scan.todo))
      BY <3>2, ScanFacts
    <3>4. Elements(scan'.todo) \subseteq Mine /\ kind \in Mine
      BY <1>0, <3>1, <3>2, <3>3
    <3>5. AllComplete' => AllComplete
      BY <3>1 DEF AllComplete
    <3>6. {q.kind : q \in scan'.parts} = {q.kind : q \in scan.parts} \cup {kind}
      BY <2>4, <3>1
    <3>7. Elements(scan.todo)' = Elements(scan'.todo)
      BY DEF Elements
    <3>8. AllComplete' => Mine \subseteq Elements(scan'.todo) \cup {q.kind : q \in scan'.parts}
      BY <1>0, <3>1, <3>2, <3>3, <3>5, <3>6
    <3>9. \A q \in scan'.parts : q.kind \in Mine \/ q.result.entries = {}
      BY <1>0, <2>4, <3>1, <3>2, <3>4
    <3>. QED
      BY <1>0, <2>1, <2>2, <3>4, <3>7, <3>8, <3>9 DEF CoverInv
  <2>5. CASE Begins
    <3>1. scan'.parts = {} /\ scan'.todo = Scans[host.os]
      BY <1>3, <2>5, ScanFields
    <3>2. Elements(scan.todo)' = Mine
      BY <3>1 DEF Elements, Mine
    <3>. QED
      BY <1>0, <2>1, <2>2, <3>1, <3>2 DEF CoverInv
  <2>6. ASSUME NEW fp \in Prints \cup {None}, Misses(fp), ~Begins PROVE CoverInv'
    BY <1>3, <2>3, <2>6, ScanFields
  <2>7. CASE Holds /\ ~Begins
    BY <1>3, <2>3, <2>7, ScanFields
  <2>8. CASE Hits \/ Passes \/ Stores \/ Fails
    <3>1. CASE Hits
      BY <2>4, <3>1, AddedFacts
    <3>2. CASE Passes
      BY <2>4, <3>2, AddedFacts DEF Passes
    <3>3. CASE Stores
      BY <2>4, <3>3, AddedFacts DEF Stores
    <3>4. CASE Fails
      BY <2>4, <3>4, AddedFacts
    <3>. QED
      BY <2>8, <3>1, <3>2, <3>3, <3>4
  <2>9. CASE Panics
    <3>1. /\ scan'.todo = <<>>
          /\ scan'.parts = {q \in scan.parts : q.kind = "platform"} \cup PanicResults
      BY <1>3, <2>9, ScanFields
    <3>2. Scanning
      BY <2>9 DEF Panics, Scanning
    <3>3. Elements(scan.todo)' = {}
      BY <3>1 DEF Elements
    <3>4. ~AllComplete'
      <4>1. Part("java", failed(RuntimeSource("java")), now, version) \in PanicResults
        BY DEF PanicResults
      <4>. QED
        BY <3>1, <4>1, AddedFacts DEF AllComplete
    <3>5. \A q \in scan'.parts : q.kind \in Mine \/ q.result.entries = {}
      BY <1>0, <3>1, <3>2, AddedFacts
    <3>. QED
      BY <1>0, <2>1, <2>2, <3>3, <3>4, <3>5 DEF CoverInv
  <2>. QED
    BY <1>3, <2>5, <2>6, <2>7, <2>8, <2>9, ScanKinds
<1>4. CASE Finish
  <2>1. UNCHANGED host /\ scan' = Idle /\ scan.step = "finish"
    BY <1>4, FinishFacts
  <2>2. PICK old \in [Sources -> Time \cup {None}] : Learn(reconciled(old))
    BY <1>4, FinishFacts
  <2>3. effective' \subseteq effective \cup Entries
    BY <2>2, LearnFacts
  <2>4. ASSUME NEW p \in Entries
        PROVE  KindOf(p) \in Mine /\ Native(host.os, p) /\ SourceOf[p] \notin Lacks(host)
    <3>1. PICK q \in scan.parts : p \in q.result.entries
      BY RecordFacts
    <3>2. OwnResult(host, q.kind, q.result)
      BY DEF PartsInv, OwnPart
    <3>. QED
      BY <1>0, <2>1, <3>1, <3>2 DEF OwnResult, Scanning
  <2>5. Mine' = Mine
    BY <2>1 DEF Mine, Elements
  <2>. QED
    BY <1>0, <2>1, <2>3, <2>4, <2>5 DEF CoverInv, Scanning
<1>5. CASE UNCHANGED vars
  BY <1>5, CoverKept DEF vars
<1>. QED
  BY <1>1, <1>2, <1>3, <1>4, <1>5, StepKinds

-----------------------------------------------------------------------------
(* What a cycle reports *)

\* At the start nothing has been read, stored or reported.
LEMMA CollectInit == Init => CollectInv
<1>. SUFFICES ASSUME Init PROVE CollectInv
  OBVIOUS
<1>1. TypeOK /\ scan = Idle /\ Idle.step = "idle" /\ Idle.parts = {}
  BY TypeInit, IdleTyped DEF Init
<1>2. EvidenceInv
  BY <1>1 DEF Init, EvidenceInv, Scanning, IsStored
<1>3. LapsedInv
  BY <1>1 DEF Init, LapsedInv, Scanning
<1>4. PrintInv
  BY <1>1 DEF PrintInv
<1>5. PartsInv
  BY <1>1 DEF PartsInv
<1>6. CacheInv
  BY DEF Init, CacheInv, IsStored
<1>7. CoverInv
  BY <1>1 DEF Init, CoverInv, Scanning
<1>8. HistoryInv
  BY DEF Init, HistoryInv
<1>. QED
  BY <1>1, <1>2, <1>3, <1>4, <1>5, <1>6, <1>7, <1>8 DEF CollectInv

\* Every step keeps the invariant.
LEMMA CollectStep == CollectInv /\ [Next]_vars => CollectInv'
BY TypeStep, EvidenceStep, LapsedStep, PrintStep, PartsStep, CacheStep, CoverStep, HistoryStep
   DEF CollectInv

\* The invariant of the inventory cycle: types, the age of the evidence, what
\* the fingerprints and the stored results vouch for, which packages have
\* lapsed, and what the history keeps.
THEOREM Inductive == Spec => []CollectInv
<1>. QED
  BY CollectInit, CollectStep, PTL DEF Spec

\* Every variable of the inventory cycle holds a value of its kind; what is
\* stored in the cache is complete.
THEOREM TypeCorrect == Spec => []TypeOK
<1>1. CollectInv => TypeOK
  BY DEF CollectInv
<1>. QED
  BY <1>1, Inductive, PTL

\* A collector whose source is recorded as complete owes the package.
LEMMA CompleteOwes ==
  ASSUME TypeOK, PartsInv, NEW p \in Packages, SourceOf[p] \in CompleteSources
  PROVE  \E q \in scan.parts : q.kind = KindOf(p) /\ Owes(host, q.result, p)
<1>1. PICK r \in Records : r.source = SourceOf[p] /\ r.status = "complete"
  BY RecordFacts
<1>2. PICK q \in scan.parts : \E s \in q.result.sources :
        r = [source |-> s.source, status |-> s.status, read |-> q.read]
  BY RecordFacts
<1>3. PICK s \in q.result.sources :
        r = [source |-> s.source, status |-> s.status, read |-> q.read]
  BY <1>2
<1>4. s \in SourceStates /\ OwnResult(host, q.kind, q.result)
  BY ScanFacts, PartFacts DEF PartsInv, OwnPart
<1>5. s.source = SourceOf[p] /\ s.status = "complete"
  BY <1>1, <1>3
<1>6. s = Status(SourceOf[p], "complete")
  BY <1>4, <1>5 DEF SourceStates, Status
<1>7. q.kind = KindOf(p)
  BY <1>4, <1>5 DEF OwnResult
<1>. QED
  BY <1>6, <1>7 DEF Owes

\* What a collector of the cycle owes is in the snapshot.
LEMMA OwedIsListed ==
  ASSUME TypeOK, PartsInv, NEW p \in scan.seen \ blurred, NEW q \in scan.parts,
         q.kind = KindOf(p), Owes(host, q.result, p)
  PROVE  p \in Entries
<1>1. Lists(host, q.result, p)
  BY DEF PartsInv, OwnPart
<1>. QED
  BY <1>1, RecordFacts DEF Lists

\* What is called complete lists all there was.
LEMMA AllIsListed ==
  ASSUME TypeOK, PartsInv
  PROVE  \A p \in scan.seen \ blurred : SourceOf[p] \in CompleteSources => p \in Entries
<1>. SUFFICES ASSUME NEW p \in scan.seen \ blurred, SourceOf[p] \in CompleteSources
              PROVE  p \in Entries
  OBVIOUS
<1>1. p \in Packages
  BY ScanFacts
<1>. QED
  BY <1>1, CompleteOwes, OwedIsListed

\* A source that a snapshot calls complete lists every package of the source
\* that was there to be found throughout the cycle, whether the list was
\* collected or taken from the cache.
THEOREM CompleteIsComplete == Spec => []CompleteListsAll
<1>1. CollectInv => CompleteListsAll
  BY AllIsListed DEF CollectInv, CompleteListsAll
<1>. QED
  BY <1>1, Inductive, PTL

\* A snapshot holds what the running agent read, and no longer ago than the
\* refresh interval allows, unless the clock was stepped.
THEOREM EvidenceIsRecent == Spec => []EvidenceIsCurrent
<1>1. CollectInv => EvidenceIsCurrent
  BY DEF CollectInv, EvidenceInv, EvidenceIsCurrent, Recent
<1>. QED
  BY <1>1, Inductive, PTL

\* What some cycle found complete stays in the history and in the reports,
\* unless the history was lost.
THEOREM CompletenessRemembered == Spec => []LastCompleteKept
<1>1. CollectInv => LastCompleteKept
  BY DEF CollectInv, HistoryInv, LastCompleteKept
<1>. QED
  BY <1>1, Inductive, PTL

-----------------------------------------------------------------------------
(* What the server forgets *)

\* A host that keeps its databases elsewhere has one package manager and will
\* not get another.
OneManager(h) == h.relocated => \E m \in Managers : Managers \ {m} \subseteq Lacks(h)

\* Where the databases are, and which managers are lacking, stays as it is.
LEMMA PlacesKept ==
  ASSUME TypeOK, PrintInv, [Next]_vars
  PROVE  host'.relocated = host.relocated /\ Lacks(host') = Lacks(host)
<1>1. CASE HostStep
  BY <1>1, HostStepFacts
<1>2. CASE Quiet
  BY <1>2, QuietFacts DEF machine
<1>3. CASE Scan
  BY <1>3, ScanFields DEF machine
<1>4. CASE Finish
  BY <1>4, FinishFacts DEF machine
<1>5. CASE UNCHANGED vars
  BY <1>5 DEF vars, machine
<1>. QED
  BY <1>1, <1>2, <1>3, <1>4, <1>5, StepKinds

\* Without sources, a snapshot replaces everything: then every collector of the
\* host is complete, and has listed what it owes.
LEMMA AllCompleteListsAll ==
  ASSUME TypeOK, PartsInv, CoverInv, scan.step = "finish", AllComplete, OneManager(host),
         NEW p \in effective, p \in scan.seen \ blurred
  PROVE  p \in Entries
<1>1. Elements(scan.todo) = {}
  BY DEF TypeOK, Elements
<1>2. KindOf(p) \in Mine /\ Native(host.os, p) /\ Mine \subseteq {q.kind : q \in scan.parts}
  BY <1>1 DEF CoverInv, Scanning
<1>3. PICK q \in scan.parts : q.kind = KindOf(p)
  BY <1>2
<1>4. Answers(host, p)
  BY DEF CoverInv, OneManager, Answers
<1>5. Owes(host, q.result, p)
  BY <1>2, <1>3, <1>4 DEF AllComplete, Owes
<1>. QED
  BY <1>3, <1>5, OwedIsListed

\* Only what has lapsed leaves the server's inventory.
LEMMA RemovalStep ==
  ASSUME CollectInv, OneManager(host), [Next]_vars
  PROVE  effective \ effective' \subseteq lapsed \cup blurred
<1>0. TypeOK /\ PrintInv /\ LapsedInv /\ PartsInv /\ CoverInv
  BY DEF CollectInv
<1>1. CASE HostStep
  BY <1>0, <1>1, HostStepFacts DEF server
<1>2. CASE Quiet
  BY <1>0, <1>2, QuietFacts DEF server
<1>3. CASE Scan
  BY <1>0, <1>3, ScanFields DEF server
<1>4. CASE Finish
  <2>. SUFFICES ASSUME NEW p \in effective, p \notin lapsed, p \notin blurred
                PROVE  p \in effective'
    OBVIOUS
  <2>1. scan.step = "finish"
    BY <1>0, <1>4, FinishFacts
  <2>2. p \in scan.seen \ blurred
    BY <1>0, <2>1, StateFacts DEF LapsedInv, Scanning
  <2>3. PICK old \in [Sources -> Time \cup {None}] : Learn(reconciled(old))
    BY <1>0, <1>4, FinishFacts
  <2>4. SourceOf[p] \in CompleteSources => p \in Entries
    BY <1>0, <2>2, AllIsListed
  <2>5. AllComplete => p \in Entries
    BY <1>0, <2>1, <2>2, AllCompleteListsAll
  <2>. QED
    BY <1>0, <2>3, <2>4, <2>5, LearnFacts DEF server
<1>5. CASE UNCHANGED vars
  BY <1>5 DEF vars, server
<1>. QED
  BY <1>0, <1>1, <1>2, <1>3, <1>4, <1>5, StepKinds

\* On hosts with their databases at the standard places, or with one manager, a
\* package leaves the server's inventory only when it could really not be found
\* at some time since the server learnt of it: no failed collector, no stored
\* result, no restart and no change of the schema in the middle of a cycle
\* removes one.
THEOREM NothingManufactured ==
  (\A h \in Hosts : OneManager(h)) => (Spec => NoManufacturedRemoval)
<1>. SUFFICES ASSUME \A h \in Hosts : OneManager(h) PROVE Spec => NoManufacturedRemoval
  OBVIOUS
<1>. DEFINE Inv == CollectInv /\ OneManager(host)
<1>1. Init => Inv
  BY CollectInit DEF Init
<1>2. Inv /\ [Next]_vars => Inv'
  BY CollectStep, PlacesKept DEF CollectInv, OneManager
<1>3. Inv /\ [Next]_vars => effective \ effective' \subseteq lapsed \cup blurred
  BY RemovalStep
<1>. HIDE DEF Inv
<1>4. Inv /\ [Next]_vars => [effective \ effective' \subseteq lapsed \cup blurred]_vars
  BY <1>3
<1>. QED
  BY <1>1, <1>2, <1>4, PTL DEF Spec, NoManufacturedRemoval
=============================================================================
