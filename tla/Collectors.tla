----------------------------- MODULE Collectors -----------------------------
(***************************************************************************)
(* What one pass of the collectors reports of a host: the platform         *)
(* collectors of src/src/inventory/{linux,macos,windows}.rs, the runtime   *)
(* collectors of inventory/runtimes/, and the result type they share       *)
(* (inventory/mod.rs).                                                     *)
(*                                                                         *)
(* A host is a record                                                      *)
(*   os    "linux", "macos" or "windows"                                   *)
(*   pkg   the state of every package:                                     *)
(*           "gone"     not installed                                      *)
(*           "good"     installed, its metadata can be read                *)
(*           "damaged"  installed, its metadata is malformed or unreadable *)
(*           "sealed"   installed, its directory may not be searched       *)
(*   area  what happens when a place is read: it is "open", the read or    *)
(*         the command "fails" (error, timeout, too much output, bad exit  *)
(*         status), or it is "absent".                                     *)
(* A result lists packages; names, versions and messages are left out.     *)
(***************************************************************************)
EXTENDS Naturals, FiniteSets

CONSTANTS
    Packages,   \* every package a host may have
    SourceOf,   \* its source: a function on Packages
    UserScope   \* the Windows packages that live in a user hive

Managers == {"dpkg", "rpm", "pacman"}
Sources == Managers \cup
    {"mac_bundle", "brew", "winreg", "msi", "kb", "pip", "npm", "java"}
Areas == Managers \cup
    {"machine", "profile", "updates", "apps", "brew", "casks",
     "python", "discovery", "nodejs", "java"}

ASSUME CollectorsAssumption ==
    /\ SourceOf \in [Packages -> Sources]
    /\ \A p \in UserScope : p \in Packages /\ SourceOf[p] \in {"winreg", "msi"}

Of(s) == {p \in Packages : SourceOf[p] = s}
In(h, S, states) == {p \in S : h.pkg[p] \in states}
Installed(h) == {p \in Packages : h.pkg[p] # "gone"}

-----------------------------------------------------------------------------
(* CollectorResult *)

Result(entries, complete) ==
    [entries |-> entries, complete |-> complete, sources |-> {}]

Status(s, status) == [source |-> s, status |-> status]

(* A collector that could not read everything is partial, or failed when   *)
(* it read nothing.                                                        *)
with_source(res, s) ==
    [res EXCEPT !.sources = @ \cup
        {Status(s, IF res.complete THEN "complete"
                   ELSE IF res.entries = {} THEN "failed" ELSE "partial")}]

not_applicable(s) ==
    [Result({}, TRUE) EXCEPT !.sources = {Status(s, "not_applicable")}]

failed(s) == [Result({}, FALSE) EXCEPT !.sources = {Status(s, "failed")}]

merge(a, b) ==
    [entries |-> a.entries \cup b.entries,
     complete |-> a.complete /\ b.complete,
     sources |-> a.sources \cup b.sources]

-----------------------------------------------------------------------------
(* Linux *)

(* A package database lies at its standard place when packages of its      *)
(* manager are installed, unless the host keeps its databases elsewhere.   *)
database_present(h, m) == ~h.relocated /\ In(h, Of(m), {"good"}) # {}
AnyDatabase(h) == \E m \in Managers : database_present(h, m)
should_probe_manager(h, m) == database_present(h, m) \/ ~AnyDatabase(h)

(* Managers whose command was found and run, whatever it printed.          *)
Probed(h) == {m \in Managers : should_probe_manager(h, m) /\ h.area[m] # "absent"}

collect_manager(h, m) ==
    IF m \in Probed(h)
    THEN with_source(IF h.area[m] = "open" THEN Result(In(h, Of(m), {"good"}), TRUE)
                     ELSE Result({}, FALSE), m)
    ELSE IF database_present(h, m) THEN failed(m)
    ELSE not_applicable(m)

collect_linux(h) ==
    LET all == merge(collect_manager(h, "dpkg"),
                     merge(collect_manager(h, "rpm"), collect_manager(h, "pacman")))
    IN [all EXCEPT !.complete = @ /\ Probed(h) # {}]

-----------------------------------------------------------------------------
(* macOS *)

(* An application whose Info.plist cannot be seen is passed over; one      *)
(* whose Info.plist cannot be read makes the pass incomplete.              *)
collect_bundles(h) ==
    LET seen == IF h.area["apps"] = "open" THEN Of("mac_bundle") ELSE {}
    IN with_source(Result(In(h, seen, {"good"}),
                          h.area["apps"] # "fails" /\ In(h, seen, {"damaged"}) = {}),
                   "mac_bundle")

(* Formulae and casks are two commands; only the first may be missing.     *)
collect_homebrew(h) ==
    CASE h.area["brew"] = "absent" -> not_applicable("brew")
      [] h.area["brew"] = "fails"  -> with_source(Result({}, FALSE), "brew")
      [] OTHER -> with_source(Result(In(h, Of("brew"), {"good"}),
                                     h.area["casks"] = "open"), "brew")

collect_macos(h) == merge(collect_bundles(h), collect_homebrew(h))

-----------------------------------------------------------------------------
(* Windows *)

Registry == Of("winreg") \cup Of("msi")

(* One uninstall key: an entry that cannot be opened is left out and makes *)
(* the pass incomplete.  A missing key is no failure.                      *)
collect_from_key(h, area, pkgs) ==
    LET seen == IF h.area[area] = "open" THEN pkgs ELSE {}
    IN Result(In(h, seen, {"good"}),
              h.area[area] # "fails" /\ In(h, seen, {"damaged", "sealed"}) = {})

(* A hive that is not loaded is invisible: a gap, and no failed read.      *)
collect_user_scope(h) == collect_from_key(h, "profile", Registry \cap UserScope)
inactive_profiles(h) == h.area["profile"] = "absent"

collect_updates(h) == collect_from_key(h, "updates", Of("kb"))

source_state(s, entries, healthy, gap) ==
    Status(s, IF healthy /\ ~gap THEN "complete"
              ELSE IF entries \cap Of(s) # {} THEN "partial" ELSE "failed")

(* The code also calls a pass that listed nothing and warned of nothing    *)
(* incomplete; a pass that found no update has warned, so that never       *)
(* applies.                                                                *)
collect_windows(h) ==
    LET reg == merge(collect_from_key(h, "machine", Registry \ UserScope),
                     collect_user_scope(h))
        upd == collect_updates(h)
        gap == inactive_profiles(h)
    IN [entries |-> reg.entries \cup upd.entries,
        complete |-> reg.complete /\ upd.complete,
        sources |-> {source_state("winreg", reg.entries, reg.complete, gap),
                     source_state("msi", reg.entries, reg.complete, gap),
                     source_state("kb", upd.entries, upd.complete, FALSE)}]

-----------------------------------------------------------------------------
(* Runtimes *)

(* The packages below a root, and whether the root could be read.          *)
child_dirs(h, area, s) == IF h.area[area] = "open" THEN Of(s) ELSE {}

(* What the three collectors share: unreadable metadata or an unreadable   *)
(* root make the pass incomplete, and a host without the root has no such  *)
(* runtime.  "missed" are the package states the collector takes note of   *)
(* without being able to list them.                                        *)
RuntimePass(h, area, s, missed) ==
    LET dirs == child_dirs(h, area, s)
        res == Result(In(h, dirs, {"good"}),
                      h.area[area] # "fails" /\ In(h, dirs, missed) = {})
    IN IF h.area[area] = "absent" /\ res.complete THEN not_applicable(s)
       ELSE with_source(res, s)

collect_python_dirs(h) == RuntimePass(h, "python", "pip", {"damaged", "sealed"})

(* Roots that could not be searched for site-packages are not read.        *)
collect_python_packages(h) ==
    IF h.area["discovery"] = "open" THEN collect_python_dirs(h)
    ELSE with_source([not_applicable("pip") EXCEPT !.complete = FALSE,
                                                   !.sources = {}], "pip")

collect_nodejs_packages(h) == RuntimePass(h, "nodejs", "npm", {"damaged", "sealed"})

(* A directory in which neither a release file nor a java binary can be    *)
(* seen is taken for an unrelated product.                                 *)
collect_java_runtimes(h) == RuntimePass(h, "java", "java", {"damaged"})

-----------------------------------------------------------------------------
Kinds == {"platform", "python", "nodejs", "java"}

(* The four cached collectors.                                             *)
Pass(h, k) ==
    CASE k = "platform" -> (CASE h.os = "linux"   -> collect_linux(h)
                              [] h.os = "macos"   -> collect_macos(h)
                              [] h.os = "windows" -> collect_windows(h))
      [] k = "python" -> collect_python_packages(h)
      [] k = "nodejs" -> collect_nodejs_packages(h)
      [] k = "java"   -> collect_java_runtimes(h)

KindOf(p) == CASE SourceOf[p] = "pip"  -> "python"
               [] SourceOf[p] = "npm"  -> "nodejs"
               [] SourceOf[p] = "java" -> "java"
               [] OTHER                -> "platform"

(* The fingerprint looks at every metadata file by name, size and time: it *)
(* fails where a directory may not be listed or searched.                  *)
FingerprintBlocked(h, k) ==
    LET mine == {p \in Packages : KindOf(p) = k}
    IN CASE k = "platform" ->
              h.os = "macos" /\ (h.area["apps"] = "fails" \/ In(h, mine, {"sealed"}) # {})
         [] k = "python" ->
              h.area["discovery"] = "open"
              /\ (h.area["python"] = "fails" \/ In(h, mine, {"sealed"}) # {})
         [] OTHER -> h.area[k] = "fails" \/ In(h, mine, {"sealed"}) # {}
=============================================================================
