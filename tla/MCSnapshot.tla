----------------------------- MODULE MCSnapshot -----------------------------
(* An instance of Snapshot: one Java product in several places and         *)
(* versions, spelled in two ways; a package whose architecture has two     *)
(* spellings; a macOS bundle, which schema 1 relabels, that is found both  *)
(* in the system and in the user's home, by a link; a blank name.          *)
EXTENDS Snapshot, TLC

\* Digits are written before letters, and zeros before other digits.
Run(n) == [digits |-> TRUE, value |-> n, text |-> n - 200]
Padded(n) == [digits |-> TRUE, value |-> n, text |-> n - 300]
Word(n) == [digits |-> FALSE, value |-> 0, text |-> n]

Row(name, source, version, arch, package, instance, location) ==
    [name |-> name, publisher |-> "p", source |-> source, version |-> version,
     arch |-> arch, package |-> package, scope |-> IF source = "java" THEN "runtime" ELSE None,
     instance |-> IF instance = None THEN None ELSE <<"native", instance>>,
     location |-> location, identity |-> None, product |-> None]

Jdk == Row("jdk", "java", <<Run(1), Run(10)>>, "amd64", "rt", "opt17", "opt17")

App == [Row("app", "mac_bundle", <<Run(5), Run(1)>>, None, "bundle", "app", "path")
            EXCEPT !.publisher = None]

RowsDef ==
    {Jdk,
     [Jdk EXCEPT !.publisher = "P", !.arch = "AMD64"],
     [Jdk EXCEPT !.version = <<Run(1), Word(1)>>, !.arch = "x86_64"],
     [Jdk EXCEPT !.version = <<Padded(1), Run(10)>>, !.arch = "x64"],
     Row("JDK", "java", <<Run(1), Run(9)>>, "x86_64", "rt", "opt9", "opt9"),
     Row("jdk", "java", <<Run(99)>>, "x64", "rt", None, "opt99"),
     Row("bash", "dpkg", None, "arm64", None, None, None),
     Row("bash", "dpkg", <<Run(5)>>, "aarch64", None, None, None),
     [App EXCEPT !.scope = "system"],
     [App EXCEPT !.scope = "user", !.location = "home"],
     Row("", "dpkg", <<Run(5)>>, "none", None, None, None)}

LowerDef == ("JDK" :> "jdk") @@ ("P" :> "p") @@ ("AMD64" :> "amd64")
=============================================================================
