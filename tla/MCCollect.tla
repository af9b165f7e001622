----------------------------- MODULE MCCollect -----------------------------
(* A Linux host with two managers' packages and a JDK, one whose database  *)
(* is relocated, a Mac and a Windows machine with a signed-in user.        *)
EXTENDS Collect

Source == [deb |-> "dpkg", jdk |-> "java", app |-> "mac_bundle", formula |-> "brew",
           module |-> "npm", tool |-> "winreg", own |-> "msi", fix |-> "kb", wheel |-> "pip"]
Pkgs == DOMAIN Source
Users == {"own"}

Host(os, pkgs, closed, moved) ==
    [os |-> os, relocated |-> moved,
     pkg |-> [p \in Pkgs |-> IF p \in pkgs THEN "good" ELSE "gone"],
     area |-> [a \in Areas |-> IF a \in closed THEN "absent" ELSE "open"]]

Machines ==
    {Host("linux", {"deb", "jdk"}, {"rpm", "pacman"}, FALSE),
     Host("linux", {"deb", "jdk"}, {"rpm", "pacman"}, TRUE),
     Host("macos", {"app", "formula", "module"}, {}, FALSE),
     Host("windows", {"tool", "own", "fix", "wheel"}, {}, FALSE)}

Order == [linux |-> <<"platform", "java">>, macos |-> <<"platform", "nodejs">>,
          windows |-> <<"platform", "python">>]

Moving == [linux |-> {"deb", "jdk", "dpkg"},
           macos |-> {"app", "apps", "casks"},
           windows |-> {"own", "profile", "wheel", "discovery"}]
=============================================================================
