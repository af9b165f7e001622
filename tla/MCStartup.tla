----------------------------- MODULE MCStartup -----------------------------
EXTENDS Startup

Settings(scheme, plain, interval) ==
    [scheme |-> scheme, plain |-> plain, interval |-> interval]
NoEnv == Settings(None, None, None)
Config(file, env, key, absolute) ==
    [file |-> file, env |-> env, key_file |-> key, absolute |-> absolute]

(* A good file; one that the environment spoils; one that it repairs, with *)
(* a relative directory, which only a start by hand accepts; a value that  *)
(* does not parse; a key that is missing.                                  *)
Written ==
    LET Https == Settings("https", None, None)
    IN {Config(Https, NoEnv, TRUE, TRUE),
        Config(Https, Settings("http", None, None), TRUE, TRUE),
        Config(Settings("http", "false", 5), Settings(None, "true", 10), TRUE, FALSE),
        Config(Https, Settings(None, "garbage", None), TRUE, TRUE),
        Config(Https, NoEnv, FALSE, TRUE)}
=============================================================================
