--------------------------- MODULE MCNativeUpdate ---------------------------
(* Small instances of NativeUpdate for TLC.                                *)
EXTENDS NativeUpdate

Old == [version |-> 1, sequence |-> 1]
Good == [version |-> 2, sequence |-> 2]
Bad == [version |-> 3, sequence |-> 3]

AllReleases == {Old, Good, Bad}
WorkingReleases == {Old, Good}
=============================================================================
