--------------------------- MODULE MCShaderCache ---------------------------
(* Instances of ShaderCache for TLC. *)
EXTENDS ShaderCache, TLC

CONSTANTS k1, k2, x, y

TwoKeys == {k1, k2}
TwoPieces == {x, y}
TwoBlobs == {<<x>>, <<y, x>>}

(* The same machine with other flags, and a machine with another driver.   *)
ThreeEnvs ==
  {[gpu |-> 1, driver |-> 1, api |-> 1, flags |-> 0],
   [gpu |-> 1, driver |-> 1, api |-> 1, flags |-> 1],
   [gpu |-> 1, driver |-> 2, api |-> 1, flags |-> 0]}

KeySymmetry == Permutations(Keys)
=============================================================================
