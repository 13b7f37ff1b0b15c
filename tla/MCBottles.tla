----------------------------- MODULE MCBottles -----------------------------
(* Instances of Bottles for TLC: two packages that share a file, the first *)
(* with two versions.                                                      *)
EXTENDS Bottles, TLC

TwoPackages ==
  "app" :> {<<"exe", "lnk">>, <<"exe">>} @@ "tool" :> {<<"exe", "dll">>}

BottleSymmetry == Permutations(Bottles)
=============================================================================
