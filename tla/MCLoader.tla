------------------------------ MODULE MCLoader ------------------------------
(***************************************************************************)
(* The loader of CellarProcess alone, on an instance without modules: what *)
(* a load does that is given any relocation table.                         *)
(***************************************************************************)
EXTENDS ImageLoader

CallersFlags == {{}, {"map", "relocs"}}
NoModules == << >>

(* A load runs on its caller's thread until it returns.                    *)
Spec == LoaderInit /\ [][LoaderStep]_loaderVars /\ WF_loaderVars(LoadStep)

(* "never crashes, never leaks the image, and always reports a typed       *)
(* status" (fuzz_loader.c): every load returns.  It does not for a         *)
(* relocation table with a block so long that the sum of its address and   *)
(* its length wraps, back to a block that has been read (parse_relocs).    *)
LoadReturns == (stage # "idle") ~> (stage = "idle")
=============================================================================
