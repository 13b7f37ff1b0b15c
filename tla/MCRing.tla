------------------------------- MODULE MCRing -------------------------------
(* Instances of SpscRing for TLC. *)
EXTENDS SpscRing

CONSTANTS a, b

TwoBytes == {a, b}
SomeChunks == {<<a>>, <<b, a>>, <<a, b, b>>}
=============================================================================
