----------------------------- MODULE MCForwarder -----------------------------
(***************************************************************************)
(* Instances of Forwarder for TLC.                                         *)
(***************************************************************************)
EXTENDS Forwarder, TLC

StreamSymmetry == Permutations(Stream)
=============================================================================
