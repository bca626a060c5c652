----------------------------- MODULE MCHandshake -----------------------------
(***************************************************************************)
(* Instances of Handshake for TLC.                                         *)
(***************************************************************************)
EXTENDS Handshake

\* On either side of MaxDrift, and beyond what any delay here can make up for.
Skews == -4..4
=============================================================================
