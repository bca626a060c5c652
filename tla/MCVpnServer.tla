----------------------------- MODULE MCVpnServer -----------------------------
(***************************************************************************)
(* Instances of VpnServer for TLC.                                         *)
(***************************************************************************)
EXTENDS VpnServer, TLC

CONSTANTS ip1, ip2, ip3

OpenToAll == {Absent}
\* A file that lets three addresses in and keeps the others out.
ThreeAdmitted == {{{ip1, ip2, ip3}, Garbage}}

ThreadSymmetry == Permutations(Thread)
AdmissionSymmetry == ThreadSymmetry \cup Permutations({ip1, ip2, ip3})
=============================================================================
