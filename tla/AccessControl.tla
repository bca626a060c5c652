---------------------------- MODULE AccessControl ----------------------------
(***************************************************************************)
(* The address whitelist of server/access_control.py.  An entry of the     *)
(* file is a network, abstracted to the set of addresses it contains (a    *)
(* single address is a network of one), or Garbage, a line that            *)
(* ipaddress.ip_network refuses.  Comments and blank lines are no entries. *)
(***************************************************************************)
CONSTANTS
  Garbage,    \* an entry that does not parse
  Absent      \* the value of whitelistFile when there is no such file

VARIABLES
  whitelistFile,  \* the entries on disk, or Absent
  networks        \* _networks

\* reload: a missing file and a file without a valid entry both load nothing.
Loaded(file) == IF file = Absent THEN {} ELSE file \ {Garbage}

\* is_allowed: an empty whitelist lets everybody in.
IsAllowed(i) == networks = {} \/ \E n \in networks : i \in n
=============================================================================
