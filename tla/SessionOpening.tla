---------------------------- MODULE SessionOpening ----------------------------
(***************************************************************************)
(* What a handshake promises its two callers, TunnelClient and VpnServer,  *)
(* who treat it as one call that returns or raises: each side ends once,   *)
(* and the client has a session only if the server opened that session     *)
(* first, between parties that hold each other's keys.                     *)
(***************************************************************************)
VARIABLES
  trusts,  \* the sides that have the right public key of the other
  client,  \* what came of client_handshake
  server   \* what came of server_handshake

Side == {"client", "server"}

Outcome == {"pending", "session", "failed"}

Init ==
  /\ trusts \in SUBSET Side
  /\ client = "pending" /\ server = "pending"

ServerEnds ==
  /\ server = "pending"
  /\ \/ server' = "session" /\ trusts = Side
     \/ server' = "failed"
  /\ UNCHANGED <<trusts, client>>

ClientEnds ==
  /\ client = "pending"
  /\ \/ client' = "session" /\ server = "session"
     \/ client' = "failed"
  /\ UNCHANGED <<trusts, server>>

Next == ServerEnds \/ ClientEnds

Spec == Init /\ [][Next]_<<trusts, client, server>>
=============================================================================
