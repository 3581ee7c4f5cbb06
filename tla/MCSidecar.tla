---------------------------- MODULE MCSidecar ----------------------------
(* Two starters that insist on being alone, as Engine::ask does, and one that  *)
(* does not, as Session does; a counter of three bits wraps like one of 64.      *)
EXTENDS Sidecar
=============================================================================
