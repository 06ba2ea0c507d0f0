--------------------------- MODULE MCKircReconnect ---------------------------
(* KircReconnect for TLC: reconnecting is on; an even and an odd limit, and none. *)
EXTENDS KircReconnect

MCPrefs ==
  [reconnect : {TRUE}, reconnectLimit : {0, 2, 3},
   reconnectAfterAuthFailure : BOOLEAN, identifyOnConnect : BOOLEAN]
=============================================================================
