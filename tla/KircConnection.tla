--------------------------- MODULE KircConnection ---------------------------
(***************************************************************************)
(* What one run of the engine promises its user interface: the connection  *)
(* it was started for goes from "connecting" to "online" at most once, and *)
(* to "offline" at most once and for good.  The three phases are the codes *)
(* the bridge publishes for IrcEvent::StateConnecting, ::Registered and    *)
(* ::Disconnected.                                                         *)
(***************************************************************************)
VARIABLE phase

Phases == {"connecting", "online", "offline"}

Init == phase = "connecting"

\* The server accepted the connection.
GoOnline == phase = "connecting" /\ phase' = "online"

\* The connection is over, whoever ended it.
GoOffline == phase # "offline" /\ phase' = "offline"

Next == GoOnline \/ GoOffline

Spec == Init /\ [][Next]_phase

\* A started connection does not hang: it is accepted or given up.
Resolves == phase = "connecting" ~> phase # "connecting"
=============================================================================
