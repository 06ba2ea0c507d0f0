------------------------ MODULE MCKircRegistration ------------------------
(* KircRegistration for TLC, with the nicknames and configurations of *)
(* MCKircSession.                                                     *)
EXTENDS KircRegistration

CONSTANT TopNick

MCNicks == 0..TopNick
MCAlternateNick ==
  [n \in MCNicks |-> [k \in 1..MaxNickAttempts |-> IF n < TopNick THEN n + 1 ELSE n]]

Config(s, m) == [sasl |-> s, mech |-> m, pass |-> FALSE, nick |-> 0]
MCConfigs == {Config(FALSE, "plain"), Config(TRUE, "plain"), Config(TRUE, "scram")}
MCCapLists == SUBSET Caps
=============================================================================
