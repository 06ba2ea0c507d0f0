--------------------------- MODULE MCKircSession ---------------------------
(* KircSession for TLC: nicknames 0..TopNick, where the alternative of a taken *)
(* nickname is the next one, and configurations with and without SASL.         *)
EXTENDS KircSession

CONSTANT TopNick

MCNicks == 0..TopNick
MCAlternateNick ==
  [n \in MCNicks |-> [k \in 1..MaxNickAttempts |-> IF n < TopNick THEN n + 1 ELSE n]]

Config(s, m, p) == [sasl |-> s, mech |-> m, pass |-> p, nick |-> 0]
MCConfigs == {Config(FALSE, "plain", FALSE), Config(TRUE, "scram", TRUE)}
MCSasl == {Config(TRUE, "scram", FALSE)}
=============================================================================
