SPECIFICATION Spec
CONSTANTS
  TopNick = 0
  Caps = {"sasl", "echo-message"}
  CapLists = {{}, {"sasl"}, {"echo-message"}, {"sasl", "echo-message"}}
  Nicks <- MCNicks
  AlternateNick <- MCAlternateNick
  ExtraCaps = {}
  Configs <- MCConfigs
  MaxNickAttempts = 2
  MaxMissedPongs = 2
  MaxInbox = 0
  WritesMayFail = TRUE
INVARIANTS TypeOK DisconnectedOnce WelcomeIsFinal NoFalseTimeout SilenceIsBounded
PROPERTIES SilentAfterDisconnected ImplementsConnection
CHECK_DEADLOCK FALSE
