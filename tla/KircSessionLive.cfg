SPECIFICATION FairSpec
CONSTANTS
  TopNick = 0
  Caps = {"sasl", "echo-message"}
  CapLists = {{"sasl", "echo-message"}}
  Nicks <- MCNicks
  AlternateNick <- MCAlternateNick
  ExtraCaps = {}
  Configs <- MCSasl
  MaxNickAttempts = 1
  MaxMissedPongs = 2
  MaxInbox = 2
  WritesMayFail = TRUE
PROPERTIES RegistrationResolves QuitIsHonoured DroppedUiEnds DeafPeerDetected
CHECK_DEADLOCK FALSE
