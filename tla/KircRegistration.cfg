SPECIFICATION RSpec
CONSTANTS
  TopNick = 2
  Caps = {"sasl", "echo-message"}
  CapLists <- MCCapLists
  Nicks <- MCNicks
  AlternateNick <- MCAlternateNick
  ExtraCaps = {}
  Configs <- MCConfigs
  MaxNickAttempts = 3
  MaxMissedPongs = 2
  MaxInbox = 0
  WritesMayFail = FALSE
  NoNick = NoNick
  MaxExtras = 2
INVARIANTS LoggedInBeforeWelcome HandshakeNeverWedges NickAgreement WelcomedKeepsSession
CHECK_DEADLOCK FALSE
