CONSTANTS
  a = a
  b = b
  x = x
  y = y
  None = None
  Plugins = {a, b}
  Tools = {x, y}
  Offers <- SharedOffers
  Policy <- Policies
  Unix = {b}
  Calls = {1}
  Commands = {"spawn", "kill", "reload"}
  MaxProcs = 3
  MaxCommands = 1
  MaxFaults = 1
  FeedCap = 2
SPECIFICATION FairSpec
INVARIANTS
  RegistryIsBacked
  RouterAgrees
PROPERTIES
  CallIsAnswered
  AlwaysComesBack
CHECK_DEADLOCK FALSE
