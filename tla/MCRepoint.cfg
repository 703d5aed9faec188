CONSTANTS
  a = a
  b = b
  x = x
  y = y
  None = None
  Plugins = {a}
  Tools = {x}
  Offers <- LoneOffers
  Policy <- LonePolicy
  Unix = {}
  Calls = {}
  Commands = {"spawn"}
  MaxProcs = 3
  MaxCommands = 1
  MaxFaults = 0
  FeedCap = 2
SPECIFICATION FairSpec
PROPERTIES
  RepointSettles
CHECK_DEADLOCK FALSE
