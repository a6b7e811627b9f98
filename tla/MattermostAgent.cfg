SPECIFICATION Spec
CONSTANTS
  a = a
  b = b
  hubA = hubA
  hubB = hubB
  Users = {a, b}
  Hubs = {hubA, hubB}
  HubOf <- MCHubOf
  Home = Home
  Order <- MCOrder
  None = None
  Writes <- MCWrites
  Limit = 1
  Slots = 1
  Turns = 2
  Attempts = 1
  MaxPosts = 2
  MaxEdits = 1
  MaxLogins = 1
  MaxExpiries = 2
  MaxTrouble = 1
  MaxFaults = 2
INVARIANTS
  LoginLasts
  LinksTrue
  ExactlyOnce
  
CHECK_DEADLOCK FALSE
