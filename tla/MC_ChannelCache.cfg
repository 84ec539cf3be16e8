SPECIFICATION LiveSpec
CONSTANTS
  r1 = r1
  r2 = r2
  c1 = c1
  c2 = c2
  list = list
  cool = cool
  Readers = {r1, r2}
  Writers = {w1}
  Channels = {c1, c2}
  List = list
  Cooldowns = {cool}
  Asks <- ListAndKeys
  MaxWrites = 1
INVARIANTS
  StaleOnlyWhileOwed
  ReadsAreSettled
PROPERTIES
  LookupsReturn
