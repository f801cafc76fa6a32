SPECIFICATION FairSpec
CONSTANTS
  Bytes = {b1, b2}
  Junk = junk
  NoBytes = nobytes
  Slots = {s1}
  NoSlot = noslot
  MaxFaults = 2

PROPERTIES AsideReturns
