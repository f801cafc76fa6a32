SPECIFICATION Spec
CONSTANTS
  Bytes = {b1, b2}
  Junk = junk
  NoBytes = nobytes
  Slots = {s1, s2}
  NoSlot = noslot
  MaxFaults = 2
SYMMETRY Symmetry
INVARIANTS TypeOK NoSaveLost OnlyWholeSaves
PROPERTIES TakenIsBackedUp ActsOnThePlan
