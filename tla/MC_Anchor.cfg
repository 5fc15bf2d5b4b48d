CONSTANTS
  alice = alice
  bob = bob
  alice1 = alice1
  alice2 = alice2
  bob1 = bob1
  Operators = {alice, bob}
  Committers = {alice1, alice2, bob1}
  KeyOf <- MCKeyOf
  Entries = {1, 2}
  MaxCount = 2
  MaxBatches = 2
SPECIFICATION Spec
INVARIANTS TypeOK LinkedHistory NoBorrowedAuthorship
PROPERTY HistoryKept
