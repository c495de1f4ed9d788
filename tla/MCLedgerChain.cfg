\* Two sessions, two journals of a pair, a reversal note and a roll-back.
SPECIFICATION Spec
CHECK_DEADLOCK FALSE
SYMMETRY Interchangeable
CONSTANTS
  Journals = {j1, j2}
  Notes = {n1}
  Sessions = {s1, s2}
  Pairs = 1
  MaxAborts = 1
INVARIANTS
  Rooted
  BookSumsToZero
