CONSTANTS
  m1 = m1
  m2 = m2
  m3 = m3
  m4 = m4
  Members = {m1, m2, m3, m4}
  Crashing = {m3}
  Faulty = {m4}
  DishonestThreshold = 1
  PartialPoints = FALSE
  SurplusReveals = FALSE
SPECIFICATION Spec
INVARIANTS
  
  
  KeySharesAreKnown
