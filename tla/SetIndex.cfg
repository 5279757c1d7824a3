CONSTANTS
  Ways = 3
  Hashes = {1, 2, 3}
  p1 = p1
  p2 = p2
  p3 = p3
  Responses = {p1, p2, p3}
  MaxReads = 2
SPECIFICATION Spec
SYMMETRY ResponseSymmetry
INVARIANT WritersApart
PROPERTY IsLru
