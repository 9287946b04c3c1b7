\* Two of three requests at a time, over two categories and two products that may
\* collide in either slug.
SPECIFICATION Spec
CONSTANTS
  Requests = {r1, r2}
  Categories = {c1, c2}
  Products = {p1, p2}
  Customers = {u}
  MarkIds = {m1, m2, m3}
  Slugs = {s1, s2}
  None = None
  Keep = Keep
  MaxArrivals = 3
SYMMETRY Interchangeable
INVARIANTS
  TypeOK
  KeysHold
  ReviewsBounded
PROPERTY OrphansAreLate
\* MaxArrivals ends the run.
CHECK_DEADLOCK FALSE
