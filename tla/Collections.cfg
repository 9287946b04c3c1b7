\* Two requests over two collections and two products.
SPECIFICATION Spec
CONSTANTS
  Requests = {r1, r2}
  Ids = {c1, c2}
  Products = {p1, p2}
  Untitled = Untitled
  t1 = t1
  b0 = b0
  b1 = b1
  Titles = {Untitled, t1}
  Bases = {b0, b1}
  slugify <- SlugifyApart
  spelled <- SpelledAlike
  None = None
  Keep = Keep
  MaxList = 2
  MaxSuffix = 1
  MaxArrivals = 2
SYMMETRY Interchangeable
INVARIANTS
  TypeOK
  KeysHold
  SavedListStays
\* MaxArrivals ends the run.
CHECK_DEADLOCK FALSE
