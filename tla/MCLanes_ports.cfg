CONSTANTS
  b1 = b1
  b2 = b2
  d1 = d1
  d2 = d2
  a1 = a1
  None = None
  r1 = r1
  Branch = {b1, b2}
  Db = {d1, d2}
  App = {a1}
  On <- OnWhich
  Port = {1, 2, 3, 4}
  Foreign = {1}
  Readers = {r1}
  Slot = {1, 2}
  Attempts = 3
  MaxOps = 5
SPECIFICATION LanesSpec
 
PROPERTY LanesFollow
