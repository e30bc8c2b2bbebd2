SPECIFICATION Spec
CONSTANTS
  c1 = c1
  c2 = c2
  c3 = c3
  k1 = k1
  k2 = k2
  Clients = {c1, c2, c3}
  KeyOf <- MCKeyOf
  V2 = {c3}
  MaxRestarts = 1
  WholeIndex = FALSE
  NoOne = NoOne
PROPERTY SavedSurvives
