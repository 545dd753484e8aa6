SPECIFICATION Spec
CONSTANTS
  Callers = {w1}
  Flats = {f1}
  Houses = {h1}
PROPERTIES
  FalseMeansRefused
