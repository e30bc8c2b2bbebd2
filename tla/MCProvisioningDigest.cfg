SPECIFICATION Spec
CONSTANTS
  Images = {a, b}
  Versions = {v1}
  Cloud = Cloud
  NoFile = NoFile
INVARIANT PulledImageIsServed
