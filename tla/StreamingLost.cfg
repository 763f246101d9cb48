SPECIFICATION Spec
CONSTANTS
  s1 = s1
  s2 = s2
  r1 = r1
  Streams <- MCStreams
  Plain <- MCPlain
  MaxEvents <- MCMaxEvents
INVARIANTS StreamComplete
