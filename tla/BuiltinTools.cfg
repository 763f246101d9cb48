SPECIFICATION Spec
CONSTANTS
  long = long
  short = short
  look = look
  list = list
  path = path
  a1 = a1
  a2 = a2
  crlf = crlf
  lf = lf
  bad = bad
  marks = marks
  Absent = Absent
  Unknown = Unknown
  Hole = Hole
  Writes <- MCWrites
  Reads <- MCReads
  Shells <- MCShells
  Patient <- MCShells
  Paths <- MCPaths
  Blocks <- MCBlocks
  Found <- MCFound
  Shown <- MCShown
  Target <- MCTarget
  Content <- MCContent
  MaxBlocks = 1
INVARIANTS WritesAreKept ReadsAreTrue LongReadsAreRaces ProcessesEndWithAnswers
