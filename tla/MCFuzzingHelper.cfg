SPECIFICATION Spec
CONSTANTS
  seed = seed
  found = found
  unnamed = unnamed
  NoInput = none
  Files = {seed, found, unnamed}
  WellNamed = {seed, found}
  Meta <- MCMeta
  Edges = {e1}
  MaxTests <- MCMaxTests
INVARIANTS
  TypeOK
  InputsRunOnce
  QueueWitnessesCoverage
  QueuedTestcasesAreNew
  NothingOverlooked
  CrashesAreQueued
  StatsMatch
PROPERTIES
  ResultsAreKept
  InputsAreProcessed
