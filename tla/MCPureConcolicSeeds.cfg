SPECIFICATION Spec
CONSTANTS
  s1 = s1
  s2 = s2
  s3 = s3
  c1 = c1
  c2 = c2
  Seeds = {s1, s2}
  Contents = {c1, c2}
  SeedContent <- MCSeedContent
  Occurs <- MCOccurs
  MaxOutput = 2
  MaxRuns = 3
PROPERTIES
  SeedsAreAnalysed
