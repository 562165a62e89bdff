SPECIFICATION Spec
CONSTANTS
  k1 = k1
  k2 = k2
  d1 = d1
  d2 = d2
  p1 = p1
  Bases = {k1, k2}
  Scope = {k1}
  Documents = {d1, d2}
  BaseOf <- MCBaseOf
  MaxVersions = 2
  Pages = {p1}
  PageBaseOf <- MCPageBaseOf
  Claims <- MCClaims
  Calls = {c1, c2}
  MaxSources = 2
  MaxChanges = 2
INVARIANTS
  SourcesWereServed
  OneVersionPerAnswer
  ClaimsMatchTheirPage
  MarkersResolve
SYMMETRY Symmetry
CHECK_DEADLOCK FALSE
