SPECIFICATION Spec
CONSTANTS
  None = None
  p1 = p1
  i1 = i1
  g1 = g1
  a = a
  b = b
  lt = lt
  et = et
  c1 = c1
  c2 = c2
  Pubs = {p1}
  Items = {i1}
  PubOf <- MCPubOf
  Contents <- MCContents
  Terms <- MCTerms
  Cats = {a}
  Names = {"n", "m"}
  Gaps = {g1}
  Clients = {c1}
  FirstItems <- MCFirstItems
  FirstCats <- MCFirstCats
  FirstMappings <- MCFirstMappings
  MaxRevisions = 2
  MaxOps = 5
  MaxSnapshots = 2
CHECK_DEADLOCK FALSE
INVARIANT ConversionIsOfMagnitude
