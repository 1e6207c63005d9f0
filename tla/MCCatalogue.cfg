SPECIFICATION CatalogueSpec
CONSTANTS
  Readers = {r1, r2}
  Editors = {e1, e2}
  TTL = 2
  FetchLimit = 1
  Images = {i1}
  Nothing = Nothing
SYMMETRY Symmetry
INVARIANTS
  CatalogueTypeOK
  BoundedStaleness
  FreshUnlessExcused
PROPERTY OnlyNamedColumnsChange
