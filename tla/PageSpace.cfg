CONSTANTS
  kPageSize = 5
  kNumLists = 2
  VMPageSize = 1
  Width = 6
  max_capacity_ = 10
  NumPages = 3
  Sizes = {1, 2, 3, 4, 31}
SPECIFICATION Spec
INVARIANT PSTypeOK Tiled FreeListsExact ObjectsIntact AccountingExact
  FailsOnlyWhenFull
PROPERTY VisitComplete
