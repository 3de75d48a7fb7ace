\* Two objects fit a semi-space, and one or two the old generation.
CONSTANTS
  Semi = 4
  OldPlaces = {1, 2}
  NumRoots = 1
  NumWeak = 1
  NumPrologue = 1
  Sizes = {2}
  MaxObjects = 4
  WeakReferences <- ReferenceChains
  NullHandles = FALSE
SPECIFICATION Spec
INVARIANT ToSpaceSuffices CollectorExact ShowsGraph
PROPERTY FinalizedIsDead CollectionsEnd
