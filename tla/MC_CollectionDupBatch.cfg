CONSTANTS
  i1 = i1
  i2 = i2
  i3 = i3
  o1 = o1
  o2 = o2
  Ids <- MC_Ids
  Vals <- MC_Vals
  Outs <- MC_Outs
  ParentRows <- MC_ParentRows
  ChildRows <- MC_ChildRows
  NoOrder = NoOrder
  Nil = Nil
  MaxBatch = 3
  DistinctBatches = FALSE
SPECIFICATION Spec
INVARIANT OrderMatchesKeys
