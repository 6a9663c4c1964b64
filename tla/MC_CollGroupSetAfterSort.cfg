CONSTANTS
  i1 = i1
  i2 = i2
  i3 = i3
  o1 = o1
  o2 = o2
  g1 = g1
  g2 = g2
  Ids <- MC_Ids
  Vals <- MC_Vals
  Outs <- MC_Outs
  GKeys <- MC_GKeys
  NoOrder = NoOrder
  Nil = Nil
  MaxBatch = 3
  DistinctBatches = TRUE
SPECIFICATION GroupSpec
INVARIANT GroupOrderMatchesKeys
