\* A fork of more extents than its record holds.
CONSTANTS
  DataFiles = {f1, f2}
  NoFile = NoFile
  Zero = Zero
  InlineMax = 2
  BlockUnits = 2
  MapBits = 5
  Reach = 9
  FirstTotal = 9
  GrowTotals = {}
  FirstNext = {2}
  Sizes <- SomeSizes
  Writes <- SomeWrites
  Clump = 2
SPECIFICATION Spec
SYMMETRY Symmetry
INVARIANT ExtentsConsistent
