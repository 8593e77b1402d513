\* Two names on two levels, two files or folders in the life of a volume.
CONSTANTS
  Names = {a, b}
  NoName = NoName
  Volume = Volume
  MaxDepth = 2
  MaxId = 17
  MaxValence = 2
  CounterMod = 4
  Infos = {"old", "new"}
  AttrNames = {1, 2}
SPECIFICATION Spec
SYMMETRY Symmetry
INVARIANTS TypeOK OneTornEntry CountsExact AttributesOwned
PROPERTIES ImplementsNamespace
