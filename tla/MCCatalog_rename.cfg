\* A folder and a file in it, which can change its name and go.
CONSTANTS
  Names = {a, b}
  NoName = NoName
  Volume = Volume
  MaxDepth = 2
  MaxId = 17
  MaxValence = 2
  CounterMod = 4
  Infos = {"old"}
  AttrNames = {1}
SPECIFICATION Spec
INVARIANTS EmptyIsRemovable
