\* Two PVCs that come, go and change their labels under selectors that change.
SPECIFICATION Spec
CONSTANTS
  p1 = p1
  p2 = p2
  PVCs <- TwoPVCs
  Namespaces <- TwoNamespaces
  Keys <- OneKey
  Values <- TwoValues
  NoValue = ""
  Nil = Nil
  Selectors <- SomeSelectors
  Labellings <- SomeLabels
INVARIANTS NothingMissed SelectedWhenSingle
