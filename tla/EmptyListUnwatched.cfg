\* A selector with an explicitly empty list of namespaces, which the documentation
\* says stands for all of them: the watch lets no PVC through.
SPECIFICATION Spec
CONSTANTS
  p1 = p1
  p2 = p2
  PVCs <- OnePVC
  Namespaces <- TwoNamespaces
  Keys <- OneKey
  Values <- TwoValues
  NoValue = ""
  Nil = Nil
  Selectors <- EmptyList
  Labellings <- SomeLabels
INVARIANTS SelectedAsMeant
