\* The selector of the documentation's example, which names two namespaces.
SPECIFICATION Spec
CONSTANTS
  p1 = p1
  p2 = p2
  PVCs <- OnePVC
  Namespaces <- TwoNamespaces
  Keys <- OneKey
  Values <- TwoValues
  NoValue = ""
  Nil = Nil
  Selectors <- ExampleSelectors
  Labellings <- SomeLabels
INVARIANTS SelectedAsMeant
