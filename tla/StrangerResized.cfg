\* A Deployment that is deleted and created again between Get and Patch of the scale-up.
CONSTANTS
  d = d  s = s  r1 = r1  r2 = r2  r3 = r3  p1 = p1  p2 = p2
  Nothing = Nothing  Other = Other  NoSize = NoSize
  Workloads <- OneDeployment
  KindOf <- TheirKinds
  ReplicaSets <- SomeReplicaSets
  ControllerOf <- TheirControllers
  Pods <- TwoPods
  Sizes = {2, NoSize}
  Faults = {"overtake"}
  MaxFaults = 1
  MaxUid = 2
SPECIFICATION Spec
PROPERTIES NoStrangerResized
