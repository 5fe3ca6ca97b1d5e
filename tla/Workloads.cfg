\* A Deployment and a StatefulSet, three incarnations, so that one is replaced; two pods,
\* so that both lead to one workload, to two, or nowhere; one fault.
CONSTANTS
  d = d  s = s  r1 = r1  r2 = r2  r3 = r3  p1 = p1  p2 = p2
  Nothing = Nothing  Other = Other  NoSize = NoSize
  Workloads <- DeploymentAndStatefulSet
  KindOf <- TheirKinds
  ReplicaSets <- SomeReplicaSets
  ControllerOf <- TheirControllers
  Pods <- TwoPods
  Sizes = {0, 2, NoSize}
  Faults = {"lookup", "find", "patch", "resize", "overtake"}
  MaxFaults = 1
  MaxUid = 3
SPECIFICATION Spec
INVARIANTS TypeOK FoundOnce SizesReturn
PROPERTIES StrangersUntouched
