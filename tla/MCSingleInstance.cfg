SPECIFICATION GFairSpec
CONSTANT Process = {p1, p2, p3}
INVARIANT InstanceInv
PROPERTY LaunchEnds SignalIsHeard
