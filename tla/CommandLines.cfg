CONSTANTS
  Sources = {1, 2, 3}
  Traits <- SomeTraits
  Invocations = {"a", "b", "c"}
  Plans <- SomePlans
  Roots = {"project", "home"}
  Digest <- SomeDigests
  CommandLines <- Lines
  Policies <- SomePolicies
  Declared <- SomeDeclared
  Disks <- AllDisks
SPECIFICATION Spec
INVARIANTS
  ExactlyOneShard AnalysedAsCompiled PolicyHeard NearestDatabase
CHECK_DEADLOCK FALSE
