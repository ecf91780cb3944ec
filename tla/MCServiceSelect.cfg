CONSTANTS
  s1 = s1
  s2 = s2
  s3 = s3
  AllServices = AllServices
  Single = Single
  NotYet = NotYet
  Nit = Nit
  Services = {s1, s2, s3}
  Streams = {0}
  Pats <- MCPats
  Requests <- MCRequests
  Leftovers <- MCLeftovers
  MaxServices = 2
  CounterMod = 3
  MaxChunk = 2
  MaxChanges = 1
SPECIFICATION Spec
INVARIANTS
  EachServed
PROPERTIES
  EachGetsItsOwn
  PatsAreRewritten
