CONSTANTS
  short = short
  long = long
  Sections = {short, long}
  Length <- MCLength
  Stuffing = stuffing
  Payload = 5
  Header = 2
  MaxSection = 10
  CounterMod = 2
  Tables = {"PMT", "EIT"}
  MaxFaults = 3
  MaxNumber = 8
SPECIFICATION Spec
INVARIANTS StaysInSection Genuine OnTime
