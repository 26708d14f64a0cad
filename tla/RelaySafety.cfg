SPECIFICATION Spec
CONSTANTS
  Conns = {c1, c2}
  Subs = {s1}
  a = a  b = b  here = here  elsewhere = elsewhere
  Channels = {a, b}
  Global = global
  Reqs = {r1, r2}
  Evictor = evictor
  Events = {here, elsewhere}
  TopicOf <- OnA
  Remote = {elsewhere}
  MaxSubs = 1
  Quotas <- Races
  None = None
SYMMETRY Symmetry
CHECK_DEADLOCK FALSE
INVARIANTS TypeOK NoGap CountCoversRegistry InterestIsSubscribed EchoIsSwallowed
