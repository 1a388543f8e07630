\* Two servers, one request of Mozc's and one of the harness at a time, a stranger.
SPECIFICATION Spec
CONSTANTS
  Servers = {s1, s2}
  Mozc = {m1}
  Harness = {h1}
  Strangers = {u1}
  Requests <- SomeRequests
  Lines <- BadLines
  Size = 2
  Parts = 2
  MaxRequests = 1
  Fallback = Fallback
  None = None
INVARIANTS
  OwnsInstance
  CountersAgree
PROPERTIES
  ImplementsRequests
  RequestsEnd
  ServerComesBack
