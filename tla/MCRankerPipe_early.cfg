\* A server and one request of Mozc's that is quick to open the pipe.
SPECIFICATION Spec
CONSTANTS
  Servers = {s1}
  Mozc = {m1}
  Harness = {}
  Strangers = {}
  Requests <- ExplicitRequest
  Lines = {}
  Size = 2
  Parts = 1
  MaxRequests = 1
  Fallback = Fallback
  None = None
PROPERTIES
  EarlyClientIsServed
