SPECIFICATION Spec
CHECK_DEADLOCK FALSE
CONSTANTS
  q = q
  p = p
  made = made
  read = read
  Request = {q}
  Policy = {p, made}
  PolicyOf <- MCPolicyOf
  Permission = {read}
  Granted = {read}
  Posted <- MCPosted
  Update <- MCUpdate
  Handler = {h1, h2}
  Nobody = Nobody
  MaxEdits = 2
  MaxCrashes = 1
  MaxFaults = 1
PROPERTIES
  RequestsFinal
