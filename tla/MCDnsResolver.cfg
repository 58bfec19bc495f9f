SPECIFICATION Spec
CONSTANTS
  r1 = r1
  r2 = r2
  r3 = r3
  a4 = a4
  b4 = b4
  c4 = c4
  local = local
  bad = bad
  Requests <- MCRequests
  Questions <- MCQuestions
  Calls <- MCCalls
  Immediate = {local}
  Refused = {bad}
  Nothing = Nothing
  NoReq = NoReq
  TableSize = 2
  Servers = 2
  MaxRetries = 2
  TxIds = {1, 2}
  TtlMax = 1
  AgeModulus = 3
INVARIANTS
  TypeOK
  RequestsBacked
  PcbsBalance
PROPERTIES
  ImplementsResolver
