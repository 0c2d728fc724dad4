CONSTANTS
  i1 = i1  i2 = i2
  n1 = n1
  r1 = r1  r2 = r2
  NoRequest = NoRequest  NoNonce = NoNonce  NoId = NoId
  Ids = {i1, i2}
  Requests = {r1, r2}
  Nonces = {n1}
  IdOf <- MCIdOf
  NonceOf <- MCNonceOf
  Foreign = {}
  Legacy = {}
  Capacity = 1
  Stamps = {1}
  MaxCrashes = 1
  Callers = {r1}
  Attempts = 2
SPECIFICATION ClientSpec
INVARIANTS
  ConfirmedIsKnown
CHECK_DEADLOCK FALSE
