CONSTANTS
  i1 = i1  i2 = i2  i3 = i3
  n1 = n1
  r1 = r1  r2 = r2  r3 = r3  r4 = r4
  NoRequest = NoRequest  NoNonce = NoNonce  NoId = NoId
  Ids = {i1, i2, i3}
  Requests = {r1, r2, r3, r4}
  Nonces = {n1}
  IdOf <- MCIdOf
  NonceOf <- MCNonceOf
  Foreign = {}
  Legacy = {r4}
  Capacity = 2
  Stamps = {1, 2}
  MaxCrashes = 2
SPECIFICATION Spec
INVARIANT OneActiveTask
CHECK_DEADLOCK FALSE
