CONSTANTS
  i1 = i1  i2 = i2  i3 = i3
  n1 = n1
  r1 = r1  r2 = r2  r3 = r3  r4 = r4
  NoRequest = NoRequest  NoNonce = NoNonce  NoId = NoId
  Ids = {i1, i2, i3}
  Requests = {r1, r2, r3, r4}
  Nonces = {n1}
  IdOf <- MCIdOf
  NonceOf <- MCNonceOf
  Foreign = {r4}
  Legacy = {r4}
  Capacity = 2
  Stamps = {1, 2}
  MaxCrashes = 2
SPECIFICATION FairSpec
INVARIANTS
  TypeOK
  LeasedRunsOnce
  ReceiptIsSound
  NoStrandedJob
  NoWorkBesideLingering
PROPERTIES
  SettledIsFinal
  LeasePromise
  CancelSettles
  QueuedIsServed
CHECK_DEADLOCK FALSE
