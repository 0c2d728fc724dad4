CONSTANTS
  Transports = {"restricted"}
  MaxDeliveries = 0
SPECIFICATION LeaseSpec
INVARIANTS
  ReceiptMeansReleased
CHECK_DEADLOCK FALSE
