SPECIFICATION FairSpec
CONSTANTS
  Requests = {r1}
  Dispatchers = {d1, d2}
  Owners = {"outbox-dispatcher"}
  OwnerOf <- SameOwner
  Batch = 1
  MaxAttempts = 2
  MaxLease = 3
  Msgs = {m1}
  Bodies = {b1, b2}
  None = none
INVARIANT DeliveryAgrees
INVARIANT OneReceiptPerMessage
INVARIANT SentMeansAccepted
INVARIANT LeaseExclusive
PROPERTY NeverGoesBack
PROPERTY DeliverySettles
PROPERTY CallbackStored
