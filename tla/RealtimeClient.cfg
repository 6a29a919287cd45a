\* The realtime client task against a server that follows the protocol, a
\* consumer that may drop its Receiver, a channel of capacity 1 so that the
\* task blocks, and a server that may drop the socket at any time.
CONSTANTS
  Capacity = 1
  MaxData = 2
  MaxPings = 1
  MaxOthers = 1
  Sids = {u1}
  Ext = Ext
  NoMsg = NoMsg

SPECIFICATION Spec
INVARIANT TypeOK
INVARIANT DeliveredInOrder
INVARIANT SubscriptionsAgree
PROPERTY EveryBlockDelivered
\* The session ends: the task returns or panics, and the server stops.
CHECK_DEADLOCK FALSE
