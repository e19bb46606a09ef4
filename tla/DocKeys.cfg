SPECIFICATION Spec
CONSTANTS
 e1 = e1
 m1 = m1
 i1 = i1
 i2 = i2
 i3 = i3
 i4 = i4
 b1 = b1
 b2 = b2
 p1 = p1
 p2 = p2
 p3 = p3
 nil = nil
 noPort = noPort
 Binding = {b1, b2}
 NoBinding = nil
 SipSlot = {"sip"}
 CallSlot = {"audio"}
 PortsOf <- SlotPorts
 NoPort = noPort
 Outside = {"x1"}
 MaxRetry = 2
 MaxContexts = 2
 MaxLosses = 1
 MaxPending = 1
 Party = {p1, p2, p3}
 NoParty = nil
 MaxLost = 1
 Event = {e1}
 MaxEventRefs = 2
 Message = {m1}
 MsgId = {i1, i2, i3, i4}
 MaxIds = 3
 MaxMessageRefs = 2
 MaxSends = 2
 MaxTransactions = 4
 MaxServers = 2
 MaxNoAck = 1
 Exchange <- AllExchanges
INVARIANT KeysAgree
CHECK_DEADLOCK FALSE
