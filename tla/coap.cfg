CONSTANTS
  TickMod = 8
  IdMod = 3
  CloudIds = {1}
  ACK_TIMEOUT = 1
  MAX_RETRANSMIT = 1
  MAX_TRANSMIT_SPAN = 2
  MaxLag = 2
  Budgets <- SmallBudgets
SPECIFICATION MCFairSpec
INVARIANTS HandledOnce TransmissionsBounded ConfirmedIsDelivered NoDanglingHandler
PROPERTIES ResentUntilAnswered EverySendSettles
