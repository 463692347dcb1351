SPECIFICATION MCSpec
CONSTANTS
  h1 = h1
  h2 = h2
  h3 = h3
  Handlers <- AllHandlers
  k1 = k1
  k2 = k2
  Keys <- AllKeys
  TickMod = 16
  Second = 2
  RingSize = 3
  Minute = 4
  MaxPerMinute = 2
  SEND_EVENT_ACK_TIMEOUT = 3
  ping_interval = 2
  ping_timeout = 4
  MaxLag = 1
  Starts = {13}
  Budgets <- Publishing
SYMMETRY Symmetry
INVARIANTS CompletedOnce RemainingIsExact BurstLimited TimesOutInTime SilentLinkIsProbed
