CONSTANTS
  app = app
  sys = sys
  svc = svc
  user = user
  System = System
  Application = Application
  s0 = s0
  s1 = s1
  s2 = s2
  s3 = s3
  s4 = s4
  s5 = s5
  a1 = a1
  a2 = a2
  a3 = a3
  a4 = a4
  None = None
  Process = Process
  Thread = {app, sys, svc, user}
  Object = {System, Application}
  TimesOut = {Application}
  Work = {s0, s1, s2, s3, s4, s5, a1, a2, a3, a4}
  Sync = {s0, s1, s2, s3, s4, s5}
  Boot = app
  Service = svc
  User = user
  OneShot = FALSE
  MaxExpiries = 1
  Owner <- MCOwner
  QueueSize <- MCQueueSize
  On <- MCOn
  Body <- MCBody
  Main <- MCMain
  Background <- MCBackground
  Callback <- MCCallback
SPECIFICATION FairSpec
INVARIANTS MessagesOwned AnswersAreTrue
PROPERTIES SerialisedIfBootCallsFirst EveryWaitEnds
CHECK_DEADLOCK FALSE
