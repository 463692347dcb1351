CONSTANTS
  App = app
  Thread = {app, sys, worker}
  Callback = {c1, c2}
  None = none
SPECIFICATION FairSpec
INVARIANTS ReadsConstructed AtMostOnce NoCallbackLeft
PROPERTIES OutcomeIsFinal TakenCallbackRuns WaitEnds
