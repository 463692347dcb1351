------------------------------- MODULE MCCoAP -------------------------------
(***************************************************************************)
(* Model checking of CoAPChannel: a budget bounds the requests the device   *)
(* and the cloud make and the new sessions; left is what remains of it.     *)
(* The clock starts shortly before it wraps and stands still while nothing  *)
(* depends on it.                                                           *)
(***************************************************************************)
EXTENDS CoAPChannel

CONSTANT Budgets

VARIABLE left

Budget(sends, requests, sessions) ==
  [sends |-> sends, requests |-> requests, sessions |-> sessions]
SmallBudgets == {Budget(2, 0, 0), Budget(1, 1, 0), Budget(1, 0, 1), Budget(0, 1, 1)}

MCInit == Init /\ now = TickMod - 3 /\ left \in Budgets

Use(what) == left[what] > 0 /\ left' = [left EXCEPT ![what] = @ - 1]

MCTick == /\ DOMAIN client # {} \/ DOMAIN server # {} \/ link # {}
          /\ Tick

MCNext ==
  \/ (Send \/ SendSynchronous \/ SendNonConfirmable) /\ Use("sends")
  \/ Establish /\ Use("sessions")
  \/ (\E id \in CloudIds : CloudRequest(id)) /\ Use("requests")
  \/ (SyncTurn \/ SyncReturn \/ ReceiveAny \/ MCTick) /\ UNCHANGED left
  \/ (\E id \in CloudIds : Respond(id)) /\ UNCHANGED left

MCSpec == MCInit /\ [][MCNext]_<<vars, left>>
MCFairSpec == MCSpec /\ WF_vars(ReceiveAnswer) /\ WF_vars(SyncTurn) /\ WF_vars(SyncReturn)
                     /\ WF_vars(MCTick)
=============================================================================
