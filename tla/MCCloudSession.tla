---------------------------- MODULE MCCloudSession ----------------------------
(***************************************************************************)
(* Small instances of CloudSession.  What the application, the cloud and    *)
(* the link do is bounded by budgets; the event loop is not.                *)
(***************************************************************************)
EXTENDS CloudSession, TLC

CONSTANTS
  Starts,     \* values of millis() at the start
  Budgets     \* how many of each kind of step there may be

VARIABLE left

CONSTANTS h1, h2, h3, k1, k2
AllHandlers == {h1, h2, h3}
AllKeys == {k1, k2}
Symmetry == Permutations(Handlers) \cup Permutations(Keys)

(* Events that wait, are acknowledged and time out; bursts of events; the   *)
(* rest.                                                                    *)
Publishing == {[acked |-> 3, plain |-> 0, fails |-> 0, acks |-> 1, other |-> 0, breaks |-> 0,
                ticks |-> 8],
               [acked |-> 0, plain |-> 3, fails |-> 0, acks |-> 0, other |-> 0, breaks |-> 0,
                ticks |-> 5],
               [acked |-> 1, plain |-> 0, fails |-> 1, acks |-> 0, other |-> 2, breaks |-> 1,
                ticks |-> 4]}

Spend(b) == left[b] > 0 /\ left' = [left EXCEPT ![b] = @ - 1]

MCInit == Init /\ now \in Starts /\ left \in Budgets

MCNext ==
  \/ Spend("acked") /\ \E h \in Handlers, key \in Keys : PublishWithAck(h, key)
  \/ Spend("plain") /\ \E h \in Handlers : PublishNoAck(h) \/ PublishRefused(h)
  \/ Spend("fails") /\ \E h \in Handlers : PublishFails(h) \/ PublishBusy(h)
  \/ (EventLoop \/ UpdateStep \/ Connect \/ Disconnect(FALSE)) /\ UNCHANGED left
  \/ Spend("acks") /\ \E key \in Keys, e \in {"NONE", "NACK"} : Acknowledge(key, e)
  \/ Spend("other") /\ (TimeResponse \/ FirmwareUpdate \/ send_time_request)
  \/ Spend("breaks") /\ Disconnect(TRUE)
  \/ Spend("ticks") /\ Tick

MCSpec == MCInit /\ [][MCNext]_<<vars, left>>
=============================================================================
