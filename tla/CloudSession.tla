----------------------------- MODULE CloudSession -----------------------------
(***************************************************************************)
(* The device's side of a session with the cloud: the parts of              *)
(* communication/src/protocol.h, publisher.h, ping.h and timesyncmanager.h  *)
(* that publish events, keep the link alive and ask for the time, over the  *)
(* map of completion handlers of published events.                          *)
(*                                                                          *)
(* The event loop itself, the dispatch of messages and begin()              *)
(* (protocol.cpp) are not in the repository: what they call is modelled     *)
(* from the interfaces they use.                                            *)
(***************************************************************************)
EXTENDS CompletionHandlers

CONSTANTS
  Second,                   \* the window of the rate limit
  RingSize,                 \* length of recent_event_ticks
  Minute,                   \* the window of the rate limit of system events
  MaxPerMinute,             \* and its limit
  SEND_EVENT_ACK_TIMEOUT,
  ping_interval, ping_timeout,
  MaxLag                    \* the event loop comes round at least this often

ASSUME RateAssumption ==
  /\ RingSize \in Nat \ {0, 1} /\ Second \in 1 .. TickMod - 1
  /\ Minute \in Nat \ {0} /\ MaxPerMinute \in Nat \ {0}
ASSUME TimeAssumption ==
  /\ ping_interval \in Nat /\ ping_timeout \in Nat /\ MaxLag \in 1 .. TickMod - 2
  /\ SEND_EVENT_ACK_TIMEOUT \in 1 .. TickMod - 2

VARIABLES
  now,                       \* millis()
  lag,                       \* ticks since the event loop last came round
  connected,
  updating,                  \* chunkedTransfer.is_updating()
  recent_event_ticks, evt_tick_idx,
  lastMinute, eventsThisMinute,
  last_message_millis, expecting_ping_ack,
  last_ack_handlers_update,
  expectingResponse,         \* TimeSyncManager: a time request is pending
  accepted,                  \* ages of the events let through in the last second
  age                        \* ticks since each handler's event was published

rvars == <<recent_event_ticks, evt_tick_idx, accepted, lastMinute, eventsThisMinute>>
pvars == <<last_message_millis, expecting_ping_ack>>
svars == <<connected, updating, last_ack_handlers_update, expectingResponse>>
tvars == <<now, lag, age>>
vars == <<hvars, rvars, pvars, svars, tvars>>

-----------------------------------------------------------------------------
(* Publishing.  is_rate_limited records the attempt and answers whether the *)
(* event is refused; the three ways it can go are Admit, AdmitSystem and    *)
(* Refuse.                                                                  *)

(* Mutant: the new event is compared with the one whose place it takes. *)
TooFastByOne == (now - recent_event_ticks[evt_tick_idx]) % TickMod < Second

(* The entry after the one for the new event is the oldest. *)
TooFast ==
  (now - recent_event_ticks[(evt_tick_idx + 1) % RingSize]) % TickMod < Second

(* Every attempt of the application takes a place, a refused one too. *)
TakePlace ==
  /\ recent_event_ticks' = [recent_event_ticks EXCEPT ![evt_tick_idx] = now]
  /\ evt_tick_idx' = (evt_tick_idx + 1) % RingSize
  /\ UNCHANGED <<lastMinute, eventsThisMinute>>

currentMinute == now \div Minute

SystemTooFast == currentMinute = lastMinute /\ eventsThisMinute = MaxPerMinute

Admit == ~TooFast /\ TakePlace /\ accepted' = Append(accepted, 0)

AdmitSystem ==
  /\ ~SystemTooFast
  /\ lastMinute' = currentMinute
  /\ eventsThisMinute' = IF currentMinute = lastMinute THEN eventsThisMinute + 1 ELSE 1
  /\ UNCHANGED <<recent_event_ticks, evt_tick_idx, accepted>>

Refuse ==
  \/ TooFast /\ TakePlace /\ UNCHANGED accepted
  \/ SystemTooFast /\ UNCHANGED rvars

Finish(h, error) ==
  /\ outcome' = Complete({h}, error)
  /\ UNCHANGED <<handlers, timeoutTicks, ticks, pos, calling, waited, timeout>>

(* The application publishes between two turns of the event loop, or in the *)
(* callback of an event that has timed out.                                 *)
MayPublish(h) ==
  connected /\ (pos = 0 \/ calling) /\ outcome[h] = <<>> /\ h \notin Waiting

PublishBusy(h) ==
  /\ MayPublish(h) /\ updating
  /\ Finish(h, "BUSY")
  /\ UNCHANGED <<rvars, pvars, svars, tvars>>

(* Publisher::send_event was given the handler by value: refused, it        *)
(* returns, and the handler is destroyed.  The error Protocol::send_event   *)
(* then sets on the handler that was moved from reaches nobody.             *)
PublishRefused(h) ==
  /\ MayPublish(h) /\ ~updating /\ Refuse
  /\ Finish(h, "INTERNAL")
  /\ UNCHANGED <<pvars, svars, tvars>>

(* The channel fails: the handler is destroyed in the same way. *)
PublishFails(h) ==
  /\ MayPublish(h) /\ ~updating /\ (Admit \/ AdmitSystem)
  /\ Finish(h, "INTERNAL")
  /\ UNCHANGED <<pvars, svars, tvars>>

(* Sent without a request for an acknowledgement. *)
PublishNoAck(h) ==
  /\ MayPublish(h) /\ ~updating /\ (Admit \/ AdmitSystem)
  /\ Finish(h, "NONE")
  /\ UNCHANGED <<pvars, svars, tvars>>

(* Message ids are 16 bits wide and given in sequence: one does not come    *)
(* round while an event that has it waits.                                  *)
PublishWithAck(h, key) ==
  /\ MayPublish(h) /\ ~updating /\ (Admit \/ AdmitSystem)
  /\ \A i \in DOMAIN handlers : handlers[i].key # key
  /\ addHandler(key, h, SEND_EVENT_ACK_TIMEOUT)
  /\ UNCHANGED <<pvars, svars, tvars>>

Publish == \E h \in Handlers :
  \/ PublishBusy(h) \/ PublishRefused(h) \/ PublishFails(h) \/ PublishNoAck(h)
  \/ \E key \in Keys : PublishWithAck(h, key)

-----------------------------------------------------------------------------
(* Messages from the cloud.                                                 *)

Heard == last_message_millis' = now /\ expecting_ping_ack' = FALSE

(* An acknowledgement, or a refusal, of message key; it may be a late one.  *)
Acknowledge(key, error) ==
  /\ connected /\ pos = 0 /\ takeHandler(key, error) /\ Heard
  /\ UNCHANGED <<rvars, svars, tvars>>

TimeResponse ==
  /\ connected /\ pos = 0 /\ Heard /\ expectingResponse' = FALSE
  /\ UNCHANGED <<hvars, rvars, tvars, connected, updating, last_ack_handlers_update>>

(* An update of the firmware begins or ends. *)
FirmwareUpdate ==
  /\ connected /\ pos = 0 /\ Heard /\ updating' = ~updating
  /\ UNCHANGED <<hvars, rvars, tvars, connected, last_ack_handlers_update, expectingResponse>>

-----------------------------------------------------------------------------
(* The application asks for the time, and the event loop.                   *)

(* A request that is pending is not repeated; the flag stays set if sending *)
(* fails.                                                                   *)
send_time_request ==
  /\ connected /\ pos = 0 /\ ~updating /\ expectingResponse' = TRUE
  /\ UNCHANGED <<hvars, rvars, pvars, tvars, connected, updating, last_ack_handlers_update>>

Elapsed == (now - last_message_millis) % TickMod

(* Pinger::process: an answer is expected and has not come in time. *)
PingTimeout == ~updating /\ expecting_ping_ack /\ ping_timeout < Elapsed

(* Mutant: the link is probed only after the answer's time as well. *)
event_loop_idleLate ==
  /\ expecting_ping_ack' = (/\ ~updating /\ ~expecting_ping_ack
                            /\ ping_interval + ping_timeout < Elapsed)
  /\ last_message_millis' = IF expecting_ping_ack' THEN now ELSE last_message_millis

(* Otherwise: an answer that was expected no longer is, or it is time to    *)
(* send a ping.                                                             *)
event_loop_idle ==
  \/ updating /\ UNCHANGED pvars
  \/ ~updating /\ expecting_ping_ack /\ ~PingTimeout
     /\ expecting_ping_ack' = FALSE /\ UNCHANGED last_message_millis
  \/ ~updating /\ ~expecting_ping_ack
     /\ IF ping_interval # 0 /\ ping_interval < Elapsed
        THEN expecting_ping_ack' = TRUE /\ last_message_millis' = now
        ELSE UNCHANGED pvars

(* One turn of the event loop without a message. *)
EventLoop ==
  /\ connected /\ pos = 0
  /\ event_loop_idle
  /\ update((now - last_ack_handlers_update) % TickMod)
  /\ last_ack_handlers_update' = now /\ lag' = 0
  /\ UNCHANGED <<rvars, connected, updating, expectingResponse, now, age>>

UpdateStep ==
  /\ UpdateExpire \/ UpdateKeep \/ UpdateEnd
  /\ UNCHANGED <<rvars, pvars, svars, tvars>>

(* The session ends, by a ping timeout or an error of the link. *)
Disconnect(broken) ==
  /\ connected /\ pos = 0 /\ (broken \/ PingTimeout)
  /\ connected' = FALSE
  /\ UNCHANGED <<hvars, rvars, pvars, tvars, updating, last_ack_handlers_update,
                 expectingResponse>>

(* Protocol::begin(): what is left of the last session is cleared. *)
Connect ==
  /\ ~connected /\ connected' = TRUE /\ lag' = 0
  /\ updating' = FALSE /\ expectingResponse' = FALSE
  /\ clear /\ last_ack_handlers_update' = now
  /\ Heard
  /\ UNCHANGED <<rvars, now, age>>

Tick ==
  /\ pos = 0 /\ lag < MaxLag
  /\ now' = (now + 1) % TickMod
  /\ lag' = IF connected THEN lag + 1 ELSE 0
  /\ age' = [h \in Handlers |-> IF h \in Waiting THEN age[h] + 1 ELSE age[h]]
  /\ accepted' = LET old == Max({i \in DOMAIN accepted : accepted[i] + 1 = Second} \cup {0})
                 IN [i \in 1 .. Len(accepted) - old |-> accepted[old + i] + 1]
  /\ UNCHANGED <<hvars, svars, recent_event_ticks, evt_tick_idx, lastMinute, eventsThisMinute,
                 last_message_millis, expecting_ping_ack>>

Init ==
  /\ HandlersInit
  /\ now \in Ticks /\ lag = 0 /\ connected = FALSE /\ updating = FALSE
  /\ recent_event_ticks = [i \in 0 .. RingSize - 1 |-> (-Second) % TickMod] /\ evt_tick_idx = 0
  /\ lastMinute = 0 /\ eventsThisMinute = 0
  /\ last_message_millis = now /\ expecting_ping_ack = FALSE
  /\ last_ack_handlers_update = 0 /\ expectingResponse = FALSE
  /\ accepted = <<>> /\ age = [h \in Handlers |-> 0]

Next ==
  \/ Publish \/ TimeResponse \/ FirmwareUpdate \/ send_time_request \/ EventLoop \/ UpdateStep
  \/ \E key \in Keys, e \in {"NONE", "NACK"} : Acknowledge(key, e)
  \/ \E broken \in BOOLEAN : Disconnect(broken)
  \/ Connect \/ Tick

Spec == Init /\ [][Next]_vars

-----------------------------------------------------------------------------
(* Properties.                                                              *)

(* Every variable keeps its type; eventsThisMinute, a byte in the code,     *)
(* does not pass its limit.                                                 *)
TypeOK ==
  /\ HandlersTypeOK
  /\ now \in Ticks /\ lag \in 0 .. MaxLag /\ connected \in BOOLEAN /\ updating \in BOOLEAN
  /\ recent_event_ticks \in [0 .. RingSize - 1 -> Ticks] /\ evt_tick_idx \in 0 .. RingSize - 1
  /\ lastMinute \in Nat /\ eventsThisMinute \in 0 .. MaxPerMinute
  /\ last_message_millis \in Ticks /\ expecting_ping_ack \in BOOLEAN
  /\ last_ack_handlers_update \in Ticks /\ expectingResponse \in BOOLEAN
  /\ accepted \in Seq(0 .. Second - 1) /\ age \in [Handlers -> Nat]

(* "exceeded allowable burst of 4 events per second" (is_rate_limited): no  *)
(* window of a second lets more of the application's events through than    *)
(* the ring is meant to, also where millis() wraps.                         *)
BurstLimited == Len(accepted) <= RingSize - 1

(* An event that asked for an acknowledgement times out after               *)
(* SEND_EVENT_ACK_TIMEOUT of real time, up to one turn of the event loop    *)
(* early or late: whatever else was published, acknowledged or timed out    *)
(* meanwhile, and however the event loop's turns fall.                      *)
TimesOutInTime ==
  \A h \in Handlers :
    /\ connected /\ pos = 0 /\ h \in Waiting => age[h] <= SEND_EVENT_ACK_TIMEOUT + MaxLag
    /\ outcome[h] = <<"TIMEOUT">> => age[h] >= SEND_EVENT_ACK_TIMEOUT - MaxLag

(* A link on which nothing is heard is probed with a ping once in a ping    *)
(* interval, give or take two turns of the event loop.                      *)
SilentLinkIsProbed ==
  connected /\ ~updating /\ ping_interval # 0 => Elapsed <= ping_interval + 2 * MaxLag
=============================================================================
