----------------------------- MODULE CoAPChannel -----------------------------
(***************************************************************************)
(* The reliable CoAP channel of communication/src/coap_channel.h: the       *)
(* device's end of a datagram link that may lose, delay, reorder and        *)
(* duplicate.  Confirmable messages it sends wait in the client store and   *)
(* are sent again until they are answered or have been sent often enough;   *)
(* what it received, and how it answered, is remembered in the server       *)
(* store so that a duplicate is recognised.                                 *)
(*                                                                          *)
(* The stores are lists in the code, in which an id occurs once (add clears *)
(* it first); here they are functions of the ids they hold.  The bodies of  *)
(* CoAPMessageStore::send, receive and process are not in the repository:   *)
(* they are modelled from their declarations and their callers.             *)
(***************************************************************************)
EXTENDS Integers, FiniteSets

CONSTANTS
  TickMod,          \* system_tick_t counts modulo this
  IdMod,            \* message_id_t counts modulo this
  CloudIds,         \* message ids of the cloud's requests
  ACK_TIMEOUT, MAX_RETRANSMIT, MAX_TRANSMIT_SPAN,
  MaxLag            \* the event loop comes round at least this often

Ticks == 0 .. TickMod - 1
Ids == 0 .. IdMod - 1
HalfRange == TickMod \div 2

ASSUME ModAssumption == TickMod \in Nat \ {0} /\ IdMod \in Nat \ {0} /\ CloudIds \subseteq Nat
ASSUME TimeAssumption ==
  /\ ACK_TIMEOUT \in Nat \ {0} /\ MAX_RETRANSMIT \in Nat /\ MAX_TRANSMIT_SPAN \in Nat \ {0}
  /\ MaxLag \in Nat \ {0}
  /\ MAX_TRANSMIT_SPAN < HalfRange

VARIABLES
  now,           \* millis()
  lag,           \* ticks since the stores were last processed
  message_id,    \* the last id CoAPChannel gave out
  client,        \* requests of the device waiting for an answer
  server,        \* requests of the cloud, or the device's answer to them
  sync,          \* the send_synchronous in progress: [id, error], or NoSync
  owed,          \* requests the application has been given and not answered
  link,          \* datagrams that can still reach the device: [type, id, born]
  sent,          \* how often the message that last took each id was transmitted
  reached,       \* ids that reached the cloud
  confirmed,     \* ids send_synchronous reported as delivered
  handled        \* how often each request was given to the application since establish

vars == <<now, lag, message_id, client, server, sync, owed, link, sent, reached,
          confirmed, handled>>

NoSync == [id |-> -1, error |-> "none"]

-----------------------------------------------------------------------------
(* Messages and stores.                                                     *)

Remove(store, id) == [i \in DOMAIN store \ {id} |-> store[i]]
Add(store, id, m) == [i \in DOMAIN store \cup {id} |-> IF i = id THEN m ELSE store[i]]

(* A message as prepare_retransmit leaves it after its first transmission. *)
Confirmable(timeout, handler) ==
  [type |-> "CON", timeout |-> timeout, transmit_count |-> 1, delivered |-> handler]

(* A message that is kept for a while and never sent again. *)
set_expiration(type) ==
  [type |-> type, timeout |-> (now + MAX_TRANSMIT_SPAN) % TickMod,
   transmit_count |-> MAX_RETRANSMIT + 2, delivered |-> FALSE]

time_has_passed(n, tick) ==
  IF n >= tick THEN n - tick < HalfRange ELSE tick - n >= HalfRange

(* The timeouts rand() can give after count transmissions. *)
transmit_timeout(count) ==
  LET t == ACK_TIMEOUT * 2^count IN t .. t + (t * 255) \div 512

-----------------------------------------------------------------------------
(* Background processing of a store.                                        *)

Due(store) == {i \in DOMAIN store : time_has_passed(now, store[i].timeout)}

(* Mutant: one transmission too many. *)
prepare_retransmitOneMore(m) == m.type = "CON" /\ m.transmit_count + 1 <= MAX_RETRANSMIT + 2

(* Mutant: one transmission too few. *)
prepare_retransmitOneLess(m) == m.type = "CON" /\ m.transmit_count + 1 <= MAX_RETRANSMIT

(* Can the message be sent again? *)
prepare_retransmit(m) == m.type = "CON" /\ m.transmit_count + 1 <= MAX_RETRANSMIT + 1

Resent(store) == {i \in Due(store) : prepare_retransmit(store[i])}
Expired(store) == Due(store) \ Resent(store)

Delays(store) ==
  LET r == Resent(store)
  IN {d \in [r -> UNION {transmit_timeout(store[i].transmit_count) : i \in r}] :
        \A i \in r : d[i] \in transmit_timeout(store[i].transmit_count)}

(* Mutant: a message that may not be sent again stays in the store. *)
processKeepsExpired(store, delay) ==
  [i \in DOMAIN store |->
     IF i \in Resent(store)
     THEN [store[i] EXCEPT !.timeout = (now + delay[i]) % TickMod, !.transmit_count = @ + 1]
     ELSE store[i]]

process(store, delay) ==
  [i \in DOMAIN store \ Expired(store) |->
     IF i \in Resent(store)
     THEN [store[i] EXCEPT !.timeout = (now + delay[i]) % TickMod, !.transmit_count = @ + 1]
     ELSE store[i]]

(* Confirmable messages go out, fresh ones for the first time: some are     *)
(* lost, and some of the others are answered.  The answers then make their  *)
(* way back.                                                                *)
Transmit(fresh, again) ==
  /\ sent' = [i \in Ids |-> CASE i \in fresh -> 1
                             [] i \in again \ fresh -> sent[i] + 1
                             [] OTHER -> sent[i]]
  /\ \E got \in SUBSET (fresh \cup again) : \E answered \in SUBSET got :
       /\ reached' = reached \cup got
       /\ \E reply \in [answered -> {"ACK", "RESET"}] :
            link' = link \cup {[type |-> reply[i], id |-> i, born |-> now] : i \in answered}

-----------------------------------------------------------------------------
(* Sending.                                                                 *)

next_message_id == (message_id + 1) % IdMod

(* send of a confirmable request: it is registered with the client store    *)
(* and then transmitted.  If the transmission fails the caller is told so,  *)
(* and the message stays in the store.                                      *)
Send ==
  /\ sync = NoSync
  /\ message_id' = next_message_id
  /\ \E d \in transmit_timeout(0) :
       client' = Add(client, next_message_id, Confirmable((now + d) % TickMod, FALSE))
  /\ Transmit({next_message_id}, {})
  /\ UNCHANGED <<now, lag, server, sync, owed, confirmed, handled>>

(* A non-confirmable request is not kept. *)
SendNonConfirmable ==
  /\ sync = NoSync
  /\ message_id' = next_message_id
  /\ Transmit({}, {})
  /\ UNCHANGED <<now, lag, client, server, sync, owed, confirmed, handled>>

(* The application answers a request of the cloud: the answer takes the     *)
(* request's place in the server store, to be repeated for a duplicate.     *)
Respond(id) ==
  /\ sync = NoSync /\ id \in owed
  /\ owed' = owed \ {id}
  /\ server' = Add(server, id, set_expiration("ACK"))
  /\ UNCHANGED <<now, lag, message_id, client, sync, link, sent, reached, confirmed, handled>>

-----------------------------------------------------------------------------
(* send_synchronous: send, then receive until the answer to it arrives.     *)

SendSynchronous ==
  /\ sync = NoSync
  /\ message_id' = next_message_id
  /\ \E d \in transmit_timeout(0), ioError \in BOOLEAN :
       /\ sync' = [id |-> next_message_id, error |-> IF ioError THEN "io" ELSE "none"]
       /\ client' = Add(client, next_message_id, Confirmable((now + d) % TickMod, ~ioError))
  /\ Transmit({next_message_id}, {})
  /\ UNCHANGED <<now, lag, server, owed, confirmed, handled>>

(* flag_delivered is called for a message that leaves the store. *)
Flagged(before, after) == \E i \in DOMAIN before \ DOMAIN after : before[i].delivered

(* One turn of the loop: an answer is looked up in the client store,        *)
(* anything else is dropped, then the client store is processed.            *)
SyncTurn ==
  /\ sync.id \in DOMAIN client /\ sync.error = "none"
  /\ \E d \in link \cup {[type |-> t, id |-> -1, born |-> now] : t \in {"NONE", "ERROR"}} :
       LET c1 == IF d.type \in {"ACK", "RESET"} THEN Remove(client, d.id) ELSE client
       IN /\ \E delay \in Delays(c1) : client' = process(c1, delay)
          /\ sync' = [sync EXCEPT !.error =
                        CASE Flagged(c1, client') -> "timeout"
                          [] d.type = "ERROR" -> "io"
                          [] d.type = "RESET" /\ Flagged(client, c1) -> "reset"
                          [] OTHER -> "none"]
          /\ Transmit({}, Resent(c1))
  /\ lag' = 0
  /\ UNCHANGED <<now, message_id, server, owed, confirmed, handled>>

(* Mutant: the message is left in the store. *)
SyncReturnNoClear ==
  /\ sync # NoSync /\ (sync.id \notin DOMAIN client \/ sync.error # "none")
  /\ confirmed' = IF sync.error = "none" THEN confirmed \cup {sync.id} ELSE confirmed
  /\ sync' = NoSync
  /\ UNCHANGED <<now, lag, message_id, client, server, owed, link, sent, reached, handled>>

(* Mutant: a message that ran out of transmissions counts as delivered. *)
SyncReturnIgnoringTimeout ==
  /\ sync # NoSync /\ (sync.id \notin DOMAIN client \/ sync.error # "none")
  /\ client' = Remove(client, sync.id)
  /\ confirmed' = IF sync.error \in {"none", "timeout"} THEN confirmed \cup {sync.id}
                                                         ELSE confirmed
  /\ sync' = NoSync
  /\ UNCHANGED <<now, lag, message_id, server, owed, link, sent, reached, handled>>

(* The loop ends; the message is cleared, with the pointer to the flag on   *)
(* this call's stack.                                                       *)
SyncReturn ==
  /\ sync # NoSync /\ (sync.id \notin DOMAIN client \/ sync.error # "none")
  /\ client' = Remove(client, sync.id)
  /\ confirmed' = IF sync.error = "none" THEN confirmed \cup {sync.id} ELSE confirmed
  /\ sync' = NoSync
  /\ UNCHANGED <<now, lag, message_id, server, owed, link, sent, reached, handled>>

-----------------------------------------------------------------------------
(* Receiving.                                                               *)

(* What every receive does after it has dealt with its datagram. *)
ProcessStores(c, s) ==
  /\ \E delay \in Delays(c) : client' = process(c, delay)
  /\ server' = process(s, <<>>)
  /\ Transmit({}, Resent(c))
  /\ lag' = 0

(* An answer, or nothing, or an error of the channel: the client store is   *)
(* told of the answer.                                                      *)
ReceiveAnswer ==
  /\ sync = NoSync
  /\ \E id \in {d.id : d \in {x \in link : x.type # "CON"}} \cup {-1} :
       ProcessStores(Remove(client, id), server)
  /\ UNCHANGED <<now, message_id, sync, owed, confirmed, handled>>

(* Mutant: a request is given to the application whenever it arrives. *)
ReceiveRequestAlways(id) ==
  /\ sync = NoSync /\ \E d \in link : d.type = "CON" /\ d.id = id
  /\ owed' = owed \cup {id}
  /\ handled' = [handled EXCEPT ![id] = @ + 1]
  /\ ProcessStores(client, Add(server, id, set_expiration("CON")))
  /\ UNCHANGED <<now, message_id, sync, confirmed>>

(* A request the server store does not know is remembered and given to the  *)
(* application; for one that it knows the answer, if any, is repeated.      *)
ReceiveRequest(id) ==
  /\ sync = NoSync /\ \E d \in link : d.type = "CON" /\ d.id = id
  /\ IF id \in DOMAIN server
     THEN ProcessStores(client, server) /\ UNCHANGED <<owed, handled>>
     ELSE /\ owed' = owed \cup {id}
          /\ handled' = [handled EXCEPT ![id] = @ + 1]
          /\ ProcessStores(client, Add(server, id, set_expiration("CON")))
  /\ UNCHANGED <<now, message_id, sync, confirmed>>

(* receive_confirmations: requests are taken from the channel and dropped. *)
ReceiveConfirmations ==
  /\ sync = NoSync /\ \E d \in link : d.type = "CON"
  /\ ProcessStores(client, server)
  /\ UNCHANGED <<now, message_id, sync, owed, confirmed, handled>>

(* establish: both stores are cleared.  Nothing of the old session is       *)
(* accepted in a new one; in a session that is resumed, everything is.      *)
Establish ==
  /\ sync = NoSync
  /\ client' = [i \in {} |-> 0] /\ server' = [i \in {} |-> 0]
  /\ link' \in {link, {}}
  /\ handled' = [i \in CloudIds |-> 0]
  /\ UNCHANGED <<now, lag, message_id, sync, owed, sent, reached, confirmed>>

-----------------------------------------------------------------------------
(* The surroundings.                                                        *)

(* The cloud makes a request, once; the link may deliver it again and again *)
(* for as long as the cloud may be retransmitting it.                       *)
CloudRequest(id) ==
  /\ handled[id] = 0 /\ ~\E d \in link : d.type = "CON" /\ d.id = id
  /\ link' = link \cup {[type |-> "CON", id |-> id, born |-> now]}
  /\ UNCHANGED <<now, lag, message_id, client, server, sync, owed, sent, reached, confirmed, handled>>

Tick ==
  /\ lag < MaxLag
  /\ now' = (now + 1) % TickMod /\ lag' = lag + 1
  /\ link' = {d \in link : (now' - d.born) % TickMod < MAX_TRANSMIT_SPAN}
  /\ UNCHANGED <<message_id, client, server, sync, owed, sent, reached, confirmed, handled>>

Init ==
  /\ now \in Ticks /\ lag = 0 /\ message_id = 0
  /\ client = [i \in {} |-> 0] /\ server = [i \in {} |-> 0]
  /\ sync = NoSync /\ owed = {} /\ link = {}
  /\ sent = [i \in Ids |-> 0] /\ reached = {} /\ confirmed = {}
  /\ handled = [i \in CloudIds |-> 0]

ReceiveAny == ReceiveAnswer \/ ReceiveConfirmations \/ \E id \in CloudIds : ReceiveRequest(id)

Next ==
  \/ Send \/ SendNonConfirmable \/ SendSynchronous \/ SyncTurn \/ SyncReturn
  \/ ReceiveAny \/ Establish \/ Tick
  \/ \E id \in CloudIds : Respond(id) \/ CloudRequest(id)

Spec == Init /\ [][Next]_vars

(* The event loop keeps calling receive, a synchronous send keeps turning,  *)
(* and time passes.                                                         *)
FairSpec == Spec /\ WF_vars(ReceiveAnswer) /\ WF_vars(SyncTurn) /\ WF_vars(SyncReturn)
                 /\ WF_vars(Tick)

-----------------------------------------------------------------------------
(* Properties.                                                              *)

Message(types) == [type : types, timeout : Ticks, transmit_count : 0 .. MAX_RETRANSMIT + 2,
                   delivered : BOOLEAN]

(* Every variable keeps its type: the client store holds only confirmable   *)
(* messages, and no message outlives its last permitted transmission.       *)
TypeOK ==
  /\ now \in Ticks /\ lag \in 0 .. MaxLag /\ message_id \in Ids
  /\ DOMAIN client \subseteq Ids /\ \A i \in DOMAIN client : client[i] \in Message({"CON"})
  /\ DOMAIN server \subseteq CloudIds
  /\ \A i \in DOMAIN server : server[i] \in Message({"CON", "ACK"})
  /\ sync \in [id : Ids, error : {"none", "io", "reset", "timeout"}] \cup {NoSync}
  /\ owed \subseteq CloudIds /\ reached \subseteq Ids /\ confirmed \subseteq Ids
  /\ link \subseteq [type : {"CON", "ACK", "RESET"}, id : Ids \cup CloudIds, born : Ticks]
  /\ sent \in [Ids -> Nat] /\ handled \in [CloudIds -> Nat]

(* From one establish to the next a request is given to the application     *)
(* once, however often the link delivers it while the cloud may be          *)
(* retransmitting it.                                                       *)
HandledOnce == \A id \in CloudIds : handled[id] <= 1

(* A message is transmitted once and retransmitted MAX_RETRANSMIT times.    *)
TransmissionsBounded == \A i \in Ids : sent[i] <= MAX_RETRANSMIT + 1

(* When send_synchronous returns NO_ERROR the cloud has the message.        *)
ConfirmedIsDelivered == confirmed \subseteq reached

(* No message keeps a pointer to the flag of a send_synchronous that has    *)
(* returned.                                                                *)
NoDanglingHandler == \A i \in DOMAIN client : client[i].delivered => sync.id = i

(* Why message i may leave the client store in a step. *)
MayLeave(i) ==
  \/ \E d \in link : d.id = i /\ d.type \in {"ACK", "RESET"}
  \/ client[i].transmit_count = MAX_RETRANSMIT + 1 /\ time_has_passed(now, client[i].timeout)
  \/ sync.id = i /\ sync.error = "io"
  \/ Establish

(* "A confirmable message is sent and resent until an ack is received or    *)
(* the message times out": it leaves the client store only for an answer,   *)
(* after its last transmission timed out, when a synchronous send gives up  *)
(* on it, or with the session.                                              *)
ResentUntilAnswered == [][\A i \in DOMAIN client \ DOMAIN client' : MayLeave(i)]_vars

(* Every confirmable message is answered or given up in the end, and a      *)
(* synchronous send returns, also when the tick counter wraps around.       *)
EverySendSettles == \A i \in Ids : (i \in DOMAIN client) ~> (i \notin DOMAIN client)
=============================================================================
