---------------------------- MODULE Subscriptions -----------------------------
(***************************************************************************)
(* The event handlers of the device, communication/src/subscriptions.h, and *)
(* what the cloud has been told about them, communication/src/protocol.h.   *)
(*                                                                          *)
(* Strings are sequences, compared and cut as the string functions do.  who *)
(* stands for a handler with its data; the scope is the same for all.  The  *)
(* checksum of the handlers is the data it is computed over.  The session   *)
(* and its saved checksum outlive a reset of the device, the table does not.*)
(***************************************************************************)
EXTENDS Integers, Sequences, SequencesExt, Selection

CONSTANTS
  NumHandlers,     \* size of event_handlers
  MaxFilterLen,    \* sizeof(filter)
  Char,            \* what names are made of
  Name,            \* event names, and names given to subscribe and unsubscribe
  Who,             \* handlers with their data
  DeviceId,        \* device ids, NoId if none is given
  NoId,
  None,            \* no checksum, no event, an empty place in the table
  Budgets          \* bounds on what happens, see left

ASSUME SizeAssumption == NumHandlers \in Nat \ {0} /\ MaxFilterLen \in Nat \ {0}
ASSUME NameAssumption == Name \subseteq Seq(Char)
ASSUME IdAssumption == NoId \in DeviceId

Budget == {"adds", "removes", "events", "sessions", "resets", "failures"}
ASSUME BudgetAssumption == Budgets \subseteq [Budget -> Nat]

(* What a place of the table holds, and what of it the cloud is told. *)
Handler == [filter : Seq(Char), who : Who, id : DeviceId]
Subscription == [filter : Seq(Char), id : DeviceId]

ASSUME NoneAssumption == None \notin Handler \cup Subscription \cup Seq(Subscription) \cup Name

VARIABLES
  handlers,   \* event_handlers: the places of the table
  adding,     \* the subscription add_event_handler has just accepted and that is to be sent
  event,      \* the event being handled
  place,      \* the loop variable i of handle_event
  called,     \* the handlers called for it, in order
  removing,   \* whether a handler was removed while it is handled
  inHandler,  \* whether one of them is running
  connected,
  crc,        \* subscriptions_crc of the saved session
  cloud,      \* the subscriptions the cloud has received in the session
  unsent,     \* the subscriptions of the session that could not be sent
  left        \* how many of each kind of step there may still be

vars == <<handlers, adding, event, place, called, removing, inHandler, connected, crc, cloud,
          unsent, left>>

Cut(n) == SubSeq(n, 1, Min({Len(n), MaxFilterLen}))
Spend(b) == left[b] > 0 /\ left' = [left EXCEPT ![b] = @ - 1]

Filled(t) == Selected(t, {i \in 1..NumHandlers : t[i] # None})
Topic(h) == [filter |-> h.filter, id |-> h.id]

-----------------------------------------------------------------------------
(* The table.                                                               *)

(* strncmp with the length of the new name: the filter begins with it. *)
SameFilter(h, n) == IsPrefix(Cut(n), h.filter)

(* event_handler_exists: the first handler with this filter decides. *)
event_handler_exists(n, w, d) ==
  LET found == {i \in 1..NumHandlers : /\ handlers[i] # None /\ handlers[i].who = w
                                       /\ SameFilter(handlers[i], n)}
  IN found # {} /\ handlers[Min(found)].id = d

(* add_event_handler: the first free place, if there is one. *)
Added(n, w, d) ==
  LET free == {i \in 1..NumHandlers : handlers[i] = None} IN
  IF event_handler_exists(n, w, d) \/ free = {}
  THEN handlers
  ELSE [handlers EXCEPT ![Min(free)] = [filter |-> Cut(n), who |-> w, id |-> d]]

Accepted(n, w, d) == event_handler_exists(n, w, d) \/ \E i \in 1..NumHandlers : handlers[i] = None

(* strcmp of a name with a filter.  A filter that fills its array has no    *)
(* terminator: the comparison goes on into the function pointer behind it,  *)
(* whose first byte is odd.                                                 *)
Equal(n, h) == h # None /\ n = h.filter /\ Len(h.filter) < MaxFilterLen

(* Mutant: the places behind a removed handler are not moved up. *)
RemovedInPlace(n) == [i \in 1..NumHandlers |-> IF Equal(n, handlers[i]) THEN None ELSE handlers[i]]

(* remove_event_handlers: what stays is moved to the front, in order. *)
Removed(n) ==
  LET kept == Selected(handlers, {i \in 1..NumHandlers : ~Equal(n, handlers[i])}) IN
  [i \in 1..NumHandlers |-> IF i <= Len(kept) THEN kept[i] ELSE None]

-----------------------------------------------------------------------------
(* Telling the cloud.                                                       *)

(* compute_subscriptions_checksum: of device ids, filters and scopes, in    *)
(* order.                                                                   *)
compute_subscriptions_checksum(t) == [i \in DOMAIN Filled(t) |-> Topic(Filled(t)[i])]

(* update_subscription_crc (external): the checksum of the whole table is   *)
(* saved with the session.                                                  *)
update_subscription_crc == crc' = compute_subscriptions_checksum(handlers)

(* Mutant: the checksum is saved whether or not it could be sent. *)
send_subscriptionAlwaysSaves ==
  /\ adding # None
  /\ cloud' = IF connected THEN cloud \cup {adding} ELSE cloud
  /\ update_subscription_crc
  /\ adding' = None
  /\ UNCHANGED <<handlers, event, place, called, removing, inHandler, connected, unsent, left>>

(* Protocol::send_subscription, of the one that was just added: the         *)
(* checksum is saved if it could be sent.                                   *)
send_subscription ==
  /\ adding # None
  /\ \/ /\ connected
        /\ cloud' = cloud \cup {adding}
        /\ update_subscription_crc
        /\ unsent' = unsent \ {adding}
        /\ UNCHANGED left
     \/ /\ connected /\ Spend("failures")
        /\ unsent' = unsent \cup {adding}
        /\ UNCHANGED <<cloud, crc>>
     \/ /\ ~connected
        /\ UNCHANGED <<cloud, crc, unsent, left>>
  /\ adding' = None
  /\ UNCHANGED <<handlers, event, place, called, removing, inHandler, connected>>

(* Subscriptions::send_subscriptions: all in turn, until one cannot be      *)
(* sent; the first k were.                                                  *)
SendEach(all, k) ==
  /\ left' = [left EXCEPT !["sessions"] = @ - 1,
                          !["failures"] = IF k < Len(all) THEN @ - 1 ELSE @]
  /\ cloud' = {Topic(all[i]) : i \in 1..k}
  /\ unsent' = {Topic(all[i]) : i \in k+1..Len(all)}

(* Protocol::send_subscriptions: the checksum is saved if all were sent. *)
send_subscriptions ==
  LET all == Filled(handlers) IN
  \E k \in 0..Len(all) :
    /\ k < Len(all) => left["failures"] > 0
    /\ SendEach(all, k)
    /\ IF k = Len(all) THEN update_subscription_crc ELSE crc' = None

(* begin(), external: the saved session is resumed, and the subscriptions   *)
(* are not sent again, if the checksum of the application state is that of  *)
(* the session (establish sets SKIP_SESSION_RESUME_HELLO); otherwise, or if *)
(* the cloud no longer knows the session, there is a new one.               *)
begin ==
  /\ ~connected /\ adding = None /\ event = None
  /\ connected' = TRUE
  /\ \/ /\ crc = compute_subscriptions_checksum(handlers) /\ Spend("sessions")
        /\ UNCHANGED <<cloud, crc, unsent>>
     \/ left["sessions"] > 0 /\ send_subscriptions
  /\ UNCHANGED <<handlers, adding, event, place, called, removing, inHandler>>

disconnect ==
  /\ connected /\ adding = None /\ event = None
  /\ connected' = FALSE
  /\ UNCHANGED <<handlers, adding, event, place, called, removing, inHandler, crc, cloud, unsent,
                 left>>

(* The device restarts. *)
Reset ==
  /\ Spend("resets")
  /\ handlers' = [i \in 1..NumHandlers |-> None]
  /\ adding' = None /\ connected' = FALSE
  /\ event' = None /\ place' = 1 /\ called' = <<>> /\ removing' = FALSE /\ inHandler' = FALSE
  /\ UNCHANGED <<crc, cloud, unsent>>

-----------------------------------------------------------------------------
(* What the application does: between events, or in a handler.              *)

ApplicationRuns == adding = None /\ (event = None \/ inHandler)

(* add_event_handler; if it succeeds the subscription is sent next. *)
add_event_handler(n, w, d) ==
  /\ ApplicationRuns /\ Spend("adds")
  /\ handlers' = Added(n, w, d)
  /\ adding' = IF Accepted(n, w, d) THEN [filter |-> Cut(n), id |-> d] ELSE None
  /\ UNCHANGED <<event, place, called, removing, inHandler, connected, crc, cloud, unsent>>

remove_event_handlers(n) ==
  /\ ApplicationRuns /\ Spend("removes")
  /\ handlers' = Removed(n)
  /\ removing' = (removing \/ (event # None /\ Removed(n) # handlers))
  /\ UNCHANGED <<adding, event, place, called, inHandler, connected, crc, cloud, unsent>>

(* remove_event_handlers(NULL) *)
remove_all_event_handlers ==
  /\ ApplicationRuns /\ Spend("removes")
  /\ handlers' = [i \in 1..NumHandlers |-> None]
  /\ removing' = (event # None)
  /\ UNCHANGED <<adding, event, place, called, inHandler, connected, crc, cloud, unsent>>

-----------------------------------------------------------------------------
(* handle_event                                                             *)

(* The event arrives and is acknowledged; if that fails it is not handled,  *)
(* which leaves nothing to be seen here.                                    *)
handle_event(e) ==
  /\ connected /\ event = None /\ adding = None /\ e # <<>>
  /\ Spend("events")
  /\ event' = e /\ place' = 1 /\ called' = <<>> /\ removing' = FALSE
  /\ UNCHANGED <<handlers, adding, inHandler, connected, crc, cloud, unsent>>

AtPlace == event # None /\ ~inHandler /\ place <= NumHandlers /\ handlers[place] # None

(* Mutant: as many bytes are compared as both have. *)
MatchesShorter(h) == IsPrefix(h.filter, event) \/ IsPrefix(event, h.filter)

(* The filter is not longer than the name, and its bytes are the same. *)
Matches(h) == Len(event) >= Len(h.filter) /\ SubSeq(event, 1, Len(h.filter)) = h.filter

(* The loop's next handler is called if its filter matches. *)
handle_event_next ==
  /\ AtPlace
  /\ IF Matches(handlers[place])
     THEN inHandler' = TRUE /\ called' = Append(called, handlers[place]) /\ UNCHANGED place
     ELSE place' = place + 1 /\ UNCHANGED <<inHandler, called>>
  /\ UNCHANGED <<handlers, adding, event, removing, connected, crc, cloud, unsent, left>>

(* A handler returns. *)
handler_returns ==
  /\ inHandler /\ adding = None
  /\ inHandler' = FALSE /\ place' = place + 1
  /\ UNCHANGED <<handlers, adding, event, called, removing, connected, crc, cloud, unsent, left>>

(* The loop ends at the end of the table or at the first empty place. *)
AtEnd == event # None /\ ~inHandler /\ (place <= NumHandlers => handlers[place] = None)

handle_event_end ==
  /\ AtEnd
  /\ event' = None /\ place' = 1 /\ called' = <<>> /\ removing' = FALSE
  /\ UNCHANGED <<handlers, adding, inHandler, connected, crc, cloud, unsent, left>>

-----------------------------------------------------------------------------
Init ==
  /\ handlers = [i \in 1..NumHandlers |-> None]
  /\ adding = None
  /\ event = None /\ place = 1 /\ called = <<>> /\ removing = FALSE /\ inHandler = FALSE
  /\ connected = FALSE /\ crc = None /\ cloud = {} /\ unsent = {}
  /\ left \in Budgets

Next ==
  \/ \E n \in Name, w \in Who, d \in DeviceId : add_event_handler(n, w, d)
  \/ \E n \in Name : remove_event_handlers(n)
  \/ remove_all_event_handlers
  \/ send_subscription
  \/ begin \/ disconnect \/ Reset
  \/ \E e \in Name : handle_event(e)
  \/ handle_event_next \/ handler_returns \/ handle_event_end

Spec == Init /\ [][Next]_vars

-----------------------------------------------------------------------------
(* Properties.                                                              *)

TypeOK ==
  /\ handlers \in [1..NumHandlers -> Handler \cup {None}]
  /\ adding \in Subscription \cup {None}
  /\ event \in Name \cup {None}
  /\ place \in 1..NumHandlers + 1
  /\ called \in Seq(Handler)
  /\ removing \in BOOLEAN /\ inHandler \in BOOLEAN /\ connected \in BOOLEAN
  /\ crc \in Seq(Subscription) \cup {None}
  /\ cloud \subseteq Subscription /\ unsent \subseteq Subscription
  /\ left \in [Budget -> Nat]

(* There is no empty place between handlers: handle_event stops at the      *)
(* first one, so that a handler behind it would be deaf, also when handlers *)
(* are removed and added while an event is being handled.                   *)
NoHoles ==
  \A i, j \in 1..NumHandlers : i < j /\ handlers[j] # None => handlers[i] # None

(* When the loop ends it has called every handler in the table whose filter *)
(* begins the event's name, once each and in order, those that a handler    *)
(* added meanwhile included; unless a handler removed one, which moves the  *)
(* others past the loop.                                                    *)
EveryMatchCalled ==
  AtEnd /\ ~removing =>
    called = Selected(handlers, {i \in 1..NumHandlers : /\ handlers[i] # None
                                                        /\ IsPrefix(handlers[i].filter, event)})

(* The session would be resumed without sending the subscriptions. *)
Resumable == crc = compute_subscriptions_checksum(handlers)
Subscribed == {Topic(handlers[i]) : i \in {j \in 1..NumHandlers : handlers[j] # None}}

(* When the saved session can be resumed without sending the subscriptions, *)
(* the cloud knows those of the table, after adding, removing, resets and   *)
(* sessions in any order, with one exception: a subscription that could not *)
(* be sent in this session stays unknown, since the next one that is sent   *)
(* saves the checksum of all.                                               *)
OnlyRefusedUnknown == Resumable => Subscribed \subseteq cloud \cup unsent

=============================================================================
