-------------------------- MODULE CoAPChannel_proofs --------------------------
(***************************************************************************)
(* Proofs about CoAPChannel, for every size of the clock and of the         *)
(* message ids, every set of requests of the cloud and every timing.        *)
(***************************************************************************)
EXTENDS CoAPChannel, TLAPS

-----------------------------------------------------------------------------
(* The inductive invariant.                                                 *)

(* How long until the clock shows t, and how old a datagram is. *)
Until(t) == (t - now) % TickMod
Age(d) == (now - d.born) % TickMod

(* The client store's counter is the number of transmissions, and leaves    *)
(* room for one that is not made.                                           *)
CountInv ==
  /\ \A i \in DOMAIN client : sent[i] = client[i].transmit_count
  /\ \A i \in Ids : sent[i] <= MAX_RETRANSMIT + 1

(* The synchronous send that is waiting is the one with a handler; when its *)
(* message has left the store without an error it was answered.             *)
SyncInv ==
  /\ \A i \in DOMAIN client : client[i].delivered => sync.id = i
  /\ sync.id \in DOMAIN client =>
       /\ sync.error \in {"none", "io"}
       /\ sync.error = "none" => client[sync.id].delivered
  /\ sync # NoSync /\ sync.error = "none" /\ sync.id \notin DOMAIN client => sync.id \in reached

(* Only a message that reached the cloud is answered. *)
AnswerInv ==
  /\ \A d \in link : d.type \in {"ACK", "RESET"} => d.id \in reached
  /\ confirmed \subseteq reached

(* A request of which h says that it was given to the application stays in  *)
(* the store s for as long as the link may deliver it.                      *)
Kept(s, h) ==
  \A d \in link : d.type = "CON" /\ h[d.id] = 1 =>
    /\ d.id \in DOMAIN s
    /\ Until(s[d.id].timeout) <= MAX_TRANSMIT_SPAN
    /\ Until(s[d.id].timeout) + Age(d) >= MAX_TRANSMIT_SPAN

(* Nothing in the server store is sent again, and it remembers requests for *)
(* long enough.                                                             *)
RequestInv ==
  /\ \A i \in DOMAIN server : server[i].transmit_count = MAX_RETRANSMIT + 2
  /\ \A i \in CloudIds : handled[i] <= 1
  /\ \A d \in link : Age(d) < MAX_TRANSMIT_SPAN /\ (d.type = "CON" => d.id \in CloudIds)
  /\ Kept(server, handled)

IInv == TypeOK /\ CountInv /\ SyncInv /\ AnswerInv /\ RequestInv

-----------------------------------------------------------------------------
(* Arithmetic of the clock.                                                 *)

(* One addition on the clock, and the distance of two of its values.        *)
LEMMA ModSum ==
  ASSUME NEW M \in Nat \ {0}, NEW x \in 0 .. M - 1, NEW y \in 0 .. M
  PROVE  (x + y) % M = IF x + y < M THEN x + y ELSE x + y - M
OBVIOUS

LEMMA ModDifference ==
  ASSUME NEW M \in Nat \ {0}, NEW x \in 0 .. M - 1, NEW y \in 0 .. M - 1
  PROVE  (x - y) % M = IF x >= y THEN x - y ELSE x - y + M
OBVIOUS

(* A tick makes every datagram one tick older, until it is as old as the    *)
(* clock can tell, and brings every timeout that is not now one tick nearer. *)
LEMMA TickFacts ==
  ASSUME NEW n \in Ticks, NEW t \in Ticks
  PROVE  LET m == (n + 1) % TickMod
         IN /\ m \in Ticks
            /\ (n - t) % TickMod < TickMod - 1 => (m - t) % TickMod = ((n - t) % TickMod) + 1
            /\ (t - n) % TickMod > 0 => (t - m) % TickMod = ((t - n) % TickMod) - 1
<1> DEFINE m == (n + 1) % TickMod
<1>1. TickMod \in Nat \ {0} /\ n \in 0 .. TickMod - 1 /\ t \in 0 .. TickMod - 1
  BY ModAssumption DEF Ticks
<1>2. m = IF n + 1 < TickMod THEN n + 1 ELSE n + 1 - TickMod
  BY <1>1, 1 \in 0 .. TickMod, ModSum
<1>3. \A a, b \in 0 .. TickMod - 1 : (a - b) % TickMod = IF a >= b THEN a - b ELSE a - b + TickMod
  BY <1>1, ModDifference
<1>4. m \in 0 .. TickMod - 1
  BY <1>1, <1>2
<1> HIDE DEF m
<1>5. /\ (n - t) % TickMod = IF n >= t THEN n - t ELSE n - t + TickMod
      /\ (m - t) % TickMod = IF m >= t THEN m - t ELSE m - t + TickMod
      /\ (t - n) % TickMod = IF t >= n THEN t - n ELSE t - n + TickMod
      /\ (t - m) % TickMod = IF t >= m THEN t - m ELSE t - m + TickMod
  BY <1>1, <1>3, <1>4
<1>6. /\ m \in Ticks
      /\ (n - t) % TickMod < TickMod - 1 => (m - t) % TickMod = ((n - t) % TickMod) + 1
      /\ (t - n) % TickMod > 0 => (t - m) % TickMod = ((t - n) % TickMod) - 1
  BY <1>1, <1>2, <1>4, <1>5 DEF Ticks
<1> QED
  BY <1>6 DEF m

(* A timeout less than half the range of the clock ahead has not passed. *)
LEMMA NotYetPassed ==
  ASSUME NEW n \in Ticks, NEW t \in Ticks,
         (t - n) % TickMod > 0, (t - n) % TickMod < HalfRange
  PROVE  ~time_has_passed(n, t)
<1>1. TickMod \in Nat \ {0} /\ n \in 0 .. TickMod - 1 /\ t \in 0 .. TickMod - 1
  BY ModAssumption DEF Ticks
<1>2. (t - n) % TickMod = IF t >= n THEN t - n ELSE t - n + TickMod
  BY <1>1, ModDifference
<1>3. HalfRange \in Nat /\ 2 * HalfRange <= TickMod /\ TickMod <= 2 * HalfRange + 1
  BY <1>1 DEF HalfRange
<1> QED
  BY <1>1, <1>2, <1>3 DEF time_has_passed

(* A timeout set d ticks ahead is d ticks ahead. *)
LEMMA AheadFacts ==
  ASSUME NEW n \in Ticks, NEW d \in 0 .. TickMod - 1
  PROVE  /\ (n + d) % TickMod \in Ticks
         /\ (((n + d) % TickMod) - n) % TickMod = d
<1> DEFINE m == (n + d) % TickMod
<1>1. TickMod \in Nat \ {0} /\ n \in 0 .. TickMod - 1
  BY ModAssumption DEF Ticks
<1>2. m = IF n + d < TickMod THEN n + d ELSE n + d - TickMod
  BY <1>1, d \in 0 .. TickMod, ModSum
<1>3. m \in 0 .. TickMod - 1
  BY <1>1, <1>2
<1> HIDE DEF m
<1>4. (m - n) % TickMod = IF m >= n THEN m - n ELSE m - n + TickMod
  BY <1>1, <1>3, ModDifference
<1>5. m \in Ticks /\ (m - n) % TickMod = d
  BY <1>1, <1>2, <1>3, <1>4 DEF Ticks
<1> QED
  BY <1>5 DEF m

-----------------------------------------------------------------------------
(* The stores.                                                              *)

(* The timeouts of retransmissions are whole numbers of ticks. *)
LEMMA TimeoutFacts ==
  ASSUME NEW n \in Ticks, NEW c, NEW d \in transmit_timeout(c)
  PROVE  (n + d) % TickMod \in Ticks
BY ModAssumption DEF transmit_timeout, Ticks

(* Processing a store of messages drops the expired ones, and for each that *)
(* is sent again sets a new timeout and counts the transmission.            *)
LEMMA ProcessFacts ==
  ASSUME now \in Ticks, NEW store, NEW delay \in Delays(store),
         \A i \in DOMAIN store : store[i] \in Message({"CON", "ACK"})
  PROVE  /\ DOMAIN process(store, delay) = DOMAIN store \ Expired(store)
         /\ \A i \in Resent(store) :
              /\ i \in DOMAIN process(store, delay)
              /\ process(store, delay)[i].type = store[i].type
              /\ process(store, delay)[i].timeout \in Ticks
              /\ process(store, delay)[i].transmit_count = store[i].transmit_count + 1
              /\ process(store, delay)[i].delivered = store[i].delivered
              /\ process(store, delay)[i] \in Message({"CON"})
              /\ store[i].type = "CON" /\ store[i].transmit_count <= MAX_RETRANSMIT
         /\ \A i \in DOMAIN process(store, delay) \ Resent(store) :
              process(store, delay)[i] = store[i]
<1>1. MAX_RETRANSMIT \in Nat /\ TickMod \in Nat \ {0}
  BY ModAssumption, TimeAssumption
<1>2. DOMAIN process(store, delay) = DOMAIN store \ Expired(store)
  BY DEF process
<1>3. ASSUME NEW i \in Resent(store)
      PROVE  /\ i \in DOMAIN process(store, delay) /\ i \in DOMAIN store
             /\ store[i].type = "CON" /\ store[i].transmit_count <= MAX_RETRANSMIT
             /\ delay[i] \in transmit_timeout(store[i].transmit_count)
             /\ process(store, delay)[i] =
                  [store[i] EXCEPT !.timeout = (now + delay[i]) % TickMod, !.transmit_count = @ + 1]
  <2>1. i \in DOMAIN store \ Expired(store) /\ prepare_retransmit(store[i])
    BY <1>3 DEF Resent, Expired, Due
  <2>2. store[i].type = "CON" /\ store[i].transmit_count <= MAX_RETRANSMIT
    BY <1>1, <2>1 DEF prepare_retransmit, Message
  <2>3. delay[i] \in transmit_timeout(store[i].transmit_count)
    BY <1>3 DEF Delays
  <2> QED
    BY <1>2, <1>3, <2>1, <2>2, <2>3 DEF process
<1>4. ASSUME NEW i \in Resent(store)
      PROVE  /\ process(store, delay)[i].type = store[i].type
             /\ process(store, delay)[i].timeout \in Ticks
             /\ process(store, delay)[i].transmit_count = store[i].transmit_count + 1
             /\ process(store, delay)[i].delivered = store[i].delivered
             /\ process(store, delay)[i] \in Message({"CON"})
  <2>1. (now + delay[i]) % TickMod \in Ticks
    BY <1>3, TimeoutFacts
  <2>2. /\ store[i] \in Message({"CON", "ACK"})
        /\ store[i].type = "CON" /\ store[i].transmit_count <= MAX_RETRANSMIT
    BY <1>3
  <2> DEFINE t == (now + delay[i]) % TickMod
  <2> HIDE DEF t
  <2>3. process(store, delay)[i] =
          [store[i] EXCEPT !.timeout = t, !.transmit_count = @ + 1] /\ t \in Ticks
    BY <1>3, <2>1 DEF t
  <2>4. process(store, delay)[i] =
          [type |-> store[i].type, timeout |-> t, transmit_count |-> store[i].transmit_count + 1,
           delivered |-> store[i].delivered]
    BY <2>2, <2>3 DEF Message
  <2>5. /\ store[i].type = "CON" /\ store[i].transmit_count + 1 \in 0 .. MAX_RETRANSMIT + 2
        /\ store[i].delivered \in BOOLEAN
    BY <1>1, <2>2 DEF Message
  <2>6. process(store, delay)[i] \in Message({"CON"})
    BY <2>3, <2>4, <2>5 DEF Message
  <2> QED
    BY <2>3, <2>4, <2>6
<1>5. \A i \in DOMAIN process(store, delay) \ Resent(store) : process(store, delay)[i] = store[i]
  BY DEF process
<1> QED
  BY <1>2, <1>3, <1>4, <1>5

(* A message that expires has timed out, and cannot be sent again. *)
LEMMA ExpiredFacts ==
  ASSUME NEW store, NEW i \in Expired(store)
  PROVE  /\ i \in DOMAIN store /\ time_has_passed(now, store[i].timeout)
         /\ ~prepare_retransmit(store[i])
BY DEF Expired, Resent, Due

(* What a transmission does to the history and to the link. *)
LEMMA TransmitFacts ==
  ASSUME TypeOK, NEW fresh \in SUBSET Ids, NEW again \in SUBSET Ids, fresh \cap again = {},
         Transmit(fresh, again)
  PROVE  /\ sent' \in [Ids -> Nat]
         /\ \A i \in Ids : sent'[i] = IF i \in fresh THEN 1
                                      ELSE IF i \in again THEN sent[i] + 1 ELSE sent[i]
         /\ reached \subseteq reached' /\ reached' \subseteq Ids
         /\ link \subseteq link'
         /\ \A d \in link' \ link : /\ d \in [type : {"ACK", "RESET"}, id : Ids, born : {now}]
                                    /\ d.id \in reached'
<1>1. sent' = [i \in Ids |-> IF i \in fresh THEN 1
                            ELSE IF i \in again THEN sent[i] + 1 ELSE sent[i]]
  BY DEF Transmit
<1>2. sent \in [Ids -> Nat] /\ reached \subseteq Ids
  BY DEF TypeOK
<1> DEFINE Answers(answered, reply) ==
             {[type |-> reply[i], id |-> i, born |-> now] : i \in answered}
<1>3. PICK got \in SUBSET (fresh \cup again) :
        /\ reached' = reached \cup got
        /\ \E answered \in SUBSET got : \E reply \in [answered -> {"ACK", "RESET"}] :
             link' = link \cup Answers(answered, reply)
  BY DEF Transmit
<1>4. PICK answered \in SUBSET got : \E reply \in [answered -> {"ACK", "RESET"}] :
             link' = link \cup Answers(answered, reply)
  BY <1>3
<1>5. PICK reply \in [answered -> {"ACK", "RESET"}] : link' = link \cup Answers(answered, reply)
  BY <1>4
<1>6. ASSUME NEW d \in link' \ link
      PROVE  d \in [type : {"ACK", "RESET"}, id : Ids, born : {now}] /\ d.id \in reached'
  <2>1. PICK i \in answered : d = [type |-> reply[i], id |-> i, born |-> now]
    BY <1>5, <1>6
  <2> QED
    BY <1>3, <2>1
<1> QED
  BY <1>1, <1>2, <1>3, <1>5, <1>6

(* Background processing of the client store, of which an answered message  *)
(* may have been removed: nothing is added, what goes out is counted, and   *)
(* what is dropped has been sent as often as is allowed.                    *)
LEMMA ClientStep ==
  ASSUME TypeOK, CountInv, NEW id,
         NEW c, c = Remove(client, id) \/ c = client,
         NEW delay \in Delays(c), client' = process(c, delay), Transmit({}, Resent(c))
  PROVE  /\ DOMAIN client' = DOMAIN c \ Expired(c) /\ DOMAIN client' \subseteq DOMAIN client
         /\ DOMAIN client' \subseteq Ids
         /\ \A i \in DOMAIN client' : /\ client'[i] \in Message({"CON"})
                                      /\ client'[i].delivered = client[i].delivered
         /\ \A i \in DOMAIN c \ DOMAIN client' :
              /\ c[i] = client[i]
              /\ client[i].transmit_count = MAX_RETRANSMIT + 1
              /\ time_has_passed(now, client[i].timeout)
         /\ CountInv'
         /\ Resent(c) \in SUBSET Ids
<1>1. MAX_RETRANSMIT \in Nat
  BY TimeAssumption
<1>2. /\ DOMAIN c \subseteq DOMAIN client /\ DOMAIN client \subseteq Ids
      /\ \A i \in DOMAIN c : c[i] = client[i] /\ client[i] \in Message({"CON"})
  BY DEF Remove, TypeOK
<1>3. now \in Ticks /\ \A i \in DOMAIN c : c[i] \in Message({"CON", "ACK"})
  BY <1>2 DEF TypeOK, Message
<1>4. Resent(c) \subseteq DOMAIN c
  BY DEF Resent, Due
<1> DEFINE q == process(c, delay)
<1>5. /\ DOMAIN q = DOMAIN c \ Expired(c)
      /\ \A i \in Resent(c) :
           /\ i \in DOMAIN q
           /\ q[i].transmit_count = c[i].transmit_count + 1
           /\ q[i].delivered = c[i].delivered
           /\ q[i] \in Message({"CON"})
           /\ c[i].transmit_count <= MAX_RETRANSMIT
      /\ \A i \in DOMAIN q \ Resent(c) : q[i] = c[i]
  <2>1. DOMAIN q = DOMAIN c \ Expired(c)
    BY <1>3, ProcessFacts, Zenon
  <2>2. \A i \in DOMAIN q \ Resent(c) : q[i] = c[i]
    BY <1>3, ProcessFacts, Zenon
  <2>3. ASSUME NEW i \in Resent(c)
        PROVE  /\ i \in DOMAIN q
               /\ q[i].transmit_count = c[i].transmit_count + 1
               /\ q[i].delivered = c[i].delivered
               /\ q[i] \in Message({"CON"})
               /\ c[i].transmit_count <= MAX_RETRANSMIT
    BY <1>3, ProcessFacts, Zenon
  <2> QED
    BY <2>1, <2>2, <2>3
<1> HIDE DEF q
<1>6. client' = q
  BY DEF q
<1>7. /\ DOMAIN client' = DOMAIN c \ Expired(c) /\ DOMAIN client' \subseteq DOMAIN client
      /\ DOMAIN client' \subseteq Ids
  BY <1>2, <1>5, <1>6
<1>8. \A i \in DOMAIN client' : /\ client'[i] \in Message({"CON"})
                                /\ client'[i].delivered = client[i].delivered
  BY <1>2, <1>5, <1>6
<1>9. \A i \in DOMAIN client : client[i].transmit_count \in Nat /\ sent[i] = client[i].transmit_count
  BY DEF CountInv, TypeOK, Message
<1>10. ASSUME NEW i \in DOMAIN c \ DOMAIN client'
       PROVE  /\ c[i] = client[i]
              /\ client[i].transmit_count = MAX_RETRANSMIT + 1
              /\ time_has_passed(now, client[i].timeout)
  <2>1. i \in Expired(c)
    BY <1>7, <1>10
  <2>2. c[i] = client[i] /\ time_has_passed(now, client[i].timeout) /\ ~prepare_retransmit(client[i])
    BY <1>2, <2>1, ExpiredFacts
  <2>3. client[i].type = "CON" /\ client[i].transmit_count \in Nat
        /\ client[i].transmit_count <= MAX_RETRANSMIT + 1
    BY <1>2, <1>9 DEF Message, CountInv
  <2> QED
    BY <1>1, <2>2, <2>3 DEF prepare_retransmit
<1>11. Resent(c) \in SUBSET Ids
  BY <1>2, <1>4
<1>12. \A i \in Ids : sent'[i] = IF i \in Resent(c) THEN sent[i] + 1 ELSE sent[i]
  <2>1. {} \in SUBSET Ids /\ {} \cap Resent(c) = {}
    OBVIOUS
  <2>2. \A i \in Ids : sent'[i] = IF i \in {} THEN 1
                                   ELSE IF i \in Resent(c) THEN sent[i] + 1 ELSE sent[i]
    BY <1>11, <2>1, TransmitFacts, Zenon
  <2> QED
    BY <2>2
<1>13. CountInv'
  <2>1. ASSUME NEW i \in DOMAIN client' PROVE sent'[i] = client'[i].transmit_count
    <3>1. i \in Ids /\ i \in DOMAIN client /\ c[i] = client[i] /\ sent[i] = client[i].transmit_count
      BY <1>2, <1>7, <1>9
    <3>2. CASE i \in Resent(c)
      BY <1>5, <1>6, <1>12, <3>1, <3>2
    <3>3. CASE i \notin Resent(c)
      BY <1>5, <1>6, <1>12, <3>1, <3>3
    <3> QED
      BY <3>2, <3>3
  <2>2. ASSUME NEW i \in Ids PROVE sent'[i] <= MAX_RETRANSMIT + 1
    <3>1. sent[i] \in Nat /\ sent[i] <= MAX_RETRANSMIT + 1
      BY DEF TypeOK, CountInv
    <3>2. CASE i \in Resent(c)
      <4>1. sent[i] <= MAX_RETRANSMIT
        BY <1>2, <1>4, <1>5, <1>9, <3>2
      <4> QED
        BY <1>1, <1>12, <3>1, <3>2, <4>1
    <3>3. CASE i \notin Resent(c)
      BY <1>12, <3>1, <3>3
    <3> QED
      BY <3>2, <3>3
  <2> QED
    BY <2>1, <2>2 DEF CountInv
<1> QED
  BY <1>7, <1>8, <1>10, <1>11, <1>13

(* Background processing of the server store drops what has timed out and   *)
(* changes nothing else.                                                    *)
LEMMA ServerStep ==
  ASSUME NEW s, server' = process(s, <<>>),
         \A i \in DOMAIN s : s[i].transmit_count = MAX_RETRANSMIT + 2
  PROVE  /\ DOMAIN server' \subseteq DOMAIN s
         /\ \A i \in DOMAIN server' : server'[i] = s[i]
         /\ \A i \in DOMAIN s \ DOMAIN server' : time_has_passed(now, s[i].timeout)
<1>1. MAX_RETRANSMIT \in Nat
  BY TimeAssumption
<1>2. \A i \in DOMAIN s : ~prepare_retransmit(s[i])
  BY <1>1 DEF prepare_retransmit
<1>3. Resent(s) = {}
  BY <1>2 DEF Resent, Due
<1>4. DOMAIN server' = DOMAIN s \ Expired(s)
  BY DEF process
<1>5. \A i \in DOMAIN server' : server'[i] = s[i]
  BY <1>3, <1>4 DEF process
<1> QED
  BY <1>4, <1>5, ExpiredFacts

(* A transmission adds answers to messages that reached the cloud, which    *)
(* are as new as can be.                                                    *)
LEMMA LinkStep ==
  ASSUME TypeOK, AnswerInv, RequestInv, now' = now, confirmed' = confirmed,
         NEW fresh \in SUBSET Ids, NEW again \in SUBSET Ids, fresh \cap again = {},
         Transmit(fresh, again)
  PROVE  /\ sent' \in [Ids -> Nat] /\ reached \subseteq reached' /\ reached' \subseteq Ids
         /\ link \subseteq link'
         /\ link' \subseteq [type : {"CON", "ACK", "RESET"}, id : Ids \cup CloudIds, born : Ticks]
         /\ AnswerInv'
         /\ \A d \in link' : /\ Age(d)' < MAX_TRANSMIT_SPAN
                             /\ d.type = "CON" => d.id \in CloudIds /\ d \in link
<1>1. /\ sent' \in [Ids -> Nat] /\ reached \subseteq reached' /\ reached' \subseteq Ids
      /\ link \subseteq link'
      /\ \A d \in link' \ link : /\ d \in [type : {"ACK", "RESET"}, id : Ids, born : {now}]
                                 /\ d.id \in reached'
  BY TransmitFacts, Zenon
<1>2. now \in Ticks /\ TickMod \in Nat \ {0} /\ MAX_TRANSMIT_SPAN \in Nat \ {0}
  BY ModAssumption, TimeAssumption DEF TypeOK
<1>3. link' \subseteq [type : {"CON", "ACK", "RESET"}, id : Ids \cup CloudIds, born : Ticks]
  BY <1>1, <1>2 DEF TypeOK
<1>4. AnswerInv'
  BY <1>1 DEF AnswerInv
<1>5. ASSUME NEW d \in link'
      PROVE  /\ Age(d)' < MAX_TRANSMIT_SPAN
             /\ d.type = "CON" => d.id \in CloudIds /\ d \in link
  <2>1. CASE d \in link
    BY <2>1 DEF RequestInv, Age
  <2>2. CASE d \notin link
    <3>1. d.type # "CON" /\ d.born = now
      BY <1>1, <2>2
    <3>2. (now - now) % TickMod = 0
      BY <1>2, ModDifference DEF Ticks
    <3> QED
      BY <1>2, <3>1, <3>2 DEF Age
  <2> QED
    BY <2>1, <2>2
<1> QED
  BY <1>1, <1>3, <1>4, <1>5

(* The part of the invariant about requests, when the stores are processed. *)
LEMMA KeptStep ==
  ASSUME TypeOK, now' = now, NEW s, NEW h, Kept(s, h),
         \A d \in link : Age(d) < MAX_TRANSMIT_SPAN /\ (d.type = "CON" => d.id \in CloudIds),
         \A d \in link' : /\ Age(d)' < MAX_TRANSMIT_SPAN
                          /\ d.type = "CON" => d.id \in CloudIds /\ d \in link,
         \A i \in DOMAIN s : s[i].timeout \in Ticks,
         \A i \in DOMAIN server' : server'[i] = s[i],
         \A i \in DOMAIN s \ DOMAIN server' : time_has_passed(now, s[i].timeout),
         handled' = h
  PROVE  Kept(server, handled)'
<1> SUFFICES ASSUME NEW d \in link', d.type = "CON", h[d.id] = 1
             PROVE  /\ d.id \in DOMAIN server'
                    /\ Until(server[d.id].timeout)' <= MAX_TRANSMIT_SPAN
                    /\ Until(server[d.id].timeout)' + Age(d)' >= MAX_TRANSMIT_SPAN
  BY DEF Kept, Until, Age
<1>1. d \in link /\ Age(d) < MAX_TRANSMIT_SPAN /\ Age(d)' = Age(d)
  <2>1. d \in link
    BY Zenon
  <2>2. Age(d)' = Age(d)
    BY DEF Age
  <2> QED
    BY <2>1, <2>2
<1>2. /\ d.id \in DOMAIN s
      /\ Until(s[d.id].timeout) <= MAX_TRANSMIT_SPAN
      /\ Until(s[d.id].timeout) + Age(d) >= MAX_TRANSMIT_SPAN
  BY <1>1 DEF Kept
<1>3. now \in Ticks /\ s[d.id].timeout \in Ticks /\ d.born \in Ticks
  BY <1>1, <1>2 DEF TypeOK
<1>4. /\ TickMod \in Nat \ {0} /\ MAX_TRANSMIT_SPAN \in Nat /\ MAX_TRANSMIT_SPAN < HalfRange
      /\ HalfRange \in Nat
  BY ModAssumption, TimeAssumption DEF HalfRange
<1>5. Until(s[d.id].timeout) \in Nat /\ Age(d) \in Nat
  BY <1>3, <1>4 DEF Until, Age, Ticks
<1>6. (s[d.id].timeout - now) % TickMod > 0 /\ (s[d.id].timeout - now) % TickMod < HalfRange
  BY <1>1, <1>2, <1>4, <1>5 DEF Until
<1>7. ~time_has_passed(now, s[d.id].timeout)
  BY <1>3, <1>6, NotYetPassed
<1>8. d.id \in DOMAIN server' /\ server'[d.id] = s[d.id]
  BY <1>2, <1>7
<1>9. Until(server[d.id].timeout)' = Until(s[d.id].timeout)
  BY <1>8 DEF Until
<1> QED
  BY <1>1, <1>2, <1>8, <1>9

(* The part of the invariant about requests, when only answers are added to *)
(* the link.                                                                *)
LEMMA RequestsUntouched ==
  ASSUME RequestInv, now' = now, server' = server, handled' = handled,
         \A e \in link' : /\ Age(e)' < MAX_TRANSMIT_SPAN
                          /\ e.type = "CON" => e.id \in CloudIds /\ e \in link
  PROVE  RequestInv'
<1>1. ASSUME NEW e \in link', e.type = "CON", handled'[e.id] = 1
      PROVE  /\ e.id \in DOMAIN server'
             /\ Until(server[e.id].timeout)' <= MAX_TRANSMIT_SPAN
             /\ Until(server[e.id].timeout)' + Age(e)' >= MAX_TRANSMIT_SPAN
  <2>1. e \in link /\ handled[e.id] = 1
    BY <1>1, Zenon
  <2>2. /\ e.id \in DOMAIN server
        /\ Until(server[e.id].timeout) <= MAX_TRANSMIT_SPAN
        /\ Until(server[e.id].timeout) + Age(e) >= MAX_TRANSMIT_SPAN
    BY <1>1, <2>1, Zenon DEF RequestInv, Kept
  <2>3. Until(server[e.id].timeout)' = Until(server[e.id].timeout) /\ Age(e)' = Age(e)
    BY DEF Until, Age
  <2> QED
    BY <2>2, <2>3
<1>2. Kept(server, handled)'
  BY <1>1, Zenon DEF Kept
<1>3. /\ \A i \in DOMAIN server' : server'[i].transmit_count = MAX_RETRANSMIT + 2
      /\ \A i \in CloudIds : handled'[i] <= 1
  BY DEF RequestInv
<1> QED
  BY <1>2, <1>3, Zenon DEF RequestInv

-----------------------------------------------------------------------------
(* The steps.                                                               *)

(* The invariant holds at the beginning. *)
LEMMA InitIInv == Init => IInv
<1> SUFFICES ASSUME Init PROVE IInv
  OBVIOUS
<1> USE ModAssumption, TimeAssumption DEF Init
<1>1. DOMAIN client = {} /\ DOMAIN server = {}
  OBVIOUS
<1>2. TypeOK
  BY <1>1 DEF TypeOK, Ids, NoSync
<1>3. CountInv
  BY <1>1 DEF CountInv
<1>4. SyncInv /\ AnswerInv
  BY <1>1 DEF SyncInv, AnswerInv
<1>5. RequestInv
  BY <1>1 DEF RequestInv, Kept
<1> QED
  BY <1>2, <1>3, <1>4, <1>5 DEF IInv

(* A confirmable message takes a new id: with a handler only for a          *)
(* synchronous send whose transmission did not fail.                        *)
LEMMA SendStep ==
  ASSUME IInv, sync = NoSync, message_id' = next_message_id,
         NEW d \in transmit_timeout(0), NEW handler \in BOOLEAN,
         client' = Add(client, next_message_id, Confirmable((now + d) % TickMod, handler)),
         Transmit({next_message_id}, {}),
         \/ sync' = NoSync /\ ~handler
         \/ sync' = [id |-> next_message_id, error |-> IF handler THEN "none" ELSE "io"],
         UNCHANGED <<now, lag, server, owed, confirmed, handled>>
  PROVE  IInv'
<1> DEFINE id == next_message_id
<1>1. id \in Ids /\ id # -1 /\ MAX_RETRANSMIT \in Nat
  BY ModAssumption, TimeAssumption DEF IInv, TypeOK, next_message_id, Ids
<1>2. (now + d) % TickMod \in Ticks
  BY TimeoutFacts DEF IInv, TypeOK
<1> DEFINE m == Confirmable((now + d) % TickMod, handler)
<1>3. m \in Message({"CON"}) /\ m.transmit_count = 1 /\ m.delivered = handler
  <2> DEFINE t == (now + d) % TickMod
  <2> HIDE DEF t
  <2>1. t \in Ticks /\ m = Confirmable(t, handler)
    BY <1>2 DEF t
  <2> HIDE DEF m
  <2>2. m = [type |-> "CON", timeout |-> t, transmit_count |-> 1, delivered |-> handler]
    BY <2>1 DEF Confirmable
  <2> QED
    BY <1>1, <2>1, <2>2 DEF Message
<1> HIDE DEF m, id
<1>4. /\ DOMAIN client' = DOMAIN client \cup {id} /\ client'[id] = m
      /\ \A i \in DOMAIN client \ {id} : client'[i] = client[i]
  BY DEF Add, m, id
<1>5. /\ {id} \in SUBSET Ids /\ {} \in SUBSET Ids /\ {id} \cap {} = {} /\ Transmit({id}, {})
      /\ now' = now /\ confirmed' = confirmed
  BY <1>1 DEF id
<1>6. TypeOK /\ AnswerInv /\ RequestInv /\ CountInv /\ SyncInv
  BY DEF IInv
<1>7. /\ sent' \in [Ids -> Nat] /\ reached \subseteq reached' /\ reached' \subseteq Ids
      /\ link' \subseteq [type : {"CON", "ACK", "RESET"}, id : Ids \cup CloudIds, born : Ticks]
      /\ AnswerInv'
      /\ \A e \in link' : /\ Age(e)' < MAX_TRANSMIT_SPAN
                          /\ e.type = "CON" => e.id \in CloudIds /\ e \in link
  BY <1>5, <1>6, LinkStep, Zenon
<1>8. \A i \in Ids : sent'[i] = IF i = id THEN 1 ELSE sent[i]
  BY <1>5 DEF Transmit
<1>9. TypeOK'
  <2>1. sync' \in [id : Ids, error : {"none", "io", "reset", "timeout"}] \cup {NoSync}
    BY <1>1 DEF id
  <2>2. DOMAIN client' \subseteq Ids /\ \A i \in DOMAIN client' : client'[i] \in Message({"CON"})
    BY <1>1, <1>3, <1>4, <1>6 DEF TypeOK
  <2> QED
    BY <1>1, <1>6, <1>7, <2>1, <2>2 DEF TypeOK, id
<1>10. CountInv'
  BY <1>1, <1>3, <1>4, <1>6, <1>8 DEF CountInv, TypeOK
<1>11. SyncInv'
  <2>1. \A i \in DOMAIN client : ~client[i].delivered
    BY <1>6 DEF SyncInv, NoSync, TypeOK, Ids, Message
  <2>2. CASE sync' = NoSync /\ ~handler
    BY <1>1, <1>3, <1>4, <1>6, <2>1, <2>2 DEF SyncInv, NoSync, TypeOK, Ids
  <2>3. CASE sync' = [id |-> id, error |-> IF handler THEN "none" ELSE "io"]
    BY <1>3, <1>4, <2>1, <2>3 DEF SyncInv
  <2> QED
    BY <2>2, <2>3 DEF id
<1>12. RequestInv'
  BY <1>6, <1>7, RequestsUntouched, Zenon
<1> QED
  BY <1>7, <1>9, <1>10, <1>11, <1>12 DEF IInv

(* What receive does after it has dealt with its datagram, while no         *)
(* synchronous send is waiting.                                             *)
LEMMA StoresStep ==
  ASSUME IInv, sync = NoSync, NEW id, NEW c, c = Remove(client, id) \/ c = client,
         NEW s, NEW h, ProcessStores(c, s), handled' = h,
         DOMAIN s \subseteq CloudIds,
         \A i \in DOMAIN s : /\ s[i] \in Message({"CON", "ACK"})
                             /\ s[i].transmit_count = MAX_RETRANSMIT + 2,
         h \in [CloudIds -> Nat], \A i \in CloudIds : h[i] <= 1, Kept(s, h),
         owed' \subseteq CloudIds, UNCHANGED <<now, message_id, sync, confirmed>>
  PROVE  IInv'
<1>1. TypeOK /\ AnswerInv /\ RequestInv /\ CountInv /\ SyncInv
  BY DEF IInv
<1>2. PICK delay \in Delays(c) : client' = process(c, delay)
  BY DEF ProcessStores
<1>3. server' = process(s, <<>>) /\ Transmit({}, Resent(c)) /\ lag' = 0
  BY DEF ProcessStores
<1>4. /\ DOMAIN client' \subseteq DOMAIN client
      /\ DOMAIN client' \subseteq Ids
      /\ \A i \in DOMAIN client' : /\ client'[i] \in Message({"CON"})
                                   /\ client'[i].delivered = client[i].delivered
      /\ CountInv'
      /\ Resent(c) \in SUBSET Ids
  BY <1>1, <1>2, <1>3, ClientStep, Zenon
<1>5. now' = now /\ confirmed' = confirmed /\ {} \in SUBSET Ids /\ {} \cap Resent(c) = {}
  OBVIOUS
<1>6. /\ sent' \in [Ids -> Nat] /\ reached \subseteq reached' /\ reached' \subseteq Ids
      /\ link' \subseteq [type : {"CON", "ACK", "RESET"}, id : Ids \cup CloudIds, born : Ticks]
      /\ AnswerInv'
      /\ \A e \in link' : /\ Age(e)' < MAX_TRANSMIT_SPAN
                          /\ e.type = "CON" => e.id \in CloudIds /\ e \in link
  BY <1>1, <1>3, <1>4, <1>5, LinkStep, Zenon
<1>7. /\ DOMAIN server' \subseteq DOMAIN s
      /\ \A i \in DOMAIN server' : server'[i] = s[i]
      /\ \A i \in DOMAIN s \ DOMAIN server' : time_has_passed(now, s[i].timeout)
  BY <1>3, ServerStep, Zenon
<1>8. TypeOK'
  <2>1. lag' \in 0 .. MaxLag
    BY <1>3, TimeAssumption
  <2>2. /\ DOMAIN server' \subseteq CloudIds
        /\ \A i \in DOMAIN server' : server'[i] \in Message({"CON", "ACK"})
    BY <1>7
  <2> QED
    BY <1>1, <1>4, <1>6, <2>1, <2>2 DEF TypeOK
<1>9. SyncInv'
  <2>1. \A i \in DOMAIN client' : client'[i].delivered => sync'.id = i
    BY <1>1, <1>4 DEF SyncInv
  <2>2. sync'.id \notin DOMAIN client'
    BY <1>4 DEF NoSync, Ids
  <2> QED
    BY <2>1, <2>2 DEF SyncInv
<1>10. RequestInv'
  <2>1. \A i \in DOMAIN s : s[i].timeout \in Ticks
    BY DEF Message
  <2>2. \A e \in link : Age(e) < MAX_TRANSMIT_SPAN /\ (e.type = "CON" => e.id \in CloudIds)
    BY <1>1 DEF RequestInv
  <2>3. Kept(server, handled)'
    BY <1>1, <1>5, <1>6, <1>7, <2>1, <2>2, KeptStep, Zenon
  <2>4. \A i \in DOMAIN server' : server'[i].transmit_count = MAX_RETRANSMIT + 2
    BY <1>7
  <2>5. \A i \in CloudIds : handled'[i] <= 1
    OBVIOUS
  <2> QED
    BY <1>6, <2>3, <2>4, <2>5, Zenon DEF RequestInv
<1> QED
  BY <1>4, <1>6, <1>8, <1>9, <1>10 DEF IInv

(* Receiving an answer, or nothing. *)
LEMMA ReceiveAnswerStep ==
  ASSUME IInv, ReceiveAnswer
  PROVE  IInv'
<1>1. PICK id : ProcessStores(Remove(client, id), server)
  BY DEF ReceiveAnswer
<1>2. /\ sync = NoSync /\ UNCHANGED <<now, message_id, sync, confirmed>>
      /\ handled' = handled /\ owed' = owed
  BY DEF ReceiveAnswer
<1>3. /\ DOMAIN server \subseteq CloudIds /\ handled \in [CloudIds -> Nat] /\ owed' \subseteq CloudIds
      /\ \A i \in DOMAIN server : /\ server[i] \in Message({"CON", "ACK"})
                                  /\ server[i].transmit_count = MAX_RETRANSMIT + 2
      /\ Kept(server, handled) /\ \A i \in CloudIds : handled[i] <= 1
  BY <1>2 DEF IInv, TypeOK, RequestInv
<1> QED
  BY <1>1, <1>2, <1>3, StoresStep, Zenon

(* Receiving a request while the application wants confirmations only. *)
LEMMA ReceiveConfirmationsStep ==
  ASSUME IInv, ReceiveConfirmations
  PROVE  IInv'
<1>1. ProcessStores(client, server)
  BY DEF ReceiveConfirmations
<1>2. /\ sync = NoSync /\ UNCHANGED <<now, message_id, sync, confirmed>>
      /\ handled' = handled /\ owed' = owed
  BY DEF ReceiveConfirmations
<1>3. /\ DOMAIN server \subseteq CloudIds /\ handled \in [CloudIds -> Nat] /\ owed' \subseteq CloudIds
      /\ \A i \in DOMAIN server : /\ server[i] \in Message({"CON", "ACK"})
                                  /\ server[i].transmit_count = MAX_RETRANSMIT + 2
      /\ Kept(server, handled) /\ \A i \in CloudIds : handled[i] <= 1
  BY <1>2 DEF IInv, TypeOK, RequestInv
<1> QED
  BY <1>1, <1>2, <1>3, StoresStep, Zenon

(* A message put into the server store now will be there for long enough.   *)
LEMMA RememberFacts ==
  ASSUME IInv, NEW id \in CloudIds, NEW type \in {"CON", "ACK"}, NEW h,
         \A i \in CloudIds \ {id} : h[i] = handled[i]
  PROVE  LET s == Add(server, id, set_expiration(type))
         IN /\ DOMAIN s \subseteq CloudIds
            /\ \A i \in DOMAIN s : /\ s[i] \in Message({"CON", "ACK"})
                                   /\ s[i].transmit_count = MAX_RETRANSMIT + 2
            /\ Kept(s, h)
<1> DEFINE s == Add(server, id, set_expiration(type))
<1> DEFINE m == set_expiration(type)
<1>1. /\ TickMod \in Nat \ {0} /\ MAX_TRANSMIT_SPAN \in Nat /\ MAX_TRANSMIT_SPAN < HalfRange
      /\ MAX_RETRANSMIT \in Nat /\ MAX_TRANSMIT_SPAN \in 0 .. TickMod - 1 /\ now \in Ticks
  BY ModAssumption, TimeAssumption DEF HalfRange, IInv, TypeOK
<1>2. /\ (now + MAX_TRANSMIT_SPAN) % TickMod \in Ticks
      /\ (((now + MAX_TRANSMIT_SPAN) % TickMod) - now) % TickMod = MAX_TRANSMIT_SPAN
  BY <1>1, AheadFacts
<1>3. m = [type |-> type, timeout |-> (now + MAX_TRANSMIT_SPAN) % TickMod,
           transmit_count |-> MAX_RETRANSMIT + 2, delivered |-> FALSE]
  BY DEF set_expiration
<1>4. /\ m \in Message({"CON", "ACK"}) /\ m.transmit_count = MAX_RETRANSMIT + 2
      /\ m.timeout = (now + MAX_TRANSMIT_SPAN) % TickMod
  <2> DEFINE t == (now + MAX_TRANSMIT_SPAN) % TickMod
  <2>1. t \in Ticks
    BY <1>2
  <2> HIDE DEF t, m
  <2>2. m = [type |-> type, timeout |-> t, transmit_count |-> MAX_RETRANSMIT + 2,
             delivered |-> FALSE]
    BY <1>3 DEF t
  <2>3. MAX_RETRANSMIT + 2 \in 0 .. MAX_RETRANSMIT + 2
    BY <1>1
  <2>4. m.timeout = (now + MAX_TRANSMIT_SPAN) % TickMod
    BY <2>2 DEF t
  <2> QED
    BY <2>1, <2>2, <2>3, <2>4 DEF Message
<1> HIDE DEF m
<1>5. DOMAIN s = DOMAIN server \cup {id} /\ s[id] = m /\ \A i \in DOMAIN server \ {id} : s[i] = server[i]
  BY DEF Add, m
<1> HIDE DEF s
<1>6. /\ DOMAIN s \subseteq CloudIds
      /\ \A i \in DOMAIN s : /\ s[i] \in Message({"CON", "ACK"})
                             /\ s[i].transmit_count = MAX_RETRANSMIT + 2
  BY <1>4, <1>5 DEF IInv, TypeOK, RequestInv
<1>7. ASSUME NEW d \in link, d.type = "CON", h[d.id] = 1
      PROVE  /\ d.id \in DOMAIN s
             /\ Until(s[d.id].timeout) <= MAX_TRANSMIT_SPAN
             /\ Until(s[d.id].timeout) + Age(d) >= MAX_TRANSMIT_SPAN
  <2>1. d.id \in CloudIds /\ d.born \in Ticks
    BY <1>7 DEF IInv, TypeOK, RequestInv
  <2>2. Age(d) \in Nat
    BY <1>1, <2>1 DEF Age, Ticks
  <2>3. CASE d.id = id
    <3>1. Until(s[d.id].timeout) = MAX_TRANSMIT_SPAN
      BY <1>2, <1>4, <1>5, <2>3 DEF Until
    <3> QED
      BY <1>1, <1>5, <2>2, <2>3, <3>1
  <2>4. CASE d.id # id
    <3>1. /\ d.id \in DOMAIN server
          /\ Until(server[d.id].timeout) <= MAX_TRANSMIT_SPAN
          /\ Until(server[d.id].timeout) + Age(d) >= MAX_TRANSMIT_SPAN
      BY <1>7, <2>1, <2>4, Zenon DEF IInv, RequestInv, Kept
    <3> QED
      BY <1>5, <2>4, <3>1
  <2> QED
    BY <2>3, <2>4
<1>8. Kept(s, h)
  BY <1>7 DEF Kept
<1> QED
  BY <1>6, <1>8 DEF s

(* Receiving a request of the cloud: one that the server store does not     *)
(* know has not been given to the application before.                       *)
LEMMA ReceiveRequestStep ==
  ASSUME IInv, NEW id \in CloudIds, ReceiveRequest(id)
  PROVE  IInv'
<1>1. PICK d \in link : d.type = "CON" /\ d.id = id
  BY DEF ReceiveRequest
<1>2. sync = NoSync /\ UNCHANGED <<now, message_id, sync, confirmed>>
  BY DEF ReceiveRequest
<1>3. /\ owed \subseteq CloudIds /\ handled \in [CloudIds -> Nat]
      /\ \A i \in CloudIds : handled[i] <= 1
  BY DEF IInv, TypeOK, RequestInv
<1>4. CASE id \in DOMAIN server
  <2>1. ProcessStores(client, server) /\ handled' = handled /\ owed' = owed
    BY <1>4 DEF ReceiveRequest
  <2>2. /\ DOMAIN server \subseteq CloudIds /\ owed' \subseteq CloudIds
        /\ \A i \in DOMAIN server : /\ server[i] \in Message({"CON", "ACK"})
                                    /\ server[i].transmit_count = MAX_RETRANSMIT + 2
        /\ Kept(server, handled)
    BY <1>3, <2>1 DEF IInv, TypeOK, RequestInv
  <2> QED
    BY <1>2, <1>3, <2>1, <2>2, StoresStep, Zenon
<1>5. CASE id \notin DOMAIN server
  <2> DEFINE s == Add(server, id, set_expiration("CON"))
  <2> DEFINE h == [handled EXCEPT ![id] = @ + 1]
  <2>1. ProcessStores(client, s) /\ handled' = h /\ owed' = owed \cup {id}
    BY <1>5 DEF ReceiveRequest
  <2>2. handled[id] = 0
    <3>1. handled[id] # 1
      BY <1>1, <1>5, Zenon DEF IInv, RequestInv, Kept
    <3> QED
      BY <1>3, <3>1
  <2>3. /\ h \in [CloudIds -> Nat] /\ \A i \in CloudIds : h[i] <= 1
        /\ \A i \in CloudIds \ {id} : h[i] = handled[i]
        /\ owed' \subseteq CloudIds
    BY <1>3, <2>1, <2>2
  <2> HIDE DEF h
  <2>4. /\ DOMAIN s \subseteq CloudIds
        /\ \A i \in DOMAIN s : /\ s[i] \in Message({"CON", "ACK"})
                               /\ s[i].transmit_count = MAX_RETRANSMIT + 2
        /\ Kept(s, h)
    BY <2>3, RememberFacts, "CON" \in {"CON", "ACK"}, Zenon
  <2> HIDE DEF s
  <2> QED
    BY <1>2, <2>1, <2>3, <2>4, StoresStep, Zenon
<1> QED
  BY <1>4, <1>5

(* The application answers a request: the answer is remembered in its place. *)
LEMMA RespondStep ==
  ASSUME IInv, NEW id \in CloudIds, Respond(id)
  PROVE  IInv'
<1> DEFINE s == Add(server, id, set_expiration("ACK"))
<1>1. /\ server' = s /\ owed' = owed \ {id}
      /\ UNCHANGED <<now, lag, message_id, client, sync, link, sent, reached, confirmed, handled>>
  BY DEF Respond
<1>2. /\ DOMAIN s \subseteq CloudIds
      /\ \A i \in DOMAIN s : /\ s[i] \in Message({"CON", "ACK"})
                             /\ s[i].transmit_count = MAX_RETRANSMIT + 2
      /\ Kept(s, handled)
  BY RememberFacts, "ACK" \in {"CON", "ACK"}, Zenon
<1> HIDE DEF s
<1>3. TypeOK'
  BY <1>1, <1>2 DEF IInv, TypeOK
<1>4. CountInv' /\ SyncInv' /\ AnswerInv'
  BY <1>1 DEF IInv, CountInv, SyncInv, AnswerInv
<1>5. Kept(server, handled)'
  BY <1>1, <1>2 DEF Kept, Until, Age
<1>6. RequestInv'
  BY <1>1, <1>2, <1>5 DEF IInv, RequestInv, Age
<1> QED
  BY <1>3, <1>4, <1>6 DEF IInv

(* A non-confirmable message leaves no trace in the stores. *)
LEMMA SendNonConfirmableStep ==
  ASSUME IInv, SendNonConfirmable
  PROVE  IInv'
<1>1. TypeOK /\ AnswerInv /\ RequestInv /\ CountInv /\ SyncInv
  BY DEF IInv
<1>2. /\ message_id' = next_message_id /\ Transmit({}, {})
      /\ UNCHANGED <<now, lag, client, server, sync, owed, confirmed, handled>>
  BY DEF SendNonConfirmable
<1>3. now' = now /\ confirmed' = confirmed /\ {} \in SUBSET Ids /\ {} \cap {} = {}
  BY <1>2
<1>4. /\ sent' \in [Ids -> Nat] /\ reached \subseteq reached' /\ reached' \subseteq Ids
      /\ link' \subseteq [type : {"CON", "ACK", "RESET"}, id : Ids \cup CloudIds, born : Ticks]
      /\ AnswerInv'
      /\ \A e \in link' : /\ Age(e)' < MAX_TRANSMIT_SPAN
                          /\ e.type = "CON" => e.id \in CloudIds /\ e \in link
  BY <1>1, <1>2, <1>3, LinkStep, Zenon
<1>5. sent' = sent
  BY <1>1, <1>2 DEF Transmit, TypeOK
<1>6. next_message_id \in Ids
  BY <1>1, ModAssumption DEF TypeOK, next_message_id, Ids
<1>7. TypeOK'
  BY <1>1, <1>2, <1>4, <1>6 DEF TypeOK
<1>8. CountInv' /\ SyncInv'
  BY <1>1, <1>2, <1>4, <1>5 DEF CountInv, SyncInv
<1>9. server' = server /\ handled' = handled
  BY <1>2
<1>10. RequestInv'
  BY <1>1, <1>3, <1>4, <1>9, RequestsUntouched, Zenon
<1> QED
  BY <1>4, <1>7, <1>8, <1>10 DEF IInv

(* A turn of the loop of a synchronous send: the message it waits for       *)
(* leaves the store with an answer or with an error.                        *)
LEMMA SyncTurnStep ==
  ASSUME IInv, SyncTurn
  PROVE  IInv'
<1>1. TypeOK /\ AnswerInv /\ RequestInv /\ CountInv /\ SyncInv
  BY DEF IInv
<1>2. /\ sync.id \in DOMAIN client /\ sync.error = "none" /\ lag' = 0
      /\ UNCHANGED <<now, message_id, server, owed, confirmed, handled>>
  BY DEF SyncTurn
<1> DEFINE Taken(d) == IF d.type \in {"ACK", "RESET"} THEN Remove(client, d.id) ELSE client
<1> DEFINE Error(d, c) == CASE Flagged(c, client') -> "timeout"
                            [] d.type = "ERROR" -> "io"
                            [] d.type = "RESET" /\ Flagged(client, c) -> "reset"
                            [] OTHER -> "none"
<1>3. PICK d \in link \cup {[type |-> t, id |-> -1, born |-> now] : t \in {"NONE", "ERROR"}} :
        /\ \E delay \in Delays(Taken(d)) : client' = process(Taken(d), delay)
        /\ sync' = [sync EXCEPT !.error = Error(d, Taken(d))]
        /\ Transmit({}, Resent(Taken(d)))
  BY DEF SyncTurn
<1> DEFINE c == Taken(d)
<1>4. PICK delay \in Delays(c) : client' = process(c, delay)
  BY <1>3
<1>5. /\ DOMAIN c = DOMAIN client \/ DOMAIN c = DOMAIN client \ {d.id}
      /\ c = Remove(client, d.id) \/ c = client
      /\ \A i \in DOMAIN client \ DOMAIN c : d.type \in {"ACK", "RESET"} /\ i = d.id
      /\ \A i \in DOMAIN c : c[i] = client[i]
  BY DEF Remove
<1> HIDE DEF Taken
<1>6. Transmit({}, Resent(c))
  BY <1>3
<1> HIDE DEF c
<1>7. /\ DOMAIN client' = DOMAIN c \ Expired(c) /\ DOMAIN client' \subseteq DOMAIN client
      /\ DOMAIN client' \subseteq Ids
      /\ \A i \in DOMAIN client' : /\ client'[i] \in Message({"CON"})
                                   /\ client'[i].delivered = client[i].delivered
      /\ CountInv'
      /\ Resent(c) \in SUBSET Ids
  BY <1>1, <1>4, <1>5, <1>6, ClientStep, Zenon
<1>8. now' = now /\ confirmed' = confirmed /\ {} \in SUBSET Ids /\ {} \cap Resent(c) = {}
  BY <1>2
<1>9. /\ sent' \in [Ids -> Nat] /\ reached \subseteq reached' /\ reached' \subseteq Ids
      /\ link' \subseteq [type : {"CON", "ACK", "RESET"}, id : Ids \cup CloudIds, born : Ticks]
      /\ AnswerInv'
      /\ \A e \in link' : /\ Age(e)' < MAX_TRANSMIT_SPAN
                          /\ e.type = "CON" => e.id \in CloudIds /\ e \in link
  BY <1>1, <1>6, <1>7, <1>8, LinkStep, Zenon
<1>10. sync \in [id : Ids, error : {"none", "io", "reset", "timeout"}] /\ sync.id \in Ids
  <2>1. sync.id \in Ids
    BY <1>1, <1>2 DEF TypeOK
  <2>2. sync # NoSync
    BY <2>1 DEF NoSync, Ids
  <2> QED
    BY <1>1, <2>1, <2>2 DEF TypeOK
<1>11. /\ sync'.id = sync.id /\ sync'.error = Error(d, c)
       /\ sync' \in [id : Ids, error : {"none", "io", "reset", "timeout"}]
  <2>1. sync' = [sync EXCEPT !.error = Error(d, c)]
    BY <1>3 DEF c
  <2>2. Error(d, c) \in {"none", "io", "reset", "timeout"}
    OBVIOUS
  <2> HIDE DEF Error
  <2> QED
    BY <1>10, <2>1, <2>2
<1>12. TypeOK'
  <2>1. lag' \in 0 .. MaxLag
    BY <1>2, TimeAssumption
  <2> QED
    BY <1>1, <1>2, <1>7, <1>9, <1>11, <2>1 DEF TypeOK
<1>13. client[sync.id].delivered /\ \A i \in DOMAIN client : client[i].delivered => i = sync.id
  BY <1>1, <1>2 DEF SyncInv
<1>14. SyncInv'
  <2>1. \A i \in DOMAIN client' : client'[i].delivered => sync'.id = i
    BY <1>7, <1>11, <1>13
  <2>2. ASSUME sync.id \in DOMAIN client'
        PROVE  sync'.error \in {"none", "io"} /\ client'[sync.id].delivered
    <3>1. ~Flagged(c, client')
      BY <1>5, <1>7, <1>13, <2>2 DEF Flagged
    <3>2. ~Flagged(client, c)
      BY <1>5, <1>7, <1>13, <2>2 DEF Flagged
    <3>3. sync'.error \in {"none", "io"}
      BY <1>11, <3>1, <3>2
    <3> QED
      BY <1>7, <1>13, <2>2, <3>3
  <2>3. ASSUME sync.id \notin DOMAIN client', sync'.error = "none"
        PROVE  sync.id \in reached'
    <3>1. ~Flagged(c, client')
      BY <1>11, <2>3
    <3>2. sync.id \notin DOMAIN c
      BY <1>2, <1>5, <1>13, <2>3, <3>1 DEF Flagged
    <3>3. d.type \in {"ACK", "RESET"} /\ sync.id = d.id
      BY <1>2, <1>5, <3>2
    <3>4. d \in link
      BY <3>3
    <3> QED
      BY <1>1, <1>9, <3>3, <3>4 DEF AnswerInv
  <2> QED
    BY <1>11, <2>1, <2>2, <2>3 DEF SyncInv
<1>15. server' = server /\ handled' = handled
  BY <1>2
<1>16. RequestInv'
  BY <1>1, <1>8, <1>9, <1>15, RequestsUntouched, Zenon
<1> QED
  BY <1>7, <1>9, <1>12, <1>14, <1>16 DEF IInv

(* send_synchronous returns. *)
LEMMA SyncReturnStep ==
  ASSUME IInv, SyncReturn
  PROVE  IInv'
<1>1. TypeOK /\ AnswerInv /\ RequestInv /\ CountInv /\ SyncInv
  BY DEF IInv
<1>2. /\ sync # NoSync /\ (sync.id \notin DOMAIN client \/ sync.error # "none")
      /\ client' = Remove(client, sync.id) /\ sync' = NoSync
      /\ confirmed' = IF sync.error = "none" THEN confirmed \cup {sync.id} ELSE confirmed
      /\ UNCHANGED <<now, lag, message_id, server, owed, link, sent, reached, handled>>
  BY DEF SyncReturn
<1>3. /\ DOMAIN client' = DOMAIN client \ {sync.id} /\ DOMAIN client \subseteq Ids
      /\ \A i \in DOMAIN client' : client'[i] = client[i]
  BY <1>1, <1>2 DEF Remove, TypeOK
<1>4. sync.error = "none" => sync.id \in reached
  BY <1>1, <1>2 DEF SyncInv
<1>5. confirmed' \subseteq reached /\ reached \subseteq Ids
  BY <1>1, <1>2, <1>4 DEF AnswerInv, TypeOK
<1>6. TypeOK'
  BY <1>1, <1>2, <1>3, <1>5 DEF TypeOK
<1>7. CountInv' /\ AnswerInv'
  BY <1>1, <1>2, <1>3, <1>5 DEF CountInv, AnswerInv
<1>8. SyncInv'
  BY <1>1, <1>2, <1>3 DEF SyncInv, NoSync, Ids
<1>9. RequestInv'
  BY <1>1, <1>2 DEF RequestInv, Kept, Until, Age
<1> QED
  BY <1>6, <1>7, <1>8, <1>9 DEF IInv

(* A new session, or one that is resumed. *)
LEMMA EstablishStep ==
  ASSUME IInv, Establish
  PROVE  IInv'
<1>1. TypeOK /\ AnswerInv /\ RequestInv /\ CountInv /\ SyncInv
  BY DEF IInv
<1>2. /\ DOMAIN client' = {} /\ DOMAIN server' = {} /\ link' \subseteq link /\ sync = NoSync
      /\ handled' \in [CloudIds -> {0}]
      /\ UNCHANGED <<now, lag, message_id, sync, owed, sent, reached, confirmed>>
  BY DEF Establish
<1>3. TypeOK'
  BY <1>1, <1>2 DEF TypeOK
<1>4. CountInv' /\ AnswerInv' /\ SyncInv'
  BY <1>1, <1>2 DEF CountInv, AnswerInv, SyncInv
<1>5. RequestInv'
  <2>1. \A i \in CloudIds : handled'[i] = 0
    BY <1>2
  <2>2. \A d \in link' : Age(d)' < MAX_TRANSMIT_SPAN /\ (d.type = "CON" => d.id \in CloudIds)
    BY <1>1, <1>2 DEF RequestInv, Age
  <2>3. Kept(server, handled)'
    BY <2>1, <2>2 DEF Kept
  <2> QED
    BY <1>2, <2>1, <2>2, <2>3 DEF RequestInv
<1> QED
  BY <1>3, <1>4, <1>5 DEF IInv

(* The cloud makes a request that it has not made before. *)
LEMMA CloudRequestStep ==
  ASSUME IInv, NEW id \in CloudIds, CloudRequest(id)
  PROVE  IInv'
<1>1. TypeOK /\ AnswerInv /\ RequestInv /\ CountInv /\ SyncInv
  BY DEF IInv
<1> DEFINE r == [type |-> "CON", id |-> id, born |-> now]
<1>2. /\ handled[id] = 0 /\ link' = link \cup {r}
      /\ UNCHANGED <<now, lag, message_id, client, server, sync, owed, sent, reached, confirmed,
                     handled>>
  BY DEF CloudRequest
<1>3. now \in Ticks /\ TickMod \in Nat \ {0} /\ MAX_TRANSMIT_SPAN \in Nat \ {0}
  BY <1>1, ModAssumption, TimeAssumption DEF TypeOK
<1>4. r \in [type : {"CON"}, id : CloudIds, born : Ticks]
  BY <1>3
<1>5. TypeOK'
  BY <1>1, <1>2, <1>4 DEF TypeOK
<1>6. CountInv' /\ AnswerInv' /\ SyncInv'
  BY <1>1, <1>2 DEF CountInv, AnswerInv, SyncInv
<1>7. (now - now) % TickMod = 0
  BY <1>3, ModDifference DEF Ticks
<1>8. Kept(server, handled)'
  <2> SUFFICES ASSUME NEW e \in link', e.type = "CON", handled'[e.id] = 1
               PROVE  /\ e.id \in DOMAIN server'
                      /\ Until(server[e.id].timeout)' <= MAX_TRANSMIT_SPAN
                      /\ Until(server[e.id].timeout)' + Age(e)' >= MAX_TRANSMIT_SPAN
    BY DEF Kept
  <2>1. e \in link
    BY <1>2
  <2> QED
    BY <1>1, <1>2, <2>1 DEF RequestInv, Kept, Until, Age
<1>9. \A e \in link' : Age(e)' < MAX_TRANSMIT_SPAN /\ (e.type = "CON" => e.id \in CloudIds)
  <2>1. ASSUME NEW e \in link' PROVE Age(e)' < MAX_TRANSMIT_SPAN
    <3>1. CASE e \in link
      BY <1>1, <1>2, <3>1 DEF RequestInv, Age
    <3>2. CASE e = r
      BY <1>2, <1>3, <1>7, <3>2 DEF Age
    <3> QED
      BY <1>2, <3>1, <3>2
  <2>2. \A e \in link' : e.type = "CON" => e.id \in CloudIds
    BY <1>1, <1>2 DEF RequestInv
  <2> QED
    BY <2>1, <2>2
<1>10. RequestInv'
  BY <1>1, <1>2, <1>8, <1>9 DEF RequestInv
<1> QED
  BY <1>5, <1>6, <1>10 DEF IInv

(* Time passes: what is remembered ages no faster than what may arrive. *)
LEMMA TickStep ==
  ASSUME IInv, Tick
  PROVE  IInv'
<1>1. TypeOK /\ AnswerInv /\ RequestInv /\ CountInv /\ SyncInv
  BY DEF IInv
<1>2. /\ now' = (now + 1) % TickMod /\ lag < MaxLag /\ lag' = lag + 1
      /\ link' = {d \in link : (now' - d.born) % TickMod < MAX_TRANSMIT_SPAN}
      /\ UNCHANGED <<message_id, client, server, sync, owed, sent, reached, confirmed, handled>>
  BY DEF Tick
<1>3. /\ now \in Ticks /\ TickMod \in Nat \ {0} /\ MAX_TRANSMIT_SPAN \in Nat \ {0}
      /\ MaxLag \in Nat /\ MAX_TRANSMIT_SPAN < TickMod - 1
  BY <1>1, ModAssumption, TimeAssumption DEF TypeOK, HalfRange
<1>4. now' \in Ticks
  BY <1>2, <1>3, TickFacts
<1>5. link' \subseteq link
  BY <1>2
<1>6. TypeOK'
  BY <1>1, <1>2, <1>3, <1>4, <1>5 DEF TypeOK
<1>7. CountInv' /\ AnswerInv' /\ SyncInv'
  BY <1>1, <1>2, <1>5 DEF CountInv, AnswerInv, SyncInv
<1>8. \A e \in link' : Age(e)' < MAX_TRANSMIT_SPAN /\ (e.type = "CON" => e.id \in CloudIds)
  BY <1>1, <1>2, <1>5 DEF RequestInv, Age
<1>9. Kept(server, handled)'
  <2> SUFFICES ASSUME NEW e \in link', e.type = "CON", handled'[e.id] = 1
               PROVE  /\ e.id \in DOMAIN server'
                      /\ Until(server[e.id].timeout)' <= MAX_TRANSMIT_SPAN
                      /\ Until(server[e.id].timeout)' + Age(e)' >= MAX_TRANSMIT_SPAN
    BY DEF Kept
  <2> DEFINE t == server[e.id].timeout
  <2>1. e \in link /\ e.born \in Ticks /\ Age(e) < MAX_TRANSMIT_SPAN
    BY <1>1, <1>5 DEF RequestInv, TypeOK
  <2>2. /\ e.id \in DOMAIN server /\ Until(t) <= MAX_TRANSMIT_SPAN
        /\ Until(t) + Age(e) >= MAX_TRANSMIT_SPAN
    BY <1>1, <1>2, <2>1 DEF RequestInv, Kept
  <2>3. t \in Ticks /\ t' = t
    BY <1>1, <1>2, <2>2 DEF TypeOK, Message
  <2> HIDE DEF t
  <2>4. Age(e) \in Nat /\ Until(t) \in Nat
    BY <1>3, <2>1, <2>3 DEF Age, Until, Ticks
  <2>5. Until(t) > 0
    BY <1>3, <2>1, <2>2, <2>4
  <2>6. (now' - e.born) % TickMod = ((now - e.born) % TickMod) + 1
    BY <1>2, <1>3, <2>1, <2>4, TickFacts DEF Age
  <2>7. (t - now') % TickMod = ((t - now) % TickMod) - 1
    BY <1>2, <1>3, <2>3, <2>4, <2>5, TickFacts DEF Until
  <2>8. Age(e)' = Age(e) + 1
    BY <2>6 DEF Age
  <2>9. Until(t)' = Until(t) - 1
    BY <2>3, <2>7 DEF Until
  <2>10. Until(t)' <= MAX_TRANSMIT_SPAN /\ Until(t)' + Age(e)' >= MAX_TRANSMIT_SPAN
    BY <1>3, <2>2, <2>4, <2>8, <2>9
  <2> QED
    BY <1>2, <2>2, <2>10 DEF t
<1>10. RequestInv'
  BY <1>1, <1>2, <1>8, <1>9 DEF RequestInv
<1> QED
  BY <1>6, <1>7, <1>10 DEF IInv

(* A synchronous or an ordinary send of a confirmable message. *)
LEMMA ConfirmableSendStep ==
  ASSUME IInv, Send \/ SendSynchronous
  PROVE  IInv'
<1>1. CASE Send
  <2>1. PICK d \in transmit_timeout(0) :
          client' = Add(client, next_message_id, Confirmable((now + d) % TickMod, FALSE))
    BY <1>1 DEF Send
  <2>2. /\ sync = NoSync /\ message_id' = next_message_id /\ Transmit({next_message_id}, {})
        /\ sync' = NoSync /\ ~FALSE /\ FALSE \in BOOLEAN
        /\ UNCHANGED <<now, lag, server, owed, confirmed, handled>>
    BY <1>1 DEF Send
  <2> QED
    BY <2>1, <2>2, SendStep, Zenon
<1>2. CASE SendSynchronous
  <2>1. PICK d \in transmit_timeout(0), ioError \in BOOLEAN :
          /\ sync' = [id |-> next_message_id, error |-> IF ioError THEN "io" ELSE "none"]
          /\ client' = Add(client, next_message_id, Confirmable((now + d) % TickMod, ~ioError))
    BY <1>2 DEF SendSynchronous
  <2>2. /\ sync = NoSync /\ message_id' = next_message_id /\ Transmit({next_message_id}, {})
        /\ UNCHANGED <<now, lag, server, owed, confirmed, handled>>
    BY <1>2 DEF SendSynchronous
  <2>3. CASE ioError
    <3>1. /\ sync' = [id |-> next_message_id, error |-> IF FALSE THEN "none" ELSE "io"]
          /\ client' = Add(client, next_message_id, Confirmable((now + d) % TickMod, FALSE))
      BY <2>1, <2>3
    <3> QED
      BY <2>2, <3>1, FALSE \in BOOLEAN, SendStep, Zenon
  <2>4. CASE ~ioError
    <3>1. /\ sync' = [id |-> next_message_id, error |-> IF TRUE THEN "none" ELSE "io"]
          /\ client' = Add(client, next_message_id, Confirmable((now + d) % TickMod, TRUE))
      BY <2>1, <2>4
    <3> QED
      BY <2>2, <3>1, TRUE \in BOOLEAN, SendStep, Zenon
  <2> QED
    BY <2>3, <2>4
<1> QED
  BY <1>1, <1>2

(* Every step keeps the invariant. *)
LEMMA NextIInv == IInv /\ [Next]_vars => IInv'
<1> SUFFICES ASSUME IInv, [Next]_vars PROVE IInv'
  OBVIOUS
<1>1. CASE Send \/ SendSynchronous
  BY <1>1, ConfirmableSendStep
<1>2. CASE SendNonConfirmable
  BY <1>2, SendNonConfirmableStep
<1>3. CASE SyncTurn
  BY <1>3, SyncTurnStep
<1>4. CASE SyncReturn
  BY <1>4, SyncReturnStep
<1>5. CASE ReceiveAny
  BY <1>5, ReceiveAnswerStep, ReceiveConfirmationsStep, ReceiveRequestStep DEF ReceiveAny
<1>6. CASE Establish
  BY <1>6, EstablishStep
<1>7. CASE Tick
  BY <1>7, TickStep
<1>8. CASE \E id \in CloudIds : Respond(id) \/ CloudRequest(id)
  BY <1>8, RespondStep, CloudRequestStep
<1>9. CASE UNCHANGED vars
  BY <1>9 DEF vars, IInv, TypeOK, CountInv, SyncInv, AnswerInv, RequestInv, Kept, Until, Age
<1> QED
  BY <1>1, <1>2, <1>3, <1>4, <1>5, <1>6, <1>7, <1>8, <1>9, Zenon DEF Next

-----------------------------------------------------------------------------
(* The results.                                                             *)

(* The inductive invariant always holds. *)
LEMMA Invariance == Spec => []IInv
BY InitIInv, NextIInv, PTL DEF Spec

(* Every variable of the channel keeps its type; the client store never     *)
(* holds anything but confirmable messages of the device's own ids.         *)
THEOREM TypeCorrect == Spec => []TypeOK
<1>1. IInv => TypeOK
  BY DEF IInv
<1> QED
  BY <1>1, Invariance, PTL

(* From one establish to the next CoAPReliableChannel::receive gives a      *)
(* request to the application once, however often and however late the link *)
(* delivers it while the cloud may be retransmitting it: the server store   *)
(* does not forget it earlier, also when the tick counter wraps around in   *)
(* between.  establish makes it forget, in a resumed session too.           *)
THEOREM RequestsHandledOnce == Spec => []HandledOnce
<1>1. IInv => HandledOnce
  BY DEF IInv, RequestInv, HandledOnce
<1> QED
  BY <1>1, Invariance, PTL

(* prepare_retransmit lets no message be transmitted more than              *)
(* MAX_RETRANSMIT times after the first, whatever the order of answers,     *)
(* timeouts and new sends.                                                  *)
THEOREM TransmissionsLimited == Spec => []TransmissionsBounded
<1>1. IInv => TransmissionsBounded
  BY DEF IInv, CountInv, TransmissionsBounded
<1> QED
  BY <1>1, Invariance, PTL

(* send_synchronous reports success only for a message that reached the     *)
(* cloud: a message that ran out of transmissions leaves the client store   *)
(* in the same way, but not without an error.                               *)
THEOREM ConfirmationIsTrue == Spec => []ConfirmedIsDelivered
<1>1. IInv => ConfirmedIsDelivered
  BY DEF IInv, AnswerInv, ConfirmedIsDelivered
<1> QED
  BY <1>1, Invariance, PTL

(* No message in the client store refers to the stack of a                  *)
(* send_synchronous that has returned.                                      *)
THEOREM HandlersAlive == Spec => []NoDanglingHandler
<1>1. IInv => NoDanglingHandler
  BY DEF IInv, SyncInv, NoDanglingHandler
<1> QED
  BY <1>1, Invariance, PTL

(* What a message leaves the client store for. *)
LEMMA LeavingStep ==
  ASSUME IInv, Next, NEW i \in DOMAIN client \ DOMAIN client'
  PROVE  MayLeave(i)
<1> USE DEF MayLeave
<1>1. TypeOK /\ CountInv /\ SyncInv
  BY DEF IInv
<1>2. ASSUME NEW id, NEW c, c = Remove(client, id) \/ c = client,
             NEW delay \in Delays(c), client' = process(c, delay), Transmit({}, Resent(c)),
             i \in DOMAIN c
      PROVE  client[i].transmit_count = MAX_RETRANSMIT + 1 /\ time_has_passed(now, client[i].timeout)
  <2>1. i \in DOMAIN c \ DOMAIN client'
    BY <1>2
  <2> QED
    BY <1>1, <1>2, <2>1, ClientStep, Zenon
<1>3. ASSUME NEW s, ProcessStores(client, s)
      PROVE  client[i].transmit_count = MAX_RETRANSMIT + 1 /\ time_has_passed(now, client[i].timeout)
  <2>1. PICK delay \in Delays(client) : client' = process(client, delay)
    BY <1>3 DEF ProcessStores
  <2>2. Transmit({}, Resent(client))
    BY <1>3 DEF ProcessStores
  <2> QED
    BY <1>2, <2>1, <2>2, Zenon
<1>4. CASE Send \/ SendSynchronous \/ SendNonConfirmable \/ Tick
           \/ \E id \in CloudIds : Respond(id) \/ CloudRequest(id)
  BY <1>4 DEF Send, SendSynchronous, SendNonConfirmable, Tick, Respond, CloudRequest, Add
<1>5. CASE SyncTurn
  <2> DEFINE Taken(d) == IF d.type \in {"ACK", "RESET"} THEN Remove(client, d.id) ELSE client
  <2>1. PICK d \in link \cup {[type |-> t, id |-> -1, born |-> now] : t \in {"NONE", "ERROR"}} :
          /\ \E delay \in Delays(Taken(d)) : client' = process(Taken(d), delay)
          /\ Transmit({}, Resent(Taken(d)))
    BY <1>5 DEF SyncTurn
  <2>2. CASE i \in DOMAIN Taken(d)
    <3>1. Taken(d) = Remove(client, d.id) \/ Taken(d) = client
      OBVIOUS
    <3> HIDE DEF Taken
    <3> QED
      BY <1>2, <2>1, <2>2, <3>1, Zenon
  <2>3. CASE i \notin DOMAIN Taken(d)
    <3>1. d.type \in {"ACK", "RESET"} /\ i = d.id
      BY <2>3 DEF Remove
    <3>2. d \in link
      BY <3>1
    <3> QED
      BY <3>1, <3>2
  <2> QED
    BY <2>2, <2>3
<1>6. CASE SyncReturn
  <2>1. i = sync.id /\ sync.error # "none"
    BY <1>6 DEF SyncReturn, Remove
  <2> QED
    BY <1>1, <2>1 DEF SyncInv
<1>7. CASE ReceiveAnswer
  <2>1. PICK id \in {d.id : d \in {x \in link : x.type # "CON"}} \cup {-1} :
          ProcessStores(Remove(client, id), server)
    BY <1>7 DEF ReceiveAnswer
  <2>2. CASE i = id
    <3>1. id # -1
      BY <1>1, <2>2 DEF TypeOK, Ids
    <3>2. PICK d \in link : d.type # "CON" /\ d.id = id
      BY <2>1, <3>1
    <3> QED
      BY <1>1, <2>2, <3>2 DEF TypeOK
  <2>3. CASE i # id
    <3>1. i \in DOMAIN Remove(client, id)
      BY <2>3 DEF Remove
    <3>2. /\ \E delay \in Delays(Remove(client, id)) : client' = process(Remove(client, id), delay)
          /\ Transmit({}, Resent(Remove(client, id)))
      BY <2>1 DEF ProcessStores
    <3> QED
      BY <1>2, <3>1, <3>2, Zenon
  <2> QED
    BY <2>2, <2>3
<1>8. CASE ReceiveConfirmations
  BY <1>3, <1>8 DEF ReceiveConfirmations
<1>9. CASE \E id \in CloudIds : ReceiveRequest(id)
  <2>1. PICK id \in CloudIds : ReceiveRequest(id)
    BY <1>9
  <2>2. ProcessStores(client, server) \/ ProcessStores(client, Add(server, id, set_expiration("CON")))
    BY <2>1 DEF ReceiveRequest
  <2> QED
    BY <1>3, <2>2
<1> QED
  BY <1>4, <1>5, <1>6, <1>7, <1>8, <1>9 DEF Next, ReceiveAny

(* A confirmable message leaves the client store for an answer, after its   *)
(* last transmission timed out, when the synchronous send that made it      *)
(* failed to transmit it, or with the session: nothing else drops it.       *)
THEOREM NothingElseDropsAMessage == Spec => ResentUntilAnswered
<1>1. IInv /\ [Next]_vars => [\A i \in DOMAIN client \ DOMAIN client' : MayLeave(i)]_vars
  BY LeavingStep
<1> QED
  BY <1>1, Invariance, PTL DEF Spec, ResentUntilAnswered
=============================================================================
