--------------------------------- MODULE MDNS ---------------------------------
(***************************************************************************)
(* The mDNS responder: MDNS.cpp, Label.cpp, Buffer.cpp, QuerySet.cpp and    *)
(* TxtData.cpp of the Duo library.  processQueries() reads the questions of *)
(* a packet one by one and writes one packet with the records that answer   *)
(* them.  Names are chains of labels; a label that the response already     *)
(* holds is written as a pointer to it.                                     *)
(*                                                                          *)
(* The names that are set are their lengths.  A received packet is its      *)
(* bytes, well formed but for having been cut at the size of the buffer.    *)
(* With it come, for the properties, the types it asks for, the bytes of    *)
(* its labels and the place where it was cut.                               *)
(***************************************************************************)
EXTENDS Integers, Sequences, SequencesExt

CONSTANTS
  BufferSize,     \* BUFFER_SIZE
  MaxLabelSize,   \* MAX_LABEL_SIZE
  LocalSize,      \* length of "local"
  NameSize,       \* lengths of the names the application sets
  EntrySize,      \* lengths of a key and its value together
  Port,
  Packet,         \* packets that may arrive
  OutsideByte,    \* bytes that may be found in memory outside a packet
  None,
  MaxSets, MaxPackets   \* bounds

Byte == 0..255

ASSUME SizeAssumption == BufferSize \in Nat /\ MaxLabelSize \in Nat /\ LocalSize \in Nat
ASSUME PacketAssumption ==
  /\ OutsideByte \subseteq Byte
  /\ \A p \in Packet : p.data \in Seq(Byte) /\ Len(p.data) <= BufferSize

VARIABLES
  len,          \* data[0] of each label, None if it has not been made
  writeOffset,  \* of each label
  txt,          \* of the entries of txtData, the lengths of key and value together
  port,
  ready,        \* begin() was called
  packet,       \* what is being processed
  offset,       \* of the buffer, while reading
  markOffset,
  c,            \* the last byte the reader has read
  rest,         \* size - idx: what is left of the label
  count,        \* questions read
  read,         \* the types read, in order
  responses,    \* the records to send, by section
  sent,         \* the last response
  left          \* of each bound, what is left

vars == <<len, writeOffset, txt, port, ready, packet, offset, markOffset, c, rest, count, read,
          responses, sent, left>>

Spend(b) == left[b] > 0 /\ left' = [left EXCEPT ![b] = @ - 1]

(* HOST_NAME, SERVICE_NAME and INSTANCE_NAME as the chains of their labels. *)
Label == {"host", "service", "instance", "protocol", "local", "root"}
Chain == [host |-> <<"host", "local", "root">>,
          service |-> <<"service", "protocol", "local", "root">>,
          instance |-> <<"instance", "service", "protocol", "local", "root">>]
NAMES == DOMAIN Chain
INVALID_OFFSET == -1

-----------------------------------------------------------------------------
(* What the application sets.                                               *)

setHostname(n) ==
  /\ packet = None /\ Spend("sets")
  /\ IF n < MaxLabelSize
     THEN /\ len' = [len EXCEPT !["host"] = n]
          /\ writeOffset' = [writeOffset EXCEPT !["host"] = INVALID_OFFSET]
     ELSE UNCHANGED <<len, writeOffset>>
  /\ UNCHANGED <<txt, port, ready, packet, offset, markOffset, c, rest, count, read, responses, sent>>

(* The lengths of protocol and service do not count the underscore.  The    *)
(* port is set in any case.                                                 *)
setService(p, s, n, i) ==
  /\ packet = None /\ Spend("sets")
  /\ IF p < MaxLabelSize - 1 /\ s < MaxLabelSize - 1 /\ i < MaxLabelSize
     THEN /\ len' = [len EXCEPT !["protocol"] = p + 1, !["service"] = s + 1, !["instance"] = i]
          /\ writeOffset' = [l \in Label |-> IF l \in {"protocol", "service", "instance"}
                                             THEN INVALID_OFFSET ELSE writeOffset[l]]
     ELSE UNCHANGED <<len, writeOffset>>
  /\ port' = n
  /\ UNCHANGED <<txt, ready, packet, offset, markOffset, c, rest, count, read, responses, sent>>

(* TxtData::addEntry: a length byte, the key, "=" and the value; their size *)
(* is kept in one byte.                                                     *)
addedSize(n) == (n + 2) % 256
addEntry(n) == Append(txt, n)

addTXTEntry(n) ==
  /\ packet = None /\ Spend("sets")
  /\ txt' = addEntry(n)
  /\ UNCHANGED <<len, writeOffset, port, ready, packet, offset, markOffset, c, rest, count, read,
                 responses, sent>>

(* The applications set a host name and a service before. *)
begin ==
  /\ ~ready /\ \A l \in Label : len[l] # None
  /\ ready' = TRUE
  /\ UNCHANGED <<len, writeOffset, txt, port, packet, offset, markOffset, c, rest, count, read,
                 responses, sent, left>>

-----------------------------------------------------------------------------
(* Reading.                                                                 *)

NoResponses == [answers |-> {}, additional |-> {}]

limit == Len(packet.data)

(* Places outside the packet are all alike. *)
Place(o) == IF o > limit THEN limit + 1 ELSE o

(* Buffer::readUInt8 does not look at the limit: behind it stand other      *)
(* packets' bytes and other data.                                           *)
readUInt8(o) == IF o < limit THEN {packet.data[o + 1]} ELSE OutsideByte
readUInt16(o) == {256 * h + l : h \in readUInt8(o), l \in readUInt8(Place(o + 1))}

(* Buffer::available() > 0, behind the limit too. *)
available == offset # limit

(* QuerySet::readHeader and isQuery, getQueryCount: a short packet or a     *)
(* response asks nothing.                                                   *)
getQueryCount(p) == IF Len(p.data) >= 12 /\ p.data[3] < 128 THEN 256 * p.data[5] + p.data[6] ELSE 0

(* The reader and the match() of a question begin. *)
NewReader == c' = 1 /\ rest' = 0

(* processQueries: a packet is there; its header is read. *)
processQueries(p) ==
  /\ ready /\ packet = None /\ Spend("packets")
  /\ packet' = p /\ offset' = 12 /\ NewReader /\ read' = <<>> /\ responses' = NoResponses
  /\ count' = 0
  /\ sent' = None
  /\ UNCHANGED <<len, writeOffset, txt, port, ready, markOffset>>

InQuery == packet # None /\ count < getQueryCount(packet)

(* c & LABEL_POINTER *)
IsPointer(b) == b >= 192

(* Mutant: every pointer sets the mark. *)
markAgain(o) == markOffset' = o

(* Buffer::mark: the first mark stays. *)
mark(o) == markOffset' = IF markOffset = None THEN o ELSE markOffset

(* Where Buffer::reset goes on reading. *)
resetOffset == IF markOffset # None THEN markOffset ELSE offset

(* Reader::hasNext() *)
hasNext == c # 0 /\ available

(* Reader::next() has read the byte b at o: unless it is taken for the      *)
(* beginning of a pointer, match() takes it for the size of a label, or for *)
(* the next byte of one.                                                    *)
Take(o, b) ==
  /\ c' = b /\ offset' = Place(o + 1)
  /\ rest' = IF IsPointer(b) THEN rest ELSE IF rest = 0 THEN b ELSE rest - 1

(* Reader::next(), for every byte of a name. *)
next ==
  /\ InQuery /\ ~IsPointer(c) /\ hasNext
  /\ \E b \in readUInt8(offset) : Take(offset, b)
  /\ UNCHANGED <<len, writeOffset, txt, port, ready, packet, markOffset, count, read, responses, sent,
                 left>>

(* The loop of Reader::next(): the place behind the pointer is marked, and  *)
(* the byte it leads to is read.  When the packet ends in the middle of the *)
(* pointer the loop does not end, and there is no step.                     *)
followPointer ==
  /\ InQuery /\ IsPointer(c) /\ available
  /\ \E low \in readUInt8(offset) :
       LET to == Place(256 * (c - 192) + low) IN
       /\ mark(Place(offset + 1))
       /\ \E b \in readUInt8(to) : Take(to, b)
  /\ UNCHANGED <<len, writeOffset, txt, port, ready, packet, count, read, responses, sent, left>>

A_TYPE == 1
PTR_TYPE == 12
TXT_TYPE == 16
AAAA_TYPE == 28
SRV_TYPE == 33
ANY_TYPE == 255

(* The switch of getResponses: the records that answer a question. *)
responsesTo(name, type) ==
  CASE name = "host" /\ type \in {A_TYPE, ANY_TYPE} ->
         [answers |-> {"A"}, additional |-> {"NSEC_HOST"}]
    [] name = "host" /\ type = AAAA_TYPE ->
         [answers |-> {"NSEC_HOST"}, additional |-> {}]
    [] name = "service" /\ type \in {PTR_TYPE, ANY_TYPE} ->
         [answers |-> {"PTR"}, additional |-> {"SRV", "TXT", "A"}]
    [] name = "instance" /\ type = SRV_TYPE ->
         [answers |-> {"SRV"}, additional |-> {"A", "NSEC_INSTANCE"}]
    [] name = "instance" /\ type = TXT_TYPE ->
         [answers |-> {"TXT"}, additional |-> {"NSEC_INSTANCE"}]
    [] name = "instance" /\ type = ANY_TYPE ->
         [answers |-> {"SRV", "TXT", "NSEC_INSTANCE"}, additional |-> {"A"}]
    [] OTHER -> NoResponses

(* The name is complete: match() returns 1 whatever name it was, since the  *)
(* verdict of the iterators is overwritten.                                 *)
match == "service"

(* The question is over; count has one byte. *)
NextQuery(n) == count' = n % 256 /\ markOffset' = None /\ NewReader

(* match() ends, buffer->reset(), type and class are read. *)
readQuery ==
  /\ InQuery /\ c = 0
  /\ \E t \in readUInt16(resetOffset) :
       LET r == responsesTo(match, t) IN
       /\ read' = Append(read, t)
       /\ responses' = [answers |-> responses.answers \cup r.answers,
                        additional |-> responses.additional \cup r.additional]
  /\ offset' = Place(resetOffset + 4)
  /\ NextQuery(count + 1)
  /\ UNCHANGED <<len, writeOffset, txt, port, ready, packet, sent, left>>


(* BUFFER_UNDERFLOW: the packet ends inside a name.  Type and class are     *)
(* read all the same, and no further question.                              *)
bufferUnderflow ==
  /\ InQuery /\ c # 0 /\ ~IsPointer(c) /\ ~available
  /\ offset' = Place(resetOffset + 4)
  /\ NextQuery(getQueryCount(packet))
  /\ UNCHANGED <<len, writeOffset, txt, port, ready, packet, read, responses, sent, left>>

-----------------------------------------------------------------------------
(* Writing.  b is what has been written so far: the buffer's offset, the    *)
(* labels' offsets, and the items with their places.                        *)

(* writeUInt8 for all bytes of an item: what does not fit is dropped. *)
put(b, n, kind, value) ==
  LET fits == b.offset + n <= BufferSize IN
  [b EXCEPT !.offset = IF fits THEN @ + n ELSE BufferSize,
            !.items = Append(@, [at |-> b.offset, size |-> n,
                                 kind |-> IF fits THEN kind ELSE "cut", value |-> value])]

(* The labels of a name up to the first that has been written. *)
Unwritten(b, name) ==
  LET chain == Chain[name]
      known == {i \in 1..Len(chain) : b.writeOffset[chain[i]] # INVALID_OFFSET}
  IN IF known = {} THEN chain ELSE SubSeq(chain, 1, Min(known) - 1)

(* Label::getWriteSize, in one byte. *)
getWriteSize(b, name) ==
  LET u == Unwritten(b, name) IN
  (FoldLeft(LAMBDA s, l : s + len[l] + 1, 0, u) + (IF u = Chain[name] THEN 0 ELSE 2)) % 256

(* Label::write: labels, then a pointer to the rest if it was written. *)
write(b, name) ==
  LET u == Unwritten(b, name)
      label(x, l) == put([x EXCEPT !.writeOffset[l] = x.offset], len[l] + 1, "label", l)
      w == FoldLeft(label, b, u)
  IN IF u = Chain[name] THEN w
     ELSE put(w, 2, "pointer", b.writeOffset[Chain[name][Len(u) + 1]])

number(b, n, v) == put(b, n, "number", v)

(* Name, type, class and time to live. *)
writeRecord(b, name, type) == put(write(b, name), 8, "type", type)

writeARecord(b) == put(number(writeRecord(b, "host", "A"), 2, 4), 4, "ip", None)

writePTRRecord(b) ==
  LET r == writeRecord(b, "service", "PTR") IN
  write(number(r, 2, getWriteSize(r, "instance")), "instance")

writeSRVRecord(b) ==
  LET r == writeRecord(b, "instance", "SRV")
      n == number(r, 2, 6 + getWriteSize(r, "host"))
  IN write(number(number(n, 4, 0), 2, port), "host")

writeTXTRecord(b) ==
  LET entry(x, n) == put(x, addedSize(n), "entry", None)
      total == FoldLeft(LAMBDA s, n : s + addedSize(n), 0, txt) % 65536
  IN FoldLeft(entry, number(writeRecord(b, "instance", "TXT"), 2, total), txt)

writeNSECHostRecord(b) ==
  put(write(number(writeRecord(b, "host", "NSEC"), 2, 5), "host"), 3, "bits", None)

writeNSECInstanceRecord(b) ==
  put(write(number(writeRecord(b, "instance", "NSEC"), 2, 9), "instance"), 7, "bits", None)

(* The records of one section, in the order of the flags. *)
Flags == <<"A", "PTR", "SRV", "TXT", "NSEC_HOST", "NSEC_INSTANCE">>
recordOf(b, f) ==
  CASE f = "A" -> writeARecord(b) [] f = "PTR" -> writePTRRecord(b)
    [] f = "SRV" -> writeSRVRecord(b) [] f = "TXT" -> writeTXTRecord(b)
    [] f = "NSEC_HOST" -> writeNSECHostRecord(b) [] OTHER -> writeNSECInstanceRecord(b)
Ordered(s) == SelectSeq(Flags, LAMBDA f : f \in s)

(* Mutant: the offsets of the last response are kept. *)
resetLabelsNot == writeOffset

(* Label::reset of the three names reaches every label. *)
resetLabels ==
  [l \in Label |-> IF \E n \in NAMES : l \in Range(Chain[n]) THEN INVALID_OFFSET ELSE writeOffset[l]]

(* writeResponses: no additional record that is an answer already; the      *)
(* header is 12 bytes.                                                      *)
writeResponses ==
  LET additional == responses.additional \ responses.answers
      header == [offset |-> 12, writeOffset |-> resetLabels, items |-> <<>>]
      b == FoldLeft(recordOf, header, Ordered(responses.answers) \o Ordered(additional))
  IN /\ sent' = [answers |-> Len(Ordered(responses.answers)),
                 additional |-> Len(Ordered(additional)),
                 items |-> b.items, size |-> b.offset, port |-> port]
     /\ writeOffset' = b.writeOffset

(* The packet has been read: the response, if there is one, is sent, and    *)
(* the buffer is cleared.                                                   *)
respond ==
  /\ packet # None /\ ~InQuery
  /\ IF responses # NoResponses THEN writeResponses ELSE UNCHANGED <<sent, writeOffset>>
  /\ packet' = None /\ offset' = 0 /\ NewReader
  /\ count' = 0 /\ read' = <<>> /\ responses' = NoResponses
  /\ UNCHANGED <<len, txt, port, ready, markOffset, left>>

-----------------------------------------------------------------------------
Init ==
  /\ len = [l \in Label |-> IF l = "root" THEN 0 ELSE IF l = "local" THEN LocalSize ELSE None]
  /\ writeOffset = [l \in Label |-> INVALID_OFFSET]
  /\ txt = <<>> /\ port = None /\ ready = FALSE
  /\ packet = None /\ offset = 0 /\ markOffset = None /\ c = 1 /\ rest = 0 /\ count = 0
  /\ read = <<>> /\ responses = NoResponses /\ sent = None
  /\ left = [sets |-> MaxSets, packets |-> MaxPackets]

Next ==
  \/ \E n \in NameSize : setHostname(n)
  \/ \E p, s, i \in NameSize, n \in Port : setService(p, s, n, i)
  \/ \E n \in EntrySize : addTXTEntry(n)
  \/ begin
  \/ \E p \in Packet : processQueries(p)
  \/ next \/ followPointer \/ readQuery \/ bufferUnderflow
  \/ respond

Spec == Init /\ [][Next]_vars

(* getResponses reads a packet in one call, which goes on while it can. *)
getResponses == next \/ followPointer \/ readQuery \/ bufferUnderflow
FairSpec == Spec /\ WF_vars(getResponses)

-----------------------------------------------------------------------------
(* What a receiver makes of a response.                                     *)

At(o) == {i \in 1..Len(sent.items) : sent.items[i].at = o}
ItemAt(o) == sent.items[Min(At(o))]
Is(o, kind) == At(o) # {} /\ ItemAt(o).kind = kind

(* The name at a place, following pointers, and the place behind it. *)
RECURSIVE NameAt(_)
NameAt(o) ==
  CASE Is(o, "pointer") ->
         LET to == ItemAt(o).value IN
         [labels |-> IF to < o THEN NameAt(to).labels ELSE <<"forward">>, next |-> o + 2]
    [] Is(o, "label") ->
         LET l == ItemAt(o).value  behind == NameAt(o + ItemAt(o).size) IN
         IF l = "root" THEN [labels |-> <<l>>, next |-> o + 1]
         ELSE [labels |-> <<l>> \o behind.labels, next |-> behind.next]
    [] OTHER -> [labels |-> <<"garbage">>, next |-> o]

(* The data of a record of type f between two places is what a responder    *)
(* with these settings means to send.                                       *)
DataMeant(f, data, behind) ==
  CASE f = "PTR" -> NameAt(data) = [labels |-> Chain.instance, next |-> behind]
    [] f = "SRV" -> /\ Is(data + 4, "number") /\ ItemAt(data + 4).value = sent.port
                    /\ NameAt(data + 6) = [labels |-> Chain.host, next |-> behind]
    [] f = "A"   -> Is(data, "ip") /\ behind = data + 4
    [] OTHER     -> \A i \in 1..Len(sent.items) :
                      sent.items[i].kind = "entry" <=> sent.items[i].at \in data..behind - 1

NameMeant == [PTR |-> Chain.service, SRV |-> Chain.instance, TXT |-> Chain.instance, A |-> Chain.host]

(* The records from place o on are those of the flags fs, and nothing else  *)
(* follows.                                                                 *)
RECURSIVE Holds(_, _)
Holds(o, fs) ==
  IF fs = <<>> THEN o = sent.size
  ELSE LET name == NameAt(o)  t == name.next IN
       /\ name.labels = NameMeant[Head(fs)]
       /\ Is(t, "type") /\ ItemAt(t).value = Head(fs)
       /\ Is(t + 8, "number")
       /\ LET behind == t + 10 + ItemAt(t + 8).value IN
          DataMeant(Head(fs), t + 10, behind) /\ Holds(behind, Tail(fs))

Complete == \A i \in 1..Len(sent.items) : sent.items[i].kind # "cut"

(* An entry of which a byte cannot hold the size overruns its memory. *)
Overlong == \E i \in 1..Len(txt) : addedSize(txt[i]) # txt[i] + 2

(* A response that fits in the buffer is read by its receiver as it was     *)
(* meant: the header announces as many records as follow, every length leads*)
(* to the next record, every pointer to the name it abbreviates, whatever   *)
(* was sent before, asked in what order, or set anew in between; as long as *)
(* no overlong TXT entry was added.                                         *)
ResponseIsUnderstood ==
  packet = None /\ sent # None /\ Complete /\ ~Overlong =>
    Holds(12, SelectSeq(<<"PTR">>, LAMBDA f : sent.answers = 1)
              \o SelectSeq(<<"A", "SRV", "TXT">>, LAMBDA f : sent.additional = 3))

(* The packets the reader is made for: no byte of their labels is taken for *)
(* the beginning of a pointer, as that of a UTF-8 sequence is, and if they  *)
(* were cut it was in a name, outside a pointer.  At the end of the packet  *)
(* in a pointer Reader::next() loops, and a type is read from outside.      *)
Readable(p) == (\A b \in p.text : ~IsPointer(b)) /\ p.cut \in {"none", "name"}

(* The questions of a readable packet are read with their own types, one    *)
(* after the other, although names are abbreviated by pointers, to pointers *)
(* too, that lead back in the packet.                                       *)
QuestionsReadInTurn ==
  packet # None /\ Readable(packet) => IsPrefix(read, packet.asked)


=============================================================================
