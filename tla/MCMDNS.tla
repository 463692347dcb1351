-------------------------------- MODULE MCMDNS --------------------------------
(* Model checking of MDNS with the sizes of the source, for names of one     *)
(* byte, of the longest that is accepted and of one byte more, and for TXT   *)
(* entries up to the first that is overlong.                                 *)
EXTENDS MDNS

Header(flags, n) == <<0, 0, flags, 0, 0, n, 0, 0, 0, 0, 0, 0>>
TypeAndClass(t) == <<0, t, 0, 1>>
Pointer(o) == <<192, o>>

Received(data, asked, text, cut) ==
  [data |-> Header(0, Len(asked)) \o data, asked |-> asked, text |-> text, cut |-> cut]

First == <<1, 97, 0>> \o TypeAndClass(PTR_TYPE)

(* One question; two, the second with the name of the first; nothing that is *)
(* answered.                                                                 *)
Asking == {
  Received(<<1, 97, 1, 98, 0>> \o TypeAndClass(PTR_TYPE), <<PTR_TYPE>>, {97, 98}, "none"),
  Received(<<1, 97, 0>> \o TypeAndClass(SRV_TYPE) \o Pointer(12) \o TypeAndClass(ANY_TYPE),
           <<SRV_TYPE, ANY_TYPE>>, {97}, "none"),
  Received(<<1, 97, 0>> \o TypeAndClass(AAAA_TYPE), <<AAAA_TYPE>>, {97}, "none")}

Reading == Asking \cup {
  \* a label and a pointer into the first name, then a pointer to that
  Received(<<1, 97, 1, 98, 0>> \o TypeAndClass(A_TYPE)
           \o <<1, 99>> \o Pointer(14) \o TypeAndClass(TXT_TYPE)
           \o Pointer(21) \o TypeAndClass(PTR_TYPE),
           <<A_TYPE, TXT_TYPE, PTR_TYPE>>, {97, 98, 99}, "none"),
  \* a name with a letter outside ASCII
  Received(<<2, 195, 169, 0>> \o TypeAndClass(PTR_TYPE), <<PTR_TYPE>>, {195, 169}, "none"),
  \* the second question is cut: in a label, in a pointer, in the type
  Received(First \o <<3, 98>>, <<PTR_TYPE, A_TYPE, A_TYPE>>, {97, 98}, "name"),
  Received(First \o <<192>>, <<PTR_TYPE, A_TYPE>>, {97}, "pointer"),
  Received(First \o <<1, 98, 0, 0>>, <<PTR_TYPE, A_TYPE>>, {97, 98}, "type"),
  \* a response of another responder
  [data |-> Header(128, 0), asked |-> <<>>, text |-> {}, cut |-> "none"]}
=============================================================================
