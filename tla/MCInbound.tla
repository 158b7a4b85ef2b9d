----------------------------- MODULE MCInbound ------------------------------
(* A small instance of Inbound, with the values of Delivery.               *)
EXTENDS Delivery

b1 == <<Char("x"), Char("y")>>
b2 == <<>>
Leaf == <<"leaf", "v">>
B1 == <<"bin", b1>>
B2 == <<"bin", b2>>
Map2(u, v) == <<"map", ("k" :> u) @@ ("l" :> v)>>

Sent(name, value) == [name |-> name, value |-> value, opts |-> {}]
Opt(opt, name, value) == [name |-> name, value |-> value, opts |-> {opt}]

(* Parts of which deconstruct makes something else than json.Marshal.      *)
IntMap == <<"intmap", ("1" :> Leaf) @@ ("2" :> B1)>>
NilSeq == <<"nil", "seq">>
Odd ==
  {IntMap, <<"intmap", "1" :> Leaf>>, NilSeq, <<"nil", "map">>,
   <<"struct", <<Opt("omitempty", "k", <<"leaf", "0">>), Opt("omitempty", "l", Leaf),
                 Opt("omitempty", "-", B1)>>>>,
   <<"struct", <<Opt("embedded", "T", <<"struct", <<Sent("k", Leaf), Sent("l", Null)>>>>),
                 Sent("k", <<"seq", <<>>>>)>>>>}

(* Values with none to three binaries, at every kind of place, and the odd *)
(* ones by themselves and beside a binary.                                 *)
Arguments ==
  {Leaf, Null, B1, <<"seq", <<>>>>, <<"seq", <<B1, Leaf, B2>>>>,
   Map2(B1, B2), Map2(Leaf, <<"seq", <<B2>>>>), Map2(Map2(B1, B2), B1),
   <<"struct", <<Sent("k", B1), Sent("-", B2), Opt("omitempty", "l", Map2(Leaf, B2))>>>>,
   <<"struct", <<Sent("-", B1), Sent("k", Leaf)>>>>}
  \cup Odd \cup {<<"seq", <<u, B2>>>> : u \in Odd}
Args == {<<>>} \cup {<<u>> : u \in Arguments} \cup {<<u, v>> : u \in {Leaf, B1}, v \in Arguments}

Namespaces == {<<>>, Root, <<Slash, Char("a")>>, <<Space, Char("a"), Char("1"), Space>>}
Ids == {NONE, 0, 7, 10, 19}

With(qs, value) == {[type |-> q.type, ns |-> q.ns, id |-> q.id, data |-> q.data, atts |-> q.atts,
                     bufs |-> q.bufs, value |-> value] : q \in qs}
EventOf(ns, id, args) == With(BuildEvent("e", ns, id, args), <<"seq", <<<<"leaf", "e">>>> \o args>>)
AckOf(ns, id, args) == With(BuildAck(ns, id, args), <<"seq", args>>)

(* CONNECT, DISCONNECT, CONNECT_ERROR, which carry an object or nothing.   *)
Plainly(type, ns, value) ==
  [type |-> type, ns |-> ns, id |-> NONE, atts |-> 0, bufs |-> <<>>, value |-> value,
   data |-> IF value = Null THEN <<>> ELSE <<Json(value)>>]
Object == <<"map", "message" :> Leaf>>
Control3 == {Plainly("0", ns, v) : ns \in Namespaces, v \in {Null, Object}}
            \cup {Plainly("1", ns, Null) : ns \in Namespaces}
            \cup {Plainly("4", ns, Object) : ns \in Namespaces}

Every ==
  Control3
  \cup UNION {EventOf(ns, id, args) : ns \in Namespaces, id \in Ids, args \in Args}
  \cup UNION {AckOf(ns, id, args) : ns \in Namespaces, id \in Ids \ {NONE}, args \in Args}

Connect == Plainly("0", Root, Null)
Few == {Connect} \cup EventOf(Root, NONE, <<>>) \cup EventOf(Root, 1, <<B1>>)
       \cup AckOf(<<Slash, Char("a")>>, 2, <<B2, B1>>)

(* Texts of a peer that keeps to no rule: packets, PONG with a packet,     *)
(* NOOP, nothing, a packet without its `4', a header with no JSON, one of  *)
(* more attachments than are held, a probe.                                *)
Header(n) == <<Char("5"), Char(ToString(n)), Dash, Json(<<"seq", <<Leaf>>>>)>>
Texts ==
  {<<Char("4")>> \o Encode(Connect), <<Char("4")>> \o Header(1), <<Char("3"), Char("4")>> \o Header(2),
   <<Char("4"), Char("2"), Json(<<"seq", <<Leaf>>>>)>>, <<Char("6")>>, <<>>,
   Header(1), <<Char("4"), Char("5"), Char("1"), Dash>>, <<Char("4")>> \o Header(5),
   Probe, <<Char("1")>>}

MCLoads ==
  <<[civil |-> TRUE, packets |-> Every, messages |-> 2, frags |-> 1, sizes |-> {1}],
   [civil |-> TRUE, packets |-> Few, messages |-> 3, frags |-> 3, sizes |-> {1}],
   [civil |-> TRUE, packets |-> Few, messages |-> 2, frags |-> 2,
    sizes |-> {0, 125, 126, 127, 255, 256, 65535, 65536, 65537}],
   [civil |-> FALSE, packets |-> Texts, messages |-> 5, frags |-> 1, sizes |-> {1}],
   [civil |-> FALSE, packets |-> Texts, messages |-> 2, frags |-> 3, sizes |-> {1, 40000}]>>
=============================================================================
