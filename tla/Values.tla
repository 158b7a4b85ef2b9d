------------------------------- MODULE Values -------------------------------
(***************************************************************************)
(* The values of packets (packet/packet.go): BuildEventPacket and          *)
(* BuildAckPacket take the binaries out of them, Reconstruct puts them     *)
(* back.  See Packet for what a value is.                                  *)
(***************************************************************************)
EXTENDS Packet, TLC

Error == <<"error">>

Placeholder(n) ==
  <<"map", ("_placeholder" :> <<"leaf", "true">>) @@ ("num" :> <<"leaf", ToString(n)>>)>>

(* containsBinary: fields that are not sent count, entries of any key do.   *)
RECURSIVE ContainsBinary(_)
ContainsBinary(v) ==
  CASE v[1] = "bin" -> TRUE
    [] v[1] = "seq" -> \E i \in DOMAIN v[2] : ContainsBinary(v[2][i])
    [] v[1] \in {"map", "intmap"} -> \E k \in DOMAIN v[2] : ContainsBinary(v[2][k])
    [] v[1] = "struct" -> \E i \in DOMAIN v[2] : ContainsBinary(v[2][i].value)
    [] OTHER -> FALSE

(* deconstruct: the clean value and the buffers, all that can come out,    *)
(* for Go visits the keys of a map in any order.  Children(kids, bufs)     *)
(* takes the values of kids one after the other.  Entries whose keys are   *)
(* no strings are passed over; what is nil comes out empty; a struct has   *)
(* all its fields, empty or not, an embedded one under the type's name.    *)
RECURSIVE Deconstruct(_, _), Children(_, _)
Children(kids, bufs) ==
  IF kids = <<>> THEN {<<<<>>, bufs>>}
  ELSE UNION {{<<<<d[1]>> \o e[1], e[2]>> : e \in Children(Tail(kids), d[2])} :
                d \in Deconstruct(Head(kids), bufs)}

Named(names, d) ==
  <<<<"map", [k \in Range(names) |-> d[1][CHOOSE i \in DOMAIN names : names[i] = k]]>>, d[2]>>

Deconstruct(v, bufs) ==
  CASE v[1] = "bin" -> {<<Placeholder(Len(bufs)), Append(bufs, v[2])>>}
    [] v[1] = "seq" -> {<<<<"seq", d[1]>>, d[2]>> : d \in Children(v[2], bufs)}
    [] v[1] = "map" ->
         UNION {{Named(o, d) : d \in Children([i \in DOMAIN o |-> v[2][o[i]]], bufs)} :
                  o \in SetToSeqs(DOMAIN v[2])}
    [] v[1] = "intmap" -> {<<<<"map", <<>>>>, bufs>>}
    [] v[1] = "nil" -> {<<<<v[2], <<>>>>, bufs>>}
    [] v[1] = "struct" ->
         LET sent == SelectSeq(v[2], LAMBDA f : f.name # "-") IN
         {Named([i \in DOMAIN sent |-> sent[i].name], d) :
            d \in Children([i \in DOMAIN sent |-> sent[i].value], bufs)}
    [] OTHER -> {<<v, bufs>>}

-----------------------------------------------------------------------------
(* json.Marshal, by what it makes of each kind of value: JSON is made of  *)
(* leaves, seqs and maps.  A binary is left as it is.                      *)

(* What omitempty leaves out.                                              *)
IsEmpty(v) ==
  \/ v[1] = "nil" \/ v \in {<<"leaf", x>> : x \in {"null", "false", "0", ""}}
  \/ v[1] \in {"seq", "map", "intmap"} /\ DOMAIN v[2] = {}

(* The fields of a struct: those of an embedded one are its own, unless it *)
(* has one of that name.                                                   *)
RECURSIVE Fields(_)
Fields(s) ==
  LET own == {f \in Range(s) : f.name # "-" /\ "embedded" \notin f.opts}
      embedded == {f \in Range(s) : f.name # "-" /\ "embedded" \in f.opts}
      inner == UNION {Fields(f.value[2]) : f \in embedded}
  IN own \cup {f \in inner : \A g \in own : g.name # f.name}

RECURSIVE JsonOf(_)
JsonOf(v) ==
  CASE v[1] = "seq" -> <<"seq", [i \in DOMAIN v[2] |-> JsonOf(v[2][i])]>>
    [] v[1] \in {"map", "intmap"} -> <<"map", [k \in DOMAIN v[2] |-> JsonOf(v[2][k])]>>
    [] v[1] = "nil" -> Null
    [] v[1] = "struct" ->
         LET shown == {f \in Fields(v[2]) : ~("omitempty" \in f.opts /\ IsEmpty(f.value))} IN
         <<"map", [k \in {f.name : f \in shown} |->
                     JsonOf((CHOOSE f \in shown : f.name = k).value)]>>
    [] OTHER -> v

(* marshalWithBinary: json.Marshal alone, or after deconstruct if there is *)
(* a binary anywhere.                                                      *)
Marshal(v) == IF ContainsBinary(v) THEN Deconstruct(v, <<>>) ELSE {<<JsonOf(v), <<>>>>}

IsPlaceholder(f) == "_placeholder" \in DOMAIN f /\ f["_placeholder"] = <<"leaf", "true">>

(* reconstructValue: the placeholders replaced, or an error.               *)
RECURSIVE Reconstruct(_, _)
Reconstruct(v, bufs) ==
  CASE v[1] = "seq" ->
         LET s == [i \in DOMAIN v[2] |-> Reconstruct(v[2][i], bufs)] IN
         IF Error \in Range(s) THEN Error ELSE <<"seq", s>>
    [] v[1] = "map" /\ IsPlaceholder(v[2]) ->
         LET n == CHOOSE n \in 0 .. MaxAttachments : Placeholder(n) = v IN
         IF n >= Len(bufs) THEN Error ELSE <<"bin", bufs[n + 1]>>
    [] v[1] = "map" /\ ~IsPlaceholder(v[2]) ->
         LET f == [k \in DOMAIN v[2] |-> Reconstruct(v[2][k], bufs)] IN
         IF \E k \in DOMAIN f : f[k] = Error THEN Error ELSE <<"map", f>>
    [] OTHER -> v

(* BuildEventPacket and BuildAckPacket, before Encode: the packets and     *)
(* buffers that can come of a call.                                        *)
Build(plain, binary, ns, id, v) ==
  {[type |-> IF d[2] = <<>> THEN plain ELSE binary, ns |-> ns, id |-> id,
    data |-> <<Json(d[1])>>, atts |-> Len(d[2]), bufs |-> d[2]] : d \in Marshal(v)}

(* The event's name comes first.  An ACK's slice is nil if it has nothing. *)
BuildEvent(event, ns, id, args) == Build("2", "5", ns, id, <<"seq", <<<<"leaf", event>>>> \o args>>)
BuildAck(ns, id, args) ==
  Build("3", "6", ns, id, IF args = <<>> THEN <<"nil", "seq">> ELSE <<"seq", args>>)
=============================================================================
