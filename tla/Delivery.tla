------------------------------ MODULE Delivery ------------------------------
(***************************************************************************)
(* What Inbound is for: a peer that builds its packets as packet.go does   *)
(* is understood.                                                          *)
(***************************************************************************)
EXTENDS Inbound, Values

(* What a packet means, and what the session makes of what it gets.        *)
Meant(q) == <<q.type, NormalizeNS(q.ns), q.id>>
Made(d) == <<d.pkt.type, d.pkt.ns, d.pkt.id>>
ValueMade(d) == IF d.pkt.data = <<>> THEN Null ELSE Reconstruct(d.pkt.data[1][2], d.bufs)

(* A value of which deconstruct makes what json.Marshal would: it has no   *)
(* keys but strings, no nil slice or map, no field that omitempty leaves   *)
(* out and no embedded struct, in any part that is sent.                   *)
RECURSIVE EncodedAlike(_)
EncodedAlike(v) ==
  CASE v[1] = "seq" -> \A i \in DOMAIN v[2] : EncodedAlike(v[2][i])
    [] v[1] = "map" -> \A k \in DOMAIN v[2] : EncodedAlike(v[2][k])
    [] v[1] = "struct" ->
         \A f \in {g \in Range(v[2]) : g.name # "-"} :
           /\ "embedded" \notin f.opts /\ ~("omitempty" \in f.opts /\ IsEmpty(f.value))
           /\ EncodedAlike(f.value)
    [] OTHER -> v[1] \notin {"nil", "intmap"}

(* Packets whose value arrives: not an ACK of no arguments, which means    *)
(* an array ("ACK payload must be an array", Validate) and comes as null;  *)
(* nor one with a binary in it beside something of which deconstruct makes *)
(* something else than it is as JSON.                                      *)
ValueArrives(q) ==
  /\ q.type \in Ack => q.value # <<"seq", <<>>>>
  /\ ContainsBinary(q.value) => EncodedAlike(q.value)

(* A civil peer is understood: every packet it has sent whole has been     *)
(* dispatched, in order, to the namespace and with the id it was built     *)
(* for, however it is cut into frames of whatever length and whatever      *)
(* control frames come between; its binaries are back in their places and  *)
(* the rest of its value is what JSON makes of it, if ValueArrives says    *)
(* so; and its session goes on.                                            *)
Delivered ==
  load.civil =>
    /\ over \in {NONE, "closed"}
    /\ [i \in DOMAIN dispatched |-> Made(dispatched[i])] = [i \in DOMAIN due |-> Meant(due[i])]
    /\ \A i \in DOMAIN due :
         ValueArrives(due[i]) => ValueMade(dispatched[i]) = JsonOf(due[i].value)
=============================================================================
