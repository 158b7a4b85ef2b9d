------------------------------- MODULE Packet -------------------------------
(***************************************************************************)
(* The Socket.IO packet codec (packet/packet.go) as operators: namespaces, *)
(* Encode, Validate and Decode.  Values is the rest of it: how binaries    *)
(* are taken out of a packet and put back.                                 *)
(*                                                                         *)
(* A text is a sequence of tokens: <<"char", c>>, or <<"json", v>> for a   *)
(* whole JSON text, which stands for the value it parses to.  A value is   *)
(* <<"leaf", x>>, <<"bin", b>>, <<"seq", s>>, or <<"map", f>> with f from  *)
(* strings to values.  A value of the caller's may besides be              *)
(* <<"nil", k>>, a nil slice or map, <<"intmap", f>>, a map whose keys are *)
(* integers, in f as their decimal text, or <<"struct", s>>, s its         *)
(* exported fields, [name, value, opts] each: the name in the tag, "-" for *)
(* one not to be sent, or that of the field or of an embedded struct, with *)
(* "omitempty" or "embedded" in opts.  Pointers and interfaces are what    *)
(* they point to, nil ones Null.                                           *)
(***************************************************************************)
EXTENDS Naturals, Sequences, SequencesExt, FiniteSetsExt

CONSTANTS
  MaxAttachments,  \* what Encode and Decode allow (1024)
  MaxId,           \* the largest id (the largest int)
  NONE

ASSUME PacketAssumption == MaxAttachments \in Nat /\ MaxId \in Nat /\ NONE \notin Nat

Char(c) == <<"char", c>>
Json(v) == <<"json", v>>
Slash == Char("/")
Comma == Char(",")
Dash == Char("-")
Space == Char(" ")
Root == <<Slash>>
Digits == <<Char("0"), Char("1"), Char("2"), Char("3"), Char("4"),
            Char("5"), Char("6"), Char("7"), Char("8"), Char("9")>>
IsDigit(t) == t \in Range(Digits)

Null == <<"leaf", "null">>

(* strconv.Itoa and Atoi.                                                  *)
Itoa[n \in Nat] == (IF n < 10 THEN <<>> ELSE Itoa[n \div 10]) \o <<Digits[(n % 10) + 1]>>
Atoi(s) == FoldLeft(LAMBDA n, t : 10 * n + (CHOOSE d \in 0 .. 9 : Digits[d + 1] = t), 0, s)

FirstOf(s, t) == IF t \in Range(s) THEN Min({i \in DOMAIN s : s[i] = t}) ELSE 0
From(s, i) == SubSeq(s, i, Len(s))

-----------------------------------------------------------------------------
(* Packets.                                                                *)

Binary == {"5", "6"}
Event == {"2", "5"}
Ack == {"3", "6"}
Type == {"0", "1", "4"} \cup Event \cup Ack

(* NormalizeNS: trimmed, and with a slash at the front.                    *)
NormalizeNS(ns) ==
  LET ink == {i \in DOMAIN ns : ns[i] # Space}
      s == IF ink = {} THEN <<>> ELSE SubSeq(ns, Min(ink), Max(ink))
  IN IF s = <<>> THEN Root ELSE IF Head(s) = Slash THEN s ELSE <<Slash>> \o s

(* Encode, <<>> for an error.                                              *)
Encodable(p) ==
  /\ p.type \in Type /\ p.atts <= MaxAttachments
  /\ p.type \in Binary <=> p.atts > 0
  /\ p.id # NONE => p.type \in Event \cup Ack

Encode(p) ==
  LET ns == NormalizeNS(p.ns) IN
  IF ~Encodable(p) THEN <<>>
  ELSE <<Char(p.type)>> \o (IF p.type \in Binary THEN Itoa[p.atts] \o <<Dash>> ELSE <<>>)
       \o (IF ns = Root THEN <<>> ELSE ns \o <<Comma>>)
       \o (IF p.id = NONE THEN <<>> ELSE Itoa[p.id]) \o p.data

(* Validate, for the type, id and data of a packet.                        *)
DataKind(data) == IF data = <<>> THEN "none" ELSE data[1][2][1]
Valid(p) ==
  LET k == DataKind(p.data) IN
  CASE p.type = "0" -> k \in {"none", "map"}
    [] p.type = "1" -> k = "none"
    [] p.type = "4" -> k = "map"
    [] p.type \in Event -> k = "seq" /\ p.data[1][2][2] # <<>>
    [] OTHER -> p.id # NONE /\ (k = "seq" \/ p.data = <<Json(Null)>>)

(* Decode in four parts: each takes what it reads off the text it gets.    *)
Bad == [type |-> "bad"]
Count(s) ==
  LET dash == FirstOf(s, Dash) IN
  IF dash > 1 /\ (\A i \in 1 .. dash - 1 : IsDigit(s[i]))
  THEN Atoi(SubSeq(s, 1, dash - 1)) ELSE 0
NsLen(s) ==
  IF s = <<>> \/ Head(s) # Slash THEN 0
  ELSE IF Comma \in Range(s) THEN FirstOf(s, Comma) ELSE Len(s)
IdLen(s) == Min({i \in 0 .. Len(s) : i = Len(s) \/ ~IsDigit(s[i + 1])})

Decode(raw) ==
  LET type == Head(raw)[2]
      isBin == type \in Binary
      s1 == Tail(raw)
      atts == IF isBin THEN Count(s1) ELSE 0
      s2 == IF isBin THEN From(s1, FirstOf(s1, Dash) + 1) ELSE s1
      ns == SelectSeq(SubSeq(s2, 1, NsLen(s2)), LAMBDA t : t # Comma)
      s3 == From(s2, NsLen(s2) + 1)
      idLen == IF type \in Event \cup Ack THEN IdLen(s3) ELSE 0
      id == IF idLen = 0 THEN NONE ELSE Atoi(SubSeq(s3, 1, idLen))
      data == From(s3, idLen + 1)
      p == [type |-> type, ns |-> IF ns = <<>> THEN Root ELSE ns, id |-> id,
            data |-> data, atts |-> atts]
  IN IF /\ raw # <<>> /\ Head(raw)[1] = "char" /\ type \in Type
        /\ isBin => atts \in 1 .. MaxAttachments
        /\ id = NONE \/ id <= MaxId
        /\ Len(data) <= 1 /\ \A i \in DOMAIN data : data[i][1] = "json"
        /\ Valid(p)
     THEN p ELSE Bad
=============================================================================
