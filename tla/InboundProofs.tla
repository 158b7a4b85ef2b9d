---------------------------- MODULE InboundProofs ----------------------------
(***************************************************************************)
(* Theorems about Inbound: what any peer can make a session dispatch and   *)
(* hold.                                                                   *)
(***************************************************************************)
EXTENDS Inbound, SequenceTheorems, FiniteSetTheorems, TLAPS

-----------------------------------------------------------------------------
(* Operators.                                                              *)

(* A length comes out of a frame as it was put in, at every boundary       *)
(* between the three forms.                                                *)
THEOREM LengthRoundTrip == \A n \in Nat : n < 65536 * 65536 => GetLength(PutLength(n)) = n
<1> SUFFICES ASSUME NEW n \in Nat, n < 65536 * 65536 PROVE GetLength(PutLength(n)) = n
  BY SMT
<1> DEFINE h == n \div 65536
           l == n % 65536
<1>1. n = 65536 * h + l /\ h \in Nat /\ h < 65536 /\ l \in Nat /\ l < 65536
  BY SMT
<1>2. ASSUME NEW m \in Nat, m < 65536 PROVE Number(Hi(m), Lo(m)) = m
  BY <1>2, SMT DEF Number, Hi, Lo
<1>3. Hi(n) = Hi(l) /\ Lo(n) = Lo(l)
  BY SMT DEF Hi, Lo
<1> HIDE DEF h, l
<1>4. CASE n <= 125
  BY <1>4, SMT DEF PutLength, GetLength
<1>5. CASE n > 125 /\ n <= 65535
  BY <1>2, <1>5, SMT DEF PutLength, GetLength
<1>6. CASE n > 65535
  <2>1. PutLength(n) = <<127, 0, 0, 0, 0, Hi(h), Lo(h), Hi(n), Lo(n)>>
    BY <1>6, SMT DEF PutLength, h
  <2>2. GetLength(PutLength(n)) = 65536 * Number(Hi(h), Lo(h)) + Number(Hi(n), Lo(n))
    BY <2>1, SMT DEF GetLength
  <2> QED
    BY <1>1, <1>2, <1>3, <2>2, SMT
<1> QED
  BY <1>4, <1>5, <1>6, SMT

(* Decode takes no header that announces nothing.                          *)
LEMMA DecodedHeader ==
  ASSUME NEW raw, Decode(raw).type \in Binary
  PROVE  Decode(raw) # Bad /\ Decode(raw).atts \in 1 .. MaxAttachments
  BY DEF Decode, Bad, Binary

LEMMA DecodedNothing == Decode(<<>>) = Bad
  BY DEF Decode

LEMMA Limits == MaxHeld \in Nat \ {0} /\ MaxPayload \in Nat \ {0}
  BY InboundAssumption

(* Sequences of whatever.                                                  *)
LEMMA SplitSeq ==
  ASSUME NEW S, NEW t \in Seq(S), NEW k \in 0 .. Len(t)
  PROVE  /\ SubSeq(t, 1, k) \in Seq(S) /\ SubSeq(t, k + 1, Len(t)) \in Seq(S)
         /\ t = SubSeq(t, 1, k) \o SubSeq(t, k + 1, Len(t))
         /\ k = Len(t) => SubSeq(t, k + 1, Len(t)) = <<>>
<1>1. Len(t) \in Nat
  OBVIOUS
<1>2. SubSeq(t, 1, k) \o SubSeq(t, k + 1, Len(t)) = SubSeq(t, 1, Len(t))
  <2>1. 1 \in 1 .. Len(t) + 1 /\ k \in 1 - 1 .. Len(t) /\ Len(t) \in k .. Len(t)
    BY <1>1
  <2> QED
    BY <2>1, ConcatAdjacentSubSeq
<1>3. SubSeq(t, 1, k) \in Seq(S) /\ SubSeq(t, k + 1, Len(t)) \in Seq(S)
  BY <1>1
<1>4. k = Len(t) => SubSeq(t, k + 1, Len(t)) = <<>>
  BY <1>1, SubSeqEmpty
<1> QED
  BY <1>2, <1>3, <1>4, SubSeqFull

Parts(p, got, left) ==
  IsSeq(p) /\ got \in Seq(Range(p)) /\ left \in Seq(Range(p)) /\ p = got \o left

LEMMA FirstPart ==
  ASSUME NEW p, IsSeq(p), NEW k \in 0 .. Len(p)
  PROVE  Parts(p, SubSeq(p, 1, k), SubSeq(p, k + 1, Len(p)))
  BY SplitSeq DEF Parts, IsSeq

LEMMA NextPart ==
  ASSUME NEW p, NEW got, NEW left, Parts(p, got, left), NEW k \in 0 .. Len(left)
  PROVE  Parts(p, got \o SubSeq(left, 1, k), SubSeq(left, k + 1, Len(left)))
<1> DEFINE a == SubSeq(left, 1, k)
           b == SubSeq(left, k + 1, Len(left))
<1>1. got \in Seq(Range(p)) /\ left \in Seq(Range(p)) /\ p = got \o left /\ IsSeq(p)
  BY DEF Parts
<1>2. a \in Seq(Range(p)) /\ b \in Seq(Range(p)) /\ left = a \o b
  BY <1>1, SplitSeq
<1> HIDE DEF a, b
<1>3. (got \o a) \o b = got \o (a \o b)
  BY <1>1, <1>2, ConcatAssociative
<1>4. got \o a \in Seq(Range(p))
  BY <1>1, <1>2
<1>5. p = (got \o a) \o b
  BY <1>1, <1>2, <1>3, Zenon
<1> QED
  BY <1>1, <1>2, <1>4, <1>5, Zenon DEF Parts, a, b

LEMMA LastPart ==
  ASSUME NEW p, NEW got, NEW left, Parts(p, got, left)
  PROVE  /\ Len(left) \in Nat /\ SubSeq(left, Len(left) + 1, Len(left)) = <<>>
         /\ left = <<>> => got = p
<1>1. left \in Seq(Range(p)) /\ got \in Seq(Range(p)) /\ p = got \o left
  BY DEF Parts
<1> QED
  BY <1>1, SubSeqEmpty, ConcatEmptySeq

LEMMA GrownSeq ==
  ASSUME NEW s, IsSeq(s), NEW e
  PROVE  /\ IsSeq(Append(s, e)) /\ s \o <<e>> = Append(s, e) /\ s \o <<>> = s
         /\ Len(s) \in Nat /\ DOMAIN s = 1 .. Len(s)
         /\ Len(Append(s, e)) = Len(s) + 1 /\ DOMAIN Append(s, e) = 1 .. Len(s) + 1
         /\ \A i \in 1 .. Len(s) : Append(s, e)[i] = s[i]
         /\ Append(s, e)[Len(s) + 1] = e
<1> DEFINE S == Range(s) \cup {e}
<1>1. s \in Seq(S) /\ e \in S
  BY DEF IsSeq
<1>2. Append(s, e) \in Seq(S)
  BY <1>1, AppendProperties
<1>3. IsSeq(Append(s, e))
  BY <1>2, SeqOfRange DEF IsSeq
<1> QED
  BY <1>1, <1>3, AppendProperties, AppendIsConcat, ConcatEmptySeq
-----------------------------------------------------------------------------
(* The inductive invariant.                                                *)

(* The sequences are sequences.                                            *)
Told == IsSeq(said) /\ IsSeq(dispatched)
Owing == IsSeq(owed) /\ \A j \in DOMAIN owed : IsSeq(owed[j])

(* ReadMessage has what the peer has sent of its message, and what it has  *)
(* yet to send is the rest of it.                                          *)
Halfway == open.op \in {"text", "binary"} /\ opcode = open.op /\ Parts(open.p, msg, rest)

ReaderFits ==
  /\ peerNo \in DOMAIN Loads /\ fragmented \in BOOLEAN
  /\ size \in Nat /\ size <= MaxPayload
  /\ over = NONE => IF fragmented THEN Halfway ELSE open = NoMessage

(* The pending packet is no packet that has been dispatched, lacks some of *)
(* its binaries and has the others.                                        *)
PendingFits ==
  /\ pending = [pkt |-> pending.pkt, bufs |-> pending.bufs, at |-> pending.at]
  /\ IsSeq(pending.bufs) /\ Len(pending.bufs) < MaxHeld
  /\ pending.pkt # Bad =>
       /\ pending.pkt.type \in Binary /\ pending.pkt.atts \in 1 .. MaxHeld
       /\ Len(pending.bufs) < pending.pkt.atts
       /\ connectedAny /\ \A i \in DOMAIN dispatched : dispatched[i].at # pending.at
       /\ over = NONE => IsOwn(pending, Len(said))

(* The first packet is the CONNECT that lets others in.                    *)
Greeted ==
  /\ connectedAny \in BOOLEAN /\ (connectedAny => dispatched # <<>>)
  /\ dispatched # <<>> => dispatched[1].pkt.type = "0"

(* A packet comes of messages said before it and after the last packet.    *)
Owned(i) ==
  LET d == dispatched[i] IN
  /\ d.till \in 1 .. Len(said) /\ IsOwn(d, d.till)
  /\ Len(d.bufs) = IF d.pkt.type \in Binary THEN d.pkt.atts ELSE 0
  /\ \A j \in 1 .. i - 1 : dispatched[j].at # d.at /\ dispatched[j].till < d.till

SInv == Told /\ PendingFits /\ Greeted /\ \A i \in DOMAIN dispatched : Owned(i)
IInv == SInv /\ ReaderFits /\ Owing
-----------------------------------------------------------------------------
(* What is said later changes nothing about what was said before.          *)
SaidOn(last) == \A k \in 1 .. last : said'[k] = said[k]

LEMMA OwnFinite ==
  ASSUME NEW at \in Nat, NEW last \in Nat
  PROVE  IsFiniteSet(Own(at, last))
<1>1. IsFiniteSet(at + 1 .. last)
  BY FS_Interval
<1>2. Own(at, last) \in SUBSET (at + 1 .. last)
  BY DEF Own
<1> QED
  BY <1>1, <1>2, FS_Subset

LEMMA OwnSame ==
  ASSUME NEW at \in Nat, NEW last \in Nat, SaidOn(last)
  PROVE  Own(at, last)' = Own(at, last)
  BY DEF Own, SaidOn

LEMMA IsOwnSame ==
  ASSUME NEW h, NEW last \in Nat, IsOwn(h, last), SaidOn(last)
  PROVE  IsOwn(h, last)'
<1>1. h.at \in 1 .. last
  BY DEF IsOwn
<1>2. \A k \in 1 .. last : Own(h.at, k)' = Own(h.at, k)
  <2> TAKE k \in 1 .. last
  <2>1. k \in Nat /\ h.at \in Nat /\ SaidOn(k)
    BY <1>1 DEF SaidOn
  <2> QED
    BY <2>1, OwnSame
<1>3. Own(h.at, last)' = Own(h.at, last) /\ Own(h.at, last) \in SUBSET (h.at + 1 .. last)
  BY <1>1, <1>2 DEF Own
<1>4. \A k \in 1 .. last : IsHeader(said'[k]) <=> IsHeader(said[k])
  BY DEF SaidOn
<1>5. h.at + 1 .. last \in SUBSET (1 .. last)
  BY <1>1
<1>6. said'[h.at] = said[h.at]
  BY <1>1 DEF SaidOn
<1>7. \A k \in Own(h.at, last) : said'[k] = said[k] /\ Own(h.at, k)' = Own(h.at, k)
  BY <1>2, <1>3, <1>5 DEF SaidOn
<1> QED
  BY <1>1, <1>3, <1>4, <1>5, <1>6, <1>7 DEF IsOwn

(* A message that is neither a binary nor a header.                        *)
LEMMA IsOwnBesides ==
  ASSUME NEW h, NEW last \in Nat, IsOwn(h, last), SaidOn(last),
         said'[last + 1].op = "text", ~IsHeader(said'[last + 1])
  PROVE  IsOwn(h, last + 1)'
<1>1. IsOwn(h, last)'
  BY IsOwnSame
<1>2. h.at \in 1 .. last
  BY DEF IsOwn
<1>3. h.at + 1 .. last + 1 = (h.at + 1 .. last) \cup {last + 1}
  BY <1>2
<1>4. Own(h.at, last + 1)' = Own(h.at, last)'
  BY <1>3 DEF Own
<1>5. h.at \in 1 .. last + 1
  BY <1>2
<1>6. \A k \in h.at + 1 .. last + 1 : ~IsHeader(said'[k])
  BY <1>1, <1>3 DEF IsOwn
<1> QED
  BY <1>1, <1>4, <1>5, <1>6 DEF IsOwn

(* The next binary.                                                        *)
LEMMA IsOwnBinary ==
  ASSUME NEW h, NEW last \in Nat, IsOwn(h, last), SaidOn(last), IsSeq(h.bufs),
         said'[last + 1].op = "binary",
         NEW g, g.at = h.at, g.pkt = h.pkt, g.bufs = Append(h.bufs, said'[last + 1].p)
  PROVE  IsOwn(g, last + 1)'
<1>1. IsOwn(h, last)'
  BY IsOwnSame
<1>2. h.at \in 1 .. last
  BY DEF IsOwn
<1>3. h.at + 1 .. last + 1 = (h.at + 1 .. last) \cup {last + 1} /\ last + 1 \notin h.at + 1 .. last
  BY <1>2
<1>4. Own(h.at, last + 1)' = Own(h.at, last)' \cup {last + 1} /\ last + 1 \notin Own(h.at, last)'
  BY <1>3 DEF Own
<1>5. IsFiniteSet(Own(h.at, last)')
  <2>1. Own(h.at, last)' = Own(h.at, last)
    BY <1>2, OwnSame
  <2> QED
    BY <1>2, <2>1, OwnFinite
<1>6. Cardinality(Own(h.at, last + 1)') = Cardinality(Own(h.at, last)') + 1
  BY <1>4, <1>5, FS_AddElement
<1>7. Cardinality(Own(h.at, last)') = Len(h.bufs)
  BY <1>1 DEF IsOwn
<1>8. /\ Len(h.bufs) \in Nat /\ Len(g.bufs) = Len(h.bufs) + 1
      /\ \A i \in 1 .. Len(h.bufs) : g.bufs[i] = h.bufs[i]
      /\ g.bufs[Len(h.bufs) + 1] = said'[last + 1].p
  BY GrownSeq
<1>9. ASSUME NEW k \in Own(h.at, last)'
      PROVE  said'[k].p = g.bufs[Cardinality(Own(h.at, k)')]
  <2>1. k \in h.at + 1 .. last /\ k \in Own(h.at, k)'
    BY DEF Own
  <2>2. Own(h.at, k)' \in SUBSET Own(h.at, last)'
    BY <1>2, <2>1 DEF Own
  <2>3. Cardinality(Own(h.at, k)') \in 1 .. Len(h.bufs)
    <3>1. /\ IsFiniteSet(Own(h.at, k)')
          /\ Cardinality(Own(h.at, k)') <= Cardinality(Own(h.at, last)')
      BY <1>5, <2>2, FS_Subset
    <3>2. Cardinality(Own(h.at, k)') \in Nat
      BY <3>1, FS_CardinalityType
    <3>3. Cardinality(Own(h.at, k)') # 0
      BY <2>1, <3>1, FS_EmptySet
    <3> QED
      BY <1>7, <1>8, <3>1, <3>2, <3>3
  <2>4. said'[k].p = h.bufs[Cardinality(Own(h.at, k)')]
    BY <1>1 DEF IsOwn
  <2> QED
    BY <1>8, <2>3, <2>4
<1>10. said'[last + 1].p = g.bufs[Cardinality(Own(h.at, last + 1)')]
  BY <1>6, <1>7, <1>8
<1>11. \A k \in Own(g.at, last + 1)' : said'[k].p = g.bufs[Cardinality(Own(g.at, k)')]
  BY <1>4, <1>9, <1>10
<1>12. \A k \in h.at + 1 .. last + 1 : ~IsHeader(said'[k])
  BY <1>1, <1>3 DEF IsOwn, IsHeader
<1>13. /\ g.at \in 1 .. last + 1 /\ said'[g.at].op = "text"
       /\ g.pkt = Decode(Handed(WithoutPongs(said'[g.at].p)))
  BY <1>1, <1>2 DEF IsOwn
<1> QED
  BY <1>6, <1>7, <1>8, <1>11, <1>12, <1>13 DEF IsOwn

(* A packet that has just been read.                                       *)
LEMMA IsOwnFresh ==
  ASSUME NEW last \in Nat \ {0}, said'[last].op = "text",
         NEW g, g.at = last, g.bufs = <<>>,
         g.pkt = Decode(Handed(WithoutPongs(said'[last].p)))
  PROVE  IsOwn(g, last)'
<1>1. last + 1 .. last = {}
  OBVIOUS
<1>2. Own(last, last)' = {}
  BY <1>1 DEF Own
<1>3. Cardinality(Own(last, last)') = Len(g.bufs)
  BY <1>2, FS_EmptySet
<1> QED
  BY <1>1, <1>2, <1>3 DEF IsOwn
-----------------------------------------------------------------------------
(* What handleSession does with one message m.                             *)
Says(m) == Decode(Handed(WithoutPongs(m.p)))

Ended == over' # NONE /\ UNCHANGED <<connectedAny, pending, dispatched>>

(* Used up by handleEIO.                                                   *)
Passes(m) ==
  /\ m.op = "text" /\ ~IsHeader(m)
  /\ UNCHANGED <<connectedAny, pending, dispatched>>

(* A whole packet.                                                         *)
Arrives(m) ==
  /\ m.op = "text" /\ Says(m).type \notin Binary
  /\ connectedAny \/ Says(m).type = "0"
  /\ connectedAny' = TRUE /\ pending' = pending
  /\ dispatched' = Append(dispatched, Dispatch(Says(m), <<>>, Len(said')))

Announces(m) ==
  /\ m.op = "text" /\ Says(m) # Bad /\ Says(m).type \in Binary
  /\ Says(m).atts \in 1 .. MaxHeld
  /\ connectedAny /\ connectedAny' = TRUE /\ dispatched' = dispatched
  /\ pending' = [pkt |-> Says(m), bufs |-> <<>>, at |-> Len(said')]

(* A binary, one of several or the last.                                   *)
Collects(m) ==
  /\ m.op = "binary" /\ pending.pkt # Bad
  /\ Len(pending.bufs) + 1 # pending.pkt.atts
  /\ UNCHANGED <<connectedAny, dispatched>>
  /\ pending' = [pkt |-> pending.pkt, bufs |-> Append(pending.bufs, m.p), at |-> pending.at]

Completes(m) ==
  /\ m.op = "binary" /\ pending.pkt # Bad
  /\ Len(pending.bufs) + 1 = pending.pkt.atts
  /\ connectedAny' = connectedAny /\ pending' = NoPending
  /\ dispatched' = Append(dispatched,
                          Dispatch(pending.pkt, Append(pending.bufs, m.p), pending.at))

Hears(m) ==
  Ended \/ Passes(m) \/ Arrives(m) \/ Announces(m) \/ Collects(m) \/ Completes(m)

LEMMA TextCases ==
  ASSUME SInv, NEW m, m.op = "text", Becomes(OnEIO(m.p))
  PROVE  Hears(m)
<1> DEFINE q == WithoutPongs(m.p)
           raw == Handed(q)
           p == Decode(raw)
<1>0. /\ dispatched \o <<>> = dispatched
      /\ \A e : dispatched \o <<e>> = Append(dispatched, e)
  BY GrownSeq DEF SInv, Told
<1>1. p = Says(m) /\ (m.op = "text" => (IsHeader(m) <=> p.type \in Binary))
  BY DEF Says, IsHeader
<1>2. p.type \in Binary => p # Bad /\ p.atts \in 1 .. MaxAttachments
  BY DecodedHeader
<1>3. raw = <<>> => p = Bad
  BY DecodedNothing
<1>4. ASSUME NEW why, why # NONE, Becomes(Ends(why)) PROVE Ended
  BY <1>0, <1>4 DEF Becomes, Ends, Same, Ended
<1>5. CASE q # <<>> /\ Head(q) = Char("1")
  <2>1. Becomes(Ends("closed"))
    BY <1>5 DEF OnEIO
  <2> QED
    BY <1>4, <2>1, InboundAssumption DEF Hears
<1>6. CASE ~(q # <<>> /\ Head(q) = Char("1"))
  <2>0. Becomes(OnText(raw))
    BY <1>6 DEF OnEIO
  <2> HIDE DEF raw, p
  <2>1. CASE raw = <<>>
    <3>1. Becomes(Same)
      BY <2>0, <2>1 DEF OnText
    <3>2. Bad.type \notin Binary
      BY DEF Bad, Binary
    <3> QED
      BY <1>0, <1>1, <1>3, <2>1, <3>1, <3>2 DEF Becomes, Same, Passes, Hears
  <2>2. CASE raw # <<>> /\ p = Bad
    <3>1. Becomes(Ends("bad packet"))
      BY <2>0, <2>2 DEF OnText, p
    <3> QED
      BY <1>4, <3>1, InboundAssumption DEF Hears
  <2>3. CASE raw # <<>> /\ p # Bad /\ ~connectedAny /\ p.type # "0"
    <3>1. Becomes(Ends("no CONNECT"))
      BY <2>0, <2>3 DEF OnText, p
    <3> QED
      BY <1>4, <3>1, InboundAssumption DEF Hears
  <2>4. CASE raw # <<>> /\ p # Bad /\ (connectedAny \/ p.type = "0") /\ p.type \notin Binary
    <3>1. Becomes([Same EXCEPT !.conn = TRUE, !.out = <<Dispatch(p, <<>>, Len(said'))>>])
      BY <2>0, <2>4 DEF OnText, p
    <3>2. Arrives(m)
      BY <1>0, <1>1, <2>4, <3>1 DEF Becomes, Same, Arrives
    <3> QED
      BY <3>2 DEF Hears
  <2>5. CASE raw # <<>> /\ p # Bad /\ (connectedAny \/ p.type = "0") /\ p.type \in Binary
    <3>0. connectedAny
      BY <2>5 DEF Binary
    <3>1. CASE p.atts > MaxHeld
      <4>1. Becomes(Ends("too many"))
        BY <2>0, <2>5, <3>1 DEF OnText, p
      <4> QED
        BY <1>4, <4>1, InboundAssumption DEF Hears
    <3>2. CASE ~(p.atts > MaxHeld)
      <4>1. Becomes([Same EXCEPT !.conn = TRUE,
                                 !.pend = [pkt |-> p, bufs |-> NoBuffers, at |-> Len(said')]])
        BY <2>0, <2>5, <3>2 DEF OnText, p
      <4>2. MaxHeld \in Nat /\ MaxAttachments \in Nat
        BY InboundAssumption, PacketAssumption
      <4>3. p.atts \in 1 .. MaxHeld
        BY <1>2, <2>5, <3>2, <4>2
      <4>4. Announces(m)
        BY <1>0, <1>1, <2>5, <3>0, <4>1, <4>3 DEF Becomes, Same, Announces, NoBuffers
      <4> QED
        BY <4>4 DEF Hears
    <3> QED
      BY <3>1, <3>2
  <2> QED
    BY <2>1, <2>2, <2>3, <2>4, <2>5
<1> QED
  BY <1>5, <1>6

LEMMA BinaryCases ==
  ASSUME SInv, NEW m, m.op = "binary", Becomes(OnBinary(m.p))
  PROVE  Hears(m)
<1> DEFINE bufs == Append(pending.bufs, m.p)
<1>0. /\ dispatched \o <<>> = dispatched
      /\ \A e : dispatched \o <<e>> = Append(dispatched, e)
  BY GrownSeq DEF SInv, Told
<1>1. Len(bufs) = Len(pending.bufs) + 1
  BY GrownSeq DEF SInv, PendingFits
<1>2. pending = [pkt |-> pending.pkt, bufs |-> pending.bufs, at |-> pending.at]
  BY DEF SInv, PendingFits
<1> HIDE DEF bufs
<1>3. CASE pending.pkt = Bad
  <2>1. Becomes(Ends("stray binary"))
    BY <1>3 DEF OnBinary
  <2>2. "stray binary" # NONE
    BY InboundAssumption
  <2> QED
    BY <1>0, <2>1, <2>2 DEF Becomes, Ends, Same, Ended, Hears
<1>4. CASE pending.pkt # Bad /\ Len(bufs) = pending.pkt.atts
  <2>1. Becomes([Same EXCEPT !.pend = NoPending,
                             !.out = <<Dispatch(pending.pkt, bufs, pending.at)>>])
    BY <1>4 DEF OnBinary, bufs
  <2>2. Completes(m)
    BY <1>0, <1>1, <1>4, <2>1 DEF Becomes, Same, Completes, bufs
  <2> QED
    BY <2>2 DEF Hears
<1>5. CASE pending.pkt # Bad /\ Len(bufs) # pending.pkt.atts
  <2>1. Becomes([Same EXCEPT !.pend.bufs = bufs])
    BY <1>5 DEF OnBinary, bufs
  <2>2. Collects(m)
    BY <1>0, <1>1, <1>2, <1>5, <2>1 DEF Becomes, Same, Collects, bufs
  <2> QED
    BY <2>2 DEF Hears
<1> QED
  BY <1>3, <1>4, <1>5

LEMMA MessageCases ==
  ASSUME SInv, NEW m, m.op \in {"text", "binary"}, Becomes(OnMessage(m.op, m.p))
  PROVE  Hears(m)
  BY TextCases, BinaryCases DEF OnMessage
-----------------------------------------------------------------------------
(* The session's part of the invariant.                                    *)

(* What has been dispatched stays as it was.                               *)
LEMMA OwnedKept ==
  ASSUME SInv, NEW m, said' = said \/ said' = Append(said, m),
         NEW i \in DOMAIN dispatched, \A j \in 1 .. i : dispatched'[j] = dispatched[j]
  PROVE  Owned(i)'
<1>1. /\ IsSeq(said) /\ IsSeq(dispatched) /\ Owned(i)
      /\ Len(said) \in Nat /\ DOMAIN dispatched = 1 .. Len(dispatched) /\ Len(dispatched) \in Nat
  BY GrownSeq DEF SInv, Told
<1>2. SaidOn(Len(said)) /\ Len(said') \in Nat /\ Len(said) <= Len(said')
  BY <1>1, GrownSeq DEF SaidOn
<1>3. PICK d : d = dispatched[i]
  OBVIOUS
<1>4. d.till \in 1 .. Len(said) /\ IsOwn(d, d.till)
  BY <1>1, <1>3 DEF Owned
<1>5. PICK last : last = d.till
  OBVIOUS
<1>6. IsOwn(d, last)'
  BY <1>2, <1>4, <1>5, IsOwnSame DEF SaidOn
<1>7. i \in 1 .. i /\ \A j \in 1 .. i - 1 : j \in 1 .. i
  BY <1>1
<1>8. dispatched'[i] = d /\ \A j \in 1 .. i - 1 : dispatched'[j] = dispatched[j]
  BY <1>3, <1>7
<1>9. IsOwn(dispatched[i], dispatched[i].till)'
  BY <1>5, <1>6, <1>8
<1>10. d.till \in 1 .. Len(said')
  BY <1>1, <1>2, <1>4
<1> QED
  BY <1>1, <1>3, <1>8, <1>9, <1>10 DEF Owned

(* One more packet is.                                                     *)
LEMMA OwnedMore ==
  ASSUME SInv, NEW m, said' = Append(said, m),
         NEW d, dispatched' = Append(dispatched, d),
         NEW last, last = Len(said) + 1, d.till = last, IsOwn(d, last)',
         Len(d.bufs) = IF d.pkt.type \in Binary THEN d.pkt.atts ELSE 0,
         \A i \in DOMAIN dispatched : dispatched[i].at # d.at
  PROVE  \A i \in DOMAIN dispatched' : Owned(i)'
<1>1. /\ IsSeq(said) /\ IsSeq(dispatched)
      /\ Len(said) \in Nat /\ DOMAIN dispatched = 1 .. Len(dispatched) /\ Len(dispatched) \in Nat
      /\ Len(said') = Len(said) + 1
      /\ DOMAIN dispatched' = 1 .. Len(dispatched) + 1
      /\ dispatched'[Len(dispatched) + 1] = d
      /\ \A i \in 1 .. Len(dispatched) : dispatched'[i] = dispatched[i]
  BY GrownSeq DEF SInv, Told
<1>2. ASSUME NEW i \in 1 .. Len(dispatched) PROVE Owned(i)'
  <2>1. \A j \in 1 .. i : dispatched'[j] = dispatched[j]
    BY <1>1
  <2> QED
    BY <1>1, <2>1, OwnedKept
<1>3. ASSUME NEW i, i = Len(dispatched) + 1 PROVE Owned(i)'
  <2>1. \A j \in 1 .. Len(dispatched) : dispatched[j].till \in 1 .. Len(said)
    BY <1>1 DEF SInv, Owned
  <2>2. \A j \in 1 .. i - 1 : dispatched'[j].at # d.at /\ dispatched'[j].till < d.till
    BY <1>1, <1>3, <2>1
  <2>3. dispatched'[i] = d /\ d.till \in 1 .. Len(said')
    BY <1>1, <1>3
  <2>4. IsOwn(dispatched[i], dispatched[i].till)'
    BY <2>3
  <2> QED
    BY <2>2, <2>3, <2>4 DEF Owned
<1> QED
  BY <1>1, <1>2, <1>3

LEMMA EndedKeeps ==
  ASSUME SInv, Ended, NEW m, said' = said \/ said' = Append(said, m)
  PROVE  SInv'
<1>1. IsSeq(said') /\ DOMAIN dispatched = 1 .. Len(dispatched) /\ Len(dispatched) \in Nat
  BY GrownSeq DEF SInv, Told
<1>2. Told' /\ Greeted'
  BY <1>1 DEF SInv, Told, Ended, Greeted
<1>3. PendingFits'
  BY DEF SInv, Ended, PendingFits
<1>4. \A i \in DOMAIN dispatched : Owned(i)'
  BY OwnedKept DEF Ended
<1> QED
  BY <1>2, <1>3, <1>4 DEF SInv, Ended

LEMMA SameKeeps ==
  ASSUME SInv, UNCHANGED <<sess, said>>
  PROVE  SInv'
<1>1. UNCHANGED <<said, connectedAny, pending, over, dispatched>>
  BY DEF sess
<1>2. Told' /\ Greeted'
  BY <1>1 DEF SInv, Told, Greeted
<1>3. IsSeq(said) /\ Len(said) \in Nat
  BY GrownSeq DEF SInv, Told
<1>4. PendingFits'
  <2>1. SaidOn(Len(said))
    BY <1>1 DEF SaidOn
  <2>2. PICK h : h = pending
    OBVIOUS
  <2>3. PICK last : last = Len(said)
    OBVIOUS
  <2>4. IsOwn(h, last) => IsOwn(h, last)'
    BY <1>3, <2>1, <2>3, IsOwnSame
  <2> QED
    BY <1>1, <2>2, <2>3, <2>4 DEF SInv, PendingFits
<1>5. \A i \in DOMAIN dispatched : Owned(i)'
  BY <1>1, OwnedKept
<1> QED
  BY <1>1, <1>2, <1>4, <1>5 DEF SInv

(* One message of each kind.                                               *)
LEMMA MessageSaid ==
  ASSUME SInv, NEW m, said' = Append(said, m)
  PROVE  /\ Len(said) \in Nat /\ Len(said') = Len(said) + 1 /\ IsSeq(said')
         /\ said'[Len(said) + 1] = m /\ SaidOn(Len(said))
  BY GrownSeq DEF SInv, Told, SaidOn

LEMMA PendingHeld ==
  ASSUME SInv, over = NONE, pending.pkt # Bad, pending' = pending,
         NEW m, said' = Append(said, m), m.op = "text", ~IsHeader(m)
  PROVE  IsOwn(pending, Len(said))' /\ pending.at \in 1 .. Len(said)
<1>1. IsOwn(pending, Len(said))
  BY DEF SInv, PendingFits
<1>2. PICK h : h = pending
  OBVIOUS
<1>3. PICK last : last = Len(said)
  OBVIOUS
<1>4. last \in Nat /\ Len(said') = last + 1 /\ said'[last + 1] = m /\ SaidOn(last)
  BY <1>3, MessageSaid
<1>5. ~IsHeader(said'[last + 1]) /\ said'[last + 1].op = "text"
  BY <1>4
<1>6. IsOwn(h, last + 1)'
  BY <1>1, <1>2, <1>3, <1>4, <1>5, IsOwnBesides
<1>7. IsOwn(pending, Len(said))'
  BY <1>2, <1>4, <1>6
<1>8. pending.at \in 1 .. Len(said)
  BY <1>1 DEF IsOwn
<1> QED
  BY <1>7, <1>8

LEMMA PassesKeeps ==
  ASSUME SInv, over = NONE, NEW m, said' = Append(said, m), Passes(m)
  PROVE  SInv'
<1>1. UNCHANGED <<connectedAny, pending, dispatched>> /\ m.op = "text" /\ ~IsHeader(m)
  BY DEF Passes
<1>2. Told' /\ Greeted'
  BY <1>1, MessageSaid DEF SInv, Told, Greeted
<1>3. pending.pkt # Bad => IsOwn(pending, Len(said))'
  BY <1>1, PendingHeld
<1>4. PendingFits'
  BY <1>1, <1>3 DEF SInv, PendingFits
<1>5. \A i \in DOMAIN dispatched : Owned(i)'
  BY <1>1, OwnedKept
<1> QED
  BY <1>1, <1>2, <1>4, <1>5 DEF SInv

(* A packet that is dispatched gets in, and is the first only as CONNECT.  *)
LEMMA DispatchGreets ==
  ASSUME SInv, NEW d, dispatched' = Append(dispatched, d), connectedAny' \in BOOLEAN,
         connectedAny \/ d.pkt.type = "0"
  PROVE  Greeted'
<1>1. /\ IsSeq(dispatched) /\ Len(dispatched) \in Nat
      /\ Len(dispatched') = Len(dispatched) + 1
      /\ dispatched'[Len(dispatched) + 1] = d
      /\ \A i \in 1 .. Len(dispatched) : dispatched'[i] = dispatched[i]
  BY GrownSeq DEF SInv, Told
<1>2. dispatched' # <<>>
  BY <1>1
<1>3. CASE dispatched = <<>>
  <2>1. ~connectedAny
    BY <1>3 DEF SInv, Greeted
  <2>2. dispatched'[1] = d
    BY <1>1, <1>3
  <2> QED
    BY <1>2, <2>1, <2>2 DEF Greeted
<1>4. CASE dispatched # <<>>
  <2>1. Len(dispatched) # 0
    BY <1>1, <1>4, EmptySeq DEF IsSeq
  <2>2. dispatched'[1] = dispatched[1]
    BY <1>1, <2>1
  <2> QED
    BY <1>2, <1>4, <2>2 DEF SInv, Greeted
<1> QED
  BY <1>3, <1>4

LEMMA ArrivesKeeps ==
  ASSUME SInv, over = NONE, NEW m, said' = Append(said, m), Arrives(m)
  PROVE  SInv'
<1> DEFINE d == Dispatch(Says(m), <<>>, Len(said'))
<1>0. PICK e : e = d
  OBVIOUS
<1>1. /\ m.op = "text" /\ Says(m).type \notin Binary /\ connectedAny' = TRUE
      /\ pending' = pending /\ dispatched' = Append(dispatched, e)
      /\ connectedAny \/ e.pkt.type = "0"
      /\ e.pkt = Says(m) /\ e.bufs = <<>> /\ e.at = Len(said') /\ e.till = Len(said')
  BY <1>0 DEF Arrives, Dispatch
<1>2. PICK last : last = Len(said) + 1
  OBVIOUS
<1>3. /\ last \in Nat \ {0} /\ last = Len(said') /\ said'[last] = m /\ IsSeq(said')
      /\ Len(said) \in Nat
  BY <1>2, MessageSaid
<1>4. IsOwn(e, last)'
  BY <1>1, <1>3, IsOwnFresh DEF Says
<1>5. \A i \in DOMAIN dispatched : dispatched[i].at \in 1 .. Len(said)
  <2> TAKE i \in DOMAIN dispatched
  <2>1. dispatched[i].till \in 1 .. Len(said) /\ dispatched[i].at \in 1 .. dispatched[i].till
    BY DEF SInv, Owned, IsOwn
  <2> QED
    BY <1>3, <2>1
<1>6. \A i \in DOMAIN dispatched' : Owned(i)'
  <2>1. \A i \in DOMAIN dispatched : dispatched[i].at # e.at
    BY <1>1, <1>2, <1>3, <1>5
  <2>2. Len(e.bufs) = IF e.pkt.type \in Binary THEN e.pkt.atts ELSE 0
    BY <1>1
  <2> QED
    BY <1>1, <1>2, <1>3, <1>4, <2>1, <2>2, OwnedMore
<1>7. IsSeq(dispatched') /\ Greeted'
  BY <1>1, GrownSeq, DispatchGreets DEF SInv, Told
<1>8. /\ DOMAIN dispatched' = 1 .. Len(dispatched) + 1 /\ DOMAIN dispatched = 1 .. Len(dispatched)
      /\ Len(dispatched) \in Nat /\ dispatched'[Len(dispatched) + 1] = e
      /\ \A i \in 1 .. Len(dispatched) : dispatched'[i] = dispatched[i]
  BY <1>1, GrownSeq DEF SInv, Told
<1>9. PendingFits'
  <2>1. CASE pending.pkt = Bad
    BY <1>1, <2>1 DEF SInv, PendingFits
  <2>2. CASE pending.pkt # Bad
    <3>1. ~IsHeader(m)
      BY <1>1 DEF IsHeader, Says
    <3>2. IsOwn(pending, Len(said))' /\ pending.at \in 1 .. Len(said)
      BY <1>1, <2>2, <3>1, PendingHeld
    <3>3. e.at # pending.at
      BY <1>1, <1>2, <1>3, <3>2
    <3>4. \A i \in DOMAIN dispatched : dispatched[i].at # pending.at
      BY <2>2 DEF SInv, PendingFits
    <3>5. \A i \in DOMAIN dispatched' : dispatched'[i].at # pending.at
      BY <1>8, <3>3, <3>4
    <3> QED
      BY <1>1, <2>2, <3>2, <3>5 DEF SInv, PendingFits
  <2> QED
    BY <2>1, <2>2
<1> QED
  BY <1>3, <1>6, <1>7, <1>9 DEF SInv, Told

LEMMA AnnouncesKeeps ==
  ASSUME SInv, NEW m, said' = Append(said, m), Announces(m)
  PROVE  SInv'
<1>1. /\ m.op = "text" /\ Says(m).type \in Binary /\ Says(m).atts \in 1 .. MaxHeld
      /\ connectedAny /\ connectedAny' = TRUE /\ dispatched' = dispatched
  BY DEF Announces
<1>2. PICK last : last = Len(said) + 1
  OBVIOUS
<1>3. /\ last \in Nat \ {0} /\ last = Len(said') /\ said'[last] = m /\ IsSeq(said')
      /\ Len(said) \in Nat
  BY <1>2, MessageSaid
<1>4. PICK g : g = [pkt |-> Says(m), bufs |-> <<>>, at |-> last]
  OBVIOUS
<1>5. pending' = g /\ IsOwn(g, last)'
  BY <1>1, <1>3, <1>4, IsOwnFresh DEF Announces, Says
<1>6. \A i \in DOMAIN dispatched : dispatched[i].at # last
  <2> TAKE i \in DOMAIN dispatched
  <2>1. dispatched[i].till \in 1 .. Len(said) /\ dispatched[i].at \in 1 .. dispatched[i].till
    BY DEF SInv, Owned, IsOwn
  <2> QED
    BY <1>2, <1>3, <2>1
<1>7. PendingFits'
  <2>1. IsOwn(pending, Len(said))'
    BY <1>3, <1>5
  <2>2. IsSeq(<<>>) /\ Len(<<>>) = 0
    BY DEF IsSeq
  <2>3. 0 < MaxHeld /\ 0 < Says(m).atts
    BY <1>1, Limits
  <2> QED
    BY <1>1, <1>4, <1>5, <1>6, <2>1, <2>2, <2>3 DEF PendingFits
<1>8. Told' /\ Greeted'
  BY <1>1, <1>3 DEF SInv, Told, Greeted
<1>9. \A i \in DOMAIN dispatched : Owned(i)'
  BY <1>1, OwnedKept
<1> QED
  BY <1>1, <1>7, <1>8, <1>9 DEF SInv

LEMMA PendingGrown ==
  ASSUME SInv, over = NONE, pending.pkt # Bad, NEW m, said' = Append(said, m), m.op = "binary",
         NEW g, g.at = pending.at, g.pkt = pending.pkt, g.bufs = Append(pending.bufs, m.p),
         NEW last, last = Len(said) + 1
  PROVE  IsOwn(g, last)'
<1>1. IsOwn(pending, Len(said)) /\ IsSeq(pending.bufs)
  BY DEF SInv, PendingFits
<1>2. PICK h : h = pending
  OBVIOUS
<1>3. PICK n : n = Len(said)
  OBVIOUS
<1>4. n \in Nat /\ said'[n + 1] = m /\ SaidOn(n) /\ last = n + 1
  BY <1>3, MessageSaid
<1>5. IsOwn(h, n) /\ IsSeq(h.bufs)
  BY <1>1, <1>2, <1>3
<1>6. g.at = h.at /\ g.pkt = h.pkt /\ g.bufs = Append(h.bufs, said'[n + 1].p)
  BY <1>2, <1>4
<1>7. IsOwn(g, n + 1)'
  BY <1>4, <1>5, <1>6, IsOwnBinary
<1> QED
  BY <1>4, <1>7

LEMMA CollectsKeeps ==
  ASSUME SInv, over = NONE, NEW m, said' = Append(said, m), Collects(m)
  PROVE  SInv'
<1>1. /\ m.op = "binary" /\ pending.pkt # Bad /\ Len(pending.bufs) + 1 # pending.pkt.atts
      /\ UNCHANGED <<connectedAny, dispatched>>
  BY DEF Collects
<1>2. PICK last : last = Len(said) + 1
  OBVIOUS
<1>3. last = Len(said') /\ IsSeq(said')
  BY <1>2, MessageSaid
<1>4. PICK g : g = [pkt |-> pending.pkt, bufs |-> Append(pending.bufs, m.p), at |-> pending.at]
  OBVIOUS
<1>5. pending' = g /\ IsOwn(g, last)'
  BY <1>1, <1>2, <1>4, PendingGrown DEF Collects
<1>6. PendingFits'
  <2>1. IsOwn(pending, Len(said))'
    BY <1>3, <1>5
  <2>2. /\ pending.pkt.type \in Binary /\ pending.pkt.atts \in 1 .. MaxHeld
        /\ Len(pending.bufs) < pending.pkt.atts /\ IsSeq(pending.bufs)
        /\ connectedAny /\ \A i \in DOMAIN dispatched : dispatched[i].at # pending.at
    BY <1>1 DEF SInv, PendingFits
  <2>3. /\ Len(g.bufs) = Len(pending.bufs) + 1 /\ IsSeq(g.bufs) /\ Len(pending.bufs) \in Nat
    BY <1>4, <2>2, GrownSeq
  <2>4. Len(g.bufs) < g.pkt.atts /\ Len(g.bufs) < MaxHeld
    BY <1>1, <1>4, <2>2, <2>3, Limits
  <2> QED
    BY <1>1, <1>4, <1>5, <2>1, <2>2, <2>3, <2>4 DEF PendingFits
<1>7. Told' /\ Greeted'
  BY <1>1, <1>3 DEF SInv, Told, Greeted
<1>8. \A i \in DOMAIN dispatched : Owned(i)'
  BY <1>1, OwnedKept
<1> QED
  BY <1>1, <1>6, <1>7, <1>8 DEF SInv

LEMMA CompletesKeeps ==
  ASSUME SInv, over = NONE, NEW m, said' = Append(said, m), Completes(m)
  PROVE  SInv'
<1> DEFINE d == Dispatch(pending.pkt, Append(pending.bufs, m.p), pending.at)
<1>0. PICK e : e = d
  OBVIOUS
<1>1. /\ m.op = "binary" /\ pending.pkt # Bad /\ Len(pending.bufs) + 1 = pending.pkt.atts
      /\ connectedAny' = connectedAny /\ pending' = NoPending
      /\ dispatched' = Append(dispatched, e)
      /\ e.pkt = pending.pkt /\ e.bufs = Append(pending.bufs, m.p) /\ e.at = pending.at
      /\ e.till = Len(said')
  BY <1>0 DEF Completes, Dispatch
<1>2. PICK last : last = Len(said) + 1
  OBVIOUS
<1>3. last = Len(said') /\ IsSeq(said')
  BY <1>2, MessageSaid
<1>4. IsOwn(e, last)'
  BY <1>1, <1>2, PendingGrown
<1>5. /\ pending.pkt.type \in Binary /\ IsSeq(pending.bufs) /\ connectedAny
      /\ \A i \in DOMAIN dispatched : dispatched[i].at # pending.at
  BY <1>1 DEF SInv, PendingFits
<1>6. Len(e.bufs) = IF e.pkt.type \in Binary THEN e.pkt.atts ELSE 0
  <2>1. Len(e.bufs) = Len(pending.bufs) + 1
    BY <1>1, <1>5, GrownSeq
  <2> QED
    BY <1>1, <1>5, <2>1
<1>7. \A i \in DOMAIN dispatched' : Owned(i)'
  BY <1>1, <1>2, <1>3, <1>4, <1>5, <1>6, OwnedMore
<1>8. connectedAny \in BOOLEAN
  BY DEF SInv, Greeted
<1>9. IsSeq(dispatched') /\ Greeted'
  BY <1>1, <1>5, <1>8, GrownSeq, DispatchGreets DEF SInv, Told
<1>10. PendingFits'
  <2>1. IsSeq(<<>>) /\ Len(<<>>) = 0 /\ 0 < MaxHeld
    BY Limits DEF IsSeq
  <2> QED
    BY <1>1, <2>1 DEF PendingFits, NoPending
<1> QED
  BY <1>3, <1>7, <1>9, <1>10 DEF SInv, Told

LEMMA HearsKeeps ==
  ASSUME SInv, over = NONE, NEW m, said' = Append(said, m), Hears(m)
  PROVE  SInv'
  BY EndedKeeps, PassesKeeps, ArrivesKeeps, AnnouncesKeeps, CollectsKeeps, CompletesKeeps DEF Hears
-----------------------------------------------------------------------------
(* ReadMessage's part of the invariant.                                    *)

(* The message ends, or goes on.                                           *)
LEMMA WholeKeeps ==
  ASSUME SInv, ReaderFits, over = NONE, peerNo' = peerNo,
         NEW m, m.op \in {"text", "binary"}, Becomes(OnMessage(m.op, m.p)),
         fragmented' \in BOOLEAN, ~fragmented', size' = 0, open' = NoMessage, said' = Append(said, m)
  PROVE  SInv' /\ ReaderFits'
<1>1. SInv'
  BY MessageCases, HearsKeeps
<1>2. 0 <= MaxPayload
  BY Limits
<1> QED
  BY <1>1, <1>2 DEF ReaderFits

LEMMA PartKeeps ==
  ASSUME SInv, ReaderFits, over = NONE, peerNo' = peerNo,
         NEW m, m.op \in {"text", "binary"}, NEW got, NEW left, Parts(m.p, got, left),
         NEW s \in Nat, s <= MaxPayload,
         fragmented' = TRUE, opcode' = m.op, msg' = got, size' = s,
         UNCHANGED sess, open' = m, rest' = left, said' = said
  PROVE  SInv' /\ ReaderFits'
<1>1. SInv'
  BY SameKeeps
<1>2. Halfway'
  BY DEF Halfway
<1> QED
  BY <1>1, <1>2 DEF ReaderFits

LEMMA FailsKeeps ==
  ASSUME SInv, ReaderFits, peerNo' = peerNo, NEW why, why # NONE, Fails(why),
         NEW m, said' = said \/ said' = Append(said, m)
  PROVE  SInv' /\ ReaderFits'
<1>1. /\ over' # NONE /\ UNCHANGED <<read, connectedAny, pending>>
      /\ dispatched' = dispatched
  <2>1. dispatched \o <<>> = dispatched
    BY GrownSeq DEF SInv, Told
  <2> QED
    BY <2>1 DEF Fails, Becomes, Ends, Same
<1>2. SInv'
  BY <1>1, EndedKeeps DEF Ended
<1>3. ReaderFits'
  BY <1>1 DEF ReaderFits, read
<1> QED
  BY <1>2, <1>3

LEMMA SendKeeps ==
  ASSUME SInv, ReaderFits, over = NONE, peerNo' = peerNo,
         NEW op, NEW m, NEW tokens, NEW k \in 0 .. Len(tokens), NEW n \in Nat,
         \/ /\ open = NoMessage /\ tokens = m.p /\ IsSeq(tokens)
            /\ op = m.op /\ op \in {"text", "binary"}
         \/ op = "continuation" /\ m = open /\ tokens = rest,
         Send(op, m, tokens, k, n)
  PROVE  SInv' /\ ReaderFits'
<1> DEFINE part == SubSeq(tokens, 1, k)
           left == SubSeq(tokens, k + 1, Len(tokens))
<1>1. /\ k = Len(tokens) => open' = NoMessage /\ said' = Append(said, m)
      /\ k # Len(tokens) => open' = m /\ rest' = left /\ said' = said
  BY DEF Send
<1>2. ASSUME NEW why, why # NONE, Fails(why) PROVE SInv' /\ ReaderFits'
  BY <1>1, <1>2, FailsKeeps
<1> HIDE DEF part, left
<1>3. ASSUME NEW got, Parts(m.p, got, left), NEW s \in Nat, s <= MaxPayload,
             m.op \in {"text", "binary"}, Assembled(m.op, got, s, k = Len(tokens))
      PROVE  SInv' /\ ReaderFits'
  <2>0. Parts(m.p, got, left) /\ s <= MaxPayload /\ m.op \in {"text", "binary"}
    BY <1>3
  <2>1. CASE k = Len(tokens)
    <3>1. got = m.p
      <4>1. Len(tokens) \in Nat
        OBVIOUS
      <4>2. left = <<>>
        BY <2>1, <4>1, SubSeqEmpty DEF left
      <4> QED
        BY <1>3, <4>2, LastPart
    <3>2. Becomes(OnMessage(m.op, m.p)) /\ fragmented' \in BOOLEAN /\ ~fragmented' /\ size' = 0
      BY <1>3, <2>1, <3>1 DEF Assembled
    <3>3. open' = NoMessage /\ said' = Append(said, m)
      BY <1>1, <2>1
    <3> QED
      BY <2>0, <3>2, <3>3, WholeKeeps
  <2>2. CASE k # Len(tokens)
    <3>1. fragmented' = TRUE /\ opcode' = m.op /\ msg' = got /\ size' = s /\ UNCHANGED sess
      BY <1>3, <2>2 DEF Assembled
    <3> QED
      BY <1>1, <2>0, <2>2, <3>1, PartKeeps
  <2> QED
    BY <2>1, <2>2
<1>4. ReadData(k = Len(tokens), op, part, n)
  BY DEF Send, part
<1>5. CASE GetLength(PutLength(n)) # n
  <2>1. Fails("out of step")
    BY <1>4, <1>5 DEF ReadData
  <2> QED
    BY <1>2, <2>1, InboundAssumption
<1>6. CASE n > MaxPayload
  <2>1. Fails("out of step") \/ Fails("too large")
    BY <1>4, <1>6 DEF ReadData
  <2> QED
    BY <1>2, <2>1, InboundAssumption
<1>7. CASE GetLength(PutLength(n)) = n /\ ~(n > MaxPayload) /\ op # "continuation"
  <2>1. /\ tokens = m.p /\ IsSeq(m.p) /\ op = m.op /\ m.op \in {"text", "binary"}
    BY <1>7
  <2>2. CASE fragmented
    <3>1. Fails("protocol")
      BY <1>4, <1>7, <2>2 DEF ReadData
    <3> QED
      BY <1>2, <3>1, InboundAssumption
  <2>3. CASE ~fragmented
    <3>1. Assembled(m.op, part, n, k = Len(tokens))
      BY <1>4, <1>7, <2>1, <2>3 DEF ReadData
    <3>2. n <= MaxPayload
      BY <1>7, Limits
    <3>3. Parts(m.p, part, left)
      BY <2>1, FirstPart DEF part, left
    <3> QED
      BY <1>3, <2>1, <3>1, <3>2, <3>3
  <2> QED
    BY <2>2, <2>3
<1>8. CASE GetLength(PutLength(n)) = n /\ ~(n > MaxPayload) /\ op = "continuation"
  <2>1. m = open /\ tokens = rest
    BY <1>8
  <2>2. CASE ~fragmented
    <3>1. Fails("protocol")
      BY <1>4, <1>8, <2>2 DEF ReadData
    <3> QED
      BY <1>2, <3>1, InboundAssumption
  <2>3. CASE fragmented /\ size + n > MaxPayload
    <3>1. Fails("too large")
      BY <1>4, <1>8, <2>3 DEF ReadData
    <3> QED
      BY <1>2, <3>1, InboundAssumption
  <2>4. CASE fragmented /\ ~(size + n > MaxPayload)
    <3>1. Halfway /\ size \in Nat
      BY <2>4 DEF ReaderFits
    <3>2. opcode = m.op /\ m.op \in {"text", "binary"} /\ Parts(m.p, msg, tokens)
      BY <2>1, <3>1 DEF Halfway
    <3>3. Assembled(m.op, msg \o part, size + n, k = Len(tokens))
      BY <1>4, <1>8, <2>4, <3>2 DEF ReadData
    <3>4. Parts(m.p, msg \o part, left)
      BY <3>2, NextPart DEF part, left
    <3>5. size + n \in Nat /\ size + n <= MaxPayload
      BY <2>4, <3>1, Limits
    <3> QED
      BY <1>3, <3>2, <3>3, <3>4, <3>5
  <2> QED
    BY <2>2, <2>3, <2>4
<1> QED
  BY <1>5, <1>6, <1>7, <1>8
-----------------------------------------------------------------------------
(* Every step keeps the invariant.                                         *)
LEMMA LoadFits ==
  ASSUME ReaderFits
  PROVE  /\ load.sizes \subseteq Nat /\ load.civil \in BOOLEAN
         /\ \A q \in load.packets :
              IF load.civil
              THEN IsSeq(Encode(q)) /\ IsSeq(q.bufs) /\ \A j \in DOMAIN q.bufs : IsSeq(q.bufs[j])
              ELSE IsSeq(q)
  BY InboundAssumption, Zenon DEF ReaderFits, load

LEMMA CutFits ==
  ASSUME NEW t, IsSeq(t)
  PROVE  Cut(t) \subseteq 0 .. Len(t)
<1>1. Len(t) \in Nat
  BY DEF IsSeq
<1> QED
  BY <1>1 DEF Cut

(* A text, behind its first byte; and what follows the first.              *)
LEMMA TextSeq ==
  ASSUME NEW s, IsSeq(s), NEW e
  PROVE  IsSeq(<<e>> \o s)
<1> DEFINE S == Range(s) \cup {e}
<1>1. s \in Seq(S) /\ <<e>> \in Seq(S)
  BY DEF IsSeq
<1>2. <<e>> \o s \in Seq(S)
  BY <1>1
<1> QED
  BY <1>2, SeqOfRange DEF IsSeq

LEMMA TailOwing ==
  ASSUME Owing, owed # <<>>, owed' = Tail(owed)
  PROVE  Owing' /\ IsSeq(Head(owed))
<1>1. owed \in Seq(Range(owed)) /\ Len(owed) \in Nat /\ DOMAIN owed = 1 .. Len(owed)
  BY DEF Owing, IsSeq
<1>2. Len(owed) # 0
  BY <1>1, EmptySeq
<1>3. Head(owed) = owed[1] /\ 1 \in DOMAIN owed
  BY <1>1, <1>2
<1>4. /\ Tail(owed) \in Seq(Range(owed)) /\ DOMAIN Tail(owed) = 1 .. Len(owed) - 1
      /\ \A j \in 1 .. Len(owed) - 1 : Tail(owed)[j] = owed[j + 1]
  BY <1>1, <1>2, HeadTailProperties
<1>5. IsSeq(Tail(owed))
  BY <1>4, SeqOfRange DEF IsSeq
<1>6. \A j \in DOMAIN Tail(owed) : IsSeq(Tail(owed)[j])
  <2> TAKE j \in DOMAIN Tail(owed)
  <2>1. j + 1 \in DOMAIN owed /\ Tail(owed)[j] = owed[j + 1]
    BY <1>1, <1>4
  <2> QED
    BY <2>1 DEF Owing
<1> QED
  BY <1>3, <1>5, <1>6 DEF Owing

LEMMA BeginKeeps ==
  ASSUME IInv, peerNo' = peerNo, NEW op \in {"text", "binary"}, NEW p, IsSeq(p), Begin(op, p)
  PROVE  SInv' /\ ReaderFits'
<1>1. SInv /\ ReaderFits
  BY DEF IInv
<1>2. over = NONE /\ open = NoMessage
  BY DEF Begin, Ready
<1>3. PICK m : m = Message(op, p)
  OBVIOUS
<1>4. m.op = op /\ m.p = p
  BY <1>3 DEF Message
<1>5. PICK k \in Cut(p), n \in load.sizes : Send(op, m, p, k, n)
  BY <1>3 DEF Begin
<1>6. k \in 0 .. Len(p) /\ n \in Nat
  BY <1>1, CutFits, LoadFits
<1> QED
  BY <1>1, <1>2, <1>4, <1>5, <1>6, SendKeeps

LEMMA OpenIsMessage == Halfway => open # NoMessage
<1>1. NONE # "text" /\ NONE # "binary"
  BY InboundAssumption
<1>2. NoMessage.op = NONE
  BY DEF NoMessage
<1> QED
  BY <1>1, <1>2 DEF Halfway

LEMMA UnchangedKeeps ==
  ASSUME IInv, UNCHANGED <<peer, read, sess>>
  PROVE  IInv'
<1>1. SInv'
  BY SameKeeps DEF IInv, peer
<1>2. ReaderFits' /\ Owing'
  BY DEF IInv, ReaderFits, Halfway, Owing, peer, read, sess
<1> QED
  BY <1>1, <1>2 DEF IInv

LEMMA Step ==
  ASSUME IInv, Next
  PROVE  IInv'
<1>0. SInv /\ ReaderFits /\ Owing
  BY DEF IInv
<1>1. CASE BeginPacket
  <2>1. PICK q \in load.packets : /\ owed' = q.bufs
                                  /\ Begin("text", <<Char("4")>> \o Encode(q))
    BY <1>1 DEF BeginPacket
  <2>2. load.civil /\ peerNo' = peerNo
    BY <1>1 DEF BeginPacket
  <2>3. IsSeq(Encode(q)) /\ IsSeq(q.bufs) /\ \A j \in DOMAIN q.bufs : IsSeq(q.bufs[j])
    BY <1>0, <2>2, LoadFits
  <2>4. SInv' /\ ReaderFits'
    BY <2>1, <2>2, <2>3, TextSeq, BeginKeeps
  <2>5. Owing'
    BY <2>1, <2>3 DEF Owing
  <2> QED
    BY <2>4, <2>5 DEF IInv
<1>2. CASE BeginBinary
  <2>1. /\ owed # <<>> /\ owed' = Tail(owed) /\ peerNo' = peerNo
        /\ Begin("binary", Head(owed))
    BY <1>2 DEF BeginBinary
  <2>2. Owing' /\ IsSeq(Head(owed))
    BY <1>0, <2>1, TailOwing
  <2>3. SInv' /\ ReaderFits'
    BY <2>1, <2>2, BeginKeeps
  <2> QED
    BY <2>2, <2>3 DEF IInv
<1>3. CASE Continue
  <2>1. over = NONE /\ open # NoMessage /\ UNCHANGED <<peerNo, owed>>
    BY <1>3 DEF Continue, Ready
  <2>2. Halfway
    BY <1>0, <2>1 DEF ReaderFits
  <2>3. IsSeq(rest)
    <3>1. rest \in Seq(Range(open.p))
      BY <2>2 DEF Halfway, Parts
    <3> QED
      BY <3>1, SeqOfRange DEF IsSeq
  <2>4. PICK k \in Cut(rest), n \in load.sizes : Send("continuation", open, rest, k, n)
    BY <1>3 DEF Continue
  <2>5. k \in 0 .. Len(rest) /\ n \in Nat
    BY <1>0, <2>3, CutFits, LoadFits
  <2>6. PICK m : m = open
    OBVIOUS
  <2>7. PICK tokens : tokens = rest
    OBVIOUS
  <2>8. SInv' /\ ReaderFits'
    BY <1>0, <2>1, <2>4, <2>5, <2>6, <2>7, SendKeeps
  <2> QED
    BY <1>0, <2>1, <2>8 DEF IInv, Owing
<1>4. CASE BeginAny
  <2>1. ~load.civil /\ UNCHANGED <<peerNo, owed>>
    BY <1>4 DEF BeginAny
  <2>2. PICK op, p : op \in {"text", "binary"} /\ Begin(op, p) /\ IsSeq(p)
    <3>1. CASE \E t \in load.packets : Begin("text", t)
      BY <1>0, <2>1, <3>1, LoadFits
    <3>2. CASE Begin("binary", <<Char("b"), Char(ToString(Len(said)))>>)
      <4>1. ASSUME NEW a, NEW b PROVE IsSeq(<<a, b>>)
        <5>1. <<a, b>> \in Seq({a, b})
          OBVIOUS
        <5> QED
          BY <5>1, SeqOfRange DEF IsSeq
      <4> QED
        BY <3>2, <4>1
    <3> QED
      BY <1>4, <3>1, <3>2 DEF BeginAny
  <2>3. SInv' /\ ReaderFits'
    BY <2>1, <2>2, BeginKeeps
  <2> QED
    BY <1>0, <2>1, <2>3 DEF IInv, Owing
<1>5. CASE Control
  <2>1. UNCHANGED <<peer, read, sess>>
    BY <1>5 DEF Control, MessageKept
  <2> QED
    BY <2>1, UnchangedKeeps
<1>6. ASSUME NEW why, why # NONE, Fails(why), UNCHANGED peer PROVE IInv'
  <2>1. said' = said /\ peerNo' = peerNo /\ owed' = owed
    BY <1>6 DEF peer
  <2>2. SInv' /\ ReaderFits'
    BY <1>0, <1>6, <2>1, FailsKeeps
  <2> QED
    BY <1>0, <2>1, <2>2 DEF IInv, Owing
<1>7. CASE BreakRules
  <2>1. over = NONE /\ UNCHANGED peer
    BY <1>7 DEF BreakRules, Ready
  <2>2. \/ Fails("protocol")
        \/ open # NoMessage /\ ReadData(TRUE, "text", <<>>, 1)
        \/ open = NoMessage /\ ReadData(TRUE, "continuation", <<>>, 1)
    BY <1>7 DEF BreakRules, Fails
  <2>3. open # NoMessage <=> fragmented
    BY <1>0, <2>1, OpenIsMessage DEF ReaderFits
  <2>4. Fails("protocol") \/ Fails("out of step") \/ Fails("too large")
    BY <2>2, <2>3 DEF ReadData
  <2> QED
    BY <1>6, <2>1, <2>4, InboundAssumption
<1>8. CASE Leave
  <2>1. Fails("closed") /\ UNCHANGED peer
    BY <1>8 DEF Leave, Fails
  <2> QED
    BY <1>6, <2>1, InboundAssumption
<1> QED
  BY <1>1, <1>2, <1>3, <1>4, <1>5, <1>7, <1>8 DEF Next

-----------------------------------------------------------------------------
(* Theorems.                                                               *)

(* Whatever peers send, in frames of whatever sizes, and however they cut  *)
(* and mix them: ReadMessage has of a message what has been sent of it,    *)
(* the packet handleSession waits to complete has its own binaries only,   *)
(* and nothing that has been dispatched took another's.                    *)
THEOREM InvariantHolds == Spec => []IInv
<1>1. Init => IInv
  <2> SUFFICES ASSUME Init PROVE IInv
    OBVIOUS
  <2>1. IsSeq(<<>>) /\ Len(<<>>) = 0 /\ DOMAIN <<>> = {}
    BY DEF IsSeq
  <2>2. Told /\ Owing
    BY <2>1 DEF Init, Told, Owing
  <2>3. PendingFits
    BY <2>1, Limits DEF Init, PendingFits, NoPending
  <2>4. Greeted
    BY DEF Init, Greeted
  <2>5. \A i \in DOMAIN dispatched : Owned(i)
    BY <2>1 DEF Init
  <2>6. ReaderFits
    <3>1. /\ peerNo \in DOMAIN Loads /\ fragmented \in BOOLEAN /\ ~fragmented
          /\ size = 0 /\ open = NoMessage
      BY DEF Init
    <3>2. 0 <= MaxPayload
      BY Limits
    <3> QED
      BY <3>1, <3>2 DEF ReaderFits
  <2> QED
    BY <2>2, <2>3, <2>4, <2>5, <2>6 DEF IInv, SInv
<1>2. IInv /\ [Next]_vars => IInv'
  BY Step, UnchangedKeeps DEF vars
<1> QED
  BY <1>1, <1>2, PTL DEF Spec

(* Decode, handleSession: a packet is dispatched once, as its header says, *)
(* with exactly the binaries sent after that header, in their order and as *)
(* many as it announces; none is before CONNECT, and a session never holds *)
(* more than MaxPayload of a message or MaxHeld attachments.               *)
THEOREM AttachmentsAreOwn == Spec => []AttachmentsOwn
<1>1. IInv => AttachmentsOwn
  <2> SUFFICES ASSUME IInv PROVE AttachmentsOwn
    OBVIOUS
  <2>1. size <= MaxPayload /\ Len(pending.bufs) < MaxHeld
    BY DEF IInv, SInv, ReaderFits, PendingFits
  <2>2. \A i \in DOMAIN dispatched : Owned(i)
    BY DEF IInv, SInv
  <2>3. \A i \in DOMAIN dispatched : dispatched[1].pkt.type = "0"
    BY DEF IInv, SInv, Greeted
  <2> QED
    BY <2>1, <2>2, <2>3 DEF AttachmentsOwn, Owned
<1> QED
  BY <1>1, InvariantHolds, PTL
=============================================================================
