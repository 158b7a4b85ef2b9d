------------------------------ MODULE Inbound -------------------------------
(***************************************************************************)
(* What a WebSocket peer sends, up to the packets the session dispatches:  *)
(* readFrame, WSConn.ReadMessage and handleEIO (transport/transport.go),   *)
(* then the loop of handleSession (server/server.go) with packet.Decode    *)
(* and packet.Reconstruct.                                                 *)
(*                                                                         *)
(* The peer breaks its messages into frames as it likes, with PINGs and    *)
(* PONGs between them.  A civil one sends packets built as packet.go does, *)
(* each followed by its binaries; any other sends what it likes.  A step   *)
(* is one frame, read as soon as it is sent.                               *)
(***************************************************************************)
EXTENDS Packet

CONSTANTS
  Loads,      \* what peers do (bounds), one record for each: whether it is civil,
              \* the packets (or texts) it draws from, how many it sends, in how
              \* many fragments, and the sizes of its frames in bytes
  MaxPayload, \* Options.MaxPayload
  MaxHeld     \* attachments handleSession waits for at most (64)

(* A text is a sequence of whatever tokens.                                *)
IsSeq(s) == s \in Seq(Range(s))

(* setDefaults makes MaxPayload positive.  Peers send texts, what is built *)
(* as packet.go does included.                                             *)
ASSUME InboundAssumption ==
  /\ MaxPayload \in Nat \ {0} /\ MaxHeld \in Nat \ {0}
  /\ NONE \notin {"text", "binary", "closed", "protocol", "too large", "out of step",
                  "stray binary", "bad packet", "no CONNECT", "too many"}
  /\ \A i \in DOMAIN Loads :
       LET l == Loads[i] IN
       /\ l.civil \in BOOLEAN /\ l.sizes \subseteq Nat
       /\ \A q \in l.packets :
            IF l.civil
            THEN /\ IsSeq(Encode(q)) /\ IsSeq(q.bufs)
                 /\ \A j \in DOMAIN q.bufs : IsSeq(q.bufs[j])
            ELSE IsSeq(q)

VARIABLES
  peerNo,     \* which of the Loads this peer has
  owed,       \* peer: binaries of the current packet it has yet to send
  open,       \* peer: the message it is in, NoMessage between two
  rest,       \* peer: what it has yet to send of that message
  frags,      \* peer: fragments of it sent
  packet,     \* peer, civil: the packet whose parts it is sending
  due,        \* peer, civil: the packets it has sent whole
  said,       \* peer: the messages it has sent whole
  fragmented, opcode, msg, size,   \* ReadMessage: the message so far, and its length
  connectedAny, pending,           \* handleSession
  over,       \* why the loop has ended, NONE if it has not
  dispatched  \* history: what dispatchPacket was called with

load == Loads[peerNo]
peer == <<peerNo, owed, open, rest, frags, packet, due, said>>
read == <<fragmented, opcode, msg, size>>
sess == <<connectedAny, pending, over, dispatched>>
vars == <<peer, read, sess>>

NoMessage == [op |-> NONE, p |-> <<>>]
NoPending == [pkt |-> Bad, bufs |-> <<>>, at |-> 0]

Init ==
  /\ peerNo \in DOMAIN Loads
  /\ owed = <<>> /\ open = NoMessage /\ rest = <<>> /\ frags = 0 /\ packet = Bad
  /\ due = <<>> /\ said = <<>>
  /\ fragmented = FALSE /\ opcode = NONE /\ msg = <<>> /\ size = 0
  /\ connectedAny = FALSE /\ pending = NoPending /\ over = NONE /\ dispatched = <<>>

-----------------------------------------------------------------------------
(* Frames.  writeFrame puts a length into one of three forms, the longest  *)
(* for lengths below 2^32 here, and readFrame takes it out again.          *)

Hi(n) == (n \div 256) % 256
Lo(n) == n % 256
Number(hi, lo) == 256 * hi + lo

PutLength(n) ==
  IF n <= 125 THEN <<n>>
  ELSE IF n <= 65535 THEN <<126, Hi(n), Lo(n)>>
  ELSE <<127, 0, 0, 0, 0, Hi(n \div 65536), Lo(n \div 65536), Hi(n), Lo(n)>>

GetLength(b) ==
  IF b[1] = 126 THEN Number(b[2], b[3])
  ELSE IF b[1] = 127 THEN 65536 * Number(b[6], b[7]) + Number(b[8], b[9])
  ELSE b[1]

-----------------------------------------------------------------------------
(* handleSession, for one message of ReadMessage.  Each operator gives the *)
(* session's new state.                                                    *)

Same == [conn |-> connectedAny, pend |-> pending, over |-> NONE, out |-> <<>>]
Ends(why) == [Same EXCEPT !.over = why]
Dispatch(p, bufs, at) == [pkt |-> p, bufs |-> bufs, at |-> at, till |-> Len(said')]

(* Mutant: binaries that came after an earlier header count.               *)
OldBuffers == pending.bufs
NoBuffers == <<>>

OnBinary(b) ==
  LET bufs == Append(pending.bufs, b) IN
  IF pending.pkt = Bad THEN Ends("stray binary")
  ELSE IF Len(bufs) = pending.pkt.atts
       THEN [Same EXCEPT !.pend = NoPending, !.out = <<Dispatch(pending.pkt, bufs, pending.at)>>]
       ELSE [Same EXCEPT !.pend.bufs = bufs]

OnText(raw) ==
  LET p == Decode(raw) IN
  IF raw = <<>> THEN Same
  ELSE IF p = Bad THEN Ends("bad packet")
  ELSE IF ~connectedAny /\ p.type # "0" THEN Ends("no CONNECT")
  ELSE IF p.type \notin Binary
       THEN [Same EXCEPT !.conn = TRUE, !.out = <<Dispatch(p, <<>>, Len(said'))>>]
  ELSE IF p.atts > MaxHeld THEN Ends("too many")
  ELSE [Same EXCEPT !.conn = TRUE,
                    !.pend = [pkt |-> p, bufs |-> NoBuffers, at |-> Len(said')]]

(* handleEIO, for a text: a PONG may carry another packet, a message loses *)
(* its first byte, PING and NOOP are used up, anything else goes through.  *)
Probe == <<Char("2"), Char("probe")>>

WithoutPongs(p) ==
  LET others == {i \in DOMAIN p : p[i] # Char("3")} IN
  IF others = {} THEN <<>> ELSE From(p, Min(others))

Handed(p) ==
  LET c == Head(p) IN
  IF p = <<>> \/ c = Char("6") \/ (c = Char("2") /\ p # Probe) THEN <<>>
  ELSE IF c = Char("4") THEN Tail(p) ELSE p

OnEIO(p) ==
  LET q == WithoutPongs(p) IN
  IF q # <<>> /\ Head(q) = Char("1") THEN Ends("closed") ELSE OnText(Handed(q))

OnMessage(op, p) == IF op = "text" THEN OnEIO(p) ELSE OnBinary(p)

Becomes(s) ==
  /\ connectedAny' = s.conn /\ pending' = s.pend /\ over' = s.over
  /\ dispatched' = dispatched \o s.out

-----------------------------------------------------------------------------
(* WSConn.ReadMessage, for one frame.                                      *)

Fails(why) == Becomes(Ends(why)) /\ UNCHANGED read

Assembled(op, p, n, fin) ==
  IF fin
  THEN Becomes(OnMessage(op, p)) /\ fragmented' = FALSE /\ opcode' = NONE /\ msg' = <<>> /\ size' = 0
  ELSE fragmented' = TRUE /\ opcode' = op /\ msg' = p /\ size' = n /\ UNCHANGED sess

(* A data frame of n bytes; the length it seems to have is m.              *)
ReadData(fin, op, p, n) ==
  LET m == GetLength(PutLength(n)) IN
  IF m # n THEN Fails("out of step")
  ELSE IF n > MaxPayload THEN Fails("too large")
  ELSE IF op = "continuation"
       THEN IF ~fragmented THEN Fails("protocol")
            ELSE IF size + n > MaxPayload THEN Fails("too large")
            ELSE Assembled(opcode, msg \o p, size + n, fin)
       ELSE IF fragmented THEN Fails("protocol")
            ELSE Assembled(op, p, n, fin)

-----------------------------------------------------------------------------
(* The peer.                                                               *)

Ready == over = NONE /\ Len(IF load.civil THEN due ELSE said) < load.messages

(* The next k tokens of the message, with n bytes in the frame.            *)
Send(op, opening, tokens, k, n) ==
  LET fin == k = Len(tokens) IN
  /\ frags' = IF fin THEN 0 ELSE frags + 1
  /\ open' = IF fin THEN NoMessage ELSE opening
  /\ rest' = IF fin THEN <<>> ELSE SubSeq(tokens, k + 1, Len(tokens))
  /\ said' = IF fin THEN Append(said, opening) ELSE said
  /\ due' = IF fin /\ load.civil /\ owed' = <<>> THEN Append(due, packet') ELSE due
  /\ ReadData(fin, op, SubSeq(tokens, 1, k), n)

Message(op, p) == [op |-> op, p |-> p]

Cut(tokens) == IF frags + 1 < load.frags THEN 0 .. Len(tokens) ELSE {Len(tokens)}

Begin(op, p) ==
  /\ Ready /\ open = NoMessage
  /\ \E k \in Cut(p), n \in load.sizes : Send(op, Message(op, p), p, k, n)

(* A civil peer: CONNECT first; a header, then its binaries.               *)
BeginPacket ==
  /\ load.civil /\ owed = <<>>
  /\ \E q \in load.packets :
       /\ due = <<>> => q.type = "0"
       /\ packet' = q /\ owed' = q.bufs
       /\ Begin("text", <<Char("4")>> \o Encode(q))
  /\ UNCHANGED peerNo

BeginBinary ==
  /\ load.civil /\ owed # <<>>
  /\ owed' = Tail(owed) /\ UNCHANGED <<peerNo, packet>>
  /\ Begin("binary", Head(owed))

Continue ==
  /\ Ready /\ open # NoMessage
  /\ UNCHANGED <<peerNo, owed, packet>>
  /\ \E k \in Cut(rest), n \in load.sizes :
       /\ load.civil => size + n <= MaxPayload
       /\ Send("continuation", open, rest, k, n)

(* Mutant: a control frame ends the message it comes in.                   *)
MessageCut == fragmented' = FALSE /\ UNCHANGED <<opcode, msg, size>>
MessageKept == UNCHANGED read

(* A PING or a PONG, between any two frames.                               *)
Control ==
  /\ Ready /\ MessageKept
  /\ UNCHANGED <<peer, sess>>

(* Any other peer: any text, any binary, at any time.                      *)
BeginAny ==
  /\ ~load.civil
  /\ UNCHANGED <<peerNo, owed, packet>>
  /\ \/ \E t \in load.packets : Begin("text", t)
     \/ Begin("binary", <<Char("b"), Char(ToString(Len(said)))>>)

(* A frame that breaks the rules: not masked, reserved bits or opcodes, a  *)
(* long or fragmented control frame, a second message inside the first, a  *)
(* continuation of nothing.  Or the peer closes or leaves.                 *)
BreakRules ==
  /\ Ready /\ ~load.civil /\ UNCHANGED peer
  /\ \/ Becomes(Ends("protocol")) /\ UNCHANGED read
     \/ open # NoMessage /\ ReadData(TRUE, "text", <<>>, 1)
     \/ open = NoMessage /\ ReadData(TRUE, "continuation", <<>>, 1)

Leave ==
  /\ Ready /\ Becomes(Ends("closed"))
  /\ UNCHANGED <<peer, read>>

-----------------------------------------------------------------------------
Next == BeginPacket \/ BeginBinary \/ Continue \/ BeginAny \/ Control \/ BreakRules \/ Leave

Spec == Init /\ [][Next]_vars

-----------------------------------------------------------------------------
(* Properties.                                                             *)

(* The message announces binaries.                                         *)
IsHeader(m) == m.op = "text" /\ Decode(Handed(WithoutPongs(m.p))).type \in Binary

(* What h has comes of the message it stands for and the binaries between  *)
(* that and the last of the messages, which no other header is among.      *)
Own(at, last) == {k \in at + 1 .. last : said[k].op = "binary"}
IsOwn(h, last) ==
  /\ h.at \in 1 .. last /\ said[h.at].op = "text"
  /\ h.pkt = Decode(Handed(WithoutPongs(said[h.at].p)))
  /\ Cardinality(Own(h.at, last)) = Len(h.bufs)
  /\ \A k \in Own(h.at, last) : said[k].p = h.bufs[Cardinality(Own(h.at, k))]
  /\ \A k \in h.at + 1 .. last : ~IsHeader(said[k])

(* Whatever a peer sends, and however it cuts that into frames, a packet   *)
(* is dispatched once, as its header says, with exactly the binaries sent  *)
(* after that header, in their order and as many as it announces, and none *)
(* that came after another header; and none before CONNECT.  Nor can a     *)
(* peer make the session hold more than MaxPayload of a message or a       *)
(* number of attachments it refuses.                                       *)
AttachmentsOwn ==
  /\ size <= MaxPayload /\ Len(pending.bufs) < MaxHeld
  /\ \A i \in DOMAIN dispatched :
       LET d == dispatched[i] IN
       /\ d.till \in 1 .. Len(said) /\ IsOwn(d, d.till)
       /\ Len(d.bufs) = IF d.pkt.type \in Binary THEN d.pkt.atts ELSE 0
       /\ \A j \in 1 .. i - 1 : dispatched[j].at # d.at /\ dispatched[j].till < d.till
       /\ dispatched[1].pkt.type = "0"
=============================================================================
