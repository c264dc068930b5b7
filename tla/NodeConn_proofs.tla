--------------------------- MODULE NodeConn_proofs ---------------------------
(***************************************************************************)
(* TLAPS proofs about NodeConn, for every number of workers, connections,  *)
(* messages and messages that a socket takes: messages arrive in order and *)
(* after the handshake, what has to be written is watched, and the table   *)
(* of connections by node id is right.                                     *)
(***************************************************************************)
EXTENDS NodeConn, SequenceTheorems, TLAPS

-----------------------------------------------------------------------------
(* Sequences *)

\* The elements of a sequence, by index.
LEMMA RangeFacts ==
    ASSUME NEW S, NEW s \in Seq(S)
    PROVE  /\ DOMAIN s = 1..Len(s)
           /\ Len(s) \in Nat
           /\ Range(s) = {s[j] : j \in 1..Len(s)}
           /\ Range(s) \subseteq S
  BY LenProperties, ElementOfSeq DEF Range

\* A sequence is its head and its tail.
LEMMA HeadTailConcat ==
    ASSUME NEW S, NEW s \in Seq(S), s # <<>>
    PROVE  /\ Head(s) \in S
           /\ Tail(s) \in Seq(S)
           /\ s = <<Head(s)>> \o Tail(s)
  <1>1. Head(s) \in S /\ Tail(s) \in Seq(S) /\ Head(s) = s[1]
    BY HeadTailProperties
  <1>2. Len(s) \in Nat /\ Len(s) >= 1
    BY EmptySeq, LenProperties
  <1>3. SubSeq(s, 1, Len(s)) = <<s[1]>> \o SubSeq(s, 2, Len(s))
    BY <1>2, SubSeqRecursiveFirst
  <1>4. SubSeq(s, 1, Len(s)) = s /\ SubSeq(s, 2, Len(s)) = Tail(s)
    BY SubSeqFull, TailIsSubSeq
  <1> QED
    BY <1>1, <1>3, <1>4

\* A partial write takes n elements from the front and leaves the others.
LEMMA SplitAt ==
    ASSUME NEW S, NEW s \in Seq(S), NEW n \in 0..Len(s)
    PROVE  LET a == SubSeq(s, 1, n)
               b == SubSeq(s, n + 1, Len(s))
           IN  /\ a \in Seq(S) /\ b \in Seq(S)
               /\ a \o b = s
               /\ n < Len(s) <=> b # <<>>
  <1> DEFINE a == SubSeq(s, 1, n)
             b == SubSeq(s, n + 1, Len(s))
  <1>1. Len(s) \in Nat /\ n \in Nat
    BY LenProperties
  <1>2. a \in Seq(S)
    BY <1>1, SubSeqProperties
  <1>3. b \in Seq(S) /\ Len(b) = IF n + 1 <= Len(s) THEN Len(s) - (n + 1) + 1 ELSE 0
    BY <1>1, SubSeqProperties
  <1>4. a \o b = s
    <2>1. 1 \in 1..(Len(s) + 1) /\ n \in (1 - 1)..Len(s) /\ Len(s) \in n..Len(s)
      BY <1>1
    <2>2. SubSeq(s, 1, n) \o SubSeq(s, n + 1, Len(s)) = SubSeq(s, 1, Len(s))
      BY <2>1, ConcatAdjacentSubSeq
    <2> QED
      BY <2>2, SubSeqFull
  <1>5. n < Len(s) <=> b # <<>>
    <2>1. CASE n < Len(s)
      <3>1. Len(b) # 0
        BY <1>1, <1>3, <2>1
      <3> HIDE DEF b
      <3>2. b # <<>>
        BY <3>1, EmptySeq
      <3> QED
        BY <2>1, <3>2
    <2>2. CASE ~(n < Len(s))
      <3>1. b = <<>>
        BY <1>1, <2>2, SubSeqEmpty
      <3> QED
        BY <2>2, <3>1
    <2> QED
      BY <2>1, <2>2
  <1> QED
    BY <1>2, <1>3, <1>4, <1>5

-----------------------------------------------------------------------------
(* The inductive invariant: what holds of one connection *)

MsgSeq == Seq(Msgs)
WireSeq == Seq(Msgs \cup Handshake)

\* Nothing is in the buffer and on the way but what waits.
Empty(k) == k.up = <<>> /\ k.send = <<>>

\* One request of the handshake is, in the buffer or on the way.
OneReq(k, x) ==
    \/ k.up = <<x>> /\ k.send = <<>>
    \/ k.up = <<>> /\ k.send = <<x>>

\* The handshake: CONNECT is sent, refused or not, granted, TELL is sent, and
\* answered by B1.
Shaking(k) ==
    \/ OneReq(k, CONNECT) /\ k.down = <<>> /\ k.at \in {"manager", "gone"}
    \/ Empty(k) /\ k.down \in {<<>>, <<"CONNECT_ERR">>} /\ k.at \in {"manager", "gone"}
    \/ Empty(k) /\ k.down = <<"CONNECT_OK">>
    \/ OneReq(k, TELL) /\ k.down = <<>>
    \/ Empty(k) /\ k.down = <<"TELL_OK">> /\ k.at \in {"worker", "gone"}

\* After the handshake there are only messages.
Messaging(k) ==
    k.up \in MsgSeq /\ k.send \in MsgSeq /\ k.down = <<>> /\ k.at \in {"worker", "gone"}

Phase(k) ==
    /\ k.state = "UNKOWN" => Empty(k) /\ k.down = <<>> /\ k.wait = <<>> /\ k.at = "gone"
    /\ k.state = "TRY_CONNECT" =>
          Empty(k) /\ k.down = <<>> /\ k.at \in {"manager", "gone"} /\ k.write
    /\ k.state = "CONNECTING" => Shaking(k)
    /\ k.state = "CONNECTED" => Messaging(k)
    /\ k.state = "CLOSED" => Shaking(k) \/ Messaging(k)
    /\ k.state # "UNKOWN" => k.from \in Workers /\ k.to \in Workers /\ k.from # k.to

Watched(k) ==
    IsOpen(k) /\ ~k.write =>
        k.state # "TRY_CONNECT" /\ (IF k.state = "CONNECTED" THEN k.wait ELSE k.send) = <<>>

\* Of the messages gv that it took, B1 has gt, a prefix, and the others are on
\* the way.
Passed(k, gv, gt) ==
    /\ k.state = "UNKOWN" => gv = <<>> /\ gt = <<>>
    /\ \E rest \in MsgSeq : gv = gt \o rest
    /\ k.at # "gone" => gv = gt \o Underway(k)

ConnInv(k, gv, gt) == k \in Conn /\ Phase(k) /\ Watched(k) /\ Passed(k, gv, gt)

\* The table has the open connections of each worker.
TableInv ==
    \A w \in Workers : \A n \in Workers \ {w} : \A c \in Conns :
        m_node_conns[w][n] = c <=> IsOpen(conns[c]) /\ conns[c].from = w /\ conns[c].to = n

IndInv ==
    /\ TypeOK
    /\ \A c \in Conns : ConnInv(conns[c], given[c], got[c])
    /\ TableInv

-----------------------------------------------------------------------------
(* Sequences of messages *)

\* Messages may be joined in any order.
LEMMA MsgsAssociative == \A s, t, u \in MsgSeq : (s \o t) \o u = s \o (t \o u)
  BY ConcatAssociative DEF MsgSeq

\* And give a sequence of messages.
LEMMA MsgsConcat == \A s, t \in MsgSeq : s \o t \in MsgSeq
  BY ConcatProperties DEF MsgSeq

\* s \o t, as an operator that the provers do not open.
Cat(s, t) == s \o t

\* A first part may be joined after the rest.
LEMMA MsgsShift ==
    \A a, b, c, d \in MsgSeq : Cat(Cat(Cat(a, b), c), d) = Cat(a, Cat(Cat(b, c), d))
  <1>1. \A a, b, c \in MsgSeq : Cat(Cat(a, b), c) = Cat(a, Cat(b, c))
    BY MsgsAssociative DEF Cat
  <1>2. \A a, b \in MsgSeq : Cat(a, b) \in MsgSeq
    BY MsgsConcat DEF Cat
  <1> QED
    BY <1>1, <1>2

\* The empty sequence is one of messages and changes nothing.
LEMMA MsgsEmpty == <<>> \in MsgSeq /\ \A s \in MsgSeq : s \o <<>> = s /\ <<>> \o s = s
  BY EmptySeq, ConcatEmptySeq DEF MsgSeq

\* Appending a message.
LEMMA MsgsAppend ==
    \A s \in MsgSeq, m \in Msgs : /\ Append(s, m) = s \o <<m>>
                                  /\ Append(s, m) \in MsgSeq /\ <<m>> \in MsgSeq
  BY AppendIsConcat, AppendProperties DEF MsgSeq

\* Requests of the handshake are no messages.
LEMMA HandshakeFacts ==
    /\ CONNECT \notin Msgs /\ TELL \notin Msgs /\ CONNECT # TELL
    /\ <<CONNECT>> \in WireSeq /\ <<TELL>> \in WireSeq
    /\ MsgSeq \subseteq WireSeq
  <1>1. CONNECT \notin Msgs /\ TELL \notin Msgs /\ CONNECT # TELL
    BY ConstantsAssumption DEF CONNECT, TELL, Msgs
  <1>2. <<CONNECT>> \in WireSeq /\ <<TELL>> \in WireSeq
    BY DEF WireSeq, Handshake
  <1>3. MsgSeq \subseteq WireSeq
    BY SeqMonotonic DEF MsgSeq, WireSeq
  <1> QED
    BY <1>1, <1>2, <1>3

\* Payload of the sequences that occur.
LEMMA PayloadFacts ==
    /\ \A s \in MsgSeq : Payload(s) = s
    /\ Payload(<<>>) = <<>> /\ Payload(<<CONNECT>>) = <<>> /\ Payload(<<TELL>>) = <<>>
  <1>1. \A s \in MsgSeq : Payload(s) = s
    BY RangeFacts DEF Payload, MsgSeq
  <1>2. ASSUME NEW x, x \notin Msgs PROVE Payload(<<x>>) = <<>>
    <2>1. x \in Range(<<x>>)
      BY DEF Range
    <2> QED
      BY <1>2, <2>1 DEF Payload
  <1> QED
    BY <1>1, <1>2, HandshakeFacts, MsgsEmpty

\* What is on the way during the handshake and after it.
LEMMA UnderwayFacts ==
    ASSUME NEW k \in Conn
    PROVE  /\ k.wait \in MsgSeq
           /\ Empty(k) \/ Shaking(k) => Underway(k) = k.wait
           /\ Messaging(k) => /\ Underway(k) = (k.up \o k.wait) \o k.send
                              /\ Underway(k) \in MsgSeq
  <1>1. k.wait \in MsgSeq
    BY DEF Conn, MsgSeq
  <1>2. ASSUME Empty(k) \/ Shaking(k) PROVE Underway(k) = k.wait
    <2>1. Payload(k.up) = <<>> /\ Payload(k.send) = <<>>
      BY <1>2, PayloadFacts DEF Shaking, Empty, OneReq
    <2> QED
      BY <1>1, <2>1, MsgsEmpty DEF Underway
  <1>3. ASSUME Messaging(k)
        PROVE  Underway(k) = (k.up \o k.wait) \o k.send /\ Underway(k) \in MsgSeq
    <2>1. Payload(k.up) = k.up /\ Payload(k.send) = k.send
      BY <1>3, PayloadFacts DEF Messaging
    <2>2. Underway(k) = (k.up \o k.wait) \o k.send
      BY <2>1 DEF Underway
    <2>3. k.up \o k.wait \in MsgSeq
      BY <1>1, <1>3, MsgsConcat DEF Messaging
    <2> QED
      BY <1>3, <2>2, <2>3, MsgsConcat DEF Messaging
  <1> QED
    BY <1>1, <1>2, <1>3

-----------------------------------------------------------------------------
(* Writing *)

\* d is k after a write of a, the front of the buffer it writes from; b is left.
WroteWait(k, d) ==
    /\ k.state = "CONNECTED" /\ k.wait # <<>>
    /\ d.send = k.send
    /\ \E a \in MsgSeq : a \o d.wait = k.wait /\ d.up = k.up \o a
    /\ d.write = (d.wait # <<>>)

WroteSend(k, d) ==
    /\ k.state # "CONNECTED" \/ k.wait = <<>>
    /\ d.wait = k.wait
    /\ \E n \in 0..Len(k.send) : /\ d.up = k.up \o SubSeq(k.send, 1, n)
                                 /\ d.send = SubSeq(k.send, n + 1, Len(k.send))
    /\ d.write = (d.send # <<>>)

Kept(k, d) ==
    /\ d.from = k.from /\ d.to = k.to /\ d.state = k.state
    /\ d.down = k.down /\ d.at = k.at

\* A write takes from one buffer, and watches it as long as it is not empty.
LEMMA WriteFacts ==
    ASSUME NEW k \in Conn, NEW d \in handle_write_events(k)
    PROVE  d \in Conn /\ Kept(k, d) /\ (WroteWait(k, d) \/ WroteSend(k, d))
  <1> DEFINE inWait == k.state = "CONNECTED" /\ k.wait # <<>>
             s == IF inWait THEN k.wait ELSE k.send
             a(n) == SubSeq(s, 1, n)
             b(n) == SubSeq(s, n + 1, Len(s))
             Wrote(n) == [k EXCEPT !.up = @ \o a(n), !.write = n < Len(s)]
  <1>1. sbuf(k) = "wait" <=> inWait
    BY DEF sbuf
  <1>2. PICK n \in 0..Len(s) : d = IF inWait THEN [Wrote(n) EXCEPT !.wait = b(n)]
                                             ELSE [Wrote(n) EXCEPT !.send = b(n)]
    BY <1>1 DEF handle_write_events
  <1>3. /\ k.wait \in MsgSeq /\ k.send \in WireSeq /\ k.up \in WireSeq
        /\ s \in WireSeq /\ (inWait => s \in MsgSeq)
    BY HandshakeFacts DEF Conn, MsgSeq, WireSeq
  <1>4. a(n) \in WireSeq /\ b(n) \in WireSeq /\ a(n) \o b(n) = s /\ (n < Len(s) <=> b(n) # <<>>)
    BY <1>3, SplitAt DEF WireSeq
  <1>5. inWait => a(n) \in MsgSeq /\ b(n) \in MsgSeq
    BY <1>3, SplitAt DEF MsgSeq
  <1>6. k.up \o a(n) \in WireSeq
    BY <1>3, <1>4, ConcatProperties DEF WireSeq
  <1>7. CASE inWait
    <2> DEFINE aa == a(n)
               bb == b(n)
               up == k.up \o aa
               more == n < Len(s)
    <2>1. d = [[k EXCEPT !.up = up, !.write = more] EXCEPT !.wait = bb]
      BY <1>2, <1>7
    <2>2. /\ aa \in MsgSeq /\ bb \in MsgSeq /\ up \in WireSeq
          /\ aa \o bb = k.wait
          /\ more = (bb # <<>>) /\ more \in BOOLEAN
      <3>1. aa \o bb = s /\ s = k.wait
        BY <1>4, <1>7
      <3>2. more = (bb # <<>>) /\ more \in BOOLEAN
        BY <1>4
      <3> QED
        BY <1>5, <1>6, <1>7, <3>1, <3>2
    <2>3. up = k.up \o aa
      OBVIOUS
    <2> HIDE DEF aa, bb, up, more
    <2>4. d \in Conn
      BY <2>1, <2>2 DEF Conn, MsgSeq, WireSeq
    <2>5. Kept(k, d)
      BY <2>1 DEF Kept, Conn
    <2>6. d.send = k.send /\ d.wait = bb /\ d.up = up /\ d.write = more
      BY <2>1 DEF Conn
    <2>7. WroteWait(k, d)
      BY <1>7, <2>2, <2>3, <2>6 DEF WroteWait
    <2> QED
      BY <2>4, <2>5, <2>7
  <1>8. CASE ~inWait
    <2> DEFINE aa == a(n)
               bb == b(n)
               up == k.up \o aa
               more == n < Len(s)
    <2>1. d = [[k EXCEPT !.up = up, !.write = more] EXCEPT !.send = bb]
      BY <1>2, <1>8
    <2>2. /\ bb \in WireSeq /\ up \in WireSeq
          /\ more = (bb # <<>>) /\ more \in BOOLEAN
      BY <1>4, <1>6, <1>8
    <2>3. /\ up = k.up \o SubSeq(k.send, 1, n) /\ bb = SubSeq(k.send, n + 1, Len(k.send))
          /\ n \in 0..Len(k.send)
      BY <1>8
    <2> HIDE DEF aa, bb, up, more
    <2>4. d \in Conn
      BY <2>1, <2>2 DEF Conn, MsgSeq, WireSeq
    <2>5. Kept(k, d)
      BY <2>1 DEF Kept, Conn
    <2>6. d.wait = k.wait /\ d.send = bb /\ d.up = up /\ d.write = more
      BY <2>1 DEF Conn
    <2>7. WroteSend(k, d)
      BY <1>8, <2>2, <2>3, <2>6 DEF WroteSend
    <2> QED
      BY <2>4, <2>5, <2>7
  <1> QED
    BY <1>7, <1>8

\* What is written before the connection is made: a request of the handshake,
\* as a whole or not at all.
LEMMA WriteRequest ==
    ASSUME NEW k \in Conn, NEW d \in handle_write_events(k), k.state # "CONNECTED",
           NEW x \in Handshake
    PROVE  /\ Watched(d) \/ k.state = "TRY_CONNECT"
           /\ Empty(k) => Empty(d)
           /\ OneReq(k, x) => OneReq(d, x)
           /\ d.wait = k.wait
           /\ d.write = (d.send # <<>>)
  <1>1. d \in Conn /\ Kept(k, d) /\ WroteSend(k, d)
    BY WriteFacts DEF WroteWait
  <1>2. PICK n \in 0..Len(k.send) : /\ d.up = k.up \o SubSeq(k.send, 1, n)
                                    /\ d.send = SubSeq(k.send, n + 1, Len(k.send))
    BY <1>1 DEF WroteSend
  <1>3. Watched(d) \/ k.state = "TRY_CONNECT"
    BY <1>1 DEF Kept, WroteSend, Watched
  <1>4. ASSUME k.send = <<>> PROVE d.send = <<>> /\ d.up = k.up
    <2>1. Len(k.send) = 0 /\ n = 0 /\ k.up \in WireSeq
      BY <1>4, EmptySeq DEF Conn, WireSeq
    <2>2. SubSeq(k.send, 1, 0) = <<>> /\ SubSeq(k.send, 1, Len(k.send)) = <<>>
      BY <1>4, <2>1
    <2> QED
      BY <1>2, <2>1, <2>2, ConcatEmptySeq DEF WireSeq
  <1>5. ASSUME k.send = <<x>>, k.up = <<>> PROVE OneReq(d, x)
    <2> DEFINE s == k.send
    <2>1. s = <<x>> /\ s \in WireSeq /\ Len(s) = 1 /\ d.up = k.up \o SubSeq(s, 1, n)
          /\ d.send = SubSeq(s, n + 1, Len(s)) /\ n \in 0..Len(s)
      BY <1>2, <1>5 DEF WireSeq, Conn
    <2> HIDE DEF s
    <2>2. /\ SubSeq(s, 1, 0) = <<>> /\ SubSeq(s, 2, 1) = <<>>
          /\ SubSeq(s, 1, 1) = s
          /\ <<>> \o <<>> = <<>> /\ <<>> \o s = s
      <3>1. SubSeq(s, 1, 0) = <<>> /\ SubSeq(s, 2, 1) = <<>>
        BY SubSeqEmpty
      <3>2. SubSeq(s, 1, Len(s)) = s
        BY <2>1, SubSeqFull DEF WireSeq
      <3>3. <<>> \o <<>> = <<>> /\ <<>> \o s = s
        BY <2>1, EmptySeq, ConcatEmptySeq DEF WireSeq
      <3> QED
        BY <2>1, <3>1, <3>2, <3>3
    <2>3. n = 0 \/ n = 1
      BY <2>1
    <2>4. CASE n = 0
      BY <1>5, <2>1, <2>2, <2>4 DEF OneReq
    <2>5. CASE n = 1
      BY <1>5, <2>1, <2>2, <2>5 DEF OneReq
    <2> QED
      BY <2>3, <2>4, <2>5
  <1>6. d.wait = k.wait /\ d.write = (d.send # <<>>)
    BY <1>1 DEF WroteSend
  <1> QED
    BY <1>3, <1>4, <1>5, <1>6 DEF Empty, OneReq

\* What is written afterwards: messages, whose order stays.
LEMMA WriteMessages ==
    ASSUME NEW k \in Conn, NEW d \in handle_write_events(k), k.state = "CONNECTED",
           Messaging(k)
    PROVE  Watched(d) /\ Messaging(d) /\ Underway(d) = Underway(k)
  <1>1. d \in Conn /\ Kept(k, d) /\ (WroteWait(k, d) \/ WroteSend(k, d))
    BY WriteFacts
  <1>2. /\ k.up \in MsgSeq /\ k.wait \in MsgSeq /\ k.send \in MsgSeq
        /\ Underway(k) = (k.up \o k.wait) \o k.send
    BY UnderwayFacts DEF Messaging
  <1>3. Watched(d)
    BY <1>1 DEF Kept, WroteWait, WroteSend, Watched
  <1>4. CASE WroteWait(k, d)
    <2>1. PICK a \in MsgSeq : a \o d.wait = k.wait /\ d.up = k.up \o a
      BY <1>4 DEF WroteWait
    <2>2. d.send = k.send /\ d.wait \in MsgSeq
      BY <1>1, <1>4 DEF WroteWait, Conn, MsgSeq
    <2>3. d.up \in MsgSeq
      BY <1>2, <2>1, MsgsConcat
    <2>4. Messaging(d)
      BY <1>1, <1>2, <2>2, <2>3 DEF Kept, Messaging
    <2>5. (k.up \o a) \o d.wait = k.up \o (a \o d.wait)
      BY <1>2, <2>1, <2>2, MsgsAssociative
    <2>6. Underway(d) = Underway(k)
      BY <1>1, <1>2, <2>1, <2>2, <2>4, <2>5, UnderwayFacts
    <2> QED
      BY <1>3, <2>4, <2>6
  <1>5. CASE WroteSend(k, d)
    <2>1. PICK n \in 0..Len(k.send) : /\ d.up = k.up \o SubSeq(k.send, 1, n)
                                      /\ d.send = SubSeq(k.send, n + 1, Len(k.send))
      BY <1>5 DEF WroteSend
    <2> DEFINE a == SubSeq(k.send, 1, n)
    <2>2. a \in MsgSeq /\ d.send \in MsgSeq /\ a \o d.send = k.send
      BY <1>2, <2>1, SplitAt DEF MsgSeq
    <2>3. d.wait = <<>> /\ k.wait = <<>>
      BY <1>5 DEF WroteSend
    <2>4. d.up = k.up \o a
      BY <2>1
    <2> HIDE DEF a
    <2>5. d.up \in MsgSeq
      BY <1>2, <2>2, <2>4, MsgsConcat
    <2>6. Messaging(d)
      BY <1>1, <2>2, <2>5 DEF Kept, Messaging
    <2>7. d.up \o <<>> = d.up /\ k.up \o <<>> = k.up
      BY <1>2, <2>5, MsgsEmpty
    <2>8. (k.up \o a) \o d.send = k.up \o (a \o d.send)
      BY <1>2, <2>2, MsgsAssociative
    <2>9. Underway(d) = (d.up \o d.wait) \o d.send
      BY <1>1, <2>6, UnderwayFacts
    <2> QED
      BY <1>2, <1>3, <2>2, <2>3, <2>4, <2>6, <2>7, <2>8, <2>9
  <1> QED
    BY <1>1, <1>4, <1>5

-----------------------------------------------------------------------------
(* One connection: what each step does to it *)

\* The table has the same entries for k and d.
SameEntry(k, d) == d.from = k.from /\ d.to = k.to /\ (IsOpen(d) <=> IsOpen(k))

\* A step that takes no message and reads none leaves them where they are.
LEMMA PassedSame ==
    ASSUME NEW k, NEW d, NEW gv, NEW gt, Passed(k, gv, gt),
           d.state # "UNKOWN", d.at # "gone" => k.at # "gone" /\ Underway(d) = Underway(k)
    PROVE  Passed(d, gv, gt)
  BY DEF Passed

\* A message that is taken is the last on the way.
LEMMA PassedMore ==
    ASSUME NEW k, NEW d, NEW gv \in MsgSeq, NEW gt \in MsgSeq, NEW m \in Msgs,
           Passed(k, gv, gt), Underway(k) \in MsgSeq,
           d.state # "UNKOWN", d.at = k.at, Underway(d) = Underway(k) \o <<m>>
    PROVE  Passed(d, Append(gv, m), gt)
  <1>1. Append(gv, m) = gv \o <<m>> /\ <<m>> \in MsgSeq
    BY MsgsAppend
  <1>2. PICK rest \in MsgSeq : gv = gt \o rest
    BY DEF Passed
  <1>3. (gt \o rest) \o <<m>> = gt \o (rest \o <<m>>) /\ rest \o <<m>> \in MsgSeq
    BY <1>1, MsgsAssociative, MsgsConcat
  <1>4. \E r \in MsgSeq : Append(gv, m) = gt \o r
    BY <1>1, <1>2, <1>3
  <1>5. ASSUME d.at # "gone" PROVE Append(gv, m) = gt \o Underway(d)
    <2>1. gv = gt \o Underway(k)
      BY <1>5 DEF Passed
    <2>2. (gt \o Underway(k)) \o <<m>> = gt \o (Underway(k) \o <<m>>)
      BY <1>1, MsgsAssociative
    <2> QED
      BY <1>1, <2>1, <2>2
  <1> QED
    BY <1>4, <1>5 DEF Passed

\* send_to_node on a connection that is made.
LEMMA ConnSendConnected ==
    ASSUME NEW k, NEW gv \in MsgSeq, NEW gt \in MsgSeq, NEW m \in Msgs,
           ConnInv(k, gv, gt), k.state = "CONNECTED", NEW d \in send_to(k, m)
    PROVE  ConnInv(d, Append(gv, m), gt) /\ SameEntry(k, d)
  <1> DEFINE t == Append(k.send, m)
             j == [k EXCEPT !.send = t]
  <1>1. k \in Conn /\ Messaging(k) /\ k.up \in MsgSeq /\ k.send \in MsgSeq /\ k.wait \in MsgSeq
    BY UnderwayFacts DEF ConnInv, Phase, Messaging
  <1>2. t \in MsgSeq /\ t = k.send \o <<m>> /\ <<m>> \in MsgSeq
    BY <1>1, MsgsAppend
  <1>3. d \in handle_write_events(j)
    BY DEF send_to
  <1> HIDE DEF t
  <1>4. /\ j \in Conn /\ j.state = "CONNECTED" /\ j.from = k.from /\ j.to = k.to
        /\ j.up = k.up /\ j.wait = k.wait /\ j.send = t /\ j.down = k.down /\ j.at = k.at
    BY <1>1, <1>2, HandshakeFacts DEF Conn, WireSeq
  <1> HIDE DEF j
  <1>5. Messaging(j)
    BY <1>1, <1>2, <1>4 DEF Messaging
  <1>6. Underway(j) = Underway(k) \o <<m>> /\ Underway(k) \in MsgSeq
    <2> DEFINE f == k.up \o k.wait
               l == <<m>>
    <2>1. /\ Underway(k) = f \o k.send /\ Underway(k) \in MsgSeq
          /\ Underway(j) = f \o t
      BY <1>1, <1>4, <1>5, UnderwayFacts
    <2>2. f \in MsgSeq /\ l \in MsgSeq /\ k.send \in MsgSeq
      BY <1>1, <1>2, MsgsConcat
    <2> HIDE DEF f, l
    <2>3. (f \o k.send) \o l = f \o (k.send \o l)
      BY <2>2, MsgsAssociative
    <2> QED
      BY <1>2, <2>1, <2>3 DEF l
  <1>7. d \in Conn /\ Kept(j, d)
    BY <1>3, <1>4, WriteFacts
  <1>8. Watched(d) /\ Messaging(d) /\ Underway(d) = Underway(j)
    BY <1>3, <1>4, <1>5, WriteMessages
  <1>9. /\ d.state = "CONNECTED" /\ d.at = k.at /\ d.from = k.from /\ d.to = k.to
    BY <1>4, <1>7 DEF Kept
  <1>10. Passed(d, Append(gv, m), gt)
    BY <1>6, <1>8, <1>9, PassedMore DEF ConnInv
  <1>11. Phase(d)
    BY <1>8, <1>9 DEF Phase, ConnInv
  <1> QED
    BY <1>7, <1>8, <1>9, <1>10, <1>11 DEF ConnInv, SameEntry, IsOpen

\* send_to_node during the handshake.
LEMMA ConnSendWaiting ==
    ASSUME NEW k, NEW gv \in MsgSeq, NEW gt \in MsgSeq, NEW m \in Msgs,
           ConnInv(k, gv, gt), k.state \in {"TRY_CONNECT", "CONNECTING"}
    PROVE  LET d == [k EXCEPT !.wait = Append(@, m)]
           IN  ConnInv(d, Append(gv, m), gt) /\ SameEntry(k, d)
  <1> DEFINE t == Append(k.wait, m)
             d == [k EXCEPT !.wait = t]
  <1>1. k \in Conn /\ k.wait \in MsgSeq
    BY UnderwayFacts DEF ConnInv
  <1>2. t \in MsgSeq /\ t = k.wait \o <<m>>
    BY <1>1, MsgsAppend
  <1> HIDE DEF t
  <1>3. /\ d \in Conn /\ Kept(k, d) /\ d.wait = t
        /\ d.up = k.up /\ d.send = k.send /\ d.write = k.write
    BY <1>1, <1>2 DEF Conn, Kept, MsgSeq
  <1> HIDE DEF d
  <1>4. Empty(k) \/ Shaking(k)
    BY DEF ConnInv, Phase
  <1>5. (Empty(k) => Empty(d)) /\ (Shaking(k) => Shaking(d))
    BY <1>3 DEF Empty, Shaking, OneReq, Kept
  <1>6. Underway(k) = k.wait /\ Underway(d) = t
    BY <1>1, <1>3, <1>4, <1>5, UnderwayFacts
  <1>7. Passed(d, Append(gv, m), gt)
    BY <1>1, <1>2, <1>3, <1>6, PassedMore DEF ConnInv, Kept
  <1>8. Phase(d) /\ Watched(d)
    BY <1>3, <1>5 DEF ConnInv, Phase, Watched, Kept, IsOpen
  <1>9. SameEntry(k, d)
    BY <1>3 DEF Kept, SameEntry, IsOpen
  <1> QED
    BY <1>3, <1>7, <1>8, <1>9 DEF ConnInv, d, t

\* auto_send makes a connection with its first message.
LEMMA ConnAutoSend ==
    ASSUME NEW k, NEW m \in Msgs, ConnInv(k, <<>>, <<>>),
           NEW w \in Workers, NEW n \in Workers \ {w}
    PROVE  LET d == [from |-> w, to |-> n, state |-> "TRY_CONNECT", wait |-> <<m>>,
                     send |-> <<>>, write |-> TRUE, up |-> <<>>, down |-> <<>>, at |-> "manager"]
           IN  ConnInv(d, Append(<<>>, m), <<>>)
  <1> DEFINE d == [from |-> w, to |-> n, state |-> "TRY_CONNECT", wait |-> <<m>>,
                   send |-> <<>>, write |-> TRUE, up |-> <<>>, down |-> <<>>, at |-> "manager"]
  <1>1. <<m>> \in MsgSeq /\ <<>> \in MsgSeq
    BY MsgsAppend, MsgsEmpty
  <1>2. Append(<<>>, m) = <<>> \o <<m>> /\ <<>> \o <<m>> = <<m>>
    BY <1>1, MsgsAppend, MsgsEmpty
  <1>3. d \in Conn
    BY <1>1, HandshakeFacts DEF Conn, States, MsgSeq, WireSeq
  <1>4. /\ Empty(d) /\ d.state = "TRY_CONNECT" /\ d.write /\ d.wait = <<m>> /\ d.at = "manager"
        /\ d.down = <<>> /\ d.from = w /\ d.to = n
    BY DEF Empty
  <1> HIDE DEF d
  <1>5. Phase(d) /\ Watched(d)
    BY <1>4 DEF Phase, Watched
  <1>6. Underway(d) = <<m>>
    BY <1>3, <1>4, UnderwayFacts
  <1>7. Passed(d, Append(<<>>, m), <<>>)
    BY <1>1, <1>2, <1>4, <1>6 DEF Passed
  <1> QED
    BY <1>3, <1>5, <1>7 DEF ConnInv, d

\* on_io_write, before the connection is known: it sends CONNECT.
LEMMA ConnTry ==
    ASSUME NEW k, NEW gv \in MsgSeq, NEW gt \in MsgSeq,
           ConnInv(k, gv, gt), k.state = "TRY_CONNECT", NEW e \in send_to(k, CONNECT)
    PROVE  LET d == [e EXCEPT !.state = "CONNECTING"]
           IN  ConnInv(d, gv, gt) /\ SameEntry(k, d)
  <1> DEFINE j == [k EXCEPT !.send = Append(@, CONNECT)]
             d == [e EXCEPT !.state = "CONNECTING"]
  <1>1. k \in Conn /\ Empty(k) /\ k.down = <<>> /\ k.at \in {"manager", "gone"}
    BY DEF ConnInv, Phase
  <1>2. Append(<<>>, CONNECT) = <<CONNECT>> /\ CONNECT \in Handshake
    BY DEF Handshake
  <1>3. /\ j \in Conn /\ j.state = "TRY_CONNECT" /\ OneReq(j, CONNECT)
        /\ j.from = k.from /\ j.to = k.to /\ j.wait = k.wait
        /\ j.down = <<>> /\ j.at = k.at
    BY <1>1, <1>2, HandshakeFacts DEF Conn, WireSeq, Empty, OneReq
  <1>4. e \in handle_write_events(j)
    BY DEF send_to
  <1> HIDE DEF j
  <1>5. e \in Conn /\ Kept(j, e)
    BY <1>3, <1>4, WriteFacts
  <1>6. OneReq(e, CONNECT) /\ e.wait = j.wait /\ e.write = (e.send # <<>>)
    BY <1>2, <1>3, <1>4, WriteRequest
  <1>7. /\ d \in Conn /\ d.state = "CONNECTING" /\ OneReq(d, CONNECT)
        /\ d.from = k.from /\ d.to = k.to /\ d.wait = k.wait
        /\ d.down = <<>> /\ d.at = k.at /\ d.write = (d.send # <<>>)
    BY <1>3, <1>5, <1>6 DEF Conn, States, Kept, OneReq
  <1> HIDE DEF d
  <1>8. Shaking(d)
    BY <1>1, <1>7 DEF Shaking
  <1>9. Phase(d) /\ Watched(d)
    BY <1>7, <1>8 DEF ConnInv, Phase, Watched
  <1>10. Underway(d) = Underway(k)
    BY <1>1, <1>7, <1>8, UnderwayFacts
  <1>11. Passed(d, gv, gt)
    BY <1>7, <1>10, PassedSame DEF ConnInv
  <1> QED
    BY <1>7, <1>9, <1>11 DEF ConnInv, SameEntry, IsOpen, d

\* on_io_write afterwards.
LEMMA ConnWrite ==
    ASSUME NEW k, NEW gv \in MsgSeq, NEW gt \in MsgSeq, ConnInv(k, gv, gt),
           k.state \in {"CONNECTING", "CONNECTED"}, NEW d \in handle_write_events(k)
    PROVE  ConnInv(d, gv, gt) /\ SameEntry(k, d)
  <1>1. k \in Conn
    BY DEF ConnInv
  <1>2. d \in Conn /\ Kept(k, d)
    BY <1>1, WriteFacts
  <1>3. CASE k.state = "CONNECTED"
    <2>1. Messaging(k)
      BY <1>3 DEF ConnInv, Phase
    <2>2. Watched(d) /\ Messaging(d) /\ Underway(d) = Underway(k)
      BY <1>1, <1>3, <2>1, WriteMessages
    <2>3. Passed(d, gv, gt)
      BY <1>2, <1>3, <2>2, PassedSame DEF ConnInv, Kept
    <2>4. Phase(d)
      BY <1>2, <1>3, <2>2 DEF ConnInv, Phase, Kept
    <2> QED
      BY <1>2, <2>2, <2>3, <2>4 DEF ConnInv, SameEntry, Kept, IsOpen
  <1>4. CASE k.state = "CONNECTING"
    <2>1. Shaking(k)
      BY <1>4 DEF ConnInv, Phase
    <2>2. CONNECT \in Handshake /\ TELL \in Handshake
      BY DEF Handshake
    <2>3. /\ Watched(d) /\ (Empty(k) => Empty(d)) /\ d.wait = k.wait
          /\ \A x \in Handshake : OneReq(k, x) => OneReq(d, x)
      BY <1>1, <1>4, <2>2, WriteRequest
    <2>4. Shaking(d)
      BY <1>2, <2>1, <2>2, <2>3 DEF Shaking, Kept
    <2>5. Underway(d) = Underway(k)
      BY <1>1, <1>2, <2>1, <2>3, <2>4, UnderwayFacts
    <2>6. Passed(d, gv, gt)
      BY <1>2, <1>4, <2>5, PassedSame DEF ConnInv, Kept
    <2>7. Phase(d)
      BY <1>2, <1>4, <2>4 DEF ConnInv, Phase, Kept
    <2> QED
      BY <1>2, <2>3, <2>6, <2>7 DEF ConnInv, SameEntry, Kept, IsOpen
  <1> QED
    BY <1>3, <1>4

\* What A1 may read: an answer is there only in the handshake.
LEMMA ConnReads ==
    ASSUME NEW k, NEW gv, NEW gt, ConnInv(k, gv, gt), IsOpen(k), k.down # <<>>
    PROVE  /\ k.state = "CONNECTING" /\ Empty(k) /\ Tail(k.down) = <<>>
           /\ k.down = <<Head(k.down)>>
           /\ Head(k.down) \in {"CONNECT_ERR", "CONNECT_OK", "TELL_OK"}
           /\ Head(k.down) = "CONNECT_ERR" => k.at \in {"manager", "gone"}
           /\ Head(k.down) = "TELL_OK" => k.at \in {"worker", "gone"}
  <1>1. k.state = "CONNECTING" /\ Shaking(k)
    BY DEF ConnInv, Phase, Messaging, IsOpen
  <1>2. \/ Empty(k) /\ k.down = <<"CONNECT_ERR">> /\ k.at \in {"manager", "gone"}
        \/ Empty(k) /\ k.down = <<"CONNECT_OK">>
        \/ Empty(k) /\ k.down = <<"TELL_OK">> /\ k.at \in {"worker", "gone"}
    BY <1>1 DEF Shaking
  <1>3. \A x : Head(<<x>>) = x /\ Tail(<<x>>) = <<>>
    OBVIOUS
  <1> QED
    BY <1>1, <1>2, <1>3

\* on_rsp_connect_to_worker: it sends TELL.
LEMMA ConnRspConnect ==
    ASSUME NEW k, NEW gv \in MsgSeq, NEW gt \in MsgSeq, ConnInv(k, gv, gt), IsOpen(k),
           k.down # <<>>, Head(k.down) = "CONNECT_OK",
           NEW d \in send_to([k EXCEPT !.down = Tail(@)], TELL)
    PROVE  ConnInv(d, gv, gt) /\ SameEntry(k, d)
  <1> DEFINE i == [k EXCEPT !.down = Tail(@)]
             j == [i EXCEPT !.send = Append(@, TELL)]
  <1>1. k \in Conn /\ k.state = "CONNECTING" /\ Empty(k) /\ Tail(k.down) = <<>>
    BY ConnReads DEF ConnInv
  <1>2. Append(<<>>, TELL) = <<TELL>> /\ TELL \in Handshake
    BY DEF Handshake
  <1>3. <<>> \in Seq({"CONNECT_OK", "CONNECT_ERR", "TELL_OK"})
    BY EmptySeq
  <1>4. /\ i \in Conn /\ i.state = "CONNECTING" /\ i.from = k.from /\ i.to = k.to
        /\ i.wait = k.wait /\ i.down = <<>> /\ i.at = k.at /\ i.up = <<>> /\ i.send = <<>>
    BY <1>1, <1>3 DEF Conn, Empty
  <1>5. d \in handle_write_events(j)
    BY DEF send_to
  <1> HIDE DEF i
  <1>6. /\ j \in Conn /\ j.state = "CONNECTING" /\ OneReq(j, TELL)
        /\ j.from = k.from /\ j.to = k.to /\ j.wait = k.wait
        /\ j.down = <<>> /\ j.at = k.at
    BY <1>2, <1>4, HandshakeFacts DEF Conn, WireSeq, OneReq
  <1> HIDE DEF j
  <1>7. d \in Conn /\ Kept(j, d)
    BY <1>5, <1>6, WriteFacts
  <1>8. Watched(d) /\ OneReq(d, TELL) /\ d.wait = j.wait
    BY <1>2, <1>5, <1>6, WriteRequest
  <1>9. /\ d.state = "CONNECTING" /\ d.from = k.from /\ d.to = k.to
        /\ d.wait = k.wait /\ d.down = <<>> /\ d.at = k.at
    BY <1>6, <1>7, <1>8 DEF Kept
  <1>10. Shaking(d)
    BY <1>8, <1>9 DEF Shaking
  <1>11. Phase(d)
    BY <1>1, <1>9, <1>10 DEF ConnInv, Phase
  <1>12. Underway(d) = Underway(k)
    BY <1>1, <1>7, <1>9, <1>10, UnderwayFacts
  <1>13. Passed(d, gv, gt)
    BY <1>9, <1>12, PassedSame DEF ConnInv
  <1> QED
    BY <1>1, <1>7, <1>8, <1>9, <1>11, <1>13 DEF ConnInv, SameEntry, IsOpen

\* A refusal is read and the connection stays as it is.
LEMMA ConnRspConnectErr ==
    ASSUME NEW k, NEW gv \in MsgSeq, NEW gt \in MsgSeq, ConnInv(k, gv, gt), IsOpen(k),
           k.down # <<>>, Head(k.down) = "CONNECT_ERR"
    PROVE  LET d == [k EXCEPT !.down = Tail(@)]
           IN  ConnInv(d, gv, gt) /\ SameEntry(k, d)
  <1> DEFINE d == [k EXCEPT !.down = Tail(@)]
  <1>1. /\ k \in Conn /\ k.state = "CONNECTING" /\ Empty(k) /\ Tail(k.down) = <<>>
        /\ k.at \in {"manager", "gone"}
    BY ConnReads DEF ConnInv
  <1>2. <<>> \in Seq({"CONNECT_OK", "CONNECT_ERR", "TELL_OK"})
    BY EmptySeq
  <1>3. /\ d \in Conn /\ d.state = "CONNECTING" /\ d.from = k.from /\ d.to = k.to
        /\ d.wait = k.wait /\ d.down = <<>> /\ d.at = k.at /\ Empty(d) /\ d.write = k.write
    BY <1>1, <1>2 DEF Conn, Empty
  <1> HIDE DEF d
  <1>4. Shaking(d)
    BY <1>1, <1>3 DEF Shaking
  <1>5. Phase(d) /\ Watched(d)
    BY <1>1, <1>3, <1>4 DEF ConnInv, Phase, Watched, Empty
  <1>6. Underway(d) = Underway(k)
    BY <1>1, <1>3, UnderwayFacts
  <1>7. Passed(d, gv, gt)
    BY <1>3, <1>6, PassedSame DEF ConnInv
  <1> QED
    BY <1>1, <1>3, <1>5, <1>7 DEF ConnInv, SameEntry, IsOpen, d

\* on_rsp_tell_worker: connected.
LEMMA ConnRspTell ==
    ASSUME NEW k, NEW gv \in MsgSeq, NEW gt \in MsgSeq, ConnInv(k, gv, gt), IsOpen(k),
           k.down # <<>>, Head(k.down) = "TELL_OK"
    PROVE  LET d == [k EXCEPT !.down = Tail(@), !.state = "CONNECTED", !.write = TRUE]
           IN  ConnInv(d, gv, gt) /\ SameEntry(k, d)
  <1> DEFINE d == [k EXCEPT !.down = Tail(@), !.state = "CONNECTED", !.write = TRUE]
  <1>1. /\ k \in Conn /\ k.state = "CONNECTING" /\ Empty(k) /\ Tail(k.down) = <<>>
        /\ k.at \in {"worker", "gone"}
    BY ConnReads DEF ConnInv
  <1>2. <<>> \in Seq({"CONNECT_OK", "CONNECT_ERR", "TELL_OK"})
    BY EmptySeq
  <1>3. /\ d \in Conn /\ d.state = "CONNECTED" /\ d.from = k.from /\ d.to = k.to
        /\ d.wait = k.wait /\ d.down = <<>> /\ d.at = k.at /\ Empty(d) /\ d.write = TRUE
    BY <1>1, <1>2 DEF Conn, Empty, States
  <1> HIDE DEF d
  <1>4. Messaging(d)
    BY <1>1, <1>3, MsgsEmpty DEF Messaging, Empty
  <1>5. Phase(d) /\ Watched(d)
    BY <1>1, <1>3, <1>4 DEF ConnInv, Phase, Watched
  <1>6. Underway(d) = Underway(k)
    BY <1>1, <1>3, UnderwayFacts
  <1>7. Passed(d, gv, gt)
    BY <1>3, <1>6, PassedSame DEF ConnInv
  <1> QED
    BY <1>1, <1>3, <1>5, <1>7 DEF ConnInv, SameEntry, IsOpen, d

\* close_conn in A1: what was on the way still arrives.
LEMMA ConnClose ==
    ASSUME NEW k, NEW gv \in MsgSeq, NEW gt \in MsgSeq, ConnInv(k, gv, gt), IsOpen(k)
    PROVE  LET d == [k EXCEPT !.state = "CLOSED", !.write = FALSE]
           IN  ConnInv(d, gv, gt) /\ ~IsOpen(d)
  <1> DEFINE d == [k EXCEPT !.state = "CLOSED", !.write = FALSE]
  <1>1. k \in Conn /\ (Shaking(k) \/ Messaging(k))
    BY DEF ConnInv, Phase, IsOpen, Shaking
  <1>2. /\ d \in Conn /\ d.state = "CLOSED" /\ d.from = k.from /\ d.to = k.to
        /\ d.wait = k.wait /\ d.down = k.down /\ d.at = k.at
        /\ d.up = k.up /\ d.send = k.send
    BY <1>1 DEF Conn, States
  <1> HIDE DEF d
  <1>3. (Shaking(k) => Shaking(d)) /\ (Messaging(k) => Messaging(d)) /\ ~IsOpen(d)
    BY <1>2 DEF Shaking, Messaging, Empty, OneReq, IsOpen
  <1>4. Phase(d) /\ Watched(d)
    BY <1>1, <1>2, <1>3 DEF ConnInv, Phase, Watched, IsOpen
  <1>5. Underway(d) = Underway(k)
    BY <1>2 DEF Underway
  <1>6. Passed(d, gv, gt)
    BY <1>2, <1>5, PassedSame DEF ConnInv
  <1> QED
    BY <1>2, <1>3, <1>4, <1>6 DEF ConnInv, d

\* What B0 and B1 may read of the handshake: one request.
LEMMA ConnTakes ==
    ASSUME NEW k, NEW gv, NEW gt, ConnInv(k, gv, gt), NEW x \in Handshake,
           k.at # "gone", k.up # <<>>, Head(k.up) = x
    PROVE  /\ Shaking(k) /\ k.state \in {"CONNECTING", "CLOSED"}
           /\ k.up = <<x>> /\ k.send = <<>> /\ k.down = <<>> /\ Tail(k.up) = <<>>
  <1>1. ~Messaging(k)
    <2>1. SUFFICES ASSUME Messaging(k) PROVE FALSE
      OBVIOUS
    <2>2. Head(k.up) \in Msgs
      BY <2>1, HeadTailConcat DEF Messaging, MsgSeq
    <2> QED
      BY <2>2, HandshakeFacts DEF Handshake
  <1>2. Shaking(k) /\ k.state \in {"CONNECTING", "CLOSED"}
    BY <1>1 DEF ConnInv, Phase, Empty, Conn, States
  <1>3. \A y : Head(<<y>>) = y /\ Tail(<<y>>) = <<>>
    OBVIOUS
  <1>4. \/ k.up = <<CONNECT>> /\ k.send = <<>> /\ k.down = <<>>
        \/ k.up = <<TELL>> /\ k.send = <<>> /\ k.down = <<>>
    BY <1>2 DEF Shaking, Empty, OneReq
  <1> QED
    BY <1>2, <1>3, <1>4

\* The answer of B0 or B1.
LEMMA ConnAnswered ==
    ASSUME NEW k, NEW gv \in MsgSeq, NEW gt \in MsgSeq, ConnInv(k, gv, gt),
           NEW x \in Handshake, k.at # "gone", k.up # <<>>, Head(k.up) = x,
           NEW rsp \in {"CONNECT_ERR", "CONNECT_OK", "TELL_OK"},
           NEW at \in {"manager", "chanel", "worker"},
           rsp = "CONNECT_ERR" => at = "manager", rsp = "TELL_OK" => at = "worker"
    PROVE  LET d == [k EXCEPT !.up = Tail(@), !.down = Append(@, rsp), !.at = at]
           IN  ConnInv(d, gv, gt) /\ SameEntry(k, d)
  <1> DEFINE d == [k EXCEPT !.up = Tail(@), !.down = Append(@, rsp), !.at = at]
  <1>1. /\ k \in Conn /\ Shaking(k) /\ k.state \in {"CONNECTING", "CLOSED"}
        /\ k.send = <<>> /\ k.down = <<>> /\ Tail(k.up) = <<>>
    BY ConnTakes DEF ConnInv
  <1>2. Append(<<>>, rsp) = <<rsp>> /\ <<rsp>> \in Seq({"CONNECT_OK", "CONNECT_ERR", "TELL_OK"})
    OBVIOUS
  <1>3. <<>> \in WireSeq
    BY EmptySeq DEF WireSeq
  <1>4. /\ d \in Conn /\ d.state = k.state /\ d.from = k.from /\ d.to = k.to
        /\ d.wait = k.wait /\ d.down = <<rsp>> /\ d.at = at /\ d.write = k.write
        /\ Empty(d) /\ d.send = k.send
    BY <1>1, <1>2, <1>3 DEF Conn, WireSeq, Empty
  <1> HIDE DEF d
  <1>5. Shaking(d)
    BY <1>4 DEF Shaking
  <1>6. Phase(d) /\ Watched(d)
    BY <1>1, <1>4, <1>5 DEF ConnInv, Phase, Watched, IsOpen
  <1>7. Underway(d) = Underway(k)
    BY <1>1, <1>4, <1>5, UnderwayFacts
  <1>8. Passed(d, gv, gt)
    BY <1>1, <1>4, <1>7, PassedSame DEF ConnInv
  <1> QED
    BY <1>4, <1>6, <1>8 DEF ConnInv, SameEntry, IsOpen, d

\* The other end moves from the channel to B1, or is closed.
LEMMA ConnMoves ==
    ASSUME NEW k, NEW gv \in MsgSeq, NEW gt \in MsgSeq, ConnInv(k, gv, gt),
           k.state # "UNKOWN", NEW at,
           at = "gone" \/ (at = "worker" /\ k.at = "chanel")
    PROVE  LET d == [k EXCEPT !.at = at]
           IN  ConnInv(d, gv, gt) /\ SameEntry(k, d)
  <1> DEFINE d == [k EXCEPT !.at = at]
  <1>1. k \in Conn
    BY DEF ConnInv
  <1>2. /\ d \in Conn /\ d.state = k.state /\ d.from = k.from /\ d.to = k.to
        /\ d.wait = k.wait /\ d.down = k.down /\ d.at = at /\ d.write = k.write
        /\ d.up = k.up /\ d.send = k.send
    BY <1>1 DEF Conn
  <1> HIDE DEF d
  <1>3. (Shaking(k) => Shaking(d)) /\ (Messaging(k) => Messaging(d)) /\ (Empty(k) => Empty(d))
    BY <1>2 DEF Shaking, Messaging, Empty, OneReq
  <1>4. Phase(d)
    BY <1>2, <1>3 DEF ConnInv, Phase
  <1>5. Watched(d)
    BY <1>2 DEF ConnInv, Watched, IsOpen
  <1>6. Underway(d) = Underway(k)
    BY <1>2 DEF Underway
  <1>7. Passed(d, gv, gt)
    BY <1>2, <1>6, PassedSame DEF ConnInv
  <1> QED
    BY <1>2, <1>4, <1>5, <1>7 DEF ConnInv, SameEntry, IsOpen, d

\* The first message on the way is read.
LEMMA UnderwayTail ==
    ASSUME NEW k \in Conn, NEW d \in Conn, Messaging(k), Messaging(d), NEW h \in Msgs,
           k.up = <<h>> \o d.up, d.wait = k.wait, d.send = k.send
    PROVE  Underway(k) = <<h>> \o Underway(d)
  <1> DEFINE l == <<h>>
             t == d.up
             w == k.wait
             z == k.send
  <1>1. l \in MsgSeq /\ t \in MsgSeq /\ w \in MsgSeq /\ z \in MsgSeq
    BY MsgsAppend, MsgsEmpty, UnderwayFacts DEF Messaging
  <1>2. Underway(k) = ((l \o t) \o w) \o z /\ Underway(d) = (t \o w) \o z
    BY UnderwayFacts
  <1> HIDE DEF l, t, w, z
  <1>3. Cat(Cat(Cat(l, t), w), z) = Cat(l, Cat(Cat(t, w), z))
    BY <1>1, MsgsShift
  <1>4. ((l \o t) \o w) \o z = l \o ((t \o w) \o z)
    BY <1>3 DEF Cat
  <1> QED
    BY <1>2, <1>4 DEF l

\* B1 reads a message.
LEMMA ConnMessage ==
    ASSUME NEW k, NEW gv \in MsgSeq, NEW gt \in MsgSeq, ConnInv(k, gv, gt),
           k.at = "worker", k.up # <<>>, Head(k.up) \in Msgs
    PROVE  LET d == [k EXCEPT !.up = Tail(@)]
           IN  ConnInv(d, gv, Append(gt, Head(k.up))) /\ SameEntry(k, d)
  <1> DEFINE h == Head(k.up)
             t == Tail(k.up)
             d == [k EXCEPT !.up = t]
  <1>1. k \in Conn /\ h \in Msgs
    BY DEF ConnInv
  <1>2. ~Shaking(k) /\ ~Empty(k)
    <2>1. \A y : Head(<<y>>) = y
      OBVIOUS
    <2> QED
      BY <2>1, HandshakeFacts DEF Shaking, Empty, OneReq
  <1>3. Messaging(k) /\ k.state \in {"CONNECTED", "CLOSED"}
    BY <1>1, <1>2 DEF ConnInv, Phase, Conn, States
  <1>4. /\ k.up \in MsgSeq /\ k.wait \in MsgSeq /\ k.send \in MsgSeq
        /\ Underway(k) = (k.up \o k.wait) \o k.send
    BY <1>1, <1>3, UnderwayFacts DEF Messaging
  <1>5. t \in MsgSeq /\ k.up = <<h>> \o t
    BY <1>4, HeadTailConcat DEF MsgSeq
  <1> HIDE DEF h, t
  <1>6. /\ d \in Conn /\ d.state = k.state /\ d.from = k.from /\ d.to = k.to
        /\ d.wait = k.wait /\ d.down = k.down /\ d.at = k.at /\ d.write = k.write
        /\ d.up = t /\ d.send = k.send
    BY <1>1, <1>5, HandshakeFacts DEF Conn, WireSeq
  <1> HIDE DEF d
  <1>7. Messaging(d)
    BY <1>3, <1>5, <1>6 DEF Messaging
  <1>8. Phase(d) /\ Watched(d)
    BY <1>3, <1>6, <1>7 DEF ConnInv, Phase, Watched, IsOpen
  <1>9. /\ Underway(d) = (t \o k.wait) \o k.send /\ Underway(d) \in MsgSeq
    BY <1>6, <1>7, UnderwayFacts
  <1>10. <<h>> \in MsgSeq /\ Append(gt, h) = gt \o <<h>> /\ Append(gt, h) \in MsgSeq
    BY <1>1, MsgsAppend
  <1>11. Underway(k) = <<h>> \o Underway(d)
    BY <1>1, <1>3, <1>5, <1>6, <1>7, UnderwayTail
  <1>12. gv = Append(gt, h) \o Underway(d)
    <2>1. gv = gt \o Underway(k)
      BY DEF ConnInv, Passed
    <2>2. (gt \o <<h>>) \o Underway(d) = gt \o (<<h>> \o Underway(d))
      BY <1>9, <1>10, MsgsAssociative
    <2> QED
      BY <1>10, <1>11, <2>1, <2>2
  <1>13. Passed(d, gv, Append(gt, h))
    BY <1>3, <1>6, <1>9, <1>12 DEF Passed
  <1> QED
    BY <1>6, <1>8, <1>13 DEF ConnInv, SameEntry, IsOpen, d, h, t

-----------------------------------------------------------------------------
(* The steps *)

\* The types of all variables but conns.
RestTyped ==
    /\ m_node_conns \in [Workers -> [Workers -> Conns \cup {None}]]
    /\ managers \subseteq Workers /\ sent \in 0..MaxMsgs
    /\ given \in [Conns -> MsgSeq] /\ got \in [Conns -> MsgSeq]

\* What IndInv says of one connection.
LEMMA ConnFacts ==
    ASSUME IndInv, NEW c \in Conns
    PROVE  /\ ConnInv(conns[c], given[c], got[c])
           /\ given[c] \in MsgSeq /\ got[c] \in MsgSeq
           /\ conns[c] \in Conn /\ DOMAIN conns = Conns
  BY DEF IndInv, TypeOK, MsgSeq

\* A step of one connection that is as open as before.
LEMMA OneConnStep ==
    ASSUME IndInv, NEW c \in Conns, NEW d,
           conns' = [conns EXCEPT ![c] = d], RestTyped',
           ConnInv(d, given'[c], got'[c]), SameEntry(conns[c], d),
           \A e \in Conns \ {c} : given'[e] = given[e] /\ got'[e] = got[e],
           \A w \in Workers : \A n \in Workers \ {w} : m_node_conns'[w][n] = m_node_conns[w][n]
    PROVE  IndInv'
  <1>1. conns \in [Conns -> Conn] /\ d \in Conn
    BY DEF IndInv, TypeOK, ConnInv
  <1>2. conns'[c] = d /\ \A e \in Conns \ {c} : conns'[e] = conns[e]
    BY <1>1
  <1>3. TypeOK'
    BY <1>1 DEF TypeOK, RestTyped, MsgSeq
  <1>4. \A e \in Conns : ConnInv(conns'[e], given'[e], got'[e])
    BY <1>2 DEF IndInv
  <1>5. \A e \in Conns : SameEntry(conns[e], conns'[e])
    BY <1>2 DEF SameEntry
  <1>6. TableInv'
    BY <1>5 DEF IndInv, TableInv, SameEntry
  <1> QED
    BY <1>3, <1>4, <1>6 DEF IndInv

\* The same, where only the connection changes.
LEMMA OnlyConnStep ==
    ASSUME IndInv, NEW c \in Conns, NEW d,
           conns' = [conns EXCEPT ![c] = d],
           ConnInv(d, given[c], got[c]), SameEntry(conns[c], d),
           UNCHANGED <<m_node_conns, managers, sent, given, got>>
    PROVE  IndInv'
  <1>1. RestTyped'
    BY DEF IndInv, TypeOK, RestTyped, MsgSeq
  <1> QED
    BY <1>1, OneConnStep

\* send_to_node gives the next message.
LEMMA GivesFacts ==
    ASSUME IndInv, NEW c \in Conns, Gives(c)
    PROVE  /\ sent + 1 \in Msgs
           /\ given'[c] = Append(given[c], sent + 1) /\ got' = got
           /\ \A e \in Conns \ {c} : given'[e] = given[e]
           /\ managers' \subseteq Workers /\ sent' \in 0..MaxMsgs
           /\ given' \in [Conns -> MsgSeq] /\ got' \in [Conns -> MsgSeq]
  <1>1. sent + 1 \in Msgs /\ sent' \in 0..MaxMsgs
    BY ConstantsAssumption DEF Gives, IndInv, TypeOK, Msgs
  <1>2. given \in [Conns -> MsgSeq] /\ got \in [Conns -> MsgSeq]
    BY DEF IndInv, TypeOK, MsgSeq
  <1> DEFINE g == Append(given[c], sent + 1)
  <1>3. g \in MsgSeq /\ given' = [given EXCEPT ![c] = g]
    BY <1>1, <1>2, MsgsAppend DEF Gives
  <1> HIDE DEF g
  <1>4. given'[c] = g /\ \A e \in Conns \ {c} : given'[e] = given[e]
    BY <1>2, <1>3
  <1>5. given' \in [Conns -> MsgSeq]
    BY <1>2, <1>3
  <1>6. managers' \subseteq Workers /\ got' = got
    BY DEF Gives, IndInv, TypeOK
  <1> QED
    BY <1>1, <1>2, <1>4, <1>5, <1>6 DEF g

\* The entry of another node is a connection that is open.
LEMMA EntryFacts ==
    ASSUME IndInv, NEW w \in Workers, NEW n \in Workers \ {w}, m_node_conns[w][n] # None
    PROVE  m_node_conns[w][n] \in Conns
  BY DEF IndInv, TypeOK

\* SendConnected keeps the invariant.
LEMMA SendConnectedInv ==
    ASSUME IndInv, NEW w \in Workers, NEW n \in Workers \ {w}, SendConnected(w, n)
    PROVE  IndInv'
  <1> DEFINE c == m_node_conns[w][n]
  <1>1. /\ c \in Conns /\ conns[c].state = "CONNECTED" /\ Gives(c)
        /\ Becomes(c, send_to(conns[c], sent + 1)) /\ m_node_conns' = m_node_conns
    BY EntryFacts DEF SendConnected
  <1> HIDE DEF c
  <1>2. PICK d \in send_to(conns[c], sent + 1) : conns' = [conns EXCEPT ![c] = d]
    BY <1>1 DEF Becomes
  <1>3. /\ sent + 1 \in Msgs
        /\ given'[c] = Append(given[c], sent + 1) /\ got'[c] = got[c]
        /\ \A e \in Conns \ {c} : given'[e] = given[e] /\ got'[e] = got[e]
        /\ managers' \subseteq Workers /\ sent' \in 0..MaxMsgs
        /\ given' \in [Conns -> MsgSeq] /\ got' \in [Conns -> MsgSeq]
    BY <1>1, GivesFacts
  <1>4. /\ ConnInv(conns[c], given[c], got[c])
        /\ given[c] \in MsgSeq /\ got[c] \in MsgSeq
    BY <1>1, ConnFacts
  <1>5. ConnInv(d, Append(given[c], sent + 1), got[c]) /\ SameEntry(conns[c], d)
    BY <1>1, <1>2, <1>3, <1>4, ConnSendConnected
  <1>6. RestTyped'
    BY <1>1, <1>3 DEF RestTyped, IndInv, TypeOK
  <1> QED
    BY <1>1, <1>2, <1>3, <1>5, <1>6, OneConnStep

\* So does SendWaiting.
LEMMA SendWaitingInv ==
    ASSUME IndInv, NEW w \in Workers, NEW n \in Workers \ {w}, SendWaiting(w, n)
    PROVE  IndInv'
  <1> DEFINE c == m_node_conns[w][n]
  <1>1. /\ c \in Conns /\ conns[c].state \in {"TRY_CONNECT", "CONNECTING"} /\ Gives(c)
        /\ conns' = [conns EXCEPT ![c].wait = Append(@, sent + 1)]
        /\ m_node_conns' = m_node_conns
    BY EntryFacts DEF SendWaiting
  <1> HIDE DEF c
  <1>2. /\ sent + 1 \in Msgs
        /\ given'[c] = Append(given[c], sent + 1) /\ got'[c] = got[c]
        /\ \A e \in Conns \ {c} : given'[e] = given[e] /\ got'[e] = got[e]
        /\ managers' \subseteq Workers /\ sent' \in 0..MaxMsgs
        /\ given' \in [Conns -> MsgSeq] /\ got' \in [Conns -> MsgSeq]
    BY <1>1, GivesFacts
  <1>3. /\ ConnInv(conns[c], given[c], got[c])
        /\ given[c] \in MsgSeq /\ got[c] \in MsgSeq
    BY <1>1, ConnFacts
  <1> DEFINE d == [conns[c] EXCEPT !.wait = Append(@, sent + 1)]
  <1>4. ConnInv(d, Append(given[c], sent + 1), got[c]) /\ SameEntry(conns[c], d)
    BY <1>1, <1>2, <1>3, ConnSendWaiting
  <1>5. conns' = [conns EXCEPT ![c] = d]
    BY <1>1
  <1>6. RestTyped'
    BY <1>1, <1>2 DEF RestTyped, IndInv, TypeOK
  <1> HIDE DEF d
  <1> QED
    BY <1>1, <1>2, <1>4, <1>5, <1>6, OneConnStep

\* So does AutoSend, which makes an entry.
LEMMA AutoSendInv ==
    ASSUME IndInv, NEW w \in Workers, NEW n \in Workers \ {w}, NEW c \in Conns, AutoSend(w, n, c)
    PROVE  IndInv'
  <1> DEFINE d == [from |-> w, to |-> n, state |-> "TRY_CONNECT", wait |-> <<sent + 1>>,
                   send |-> <<>>, write |-> TRUE, up |-> <<>>, down |-> <<>>, at |-> "manager"]
  <1>1. /\ m_node_conns[w][n] = None /\ conns[c].state = "UNKOWN" /\ Gives(c)
        /\ conns' = [conns EXCEPT ![c] = d]
        /\ m_node_conns' = [m_node_conns EXCEPT ![w][n] = c]
    BY DEF AutoSend
  <1>2. /\ sent + 1 \in Msgs
        /\ given'[c] = Append(given[c], sent + 1) /\ got'[c] = got[c]
        /\ \A e \in Conns \ {c} : given'[e] = given[e] /\ got'[e] = got[e]
        /\ managers' \subseteq Workers /\ sent' \in 0..MaxMsgs
        /\ given' \in [Conns -> MsgSeq] /\ got' \in [Conns -> MsgSeq]
    BY <1>1, GivesFacts
  <1>3. ConnInv(conns[c], <<>>, <<>>) /\ given[c] = <<>> /\ got[c] = <<>>
    BY <1>1, ConnFacts DEF ConnInv, Passed
  <1>4. ConnInv(d, given'[c], got'[c])
    BY <1>2, <1>3, ConnAutoSend
  <1>5. d.from = w /\ d.to = n /\ IsOpen(d)
    BY DEF IsOpen
  <1>6. ~IsOpen(conns[c])
    BY <1>1 DEF IsOpen
  <1> HIDE DEF d
  <1>7. conns \in [Conns -> Conn] /\ d \in Conn
        /\ m_node_conns \in [Workers -> [Workers -> Conns \cup {None}]]
    BY <1>4 DEF IndInv, TypeOK, ConnInv
  <1>8. conns'[c] = d /\ \A e \in Conns \ {c} : conns'[e] = conns[e]
    BY <1>1, <1>7
  <1>9. /\ m_node_conns' \in [Workers -> [Workers -> Conns \cup {None}]]
        /\ m_node_conns'[w][n] = c
        /\ \A v, o \in Workers : v # w \/ o # n => m_node_conns'[v][o] = m_node_conns[v][o]
    BY <1>1, <1>7
  <1>10. TypeOK'
    BY <1>1, <1>2, <1>7, <1>9 DEF TypeOK, MsgSeq
  <1>11. \A e \in Conns : ConnInv(conns'[e], given'[e], got'[e])
    BY <1>2, <1>4, <1>8 DEF IndInv
  <1>12. TableInv'
    <2> SUFFICES ASSUME NEW v \in Workers, NEW o \in Workers \ {v}, NEW e \in Conns
                 PROVE  m_node_conns'[v][o] = e <=>
                            IsOpen(conns'[e]) /\ conns'[e].from = v /\ conns'[e].to = o
      BY DEF TableInv
    <2>1. m_node_conns[v][o] = e <=> IsOpen(conns[e]) /\ conns[e].from = v /\ conns[e].to = o
      BY DEF IndInv, TableInv
    <2>2. CASE v = w /\ o = n
      <3>1. CASE e = c
        BY <1>5, <1>8, <1>9, <2>2, <3>1
      <3>2. CASE e # c
        BY <1>1, <1>8, <1>9, <2>1, <2>2, <3>2, ConstantsAssumption
      <3> QED
        BY <3>1, <3>2
    <2>3. CASE v # w \/ o # n
      <3>1. CASE e = c
        BY <1>5, <1>6, <1>8, <1>9, <2>1, <2>3, <3>1
      <3>2. CASE e # c
        BY <1>8, <1>9, <2>1, <2>3, <3>2
      <3> QED
        BY <3>1, <3>2
    <2> QED
      BY <2>2, <2>3
  <1> QED
    BY <1>10, <1>11, <1>12 DEF IndInv

\* So does CloseConn, which removes one.
LEMMA CloseConnInv ==
    ASSUME IndInv, NEW c \in Conns, IsOpen(conns[c]), CloseConn(c),
           UNCHANGED <<managers, sent, given, got>>
    PROVE  IndInv'
  <1> DEFINE d == [conns[c] EXCEPT !.state = "CLOSED", !.write = FALSE]
             w == conns[c].from
             n == conns[c].to
  <1>1. /\ ConnInv(conns[c], given[c], got[c])
        /\ given[c] \in MsgSeq /\ got[c] \in MsgSeq
    BY ConnFacts
  <1>2. ConnInv(d, given[c], got[c]) /\ ~IsOpen(d)
    BY <1>1, ConnClose
  <1>3. conns' = [conns EXCEPT ![c] = d]
    BY ConnFacts DEF CloseConn
  <1>4. m_node_conns' = [m_node_conns EXCEPT ![w][n] = None]
    BY DEF CloseConn
  <1>5. w \in Workers /\ n \in Workers /\ w # n
    BY <1>1 DEF ConnInv, Phase, IsOpen
  <1> HIDE DEF d
  <1>6. /\ conns \in [Conns -> Conn] /\ d \in Conn
        /\ m_node_conns \in [Workers -> [Workers -> Conns \cup {None}]]
    BY <1>2 DEF IndInv, TypeOK, ConnInv
  <1>7. m_node_conns[w][n] = c
    BY <1>5 DEF IndInv, TableInv
  <1>8. conns'[c] = d /\ \A e \in Conns \ {c} : conns'[e] = conns[e]
    BY <1>3, <1>6
  <1> HIDE DEF w, n
  <1>9. /\ m_node_conns' \in [Workers -> [Workers -> Conns \cup {None}]]
        /\ m_node_conns'[w][n] = None
        /\ \A v, o \in Workers : v # w \/ o # n => m_node_conns'[v][o] = m_node_conns[v][o]
    BY <1>4, <1>5, <1>6
  <1>10. TypeOK'
    BY <1>3, <1>6, <1>9 DEF IndInv, TypeOK
  <1>11. \A e \in Conns : ConnInv(conns'[e], given'[e], got'[e])
    BY <1>2, <1>8 DEF IndInv
  <1>12. TableInv'
    <2> SUFFICES ASSUME NEW v \in Workers, NEW o \in Workers \ {v}, NEW e \in Conns
                 PROVE  m_node_conns'[v][o] = e <=>
                            IsOpen(conns'[e]) /\ conns'[e].from = v /\ conns'[e].to = o
      BY DEF TableInv
    <2>1. m_node_conns[v][o] = e <=> IsOpen(conns[e]) /\ conns[e].from = v /\ conns[e].to = o
      BY DEF IndInv, TableInv
    <2>2. CASE e = c
      <3>1. m_node_conns'[v][o] # c
        <4>1. v # w \/ o # n => m_node_conns[v][o] # c
          BY <2>1, <2>2 DEF w, n
        <4> QED
          BY <1>9, <4>1, ConstantsAssumption
      <3> QED
        BY <1>2, <1>8, <2>2, <3>1
    <2>3. CASE e # c
      <3>1. CASE v = w /\ o = n
        BY <1>7, <1>8, <1>9, <2>1, <2>3, <3>1, ConstantsAssumption
      <3>2. CASE v # w \/ o # n
        BY <1>8, <1>9, <2>1, <2>3, <3>2
      <3> QED
        BY <3>1, <3>2
    <2> QED
      BY <2>2, <2>3
  <1> QED
    BY <1>10, <1>11, <1>12 DEF IndInv

\* The events of A1 on a connection keep the invariant.
LEMMA ClientInv ==
    ASSUME IndInv, NEW c \in Conns, Client(c)
    PROVE  IndInv'
  <1> DEFINE k == conns[c]
  <1>1. /\ ConnInv(k, given[c], got[c]) /\ given[c] \in MsgSeq /\ got[c] \in MsgSeq
        /\ k \in Conn /\ conns \in [Conns -> Conn]
    BY ConnFacts DEF IndInv, TypeOK
  <1>2. CASE OnIoWriteTry(c)
    <2>1. PICK e \in send_to(k, CONNECT) :
              conns' = [conns EXCEPT ![c] = [e EXCEPT !.state = "CONNECTING"]]
      BY <1>2 DEF OnIoWriteTry, Becomes
    <2>2. k.state = "TRY_CONNECT" /\ UNCHANGED <<m_node_conns, managers, sent, given, got>>
      BY <1>2 DEF OnIoWriteTry
    <2> DEFINE d == [e EXCEPT !.state = "CONNECTING"]
    <2>3. ConnInv(d, given[c], got[c]) /\ SameEntry(k, d)
      BY <1>1, <2>2, ConnTry
    <2> HIDE DEF d
    <2>4. conns' = [conns EXCEPT ![c] = d]
      BY <2>1 DEF d
    <2> QED
      BY <2>2, <2>3, <2>4, OnlyConnStep
  <1>3. CASE OnIoWrite(c)
    <2>1. PICK d \in handle_write_events(k) : conns' = [conns EXCEPT ![c] = d]
      BY <1>3 DEF OnIoWrite, Becomes
    <2>2. /\ k.state \in {"CONNECTING", "CONNECTED"}
          /\ UNCHANGED <<m_node_conns, managers, sent, given, got>>
      BY <1>3 DEF OnIoWrite
    <2>3. ConnInv(d, given[c], got[c]) /\ SameEntry(k, d)
      BY <1>1, <2>2, ConnWrite
    <2> QED
      BY <2>1, <2>2, <2>3, OnlyConnStep
  <1>4. CASE OnRspConnect(c)
    <2>1. PICK d \in send_to([k EXCEPT !.down = Tail(@)], TELL) : conns' = [conns EXCEPT ![c] = d]
      BY <1>4 DEF OnRspConnect, Becomes
    <2>2. /\ IsOpen(k) /\ k.down # <<>> /\ Head(k.down) = "CONNECT_OK"
          /\ UNCHANGED <<m_node_conns, managers, sent, given, got>>
      BY <1>4 DEF OnRspConnect, Reads
    <2>3. ConnInv(d, given[c], got[c]) /\ SameEntry(k, d)
      BY <1>1, <2>1, <2>2, ConnRspConnect
    <2> QED
      BY <2>1, <2>2, <2>3, OnlyConnStep
  <1>5. CASE OnRspConnectErr(c)
    <2> DEFINE d == [k EXCEPT !.down = Tail(@)]
    <2>1. /\ IsOpen(k) /\ k.down # <<>> /\ Head(k.down) = "CONNECT_ERR"
          /\ UNCHANGED <<m_node_conns, managers, sent, given, got>>
      BY <1>5 DEF OnRspConnectErr, Reads
    <2>2. conns' = [conns EXCEPT ![c] = d]
      BY <1>5 DEF OnRspConnectErr
    <2>3. ConnInv(d, given[c], got[c]) /\ SameEntry(k, d)
      BY <1>1, <2>1, ConnRspConnectErr
    <2> HIDE DEF d
    <2> QED
      BY <2>1, <2>2, <2>3, OnlyConnStep
  <1>6. CASE OnRspTell(c)
    <2> DEFINE d == [k EXCEPT !.down = Tail(@), !.state = "CONNECTED", !.write = TRUE]
    <2>1. /\ IsOpen(k) /\ k.down # <<>> /\ Head(k.down) = "TELL_OK"
          /\ m_node_conns' = [m_node_conns EXCEPT ![k.from][k.to] = c]
          /\ UNCHANGED <<managers, sent, given, got>>
      BY <1>6 DEF OnRspTell, Reads
    <2>2. conns' = [conns EXCEPT ![c] = d]
      BY <1>1, <1>6 DEF OnRspTell
    <2>3. ConnInv(d, given[c], got[c]) /\ SameEntry(k, d)
      BY <1>1, <2>1, ConnRspTell
    <2>4. k.from \in Workers /\ k.to \in Workers /\ k.from # k.to
      BY <1>1, <2>1 DEF ConnInv, Phase, IsOpen
    <2>5. m_node_conns[k.from][k.to] = c
      BY <2>1, <2>4 DEF IndInv, TableInv
    <2>6. m_node_conns' = m_node_conns
      BY <2>1, <2>4, <2>5 DEF IndInv, TypeOK
    <2> HIDE DEF d
    <2> QED
      BY <2>1, <2>2, <2>3, <2>6, OnlyConnStep
  <1> QED
    BY <1>2, <1>3, <1>4, <1>5, <1>6 DEF Client

\* The answers of B0 and B1 keep the invariant; B1 makes an entry under its
\* own id, which is not one of another node.
LEMMA AnswerInv ==
    ASSUME IndInv, NEW c \in Conns,
           OnReqConnectRefused(c) \/ OnReqConnect(c) \/ OnReqTell(c)
    PROVE  IndInv'
  <1> DEFINE k == conns[c]
             Answer(rsp, at) == [k EXCEPT !.up = Tail(@), !.down = Append(@, rsp), !.at = at]
  <1>1. /\ ConnInv(k, given[c], got[c]) /\ given[c] \in MsgSeq /\ got[c] \in MsgSeq
        /\ k \in Conn /\ conns \in [Conns -> Conn]
    BY ConnFacts DEF IndInv, TypeOK
  <1>2. \A rsp, at : Answered(c, rsp, at) => conns' = [conns EXCEPT ![c] = Answer(rsp, at)]
    BY <1>1 DEF Answered
  <1>3. CONNECT \in Handshake /\ TELL \in Handshake
    BY DEF Handshake
  <1>4. CASE OnReqConnectRefused(c)
    <2> DEFINE d == Answer("CONNECT_ERR", "manager")
    <2>1. /\ k.at = "manager" /\ k.up # <<>> /\ Head(k.up) = CONNECT
          /\ conns' = [conns EXCEPT ![c] = d]
          /\ UNCHANGED <<m_node_conns, managers, sent, given, got>>
      BY <1>2, <1>4 DEF OnReqConnectRefused, Takes
    <2>2. ConnInv(d, given[c], got[c]) /\ SameEntry(k, d)
      BY <1>1, <1>3, <2>1, ConnAnswered
    <2> HIDE DEF d
    <2> QED
      BY <2>1, <2>2, OnlyConnStep
  <1>5. CASE OnReqConnect(c)
    <2>1. /\ k.at = "manager" /\ k.up # <<>> /\ Head(k.up) = CONNECT
          /\ UNCHANGED <<m_node_conns, managers, sent, given, got>>
      BY <1>5 DEF OnReqConnect, Takes
    <2>2. PICK at \in {"chanel", "manager"} : Answered(c, "CONNECT_OK", at)
      BY <1>5 DEF OnReqConnect
    <2> DEFINE d == Answer("CONNECT_OK", at)
    <2>3. conns' = [conns EXCEPT ![c] = d]
      BY <1>2, <2>2
    <2>4. ConnInv(d, given[c], got[c]) /\ SameEntry(k, d)
      BY <1>1, <1>3, <2>1, ConnAnswered
    <2> HIDE DEF d
    <2> QED
      BY <2>1, <2>3, <2>4, OnlyConnStep
  <1>6. CASE OnReqTell(c)
    <2> DEFINE d == Answer("TELL_OK", "worker")
    <2>1. /\ k.at = "worker" /\ k.up # <<>> /\ Head(k.up) = TELL
          /\ conns' = [conns EXCEPT ![c] = d]
          /\ m_node_conns' = [m_node_conns EXCEPT ![k.to][k.to] = c]
          /\ UNCHANGED <<managers, sent, given, got>>
      BY <1>2, <1>6 DEF OnReqTell, Takes
    <2>2. ConnInv(d, given[c], got[c]) /\ SameEntry(k, d)
      BY <1>1, <1>3, <2>1, ConnAnswered
    <2> HIDE DEF d
    <2>3. k.to \in Workers
      BY <1>1, <2>1 DEF ConnInv, Phase
    <2>4. /\ m_node_conns' \in [Workers -> [Workers -> Conns \cup {None}]]
          /\ \A w \in Workers : \A n \in Workers \ {w} : m_node_conns'[w][n] = m_node_conns[w][n]
      BY <2>1, <2>3 DEF IndInv, TypeOK
    <2>5. RestTyped'
      BY <2>1, <2>4 DEF RestTyped, IndInv, TypeOK, MsgSeq
    <2>6. ConnInv(d, given'[c], got'[c]) /\ \A e \in Conns : given'[e] = given[e] /\ got'[e] = got[e]
      BY <2>1, <2>2
    <2> QED
      BY <2>1, <2>2, <2>4, <2>5, <2>6, OneConnStep
  <1> QED
    BY <1>4, <1>5, <1>6

\* The end of a manager closes its ends of the connections.
LEMMA OnUnknownInv ==
    ASSUME IndInv, NEW c \in Conns, OnUnknown(c)
    PROVE  IndInv'
  <1>1. conns' = [d \in Conns |-> IF conns[d].at = "manager" /\ conns[d].to = conns[c].to
                                  THEN [conns[d] EXCEPT !.at = "gone"] ELSE conns[d]]
    BY DEF OnUnknown
  <1>2. managers' \subseteq managers /\ UNCHANGED <<m_node_conns, sent, given, got>>
    BY DEF OnUnknown
  <1>3. ASSUME NEW e \in Conns
        PROVE  ConnInv(conns'[e], given[e], got[e]) /\ SameEntry(conns[e], conns'[e])
    <2>1. /\ ConnInv(conns[e], given[e], got[e])
          /\ given[e] \in MsgSeq /\ got[e] \in MsgSeq
      BY ConnFacts
    <2>2. CASE conns[e].at = "manager" /\ conns[e].to = conns[c].to
      <3>1. conns'[e] = [conns[e] EXCEPT !.at = "gone"]
        BY <1>1, <2>2
      <3>2. conns[e].state # "UNKOWN"
        BY <2>1, <2>2 DEF ConnInv, Phase
      <3> QED
        BY <2>1, <3>1, <3>2, ConnMoves
    <2>3. CASE ~(conns[e].at = "manager" /\ conns[e].to = conns[c].to)
      <3>1. conns'[e] = conns[e]
        BY <1>1, <2>3
      <3> QED
        BY <2>1, <3>1 DEF SameEntry
    <2> QED
      BY <2>2, <2>3
  <1>4. \A e \in Conns : conns'[e] \in Conn
    BY <1>3 DEF ConnInv
  <1>5. conns' \in [Conns -> Conn]
    BY <1>1, <1>4
  <1>6. TypeOK'
    BY <1>2, <1>5 DEF IndInv, TypeOK
  <1>7. TableInv'
    BY <1>2, <1>3 DEF IndInv, TableInv, SameEntry
  <1>8. \A e \in Conns : ConnInv(conns'[e], given'[e], got'[e])
    BY <1>2, <1>3
  <1> QED
    BY <1>6, <1>7, <1>8 DEF IndInv

\* The other end is taken over by B1, reads a message, or is closed.
LEMMA PeerInv ==
    ASSUME IndInv, NEW c \in Conns, ReadTransferFd(c) \/ OnMessage(c) \/ PeerCloses(c)
    PROVE  IndInv'
  <1> DEFINE k == conns[c]
  <1>1. /\ ConnInv(k, given[c], got[c]) /\ given[c] \in MsgSeq /\ got[c] \in MsgSeq
        /\ k \in Conn /\ conns \in [Conns -> Conn]
    BY ConnFacts DEF IndInv, TypeOK
  <1>2. CASE ReadTransferFd(c)
    <2> DEFINE d == [k EXCEPT !.at = "worker"]
    <2>1. /\ k.at = "chanel" /\ conns' = [conns EXCEPT ![c] = d]
          /\ UNCHANGED <<m_node_conns, managers, sent, given, got>>
      BY <1>2 DEF ReadTransferFd
    <2>2. k.state # "UNKOWN"
      BY <1>1, <2>1 DEF ConnInv, Phase
    <2>3. ConnInv(d, given[c], got[c]) /\ SameEntry(k, d)
      BY <1>1, <2>1, <2>2, ConnMoves
    <2> HIDE DEF d
    <2> QED
      BY <2>1, <2>3, OnlyConnStep
  <1>3. CASE PeerCloses(c)
    <2> DEFINE d == [k EXCEPT !.at = "gone"]
    <2>1. /\ k.state # "UNKOWN" /\ conns' = [conns EXCEPT ![c] = d]
          /\ UNCHANGED <<m_node_conns, managers, sent, given, got>>
      BY <1>3 DEF PeerCloses
    <2>2. ConnInv(d, given[c], got[c]) /\ SameEntry(k, d)
      BY <1>1, <2>1, ConnMoves
    <2> HIDE DEF d
    <2> QED
      BY <2>1, <2>2, OnlyConnStep
  <1>4. CASE OnMessage(c)
    <2> DEFINE d == [k EXCEPT !.up = Tail(@)]
               g == Append(got[c], Head(k.up))
    <2>1. /\ k.at = "worker" /\ k.up # <<>> /\ Head(k.up) \in Msgs
          /\ conns' = [conns EXCEPT ![c] = d] /\ got' = [got EXCEPT ![c] = g]
          /\ UNCHANGED <<m_node_conns, managers, sent, given>>
      BY <1>4 DEF OnMessage
    <2>2. ConnInv(d, given[c], g) /\ SameEntry(k, d)
      BY <1>1, <2>1, ConnMessage
    <2>3. g \in MsgSeq
      BY <1>1, <2>1, MsgsAppend
    <2> HIDE DEF d, g
    <2>4. /\ got' \in [Conns -> MsgSeq] /\ got'[c] = g
          /\ \A e \in Conns \ {c} : got'[e] = got[e]
      BY <2>1, <2>3 DEF IndInv, TypeOK, MsgSeq
    <2>5. RestTyped'
      BY <2>1, <2>4 DEF RestTyped, IndInv, TypeOK, MsgSeq
    <2>6. ConnInv(d, given'[c], got'[c]) /\ \A e \in Conns \ {c} : given'[e] = given[e]
      BY <2>1, <2>2, <2>4
    <2>7. \A w \in Workers : \A n \in Workers \ {w} : m_node_conns'[w][n] = m_node_conns[w][n]
      BY <2>1
    <2> QED
      BY <2>1, <2>2, <2>4, <2>5, <2>6, <2>7, OneConnStep
  <1> QED
    BY <1>2, <1>3, <1>4

-----------------------------------------------------------------------------
(* Theorems *)

\* In the beginning there is no connection.
LEMMA InitInv == Init => IndInv
  <1> SUFFICES ASSUME Init PROVE IndInv
    OBVIOUS
  <1> DEFINE k == [from |-> None, to |-> None, state |-> "UNKOWN",
                   wait |-> <<>>, send |-> <<>>, write |-> FALSE,
                   up |-> <<>>, down |-> <<>>, at |-> "gone"]
  <1>1. \A c \in Conns : conns[c] = k /\ given[c] = <<>> /\ got[c] = <<>>
    BY DEF Init
  <1>2. k \in Conn
    <2>1. /\ <<>> \in Seq(Msgs) /\ <<>> \in Seq(Msgs \cup Handshake)
          /\ <<>> \in Seq({"CONNECT_OK", "CONNECT_ERR", "TELL_OK"})
      BY EmptySeq
    <2> QED
      BY <2>1 DEF Conn, States
  <1>3. Empty(k) /\ Phase(k) /\ Watched(k) /\ ~IsOpen(k)
    BY DEF Empty, Phase, Watched, IsOpen
  <1>4. Passed(k, <<>>, <<>>)
    BY MsgsEmpty DEF Passed
  <1>5. TypeOK
    BY <1>2, MsgsEmpty, ConstantsAssumption DEF Init, TypeOK, MsgSeq
  <1>6. \A c \in Conns : ConnInv(conns[c], given[c], got[c])
    BY <1>1, <1>2, <1>3, <1>4 DEF ConnInv
  <1>7. TableInv
    BY <1>1, <1>3, ConstantsAssumption DEF Init, TableInv
  <1> QED
    BY <1>5, <1>6, <1>7 DEF IndInv

\* Every step keeps the invariant.
LEMMA NextInv == IndInv /\ [Next]_vars => IndInv'
  <1> SUFFICES ASSUME IndInv, [Next]_vars PROVE IndInv'
    OBVIOUS
  <1>1. CASE UNCHANGED vars
    BY <1>1 DEF vars, IndInv, TypeOK, TableInv
  <1>2. ASSUME NEW w \in Workers, SendToNode(w) PROVE IndInv'
    BY <1>2, SendConnectedInv, SendWaitingInv, AutoSendInv DEF SendToNode
  <1>3. ASSUME NEW c \in Conns, OnError(c) \/ OnIoTimer(c) PROVE IndInv'
    BY <1>3, CloseConnInv DEF OnError, OnIoTimer
  <1> QED
    BY <1>1, <1>2, <1>3, ClientInv, AnswerInv, OnUnknownInv, PeerInv DEF Next

\* The phases of every connection, its messages and the table of connections
\* hold in every reachable state.
THEOREM Invariance == Spec => []IndInv
  BY InitInv, NextInv, PTL DEF Spec

\* A sequence is a prefix of what starts with it.
LEMMA PrefixOfConcat == \A s, t \in MsgSeq : IsPrefix(s, s \o t)
  <1> SUFFICES ASSUME NEW s \in MsgSeq, NEW t \in MsgSeq PROVE IsPrefix(s, s \o t)
    OBVIOUS
  <1> DEFINE u == s \o t
  <1>1. u \in MsgSeq
    BY MsgsConcat
  <1>2. /\ Len(u) = Len(s) + Len(t) /\ \A i \in 1..Len(s) : u[i] = s[i]
        /\ Len(s) \in Nat /\ Len(t) \in Nat
    BY ConcatProperties, LenProperties DEF MsgSeq
  <1> HIDE DEF u
  <1>3. Len(s) <= Len(u)
    BY <1>2
  <1>4. SubSeq(u, 1, Len(s)) = SubSeq(s, 1, Len(s))
    BY <1>1, <1>2, <1>3 DEF MsgSeq
  <1> QED
    BY <1>3, <1>4 DEF IsPrefix, u

\* B1 reads the messages of a connection in the order in which send_to_node
\* took them, none is lost while the other end is there, and no message mixes
\* with the handshake or reaches a manager (conn_write, on_rsp_tell_worker).
THEOREM MessagesInOrder == Spec => []InOrder
  <1>1. IndInv => InOrder
    <2> SUFFICES ASSUME IndInv, NEW c \in Conns
                 PROVE  /\ \A s \in {conns[c].up, conns[c].send} :
                              Range(s) \subseteq Msgs \/ Range(s) \subseteq Handshake
                        /\ conns[c].at \in {"manager", "chanel"} =>
                              Range(conns[c].up) \subseteq Handshake
                        /\ IsPrefix(got[c], given[c])
                        /\ conns[c].at # "gone" => given[c] = got[c] \o Underway(conns[c])
      BY DEF InOrder
    <2> DEFINE k == conns[c]
    <2>1. /\ ConnInv(k, given[c], got[c]) /\ given[c] \in MsgSeq /\ got[c] \in MsgSeq
          /\ k \in Conn
      BY ConnFacts
    <2>2. /\ Range(<<>>) = {} /\ Range(<<CONNECT>>) \subseteq Handshake
          /\ Range(<<TELL>>) \subseteq Handshake
      <3>1. \A x \in Handshake : <<x>> \in Seq(Handshake)
        OBVIOUS
      <3>2. CONNECT \in Handshake /\ TELL \in Handshake
        BY DEF Handshake
      <3>3. Range(<<>>) = {}
        BY DEF Range
      <3> QED
        BY <3>1, <3>2, <3>3, RangeFacts
    <2>3. Messaging(k) => Range(k.up) \subseteq Msgs /\ Range(k.send) \subseteq Msgs
                          /\ k.at \notin {"manager", "chanel"}
      BY RangeFacts DEF Messaging, MsgSeq
    <2>4. Shaking(k) \/ Empty(k) => Range(k.up) \subseteq Handshake /\ Range(k.send) \subseteq Handshake
      BY <2>2 DEF Shaking, Empty, OneReq
    <2>5. Messaging(k) \/ Shaking(k) \/ Empty(k)
      BY <2>1 DEF ConnInv, Phase, Conn, States
    <2>6. IsPrefix(got[c], given[c])
      <3>1. PICK rest \in MsgSeq : given[c] = got[c] \o rest
        BY <2>1 DEF ConnInv, Passed
      <3> QED
        BY <2>1, <3>1, PrefixOfConcat
    <2>7. k.at # "gone" => given[c] = got[c] \o Underway(k)
      BY <2>1 DEF ConnInv, Passed
    <2> QED
      BY <2>3, <2>4, <2>5, <2>6, <2>7
  <1> QED
    BY <1>1, Invariance, PTL

\* What A1 must write next waits for a write event (handle_write_events,
\* process_tcp_msg).
THEOREM WaitingWatched == Spec => []WaitingIsWatched
  <1>1. IndInv => WaitingIsWatched
    BY DEF IndInv, ConnInv, Watched, WaitingIsWatched
  <1> QED
    BY <1>1, Invariance, PTL

\* A worker finds its one open connection to another node under the node's id,
\* and nothing else (close_conn, auto_send).
THEOREM TableIsRight == Spec => []NodeConnsRight
  <1>1. IndInv => NodeConnsRight
    <2> SUFFICES ASSUME IndInv, NEW w \in Workers, NEW n \in Workers \ {w}
                 PROVE  {c \in Conns : IsOpen(conns[c]) /\ conns[c].from = w /\ conns[c].to = n}
                            = {m_node_conns[w][n]} \ {None}
      BY DEF NodeConnsRight, IndInv
    <2>1. m_node_conns[w][n] \in Conns \cup {None} /\ None \notin Conns
      BY ConstantsAssumption DEF IndInv, TypeOK
    <2>2. \A c \in Conns : m_node_conns[w][n] = c <=>
              IsOpen(conns[c]) /\ conns[c].from = w /\ conns[c].to = n
      BY DEF IndInv, TableInv
    <2> QED
      BY <2>1, <2>2
  <1> QED
    BY <1>1, Invariance, PTL
=============================================================================
