---------------------------- MODULE WsWorkerProofs ----------------------------
(***************************************************************************)
(* What the proofs about WsPingpong and WsPipeline share: the steps of     *)
(* WsWorker keep the types and the order of the answers, and each of them  *)
(* is a step of Connection or none of its business.                        *)
(***************************************************************************)
EXTENDS WsWorker, SequenceTheorems, TLAPS

\* A frame carries the number of a round that has begun.
Numbered == [kind : {"binary", "other", "invalid", "close"}, of : 0 .. MaxRounds]

StreamType ==
  [state : {"active", "by_us", "by_peer", "acked", "terminated"},
   ended : BOOLEAN, out : Seq(Numbered), c2s : Seq(Numbered), s2c : Seq(Numbered),
   bye : BOOLEAN, eof : BOOLEAN, rst : BOOLEAN, extra : Nat]

WsShape == WsTypeOK /\ net \in StreamType

\* Such a stream is one of NetType, whose frames may carry any number.
LEMMA StreamIsNet == StreamType \subseteq NetType
<1>1. Numbered \subseteq Frame
  BY BoundsAssumption DEF Numbered, Frame
<1>2. Seq(Numbered) \subseteq Seq(Frame)
  BY <1>1
<1> QED
  BY <1>2 DEF StreamType, NetType

-----------------------------------------------------------------------------
(***************************************************************************)
(* The stream keeps its type.                                              *)
(***************************************************************************)

\* The first frame of a sequence and the rest of it.
LEMMA HeadAndTail ==
  ASSUME NEW s \in Seq(Numbered), s # <<>>
  PROVE  Head(s) \in Numbered /\ Tail(s) \in Seq(Numbered)
OBVIOUS

\* A frame with a valid number is buffered.
LEMMA BufferKeeps ==
  ASSUME net \in StreamType, NEW f \in Numbered, Buffer(f)
  PROVE  net' \in StreamType
<1>1. Append(net.out, f) \in Seq(Numbered)
  BY DEF StreamType
<1> QED
  BY <1>1 DEF Buffer, StreamType

\* A buffered frame goes out.
LEMMA FlushKeeps ==
  ASSUME net \in StreamType, Flush
  PROVE  net' \in StreamType
<1>1. net.out \in Seq(Numbered) /\ net.out # <<>> /\ net.c2s \in Seq(Numbered)
  BY DEF Flush, StreamType
<1>2. Append(net.c2s, Head(net.out)) \in Seq(Numbered) /\ Tail(net.out) \in Seq(Numbered)
  BY <1>1, HeadAndTail
<1> QED
  BY <1>2 DEF Flush, StreamType

\* A send ends, well or badly.
LEMMA FlushedKeeps ==
  ASSUME net \in StreamType, Flushed \/ FlushFails
  PROVE  net' \in StreamType
<1>1. <<>> \in Seq(Numbered)
  OBVIOUS
<1> QED
  BY <1>1 DEF Flushed, FlushFails, StreamType

\* A frame is read; it carries a valid number.
LEMMA YieldsKeeps ==
  ASSUME net \in StreamType, NEW kinds, Yields(kinds)
  PROVE  net' \in StreamType /\ Head(net.s2c) \in Numbered
<1>1. net.s2c \in Seq(Numbered) /\ net.s2c # <<>>
  BY DEF Yields, StreamType
<1>2. Head(net.s2c) \in Numbered /\ Tail(net.s2c) \in Seq(Numbered)
  BY <1>1, HeadAndTail
<1> QED
  BY <1>2 DEF Yields, StreamType

\* An error is read, with or without a frame behind it.
LEMMA YieldsErrorKeeps ==
  ASSUME net \in StreamType, YieldsError
  PROVE  net' \in StreamType
<1>1. CASE /\ net.s2c # <<>> /\ Head(net.s2c).kind = "invalid"
           /\ net' = [net EXCEPT !.s2c = Tail(@), !.ended = TRUE]
  <2>1. Tail(net.s2c) \in Seq(Numbered)
    BY <1>1, HeadAndTail DEF StreamType
  <2> QED
    BY <1>1, <2>1 DEF StreamType
<1>2. CASE net' = [net EXCEPT !.ended = TRUE,
                              !.state = IF net.eof THEN "terminated" ELSE @]
  BY <1>2 DEF StreamType
<1> QED
  BY <1>1, <1>2 DEF YieldsError

\* The end of the stream is read.
LEMMA YieldsNoneKeeps ==
  ASSUME net \in StreamType, YieldsNone
  PROVE  net' \in StreamType
BY DEF YieldsNone, StreamType

\* Whatever the server does, it sends no number it has not been sent.
LEMMA ServerKeeps ==
  ASSUME net \in StreamType, ServerStep
  PROVE  net' \in StreamType
<1>0. net.c2s \in Seq(Numbered) /\ net.s2c \in Seq(Numbered) /\ <<>> \in Seq(Numbered)
  BY DEF StreamType
<1>1. \A kind \in {"binary", "other", "invalid", "close"} : \A n \in 0 .. MaxRounds :
        Append(net.s2c, Carries(kind, n)) \in Seq(Numbered)
  BY <1>0 DEF Carries, Numbered
<1>2. ASSUME NEW kind, Takes(kind)
      PROVE  Head(net.c2s).of \in 0 .. MaxRounds /\ Tail(net.c2s) \in Seq(Numbered)
  BY <1>0, <1>2, HeadAndTail DEF Takes, Numbered
<1>z. 0 \in 0 .. MaxRounds
  BY BoundsAssumption
<1>3. CASE ServerAnswers
  <2>1. PICK kind \in {"binary"} \cup (IF server.mixed THEN {"other"} ELSE {}) :
          net' = [net EXCEPT !.c2s = Tail(@),
                             !.s2c = Append(@, Carries(kind, Head(net.c2s).of))]
    BY <1>3 DEF ServerAnswers
  <2>2. Append(net.s2c, Carries(kind, Head(net.c2s).of)) \in Seq(Numbered)
    BY <1>1, <1>2, <1>3 DEF ServerAnswers
  <2> QED
    BY <1>2, <1>3, <2>1, <2>2 DEF ServerAnswers, StreamType
<1>4. CASE ServerIgnores
  BY <1>2, <1>4 DEF ServerIgnores, StreamType
<1>5. CASE ServerCloses
  <2>1. Append(net.s2c, Carries("close", 0)) \in Seq(Numbered)
    BY <1>1, <1>z
  <2> QED
    BY <1>2, <1>5, <2>1 DEF ServerCloses, StreamType
<1>6. ASSUME NEW kind \in {"binary", "other", "invalid", "close"}, ServerSays(kind)
      PROVE  net' \in StreamType
  <2>1. Append(net.s2c, Carries(kind, 0)) \in Seq(Numbered)
    BY <1>1, <1>z
  <2>2. net.extra + 1 \in Nat
    BY DEF StreamType
  <2>3. (kind = "close") \in BOOLEAN
    OBVIOUS
  <2>4. net' = [net EXCEPT !.s2c = Append(@, Carries(kind, 0)), !.extra = @ + 1,
                           !.bye = (kind = "close")]
    BY <1>6 DEF ServerSays
  <2>5. ASSUME NEW said \in Seq(Numbered), NEW more \in Nat, NEW farewell \in BOOLEAN
        PROVE  [net EXCEPT !.s2c = said, !.extra = more, !.bye = farewell] \in StreamType
    BY DEF StreamType
  <2> QED
    BY <2>1, <2>2, <2>3, <2>4, <2>5, Zenon
<1>7. CASE ServerPings \/ ServerChats
  BY <1>6, <1>7 DEF ServerPings, ServerChats
<1>8. CASE ServerFails
  <2>1. CASE ServerSays("invalid") \/ ServerSays("close")
    BY <1>6, <2>1
  <2>2. CASE net' = [net EXCEPT !.eof = TRUE]
    BY <2>2 DEF StreamType
  <2>3. CASE net' = [net EXCEPT !.rst = TRUE, !.c2s = <<>>]
    BY <1>0, <2>3 DEF StreamType
  <2> QED
    BY <1>8, <2>1, <2>2, <2>3 DEF ServerFails
<1>9. CASE ServerHangsUp \/ ServerRefuses
  BY <1>0, <1>9 DEF ServerHangsUp, ServerRefuses, StreamType
<1> QED
  BY <1>3, <1>4, <1>5, <1>7, <1>8, <1>9 DEF ServerStep, ServerReads

-----------------------------------------------------------------------------
(***************************************************************************)
(* The order of the answers.  At an echo server the messages and the       *)
(* answers that are under way carry the numbers of consecutive rounds,     *)
(* whatever frames without a number there are between them.                *)
(***************************************************************************)

\* A frame with a number: a message, or an answer of either kind.  The others carry 0.
Counts(f) == f.kind = "binary" \/ (f.kind = "other" /\ f.of # 0)

\* c counts from n to m along q: c[i] is the number that is next after i frames.
Expects(c, q, n, m) ==
  /\ c[0] = n /\ c[Len(q)] = m
  /\ \A i \in 0 .. Len(q) : c[i] <= m
  /\ \A i \in 1 .. Len(q) :
       IF Counts(q[i]) THEN q[i].of = c[i - 1] /\ c[i] = c[i - 1] + 1
                       ELSE q[i].of = 0 /\ c[i] = c[i - 1]

\* The numbered frames of q carry n, n + 1, ..., m - 1, in this order.
Numbers(q, n, m) == \E c \in [0 .. Len(q) -> Int] : Expects(c, q, n, m)

\* Numbers run upwards, and a sequence without frames has none.
LEMMA NumbersBounds ==
  ASSUME NEW q \in Seq(Numbered), NEW n \in Int, NEW m \in Int, Numbers(q, n, m)
  PROVE  n <= m /\ (q = <<>> => n = m)
<1>1. PICK c \in [0 .. Len(q) -> Int] : Expects(c, q, n, m)
  BY DEF Numbers
<1>2. 0 \in 0 .. Len(q) /\ (q = <<>> => Len(q) = 0)
  OBVIOUS
<1> QED
  BY <1>1, <1>2 DEF Expects

\* No frames, no numbers.
LEMMA NumbersNone ==
  ASSUME NEW n \in Int
  PROVE  Numbers(<<>>, n, n)
<1> DEFINE c == [i \in 0 .. 0 |-> n]
<1>1. Len(<<>>) = 0 /\ c \in [0 .. 0 -> Int] /\ c[0] = n /\ \A i \in 0 .. 0 : i = 0
  OBVIOUS
<1>2. Expects(c, <<>>, n, n)
  BY <1>1 DEF Expects
<1> QED
  BY <1>1, <1>2 DEF Numbers

\* A frame behind the others carries the next number, or none.
LEMMA NumbersAppend ==
  ASSUME NEW q \in Seq(Numbered), NEW n \in Int, NEW m \in Int, Numbers(q, n, m),
         NEW f \in Numbered
  PROVE  /\ ~Counts(f) /\ f.of = 0 => Numbers(Append(q, f), n, m)
         /\ Counts(f) /\ f.of = m => Numbers(Append(q, f), n, m + 1)
<1>1. PICK c \in [0 .. Len(q) -> Int] : Expects(c, q, n, m)
  BY DEF Numbers
<1> DEFINE r == Append(q, f)
           k == IF Counts(f) THEN m + 1 ELSE m
           d == [i \in 0 .. Len(r) |-> IF i = Len(r) THEN k ELSE c[i]]
<1> HIDE DEF Numbered
<1>2. /\ Len(r) = Len(q) + 1 /\ Len(q) \in Nat /\ r[Len(r)] = f
      /\ \A i \in 1 .. Len(q) : r[i] = q[i]
  OBVIOUS
<1>3. \A i \in 0 .. Len(q) : d[i] = c[i]
  BY <1>2
<1>4. d[Len(r)] = k /\ k \in Int /\ m <= k /\ d \in [0 .. Len(r) -> Int]
  BY <1>2
<1> HIDE DEF r, d, k
<1>5. ASSUME f.of = (IF Counts(f) THEN m ELSE 0)
      PROVE  Expects(d, r, n, k)
  <2>1. d[0] = n /\ d[Len(r)] = k
    BY <1>1, <1>2, <1>3, <1>4 DEF Expects
  <2>2. \A i \in 0 .. Len(r) : d[i] <= k
    <3> TAKE i \in 0 .. Len(r)
    <3>1. CASE i \in 0 .. Len(q)
      BY <1>1, <1>3, <1>4, <3>1 DEF Expects
    <3>2. CASE i = Len(r)
      BY <1>4, <3>2
    <3> QED
      BY <1>2, <3>1, <3>2
  <2>3. ASSUME NEW i \in 1 .. Len(r)
        PROVE  IF Counts(r[i]) THEN r[i].of = d[i - 1] /\ d[i] = d[i - 1] + 1
                               ELSE r[i].of = 0 /\ d[i] = d[i - 1]
    <3>1. CASE i \in 1 .. Len(q)
      <4>1. r[i] = q[i] /\ d[i] = c[i] /\ d[i - 1] = c[i - 1]
        BY <1>2, <1>3, <3>1
      <4> QED
        BY <1>1, <3>1, <4>1 DEF Expects
    <3>2. CASE i = Len(r)
      <4>1. r[i] = f /\ d[i] = k /\ d[i - 1] = m
        BY <1>1, <1>2, <1>3, <1>4, <3>2 DEF Expects
      <4> QED
        BY <1>5, <4>1 DEF k
    <3> QED
      BY <1>2, <3>1, <3>2
  <2> QED
    BY <2>1, <2>2, <2>3 DEF Expects
<1>6. f.of = (IF Counts(f) THEN m ELSE 0) => Numbers(r, n, k)
  BY <1>4, <1>5 DEF Numbers
<1> QED
  BY <1>6 DEF r, k

\* The frame in front of the others carries the first number, or none.
LEMMA NumbersTail ==
  ASSUME NEW q \in Seq(Numbered), q # <<>>, NEW n \in Int, NEW m \in Int, Numbers(q, n, m)
  PROVE  IF Counts(Head(q)) THEN Head(q).of = n /\ Numbers(Tail(q), n + 1, m)
                            ELSE Head(q).of = 0 /\ Numbers(Tail(q), n, m)
<1>1. PICK c \in [0 .. Len(q) -> Int] : Expects(c, q, n, m)
  BY DEF Numbers
<1> DEFINE r == Tail(q)
           k == IF Counts(Head(q)) THEN n + 1 ELSE n
           d == [i \in 0 .. Len(r) |-> c[i + 1]]
<1> HIDE DEF Numbered
<1>2. /\ Len(q) = Len(r) + 1 /\ Len(r) \in Nat /\ Head(q) = q[1]
      /\ \A i \in 1 .. Len(r) : r[i] = q[i + 1]
  OBVIOUS
<1>3. /\ d \in [0 .. Len(r) -> Int] /\ k \in Int
      /\ \A i \in 0 .. Len(r) : d[i] = c[i + 1] /\ i + 1 \in 0 .. Len(q)
  BY <1>2
<1> HIDE DEF r, d
<1>4. c[0] = n /\ c[1] = k /\ Head(q).of = (IF Counts(Head(q)) THEN n ELSE 0)
  <2>1. 1 \in 1 .. Len(q)
    BY <1>2
  <2>2. c[1] \in Int /\ c[0] \in Int
    BY <1>2
  <2> QED
    BY <1>1, <1>2, <2>1, <2>2 DEF Expects
<1> HIDE DEF k
<1>5. Expects(d, r, k, m)
  <2>1. d[0] = k /\ d[Len(r)] = m
    BY <1>1, <1>2, <1>3, <1>4 DEF Expects
  <2>2. \A i \in 0 .. Len(r) : d[i] <= m
    BY <1>1, <1>3 DEF Expects
  <2>3. ASSUME NEW i \in 1 .. Len(r)
        PROVE  IF Counts(r[i]) THEN r[i].of = d[i - 1] /\ d[i] = d[i - 1] + 1
                               ELSE r[i].of = 0 /\ d[i] = d[i - 1]
    <3>1. i + 1 \in 1 .. Len(q) /\ (i + 1) - 1 = i /\ (i - 1) + 1 = i
      BY <1>2
    <3>2. r[i] = q[i + 1] /\ d[i] = c[i + 1] /\ d[i - 1] = c[i]
      BY <1>2, <1>3, <3>1
    <3> QED
      BY <1>1, <3>1, <3>2 DEF Expects
  <2> QED
    BY <2>1, <2>2, <2>3 DEF Expects
<1>6. Numbers(r, k, m)
  BY <1>3, <1>5 DEF Numbers
<1> QED
  BY <1>4, <1>6 DEF r, k

\* The server still answers what it is sent.
Up(s) == ~s.bye /\ ~s.eof /\ ~s.rst

\* The messages on their way to the server are those of m .. e - 1.
Way(s, m, e) == \E p \in Int : Numbers(s.c2s, m, p) /\ Numbers(s.out, p, e)

\* While the server answers, they reach from m to an end within low .. high.
Onward(s, m, low, high) ==
  Up(s) => \E e \in Int : Way(s, m, e) /\ low <= e /\ e <= high

\* The answers under way are those to n, n + 1, ..., and the messages under way follow
\* on from there.  A server that has stopped answering leaves the answers alone.
Ordered(s, n, low, high) ==
  \E m \in Int :
    Numbers(s.s2c, n, m) /\ 1 <= m /\ m <= high /\ Onward(s, m, low, high)

\* A frame leaves the client, and a frame reaches it.
Flushes(s, t) ==
  /\ s.out # <<>> /\ t.c2s = Append(s.c2s, Head(s.out)) /\ t.out = Tail(s.out)
  /\ t.s2c = s.s2c /\ (Up(t) => Up(s))
Reads(s, t) ==
  /\ s.s2c # <<>> /\ t.s2c = Tail(s.s2c)
  /\ t.c2s = s.c2s /\ t.out = s.out /\ (Up(t) => Up(s))

\* The bounds of the end may be relaxed.
LEMMA OrderedWeaken ==
  ASSUME NEW s, NEW n, NEW low \in Int, NEW high \in Int, Ordered(s, n, low, high),
         NEW lower \in Int, lower <= low, NEW higher \in Int, high <= higher
  PROVE  Ordered(s, n, lower, higher)
BY DEF Ordered, Onward

\* When the server stops answering, the answers under way stay in order.
LEMMA OrderedCut ==
  ASSUME NEW s, NEW t, NEW n, NEW low, NEW high, Ordered(s, n, low, high),
         t.s2c = s.s2c, ~Up(t)
  PROVE  Ordered(t, n, low, high)
BY DEF Ordered, Onward

\* What does not touch the frames keeps their order.
LEMMA OrderedSame ==
  ASSUME NEW s, NEW t, NEW n, NEW low, NEW high, Ordered(s, n, low, high),
         t.s2c = s.s2c, t.c2s = s.c2s, t.out = s.out, Up(t) => Up(s)
  PROVE  Ordered(t, n, low, high)
BY DEF Ordered, Onward, Way

\* The message of the next round is buffered.
LEMMA OrderedNext ==
  ASSUME NEW s \in StreamType, NEW t, NEW f \in Numbered, Counts(f),
         NEW n \in Int, NEW high \in Int, f.of = high,
         Ordered(s, n, high, high), Up(t) => Up(s),
         t.s2c = s.s2c, t.c2s = s.c2s, t.out = Append(s.out, f)
  PROVE  Ordered(t, n, high + 1, high + 1)
<1>1. PICK m \in Int :
        Numbers(s.s2c, n, m) /\ 1 <= m /\ m <= high /\ Onward(s, m, high, high)
  BY DEF Ordered
<1>2. m <= high + 1 /\ high <= high + 1 /\ high + 1 \in Int /\ high + 1 <= high + 1
  BY <1>1
<1>3. ASSUME Up(s) PROVE Way(t, m, high + 1)
  <2>1. PICK e \in Int : Way(s, m, e) /\ high <= e /\ e <= high
    BY <1>1, <1>3 DEF Onward
  <2>2. PICK p \in Int : Numbers(s.c2s, m, p) /\ Numbers(s.out, p, high)
    BY <2>1 DEF Way
  <2>3. s.out \in Seq(Numbered)
    BY DEF StreamType
  <2>4. Numbers(t.out, p, high + 1)
    BY <2>2, <2>3, NumbersAppend
  <2> QED
    BY <2>2, <2>4 DEF Way
<1>4. Onward(t, m, high + 1, high + 1)
  BY <1>2, <1>3 DEF Onward
<1> QED
  BY <1>1, <1>2, <1>4 DEF Ordered

\* A frame without a number is buffered.
LEMMA OrderedAfter ==
  ASSUME NEW s \in StreamType, NEW t, NEW f \in Numbered, ~Counts(f), f.of = 0,
         NEW n \in Int, NEW low \in Int, NEW high \in Int,
         Ordered(s, n, low, high), Up(t) => Up(s),
         t.s2c = s.s2c, t.c2s = s.c2s, t.out = Append(s.out, f)
  PROVE  Ordered(t, n, low, high)
<1>1. PICK m \in Int :
        Numbers(s.s2c, n, m) /\ 1 <= m /\ m <= high /\ Onward(s, m, low, high)
  BY DEF Ordered
<1>2. ASSUME NEW e \in Int, Way(s, m, e) PROVE Way(t, m, e)
  <2>1. PICK p \in Int : Numbers(s.c2s, m, p) /\ Numbers(s.out, p, e)
    BY <1>2 DEF Way
  <2>2. s.out \in Seq(Numbered)
    BY DEF StreamType
  <2>3. Numbers(t.out, p, e)
    BY <2>1, <2>2, NumbersAppend
  <2> QED
    BY <2>1, <2>3 DEF Way
<1>3. Onward(t, m, low, high)
  BY <1>1, <1>2 DEF Onward
<1> QED
  BY <1>1, <1>3 DEF Ordered

\* The buffer is given up; the messages end earlier.
LEMMA OrderedDropped ==
  ASSUME NEW s \in StreamType, NEW t, NEW n \in Int, NEW low \in Int, NEW high \in Int,
         Ordered(s, n, low, high), Up(t) => Up(s),
         t.s2c = s.s2c, t.c2s = s.c2s, t.out = <<>>
  PROVE  Ordered(t, n, 1, high)
<1>1. PICK m \in Int :
        Numbers(s.s2c, n, m) /\ 1 <= m /\ m <= high /\ Onward(s, m, low, high)
  BY DEF Ordered
<1>2. Onward(t, m, 1, high)
  <2> SUFFICES ASSUME Up(t) PROVE \E e \in Int : Way(t, m, e) /\ 1 <= e /\ e <= high
    BY DEF Onward
  <2>1. PICK e \in Int : Way(s, m, e) /\ e <= high
    BY <1>1 DEF Onward
  <2>2. PICK p \in Int : Numbers(s.c2s, m, p) /\ Numbers(s.out, p, e)
    BY <2>1 DEF Way
  <2>3. s.out \in Seq(Numbered) /\ s.c2s \in Seq(Numbered)
    BY DEF StreamType
  <2>4. m <= p /\ p <= e /\ Numbers(<<>>, p, p)
    BY <2>2, <2>3, NumbersBounds, NumbersNone
  <2>5. Way(t, m, p) /\ 1 <= p /\ p <= high
    BY <1>1, <2>1, <2>2, <2>4 DEF Way
  <2> QED
    BY <2>5
<1> QED
  BY <1>1, <1>2 DEF Ordered

\* A frame leaves the client.
LEMMA OrderedFlush ==
  ASSUME NEW s \in StreamType, NEW t, NEW n \in Int, NEW low \in Int, NEW high \in Int,
         Ordered(s, n, low, high), Flushes(s, t)
  PROVE  Ordered(t, n, low, high)
<1> USE DEF Flushes
<1>1. PICK m \in Int :
        Numbers(s.s2c, n, m) /\ 1 <= m /\ m <= high /\ Onward(s, m, low, high)
  BY DEF Ordered
<1>2. ASSUME NEW e \in Int, Way(s, m, e) PROVE Way(t, m, e)
  <2>2. PICK p \in Int : Numbers(s.c2s, m, p) /\ Numbers(s.out, p, e)
    BY <1>2 DEF Way
  <2>3. s.out \in Seq(Numbered) /\ s.c2s \in Seq(Numbered)
    BY DEF StreamType
  <2>4. Head(s.out) \in Numbered
    BY <2>3, HeadTailProperties
  <2>5. CASE Counts(Head(s.out))
    <3>1. Head(s.out).of = p /\ Numbers(t.out, p + 1, e)
      BY <2>2, <2>3, <2>5, NumbersTail
    <3>2. Numbers(t.c2s, m, p + 1) /\ p + 1 \in Int
      BY <2>2, <2>3, <2>4, <2>5, <3>1, NumbersAppend
    <3> QED
      BY <3>1, <3>2 DEF Way
  <2>6. CASE ~Counts(Head(s.out))
    <3>1. Head(s.out).of = 0 /\ Numbers(t.out, p, e)
      BY <2>2, <2>3, <2>6, NumbersTail
    <3>2. Numbers(t.c2s, m, p)
      BY <2>2, <2>3, <2>4, <2>6, <3>1, NumbersAppend
    <3> QED
      BY <3>1, <3>2 DEF Way
  <2> QED
    BY <2>5, <2>6
<1>3. Onward(t, m, low, high)
  BY <1>1, <1>2 DEF Onward
<1> QED
  BY <1>1, <1>3 DEF Ordered

\* A frame is read: if it has a number, it is the first.
LEMMA OrderedRead ==
  ASSUME NEW s \in StreamType, NEW t, NEW n \in Int, NEW low \in Int, NEW high \in Int,
         Ordered(s, n, low, high), Reads(s, t)
  PROVE  IF Counts(Head(s.s2c))
         THEN Head(s.s2c).of = n /\ n < high /\ Ordered(t, n + 1, low, high)
         ELSE Head(s.s2c).of = 0 /\ Ordered(t, n, low, high)
<1> USE DEF Reads
<1>1. PICK m \in Int :
        Numbers(s.s2c, n, m) /\ 1 <= m /\ m <= high /\ Onward(s, m, low, high)
  BY DEF Ordered
<1>2. s.s2c \in Seq(Numbered) /\ t.s2c \in Seq(Numbered)
  <2>1. s.s2c \in Seq(Numbered)
    BY DEF StreamType
  <2> QED
    BY <2>1, HeadTailProperties
<1>3. Onward(t, m, low, high)
  BY <1>1 DEF Onward, Way
<1>4. CASE Counts(Head(s.s2c))
  <2>1. Head(s.s2c).of = n /\ Numbers(t.s2c, n + 1, m)
    BY <1>1, <1>2, <1>4, NumbersTail
  <2>2. n + 1 <= m
    <3> DEFINE k == n + 1
    <3>1. k \in Int /\ Numbers(t.s2c, k, m)
      BY <2>1
    <3> HIDE DEF k
    <3>2. k <= m
      BY <1>2, <3>1, NumbersBounds
    <3> QED
      BY <3>2 DEF k
  <2> QED
    BY <1>1, <1>3, <1>4, <2>1, <2>2 DEF Ordered
<1>5. CASE ~Counts(Head(s.s2c))
  <2>1. Head(s.s2c).of = 0 /\ Numbers(t.s2c, n, m)
    BY <1>1, <1>2, <1>5, NumbersTail
  <2> QED
    BY <1>1, <1>3, <1>5, <2>1 DEF Ordered
<1> QED
  BY <1>4, <1>5

\* The server says something of its own.
LEMMA OrderedUnasked ==
  ASSUME NEW s \in StreamType, NEW t, NEW f \in Numbered, f.kind # "binary", f.of = 0,
         NEW n \in Int, NEW low \in Int, NEW high \in Int,
         Ordered(s, n, low, high), Up(t) => Up(s) /\ t.c2s = s.c2s,
         t.s2c = Append(s.s2c, f), t.out = s.out
  PROVE  Ordered(t, n, low, high)
<1>1. PICK m \in Int :
        Numbers(s.s2c, n, m) /\ 1 <= m /\ m <= high /\ Onward(s, m, low, high)
  BY DEF Ordered
<1>2. s.s2c \in Seq(Numbered) /\ ~Counts(f)
  BY DEF StreamType, Counts
<1>3. Numbers(t.s2c, n, m)
  BY <1>1, <1>2, NumbersAppend
<1>4. Onward(t, m, low, high)
  BY <1>1 DEF Onward, Way
<1> QED
  BY <1>1, <1>3, <1>4 DEF Ordered

\* The server answers the first message under way.
LEMMA OrderedAnswered ==
  ASSUME NEW s \in StreamType, NEW t, NEW f \in Numbered,
         f.kind \in {"binary", "other"}, f.of = Head(s.c2s).of,
         s.c2s # <<>>, Head(s.c2s).kind = "binary", Up(s),
         NEW n \in Int, NEW low \in Int, NEW high \in Int,
         Ordered(s, n, low, high),
         t.s2c = Append(s.s2c, f), t.c2s = Tail(s.c2s), t.out = s.out
  PROVE  Ordered(t, n, low, high)
<1>1. PICK m \in Int :
        Numbers(s.s2c, n, m) /\ 1 <= m /\ m <= high /\ Onward(s, m, low, high)
  BY DEF Ordered
<1>2. PICK e \in Int : Way(s, m, e) /\ low <= e /\ e <= high
  BY <1>1 DEF Onward
<1>3. PICK p \in Int : Numbers(s.c2s, m, p) /\ Numbers(s.out, p, e)
  BY <1>2 DEF Way
<1>4. s.s2c \in Seq(Numbered) /\ s.c2s \in Seq(Numbered) /\ s.out \in Seq(Numbered)
  BY DEF StreamType
<1>5. Head(s.c2s) \in Numbered /\ t.c2s \in Seq(Numbered)
  BY <1>4, HeadTailProperties
<1>6. Counts(Head(s.c2s))
  BY DEF Counts
<1>7. Head(s.c2s).of = m /\ Numbers(t.c2s, m + 1, p)
  BY <1>3, <1>4, <1>6, NumbersTail
<1>8. Counts(f) /\ f.of = m
  BY <1>1, <1>7 DEF Counts
<1>9. Numbers(t.s2c, n, m + 1)
  BY <1>1, <1>4, <1>8, NumbersAppend
<1>10. m + 1 <= p /\ p <= e
  <2> DEFINE k == m + 1
  <2>1. k \in Int /\ Numbers(t.c2s, k, p)
    BY <1>7
  <2> HIDE DEF k
  <2>2. k <= p /\ p <= e
    BY <1>3, <1>4, <1>5, <2>1, NumbersBounds
  <2> QED
    BY <2>2 DEF k
<1>11. Way(t, m + 1, e)
  BY <1>3, <1>7 DEF Way
<1>12. Onward(t, m + 1, low, high)
  BY <1>2, <1>11 DEF Onward
<1> QED
  BY <1>1, <1>2, <1>9, <1>10, <1>12 DEF Ordered

\* The server passes over a Close.
LEMMA OrderedIgnored ==
  ASSUME NEW s \in StreamType, NEW t, s.c2s # <<>>, Head(s.c2s).kind = "close",
         NEW n \in Int, NEW low \in Int, NEW high \in Int,
         Ordered(s, n, low, high), Up(t) => Up(s),
         t.s2c = s.s2c, t.c2s = Tail(s.c2s), t.out = s.out
  PROVE  Ordered(t, n, low, high)
<1>1. s.c2s \in Seq(Numbered) /\ ~Counts(Head(s.c2s))
  BY DEF StreamType, Counts
<1>2. ASSUME NEW m \in Int, NEW e \in Int, Way(s, m, e)
      PROVE  Way(t, m, e)
  <2>1. PICK p \in Int : Numbers(s.c2s, m, p) /\ Numbers(s.out, p, e)
    BY <1>2 DEF Way
  <2>2. Numbers(t.c2s, m, p)
    BY <1>1, <2>1, NumbersTail
  <2> QED
    BY <2>1, <2>2 DEF Way
<1> QED
  BY <1>2 DEF Ordered, Onward

-----------------------------------------------------------------------------
(***************************************************************************)
(* What the steps of WsWorker do to the order.                             *)
(***************************************************************************)

\* What an echo server does to the stream: it answers a message, drops a Close, says
\* something that is no answer, or stops answering.
Answers(s, t, f) ==
  /\ Up(s) /\ s.c2s # <<>> /\ Head(s.c2s).kind = "binary"
  /\ f.kind \in {"binary", "other"} /\ f.of = Head(s.c2s).of
  /\ t.s2c = Append(s.s2c, f) /\ t.c2s = Tail(s.c2s)
Drops(s, t) ==
  /\ s.c2s # <<>> /\ Head(s.c2s).kind = "close"
  /\ Up(t) => Up(s)
  /\ t.s2c = s.s2c /\ t.c2s = Tail(s.c2s)
Says(s, t, f) ==
  /\ f.kind # "binary" /\ f.of = 0
  /\ t.s2c = Append(s.s2c, f)
  /\ Up(t) => Up(s) /\ t.c2s = s.c2s
Stops(s, t) == t.s2c = s.s2c /\ ~Up(t)

Serves(s, t) ==
  /\ t.state = s.state /\ t.ended = s.ended /\ t.out = s.out /\ (s.rst => t.rst)
  /\ Stops(s, t) \/ Drops(s, t) \/ \E f \in Numbered : Answers(s, t, f) \/ Says(s, t, f)

\* The steps of an echo server are of these kinds.
LEMMA ServerServes ==
  ASSUME net \in StreamType, EchoServer, ServerStep
  PROVE  Serves(net, net')
<1> USE DEF StreamType, Up
<1>0. \A kind \in {"other", "invalid", "close"} :
        /\ Carries(kind, 0) \in Numbered
        /\ Carries(kind, 0).kind # "binary" /\ Carries(kind, 0).of = 0
  BY BoundsAssumption DEF Numbered, Carries
<1>1. CASE ServerAnswers
  <2>1. PICK kind \in {"binary"} \cup (IF server.mixed THEN {"other"} ELSE {}) :
          net' = [net EXCEPT !.c2s = Tail(@),
                             !.s2c = Append(@, Carries(kind, Head(net.c2s).of))]
    BY <1>1 DEF ServerAnswers
  <2> DEFINE f == Carries(kind, Head(net.c2s).of)
  <2>2. f \in Numbered /\ f.kind \in {"binary", "other"} /\ f.of = Head(net.c2s).of
    <3>1. Head(net.c2s) \in Numbered
      BY <1>1, HeadAndTail DEF ServerAnswers, Takes
    <3> QED
      BY <3>1 DEF Carries, Numbered
  <2> HIDE DEF f
  <2>3. net' = [net EXCEPT !.c2s = Tail(@), !.s2c = Append(@, f)]
    BY <2>1 DEF f
  <2>4. Answers(net, net', f)
    BY <1>1, <2>2, <2>3 DEF Answers, ServerAnswers, Takes, ServerUp
  <2> QED
    BY <2>2, <2>3, <2>4 DEF Serves
<1>2. CASE ServerIgnores
  <2>1. net' = [net EXCEPT !.c2s = Tail(@)]
    BY <1>2 DEF ServerIgnores
  <2>2. Stops(net, net') \/ Drops(net, net')
    BY <1>2, <2>1 DEF ServerIgnores, EchoServer, Takes, Stops, Drops
  <2> QED
    BY <2>1, <2>2 DEF Serves
<1>3. CASE ServerCloses
  <2> DEFINE f == Carries("close", 0)
  <2>1. f \in Numbered /\ f.kind # "binary" /\ f.of = 0
    BY <1>0
  <2> HIDE DEF f
  <2>2. net' = [net EXCEPT !.c2s = Tail(@), !.eof = TRUE,
                           !.s2c = IF net.bye THEN @ ELSE Append(@, f)]
    BY <1>3 DEF ServerCloses, f
  <2>3. Stops(net, net') \/ Says(net, net', f)
    BY <2>1, <2>2 DEF Stops, Says
  <2> QED
    BY <2>1, <2>2, <2>3 DEF Serves
<1>4. ASSUME NEW kind \in {"other", "invalid", "close"}, ServerSays(kind)
      PROVE  Serves(net, net')
  <2> DEFINE f == Carries(kind, 0)
  <2>1. f \in Numbered /\ f.kind # "binary" /\ f.of = 0
    BY <1>0
  <2> HIDE DEF f
  <2>2. net' = [net EXCEPT !.s2c = Append(@, f), !.extra = @ + 1, !.bye = (kind = "close")]
    BY <1>4 DEF ServerSays, f
  <2>3. ~net.bye
    BY <1>4 DEF ServerSays
  <2>4. Says(net, net', f)
    BY <2>1, <2>2, <2>3 DEF Says
  <2> QED
    BY <2>1, <2>2, <2>4 DEF Serves
<1>5. CASE ServerPings \/ ServerChats
  BY <1>4, <1>5 DEF ServerPings, ServerChats, EchoServer
<1>6. CASE ServerFails
  <2>1. CASE ServerSays("invalid") \/ ServerSays("close")
    BY <1>4, <2>1
  <2>2. CASE net' = [net EXCEPT !.eof = TRUE]
    BY <2>2 DEF Serves, Stops
  <2>3. CASE net' = [net EXCEPT !.rst = TRUE, !.c2s = <<>>]
    BY <2>3 DEF Serves, Stops
  <2> QED
    BY <1>6, <2>1, <2>2, <2>3 DEF ServerFails
<1>7. CASE ServerHangsUp
  BY <1>7 DEF ServerHangsUp, Serves, Stops
<1>8. CASE ServerRefuses
  BY <1>8 DEF ServerRefuses, Serves, Stops
<1> QED
  BY <1>1, <1>2, <1>3, <1>5, <1>6, <1>7, <1>8 DEF ServerStep, ServerReads

\* An echo server keeps the order.
LEMMA ServerOrders ==
  ASSUME net \in StreamType, EchoServer, ServerStep,
         NEW n \in Int, NEW low \in Int, NEW high \in Int, Ordered(net, n, low, high)
  PROVE  Ordered(net', n, low, high)
<1>0. Serves(net, net')
  BY ServerServes
<1>1. CASE Stops(net, net')
  BY <1>1, OrderedCut DEF Stops
<1>2. CASE Drops(net, net')
  BY <1>0, <1>2, OrderedIgnored DEF Serves, Drops
<1>3. ASSUME NEW f \in Numbered, Answers(net, net', f)
      PROVE  Ordered(net', n, low, high)
  BY <1>0, <1>3, OrderedAnswered DEF Serves, Answers
<1>4. ASSUME NEW f \in Numbered, Says(net, net', f)
      PROVE  Ordered(net', n, low, high)
  <2>1. /\ f.kind # "binary" /\ f.of = 0 /\ (Up(net') => Up(net) /\ net'.c2s = net.c2s)
        /\ net'.s2c = Append(net.s2c, f) /\ net'.out = net.out
    BY <1>0, <1>4 DEF Serves, Says
  <2> QED
    BY <2>1, OrderedUnasked
<1> QED
  BY <1>0, <1>1, <1>2, <1>3, <1>4 DEF Serves

\* So do the ends of sends and receives that read no frame.
LEMMA StreamOrders ==
  ASSUME net \in StreamType,
         NEW n \in Int, NEW low \in Int, NEW high \in Int, Ordered(net, n, low, high)
  PROVE  Flush \/ Flushed \/ FlushFails \/ YieldsNone \/ YieldsError =>
           Ordered(net', n, low, high)
<1> SUFFICES ASSUME Flush \/ Flushed \/ FlushFails \/ YieldsNone \/ YieldsError
             PROVE  Ordered(net', n, low, high)
  OBVIOUS
<1>1. CASE Flush
  <2>1. Flushes(net, net')
    BY <1>1 DEF Flush, StreamType, Up, Flushes
  <2> QED
    BY <2>1, OrderedFlush
<1>2. CASE Flushed
  BY <1>2 DEF Flushed
<1>3. CASE FlushFails
  <2>1. net'.s2c = net.s2c /\ ~Up(net')
    BY <1>3 DEF FlushFails, StreamType, Up
  <2> QED
    BY <2>1, OrderedCut
<1>4. CASE YieldsNone
  <2>1. /\ net'.s2c = net.s2c /\ net'.c2s = net.c2s /\ net'.out = net.out
        /\ Up(net') => Up(net)
    BY <1>4 DEF YieldsNone, StreamType, Up
  <2> QED
    BY <2>1, OrderedSame
<1>5. CASE YieldsError
  <2>1. CASE /\ net.s2c # <<>> /\ Head(net.s2c).kind = "invalid"
             /\ net' = [net EXCEPT !.s2c = Tail(@), !.ended = TRUE]
    <3>1. Reads(net, net')
      BY <2>1 DEF StreamType, Up, Reads
    <3>2. net.s2c # <<>> /\ ~Counts(Head(net.s2c))
      BY <2>1 DEF Counts
    <3> QED
      BY <3>1, <3>2, OrderedRead
  <2>2. CASE net' = [net EXCEPT !.ended = TRUE,
                                !.state = IF net.eof THEN "terminated" ELSE @]
    <3>1. /\ net'.s2c = net.s2c /\ net'.c2s = net.c2s /\ net'.out = net.out
          /\ Up(net') => Up(net)
      BY <2>2 DEF StreamType, Up
    <3> QED
      BY <3>1, OrderedSame
  <2> QED
    BY <1>5, <2>1, <2>2 DEF YieldsError
<1> QED
  BY <1>1, <1>2, <1>3, <1>4, <1>5

\* A frame that is read and has a number carries the one that is next.
LEMMA ReadOrders ==
  ASSUME net \in StreamType, NEW kinds, Yields(kinds),
         NEW n \in Int, NEW low \in Int, NEW high \in Int, Ordered(net, n, low, high)
  PROVE  IF Counts(Head(net.s2c))
         THEN Head(net.s2c).of = n /\ n < high /\ Ordered(net', n + 1, low, high)
         ELSE Head(net.s2c).of = 0 /\ Ordered(net', n, low, high)
<1>1. Reads(net, net')
  BY DEF Yields, StreamType, Up, Reads
<1> QED
  BY <1>1, OrderedRead

\* A round adds its message, and so its number, at the end.
LEMMA BeginOrders ==
  ASSUME net \in StreamType, rounds \in Nat, BeginSend,
         NEW n \in Int, Ordered(net, n, rounds + 1, rounds + 1)
  PROVE  Ordered(net', n, rounds' + 1, rounds' + 1)
<1> DEFINE f == Carries("binary", rounds + 1)
           k == rounds + 1
<1>1. /\ f \in Numbered /\ Counts(f) /\ f.of = k
      /\ rounds' = k /\ k \in Int /\ Ordered(net, n, k, k)
  BY BoundsAssumption DEF BeginSend, CanStart, Carries, Numbered, Counts
<1>2. net' = [net EXCEPT !.out = Append(@, f)]
  BY DEF BeginSend, Buffer, Carries, StreamType
<1> HIDE DEF f, k
<1>3. /\ net'.s2c = net.s2c /\ net'.c2s = net.c2s /\ net'.out = Append(net.out, f)
      /\ Up(net') => Up(net)
  BY <1>2 DEF StreamType, Up
<1>4. Ordered(net', n, k + 1, k + 1)
  BY <1>1, <1>3, OrderedNext
<1> QED
  BY <1>1, <1>4

\* A Close goes out behind the messages, or the buffer is given up.
LEMMA CloseOrders ==
  ASSUME net \in StreamType, SendClose,
         NEW n \in Int, NEW low \in Int, NEW high \in Int, 1 <= low,
         Ordered(net, n, low, high)
  PROVE  Ordered(net', n, IF net.state = "active" THEN low ELSE 1, high)
<1>1. CASE Buffer(Carries("close", 0))
  <2> DEFINE f == Carries("close", 0)
  <2>1. f \in Numbered /\ ~Counts(f) /\ f.of = 0
    BY BoundsAssumption DEF Numbered, Carries, Counts
  <2>2. net.state = "active" /\ net' = [net EXCEPT !.out = Append(@, f), !.state = "by_us"]
    BY <1>1 DEF Buffer, Carries
  <2> HIDE DEF f
  <2>3. /\ net'.s2c = net.s2c /\ net'.c2s = net.c2s /\ net'.out = Append(net.out, f)
        /\ Up(net') => Up(net)
    BY <2>2 DEF StreamType, Up
  <2>4. Ordered(net', n, low, high)
    BY <2>1, <2>3, OrderedAfter
  <2> QED
    BY <2>2, <2>4
<1>2. CASE net.state # "active" /\ net' = [net EXCEPT !.out = <<>>]
  <2>1. /\ net'.s2c = net.s2c /\ net'.c2s = net.c2s /\ net'.out = <<>>
        /\ Up(net') => Up(net)
    BY <1>2 DEF StreamType, Up
  <2>2. Ordered(net', n, 1, high)
    BY <2>1, OrderedDropped
  <2> QED
    BY <1>2, <2>2
<1>3. CASE net.state # "active" /\ UNCHANGED net
  <2>1. Ordered(net, n, 1, high)
    BY OrderedWeaken
  <2> QED
    BY <1>3, <2>1
<1> QED
  BY <1>1, <1>2, <1>3 DEF SendClose

-----------------------------------------------------------------------------
(***************************************************************************)
(* The first exchange.                                                     *)
(***************************************************************************)

\* The stream before anything has been sent.
Fresh(s) ==
  /\ s.state = "active" /\ ~s.ended /\ Up(s)
  /\ s.out = <<>> /\ s.c2s = <<>> /\ s.s2c = <<>>

\* The stream while the first message is exchanged: the exchange is bound to fail, or
\* the message is still on its way, or it is answered with what is the first number.
First(s) ==
  \/ s.s2c # <<>> /\ Head(s.s2c).kind # "binary"
  \/ /\ s.s2c = <<>>
     /\ Up(s) => \/ s.c2s = <<Carries("binary", 0)>> /\ s.out = <<>>
                 \/ s.c2s = <<>> /\ s.out = <<Carries("binary", 0)>>
  \/ Ordered(s, 0, 1, 1)

\* The stream up to the main loop.
Before ==
  /\ pc \in {"start", "connect"} => Fresh(net)
  /\ pc \in {"first_send", "first_read"} =>
       net.state = "active" /\ ~net.ended /\ First(net)
  /\ pc = "first_request" =>
       net.state = "active" /\ ~net.ended /\ Ordered(net, 1, 1, 1)

\* Nothing under way is in order, from round 1 on.
LEMMA FreshOrdered ==
  ASSUME NEW s, Fresh(s)
  PROVE  Ordered(s, 1, 1, 1)
<1>1. Numbers(<<>>, 1, 1)
  BY NumbersNone
<1>2. Way(s, 1, 1)
  BY <1>1 DEF Way, Fresh
<1> QED
  BY <1>1, <1>2 DEF Ordered, Onward, Fresh

\* The server leaves the first exchange in one of these cases.
LEMMA ServerFirst ==
  ASSUME net \in StreamType, EchoServer, ServerStep, First(net)
  PROVE  First(net')
<1>0. Serves(net, net') /\ net.s2c \in Seq(Numbered)
  BY ServerServes DEF StreamType
<1>1. CASE net.s2c # <<>> /\ Head(net.s2c).kind # "binary"
  <2>1. net'.s2c = net.s2c \/ \E f \in Numbered : net'.s2c = Append(net.s2c, f)
    BY <1>0 DEF Serves, Stops, Drops, Answers, Says
  <2>2. net'.s2c # <<>> /\ Head(net'.s2c) = Head(net.s2c)
    BY <1>0, <1>1, <2>1
  <2> QED
    BY <1>1, <2>2 DEF First
<1>2. CASE Ordered(net, 0, 1, 1)
  BY <1>2, ServerOrders DEF First
<1> DEFINE b == Carries("binary", 0)
<1>3. CASE /\ net.s2c = <<>>
           /\ Up(net) => \/ net.c2s = <<b>> /\ net.out = <<>>
                         \/ net.c2s = <<>> /\ net.out = <<b>>
  <2>0. b \in Numbered /\ b.of = 0 /\ b.kind = "binary"
    BY BoundsAssumption DEF Carries, Numbered
  <2>1. CASE Stops(net, net')
    BY <1>3, <2>1 DEF Stops, First
  <2>2. CASE Drops(net, net')
    <3>1. CASE Up(net')
      <4>1. net.c2s = <<b>>
        BY <1>3, <2>2, <3>1 DEF Drops
      <4> QED
        BY <2>0, <2>2, <4>1 DEF Drops
    <3>2. CASE ~Up(net')
      BY <1>3, <2>2, <3>2 DEF Drops, First
    <3> QED
      BY <3>1, <3>2
  <2>3. ASSUME NEW f \in Numbered, Says(net, net', f)
        PROVE  First(net')
    <3>1. net'.s2c # <<>> /\ Head(net'.s2c) = f /\ f.kind # "binary"
      BY <1>3, <2>3 DEF Says
    <3> QED
      BY <3>1 DEF First
  <2>4. ASSUME NEW f \in Numbered, Answers(net, net', f)
        PROVE  First(net')
    <3>1. net.c2s = <<b>> /\ net.out = <<>> /\ net'.out = <<>> /\ f.of = 0
      BY <1>0, <1>3, <2>0, <2>4 DEF Answers, Serves
    <3>2. net'.s2c = <<f>> /\ net'.c2s = <<>>
      BY <1>3, <2>4, <3>1 DEF Answers
    <3>3. CASE f.kind # "binary"
      BY <3>2, <3>3 DEF First
    <3>4. CASE f.kind = "binary"
      <4>1. /\ Numbers(<<>>, 0, 0) /\ Numbers(<<>>, 1, 1) /\ <<>> \in Seq(Numbered)
            /\ Counts(f) /\ Append(<<>>, f) = <<f>>
        BY <3>4, NumbersNone DEF Counts
      <4>2. Numbers(<<f>>, 0, 1)
        <5> DEFINE q == <<>>
        <5>1. q \in Seq(Numbered) /\ Numbers(q, 0, 0) /\ f.of = 0
          BY <3>1, <4>1
        <5> HIDE DEF q
        <5>2. Numbers(Append(q, f), 0, 0 + 1)
          BY <4>1, <5>1, NumbersAppend
        <5> QED
          BY <4>1, <5>2 DEF q
      <4>3. Way(net', 1, 1)
        BY <3>1, <3>2, <4>1 DEF Way
      <4>4. Ordered(net', 0, 1, 1)
        BY <3>2, <4>2, <4>3 DEF Ordered, Onward
      <4> QED
        BY <4>4 DEF First
    <3> QED
      BY <3>3, <3>4
  <2> QED
    BY <1>0, <2>1, <2>2, <2>3, <2>4 DEF Serves
<1> QED
  BY <1>1, <1>2, <1>3 DEF First

\* So does the frame leaving the client.
LEMMA FlushFirst ==
  ASSUME net \in StreamType, Flush, First(net)
  PROVE  First(net')
<1>0. Flushes(net, net')
  BY DEF Flush, StreamType, Up, Flushes
<1>1. CASE net.s2c # <<>> /\ Head(net.s2c).kind # "binary"
  BY <1>0, <1>1 DEF First, Flushes
<1>2. CASE Ordered(net, 0, 1, 1)
  BY <1>0, <1>2, OrderedFlush DEF First
<1> DEFINE b == Carries("binary", 0)
<1>3. CASE /\ net.s2c = <<>>
           /\ Up(net) => \/ net.c2s = <<b>> /\ net.out = <<>>
                         \/ net.c2s = <<>> /\ net.out = <<b>>
  <2>1. ASSUME Up(net') PROVE net'.c2s = <<b>> /\ net'.out = <<>>
    <3> HIDE DEF b
    <3>1. net.c2s = <<>> /\ net.out = <<b>>
      BY <1>0, <1>3, <2>1 DEF Flushes
    <3>2. Append(<<>>, Head(<<b>>)) = <<b>> /\ Tail(<<b>>) = <<>>
      OBVIOUS
    <3> QED
      BY <1>0, <3>1, <3>2 DEF Flushes
  <2> QED
    BY <1>0, <1>3, <2>1 DEF First, Flushes
<1> QED
  BY <1>1, <1>2, <1>3 DEF First

\* The way to the main loop ends with the stream in order.
LEMMA SetUpBefore ==
  ASSUME net \in StreamType, EchoServer, Before, SetUp
  PROVE  /\ Before'
         /\ pc' \in MainLoop => Ordered(net', 1, 1, 1) /\ net'.state = "active" /\ ~net'.ended
<1> USE DEF Goes
<1>1. CASE Begin \/ ConnectFails
  BY <1>1 DEF Begin, ConnectFails, GiveUp, Before, MainLoop
<1>2. CASE Connect
  <2>1. pc = "connect" /\ Fresh(net)
    BY <1>2 DEF Connect, Before
  <2>2. CASE config.first_message
    <3> DEFINE b == Carries("binary", 0)
    <3>0. b.kind = "binary"
      BY DEF Carries
    <3> HIDE DEF b
    <3>1. /\ pc' = "first_send" /\ net'.s2c = <<>> /\ net'.c2s = <<>> /\ net'.out = <<b>>
          /\ net'.state = "active" /\ ~net'.ended
      <4>1. pc' = "first_send" /\ net' = [net EXCEPT !.out = Append(@, b), !.state = @]
        BY <1>2, <2>2, <3>0 DEF Connect, Buffer, b
      <4>2. Append(<<>>, b) = <<b>>
        OBVIOUS
      <4> QED
        BY <2>1, <4>1, <4>2 DEF Fresh, StreamType
    <3> USE DEF b
    <3> QED
      BY <3>1 DEF Before, First, MainLoop
  <2>3. CASE ~config.first_message
    <3>1. pc' \in {"idle", "loop"} /\ net' = net
      BY <1>2, <2>3 DEF Connect, MainStop
    <3> QED
      BY <2>1, <3>1, FreshOrdered DEF Before, Fresh
  <2> QED
    BY <2>2, <2>3
<1>3. CASE FirstSent
  BY <1>3 DEF FirstSent, Flushed, Before, MainLoop
<1>4. CASE FirstSendFails \/ FirstAnswerUnusable
  BY <1>4 DEF FirstSendFails, FirstAnswerUnusable, GiveUp, Before, MainLoop
<1>5. CASE FirstAnswer
  <2>1. /\ pc = "first_read" /\ pc' = "first_request" /\ Yields({"binary"})
        /\ net.s2c # <<>> /\ Head(net.s2c).kind = "binary"
    BY <1>5 DEF FirstAnswer, Yields
  <2>2. Ordered(net, 0, 1, 1) /\ net.state = "active" /\ ~net.ended
    BY <2>1 DEF Before, First
  <2>3. Ordered(net', 0 + 1, 1, 1)
    BY <2>1, <2>2, ReadOrders DEF Counts
  <2>4. net'.state = "active" /\ ~net'.ended
    BY <2>1, <2>2 DEF Yields, StreamType
  <2> QED
    BY <2>1, <2>3, <2>4 DEF Before, MainLoop
<1>6. CASE FirstRequest
  <2>1. pc = "first_request" /\ pc' \in {"idle", "loop"} /\ net' = net
    BY <1>6 DEF FirstRequest, MainStop
  <2> QED
    BY <2>1 DEF Before
<1> QED
  BY <1>1, <1>2, <1>3, <1>4, <1>5, <1>6 DEF SetUp

-----------------------------------------------------------------------------
(***************************************************************************)
(* The shared steps of the worker keep the types.                          *)
(***************************************************************************)
\* The way to the main loop.
LEMMA SetUpKeeps ==
  ASSUME WsShape, SetUp, UNCHANGED <<frozen, expired>>
  PROVE  WsShape'
<1> SUFFICES WsTypeOK' /\ net' \in StreamType
  BY DEF WsShape
<1> USE DEF WsTypeOK, BenchTypeOK, Phases, Places, BeforeLoop, MainLoop, Goes, frozen, benchVars
<1>0. net \in StreamType
  BY DEF WsShape
<1>1. Carries("binary", 0) \in Numbered
  BY BoundsAssumption DEF Carries, Numbered
<1>2. net' \in StreamType
  <2>1. CASE Begin \/ ConnectFails
    BY <1>0, <2>1 DEF Begin, ConnectFails
  <2>2. CASE Connect
    BY <1>0, <1>1, <2>2, BufferKeeps DEF Connect
  <2>3. CASE FirstSent \/ FirstSendFails
    BY <1>0, <2>3, FlushedKeeps DEF FirstSent, FirstSendFails
  <2>4. CASE FirstAnswer
    BY <1>0, <2>4, YieldsKeeps DEF FirstAnswer
  <2>5. CASE FirstAnswerUnusable
    BY <1>0, <2>5, YieldsKeeps, YieldsErrorKeeps DEF FirstAnswerUnusable
  <2>6. CASE FirstRequest
    BY <1>0, <2>6 DEF FirstRequest
  <2> QED
    BY <2>1, <2>2, <2>3, <2>4, <2>5, <2>6 DEF SetUp
<1>3. net' \in NetType
  BY <1>2, StreamIsNet
<1> USE DEF WsShape
<1>4. BenchTypeOK' /\ pc' \in Places /\ UNCHANGED rounds
  <2>1. CASE Begin
    BY <2>1 DEF Begin, CountConnection
  <2>2. CASE Connect \/ FirstSent
    BY <2>2 DEF Connect, FirstSent, MainStop
  <2>3. CASE ConnectFails \/ FirstSendFails \/ FirstAnswerUnusable
    BY <2>3 DEF ConnectFails, FirstSendFails, FirstAnswerUnusable, GiveUp, CountError,
       record_connection_error
  <2>4. CASE FirstAnswer
    BY <2>4 DEF FirstAnswer, CountLatency, record_latency
  <2>5. CASE FirstRequest
    BY <2>5 DEF FirstRequest, CountRequest, record_request, MainStop
  <2> QED
    BY <2>1, <2>2, <2>3, <2>4, <2>5 DEF SetUp
<1> QED
  BY <1>2, <1>3, <1>4

\* The edges of the main loop.
Edge ==
  BeginSend \/ SendRefused \/ SendFails \/ Flush \/ Pace \/ Leave

\* The steps at its edges.
LEMMA EdgeKeeps ==
  ASSUME WsShape, Edge, UNCHANGED <<frozen, expired>>
  PROVE  WsShape'
<1> SUFFICES WsTypeOK' /\ net' \in StreamType
  BY DEF WsShape
<1> USE DEF WsTypeOK, BenchTypeOK, Phases, Places, BeforeLoop, MainLoop, Goes, frozen,
            benchVars, WsShape
<1>1. net' \in StreamType
  <2>1. CASE BeginSend
    <3>1. Carries("binary", rounds + 1) \in Numbered
      BY <2>1, BoundsAssumption DEF BeginSend, CanStart, Carries, Numbered
    <3> QED
      BY <2>1, <3>1, BufferKeeps DEF BeginSend
  <2>2. CASE SendRefused \/ Pace
    BY <2>2 DEF SendRefused, Pace
  <2>3. CASE SendFails
    BY <2>3, FlushedKeeps DEF SendFails
  <2>4. CASE Flush
    BY <2>4, FlushKeeps
  <2>5. CASE LifetimeEnds \/ ShutdownEnds
    BY <2>5 DEF LifetimeEnds, ShutdownEnds
  <2>6. CASE SendClose
    <3>1. Carries("close", 0) \in Numbered /\ <<>> \in Seq(Numbered)
      BY BoundsAssumption DEF Carries, Numbered
    <3> QED
      BY <2>6, <3>1, BufferKeeps DEF SendClose, StreamType
  <2> QED
    BY <2>1, <2>2, <2>3, <2>4, <2>5, <2>6 DEF Edge, Leave
<1>2. net' \in NetType
  BY <1>1, StreamIsNet
<1>3. BenchTypeOK' /\ pc' \in Places /\ rounds' \in 0 .. MaxRounds
  <2>1. CASE BeginSend \/ SendRefused
    BY <2>1, BoundsAssumption DEF BeginSend, SendRefused, CanStart, CountError,
       record_connection_error
  <2>2. CASE SendFails
    BY <2>2 DEF SendFails, CountError, record_connection_error
  <2>3. CASE Flush \/ Pace \/ Leave
    BY <2>3 DEF Flush, Pace, Leave, LifetimeEnds, ShutdownEnds, SendClose
  <2> QED
    BY <2>1, <2>2, <2>3 DEF Edge
<1> QED
  BY <1>1, <1>2, <1>3

\* So do the benchmark and the clock.
LEMMA MainKeeps ==
  ASSUME WsShape, MainStep, UNCHANGED <<frozen, pc, expired, rounds, net>>
  PROVE  WsShape'
BY DEF WsShape, WsTypeOK, BenchTypeOK, Phases, frozen, MainStep, end_warmup,
       set_shutting_down, NotifyShutdown

\* The initial state has the right types.
LEMMA WsShapeInit == WsInit => WsShape
<1> SUFFICES ASSUME WsInit PROVE WsShape
  OBVIOUS
<1>1. <<>> \in Seq(Numbered)
  OBVIOUS
<1>2. net \in StreamType
  BY <1>1 DEF WsInit, StreamType
<1>3. net \in NetType
  BY <1>2, StreamIsNet
<1>4. rounds \in 0 .. MaxRounds
  BY BoundsAssumption DEF WsInit
<1> QED
  BY <1>2, <1>3, <1>4 DEF WsInit, BenchInit, WsShape, WsTypeOK, BenchTypeOK, Phases, Places,
     BeforeLoop

-----------------------------------------------------------------------------
(***************************************************************************)
(* Connection.                                                             *)
(***************************************************************************)
Counters == <<total_connections, success_connections, connection_errors, total_requests>>

\* A step that stays on one side of the beginning and the end, and touches no counter
\* but the histogram, is none of Connection's business.
LEMMA Stutter ==
  ASSUME UNCHANGED Counters, ConnOf' = ConnOf
  PROVE  UNCHANGED Conn!connVars
BY DEF Counters, Conn!connVars

\* An error within the life of the connection.
LEMMA ErrorRefines ==
  ASSUME CountError, ConnOf = "open", ConnOf' = "open"
  PROVE  Conn!Next
<1>1. Conn!Fault("c")
  BY DEF CountError, record_connection_error, Conn!Fault
<1> QED
  BY <1>1 DEF Conn!Next, Conn!ConnStep

\* An error that ends it.
LEMMA GiveUpRefines ==
  ASSUME CountError, ConnOf = "open", ConnOf' = "failed"
  PROVE  Conn!Next
<1>1. Conn!GiveUp("c")
  BY DEF CountError, record_connection_error, Conn!GiveUp
<1> QED
  BY <1>1 DEF Conn!Next, Conn!ConnStep

\* Its successful end.
LEMMA SuccessRefines ==
  ASSUME CountSuccess, ConnOf = "open", ConnOf' = "closed"
  PROVE  Conn!Next
<1>1. Conn!Finish("c")
  BY DEF CountSuccess, Conn!Finish
<1> QED
  BY <1>1 DEF Conn!Next, Conn!ConnStep

\* An answer, which counts only after the warm-up.
LEMMA RequestRefines ==
  ASSUME record_request, ConnOf = "open", ConnOf' = "open",
         UNCHANGED <<total_connections, success_connections, connection_errors>>
  PROVE  Conn!Next \/ UNCHANGED Conn!connVars
<1>1. CASE total_requests' = total_requests
  BY <1>1, Stutter DEF Counters
<1>2. CASE total_requests' = total_requests + 1
  <2>1. Conn!Answer("c")
    BY <1>2 DEF Conn!Answer
  <2> QED
    BY <2>1 DEF Conn!Next, Conn!ConnStep
<1> QED
  BY <1>1, <1>2 DEF record_request

\* The way to the main loop begins the connection, and may give it up.
LEMMA SetUpRefines ==
  ASSUME SetUp
  PROVE  Conn!Next \/ UNCHANGED Conn!connVars
<1> USE DEF Goes, ConnOf, WorkerEnded
<1>1. CASE Begin
  <2>1. Conn!Begin("c")
    BY <1>1 DEF Begin, CountConnection, Conn!Begin
  <2> QED
    BY <2>1 DEF Conn!Next, Conn!ConnStep
<1>2. CASE Connect \/ FirstSent
  BY <1>2, Stutter DEF Connect, FirstSent, MainStop, Counters, benchVars
<1>3. CASE ConnectFails \/ FirstSendFails \/ FirstAnswerUnusable
  BY <1>3, GiveUpRefines DEF ConnectFails, FirstSendFails, FirstAnswerUnusable, GiveUp
<1>4. CASE FirstAnswer
  BY <1>4, Stutter DEF FirstAnswer, CountLatency, Counters
<1>5. CASE FirstRequest
  BY <1>5, RequestRefines DEF FirstRequest, CountRequest, MainStop
<1> QED
  BY <1>1, <1>2, <1>3, <1>4, <1>5 DEF SetUp

\* In the main loop a connection stays open.
LEMMA EdgeRefines ==
  ASSUME Edge
  PROVE  Conn!Next \/ UNCHANGED Conn!connVars
<1> USE DEF Goes, ConnOf, WorkerEnded
<1>1. CASE BeginSend \/ Flush \/ Pace
  BY <1>1, Stutter DEF BeginSend, CanStart, Flush, Pace, Counters, benchVars
<1>2. CASE SendRefused \/ SendFails
  BY <1>2, ErrorRefines DEF SendRefused, CanStart, SendFails
<1>3. CASE Leave
  BY <1>3, Stutter DEF Leave, LifetimeEnds, ShutdownEnds, SendClose, Waiting, Counters,
     benchVars
<1> QED
  BY <1>1, <1>2, <1>3 DEF Edge

\* The benchmark touches the request counter alone.
LEMMA MainRefines ==
  ASSUME MainStep, UNCHANGED pc
  PROVE  Conn!Next \/ UNCHANGED Conn!connVars
<1>0. ConnOf' = ConnOf
  BY DEF ConnOf, WorkerEnded
<1>1. CASE end_warmup
  BY <1>0, <1>1 DEF end_warmup, Conn!Next, Conn!ResetRequests
<1>2. CASE set_shutting_down \/ NotifyShutdown
  BY <1>0, <1>2, Stutter DEF set_shutting_down, NotifyShutdown, Counters
<1> QED
  BY <1>1, <1>2 DEF MainStep
=============================================================================
