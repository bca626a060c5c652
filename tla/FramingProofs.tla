---------------------------- MODULE FramingProofs ----------------------------
(***************************************************************************)
(* Framing for any sizes of headers, frames and payloads, and any number   *)
(* of frames.                                                              *)
(*                                                                         *)
(* What recv_exact has taken and what is still on the wire make one        *)
(* sequence, InFlight.  A recv leaves it as it is, a send adds to its end, *)
(* and recv_frame, when it returns or raises, drops the beginning.         *)
(***************************************************************************)
EXTENDS Framing, SequenceTheorems, TLAPS

\* How many bytes of InFlight recv_frame has.
Taken == Len(head) + Len(buf)

Size(n) == HeaderSize + lens[n]

\* What a step does to InFlight.
Kept ==
  /\ Len(InFlight') = Len(InFlight)
  /\ \A i \in 1..Len(InFlight) : InFlight'[i] = InFlight[i]
Dropped ==
  /\ Len(InFlight') = Len(InFlight) - Taken
  /\ \A i \in 1..Len(InFlight') : InFlight'[i] = InFlight[Taken + i]
Extended(n, k) ==
  /\ Len(InFlight') = Len(InFlight) + k
  /\ \A i \in 1..Len(InFlight) : InFlight'[i] = InFlight[i]
  /\ \A i \in 1..k : InFlight'[Len(InFlight) + i] = <<n, i>>

(***************************************************************************)
(* The variables of the frame protocol keep their types, whatever the      *)
(* sizes.                                                                  *)
(***************************************************************************)
\* The bytes of a frame, and of its beginning, are bytes, as many as there should be.
LEMMA BytesType ==
  ASSUME NEW n \in 1..MaxFrames, NEW len \in Overhead..MaxFrameSize,
         NEW k \in 0..(HeaderSize + len)
  PROVE  /\ Bytes(n, len) \in Seq(Byte) /\ Len(Bytes(n, len)) = HeaderSize + len
         /\ \A i \in 1..(HeaderSize + len) : Bytes(n, len)[i] = <<n, i>>
         /\ SubSeq(Bytes(n, len), 1, k) \in Seq(Byte)
         /\ Len(SubSeq(Bytes(n, len), 1, k)) = k
         /\ \A i \in 1..k : SubSeq(Bytes(n, len), 1, k)[i] = <<n, i>>
<1>1. /\ HeaderSize + len \in Nat /\ k \in Nat
      /\ 1..(HeaderSize + len) \subseteq 1..(HeaderSize + MaxFrameSize)
  BY SizeAssumption
<1>2. /\ Bytes(n, len) \in [1..(HeaderSize + len) -> Byte]
      /\ \A i \in 1..(HeaderSize + len) : Bytes(n, len)[i] = <<n, i>>
  BY <1>1 DEF Bytes, Byte
<1>3. Bytes(n, len) \in Seq(Byte) /\ Len(Bytes(n, len)) = HeaderSize + len
  BY <1>1, <1>2
<1>. QED
  BY <1>1, <1>2, <1>3

\* Every step keeps the types.
LEMMA TypeStep == TypeOK /\ [Next]_vars => TypeOK'
<1>. SUFFICES ASSUME TypeOK, [Next]_vars
              PROVE  TypeOK'
  OBVIOUS
<1>. USE SizeAssumption
<1>0. HeaderSize \in 0..(HeaderSize + MaxFrameSize)
  OBVIOUS
<1>1. ASSUME NEW p \in 0..MaxPayload, SendFrame(p) \/ SendCut(p)
      PROVE  TypeOK'
  <2>1. /\ Len(lens) + 1 \in 1..MaxFrames /\ Overhead + p \in Overhead..MaxFrameSize
        /\ lens' = Append(lens, Overhead + p)
        /\ UNCHANGED <<phase, need, head, buf, delivered, rejected>>
        /\ torn' \in BOOLEAN
    <3>1. Len(lens) \in Nat
      BY DEF TypeOK
    <3>2. /\ Len(lens) + 1 <= MaxFrames /\ Overhead + p <= MaxFrameSize
          /\ lens' = Append(lens, Overhead + p)
          /\ UNCHANGED <<phase, need, head, buf, delivered, rejected>>
      BY <1>1 DEF SendFrame, SendCut, Fits
    <3>3. Len(lens) + 1 \in 1..MaxFrames /\ Overhead + p \in Overhead..MaxFrameSize
      BY <3>1, <3>2
    <3>4. torn' \in BOOLEAN
      BY <1>1 DEF SendFrame, SendCut, TypeOK
    <3>. QED
      BY <3>2, <3>3, <3>4
  <2>2. wire' \in Seq(Byte)
    <3>0. wire \in Seq(Byte) /\ 0 \in 0..(HeaderSize + (Overhead + p))
      BY DEF TypeOK
    <3>1. CASE SendFrame(p)
      <4>1. wire' = wire \o Bytes(Len(lens) + 1, Overhead + p)
        BY <3>1 DEF SendFrame
      <4>2. Bytes(Len(lens) + 1, Overhead + p) \in Seq(Byte)
        BY <2>1, <3>0, BytesType
      <4>. QED
        BY <3>0, <4>1, <4>2
    <3>2. CASE SendCut(p)
      <4>1. PICK k \in 0..(HeaderSize + (Overhead + p) - 1) :
              wire' = wire \o SubSeq(Bytes(Len(lens) + 1, Overhead + p), 1, k)
        BY <3>2 DEF SendCut
      <4>2. k \in 0..(HeaderSize + (Overhead + p))
        BY <4>1
      <4>3. SubSeq(Bytes(Len(lens) + 1, Overhead + p), 1, k) \in Seq(Byte)
        BY <2>1, <4>2, BytesType
      <4>. QED
        BY <3>0, <4>1, <4>3
    <3>. QED
      BY <1>1, <3>1, <3>2
  <2>3. lens' \in Seq(Overhead..MaxFrameSize) /\ Len(lens') = Len(lens) + 1
    BY <2>1 DEF TypeOK
  <2>4. delivered' \in Seq(FrameNo')
    <3>1. FrameNo \subseteq FrameNo'
      BY <2>3 DEF FrameNo, TypeOK
    <3>. QED
      BY <2>1, <3>1 DEF TypeOK
  <2>. QED
    BY <2>1, <2>2, <2>3, <2>4 DEF TypeOK
<1>2. CASE Recv
  <2>1. PICK k \in 1..Len(wire) :
          /\ k <= need - Len(buf)
          /\ buf' = buf \o SubSeq(wire, 1, k)
          /\ wire' = SubSeq(wire, k + 1, Len(wire))
    BY <1>2 DEF Recv
  <2>2. /\ SubSeq(wire, 1, k) \in Seq(Byte) /\ Len(SubSeq(wire, 1, k)) = k
        /\ wire' \in Seq(Byte)
    <3>1. wire \in Seq(Byte) /\ k \in Nat /\ k >= 1 /\ k <= Len(wire) /\ Len(wire) \in Nat
      BY DEF TypeOK
    <3>2. SubSeq(wire, 1, k) \in Seq(Byte) /\ Len(SubSeq(wire, 1, k)) = k
      BY <3>1
    <3>3. SubSeq(wire, k + 1, Len(wire)) \in Seq(Byte)
      BY <3>1
    <3>. QED
      BY <2>1, <3>2, <3>3
  <2>3. buf' \in Seq(Byte) /\ Len(buf') <= need
    BY <2>1, <2>2 DEF TypeOK
  <2>. QED
    BY <1>2, <2>2, <2>3 DEF Recv, TypeOK, FrameNo
<1>3. CASE HeaderOk
  <2>1. need' \in 0..(HeaderSize + MaxFrameSize)
    <3>1. PICK len \in Lengths(buf) : Acceptable(len) /\ need' = len
      BY <1>3 DEF HeaderOk
    <3>2. len \in Nat
      <4>1. CASE len \in 0..(MaxFrameSize + 1)
        BY <4>1
      <4>2. CASE \E n \in FrameNo : len = lens[n]
        BY <4>2 DEF TypeOK, FrameNo
      <4>. QED
        BY <3>1, <4>1, <4>2 DEF Lengths
    <3>. QED
      BY <3>1, <3>2 DEF Acceptable
  <2>. QED
    BY <1>3, <2>1 DEF HeaderOk, TypeOK, FrameNo
<1>4. CASE HeaderRejected \/ BodyRejected \/ RecvTimeout
  <2>1. torn' \in BOOLEAN /\ rejected' \in BOOLEAN
    BY <1>4 DEF HeaderRejected, BodyRejected, RecvTimeout, TypeOK
  <2>2. Restart /\ UNCHANGED <<lens, wire, delivered>>
    BY <1>4 DEF HeaderRejected, BodyRejected, RecvTimeout
  <2>. QED
    BY <1>0, <2>1, <2>2 DEF Restart, TypeOK, FrameNo
<1>5. CASE BodyOk
  <2>1. delivered' \in Seq(FrameNo)
    BY <1>5 DEF BodyOk, TypeOK
  <2>. QED
    BY <1>0, <1>5, <2>1 DEF BodyOk, Restart, TypeOK, FrameNo
<1>6. CASE UNCHANGED vars
  BY <1>6 DEF vars, TypeOK, FrameNo
<1>. QED
  BY <1>1, <1>2, <1>3, <1>4, <1>5, <1>6 DEF Next, Receiver

\* Every variable of sender, wire and receiver keeps its type.
THEOREM TypeCorrect == Spec => []TypeOK
<1>1. Init => TypeOK
  <2>. SUFFICES ASSUME Init
                PROVE  TypeOK
    OBVIOUS
  <2>1. /\ lens \in Seq(Overhead..MaxFrameSize) /\ Len(lens) = 0
        /\ wire \in Seq(Byte) /\ head \in Seq(Byte) /\ buf \in Seq(Byte) /\ Len(buf) = 0
        /\ delivered \in Seq(FrameNo)
    BY DEF Init
  <2>2. need \in 0..(HeaderSize + MaxFrameSize) /\ 0 <= need /\ 0 <= MaxFrames
    BY SizeAssumption DEF Init
  <2>. QED
    BY <2>1, <2>2 DEF Init, TypeOK
<1>. QED
  BY <1>1, TypeStep, PTL DEF Spec

(***************************************************************************)
(* A frame is returned at most once and in the order of sending, also on a *)
(* connection that is used after a torn frame: of what was sent, bytes can *)
(* get lost, but those under way stay in order, behind all that came out.  *)
(***************************************************************************)
Valid(b) == b[1] \in FrameNo /\ b[2] \in 1..Size(b[1])

Before(a, b) == a[1] < b[1] \/ (a[1] = b[1] /\ a[2] < b[2])

OrderInv ==
  /\ phase = "header" => head = <<>>
  /\ \A i \in 1..Len(InFlight) : Valid(InFlight[i])
  /\ \A i, j \in 1..Len(InFlight) : i < j => Before(InFlight[i], InFlight[j])
  /\ \A d \in 1..Len(delivered), i \in 1..Len(InFlight) : delivered[d] < InFlight[i][1]
  /\ DeliveredInOrder

\* The elements of two sequences one after the other.
LEMMA Concat2 ==
  ASSUME NEW S, NEW a \in Seq(S), NEW b \in Seq(S)
  PROVE  /\ a \o b \in Seq(S)
         /\ Len(a \o b) = Len(a) + Len(b)
         /\ \A i \in 1..Len(a) : (a \o b)[i] = a[i]
         /\ \A i \in 1..Len(b) : (a \o b)[Len(a) + i] = b[i]
OBVIOUS

\* The elements of three sequences one after the other.
LEMMA Concat3 ==
  ASSUME NEW S, NEW a \in Seq(S), NEW b \in Seq(S), NEW c \in Seq(S)
  PROVE  /\ a \o b \o c \in Seq(S)
         /\ Len(a \o b \o c) = Len(a) + Len(b) + Len(c)
         /\ \A i \in 1..Len(a) : (a \o b \o c)[i] = a[i]
         /\ \A i \in 1..Len(b) : (a \o b \o c)[Len(a) + i] = b[i]
         /\ \A i \in 1..Len(c) : (a \o b \o c)[Len(a) + Len(b) + i] = c[i]
<1>1. /\ a \o b \in Seq(S) /\ Len(a \o b) = Len(a) + Len(b)
      /\ \A i \in 1..Len(a) : (a \o b)[i] = a[i]
      /\ \A i \in 1..Len(b) : (a \o b)[Len(a) + i] = b[i]
  OBVIOUS
<1>2. /\ (a \o b) \o c \in Seq(S) /\ Len((a \o b) \o c) = Len(a \o b) + Len(c)
      /\ \A i \in 1..Len(a \o b) : ((a \o b) \o c)[i] = (a \o b)[i]
      /\ \A i \in 1..Len(c) : ((a \o b) \o c)[Len(a \o b) + i] = c[i]
  BY <1>1
<1>3. /\ Len(a) \in Nat /\ Len(b) \in Nat /\ Len(c) \in Nat
  OBVIOUS
<1>. QED
  BY <1>1, <1>2, <1>3

\* InFlight is as long as its parts, and made of them in this order.
LEMMA Parts ==
  ASSUME TypeOK
  PROVE  /\ Taken \in Nat /\ Len(wire) \in Nat /\ Len(InFlight) = Taken + Len(wire)
         /\ \A i \in 1..Len(head) : InFlight[i] = head[i]
         /\ \A i \in 1..Len(buf) : InFlight[Len(head) + i] = buf[i]
         /\ \A i \in 1..Len(wire) : InFlight[Taken + i] = wire[i]
         /\ InFlight \in Seq(Byte)
         /\ head \o buf \in Seq(Byte) /\ Len(head \o buf) = Taken
         /\ \A i \in 1..Taken : InFlight[i] = (head \o buf)[i]
<1>1. head \in Seq(Byte) /\ buf \in Seq(Byte) /\ wire \in Seq(Byte)
  BY DEF TypeOK
<1>2. head \o buf \in Seq(Byte)
  BY <1>1
<1>. QED
  BY <1>1, <1>2, Concat2, Concat3 DEF InFlight, Taken

\* recv_frame returns or raises: the bytes it had are gone.
LEMMA RestartDrops ==
  ASSUME TypeOK, Restart, wire' = wire
  PROVE  Dropped
<1>1. InFlight' = wire
  <2>1. InFlight' = <<>> \o <<>> \o wire
    BY DEF InFlight, Restart
  <2>. QED
    BY <2>1 DEF TypeOK
<1>2. Len(InFlight') = Len(InFlight) - Taken
  <2>1. Taken \in Nat /\ Len(wire) \in Nat /\ Len(InFlight) = Taken + Len(wire)
    BY Parts
  <2>. QED
    BY <1>1, <2>1
<1>3. \A i \in 1..Len(InFlight') : InFlight'[i] = InFlight[Taken + i]
  BY <1>1, Parts
<1>. QED
  BY <1>2, <1>3 DEF Dropped

\* A recv moves bytes from the wire to the buffer.
LEMMA RecvKeeps ==
  ASSUME TypeOK, TypeOK', Recv
  PROVE  Kept
<1>1. PICK k \in 1..Len(wire) :
        /\ buf' = buf \o SubSeq(wire, 1, k)
        /\ wire' = SubSeq(wire, k + 1, Len(wire))
  BY DEF Recv
<1>2. /\ head' = head /\ head \in Seq(Byte) /\ buf \in Seq(Byte) /\ wire \in Seq(Byte)
      /\ k \in Nat /\ k <= Len(wire) /\ Len(wire) \in Nat
      /\ Len(head) \in Nat /\ Len(buf) \in Nat
  BY DEF Recv, TypeOK
<1>3. /\ SubSeq(wire, 1, k) \in Seq(Byte) /\ Len(SubSeq(wire, 1, k)) = k
      /\ \A i \in 1..k : SubSeq(wire, 1, k)[i] = wire[i]
  BY <1>1, <1>2
<1>4. /\ Len(buf') = Len(buf) + k
      /\ \A i \in 1..Len(buf) : buf'[i] = buf[i]
      /\ \A i \in 1..k : buf'[Len(buf) + i] = wire[i]
  BY <1>1, <1>2, <1>3
<1>5. Len(wire') = Len(wire) - k
  BY <1>1, <1>2
<1>6. ASSUME NEW i \in 1..Len(wire')
      PROVE  wire'[i] = wire[k + i]
  <2>1. i \in Nat /\ i >= 1 /\ i <= Len(wire) - k
    BY <1>2, <1>5, <1>6
  <2>2. SubSeq(wire, k + 1, Len(wire))[i] = wire[k + 1 + i - 1]
    BY <1>2, <2>1
  <2>. QED
    BY <1>1, <1>2, <2>1, <2>2
<1>7. /\ Len(InFlight') = Len(head) + Len(buf') + Len(wire')
      /\ \A i \in 1..Len(head) : InFlight'[i] = head[i]
      /\ \A i \in 1..Len(buf') : InFlight'[Len(head) + i] = buf'[i]
      /\ \A i \in 1..Len(wire') : InFlight'[Len(head) + Len(buf') + i] = wire'[i]
  <2>1. head' \in Seq(Byte) /\ buf' \in Seq(Byte) /\ wire' \in Seq(Byte)
    BY DEF TypeOK
  <2>2. InFlight' = head \o buf' \o wire'
    BY <1>2 DEF InFlight
  <2>3. head \in Seq(Byte)
    BY <1>2
  <2>. QED
    BY <2>1, <2>2, <2>3, Concat3
<1>8. Len(InFlight) = Len(head) + Len(buf) + Len(wire)
  BY Parts DEF Taken
<1>9. ASSUME NEW i \in 1..Len(InFlight)
      PROVE  InFlight'[i] = InFlight[i]
  <2>1. CASE i \in 1..Len(head)
    BY <1>7, <2>1, Parts
  <2>2. ASSUME NEW j \in 1..Len(buf), i = Len(head) + j
        PROVE  InFlight'[i] = InFlight[i]
    <3>1. j \in 1..Len(buf')
      BY <1>2, <1>4
    <3>. QED
      BY <1>4, <1>7, <2>2, <3>1, Parts
  <2>3. ASSUME NEW j \in 1..k, i = Len(head) + Len(buf) + j
        PROVE  InFlight'[i] = InFlight[i]
    <3>1. Len(buf) + j \in 1..Len(buf') /\ i = Len(head) + (Len(buf) + j)
      BY <1>2, <1>4, <2>3
    <3>2. InFlight'[i] = wire[j]
      BY <1>4, <1>7, <3>1
    <3>3. j \in 1..Len(wire)
      BY <1>2
    <3>. QED
      BY <2>3, <3>2, <3>3, Parts DEF Taken
  <2>4. ASSUME NEW j \in 1..Len(wire'), i = Len(head) + Len(buf) + k + j
        PROVE  InFlight'[i] = InFlight[i]
    <3>1. i = Len(head) + Len(buf') + j
      BY <1>2, <1>4, <2>4
    <3>2. InFlight'[i] = wire[k + j]
      BY <1>6, <1>7, <3>1
    <3>3. k + j \in 1..Len(wire) /\ i = Len(head) + Len(buf) + (k + j)
      BY <1>2, <1>5, <2>4
    <3>4. InFlight[Len(head) + Len(buf) + (k + j)] = wire[k + j]
      BY <3>3, Parts DEF Taken
    <3>. QED
      BY <3>2, <3>3, <3>4
  <2>5. \/ i \in 1..Len(head)
        \/ i - Len(head) \in 1..Len(buf)
        \/ i - Len(head) - Len(buf) \in 1..k
        \/ i - Len(head) - Len(buf) - k \in 1..Len(wire')
    BY <1>2, <1>5, <1>8
  <2>6. /\ i = Len(head) + (i - Len(head))
        /\ i = Len(head) + Len(buf) + (i - Len(head) - Len(buf))
        /\ i = Len(head) + Len(buf) + k + (i - Len(head) - Len(buf) - k)
    BY <1>2, <1>8
  <2>. QED
    BY <2>1, <2>2, <2>3, <2>4, <2>5, <2>6
<1>10. Len(InFlight') = Len(InFlight)
  BY <1>2, <1>4, <1>5, <1>7, <1>8
<1>. QED
  BY <1>9, <1>10 DEF Kept

\* The header moves from the buffer to head.
LEMMA HeaderKeeps ==
  ASSUME TypeOK, OrderInv, HeaderOk
  PROVE  Kept
<1>1. /\ head = <<>> /\ head' = buf /\ buf' = <<>> /\ wire' = wire
      /\ buf \in Seq(Byte) /\ wire \in Seq(Byte)
  BY DEF HeaderOk, OrderInv, TypeOK
<1>2. InFlight' = buf \o wire /\ InFlight = buf \o wire
  BY <1>1 DEF InFlight
<1>. QED
  BY <1>2 DEF Kept

\* A send puts a frame, or the beginning of one, at the end.
LEMMA PutExtends ==
  ASSUME TypeOK, NEW n, NEW k \in Nat, NEW new \in Seq(Byte), Len(new) = k,
         \A i \in 1..k : new[i] = <<n, i>>,
         wire' = wire \o new, head' = head, buf' = buf
  PROVE  Extended(n, k)
<1>1. /\ head \in Seq(Byte) /\ buf \in Seq(Byte) /\ wire \in Seq(Byte)
      /\ head \o buf \in Seq(Byte)
  BY DEF TypeOK
<1>2. /\ InFlight' = (head \o buf) \o (wire \o new) /\ InFlight = (head \o buf) \o wire
  BY DEF InFlight
<1>3. InFlight' = InFlight \o new /\ InFlight \in Seq(Byte)
  <2>1. head \o buf \in Seq(Byte) /\ wire \in Seq(Byte) /\ new \in Seq(Byte)
    BY <1>1
  <2>2. (head \o buf) \o (wire \o new) = ((head \o buf) \o wire) \o new
    <3>. DEFINE h == head \o buf
    <3>1. h \in Seq(Byte) /\ wire \in Seq(Byte) /\ new \in Seq(Byte)
      BY <2>1
    <3>. HIDE DEF h
    <3>2. (h \o wire) \o new = h \o (wire \o new)
      BY ONLY <3>1, ConcatAssociative
    <3>. QED
      BY <3>2 DEF h
  <2>. QED
    BY <1>1, <1>2, <2>2, Concat2
<1>. QED
  <2>1. /\ Len(InFlight \o new) = Len(InFlight) + Len(new)
        /\ \A i \in 1..Len(InFlight) : (InFlight \o new)[i] = InFlight[i]
        /\ \A i \in 1..Len(new) : (InFlight \o new)[Len(InFlight) + i] = new[i]
    <3>1. InFlight \in Seq(Byte) /\ new \in Seq(Byte)
      BY <1>3
    <3>. QED
      BY ONLY <3>1, Concat2
  <2>. QED
    BY <1>3, <2>1 DEF Extended

\* send_frame puts all of it there.
LEMMA SendExtends ==
  ASSUME TypeOK, NEW p \in 0..MaxPayload, SendFrame(p)
  PROVE  /\ Extended(Len(lens) + 1, HeaderSize + (Overhead + p))
         /\ Overhead + p \in Overhead..MaxFrameSize
<1>. DEFINE n == Len(lens) + 1
            len == Overhead + p
<1>1. Len(lens) \in Nat /\ n <= MaxFrames /\ len <= MaxFrameSize
  BY DEF SendFrame, Fits, TypeOK
<1>2. n \in 1..MaxFrames /\ len \in Overhead..MaxFrameSize /\ HeaderSize + len \in Nat
      /\ 0 \in 0..(HeaderSize + len)
  BY <1>1, SizeAssumption
<1>3. wire' = wire \o Bytes(n, len) /\ head' = head /\ buf' = buf
  BY DEF SendFrame
<1>4. /\ Bytes(n, len) \in Seq(Byte) /\ Len(Bytes(n, len)) = HeaderSize + len
      /\ \A i \in 1..(HeaderSize + len) : Bytes(n, len)[i] = <<n, i>>
  BY <1>2, BytesType
<1>. HIDE DEF n, len
<1>5. Extended(n, HeaderSize + len)
  BY <1>2, <1>3, <1>4, PutExtends
<1>. QED
  BY <1>2, <1>5 DEF n, len

\* A sendall that times out puts a part of it there.
LEMMA CutExtends ==
  ASSUME TypeOK, NEW p \in 0..MaxPayload, SendCut(p)
  PROVE  /\ \E k \in 0..(HeaderSize + (Overhead + p)) : Extended(Len(lens) + 1, k)
         /\ Overhead + p \in Overhead..MaxFrameSize
<1>. DEFINE n == Len(lens) + 1
            len == Overhead + p
<1>1. Len(lens) \in Nat /\ n <= MaxFrames /\ len <= MaxFrameSize
  BY DEF SendCut, Fits, TypeOK
<1>2. /\ n \in 1..MaxFrames /\ len \in Overhead..MaxFrameSize
      /\ HeaderSize \in Nat /\ len \in Nat
  BY <1>1, SizeAssumption
<1>3. PICK k \in 0..(HeaderSize + len - 1) : wire' = wire \o SubSeq(Bytes(n, len), 1, k)
  BY DEF SendCut
<1>4. k \in 0..(HeaderSize + len) /\ k \in Nat
  BY <1>2, <1>3
<1>5. /\ SubSeq(Bytes(n, len), 1, k) \in Seq(Byte) /\ Len(SubSeq(Bytes(n, len), 1, k)) = k
      /\ \A i \in 1..k : SubSeq(Bytes(n, len), 1, k)[i] = <<n, i>>
  BY <1>2, <1>4, BytesType
<1>6. head' = head /\ buf' = buf
  BY DEF SendCut
<1>. HIDE DEF n, len
<1>7. Extended(n, k)
  BY <1>3, <1>4, <1>5, <1>6, PutExtends
<1>. QED
  BY <1>2, <1>4, <1>7 DEF n, len

\* Where nothing moves, the order stays.
LEMMA OrderKept ==
  ASSUME OrderInv, Kept, UNCHANGED <<lens, delivered>>,
         phase' = "header" => head' = <<>>
  PROVE  OrderInv'
<1>1. /\ Len(InFlight') = Len(InFlight)
      /\ \A i \in 1..Len(InFlight) : InFlight'[i] = InFlight[i]
  BY DEF Kept
<1>2. \A i \in 1..Len(InFlight') : Valid(InFlight[i])'
  BY <1>1 DEF OrderInv, Valid, Size, FrameNo
<1>3. \A i, j \in 1..Len(InFlight') : i < j => Before(InFlight'[i], InFlight'[j])
  BY <1>1 DEF OrderInv
<1>4. \A d \in 1..Len(delivered'), i \in 1..Len(InFlight') : delivered'[d] < InFlight'[i][1]
  BY <1>1 DEF OrderInv
<1>5. DeliveredInOrder'
  BY DEF OrderInv, DeliveredInOrder
<1>. QED
  BY <1>2, <1>3, <1>4, <1>5 DEF OrderInv

\* New bytes are those of a later frame, in order.
LEMMA OrderExtended ==
  ASSUME TypeOK, OrderInv, NEW len \in Nat, NEW k \in 0..(HeaderSize + len),
         Extended(Len(lens) + 1, k), lens' = Append(lens, len),
         UNCHANGED <<phase, head, delivered>>
  PROVE  OrderInv'
<1>1. /\ Len(lens) \in Nat /\ Len(InFlight) \in Nat /\ k \in Nat
      /\ HeaderSize \in Nat /\ HeaderSize + len \in Nat
      /\ delivered \in Seq(1..Len(lens)) /\ Len(lens') = Len(lens) + 1
      /\ lens'[Len(lens) + 1] = len /\ \A n \in 1..Len(lens) : lens'[n] = lens[n]
  <2>1. Len(InFlight) \in Nat
    BY Parts
  <2>2. k \in Nat /\ HeaderSize \in Nat /\ HeaderSize + len \in Nat
    BY SizeAssumption
  <2>3. Len(lens) \in Nat /\ delivered \in Seq(1..Len(lens))
    BY DEF TypeOK, FrameNo
  <2>4. /\ Len(lens') = Len(lens) + 1 /\ lens'[Len(lens) + 1] = len
        /\ \A n \in 1..Len(lens) : lens'[n] = lens[n]
    BY DEF TypeOK
  <2>. QED
    BY <2>1, <2>2, <2>3, <2>4
<1>2. ASSUME NEW i \in 1..Len(InFlight')
      PROVE  \/ i \in 1..Len(InFlight) /\ InFlight'[i] = InFlight[i]
             \/ /\ i - Len(InFlight) \in 1..k
                /\ InFlight'[i] = <<Len(lens) + 1, i - Len(InFlight)>>
  <2>1. i \in 1..(Len(InFlight) + k)
    BY <1>1 DEF Extended
  <2>2. CASE i \in 1..Len(InFlight)
    BY <2>2 DEF Extended
  <2>3. CASE i \notin 1..Len(InFlight)
    <3>1. i - Len(InFlight) \in 1..k /\ Len(InFlight) + (i - Len(InFlight)) = i
      BY <1>1, <2>1, <2>3
    <3>2. InFlight'[Len(InFlight) + (i - Len(InFlight))]
            = <<Len(lens) + 1, i - Len(InFlight)>>
      BY <3>1 DEF Extended
    <3>. QED
      BY <3>1, <3>2
  <2>. QED
    BY <2>2, <2>3
<1>3. ASSUME NEW i \in 1..Len(InFlight)
      PROVE  /\ InFlight[i][1] \in 1..Len(lens)
             /\ InFlight[i][2] \in 1..Size(InFlight[i][1])
  BY DEF OrderInv, Valid, FrameNo
<1>4. ASSUME NEW i \in 1..Len(InFlight')
      PROVE  Valid(InFlight[i])'
  <2>1. CASE i \in 1..Len(InFlight) /\ InFlight'[i] = InFlight[i]
    BY <1>1, <1>3, <2>1 DEF Valid, Size, FrameNo
  <2>2. CASE /\ i - Len(InFlight) \in 1..k
             /\ InFlight'[i] = <<Len(lens) + 1, i - Len(InFlight)>>
    BY <1>1, <2>2 DEF Valid, Size, FrameNo
  <2>. QED
    BY <1>2, <2>1, <2>2
<1>5. ASSUME NEW i \in 1..Len(InFlight'), NEW j \in 1..Len(InFlight'), i < j
      PROVE  Before(InFlight'[i], InFlight'[j])
  <2>1. CASE j \in 1..Len(InFlight) /\ InFlight'[j] = InFlight[j]
    <3>1. i \in 1..Len(InFlight) /\ InFlight'[i] = InFlight[i]
      <4>1. i \in 1..Len(InFlight)
        BY <1>1, <1>5, <2>1
      <4>. QED
        BY <4>1 DEF Extended
    <3>. QED
      BY <1>5, <2>1, <3>1 DEF OrderInv
  <2>2. CASE /\ j - Len(InFlight) \in 1..k
             /\ InFlight'[j] = <<Len(lens) + 1, j - Len(InFlight)>>
    <3>1. CASE i \in 1..Len(InFlight) /\ InFlight'[i] = InFlight[i]
      <4>1. InFlight[i][1] \in 1..Len(lens)
        BY <1>3, <3>1
      <4>2. InFlight'[i][1] < InFlight'[j][1]
        BY <1>1, <2>2, <3>1, <4>1
      <4>. QED
        BY <4>2 DEF Before
    <3>2. CASE /\ i - Len(InFlight) \in 1..k
               /\ InFlight'[i] = <<Len(lens) + 1, i - Len(InFlight)>>
      BY <1>1, <1>5, <2>2, <3>2 DEF Before
    <3>. QED
      BY <1>2, <3>1, <3>2
  <2>. QED
    BY <1>2, <2>1, <2>2
<1>6. ASSUME NEW d \in 1..Len(delivered), NEW i \in 1..Len(InFlight')
      PROVE  delivered[d] < InFlight'[i][1]
  <2>1. delivered[d] \in 1..Len(lens)
    BY <1>1
  <2>2. CASE i \in 1..Len(InFlight) /\ InFlight'[i] = InFlight[i]
    <3>1. delivered[d] < InFlight[i][1]
      BY <2>2 DEF OrderInv
    <3>. QED
      BY <2>2, <3>1
  <2>3. CASE InFlight'[i] = <<Len(lens) + 1, i - Len(InFlight)>>
    <3>1. InFlight'[i][1] = Len(lens) + 1
      BY <2>3
    <3>2. Len(lens) \in Nat
      BY <1>1
    <3>. QED
      BY <2>1, <3>1, <3>2
  <2>. QED
    BY <1>2, <2>2, <2>3
<1>. QED
  BY <1>4, <1>5, <1>6 DEF OrderInv, DeliveredInOrder

\* A frame that is returned is behind all returned before, and before what is left.
LEMMA OrderDropped ==
  ASSUME TypeOK, OrderInv, Dropped, Restart, lens' = lens,
         \/ delivered' = delivered
         \/ \E n \in FrameNo : Whole(n) /\ delivered' = Append(delivered, n)
  PROVE  OrderInv'
<1>1. /\ Taken \in Nat /\ Len(InFlight) \in Nat
      /\ delivered \in Seq(Nat) /\ Len(delivered) \in Nat
  BY Parts DEF TypeOK, FrameNo
<1>2. ASSUME NEW i \in 1..Len(InFlight')
      PROVE  Taken + i \in 1..Len(InFlight) /\ InFlight'[i] = InFlight[Taken + i]
  BY <1>1 DEF Dropped
<1>3. \A i \in 1..Len(InFlight') : Valid(InFlight[i])'
  BY <1>2 DEF OrderInv, Valid, Size, FrameNo
<1>4. ASSUME NEW i \in 1..Len(InFlight'), NEW j \in 1..Len(InFlight'), i < j
      PROVE  Before(InFlight'[i], InFlight'[j])
  <2>1. Taken + i < Taken + j
    BY <1>1, <1>4
  <2>. QED
    BY <1>2, <2>1 DEF OrderInv
<1>5. head' = <<>>
  BY DEF Restart
<1>6. CASE delivered' = delivered
  BY <1>2, <1>3, <1>4, <1>5, <1>6 DEF OrderInv, DeliveredInOrder
<1>7. ASSUME NEW n \in FrameNo, Whole(n), delivered' = Append(delivered, n)
      PROVE  OrderInv'
  <2>1. /\ Size(n) \in Nat /\ Size(n) >= 1 /\ n \in Nat
        /\ Bytes(n, lens[n]) = [k \in 1..Size(n) |-> <<n, k>>]
    BY SizeAssumption DEF Bytes, Size, TypeOK, FrameNo
  <2>2. Taken = Size(n) /\ InFlight[Taken] = <<n, Size(n)>>
    <3>1. Len(Bytes(n, lens[n])) = Size(n) /\ Bytes(n, lens[n])[Size(n)] = <<n, Size(n)>>
      BY <2>1
    <3>2. head \o buf = Bytes(n, lens[n])
      BY <1>7 DEF Whole
    <3>. QED
      BY <2>1, <3>1, <3>2, Parts
  <2>3. Taken \in 1..Len(InFlight)
    BY <1>1, <2>1, <2>2, Parts
  <2>4. \A d \in 1..Len(delivered) : delivered[d] < n
    BY <2>2, <2>3 DEF OrderInv
  <2>5. ASSUME NEW i \in 1..Len(InFlight')
        PROVE  n < InFlight'[i][1]
    <3>1. Before(<<n, Size(n)>>, InFlight'[i]) /\ Valid(InFlight'[i])
      <4>1. Taken + i \in 1..Len(InFlight) /\ Taken < Taken + i
        BY <1>1, <1>2
      <4>. QED
        BY <1>2, <2>2, <2>3, <4>1 DEF OrderInv
    <3>2. /\ \/ n < InFlight'[i][1]
             \/ n = InFlight'[i][1] /\ Size(n) < InFlight'[i][2]
          /\ InFlight'[i][2] \in 1..Size(InFlight'[i][1])
      BY <3>1 DEF Before, Valid
    <3>. QED
      BY <2>1, <3>2
  <2>6. /\ Len(delivered') = Len(delivered) + 1 /\ delivered'[Len(delivered) + 1] = n
        /\ \A d \in 1..Len(delivered) : delivered'[d] = delivered[d]
    BY <1>1, <1>7, <2>1
  <2>7. \A d \in 1..Len(delivered'), i \in 1..Len(InFlight') : delivered'[d] < InFlight'[i][1]
    <3>1. ASSUME NEW d \in 1..Len(delivered'), NEW i \in 1..Len(InFlight')
          PROVE  delivered'[d] < InFlight'[i][1]
      <4>1. CASE d \in 1..Len(delivered)
        BY <1>2, <2>6, <4>1 DEF OrderInv
      <4>2. CASE d = Len(delivered) + 1
        BY <2>5, <2>6, <4>2
      <4>. QED
        BY <1>1, <2>6, <4>1, <4>2
    <3>. QED
      BY <3>1
  <2>8. DeliveredInOrder'
    BY <1>1, <2>4, <2>6 DEF OrderInv, DeliveredInOrder
  <2>. QED
    BY <1>3, <1>4, <1>5, <2>7, <2>8 DEF OrderInv
<1>. QED
  BY <1>6, <1>7

\* Every step keeps the order.
LEMMA OrderStep == TypeOK /\ OrderInv /\ [Next]_vars => OrderInv'
<1>. SUFFICES ASSUME TypeOK, OrderInv, [Next]_vars
              PROVE  OrderInv'
  OBVIOUS
<1>1. ASSUME NEW p \in 0..MaxPayload, SendFrame(p) \/ SendCut(p)
      PROVE  OrderInv'
  <2>1. lens' = Append(lens, Overhead + p) /\ UNCHANGED <<phase, head, delivered>>
    BY <1>1 DEF SendFrame, SendCut
  <2>2. /\ Overhead + p \in Nat
        /\ \E k \in 0..(HeaderSize + (Overhead + p)) : Extended(Len(lens) + 1, k)
    <3>1. Overhead + p \in Nat /\ HeaderSize + (Overhead + p) \in Nat
      BY SizeAssumption
    <3>. QED
      BY <1>1, <3>1, SendExtends, CutExtends
  <2>. QED
    BY <2>1, <2>2, OrderExtended
<1>2. CASE Recv
  <2>1. UNCHANGED <<lens, delivered, phase, head>> /\ Kept
    BY <1>2, TypeStep, RecvKeeps DEF Recv
  <2>. QED
    BY <2>1, OrderKept DEF OrderInv
<1>3. CASE HeaderOk
  <2>1. UNCHANGED <<lens, delivered>> /\ phase' = "body" /\ Kept
    BY <1>3, HeaderKeeps DEF HeaderOk
  <2>. QED
    BY <2>1, OrderKept
<1>4. CASE HeaderRejected \/ BodyOk \/ BodyRejected \/ RecvTimeout
  <2>1. /\ Restart /\ UNCHANGED <<lens, wire>>
        /\ \/ delivered' = delivered
           \/ \E n \in FrameNo : Whole(n) /\ delivered' = Append(delivered, n)
    BY <1>4 DEF HeaderRejected, BodyOk, BodyRejected, RecvTimeout
  <2>. QED
    BY <2>1, RestartDrops, OrderDropped
<1>5. CASE UNCHANGED vars
  <2>1. Kept /\ UNCHANGED <<lens, delivered, phase, head>>
    BY <1>5 DEF vars, Kept, InFlight
  <2>. QED
    BY <2>1, OrderKept DEF OrderInv
<1>. QED
  BY <1>1, <1>2, <1>3, <1>4, <1>5 DEF Next, Receiver

\* recv_frame returns frames in the order of sending and none twice, whatever was
\* torn before.
THEOREM OrderHolds == Spec => []DeliveredInOrder
<1>1. Init => OrderInv
  BY DEF Init, OrderInv, InFlight, DeliveredInOrder
<1>2. OrderInv => DeliveredInOrder
  BY DEF OrderInv
<1>. QED
  BY <1>1, <1>2, OrderStep, TypeCorrect, PTL DEF Spec

(***************************************************************************)
(* recv_frame raises a ValueError only after a frame was torn.  Until then *)
(* InFlight consists of all frames sent and not returned, whole and in     *)
(* their order: frame n begins behind the first start[n] bytes.            *)
(***************************************************************************)
First == Len(delivered) + 1

Laid(start) ==
  /\ start \in [First..(Len(lens) + 1) -> Nat] /\ start[First] = 0
  /\ \A n \in First..Len(lens) : start[n + 1] = start[n] + Size(n)
  /\ \A m, n \in First..(Len(lens) + 1) : m < n => start[m] + Size(m) <= start[n]
  /\ \A n \in First..Len(lens) : \A k \in 1..Size(n) : InFlight[start[n] + k] = <<n, k>>
  /\ Len(InFlight) = start[Len(lens) + 1]

\* recv_frame, in the body of a frame, has its header.
InBody ==
  /\ First <= Len(lens) /\ need = lens[First]
  /\ Len(head) = HeaderSize /\ \A k \in 1..HeaderSize : head[k] = <<First, k>>

WholeInv ==
  /\ phase = "header" => head = <<>> /\ need = HeaderSize
  /\ ~torn => /\ ~rejected
              /\ Len(delivered) <= Len(lens)
              /\ \A d \in 1..Len(delivered) : delivered[d] = d
              /\ phase = "body" => InBody
              /\ \E start : Laid(start)

\* The size of a frame is what send_frame let pass.
LEMMA SizeType ==
  ASSUME TypeOK, NEW n \in 1..Len(lens)
  PROVE  lens[n] \in Overhead..MaxFrameSize /\ lens[n] \in Nat /\ Size(n) \in Nat
<1>1. lens[n] \in Overhead..MaxFrameSize
  BY SizeAssumption DEF TypeOK
<1>. QED
  BY <1>1, SizeAssumption DEF Size

\* Its number is within the bound on frames.
LEMMA FrameType ==
  ASSUME TypeOK, NEW n \in FrameNo
  PROVE  /\ n \in 1..MaxFrames /\ lens[n] \in Overhead..MaxFrameSize /\ lens[n] \in Nat
         /\ HeaderSize \in 0..(HeaderSize + lens[n]) /\ 0 \in 0..(HeaderSize + lens[n])
         /\ Size(n) \in Nat /\ Size(n) >= 1
<1>1. /\ n \in 1..Len(lens) /\ Len(lens) \in Nat /\ Len(lens) <= MaxFrames
      /\ MaxFrames \in Nat /\ HeaderSize \in Nat /\ HeaderSize >= 1
  BY SizeAssumption DEF TypeOK, FrameNo
<1>2. lens[n] \in Overhead..MaxFrameSize /\ lens[n] \in Nat
  BY <1>1, SizeType
<1>3. n \in 1..MaxFrames
  BY <1>1
<1>4. /\ HeaderSize \in 0..(HeaderSize + lens[n]) /\ 0 \in 0..(HeaderSize + lens[n])
      /\ HeaderSize + lens[n] \in Nat /\ HeaderSize + lens[n] >= 1
  BY <1>1, <1>2
<1>. QED
  BY <1>2, <1>3, <1>4 DEF Size

\* Each frame lies within InFlight.
LEMMA FrameInside ==
  ASSUME TypeOK, NEW start, Laid(start), NEW n \in First..Len(lens), NEW k \in 1..Size(n)
  PROVE  start[n] + k \in 1..Len(InFlight)
<1>1. /\ Len(lens) \in Nat /\ First \in Nat /\ First >= 1 /\ n \in Nat /\ n >= 1
      /\ n <= Len(lens)
  BY DEF TypeOK, First
<1>2. n \in First..(Len(lens) + 1) /\ Len(lens) + 1 \in First..(Len(lens) + 1)
  BY <1>1
<1>4. start[n] \in Nat /\ Size(n) \in Nat /\ k \in 1..Size(n)
  <2>1. start[n] \in Nat
    BY <1>2 DEF Laid
  <2>2. n \in 1..Len(lens)
    BY <1>1
  <2>. QED
    BY <2>1, <2>2, SizeType
<1>5. start[n] + Size(n) <= start[Len(lens) + 1] /\ Len(InFlight) = start[Len(lens) + 1]
  BY <1>1, <1>2 DEF Laid
<1>6. Len(InFlight) \in Nat
  BY Parts
<1>. QED
  BY <1>4, <1>5, <1>6

\* As long as InFlight keeps its bytes, so do the frames in it.
LEMMA LaidKept ==
  ASSUME TypeOK, NEW start, Laid(start), Kept, UNCHANGED <<lens, delivered>>
  PROVE  Laid(start)'
<1>1. ASSUME NEW n \in First..Len(lens), NEW k \in 1..Size(n)
      PROVE  InFlight'[start[n] + k] = <<n, k>>
  <2>1. start[n] + k \in 1..Len(InFlight)
    BY FrameInside
  <2>. QED
    BY <2>1 DEF Kept, Laid
<1>2. Len(InFlight') = Len(InFlight)
  BY DEF Kept
<1>3. UNCHANGED <<lens, First>> /\ \A n : Size(n)' = Size(n)
  BY DEF First, Size
<1>. QED
  BY <1>1, <1>2, <1>3 DEF Laid

\* The frame at the beginning of InFlight, if there is anything in it.
LEMMA FirstFrame ==
  ASSUME TypeOK, WholeInv, ~torn, Taken > 0
  PROVE  /\ First \in 1..Len(lens) /\ lens[First] \in Overhead..MaxFrameSize
         /\ \A k \in 1..Size(First) : InFlight[k] = <<First, k>>
<1>1. PICK start : Laid(start)
  BY DEF WholeInv
<1>2. /\ Len(lens) \in Nat /\ Len(delivered) \in Nat /\ Len(delivered) <= Len(lens)
      /\ Taken \in Nat /\ Len(wire) \in Nat /\ Len(InFlight) = Taken + Len(wire)
  BY Parts DEF TypeOK, WholeInv
<1>3. First <= Len(lens)
  <2>1. SUFFICES ASSUME First = Len(lens) + 1
                 PROVE  FALSE
    BY <1>2 DEF First
  <2>2. Len(InFlight) = 0
    BY <1>1, <2>1 DEF Laid
  <2>3. Taken + Len(wire) = 0 /\ Taken \in Nat /\ Len(wire) \in Nat
    BY <1>2, <2>2
  <2>. QED
    BY <2>3
<1>4. First \in 1..Len(lens)
  BY <1>2, <1>3 DEF First
<1>5. lens[First] \in Overhead..MaxFrameSize /\ Size(First) \in Nat
  BY <1>4, SizeType
<1>6. ASSUME NEW k \in 1..Size(First)
      PROVE  InFlight[k] = <<First, k>>
  <2>1. First \in First..Len(lens)
    BY <1>2, <1>4
  <2>2. start[First] = 0 /\ InFlight[start[First] + k] = <<First, k>>
    BY <1>1, <2>1 DEF Laid
  <2>. QED
    BY <1>5, <2>2
<1>. QED
  BY <1>4, <1>5, <1>6

\* A header read whole, while no frame is torn, is that of the first frame.
LEMMA HeaderRead ==
  ASSUME TypeOK, WholeInv, ~torn, phase = "header", Len(buf) = need
  PROVE  /\ First \in 1..Len(lens) /\ lens[First] \in Overhead..MaxFrameSize
         /\ Len(buf) = HeaderSize /\ \A k \in 1..HeaderSize : buf[k] = <<First, k>>
         /\ Lengths(buf) = {lens[First]}
<1>1. /\ head = <<>> /\ Len(buf) = HeaderSize /\ buf \in Seq(Byte) /\ Taken = HeaderSize
      /\ HeaderSize \in Nat /\ HeaderSize >= 1
  BY SizeAssumption DEF WholeInv, TypeOK, Taken
<1>2. /\ First \in 1..Len(lens) /\ lens[First] \in Overhead..MaxFrameSize
      /\ \A k \in 1..Size(First) : InFlight[k] = <<First, k>>
  BY <1>1, FirstFrame
<1>3. lens[First] \in Nat
  BY <1>2, SizeAssumption
<1>4. ASSUME NEW k \in 1..HeaderSize
      PROVE  buf[k] = <<First, k>>
  <2>1. k \in 1..Size(First)
    BY <1>1, <1>3 DEF Size
  <2>2. InFlight[Len(head) + k] = buf[k] /\ Len(head) = 0
    BY <1>1, Parts
  <2>. QED
    BY <1>2, <2>1, <2>2
<1>5. ASSUME NEW n \in FrameNo
      PROVE  /\ Len(SubSeq(Bytes(n, lens[n]), 1, HeaderSize)) = HeaderSize
             /\ SubSeq(Bytes(n, lens[n]), 1, HeaderSize) \in Seq(Byte)
             /\ \A k \in 1..HeaderSize :
                  SubSeq(Bytes(n, lens[n]), 1, HeaderSize)[k] = <<n, k>>
  <2>1. /\ n \in 1..MaxFrames /\ lens[n] \in Overhead..MaxFrameSize
        /\ HeaderSize \in 0..(HeaderSize + lens[n])
    BY FrameType
  <2>. QED
    BY ONLY <2>1, BytesType
<1>6. buf = SubSeq(Bytes(First, lens[First]), 1, HeaderSize)
  <2>1. First \in FrameNo
    BY <1>2 DEF FrameNo
  <2>. DEFINE h == SubSeq(Bytes(First, lens[First]), 1, HeaderSize)
  <2>2. h \in Seq(Byte) /\ Len(h) = HeaderSize /\ \A k \in 1..HeaderSize : h[k] = <<First, k>>
    BY <1>5, <2>1
  <2>. HIDE DEF h
  <2>3. Len(buf) = Len(h) /\ \A k \in 1..Len(buf) : buf[k] = h[k]
    BY <1>1, <1>4, <2>2
  <2>4. buf = h
    BY <1>1, <2>2, <2>3, SeqEqual
  <2>. QED
    BY <2>4 DEF h
<1>7. ASSUME NEW n \in FrameNo, buf = SubSeq(Bytes(n, lens[n]), 1, HeaderSize)
      PROVE  n = First
  <2>1. buf[1] = <<n, 1>> /\ buf[1] = <<First, 1>>
    BY <1>1, <1>4, <1>5, <1>7
  <2>. QED
    BY <2>1
<1>8. Lengths(buf) = {lens[First]}
  <2>1. {n \in FrameNo : buf = SubSeq(Bytes(n, lens[n]), 1, HeaderSize)} = {First}
    BY <1>2, <1>6, <1>7 DEF FrameNo
  <2>. QED
    BY <2>1 DEF Lengths
<1>. QED
  BY <1>1, <1>2, <1>4, <1>8

\* A body read whole, while no frame is torn, is that of the first frame.
LEMMA BodyRead ==
  ASSUME TypeOK, WholeInv, ~torn, phase = "body", Len(buf) = need
  PROVE  /\ First \in FrameNo /\ Whole(First) /\ Taken = Size(First)
         /\ \A n \in FrameNo : Whole(n) => n = First
<1>1. /\ First <= Len(lens) /\ need = lens[First] /\ Len(head) = HeaderSize
      /\ Taken = Size(First) /\ HeaderSize \in Nat /\ HeaderSize >= 1
  BY SizeAssumption DEF WholeInv, InBody, Taken, Size
<1>2. Len(buf) \in Nat
  BY DEF TypeOK
<1>3. /\ First \in 1..Len(lens) /\ lens[First] \in Overhead..MaxFrameSize
      /\ \A k \in 1..Size(First) : InFlight[k] = <<First, k>>
  BY <1>1, <1>2, FirstFrame DEF Taken
<1>4. ASSUME NEW n \in FrameNo
      PROVE  /\ Bytes(n, lens[n]) \in Seq(Byte) /\ Len(Bytes(n, lens[n])) = Size(n)
             /\ \A k \in 1..Size(n) : Bytes(n, lens[n])[k] = <<n, k>>
             /\ Size(n) \in Nat /\ Size(n) >= 1
  <2>1. /\ n \in 1..MaxFrames /\ lens[n] \in Overhead..MaxFrameSize
        /\ 0 \in 0..(HeaderSize + lens[n]) /\ Size(n) \in Nat /\ Size(n) >= 1
    BY FrameType
  <2>2. /\ Bytes(n, lens[n]) \in Seq(Byte) /\ Len(Bytes(n, lens[n])) = HeaderSize + lens[n]
        /\ \A k \in 1..(HeaderSize + lens[n]) : Bytes(n, lens[n])[k] = <<n, k>>
    BY <2>1, BytesType
  <2>. QED
    BY <2>1, <2>2 DEF Size
<1>5. /\ head \o buf \in Seq(Byte) /\ Len(head \o buf) = Size(First)
      /\ \A k \in 1..Size(First) : (head \o buf)[k] = <<First, k>>
  BY <1>1, <1>3, Parts
<1>6. First \in FrameNo
  BY <1>3 DEF FrameNo
<1>7. Whole(First)
  <2>. DEFINE h == head \o buf
              b == Bytes(First, lens[First])
  <2>1. /\ h \in Seq(Byte) /\ Len(h) = Size(First)
        /\ \A k \in 1..Size(First) : h[k] = <<First, k>>
        /\ b \in Seq(Byte) /\ Len(b) = Size(First)
        /\ \A k \in 1..Size(First) : b[k] = <<First, k>>
    BY <1>4, <1>5, <1>6
  <2>. HIDE DEF h, b
  <2>2. Len(h) = Len(b) /\ \A k \in 1..Len(h) : h[k] = b[k]
    BY <2>1
  <2>3. h = b
    BY <2>1, <2>2, SeqEqual
  <2>. QED
    BY <2>3 DEF h, b, Whole
<1>8. ASSUME NEW n \in FrameNo, Whole(n)
      PROVE  n = First
  <2>1. 1 \in 1..Size(n) /\ 1 \in 1..Size(First)
    BY <1>4, <1>6
  <2>2. (head \o buf)[1] = <<n, 1>> /\ (head \o buf)[1] = <<First, 1>>
    BY <1>4, <1>5, <1>8, <2>1 DEF Whole
  <2>3. <<n, 1>>[1] = <<First, 1>>[1]
    BY <2>2
  <2>. QED
    BY <2>3
<1>. QED
  BY <1>1, <1>6, <1>7, <1>8

\* A whole frame is laid behind the others.
LEMMA LaidExtended ==
  ASSUME TypeOK, NEW start, Laid(start), NEW len \in Nat, Len(delivered) <= Len(lens),
         Extended(Len(lens) + 1, HeaderSize + len), lens' = Append(lens, len),
         delivered' = delivered
  PROVE  \E s : Laid(s)'
<1>0. PICK s :
        s = [n \in First..(Len(lens) + 2) |->
               IF n = Len(lens) + 2 THEN Len(InFlight) + (HeaderSize + len) ELSE start[n]]
  OBVIOUS
<1>1. /\ Len(lens) \in Nat /\ Len(InFlight) \in Nat /\ HeaderSize \in Nat
      /\ First \in Nat /\ First >= 1 /\ First <= Len(lens) + 1 /\ First' = First
      /\ Len(lens') = Len(lens) + 1 /\ lens'[Len(lens) + 1] = len
      /\ \A n \in 1..Len(lens) : lens'[n] = lens[n] /\ lens[n] \in Nat
  <2>1. /\ Len(lens) \in Nat /\ Len(delivered) \in Nat
        /\ Len(lens') = Len(lens) + 1 /\ lens'[Len(lens) + 1] = len
        /\ \A n \in 1..Len(lens) : lens'[n] = lens[n]
    BY DEF TypeOK
  <2>2. Len(InFlight) \in Nat /\ HeaderSize \in Nat
    BY Parts, SizeAssumption
  <2>3. /\ First \in Nat /\ First >= 1 /\ First <= Len(lens) + 1 /\ First' = First
    BY <2>1 DEF First
  <2>. QED
    BY <2>1, <2>2, <2>3, SizeType
<1>2. /\ \A n : n = Len(lens) + 1 => Size(n)' = HeaderSize + len
      /\ \A n \in First..Len(lens) : Size(n)' = Size(n) /\ Size(n) \in Nat
  <2>2. ASSUME NEW n \in First..Len(lens)
        PROVE  Size(n)' = Size(n) /\ Size(n) \in Nat
    <3>1. n \in 1..Len(lens)
      BY <1>1
    <3>. QED
      BY <1>1, <3>1, SizeType DEF Size
  <2>. QED
    BY <1>1, <2>2 DEF Size
<1>3. /\ start \in [First..(Len(lens) + 1) -> Nat] /\ start[First] = 0
      /\ \A n \in First..Len(lens) : start[n + 1] = start[n] + Size(n)
      /\ \A m, n \in First..(Len(lens) + 1) : m < n => start[m] + Size(m) <= start[n]
      /\ start[Len(lens) + 1] = Len(InFlight)
  BY DEF Laid
<1>4. /\ \A n \in First..(Len(lens) + 1) : s[n] = start[n]
      /\ s[Len(lens) + 2] = Len(InFlight) + (HeaderSize + len)
      /\ s \in [First'..(Len(lens') + 1) -> Nat]
  <2>1. /\ First'..(Len(lens') + 1) = First..(Len(lens) + 2)
        /\ Len(lens) + 2 \in First..(Len(lens) + 2)
        /\ \A n \in First..(Len(lens) + 2) :
             n = Len(lens) + 2 \/ n \in First..(Len(lens) + 1)
        /\ \A n \in First..(Len(lens) + 1) :
             n \in First..(Len(lens) + 2) /\ n # Len(lens) + 2
    BY <1>1
  <2>2. Len(InFlight) + (HeaderSize + len) \in Nat
    BY <1>1
  <2>. QED
    BY <1>0, <1>3, <2>1, <2>2
<1>5. s[First'] = 0
  BY <1>1, <1>3, <1>4
<1>6. ASSUME NEW n \in First'..Len(lens')
      PROVE  s[n + 1] = s[n] + Size(n)'
  <2>1. CASE n = Len(lens) + 1
    <3>1. n + 1 = Len(lens) + 2 /\ n \in First..(Len(lens) + 1)
      BY <1>1, <2>1
    <3>2. s[n] = Len(InFlight) /\ s[n + 1] = Len(InFlight) + (HeaderSize + len)
      BY <1>3, <1>4, <2>1, <3>1
    <3>. QED
      BY <1>2, <2>1, <3>2
  <2>2. CASE n # Len(lens) + 1
    <3>1. n \in First..Len(lens) /\ n + 1 \in First..(Len(lens) + 1)
      BY <1>1, <2>2
    <3>. QED
      BY <1>2, <1>3, <1>4, <3>1
  <2>. QED
    BY <2>1, <2>2
<1>7. ASSUME NEW m \in First'..(Len(lens') + 1), NEW n \in First'..(Len(lens') + 1), m < n
      PROVE  s[m] + Size(m)' <= s[n]
  <2>1. CASE n \in First..(Len(lens) + 1)
    <3>1. m \in First..Len(lens) /\ m \in First..(Len(lens) + 1)
      BY <1>1, <1>7, <2>1
    <3>. QED
      BY <1>2, <1>3, <1>4, <1>7, <2>1, <3>1
  <2>2. CASE n = Len(lens) + 2
    <3>1. CASE m = Len(lens) + 1
      <4>1. m \in First..(Len(lens) + 1) /\ Size(m)' = HeaderSize + len
        BY <1>1, <1>2, <3>1
      <4>2. s[m] = Len(InFlight) /\ s[n] = Len(InFlight) + (HeaderSize + len)
        BY <1>3, <1>4, <2>2, <3>1, <4>1
      <4>. QED
        BY <1>1, <4>1, <4>2
    <3>2. CASE m # Len(lens) + 1
      <4>1. /\ m \in First..Len(lens) /\ m \in First..(Len(lens) + 1)
            /\ m < Len(lens) + 1 /\ Len(lens) + 1 \in First..(Len(lens) + 1)
        BY <1>1, <1>7, <2>2, <3>2
      <4>2. start[m] + Size(m) <= Len(InFlight) /\ s[m] = start[m] /\ Size(m)' = Size(m)
        BY <1>2, <1>3, <1>4, <4>1
      <4>3. start[m] \in Nat /\ Size(m) \in Nat
        BY <1>2, <1>3, <4>1
      <4>. QED
        BY <1>1, <1>4, <2>2, <4>2, <4>3
    <3>. QED
      BY <3>1, <3>2
  <2>. QED
    BY <1>1, <2>1, <2>2
<1>8. ASSUME NEW n \in First'..Len(lens'), NEW k \in 1..Size(n)'
      PROVE  InFlight'[s[n] + k] = <<n, k>>
  <2>1. CASE n = Len(lens) + 1
    <3>1. k \in 1..(HeaderSize + len) /\ s[n] = Len(InFlight)
      BY <1>1, <1>2, <1>3, <1>4, <2>1
    <3>. QED
      BY <2>1, <3>1 DEF Extended
  <2>2. CASE n # Len(lens) + 1
    <3>1. n \in First..Len(lens) /\ n \in First..(Len(lens) + 1)
      BY <1>1, <2>2
    <3>2. k \in 1..Size(n) /\ s[n] = start[n]
      BY <1>2, <1>4, <3>1
    <3>3. start[n] + k \in 1..Len(InFlight)
      BY <3>1, <3>2, FrameInside
    <3>4. InFlight[start[n] + k] = <<n, k>>
      BY <3>1, <3>2 DEF Laid
    <3>. QED
      BY <3>2, <3>3, <3>4 DEF Extended
  <2>. QED
    BY <2>1, <2>2
<1>9. Len(InFlight') = s[Len(lens') + 1]
  <2>1. Len(InFlight') = Len(InFlight) + (HeaderSize + len) /\ Len(lens') + 1 = Len(lens) + 2
    BY <1>1 DEF Extended
  <2>. QED
    BY <1>4, <2>1
<1>10. Laid(s)'
  BY <1>4, <1>5, <1>6, <1>7, <1>8, <1>9 DEF Laid
<1>. QED
  BY <1>10

\* The first frame is taken away.
LEMMA LaidDropped ==
  ASSUME TypeOK, NEW start, Laid(start), First \in 1..Len(lens), Taken = Size(First),
         Dropped, lens' = lens, First' = First + 1
  PROVE  \E s : Laid(s)'
<1>0. PICK s : s = [n \in First'..(Len(lens) + 1) |-> start[n] - Taken]
  OBVIOUS
<1>1. /\ Len(lens) \in Nat /\ First \in Nat /\ First >= 1 /\ First <= Len(lens)
      /\ Taken \in Nat /\ Len(InFlight) \in Nat
  BY Parts DEF TypeOK, First
<1>2. /\ start \in [First..(Len(lens) + 1) -> Nat] /\ start[First] = 0
      /\ \A n \in First..Len(lens) : start[n + 1] = start[n] + Size(n)
      /\ \A m, n \in First..(Len(lens) + 1) : m < n => start[m] + Size(m) <= start[n]
      /\ \A n \in First..Len(lens) : \A k \in 1..Size(n) : InFlight[start[n] + k] = <<n, k>>
      /\ start[Len(lens) + 1] = Len(InFlight)
  BY DEF Laid
<1>3. \A n : Size(n)' = Size(n)
  BY DEF Size
<1>4. ASSUME NEW n \in First'..(Len(lens) + 1)
      PROVE  /\ n \in First..(Len(lens) + 1) /\ start[n] \in Nat
             /\ start[n] >= Taken /\ s[n] = start[n] - Taken
  <2>1. n \in First..(Len(lens) + 1) /\ First \in First..(Len(lens) + 1) /\ First < n
    BY <1>1
  <2>2. start[First] + Size(First) <= start[n] /\ start[n] \in Nat
    BY <1>2, <2>1
  <2>. QED
    BY <1>0, <1>1, <1>2, <2>1, <2>2
<1>5. s \in [First'..(Len(lens) + 1) -> Nat]
  BY <1>0, <1>1, <1>4
<1>6. s[First'] = 0
  <2>1. First \in First..Len(lens) /\ First' \in First'..(Len(lens) + 1)
    BY <1>1
  <2>2. start[First + 1] = start[First] + Size(First)
    BY <1>2, <2>1
  <2>. QED
    BY <1>1, <1>2, <1>4, <2>1, <2>2
<1>7. ASSUME NEW n \in First'..Len(lens)
      PROVE  /\ s[n + 1] = s[n] + Size(n)
             /\ \A k \in 1..Size(n) : InFlight'[s[n] + k] = <<n, k>>
  <2>1. /\ n \in First..Len(lens) /\ n \in First'..(Len(lens) + 1)
        /\ n + 1 \in First'..(Len(lens) + 1) /\ n \in 1..Len(lens)
    BY <1>1
  <2>2. Size(n) \in Nat
    BY <2>1, SizeType
  <2>3. s[n + 1] = s[n] + Size(n)
    <3>1. start[n + 1] = start[n] + Size(n)
      BY <1>2, <2>1
    <3>2. /\ s[n] = start[n] - Taken /\ s[n + 1] = start[n + 1] - Taken
          /\ start[n] \in Nat /\ start[n + 1] \in Nat
      BY <1>4, <2>1
    <3>. QED
      BY <1>1, <2>2, <3>1, <3>2
  <2>4. ASSUME NEW k \in 1..Size(n)
        PROVE  InFlight'[s[n] + k] = <<n, k>>
    <3>1. start[n] + k \in 1..Len(InFlight)
      BY <2>1, FrameInside
    <3>2. s[n] + k \in 1..(Len(InFlight) - Taken) /\ Taken + (s[n] + k) = start[n] + k
      <4>1. s[n] = start[n] - Taken /\ start[n] \in Nat /\ start[n] >= Taken
        BY <1>4, <2>1
      <4>2. k \in Nat /\ k >= 1
        BY <2>2
      <4>. QED
        BY <1>1, <3>1, <4>1, <4>2
    <3>3. InFlight'[s[n] + k] = InFlight[start[n] + k]
      BY <3>2 DEF Dropped
    <3>. QED
      BY <1>2, <2>1, <3>3
  <2>. QED
    BY <2>3, <2>4
<1>8. ASSUME NEW m \in First'..(Len(lens) + 1), NEW n \in First'..(Len(lens) + 1), m < n
      PROVE  s[m] + Size(m) <= s[n]
  <2>1. m \in 1..Len(lens)
    BY <1>1, <1>8
  <2>2. Size(m) \in Nat
    BY <2>1, SizeType
  <2>3. start[m] + Size(m) <= start[n]
    BY <1>2, <1>4, <1>8
  <2>4. /\ s[m] = start[m] - Taken /\ s[n] = start[n] - Taken
        /\ start[m] \in Nat /\ start[n] \in Nat
    BY <1>4
  <2>. QED
    BY <1>1, <2>2, <2>3, <2>4
<1>9. Len(InFlight') = s[Len(lens) + 1]
  <2>1. Len(lens) + 1 \in First'..(Len(lens) + 1)
    BY <1>1
  <2>. QED
    BY <1>2, <1>4, <2>1 DEF Dropped
<1>10. Laid(s)'
  BY <1>3, <1>5, <1>6, <1>7, <1>8, <1>9 DEF Laid
<1>. QED
  BY <1>10

\* A timeout between two frames loses nothing.
LEMMA TimeoutKeeps ==
  ASSUME TypeOK, RecvTimeout, ~torn'
  PROVE  Kept
<1>1. Restart /\ wire' = wire /\ head \o buf = <<>>
  BY DEF RecvTimeout
<1>2. Taken = 0
  <2>1. Len(head \o buf) = Taken
    BY Parts
  <2>. QED
    BY <1>1, <2>1
<1>3. Dropped /\ Len(InFlight) \in Nat
  BY <1>1, RestartDrops, Parts
<1>4. Len(InFlight') = Len(InFlight)
  BY <1>2, <1>3 DEF Dropped
<1>5. ASSUME NEW i \in 1..Len(InFlight)
      PROVE  InFlight'[i] = InFlight[i]
  <2>1. InFlight'[i] = InFlight[Taken + i] /\ Taken + i = i
    BY <1>2, <1>3, <1>4 DEF Dropped
  <2>. QED
    BY <2>1
<1>. QED
  BY <1>4, <1>5 DEF Kept

\* Every step keeps the frames whole, unless it tears one.
LEMMA WholeStep == TypeOK /\ OrderInv /\ WholeInv /\ [Next]_vars => WholeInv'
<1>. SUFFICES ASSUME TypeOK, OrderInv, WholeInv, [Next]_vars
              PROVE  WholeInv'
  OBVIOUS
<1>1. ASSUME NEW p \in 0..MaxPayload, SendFrame(p)
      PROVE  WholeInv'
  <2>1. /\ lens' = Append(lens, Overhead + p)
        /\ UNCHANGED <<phase, need, head, delivered, torn, rejected>>
    BY <1>1 DEF SendFrame
  <2>2. /\ Extended(Len(lens) + 1, HeaderSize + (Overhead + p)) /\ Overhead + p \in Nat
    BY <1>1, SendExtends, SizeAssumption
  <2>3. /\ Len(lens) \in Nat /\ Len(delivered) \in Nat /\ Len(lens') = Len(lens) + 1
        /\ \A n \in 1..Len(lens) : lens'[n] = lens[n]
    BY <2>1, <2>2 DEF TypeOK
  <2>4. ASSUME ~torn
        PROVE  \E s : Laid(s)'
    BY <2>1, <2>2, <2>4, LaidExtended DEF WholeInv
  <2>5. ASSUME ~torn, phase = "body"
        PROVE  InBody'
    <3>1. InBody /\ First \in 1..Len(lens) /\ First' = First
      BY <2>1, <2>3, <2>5 DEF WholeInv, InBody, First
    <3>. QED
      BY <2>1, <2>3, <3>1 DEF InBody
  <2>. QED
    BY <2>1, <2>3, <2>4, <2>5 DEF WholeInv
<1>2. ASSUME NEW p \in 0..MaxPayload, SendCut(p)
      PROVE  WholeInv'
  BY <1>2 DEF SendCut, WholeInv
<1>3. CASE Recv
  <2>1. Kept /\ UNCHANGED <<lens, phase, need, head, delivered, torn, rejected>>
    BY <1>3, TypeStep, RecvKeeps DEF Recv
  <2>2. ASSUME ~torn
        PROVE  \E s : Laid(s)'
    BY <2>1, <2>2, LaidKept DEF WholeInv
  <2>3. InBody' = InBody
    BY <2>1 DEF InBody, First
  <2>. QED
    BY <2>1, <2>2, <2>3 DEF WholeInv
<1>4. CASE HeaderOk
  <2>1. /\ phase = "header" /\ Len(buf) = need
        /\ \E len \in Lengths(buf) : Acceptable(len) /\ need' = len
        /\ phase' = "body" /\ head' = buf /\ UNCHANGED <<lens, delivered, torn, rejected>>
    BY <1>4 DEF HeaderOk
  <2>2. Kept
    BY <1>4, HeaderKeeps
  <2>3. ASSUME ~torn
        PROVE  InBody' /\ \E s : Laid(s)'
    <3>1. \E s : Laid(s)'
      BY <2>1, <2>2, <2>3, LaidKept DEF WholeInv
    <3>2. /\ First \in 1..Len(lens) /\ need' = lens[First] /\ First' = First
          /\ Len(head') = HeaderSize /\ \A k \in 1..HeaderSize : head'[k] = <<First, k>>
      BY <2>1, <2>3, HeaderRead DEF First
    <3>. QED
      BY <2>1, <3>1, <3>2 DEF InBody
  <2>. QED
    BY <2>1, <2>3 DEF WholeInv
<1>5. CASE HeaderRejected
  <2>1. /\ Restart /\ torn' = torn /\ phase = "header" /\ Len(buf) = need
        /\ \E len \in Lengths(buf) : ~Acceptable(len)
    BY <1>5 DEF HeaderRejected
  <2>2. torn
    <3>1. SUFFICES ASSUME ~torn
                   PROVE  FALSE
      OBVIOUS
    <3>2. Lengths(buf) = {lens[First]} /\ lens[First] \in Overhead..MaxFrameSize
      BY <2>1, <3>1, HeaderRead
    <3>3. Acceptable(lens[First])
      BY <3>2, SizeAssumption DEF Acceptable
    <3>. QED
      BY <2>1, <3>2, <3>3
  <2>. QED
    BY <2>1, <2>2 DEF WholeInv, Restart
<1>6. CASE BodyOk
  <2>1. /\ phase = "body" /\ Len(buf) = need /\ Restart
        /\ UNCHANGED <<lens, wire, torn, rejected>>
    BY <1>6 DEF BodyOk
  <2>2. ASSUME ~torn
        PROVE  /\ Len(delivered') <= Len(lens)
               /\ \A d \in 1..Len(delivered') : delivered'[d] = d
               /\ \E s : Laid(s)'
    <3>1. First \in FrameNo /\ Taken = Size(First) /\ \A n \in FrameNo : Whole(n) => n = First
      BY <2>1, <2>2, BodyRead
    <3>2. delivered' = Append(delivered, First)
      BY <1>6, <3>1 DEF BodyOk
    <3>3. delivered \in Seq(FrameNo) /\ Len(delivered) \in Nat
      BY DEF TypeOK
    <3>4. /\ Len(delivered') = Len(delivered) + 1 /\ delivered'[Len(delivered) + 1] = First
          /\ \A d \in 1..Len(delivered) : delivered'[d] = delivered[d]
      BY <3>1, <3>2, <3>3
    <3>5. First' = First + 1 /\ First \in 1..Len(lens)
      BY <3>1, <3>4 DEF First, FrameNo
    <3>6. Dropped
      BY <2>1, RestartDrops
    <3>7. \E s : Laid(s)'
      BY <2>1, <2>2, <3>1, <3>5, <3>6, LaidDropped DEF WholeInv
    <3>8. Len(delivered') <= Len(lens)
      BY <3>4, <3>5 DEF First
    <3>9. ASSUME NEW d \in 1..Len(delivered')
          PROVE  delivered'[d] = d
      <4>1. CASE d \in 1..Len(delivered)
        BY <2>2, <3>4, <4>1 DEF WholeInv
      <4>2. CASE d = Len(delivered) + 1
        BY <3>4, <4>2 DEF First
      <4>. QED
        BY <3>3, <3>4, <4>1, <4>2
    <3>. QED
      BY <3>7, <3>8, <3>9
  <2>. QED
    BY <2>1, <2>2 DEF WholeInv, Restart
<1>7. CASE BodyRejected
  <2>1. /\ Restart /\ torn' = torn /\ phase = "body" /\ Len(buf) = need
        /\ \A n \in FrameNo : ~Whole(n)
    BY <1>7 DEF BodyRejected
  <2>2. torn
    BY <2>1, BodyRead
  <2>. QED
    BY <2>1, <2>2 DEF WholeInv, Restart
<1>8. CASE RecvTimeout
  <2>1. Restart /\ UNCHANGED <<lens, wire, delivered, rejected>>
    BY <1>8 DEF RecvTimeout
  <2>2. ASSUME ~torn'
        PROVE  ~torn /\ \E s : Laid(s)'
    <3>1. ~torn /\ head \o buf = <<>>
      BY <1>8, <2>2 DEF RecvTimeout
    <3>2. Kept
      BY <1>8, <2>2, TimeoutKeeps
    <3>. QED
      BY <2>1, <3>1, <3>2, LaidKept DEF WholeInv
  <2>. QED
    BY <2>1, <2>2 DEF WholeInv, Restart
<1>9. CASE UNCHANGED vars
  <2>1. Kept /\ UNCHANGED <<lens, phase, need, head, delivered, torn, rejected>>
    BY <1>9 DEF vars, Kept, InFlight
  <2>2. ASSUME ~torn
        PROVE  \E s : Laid(s)'
    BY <2>1, <2>2, LaidKept DEF WholeInv
  <2>3. InBody' = InBody
    BY <2>1 DEF InBody, First
  <2>. QED
    BY <2>1, <2>2, <2>3 DEF WholeInv
<1>. QED
  BY <1>1, <1>2, <1>3, <1>4, <1>5, <1>6, <1>7, <1>8, <1>9 DEF Next, Receiver

\* The invariants hold at the start.
LEMMA WholeInit == Init => OrderInv /\ WholeInv
<1>1. Init => OrderInv
  BY DEF Init, OrderInv, InFlight, DeliveredInOrder
<1>2. Init => WholeInv
  <2>. SUFFICES ASSUME Init
                PROVE  WholeInv
    OBVIOUS
  <2>1. Len(lens) = 0 /\ Len(delivered) = 0 /\ First = 1
    BY DEF Init, First
  <2>2. Len(InFlight) = 0
    BY DEF Init, InFlight
  <2>. DEFINE s == [n \in {1} |-> 0]
  <2>3. 1..(0 + 1) = {1} /\ 1..0 = {}
    OBVIOUS
  <2>4. Laid(s)
    BY <2>1, <2>2, <2>3 DEF Laid
  <2>. QED
    BY <2>1, <2>4 DEF Init, WholeInv
<1>. QED
  BY <1>1, <1>2

\* recv_frame finds no fault with a connection on which no frame was torn.
THEOREM RejectionsJustified == Spec => []RejectsOnlyTorn
<1>1. WholeInv => RejectsOnlyTorn
  BY DEF WholeInv, RejectsOnlyTorn
<1>. QED
  BY <1>1, WholeInit, OrderStep, WholeStep, TypeCorrect, PTL DEF Spec

(***************************************************************************)
(* Each byte in flight is followed by the one that was sent after it.      *)
(***************************************************************************)
Contiguous ==
  /\ Len(InFlight) = 0 => Len(delivered) = Len(lens)
  /\ Len(InFlight) > 0 => /\ InFlight[1] = <<First, 1>>
                          /\ InFlight[Len(InFlight)] = <<Len(lens), Size(Len(lens))>>
  /\ \A p \in 1..(Len(InFlight) - 1) : InFlight[p + 1] = Following(InFlight[p])

\* A recv moves bytes from the wire to the buffer, not among each other.
LEMMA ContiguousKept ==
  ASSUME TypeOK, Contiguous, Kept, UNCHANGED <<lens, delivered>>
  PROVE  Contiguous'
<1>1. /\ Len(InFlight') = Len(InFlight) /\ Len(InFlight) \in Nat
      /\ \A p \in 1..Len(InFlight) : InFlight'[p] = InFlight[p]
  BY Parts DEF Kept
<1>2. \A p \in 1..(Len(InFlight) - 1) : p \in 1..Len(InFlight) /\ p + 1 \in 1..Len(InFlight)
  BY <1>1
<1>3. \A b : Following(b)' = Following(b)
  BY DEF Following
<1>4. ASSUME NEW p \in 1..(Len(InFlight) - 1)
      PROVE  InFlight'[p + 1] = Following(InFlight'[p])
  BY <1>1, <1>2 DEF Contiguous
<1>. QED
  BY <1>1, <1>3, <1>4 DEF Contiguous, First, Size, Following

\* A whole frame goes behind the last byte of the frame before it.
LEMMA ContiguousExtended ==
  ASSUME TypeOK, OrderInv, Contiguous, NEW len \in Nat,
         Extended(Len(lens) + 1, HeaderSize + len), lens' = Append(lens, len),
         delivered' = delivered
  PROVE  Contiguous'
<1>0. PICK n, L, k : n = Len(lens) + 1 /\ L = Len(InFlight) /\ k = HeaderSize + len
  OBVIOUS
<1>. DEFINE After(b) == IF b[2] < HeaderSize + lens'[b[1]] THEN <<b[1], b[2] + 1>>
                                                           ELSE <<b[1] + 1, 1>>
<1>. HIDE DEF After
<1>1. /\ Len(lens) \in Nat /\ Len(lens') = n /\ lens'[n] = len
      /\ \A m \in 1..Len(lens) : lens'[m] = lens[m]
  BY <1>0 DEF TypeOK
<1>2. L \in Nat /\ k \in Nat /\ k >= 1
  BY <1>0, Parts, SizeAssumption
<1>3. /\ Len(InFlight') = L + k
      /\ \A i \in 1..L : InFlight'[i] = InFlight[i]
      /\ \A i \in 1..k : InFlight'[L + i] = <<n, i>>
  BY <1>0 DEF Extended
<1>4. \A i \in 1..L : InFlight[i][1] \in 1..Len(lens)
  BY <1>0 DEF OrderInv, Valid, FrameNo
<1>5. InFlight'[L + k] = <<n, k>> /\ InFlight'[L + 1] = <<n, 1>>
  <2>1. k \in 1..k /\ 1 \in 1..k
    BY <1>2
  <2>. QED
    BY <1>3, <2>1
<1>6. InFlight'[1] = <<First', 1>>
  <2>1. CASE L = 0
    BY <1>0, <1>5, <2>1 DEF Contiguous, First
  <2>2. CASE L > 0
    <3>1. 1 \in 1..L
      BY <1>2, <2>2
    <3>. QED
      BY <1>0, <1>3, <2>2, <3>1 DEF Contiguous, First
  <2>. QED
    BY <1>2, <2>1, <2>2
<1>7. ASSUME NEW p \in 1..(L + k - 1)
      PROVE  InFlight'[p + 1] = After(InFlight'[p])
  <2>1. CASE p < L
    <3>1. p \in 1..L /\ p + 1 \in 1..L /\ p \in 1..(L - 1)
      BY <1>2, <2>1
    <3>2. InFlight[p + 1] = Following(InFlight[p])
      BY <1>0, <3>1 DEF Contiguous
    <3>3. lens'[InFlight[p][1]] = lens[InFlight[p][1]]
      BY <1>1, <1>4, <3>1
    <3>. QED
      BY <1>3, <3>1, <3>2, <3>3 DEF Following, After
  <2>2. CASE p = L
    <3>1. /\ L > 0 /\ InFlight'[p] = <<Len(lens), Size(Len(lens))>>
          /\ Len(lens) \in 1..Len(lens)
      <4>1. L > 0 /\ L \in 1..L
        BY <1>2, <2>2
      <4>2. InFlight[L] = <<Len(lens), Size(Len(lens))>>
        BY <1>0, <4>1 DEF Contiguous
      <4>3. InFlight[L][1] = Len(lens)
        BY <4>2
      <4>. QED
        BY <1>3, <1>4, <2>2, <4>1, <4>2, <4>3
    <3>2. lens'[Len(lens)] = lens[Len(lens)] /\ Size(Len(lens)) \in Nat
      BY <1>1, <3>1, SizeType
    <3>3. PICK m, z : m = Len(lens) /\ z = Size(Len(lens))
      OBVIOUS
    <3>4. /\ InFlight'[p] = <<m, z>> /\ m + 1 = n
          /\ z = HeaderSize + lens'[m] /\ z \in Nat
      BY <1>0, <3>1, <3>2, <3>3 DEF Size
    <3>5. After(InFlight'[p]) = <<n, 1>>
      <4>1. ~(z < HeaderSize + lens'[m])
        <5>1. z = HeaderSize + lens'[m] /\ z \in Nat
          BY <3>4
        <5>2. \A x \in Nat : ~(x < x)
          OBVIOUS
        <5>. QED
          BY <5>1, <5>2
      <4>2. After(<<m, z>>) = <<m + 1, 1>>
        BY <4>1 DEF After
      <4>. QED
        BY <3>4, <4>2
    <3>. QED
      BY <1>5, <2>2, <3>4, <3>5
  <2>3. CASE p > L
    <3>1. PICK i \in 1..k : p = L + i /\ i < k
      <4>1. p - L \in 1..k /\ p = L + (p - L) /\ p - L < k
        BY <1>2, <2>3
      <4>. QED
        BY <4>1
    <3>2. /\ i + 1 \in 1..k /\ p + 1 = L + (i + 1)
      BY <1>2, <3>1
    <3>3. InFlight'[p] = <<n, i>> /\ InFlight'[p + 1] = <<n, i + 1>>
      BY <1>3, <3>1, <3>2
    <3>4. i < HeaderSize + lens'[n]
      BY <1>0, <1>1, <3>1
    <3>5. After(<<n, i>>) = <<n, i + 1>>
      BY <3>4 DEF After
    <3>. QED
      BY <3>3, <3>5
  <2>. QED
    BY <1>2, <2>1, <2>2, <2>3
<1>8. InFlight'[Len(InFlight')] = <<Len(lens'), HeaderSize + lens'[Len(lens')]>>
  <2>1. InFlight'[L + k] = <<n, HeaderSize + lens'[n]>>
    BY <1>0, <1>1, <1>5
  <2>. QED
    BY <1>1, <1>3, <2>1
<1>9. Len(InFlight') > 0
  BY <1>2, <1>3
<1>10. \A p \in 1..(Len(InFlight') - 1) : InFlight'[p + 1] = After(InFlight'[p])
  <2>1. Len(InFlight') - 1 = L + k - 1
    BY <1>2, <1>3
  <2>. QED
    BY <1>7, <2>1
<1>. QED
  <2>1. /\ Len(InFlight') = 0 => Len(delivered') = Len(lens')
        /\ Len(InFlight') > 0 =>
             /\ InFlight'[1] = <<First', 1>>
             /\ InFlight'[Len(InFlight')] = <<Len(lens'), HeaderSize + lens'[Len(lens')]>>
    BY <1>6, <1>8, <1>9
  <2>2. \A p \in 1..(Len(InFlight') - 1) :
          InFlight'[p + 1] = IF InFlight'[p][2] < HeaderSize + lens'[InFlight'[p][1]]
                             THEN <<InFlight'[p][1], InFlight'[p][2] + 1>>
                             ELSE <<InFlight'[p][1] + 1, 1>>
    BY <1>10 DEF After
  <2>. QED
    BY <2>1, <2>2 DEF Contiguous, Size, Following

\* When recv_frame returns a frame, the one behind it becomes the first.
LEMMA ContiguousDropped ==
  ASSUME TypeOK, Contiguous, First \in 1..Len(lens), Taken = Size(First),
         \A k \in 1..Size(First) : InFlight[k] = <<First, k>>,
         Dropped, lens' = lens, Len(delivered') = Len(delivered) + 1
  PROVE  Contiguous'
<1>. DEFINE L == Len(InFlight)
<1>1. /\ L \in Nat /\ Taken \in Nat /\ Taken >= 1 /\ L >= Taken
      /\ First' = First + 1 /\ Len(delivered) \in Nat /\ First = Len(delivered) + 1
  <2>1. Taken \in Nat /\ Len(wire) \in Nat /\ L = Taken + Len(wire)
    BY Parts
  <2>2. Taken >= 1
    <3>1. First \in FrameNo
      BY DEF FrameNo
    <3>. QED
      BY <3>1, FrameType
  <2>. QED
    BY <2>1, <2>2 DEF TypeOK, First
<1>2. /\ Len(InFlight') = L - Taken
      /\ \A i \in 1..(L - Taken) : InFlight'[i] = InFlight[Taken + i]
  BY DEF Dropped
<1>3. /\ InFlight[Taken] = <<First, Taken>>
      /\ InFlight[L] = <<Len(lens), Size(Len(lens))>>
      /\ \A p \in 1..(L - 1) : InFlight[p + 1] = Following(InFlight[p])
  BY <1>1 DEF Contiguous
<1>. HIDE DEF L
<1>4. ASSUME L = Taken
      PROVE  Len(delivered') = Len(lens')
  <2>1. <<First, Taken>> = <<Len(lens), Size(Len(lens))>>
    BY <1>3, <1>4
  <2>2. First = Len(lens)
    BY <2>1
  <2>. QED
    BY <1>1, <2>2
<1>5. ASSUME L > Taken
      PROVE  /\ InFlight'[1] = <<First', 1>>
             /\ InFlight'[L - Taken] = <<Len(lens), Size(Len(lens))>>
  <2>1. /\ 1 \in 1..(L - Taken) /\ L - Taken \in 1..(L - Taken) /\ Taken + (L - Taken) = L
        /\ Taken \in 1..(L - 1)
    BY <1>1, <1>5
  <2>2. InFlight[Taken + 1] = Following(<<First, Taken>>)
    BY <1>3, <2>1
  <2>3. Following(<<First, Taken>>) = <<First + 1, 1>>
    BY <1>1 DEF Following, Size
  <2>4. InFlight'[1] = InFlight[Taken + 1] /\ InFlight'[L - Taken] = InFlight[L]
    BY <1>2, <2>1
  <2>. QED
    BY <1>1, <1>3, <2>2, <2>3, <2>4
<1>6. ASSUME NEW p \in 1..(L - Taken - 1)
      PROVE  InFlight'[p + 1] = Following(InFlight'[p])
  <2>1. /\ p \in 1..(L - Taken) /\ p + 1 \in 1..(L - Taken) /\ Taken + p \in 1..(L - 1)
        /\ Taken + (p + 1) = (Taken + p) + 1
    BY <1>1
  <2>2. InFlight'[p] = InFlight[Taken + p] /\ InFlight'[p + 1] = InFlight[(Taken + p) + 1]
    BY <1>2, <2>1
  <2>. QED
    BY <1>3, <2>1, <2>2
<1>7. /\ \A b : Following(b)' = Following(b)
      /\ Size(Len(lens))' = Size(Len(lens))
  BY DEF Following, Size
<1>8. /\ Len(InFlight') = 0 => L = Taken
      /\ Len(InFlight') > 0 => L > Taken
  BY <1>1, <1>2
<1>. QED
  BY <1>2, <1>4, <1>5, <1>6, <1>7, <1>8 DEF Contiguous, Following

\* Every step keeps the bytes together, unless it tears a frame.
LEMMA ContiguousStep ==
  ASSUME TypeOK, OrderInv, WholeInv, ~torn => Contiguous, [Next]_vars, ~torn'
  PROVE  Contiguous'
<1>1. ~torn /\ Contiguous
  <2>1. torn => torn'
    <3>1. CASE \E p \in 0..MaxPayload : SendFrame(p) \/ SendCut(p)
      BY <3>1 DEF SendFrame, SendCut
    <3>2. CASE Recv \/ HeaderOk \/ HeaderRejected \/ BodyOk \/ BodyRejected \/ RecvTimeout
      BY <3>2 DEF Recv, HeaderOk, HeaderRejected, BodyOk, BodyRejected, RecvTimeout
    <3>. QED
      BY <3>1, <3>2 DEF Next, Receiver, vars
  <2>. QED
    BY <2>1
<1>2. WholeInv'
  BY WholeStep
<1>3. ASSUME NEW p \in 0..MaxPayload, SendFrame(p)
      PROVE  Contiguous'
  <2>1. lens' = Append(lens, Overhead + p) /\ delivered' = delivered
    BY <1>3 DEF SendFrame
  <2>2. Extended(Len(lens) + 1, HeaderSize + (Overhead + p)) /\ Overhead + p \in Nat
    BY <1>3, SendExtends, SizeAssumption
  <2>. QED
    BY <1>1, <2>1, <2>2, ContiguousExtended
<1>4. CASE \E p \in 0..MaxPayload : SendCut(p)
  BY <1>4 DEF SendCut
<1>5. CASE Recv \/ HeaderOk
  <2>1. Kept /\ UNCHANGED <<lens, delivered>>
    BY <1>5, TypeStep, RecvKeeps, HeaderKeeps DEF Recv, HeaderOk
  <2>. QED
    BY <1>1, <2>1, ContiguousKept
<1>6. CASE HeaderRejected \/ BodyRejected
  BY <1>2, <1>6 DEF HeaderRejected, BodyRejected, WholeInv
<1>7. CASE BodyOk
  <2>1. /\ phase = "body" /\ Len(buf) = need /\ Restart /\ UNCHANGED <<lens, wire>>
        /\ \E n \in FrameNo : Whole(n) /\ delivered' = Append(delivered, n)
    BY <1>7 DEF BodyOk
  <2>2. First \in FrameNo /\ Taken = Size(First)
    BY <1>1, <2>1, BodyRead
  <2>3. Taken > 0
    BY <2>2, FrameType
  <2>4. \A k \in 1..Size(First) : InFlight[k] = <<First, k>>
    BY <1>1, <2>3, FirstFrame
  <2>5. Len(delivered') = Len(delivered) + 1
    BY <2>1 DEF TypeOK
  <2>6. Dropped
    BY <2>1, RestartDrops
  <2>. QED
    BY <1>1, <2>1, <2>2, <2>4, <2>5, <2>6, ContiguousDropped DEF FrameNo
<1>8. CASE RecvTimeout
  <2>1. Kept /\ UNCHANGED <<lens, delivered>>
    BY <1>8, TimeoutKeeps DEF RecvTimeout
  <2>. QED
    BY <1>1, <2>1, ContiguousKept
<1>9. CASE UNCHANGED vars
  <2>1. Kept /\ UNCHANGED <<lens, delivered>>
    BY <1>9 DEF vars, Kept, InFlight
  <2>. QED
    BY <1>1, <2>1, ContiguousKept
<1>. QED
  BY <1>3, <1>4, <1>5, <1>6, <1>7, <1>8, <1>9 DEF Next, Receiver

\* Without a torn frame every byte sent is in a frame returned or in flight, at its
\* place, for all sizes and however recv cuts the bytes up.
THEOREM BytesKept == Spec => []BytesConserved
<1>1. Init => (~torn => Contiguous)
  <2>1. Init => Len(InFlight) = 0
    BY DEF Init, InFlight
  <2>. QED
    BY <2>1 DEF Init, Contiguous
<1>2. /\ TypeOK /\ OrderInv /\ WholeInv
      /\ ~torn => Contiguous
      /\ [Next]_vars
      => (~torn => Contiguous)'
  BY ContiguousStep
<1>3. TypeOK /\ WholeInv /\ (~torn => Contiguous) => BytesConserved
  <2>. SUFFICES ASSUME TypeOK, WholeInv, Contiguous, ~torn
                PROVE  BytesConserved
    BY DEF BytesConserved
  <2>1. InFlight \in Seq(Byte) /\ Len(InFlight) \in Nat
    BY Parts
  <2>2. InFlight = <<>> <=> Len(InFlight) = 0
    BY <2>1
  <2>. QED
    BY <2>1, <2>2 DEF BytesConserved, Contiguous, WholeInv, First, Size
<1>. QED
  BY <1>1, <1>2, <1>3, WholeInit, OrderStep, WholeStep, TypeCorrect, PTL DEF Spec
=============================================================================
