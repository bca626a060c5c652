------------------------------- MODULE Framing -------------------------------
(***************************************************************************)
(* crypto/protocol.py: send_frame at one end of a TCP connection and       *)
(* recv_frame, with recv_exact, at the other; one direction of it.         *)
(*                                                                         *)
(* TCP keeps bytes in order but not in pieces: one recv returns any part   *)
(* of what has been sent.  A send may be cut short and a recv given up by  *)
(* a timeout, and the callers may use the connection again after that.     *)
(*                                                                         *)
(* A byte is named by its frame and its place in it.  The length in a      *)
(* header means what the sender wrote only if the header was read whole;   *)
(* an HMAC and a decryption succeed only on a body read whole.             *)
(***************************************************************************)
EXTENDS Naturals, Sequences

CONSTANTS
  HeaderSize,    \* HEADER_SIZE
  Overhead,      \* type, session id, nonce and HMAC: min_body in recv_frame
  MaxFrameSize,  \* MAX_FRAME_SIZE
  MaxPayload,    \* bound: the longest payload
  MaxFrames      \* bound: frames sent

ASSUME SizeAssumption ==
  /\ HeaderSize \in Nat \ {0} /\ Overhead \in Nat \ {0} /\ MaxFrameSize \in Nat
  /\ MaxPayload \in Nat /\ MaxFrames \in Nat

VARIABLES
  lens,       \* total_len of the frames whose sending began
  wire,       \* bytes sent and not yet received
  phase,      \* which recv_exact of recv_frame runs
  need,       \* how many bytes it wants
  head,       \* the header, once read
  buf,        \* buf of recv_exact
  delivered,  \* the frames recv_frame returned
  torn,       \* history: a send was cut or a recv given up in a frame
  rejected    \* history: recv_frame raised a ValueError

vars == <<lens, wire, phase, need, head, buf, delivered, torn, rejected>>

FrameNo == 1..Len(lens)

\* The bytes of the n-th frame, header first, if its total_len is len.
Bytes(n, len) == [k \in 1..(HeaderSize + len) |-> <<n, k>>]

Byte == (1..MaxFrames) \X (1..(HeaderSize + MaxFrameSize))

TypeOK ==
  /\ lens \in Seq(Overhead..MaxFrameSize) /\ Len(lens) <= MaxFrames
  /\ wire \in Seq(Byte) /\ head \in Seq(Byte) /\ buf \in Seq(Byte)
  /\ phase \in {"header", "body"}
  /\ need \in 0..(HeaderSize + MaxFrameSize) /\ Len(buf) <= need
  /\ delivered \in Seq(FrameNo)
  /\ torn \in BOOLEAN /\ rejected \in BOOLEAN

Init ==
  /\ lens = <<>> /\ wire = <<>>
  /\ phase = "header" /\ need = HeaderSize
  /\ head = <<>> /\ buf = <<>>
  /\ delivered = <<>>
  /\ torn = FALSE /\ rejected = FALSE

(***************************************************************************)
(* send_frame.                                                             *)
(***************************************************************************)
FitsPayloadOnly(len) == len - Overhead <= MaxFrameSize

\* A larger frame raises ValueError before a byte of it is sent.
Fits(len) == len <= MaxFrameSize

SendFrame(payload) ==
  LET len == Overhead + payload
      n   == Len(lens) + 1
  IN  /\ n <= MaxFrames /\ Fits(len)
      /\ lens' = Append(lens, len)
      /\ wire' = wire \o Bytes(n, len)
      /\ UNCHANGED <<phase, need, head, buf, delivered, torn, rejected>>

\* sendall times out: a part of the frame is sent.
SendCut(payload) ==
  LET len == Overhead + payload
      n   == Len(lens) + 1
  IN  /\ n <= MaxFrames /\ Fits(len)
      /\ lens' = Append(lens, len)
      /\ \E k \in 0..(HeaderSize + len - 1) :
           wire' = wire \o SubSeq(Bytes(n, len), 1, k)
      /\ torn' = TRUE
      /\ UNCHANGED <<phase, need, head, buf, delivered, rejected>>

(***************************************************************************)
(* recv_exact and recv_frame.                                              *)
(***************************************************************************)
SmallerOf(a, b) == IF a < b THEN a ELSE b

RecvWithoutCount ==
  /\ Len(buf) < need
  /\ \E k \in 1..Len(wire) :
       /\ buf' = buf \o SubSeq(wire, 1, SmallerOf(k, need - Len(buf)))
       /\ wire' = SubSeq(wire, k + 1, Len(wire))
  /\ UNCHANGED <<lens, phase, need, head, delivered, torn, rejected>>

\* recv(n - len(buf)) returns some of the bytes that are there.
Recv ==
  /\ Len(buf) < need
  /\ \E k \in 1..Len(wire) :
       /\ k <= need - Len(buf)
       /\ buf' = buf \o SubSeq(wire, 1, k)
       /\ wire' = SubSeq(wire, k + 1, Len(wire))
  /\ UNCHANGED <<lens, phase, need, head, delivered, torn, rejected>>

\* The next call of recv_frame starts from nothing.
Restart == phase' = "header" /\ need' = HeaderSize /\ head' = <<>> /\ buf' = <<>>

\* What struct.unpack makes of a header: the length, or some number if the
\* bytes are not those of one header.
Lengths(bytes) ==
  LET whole == {n \in FrameNo : bytes = SubSeq(Bytes(n, lens[n]), 1, HeaderSize)}
  IN  IF whole # {} THEN {lens[n] : n \in whole} ELSE 0..(MaxFrameSize + 1)

AcceptableCountsHeader(len) == Overhead <= len /\ HeaderSize + len <= MaxFrameSize

Acceptable(len) == Overhead <= len /\ len <= MaxFrameSize

HeaderOk ==
  /\ phase = "header" /\ Len(buf) = need
  /\ \E len \in Lengths(buf) : Acceptable(len) /\ need' = len
  /\ phase' = "body" /\ head' = buf /\ buf' = <<>>
  /\ UNCHANGED <<lens, wire, delivered, torn, rejected>>

HeaderRejected ==
  /\ phase = "header" /\ Len(buf) = need
  /\ \E len \in Lengths(buf) : ~Acceptable(len)
  /\ Restart /\ rejected' = TRUE
  /\ UNCHANGED <<lens, wire, delivered, torn>>

Whole(n) == head \o buf = Bytes(n, lens[n])

BodyOkKeepsBuffers ==
  /\ phase = "body" /\ Len(buf) = need
  /\ \E n \in FrameNo : Whole(n) /\ delivered' = Append(delivered, n)
  /\ UNCHANGED <<lens, wire, phase, need, head, buf, torn, rejected>>

BodyOk ==
  /\ phase = "body" /\ Len(buf) = need
  /\ \E n \in FrameNo : Whole(n) /\ delivered' = Append(delivered, n)
  /\ Restart
  /\ UNCHANGED <<lens, wire, torn, rejected>>

\* HMAC verification failed.
BodyRejected ==
  /\ phase = "body" /\ Len(buf) = need
  /\ \A n \in FrameNo : ~Whole(n)
  /\ Restart /\ rejected' = TRUE
  /\ UNCHANGED <<lens, wire, delivered, torn>>

\* The exception leaves recv_exact, and buf is lost with the frame's bytes.
RecvTimeout ==
  /\ Len(buf) < need
  /\ torn' = (torn \/ head \o buf # <<>>)
  /\ Restart
  /\ UNCHANGED <<lens, wire, delivered, rejected>>

Receiver == Recv \/ HeaderOk \/ HeaderRejected \/ BodyOk \/ BodyRejected

Next == \/ \E p \in 0..MaxPayload : SendFrame(p) \/ SendCut(p)
        \/ Receiver \/ RecvTimeout

Spec == Init /\ [][Next]_vars

\* Bytes that have arrived are received.
FairSpec == Spec /\ WF_vars(Receiver)

(***************************************************************************)
(* Properties.                                                             *)
(***************************************************************************)
\* What recv_exact has taken and not given back, and what is still on the wire.
InFlight == head \o buf \o wire

\* The byte sent next after b.
Following(b) == IF b[2] < HeaderSize + lens[b[1]] THEN <<b[1], b[2] + 1>>
                                                  ELSE <<b[1] + 1, 1>>

\* As long as no frame was torn, no byte is lost, doubled or moved: the frames
\* returned are the first ones sent, and the bytes in flight go on without a gap
\* from the first byte of the next frame to the last byte sent.
BytesConserved ==
  ~torn =>
    /\ \A d \in 1..Len(delivered) : delivered[d] = d
    /\ InFlight = <<>> => Len(delivered) = Len(lens)
    /\ InFlight # <<>> =>
         /\ InFlight[1] = <<Len(delivered) + 1, 1>>
         /\ InFlight[Len(InFlight)] = <<Len(lens), HeaderSize + lens[Len(lens)]>>
    /\ \A p \in 1..(Len(InFlight) - 1) : InFlight[p + 1] = Following(InFlight[p])

\* Even on a connection that is used after a torn frame, a frame is returned
\* at most once and never after a later one.
DeliveredInOrder ==
  \A j, k \in 1..Len(delivered) : j < k => delivered[j] < delivered[k]

\* A frame that send_frame let pass is not one recv_frame finds too large, too
\* small or broken: a ValueError means that a frame was torn before.
RejectsOnlyTorn == rejected => torn

\* What is sent is returned, unless a frame is torn.
FramesArrive ==
  \A n \in 1..MaxFrames : Len(lens) >= n ~> Len(delivered) >= n \/ torn
=============================================================================
