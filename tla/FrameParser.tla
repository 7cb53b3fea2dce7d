---------------------------- MODULE FrameParser ----------------------------
(***************************************************************************)
(* Frames on the byte stream of one connection: a sender writes header and *)
(* payload, TCP delivers the bytes in pieces cut anywhere, and the         *)
(* receiver cuts them into frames again (OnTraffic of the server's two     *)
(* handlers, over gnet's inbound buffer).  A header that does not validate *)
(* or announces too much makes the receiver discard all it has and go on   *)
(* with what comes next, wherever in a frame that is.                      *)
(*                                                                         *)
(* A byte is a number.  The header is three bytes long: Magic for all that *)
(* Validate tests (magic number, version, type), the number of the frame   *)
(* for session and sequence id, and the length.                            *)
(***************************************************************************)
EXTENDS Naturals, Sequences

CONSTANTS
  Magic,        \* the header's valid first byte
  Bytes,        \* bytes of payloads; Magic may be one of them
  MaxLen,       \* length of the longest payload a sender may send
  MaxPayload,   \* longest payload the receiver takes
  ReadSize,     \* bytes that one read can bring
  MaxFrames     \* bound: frames sent

VARIABLES
  sent,    \* history: the payloads sent
  ends,    \* history: where each of their frames ends in the stream
  wire,    \* bytes on their way
  inb,     \* the receiver's buffer
  pc,      \* "read", or "parse" while there may be a frame in inb
  got,     \* history: the frames handed to the handler
  base     \* history: bytes received and frames handed over at the last discard

vars == <<sent, ends, wire, inb, pc, got, base>>

HeaderSize == 3
Marshal(id, payload) == <<Magic, id, Len(payload)>> \o payload

(* Operators of the buffer b, which begins with a header.                  *)
HasHeader(b) == Len(b) >= HeaderSize
Length(b)    == b[3]
Total(b)     == HeaderSize + Length(b)
FirstFrame(b) == [id |-> b[2], payload |-> SubSeq(b, HeaderSize + 1, Total(b))]

(* Mutant: only the length is looked at.                                   *)
RefusedByLength(b) == HasHeader(b) /\ Length(b) > MaxPayload

(* Validate fails, or the length exceeds the limit.                        *)
Refused(b) == HasHeader(b) /\ (b[1] # Magic \/ Length(b) > MaxPayload)

Complete(b) == HasHeader(b) /\ ~Refused(b) /\ Len(b) >= Total(b)

Payloads == UNION {[1 .. n -> Bytes] : n \in 0 .. MaxLen}

(* The last byte of the stream that belongs to the first k frames.         *)
End(k) == IF k = 0 THEN 0 ELSE ends[k]

Received == End(Len(sent)) - Len(wire)

Init ==
  /\ sent = <<>> /\ ends = <<>> /\ wire = <<>> /\ inb = <<>> /\ pc = "read" /\ got = <<>>
  /\ base = [bytes |-> 0, frames |-> 0]

(* The sender writes a frame (MarshalTo, copy).                            *)
Send(p) ==
  /\ Len(sent) < MaxFrames
  /\ sent' = Append(sent, p) /\ ends' = Append(ends, End(Len(sent)) + HeaderSize + Len(p))
  /\ wire' = wire \o Marshal(Len(sent) + 1, p)
  /\ UNCHANGED <<inb, pc, got, base>>

(* The next n bytes arrive, and OnTraffic begins.                          *)
Read(n) ==
  /\ pc = "read" /\ n <= Len(wire)
  /\ inb' = inb \o SubSeq(wire, 1, n) /\ wire' = SubSeq(wire, n + 1, Len(wire))
  /\ pc' = "parse"
  /\ UNCHANGED <<sent, ends, got, base>>

(* No whole frame: wait for more.                                          *)
Short ==
  /\ pc = "parse" /\ ~Refused(inb) /\ ~Complete(inb)
  /\ pc' = "read"
  /\ UNCHANGED <<sent, ends, wire, inb, got, base>>

(* A refused header: Discard(InboundBuffered()).                           *)
Discard ==
  /\ pc = "parse" /\ Refused(inb)
  /\ inb' = <<>> /\ pc' = "read" /\ base' = [bytes |-> Received, frames |-> Len(got)]
  /\ UNCHANGED <<sent, ends, wire, got>>

(* Discard(HeaderSize), Next(Length), the handler.                         *)
Handle ==
  /\ pc = "parse" /\ Complete(inb)
  /\ got' = Append(got, FirstFrame(inb)) /\ inb' = SubSeq(inb, Total(inb) + 1, Len(inb))
  /\ UNCHANGED <<sent, ends, wire, pc, base>>

Next ==
  \/ \E p \in Payloads : Send(p)
  \/ \E n \in 1 .. ReadSize : Read(n)
  \/ Short \/ Discard \/ Handle

Spec == Init /\ [][Next]_vars
-----------------------------------------------------------------------------
Frame(k) == [id |-> k, payload |-> sent[k]]

(* As long as nothing was discarded, or if by chance all that was          *)
(* discarded ended with a frame, the handler gets every frame since then,  *)
(* whole, once and in order, wherever the stream is cut and whatever its   *)
(* payloads contain; between two reads it has got all that have arrived.   *)
Synced ==
  \A k \in 0 .. Len(sent) :
    End(k) = base.bytes =>
      LET n == Len(got) - base.frames IN
        /\ k + n <= Len(sent)
        /\ \A i \in 1 .. n : got[base.frames + i] = Frame(k + i)
        /\ pc = "read" /\ k + n < Len(sent) => Received < End(k + n + 1)

(* No byte but the first of a frame looks like the begin of a header.      *)
Unmistakable ==
  \A k \in 1 .. Len(sent) :
    k # Magic /\ Len(sent[k]) # Magic /\ \A i \in 1 .. Len(sent[k]) : sent[k][i] # Magic

(* Out of step, the receiver still takes nothing for a frame that is none: *)
(* unless a frame contains what looks like a header, what it hands over    *)
(* are frames that were sent, in order and none twice.                     *)
Genuine ==
  Unmistakable =>
    /\ \A i \in 1 .. Len(got) : got[i].id \in 1 .. Len(sent) /\ got[i] = Frame(got[i].id)
    /\ \A i, j \in 1 .. Len(got) : i < j => got[i].id < got[j].id

(* What the handler gets, in step and out of step.                         *)
FramesIntact == Synced /\ Genuine
=============================================================================
