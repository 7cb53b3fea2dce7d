---------------------------- MODULE StreamBuffer ----------------------------
(***************************************************************************)
(* The client's receiver of frames: handleDownstream reads into a          *)
(* StreamBuffer and takes frames out of it with NextRef.  The bytes lie in *)
(* an array (mem) of which buf covers the first len and off have been      *)
(* consumed; Write moves the rest to the front only when there is no room, *)
(* and a frame's payload is a reference into the array, read by the        *)
(* handler after NextRef has moved on.  The module shows that this does    *)
(* what FrameParser does with a plain queue of bytes.                      *)
(***************************************************************************)
EXTENDS Naturals, Sequences

CONSTANTS Magic, Bytes, MaxLen, MaxPayload, ReadSize, MaxFrames, NoFrame

ASSUME FrameAssumption ==
  /\ Magic \in Nat /\ Bytes \subseteq Nat
  /\ MaxLen \in Nat /\ MaxPayload \in Nat /\ ReadSize \in Nat \ {0} /\ MaxFrames \in Nat
  /\ NoFrame \notin [id : Nat, from : Nat, to : Nat]

VARIABLES
  sent, ends, wire, pc, got, base,   \* as in FrameParser; pc may be "handle"
  mem,        \* the array; Len(mem) is cap(buf)
  len, off,   \* len(buf) and off
  ref         \* the frame NextRef has returned: id, and payload as positions

stream == <<sent, ends, wire>>
vars == <<stream, pc, got, base, mem, len, off, ref>>

Unread == SubSeq(mem, off + 1, len)

(* The frame that ref stands for, read from the array now.                 *)
Deref(r) == [id |-> r.id, payload |-> SubSeq(mem, r.from, r.to)]

Parser == INSTANCE FrameParser WITH
  inb <- Unread,
  pc  <- IF pc = "handle" THEN "parse" ELSE pc,
  got <- IF ref = NoFrame THEN got ELSE Append(got, Deref(ref))

(* NewStreamBuffer(BufferSize, ...); BufferSize also is what one Read      *)
(* brings at most.                                                         *)
Init ==
  /\ sent = <<>> /\ ends = <<>> /\ wire = <<>> /\ pc = "read" /\ got = <<>>
  /\ base = [bytes |-> 0, frames |-> 0]
  /\ mem = [i \in 1 .. (IF ReadSize < Parser!HeaderSize THEN Parser!HeaderSize ELSE ReadSize) |-> 0]
  /\ len = 0 /\ off = 0 /\ ref = NoFrame

Send(p) ==
  /\ Len(sent) < MaxFrames
  /\ sent' = Append(sent, p)
  /\ ends' = Append(ends, Parser!End(Len(sent)) + Parser!HeaderSize + Len(p))
  /\ wire' = wire \o Parser!Marshal(Len(sent) + 1, p)
  /\ UNCHANGED <<pc, got, base, mem, len, off, ref>>

(* s copied into the array m from position i + 1 on.                       *)
Copy(m, i, s) == [j \in 1 .. Len(m) |-> IF j - i \in 1 .. Len(s) THEN s[j - i] ELSE m[j]]

(* append: a larger array if there is no room, of the size needed or, if   *)
(* that is more, up to twice the old one.  Go then rounds up to a size     *)
(* class, which is left out: it only adds room at the end.                 *)
Grow(m, need) ==
  IF need <= Len(m) THEN {m}
  ELSE {m \o [i \in 1 .. (c - Len(m)) |-> 0] : c \in {need} \cup (need .. 2 * Len(m))}

(* Mutant: the unread bytes are never moved to the front.                  *)
WriteNoCompaction(s) ==
  /\ \E m \in Grow(mem, len + Len(s)) : mem' = Copy(m, len, s)
  /\ len' = len + Len(s) /\ UNCHANGED off

Write(s) ==
  IF off > 0 /\ len + Len(s) > Len(mem)
  THEN /\ \E m \in Grow(Copy(mem, 0, Unread), len - off + Len(s)) : mem' = Copy(m, len - off, s)
       /\ len' = len - off + Len(s) /\ off' = 0
  ELSE /\ \E m \in Grow(mem, len + Len(s)) : mem' = Copy(m, len, s)
       /\ len' = len + Len(s) /\ UNCHANGED off

(* conn.Read brings n bytes.                                               *)
Read(n) ==
  /\ pc = "read" /\ n <= Len(wire)
  /\ Write(SubSeq(wire, 1, n)) /\ wire' = SubSeq(wire, n + 1, Len(wire))
  /\ pc' = "parse"
  /\ UNCHANGED <<sent, ends, got, base, ref>>

(* NextRef finds no whole frame.                                           *)
NextShort ==
  /\ pc = "parse" /\ ~Parser!Refused(Unread) /\ ~Parser!Complete(Unread)
  /\ pc' = "read"
  /\ UNCHANGED <<stream, got, base, mem, len, off, ref>>

(* NextRef returns an error, and handleDownstream calls Reset.             *)
NextError ==
  /\ pc = "parse" /\ Parser!Refused(Unread)
  /\ len' = 0 /\ off' = 0 /\ pc' = "read"
  /\ base' = [bytes |-> Parser!Received, frames |-> Len(got)]
  /\ UNCHANGED <<stream, got, mem, ref>>

(* Mutant: NextRef moves the remaining bytes to the front at once.         *)
NextRefCompacts ==
  /\ pc = "parse" /\ Parser!Complete(Unread)
  /\ ref' = [id |-> Parser!FirstFrame(Unread).id,
             from |-> off + Parser!HeaderSize + 1, to |-> off + Parser!Total(Unread)]
  /\ mem' = Copy(mem, 0, SubSeq(mem, off + Parser!Total(Unread) + 1, len))
  /\ off' = 0 /\ len' = len - off - Parser!Total(Unread)
  /\ pc' = "handle"
  /\ UNCHANGED <<stream, got, base>>

NextRef ==
  /\ pc = "parse" /\ Parser!Complete(Unread)
  /\ ref' = [id |-> Parser!FirstFrame(Unread).id,
             from |-> off + Parser!HeaderSize + 1, to |-> off + Parser!Total(Unread)]
  /\ LET o == off + Parser!Total(Unread) IN
       IF o = len THEN len' = 0 /\ off' = 0        \* Reset
       ELSE off' = o /\ UNCHANGED len
  /\ pc' = "handle"
  /\ UNCHANGED <<stream, got, base, mem>>

(* handleDownstreamPacket reads the payload.                               *)
Handle ==
  /\ pc = "handle"
  /\ got' = Append(got, Deref(ref)) /\ ref' = NoFrame /\ pc' = "parse"
  /\ UNCHANGED <<stream, base, mem, len, off>>

Next ==
  \/ \E p \in Parser!Payloads : Send(p)
  \/ \E n \in 1 .. ReadSize : Read(n)
  \/ NextShort \/ NextError \/ NextRef \/ Handle

Spec == Init /\ [][Next]_vars
-----------------------------------------------------------------------------
(* Every variable has a value of its kind, buf lies in the array, and the  *)
(* array does not grow with the traffic: it never holds more than a frame  *)
(* that lacks its last byte and one read, but for what append adds.        *)
BufferSound ==
  /\ sent \in Seq(Parser!Payloads) /\ ends \in Seq(Nat) /\ wire \in Seq(Nat)
  /\ pc \in {"read", "parse", "handle"}
  /\ base \in [bytes : Nat, frames : Nat]
  /\ mem \in Seq(Nat) /\ off \in 0 .. len /\ len \in 0 .. Len(mem)
  /\ IF pc = "handle" THEN ref.to <= Len(mem) ELSE ref = NoFrame
  /\ Len(mem) <= 2 * (Parser!HeaderSize + MaxPayload - 1 + ReadSize)

(* StreamBuffer is one of FrameParser's receivers: references into a       *)
(* buffer that is reused and moved are never read after their bytes have   *)
(* changed.                                                                *)
ParsesFrames == Parser!Spec

(* In step, the handler gets every frame sent, whole, once and in order;   *)
(* out of step it gets nothing that is not a frame (Synced and Genuine in  *)
(* FrameParser).                                                           *)
FramesIntact == Parser!FramesIntact
=============================================================================
