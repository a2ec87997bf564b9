------------------------------ MODULE EhRingbuf ------------------------------
(***************************************************************************)
(* Ring buffers (src/src/general/eh_ringbuf.c) with one writer and one     *)
(* reader that take no lock.  Both indices run from 0 to twice the size,   *)
(* so that a full buffer differs from an empty one.  A call reads the      *)
(* other side's index, copies, and then stores its own index; these are    *)
(* three steps here, and loads and stores are taken in program order.      *)
(*                                                                         *)
(* Indices are uint32_t, their difference is an int32_t: integers modulo   *)
(* RingWidth.                                                              *)
(***************************************************************************)
EXTENDS Integers, SequencesExt

CONSTANTS
  RingSizes,  \* the sizes a buffer is created with
  RingWidth,  \* 2^32
  RingByte    \* the bytes that are written

(* Twice the size has to be an int32_t, and so has any difference of the indices: the *)
(* comment of eh_ringbuf_create allows twice as much.                                 *)
ASSUME RingAssumption ==
  /\ RingWidth \in Nat /\ RingSizes \subseteq Nat \ {0}
  /\ \A n \in RingSizes : 2 * n < RingWidth \div 2 + 1

VARIABLES
  ringSize,   \* size, 0 before the buffer is created
  ringW,      \* w
  ringR,      \* r
  ringBuf,    \* buf
  ringPut,    \* what the writer is about to do: bytes to copy, bytes drafted before, bytes to publish
  ringGet,    \* what the reader is about to do: bytes to publish and those copied
  ringPeek,   \* where eh_ringbuf_peek has shown how many bytes, until the reader moves its index
  ringTaken   \* history: the bytes the last eh_ringbuf_read has returned

ringVars == <<ringSize, ringW, ringR, ringBuf, ringPut, ringGet, ringPeek, ringTaken>>

RingNothing == [step |-> "none", n |-> 0, bytes |-> << >>, at |-> 0]

RingStart ==
  /\ ringSize = 0 /\ ringW = 0 /\ ringR = 0 /\ ringBuf = << >>
  /\ ringPut = RingNothing /\ ringGet = RingNothing /\ ringPeek = RingNothing
  /\ ringTaken = << >>

-----------------------------------------------------------------------------
RingSigned(x) == LET y == x % RingWidth IN IF y < RingWidth \div 2 THEN y ELSE y - RingWidth
RingDiff == RingSigned(ringW - ringR)

\* eh_ringbuf_size
RingUsed == IF RingDiff >= 0 THEN RingDiff ELSE 2 * ringSize + RingDiff
\* eh_ringbuf_free_size
RingFree == IF RingDiff >= 0 THEN ringSize - RingDiff ELSE -(ringSize + RingDiff)

\* Mutant: the index wraps at the size.
RingFixMutant(pos) == (pos % RingWidth) % ringSize

\* eh_ringbuf_fix
RingFix(pos) == (pos % RingWidth) % (2 * ringSize)

Least(a, b) == IF a < b THEN a ELSE b
RingPos(index, i) == (index + i) % ringSize   \* bytes of buf are numbered from 0

\* The bytes from an index on, around the end of the buffer if need be.
RingBytes(index, n) == [i \in 1 .. n |-> ringBuf[RingPos(index, i - 1)]]
RingStored(index, s) ==
  [p \in DOMAIN ringBuf |->
     IF \E i \in DOMAIN s : RingPos(index, i - 1) = p
     THEN s[CHOOSE i \in DOMAIN s : RingPos(index, i - 1) = p] ELSE ringBuf[p]]

\* eh_ringbuf_create; the memory holds any bytes.
RingCreate(n) ==
  /\ ringSize = 0
  /\ ringSize' = n
  /\ ringW' = 0 /\ ringR' = 0
  /\ \E b \in RingByte : ringBuf' = [p \in 0 .. n - 1 |-> b]
  /\ UNCHANGED <<ringPut, ringGet, ringPeek, ringTaken>>

\* eh_ringbuf_write, eh_ringbuf_draft_write behind what has been drafted: the free
\* size is looked at, which the reader may enlarge meanwhile.
RingWriteLook(s, draft) ==
  LET offset == IF ringPut.step = "drafted" THEN ringPut.n ELSE 0
      n      == Least(Len(s), RingFree - offset)
  IN  /\ ringSize # 0
      /\ ringPut.step = "none" \/ (draft /\ ringPut.step = "drafted")
      /\ n > 0
      /\ ringPut' = [step |-> IF draft THEN "draft" ELSE "write", n |-> offset + n,
                     bytes |-> SubSeq(s, 1, n), at |-> offset]
      /\ UNCHANGED <<ringSize, ringW, ringR, ringBuf, ringGet, ringPeek, ringTaken>>

RingWriteCopy ==
  /\ ringPut.step \in {"write", "draft"}
  /\ ringBuf' = RingStored(ringW + ringPut.at, ringPut.bytes)
  /\ ringPut' = [RingNothing EXCEPT !.step = IF ringPut.step = "draft" THEN "drafted" ELSE "publish",
                                    !.n = ringPut.n]
  /\ UNCHANGED <<ringSize, ringW, ringR, ringGet, ringPeek, ringTaken>>

\* eh_ringbuf_write_skip of what has been drafted
RingWriteSkip ==
  /\ ringPut.step = "drafted"
  /\ Least(ringPut.n, RingFree) > 0
  /\ ringPut' = [RingNothing EXCEPT !.step = "publish", !.n = Least(ringPut.n, RingFree)]
  /\ UNCHANGED <<ringSize, ringW, ringR, ringBuf, ringGet, ringPeek, ringTaken>>

RingWritePublish ==
  /\ ringPut.step = "publish"
  /\ ringW' = RingFix(ringW + ringPut.n)
  /\ ringPut' = RingNothing
  /\ UNCHANGED <<ringSize, ringR, ringBuf, ringGet, ringPeek, ringTaken>>

-----------------------------------------------------------------------------
\* eh_ringbuf_read, eh_ringbuf_read_skip: the used size is looked at, which the
\* writer may enlarge meanwhile.
RingReadLook(len, skip) ==
  LET n == Least(len, RingUsed)
  IN  /\ ringGet.step = "none"
      /\ n > 0
      /\ ringGet' = [RingNothing EXCEPT !.step = IF skip THEN "skip" ELSE "read", !.n = n]
      /\ UNCHANGED <<ringSize, ringW, ringR, ringBuf, ringPut, ringPeek, ringTaken>>

RingReadCopy ==
  /\ ringGet.step = "read"
  /\ ringGet' = [ringGet EXCEPT !.step = "publish", !.bytes = RingBytes(ringR, ringGet.n)]
  /\ UNCHANGED <<ringSize, ringW, ringR, ringBuf, ringPut, ringPeek, ringTaken>>

RingReadPublish ==
  /\ ringGet.step \in {"publish", "skip"}
  /\ ringR' = RingFix(ringR + ringGet.n)
  /\ ringTaken' = IF ringGet.step = "publish" THEN ringGet.bytes ELSE ringTaken
  /\ ringGet' = RingNothing
  /\ ringPeek' = RingNothing
  /\ UNCHANGED <<ringSize, ringW, ringBuf, ringPut>>

\* eh_ringbuf_peek, eh_ringbuf_peek_copy: nothing is shown unless all that is asked
\* for is there; in one piece, more than was asked for may be shown.
RingPeekAt(offset, len) ==
  LET size  == RingUsed - offset
      piece == ringSize - RingPos(ringR, offset)
      n     == IF len <= piece THEN Least(size, piece) ELSE len
  IN  /\ ringSize # 0
      /\ ringGet.step = "none"
      /\ size >= len
      /\ n > 0
      /\ ringPeek' = [RingNothing EXCEPT !.n = n, !.at = offset]
      /\ UNCHANGED <<ringSize, ringW, ringR, ringBuf, ringPut, ringGet, ringTaken>>

\* eh_ringbuf_clear, by the reader
RingClear ==
  /\ ringGet.step = "none"
  /\ ringR # ringW
  /\ ringR' = ringW
  /\ ringPeek' = RingNothing
  /\ UNCHANGED <<ringSize, ringW, ringBuf, ringPut, ringGet, ringTaken>>

\* eh_ringbuf_reset, while neither side is in a call
RingReset ==
  /\ ringPut.step = "none" /\ ringGet.step = "none"
  /\ ringR' = 0 /\ ringW' = 0
  /\ ringPeek' = RingNothing
  /\ UNCHANGED <<ringSize, ringBuf, ringPut, ringGet, ringTaken>>

RingNext ==
  \/ \E n \in RingSizes : RingCreate(n)
  \/ \E len \in 1 .. ringSize, draft \in BOOLEAN : \E s \in [1 .. len -> RingByte] : RingWriteLook(s, draft)
  \/ RingWriteCopy \/ RingWriteSkip \/ RingWritePublish
  \/ \E len \in 1 .. ringSize, skip \in BOOLEAN : RingReadLook(len, skip)
  \/ RingReadCopy \/ RingReadPublish
  \/ \E len, offset \in 0 .. ringSize : RingPeekAt(offset, len)
  \/ RingClear \/ RingReset

RingSpec == RingStart /\ [][RingNext]_ringVars

-----------------------------------------------------------------------------
\* Whatever the interleaving of the writer and the reader, each of which looks at the
\* other's index once and stores its own last (eh_ringbuf_write, _read, _peek, _peek_copy,
\* _read_skip, _write_skip, _clear, _reset), and over the wrap of both, a ring buffer is a queue of bytes, and
\* the bytes a peek shows in place stay what they are until the reader moves on.
RingPromises == INSTANCE RingQueue WITH
  Byte <- RingByte, Rooms <- RingSizes, room <- ringSize, taken <- ringTaken,
  content <- IF ringSize = 0 THEN << >> ELSE RingBytes(ringR, RingUsed),
  shown <- RingBytes(ringR + ringPeek.at, ringPeek.n)
ImplementsQueue == RingPromises!QueueSpec
=============================================================================
