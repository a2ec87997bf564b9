------------------------------ MODULE RingQueue ------------------------------
(***************************************************************************)
(* What a ring buffer promises: a queue of bytes of bounded length, into   *)
(* which one side puts bytes and from which the other takes them in the    *)
(* order in which they were put.                                           *)
(***************************************************************************)
EXTENDS Naturals, SequencesExt

CONSTANTS Byte, Rooms

VARIABLES room,     \* how many bytes fit, 0 before the queue is there
          content,  \* the bytes in the queue
          taken,    \* the bytes the last read has taken
          shown     \* bytes of the queue the reader is looking at, without taking them

Open == room = 0 /\ room' \in Rooms /\ UNCHANGED <<content, taken, shown>>

\* What is put does not disturb what the reader is looking at.
Put(s) == Len(content) + Len(s) <= room /\ content' = content \o s /\ UNCHANGED <<room, taken, shown>>

Show(from, to) ==
  /\ to <= Len(content)
  /\ shown' = SubSeq(content, from, to)
  /\ UNCHANGED <<room, content, taken>>

Take(n) ==
  /\ n <= Len(content)
  /\ taken' = SubSeq(content, 1, n)
  /\ content' = SubSeq(content, n + 1, Len(content))
  /\ shown' = << >>
  /\ UNCHANGED room

Skip(n) ==
  /\ n <= Len(content)
  /\ content' = SubSeq(content, n + 1, Len(content))
  /\ shown' = << >>
  /\ UNCHANGED <<room, taken>>

QueueNext ==
  \/ Open
  \/ \E n \in 1 .. room : Take(n) \/ Skip(n) \/ \E s \in [1 .. n -> Byte] : Put(s)
  \/ \E from, to \in 1 .. room : Show(from, to)

QueueSpec ==
  /\ room = 0 /\ content = << >> /\ taken = << >> /\ shown = << >>
  /\ [][QueueNext]_<<room, content, taken, shown>>
=============================================================================
