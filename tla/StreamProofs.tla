---------------------------- MODULE StreamProofs ----------------------------
(***************************************************************************)
(* Proofs about the framing of messages: for every set of messages, every  *)
(* size of their blocks and every way the bytes are cut into pieces, the   *)
(* receiver emits what was sent, whole, once and in order.                 *)
(*                                                                         *)
(* The argument numbers the bytes of the whole connection.  start[k] is    *)
(* the number of bytes before message k and off that of the bytes read so  *)
(* far; what is buffered or in flight is the stream from off on.           *)
(***************************************************************************)
EXTENDS NetworkStream, SequenceTheorems, TLAPS

\* The bytes that were sent and neither read nor lost.
Unread == buffered \o inFlight

Byte == [part : {"size", "content"}, of : Messages]

\* The message that is read next, or whose content is.
Upcoming == Len(received) + 1

\* The blocks of the messages lie one behind the other.
BlocksInARow(start) ==
  /\ start \in [1..(Len(sent) + 1) -> Int]
  /\ \A k \in 1..Len(sent) : start[k + 1] = start[k] + SizeBytes + BlockSize[sent[k]]
  /\ \A k, l \in 1..(Len(sent) + 1) : k <= l => start[k] <= start[l]

\* The unread bytes from number off on are those of the messages to come.
UnreadAt(start, off) ==
  \A k \in Upcoming..Len(sent), i \in 1..Len(Unread) :
    /\ off + i - start[k] \in 1..SizeBytes =>
         Unread[i] = [part |-> "size", of |-> sent[k]]
    /\ off + i - start[k] \in (SizeBytes + 1)..(SizeBytes + BlockSize[sent[k]]) =>
         Unread[i] = [part |-> "content", of |-> sent[k]]

\* The reader stands where the next block begins, or behind its size.
Aligned(start, off) ==
  /\ off = start[Upcoming] + (IF mNextBlockSize = 0 THEN 0 ELSE SizeBytes)
  /\ Len(Unread) <= start[Len(sent) + 1] - off
  /\ connected => Len(Unread) = start[Len(sent) + 1] - off

StreamInv ==
  /\ TypeOK
  /\ buffered \in Seq(Byte) /\ inFlight \in Seq(Byte)
  /\ Len(received) <= Len(sent)
  /\ mNextBlockSize # 0 => /\ Upcoming <= Len(sent)
                           /\ mNextBlockSize = BlockSize[sent[Upcoming]]
  /\ \E start, off : off \in Int /\ BlocksInARow(start) /\ UnreadAt(start, off)
                     /\ Aligned(start, off)

-----------------------------------------------------------------------------
(***************************************************************************)
(* The pieces of sequences.                                                *)
(***************************************************************************)

\* Where the bytes of a concatenation come from.
LEMMA ConcatBytes ==
  ASSUME NEW S, NEW a \in Seq(S), NEW b \in Seq(S)
  PROVE  /\ a \o b \in Seq(S)
         /\ Len(a \o b) = Len(a) + Len(b)
         /\ \A i \in 1..Len(a) : (a \o b)[i] = a[i]
         /\ \A i \in 1..Len(b) : (a \o b)[Len(a) + i] = b[i]
BY ConcatProperties

\* What is left of a sequence without its first n elements.
LEMMA RestProperties ==
  ASSUME NEW S, NEW a \in Seq(S), NEW n \in 0..Len(a)
  PROVE  /\ SubSeq(a, n + 1, Len(a)) \in Seq(S)
         /\ Len(SubSeq(a, n + 1, Len(a))) = Len(a) - n
         /\ \A i \in 1..(Len(a) - n) : SubSeq(a, n + 1, Len(a))[i] = a[n + i]
<1>1. Len(a) \in Nat /\ n \in Nat /\ n <= Len(a)
  BY LenProperties
<1>2. \A i \in (n + 1)..Len(a) : a[i] \in S
  BY <1>1, ElementOfSeq
<1> QED  BY <1>1, <1>2, SubSeqProperties

\* Bytes that leave the network for the buffer stay in their order.
LEMMA MovedBytes ==
  ASSUME NEW S, NEW a \in Seq(S), NEW b \in Seq(S), NEW n \in 0..Len(b)
  PROVE  /\ a \o SubSeq(b, 1, n) \in Seq(S) /\ SubSeq(b, n + 1, Len(b)) \in Seq(S)
         /\ (a \o SubSeq(b, 1, n)) \o SubSeq(b, n + 1, Len(b)) = a \o b
<1> DEFINE p == SubSeq(b, 1, n)
           q == SubSeq(b, n + 1, Len(b))
<1>1. Len(b) \in Nat /\ n \in 0..Len(b)
  BY LenProperties
<1>2. q \in Seq(S)
  BY RestProperties
<1>3. p \in Seq(S)
  BY <1>1, ElementOfSeq, SubSeqProperties
<1>4. p \o q = b
  <2>1. 1 \in 1..(Len(b) + 1) /\ n \in (1 - 1)..Len(b) /\ Len(b) \in n..Len(b)
    BY <1>1
  <2> QED  BY <1>1, <2>1, ConcatAdjacentSubSeq, SubSeqFull
<1> HIDE DEF p, q
<1>5. (a \o p) \o q = a \o (p \o q)
  BY <1>2, <1>3, ConcatAssociative
<1>6. a \o p \in Seq(S)
  BY <1>3, ConcatProperties
<1> QED  BY <1>2, <1>4, <1>5, <1>6 DEF p, q

\* The bytes of a message.
LEMMA BlockBytes ==
  ASSUME NEW m \in Messages
  PROVE  /\ SizeOf(m) \in Seq(Byte) /\ Len(SizeOf(m)) = SizeBytes
         /\ \A i \in 1..SizeBytes : SizeOf(m)[i] = [part |-> "size", of |-> m]
         /\ ContentOf(m) \in Seq(Byte) /\ Len(ContentOf(m)) = BlockSize[m]
         /\ \A i \in 1..BlockSize[m] : ContentOf(m)[i] = [part |-> "content", of |-> m]
<1>1. SizeBytes \in Nat /\ BlockSize[m] \in Nat
  BY SizeBytesAssumption, BlockSizeAssumption
<1>2. [part |-> "size", of |-> m] \in Byte /\ [part |-> "content", of |-> m] \in Byte
  BY DEF Byte
<1>3. SizeOf(m) \in [1..SizeBytes -> Byte] /\ ContentOf(m) \in [1..BlockSize[m] -> Byte]
  BY <1>2 DEF SizeOf, ContentOf
<1>4. SizeOf(m) \in Seq(Byte) /\ ContentOf(m) \in Seq(Byte)
  BY <1>1, <1>3, SeqDef
<1>5. Len(SizeOf(m)) = SizeBytes /\ Len(ContentOf(m)) = BlockSize[m]
  <2>1. DOMAIN SizeOf(m) = 1..SizeBytes /\ DOMAIN ContentOf(m) = 1..BlockSize[m]
    BY <1>3
  <2>2. /\ DOMAIN SizeOf(m) = 1..Len(SizeOf(m)) /\ Len(SizeOf(m)) \in Nat
        /\ DOMAIN ContentOf(m) = 1..Len(ContentOf(m)) /\ Len(ContentOf(m)) \in Nat
    BY <1>4, LenProperties
  <2> QED  BY <1>1, <2>1, <2>2
<1> QED  BY <1>4, <1>5 DEF SizeOf, ContentOf

\* What is known of the sizes of the state.
LEMMA StreamSizes ==
  ASSUME StreamInv
  PROVE  /\ Len(sent) \in Nat /\ Len(received) \in Nat /\ Upcoming \in 1..(Len(sent) + 1)
         /\ Unread \in Seq(Byte) /\ Len(Unread) \in Nat
         /\ Len(buffered) \in Nat /\ Len(inFlight) \in Nat
         /\ Len(Unread) = Len(buffered) + Len(inFlight)
         /\ \A i \in 1..Len(buffered) : Unread[i] = buffered[i]
         /\ SizeBytes \in Nat /\ SizeBytes > 0
         /\ \A k \in 1..Len(sent) : /\ sent[k] \in Messages
                                    /\ BlockSize[sent[k]] \in Nat /\ BlockSize[sent[k]] > 0
<1>1. /\ sent \in Seq(Messages) /\ received \in Seq(Messages)
      /\ buffered \in Seq(Byte) /\ inFlight \in Seq(Byte) /\ Len(received) <= Len(sent)
  BY DEF StreamInv, TypeOK
<1>2. /\ Len(sent) \in Nat /\ Len(received) \in Nat
      /\ Len(buffered) \in Nat /\ Len(inFlight) \in Nat
  BY <1>1, LenProperties
<1>3. \A k \in 1..Len(sent) : sent[k] \in Messages
  BY <1>1, ElementOfSeq
<1>4. \A m \in Messages : BlockSize[m] \in Nat /\ BlockSize[m] > 0
  BY BlockSizeAssumption
<1>5. /\ Unread \in Seq(Byte) /\ Len(Unread) = Len(buffered) + Len(inFlight)
      /\ \A i \in 1..Len(buffered) : Unread[i] = buffered[i]
  BY <1>1, ConcatBytes DEF Unread
<1> QED  BY <1>1, <1>2, <1>3, <1>4, <1>5, SizeBytesAssumption DEF Upcoming

-----------------------------------------------------------------------------
(***************************************************************************)
(* The steps.                                                              *)
(***************************************************************************)

\* Bytes at the front are read or bytes at the end are lost: the others keep
\* their numbers.
LEMMA LaterBytes ==
  ASSUME NEW start, NEW off \in Int, NEW n \in Nat,
         StreamInv, BlocksInARow(start), UnreadAt(start, off),
         sent' = sent, Len(received') \in Nat, Len(received') >= Len(received),
         Len(Unread') \in Nat, Len(Unread') + n <= Len(Unread),
         \A i \in 1..Len(Unread') : Unread'[i] = Unread[i + n]
  PROVE  UnreadAt(start, off + n)'
<1> SUFFICES ASSUME NEW k \in Upcoming'..Len(sent), NEW i \in 1..Len(Unread')
             PROVE  /\ off + n + i - start[k] \in 1..SizeBytes =>
                         Unread'[i] = [part |-> "size", of |-> sent[k]]
                    /\ off + n + i - start[k]
                           \in (SizeBytes + 1)..(SizeBytes + BlockSize[sent[k]]) =>
                         Unread'[i] = [part |-> "content", of |-> sent[k]]
  BY DEF UnreadAt
<1>1. /\ Len(sent) \in Nat /\ Len(received) \in Nat /\ Len(Unread) \in Nat
  BY StreamSizes
<1>2. k \in Upcoming..Len(sent) /\ k \in 1..(Len(sent) + 1)
  BY <1>1 DEF Upcoming
<1>3. start[k] \in Int
  BY <1>1, <1>2 DEF BlocksInARow
<1>4. i + n \in 1..Len(Unread) /\ Unread'[i] = Unread[i + n]
  BY <1>1
<1>5. off + (i + n) - start[k] = off + n + i - start[k]
  BY <1>3
<1> QED  BY <1>2, <1>4, <1>5 DEF UnreadAt
\* What is known of one unread byte, and of the blocks.
LEMMA UnreadSize ==
  ASSUME NEW start, NEW off, UnreadAt(start, off), NEW k \in Upcoming..Len(sent),
         NEW i \in 1..Len(Unread), off + i - start[k] \in 1..SizeBytes
  PROVE  Unread[i] = [part |-> "size", of |-> sent[k]]
BY DEF UnreadAt

LEMMA UnreadContent ==
  ASSUME NEW start, NEW off, UnreadAt(start, off), NEW k \in Upcoming..Len(sent),
         NEW i \in 1..Len(Unread),
         off + i - start[k] \in (SizeBytes + 1)..(SizeBytes + BlockSize[sent[k]])
  PROVE  Unread[i] = [part |-> "content", of |-> sent[k]]
BY DEF UnreadAt

LEMMA BlockBounds ==
  ASSUME NEW start, BlocksInARow(start)
  PROVE  /\ start \in [1..(Len(sent) + 1) -> Int]
         /\ \A k \in 1..(Len(sent) + 1) : start[k] \in Int
         /\ \A k \in 1..Len(sent) : start[k + 1] = start[k] + SizeBytes + BlockSize[sent[k]]
         /\ \A k, l \in 1..(Len(sent) + 1) : k <= l => start[k] <= start[l]
BY DEF BlocksInARow

\* Everything that is unread belongs to a message to come, and the first byte
\* tells which part of it.
LEMMA FirstByte ==
  ASSUME StreamInv, Len(buffered) > 0
  PROVE  /\ Upcoming <= Len(sent)
         /\ buffered[1] = [part |-> IF mNextBlockSize = 0 THEN "size" ELSE "content",
                           of   |-> sent[Upcoming]]
<1>1. PICK start, off : /\ off \in Int /\ BlocksInARow(start)
                        /\ UnreadAt(start, off) /\ Aligned(start, off)
  BY DEF StreamInv
<1>2. /\ Len(sent) \in Nat /\ Upcoming \in 1..(Len(sent) + 1) /\ Len(Unread) \in Nat
      /\ 1 \in 1..Len(Unread) /\ Unread[1] = buffered[1]
      /\ SizeBytes \in Nat /\ SizeBytes > 0
  BY StreamSizes
<1>3. start[Upcoming] \in Int /\ start[Len(sent) + 1] \in Int
  BY <1>1, <1>2 DEF BlocksInARow
<1>4. Upcoming <= Len(sent)
  <2> SUFFICES ASSUME Upcoming = Len(sent) + 1, mNextBlockSize = 0 PROVE FALSE
    BY <1>2 DEF StreamInv
  <2> QED  BY <1>1, <1>2, <1>3 DEF Aligned
<1>5. BlockSize[sent[Upcoming]] \in Nat /\ BlockSize[sent[Upcoming]] > 0
  BY <1>2, <1>4, StreamSizes
<1>6. CASE mNextBlockSize = 0
  <2>1. off + 1 - start[Upcoming] \in 1..SizeBytes
    BY <1>1, <1>2, <1>3, <1>6 DEF Aligned
  <2>2. Upcoming \in Upcoming..Len(sent) /\ 1 \in 1..Len(Unread)
    BY <1>2, <1>4
  <2>3. Unread[1] = [part |-> "size", of |-> sent[Upcoming]]
    BY <1>1, <2>1, <2>2, UnreadSize
  <2> QED  BY <1>2, <1>4, <1>6, <2>3
<1>7. CASE mNextBlockSize # 0
  <2>1. off + 1 - start[Upcoming]
          \in (SizeBytes + 1)..(SizeBytes + BlockSize[sent[Upcoming]])
    <3>1. off = start[Upcoming] + SizeBytes
      BY <1>1, <1>7 DEF Aligned
    <3>2. PICK a \in Int : a = start[Upcoming]
      BY <1>3
    <3>3. PICK b \in Nat : b = BlockSize[sent[Upcoming]] /\ b > 0
      BY <1>5
    <3>4. (a + SizeBytes) + 1 - a \in (SizeBytes + 1)..(SizeBytes + b)
      BY <1>2, <3>3
    <3> QED  BY <3>1, <3>2, <3>3, <3>4
  <2>2. Upcoming \in Upcoming..Len(sent) /\ 1 \in 1..Len(Unread)
    BY <1>2, <1>4
  <2>3. Unread[1] = [part |-> "content", of |-> sent[Upcoming]]
    BY <1>1, <2>1, <2>2, UnreadContent
  <2> QED  BY <1>2, <1>4, <1>7, <2>3
<1> QED  BY <1>4, <1>6, <1>7

\* The positions of n blocks and of one more.
MoreBlocks(start, n, end) == [k \in 1..(n + 2) |-> IF k <= n + 1 THEN start[k] ELSE end]

\* The old positions and the new one.
LEMMA MoreBlocksProperties ==
  ASSUME NEW n \in Nat, NEW start \in [1..(n + 1) -> Int], NEW end \in Int
  PROVE  /\ MoreBlocks(start, n, end) \in [1..(n + 2) -> Int]
         /\ \A k \in 1..(n + 1) : MoreBlocks(start, n, end)[k] = start[k]
         /\ MoreBlocks(start, n, end)[n + 2] = end
<1>1. ASSUME NEW k \in 1..(n + 2) PROVE MoreBlocks(start, n, end)[k] \in Int
  <2>1. k <= n + 1 => k \in 1..(n + 1)
    OBVIOUS
  <2>2. k <= n + 1 => start[k] \in Int
    BY <2>1
  <2> QED  BY <2>2 DEF MoreBlocks
<1>2. ASSUME NEW k \in 1..(n + 1) PROVE MoreBlocks(start, n, end)[k] = start[k]
  <2>1. k \in 1..(n + 2) /\ k <= n + 1
    OBVIOUS
  <2> QED  BY <2>1 DEF MoreBlocks
<1>3. MoreBlocks(start, n, end)[n + 2] = end
  <2>1. n + 2 \in 1..(n + 2) /\ ~(n + 2 <= n + 1)
    OBVIOUS
  <2> QED  BY <2>1 DEF MoreBlocks
<1>4. MoreBlocks(start, n, end) \in [1..(n + 2) -> Int]
  BY <1>1 DEF MoreBlocks
<1> QED  BY <1>2, <1>3, <1>4

\* They are in order when the new one is the last.
LEMMA MoreBlocksOrdered ==
  ASSUME NEW n \in Nat, NEW start \in [1..(n + 1) -> Int], NEW end \in Int,
         \A k, l \in 1..(n + 1) : k <= l => start[k] <= start[l], start[n + 1] <= end
  PROVE  \A k, l \in 1..(n + 2) :
            k <= l => MoreBlocks(start, n, end)[k] <= MoreBlocks(start, n, end)[l]
<1>1. PICK f : f = MoreBlocks(start, n, end)
  OBVIOUS
<1>2. (\A j \in 1..(n + 1) : f[j] = start[j]) /\ f[n + 2] = end
  BY <1>1, MoreBlocksProperties, Zenon
<1> SUFFICES ASSUME NEW k \in 1..(n + 2), NEW l \in 1..(n + 2), k <= l
             PROVE  f[k] <= f[l]
  BY <1>1
<1>3. CASE l <= n + 1
  <2>1. k \in 1..(n + 1) /\ l \in 1..(n + 1)
    BY <1>3
  <2>2. start[k] <= start[l]
    BY <2>1
  <2>3. f[k] = start[k]
    BY <1>2, <2>1
  <2>4. f[l] = start[l]
    BY <1>2, <2>1
  <2> QED  BY <2>2, <2>3, <2>4
<1>4. CASE l = n + 2 /\ k <= n + 1
  <2>1. k \in 1..(n + 1) /\ n + 1 \in 1..(n + 1) /\ k <= n + 1
    BY <1>4
  <2>2. start[k] <= start[n + 1] /\ start[k] \in Int /\ start[n + 1] \in Int
    BY <2>1
  <2>3. start[k] <= end
    BY <2>2
  <2>4. f[k] = start[k]
    BY <1>2, <2>1
  <2>5. f[l] = end
    BY <1>2, <1>4
  <2> QED  BY <2>3, <2>4, <2>5
<1>5. CASE l = n + 2 /\ k = n + 2
  <2>1. f[k] = end /\ f[l] = end
    BY <1>2, <1>5
  <2> QED  BY <2>1
<1> QED  BY <1>3, <1>4, <1>5
\* The bytes of three sequences behind one another.
LEMMA ThreeInARow ==
  ASSUME NEW S, NEW a \in Seq(S), NEW b \in Seq(S), NEW c \in Seq(S)
  PROVE  /\ Len((a \o b) \o c) = Len(a) + Len(b) + Len(c)
         /\ \A i \in 1..Len(a) : ((a \o b) \o c)[i] = a[i]
         /\ \A j \in 1..Len(b) : ((a \o b) \o c)[Len(a) + j] = b[j]
         /\ \A j \in 1..Len(c) : ((a \o b) \o c)[Len(a) + Len(b) + j] = c[j]
<1>1. Len(a) \in Nat /\ Len(b) \in Nat /\ Len(c) \in Nat
  BY LenProperties
<1>2. PICK u \in Seq(S) : u = a \o b
  BY ConcatBytes
<1>3. /\ Len(u) = Len(a) + Len(b)
      /\ \A i \in 1..Len(a) : u[i] = a[i]
      /\ \A j \in 1..Len(b) : u[Len(a) + j] = b[j]
  BY <1>2, ConcatBytes
<1>4. /\ Len(u \o c) = Len(u) + Len(c)
      /\ \A i \in 1..Len(u) : (u \o c)[i] = u[i]
      /\ \A j \in 1..Len(c) : (u \o c)[Len(u) + j] = c[j]
  BY <1>2, ConcatBytes
<1>5. ASSUME NEW i \in 1..Len(a) PROVE (u \o c)[i] = a[i]
  <2>1. i \in 1..Len(u)
    BY <1>1, <1>3
  <2> QED  BY <1>3, <1>4, <2>1
<1>6. ASSUME NEW j \in 1..Len(b) PROVE (u \o c)[Len(a) + j] = b[j]
  <2>1. Len(a) + j \in 1..Len(u)
    BY <1>1, <1>3
  <2> QED  BY <1>3, <1>4, <2>1
<1> QED  BY <1>1, <1>2, <1>3, <1>4, <1>5, <1>6

\* A message that is sent puts its block behind the others.
LEMMA SendStep ==
  ASSUME StreamInv, NEW m \in Messages, sendMessage(m)
  PROVE  StreamInv'
<1>1. PICK start, off : /\ off \in Int /\ BlocksInARow(start)
                        /\ UnreadAt(start, off) /\ Aligned(start, off)
  BY DEF StreamInv
<1>2. /\ Len(sent) \in Nat /\ Len(received) \in Nat /\ Upcoming \in 1..(Len(sent) + 1)
      /\ Unread \in Seq(Byte) /\ Len(Unread) \in Nat /\ SizeBytes \in Nat /\ SizeBytes > 0
      /\ \A k \in 1..Len(sent) : sent[k] \in Messages /\ BlockSize[sent[k]] \in Nat
  BY StreamSizes
<1>3. BlockSize[m] \in Nat
  BY BlockSizeAssumption
<1>4. /\ sent' \in Seq(Messages) /\ Len(sent') = Len(sent) + 1 /\ sent'[Len(sent) + 1] = m
      /\ \A k \in 1..Len(sent) : sent'[k] = sent[k]
  BY AppendProperties DEF sendMessage, StreamInv, TypeOK
<1>5. /\ UNCHANGED <<buffered, mNextBlockSize, readyRead, reading, received, connected>>
      /\ connected /\ Upcoming' = Upcoming
  BY DEF sendMessage, Upcoming
<1>6. /\ inFlight' \in Seq(Byte)
      /\ Unread' = (Unread \o SizeOf(m)) \o ContentOf(m)
  <2>1. /\ buffered \in Seq(Byte) /\ inFlight \in Seq(Byte)
        /\ SizeOf(m) \in Seq(Byte) /\ ContentOf(m) \in Seq(Byte)
    BY BlockBytes DEF StreamInv
  <2>2. inFlight \o SizeOf(m) \in Seq(Byte)
    BY <2>1, ConcatBytes
  <2>3. inFlight' = (inFlight \o SizeOf(m)) \o ContentOf(m) /\ inFlight' \in Seq(Byte)
    BY <2>1, <2>2, ConcatBytes DEF sendMessage
  <2>4. buffered \o ((inFlight \o SizeOf(m)) \o ContentOf(m))
          = (buffered \o (inFlight \o SizeOf(m))) \o ContentOf(m)
    <3>1. PICK a \in Seq(Byte) : a = buffered
      BY <2>1
    <3>2. PICK b \in Seq(Byte) : b = inFlight \o SizeOf(m)
      BY <2>2
    <3>3. PICK c \in Seq(Byte) : c = ContentOf(m)
      BY <2>1
    <3>4. a \o (b \o c) = (a \o b) \o c
      BY ConcatAssociative
    <3> QED  BY <3>1, <3>2, <3>3, <3>4
  <2>5. buffered \o (inFlight \o SizeOf(m)) = Unread \o SizeOf(m)
    BY <2>1, ConcatAssociative DEF Unread
  <2> QED  BY <1>5, <2>3, <2>4, <2>5 DEF Unread
<1>7. /\ Len(Unread') = Len(Unread) + SizeBytes + BlockSize[m]
      /\ \A i \in 1..Len(Unread) : Unread'[i] = Unread[i]
      /\ \A j \in 1..SizeBytes : Unread'[Len(Unread) + j] = [part |-> "size", of |-> m]
      /\ \A j \in 1..BlockSize[m] :
           Unread'[Len(Unread) + SizeBytes + j] = [part |-> "content", of |-> m]
  <2>1. /\ SizeOf(m) \in Seq(Byte) /\ ContentOf(m) \in Seq(Byte)
        /\ Len(SizeOf(m)) = SizeBytes /\ Len(ContentOf(m)) = BlockSize[m]
        /\ \A j \in 1..SizeBytes : SizeOf(m)[j] = [part |-> "size", of |-> m]
        /\ \A j \in 1..BlockSize[m] : ContentOf(m)[j] = [part |-> "content", of |-> m]
    BY BlockBytes
  <2>2. PICK a \in Seq(Byte) : a = Unread
    BY <1>2
  <2>3. PICK b \in Seq(Byte) : b = SizeOf(m)
    BY <2>1
  <2>4. PICK c \in Seq(Byte) : c = ContentOf(m)
    BY <2>1
  <2>5. PICK q : q = (a \o b) \o c
    OBVIOUS
  <2>6. /\ Len(q) = Len(a) + Len(b) + Len(c)
        /\ \A i \in 1..Len(a) : q[i] = a[i]
        /\ \A j \in 1..Len(b) : q[Len(a) + j] = b[j]
        /\ \A j \in 1..Len(c) : q[Len(a) + Len(b) + j] = c[j]
    <3>1. Len((a \o b) \o c) = Len(a) + Len(b) + Len(c)
      BY ThreeInARow
    <3>2. \A i \in 1..Len(a) : ((a \o b) \o c)[i] = a[i]
      BY ThreeInARow
    <3>3. \A j \in 1..Len(b) : ((a \o b) \o c)[Len(a) + j] = b[j]
      BY ThreeInARow
    <3>4. \A j \in 1..Len(c) : ((a \o b) \o c)[Len(a) + Len(b) + j] = c[j]
      BY ThreeInARow
    <3> QED  BY <2>5, <3>1, <3>2, <3>3, <3>4
  <2>7. Unread' = q
    BY <1>6, <2>2, <2>3, <2>4, <2>5
  <2> QED  BY <2>1, <2>2, <2>3, <2>4, <2>6, <2>7
<1>8. PICK n \in Nat : n = Len(sent)
  BY <1>2
<1>9. PICK last \in Int : last = start[n + 1]
  BY <1>1, <1>2, <1>8, BlockBounds
<1>10. PICK end \in Int : end = last + SizeBytes + BlockSize[m]
  BY <1>2, <1>3
<1>11. start \in [1..(n + 1) -> Int] /\ last <= end
  BY <1>1, <1>2, <1>3, <1>8, <1>10, BlockBounds
<1>12. PICK next : next = MoreBlocks(start, n, end)
  OBVIOUS
<1>13. /\ next \in [1..(n + 2) -> Int] /\ next[n + 2] = end
       /\ \A k \in 1..(n + 1) : next[k] = start[k]
  BY <1>11, <1>12, MoreBlocksProperties
<1>14. BlocksInARow(next)'
  <2>1. \A k, l \in 1..(n + 2) : k <= l => next[k] <= next[l]
    <3>1. \A k, l \in 1..(n + 1) : k <= l => start[k] <= start[l]
      BY <1>1, <1>8, BlockBounds
    <3> QED  BY <1>9, <1>11, <1>12, <3>1, MoreBlocksOrdered
  <2>2. ASSUME NEW k \in 1..(n + 1)
        PROVE  next[k + 1] = next[k] + SizeBytes + BlockSize[sent'[k]]
    <3>1. CASE k \in 1..n
      <4>1. k + 1 \in 1..(n + 1)
        BY <3>1
      <4>2. next[k] = start[k] /\ next[k + 1] = start[k + 1]
        BY <1>13, <4>1
      <4>3. start[k + 1] = start[k] + SizeBytes + BlockSize[sent[k]]
        BY <1>1, <1>8, <3>1, BlockBounds
      <4>4. sent'[k] = sent[k]
        BY <1>4, <1>8, <3>1
      <4> QED  BY <4>2, <4>3, <4>4
    <3>2. CASE k = n + 1
      <4>1. next[n + 1] = last /\ next[(n + 1) + 1] = end
        BY <1>9, <1>13
      <4>2. sent'[n + 1] = m
        BY <1>4, <1>8
      <4> QED  BY <1>10, <3>2, <4>1, <4>2
    <3> QED  BY <3>1, <3>2
  <2>3. Len(sent') = n + 1 /\ Len(sent') + 1 = n + 2
    BY <1>4, <1>8
  <2> QED  BY <1>13, <2>1, <2>2, <2>3 DEF BlocksInARow
<1>15. PICK u \in Nat : u = Len(Unread) /\ last = off + u
  <2>1. Len(Unread) = start[Len(sent) + 1] - off
    BY <1>1, <1>5 DEF Aligned
  <2> QED  BY <1>1, <1>2, <1>8, <1>9, <2>1
<1>16. UnreadAt(next, off)'
  <2> SUFFICES ASSUME NEW k \in Upcoming..(n + 1), NEW i \in 1..Len(Unread')
               PROVE  /\ off + i - next[k] \in 1..SizeBytes =>
                           Unread'[i] = [part |-> "size", of |-> sent'[k]]
                      /\ off + i - next[k]
                             \in (SizeBytes + 1)..(SizeBytes + BlockSize[sent'[k]]) =>
                           Unread'[i] = [part |-> "content", of |-> sent'[k]]
    BY <1>4, <1>5, <1>8 DEF UnreadAt
  <2>0. k \in 1..(n + 1) /\ i \in Int /\ i >= 1
    BY <1>2, <1>7
  <2>1. CASE k <= n
    <3>1. k \in 1..n /\ k + 1 \in 1..(n + 1) /\ n + 1 \in 1..(n + 1) /\ k + 1 <= n + 1
      BY <1>2, <1>8, <2>0, <2>1
    <3>10. k \in Upcoming..Len(sent)
      BY <1>2, <1>8, <2>0, <2>1
    <3>11. UnreadAt(start, off)
      BY <1>1
    <3>2. next[k] = start[k] /\ sent'[k] = sent[k]
      BY <1>4, <1>8, <1>13, <2>0, <3>1
    <3>3. PICK s \in Int : s = start[k]
      BY <1>11, <2>0
    <3>4. PICK b \in Nat : b = BlockSize[sent[k]]
      BY <1>2, <1>8, <3>1
    <3>5. s + SizeBytes + b <= last
      <4>1. start[k + 1] <= last
        BY <1>1, <1>8, <1>9, <3>1, BlockBounds
      <4>2. start[k + 1] = s + SizeBytes + b
        BY <1>1, <1>8, <3>1, <3>3, <3>4, BlockBounds
      <4> QED  BY <4>1, <4>2
    <3>6. ASSUME off + i - s <= SizeBytes + b PROVE i \in 1..Len(Unread)
      <4>1. off \in Int /\ SizeBytes \in Nat
        BY <1>1, <1>2
      <4>2. i <= u
        BY <1>15, <2>0, <3>5, <3>6, <4>1
      <4> QED  BY <1>15, <2>0, <4>2
    <3>7. i \in 1..Len(Unread) => Unread'[i] = Unread[i]
      BY <1>7
    <3>8. ASSUME off + i - s \in 1..SizeBytes
          PROVE  Unread'[i] = [part |-> "size", of |-> sent[k]]
      <4>1. i \in 1..Len(Unread)
        BY <1>2, <3>4, <3>6, <3>8
      <4>2. off + i - start[k] \in 1..SizeBytes
        BY <3>3, <3>8
      <4>3. Unread[i] = [part |-> "size", of |-> sent[k]]
        BY <3>10, <3>11, <4>1, <4>2, UnreadSize
      <4> QED  BY <3>7, <4>1, <4>3
    <3>9. ASSUME off + i - s \in (SizeBytes + 1)..(SizeBytes + b)
          PROVE  Unread'[i] = [part |-> "content", of |-> sent[k]]
      <4>1. i \in 1..Len(Unread)
        BY <1>2, <3>4, <3>6, <3>9
      <4>2. off + i - start[k] \in (SizeBytes + 1)..(SizeBytes + BlockSize[sent[k]])
        BY <3>3, <3>4, <3>9
      <4>3. Unread[i] = [part |-> "content", of |-> sent[k]]
        BY <3>10, <3>11, <4>1, <4>2, UnreadContent
      <4> QED  BY <3>7, <4>1, <4>3
    <3> QED  BY <3>2, <3>3, <3>4, <3>8, <3>9
  <2>2. CASE k = n + 1
    <3>1. next[k] = off + u /\ sent'[k] = m
      BY <1>4, <1>8, <1>9, <1>13, <1>15, <2>0, <2>2
    <3>2. PICK j \in Int : j = off + i - (off + u) /\ i = u + j
      BY <1>1, <2>0
    <3>3. ASSUME j \in 1..SizeBytes PROVE Unread'[i] = [part |-> "size", of |-> m]
      BY <1>7, <1>15, <3>2, <3>3
    <3>4. ASSUME j \in (SizeBytes + 1)..(SizeBytes + BlockSize[m])
          PROVE  Unread'[i] = [part |-> "content", of |-> m]
      <4>1. PICK h \in 1..BlockSize[m] : i = u + SizeBytes + h
        <5>1. PICK b \in Nat : b = BlockSize[m]
          BY <1>3
        <5>2. PICK h \in Int : h = j - SizeBytes
          BY <1>2
        <5>3. h \in 1..b
          BY <1>2, <3>4, <5>1, <5>2
        <5>4. i = u + SizeBytes + h
          <6>1. i = u + j
            BY <3>2
          <6>2. PICK w \in Nat : w = SizeBytes
            BY <1>2
          <6>3. j = w + h
            BY <5>2, <6>2
          <6>4. u + j = u + w + h
            BY <6>3
          <6> QED  BY <6>1, <6>2, <6>4
        <5> QED  BY <5>1, <5>3, <5>4
      <4> QED  BY <1>7, <1>15, <4>1
    <3> QED  BY <3>1, <3>2, <3>3, <3>4
  <2>3. k <= n \/ k = n + 1
    BY <2>0
  <2> QED  BY <2>1, <2>2, <2>3, Zenon
<1>17. Aligned(next, off)'
  <2>1. next[Upcoming] = start[Upcoming]
    BY <1>2, <1>8, <1>13
  <2>2. Len(Unread') = end - off
    BY <1>1, <1>2, <1>3, <1>7, <1>10, <1>15
  <2>3. Len(sent') + 1 = n + 2
    BY <1>4, <1>8
  <2>4. Len(Unread') = next[Len(sent') + 1] - off
    BY <1>13, <2>2, <2>3
  <2>5. Len(Unread') \in Int
    BY <1>2, <1>3, <1>7
  <2>6. Len(Unread') <= next[Len(sent') + 1] - off
    BY <2>4, <2>5
  <2> QED  BY <1>1, <1>5, <2>1, <2>4, <2>6 DEF Aligned
<1>18. mNextBlockSize # 0 => /\ Upcoming <= Len(sent')
                             /\ mNextBlockSize = BlockSize[sent'[Upcoming]]
  BY <1>2, <1>4 DEF StreamInv
<1>19. TypeOK'
  BY <1>4, <1>5 DEF StreamInv, TypeOK
<1>20. Len(received') <= Len(sent')
  BY <1>2, <1>4, <1>5 DEF StreamInv
<1> QED
  BY <1>1, <1>5, <1>6, <1>14, <1>16, <1>17, <1>18, <1>19, <1>20 DEF StreamInv
\* What a step that sends nothing has to show.
LEMMA AfterStep ==
  ASSUME StreamInv, NEW start, NEW off \in Int, NEW n \in Nat,
         BlocksInARow(start), UnreadAt(start, off),
         TypeOK', buffered' \in Seq(Byte), inFlight' \in Seq(Byte),
         sent' = sent, Len(received') >= Len(received), Len(received') <= Len(sent),
         mNextBlockSize' # 0 => /\ Upcoming' <= Len(sent)
                                /\ mNextBlockSize' = BlockSize[sent[Upcoming']],
         Len(Unread') + n <= Len(Unread),
         \A i \in 1..Len(Unread') : Unread'[i] = Unread[i + n],
         Aligned(start, off + n)'
  PROVE  StreamInv'
<1>1. Len(Unread') \in Nat /\ Len(received') \in Nat
  <2>1. Unread' \in Seq(Byte) /\ received' \in Seq(Messages)
    BY ConcatBytes DEF Unread, TypeOK
  <2> QED  BY <2>1, LenProperties
<1>2. UnreadAt(start, off + n)'
  BY <1>1, LaterBytes
<1>3. BlocksInARow(start)'
  BY DEF BlocksInARow
<1>4. off + n \in Int
  OBVIOUS
<1>5. \E b, o : o \in Int /\ BlocksInARow(b)' /\ UnreadAt(b, o)' /\ Aligned(b, o)'
  BY <1>2, <1>3, <1>4
<1> QED  BY <1>5 DEF StreamInv

\* Nothing is read, or bytes arrive, or those under way are lost.
LEMMA NothingReadStep ==
  ASSUME StreamInv, receiveMessage \/ BreakLoop \/ Arrive \/ socketDisconnected
                      \/ UNCHANGED vars
  PROVE  StreamInv'
<1>1. PICK start, off : /\ off \in Int /\ BlocksInARow(start)
                        /\ UnreadAt(start, off) /\ Aligned(start, off)
  BY DEF StreamInv
<1>2. UNCHANGED <<sent, mNextBlockSize, received>> /\ (connected' => connected)
  BY DEF receiveMessage, BreakLoop, Arrive, socketDisconnected, vars
<1>3. TypeOK'
  BY <1>2 DEF StreamInv, TypeOK, receiveMessage, BreakLoop, Arrive, socketDisconnected, vars
<1>4. buffered \in Seq(Byte) /\ inFlight \in Seq(Byte)
  BY DEF StreamInv
<1>5. /\ buffered' \in Seq(Byte) /\ inFlight' \in Seq(Byte)
      /\ Unread' = Unread \/ (~connected' /\ Unread' = buffered)
  <2>1. CASE UNCHANGED <<buffered, inFlight>>
    BY <1>4, <2>1 DEF Unread
  <2>2. CASE Arrive
    <3>1. PICK n \in 1..Len(inFlight) :
            /\ buffered' = buffered \o SubSeq(inFlight, 1, n)
            /\ inFlight' = SubSeq(inFlight, n + 1, Len(inFlight))
      BY <2>2 DEF Arrive
    <3>2. n \in 0..Len(inFlight)
      BY <1>4, LenProperties
    <3> QED  BY <1>4, <3>1, <3>2, MovedBytes DEF Unread
  <2>3. CASE socketDisconnected
    <3>1. buffered' = buffered /\ inFlight' = <<>> /\ ~connected'
      BY <2>3 DEF socketDisconnected
    <3> QED  BY <1>4, <3>1, EmptySeq, ConcatEmptySeq DEF Unread
  <2> QED  BY <2>1, <2>2, <2>3 DEF receiveMessage, BreakLoop, vars
<1>6. /\ Len(Unread') \in Nat /\ Len(Unread') <= Len(Unread)
      /\ connected' => Len(Unread') = Len(Unread)
      /\ \A i \in 1..Len(Unread') : Unread'[i] = Unread[i]
  <2>1. CASE Unread' = Unread
    BY <2>1, StreamSizes
  <2>2. CASE ~connected' /\ Unread' = buffered
    BY <2>2, StreamSizes
  <2> QED  BY <1>5, <2>1, <2>2
<1>7. Aligned(start, off)'
  <2>1. Upcoming' = Upcoming
    BY <1>2 DEF Upcoming
  <2>2. start[Len(sent) + 1] \in Int
    <3>1. Len(sent) + 1 \in 1..(Len(sent) + 1)
      BY StreamSizes
    <3> QED  BY <1>1, <3>1, BlockBounds
  <2>3. Len(Unread) \in Nat
    BY StreamSizes
  <2> QED  BY <1>1, <1>2, <1>6, <2>1, <2>2, <2>3 DEF Aligned
<1>8. off + 0 = off
  BY <1>1
<1>9. /\ Len(received) <= Len(sent) /\ Len(received') >= Len(received)
      /\ mNextBlockSize' # 0 => /\ Upcoming' <= Len(sent)
                                /\ mNextBlockSize' = BlockSize[sent[Upcoming']]
  BY <1>2, StreamSizes DEF StreamInv, Upcoming
<1>10. /\ Len(Unread') + 0 <= Len(Unread)
       /\ \A i \in 1..Len(Unread') : Unread'[i] = Unread[i + 0]
  BY <1>6, StreamSizes
<1> QED  BY <1>1, <1>2, <1>3, <1>5, <1>7, <1>8, <1>9, <1>10, AfterStep

\* What reading the first n bytes leaves.
LEMMA ReadBytes ==
  ASSUME StreamInv, NEW n \in Nat, Len(buffered) >= n,
         buffered' = Rest(n), inFlight' = inFlight
  PROVE  /\ buffered' \in Seq(Byte) /\ inFlight' \in Seq(Byte)
         /\ Len(Unread') = Len(Unread) - n
         /\ \A i \in 1..Len(Unread') : Unread'[i] = Unread[i + n]
<1>1. buffered \in Seq(Byte) /\ inFlight \in Seq(Byte)
  BY DEF StreamInv
<1>2. PICK b \in Nat : b = Len(buffered)
  BY <1>1, LenProperties
<1>3. PICK f \in Nat : f = Len(inFlight)
  BY <1>1, LenProperties
<1>4. n \in 0..Len(buffered)
  BY <1>2
<1>5. /\ buffered' \in Seq(Byte) /\ Len(buffered') = b - n
      /\ \A i \in 1..(b - n) : buffered'[i] = buffered[n + i]
  BY <1>1, <1>2, <1>4, RestProperties DEF Rest
<1>6. /\ Len(Unread) = b + f
      /\ \A i \in 1..b : Unread[i] = buffered[i]
      /\ \A j \in 1..f : Unread[b + j] = inFlight[j]
  BY <1>1, <1>2, <1>3, ConcatBytes DEF Unread
<1>7. /\ Len(Unread') = (b - n) + f
      /\ \A i \in 1..(b - n) : Unread'[i] = buffered'[i]
      /\ \A j \in 1..f : Unread'[(b - n) + j] = inFlight[j]
  <2>1. Unread' = buffered' \o inFlight
    BY DEF Unread
  <2>2. PICK a \in Seq(Byte) : a = buffered'
    BY <1>5
  <2>3. /\ Len(a \o inFlight) = Len(a) + Len(inFlight)
        /\ \A i \in 1..Len(a) : (a \o inFlight)[i] = a[i]
        /\ \A j \in 1..Len(inFlight) : (a \o inFlight)[Len(a) + j] = inFlight[j]
    BY <1>1, ConcatBytes
  <2> QED  BY <1>3, <1>5, <2>1, <2>2, <2>3
<1>8. ASSUME NEW i \in 1..Len(Unread') PROVE Unread'[i] = Unread[i + n]
  <2>1. i \in Int /\ i >= 1 /\ i <= (b - n) + f
    BY <1>2, <1>3, <1>7
  <2>2. CASE i <= b - n
    <3>1. i \in 1..(b - n) /\ i + n \in 1..b /\ n + i = i + n
      BY <1>2, <1>4, <2>1, <2>2
    <3> QED  BY <1>5, <1>6, <1>7, <3>1
  <2>3. CASE i > b - n
    <3>1. PICK j \in 1..f : i = (b - n) + j
      <4>1. i - (b - n) \in 1..f /\ i = (b - n) + (i - (b - n))
        BY <1>2, <1>3, <2>1, <2>3
      <4> QED  BY <4>1
    <3>2. i + n = b + j
      BY <1>2, <2>1, <3>1
    <3> QED  BY <1>6, <1>7, <3>1, <3>2
  <2> QED  BY <1>2, <2>1, <2>2, <2>3
<1>9. Len(Unread') = Len(Unread) - n
  BY <1>2, <1>3, <1>6, <1>7
<1> QED  BY <1>1, <1>5, <1>8, <1>9

\* The size of a block is read: the content is what follows.
LEMMA ReadSizeStep ==
  ASSUME StreamInv, ReadSize
  PROVE  StreamInv'
<1>1. PICK start, off : /\ off \in Int /\ BlocksInARow(start)
                        /\ UnreadAt(start, off) /\ Aligned(start, off)
  BY DEF StreamInv
<1>2. /\ mNextBlockSize = 0 /\ Len(buffered) >= SizeBytes
      /\ mNextBlockSize' = BlockSize[buffered[1].of] /\ buffered' = Rest(SizeBytes)
      /\ UNCHANGED <<sent, inFlight, readyRead, reading, received, connected>>
  BY DEF ReadSize, CanRead
<1>3. /\ Len(sent) \in Nat /\ Len(received) \in Nat /\ Len(Unread) \in Nat
      /\ Upcoming \in 1..(Len(sent) + 1) /\ Len(buffered) \in Nat
      /\ SizeBytes \in Nat /\ SizeBytes > 0
  BY StreamSizes
<1>4. /\ Upcoming <= Len(sent) /\ buffered[1].of = sent[Upcoming]
      /\ Upcoming \in 1..Len(sent)
  <2>1. Len(buffered) > 0
    BY <1>2, <1>3
  <2>2. Upcoming <= Len(sent) /\ buffered[1] = [part |-> "size", of |-> sent[Upcoming]]
    BY <1>2, <2>1, FirstByte
  <2> QED  BY <1>3, <2>2
<1>5. /\ buffered' \in Seq(Byte) /\ inFlight' \in Seq(Byte)
      /\ Len(Unread') = Len(Unread) - SizeBytes
      /\ \A i \in 1..Len(Unread') : Unread'[i] = Unread[i + SizeBytes]
  BY <1>2, <1>3, ReadBytes
<1>6. sent[Upcoming] \in Messages /\ BlockSize[sent[Upcoming]] \in Nat
      /\ BlockSize[sent[Upcoming]] > 0
  BY <1>4, StreamSizes
<1>7. TypeOK'
  BY <1>2, <1>4, <1>6 DEF StreamInv, TypeOK
<1>8. Aligned(start, off + SizeBytes)'
  <2>1. Upcoming' = Upcoming /\ mNextBlockSize' # 0
    BY <1>2, <1>4, <1>6 DEF Upcoming
  <2>2. PICK e \in Int : e = start[Len(sent) + 1]
    <3>1. Len(sent) + 1 \in 1..(Len(sent) + 1)
      BY <1>3
    <3> QED  BY <1>1, <3>1, BlockBounds
  <2>3. PICK s \in Int : s = start[Upcoming]
    BY <1>1, <1>3, BlockBounds
  <2>4. off = s /\ Len(Unread) <= e - off /\ (connected => Len(Unread) = e - off)
    BY <1>1, <1>2, <2>2, <2>3 DEF Aligned
  <2>5. /\ off + SizeBytes = s + SizeBytes
        /\ Len(Unread') <= e - (off + SizeBytes)
        /\ connected => Len(Unread') = e - (off + SizeBytes)
    BY <1>1, <1>3, <1>5, <2>4
  <2> QED  BY <1>2, <2>1, <2>2, <2>3, <2>5 DEF Aligned
<1>9. /\ Len(received') >= Len(received) /\ Len(received') <= Len(sent)
      /\ Upcoming' <= Len(sent) /\ mNextBlockSize' = BlockSize[sent[Upcoming']]
      /\ Len(Unread') + SizeBytes <= Len(Unread)
  BY <1>2, <1>3, <1>4, <1>5 DEF StreamInv, Upcoming
<1> QED  BY <1>1, <1>2, <1>3, <1>5, <1>7, <1>8, <1>9, AfterStep
\* The content of a block is read and its message emitted; the message's
\* handler may close the socket.
LEMMA ReadBlockStep ==
  ASSUME StreamInv, ReadBlock
  PROVE  /\ StreamInv'
         /\ Len(received) < Len(sent)
         /\ received' = Append(received, sent[Len(received) + 1]) /\ sent' = sent
<1>1. PICK start, off : /\ off \in Int /\ BlocksInARow(start)
                        /\ UnreadAt(start, off) /\ Aligned(start, off)
  BY DEF StreamInv
<1>2. /\ mNextBlockSize # 0 /\ Len(buffered) >= mNextBlockSize
      /\ mNextBlockSize' = 0 /\ received' = Append(received, buffered[1].of)
      /\ UNCHANGED <<sent, readyRead, reading>>
      /\ \/ buffered' = Rest(mNextBlockSize) /\ UNCHANGED <<inFlight, connected>>
         \/ connected' = FALSE /\ inFlight' = <<>> /\ buffered' = <<>>
  BY DEF ReadBlock, CanRead
<1>3. /\ Len(sent) \in Nat /\ Len(received) \in Nat /\ Len(Unread) \in Nat
      /\ Upcoming \in 1..(Len(sent) + 1) /\ Len(buffered) \in Nat
      /\ Len(inFlight) \in Nat /\ Len(Unread) = Len(buffered) + Len(inFlight)
      /\ SizeBytes \in Nat /\ SizeBytes > 0
  BY StreamSizes
<1>4. Upcoming <= Len(sent) /\ mNextBlockSize = BlockSize[sent[Upcoming]]
  BY <1>2 DEF StreamInv
<1>5. Upcoming \in 1..Len(sent) /\ sent[Upcoming] \in Messages
      /\ mNextBlockSize \in Nat /\ mNextBlockSize > 0
  <2>1. Upcoming \in 1..Len(sent)
    BY <1>3, <1>4
  <2> QED  BY <1>4, <2>1, StreamSizes
<1>6. buffered[1].of = sent[Upcoming]
  <2>1. Len(buffered) > 0
    BY <1>2, <1>3, <1>5
  <2>2. buffered[1] = [part |-> "content", of |-> sent[Upcoming]]
    BY <1>2, <2>1, FirstByte
  <2> QED  BY <2>2
<1>7. /\ received' \in Seq(Messages) /\ Len(received') = Len(received) + 1
      /\ received' = Append(received, sent[Upcoming])
  <2>1. received \in Seq(Messages)
    BY DEF StreamInv, TypeOK
  <2> QED  BY <1>2, <1>5, <1>6, <2>1, AppendProperties
<1>8. TypeOK'
  BY <1>2, <1>7 DEF StreamInv, TypeOK
<1>9. /\ Upcoming' = Upcoming + 1 /\ Upcoming' \in 1..(Len(sent) + 1)
      /\ Len(received') >= Len(received) /\ Len(received') <= Len(sent)
  BY <1>3, <1>4, <1>7 DEF Upcoming
<1>10. PICK e \in Int : e = start[Len(sent) + 1]
  <2>1. Len(sent) + 1 \in 1..(Len(sent) + 1)
    BY <1>3
  <2> QED  BY <1>1, <2>1, BlockBounds
<1>11. PICK s \in Int : s = start[Upcoming]
  BY <1>1, <1>3, BlockBounds
<1>12. PICK b \in Nat : b = mNextBlockSize
  BY <1>5
<1>13. off = s + SizeBytes /\ Len(Unread) <= e - off /\ (connected => Len(Unread) = e - off)
  BY <1>1, <1>2, <1>10, <1>11 DEF Aligned
<1>14. start[Upcoming'] = off + b
  <2>1. start[Upcoming + 1] = start[Upcoming] + SizeBytes + BlockSize[sent[Upcoming]]
    BY <1>1, <1>5, BlockBounds
  <2>2. start[Upcoming + 1] = s + SizeBytes + b
    BY <1>4, <1>11, <1>12, <2>1
  <2> QED  BY <1>9, <1>13, <2>2
<1>15. /\ off + b = start[Upcoming'] + (IF mNextBlockSize' = 0 THEN 0 ELSE SizeBytes)
       /\ sent' = sent
  <2>1. PICK z \in Int : z = off + b
    BY <1>1
  <2> QED  BY <1>2, <1>14, <2>1
<1>16. /\ mNextBlockSize' # 0 => /\ Upcoming' <= Len(sent)
                                 /\ mNextBlockSize' = BlockSize[sent[Upcoming']]
       /\ BlocksInARow(start) /\ UnreadAt(start, off)
  BY <1>1, <1>2
<1>17. ASSUME buffered' = Rest(mNextBlockSize), UNCHANGED <<inFlight, connected>>
       PROVE  StreamInv'
  <2>1. /\ buffered' \in Seq(Byte) /\ inFlight' \in Seq(Byte)
        /\ Len(Unread') = Len(Unread) - b
        /\ \A i \in 1..Len(Unread') : Unread'[i] = Unread[i + b]
    BY <1>2, <1>12, <1>17, ReadBytes
  <2>2. Aligned(start, off + b)'
    <3>1. /\ Len(Unread') <= e - (off + b)
          /\ connected => Len(Unread') = e - (off + b)
      BY <1>1, <1>3, <1>13, <2>1
    <3> QED  BY <1>10, <1>17, <1>15, <3>1 DEF Aligned
  <2>3. Len(Unread') + b <= Len(Unread)
    BY <1>3, <2>1
  <2>4. off \in Int /\ b \in Nat
    BY <1>1
  <2>5. Len(received') >= Len(received) /\ Len(received') <= Len(sent)
    BY <1>9
  <2> QED  BY <1>8, <1>15, <1>16, <2>1, <2>2, <2>3, <2>4, <2>5, AfterStep
<1>18. ASSUME connected' = FALSE, inFlight' = <<>>, buffered' = <<>>
       PROVE  StreamInv'
  <2>1. /\ buffered' \in Seq(Byte) /\ inFlight' \in Seq(Byte)
        /\ Unread' = <<>> /\ Len(Unread') = 0
    BY <1>18, EmptySeq, ConcatEmptySeq DEF Unread
  <2>2. Aligned(start, off + b)'
    <3>1. 0 <= e - (off + b)
      BY <1>1, <1>2, <1>3, <1>12, <1>13
    <3> QED  BY <1>10, <1>18, <1>15, <2>1, <3>1 DEF Aligned
  <2>3. Len(Unread') + b <= Len(Unread) /\ \A i \in 1..Len(Unread') : Unread'[i] = Unread[i + b]
    BY <1>2, <1>3, <1>12, <2>1
  <2>4. off \in Int /\ b \in Nat
    BY <1>1
  <2>5. Len(received') >= Len(received) /\ Len(received') <= Len(sent)
    BY <1>9
  <2> QED  BY <1>8, <1>15, <1>16, <2>1, <2>2, <2>3, <2>4, <2>5, AfterStep
<1>19. Len(received) < Len(sent) /\ Upcoming = Len(received) + 1
  BY <1>3, <1>4 DEF Upcoming
<1> QED  BY <1>2, <1>7, <1>17, <1>18, <1>19

-----------------------------------------------------------------------------
\* Nothing is sent at first.
LEMMA StreamInit == Init => StreamInv
<1> SUFFICES ASSUME Init PROVE StreamInv
  OBVIOUS
<1>1. /\ <<>> \in Seq(Messages) /\ <<>> \in Seq(Byte) /\ Len(<<>>) = 0
  BY EmptySeq
<1>2. TypeOK
  BY <1>1 DEF Init, TypeOK
<1>3. Unread = <<>>
  BY <1>1, ConcatEmptySeq DEF Init, Unread
<1>4. PICK start : start = [k \in 1..1 |-> 0]
  OBVIOUS
<1>5. start[1] = 0 /\ start \in [1..1 -> Int]
  BY <1>4
<1>6. Len(sent) = 0 /\ Upcoming = 1 /\ mNextBlockSize = 0
  BY <1>1 DEF Init, Upcoming
<1>7. BlocksInARow(start)
  BY <1>5, <1>6 DEF BlocksInARow
<1>8. UnreadAt(start, 0)
  BY <1>6 DEF UnreadAt
<1>9. Aligned(start, 0)
  BY <1>1, <1>3, <1>5, <1>6 DEF Aligned
<1> QED  BY <1>1, <1>2, <1>7, <1>8, <1>9 DEF StreamInv, Init

\* Every step keeps the invariant.
LEMMA StreamNext == StreamInv /\ [Next]_vars => StreamInv'
BY SendStep, NothingReadStep, ReadSizeStep, ReadBlockStep DEF Next, Loop

\* The invariant holds of every behaviour.
LEMMA StreamInvHolds == Init /\ [][Next]_vars => []StreamInv
BY StreamInit, StreamNext, PTL

(***************************************************************************)
(* The variables of a stream have their types, the size that is expected   *)
(* next among them: it is that of a block, never a part of one (TypeOK).   *)
(***************************************************************************)
THEOREM TypeCorrect == Spec => []TypeOK
<1>1. StreamInv => TypeOK
  BY DEF StreamInv
<1> QED  BY <1>1, StreamInvHolds, PTL DEF Spec

(***************************************************************************)
(* receiveMessage never takes a part of a block for a size or a size for a *)
(* part of a block (AtBoundary), however the bytes are cut into pieces.    *)
(***************************************************************************)
THEOREM StaysAtBoundary == Spec => []AtBoundary
<1>1. StreamInv => AtBoundary
  <2> SUFFICES ASSUME StreamInv, buffered # <<>>
               PROVE  IF mNextBlockSize = 0 THEN buffered[1].part = "size"
                      ELSE /\ buffered[1].part = "content"
                           /\ mNextBlockSize = BlockSize[buffered[1].of]
    BY DEF AtBoundary
  <2>1. Len(buffered) > 0
    BY EmptySeq DEF StreamInv
  <2>2. buffered[1] = [part |-> IF mNextBlockSize = 0 THEN "size" ELSE "content",
                       of   |-> sent[Upcoming]]
    BY <2>1, FirstByte
  <2>3. mNextBlockSize # 0 => mNextBlockSize = BlockSize[sent[Upcoming]]
    BY DEF StreamInv
  <2> QED  BY <2>2, <2>3
<1> QED  BY <1>1, StreamInvHolds, PTL DEF Spec

(***************************************************************************)
(* NetworkStream implements FifoChannel: whatever the pieces the bytes     *)
(* arrive in, the messages emitted are those that were sent, whole, once   *)
(* and in order.                                                           *)
(***************************************************************************)
THEOREM StreamIsChannel == Spec => ImplementsChannel
<1>1. Init => Channel!ChannelInit
  BY DEF Init, Channel!ChannelInit
<1>2. StreamInv /\ [Next]_vars => [Channel!Send \/ Channel!Receive]_(Channel!channelVars)
  <2> SUFFICES ASSUME StreamInv, [Next]_vars
               PROVE  Channel!Send \/ Channel!Receive \/ UNCHANGED <<sent, received>>
    BY DEF Channel!channelVars
  <2>1. ASSUME NEW m \in Messages, sendMessage(m) PROVE Channel!Send
    BY <2>1 DEF sendMessage, Channel!Send
  <2>2. CASE Arrive \/ receiveMessage \/ BreakLoop \/ socketDisconnected \/ ReadSize
             \/ UNCHANGED vars
    BY <2>2 DEF Arrive, receiveMessage, BreakLoop, socketDisconnected, ReadSize, vars
  <2>3. CASE ReadBlock
    BY <2>3, ReadBlockStep DEF Channel!Receive
  <2> QED  BY <2>1, <2>2, <2>3 DEF Next, Loop
<1> QED  BY <1>1, <1>2, StreamInvHolds, PTL DEF Spec, ImplementsChannel, Channel!ChannelSpec
=============================================================================
