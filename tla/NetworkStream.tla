---------------------------- MODULE NetworkStream ----------------------------
(***************************************************************************)
(* The framing of messages on a TCP connection (networkstream.cpp), one    *)
(* direction of it.  The socket delivers the bytes in pieces of any size   *)
(* and signals readyRead for each piece.  Sizes are in units of bytes:     *)
(* SizeBytes of them hold the size of a block, the quint64 of the code.    *)
(***************************************************************************)
EXTENDS Integers, Sequences

CONSTANTS
  Messages,      \* the messages that are sent
  BlockSize,     \* BlockSize[m]: bytes of m serialised as a QByteArray
  SizeBytes,     \* sizeof(quint64)
  MaxSent        \* bound: messages sent

\* The serialised QByteArray holds the message's length, so it is not empty.
ASSUME BlockSizeAssumption == BlockSize \in [Messages -> Nat \ {0}]
ASSUME SizeBytesAssumption == SizeBytes \in Nat \ {0}
ASSUME MaxSentAssumption == MaxSent \in Nat

VARIABLES
  sent,            \* history: messages given to sendMessage
  inFlight,        \* bytes on their way
  buffered,        \* bytes that arrived and were not read (bytesAvailable)
  mNextBlockSize,  \* size of the block that is read next, 0 if not known
  readyRead,       \* the signal is raised and receiveMessage not called yet
  reading,         \* receiveMessage is in its loop
  received,        \* history: messages emitted
  connected        \* bytes still arrive

vars == <<sent, inFlight, buffered, mNextBlockSize, readyRead, reading, received,
          connected>>

Init ==
  /\ sent = <<>> /\ inFlight = <<>> /\ buffered = <<>>
  /\ mNextBlockSize = 0 /\ readyRead = FALSE /\ reading = FALSE
  /\ received = <<>> /\ connected = TRUE

\* The bytes of a block: what a byte belongs to tells what reading it gives.
SizeOf(m) == [i \in 1..SizeBytes |-> [part |-> "size", of |-> m]]
ContentOf(m) == [i \in 1..BlockSize[m] |-> [part |-> "content", of |-> m]]

sendMessage(m) ==
  /\ connected
  /\ Len(sent) < MaxSent
  /\ sent' = Append(sent, m)
  /\ inFlight' = inFlight \o SizeOf(m) \o ContentOf(m)
  /\ UNCHANGED <<buffered, mNextBlockSize, readyRead, reading, received, connected>>

\* The event loop takes the next n bytes from the network.
Arrive ==
  /\ connected /\ ~reading
  /\ \E n \in 1..Len(inFlight) :
       /\ buffered' = buffered \o SubSeq(inFlight, 1, n)
       /\ inFlight' = SubSeq(inFlight, n + 1, Len(inFlight))
  /\ readyRead' = TRUE
  /\ UNCHANGED <<sent, mNextBlockSize, reading, received, connected>>

-----------------------------------------------------------------------------
(***************************************************************************)
(* receiveMessage, a step for each read.  The loop does not return to the  *)
(* event loop, so nothing arrives meanwhile.                               *)
(***************************************************************************)
receiveMessage ==
  /\ readyRead /\ ~reading
  /\ readyRead' = FALSE
  /\ reading' = TRUE
  /\ UNCHANGED <<sent, inFlight, buffered, mNextBlockSize, received, connected>>

\* Mutant: a read is made as soon as there is anything to read.
CanReadSome(n) == reading /\ buffered # <<>>

\* The bytes wanted next have arrived.
CanRead(n) == reading /\ Len(buffered) >= n

Rest(n) == SubSeq(buffered, n + 1, Len(buffered))

\* Mutant: the size is taken to count itself.
ReadSizeWithItself ==
  /\ mNextBlockSize = 0
  /\ CanRead(SizeBytes)
  /\ mNextBlockSize' = BlockSize[buffered[1].of] + SizeBytes
  /\ buffered' = Rest(SizeBytes)
  /\ UNCHANGED <<sent, inFlight, readyRead, reading, received, connected>>

ReadSize ==
  /\ mNextBlockSize = 0
  /\ CanRead(SizeBytes)
  /\ mNextBlockSize' = BlockSize[buffered[1].of]
  /\ buffered' = Rest(SizeBytes)
  /\ UNCHANGED <<sent, inFlight, readyRead, reading, received, connected>>

\* Mutants: the size is kept for the next block; one block is read a signal.
ReadBlockKeepsSize ==
  /\ mNextBlockSize # 0
  /\ CanRead(mNextBlockSize)
  /\ received' = Append(received, buffered[1].of)
  /\ buffered' = Rest(mNextBlockSize)
  /\ UNCHANGED <<sent, inFlight, mNextBlockSize, readyRead, reading, connected>>

ReadOneBlock ==
  /\ mNextBlockSize # 0
  /\ CanRead(mNextBlockSize)
  /\ mNextBlockSize' = 0
  /\ received' = Append(received, buffered[1].of)
  /\ buffered' = Rest(mNextBlockSize)
  /\ reading' = FALSE
  /\ UNCHANGED <<sent, inFlight, readyRead, connected>>

\* newNetMessage is a direct call: its handler may close the socket, which
\* throws away what is buffered, and returns into the loop.
ReadBlock ==
  /\ mNextBlockSize # 0
  /\ CanRead(mNextBlockSize)
  /\ mNextBlockSize' = 0
  /\ received' = Append(received, buffered[1].of)
  /\ \/ buffered' = Rest(mNextBlockSize) /\ UNCHANGED <<inFlight, connected>>
     \/ /\ connected
        /\ connected' = FALSE
        /\ inFlight' = <<>> /\ buffered' = <<>>
  /\ UNCHANGED <<sent, readyRead, reading>>

\* The two breaks: not all the bytes wanted next have arrived.
BreakLoop ==
  /\ reading
  /\ Len(buffered) < IF mNextBlockSize = 0 THEN SizeBytes ELSE mNextBlockSize
  /\ reading' = FALSE
  /\ UNCHANGED <<sent, inFlight, buffered, mNextBlockSize, readyRead, received,
                 connected>>

-----------------------------------------------------------------------------
\* The peer is gone: nothing more arrives; what is buffered is still read.
socketDisconnected ==
  /\ connected /\ ~reading
  /\ connected' = FALSE
  /\ inFlight' = <<>>
  /\ UNCHANGED <<sent, buffered, mNextBlockSize, readyRead, reading, received>>

Loop == receiveMessage \/ ReadSize \/ ReadBlock \/ BreakLoop

Next ==
  \/ \E m \in Messages : sendMessage(m)
  \/ Arrive
  \/ Loop
  \/ socketDisconnected

\* Both event loops run and TCP goes on delivering while it is connected.
Spec == Init /\ [][Next]_vars /\ WF_vars(Arrive) /\ WF_vars(Loop)

-----------------------------------------------------------------------------
TypeOK ==
  /\ sent \in Seq(Messages) /\ received \in Seq(Messages)
  /\ mNextBlockSize \in {0} \cup {BlockSize[m] : m \in Messages}
  /\ readyRead \in BOOLEAN /\ reading \in BOOLEAN /\ connected \in BOOLEAN

(***************************************************************************)
(* Whatever the pieces in which the bytes arrive, the messages come out    *)
(* whole, once and in order.                                               *)
(***************************************************************************)
Channel == INSTANCE FifoChannel

ImplementsChannel == Channel!ChannelSpec

(***************************************************************************)
(* The reader stays at a boundary: unread bytes begin with a size when no  *)
(* size is known, and with the content of a block of that size when one is.*)
(***************************************************************************)
AtBoundary ==
  buffered # <<>> =>
    IF mNextBlockSize = 0 THEN buffered[1].part = "size"
    ELSE /\ buffered[1].part = "content"
         /\ mNextBlockSize = BlockSize[buffered[1].of]

(***************************************************************************)
(* A message that was sent is received unless the connection ends: none is *)
(* left in the buffer until the next one arrives.                          *)
(***************************************************************************)
AllReceived == <>[](connected => received = sent)
=============================================================================
