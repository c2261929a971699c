------------------------------- MODULE Buffer -------------------------------
(***************************************************************************)
(* gdrpc::net::TcpConnection::Buffer, the input and output buffer of a     *)
(* connection: a vector of which [readerIndex_, writerIndex_) is readable. *)
(* append makes room by moving the readable bytes to the front or by       *)
(* growing the vector; readFd reads into the free space behind the         *)
(* readable bytes and, when that is small, into an extra buffer on the     *)
(* stack whose part is then appended.                                      *)
(***************************************************************************)
EXTENDS Naturals, Sequences

CONSTANTS ByteValues,   \* the values of a byte
          Zero,         \* the byte a vector is filled with
          Chunks,       \* what may be appended or arrive at once
          InitialSize,  \* kInitialSize (1024)
          ExtraSize,    \* sizeof extrabuf (65536)
          MaxReadable   \* bound on the readable bytes

ASSUME ZeroAssumption == Zero \in ByteValues
ASSUME ChunkAssumption == Chunks \subseteq Seq(ByteValues)
ASSUME SizeAssumption == InitialSize \in Nat /\ ExtraSize \in Nat /\ MaxReadable \in Nat

VARIABLES buffer_, readerIndex_, writerIndex_,
          peak    \* history: the most bytes that were readable at once

bufferVars == <<buffer_, readerIndex_, writerIndex_, peak>>

ReadableBytes == writerIndex_ - readerIndex_
WritableBytes == Len(buffer_) - writerIndex_
PrependableBytes == readerIndex_

\* what peek() and readableBytes() delimit
Readable == SubSeq(buffer_, readerIndex_ + 1, writerIndex_)

BufferTypeOK == buffer_ \in Seq(ByteValues) /\ readerIndex_ \in Nat
                /\ writerIndex_ \in Nat /\ peak \in Nat

Zeros(n) == [i \in 1 .. n |-> Zero]

BufferInit == /\ buffer_ = Zeros(InitialSize)
              /\ readerIndex_ = 0 /\ writerIndex_ = 0
              /\ peak = 0
-----------------------------------------------------------------------------
\* std::copy of data to buf + at
Copy(buf, at, data) ==
    [i \in 1 .. Len(buf) |-> IF i \in at + 1 .. at + Len(data) THEN data[i - at] ELSE buf[i]]

\* resize to more elements
Resize(buf, n) == buf \o Zeros(n - Len(buf))

(* makeSpace(len) followed by append's copy of data, in a buffer buf of    *)
(* which the bytes r .. w - 1 are readable                                  *)
Grow(buf, r, w, data) ==
    /\ buffer_' = Copy(Resize(buf, w + Len(data)), w, data)
    /\ readerIndex_' = r /\ writerIndex_' = w + Len(data)

\* a mutant: the indices are moved to the front without the bytes
MoveIndicesOnly(buf, r, w, data) ==
    /\ buffer_' = Copy(buf, w - r, data)
    /\ readerIndex_' = 0 /\ writerIndex_' = w - r + Len(data)

Move(buf, r, w, data) ==
    /\ buffer_' = Copy(Copy(buf, 0, SubSeq(buf, r + 1, w)), w - r, data)
    /\ readerIndex_' = 0 /\ writerIndex_' = w - r + Len(data)

\* a mutant: room is always made by growing
AppendGrowing(buf, r, w, data) ==
    IF Len(buf) - w < Len(data)
      THEN Grow(buf, r, w, data)
      ELSE /\ buffer_' = Copy(buf, w, data)
           /\ readerIndex_' = r /\ writerIndex_' = w + Len(data)

\* append: ensureWritableBytes, makeSpace, copy
AppendTo(buf, r, w, data) ==
    CASE Len(buf) - w >= Len(data) ->
            /\ buffer_' = Copy(buf, w, data)
            /\ readerIndex_' = r /\ writerIndex_' = w + Len(data)
      [] Len(buf) - w < Len(data) /\ Len(buf) - w + r < Len(data) -> Grow(buf, r, w, data)
      [] OTHER -> Move(buf, r, w, data)

Larger(m, n) == IF m > n THEN m ELSE n

AppendData(data) ==
    /\ ReadableBytes + Len(data) <= MaxReadable
    /\ AppendTo(buffer_, readerIndex_, writerIndex_, data)
    /\ peak' = Larger(peak, ReadableBytes + Len(data))

\* readFd: readv fills the free space first and then extrabuf
ReadFd(data) ==
    /\ ReadableBytes + Len(data) <= MaxReadable
    /\ Len(data) <= WritableBytes + (IF WritableBytes < ExtraSize THEN ExtraSize ELSE 0)
    /\ IF Len(data) <= WritableBytes
         THEN /\ buffer_' = Copy(buffer_, writerIndex_, data)
              /\ writerIndex_' = writerIndex_ + Len(data)
              /\ UNCHANGED readerIndex_
         ELSE AppendTo(Copy(buffer_, writerIndex_, SubSeq(data, 1, WritableBytes)),
                       readerIndex_, Len(buffer_),
                       SubSeq(data, WritableBytes + 1, Len(data)))
    /\ peak' = Larger(peak, ReadableBytes + Len(data))

\* retrieve(len), on its own and in readAll and handleWrite; more than there
\* is returns false and takes nothing
Retrieve(len) ==
    /\ len <= ReadableBytes
    /\ IF len < ReadableBytes
         THEN readerIndex_' = readerIndex_ + len /\ UNCHANGED writerIndex_
         ELSE readerIndex_' = 0 /\ writerIndex_' = 0
    /\ UNCHANGED <<buffer_, peak>>

RetrieveTooMuch(len) == len > ReadableBytes /\ UNCHANGED bufferVars

BufferNext == \/ \E c \in Chunks : AppendData(c) \/ ReadFd(c)
              \/ \E len \in 0 .. MaxReadable + 1 : Retrieve(len) \/ RetrieveTooMuch(len)

BufferSpec == BufferInit /\ [][BufferNext]_bufferVars
-----------------------------------------------------------------------------
(* The indices stay in order and inside the vector: no copy, read or write *)
(* of the buffer leaves it.                                                *)
IndexInv == readerIndex_ <= writerIndex_ /\ writerIndex_ <= Len(buffer_)
            /\ ReadableBytes <= peak

BufferInv == BufferTypeOK /\ IndexInv

(* However long a connection lives, its buffer does not grow beyond twice  *)
(* what was readable at once: space in front is reused.                    *)
SizeBounded == Len(buffer_) <= Larger(InitialSize, 2 * peak)

(* Whatever mixture of growing, moving and reading through the extra       *)
(* buffer, the readable bytes are a queue of the bytes put in.             *)
Queue == INSTANCE ByteQueue WITH bytes <- Readable
IsByteQueue == Queue!Spec
=============================================================================
