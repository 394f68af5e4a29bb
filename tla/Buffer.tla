-------------------------------- MODULE Buffer --------------------------------
(***************************************************************************)
(* The Buffer of a connection (Buffer.h, Buffer.cc): a vector of bytes and *)
(* two indices into it.  buffer_[i + 1] is the vector's element i.         *)
(***************************************************************************)
EXTENDS Naturals, Sequences

CONSTANTS
  Byte,
  Zero,             \* what the vector fills new elements with
  kCheapPrepend,
  kInitialSize,
  ExtraSize,        \* sizeof extrabuf in readFd
  MaxContent,       \* bound: bytes in the buffer
  MaxData           \* bound: bytes in one append or read

ASSUME BufferAssumption ==
  /\ Zero \in Byte
  /\ {kCheapPrepend, kInitialSize, ExtraSize, MaxContent, MaxData} \subseteq Nat

VARIABLES
  buffer_, readerIndex_, writeIndex_,
  input, output     \* history: the bytes the last call put in, took out

vars == <<buffer_, readerIndex_, writeIndex_, input, output>>

TypeOK ==
  /\ buffer_ \in Seq(Byte)
  /\ readerIndex_ \in Nat /\ writeIndex_ \in Nat
  /\ input \in Seq(Byte) /\ output \in Seq(Byte)

Init ==
  /\ buffer_ = [i \in 1 .. kCheapPrepend + kInitialSize |-> Zero]
  /\ readerIndex_ = kCheapPrepend
  /\ writeIndex_ = kCheapPrepend
  /\ input = <<>>
  /\ output = <<>>

readableBytes == writeIndex_ - readerIndex_
writeableBytes == Len(buffer_) - writeIndex_
prependableBytes == readerIndex_

Readable == SubSeq(buffer_, readerIndex_ + 1, writeIndex_)

\* std::copy of data to the elements from index at on.
Copy(bytes, data, at) ==
  [i \in 1 .. Len(bytes) |-> IF i \in at + 1 .. at + Len(data) THEN data[i - at] ELSE bytes[i]]

Resize(bytes, size) ==
  [i \in 1 .. size |-> IF i <= Len(bytes) THEN bytes[i] ELSE Zero]

\* Variants with a bug: the prepend area counted as room; the room in front never used.
MustGrowIntoPrepend(bytes, write, len) == Len(bytes) - write + prependableBytes < len
MustGrowAlways(bytes, write, len) == TRUE

MustGrow(bytes, write, len) ==
  Len(bytes) - write + prependableBytes < len + kCheapPrepend

\* append(data) to a vector bytes whose write index is write: ensureWriteBytes, with
\* makeSpace's two branches, then the copy.
AppendTo(bytes, write, data) ==
  LET len == Len(data)
  IN
  \/ /\ len <= Len(bytes) - write
     /\ buffer_' = Copy(bytes, data, write)
     /\ writeIndex_' = write + len
     /\ UNCHANGED readerIndex_
  \/ /\ len > Len(bytes) - write
     /\ MustGrow(bytes, write, len)
     /\ buffer_' = Copy(Resize(bytes, write + len), data, write)
     /\ writeIndex_' = write + len
     /\ UNCHANGED readerIndex_
  \/ /\ len > Len(bytes) - write
     /\ ~MustGrow(bytes, write, len)
     /\ LET readable == SubSeq(bytes, readerIndex_ + 1, write)
            end == kCheapPrepend + Len(readable)
        IN  /\ buffer_' = Copy(Copy(bytes, readable, kCheapPrepend), data, end)
            /\ writeIndex_' = end + len
     /\ readerIndex_' = kCheapPrepend

Data == UNION {[1 .. n -> Byte] : n \in 0 .. MaxData}
Fits(data) == readableBytes + Len(data) <= MaxContent

append(data) ==
  /\ Fits(data)
  /\ AppendTo(buffer_, writeIndex_, data)
  /\ input' = data
  /\ output' = <<>>

\* Variant with a bug: writeIndex_ is not moved to the end before extrabuf is appended.
readFdForgetsIndex(data) ==
  LET writable == writeableBytes
  IN
  /\ Fits(data)
  /\ Len(data) <= writable + (IF writable < ExtraSize THEN ExtraSize ELSE 0)
  /\ IF Len(data) <= writable
     THEN /\ buffer_' = Copy(buffer_, data, writeIndex_)
          /\ writeIndex_' = writeIndex_ + Len(data)
          /\ UNCHANGED readerIndex_
     ELSE AppendTo(Copy(buffer_, SubSeq(data, 1, writable), writeIndex_), writeIndex_,
                   SubSeq(data, writable + 1, Len(data)))
  /\ input' = data
  /\ output' = <<>>

\* readv into the free end of the vector and, if that is the smaller, extrabuf;
\* what landed in extrabuf is appended.
readFd(data) ==
  LET writable == writeableBytes
      first == SubSeq(data, 1, writable)
  IN
  /\ Fits(data)
  /\ Len(data) <= writable + (IF writable < ExtraSize THEN ExtraSize ELSE 0)
  /\ IF Len(data) <= writable
     THEN /\ buffer_' = Copy(buffer_, data, writeIndex_)
          /\ writeIndex_' = writeIndex_ + Len(data)
          /\ UNCHANGED readerIndex_
     ELSE AppendTo(Copy(buffer_, first, writeIndex_), Len(buffer_),
                   SubSeq(data, writable + 1, Len(data)))
  /\ input' = data
  /\ output' = <<>>

\* Variant with a bug: the reader index goes back.
retrieveBackwards(len) ==
  /\ readerIndex_' = readerIndex_ - len
  /\ output' = <<>>
  /\ input' = <<>>
  /\ UNCHANGED <<buffer_, writeIndex_>>

\* retrieve(len), what writeFd sent or the user read; retrieveAll is the else branch.
retrieve(len) ==
  /\ IF len < readableBytes
     THEN readerIndex_' = readerIndex_ + len /\ UNCHANGED writeIndex_
     ELSE readerIndex_' = kCheapPrepend /\ writeIndex_' = kCheapPrepend
  /\ output' = SubSeq(buffer_, readerIndex_ + 1,
                      readerIndex_ + (IF len < readableBytes THEN len ELSE readableBytes))
  /\ input' = <<>>
  /\ UNCHANGED buffer_

Next ==
  \/ \E data \in Data : append(data) \/ readFd(data)
  \/ \E len \in 0 .. MaxContent + 1 : retrieve(len)

Spec == Init /\ [][Next]_vars

------------------------------------------------------------------------------
\* The indices stay in order and inside the vector, and the prepend area is never
\* given away, however appends, reads and retrieves alternate (makeSpace, readFd).
IndicesInRange ==
  /\ kCheapPrepend <= readerIndex_
  /\ readerIndex_ <= writeIndex_
  /\ writeIndex_ <= Len(buffer_)

\* The vector grows only when its bytes and the new ones would not fit even if moved
\* to the front, and it never shrinks (makeSpace).
GrowsOnlyIfMust ==
  [][ /\ Len(buffer_') >= Len(buffer_)
      /\ Len(buffer_') > Len(buffer_) =>
           kCheapPrepend + readableBytes' > Len(buffer_) ]_vars

\* The bytes between the indices are a queue: what goes in comes out, in order and
\* unchanged, across compaction and growth.
BQ == INSTANCE ByteQueue WITH queue <- Readable

ImplementsByteQueue == BQ!Spec
==============================================================================
