----------------------------- MODULE BufferProofs -----------------------------
(***************************************************************************)
(* Proofs about Buffer: for any bytes and any sizes of the prepend area,   *)
(* the first allocation and extrabuf, it is a queue of bytes.              *)
(***************************************************************************)
EXTENDS Buffer, SequenceTheorems, TLAPS

------------------------------------------------------------------------------
(***************************************************************************)
(* The vector.                                                             *)
(***************************************************************************)
LEMMA FunctionIsSeq ==
  ASSUME NEW S, NEW n \in Nat, NEW f \in [1 .. n -> S]
  PROVE  f \in Seq(S) /\ Len(f) = n
<1>1. f \in Seq(S)
  BY SeqDef
<1>2. QED
  BY <1>1, LenProperties

\* A copy that stays inside the vector keeps its size and changes only its target.
LEMMA CopyProperties ==
  ASSUME NEW bytes \in Seq(Byte), NEW data \in Seq(Byte), NEW at \in Nat,
         at + Len(data) <= Len(bytes)
  PROVE  /\ Copy(bytes, data, at) \in Seq(Byte)
         /\ Len(Copy(bytes, data, at)) = Len(bytes)
         /\ \A i \in 1 .. Len(bytes) :
              Copy(bytes, data, at)[i] =
                IF i > at /\ i <= at + Len(data) THEN data[i - at] ELSE bytes[i]
<1>1. Len(bytes) \in Nat /\ Len(data) \in Nat
  BY LenProperties
<1>2. \A i \in 1 .. Len(bytes) :
        (IF i \in at + 1 .. at + Len(data) THEN data[i - at] ELSE bytes[i]) \in Byte
  <2> TAKE i \in 1 .. Len(bytes)
  <2>1. CASE i \in at + 1 .. at + Len(data)
    <3>1. i - at \in 1 .. Len(data)
      BY <1>1, <2>1
    <3>2. QED
      BY <2>1, <3>1, ElementOfSeq
  <2>2. CASE i \notin at + 1 .. at + Len(data)
    BY <2>2, ElementOfSeq
  <2>3. QED
    BY <2>1, <2>2
<1>3. Copy(bytes, data, at) \in [1 .. Len(bytes) -> Byte]
  BY <1>2 DEF Copy
<1>4. QED
  BY <1>1, <1>3, FunctionIsSeq DEF Copy

LEMMA ResizeProperties ==
  ASSUME NEW bytes \in Seq(Byte), NEW size \in Nat
  PROVE  /\ Resize(bytes, size) \in Seq(Byte)
         /\ Len(Resize(bytes, size)) = size
         /\ \A i \in 1 .. size :
              Resize(bytes, size)[i] = IF i <= Len(bytes) THEN bytes[i] ELSE Zero
<1>1. Len(bytes) \in Nat
  BY LenProperties
<1>2. \A i \in 1 .. size : (IF i <= Len(bytes) THEN bytes[i] ELSE Zero) \in Byte
  BY <1>1, ElementOfSeq, BufferAssumption
<1>3. Resize(bytes, size) \in [1 .. size -> Byte]
  BY <1>2 DEF Resize
<1>4. QED
  BY <1>3, FunctionIsSeq DEF Resize

LEMMA PartProperties ==
  ASSUME NEW bytes \in Seq(Byte), NEW from \in Nat, NEW to \in Nat,
         from <= to, to <= Len(bytes)
  PROVE  /\ SubSeq(bytes, from + 1, to) \in Seq(Byte)
         /\ Len(SubSeq(bytes, from + 1, to)) = to - from
         /\ \A i \in 1 .. to - from : SubSeq(bytes, from + 1, to)[i] = bytes[from + i]
<1>1. Len(bytes) \in Nat
  BY LenProperties
<1>2. \A i \in from + 1 .. to : bytes[i] \in Byte
  BY <1>1, ElementOfSeq
<1>3. from + 1 \in Int /\ to \in Int
  OBVIOUS
<1>4. /\ SubSeq(bytes, from + 1, to) \in Seq(Byte)
      /\ Len(SubSeq(bytes, from + 1, to)) = IF from + 1 <= to THEN to - (from + 1) + 1 ELSE 0
      /\ \A i \in 1 .. to - (from + 1) + 1 :
           SubSeq(bytes, from + 1, to)[i] = bytes[from + 1 + i - 1]
  BY <1>2, <1>3, SubSeqProperties
<1>5. QED
  BY <1>4

------------------------------------------------------------------------------
(***************************************************************************)
(* append, to a vector the read may already have filled.                   *)
(***************************************************************************)

\* What the new vector and indices hold, given the bytes and the write index the
\* append began with: the readable bytes, then data.
Appended(bytes, write, data) ==
  LET old == write - readerIndex_
  IN  /\ buffer_' \in Seq(Byte)
      /\ readerIndex_' \in Nat /\ writeIndex_' \in Nat
      /\ IndicesInRange'
      /\ writeIndex_' - readerIndex_' = old + Len(data)
      /\ Len(buffer_') >= Len(bytes)
      /\ Len(buffer_') > Len(bytes) => kCheapPrepend + old + Len(data) > Len(bytes)
      /\ \A i \in 1 .. old + Len(data) :
           buffer_'[readerIndex_' + i] =
             IF i <= old THEN bytes[readerIndex_ + i] ELSE data[i - old]

LEMMA AppendIsRight ==
  ASSUME NEW bytes \in Seq(Byte), NEW write \in Nat, NEW data \in Seq(Byte),
         readerIndex_ \in Nat, kCheapPrepend <= readerIndex_,
         readerIndex_ <= write, write <= Len(bytes),
         AppendTo(bytes, write, data)
  PROVE  Appended(bytes, write, data)
<1>1. Len(bytes) \in Nat /\ Len(data) \in Nat /\ kCheapPrepend \in Nat
  BY LenProperties, BufferAssumption
<1>2. CASE /\ Len(data) <= Len(bytes) - write
           /\ buffer_' = Copy(bytes, data, write)
           /\ writeIndex_' = write + Len(data)
           /\ UNCHANGED readerIndex_
  <2>1. write + Len(data) <= Len(bytes)
    BY <1>1, <1>2
  <2>2. /\ buffer_' \in Seq(Byte) /\ Len(buffer_') = Len(bytes)
        /\ \A i \in 1 .. Len(bytes) :
             buffer_'[i] = IF i > write /\ i <= write + Len(data)
                           THEN data[i - write] ELSE bytes[i]
    BY <1>2, <2>1, CopyProperties
  <2>3. \A i \in 1 .. write - readerIndex_ + Len(data) :
          buffer_'[readerIndex_ + i] =
            IF i <= write - readerIndex_ THEN bytes[readerIndex_ + i]
                                         ELSE data[i - (write - readerIndex_)]
    <3> TAKE i \in 1 .. write - readerIndex_ + Len(data)
    <3>1. readerIndex_ + i \in 1 .. Len(bytes)
      BY <1>1, <2>1
    <3>2. (readerIndex_ + i) - write = i - (write - readerIndex_)
      BY <1>1
    <3>3. buffer_'[readerIndex_ + i] =
            IF readerIndex_ + i > write /\ readerIndex_ + i <= write + Len(data)
            THEN data[(readerIndex_ + i) - write] ELSE bytes[readerIndex_ + i]
      BY <2>2, <3>1
    <3>4. /\ readerIndex_ + i > write <=> ~(i <= write - readerIndex_)
          /\ readerIndex_ + i <= write + Len(data)
      BY <1>1
    <3>5. QED
      BY <3>2, <3>3, <3>4
  <2>4. writeIndex_' - readerIndex_' = write - readerIndex_ + Len(data)
    BY <1>1, <1>2
  <2>5. IndicesInRange' /\ readerIndex_' \in Nat /\ writeIndex_' \in Nat
    BY <1>1, <1>2, <2>1, <2>2 DEF IndicesInRange
  <2>6. QED
    BY <1>1, <1>2, <2>2, <2>3, <2>4, <2>5 DEF Appended
<1>3. CASE /\ Len(data) > Len(bytes) - write
           /\ MustGrow(bytes, write, Len(data))
           /\ buffer_' = Copy(Resize(bytes, write + Len(data)), data, write)
           /\ writeIndex_' = write + Len(data)
           /\ UNCHANGED readerIndex_
  <2> DEFINE grown == Resize(bytes, write + Len(data))
  <2>0. write + Len(data) \in Nat
    BY <1>1
  <2>1. /\ grown \in Seq(Byte) /\ Len(grown) = write + Len(data)
        /\ \A i \in 1 .. write + Len(data) :
             grown[i] = IF i <= Len(bytes) THEN bytes[i] ELSE Zero
    BY <2>0, ResizeProperties
  <2>2. buffer_' = Copy(grown, data, write)
    BY <1>3
  <2> HIDE DEF grown
  <2>3. /\ buffer_' \in Seq(Byte) /\ Len(buffer_') = write + Len(data)
        /\ \A i \in 1 .. write + Len(data) :
             buffer_'[i] = IF i > write /\ i <= write + Len(data)
                           THEN data[i - write] ELSE grown[i]
    BY <1>1, <2>1, <2>2, CopyProperties
  <2>4. Len(bytes) - write + readerIndex_ < Len(data) + kCheapPrepend
    BY <1>3 DEF MustGrow, prependableBytes
  <2>5. QED
    BY <1>1, <1>3, <2>1, <2>3, <2>4 DEF Appended, IndicesInRange
<1>4. CASE /\ Len(data) > Len(bytes) - write
           /\ ~MustGrow(bytes, write, Len(data))
           /\ LET readable == SubSeq(bytes, readerIndex_ + 1, write)
                  end == kCheapPrepend + Len(readable)
              IN  /\ buffer_' = Copy(Copy(bytes, readable, kCheapPrepend), data, end)
                  /\ writeIndex_' = end + Len(data)
           /\ readerIndex_' = kCheapPrepend
  <2> DEFINE readable == SubSeq(bytes, readerIndex_ + 1, write)
             moved == Copy(bytes, readable, kCheapPrepend)
             old == write - readerIndex_
             end == kCheapPrepend + old
  <2>1. /\ readable \in Seq(Byte) /\ Len(readable) = old
        /\ \A i \in 1 .. old : readable[i] = bytes[readerIndex_ + i]
    BY PartProperties
  <2>2. end + Len(data) <= Len(bytes) /\ old \in Nat /\ end \in Nat
    BY <1>1, <1>4 DEF MustGrow, prependableBytes
  <2>3. /\ buffer_' = Copy(moved, data, end)
        /\ writeIndex_' = end + Len(data)
    BY <1>4, <2>1
  <2> HIDE DEF readable
  <2>4. /\ moved \in Seq(Byte) /\ Len(moved) = Len(bytes)
        /\ \A i \in 1 .. Len(bytes) :
             moved[i] = IF i > kCheapPrepend /\ i <= kCheapPrepend + old
                        THEN readable[i - kCheapPrepend] ELSE bytes[i]
    BY <1>1, <2>1, <2>2, CopyProperties
  <2> HIDE DEF moved
  <2>5. /\ buffer_' \in Seq(Byte) /\ Len(buffer_') = Len(bytes)
        /\ \A i \in 1 .. Len(bytes) :
             buffer_'[i] = IF i > end /\ i <= end + Len(data) THEN data[i - end] ELSE moved[i]
    BY <1>1, <2>2, <2>3, <2>4, CopyProperties
  <2>6. \A i \in 1 .. old + Len(data) :
          buffer_'[kCheapPrepend + i] =
            IF i <= old THEN bytes[readerIndex_ + i] ELSE data[i - old]
    <3> TAKE i \in 1 .. old + Len(data)
    <3>1. kCheapPrepend + i \in 1 .. Len(bytes) /\ i \in Nat
      BY <1>1, <2>2
    <3>2. CASE i <= old
      <4>0. /\ ~(kCheapPrepend + i > end)
            /\ kCheapPrepend + i > kCheapPrepend /\ kCheapPrepend + i <= kCheapPrepend + old
        BY <1>1, <2>2, <3>1, <3>2
      <4>1. buffer_'[kCheapPrepend + i] = moved[kCheapPrepend + i]
        BY <2>5, <3>1, <4>0
      <4>2. moved[kCheapPrepend + i] = readable[(kCheapPrepend + i) - kCheapPrepend]
        BY <2>4, <3>1, <4>0
      <4>3. (kCheapPrepend + i) - kCheapPrepend = i
        BY <1>1, <3>1
      <4>4. QED
        BY <2>1, <2>2, <3>2, <4>1, <4>2, <4>3
    <3>3. CASE i > old
      BY <1>1, <2>2, <2>5, <3>1, <3>3
    <3>4. QED
      BY <2>2, <3>1, <3>2, <3>3
  <2>7. QED
    BY <1>1, <1>4, <2>2, <2>3, <2>5, <2>6 DEF Appended, IndicesInRange
<1>5. QED
  BY <1>2, <1>3, <1>4 DEF AppendTo

------------------------------------------------------------------------------
(***************************************************************************)
(* One step.                                                               *)
(***************************************************************************)
Inv == TypeOK /\ IndicesInRange

LEMMA DataIsSeq == \A data \in Data : data \in Seq(Byte)
<1>1. MaxData \in Nat
  BY BufferAssumption
<1>2. QED
  BY <1>1, FunctionIsSeq DEF Data

\* What each of the three calls leaves: typed and ordered indices, a vector that grew
\* only if it must, and the bytes of the queue in their order.
Right ==
  /\ buffer_' \in Seq(Byte) /\ readerIndex_' \in Nat /\ writeIndex_' \in Nat
  /\ input' \in Seq(Byte) /\ output' \in Seq(Byte)
  /\ IndicesInRange'
  /\ Len(buffer_') >= Len(buffer_)
  /\ Len(buffer_') > Len(buffer_) =>
       kCheapPrepend + (writeIndex_' - readerIndex_') > Len(buffer_)

\* The readable bytes after a call that puts data in, element by element.
PutIn(data) ==
  LET old == writeIndex_ - readerIndex_
  IN  /\ writeIndex_' - readerIndex_' = old + Len(data)
      /\ \A i \in 1 .. old + Len(data) :
           buffer_'[readerIndex_' + i] =
             IF i <= old THEN buffer_[readerIndex_ + i] ELSE data[i - old]

LEMMA AppendStep ==
  ASSUME Inv, NEW data \in Seq(Byte), append(data)
  PROVE  Right /\ PutIn(data)
<1>1. Appended(buffer_, writeIndex_, data)
  BY AppendIsRight DEF Inv, TypeOK, IndicesInRange, append
<1>2. kCheapPrepend \in Nat /\ Len(data) \in Nat /\ Len(buffer_) \in Nat
  BY BufferAssumption, LenProperties DEF Inv, TypeOK
<1>3. input' \in Seq(Byte) /\ output' \in Seq(Byte)
  BY EmptySeq DEF append
<1>4. PutIn(data)
  BY <1>1 DEF Appended, PutIn
<1>5. Right
  BY <1>1, <1>2, <1>3 DEF Appended, Right, Inv, TypeOK
<1>6. QED
  BY <1>4, <1>5

\* A read that fits in the free end of the vector.
LEMMA ReadInPlace ==
  ASSUME Inv, NEW data \in Seq(Byte), readFd(data), Len(data) <= writeableBytes
  PROVE  Right /\ PutIn(data)
<1>1. /\ Len(data) \in Nat /\ Len(buffer_) \in Nat /\ kCheapPrepend \in Nat
      /\ buffer_ \in Seq(Byte) /\ readerIndex_ \in Nat /\ writeIndex_ \in Nat
      /\ kCheapPrepend <= readerIndex_ /\ readerIndex_ <= writeIndex_
      /\ writeIndex_ <= Len(buffer_)
  BY BufferAssumption, LenProperties DEF Inv, TypeOK, IndicesInRange
<1>2. writeIndex_ + Len(data) <= Len(buffer_)
  BY <1>1 DEF writeableBytes
<1>3. /\ buffer_' = Copy(buffer_, data, writeIndex_)
      /\ writeIndex_' = writeIndex_ + Len(data)
      /\ readerIndex_' = readerIndex_
      /\ input' = data /\ output' = <<>>
  BY DEF readFd
<1>4. /\ buffer_' \in Seq(Byte) /\ Len(buffer_') = Len(buffer_)
      /\ \A i \in 1 .. Len(buffer_) :
           buffer_'[i] = IF i > writeIndex_ /\ i <= writeIndex_ + Len(data)
                         THEN data[i - writeIndex_] ELSE buffer_[i]
  BY <1>1, <1>2, <1>3, CopyProperties
<1>5. Right
  BY <1>1, <1>2, <1>3, <1>4, EmptySeq DEF Right, IndicesInRange
<1>6. \A i \in 1 .. writeIndex_ - readerIndex_ + Len(data) :
        buffer_'[readerIndex_ + i] =
          IF i <= writeIndex_ - readerIndex_ THEN buffer_[readerIndex_ + i]
                                             ELSE data[i - (writeIndex_ - readerIndex_)]
  <2> TAKE i \in 1 .. writeIndex_ - readerIndex_ + Len(data)
  <2>1. readerIndex_ + i \in 1 .. Len(buffer_)
    BY <1>1, <1>2
  <2>2. (readerIndex_ + i) - writeIndex_ = i - (writeIndex_ - readerIndex_)
    BY <1>1
  <2>3. QED
    BY <1>1, <1>2, <1>4, <2>1, <2>2
<1>7. writeIndex_' - readerIndex_' = writeIndex_ - readerIndex_ + Len(data)
  BY <1>1, <1>3
<1>8. QED
  BY <1>3, <1>5, <1>6, <1>7 DEF PutIn

\* A read that spills into extrabuf: the free end is filled, the rest appended.
LEMMA ReadSpills ==
  ASSUME Inv, NEW data \in Seq(Byte), readFd(data), Len(data) > writeableBytes
  PROVE  Right /\ PutIn(data)
<1> DEFINE free == Len(buffer_) - writeIndex_
           old == writeIndex_ - readerIndex_
           first == SubSeq(data, 1, free)
           filled == Copy(buffer_, first, writeIndex_)
           rest == SubSeq(data, free + 1, Len(data))
<1>1. /\ Len(data) \in Nat /\ Len(buffer_) \in Nat /\ kCheapPrepend \in Nat
      /\ buffer_ \in Seq(Byte) /\ readerIndex_ \in Nat /\ writeIndex_ \in Nat
      /\ kCheapPrepend <= readerIndex_ /\ readerIndex_ <= writeIndex_
      /\ writeIndex_ <= Len(buffer_)
  BY BufferAssumption, LenProperties DEF Inv, TypeOK, IndicesInRange
<1>2. free \in Nat /\ old \in Nat /\ free < Len(data)
  BY <1>1 DEF writeableBytes
<1>3. AppendTo(filled, Len(buffer_), rest) /\ input' = data /\ output' = <<>>
  BY <1>1, <1>2 DEF readFd, writeableBytes
<1>4. /\ first \in Seq(Byte) /\ Len(first) = free
      /\ \A i \in 1 .. free : first[i] = data[i]
  BY <1>1, <1>2, PartProperties
<1>5. /\ rest \in Seq(Byte) /\ Len(rest) = Len(data) - free
      /\ \A i \in 1 .. Len(data) - free : rest[i] = data[free + i]
  BY <1>1, <1>2, PartProperties
<1> HIDE DEF first, rest
<1>6. writeIndex_ + Len(first) <= Len(buffer_)
  BY <1>1, <1>4
<1>7. /\ filled \in Seq(Byte) /\ Len(filled) = Len(buffer_)
      /\ \A i \in 1 .. Len(buffer_) :
           filled[i] = IF i > writeIndex_ /\ i <= writeIndex_ + Len(first)
                       THEN first[i - writeIndex_] ELSE buffer_[i]
  BY <1>1, <1>4, <1>6, CopyProperties
<1> HIDE DEF filled
<1>8. Appended(filled, Len(buffer_), rest)
  BY <1>1, <1>3, <1>5, <1>7, AppendIsRight
<1>9. /\ buffer_' \in Seq(Byte) /\ readerIndex_' \in Nat /\ writeIndex_' \in Nat
      /\ IndicesInRange'
      /\ writeIndex_' - readerIndex_' = Len(buffer_) - readerIndex_ + Len(rest)
      /\ Len(buffer_') >= Len(buffer_)
      /\ Len(buffer_') > Len(buffer_) =>
           kCheapPrepend + (Len(buffer_) - readerIndex_) + Len(rest) > Len(buffer_)
  BY <1>7, <1>8 DEF Appended
<1>10. \A i \in 1 .. Len(buffer_) - readerIndex_ + Len(rest) :
         buffer_'[readerIndex_' + i] =
           IF i <= Len(buffer_) - readerIndex_
           THEN filled[readerIndex_ + i] ELSE rest[i - (Len(buffer_) - readerIndex_)]
  BY <1>8 DEF Appended
<1>11. Len(buffer_) - readerIndex_ + Len(rest) = old + Len(data)
  BY <1>1, <1>5
<1>12. Right
  BY <1>1, <1>3, <1>5, <1>9, EmptySeq DEF Right
<1>13. \A i \in 1 .. old + Len(data) :
         buffer_'[readerIndex_' + i] =
           IF i <= old THEN buffer_[readerIndex_ + i] ELSE data[i - old]
  <2> TAKE i \in 1 .. old + Len(data)
  <2>1. i \in 1 .. Len(buffer_) - readerIndex_ + Len(rest) /\ i \in Nat
    BY <1>1, <1>2, <1>11
  <2>2. CASE i <= Len(buffer_) - readerIndex_
    <3>1. readerIndex_ + i \in 1 .. Len(buffer_)
      BY <1>1, <2>1, <2>2
    <3>2. buffer_'[readerIndex_' + i] = filled[readerIndex_ + i]
      BY <1>10, <2>1, <2>2
    <3>3. CASE i <= old
      BY <1>1, <1>7, <3>1, <3>2, <3>3
    <3>4. CASE i > old
      <4>1. filled[readerIndex_ + i] = first[(readerIndex_ + i) - writeIndex_]
        BY <1>1, <1>4, <1>7, <3>1, <3>4
      <4>2. (readerIndex_ + i) - writeIndex_ = i - old /\ i - old \in 1 .. free
        BY <1>1, <2>1, <2>2, <3>4
      <4>3. QED
        BY <1>1, <1>4, <2>1, <3>2, <3>4, <4>1, <4>2
    <3>5. QED
      BY <1>2, <2>1, <3>3, <3>4
  <2>3. CASE i > Len(buffer_) - readerIndex_
    <3>1. buffer_'[readerIndex_' + i] = rest[i - (Len(buffer_) - readerIndex_)]
      BY <1>1, <1>10, <2>1, <2>3
    <3>2. i - (Len(buffer_) - readerIndex_) \in 1 .. Len(data) - free
      BY <1>1, <1>5, <2>1, <2>3
    <3>3. free + (i - (Len(buffer_) - readerIndex_)) = i - old
      BY <1>1, <2>1
    <3>4. rest[i - (Len(buffer_) - readerIndex_)] = data[i - old]
      BY <1>5, <3>2, <3>3
    <3>5. i > old
      BY <1>1, <2>1, <2>3
    <3>6. QED
      BY <1>2, <2>1, <3>1, <3>4, <3>5
  <2>4. QED
    BY <1>1, <2>1, <2>2, <2>3
<1>14. QED
  BY <1>9, <1>11, <1>12, <1>13 DEF PutIn

\* retrieve takes the first len readable bytes, or all of them.
LEMMA RetrieveStep ==
  ASSUME Inv, NEW len \in Nat, retrieve(len)
  PROVE  /\ Right
         /\ Readable = output' \o Readable'
<1>1. /\ Len(buffer_) \in Nat /\ kCheapPrepend \in Nat
      /\ buffer_ \in Seq(Byte) /\ readerIndex_ \in Nat /\ writeIndex_ \in Nat
      /\ kCheapPrepend <= readerIndex_ /\ readerIndex_ <= writeIndex_
      /\ writeIndex_ <= Len(buffer_)
  BY BufferAssumption, LenProperties DEF Inv, TypeOK, IndicesInRange
<1>2. buffer_' = buffer_ /\ input' = <<>> /\ input' \in Seq(Byte)
  BY EmptySeq DEF retrieve
<1>3. CASE len < writeIndex_ - readerIndex_
  <2>1. /\ readerIndex_' = readerIndex_ + len /\ writeIndex_' = writeIndex_
        /\ output' = SubSeq(buffer_, readerIndex_ + 1, readerIndex_ + len)
    BY <1>3 DEF retrieve, readableBytes
  <2>2. output' \in Seq(Byte)
    BY <1>1, <1>3, <2>1, PartProperties
  <2>3. Right
    BY <1>1, <1>2, <1>3, <2>1, <2>2 DEF Right, IndicesInRange
  <2>4. Readable' = SubSeq(buffer_, readerIndex_ + len + 1, writeIndex_)
    BY <1>2, <2>1 DEF Readable
  <2>5. CASE writeIndex_ = 0
    BY <1>1, <1>3, <2>5
  <2>6. CASE writeIndex_ # 0
    <3>1. /\ readerIndex_ + 1 \in 1 .. Len(buffer_) + 1
          /\ readerIndex_ + len \in (readerIndex_ + 1) - 1 .. Len(buffer_)
          /\ writeIndex_ \in readerIndex_ + len .. Len(buffer_)
      BY <1>1, <1>3
    <3>2. SubSeq(buffer_, readerIndex_ + 1, readerIndex_ + len)
            \o SubSeq(buffer_, readerIndex_ + len + 1, writeIndex_)
              = SubSeq(buffer_, readerIndex_ + 1, writeIndex_)
      BY <1>1, <3>1, ConcatAdjacentSubSeq
    <3>3. QED
      BY <2>1, <2>3, <2>4, <3>2 DEF Readable
  <2>7. QED
    BY <2>5, <2>6
<1>4. CASE ~(len < writeIndex_ - readerIndex_)
  <2>1. /\ readerIndex_' = kCheapPrepend /\ writeIndex_' = kCheapPrepend
        /\ output' = SubSeq(buffer_, readerIndex_ + 1, readerIndex_ + (writeIndex_ - readerIndex_))
    BY <1>4 DEF retrieve, readableBytes
  <2>2. readerIndex_ + (writeIndex_ - readerIndex_) = writeIndex_
    BY <1>1
  <2>3. output' = Readable /\ Readable \in Seq(Byte)
    BY <1>1, <2>1, <2>2, PartProperties DEF Readable
  <2>4. Readable' = <<>>
    <3>1. kCheapPrepend + 1 \in Int /\ kCheapPrepend \in Int /\ kCheapPrepend < kCheapPrepend + 1
      BY <1>1
    <3>2. Readable' = SubSeq(buffer_, kCheapPrepend + 1, kCheapPrepend)
      BY <1>2, <2>1 DEF Readable
    <3>3. QED
      BY <3>1, <3>2, SubSeqEmpty
  <2>5. Right
    BY <1>1, <1>2, <2>1, <2>3 DEF Right, IndicesInRange
  <2>6. QED
    BY <2>3, <2>4, <2>5, ConcatEmptySeq
<1>5. QED
  BY <1>3, <1>4

\* The three calls together, for the theorems below.
LEMMA StepIsRight ==
  ASSUME Inv, Next
  PROVE  Right
<1>1. CASE \E data \in Data : append(data) \/ readFd(data)
  <2>1. PICK data \in Data : append(data) \/ readFd(data)
    BY <1>1
  <2>2. data \in Seq(Byte)
    BY DataIsSeq
  <2>3. Len(data) \in Nat /\ writeableBytes \in Int
    BY <2>2, LenProperties DEF Inv, TypeOK, writeableBytes
  <2>4. QED
    BY <2>1, <2>2, <2>3, AppendStep, ReadInPlace, ReadSpills
<1>2. CASE \E len \in 0 .. MaxContent + 1 : retrieve(len)
  <2>1. PICK len \in 0 .. MaxContent + 1 : retrieve(len)
    BY <1>2
  <2>2. len \in Nat
    BY BufferAssumption
  <2>3. QED
    BY <2>1, <2>2, RetrieveStep
<1>3. QED
  BY <1>1, <1>2 DEF Next

LEMMA InitInv == Init => Inv
<1> SUFFICES ASSUME Init
             PROVE  Inv
  OBVIOUS
<1>1. kCheapPrepend + kInitialSize \in Nat /\ Zero \in Byte
  BY BufferAssumption
<1>2. buffer_ \in [1 .. kCheapPrepend + kInitialSize -> Byte]
  BY <1>1 DEF Init
<1>3. buffer_ \in Seq(Byte) /\ Len(buffer_) = kCheapPrepend + kInitialSize
  BY <1>1, <1>2, FunctionIsSeq
<1>4. QED
  BY <1>3, BufferAssumption, EmptySeq DEF Init, Inv, TypeOK, IndicesInRange

LEMMA NextInv == Inv /\ [Next]_vars => Inv'
<1>1. ASSUME Inv, UNCHANGED vars
      PROVE  Inv'
  BY <1>1 DEF Inv, TypeOK, IndicesInRange, vars
<1>2. ASSUME Inv, Next
      PROVE  Inv'
  BY <1>2, StepIsRight DEF Right, Inv, TypeOK
<1>3. QED
  BY <1>1, <1>2

------------------------------------------------------------------------------
\* The vector and the indices keep their types under every sequence of append,
\* readFd and retrieve.
THEOREM TypeCorrect == Spec => []TypeOK
<1>1. QED
  BY InitInv, NextInv, PTL DEF Spec, Inv

\* The indices stay in order, inside the vector and behind the prepend area,
\* whatever is appended, read and retrieved (makeSpace, readFd).
THEOREM IndicesStayInRange == Spec => []IndicesInRange
<1>1. QED
  BY InitInv, NextInv, PTL DEF Spec, Inv

\* The vector never shrinks, and grows only for bytes that would not fit even if the
\* old ones were moved to the front (makeSpace).
THEOREM GrowthIsNeeded == Spec => GrowsOnlyIfMust
<1> DEFINE Grows == /\ Len(buffer_') >= Len(buffer_)
                    /\ Len(buffer_') > Len(buffer_) =>
                         kCheapPrepend + readableBytes' > Len(buffer_)
<1>1. Inv /\ [Next]_vars => [Grows]_vars
  BY StepIsRight DEF Right, readableBytes
<1>2. QED
  BY <1>1, InitInv, NextInv, PTL DEF Spec, GrowsOnlyIfMust

\* The readable bytes after bytes went in.
LEMMA PutAppends ==
  ASSUME Inv, Right, NEW data \in Seq(Byte), PutIn(data)
  PROVE  Readable' = Readable \o data
<1>1. /\ Len(data) \in Nat /\ Len(buffer_) \in Nat
      /\ buffer_ \in Seq(Byte) /\ readerIndex_ \in Nat /\ writeIndex_ \in Nat
      /\ readerIndex_ <= writeIndex_ /\ writeIndex_ <= Len(buffer_)
  BY LenProperties DEF Inv, TypeOK, IndicesInRange
<1>2. /\ buffer_' \in Seq(Byte) /\ readerIndex_' \in Nat /\ writeIndex_' \in Nat
      /\ readerIndex_' <= writeIndex_' /\ writeIndex_' <= Len(buffer_')
  BY DEF Right, IndicesInRange
<1> DEFINE old == writeIndex_ - readerIndex_
<1>3. /\ writeIndex_' - readerIndex_' = old + Len(data)
      /\ \A i \in 1 .. old + Len(data) :
           buffer_'[readerIndex_' + i] =
             IF i <= old THEN buffer_[readerIndex_ + i] ELSE data[i - old]
  BY DEF PutIn
<1>4. /\ Readable \in Seq(Byte) /\ Len(Readable) = old
      /\ \A i \in 1 .. old : Readable[i] = buffer_[readerIndex_ + i]
  BY <1>1, PartProperties DEF Readable
<1>5. /\ Readable' \in Seq(Byte) /\ Len(Readable') = writeIndex_' - readerIndex_'
      /\ \A i \in 1 .. writeIndex_' - readerIndex_' :
           Readable'[i] = buffer_'[readerIndex_' + i]
  BY <1>2, PartProperties DEF Readable
<1>6. /\ Readable \o data \in Seq(Byte)
      /\ Len(Readable \o data) = Len(Readable) + Len(data)
      /\ \A i \in 1 .. Len(Readable) + Len(data) :
           (Readable \o data)[i] =
             IF i <= Len(Readable) THEN Readable[i] ELSE data[i - Len(Readable)]
  BY <1>4, ConcatProperties
<1>7. Len(Readable') = Len(Readable \o data)
  BY <1>3, <1>4, <1>5, <1>6
<1>8. \A i \in 1 .. Len(Readable') : Readable'[i] = (Readable \o data)[i]
  <2> TAKE i \in 1 .. Len(Readable')
  <2>1. i \in 1 .. old + Len(data) /\ i \in Nat /\ old \in Nat
    BY <1>1, <1>3, <1>5
  <2>2. Readable'[i] = IF i <= old THEN buffer_[readerIndex_ + i] ELSE data[i - old]
    BY <1>3, <1>5, <2>1
  <2>3. (Readable \o data)[i] = IF i <= old THEN Readable[i] ELSE data[i - old]
    BY <1>4, <1>6, <2>1
  <2>4. i <= old => Readable[i] = buffer_[readerIndex_ + i]
    BY <1>4, <2>1
  <2>5. QED
    BY <2>2, <2>3, <2>4
<1>9. QED
  BY <1>5, <1>6, <1>7, <1>8, SeqEqual

\* A Buffer implements a queue of bytes: what goes in comes out, in order, once and
\* unchanged, across every compaction and growth of the vector.
THEOREM RefinesByteQueue == Spec => ImplementsByteQueue
<1>1. Init => BQ!Init
  <2> SUFFICES ASSUME Init
               PROVE  BQ!Init
    OBVIOUS
  <2>1. Readable = <<>>
    <3>1. kCheapPrepend + 1 \in Int /\ kCheapPrepend \in Int /\ kCheapPrepend < kCheapPrepend + 1
      BY BufferAssumption
    <3>2. Readable = SubSeq(buffer_, kCheapPrepend + 1, kCheapPrepend)
      BY DEF Init, Readable
    <3>3. QED
      BY <3>1, <3>2, SubSeqEmpty
  <2>2. QED
    BY <2>1 DEF Init, BQ!Init
<1>2. ASSUME Inv, Next
      PROVE  BQ!Put \/ BQ!Take
  <2>1. CASE \E data \in Data : append(data) \/ readFd(data)
    <3>1. PICK data \in Data : append(data) \/ readFd(data)
      BY <2>1
    <3>2. data \in Seq(Byte)
      BY DataIsSeq
    <3>3. Len(data) \in Nat /\ writeableBytes \in Int
      BY <1>2, <3>2, LenProperties DEF Inv, TypeOK, writeableBytes
    <3>4. Right /\ PutIn(data)
      BY <1>2, <3>1, <3>2, <3>3, AppendStep, ReadInPlace, ReadSpills
    <3>5. Readable' = Readable \o data
      BY <1>2, <3>2, <3>4, PutAppends
    <3>6. input' = data /\ output' = <<>>
      BY <3>1 DEF append, readFd
    <3>7. QED
      BY <3>2, <3>5, <3>6 DEF BQ!Put
  <2>2. CASE \E len \in 0 .. MaxContent + 1 : retrieve(len)
    <3>1. PICK len \in 0 .. MaxContent + 1 : retrieve(len)
      BY <2>2
    <3>2. len \in Nat
      BY BufferAssumption
    <3>3. Right /\ Readable = output' \o Readable'
      BY <1>2, <3>1, <3>2, RetrieveStep
    <3>4. input' = <<>>
      BY <3>1 DEF retrieve
    <3>5. QED
      BY <3>3, <3>4 DEF Right, BQ!Take
  <2>3. QED
    BY <1>2, <2>1, <2>2 DEF Next
<1>3. Inv /\ [Next]_vars => [BQ!Put \/ BQ!Take]_(BQ!vars)
  <2>1. UNCHANGED vars => UNCHANGED BQ!vars
    BY DEF vars, BQ!vars, Readable
  <2>2. QED
    BY <1>2, <2>1
<1>4. QED
  BY <1>1, <1>3, InitInv, NextInv, PTL DEF Spec, ImplementsByteQueue, BQ!Spec
==============================================================================
