------------------------- MODULE FixHeadPackerProofs ------------------------
(***************************************************************************)
(* Proofs about FixHeadPacker for every header length, every sequence of   *)
(* body lengths and every way of cutting the stream into reads; and, in    *)
(* the second part, about the ByteArrays whose contents those bodies are,  *)
(* for any arrays, base, buffer length, numbers and strings.  The two      *)
(* specifications have no state in common.                                 *)
(***************************************************************************)
EXTENDS FixHeadPacker, ByteArray, SequenceTheorems, WellFoundedInduction, TLAPS

\* The frames lie one after the other, as long as none was cut.
StreamInv ==
    /\ FramePos(1) = 0
    /\ \A i \in 1..Len(sent) : FramePos(i + 1) = FramePos(i) + HeaderLen + sent[i]
    /\ \A i, j \in 1..Len(sent) : i < j => starts[i] < starts[j]
    /\ \A i \in 1..Len(sent) : starts[i] < total

\* What is being unpacked has arrived, and a package in progress has room.
BufferInv ==
    /\ pos + length <= total
    /\ cur_read_size < HeaderLen => cur_read_size <= buffer_size
    /\ cur_read_size >= HeaderLen =>
          /\ cur_read_size <= HeaderLen + package_length
          /\ HeaderLen + package_length <= INT_MAX => HeaderLen + package_length <= buffer_size

\* The buffer holds the beginning of the frame after the delivered ones.
InStep ==
    /\ stale = 0
    /\ Len(delivered) <= Len(sent)
    /\ \A i \in 1..Len(delivered) : delivered[i] = i
    /\ pos = FramePos(Len(delivered) + 1) + cur_read_size
    /\ cur_read_size >= HeaderLen =>
          /\ Len(delivered) < Len(sent)
          /\ package_length = sent[Len(delivered) + 1]
          /\ \/ cur_read_size < HeaderLen + package_length
             \/ cur_read_size = HeaderLen /\ package_length = 0

Inv == TypeOK /\ BufferInv /\ (clean => StreamInv /\ InStep)

LEMMA InitInv == Init => Inv
<1> SUFFICES ASSUME Init PROVE Inv
  OBVIOUS
<1>1. clean \in BOOLEAN
  BY Zenon DEF Init
<1>2. TypeOK
  BY <1>1 DEF Init, TypeOK
<1> QED BY <1>2, LengthAssumption DEF Init, Inv, StreamInv, BufferInv, InStep, FramePos

LEMMA InvPackAndSend ==
    ASSUME Inv, NEW n \in Lengths, NEW b \in 0..(HeaderLen + n), PackAndSend(n, b)
    PROVE  Inv'
<1> USE LengthAssumption
<1>0. PICK m \in Nat : m = Len(sent)
  BY DEF Inv, TypeOK
<1>1. /\ m \in Nat /\ Len(sent) = m /\ Len(starts) = m /\ n \in Nat /\ HeaderLen \in Nat /\ HeaderLen > 0
      /\ b \in Nat
      /\ total \in Nat
  BY <1>0 DEF Inv, TypeOK
<1>2. /\ sent' \in Seq(Nat) /\ Len(sent') = m + 1
      /\ \A i \in 1..m : sent'[i] = sent[i]
      /\ sent'[m + 1] = n
  <2>1. sent \in Seq(Nat) /\ sent' = Append(sent, n)
    BY DEF PackAndSend, Inv, TypeOK
  <2>2. /\ Append(sent, n) \in Seq(Nat) /\ Len(Append(sent, n)) = Len(sent) + 1
        /\ \A i \in 1..Len(sent) : Append(sent, n)[i] = sent[i]
        /\ Append(sent, n)[Len(sent) + 1] = n
    BY <1>1, <2>1, AppendProperties
  <2> QED BY <1>1, <2>1, <2>2
<1>3. /\ starts' \in Seq(Nat) /\ Len(starts') = m + 1
      /\ \A i \in 1..m : starts'[i] = starts[i]
      /\ starts'[m + 1] = total
  <2>1. starts \in Seq(Nat) /\ starts' = Append(starts, total)
    BY DEF PackAndSend, Inv, TypeOK
  <2>2. /\ Append(starts, total) \in Seq(Nat)
        /\ Len(Append(starts, total)) = Len(starts) + 1
        /\ \A i \in 1..Len(starts) : Append(starts, total)[i] = starts[i]
        /\ Append(starts, total)[Len(starts) + 1] = total
    BY <1>1, <2>1, AppendProperties
  <2> QED BY <1>1, <2>1, <2>2
<1>4. total' = total + b
  BY DEF PackAndSend
<1>5. UNCHANGED <<pos, length, cur_read_size, buffer_size, package_length, stale, delivered,
                  conns>>
  BY DEF PackAndSend, bufferVars
<1>13. clean' \in BOOLEAN /\ (clean' => clean /\ b = HeaderLen + n)
  BY Zenon DEF PackAndSend
<1>6. TypeOK'
  BY <1>1, <1>2, <1>3, <1>4, <1>5, <1>13 DEF Inv, TypeOK
<1>7. \A i \in 1..m + 1 : FramePos(i)' = FramePos(i)
  BY <1>1, <1>2, <1>3 DEF FramePos
<1>8. clean' => FramePos(m + 2)' = total + HeaderLen + n
  BY <1>1, <1>2, <1>4, <1>13 DEF FramePos
<1>9. FramePos(m + 1) = total
  BY <1>1 DEF FramePos
<1>10. clean' => StreamInv'
  <2> SUFFICES ASSUME clean' PROVE StreamInv'
    OBVIOUS
  <2> USE <1>13
  <2>1. FramePos(1)' = 0
    BY <1>1, <1>7 DEF Inv, StreamInv
  <2>2. ASSUME NEW i \in 1..m + 1
        PROVE  FramePos(i + 1)' = FramePos(i)' + HeaderLen + sent'[i]
    <3>1. CASE i \in 1..m
      <4>1. FramePos(i + 1) = FramePos(i) + HeaderLen + sent[i]
        BY <1>1, <3>1 DEF Inv, StreamInv
      <4>2. i \in 1..m + 1 /\ i + 1 \in 1..m + 1 /\ sent'[i] = sent[i]
        BY <1>1, <1>2, <3>1
      <4>3. FramePos(i)' = FramePos(i) /\ FramePos(i + 1)' = FramePos(i + 1)
        BY <1>7, <4>2
      <4> QED BY <4>1, <4>2, <4>3
    <3>2. CASE i = m + 1
      <4>1. FramePos(m + 1)' = total
        <5>1. m + 1 \in 1..m + 1
          BY <1>1
        <5> QED BY <1>7, <1>9, <5>1
      <4>2. (m + 1) + 1 = m + 2
        BY <1>1
      <4> QED BY <1>1, <1>2, <1>8, <3>2, <4>1, <4>2
    <3> QED BY <1>1, <3>1, <3>2
  <2>3. \A i \in 1..m : starts'[i] < total
    BY <1>1, <1>3 DEF Inv, StreamInv
  <2>4. \A i, j \in 1..m + 1 : i < j => starts'[i] < starts'[j]
    <3> SUFFICES ASSUME NEW i \in 1..m + 1, NEW j \in 1..m + 1, i < j
                 PROVE  starts'[i] < starts'[j]
      OBVIOUS
    <3>1. i \in 1..m
      BY <1>1
    <3>2. CASE j \in 1..m
      BY <1>1, <1>3, <3>1, <3>2 DEF Inv, StreamInv
    <3>3. CASE j = m + 1
      BY <1>3, <2>3, <3>1, <3>3
    <3> QED BY <1>1, <3>2, <3>3
  <2>5. \A i \in 1..m : starts'[i] \in Nat
    BY <1>1, <1>3, ElementOfSeq DEF Inv, TypeOK
  <2>6. \A i \in 1..m + 1 : starts'[i] < total'
    <3>1. total < total'
      BY <1>1, <1>4
    <3>2. \A i \in 1..m : starts'[i] < total'
      BY <1>1, <1>4, <2>3, <2>5
    <3> QED BY <1>1, <1>3, <3>1, <3>2
  <2> QED BY <1>2, <2>1, <2>2, <2>4, <2>6 DEF StreamInv
<1>11. BufferInv'
  BY <1>1, <1>4, <1>5 DEF Inv, TypeOK, BufferInv
<1>12. clean' => InStep'
  <2> SUFFICES ASSUME clean PROVE InStep'
    BY <1>13
  <2>0. PICK d \in Nat : d = Len(delivered)
    BY DEF Inv, TypeOK
  <2>1. InStep /\ d = Len(delivered) /\ d \in Nat /\ d <= m
    BY <1>1, <2>0 DEF Inv, InStep, TypeOK
  <2>2. FramePos(d + 1)' = FramePos(d + 1)
    <3>1. d + 1 \in 1..m + 1
      BY <1>1, <2>1
    <3> QED BY <1>7, <3>1
  <2>3. d < m => d < m + 1 /\ sent'[d + 1] = sent[d + 1]
    BY <1>1, <1>2, <2>1
  <2> QED BY <1>1, <1>2, <1>5, <2>1, <2>2, <2>3 DEF InStep
<1> QED BY <1>6, <1>10, <1>11, <1>12 DEF Inv

LEMMA InvRead ==
    ASSUME Inv, NEW n \in 1..MaxRead, Read(n)
    PROVE  Inv'
<1>1. /\ sent' = sent /\ starts' = starts /\ total' = total
      /\ pos' = pos /\ delivered' = delivered
      /\ cur_read_size' = cur_read_size /\ buffer_size' = buffer_size
      /\ package_length' = package_length /\ stale' = stale
      /\ conns' = conns
  BY DEF Read, streamVars, bufferVars
<1>2. clean' = clean
  BY DEF Read
<1>3. n \in Nat /\ length' = n /\ n <= total - pos
  BY LengthAssumption DEF Read
<1>4. TypeOK'
  BY <1>1, <1>2, <1>3 DEF Inv, TypeOK
<1>5. clean' => StreamInv'
  BY <1>1, <1>2 DEF Inv, StreamInv, FramePos
<1>6. BufferInv'
  BY <1>1, <1>3 DEF Inv, TypeOK, BufferInv
<1>7. clean' => InStep'
  BY <1>1, <1>2 DEF Inv, InStep, FramePos
<1> QED BY <1>4, <1>5, <1>6, <1>7 DEF Inv

LEMMA InvReuseNetID ==
    ASSUME Inv, ReuseNetID
    PROVE  Inv'
<1>1. /\ sent' = << >> /\ starts' = << >> /\ total' = 0 /\ pos' = 0
      /\ delivered' = << >> /\ stale' = cur_read_size /\ conns' = conns + 1
      /\ length = 0 /\ length' = length
      /\ cur_read_size' = cur_read_size /\ buffer_size' = buffer_size
      /\ package_length' = package_length
  BY DEF ReuseNetID
<1>2. clean' \in BOOLEAN
  BY Zenon DEF ReuseNetID
<1>3. clean' => clean /\ cur_read_size = 0
  BY Zenon DEF ReuseNetID
<1>4. TypeOK'
  BY <1>1, <1>2 DEF Inv, TypeOK
<1>5. StreamInv'
  BY <1>1 DEF StreamInv, FramePos
<1>6. BufferInv'
  BY <1>1 DEF Inv, TypeOK, BufferInv
<1>7. clean' => InStep'
  BY <1>1, <1>3, LengthAssumption DEF InStep, FramePos
<1> QED BY <1>4, <1>5, <1>6, <1>7 DEF Inv

\* While there are bytes to copy, a frame is still to be delivered, and it is
\* the only one at its place.
LEMMA NextFrame ==
    ASSUME Inv, clean, length > 0
    PROVE  /\ Len(delivered) + 1 \in 1..Len(sent)
           /\ pos = starts[Len(delivered) + 1] + cur_read_size
           /\ Entered(Len(delivered) + 1) = HeaderLen + sent[Len(delivered) + 1]
           /\ sent[Len(delivered) + 1] \in Nat
           /\ \A k \in 1..Len(sent) :
                 starts[k] = starts[Len(delivered) + 1] => k = Len(delivered) + 1
<1> DEFINE d == Len(delivered)
           m == Len(sent)
<1>1. /\ d \in Nat /\ m \in Nat /\ Len(starts) = m /\ d <= m
      /\ total \in Nat /\ pos \in Nat /\ length \in Nat /\ cur_read_size \in Nat
      /\ pos + length <= total
      /\ pos = FramePos(d + 1) + cur_read_size
  BY DEF Inv, TypeOK, BufferInv, InStep
<1>2. d < m
  <2> SUFFICES ASSUME d = m PROVE FALSE
    BY <1>1
  <2>1. FramePos(d + 1) = total
    BY <1>1 DEF FramePos
  <2> QED BY <1>1, <2>1
<1>3. d + 1 \in 1..m /\ FramePos(d + 1) = starts[d + 1]
  BY <1>1, <1>2 DEF FramePos
<1>4. \A i \in 1..m : starts[i] \in Nat
  BY <1>1, ElementOfSeq DEF Inv, TypeOK
<1>5. \A i, j \in 1..m : i < j => starts[i] < starts[j]
  BY DEF Inv, StreamInv
<1>6. ASSUME NEW k \in 1..m, starts[k] = starts[d + 1]
      PROVE  k = d + 1
  <2>1. k \in Int /\ d + 1 \in Int /\ starts[k] \in Nat /\ starts[d + 1] \in Nat
    BY <1>1, <1>3, <1>4
  <2>2. ~ (k < d + 1) /\ ~ (d + 1 < k)
    BY <1>3, <1>5, <1>6, <2>1
  <2> QED BY <2>1, <2>2
<1>7. sent[d + 1] \in Nat
  BY <1>1, <1>3, ElementOfSeq DEF Inv, TypeOK
<1>8. FramePos(d + 1 + 1) = starts[d + 1] + HeaderLen + sent[d + 1]
  BY <1>3 DEF Inv, StreamInv
<1>9. Entered(d + 1) = HeaderLen + sent[d + 1]
  <2>1. PICK x \in Nat, y \in Nat : x = starts[d + 1] /\ y = sent[d + 1]
    BY <1>3, <1>4, <1>7
  <2>2. (x + HeaderLen + y) - x = HeaderLen + y
    BY LengthAssumption
  <2>3. Entered(d + 1) = FramePos(d + 1 + 1) - starts[d + 1]
    BY <1>3, Zenon DEF Entered
  <2> HIDE DEF d
  <2>4. Entered(d + 1) = (x + HeaderLen + y) - x
    BY <1>8, <2>1, <2>3
  <2> QED BY <2>1, <2>2, <2>4
<1> QED BY <1>1, <1>3, <1>6, <1>7, <1>9

LEMMA InvUnPackHeader ==
    ASSUME Inv, UnPackHeader
    PROVE  Inv'
<1> USE LengthAssumption
<1> DEFINE n == Least(length, HeaderLen - cur_read_size)
           c == cur_read_size + n
<1>1. /\ pos \in Nat /\ length \in Nat /\ total \in Nat /\ buffer_size \in Nat
      /\ cur_read_size \in Nat /\ cur_read_size < HeaderLen /\ length > 0
      /\ HeaderLen \in Nat /\ package_length \in Nat
  BY DEF Inv, TypeOK, UnPackHeader
<1>2. n \in Nat /\ n <= length /\ c \in Nat /\ c <= HeaderLen
  BY <1>1 DEF Least
<1>3. /\ pos' = pos + n /\ length' = length - n /\ cur_read_size' = c
      /\ sent' = sent /\ starts' = starts /\ total' = total
      /\ stale' = stale /\ delivered' = delivered /\ conns' = conns
  BY DEF UnPackHeader, Copy, streamVars
<1>4. clean' = clean
  BY DEF UnPackHeader
<1>5. c >= HeaderLen => /\ package_length' \in HeaderAt(pos + n, c)
                        /\ buffer_size' = Most(Most(buffer_size, HeaderLen),
                                               SizeForPackage(package_length'))
  BY DEF UnPackHeader
<1>6. ~ (c >= HeaderLen) => /\ package_length' = package_length
                            /\ buffer_size' = Most(buffer_size, HeaderLen)
  BY DEF UnPackHeader
<1> HIDE DEF n, c
<1>14. INT_MAX \in Nat /\ \A q \in Nat : AsInt(q) \in Int /\ (q <= INT_MAX => AsInt(q) = q)
  BY DEF AsInt
<1>7. package_length' \in Nat
  <2>1. \A k \in 1..Len(sent) : sent[k] \in Nat
    BY ElementOfSeq DEF Inv, TypeOK
  <2>3. Garbage \subseteq Nat
    OBVIOUS
  <2>2. HeaderAt(pos + n, c) \subseteq Nat
    <3> HIDE LengthAssumption
    <3> QED BY <2>1, <2>3 DEF HeaderAt
  <2> QED BY <1>1, <1>5, <1>6, <2>2
<1>8. /\ buffer_size' \in Nat /\ HeaderLen <= buffer_size'
      /\ c >= HeaderLen /\ HeaderLen + package_length' <= INT_MAX =>
            HeaderLen + package_length' <= buffer_size'
  <2>1. CASE c >= HeaderLen
    <3>1. /\ Most(buffer_size, HeaderLen) \in Nat
          /\ HeaderLen <= Most(buffer_size, HeaderLen)
      BY <1>1 DEF Most
    <3>2. /\ SizeForPackage(package_length') \in Int
          /\ HeaderLen + package_length' <= INT_MAX =>
                SizeForPackage(package_length') = HeaderLen + package_length'
      <4>1. PICK q \in Nat : q = package_length'
        BY <1>7
      <4>2. HeaderLen + q \in Nat
        BY <1>1
      <4>3. /\ SizeForPackage(q) \in Int
            /\ HeaderLen + q <= INT_MAX => SizeForPackage(q) = HeaderLen + q
        BY <1>14, <4>2 DEF SizeForPackage
      <4> QED BY <4>1, <4>3
    <3>3. buffer_size' = Most(Most(buffer_size, HeaderLen), SizeForPackage(package_length'))
      BY <1>5, <2>1
    <3>4. /\ buffer_size' \in Nat /\ HeaderLen <= buffer_size'
          /\ SizeForPackage(package_length') <= buffer_size'
      <4> HIDE LengthAssumption
      <4> QED BY <1>1, <3>1, <3>2, <3>3 DEF Most
    <3> QED BY <3>2, <3>4
  <2>2. CASE ~ (c >= HeaderLen)
    BY <1>1, <1>6, <2>2 DEF Most
  <2> QED BY <2>1, <2>2
<1>9. TypeOK'
  BY <1>1, <1>2, <1>3, <1>4, <1>7, <1>8 DEF Inv, TypeOK
<1>10. clean' => StreamInv'
  BY <1>3, <1>4 DEF Inv, StreamInv, FramePos
<1>11. BufferInv'
  <2>1. pos + length <= total
    BY DEF Inv, BufferInv
  <2>2. pos' + length' <= total'
    BY <1>1, <1>2, <1>3, <2>1
  <2>3. cur_read_size' < HeaderLen => cur_read_size' <= buffer_size'
    BY <1>1, <1>2, <1>3, <1>8
  <2>4. ASSUME cur_read_size' >= HeaderLen
        PROVE  /\ cur_read_size' <= HeaderLen + package_length'
               /\ HeaderLen + package_length' <= INT_MAX =>
                     HeaderLen + package_length' <= buffer_size'
    <3>1. c >= HeaderLen
      BY <1>3, <2>4
    <3>2. c <= HeaderLen + package_length'
      <4>1. PICK q \in Nat : q = package_length'
        BY <1>7
      <4>2. c <= HeaderLen + q
        BY <1>1, <1>2
      <4> QED BY <4>1, <4>2
    <3> QED BY <1>3, <1>8, <3>1, <3>2
  <2> QED BY <2>2, <2>3, <2>4 DEF BufferInv
<1>12. clean' => InStep'
  <2> SUFFICES ASSUME clean PROVE InStep'
    BY <1>4
  <2>0. PICK d \in Nat : d = Len(delivered)
    BY DEF Inv, TypeOK
  <2>1. /\ d + 1 \in 1..Len(sent)
        /\ pos = starts[d + 1] + cur_read_size
        /\ Entered(d + 1) >= HeaderLen
        /\ \A k \in 1..Len(sent) : starts[k] = starts[d + 1] => k = d + 1
    BY <1>1, <2>0, NextFrame
  <2>2. /\ Len(sent) \in Nat /\ Len(starts) = Len(sent)
        /\ starts[d + 1] \in Nat
        /\ stale = 0
        /\ \A i \in 1..d : delivered[i] = i
    <3>1. starts \in Seq(Nat) /\ Len(starts) = Len(sent) /\ Len(sent) \in Nat
      BY DEF Inv, TypeOK
    <3>2. starts[d + 1] \in Nat
      BY <2>1, <3>1, ElementOfSeq
    <3>3. stale = 0 /\ \A i \in 1..d : delivered[i] = i
      BY <2>0 DEF Inv, InStep
    <3> QED BY <3>1, <3>2, <3>3
  <2>3. FramePos(d + 1)' = starts[d + 1]
    BY <1>3, <2>1, <2>2 DEF FramePos
  <2>4. pos' = FramePos(d + 1)' + c
    <3>1. c = cur_read_size + n
      BY DEF c
    <3> QED BY <1>1, <1>2, <1>3, <2>1, <2>2, <2>3, <3>1
  <2>5. ASSUME c >= HeaderLen PROVE package_length' = sent[d + 1]
    <3>1. (pos + n) - c = starts[d + 1]
      BY <1>1, <1>2, <2>1, <2>2 DEF c
    <3>2. HeaderAt(pos + n, c) = {sent[d + 1]}
      <4> DEFINE frames == {k \in 1..Len(sent) :
                              /\ stale = 0 /\ starts[k] = (pos + n) - c
                              /\ Entered(k) >= HeaderLen}
      <4>1. frames = {d + 1}
        BY <2>1, <2>2, <3>1
      <4>2. HeaderAt(pos + n, c) = IF frames # {} THEN {sent[k] : k \in frames} ELSE Garbage
        BY DEF HeaderAt
      <4> QED BY <4>1, <4>2
    <3> QED BY <1>5, <2>5, <3>2
  <2>6. d < Len(sent)
    BY <2>1, <2>2
  <2>7. cur_read_size' >= HeaderLen =>
          /\ Len(delivered') < Len(sent')
          /\ package_length' = sent'[d + 1]
          /\ \/ cur_read_size' < HeaderLen + package_length'
             \/ cur_read_size' = HeaderLen /\ package_length' = 0
    <3> SUFFICES ASSUME c >= HeaderLen
                 PROVE  /\ Len(delivered') < Len(sent')
                        /\ package_length' = sent'[d + 1]
                        /\ \/ c < HeaderLen + package_length'
                           \/ c = HeaderLen /\ package_length' = 0
      BY <1>3
    <3>1. Len(delivered') < Len(sent')
      BY <1>3, <2>0, <2>6
    <3>2. package_length' = sent'[d + 1]
      BY <1>3, <2>5
    <3>3. c = HeaderLen
      BY <1>1, <1>2
    <3> QED BY <1>1, <1>7, <3>1, <3>2, <3>3
  <2> QED BY <1>3, <2>0, <2>2, <2>4, <2>6, <2>7 DEF InStep
<1> QED BY <1>9, <1>10, <1>11, <1>12 DEF Inv

LEMMA InvUnPackBody ==
    ASSUME Inv, UnPackBody
    PROVE  Inv'
<1> USE LengthAssumption
<1> DEFINE left == HeaderLen + package_length - cur_read_size
           n == Least(length, left)
<1>1. /\ pos \in Nat /\ length \in Nat /\ total \in Nat /\ buffer_size \in Nat
      /\ cur_read_size \in Nat /\ cur_read_size >= HeaderLen /\ length > 0
      /\ HeaderLen \in Nat /\ HeaderLen > 0 /\ package_length \in Nat
      /\ cur_read_size <= HeaderLen + package_length
      /\ HeaderLen + package_length <= INT_MAX => HeaderLen + package_length <= buffer_size
      /\ pos + length <= total
  BY DEF Inv, TypeOK, BufferInv, UnPackBody
<1>2. left \in Nat /\ n \in Nat /\ n <= length /\ n <= left
  BY <1>1 DEF Least
<1>3. /\ pos' = pos + n /\ length' = length - n
      /\ sent' = sent /\ starts' = starts /\ total' = total
      /\ buffer_size' = buffer_size /\ conns' = conns
  BY DEF UnPackBody, Copy, streamVars
<1>4. clean' = clean
  BY DEF UnPackBody
<1>5. n = left => /\ \E k \in Package : delivered' = Append(delivered, k)
                  /\ cur_read_size' = 0 /\ stale' = 0 /\ package_length' = 0
  BY DEF UnPackBody
<1>6. n # left => /\ cur_read_size' = cur_read_size + n
                  /\ delivered' = delivered /\ stale' = stale
                  /\ package_length' = package_length
  BY DEF UnPackBody
<1>7. left = HeaderLen + package_length - cur_read_size
  OBVIOUS
<1>8. clean' => StreamInv'
  BY <1>3, <1>4 DEF Inv, StreamInv, FramePos
<1>9. pos' + length' <= total' /\ pos' \in Nat /\ length' \in Nat
  <2> HIDE DEF n, left
  <2> QED BY <1>1, <1>2, <1>3
<1>10. CASE n = left
  <2>1. PICK k \in Package : delivered' = Append(delivered, k)
    BY <1>5, <1>10
  <2>2. cur_read_size' = 0 /\ stale' = 0 /\ package_length' = 0
    BY <1>5, <1>10
  <2>3. Package \subseteq Nat
    BY DEF Package
  <2>4. PICK d \in Nat : d = Len(delivered)
    BY DEF Inv, TypeOK
  <2>5. /\ delivered' \in Seq(Nat) /\ Len(delivered') = d + 1
        /\ \A i \in 1..d : delivered'[i] = delivered[i]
        /\ delivered'[d + 1] = k
    BY <2>1, <2>3, <2>4, AppendProperties DEF Inv, TypeOK
  <2>6. pos' = pos + left
    BY <1>3, <1>10
  <2> HIDE DEF n, left
  <2>7. TypeOK'
    BY <1>1, <1>3, <1>4, <1>9, <2>2, <2>5 DEF Inv, TypeOK
  <2>8. BufferInv'
    BY <1>1, <1>3, <1>9, <2>2 DEF BufferInv
  <2>9. clean' => InStep'
    <3> SUFFICES ASSUME clean PROVE InStep'
      BY <1>4
    <3>1. /\ d + 1 \in 1..Len(sent)
          /\ pos = starts[d + 1] + cur_read_size
          /\ Entered(d + 1) = HeaderLen + sent[d + 1]
          /\ \A j \in 1..Len(sent) : starts[j] = starts[d + 1] => j = d + 1
      BY <1>1, <2>4, NextFrame
    <3>2. /\ Len(sent) \in Nat /\ Len(starts) = Len(sent)
          /\ starts[d + 1] \in Nat
          /\ stale = 0
          /\ \A i \in 1..d : delivered[i] = i
          /\ package_length = sent[d + 1]
      <4>1. starts \in Seq(Nat) /\ Len(starts) = Len(sent) /\ Len(sent) \in Nat
        BY DEF Inv, TypeOK
      <4>2. starts[d + 1] \in Nat
        BY <3>1, <4>1, ElementOfSeq
      <4>3. InStep
        BY DEF Inv
      <4> QED BY <1>1, <2>4, <4>1, <4>2, <4>3 DEF InStep
    <3>3. pos' = starts[d + 1] + (HeaderLen + package_length)
      <4>1. PICK s \in Nat : s = starts[d + 1]
        BY <3>2
      <4>2. pos + left = s + (HeaderLen + package_length)
        BY <1>1, <1>2, <1>7, <3>1, <4>1
      <4> QED BY <2>6, <4>1, <4>2
    <3>4. k = d + 1
      <4> DEFINE frames == {j \in 1..Len(sent) :
                              /\ stale = 0
                              /\ starts[j] = pos' - (HeaderLen + package_length)
                              /\ sent[j] = package_length
                              /\ Entered(j) = HeaderLen + package_length}
      <4>1. pos' - (HeaderLen + package_length) = starts[d + 1]
        <5>1. PICK s \in Nat : s = starts[d + 1]
          BY <3>2
        <5>2. HeaderLen + package_length \in Nat
          BY <1>1
        <5> QED BY <3>3, <5>1, <5>2
      <4>2. frames = {d + 1}
        BY <3>1, <3>2, <4>1
      <4>3. Package = IF frames = {} THEN {0} ELSE frames
        BY DEF Package
      <4> QED BY <2>1, <4>2, <4>3
    <3>5. FramePos(d + 1) = starts[d + 1]
      BY <3>1, <3>2 DEF FramePos
    <3>6. FramePos(d + 1 + 1) = starts[d + 1] + HeaderLen + package_length
      BY <3>1, <3>2, <3>5 DEF Inv, StreamInv
    <3>7. FramePos(d + 1 + 1)' = FramePos(d + 1 + 1)
      BY <1>3 DEF FramePos
    <3>8. pos' = FramePos(d + 1 + 1)' + cur_read_size'
      <4>1. PICK s \in Nat : s = starts[d + 1]
        BY <3>2
      <4>2. HeaderLen \in Nat /\ package_length \in Nat
        BY <1>1
      <4> QED BY <2>2, <3>3, <3>6, <3>7, <4>1, <4>2
    <3>9. \A i \in 1..d + 1 : delivered'[i] = i
      BY <2>5, <3>2, <3>4
    <3>10. Len(delivered') <= Len(sent')
      BY <1>3, <2>5, <3>1, <3>2
    <3>11. ~ (cur_read_size' >= HeaderLen)
      BY <1>1, <2>2
    <3> QED BY <2>2, <2>5, <3>8, <3>9, <3>10, <3>11 DEF InStep
  <2> QED BY <1>8, <2>7, <2>8, <2>9 DEF Inv
<1>11. CASE n # left
  <2>1. /\ cur_read_size' = cur_read_size + n
        /\ delivered' = delivered /\ stale' = stale
        /\ package_length' = package_length
    BY <1>6, <1>11
  <2> HIDE DEF n, left
  <2>2. /\ cur_read_size' \in Nat
        /\ cur_read_size' < HeaderLen + package_length
    BY <1>1, <1>2, <1>7, <1>11, <2>1
  <2>3. TypeOK'
    BY <1>1, <1>3, <1>4, <1>9, <2>1, <2>2 DEF Inv, TypeOK
  <2>4. BufferInv'
    <3>1. cur_read_size' >= HeaderLen
      BY <1>1, <1>2, <2>1
    <3>2. HeaderLen + package_length \in Nat /\ INT_MAX \in Nat
      BY <1>1
    <3> HIDE LengthAssumption
    <3> QED BY <1>1, <1>3, <1>9, <2>1, <2>2, <3>1, <3>2 DEF BufferInv
  <2>5. clean' => InStep'
    <3> SUFFICES ASSUME clean PROVE InStep'
      BY <1>4
    <3>1. PICK d \in Nat : d = Len(delivered)
      BY DEF Inv, TypeOK
    <3>2. /\ stale = 0 /\ d <= Len(sent) /\ d < Len(sent)
          /\ \A i \in 1..d : delivered[i] = i
          /\ pos = FramePos(d + 1) + cur_read_size
          /\ package_length = sent[d + 1]
      BY <1>1, <3>1 DEF Inv, InStep
    <3>3. FramePos(d + 1)' = FramePos(d + 1)
      BY <1>3 DEF FramePos
    <3>4. FramePos(d + 1) \in Nat
      <4>1. starts \in Seq(Nat) /\ Len(starts) = Len(sent) /\ total \in Nat
        BY DEF Inv, TypeOK
      <4>2. d + 1 \in 1..Len(starts)
        BY <3>1, <3>2, <4>1
      <4>3. starts[d + 1] \in Nat
        BY <4>1, <4>2, ElementOfSeq
      <4> QED BY <4>1, <4>3 DEF FramePos
    <3>5. pos' = FramePos(d + 1)' + cur_read_size'
      BY <1>1, <1>2, <1>3, <2>1, <3>2, <3>3, <3>4
    <3>6. /\ Len(delivered') = d /\ sent' = sent /\ stale' = 0
          /\ \A i \in 1..d : delivered'[i] = i
      BY <1>3, <2>1, <3>1, <3>2
    <3> QED BY <2>1, <2>2, <3>2, <3>5, <3>6 DEF InStep
  <2> QED BY <1>8, <2>3, <2>4, <2>5 DEF Inv
<1> QED BY <1>10, <1>11

LEMMA InvNext == Inv /\ [Next]_vars => Inv'
<1> SUFFICES ASSUME Inv, [Next]_vars PROVE Inv'
  OBVIOUS
<1>1. CASE UNCHANGED vars
  <2>1. /\ sent' = sent /\ starts' = starts /\ total' = total
        /\ pos' = pos /\ length' = length /\ delivered' = delivered
        /\ cur_read_size' = cur_read_size /\ buffer_size' = buffer_size
        /\ package_length' = package_length /\ stale' = stale
        /\ conns' = conns
    BY <1>1 DEF vars, streamVars, bufferVars
  <2>2. clean' = clean
    BY <1>1 DEF vars
  <2>3. TypeOK'
    BY <2>1, <2>2 DEF Inv, TypeOK
  <2>4. (clean' => StreamInv') /\ BufferInv'
    BY <2>1, <2>2 DEF Inv, StreamInv, BufferInv, FramePos
  <2>5. clean' => InStep'
    BY <2>1, <2>2 DEF Inv, InStep, FramePos
  <2> QED BY <2>3, <2>4, <2>5 DEF Inv
<1>2. CASE Next
  BY <1>2, InvPackAndSend, InvRead, InvUnPackHeader, InvUnPackBody, InvReuseNetID DEF Next
<1> QED BY <1>1, <1>2

LEMMA Invariant == Spec => []Inv
BY InitInv, InvNext, PTL DEF Spec

\* The fields of NetPackerFixHeadMsgCacheBuffer keep their types: in
\* particular the sizes that UnPack computes by subtraction never go below 0.
THEOREM TypeCorrect == Spec => []TypeOK
<1>1. Inv => TypeOK
  BY DEF Inv
<1> QED BY <1>1, Invariant, PTL

\* UnPack delivers the packages of PackAndSend in order, however read() cuts
\* the stream, as long as no send and no connection of the net id was cut inside a frame.
THEOREM InOrderDelivery == Spec => []DeliveredInOrder
<1>1. Inv => DeliveredInOrder
  BY DEF Inv, InStep, DeliveredInOrder
<1> QED BY <1>1, Invariant, PTL

\* When UnPack has used up all bytes sent, nothing but an empty last package
\* waits in the buffer.
THEOREM CompleteDelivery == Spec => []NothingHeldBack
<1>1. Inv => NothingHeldBack
  <2> SUFFICES ASSUME Inv, clean, length = 0, pos = total
               PROVE  \/ Len(delivered) = Len(sent)
                      \/ Len(delivered) = Len(sent) - 1 /\ sent[Len(sent)] = 0
    BY DEF NothingHeldBack
  <2> DEFINE d == Len(delivered)
             m == Len(sent)
             s == starts[d + 1]
  <2>1. /\ d \in Nat /\ m \in Nat /\ d <= m /\ Len(starts) = m
        /\ starts \in Seq(Nat) /\ sent \in Seq(Nat) /\ total \in Nat
        /\ cur_read_size \in Nat /\ HeaderLen \in Nat
        /\ total = FramePos(d + 1) + cur_read_size
    BY LengthAssumption DEF Inv, TypeOK, InStep
  <2> SUFFICES ASSUME d # m PROVE d = m - 1 /\ sent[m] = 0
    OBVIOUS
  <2>2. d + 1 \in 1..m /\ FramePos(d + 1) = s
    BY <2>1 DEF FramePos
  <2>3. s \in Nat /\ sent[d + 1] \in Nat
    BY <2>1, <2>2, ElementOfSeq
  <2>4. FramePos(d + 1 + 1) = s + HeaderLen + sent[d + 1]
    BY <2>2 DEF Inv, StreamInv
  <2>5. /\ d + 1 + 1 <= m => FramePos(d + 1 + 1) < total
        /\ ~ (d + 1 + 1 <= m) => FramePos(d + 1 + 1) = total
    BY <2>1 DEF FramePos, Inv, StreamInv
  <2> HIDE DEF s
  <2>a. PICK b \in Nat : b = sent[d + 1]
    BY <2>3
  <2>b. PICK f \in Nat : f = s + HeaderLen + b
    BY <2>1, <2>3
  <2>6. f = FramePos(d + 1 + 1) /\ b = sent[d + 1] /\ f = s + HeaderLen + b
    BY <2>4, <2>a, <2>b
  <2>7. cur_read_size >= HeaderLen + sent[d + 1]
    <3>1. f <= total
      <4>1. CASE d + 1 + 1 <= m
        BY <2>1, <2>5, <2>6, <4>1
      <4>2. CASE ~ (d + 1 + 1 <= m)
        BY <2>1, <2>5, <2>6, <4>2
      <4> QED BY <4>1, <4>2
    <3>2. total = s + cur_read_size
      BY <2>1, <2>2
    <3>3. s + HeaderLen + b <= s + cur_read_size
      BY <2>6, <3>1, <3>2
    <3>4. s \in Nat /\ HeaderLen \in Nat /\ b \in Nat /\ cur_read_size \in Nat
      BY <2>1, <2>3
    <3>5. cur_read_size >= HeaderLen + b
      BY <3>3, <3>4
    <3> QED BY <2>6, <3>5
  <2>8. cur_read_size >= HeaderLen
    <3>1. cur_read_size >= HeaderLen + b
      BY <2>6, <2>7
    <3>2. cur_read_size \in Nat /\ HeaderLen \in Nat /\ b \in Nat
      BY <2>1
    <3> QED BY <3>1, <3>2
  <2>9. \/ cur_read_size < HeaderLen + sent[d + 1]
        \/ cur_read_size = HeaderLen /\ sent[d + 1] = 0
    BY <2>8 DEF Inv, InStep
  <2>10. cur_read_size = HeaderLen /\ sent[d + 1] = 0
    <3>1. /\ cur_read_size >= HeaderLen + b
          /\ cur_read_size < HeaderLen + b \/ (cur_read_size = HeaderLen /\ b = 0)
      BY <2>6, <2>7, <2>9, Zenon
    <3>2. cur_read_size \in Nat /\ HeaderLen \in Nat /\ b \in Nat
      BY <2>1
    <3>3. cur_read_size = HeaderLen /\ b = 0
      BY <3>1, <3>2
    <3> QED BY <2>6, <3>3
  <2>11. ~ (FramePos(d + 1 + 1) < total)
    BY <2>1, <2>2, <2>3, <2>4, <2>10
  <2>12. d + 1 = m
    BY <2>1, <2>2, <2>5, <2>11
  <2> QED BY <2>1, <2>10, <2>12
<1> QED BY <1>1, Invariant, PTL

\* No memcpy of UnPack leaves the buffer, also after the net id was reused
\* with part of a package still in it or a send was cut short, as long as the sum
\* that all_pack_size is computed from is an int.
THEOREM BufferBound == Spec => []FitsBuffer
<1>1. Inv => FitsBuffer
  BY LengthAssumption DEF Inv, TypeOK, BufferInv, FitsBuffer
<1> QED BY <1>1, Invariant, PTL

-----------------------------------------------------------------------------
(* FixHeadPacker implements PackageChannel. *)

LEMMA BodyImplements ==
    ASSUME Inv, UnPackBody
    PROVE  [Promise!Next]_(Promise!vars)
<1>0. /\ Inv' /\ sent \in Seq(Nat) /\ delivered \in Seq(Nat) /\ clean \in BOOLEAN
  BY InvUnPackBody DEF Inv, TypeOK
<1>1. sent' = sent
  BY DEF UnPackBody, streamVars
<1>2. clean' = clean
  BY DEF UnPackBody
<1>3. CASE delivered' = delivered
  BY <1>1, <1>2, <1>3 DEF Promise!vars
<1>4. ASSUME NEW k \in Package, delivered' = Append(delivered, k)
      PROVE  Promise!Next
  <2>1. k \in 0..Len(sent)
    BY <1>0 DEF Package
  <2>2. CASE clean
    <3>1. /\ Len(delivered') <= Len(sent)
          /\ \A i \in 1..Len(delivered') : delivered'[i] = i
      BY <1>0, <1>1, <1>2, <2>2 DEF Inv, InStep
    <3>2. Len(delivered') = Len(delivered) + 1 /\ delivered'[Len(delivered) + 1] = k
      BY <1>0, <1>4, <2>1
    <3>3. k = Len(delivered) + 1 /\ Len(delivered) < Len(sent)
      BY <1>0, <3>1, <3>2
    <3>4. Promise!Deliver
      BY <1>1, <1>2, <1>4, <2>2, <3>3 DEF Promise!Deliver
    <3> QED BY <3>4 DEF Promise!Next
  <2>3. CASE ~ clean
    <3>1. Promise!DeliverGarbled
      BY <1>1, <1>2, <1>4, <2>1, <2>3 DEF Promise!DeliverGarbled
    <3> QED BY <3>1 DEF Promise!Next
  <2> QED BY <1>0, <2>2, <2>3
<1>5. delivered' = delivered \/ \E k \in Package : delivered' = Append(delivered, k)
  BY DEF UnPackBody
<1> QED BY <1>3, <1>4, <1>5

LEMMA NextImplements ==
    ASSUME Inv, [Next]_vars
    PROVE  [Promise!Next]_(Promise!vars)
<1>1. ASSUME NEW n \in Lengths, NEW b, PackAndSend(n, b) PROVE Promise!Next
  <2>1. clean' \in {clean, FALSE}
    BY <1>1, Zenon DEF PackAndSend, Inv, TypeOK
  <2>2. sent' = Append(sent, n) /\ delivered' = delivered
    BY <1>1 DEF PackAndSend
  <2>3. Promise!Send(n)
    BY <2>1, <2>2 DEF Promise!Send
  <2> QED BY <2>3 DEF Promise!Next
<1>2. CASE UNCHANGED <<sent, delivered>> /\ UNCHANGED clean
  BY <1>2 DEF Promise!vars
<1>3. ASSUME NEW n, Read(n) PROVE UNCHANGED <<sent, delivered>> /\ UNCHANGED clean
  <2>1. UNCHANGED <<sent, delivered>>
    BY <1>3 DEF Read, streamVars
  <2>2. UNCHANGED clean
    BY <1>3 DEF Read
  <2> QED BY <2>1, <2>2
<1>4. ASSUME UnPackHeader PROVE UNCHANGED <<sent, delivered>> /\ UNCHANGED clean
  <2>1. UNCHANGED <<sent, delivered>>
    BY <1>4 DEF UnPackHeader, streamVars
  <2>2. UNCHANGED clean
    BY <1>4 DEF UnPackHeader
  <2> QED BY <2>1, <2>2
<1>5. CASE ReuseNetID
  <2>1. sent' = << >> /\ delivered' = << >>
    BY <1>5 DEF ReuseNetID
  <2>2. clean' \in {clean, FALSE}
    BY <1>5, Zenon DEF ReuseNetID, Inv, TypeOK
  <2>3. Promise!Reconnect
    BY <2>1, <2>2 DEF Promise!Reconnect
  <2> QED BY <2>3 DEF Promise!Next
<1>6. CASE UNCHANGED vars
  <2>1. UNCHANGED <<sent, delivered>>
    BY <1>6 DEF vars, streamVars
  <2>2. UNCHANGED clean
    BY <1>6 DEF vars
  <2> QED BY <1>2, <2>1, <2>2
<1> QED BY <1>1, <1>2, <1>3, <1>4, <1>5, <1>6, BodyImplements DEF Next

\* The framing of NetworkPackagerFixHead is a channel of whole packages for
\* every header length, body length and cut of the stream.
THEOREM ChannelRefinement == Spec => ImplementsChannel
<1>1. Init => Promise!Init
  <2> SUFFICES ASSUME Init PROVE Promise!Init
    OBVIOUS
  <2>1. sent = << >> /\ delivered = << >>
    BY DEF Init
  <2>2. clean = TRUE
    BY DEF Init
  <2> QED BY <2>1, <2>2 DEF Promise!Init
<1>2. Inv /\ [Next]_vars => [Promise!Next]_(Promise!vars)
  BY NextImplements
<1> QED BY <1>1, <1>2, Invariant, PTL DEF Spec, ImplementsChannel, Promise!Spec

-----------------------------------------------------------------------------
(* Byte arrays. *)

-----------------------------------------------------------------------------
(* Division, and the least element of a set of naturals. *)

LEMMA EuclidUnique ==
    ASSUME NEW b \in Nat \ {0}, NEW q \in Int, NEW p \in Int, NEW r \in 0..(b - 1), NEW s \in 0..(b-1),
           q * b + r = p * b + s
    PROVE  q = p /\ r = s
<1>1. ASSUME q > p PROVE FALSE
  <2>1. q * b >= (p + 1) * b
    BY <1>1
  <2>2. (p+1) * b = p * b + b
    OBVIOUS
  <2> QED BY <2>1, <2>2
<1>2. ASSUME q < p PROVE FALSE
  <2>1. p * b >= (q + 1) * b
    BY <1>2
  <2>2. (q+1) * b = q * b + b
    OBVIOUS
  <2> QED BY <2>1, <2>2
<1> QED BY <1>1, <1>2

LEMMA DivMod ==
    ASSUME NEW b \in Nat \ {0}, NEW x \in Int
    PROVE  /\ x \div b \in Int /\ x % b \in 0..(b - 1)
           /\ x = (x \div b) * b + (x % b)
  OBVIOUS

LEMMA Euclid ==
    ASSUME NEW b \in Nat \ {0}, NEW x \in Int, NEW q \in Int, NEW r \in 0..(b - 1), x = q * b + r
    PROVE  x \div b = q /\ x % b = r
<1> DEFINE p == x \div b
           s == x % b
<1>1. p \in Int /\ s \in 0..(b - 1) /\ q * b + r = p * b + s
  BY DivMod
<1> HIDE DEF p, s
<1>2. q = p /\ r = s
  BY <1>1, EuclidUnique
<1> QED BY <1>2 DEF p, s

LEMMA DivNat ==
    ASSUME NEW b \in Nat \ {0}, NEW x \in Nat PROVE x \div b \in Nat
  OBVIOUS

LEMMA DivDiv ==
    ASSUME NEW b \in Nat \ {0}, NEW c \in Nat \ {0}, NEW x \in Int
    PROVE  (x \div b) \div c = x \div (b * c)
<1> DEFINE y == x \div b
           r == x % b
           z == y \div c
           s == y % c
<1>1. y \in Int /\ r \in 0..(b - 1) /\ x = y * b + r
  BY DivMod
<1>2. z \in Int /\ s \in 0..(c - 1) /\ y = z * c + s
  BY <1>1, DivMod
<1> HIDE DEF y, r, z, s
<1>3. b * c \in Nat \ {0}
  OBVIOUS
<1>4. s * b + r \in 0..(b * c - 1)
  <2>1. s * b \in Nat /\ s * b <= (c - 1) * b
    BY <1>2
  <2>2. (c - 1) * b = b * c - b
    OBVIOUS
  <2> QED BY <1>1, <2>1, <2>2
<1>5. x = z * (b * c) + (s * b + r)
  <2>1. (z * c + s) * b = (z * c) * b + s * b
    BY <1>2
  <2>2. (z * c) * b = z * (b * c)
    BY <1>2
  <2>3. PICK k \in Int : k = z * (b * c)
    BY <1>2
  <2>4. PICK t \in Int : t = s * b
    BY <1>2
  <2>5. y * b = k + t
    BY <1>2, <2>1, <2>2, <2>3, <2>4
  <2>6. x = k + (t + r)
    BY <1>1, <2>3, <2>4, <2>5
  <2> QED BY <2>3, <2>4, <2>6
<1>6. x \div (b * c) = z
  BY <1>2, <1>3, <1>4, <1>5, Euclid
<1> QED BY <1>6 DEF y, z

LEMMA ModMul ==
    ASSUME NEW b \in Nat \ {0}, NEW c \in Nat \ {0}, NEW x \in Int
    PROVE  (x * b) % (c * b) = (x % c) * b
<1> DEFINE y == x \div c
           r == x % c
<1>1. y \in Int /\ r \in 0..(c - 1) /\ x = y * c + r
  BY DivMod
<1> HIDE DEF y, r
<1>2. c * b \in Nat \ {0}
  OBVIOUS
<1>3. r * b \in 0..(c * b - 1)
  <2>1. r * b \in Nat /\ r * b <= (c - 1) * b
    BY <1>1
  <2>2. (c - 1) * b = c * b - b
    OBVIOUS
  <2> QED BY <2>1, <2>2
<1>4. x * b = y * (c * b) + r * b
  <2>1. (y * c + r) * b = (y * c) * b + r * b
    BY <1>1
  <2>2. (y * c) * b = y * (c * b)
    BY <1>1
  <2> QED BY <1>1, <2>1, <2>2
<1>5. (x * b) % (c * b) = r * b
  <2>1. PICK n \in Nat \ {0} : n = c * b
    BY <1>2
  <2>2. PICK t \in 0..(n - 1) : t = r * b
    BY <1>3, <2>1
  <2>3. PICK k \in Int : k = x * b
    OBVIOUS
  <2>4. k = y * n + t
    BY <1>4, <2>1, <2>2, <2>3
  <2>5. k % n = t
    BY <1>1, <2>4, Euclid
  <2> QED BY <2>1, <2>2, <2>3, <2>5
<1> QED BY <1>5 DEF r

LEMMA MulDiv ==
    ASSUME NEW b \in Nat \ {0}, NEW x \in Int PROVE (x * b) \div b = x
<1>1. x * b = x * b + 0 /\ 0 \in 0..(b - 1) /\ x * b \in Int
  OBVIOUS
<1> QED BY <1>1, Euclid

LEMMA DivOfMod ==
    ASSUME NEW b \in Nat \ {0}, NEW c \in Nat \ {0}, NEW x \in Int
    PROVE  (x % (b * c)) \div b = (x \div b) % c
<1> DEFINE y == x \div (b * c)
           m == x % (b * c)
           k == m \div b
           r == m % b
<1>1. b * c \in Nat \ {0}
  OBVIOUS
<1>2. y \in Int /\ m \in 0..(b * c - 1) /\ x = y * (b * c) + m
  BY <1>1, DivMod
<1>3. k \in Int /\ r \in 0..(b - 1) /\ m = k * b + r
  BY <1>2, DivMod
<1> HIDE DEF y, m, k, r
<1>4. k \in 0..(c - 1)
  <2>1. k >= 0
    <3>1. ASSUME k <= -1 PROVE FALSE
      <4>1. k * b <= (-1) * b
        BY <1>3, <3>1
      <4> QED BY <1>2, <1>3, <4>1
    <3> QED BY <1>3, <3>1
  <2>2. k < c
    <3>1. ASSUME k >= c PROVE FALSE
      <4>1. k * b >= c * b
        BY <1>3, <3>1
      <4> QED BY <1>2, <1>3, <4>1
    <3> QED BY <1>3, <3>1
  <2> QED BY <1>3, <2>1, <2>2
<1>5. x = (y * c + k) * b + r
  <2>1. (y * c + k) * b = y * (b * c) + k * b
    BY <1>2, <1>3
  <2> QED BY <1>2, <1>3, <2>1
<1>6. x \div b = y * c + k
  BY <1>2, <1>3, <1>5, Euclid
<1>7. (y * c + k) % c = k
  BY <1>2, <1>4, Euclid
<1> QED BY <1>6, <1>7 DEF m, k

LEMMA ModMod ==
    ASSUME NEW b \in Nat \ {0}, NEW c \in Nat \ {0}, NEW x \in Int
    PROVE  (x % (b * c)) % b = x % b
<1> DEFINE y == x \div (b * c)
           m == x % (b * c)
           k == m \div b
           r == m % b
<1>1. b * c \in Nat \ {0}
  OBVIOUS
<1>2. y \in Int /\ m \in 0..(b * c - 1) /\ x = y * (b * c) + m
  BY <1>1, DivMod
<1>3. k \in Int /\ r \in 0..(b - 1) /\ m = k * b + r
  BY <1>2, DivMod
<1> HIDE DEF y, m, k, r
<1>5. x = (y * c + k) * b + r
  <2>1. (y * c + k) * b = y * (b * c) + k * b
    BY <1>2, <1>3
  <2> QED BY <1>2, <1>3, <2>1
<1>6. x % b = r
  BY <1>2, <1>3, <1>5, Euclid
<1> QED BY <1>6 DEF m, r

LEMMA ModStep ==
    ASSUME NEW b \in Nat \ {0}, NEW c \in Nat \ {0}, NEW x \in Int
    PROVE  x % (b * c) = (x % b) + ((x \div b) % c) * b
<1> DEFINE m == x % (b * c)
<1>1. b * c \in Nat \ {0}
  OBVIOUS
<1>2. m \in Int
  BY <1>1, DivMod
<1>3. m \div b = (x \div b) % c /\ m % b = x % b
  BY DivOfMod, ModMod
<1> HIDE DEF m
<1>4. m = (m \div b) * b + (m % b) /\ (m \div b) * b \in Int /\ m % b \in Int
  BY <1>2, DivMod
<1>5. m = (m % b) + (m \div b) * b
  BY <1>4
<1> QED BY <1>3, <1>5 DEF m

LEMMA LeastOf ==
    ASSUME NEW T, T \subseteq Nat, T # {}
    PROVE  \E x \in T : \A y \in T : x <= y
<1> DEFINE R == {p \in Nat \X Nat : p[1] < p[2]}
<1>1. IsWellFoundedOn(R, Nat)
  BY NatLessThanWellFounded, Zenon DEF OpToRel
<1> HIDE DEF R
<1>2. PICK x \in T : \A y \in T : ~ (<<y, x>> \in R)
  BY <1>1, WFMin, Zenon
<1>3. ASSUME NEW y \in T, y < x PROVE FALSE
  <2>1. <<y, x>> \in R
    BY <1>3 DEF R
  <2> QED BY <1>2, <2>1
<1> QED BY <1>2, <1>3

-----------------------------------------------------------------------------
(* Powers of the base, and digits. *)

Pow(n) == Power[n]

LEMMA PowerIs ==
    ASSUME Base \in Nat \ {0}
    PROVE  /\ Pow(0) = 1
           /\ \A n \in 1..8 : Pow(n) = Base * Pow(n - 1)
           /\ \A n \in 0..8 : Pow(n) \in Nat \ {0}
<1> DEFINE b2 == Base * Base
           b3 == Base * b2
           b4 == Base * b3
           b5 == Base * b4
           b6 == Base * b5
           b7 == Base * b6
           b8 == Base * b7
           f == [n \in 0..8 |-> IF n = 0 THEN 1 ELSE IF n = 1 THEN Base ELSE IF n = 2 THEN b2
                                ELSE IF n = 3 THEN b3 ELSE IF n = 4 THEN b4 ELSE IF n = 5 THEN b5
                                ELSE IF n = 6 THEN b6 ELSE IF n = 7 THEN b7 ELSE b8]
<1>1. f = [n \in 0..8 |-> IF n = 0 THEN 1 ELSE Base * f[n - 1]]
  <2>1. ASSUME NEW n \in 0..8 PROVE f[n] = IF n = 0 THEN 1 ELSE Base * f[n - 1]
    <3>1. n \in {0, 1, 2, 3, 4, 5, 6, 7, 8}
      OBVIOUS
    <3>2. Base = Base * 1
      OBVIOUS
    <3> HIDE DEF b2, b3, b4, b5, b6, b7, b8
    <3> QED BY <3>1, <3>2 DEF b2, b3, b4, b5, b6, b7, b8
  <2>2. f = [n \in 0..8 |-> f[n]]
    BY Zenon
  <2> HIDE DEF f
  <2> QED BY <2>1, <2>2
<1>2. \E g : g = [n \in 0..8 |-> IF n = 0 THEN 1 ELSE Base * g[n - 1]]
  BY <1>1, Zenon
<1>3. Power = [n \in 0..8 |-> IF n = 0 THEN 1 ELSE Base * Power[n - 1]]
  BY <1>2, Zenon DEF Power
<1>4. Pow(0) = 1 /\ \A n \in 1..8 : Pow(n) = Base * Pow(n - 1)
  BY <1>3 DEF Pow
<1>5. ASSUME NEW n \in 1..8, Pow(n - 1) \in Nat \ {0} PROVE Pow(n) \in Nat \ {0}
  <2>1. PICK p \in Nat \ {0} : p = Pow(n - 1)
    BY <1>5
  <2> QED BY <2>1, <1>4
<1>6. Pow(0) \in Nat \ {0} /\ Pow(1) \in Nat \ {0} /\ Pow(2) \in Nat \ {0}
  BY <1>4, <1>5
<1>7. Pow(3) \in Nat \ {0} /\ Pow(4) \in Nat \ {0} /\ Pow(5) \in Nat \ {0}
  BY <1>5, <1>6
<1>8. Pow(6) \in Nat \ {0} /\ Pow(7) \in Nat \ {0} /\ Pow(8) \in Nat \ {0}
  BY <1>5, <1>7
<1>9. ASSUME NEW n \in 0..8 PROVE Pow(n) \in Nat \ {0}
  <2>1. n \in {0, 1, 2, 3, 4, 5, 6, 7, 8}
    OBVIOUS
  <2> QED BY <2>1, <1>6, <1>7, <1>8
<1> QED BY <1>4, <1>9

LEMMA PowerSum ==
    ASSUME Base \in Nat \ {0}, NEW m \in 0..4, NEW n \in 0..4
    PROVE  Pow(m + n) = Pow(m) * Pow(n)
<1>1. ASSUME NEW k \in 0..3, Pow(k + n) = Pow(k) * Pow(n)
      PROVE  Pow(k + 1 + n) = Pow(k + 1) * Pow(n)
  <2>1. k + 1 + n \in 1..8 /\ k + 1 \in 1..8 /\ k + 1 + n - 1 = k + n /\ k + 1 - 1 = k
    OBVIOUS
  <2>2. Pow(k + 1 + n) = Base * Pow(k + n) /\ Pow(k + 1) = Base * Pow(k)
    BY <2>1, PowerIs
  <2>3. PICK p \in Nat : p = Pow(k)
    BY PowerIs
  <2>4. PICK q \in Nat : q = Pow(n)
    BY PowerIs
  <2>5. Base * (p * q) = (Base * p) * q
    OBVIOUS
  <2> QED BY <1>1, <2>2, <2>3, <2>4, <2>5
<1>2. Pow(0 + n) = Pow(0) * Pow(n)
  <2>1. Pow(0) = 1 /\ Pow(n) \in Nat /\ 0 + n = n
    BY PowerIs
  <2> QED BY <2>1
<1>3. Pow(1 + n) = Pow(1) * Pow(n)
  BY <1>1, <1>2
<1>4. Pow(2 + n) = Pow(2) * Pow(n)
  BY <1>1, <1>3
<1>5. Pow(3 + n) = Pow(3) * Pow(n)
  BY <1>1, <1>4
<1>6. Pow(4 + n) = Pow(4) * Pow(n)
  BY <1>1, <1>5
<1>7. m \in {0, 1, 2, 3, 4}
  OBVIOUS
<1> QED BY <1>2, <1>3, <1>4, <1>5, <1>6, <1>7

-----------------------------------------------------------------------------
LEMMA ConcatIs ==
    ASSUME NEW S, NEW r \in Seq(S), NEW s \in Seq(S), NEW t \in Seq(S), Len(r) = Len(s) + Len(t),
           \A i \in 1..Len(s) : r[i] = s[i], \A i \in 1..Len(t) : r[Len(s) + i] = t[i]
    PROVE  r = s \o t
<1>1. /\ s \o t \in Seq(S) /\ Len(s \o t) = Len(s) + Len(t)
      /\ \A i \in 1..Len(s) : (s \o t)[i] = s[i]
      /\ \A i \in Len(s) + 1..Len(s) + Len(t) : (s \o t)[i] = t[i - Len(s)]
  BY ConcatProperties
<1>2. ASSUME NEW i \in 1..Len(r) PROVE r[i] = (s \o t)[i]
  <2>1. CASE i <= Len(s)
    BY <1>1, <2>1
  <2>2. CASE i > Len(s)
    <3>1. PICK j \in 1..Len(t) : i = Len(s) + j
      <4>1. i - Len(s) \in 1..Len(t) /\ i = Len(s) + (i - Len(s))
        BY <2>2
      <4> QED BY <4>1
    <3>2. r[i] = t[j] /\ i - Len(s) = j /\ i \in Len(s) + 1..Len(s) + Len(t)
      BY <3>1, <2>2
    <3> QED BY <1>1, <3>2
  <2> QED BY <2>1, <2>2
<1> QED BY <1>1, <1>2, SeqEqual

Digit(v, k) == (v \div Pow(k)) % Base

LEMMA DigitHigh ==
    ASSUME Base \in Nat \ {0}, NEW w \in 0..4, NEW k \in 0..4, NEW v \in Nat
    PROVE  Digit(v \div Pow(w), k) = Digit(v, k + w)
<1>1. Pow(k) \in Nat \ {0} /\ Pow(w) \in Nat \ {0}
  BY PowerIs
<1>2. Pow(w + k) = Pow(w) * Pow(k)
  BY PowerSum
<1>3. v \in Int /\ k + w = w + k
  OBVIOUS
<1>4. (v \div Pow(w)) \div Pow(k) = v \div (Pow(w) * Pow(k))
  BY <1>1, <1>3, DivDiv, Zenon
<1> QED BY <1>2, <1>3, <1>4, Zenon DEF Digit

LEMMA DigitLow ==
    ASSUME Base \in Nat \ {0}, NEW w \in 1..4, NEW k \in 0..(w - 1), NEW v \in Nat
    PROVE  Digit(v % Pow(w), k) = Digit(v, k)
<1>1. PICK n \in 0..3 : k + (n + 1) = w
  <2>1. w - k - 1 \in 0..3 /\ k + ((w - k - 1) + 1) = w
    OBVIOUS
  <2> QED BY <2>1
<1>2. k \in 0..4 /\ n + 1 \in 0..4 /\ n + 1 \in 1..8 /\ n \in 0..8 /\ n + 1 - 1 = n /\ v \in Int
  OBVIOUS
<1>3. Pow(k + (n + 1)) = Pow(k) * Pow(n + 1)
  BY <1>2, PowerSum
<1>4. Pow(n + 1) = Base * Pow(n)
  BY <1>2, PowerIs
<1>5. Pow(k) \in Nat \ {0} /\ Pow(n + 1) \in Nat \ {0} /\ Pow(n) \in Nat \ {0}
  BY <1>2, PowerIs
<1>6. (v % Pow(w)) \div Pow(k) = (v \div Pow(k)) % Pow(n + 1)
  BY <1>1, <1>2, <1>3, <1>5, DivOfMod, Zenon
<1>7. v \div Pow(k) \in Int
  BY <1>5, DivMod
<1>8. ((v \div Pow(k)) % Pow(n + 1)) % Base = (v \div Pow(k)) % Base
  <2>1. PICK x \in Int : x = v \div Pow(k)
    BY <1>7
  <2>2. (x % (Base * Pow(n))) % Base = x % Base
    BY <1>5, ModMod, Zenon
  <2> QED BY <1>4, <2>1, <2>2, Zenon
<1> QED BY <1>6, <1>8, Zenon DEF Digit

Orders == {"big", "little"}
Bytes == 0..(Base - 1)

\* The weight of the byte at place i of w.
Place(i, w, order) == IF order = "big" THEN w - i ELSE i - 1

LEMMA ImageIs ==
    ASSUME Base \in Nat \ {0}, NEW w \in 1..8, NEW v \in Nat, NEW order \in Orders
    PROVE  /\ Image(v, w, order) \in Seq(Bytes)
           /\ Len(Image(v, w, order)) = w
           /\ \A i \in 1..w : /\ Place(i, w, order) \in 0..(w - 1)
                              /\ Image(v, w, order)[i] = Digit(v, Place(i, w, order))
<1>1. \A i \in 1..w : Place(i, w, order) \in 0..(w - 1)
  BY DEF Place
<1>2. Image(v, w, order) = [i \in 1..w |-> Digit(v, Place(i, w, order))]
  BY DEF Image, Digit, Place, Pow
<1>3. \A k \in 0..(w - 1) : Digit(v, k) \in Bytes
  <2> SUFFICES ASSUME NEW k \in 0..(w - 1) PROVE Digit(v, k) \in Bytes
    OBVIOUS
  <2>0. k \in 0..8
    OBVIOUS
  <2>1. Pow(k) \in Nat \ {0}
    BY <2>0, PowerIs, Zenon
  <2>2. v \div Pow(k) \in Int
    BY <2>1, DivMod
  <2> QED BY <2>2, DivMod DEF Digit, Bytes
<1> HIDE DEF Place, Digit
<1> QED BY <1>1, <1>2, <1>3

\* The bytes of a number are those of its halves.
LEMMA ImageDigits ==
    ASSUME Base \in Nat \ {0}, NEW w \in 1..8, NEW v \in Nat, NEW order \in Orders
    PROVE  /\ Len(Image(v, w, order)) = w
           /\ \A i \in 1..w : Image(v, w, order)[i] = Digit(v, Place(i, w, order))
<1>1. Len(Image(v, w, order)) = w
  BY ImageIs, Zenon
<1>2. ASSUME NEW i \in 1..w PROVE Image(v, w, order)[i] = Digit(v, Place(i, w, order))
  BY ImageIs, Zenon
<1> QED BY <1>1, <1>2

LEMMA Halves ==
    ASSUME Base \in Nat \ {0}, NEW w \in {1, 2, 4}, NEW v \in Nat, NEW order \in Orders
    PROVE  Image(v, 2 * w, order)
              = InOrder(order, Image(v \div Pow(w), w, order), Image(v % Pow(w), w, order))
<1>0. w \in 1..8 /\ w \in 0..8 /\ 2 * w \in 1..8
  OBVIOUS
<1>p. Pow(w) \in Nat \ {0} /\ v \in Int
  BY <1>0, PowerIs
<1>1. PICK h \in Nat : h = v \div Pow(w)
  BY <1>p, DivNat, Zenon
<1>2. PICK l \in Nat : l = v % Pow(w)
  <2>1. v % Pow(w) \in 0..(Pow(w) - 1)
    BY <1>p, DivMod, Zenon
  <2>2. v % Pow(w) \in Nat
    BY <1>p, <2>1
  <2> QED BY <2>2
<1>3. PICK high \in Seq(Bytes) : high = Image(h, w, order)
  BY <1>0, ImageIs, Zenon
<1>4. PICK low \in Seq(Bytes) : low = Image(l, w, order)
  BY <1>0, ImageIs, Zenon
<1>5. PICK all \in Seq(Bytes) : all = Image(v, 2 * w, order)
  BY <1>0, ImageIs, Zenon
<1>6. Len(high) = w /\ \A i \in 1..w : high[i] = Digit(h, Place(i, w, order))
  BY <1>0, <1>3, ImageDigits
<1>7. Len(low) = w /\ \A i \in 1..w : low[i] = Digit(l, Place(i, w, order))
  BY <1>0, <1>4, ImageDigits
<1>8. Len(all) = 2 * w /\ \A i \in 1..(2 * w) : all[i] = Digit(v, Place(i, 2 * w, order))
  <2>1. PICK n \in 1..8 : n = 2 * w
    BY <1>0
  <2>2. all = Image(v, n, order)
    BY <1>5, <2>1
  <2>3. Len(all) = n /\ \A i \in 1..n : all[i] = Digit(v, Place(i, n, order))
    BY <2>2, ImageDigits
  <2> QED BY <2>1, <2>3
<1>9. ASSUME NEW k \in 0..(w - 1) PROVE Digit(h, k) = Digit(v, k + w) /\ Digit(l, k) = Digit(v, k)
  <2>1. w \in 0..4 /\ k \in 0..4 /\ w \in 1..4
    OBVIOUS
  <2>2. Digit(v \div Pow(w), k) = Digit(v, k + w)
    BY <2>1, DigitHigh
  <2>3. Digit(v % Pow(w), k) = Digit(v, k)
    BY <2>1, DigitLow
  <2> QED BY <1>1, <1>2, <2>2, <2>3, Zenon
<1>10. CASE order = "big"
  <2>1. \A i \in 1..w : all[i] = high[i]
    BY <1>6, <1>8, <1>9, <1>10 DEF Place
  <2>2. \A i \in 1..w : all[w + i] = low[i]
    BY <1>7, <1>8, <1>9, <1>10 DEF Place
  <2>3. all = high \o low
    <3>1. Len(all) = Len(high) + Len(low)
      BY <1>6, <1>7, <1>8
    <3>2. \A i \in 1..Len(high) : all[i] = high[i]
      BY <1>6, <1>7, <2>1
    <3>3. \A i \in 1..Len(low) : all[Len(high) + i] = low[i]
      BY <1>6, <1>7, <2>2
    <3> QED BY <3>1, <3>2, <3>3, ConcatIs, Zenon
  <2> QED BY <1>1, <1>2, <1>3, <1>4, <1>5, <1>10, <2>3, Zenon DEF InOrder
<1>11. CASE order = "little"
  <2>1. \A i \in 1..w : all[i] = low[i]
    BY <1>7, <1>8, <1>9, <1>11 DEF Place
  <2>2. \A i \in 1..w : all[w + i] = high[i]
    BY <1>6, <1>8, <1>9, <1>11 DEF Place
  <2>3. all = low \o high
    <3>1. Len(all) = Len(low) + Len(high)
      BY <1>6, <1>7, <1>8
    <3>2. \A i \in 1..Len(low) : all[i] = low[i]
      BY <1>6, <1>7, <2>1
    <3>3. \A i \in 1..Len(high) : all[Len(low) + i] = high[i]
      BY <1>6, <1>7, <2>2
    <3> QED BY <3>1, <3>2, <3>3, ConcatIs, Zenon
  <2>4. order # "big"
    BY <1>11
  <2> QED BY <1>1, <1>2, <1>3, <1>4, <1>5, <2>3, <2>4, Zenon DEF InOrder
<1> QED BY <1>10, <1>11 DEF Orders

LEMMA HalfBelow ==
    ASSUME Base \in Nat \ {0}, NEW w \in {1, 2, 4}, NEW v \in 0..(Pow(2 * w) - 1)
    PROVE  /\ Pow(2 * w) = Pow(w) * Pow(w) /\ Pow(w) \in Nat \ {0} /\ Pow(2 * w) \in Nat \ {0}
           /\ v \in Nat /\ v \div Pow(w) \in 0..(Pow(w) - 1) /\ v % Pow(w) \in 0..(Pow(w) - 1)
           /\ v = (v \div Pow(w)) * Pow(w) + (v % Pow(w))
           /\ ((v * Pow(w)) % Pow(2 * w)) \div Pow(w) = v % Pow(w)
<1>0. w \in 0..4 /\ w + w = 2 * w /\ w \in 0..8 /\ 2 * w \in 0..8
  OBVIOUS
<1>1. Pow(w) \in Nat \ {0} /\ Pow(2 * w) \in Nat \ {0}
  BY <1>0, PowerIs
<1>2. Pow(w + w) = Pow(w) * Pow(w)
  BY <1>0, PowerSum, Zenon
<1>3. Pow(2 * w) = Pow(w) * Pow(w)
  BY <1>0, <1>2
<1>4. v \in Nat /\ v \in Int /\ v < Pow(2 * w)
  BY <1>1
<1>5. v \div Pow(w) \in Nat /\ v % Pow(w) \in 0..(Pow(w) - 1) /\ v = (v \div Pow(w)) * Pow(w) + (v % Pow(w))
  BY <1>1, <1>4, DivNat, DivMod, Zenon
<1>6. v \div Pow(w) < Pow(w)
  <2>1. PICK h \in Nat : h = v \div Pow(w)
    BY <1>5
  <2>2. PICK l \in Nat : l = v % Pow(w)
    BY <1>1, <1>5
  <2>3. PICK p \in Nat \ {0} : p = Pow(w)
    BY <1>1
  <2>4. h * p + l < p * p
    BY <1>3, <1>4, <1>5, <2>1, <2>2, <2>3
  <2>5. ASSUME h >= p PROVE FALSE
    <3>1. h * p >= p * p
      BY <2>5
    <3> QED BY <2>4, <3>1
  <2> QED BY <2>1, <2>3, <2>5
<1>7. v \div Pow(w) \in 0..(Pow(w) - 1)
  BY <1>1, <1>5, <1>6
<1>8. (v * Pow(w)) % (Pow(w) * Pow(w)) = (v % Pow(w)) * Pow(w)
  BY <1>1, <1>4, ModMul, Zenon
<1>9. v % Pow(w) \in Int
  BY <1>1, <1>5
<1>10. ((v % Pow(w)) * Pow(w)) \div Pow(w) = v % Pow(w)
  BY <1>1, <1>9, MulDiv, Zenon
<1> QED BY <1>1, <1>3, <1>4, <1>5, <1>7, <1>8, <1>10, Zenon

\* Writing by halves writes digit by digit.
LEMMA WriteIsImage ==
    ASSUME Base \in Nat \ {0}, NEW order \in Orders
    PROVE  /\ \A v \in 0..(Pow(1) - 1) : WriteUint8(v) = Image(v, 1, order)
           /\ \A v \in 0..(Pow(2) - 1) : WriteUint16(v, order) = Image(v, 2, order)
           /\ \A v \in 0..(Pow(4) - 1) : WriteUint32(v, order) = Image(v, 4, order)
           /\ \A v \in 0..(Pow(8) - 1) : WriteUint64(v, order) = Image(v, 8, order)
<1>0. Pow(0) = 1 /\ Pow(1) = Base
  BY PowerIs
<1>1. ASSUME NEW v \in 0..(Pow(1) - 1) PROVE WriteUint8(v) = Image(v, 1, order)
  <2>1. v \in Nat /\ 1 \in 1..8
    BY <1>0, <1>1
  <2>2. /\ Image(v, 1, order) \in Seq(Bytes) /\ Len(Image(v, 1, order)) = 1
        /\ Image(v, 1, order)[1] = Digit(v, Place(1, 1, order))
    BY <2>1, ImageIs
  <2>3. Digit(v, Place(1, 1, order)) = v % Base
    BY <1>0, <2>1 DEF Digit, Place
  <2>4. v % Base \in Bytes
    BY <2>1, DivMod DEF Bytes
  <2>5. <<v % Base>> \in Seq(Bytes) /\ Len(<<v % Base>>) = 1 /\ <<v % Base>>[1] = v % Base
    BY <2>4
  <2>6. <<v % Base>> = Image(v, 1, order)
    BY <2>2, <2>3, <2>5, SeqEqual
  <2> QED BY <2>6, Zenon DEF WriteUint8
<1>2. ASSUME NEW v \in 0..(Pow(2) - 1) PROVE WriteUint16(v, order) = Image(v, 2, order)
  <2>1. 2 = 2 * 1 /\ 1 \in {1, 2, 4}
    OBVIOUS
  <2>2. v \in Nat /\ v \div Pow(1) \in 0..(Pow(1) - 1) /\ v % Pow(1) \in 0..(Pow(1) - 1)
    BY <1>2, <2>1, HalfBelow
  <2>3. Image(v, 2, order)
           = InOrder(order, Image(v \div Pow(1), 1, order), Image(v % Pow(1), 1, order))
    BY <2>1, <2>2, Halves
  <2>4. /\ WriteUint8(v \div Pow(1)) = Image(v \div Pow(1), 1, order)
        /\ WriteUint8(v % Pow(1)) = Image(v % Pow(1), 1, order)
    BY <1>1, <2>2, Zenon
  <2> QED BY <1>0, <2>3, <2>4, Zenon DEF WriteUint16
<1>3. ASSUME NEW v \in 0..(Pow(4) - 1) PROVE WriteUint32(v, order) = Image(v, 4, order)
  <2>1. 4 = 2 * 2 /\ 2 \in {1, 2, 4}
    OBVIOUS
  <2>2. /\ v \in Nat /\ v \div Pow(2) \in 0..(Pow(2) - 1) /\ v % Pow(2) \in 0..(Pow(2) - 1)
        /\ ((v * Pow(2)) % Pow(4)) \div Pow(2) = v % Pow(2)
    BY <1>3, <2>1, HalfBelow
  <2>3. Image(v, 4, order)
           = InOrder(order, Image(v \div Pow(2), 2, order), Image(v % Pow(2), 2, order))
    BY <2>1, <2>2, Halves
  <2>4. /\ WriteUint16(v \div Pow(2), order) = Image(v \div Pow(2), 2, order)
        /\ WriteUint16(v % Pow(2), order) = Image(v % Pow(2), 2, order)
    BY <1>2, <2>2, Zenon
  <2> QED BY <2>2, <2>3, <2>4, Zenon DEF WriteUint32, Pow
<1>4. ASSUME NEW v \in 0..(Pow(8) - 1) PROVE WriteUint64(v, order) = Image(v, 8, order)
  <2>1. 8 = 2 * 4 /\ 4 \in {1, 2, 4}
    OBVIOUS
  <2>2. /\ v \in Nat /\ v \div Pow(4) \in 0..(Pow(4) - 1) /\ v % Pow(4) \in 0..(Pow(4) - 1)
        /\ ((v * Pow(4)) % Pow(8)) \div Pow(4) = v % Pow(4)
    BY <1>4, <2>1, HalfBelow
  <2>3. Image(v, 8, order)
           = InOrder(order, Image(v \div Pow(4), 4, order), Image(v % Pow(4), 4, order))
    BY <2>1, <2>2, Halves
  <2>4. /\ WriteUint32(v \div Pow(4), order) = Image(v \div Pow(4), 4, order)
        /\ WriteUint32(v % Pow(4), order) = Image(v % Pow(4), 4, order)
    BY <1>3, <2>2, Zenon
  <2> QED BY <2>2, <2>3, <2>4, Zenon DEF WriteUint64, Pow
<1> QED BY <1>1, <1>2, <1>3, <1>4

-----------------------------------------------------------------------------
\* The bytes of s are in q from place i.
At(q, i, s) == i + Len(s) - 1 <= Len(q) /\ \A j \in 1..Len(s) : q[i + j - 1] = s[j]

LEMMA AtConcat ==
    ASSUME NEW q \in Seq(Bytes), NEW i \in Nat \ {0}, NEW s \in Seq(Bytes), NEW t \in Seq(Bytes),
           At(q, i, s \o t)
    PROVE  At(q, i, s) /\ At(q, i + Len(s), t)
<1>1. /\ s \o t \in Seq(Bytes) /\ Len(s \o t) = Len(s) + Len(t)
      /\ \A j \in 1..Len(s) + Len(t) : (s \o t)[j] = IF j <= Len(s) THEN s[j] ELSE t[j - Len(s)]
  BY ConcatProperties
<1>2. i + Len(s) - 1 <= Len(q) /\ i + Len(s) + Len(t) - 1 <= Len(q)
  BY <1>1 DEF At
<1>3. ASSUME NEW j \in 1..Len(s) PROVE q[i + j - 1] = s[j]
  BY <1>1 DEF At
<1>4. ASSUME NEW j \in 1..Len(t) PROVE q[i + Len(s) + j - 1] = t[j]
  <2>1. PICK k \in 1..(Len(s) + Len(t)) : k = Len(s) + j
    OBVIOUS
  <2>2. (s \o t)[k] = t[j] /\ i + k - 1 = i + Len(s) + j - 1
    BY <1>1, <2>1
  <2>3. q[i + k - 1] = (s \o t)[k]
    BY <1>1 DEF At
  <2> QED BY <2>2, <2>3
<1> QED BY <1>2, <1>3, <1>4 DEF At

LEMMA ReadHalves ==
    ASSUME Base \in Nat \ {0}, NEW w \in {1, 2, 4}, NEW v \in 0..(Pow(2 * w) - 1), NEW order \in Orders,
           NEW q \in Seq(Bytes), NEW i \in Nat \ {0}, At(q, i, Image(v, 2 * w, order))
    PROVE  \E left, right \in 0..(Pow(w) - 1) :
              /\ At(q, i, Image(left, w, order)) /\ At(q, i + w, Image(right, w, order))
              /\ Join(order, left, right, Pow(w)) = v
<1>0. w \in 1..8
  OBVIOUS
<1>1. /\ v \in Nat /\ Pow(w) \in Nat \ {0}
      /\ v \div Pow(w) \in 0..(Pow(w) - 1) /\ v % Pow(w) \in 0..(Pow(w) - 1)
      /\ v = (v \div Pow(w)) * Pow(w) + (v % Pow(w))
  BY HalfBelow, Zenon
<1>2. PICK h \in 0..(Pow(w) - 1) : h = v \div Pow(w)
  BY <1>1
<1>3. PICK l \in 0..(Pow(w) - 1) : l = v % Pow(w)
  BY <1>1
<1>4. h \in Nat /\ l \in Nat
  BY <1>1
<1>5. PICK high \in Seq(Bytes) : high = Image(h, w, order) /\ Len(high) = w
  <2>1. Image(h, w, order) \in Seq(Bytes) /\ Len(Image(h, w, order)) = w
    BY <1>0, <1>4, ImageIs, Zenon
  <2> QED BY <2>1
<1>6. PICK low \in Seq(Bytes) : low = Image(l, w, order) /\ Len(low) = w
  <2>1. Image(l, w, order) \in Seq(Bytes) /\ Len(Image(l, w, order)) = w
    BY <1>0, <1>4, ImageIs, Zenon
  <2> QED BY <2>1
<1>7. Image(v, 2 * w, order) = InOrder(order, high, low)
  BY <1>1, <1>2, <1>3, <1>5, <1>6, Halves, Zenon
<1>8. CASE order = "big"
  <2>1. Image(v, 2 * w, order) = high \o low
    BY <1>7, <1>8 DEF InOrder
  <2>2. At(q, i, high) /\ At(q, i + w, low)
    <3>1. At(q, i, high \o low)
      BY <2>1
    <3>2. At(q, i, high) /\ At(q, i + Len(high), low)
      BY <3>1, AtConcat, Zenon
    <3> QED BY <1>5, <1>6, <3>2, Zenon
  <2>3. Join(order, h, l, Pow(w)) = v
    BY <1>1, <1>2, <1>3, <1>8, Zenon DEF Join
  <2> QED BY <1>5, <1>6, <2>2, <2>3, Zenon
<1>9. CASE order = "little"
  <2>1. Image(v, 2 * w, order) = low \o high
    BY <1>7, <1>9 DEF InOrder
  <2>2. At(q, i, low) /\ At(q, i + w, high)
    <3>1. At(q, i, low \o high)
      BY <2>1
    <3>2. At(q, i, low) /\ At(q, i + Len(low), high)
      BY <3>1, AtConcat, Zenon
    <3> QED BY <1>5, <1>6, <3>2, Zenon
  <2>3. Join(order, l, h, Pow(w)) = v
    <3>0. PICK p \in Nat : p = Pow(w)
      BY <1>1
    <3>1. h * Pow(w) \in Nat
      BY <1>4, <3>0
    <3>2. l + h * Pow(w) = h * Pow(w) + l
      BY <1>4, <3>1
    <3>3. order # "big"
      BY <1>9
    <3> QED BY <1>1, <1>2, <1>3, <3>2, <3>3, Zenon DEF Join
  <2> QED BY <1>5, <1>6, <2>2, <2>3, Zenon
<1> QED BY <1>8, <1>9 DEF Orders

\* Reading by halves reads what the digits say.
LEMMA ReadIsImage ==
    ASSUME Base \in Nat \ {0}, NEW order \in Orders, NEW q \in Seq(Bytes), NEW i \in Nat \ {0}
    PROVE  /\ \A v \in 0..(Pow(1) - 1) : At(q, i, Image(v, 1, order)) => ReadUint8(q, i) = v
           /\ \A v \in 0..(Pow(2) - 1) :
                 At(q, i, Image(v, 2, order)) => ReadUint16(q, i, order) = v
           /\ \A v \in 0..(Pow(4) - 1) :
                 At(q, i, Image(v, 4, order)) => ReadUint32(q, i, order) = v
           /\ \A v \in 0..(Pow(8) - 1) :
                 At(q, i, Image(v, 8, order)) => ReadUint64(q, i, order) = v
<1>0. Pow(0) = 1 /\ Pow(1) = Base
  BY PowerIs
<1>1. ASSUME NEW k \in Nat \ {0}, NEW v \in 0..(Pow(1) - 1), At(q, k, Image(v, 1, order))
      PROVE  ReadUint8(q, k) = v
  <2>1. v \in Nat /\ v < Base /\ 1 \in 1..8 /\ 1 \in 1..1
    BY <1>0, <1>1
  <2>2. Len(Image(v, 1, order)) = 1 /\ Image(v, 1, order)[1] = Digit(v, Place(1, 1, order))
    BY <2>1, ImageIs
  <2>3. Digit(v, Place(1, 1, order)) = v
    BY <1>0, <2>1 DEF Digit, Place
  <2>4. k <= Len(q) /\ q[k] = v
    BY <1>1, <2>2, <2>3 DEF At
  <2> QED BY <2>4, Zenon DEF ReadUint8
<1>2. ASSUME NEW k \in Nat \ {0}, NEW v \in 0..(Pow(2) - 1), At(q, k, Image(v, 2, order))
      PROVE  ReadUint16(q, k, order) = v
  <2>1. 2 = 2 * 1 /\ 1 \in {1, 2, 4} /\ k + 1 \in Nat \ {0}
    OBVIOUS
  <2>2. PICK left \in 0..(Pow(1) - 1), right \in 0..(Pow(1) - 1) :
              /\ At(q, k, Image(left, 1, order)) /\ At(q, k + 1, Image(right, 1, order))
              /\ Join(order, left, right, Pow(1)) = v
    BY <1>2, <2>1, ReadHalves
  <2>3. ReadUint8(q, k) = left /\ ReadUint8(q, k + 1) = right
    BY <1>1, <2>1, <2>2, Zenon
  <2> QED BY <1>0, <2>2, <2>3, Zenon DEF ReadUint16
<1>3. ASSUME NEW k \in Nat \ {0}, NEW v \in 0..(Pow(4) - 1), At(q, k, Image(v, 4, order))
      PROVE  ReadUint32(q, k, order) = v
  <2>1. 4 = 2 * 2 /\ 2 \in {1, 2, 4} /\ k + 2 \in Nat \ {0}
    OBVIOUS
  <2>2. PICK left \in 0..(Pow(2) - 1), right \in 0..(Pow(2) - 1) :
              /\ At(q, k, Image(left, 2, order)) /\ At(q, k + 2, Image(right, 2, order))
              /\ Join(order, left, right, Pow(2)) = v
    BY <1>3, <2>1, ReadHalves
  <2>3. ReadUint16(q, k, order) = left /\ ReadUint16(q, k + 2, order) = right
    BY <1>2, <2>1, <2>2, Zenon
  <2> QED BY <2>2, <2>3, Zenon DEF ReadUint32, Pow
<1>4. ASSUME NEW k \in Nat \ {0}, NEW v \in 0..(Pow(8) - 1), At(q, k, Image(v, 8, order))
      PROVE  ReadUint64(q, k, order) = v
  <2>1. 8 = 2 * 4 /\ 4 \in {1, 2, 4} /\ k + 4 \in Nat \ {0}
    OBVIOUS
  <2>2. PICK left \in 0..(Pow(4) - 1), right \in 0..(Pow(4) - 1) :
              /\ At(q, k, Image(left, 4, order)) /\ At(q, k + 4, Image(right, 4, order))
              /\ Join(order, left, right, Pow(4)) = v
    BY <1>4, <2>1, ReadHalves
  <2>3. ReadUint32(q, k, order) = left /\ ReadUint32(q, k + 4, order) = right
    BY <1>3, <2>1, <2>2, Zenon
  <2> QED BY <2>2, <2>3, Zenon DEF ReadUint64, Pow
<1> QED BY <1>1, <1>2, <1>3, <1>4

-----------------------------------------------------------------------------
LEMMA BufferSum ==
    ASSUME NEW q, NEW w \in 0..8
    PROVE  \E g : /\ g = [i \in 0..w |-> IF i = 0 THEN 0 ELSE g[i - 1] + q[i] * Pow(i - 1)]
                  /\ ReadItemFromBuffer(q, w) = g[w]
<1> DEFINE c(i) == q[i] * Pow(i - 1)
           s1 == 0 + c(1)
           s2 == s1 + c(2)
           s3 == s2 + c(3)
           s4 == s3 + c(4)
           s5 == s4 + c(5)
           s6 == s5 + c(6)
           s7 == s6 + c(7)
           s8 == s7 + c(8)
           f == [i \in 0..w |-> IF i = 0 THEN 0 ELSE IF i = 1 THEN s1 ELSE IF i = 2 THEN s2
                                ELSE IF i = 3 THEN s3 ELSE IF i = 4 THEN s4 ELSE IF i = 5 THEN s5
                                ELSE IF i = 6 THEN s6 ELSE IF i = 7 THEN s7 ELSE s8]
<1>1. f = [i \in 0..w |-> IF i = 0 THEN 0 ELSE f[i - 1] + c(i)]
  <2>1. ASSUME NEW i \in 0..w PROVE f[i] = IF i = 0 THEN 0 ELSE f[i - 1] + c(i)
    <3>1. i \in {0, 1, 2, 3, 4, 5, 6, 7, 8}
      OBVIOUS
    <3> HIDE DEF c, s1, s2, s3, s4, s5, s6, s7, s8
    <3> QED BY <3>1 DEF s1, s2, s3, s4, s5, s6, s7, s8
  <2>2. f = [i \in 0..w |-> f[i]]
    BY Zenon
  <2> HIDE DEF f, c
  <2> QED BY <2>1, <2>2
<1>2. \E g : g = [i \in 0..w |-> IF i = 0 THEN 0 ELSE g[i - 1] + q[i] * Pow(i - 1)]
  <2> HIDE DEF f
  <2> QED BY <1>1, Zenon
<1> QED BY <1>2, Zenon DEF ReadItemFromBuffer, Pow

LEMMA UpTo ==
    ASSUME NEW T, NEW n \in Nat, 0 \in T, \A i \in 1..n : i - 1 \in T => i \in T
    PROVE  0..n \subseteq T
<1> SUFFICES ASSUME NEW j \in 0..n, j \notin T PROVE FALSE
  OBVIOUS
<1> DEFINE S == {i \in 0..n : i \notin T}
<1>1. S \subseteq Nat /\ S # {}
  OBVIOUS
<1>2. PICK x \in S : \A y \in S : x <= y
  <2> HIDE DEF S
  <2> QED BY <1>1, LeastOf
<1>3. x \in 1..n /\ x - 1 \in 0..n /\ x \notin T
  BY <1>2
<1>4. x - 1 \in T
  BY <1>2, <1>3
<1> QED BY <1>3, <1>4

LEMMA SmallMod ==
    ASSUME NEW b \in Nat \ {0}, NEW x \in 0..(b - 1) PROVE x % b = x
<1>1. x = 0 * b + x /\ x \in Int /\ 0 \in Int
  OBVIOUS
<1> QED BY <1>1, Euclid, Zenon

LEMMA BufferIsImage ==
    ASSUME Base \in Nat \ {0}, NEW w \in 1..8, NEW v \in 0..(Pow(w) - 1), NEW q \in Seq(Bytes),
           At(q, 1, Image(v, w, "little"))
    PROVE  ReadItemFromBuffer(q, w) = v
<1>0. v \in Nat /\ v \in Int /\ w \in 0..8 /\ "little" \in Orders /\ Pow(w) \in Nat \ {0}
  <2>1. w \in 0..8 /\ "little" \in Orders
    BY DEF Orders
  <2>2. Pow(w) \in Nat \ {0}
    BY <2>1, PowerIs, Zenon
  <2> QED BY <2>1, <2>2
<1>1. PICK g : /\ g = [i \in 0..w |-> IF i = 0 THEN 0 ELSE g[i - 1] + q[i] * Pow(i - 1)]
               /\ ReadItemFromBuffer(q, w) = g[w]
  BY <1>0, BufferSum, Zenon
<1>2. g[0] = 0 /\ \A i \in 1..w : g[i] = g[i - 1] + q[i] * Pow(i - 1)
  BY <1>1
<1>3. Len(Image(v, w, "little")) = w
      /\ \A i \in 1..w : Image(v, w, "little")[i] = Digit(v, Place(i, w, "little"))
  BY <1>0, ImageDigits, Zenon
<1>4. \A i \in 1..w : q[i] = (v \div Pow(i - 1)) % Base
  BY <1>3 DEF At, Digit, Place
<1> DEFINE T == {i \in 0..w : g[i] = v % Pow(i)}
<1>5. 0 \in T
  <2>1. Pow(0) = 1
    BY PowerIs
  <2>2. v % 1 = 0
    BY <1>0
  <2> QED BY <1>2, <2>1, <2>2
<1>6. ASSUME NEW i \in 1..w, i - 1 \in T PROVE i \in T
  <2>1. i \in 1..8 /\ i - 1 \in 0..8
    OBVIOUS
  <2>2. Pow(i) = Base * Pow(i - 1) /\ Pow(i - 1) \in Nat \ {0}
    BY <2>1, PowerIs, Zenon
  <2>3. PICK p \in Nat \ {0} : p = Pow(i - 1)
    BY <2>2
  <2>4. Pow(i) = p * Base
    BY <2>2, <2>3
  <2>5. v % (p * Base) = (v % p) + ((v \div p) % Base) * p
    BY <1>0, ModStep, Zenon
  <2>6. g[i] = g[i - 1] + q[i] * p
    BY <1>2, <2>3
  <2>7. g[i - 1] = v % p /\ q[i] = (v \div p) % Base
    BY <1>4, <1>6, <2>3
  <2>8. g[i] = v % Pow(i)
    BY <2>4, <2>5, <2>6, <2>7, Zenon
  <2> QED BY <2>8
<1>7. 0..w \subseteq T
  <2> HIDE DEF T
  <2>1. w \in Nat
    OBVIOUS
  <2> QED BY <1>5, <1>6, <2>1, UpTo, Zenon
<1>8. g[w] = v % Pow(w)
  BY <1>7
<1>9. v % Pow(w) = v
  BY <1>0, SmallMod, Zenon
<1> QED BY <1>1, <1>8, <1>9, Zenon

LEMMA ShortRead ==
    ASSUME Base \in Nat \ {0}, NEW q \in Seq(Bytes), NEW order \in Orders
    PROVE  /\ ReadUint16(q, 1, order) \in Nat
           /\ Len(q) >= 2 => ReadItemFromBuffer(q, 2) \in Nat
<1>1. Pow(0) = 1 /\ Pow(1) = Base
  BY PowerIs
<1>2. ASSUME NEW x \in Nat, NEW y \in Nat PROVE x * Base + y \in Nat /\ x + y * Base \in Nat
  OBVIOUS
<1>3. \A i \in {1, 2} : ReadUint8(q, i) \in Nat
  BY DEF ReadUint8, Bytes
<1>4. ReadUint16(q, 1, order) \in Nat
  <2>1. PICK x \in Nat : x = ReadUint8(q, 1)
    BY <1>3
  <2>2. PICK y \in Nat : y = ReadUint8(q, 1 + 1)
    BY <1>3
  <2>3. Join(order, x, y, Base) \in Nat
    BY <1>2, Zenon DEF Join
  <2> QED BY <2>1, <2>2, <2>3, Zenon DEF ReadUint16
<1>5. ASSUME Len(q) >= 2 PROVE ReadItemFromBuffer(q, 2) \in Nat
  <2>0. q[1] \in Nat /\ q[2] \in Nat /\ 2 \in 0..8
    BY <1>5 DEF Bytes
  <2>1. PICK g : /\ g = [i \in 0..2 |-> IF i = 0 THEN 0 ELSE g[i - 1] + q[i] * Pow(i - 1)]
                 /\ ReadItemFromBuffer(q, 2) = g[2]
    BY <2>0, BufferSum, Zenon
  <2>2. g[0] = 0 /\ g[1] = g[0] + q[1] * Pow(0) /\ g[2] = g[1] + q[2] * Pow(1)
    BY <2>1
  <2>3. g[1] \in Nat
    BY <1>1, <2>0, <2>2
  <2>4. g[1] + q[2] * Base \in Nat
    BY <1>2, <2>0, <2>3, Zenon
  <2> QED BY <1>1, <2>1, <2>2, <2>4, Zenon
<1> QED BY <1>4, <1>5

-----------------------------------------------------------------------------
LEMMA Minus == ASSUME NEW n \in Nat, NEW r \in Nat, n <= r PROVE r - n \in Nat /\ (r - n) + n = r
OBVIOUS

\* cut says where in b each of the sequences es ends, one after the other.
Cuts(b, es, cut) ==
    /\ cut \in [0..Len(es) -> Nat]
    /\ cut[0] = 0 /\ cut[Len(es)] = Len(b)
    /\ \A i \in 1..Len(es) : cut[i] = cut[i - 1] + Len(es[i])
    /\ \A i \in 1..Len(es) : cut[1] <= cut[i] /\ cut[i] <= Len(b)
    /\ \A i \in 1..Len(es) : \A j \in 1..Len(es[i]) : b[cut[i - 1] + j] = es[i][j]
Glued(b, es) == \E cut : Cuts(b, es, cut)

LEMMA ConcatOfBytes ==
    ASSUME NEW r \in Seq(Bytes), NEW s \in Seq(Bytes), NEW t \in Seq(Bytes), Len(r) = Len(s) + Len(t),
           \A i \in 1..Len(s) : r[i] = s[i], \A i \in 1..Len(t) : r[Len(s) + i] = t[i]
    PROVE  r = s \o t
BY ConcatIs

LEMMA GluedNone ==
    ASSUME NEW b \in Seq(Bytes)
    PROVE  Glued(b, << >>) <=> b = << >>
<1>1. ASSUME NEW cut, Cuts(b, << >>, cut) PROVE b = << >>
  BY <1>1 DEF Cuts
<1>2. ASSUME b = << >> PROVE Cuts(b, << >>, [i \in 0..0 |-> 0])
  BY <1>2 DEF Cuts
<1> QED BY <1>1, <1>2 DEF Glued

LEMMA GluedOne ==
    ASSUME NEW e \in Seq(Bytes)
    PROVE  Glued(e, <<e>>)
<1> DEFINE cut == [i \in 0..1 |-> IF i = 0 THEN 0 ELSE Len(e)]
<1>1. Len(<<e>>) = 1 /\ <<e>>[1] = e
  OBVIOUS
<1>2. cut \in [0..1 -> Nat] /\ cut[0] = 0 /\ cut[1] = Len(e)
  OBVIOUS
<1> HIDE DEF cut
<1>3. Cuts(e, <<e>>, cut)
  BY <1>1, <1>2 DEF Cuts
<1> QED BY <1>3 DEF Glued

LEMMA GluedConcat ==
    ASSUME NEW b \in Seq(Bytes), NEW c \in Seq(Bytes),
           NEW es \in Seq(Seq(Bytes)), NEW fs \in Seq(Seq(Bytes)), Glued(b, es), Glued(c, fs)
    PROVE  Glued(b \o c, es \o fs)
<1>3. PICK m \in Nat : m = Len(es)
  OBVIOUS
<1>4. PICK n \in Nat : n = Len(fs)
  OBVIOUS
<1>5. PICK k \in Nat : k = Len(b)
  OBVIOUS
<1>6. PICK l \in Nat : l = Len(c)
  OBVIOUS
<1>7. PICK d \in Seq(Bytes) : d = b \o c
  BY ConcatProperties
<1>8. PICK gs \in Seq(Seq(Bytes)) : gs = es \o fs
  BY ConcatProperties
<1>9. Len(d) = k + l /\ (\A j \in 1..k : d[j] = b[j]) /\ \A j \in 1..l : d[k + j] = c[j]
  BY <1>5, <1>6, <1>7, ConcatProperties
<1>10. Len(gs) = m + n /\ (\A j \in 1..m : gs[j] = es[j]) /\ \A j \in 1..n : gs[m + j] = fs[j]
  BY <1>3, <1>4, <1>8, ConcatProperties
<1>11. PICK x \in [0..m -> Nat] :
          /\ x[0] = 0 /\ x[m] = k
          /\ \A i \in 1..m : x[i] = x[i - 1] + Len(es[i]) /\ x[1] <= x[i] /\ x[i] <= k
          /\ \A i \in 1..m : \A j \in 1..Len(es[i]) : b[x[i - 1] + j] = es[i][j]
  BY <1>3, <1>5, Zenon DEF Glued, Cuts
<1>12. PICK y \in [0..n -> Nat] :
          /\ y[0] = 0 /\ y[n] = l
          /\ \A i \in 1..n : y[i] = y[i - 1] + Len(fs[i]) /\ y[1] <= y[i] /\ y[i] <= l
          /\ \A i \in 1..n : \A j \in 1..Len(fs[i]) : c[y[i - 1] + j] = fs[i][j]
  BY <1>4, <1>6, Zenon DEF Glued, Cuts
<1>13. PICK cut \in [0..(m + n) -> Nat] :
          /\ \A i \in 0..m : cut[i] = x[i]
          /\ \A i \in 0..n : cut[m + i] = k + y[i]
  <2> DEFINE f == [i \in 0..(m + n) |-> IF i <= m THEN x[i] ELSE k + y[i - m]]
  <2>1. f \in [0..(m + n) -> Nat]
    <3>1. ASSUME NEW i \in 0..(m + n), i <= m PROVE x[i] \in Nat
      <4>1. i \in 0..m
        BY <3>1
      <4> QED BY <4>1
    <3>2. ASSUME NEW i \in 0..(m + n), ~ (i <= m) PROVE k + y[i - m] \in Nat
      <4>1. i - m \in 0..n
        BY <3>2
      <4>2. PICK z \in Nat : z = y[i - m]
        BY <4>1
      <4>3. k + z \in Nat
        OBVIOUS
      <4> QED BY <4>2, <4>3, Zenon
    <3>3. \A i \in 0..(m + n) : (IF i <= m THEN x[i] ELSE k + y[i - m]) \in Nat
      BY <3>1, <3>2, Zenon
    <3> QED BY <3>3, Zenon
  <2>2. \A i \in 0..m : f[i] = x[i]
    OBVIOUS
  <2>3. ASSUME NEW i \in 0..n PROVE f[m + i] = k + y[i]
    <3>1. m + i \in 0..(m + n) /\ m + i - m = i /\ (m + i <= m <=> i = 0)
      OBVIOUS
    <3>2. CASE i = 0
      BY <1>11, <1>12, <3>2
    <3>3. CASE i # 0
      BY <3>1, <3>3
    <3> QED BY <3>2, <3>3
  <2> HIDE DEF f
  <2> QED BY <2>1, <2>2, <2>3
<1>16. ASSUME NEW i \in 1..(m + n)
       PROVE  /\ cut[i] = cut[i - 1] + Len(gs[i]) /\ cut[1] <= cut[i] /\ cut[i] <= Len(d)
              /\ \A j \in 1..Len(gs[i]) : d[cut[i - 1] + j] = gs[i][j]
  <2>1. CASE i <= m
    <3>1. i \in 1..m /\ i \in 0..m /\ i - 1 \in 0..m /\ 1 \in 0..m
      BY <2>1
    <3>2. PICK e \in Seq(Bytes) : e = es[i]
      BY <1>3, <3>1
    <3>3. PICK p \in Nat : p = x[i - 1]
      BY <3>1
    <3>4. PICK r \in Nat : r = x[i]
      BY <3>1
    <3>5. PICK z \in Nat : z = x[1]
      BY <3>1
    <3>6. gs[i] = e /\ cut[i] = r /\ cut[i - 1] = p /\ cut[1] = z
      BY <1>10, <1>13, <3>1, <3>2, <3>3, <3>4, <3>5, Zenon
    <3>7. r = p + Len(e) /\ z <= r /\ r <= k
      BY <1>11, <3>1, <3>2, <3>3, <3>4, <3>5, Zenon
    <3>8. \A j \in 1..Len(e) : b[p + j] = e[j]
      BY <1>11, <3>1, <3>2, <3>3, Zenon
    <3>9. \A j \in 1..Len(e) : d[p + j] = e[j]
      <4> SUFFICES ASSUME NEW j \in 1..Len(e) PROVE d[p + j] = e[j]
        OBVIOUS
      <4>1. p + j \in 1..k
        BY <3>7
      <4> QED BY <1>9, <3>8, <4>1, Zenon
    <3>10. r <= Len(d)
      BY <1>9, <3>7
    <3> QED BY <3>6, <3>7, <3>9, <3>10, Zenon
  <2>2. CASE i > m
    <3>1. PICK h \in 1..n : i = m + h
      <4>1. i - m \in 1..n /\ i = m + (i - m)
        BY <2>2
      <4> QED BY <4>1
    <3>2. h \in 0..n /\ h - 1 \in 0..n /\ i - 1 = m + (h - 1) /\ 1 \in 1..n /\ 1 \in 0..n
      BY <3>1
    <3>3. PICK e \in Seq(Bytes) : e = fs[h]
      BY <1>4
    <3>4. PICK p \in Nat : p = y[h - 1]
      BY <3>2
    <3>5. PICK r \in Nat : r = y[h]
      BY <3>2
    <3>6. gs[i] = e /\ cut[i] = k + r /\ cut[i - 1] = k + p
      BY <1>10, <1>13, <3>1, <3>2, <3>3, <3>4, <3>5, Zenon
    <3>7. r = p + Len(e) /\ r <= l /\ y[1] <= r
      BY <1>12, <3>3, <3>4, <3>5, Zenon
    <3>8. cut[1] <= k + r
      <4>1. CASE m = 0
        <5>1. m + 1 = 1
          BY <4>1
        <5>2. cut[m + 1] = k + y[1]
          BY <1>13, <3>2, Zenon
        <5>3. PICK z \in Nat : z = y[1]
          BY <3>2
        <5> QED BY <3>7, <5>1, <5>2, <5>3
      <4>2. CASE m > 0
        <5>1. 1 \in 1..m /\ 1 \in 0..m
          BY <4>2
        <5>2. PICK z \in Nat : z = x[1]
          BY <5>1
        <5>3. cut[1] = z /\ z <= k
          BY <1>11, <1>13, <5>1, <5>2, Zenon
        <5> QED BY <5>3
      <4> QED BY <4>1, <4>2
    <3>9. \A j \in 1..Len(e) : c[p + j] = e[j]
      BY <1>12, <3>3, <3>4, Zenon
    <3>10. ASSUME NEW j \in 1..Len(e) PROVE d[k + p + j] = e[j]
      <4>1. p + j \in 1..l /\ k + p + j = k + (p + j)
        BY <3>7
      <4> QED BY <1>9, <3>9, <4>1
    <3>11. k + r = (k + p) + Len(e) /\ k + r <= Len(d)
      <4>1. Len(d) = k + l /\ Len(e) \in Nat
        BY <1>9
      <4> QED BY <3>7, <4>1
    <3> QED BY <3>6, <3>8, <3>10, <3>11, Zenon
  <2> QED BY <2>1, <2>2
<1>17. cut[0] = 0 /\ cut[m + n] = Len(d)
  <2>1. 0 \in 0..m /\ n \in 0..n
    OBVIOUS
  <2>2. cut[0] = x[0] /\ cut[m + n] = k + y[n]
    BY <1>13, <2>1, Zenon
  <2> QED BY <1>9, <1>11, <1>12, <2>2, Zenon
<1>18. Len(gs) = m + n
  BY <1>10
<1>19. Cuts(d, gs, cut)
  BY <1>16, <1>17, <1>18, Zenon DEF Cuts
<1> QED BY <1>7, <1>8, <1>19 DEF Glued

\* The first of the sequences is at the front; the others remain behind it.
LEMMA GluedTail ==
    ASSUME NEW b \in Seq(Bytes), NEW es \in Seq(Seq(Bytes)), es # << >>, Glued(b, es)
    PROVE  /\ Head(es) \in Seq(Bytes) /\ At(b, 1, Head(es)) /\ Len(Head(es)) <= Len(b)
           /\ SubSeq(b, Len(Head(es)) + 1, Len(b)) \in Seq(Bytes)
           /\ Glued(SubSeq(b, Len(Head(es)) + 1, Len(b)), Tail(es))
<1>0. PICK l \in Nat : l = Len(es)
  OBVIOUS
<1>1. PICK m \in Nat : l = m + 1
  <2>1. l # 0
    BY <1>0, EmptySeq
  <2>2. l - 1 \in Nat /\ l = l - 1 + 1
    BY <2>1
  <2> QED BY <2>2
<1>2. PICK k \in Nat : k = Len(b)
  OBVIOUS
<1>3. PICK x \in [0..l -> Nat] :
          /\ x[0] = 0 /\ x[l] = k
          /\ \A i \in 1..l : x[i] = x[i - 1] + Len(es[i]) /\ x[1] <= x[i] /\ x[i] <= k
          /\ \A i \in 1..l : \A j \in 1..Len(es[i]) : b[x[i - 1] + j] = es[i][j]
  BY <1>0, <1>2, Zenon DEF Glued, Cuts
<1>4. PICK e \in Seq(Bytes) : e = es[1] /\ e = Head(es)
  BY <1>0, <1>1
<1>5. PICK n \in Nat : n = Len(e)
  OBVIOUS
<1>6. 1 \in 1..l /\ 1 - 1 = 0
  BY <1>1
<1>7. x[1] = n /\ n <= k /\ \A j \in 1..n : b[j] = e[j]
  <2>1. x[1] = x[0] + n /\ x[1] <= k
    BY <1>3, <1>4, <1>5, <1>6, Zenon
  <2>2. \A j \in 1..Len(es[1]) : b[x[1 - 1] + j] = es[1][j]
    BY <1>3, <1>6, Zenon
  <2>3. x[0] = 0
    BY <1>3, Zenon
  <2>4. \A j \in 1..n : b[0 + j] = e[j]
    BY <1>4, <1>5, <1>6, <2>2, <2>3, Zenon
  <2> QED BY <2>1, <2>3, <2>4
<1>8. PICK c \in Seq(Bytes) : c = SubSeq(b, n + 1, k) /\ Len(c) = k - n /\ \A j \in 1..(k - n) : c[j] = b[n + j]
  <2>1. \A j \in (n + 1)..k : b[j] \in Bytes
    BY <1>2
  <2>2. n + 1 \in Int /\ k \in Int
    OBVIOUS
  <2>3. /\ SubSeq(b, n + 1, k) \in Seq(Bytes)
        /\ Len(SubSeq(b, n + 1, k)) = IF n + 1 <= k THEN k - (n + 1) + 1 ELSE 0
        /\ \A i \in 1..k - (n + 1) + 1 : SubSeq(b, n + 1, k)[i] = b[(n + 1) + i - 1]
    BY <2>1, <2>2, SubSeqProperties
  <2>4. PICK c \in Seq(Bytes) : c = SubSeq(b, n + 1, k)
    BY <2>3
  <2>5. Len(c) = k - n
    BY <1>7, <2>3, <2>4
  <2>6. ASSUME NEW j \in 1..(k - n) PROVE c[j] = b[n + j]
    <3>1. j \in 1..k - (n + 1) + 1 /\ (n + 1) + j - 1 = n + j
      OBVIOUS
    <3> QED BY <2>3, <2>4, <3>1, Zenon
  <2> QED BY <2>4, <2>5, <2>6
<1>9. PICK fs \in Seq(Seq(Bytes)) : fs = Tail(es) /\ Len(fs) = m /\ \A i \in 1..m : fs[i] = es[i + 1]
  <2>1. /\ Tail(es) \in Seq(Seq(Bytes)) /\ Len(Tail(es)) = Len(es) - 1
        /\ \A i \in 1..Len(Tail(es)) : Tail(es)[i] = es[i + 1]
    BY HeadTailProperties, Zenon
  <2>2. Len(es) - 1 = m
    BY <1>0, <1>1
  <2>3. Tail(es) \in Seq(Seq(Bytes)) /\ Len(Tail(es)) = m /\ \A i \in 1..m : Tail(es)[i] = es[i + 1]
    BY <2>1, <2>2, Zenon
  <2> QED BY <2>3
<1>10. PICK cut \in [0..m -> Nat] : \A i \in 0..m : cut[i] + n = x[i + 1]
  <2>1. \A i \in 0..m : x[i + 1] - n \in Nat /\ (x[i + 1] - n) + n = x[i + 1]
    <3> SUFFICES ASSUME NEW i \in 0..m PROVE x[i + 1] - n \in Nat /\ (x[i + 1] - n) + n = x[i + 1]
      OBVIOUS
    <3>1. i + 1 \in 1..l /\ i + 1 \in 0..l
      BY <1>1
    <3>2. n <= x[i + 1]
      BY <1>3, <1>7, <3>1, Zenon
    <3>3. PICK r \in Nat : r = x[i + 1]
      BY <3>1
    <3>4. n <= r
      BY <3>2, <3>3, Zenon
    <3>5. r - n \in Nat /\ (r - n) + n = r
      BY <3>4, Minus, Zenon
    <3> QED BY <3>3, <3>5, Zenon
  <2> DEFINE f == [i \in 0..m |-> x[i + 1] - n]
  <2>2. f \in [0..m -> Nat] /\ \A i \in 0..m : f[i] + n = x[i + 1]
    BY <2>1
  <2> HIDE DEF f
  <2> QED BY <2>2
<1>11. cut[0] = 0 /\ cut[m] = k - n
  <2>1. 0 \in 0..m /\ m \in 0..m /\ 0 + 1 = 1
    OBVIOUS
  <2>2. cut[0] + n = n /\ cut[m] + n = k
    BY <1>1, <1>3, <1>7, <1>10, <2>1, Zenon
  <2>3. PICK s \in Nat : s = cut[0]
    BY <2>1
  <2>4. PICK t \in Nat : t = cut[m]
    BY <2>1
  <2>5. s + n = n /\ t + n = k
    BY <2>2, <2>3, <2>4, Zenon
  <2>6. s = 0 /\ t = k - n
    BY <2>5
  <2> QED BY <2>3, <2>4, <2>6, Zenon
<1>12. ASSUME NEW i \in 1..m
       PROVE  /\ cut[i] = cut[i - 1] + Len(fs[i]) /\ cut[1] <= cut[i] /\ cut[i] <= k - n
              /\ \A j \in 1..Len(fs[i]) : c[cut[i - 1] + j] = fs[i][j]
  <2>1. i + 1 \in 1..l /\ i + 1 - 1 = i /\ i - 1 + 1 = i /\ i \in 0..m /\ i - 1 \in 0..m /\ 1 \in 0..m
    BY <1>1
  <2>2. PICK p \in Nat : p = cut[i - 1]
    BY <2>1
  <2>3. PICK r \in Nat : r = cut[i]
    BY <2>1
  <2>4. PICK z \in Nat : z = cut[1]
    BY <2>1
  <2>5. PICK g \in Seq(Bytes) : g = fs[i]
    <3>1. i \in 1..Len(fs)
      BY <1>9
    <3> QED BY <3>1, ElementOfSeq
  <2>6. x[i] = p + n /\ x[i + 1] = r + n
    BY <1>10, <2>1, <2>2, <2>3, Zenon
  <2>7. x[i + 1] = x[i] + Len(g) /\ x[i + 1] <= k /\ \A j \in 1..Len(g) : b[x[i] + j] = g[j]
    <3>1. PICK u \in 1..l : u = i + 1 /\ u - 1 = i
      BY <2>1
    <3>2. x[u] = x[u - 1] + Len(es[u]) /\ x[u] <= k /\ \A j \in 1..Len(es[u]) : b[x[u - 1] + j] = es[u][j]
      BY <1>3, Zenon
    <3>3. es[u] = g
      BY <1>9, <2>5, <3>1, Zenon
    <3> QED BY <3>1, <3>2, <3>3, Zenon
  <2>8. r = p + Len(g) /\ r <= k - n /\ Len(g) \in Nat
    <3>1. r + n = (p + n) + Len(g) /\ r + n <= k
      BY <2>6, <2>7, Zenon
    <3>2. PICK u \in Nat : u = Len(g)
      OBVIOUS
    <3>3. r + n = (p + n) + u
      BY <3>1, <3>2, Zenon
    <3>4. r = p + u /\ r <= k - n
      BY <3>1, <3>3
    <3> QED BY <3>2, <3>4, Zenon
  <2>9. z <= r
    <3>1. CASE i = 1
      BY <2>3, <2>4, <3>1
    <3>2. CASE i # 1
      \* the cuts after the first never go back
      <4> DEFINE T == {h \in 0..m : h >= 1 => cut[1] <= cut[h]}
      <4>1. 0 \in T
        OBVIOUS
      <4>2. ASSUME NEW h \in 1..m, h - 1 \in T PROVE h \in T
        <5>1. CASE h = 1
          BY <5>1
        <5>2. CASE h # 1
          <6>1. h - 1 \in 0..m /\ h \in 0..m /\ h - 1 >= 1 /\ h + 1 \in 1..l /\ h - 1 + 1 = h /\ h + 1 - 1 = h
            BY <1>1, <5>2
          <6>2. cut[1] <= cut[h - 1]
            BY <4>2, <6>1
          <6>3. PICK s \in Nat : s = cut[h - 1]
            BY <6>1
          <6>4. PICK t \in Nat : t = cut[h]
            BY <6>1
          <6>5. x[h] = s + n /\ x[h + 1] = t + n
            BY <1>10, <6>1, <6>3, <6>4, Zenon
          <6>6. PICK u \in 1..l : u = h + 1 /\ u - 1 = h
            BY <6>1
          <6>7. PICK v \in Nat : v = Len(es[u])
            BY <1>0
          <6>8. s <= t
            <7>1. x[u] = x[u - 1] + v
              BY <1>3, <6>7, Zenon
            <7>2. t + n = (s + n) + v
              BY <6>5, <6>6, <7>1, Zenon
            <7> QED BY <7>2
          <6>9. cut[1] <= cut[h]
            BY <2>4, <6>2, <6>3, <6>4, <6>8
          <6> QED BY <6>1, <6>9
        <5> QED BY <5>1, <5>2
      <4>3. 0..m \subseteq T
        <5> HIDE DEF T
        <5> QED BY <4>1, <4>2, UpTo, Zenon
      <4>4. cut[1] <= cut[i]
        BY <2>1, <4>3
      <4> QED BY <2>3, <2>4, <4>4
    <3> QED BY <3>1, <3>2
  <2>10. ASSUME NEW j \in 1..Len(g) PROVE c[p + j] = g[j]
    <3>1. p + j \in 1..(k - n) /\ n + (p + j) = (p + n) + j
      BY <2>8
    <3>2. c[p + j] = b[n + (p + j)]
      BY <1>8, <3>1, Zenon
    <3> QED BY <2>6, <2>7, <3>1, <3>2, Zenon
  <2> QED BY <2>2, <2>3, <2>4, <2>5, <2>8, <2>9, <2>10, Zenon
<1>13. Cuts(c, fs, cut)
  BY <1>8, <1>9, <1>11, <1>12, Zenon DEF Cuts
<1>14. Glued(c, fs)
  BY <1>13 DEF Glued
<1>15. At(b, 1, e)
  BY <1>2, <1>5, <1>7 DEF At
<1> QED BY <1>2, <1>4, <1>5, <1>7, <1>8, <1>9, <1>14, <1>15, Zenon

\* Where the sequences lie one after the other, they are flattened.
LEMMA GluedFlat ==
    ASSUME NEW b \in Seq(Bytes), NEW es \in Seq(Seq(Bytes)), Glued(b, es)
    PROVE  b = FlattenSeq(es)
<1>1. CASE es = << >>
  <2>1. b = << >>
    BY <1>1, GluedNone
  <2>2. Len(es) = 0
    BY <1>1
  <2> QED BY <1>1, <2>1, <2>2, Zenon DEF FlattenSeq
<1>2. CASE es # << >>
  <2>1. PICK m \in Nat : m = Len(es)
    OBVIOUS
  <2>2. m # 0
    BY <1>2, <2>1, EmptySeq
  <2>3. PICK k \in Nat : k = Len(b)
    OBVIOUS
  <2>4. PICK x \in [0..m -> Nat] :
          /\ x[0] = 0 /\ x[m] = k
          /\ \A i \in 1..m : x[i] = x[i - 1] + Len(es[i]) /\ x[i] <= k
          /\ \A i \in 1..m : \A j \in 1..Len(es[i]) : b[x[i - 1] + j] = es[i][j]
    BY <2>1, <2>3, Zenon DEF Glued, Cuts
  <2> DEFINE f == [i \in 0..m |-> SubSeq(b, 1, x[i])]
  <2>5. ASSUME NEW n \in 0..k
        PROVE  /\ SubSeq(b, 1, n) \in Seq(Bytes) /\ Len(SubSeq(b, 1, n)) = n
               /\ \A j \in 1..n : SubSeq(b, 1, n)[j] = b[j]
    BY <2>3
  <2>6. \A i \in 0..m : x[i] \in 0..k
    <3>1. x[0] \in 0..k
      BY <2>4
    <3>2. ASSUME NEW i \in 1..m PROVE x[i] \in 0..k
      BY <2>4
    <3> QED BY <3>1, <3>2
  <2>7. ASSUME NEW i \in 1..m PROVE f[i] = f[i - 1] \o es[i]
    <3>1. i \in 0..m /\ i - 1 \in 0..m
      OBVIOUS
    <3>2. PICK p \in 0..k : p = x[i - 1]
      BY <2>6, <3>1
    <3>3. PICK r \in 0..k : r = x[i]
      BY <2>6, <3>1
    <3>4. PICK e \in Seq(Bytes) : e = es[i]
      BY <2>1
    <3>5. r = p + Len(e) /\ \A j \in 1..Len(e) : b[p + j] = e[j]
      BY <2>4, <3>2, <3>3, <3>4, Zenon
    <3>6. PICK s \in Seq(Bytes) : s = SubSeq(b, 1, p) /\ Len(s) = p /\ \A j \in 1..p : s[j] = b[j]
      BY <2>5, Zenon
    <3>7. PICK t \in Seq(Bytes) : t = SubSeq(b, 1, r) /\ Len(t) = r /\ \A j \in 1..r : t[j] = b[j]
      BY <2>5, Zenon
    <3>8. Len(t) = Len(s) + Len(e)
      BY <3>5, <3>6, <3>7, Zenon
    <3>9. \A j \in 1..Len(s) : t[j] = s[j]
      BY <3>5, <3>6, <3>7
    <3>10. \A j \in 1..Len(e) : t[Len(s) + j] = e[j]
      <4> SUFFICES ASSUME NEW j \in 1..Len(e) PROVE t[Len(s) + j] = e[j]
        OBVIOUS
      <4>1. p + j \in 1..r
        BY <3>5
      <4> QED BY <3>5, <3>6, <3>7, <4>1, Zenon
    <3>11. t = s \o e
      BY <3>8, <3>9, <3>10, ConcatOfBytes
    <3>12. f[i] = t /\ f[i - 1] = s
      BY <3>1, <3>2, <3>3, <3>6, <3>7, Zenon
    <3> QED BY <3>4, <3>11, <3>12, Zenon
  <2>8. f[0] = << >> /\ f[m] = b /\ f \in [0..m -> Seq(Bytes)]
    <3>1. f[0] = SubSeq(b, 1, 0) /\ f[m] = SubSeq(b, 1, k)
      BY <2>4
    <3>2. f \in [0..m -> Seq(Bytes)]
      BY <2>5, <2>6
    <3>3. SubSeq(b, 1, 0) = << >> /\ SubSeq(b, 1, k) = b
      BY <2>3
    <3> QED BY <3>1, <3>2, <3>3, Zenon
  <2> HIDE DEF f
  <2>9. f[1] = es[1]
    <3>1. 1 \in 1..m /\ 1 - 1 = 0
      BY <2>2
    <3>2. es[1] \in Seq(Bytes)
      BY <2>1, <3>1
    <3>3. << >> \o es[1] = es[1]
      BY <3>2
    <3> QED BY <2>7, <2>8, <3>1, <3>3, Zenon
  <2> DEFINE h == [i \in 1..m |-> f[i]]
  <2>10. h = [i \in 1..m |-> IF i = 1 THEN es[i] ELSE h[i - 1] \o es[i]]
    <3>1. ASSUME NEW i \in 1..m PROVE f[i] = IF i = 1 THEN es[i] ELSE h[i - 1] \o es[i]
      <4>1. CASE i = 1
        BY <2>9, <4>1
      <4>2. CASE i # 1
        <5>1. i - 1 \in 1..m
          BY <4>2
        <5>2. h[i - 1] = f[i - 1]
          BY <5>1
        <5> QED BY <2>7, <4>2, <5>2, Zenon
      <4> QED BY <4>1, <4>2
    <3> QED BY <3>1, Zenon
  <2>11. \E g : g = [i \in 1..m |-> IF i = 1 THEN es[i] ELSE g[i - 1] \o es[i]]
    <3> HIDE DEF h
    <3> QED BY <2>10, Zenon
  <2>12. PICK g : /\ g = [i \in 1..m |-> IF i = 1 THEN es[i] ELSE g[i - 1] \o es[i]]
                  /\ FlattenSeq(es) = g[m]
    <3>1. Len(es) # 0
      BY <2>1, <2>2
    <3> QED BY <2>1, <2>11, <3>1, Zenon DEF FlattenSeq
  <2>13. \A i \in 1..m : g[i] = IF i = 1 THEN es[i] ELSE g[i - 1] \o es[i]
    BY <2>12, Zenon
  <2> DEFINE T == {i \in 0..m : i = 0 \/ g[i] = f[i]}
  <2>14. 0 \in T
    OBVIOUS
  <2>15. ASSUME NEW i \in 1..m, i - 1 \in T PROVE i \in T
    <3>1. CASE i = 1
      <4>1. g[1] = es[1]
        BY <2>13, <3>1
      <4> QED BY <2>9, <3>1, <4>1
    <3>2. CASE i # 1
      <4>1. g[i - 1] = f[i - 1]
        BY <2>15, <3>2
      <4>2. g[i] = g[i - 1] \o es[i]
        BY <2>13, <3>2, Zenon
      <4>3. g[i] = f[i]
        BY <2>7, <4>1, <4>2, Zenon
      <4> QED BY <4>3
    <3> QED BY <3>1, <3>2
  <2>16. 0..m \subseteq T
    <3> HIDE DEF T
    <3> QED BY <2>14, <2>15, UpTo, Zenon
  <2>17. g[m] = f[m]
    BY <2>2, <2>16
  <2> QED BY <2>8, <2>12, <2>17, Zenon
<1> QED BY <1>1, <1>2

-----------------------------------------------------------------------------
LEMMA BitsOf ==
    ASSUME Base \in Nat \ {0}, NEW w \in 1..8, NEW signed \in BOOLEAN, NEW u \in 0..(Pow(w) - 1)
    PROVE  /\ FromBits(u, w, signed) \in Int
           /\ FromBits(u, w, signed) % Pow(w) = u
           /\ ToBits(FromBits(u, w, signed), w) = u
           /\ FromBits(0, w, signed) = 0
<1>1. PICK p \in Nat \ {0} : p = Pow(w)
  <2>1. w \in 0..8
    OBVIOUS
  <2> QED BY <2>1, PowerIs, Zenon
<1>2. u \in 0..(p - 1)
  BY <1>1
<1>3. u % p = u
  BY <1>2, SmallMod, Zenon
<1>4. (u - p) % p = u
  <2>1. u - p = (-1) * p + u /\ -1 \in Int /\ u - p \in Int
    BY <1>2
  <2> QED BY <1>2, <2>1, Euclid, Zenon
<1>5. FromBits(u, w, signed) \in {u, u - p}
  BY <1>1, Zenon DEF FromBits, Pow
<1>6. FromBits(u, w, signed) \in Int
  BY <1>2, <1>5
<1>7. FromBits(u, w, signed) % p = u
  BY <1>3, <1>4, <1>5
<1>8. FromBits(0, w, signed) = 0
  BY <1>1 DEF FromBits, Pow
<1> QED BY <1>1, <1>6, <1>7, <1>8, Zenon DEF ToBits, Pow

IsNumber(x) ==
    \E w \in Widths, signed \in BOOLEAN, order \in Orders : \E u \in 0..(Pow(w) - 1) :
       x = <<<<w, signed>>, FromBits(u, w, signed), order>>
IsText(x) == \E s \in Seq(Bytes), order \in Orders : Len(s) < Pow(2) /\ x = <<Text, s, order>>

\* The items that a serializer can have written.
ItemSet ==
    {x \in (Numbers \cup {Text}) \X (Int \cup Seq(Bytes)) \X Orders : IsNumber(x) \/ IsText(x)}

LEMMA NumberEncodes ==
    ASSUME Base \in Nat \ {0}, NEW w \in Widths, NEW signed \in BOOLEAN, NEW order \in Orders,
           NEW u \in 0..(Pow(w) - 1)
    PROVE  /\ <<w, signed>> # Text
           /\ Encoding(<<<<w, signed>>, FromBits(u, w, signed), order>>) = Image(u, w, order)
<1>1. w \in 1..8 /\ w # 0
  BY DEF Widths
<1>2. PICK v \in Int : v = FromBits(u, w, signed) /\ v % Pow(w) = u
  BY <1>1, BitsOf, Zenon
<1>3. PICK x : x = <<<<w, signed>>, v, order>>
  OBVIOUS
<1>4. x[1] = <<w, signed>> /\ x[2] = v /\ x[3] = order /\ x[1][1] = w
  BY <1>3
<1>5. <<w, signed>> # Text
  <2>1. <<w, signed>>[1] = w /\ <<0, FALSE>>[1] = 0
    BY Zenon
  <2> QED BY <1>1, <2>1, Zenon DEF Text
<1>6. Encoding(x) = Image(u, w, order)
  BY <1>2, <1>4, <1>5, Zenon DEF Encoding, Pow
<1> QED BY <1>2, <1>3, <1>5, <1>6, Zenon

LEMMA NumberItem ==
    ASSUME Base \in Nat \ {0}, NEW w \in Widths, NEW signed \in BOOLEAN, NEW order \in Orders,
           NEW u \in 0..(Pow(w) - 1), NEW x, x = <<<<w, signed>>, FromBits(u, w, signed), order>>
    PROVE  /\ x \in ItemSet /\ x[1] # Text /\ x[1] = <<w, signed>> /\ x[3] = order
           /\ x[2] = FromBits(u, w, signed)
           /\ Encoding(x) = Image(u, w, order)
           /\ Encoding(x) \in Seq(Bytes) /\ Len(Encoding(x)) = w
<1>1. w \in 1..8
  BY DEF Widths
<1>2. PICK v \in Int : v = FromBits(u, w, signed) /\ v % Pow(w) = u
  BY <1>1, BitsOf, Zenon
<1>3. x = <<<<w, signed>>, v, order>>
  BY <1>2
<1>4. x[1] = <<w, signed>> /\ x[2] = v /\ x[3] = order /\ x[1][1] = w
  BY <1>3
<1>6. x[1] # Text
  BY <1>4, NumberEncodes, Zenon
<1>7. Encoding(x) = Image(u, w, order)
  BY NumberEncodes, Zenon
<1>8. u \in Nat
  BY <1>1, PowerIs
<1>9. Image(u, w, order) \in Seq(Bytes) /\ Len(Image(u, w, order)) = w
  BY <1>1, <1>8, ImageIs, Zenon
<1>10. <<w, signed>> \in Numbers
  BY Zenon DEF Numbers
<1>11. x \in (Numbers \cup {Text}) \X (Int \cup Seq(Bytes)) \X Orders
  <2>1. <<w, signed>> \in Numbers \cup {Text} /\ v \in Int \cup Seq(Bytes)
    BY <1>10, Zenon
  <2>2. PICK t : t = <<w, signed>>
    OBVIOUS
  <2>3. x = <<t, v, order>> /\ t \in Numbers \cup {Text}
    BY <1>3, <2>1, <2>2, Zenon
  <2> QED BY <2>1, <2>3
<1>12. x \in ItemSet
  BY <1>11, Zenon DEF ItemSet, IsNumber
<1> QED BY <1>2, <1>4, <1>6, <1>7, <1>9, <1>12, Zenon

LEMMA TextItem ==
    ASSUME Base \in Nat \ {0}, NEW s \in Seq(Bytes), NEW order \in Orders, Len(s) < Pow(2),
           NEW x, x = <<Text, s, order>>
    PROVE  /\ x \in ItemSet /\ x[1] = Text /\ x[2] = s /\ x[3] = order
           /\ Len(s) \in 0..(Pow(2) - 1)
           /\ Image(Len(s), 2, order) \in Seq(Bytes) /\ Len(Image(Len(s), 2, order)) = 2
           /\ Encoding(x) = Image(Len(s), 2, order) \o s
           /\ Encoding(x) \in Seq(Bytes) /\ Len(Encoding(x)) = 2 + Len(s)
<1>1. x[1] = Text /\ x[2] = s /\ x[3] = order
  BY Zenon
<1>2. PICK n \in Nat : n = Len(s)
  OBVIOUS
<1>3. n \in 0..(Pow(2) - 1)
  <2>1. 2 \in 0..8
    OBVIOUS
  <2>2. Pow(2) \in Nat
    BY <2>1, PowerIs
  <2> QED BY <1>2, <2>2
<1>4. PICK i \in Seq(Bytes) : i = Image(n, 2, order) /\ Len(i) = 2
  <2>1. 2 \in 1..8
    OBVIOUS
  <2> QED BY <2>1, ImageIs, Zenon
<1>5. i \o s \in Seq(Bytes) /\ Len(i \o s) = Len(i) + Len(s)
  BY ConcatProperties
<1>6. Encoding(x) = i \o s
  BY <1>1, <1>2, <1>4, Zenon DEF Encoding
<1>7. x \in (Numbers \cup {Text}) \X (Int \cup Seq(Bytes)) \X Orders
  <2>1. Text \in Numbers \cup {Text} /\ s \in Int \cup Seq(Bytes)
    BY Zenon
  <2> QED BY <2>1, Zenon
<1>8. x \in ItemSet
  BY <1>7, Zenon DEF ItemSet, IsText
<1> QED BY <1>1, <1>2, <1>3, <1>4, <1>5, <1>6, <1>8, Zenon

-----------------------------------------------------------------------------
Encs(p) == [i \in 1..Len(p) |-> Encoding(p[i])]

\* The bytes b are those of the items p.
Holds(b, p) == Glued(b, Encs(p))

LEMMA ItemEncodes ==
    ASSUME Base \in Nat \ {0}, NEW x \in ItemSet
    PROVE  Encoding(x) \in Seq(Bytes)
<1>1. IsNumber(x) \/ IsText(x)
  BY Zenon DEF ItemSet
<1>2. CASE IsNumber(x)
  <2>1. PICK w \in Widths, signed \in BOOLEAN, order \in Orders :
           \E u \in 0..(Pow(w) - 1) : x = <<<<w, signed>>, FromBits(u, w, signed), order>>
    BY <1>2, Zenon DEF IsNumber
  <2>2. PICK u \in 0..(Pow(w) - 1) : x = <<<<w, signed>>, FromBits(u, w, signed), order>>
    BY <2>1, Zenon
  <2> QED BY <2>2, NumberItem, Zenon
<1>3. CASE IsText(x)
  <2>1. PICK s \in Seq(Bytes), order \in Orders : Len(s) < Pow(2) /\ x = <<Text, s, order>>
    BY <1>3, Zenon DEF IsText
  <2> QED BY <2>1, TextItem, Zenon
<1> QED BY <1>1, <1>2, <1>3

LEMMA EncsIs ==
    ASSUME Base \in Nat \ {0}, NEW p \in Seq(ItemSet)
    PROVE  /\ Encs(p) \in Seq(Seq(Bytes)) /\ Len(Encs(p)) = Len(p)
           /\ \A i \in 1..Len(p) : Encs(p)[i] = Encoding(p[i])
<1>1. \A i \in 1..Len(p) : p[i] \in ItemSet
  OBVIOUS
<1>2. \A i \in 1..Len(p) : Encoding(p[i]) \in Seq(Bytes)
  BY <1>1, ItemEncodes, Zenon
<1> QED BY <1>2 DEF Encs

LEMMA ConcatOfEncs ==
    ASSUME NEW e \in Seq(Seq(Bytes)), NEW f \in Seq(Seq(Bytes)), NEW g \in Seq(Seq(Bytes)),
           Len(e) = Len(f) + Len(g),
           \A i \in 1..Len(f) : e[i] = f[i], \A i \in 1..Len(g) : e[Len(f) + i] = g[i]
    PROVE  e = f \o g
<1>1. PICK S : S = Seq(Bytes)
  OBVIOUS
<1>2. e \in Seq(S) /\ f \in Seq(S) /\ g \in Seq(S)
  BY <1>1, Zenon
<1> QED BY <1>2, ConcatIs, ZenonT(30)

LEMMA EncsConcat ==
    ASSUME Base \in Nat \ {0}, NEW p \in Seq(ItemSet), NEW r \in Seq(ItemSet)
    PROVE  p \o r \in Seq(ItemSet) /\ Encs(p \o r) = Encs(p) \o Encs(r)
<1>1. PICK m \in Nat : m = Len(p)
  OBVIOUS
<1>2. PICK n \in Nat : n = Len(r)
  OBVIOUS
<1>3. PICK q \in Seq(ItemSet) : q = p \o r
  BY ConcatProperties
<1>4. Len(q) = m + n /\ (\A i \in 1..m : q[i] = p[i]) /\ \A i \in 1..n : q[m + i] = r[i]
  BY <1>1, <1>2, <1>3, ConcatProperties
<1>5. PICK e \in Seq(Seq(Bytes)) : e = Encs(q) /\ Len(e) = Len(q) /\ \A i \in 1..Len(q) : e[i] = Encoding(q[i])
  BY EncsIs, Zenon
<1>6. PICK f \in Seq(Seq(Bytes)) : f = Encs(p) /\ Len(f) = Len(p) /\ \A i \in 1..Len(p) : f[i] = Encoding(p[i])
  BY EncsIs, Zenon
<1>7. PICK g \in Seq(Seq(Bytes)) : g = Encs(r) /\ Len(g) = Len(r) /\ \A i \in 1..Len(r) : g[i] = Encoding(r[i])
  BY EncsIs, Zenon
<1>8. Len(e) = Len(f) + Len(g)
  BY <1>1, <1>2, <1>4, <1>5, <1>6, <1>7, Zenon
<1>9. \A i \in 1..Len(f) : e[i] = f[i]
  <2> SUFFICES ASSUME NEW i \in 1..m PROVE e[i] = f[i]
    BY <1>1, <1>6
  <2>1. i \in 1..Len(q) /\ i \in 1..Len(p)
    BY <1>1, <1>4
  <2> QED BY <1>4, <1>5, <1>6, <2>1, Zenon
<1>10. \A i \in 1..Len(g) : e[Len(f) + i] = g[i]
  <2> SUFFICES ASSUME NEW i \in 1..n PROVE e[m + i] = g[i]
    BY <1>1, <1>2, <1>6, <1>7
  <2>1. m + i \in 1..Len(q) /\ i \in 1..Len(r)
    BY <1>2, <1>4
  <2> QED BY <1>4, <1>5, <1>7, <2>1, Zenon
<1>11. e = f \o g
  BY <1>8, <1>9, <1>10, ConcatOfEncs, Zenon
<1> QED BY <1>3, <1>5, <1>6, <1>7, <1>11, Zenon

LEMMA EncsTail ==
    ASSUME Base \in Nat \ {0}, NEW p \in Seq(ItemSet), p # << >>
    PROVE  /\ Head(p) \in ItemSet /\ Tail(p) \in Seq(ItemSet)
           /\ Encs(p) # << >> /\ Head(Encs(p)) = Encoding(Head(p)) /\ Encs(Tail(p)) = Tail(Encs(p))
<1>1. PICK m \in Nat \ {0} : m = Len(p)
  BY EmptySeq
<1>2. Head(p) = p[1] /\ p[1] \in ItemSet
  BY <1>1
<1>3. PICK r \in Seq(ItemSet) : r = Tail(p) /\ Len(r) = m - 1 /\ \A i \in 1..(m - 1) : r[i] = p[i + 1]
  <2>1. Tail(p) \in Seq(ItemSet) /\ Len(Tail(p)) = m - 1 /\ \A i \in 1..(m - 1) : Tail(p)[i] = p[i + 1]
    BY <1>1, HeadTailProperties
  <2> QED BY <2>1
<1>4. PICK e \in Seq(Seq(Bytes)) : e = Encs(p) /\ Len(e) = Len(p) /\ \A i \in 1..Len(p) : e[i] = Encoding(p[i])
  BY EncsIs, Zenon
<1>5. PICK g \in Seq(Seq(Bytes)) : g = Encs(r) /\ Len(g) = Len(r) /\ \A i \in 1..Len(r) : g[i] = Encoding(r[i])
  BY EncsIs, Zenon
<1>6. 1 \in 1..Len(p) /\ Len(e) = m
  BY <1>1, <1>4
<1>7. e # << >> /\ Head(e) = e[1]
  BY <1>6
<1>8. e[1] = Encoding(p[1])
  BY <1>4, <1>6, Zenon
<1>9. PICK t \in Seq(Seq(Bytes)) : t = Tail(e) /\ Len(t) = m - 1 /\ \A i \in 1..(m - 1) : t[i] = e[i + 1]
  <2>1. Tail(e) \in Seq(Seq(Bytes)) /\ Len(Tail(e)) = m - 1 /\ \A i \in 1..(m - 1) : Tail(e)[i] = e[i + 1]
    BY <1>6, <1>7, HeadTailProperties
  <2> QED BY <2>1
<1>10. \A i \in 1..Len(g) : g[i] = t[i]
  <2> SUFFICES ASSUME NEW i \in 1..(m - 1) PROVE g[i] = t[i]
    BY <1>3, <1>5
  <2>1. i \in 1..Len(r) /\ i + 1 \in 1..Len(p)
    BY <1>1, <1>3
  <2>2. g[i] = Encoding(r[i]) /\ r[i] = p[i + 1]
    BY <1>3, <1>5, <2>1, Zenon
  <2>3. t[i] = e[i + 1] /\ e[i + 1] = Encoding(p[i + 1])
    BY <1>4, <1>9, <2>1, Zenon
  <2> QED BY <2>2, <2>3, Zenon
<1>11. Len(g) = Len(t)
  BY <1>3, <1>5, <1>9
<1>12. g = t
  BY <1>10, <1>11, SeqEqual
<1> QED BY <1>2, <1>3, <1>4, <1>5, <1>7, <1>8, <1>9, <1>12, Zenon

LEMMA HoldsNothing ==
    ASSUME NEW b \in Seq(Bytes)
    PROVE  Holds(b, << >>) <=> b = << >>
<1>1. Encs(<< >>) = << >>
  BY DEF Encs
<1> QED BY <1>1, GluedNone, Zenon DEF Holds

LEMMA HoldsConcat ==
    ASSUME Base \in Nat \ {0}, NEW b \in Seq(Bytes), NEW c \in Seq(Bytes),
           NEW p \in Seq(ItemSet), NEW r \in Seq(ItemSet), Holds(b, p), Holds(c, r)
    PROVE  b \o c \in Seq(Bytes) /\ p \o r \in Seq(ItemSet) /\ Holds(b \o c, p \o r)
<1>1. Encs(p) \in Seq(Seq(Bytes)) /\ Encs(r) \in Seq(Seq(Bytes))
  BY EncsIs, Zenon
<1>2. Glued(b \o c, Encs(p) \o Encs(r))
  BY <1>1, GluedConcat, Zenon DEF Holds
<1>3. b \o c \in Seq(Bytes)
  BY ConcatProperties
<1> QED BY <1>2, <1>3, EncsConcat, Zenon DEF Holds

LEMMA HoldsAppend ==
    ASSUME Base \in Nat \ {0}, NEW b \in Seq(Bytes), NEW p \in Seq(ItemSet), NEW x \in ItemSet, Holds(b, p)
    PROVE  /\ b \o Encoding(x) \in Seq(Bytes) /\ Append(p, x) \in Seq(ItemSet)
           /\ Holds(b \o Encoding(x), Append(p, x))
<1>1. PICK e \in Seq(Bytes) : e = Encoding(x)
  BY ItemEncodes, Zenon
<1>2. <<x>> \in Seq(ItemSet) /\ Append(p, x) = p \o <<x>>
  BY AppendIsConcat
<1>3. Encs(<<x>>) = <<e>>
  <2>1. Len(<<x>>) = 1 /\ <<x>>[1] = x /\ 1..1 = {1}
    OBVIOUS
  <2>2. Encs(<<x>>) \in Seq(Seq(Bytes)) /\ Len(Encs(<<x>>)) = 1 /\ Encs(<<x>>)[1] = e
    <3>1. 1 \in 1..1
      OBVIOUS
    <3> QED BY <1>1, <1>2, <2>1, <3>1, EncsIs, Zenon
  <2>3. <<e>> \in Seq(Seq(Bytes)) /\ Len(<<e>>) = 1 /\ <<e>>[1] = e
    OBVIOUS
  <2>4. \A i \in 1..Len(<<e>>) : Encs(<<x>>)[i] = <<e>>[i]
    BY <2>2, <2>3
  <2> QED BY <2>2, <2>3, <2>4, SeqEqual
<1>4. Glued(e, Encs(<<x>>))
  BY <1>3, GluedOne, Zenon
<1>5. Holds(e, <<x>>)
  BY <1>4, Zenon DEF Holds
<1>6. b \o e \in Seq(Bytes) /\ p \o <<x>> \in Seq(ItemSet) /\ Holds(b \o e, p \o <<x>>)
  BY <1>2, <1>5, HoldsConcat
<1> QED BY <1>1, <1>2, <1>6, Zenon

LEMMA HoldsTail ==
    ASSUME Base \in Nat \ {0}, NEW b \in Seq(Bytes), NEW p \in Seq(ItemSet), p # << >>, Holds(b, p),
           NEW e, e = Encoding(Head(p))
    PROVE  /\ Head(p) \in ItemSet /\ Tail(p) \in Seq(ItemSet)
           /\ e \in Seq(Bytes) /\ At(b, 1, e) /\ Len(e) <= Len(b)
           /\ SubSeq(b, Len(e) + 1, Len(b)) \in Seq(Bytes)
           /\ Holds(SubSeq(b, Len(e) + 1, Len(b)), Tail(p))
<1>1. Encs(p) \in Seq(Seq(Bytes))
  BY EncsIs, Zenon
<1>2. Encs(p) # << >> /\ Head(Encs(p)) = e /\ Encs(Tail(p)) = Tail(Encs(p))
  BY EncsTail, Zenon
<1>3. /\ Head(Encs(p)) \in Seq(Bytes) /\ At(b, 1, Head(Encs(p))) /\ Len(Head(Encs(p))) <= Len(b)
      /\ SubSeq(b, Len(Head(Encs(p))) + 1, Len(b)) \in Seq(Bytes)
      /\ Glued(SubSeq(b, Len(Head(Encs(p))) + 1, Len(b)), Tail(Encs(p)))
  BY <1>1, <1>2, GluedTail, Zenon DEF Holds
<1> QED BY <1>2, <1>3, EncsTail, Zenon DEF Holds

-----------------------------------------------------------------------------
ArrayTypes ==
    /\ bytes \in [Arrays -> Seq(Bytes)] /\ has_read \in [Arrays -> Nat]
    /\ endian \in [Arrays -> Orders] /\ pending \in [Arrays -> Seq(ItemSet)]
    /\ torn \subseteq Arrays

\* What holds of one array.
Sound(a) ==
    /\ a \in Statics => has_read[a] + Len(bytes[a]) <= MAX_MSG_LENGTH
    /\ a \notin torn => Holds(bytes[a], pending[a])

ArrayInv == ArrayTypes /\ (\A a \in Arrays : Sound(a)) /\ ReadsBack

LEMMA BaseIs == ASSUME ConstantsOK PROVE Base \in Nat \ {0} /\ MAX_MSG_LENGTH \in Nat
<1>1. Base \in Nat /\ Base > 1 /\ MAX_MSG_LENGTH \in Nat
  BY Zenon DEF ConstantsOK
<1> QED BY <1>1

\* Only the arrays C change.
LEMMA ArrayFrame ==
    ASSUME ArrayInv, ArrayTypes', ReadsBack', NEW C \in SUBSET Arrays,
           \A c \in C : Sound(c)',
           \A c \in Arrays \ C : /\ bytes'[c] = bytes[c] /\ has_read'[c] = has_read[c]
                                       /\ pending'[c] = pending[c] /\ (c \in torn' <=> c \in torn)
    PROVE  ArrayInv'
<1>1. ASSUME NEW c \in Arrays PROVE Sound(c)'
  <2>1. CASE c \in C
    BY <2>1
  <2>2. CASE c \notin C
    <3>1. Sound(c)
      BY Zenon DEF ArrayInv
    <3> QED BY <2>2, <3>1, Zenon DEF Sound
  <2> QED BY <2>1, <2>2
<1> QED BY <1>1, Zenon DEF ArrayInv

LEMMA InitArrayInv == ASSUME ConstantsOK, ArraysInit PROVE ArrayInv
<1>1. << >> \in Seq(Bytes) /\ << >> \in Seq(ItemSet) /\ 0 \in Nat /\ "little" \in Orders
  BY DEF Orders
<1>2. ArrayTypes
  BY <1>1, Zenon DEF ArrayTypes, ArraysInit
<1>3. ASSUME NEW a \in Arrays PROVE Sound(a)
  <2>1. has_read[a] = 0 /\ bytes[a] = << >> /\ pending[a] = << >>
    BY Zenon DEF ArraysInit
  <2>2. Holds(<< >>, << >>)
    BY <1>1, HoldsNothing, Zenon
  <2>3. has_read[a] + Len(bytes[a]) <= MAX_MSG_LENGTH
    BY <2>1, BaseIs
  <2> QED BY <2>1, <2>2, <2>3, Zenon DEF Sound
<1>4. ReadsBack
  BY Zenon DEF ArraysInit, ReadsBack
<1> QED BY <1>2, <1>3, <1>4, Zenon DEF ArrayInv

LEMMA ArrayWriteBytes ==
    ASSUME ConstantsOK, ArrayInv, NEW a \in Arrays, NEW b \in Seq(Bytes), NEW item,
           NEW whole \in BOOLEAN, whole => item \in ItemSet /\ b = Encoding(item),
           WriteBytes(a, b, item, whole)
    PROVE  ArrayInv'
<1>0. Base \in Nat \ {0} /\ MAX_MSG_LENGTH \in Nat
  BY BaseIs
<1>1. a \notin torn /\ misread' = None /\ has_read' = has_read /\ endian' = endian
  BY Zenon DEF WriteBytes
<1>2. ReadsBack'
  BY <1>1, Zenon DEF ReadsBack
<1>3. ArrayTypes /\ Sound(a) /\ ReadsBack
  BY Zenon DEF ArrayInv
<1>4. bytes[a] \in Seq(Bytes) /\ pending[a] \in Seq(ItemSet) /\ has_read[a] \in Nat
  BY <1>3, Zenon DEF ArrayTypes
<1>5. CASE a \in Statics /\ ~ HasRoom(a, Len(b))
  <2>1. bytes' = bytes /\ pending' = pending /\ torn' = torn
    BY <1>5, Zenon DEF WriteBytes
  <2>2. ArrayTypes'
    BY <1>1, <1>3, <2>1, Zenon DEF ArrayTypes
  <2>3. {} \in SUBSET Arrays /\ \A c \in {} : Sound(c)'
    BY Zenon
  <2> QED BY <1>1, <1>2, <2>1, <2>2, <2>3, ArrayFrame, Zenon
<1>6. CASE ~ (a \in Statics /\ ~ HasRoom(a, Len(b)))
  <2>1. PICK d \in Seq(Bytes) : d = bytes[a] \o b
    BY <1>4, ConcatProperties
  <2>2. PICK p \in Seq(ItemSet) : p = IF whole THEN Append(pending[a], item) ELSE << >>
    <3>1. CASE whole
      <4>1. Append(pending[a], item) \in Seq(ItemSet)
        BY <1>4, <3>1, AppendProperties
      <4> QED BY <3>1, <4>1, Zenon
    <3>2. CASE ~ whole
      <4>1. << >> \in Seq(ItemSet)
        OBVIOUS
      <4> QED BY <3>2, <4>1, Zenon
    <3> QED BY <3>1, <3>2, Zenon
  <2>3. /\ bytes' = [bytes EXCEPT ![a] = d]
        /\ pending' = [pending EXCEPT ![a] = p]
        /\ torn' = IF whole THEN torn ELSE torn \cup {a}
    BY <1>6, <2>1, <2>2, Zenon DEF WriteBytes
  <2>4. torn' \subseteq Arrays /\ \A c \in Arrays \ {a} : c \in torn' <=> c \in torn
    BY <1>3, <2>3, Zenon DEF ArrayTypes
  <2>5. bytes' \in [Arrays -> Seq(Bytes)] /\ pending' \in [Arrays -> Seq(ItemSet)]
    BY <1>3, <2>3, Zenon DEF ArrayTypes
  <2>6. ArrayTypes'
    BY <1>1, <1>3, <2>4, <2>5, Zenon DEF ArrayTypes
  <2>7. bytes'[a] = d /\ pending'[a] = p
    BY <1>3, <2>3, Zenon DEF ArrayTypes
  <2>8. ASSUME a \in Statics PROVE has_read'[a] + Len(bytes'[a]) <= MAX_MSG_LENGTH
    <3>1. HasRoom(a, Len(b))
      BY <1>6, <2>8, Zenon
    <3>2. has_read[a] + Len(bytes[a]) + Len(b) <= MAX_MSG_LENGTH
      BY <3>1, Zenon DEF HasRoom, has_write
    <3>3. Len(d) = Len(bytes[a]) + Len(b)
      BY <1>4, <2>1, ConcatProperties
    <3>4. has_read[a] + Len(d) <= MAX_MSG_LENGTH
      BY <1>0, <1>4, <3>2, <3>3
    <3> QED BY <1>1, <2>7, <3>4, Zenon
  <2>9. ASSUME a \notin torn' PROVE Holds(bytes'[a], pending'[a])
    <3>1. whole
      BY <2>3, <2>9, Zenon
    <3>2. item \in ItemSet /\ b = Encoding(item)
      BY <3>1
    <3>3. Holds(bytes[a], pending[a])
      BY <1>1, <1>3, Zenon DEF Sound
    <3>4. Holds(bytes[a] \o Encoding(item), Append(pending[a], item))
      BY <1>0, <1>4, <3>2, <3>3, HoldsAppend, Zenon
    <3> QED BY <2>1, <2>2, <2>7, <3>1, <3>2, <3>4, Zenon
  <2>10. Sound(a)'
    BY <2>8, <2>9, Zenon DEF Sound
  <2>11. \A c \in Arrays \ {a} : bytes'[c] = bytes[c] /\ pending'[c] = pending[c]
    BY <1>3, <2>3, Zenon DEF ArrayTypes
  <2>12. {a} \in SUBSET Arrays /\ \A c \in {a} : Sound(c)'
    BY <2>10, Zenon
  <2> QED BY <1>1, <1>2, <2>4, <2>6, <2>11, <2>12, ArrayFrame, Zenon
<1> QED BY <1>5, <1>6

LEMMA QueueBytesIs ==
    ASSUME Base \in Nat \ {0}, NEW w \in Widths, NEW u \in 0..(Pow(w) - 1), NEW order \in Orders
    PROVE  QueueBytes(u, w, order) = Image(u, w, order)
<1>1. w \in {1, 2, 4, 8}
  BY DEF Widths
<1>2. CASE w = 1
  BY <1>2, WriteIsImage DEF QueueBytes
<1>3. CASE w = 2
  BY <1>3, WriteIsImage DEF QueueBytes
<1>4. CASE w = 4
  BY <1>4, WriteIsImage DEF QueueBytes
<1>5. CASE w = 8
  BY <1>5, WriteIsImage DEF QueueBytes
<1> QED BY <1>1, <1>2, <1>3, <1>4, <1>5

LEMMA BufferBytesIs ==
    ASSUME NEW w, NEW u
    PROVE  WriteItemToBuffer(u, w) = Image(u, w, "little")
<1>1. "little" # "big"
  OBVIOUS
<1> QED BY <1>1, Zenon DEF WriteItemToBuffer, Image

LEMMA OrderIs ==
    ASSUME ArrayTypes, NEW a \in Arrays
    PROVE  /\ OrderOf(a) \in Orders
           /\ a \in Queues => OrderOf(a) = endian[a]
           /\ a \notin Queues => OrderOf(a) = "little"
<1>1. endian[a] \in Orders /\ "little" \in Orders
  BY Zenon DEF ArrayTypes, Orders
<1> QED BY <1>1, Zenon DEF OrderOf

LEMMA ArrayWriteNumber ==
    ASSUME ConstantsOK, ArrayInv, NEW a \in Arrays, NEW w \in Widths, NEW signed \in BOOLEAN,
           NEW u \in Bits[<<w, signed>>], WriteNumber(a, w, signed, FromBits(u, w, signed))
    PROVE  ArrayInv'
<1>0. Base \in Nat \ {0}
  BY BaseIs
<1>1. u \in 0..(Pow(w) - 1) /\ w \in 1..8
  <2>1. <<w, signed>> \in Numbers /\ <<w, signed>>[1] = w
    BY Zenon DEF Numbers
  <2>2. u \in 0..(Pow(w) - 1)
    BY <2>1, Zenon DEF ConstantsOK, Pow
  <2>3. w \in 1..8
    BY DEF Widths
  <2> QED BY <2>2, <2>3
<1>2. ArrayTypes
  BY Zenon DEF ArrayInv
<1>3. PICK order \in Orders : order = OrderOf(a)
  BY <1>2, OrderIs, Zenon
<1>4. PICK x : x = <<<<w, signed>>, FromBits(u, w, signed), order>>
  OBVIOUS
<1>5. x \in ItemSet /\ Encoding(x) = Image(u, w, order) /\ Encoding(x) \in Seq(Bytes)
  <2>1. PICK v \in 0..(Pow(w) - 1) : v = u
    BY <1>1, Zenon
  <2>2. x = <<<<w, signed>>, FromBits(v, w, signed), order>>
    BY <1>4, <2>1, Zenon
  <2>3. x \in ItemSet
    BY <1>0, <2>2, NumberItem, Zenon
  <2>4. Encoding(x) = Image(v, w, order)
    BY <1>0, <2>2, NumberEncodes, Zenon
  <2>5. Encoding(x) \in Seq(Bytes)
    BY <1>0, <2>2, NumberItem, Zenon
  <2> QED BY <2>1, <2>3, <2>4, <2>5, Zenon
<1>6. PICK b : b = IF a \in Queues THEN QueueBytes(u, w, endian[a]) ELSE WriteItemToBuffer(u, w)
  OBVIOUS
<1>7. b = Encoding(x)
  <2>1. CASE a \in Queues
    <3>1. endian[a] = order
      BY <1>2, <1>3, <2>1, OrderIs, Zenon
    <3> QED BY <1>0, <1>1, <1>5, <1>6, <2>1, <3>1, QueueBytesIs, Zenon
  <2>2. CASE a \notin Queues
    <3>1. order = "little"
      BY <1>2, <1>3, <2>2, OrderIs, Zenon
    <3> QED BY <1>5, <1>6, <2>2, <3>1, BufferBytesIs, Zenon
  <2> QED BY <2>1, <2>2
<1>8. ToBits(FromBits(u, w, signed), w) = u
  BY <1>0, <1>1, BitsOf, Zenon
<1>9. WriteBytes(a, b, x, TRUE)
  BY <1>3, <1>4, <1>6, <1>8, Zenon DEF WriteNumber
<1>10. TRUE \in BOOLEAN
  OBVIOUS
<1> QED BY <1>5, <1>7, <1>9, <1>10, ArrayWriteBytes, Zenon

LEMMA ArrayWriteString ==
    ASSUME ConstantsOK, ArrayInv, NEW a \in Arrays, NEW s \in Strings,
           IF a \in Queues THEN WriteQueueString(a, s) ELSE WriteStaticString(a, s)
    PROVE  ArrayInv'
<1>0. Base \in Nat \ {0} /\ 2 \in 1..8 /\ 2 \in 0..8
  BY BaseIs
<1>1. s \in Seq(Bytes)
  BY Zenon DEF ConstantsOK, Bytes
<1>2. ArrayTypes
  BY Zenon DEF ArrayInv
<1>3. PICK order \in Orders : order = OrderOf(a)
  BY <1>2, OrderIs, Zenon
<1>4. PICK x : x = <<Text, s, order>>
  OBVIOUS
<1>5. ASSUME Len(s) < Pow(2)
      PROVE  x \in ItemSet /\ Len(s) \in 0..(Pow(2) - 1) /\ Encoding(x) = Image(Len(s), 2, order) \o s
             /\ Encoding(x) \in Seq(Bytes)
  BY <1>0, <1>1, <1>4, <1>5, TextItem, Zenon
<1>6. CASE a \in Queues
  <2>1. Len(s) < Pow(2) /\ WriteBytes(a, WriteUint16(Len(s), endian[a]) \o s, x, TRUE)
    BY <1>3, <1>4, <1>6, Zenon DEF WriteQueueString, Pow
  <2>2. endian[a] = order
    BY <1>2, <1>3, <1>6, OrderIs, Zenon
  <2>3. WriteUint16(Len(s), order) = Image(Len(s), 2, order)
    BY <1>0, <1>5, <2>1, WriteIsImage, Zenon
  <2>4. WriteBytes(a, Encoding(x), x, TRUE)
    BY <1>5, <2>1, <2>2, <2>3, Zenon
  <2>5. TRUE \in BOOLEAN
    OBVIOUS
  <2> QED BY <1>5, <2>1, <2>4, <2>5, ArrayWriteBytes, Zenon
<1>7. CASE a \notin Queues
  <2>1. order = "little"
    BY <1>2, <1>3, <1>7, OrderIs, Zenon
  <2>2. PICK n \in Nat : n = Len(s)
    BY <1>1
  <2>3. PICK p \in Nat \ {0} : p = Pow(2)
    BY <1>0, PowerIs, Zenon
  <2>4. PICK m \in 0..(p - 1) : m = n % p
    <3>1. n \in Int
      OBVIOUS
    <3> QED BY <3>1, DivMod, Zenon
  <2>5. PICK i \in Seq(Bytes) : i = Image(m, 2, order)
    <3>1. m \in Nat
      BY <2>3
    <3> QED BY <1>0, <3>1, ImageIs, Zenon
  <2>6. PICK b \in Seq(Bytes) : b = i \o s
    BY <1>1, ConcatProperties
  <2>7. WriteBytes(a, b, x, n < p)
    BY <1>3, <1>4, <1>7, <2>1, <2>2, <2>3, <2>4, <2>5, <2>6, BufferBytesIs, Zenon
       DEF WriteStaticString, ToBits, Pow
  <2>8. ASSUME n < p PROVE x \in ItemSet /\ b = Encoding(x)
    <3>1. n \in 0..(p - 1)
      BY <2>8
    <3>2. m = n
      BY <2>4, <3>1, SmallMod, Zenon
    <3> QED BY <1>5, <2>2, <2>3, <2>5, <2>6, <2>8, <3>2, Zenon
  <2>9. (n < p) \in BOOLEAN
    OBVIOUS
  <2> QED BY <2>7, <2>8, <2>9, ArrayWriteBytes, Zenon
<1> QED BY <1>6, <1>7

-----------------------------------------------------------------------------
LEMMA MinIs ==
    ASSUME NEW m \in Nat, NEW n \in Nat
    PROVE  Min({m, n}) = IF m <= n THEN m ELSE n
<1>1. PICK k \in {m, n} : \A y \in {m, n} : k <= y
  OBVIOUS
<1>2. Min({m, n}) \in {m, n} /\ \A y \in {m, n} : Min({m, n}) <= y
  BY <1>1, Zenon DEF Min
<1> QED BY <1>2

LEMMA ReadNumberTakes ==
    ASSUME Base \in Nat \ {0}, ArrayTypes, NEW a \in Arrays, NEW w \in Widths, NEW signed \in BOOLEAN
    PROVE  /\ ReadNumber(a, w, signed)[2] \in 0..Len(bytes[a])
           /\ w <= Len(bytes[a]) => ReadNumber(a, w, signed)[2] = w
<1>1. bytes[a] \in Seq(Bytes) /\ w \in Nat
  BY DEF ArrayTypes, Widths
<1>2. PICK n \in Nat : n = Len(bytes[a])
  BY <1>1
<1>3. CASE a \in Queues
  <2>1. ReadNumber(a, w, signed)[2] = Min({w, n})
    BY <1>2, <1>3, Zenon DEF ReadNumber
  <2>2. Min({w, n}) = IF w <= n THEN w ELSE n
    BY <1>1, MinIs, Zenon
  <2>3. (IF w <= n THEN w ELSE n) \in 0..n /\ (w <= n => (IF w <= n THEN w ELSE n) = w)
    BY <1>1
  <2> QED BY <1>2, <2>1, <2>2, <2>3, Zenon
<1>4. CASE a \notin Queues
  <2>1. CASE n < w
    <3>1. ReadNumber(a, w, signed)[2] = 0
      BY <1>2, <1>4, <2>1, Zenon DEF ReadNumber
    <3>2. 0 \in 0..n /\ ~ (w <= n)
      BY <1>1, <2>1
    <3> QED BY <1>2, <3>1, <3>2, Zenon
  <2>2. CASE ~ (n < w)
    <3>1. ReadNumber(a, w, signed)[2] = w
      BY <1>2, <1>4, <2>2, Zenon DEF ReadNumber
    <3>2. w \in 0..n
      BY <1>1, <2>2
    <3> QED BY <1>2, <3>1, <3>2, Zenon
  <2> QED BY <2>1, <2>2
<1> QED BY <1>3, <1>4

LEMMA ReadStringTakes ==
    ASSUME Base \in Nat \ {0}, ArrayTypes, NEW a \in Arrays
    PROVE  ReadString(a)[2] \in 0..Len(bytes[a])
<1>1. PICK q \in Seq(Bytes) : q = bytes[a]
  BY Zenon DEF ArrayTypes
<1>2. PICK l \in Nat : l = Len(q)
  OBVIOUS
<1>3. CASE a \in Queues
  <2>1. PICK order \in Orders : order = endian[a]
    BY Zenon DEF ArrayTypes
  <2>2. PICK n \in Nat : n = ReadUint16(q, 1, order)
    BY ShortRead, Zenon
  <2>3. ReadString(a) = IF l < 2 \/ 2 + n > l THEN << << >>, 0>> ELSE <<SubSeq(q, 3, 2 + n), 2 + n>>
    BY <1>1, <1>2, <1>3, <2>1, <2>2, Zenon DEF ReadString, ReadQueueString
  <2>4. CASE l < 2 \/ 2 + n > l
    <3>0. ReadString(a) = << << >>, 0>>
      BY <2>3, <2>4, Zenon
    <3>1. ReadString(a)[2] = 0
      BY <3>0
    <3> QED BY <1>1, <1>2, <3>1
  <2>5. CASE ~ (l < 2 \/ 2 + n > l)
    <3>0. ReadString(a) = <<SubSeq(q, 3, 2 + n), 2 + n>>
      BY <2>3, <2>5, Zenon
    <3>1. ReadString(a)[2] = 2 + n
      BY <3>0
    <3>2. 2 + n \in 0..l
      BY <2>5
    <3> QED BY <1>1, <1>2, <3>1, <3>2, Zenon
  <2> QED BY <2>4, <2>5
<1>4. CASE a \notin Queues
  <2>1. PICK n : n = ReadItemFromBuffer(q, 2)
    OBVIOUS
  <2>2. ReadString(a) = IF l < 2 THEN << << >>, 0>>
                              ELSE IF n > l - 2 THEN << << >>, 2>>
                              ELSE <<CText(SubSeq(q, 3, 2 + n)), 2 + n>>
    BY <1>1, <1>2, <1>4, <2>1, Zenon DEF ReadString, ReadStaticString
  <2>3. CASE l < 2
    <3>0. ReadString(a) = << << >>, 0>>
      BY <2>2, <2>3, Zenon
    <3>1. ReadString(a)[2] = 0
      BY <3>0
    <3> QED BY <1>1, <1>2, <3>1
  <2>4. CASE ~ (l < 2) /\ n > l - 2
    <3>0. ReadString(a) = << << >>, 2>>
      BY <2>2, <2>4, Zenon
    <3>1. ReadString(a)[2] = 2
      BY <3>0
    <3>2. 2 \in 0..l
      BY <2>4
    <3> QED BY <1>1, <1>2, <3>1, <3>2, Zenon
  <2>5. CASE ~ (l < 2) /\ ~ (n > l - 2)
    <3>0. ReadString(a) = <<CText(SubSeq(q, 3, 2 + n)), 2 + n>>
      BY <2>2, <2>5, Zenon
    <3>1. ReadString(a)[2] = 2 + n
      BY <3>0
    <3>2. l >= 2
      BY <2>5
    <3>3. n \in Nat
      <4>1. "little" \in Orders /\ Len(q) >= 2
        BY <1>2, <3>2 DEF Orders
      <4> QED BY <2>1, <4>1, ShortRead, Zenon
    <3>4. 2 + n \in 0..l
      BY <2>5, <3>2, <3>3
    <3> QED BY <1>1, <1>2, <3>1, <3>4, Zenon
  <2> QED BY <2>3, <2>4, <2>5
<1> QED BY <1>3, <1>4

\* A number in the byte order of the array is read as it was written.
LEMMA ReadNumberIs ==
    ASSUME Base \in Nat \ {0}, ArrayTypes, NEW a \in Arrays, NEW w \in Widths, NEW signed \in BOOLEAN,
           NEW u \in 0..(Pow(w) - 1), w <= Len(bytes[a]), At(bytes[a], 1, Image(u, w, OrderOf(a)))
    PROVE  ReadNumber(a, w, signed)[1] = FromBits(u, w, signed)
<1>1. PICK q \in Seq(Bytes) : q = bytes[a]
  BY Zenon DEF ArrayTypes
<1>2. w \in 1..8 /\ w \in {1, 2, 4, 8} /\ 1 \in Nat \ {0}
  BY DEF Widths
<1>3. CASE a \in Queues
  <2>1. PICK order \in Orders : order = endian[a] /\ order = OrderOf(a)
    BY <1>3, OrderIs, Zenon
  <2>2. At(q, 1, Image(u, w, order))
    BY <1>1, <2>1, Zenon
  <2>3. QueueNumber(q, w, order) = u
    <3>1. CASE w = 1
      BY <1>2, <2>2, <3>1, ReadIsImage DEF QueueNumber
    <3>2. CASE w = 2
      BY <1>2, <2>2, <3>2, ReadIsImage DEF QueueNumber
    <3>3. CASE w = 4
      BY <1>2, <2>2, <3>3, ReadIsImage DEF QueueNumber
    <3>4. CASE w = 8
      BY <1>2, <2>2, <3>4, ReadIsImage DEF QueueNumber
    <3> QED BY <1>2, <3>1, <3>2, <3>3, <3>4
  <2> QED BY <1>1, <1>3, <2>1, <2>3, Zenon DEF ReadNumber
<1>4. CASE a \notin Queues
  <2>1. OrderOf(a) = "little"
    BY <1>4, OrderIs, Zenon
  <2>2. ReadItemFromBuffer(q, w) = u
    BY <1>1, <1>2, <2>1, BufferIsImage, Zenon
  <2>3. ~ (Len(q) < w)
    BY <1>1, <1>2
  <2> QED BY <1>1, <1>4, <2>2, <2>3, Zenon DEF ReadNumber
<1> QED BY <1>3, <1>4

LEMMA CTextIs ==
    ASSUME NEW s \in Seq(Bytes), \A i \in 1..Len(s) : s[i] # 0
    PROVE  CText(s) = s
<1>1. {i \in 1..Len(s) : s[i] = 0} = {}
  BY Zenon
<1> QED BY <1>1, Zenon DEF CText

\* So is a string.
LEMMA ReadStringIs ==
    ASSUME Base \in Nat \ {0}, ArrayTypes, NEW a \in Arrays, NEW s \in Seq(Bytes), Len(s) < Pow(2),
           At(bytes[a], 1, Image(Len(s), 2, OrderOf(a)) \o s)
    PROVE  /\ ReadString(a)[2] = 2 + Len(s)
           /\ ReadString(a)[1] = IF a \in Queues THEN s ELSE CText(s)
<1>1. PICK q \in Seq(Bytes) : q = bytes[a]
  BY Zenon DEF ArrayTypes
<1>2. PICK l \in Nat : l = Len(q)
  OBVIOUS
<1>3. PICK order \in Orders : order = OrderOf(a)
  BY OrderIs, Zenon
<1>4. PICK n \in Nat : n = Len(s)
  OBVIOUS
<1>5. 2 \in 1..8 /\ 2 \in 0..8 /\ 1 \in Nat \ {0} /\ 1 + 2 = 3
  OBVIOUS
<1>6. n \in 0..(Pow(2) - 1)
  <2>1. Pow(2) \in Nat
    BY <1>5, PowerIs
  <2> QED BY <1>4, <2>1
<1>7. PICK i \in Seq(Bytes) : i = Image(n, 2, order) /\ Len(i) = 2
  <2>1. Image(n, 2, order) \in Seq(Bytes) /\ Len(Image(n, 2, order)) = 2
    BY <1>5, ImageIs, Zenon
  <2> QED BY <2>1
<1>8. At(q, 1, i) /\ At(q, 3, s)
  <2>1. At(q, 1, i \o s)
    BY <1>1, <1>3, <1>4, <1>7, Zenon
  <2>2. At(q, 1, i) /\ At(q, 1 + Len(i), s)
    BY <1>5, <2>1, AtConcat, Zenon
  <2> QED BY <1>5, <1>7, <2>2, Zenon
<1>9. 2 + n <= l /\ \A j \in 1..n : q[3 + j - 1] = s[j]
  <2>1. 3 + Len(s) - 1 <= Len(q) /\ \A j \in 1..Len(s) : q[3 + j - 1] = s[j]
    BY <1>8, Zenon DEF At
  <2>2. 3 + n - 1 <= l
    BY <1>2, <1>4, <2>1, Zenon
  <2>3. 2 + n <= l
    BY <2>2
  <2> QED BY <1>4, <2>1, <2>3, Zenon
<1>10. SubSeq(q, 3, 2 + n) = s
  <2>1. \A j \in 3..(2 + n) : q[j] \in Bytes
    BY <1>2, <1>9
  <2>2. PICK t \in Seq(Bytes) : t = SubSeq(q, 3, 2 + n) /\ Len(t) = n /\ \A j \in 1..n : t[j] = q[3 + j - 1]
    <3>1. SubSeq(q, 3, 2 + n) \in Seq(Bytes)
      BY <2>1, SubSeqProperties
    <3>2. Len(SubSeq(q, 3, 2 + n)) = n
      BY <2>1, SubSeqProperties
    <3>3. \A j \in 1..n : SubSeq(q, 3, 2 + n)[j] = q[3 + j - 1]
      BY <2>1, SubSeqProperties
    <3> QED BY <3>1, <3>2, <3>3
  <2>3. Len(t) = Len(s) /\ \A j \in 1..Len(t) : t[j] = s[j]
    BY <1>4, <1>9, <2>2
  <2>4. t = s
    BY <2>3, SeqEqual
  <2> QED BY <2>2, <2>4, Zenon
<1>11. ~ (l < 2) /\ ~ (2 + n > l) /\ ~ (n > l - 2)
  BY <1>9
<1>12. CASE a \in Queues
  <2>1. endian[a] = order
    BY <1>3, <1>12, OrderIs, Zenon
  <2>2. ReadUint16(q, 1, order) = n
    BY <1>5, <1>6, <1>7, <1>8, ReadIsImage, Zenon
  <2>3. ReadString(a) = <<s, 2 + n>>
    BY <1>1, <1>2, <1>10, <1>11, <1>12, <2>1, <2>2, Zenon DEF ReadString, ReadQueueString
  <2> QED BY <1>4, <1>12, <2>3
<1>13. CASE a \notin Queues
  <2>1. order = "little"
    BY <1>3, <1>13, OrderIs, Zenon
  <2>2. ReadItemFromBuffer(q, 2) = n
    BY <1>5, <1>6, <1>7, <1>8, <2>1, BufferIsImage, Zenon
  <2>3. ReadString(a) = <<CText(s), 2 + n>>
    BY <1>1, <1>2, <1>10, <1>11, <1>13, <2>2, Zenon DEF ReadString, ReadStaticString
  <2> QED BY <1>4, <1>13, <2>3
<1> QED BY <1>12, <1>13

LEMMA ReadEmpty ==
    ASSUME Base \in Nat \ {0}, ArrayTypes, NEW a \in Arrays, bytes[a] = << >>
    PROVE  /\ ReadString(a)[1] = << >>
           /\ \A w \in Widths, signed \in BOOLEAN : ReadNumber(a, w, signed)[1] = 0
<1>1. Len(<< >>) = 0 /\ 0 < 2
  OBVIOUS
<1>2. ReadString(a) = << << >>, 0>>
  BY <1>1, Zenon DEF ReadString, ReadQueueString, ReadStaticString
<1>3. ASSUME NEW w \in Widths, NEW signed \in BOOLEAN PROVE ReadNumber(a, w, signed)[1] = 0
  <2>1. w \in 1..8 /\ w \in {1, 2, 4, 8} /\ 0 < w
    BY DEF Widths
  <2>2. CASE a \in Queues
    <3>1. PICK order : order = endian[a]
      OBVIOUS
    <3>2. \A i \in Nat \ {0} : ReadUint8(<< >>, i) = 0
      BY DEF ReadUint8
    <3>3. \A x \in Nat : Join(order, 0, 0, x) = 0
      BY DEF Join
    <3>4. Pow(2) \in Nat /\ Pow(4) \in Nat /\ Base \in Nat
      BY PowerIs
    <3>5. \A i \in Nat \ {0} : ReadUint16(<< >>, i, order) = 0
      BY <3>2, <3>3, <3>4 DEF ReadUint16
    <3>6. \A i \in Nat \ {0} : ReadUint32(<< >>, i, order) = 0
      <4> SUFFICES ASSUME NEW i \in Nat \ {0} PROVE ReadUint32(<< >>, i, order) = 0
        OBVIOUS
      <4>1. i + 2 \in Nat \ {0}
        OBVIOUS
      <4> QED BY <3>3, <3>4, <3>5, <4>1, Zenon DEF ReadUint32, Pow
    <3>7. \A i \in Nat \ {0} : ReadUint64(<< >>, i, order) = 0
      <4> SUFFICES ASSUME NEW i \in Nat \ {0} PROVE ReadUint64(<< >>, i, order) = 0
        OBVIOUS
      <4>1. i + 4 \in Nat \ {0}
        OBVIOUS
      <4> QED BY <3>3, <3>4, <3>6, <4>1, Zenon DEF ReadUint64, Pow
    <3>8. 1 \in Nat \ {0}
      OBVIOUS
    <3>9. QueueNumber(<< >>, w, order) = 0
      BY <2>1, <3>2, <3>5, <3>6, <3>7, <3>8 DEF QueueNumber
    <3>10. FromBits(0, w, signed) = 0
      <4>1. 0 \in 0..(Pow(w) - 1)
        <5>1. w \in 0..8
          BY <2>1
        <5>2. Pow(w) \in Nat \ {0}
          BY <5>1, PowerIs, Zenon
        <5> QED BY <5>2
      <4> QED BY <2>1, <4>1, BitsOf, Zenon
    <3> QED BY <2>2, <3>1, <3>9, <3>10, Zenon DEF ReadNumber
  <2>3. CASE a \notin Queues
    BY <1>1, <2>1, <2>3, Zenon DEF ReadNumber
  <2> QED BY <2>2, <2>3
<1> QED BY <1>2, <1>3

\* What a read of that type returns, and how many bytes it takes.
ResultOf(a, type) ==
    IF type = Text THEN ReadString(a) ELSE ReadNumber(a, type[1], type[2])

LEMMA ResultTakes ==
    ASSUME Base \in Nat \ {0}, ArrayTypes, NEW a \in Arrays, NEW type \in Numbers \cup {Text}
    PROVE  ResultOf(a, type)[2] \in 0..Len(bytes[a])
<1>1. CASE type = Text
  BY <1>1, ReadStringTakes, Zenon DEF ResultOf
<1>2. CASE type # Text
  <2>1. type \in Widths \X BOOLEAN
    BY <1>2, Zenon DEF Numbers
  <2>2. type[1] \in Widths /\ type[2] \in BOOLEAN
    BY <2>1, Zenon
  <2> QED BY <1>2, <2>2, ReadNumberTakes, Zenon DEF ResultOf
<1> QED BY <1>1, <1>2

HasZero(s) == \E i \in DOMAIN s : s[i] = 0

\* Reading the item at the front.
LEMMA ReadFront ==
    ASSUME Base \in Nat \ {0}, ArrayTypes, NEW a \in Arrays, NEW x \in ItemSet,
           At(bytes[a], 1, Encoding(x)), Len(Encoding(x)) <= Len(bytes[a])
    PROVE  /\ x[1] # Text \/ x[3] = OrderOf(a) => ResultOf(a, x[1])[2] = Len(Encoding(x))
           /\ x[3] = OrderOf(a) =>
                 \/ ResultOf(a, x[1])[1] = x[2]
                 \/ a \notin Queues /\ x[1] = Text /\ HasZero(x[2])
<1>0. PICK q \in Seq(Bytes) : q = bytes[a]
  BY Zenon DEF ArrayTypes
<1>1. CASE IsNumber(x)
  <2>1. PICK w \in Widths, signed \in BOOLEAN, order \in Orders :
           \E u \in 0..(Pow(w) - 1) : x = <<<<w, signed>>, FromBits(u, w, signed), order>>
    BY <1>1, Zenon DEF IsNumber
  <2>2. PICK u \in 0..(Pow(w) - 1) : x = <<<<w, signed>>, FromBits(u, w, signed), order>>
    BY <2>1, Zenon
  <2>3. x[1] # Text /\ x[1] = <<w, signed>> /\ x[3] = order /\ Len(Encoding(x)) = w
        /\ x[2] = FromBits(u, w, signed)
    <3>1. PICK v : v = FromBits(u, w, signed)
      OBVIOUS
    <3>2. PICK t : t = <<w, signed>>
      OBVIOUS
    <3>3. x = <<t, v, order>>
      BY <2>2, <3>1, <3>2, Zenon
    <3>4. x[1] = t /\ x[2] = v /\ x[3] = order
      BY <3>3
    <3>5. t # Text
      BY <3>2, NumberEncodes, Zenon
    <3>6. Len(Encoding(x)) = w
      <4>1. w \in 0..8 /\ w \in 1..8
        BY DEF Widths
      <4>2. Pow(w) \in Nat
        BY <4>1, PowerIs
      <4>3. u \in Nat
        BY <4>2
      <4>4. Len(Image(u, w, order)) = w
        BY <4>1, <4>3, ImageIs, Zenon
      <4> QED BY <2>2, <4>4, NumberEncodes, Zenon
    <3> QED BY <3>1, <3>2, <3>4, <3>5, <3>6, Zenon
  <2>4. Encoding(x) = Image(u, w, order)
    BY <2>2, NumberEncodes, Zenon
  <2>5. ResultOf(a, x[1]) = ReadNumber(a, w, signed)
    <3>1. <<w, signed>>[1] = w /\ <<w, signed>>[2] = signed
      BY Zenon
    <3> QED BY <2>3, <3>1, Zenon DEF ResultOf
  <2>6. ResultOf(a, x[1])[2] = Len(Encoding(x))
    BY <2>3, <2>5, ReadNumberTakes, Zenon
  <2>7. ASSUME x[3] = OrderOf(a) PROVE ResultOf(a, x[1])[1] = x[2]
    <3>1. At(bytes[a], 1, Image(u, w, OrderOf(a)))
      BY <2>3, <2>4, <2>7, Zenon
    <3>2. w <= Len(bytes[a])
      BY <2>3, Zenon
    <3>3. ReadNumber(a, w, signed)[1] = FromBits(u, w, signed)
      BY <3>1, <3>2, ReadNumberIs, Zenon
    <3> QED BY <2>3, <2>5, <3>3, Zenon
  <2> QED BY <2>6, <2>7, Zenon
<1>2. CASE IsText(x)
  <2>1. PICK s \in Seq(Bytes), order \in Orders : Len(s) < Pow(2) /\ x = <<Text, s, order>>
    BY <1>2, Zenon DEF IsText
  <2>2. /\ x[1] = Text /\ x[2] = s /\ x[3] = order /\ Len(Encoding(x)) = 2 + Len(s)
        /\ Encoding(x) = Image(Len(s), 2, order) \o s
    BY <2>1, TextItem, Zenon
  <2>3. ResultOf(a, x[1]) = ReadString(a)
    BY <2>2, Zenon DEF ResultOf
  <2>4. ASSUME x[3] = OrderOf(a)
        PROVE  /\ ReadString(a)[2] = 2 + Len(s)
               /\ ReadString(a)[1] = IF a \in Queues THEN s ELSE CText(s)
    <3>1. At(bytes[a], 1, Image(Len(s), 2, OrderOf(a)) \o s)
      BY <2>2, <2>4, Zenon
    <3> QED BY <2>1, <3>1, ReadStringIs, Zenon
  <2>5. ASSUME x[3] = OrderOf(a), a \in Queues \/ ~ HasZero(s) PROVE ReadString(a)[1] = s
    <3>1. CASE a \in Queues
      BY <2>4, <2>5, <3>1, Zenon
    <3>2. CASE a \notin Queues
      <4>1. ~ HasZero(s)
        BY <2>5, <3>2, Zenon
      <4>2. DOMAIN s = 1..Len(s)
        OBVIOUS
      <4>3. \A i \in 1..Len(s) : s[i] # 0
        BY <4>1, <4>2, Zenon DEF HasZero
      <4>4. CText(s) = s
        BY <4>3, CTextIs, Zenon
      <4> QED BY <2>4, <2>5, <3>2, <4>4, Zenon
    <3> QED BY <3>1, <3>2
  <2> QED BY <2>2, <2>3, <2>4, <2>5, Zenon
<1> QED BY <1>1, <1>2, Zenon DEF ItemSet

LEMMA ArrayRead ==
    ASSUME ConstantsOK, ArrayInv, NEW a \in Arrays, NEW type \in Numbers \cup {Text},
           ReadItem(a, type)
    PROVE  ArrayInv'
<1>0. Base \in Nat \ {0} /\ MAX_MSG_LENGTH \in Nat
  BY BaseIs
<1>1. ArrayTypes /\ Sound(a)
  BY Zenon DEF ArrayInv
<1>2. PICK b \in Seq(Bytes) : b = bytes[a]
  BY <1>1, Zenon DEF ArrayTypes
<1>3. PICK p \in Seq(ItemSet) : p = pending[a]
  BY <1>1, Zenon DEF ArrayTypes
<1>4. PICK r : r = ResultOf(a, type)
  OBVIOUS
<1>5. PICK n \in 0..Len(b) : n = r[2]
  BY <1>0, <1>1, <1>2, <1>4, ResultTakes, Zenon
<1>6. PICK item : item = IF p # << >> THEN Head(p)
                         ELSE <<type, IF type = Text THEN << >> ELSE 0, OrderOf(a)>>
  OBVIOUS
<1>7. PICK astray \in BOOLEAN : astray <=> type = Text /\ item[3] # OrderOf(a)
  BY Zenon
<1>8. PICK rest : rest = IF p = << >> \/ astray THEN << >> ELSE Tail(p)
  OBVIOUS
<1>9. /\ type = item[1] /\ endian' = endian
      /\ bytes' = [bytes EXCEPT ![a] = SubSeq(b, n + 1, Len(b))]
      /\ has_read' = [has_read EXCEPT ![a] = IF a \in Queues THEN 0 ELSE has_read[a] + n]
      /\ pending' = [pending EXCEPT ![a] = rest]
      /\ torn' = IF astray THEN torn \cup {a} ELSE torn
      /\ misread' = IF a \in torn \/ r[1] = item[2] THEN None ELSE <<a, item, OrderOf(a), r[1]>>
  BY <1>2, <1>3, <1>4, <1>5, <1>6, <1>7, <1>8, Zenon DEF ReadItem, Take, ResultOf
<1>10. PICK c \in Seq(Bytes) : c = SubSeq(b, n + 1, Len(b)) /\ Len(c) = Len(b) - n
  <2>1. SubSeq(b, n + 1, Len(b)) \in Seq(Bytes)
    OBVIOUS
  <2>2. Len(SubSeq(b, n + 1, Len(b))) = Len(b) - n
    OBVIOUS
  <2> QED BY <2>1, <2>2, Zenon
<1>11. rest \in Seq(ItemSet)
  <2>1. CASE p = << >> \/ astray
    <3>1. << >> \in Seq(ItemSet)
      OBVIOUS
    <3> QED BY <1>8, <2>1, <3>1, Zenon
  <2>2. CASE ~ (p = << >> \/ astray)
    <3>1. Tail(p) \in Seq(ItemSet)
      BY <1>0, <2>2, EncsTail, Zenon
    <3> QED BY <1>8, <2>2, <3>1, Zenon
  <2> QED BY <2>1, <2>2
<1>12. PICK h \in Nat : h = IF a \in Queues THEN 0 ELSE has_read[a] + n
  <2>1. has_read[a] \in Nat /\ n \in Nat
    BY <1>1 DEF ArrayTypes
  <2>2. has_read[a] + n \in Nat /\ 0 \in Nat
    BY <2>1
  <2> QED BY <2>2, Zenon
<1>13. bytes'[a] = c /\ pending'[a] = rest /\ has_read'[a] = h
  BY <1>1, <1>9, <1>10, <1>12, Zenon DEF ArrayTypes
<1>14. \A d \in Arrays \ {a} : bytes'[d] = bytes[d] /\ pending'[d] = pending[d] /\ has_read'[d] = has_read[d]
  BY <1>1, <1>9, Zenon DEF ArrayTypes
<1>15. torn' \subseteq Arrays /\ \A d \in Arrays \ {a} : d \in torn' <=> d \in torn
  BY <1>1, <1>9, Zenon DEF ArrayTypes
<1>16. ArrayTypes'
  <2>1. bytes' \in [Arrays -> Seq(Bytes)]
    BY <1>1, <1>9, <1>10, Zenon DEF ArrayTypes
  <2>2. pending' \in [Arrays -> Seq(ItemSet)]
    BY <1>1, <1>9, <1>11, Zenon DEF ArrayTypes
  <2>3. has_read' \in [Arrays -> Nat]
    BY <1>1, <1>9, <1>12, Zenon DEF ArrayTypes
  <2>4. endian' \in [Arrays -> Orders]
    BY <1>1, <1>9, Zenon DEF ArrayTypes
  <2> QED BY <1>15, <2>1, <2>2, <2>3, <2>4, Zenon DEF ArrayTypes
\* the item at the front, if there is one
<1>17. ASSUME a \notin torn, p # << >>
       PROVE  /\ item \in ItemSet /\ Encoding(item) \in Seq(Bytes)
              /\ At(bytes[a], 1, Encoding(item)) /\ Len(Encoding(item)) <= Len(bytes[a])
              /\ Holds(SubSeq(b, Len(Encoding(item)) + 1, Len(b)), Tail(p))
  <2>1. Holds(b, p)
    BY <1>1, <1>2, <1>3, <1>17, Zenon DEF Sound
  <2>2. item = Head(p)
    BY <1>6, <1>17, Zenon
  <2>3. PICK e : e = Encoding(Head(p))
    OBVIOUS
  <2>4. /\ Head(p) \in ItemSet /\ e \in Seq(Bytes) /\ At(b, 1, e) /\ Len(e) <= Len(b)
        /\ Holds(SubSeq(b, Len(e) + 1, Len(b)), Tail(p))
    BY <1>0, <1>17, <2>1, <2>3, HoldsTail, Zenon
  <2> QED BY <1>2, <2>2, <2>3, <2>4, Zenon
<1>18. ASSUME a \notin torn, p = << >> PROVE b = << >> /\ c = << >> /\ r[1] = item[2]
  <2>1. b = << >>
    <3>1. Holds(b, << >>)
      BY <1>1, <1>2, <1>3, <1>18, Zenon DEF Sound
    <3> QED BY <3>1, HoldsNothing, Zenon
  <2>2. c = << >>
    <3>1. Len(b) = 0
      BY <2>1
    <3>2. Len(c) = 0
      BY <1>10, <3>1
    <3> QED BY <3>2, EmptySeq
  <2>3. PICK v : v = IF type = Text THEN << >> ELSE 0
    OBVIOUS
  <2>4. item = <<type, v, OrderOf(a)>>
    BY <1>6, <1>18, <2>3, Zenon
  <2>5. item[2] = v
    BY <2>4
  <2>6. ASSUME type = Text PROVE r[1] = item[2]
    BY <1>0, <1>1, <1>2, <1>4, <2>1, <2>3, <2>5, <2>6, ReadEmpty, Zenon DEF ResultOf
  <2>7. ASSUME type # Text PROVE r[1] = item[2]
    <3>1. type \in Widths \X BOOLEAN
      BY <2>7, Zenon DEF Numbers
    <3>2. type[1] \in Widths /\ type[2] \in BOOLEAN
      BY <3>1, Zenon
    <3> QED BY <1>0, <1>1, <1>2, <1>4, <2>1, <2>3, <2>5, <2>7, <3>2, ReadEmpty, Zenon DEF ResultOf
  <2> QED BY <2>1, <2>2, <2>6, <2>7
<1>19. ASSUME a \in Statics PROVE has_read'[a] + Len(bytes'[a]) <= MAX_MSG_LENGTH
  <2>1. a \notin Queues
    BY <1>19, Zenon DEF ConstantsOK
  <2>2. PICK k \in Nat : k = has_read[a]
    BY <1>1, Zenon DEF ArrayTypes
  <2>3. k + Len(b) <= MAX_MSG_LENGTH
    BY <1>1, <1>2, <1>19, <2>2, Zenon DEF Sound
  <2>4. h = k + n
    BY <1>12, <2>1, <2>2, Zenon
  <2>5. h + Len(c) <= MAX_MSG_LENGTH
    <3>1. PICK l \in Nat : l = Len(b)
      OBVIOUS
    <3>2. Len(c) = l - n /\ k + l <= MAX_MSG_LENGTH /\ n \in 0..l
      BY <1>10, <2>3, <3>1, Zenon
    <3>3. (k + n) + (l - n) <= MAX_MSG_LENGTH
      BY <1>0, <3>2
    <3> QED BY <2>4, <3>2, <3>3, Zenon
  <2> QED BY <1>13, <2>5, Zenon
<1>20. ASSUME a \notin torn' PROVE Holds(bytes'[a], pending'[a])
  <2>1. a \notin torn /\ ~ astray
    BY <1>9, <1>20, Zenon
  <2>2. CASE p = << >>
    <3>1. c = << >> /\ rest = << >>
      BY <1>8, <1>18, <2>1, <2>2, Zenon
    <3>2. Holds(<< >>, << >>)
      <4>1. << >> \in Seq(Bytes)
        OBVIOUS
      <4> QED BY <4>1, HoldsNothing, Zenon
    <3> QED BY <1>13, <3>1, <3>2, Zenon
  <2>3. CASE p # << >>
    <3>1. item[1] # Text \/ item[3] = OrderOf(a)
      BY <1>7, <1>9, <2>1, Zenon
    <3>2. ResultOf(a, item[1])[2] = Len(Encoding(item))
      BY <1>0, <1>1, <1>17, <2>1, <2>3, <3>1, ReadFront, Zenon
    <3>3. n = Len(Encoding(item))
      BY <1>4, <1>5, <1>9, <3>2, Zenon
    <3>4. rest = Tail(p)
      BY <1>8, <2>1, <2>3, Zenon
    <3> QED BY <1>10, <1>13, <1>17, <2>1, <2>3, <3>3, <3>4, Zenon
  <2> QED BY <2>2, <2>3
<1>21. Sound(a)'
  BY <1>19, <1>20, Zenon DEF Sound
<1>22. ReadsBack'
  <2> SUFFICES ASSUME misread' # None, item[3] = OrderOf(a)
               PROVE  a \in Statics /\ item[1] = Text /\ HasZero(item[2])
    <3>1. CASE misread' = None
      BY <3>1, Zenon DEF ReadsBack
    <3>2. CASE misread' # None
      <4>1. PICK m : m = <<a, item, OrderOf(a), r[1]>>
        OBVIOUS
      <4>2. misread' = m
        BY <1>9, <3>2, <4>1, Zenon
      <4>3. m[1] = a /\ m[2] = item /\ m[3] = OrderOf(a)
        BY <4>1, Zenon
      <4> QED BY <3>2, <4>2, <4>3, Zenon DEF ReadsBack, HasZero
    <3> QED BY <3>1, <3>2
  <2>1. a \notin torn /\ r[1] # item[2]
    BY <1>9, Zenon
  <2>2. p # << >>
    BY <1>18, <2>1, Zenon
  <2>3. \/ ResultOf(a, item[1])[1] = item[2]
        \/ a \notin Queues /\ item[1] = Text /\ HasZero(item[2])
    BY <1>0, <1>1, <1>17, <2>1, <2>2, ReadFront, Zenon
  <2>4. a \in Statics \/ a \in Queues
    BY Zenon DEF Arrays
  <2> QED BY <1>4, <1>9, <2>1, <2>3, <2>4, Zenon
<1>23. {a} \in SUBSET Arrays /\ \A d \in {a} : Sound(d)'
  BY <1>21, Zenon
<1> QED BY <1>14, <1>15, <1>16, <1>22, <1>23, ArrayFrame, Zenon

-----------------------------------------------------------------------------
LEMMA Untroubled == ASSUME misread' = None PROVE ReadsBack'
  BY Zenon DEF ReadsBack

LEMMA ArrayMove ==
    ASSUME ConstantsOK, ArrayInv, NEW a \in Arrays, NEW b \in Arrays, a # b,
           NEW old \in Seq(Bytes), NEW read \in Nat, NEW items \in Seq(ItemSet), Holds(old, items),
           a \in Statics => read + Len(old) <= MAX_MSG_LENGTH,
           misread' = None, Move(a, b, old, read, items)
    PROVE  ArrayInv'
<1>0. Base \in Nat \ {0} /\ MAX_MSG_LENGTH \in Nat
  BY BaseIs
<1>1. ArrayTypes /\ Sound(b)
  BY Zenon DEF ArrayInv
<1>2. PICK fits \in BOOLEAN :
         fits <=> a \in Queues \/ read + Len(old) + Len(bytes[b]) <= MAX_MSG_LENGTH
  BY Zenon
<1>3. PICK c \in Seq(Bytes) : c = bytes[b]
  BY <1>1, Zenon DEF ArrayTypes
<1>4. PICK p \in Seq(ItemSet) : p = pending[b]
  BY <1>1, Zenon DEF ArrayTypes
<1>5. PICK d \in Seq(Bytes) : d = IF fits THEN old \o c ELSE old
  <2>1. old \o c \in Seq(Bytes)
    BY ConcatProperties
  <2> QED BY <2>1, Zenon
<1>6. PICK q \in Seq(ItemSet) : q = IF fits THEN items \o p ELSE items
  <2>1. items \o p \in Seq(ItemSet)
    BY ConcatProperties
  <2> QED BY <2>1, Zenon
<1>7. PICK h \in Nat : h = IF b \in Queues THEN 0 ELSE has_read[b] + Len(bytes[b])
  <2>1. has_read[b] \in Nat /\ Len(bytes[b]) \in Nat
    BY <1>1 DEF ArrayTypes
  <2>2. has_read[b] + Len(bytes[b]) \in Nat /\ 0 \in Nat
    BY <2>1
  <2> QED BY <2>2, Zenon
<1>8. << >> \in Seq(Bytes) /\ << >> \in Seq(ItemSet) /\ Len(<< >>) = 0
  OBVIOUS
<1>9. /\ bytes' = [bytes EXCEPT ![a] = d, ![b] = << >>]
      /\ has_read' = [has_read EXCEPT ![a] = read, ![b] = h]
      /\ pending' = [pending EXCEPT ![a] = q, ![b] = << >>]
      /\ torn' = (torn \ {a, b}) \cup (IF fits /\ b \in torn THEN {a} ELSE {})
      /\ endian' = endian
  BY <1>2, <1>3, <1>4, <1>5, <1>6, <1>7, Zenon DEF Move, BytesAvailable, has_write
<1>10. /\ bytes'[a] = d /\ pending'[a] = q /\ has_read'[a] = read
       /\ bytes'[b] = << >> /\ pending'[b] = << >> /\ has_read'[b] = h
  BY <1>1, <1>9 DEF ArrayTypes
<1>11. \A e \in Arrays \ {a, b} :
          bytes'[e] = bytes[e] /\ pending'[e] = pending[e] /\ has_read'[e] = has_read[e]
  BY <1>1, <1>9 DEF ArrayTypes
<1>12. torn' \subseteq Arrays /\ \A e \in Arrays \ {a, b} : e \in torn' <=> e \in torn
  BY <1>1, <1>9, Zenon DEF ArrayTypes
<1>13. ArrayTypes'
  <2>1. bytes' \in [Arrays -> Seq(Bytes)]
    BY <1>1, <1>8, <1>9 DEF ArrayTypes
  <2>2. pending' \in [Arrays -> Seq(ItemSet)]
    BY <1>1, <1>8, <1>9 DEF ArrayTypes
  <2>3. has_read' \in [Arrays -> Nat]
    BY <1>1, <1>9 DEF ArrayTypes
  <2>4. endian' \in [Arrays -> Orders]
    BY <1>1, <1>9, Zenon DEF ArrayTypes
  <2> QED BY <1>12, <2>1, <2>2, <2>3, <2>4, Zenon DEF ArrayTypes
<1>14. Sound(b)'
  <2>1. Holds(<< >>, << >>)
    BY <1>8, HoldsNothing, Zenon
  <2>2. ASSUME b \in Statics PROVE has_read'[b] + Len(bytes'[b]) <= MAX_MSG_LENGTH
    <3>1. b \notin Queues
      BY <2>2, Zenon DEF ConstantsOK
    <3>2. h = has_read[b] + Len(bytes[b]) /\ has_read[b] + Len(bytes[b]) <= MAX_MSG_LENGTH
      BY <1>1, <1>7, <2>2, <3>1, Zenon DEF Sound
    <3>3. h + 0 = h
      OBVIOUS
    <3> QED BY <1>8, <1>10, <3>2, <3>3, Zenon
  <2> QED BY <1>10, <2>1, <2>2, Zenon DEF Sound
<1>15. Sound(a)'
  <2>1. ASSUME a \in Statics PROVE read + Len(d) <= MAX_MSG_LENGTH
    <3>1. a \notin Queues
      BY <2>1, Zenon DEF ConstantsOK
    <3>2. CASE fits
      <4>1. read + Len(old) + Len(c) <= MAX_MSG_LENGTH
        BY <1>2, <1>3, <3>1, <3>2, Zenon
      <4>2. Len(d) = Len(old) + Len(c)
        BY <1>5, <3>2, ConcatProperties
      <4>3. Len(old) \in Nat /\ Len(c) \in Nat
        OBVIOUS
      <4> QED BY <1>0, <4>1, <4>2, <4>3
    <3>3. CASE ~ fits
      BY <1>5, <2>1, <3>3, Zenon
    <3> QED BY <3>2, <3>3
  <2>2. ASSUME a \notin torn' PROVE Holds(d, q)
    <3>1. CASE fits
      <4>1. b \notin torn
        BY <1>9, <2>2, <3>1, Zenon
      <4>2. Holds(c, p)
        BY <1>1, <1>3, <1>4, <4>1, Zenon DEF Sound
      <4>3. Holds(old \o c, items \o p)
        BY <1>0, <4>2, HoldsConcat
      <4> QED BY <1>5, <1>6, <3>1, <4>3, Zenon
    <3>2. CASE ~ fits
      BY <1>5, <1>6, <3>2, Zenon
    <3> QED BY <3>1, <3>2
  <2> QED BY <1>10, <2>1, <2>2, Zenon DEF Sound
<1>16. {a, b} \in SUBSET Arrays /\ \A e \in {a, b} : Sound(e)'
  BY <1>14, <1>15, Zenon
<1>17. ReadsBack'
  BY Untroubled
<1> QED BY <1>11, <1>12, <1>13, <1>16, <1>17, ArrayFrame, Zenon

LEMMA ArrayMovePart ==
    ASSUME ConstantsOK, ArrayInv, NEW a \in Arrays, NEW b \in Arrays, a # b, a \notin torn,
           NEW n \in 1..(BytesAvailable(b) - 1), misread' = None, MovePart(a, b, n)
    PROVE  ArrayInv'
<1>0. Base \in Nat \ {0} /\ MAX_MSG_LENGTH \in Nat
  BY BaseIs
<1>1. ArrayTypes /\ Sound(a) /\ Sound(b)
  BY Zenon DEF ArrayInv
<1>2. PICK o \in Seq(Bytes) : o = bytes[a]
  BY <1>1, Zenon DEF ArrayTypes
<1>3. PICK c \in Seq(Bytes) : c = bytes[b]
  BY <1>1, Zenon DEF ArrayTypes
<1>4. PICK q \in Seq(ItemSet) : q = pending[a]
  BY <1>1, Zenon DEF ArrayTypes
<1>5. PICK p \in Seq(ItemSet) : p = pending[b]
  BY <1>1, Zenon DEF ArrayTypes
<1>6. PICK r \in Nat : r = has_read[a]
  BY <1>1, Zenon DEF ArrayTypes
<1>7. PICK t \in Nat : t = has_read[b]
  BY <1>1, Zenon DEF ArrayTypes
<1>8. n \in Nat /\ n > 0 /\ n < Len(c) /\ Len(c) \in Nat
  BY <1>3 DEF BytesAvailable
<1>9. PICK fits \in BOOLEAN : fits <=> a \in Queues \/ r + Len(o) + n <= MAX_MSG_LENGTH
  BY Zenon
<1>10. PICK whole \in BOOLEAN : whole <=> b \notin torn /\ p # << >> /\ n = Len(Encoding(Head(p)))
  BY Zenon
<1>11. PICK first, rest \in Seq(Bytes) :
          /\ first = SubSeq(c, 1, n) /\ rest = SubSeq(c, n + 1, Len(c))
          /\ Len(first) = n /\ Len(rest) = Len(c) - n
          /\ \A i \in 1..n : first[i] = c[i]
  <2>1. SubSeq(c, 1, n) \in Seq(Bytes) /\ SubSeq(c, n + 1, Len(c)) \in Seq(Bytes)
    BY <1>8
  <2>2. Len(SubSeq(c, 1, n)) = n /\ Len(SubSeq(c, n + 1, Len(c))) = Len(c) - n
    BY <1>8
  <2>3. \A i \in 1..n : SubSeq(c, 1, n)[i] = c[i]
    BY <1>8
  <2> QED BY <2>1, <2>2, <2>3, Zenon
<1>12. whole => /\ b \notin torn /\ p # << >> /\ Head(p) \in ItemSet /\ Tail(p) \in Seq(ItemSet)
                /\ first = Encoding(Head(p)) /\ Holds(rest, Tail(p))
  <2> SUFFICES ASSUME whole
               PROVE  /\ b \notin torn /\ p # << >> /\ Head(p) \in ItemSet /\ Tail(p) \in Seq(ItemSet)
                      /\ first = Encoding(Head(p)) /\ Holds(rest, Tail(p))
    OBVIOUS
  <2>1. b \notin torn /\ p # << >> /\ n = Len(Encoding(Head(p)))
    BY <1>10, Zenon
  <2>2. Holds(c, p)
    BY <1>1, <1>3, <1>5, <2>1, Zenon DEF Sound
  <2>3. PICK e : e = Encoding(Head(p))
    BY Zenon
  <2>4. /\ Head(p) \in ItemSet /\ Tail(p) \in Seq(ItemSet)
        /\ e \in Seq(Bytes) /\ At(c, 1, e) /\ Len(e) <= Len(c)
        /\ SubSeq(c, Len(e) + 1, Len(c)) \in Seq(Bytes)
        /\ Holds(SubSeq(c, Len(e) + 1, Len(c)), Tail(p))
    BY <1>0, <2>1, <2>2, <2>3, HoldsTail, Zenon
  <2>5. Len(e) = n
    BY <2>1, <2>3, Zenon
  <2>6. first = e
    <3>1. \A i \in 1..n : c[i] = e[i]
      BY <1>8, <2>4, <2>5 DEF At
    <3> QED BY <1>11, <2>4, <2>5, <3>1, SeqEqual
  <2> QED BY <1>11, <2>1, <2>3, <2>4, <2>5, <2>6, Zenon
<1>13. PICK d \in Seq(Bytes) : d = IF fits THEN o \o first ELSE o
  <2>1. o \o first \in Seq(Bytes)
    BY ConcatProperties
  <2> QED BY <2>1, Zenon
<1>14. PICK j \in Seq(ItemSet) : j = IF ~ fits THEN q ELSE IF whole THEN Append(q, Head(p)) ELSE << >>
  <2>1. << >> \in Seq(ItemSet)
    OBVIOUS
  <2>2. CASE whole
    <3>1. Head(p) \in ItemSet
      BY <1>12, <2>2
    <3>2. Append(q, Head(p)) \in Seq(ItemSet)
      BY <3>1
    <3> QED BY <2>1, <3>2, Zenon
  <2>3. CASE ~ whole
    BY <2>1, <2>3, Zenon
  <2> QED BY <2>2, <2>3
<1>15. PICK k \in Seq(ItemSet) : k = IF whole THEN Tail(p) ELSE << >>
  <2>1. << >> \in Seq(ItemSet)
    OBVIOUS
  <2> QED BY <1>12, <2>1, Zenon
<1>16. PICK h \in Nat : h = IF b \in Queues THEN 0 ELSE t + n
  <2>1. t + n \in Nat /\ 0 \in Nat
    BY <1>8
  <2> QED BY <2>1, Zenon
<1>17. /\ bytes' = [bytes EXCEPT ![a] = d, ![b] = rest]
       /\ has_read' = [has_read EXCEPT ![b] = h]
       /\ pending' = [pending EXCEPT ![a] = j, ![b] = k]
       /\ torn' = IF whole THEN torn ELSE torn \cup {b} \cup (IF fits THEN {a} ELSE {})
       /\ endian' = endian
  <2>1. (a \in Queues \/ HasRoom(a, n)) <=> fits
    BY <1>2, <1>6, <1>9, Zenon DEF HasRoom, has_write
  <2>2. (b \notin torn /\ pending[b] # << >> /\ n = Len(Encoding(Head(pending[b])))) <=> whole
    BY <1>5, <1>10, Zenon
  <2>3. bytes' = [bytes EXCEPT ![a] = d, ![b] = rest]
    <3>1. bytes' = [bytes EXCEPT ![a] = IF fits THEN bytes[a] \o SubSeq(bytes[b], 1, n) ELSE bytes[a],
                                 ![b] = SubSeq(bytes[b], n + 1, Len(bytes[b]))]
      <4>1. bytes' = [bytes EXCEPT ![a] = IF fits THEN @ \o SubSeq(bytes[b], 1, n) ELSE @,
                                   ![b] = SubSeq(@, n + 1, Len(@))]
        BY <2>1, Zenon DEF MovePart
      <4> QED BY <1>1, <4>1 DEF ArrayTypes
    <3> QED BY <1>2, <1>3, <1>11, <1>13, <3>1, Zenon
  <2>4. has_read' = [has_read EXCEPT ![b] = h]
    <3>1. has_read' = [has_read EXCEPT ![b] = IF b \in Queues THEN 0 ELSE @ + n]
      BY Zenon DEF MovePart
    <3> QED BY <1>1, <1>7, <1>16, <3>1 DEF ArrayTypes
  <2>5. pending' = [pending EXCEPT ![a] = j, ![b] = k]
    <3>1. pending' = [pending EXCEPT ![a] = IF ~ fits THEN @
                                            ELSE IF whole THEN Append(@, Head(pending[b])) ELSE << >>,
                                     ![b] = IF whole THEN Tail(@) ELSE << >>]
      BY <2>1, <2>2, Zenon DEF MovePart
    <3>2. pending' = [pending EXCEPT ![a] = IF ~ fits THEN pending[a]
                                            ELSE IF whole THEN Append(pending[a], Head(pending[b]))
                                            ELSE << >>,
                                     ![b] = IF whole THEN Tail(pending[b]) ELSE << >>]
      BY <1>1, <3>1 DEF ArrayTypes
    <3> QED BY <1>4, <1>5, <1>14, <1>15, <3>2, Zenon
  <2> QED BY <2>1, <2>2, <2>3, <2>4, <2>5, Zenon DEF MovePart
<1>18. /\ bytes'[a] = d /\ pending'[a] = j /\ has_read'[a] = r
       /\ bytes'[b] = rest /\ pending'[b] = k /\ has_read'[b] = h
  BY <1>1, <1>6, <1>17 DEF ArrayTypes
<1>19. \A e \in Arrays \ {a, b} :
          bytes'[e] = bytes[e] /\ pending'[e] = pending[e] /\ has_read'[e] = has_read[e]
  BY <1>1, <1>17 DEF ArrayTypes
<1>20. torn' \subseteq Arrays /\ \A e \in Arrays \ {a, b} : e \in torn' <=> e \in torn
  BY <1>1, <1>17, Zenon DEF ArrayTypes
<1>21. ArrayTypes'
  <2>1. bytes' \in [Arrays -> Seq(Bytes)]
    BY <1>1, <1>17 DEF ArrayTypes
  <2>2. pending' \in [Arrays -> Seq(ItemSet)]
    BY <1>1, <1>17 DEF ArrayTypes
  <2>3. has_read' \in [Arrays -> Nat]
    BY <1>1, <1>17 DEF ArrayTypes
  <2>4. endian' \in [Arrays -> Orders]
    BY <1>1, <1>17, Zenon DEF ArrayTypes
  <2> QED BY <1>20, <2>1, <2>2, <2>3, <2>4, Zenon DEF ArrayTypes
<1>22. Sound(b)'
  <2>1. ASSUME b \in Statics PROVE h + Len(rest) <= MAX_MSG_LENGTH
    <3>1. b \notin Queues
      BY <2>1, Zenon DEF ConstantsOK
    <3>2. h = t + n /\ t + Len(c) <= MAX_MSG_LENGTH
      BY <1>1, <1>3, <1>7, <1>16, <2>1, <3>1, Zenon DEF Sound
    <3>3. Len(rest) = Len(c) - n
      BY <1>11, Zenon
    <3>4. (t + n) + (Len(c) - n) = t + Len(c)
      BY <1>8
    <3> QED BY <3>2, <3>3, <3>4, Zenon
  <2>2. ASSUME b \notin torn' PROVE Holds(rest, k)
    <3>1. whole
      BY <1>17, <2>2, Zenon
    <3> QED BY <1>12, <1>15, <3>1, Zenon
  <2> QED BY <1>18, <2>1, <2>2, Zenon DEF Sound
<1>23. Sound(a)'
  <2>1. ASSUME a \in Statics PROVE r + Len(d) <= MAX_MSG_LENGTH
    <3>1. a \notin Queues
      BY <2>1, Zenon DEF ConstantsOK
    <3>2. CASE fits
      <4>1. r + Len(o) + n <= MAX_MSG_LENGTH
        BY <1>9, <3>1, <3>2, Zenon
      <4>2. Len(d) = Len(o) + n
        BY <1>11, <1>13, <3>2, ConcatProperties
      <4>3. Len(o) \in Nat
        OBVIOUS
      <4> QED BY <1>0, <1>8, <4>1, <4>2, <4>3
    <3>3. CASE ~ fits
      BY <1>1, <1>2, <1>6, <1>13, <2>1, <3>3, Zenon DEF Sound
    <3> QED BY <3>2, <3>3
  <2>2. ASSUME a \notin torn' PROVE Holds(d, j)
    <3>1. Holds(o, q)
      BY <1>1, <1>2, <1>4, Zenon DEF Sound
    <3>2. CASE fits
      <4>1. whole
        BY <1>17, <2>2, <3>2, Zenon
      <4>2. PICK x \in ItemSet : x = Head(p) /\ first = Encoding(x)
        BY <1>12, <4>1, Zenon
      <4>3. Holds(o \o Encoding(x), Append(q, x))
        BY <1>0, <3>1, HoldsAppend, Zenon
      <4> QED BY <1>13, <1>14, <3>2, <4>1, <4>2, <4>3, Zenon
    <3>3. CASE ~ fits
      BY <1>13, <1>14, <3>1, <3>3, Zenon
    <3> QED BY <3>2, <3>3
  <2> QED BY <1>18, <2>1, <2>2, Zenon DEF Sound
<1>24. {a, b} \in SUBSET Arrays /\ \A e \in {a, b} : Sound(e)'
  BY <1>22, <1>23, Zenon
<1>25. ReadsBack'
  BY Untroubled
<1> QED BY <1>19, <1>20, <1>21, <1>24, <1>25, ArrayFrame, Zenon

LEMMA ArrayReadFromByteArray ==
    ASSUME ConstantsOK, ArrayInv, NEW a \in Arrays, NEW b \in Arrays, NEW len,
           ReadFromByteArray(a, b, len)
    PROVE  ArrayInv'
<1>1. a # b /\ a \notin torn /\ misread' = None
  BY Zenon DEF ReadFromByteArray
<1>2. ArrayTypes /\ Sound(a) /\ \A c \in Arrays : Sound(c)
  BY Zenon DEF ArrayInv
<1>3. CASE UNCHANGED <<bytes, has_read, endian, pending, torn>>
  <2>1. ArrayTypes' /\ ReadsBack'
    BY <1>1, <1>2, <1>3, Untroubled, Zenon DEF ArrayTypes
  <2>2. {} \in SUBSET Arrays /\ \A c \in {} : Sound(c)'
    BY Zenon
  <2> QED BY <1>3, <2>1, <2>2, ArrayFrame, Zenon
<1>4. CASE Move(a, b, bytes[a], has_read[a], pending[a])
  <2>1. bytes[a] \in Seq(Bytes) /\ has_read[a] \in Nat /\ pending[a] \in Seq(ItemSet)
    BY <1>2, Zenon DEF ArrayTypes
  <2>2. Holds(bytes[a], pending[a]) /\ (a \in Statics => has_read[a] + Len(bytes[a]) <= MAX_MSG_LENGTH)
    BY <1>1, <1>2, Zenon DEF Sound
  <2> QED BY <1>1, <1>4, <2>1, <2>2, ArrayMove, Zenon
<1>5. CASE len \in 1..(BytesAvailable(b) - 1) /\ MovePart(a, b, len)
  BY <1>1, <1>5, ArrayMovePart, Zenon
<1> QED BY <1>3, <1>4, <1>5, Zenon DEF ReadFromByteArray

\* Array a is empty afterwards.
LEMMA ArrayEmptied ==
    ASSUME ConstantsOK, ArrayInv, NEW a \in Arrays,
           bytes' = [bytes EXCEPT ![a] = << >>], has_read' = [has_read EXCEPT ![a] = 0],
           pending' = [pending EXCEPT ![a] = << >>], torn' = torn \ {a}, endian' = endian, misread' = None
    PROVE  ArrayInv'
<1>1. ArrayTypes
  BY Zenon DEF ArrayInv
<1>2. << >> \in Seq(Bytes) /\ << >> \in Seq(ItemSet) /\ Len(<< >>) = 0 /\ 0 \in Nat
  OBVIOUS
<1>3. bytes' \in [Arrays -> Seq(Bytes)] /\ pending' \in [Arrays -> Seq(ItemSet)]
  BY <1>1, <1>2, Zenon DEF ArrayTypes
<1>4. ArrayTypes'
  BY <1>1, <1>2, <1>3, Zenon DEF ArrayTypes
<1>5. bytes'[a] = << >> /\ pending'[a] = << >> /\ has_read'[a] = 0
  BY <1>1, Zenon DEF ArrayTypes
<1>6. Holds(<< >>, << >>)
  BY <1>2, HoldsNothing, Zenon
<1>7. has_read'[a] + Len(bytes'[a]) <= MAX_MSG_LENGTH
  BY <1>5, BaseIs
<1>8. Sound(a)'
  BY <1>5, <1>6, <1>7, Zenon DEF Sound
<1>9. {a} \in SUBSET Arrays /\ \A c \in {a} : Sound(c)'
  BY <1>8, Zenon
<1>10. \A c \in Arrays \ {a} : /\ bytes'[c] = bytes[c] /\ has_read'[c] = has_read[c]
                                     /\ pending'[c] = pending[c] /\ (c \in torn' <=> c \in torn)
  BY <1>1, Zenon DEF ArrayTypes
<1> QED BY <1>4, <1>9, <1>10, Untroubled, ArrayFrame, Zenon

LEMMA ArrayAssign ==
    ASSUME ConstantsOK, ArrayInv, NEW a \in Arrays, NEW b \in Arrays, Assign(a, b)
    PROVE  ArrayInv'
<1>1. a # b /\ misread' = None
  BY Zenon DEF Assign
<1>2. CASE Move(a, b, << >>, 0, << >>)
  <2>1. << >> \in Seq(Bytes) /\ << >> \in Seq(ItemSet) /\ 0 \in Nat
    OBVIOUS
  <2>2. Holds(<< >>, << >>)
    BY <2>1, HoldsNothing, Zenon
  <2>3. 0 + Len(<< >>) <= MAX_MSG_LENGTH
    BY BaseIs
  <2> QED BY <1>1, <1>2, <2>1, <2>2, <2>3, ArrayMove, Zenon
<1>3. CASE ~ Move(a, b, << >>, 0, << >>)
  <2>1. /\ bytes' = [bytes EXCEPT ![a] = << >>] /\ has_read' = [has_read EXCEPT ![a] = 0]
        /\ pending' = [pending EXCEPT ![a] = << >>] /\ torn' = torn \ {a} /\ endian' = endian
    BY <1>3, Zenon DEF Assign, Cleared
  <2> QED BY <1>1, <2>1, ArrayEmptied, Zenon
<1> QED BY <1>2, <1>3

\* Only the byte order of array a changes.
LEMMA ArrayEndian ==
    ASSUME ArrayInv, NEW a \in Arrays, NEW order \in Orders, endian' = [endian EXCEPT ![a] = order],
           misread' = None, UNCHANGED <<bytes, has_read, pending, torn>>
    PROVE  ArrayInv'
<1>1. ArrayTypes
  BY Zenon DEF ArrayInv
<1>2. ArrayTypes'
  BY <1>1, Zenon DEF ArrayTypes
<1>3. {} \in SUBSET Arrays /\ \A c \in {} : Sound(c)'
  BY Zenon
<1> QED BY <1>2, <1>3, Untroubled, ArrayFrame, Zenon

LEMMA ArrayNext == ASSUME ConstantsOK PROVE ArrayInv /\ [ArraysNext]_arrayVars => ArrayInv'
<1> SUFFICES ASSUME ArrayInv, [ArraysNext]_arrayVars PROVE ArrayInv'
  OBVIOUS
<1>1. ASSUME NEW a \in Arrays, WriteItem(a) PROVE ArrayInv'
  <2>1. ASSUME NEW w \in Widths, NEW signed \in BOOLEAN, NEW u \in Bits[<<w, signed>>],
               WriteNumber(a, w, signed, FromBits(u, w, signed))
        PROVE  ArrayInv'
    BY <2>1, ArrayWriteNumber, Zenon
  <2>2. ASSUME NEW s \in Strings,
               IF a \in Queues THEN WriteQueueString(a, s) ELSE WriteStaticString(a, s)
        PROVE  ArrayInv'
    BY <2>2, ArrayWriteString, Zenon
  <2> QED BY <1>1, <2>1, <2>2, Zenon DEF WriteItem
<1>2. ASSUME NEW a \in Arrays, Clear(a) PROVE ArrayInv'
  BY <1>2, ArrayEmptied, Zenon DEF Clear
<1>3. ASSUME NEW a \in Arrays, NEW type \in Numbers \cup {Text}, ReadItem(a, type)
      PROVE  ArrayInv'
  BY <1>3, ArrayRead, Zenon
<1>4. ASSUME NEW a \in Queues, NEW order \in Orders, SetEndian(a, order) PROVE ArrayInv'
  <2>1. a \in Arrays
    BY Zenon DEF Arrays
  <2>2. /\ endian' = [endian EXCEPT ![a] = order] /\ misread' = None
        /\ UNCHANGED <<bytes, has_read, pending, torn>>
    BY <1>4, Zenon DEF SetEndian
  <2> QED BY <2>1, <2>2, ArrayEndian, Zenon
<1>5. ASSUME NEW a \in Arrays, NEW b \in Arrays, Assign(a, b) PROVE ArrayInv'
  BY <1>5, ArrayAssign, Zenon
<1>6. ASSUME NEW a \in Arrays, NEW b \in Arrays, AssignInterface(a, b) PROVE ArrayInv'
  <2>1. PICK order \in Orders : order = endian[b]
    BY Zenon DEF ArrayInv, ArrayTypes
  <2>2. /\ endian' = [endian EXCEPT ![a] = order] /\ misread' = None
        /\ UNCHANGED <<bytes, has_read, pending, torn>>
    BY <1>6, <2>1, Zenon DEF AssignInterface
  <2> QED BY <2>2, ArrayEndian, Zenon
<1>7. ASSUME NEW a \in Arrays, NEW b \in Arrays, NEW len, ReadFromByteArray(a, b, len)
      PROVE  ArrayInv'
  BY <1>7, ArrayReadFromByteArray, Zenon
<1>8. CASE UNCHANGED arrayVars
  <2>1. /\ bytes' = bytes /\ has_read' = has_read /\ endian' = endian /\ pending' = pending
        /\ torn' = torn /\ misread' = misread
    BY <1>8, Zenon DEF arrayVars
  <2>2. ArrayTypes' /\ ReadsBack'
    <3>1. ArrayTypes /\ ReadsBack
      BY Zenon DEF ArrayInv
    <3>2. ArrayTypes'
      BY <2>1, <3>1, Zenon DEF ArrayTypes
    <3>3. ReadsBack'
      BY <2>1, <3>1, Zenon DEF ReadsBack
    <3> QED BY <3>2, <3>3
  <2>3. {} \in SUBSET Arrays /\ \A c \in {} : Sound(c)'
    BY Zenon
  <2> QED BY <2>1, <2>2, <2>3, ArrayFrame, Zenon
<1>9. CASE ArraysNext
  BY <1>1, <1>2, <1>3, <1>4, <1>5, <1>6, <1>7, <1>9, Zenon DEF ArraysNext, Orders
<1> QED BY <1>8, <1>9, Zenon

LEMMA SoundArrays == ASSUME ConstantsOK PROVE ArrayInv => BytesAreItems
<1> SUFFICES ASSUME ArrayInv PROVE BytesAreItems
  OBVIOUS
<1>0. ArrayTypes /\ Base \in Nat \ {0}
  BY BaseIs, Zenon DEF ArrayInv
<1>1. ASSUME NEW a \in Statics PROVE has_write(a) <= MAX_MSG_LENGTH
  <2>1. a \in Arrays
    BY Zenon DEF Arrays
  <2> QED BY <2>1, Zenon DEF ArrayInv, Sound, has_write
<1>2. ASSUME NEW a \in Arrays \ torn
      PROVE  bytes[a] = FlattenSeq([i \in 1..Len(pending[a]) |-> Encoding(pending[a][i])])
  <2>1. bytes[a] \in Seq(Bytes) /\ pending[a] \in Seq(ItemSet)
    BY <1>0, Zenon DEF ArrayTypes
  <2>2. Encs(pending[a]) \in Seq(Seq(Bytes))
    BY <1>0, <2>1, EncsIs, Zenon
  <2>3. Glued(bytes[a], Encs(pending[a]))
    BY Zenon DEF ArrayInv, Sound, Holds
  <2>4. bytes[a] = FlattenSeq(Encs(pending[a]))
    BY <2>1, <2>2, <2>3, GluedFlat, Zenon
  <2> QED BY <2>4, Zenon DEF Encs
<1> QED BY <1>1, <1>2, Zenon DEF BytesAreItems

\* ByteArray: the unread bytes of an array are its items one after the other,
\* each in the byte order it was written in, through writes, reads, takeovers
\* and assignments of arrays; and no StaticByteArray is filled past its end.
THEOREM UnreadBytes == ArraysSpec => []BytesAreItems
<1>1. ArraysInit => ArrayInv
  BY InitArrayInv, ByteArrayAssumption
<1>2. ArrayInv /\ [ArraysNext]_arrayVars => ArrayInv'
  BY ArrayNext, ByteArrayAssumption
<1>3. ArrayInv => BytesAreItems
  BY SoundArrays, ByteArrayAssumption
<1> QED BY <1>1, <1>2, <1>3, PTL DEF ArraysSpec

\* ByteArray: Read* returns what Write* was given, for every width, sign and
\* byte order, also where the array has lost, moved or taken over bytes in
\* between; only another byte order, or a 0 byte in the string of a fixed
\* buffer, makes a difference.
THEOREM WrittenIsRead == ArraysSpec => []ReadsBack
<1>1. ArraysInit => ArrayInv
  BY InitArrayInv, ByteArrayAssumption
<1>2. ArrayInv /\ [ArraysNext]_arrayVars => ArrayInv'
  BY ArrayNext, ByteArrayAssumption
<1>3. ArrayInv => ReadsBack
  BY DEF ArrayInv
<1> QED BY <1>1, <1>2, <1>3, PTL DEF ArraysSpec

=============================================================================
