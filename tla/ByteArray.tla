------------------------------ MODULE ByteArray ------------------------------
(***************************************************************************)
(* The two implementations of ByteArray: QueueByteArray, a deque of bytes  *)
(* that turns numbers into bytes by halves in the byte order set for it,   *)
(* and StaticByteArray, a fixed buffer written and read from its start in  *)
(* the byte order of the host, which is little endian.  Serializers write  *)
(* items and read them back in the same order; arrays take over the bytes  *)
(* of other arrays.                                                        *)
(*                                                                         *)
(* A byte is a number below Base (256 in the code).  A number type is its  *)
(* width in bytes and its sign; float and double are the unsigned numbers  *)
(* of their bits, as TransformType makes them (what it reads beyond a      *)
(* float or an int is cut off again by the 32-bit result).  WriteObject    *)
(* and ReadObject of single objects are uninterpreted bytes and appear     *)
(* where arrays use them on each other.                                    *)
(***************************************************************************)
EXTENDS Integers, Sequences, FiniteSets, SequencesExt

CONSTANTS Queues, Statics,   \* the arrays
          Base,
          MAX_MSG_LENGTH,    \* of the buffer of a StaticByteArray
          Bits,              \* Bits[<<w, signed>>]: the numbers written, as bit patterns of w bytes
          Strings,           \* the strings written
          MaxItems,          \* bound: items in all arrays; a torn array gets no more
          None

Arrays == Queues \cup Statics
Widths == {1, 2, 4, 8}
Numbers == Widths \X BOOLEAN   \* width and sign
Text == <<0, FALSE>>           \* stands for a string

Power[n \in 0..8] == IF n = 0 THEN 1 ELSE Base * Power[n - 1]   \* of Base

ConstantsOK ==
    /\ Queues \cap Statics = {}
    /\ Base \in Nat /\ Base > 1 /\ Base % 2 = 0
    /\ MAX_MSG_LENGTH \in Nat
    /\ DOMAIN Bits = Numbers /\ \A type \in Numbers : Bits[type] \subseteq 0..(Power[type[1]] - 1)
    /\ \A s \in Strings : s \in Seq(0..(Base - 1))
ASSUME ByteArrayAssumption == ConstantsOK

VARIABLES bytes,      \* bytes_queue_; in buffer_cache_, what is written and not yet read
          has_read,   \* has_read_length_; 0 for a queue
          endian,     \* cur_endian_; a fixed buffer never looks at it
          pending,    \* ghost: the items in the unread bytes, <<type, value, order>>
          torn,       \* ghost: arrays whose bytes are not whole items any more: after a string
                      \* too long for its length, one whose length was read in another order, or
                      \* a part that is no item taken over
          misread     \* ghost: <<array, item, order, result>> if the last step was a read that went wrong

arrayVars == <<bytes, has_read, endian, pending, torn, misread>>

BytesAvailable(a) == Len(bytes[a])
has_write(a) == has_read[a] + Len(bytes[a])   \* has_write_length_

\* The byte order in which an array writes and reads.
OrderOf(a) == IF a \in Queues THEN endian[a] ELSE "little"

ArraysInit ==
    /\ bytes = [a \in Arrays |-> << >>] /\ has_read = [a \in Arrays |-> 0]
    /\ endian = [a \in Arrays |-> "little"]
    /\ pending = [a \in Arrays |-> << >>] /\ torn = {}
    /\ misread = None

-----------------------------------------------------------------------------
(* Numbers as bytes. *)

\* Conversions between a number and its bits.
ToBits(v, w) == v % Power[w]
FromBits(u, w, signed) == IF signed /\ 2 * u >= Power[w] THEN u - Power[w] ELSE u

InOrder(order, high, low) == IF order = "big" THEN high \o low ELSE low \o high

WriteUint8(v) == <<v % Base>>
WriteUint16(v, order) == InOrder(order, WriteUint8(v \div Base), WriteUint8(v % Base))

\* Faulty variant: the halves are always in big endian order.
HighFirst(v, order) ==
    InOrder("big", WriteUint16(v \div Power[2], order), WriteUint16(v % Power[2], order))

WriteUint32(v, order) ==
    InOrder(order, WriteUint16(v \div Power[2], order),
                   WriteUint16(((v * Power[2]) % Power[4]) \div Power[2], order))
WriteUint64(v, order) ==
    InOrder(order, WriteUint32(v \div Power[4], order),
                   WriteUint32(((v * Power[4]) % Power[8]) \div Power[4], order))

Join(order, left, right, unit) ==
    IF order = "big" THEN left * unit + right ELSE left + right * unit

\* Reads from position i; beyond the end a byte is 0.
ReadUint8(q, i) == IF i <= Len(q) THEN q[i] ELSE 0
ReadUint16(q, i, order) == Join(order, ReadUint8(q, i), ReadUint8(q, i + 1), Base)

\* Faulty variant: the unit of the halves is that of a byte.
NarrowJoin(q, i, order) == Join(order, ReadUint16(q, i, order), ReadUint16(q, i + 2, order), Base)

ReadUint32(q, i, order) == Join(order, ReadUint16(q, i, order), ReadUint16(q, i + 2, order), Power[2])
ReadUint64(q, i, order) == Join(order, ReadUint32(q, i, order), ReadUint32(q, i + 4, order), Power[4])

QueueBytes(u, w, order) ==
    CASE w = 1 -> WriteUint8(u)         [] w = 2 -> WriteUint16(u, order)
      [] w = 4 -> WriteUint32(u, order) [] w = 8 -> WriteUint64(u, order)

QueueNumber(q, w, order) ==
    CASE w = 1 -> ReadUint8(q, 1)         [] w = 2 -> ReadUint16(q, 1, order)
      [] w = 4 -> ReadUint32(q, 1, order) [] w = 8 -> ReadUint64(q, 1, order)

\* The memory of a number of the host.
WriteItemToBuffer(u, w) == [i \in 1..w |-> (u \div Power[i - 1]) % Base]
ReadItemFromBuffer(q, w) ==
    LET sum[i \in 0..w] == IF i = 0 THEN 0 ELSE sum[i - 1] + q[i] * Power[i - 1] IN sum[w]

-----------------------------------------------------------------------------
(* Writing. *)

HasRoom(a, n) == has_write(a) + n <= MAX_MSG_LENGTH

\* The items in all arrays; a torn array counts as one more.
Items == Cardinality(torn) + FoldFunction(LAMBDA items, n : Len(items) + n, 0, pending)

\* The bytes b of an item are appended; what does not fit is dropped.
WriteBytes(a, b, item, whole) ==
    /\ Items < MaxItems /\ a \notin torn
    /\ IF a \in Statics /\ ~ HasRoom(a, Len(b)) THEN UNCHANGED <<bytes, pending, torn>>
       ELSE /\ bytes' = [bytes EXCEPT ![a] = @ \o b]
            /\ pending' = [pending EXCEPT ![a] = IF whole THEN Append(@, item) ELSE << >>]
            /\ torn' = IF whole THEN torn ELSE torn \cup {a}
    /\ misread' = None
    /\ UNCHANGED <<has_read, endian>>

WriteNumber(a, w, signed, v) ==
    LET u == ToBits(v, w)
    IN  WriteBytes(a, IF a \in Queues THEN QueueBytes(u, w, endian[a]) ELSE WriteItemToBuffer(u, w),
                   <<<<w, signed>>, v, OrderOf(a)>>, TRUE)

\* A string whose length needs more than 16 bits is refused.
WriteQueueString(a, s) ==
    /\ Len(s) < Power[2]
    /\ WriteBytes(a, WriteUint16(Len(s), endian[a]) \o s, <<Text, s, OrderOf(a)>>, TRUE)

\* Here the length is cut to 16 bits.
WriteStaticString(a, s) ==
    WriteBytes(a, WriteItemToBuffer(ToBits(Len(s), 2), 2) \o s, <<Text, s, OrderOf(a)>>,
               Len(s) < Power[2])

-----------------------------------------------------------------------------
(* Reading. *)

\* n bytes are taken from the front.
Take(a, n) ==
    /\ bytes' = [bytes EXCEPT ![a] = SubSeq(@, n + 1, Len(@))]
    /\ has_read' = [has_read EXCEPT ![a] = IF a \in Queues THEN 0 ELSE @ + n]

\* What a number read returns and how many bytes it takes.  A queue takes
\* what there is of a number, the fixed buffer nothing.
ReadNumber(a, w, signed) ==
    LET q == bytes[a]
    IN  IF a \in Queues
        THEN <<FromBits(QueueNumber(q, w, endian[a]), w, signed), Min({w, Len(q)})>>
        ELSE IF Len(q) < w THEN <<0, 0>>
             ELSE <<FromBits(ReadItemFromBuffer(q, w), w, signed), w>>

\* std::string(char *) ends at the first 0.
CText(s) ==
    LET zeros == {i \in 1..Len(s) : s[i] = 0}
    IN  IF zeros = {} THEN s ELSE SubSeq(s, 1, Min(zeros) - 1)

\* What is read and how many bytes are taken: of a string that is not complete
\* none by a queue, its length by the fixed buffer.
ReadQueueString(q, order) ==
    LET n == ReadUint16(q, 1, order)
    IN  IF Len(q) < 2 \/ 2 + n > Len(q) THEN << << >>, 0>>
        ELSE <<SubSeq(q, 3, 2 + n), 2 + n>>

ReadStaticString(q) ==
    LET n == ReadItemFromBuffer(q, 2)
    IN  IF Len(q) < 2 THEN << << >>, 0>>
        ELSE IF n > Len(q) - 2 THEN << << >>, 2>>
        ELSE <<CText(SubSeq(q, 3, 2 + n)), 2 + n>>

ReadString(a) ==
    IF a \in Queues THEN ReadQueueString(bytes[a], endian[a]) ELSE ReadStaticString(bytes[a])

ReadItem(a, type) ==
    LET r == IF type = Text THEN ReadString(a) ELSE ReadNumber(a, type[1], type[2])
        item == IF pending[a] # << >> THEN Head(pending[a])
                ELSE <<type, IF type = Text THEN << >> ELSE 0, OrderOf(a)>>
        astray == type = Text /\ item[3] # OrderOf(a)   \* the length is read in another byte order
    IN  /\ type = item[1]
        /\ Take(a, r[2])
        /\ pending' = [pending EXCEPT ![a] = IF @ = << >> \/ astray THEN << >> ELSE Tail(@)]
        /\ torn' = IF astray THEN torn \cup {a} ELSE torn
        /\ misread' = IF a \in torn \/ r[1] = item[2] THEN None ELSE <<a, item, OrderOf(a), r[1]>>
        /\ UNCHANGED endian

-----------------------------------------------------------------------------
(* Arrays as a whole. *)

SetEndian(a, order) ==
    /\ endian' = [endian EXCEPT ![a] = order]
    /\ misread' = None
    /\ UNCHANGED <<bytes, has_read, pending, torn>>

Clear(a) ==
    /\ bytes' = [bytes EXCEPT ![a] = << >>] /\ has_read' = [has_read EXCEPT ![a] = 0]
    /\ pending' = [pending EXCEPT ![a] = << >>] /\ torn' = torn \ {a}
    /\ misread' = None
    /\ UNCHANGED endian

\* All bytes of b go to a, which then has those given as old and them.  They
\* are lost if a has no room.
Move(a, b, old, read, items) ==
    LET fits == a \in Queues \/ read + Len(old) + BytesAvailable(b) <= MAX_MSG_LENGTH
    IN  /\ bytes' = [bytes EXCEPT ![a] = IF fits THEN old \o bytes[b] ELSE old, ![b] = << >>]
        /\ has_read' = [has_read EXCEPT ![a] = read,
                                        ![b] = IF b \in Queues THEN 0 ELSE has_write(b)]
        /\ pending' = [pending EXCEPT ![a] = IF fits THEN items \o pending[b] ELSE items,
                                      ![b] = << >>]
        /\ torn' = (torn \ {a, b}) \cup (IF fits /\ b \in torn THEN {a} ELSE {})
        /\ UNCHANGED endian

\* The bytes of an item, by its definition: digit by digit.
Image(n, w, order) ==
    [i \in 1..w |-> (n \div Power[IF order = "big" THEN w - i ELSE i - 1]) % Base]
Encoding(item) ==
    IF item[1] = Text THEN Image(Len(item[2]), 2, item[3]) \o item[2]
    ELSE Image(item[2] % Power[item[1][1]], item[1][1], item[3])

\* The first n bytes of b go to a, the rest stays: whole items only if n bytes are
\* just the first item.
MovePart(a, b, n) ==
    LET fits == a \in Queues \/ HasRoom(a, n)
        whole == b \notin torn /\ pending[b] # << >> /\ n = Len(Encoding(Head(pending[b])))
    IN  /\ bytes' = [bytes EXCEPT ![a] = IF fits THEN @ \o SubSeq(bytes[b], 1, n) ELSE @,
                                  ![b] = SubSeq(@, n + 1, Len(@))]
        /\ has_read' = [has_read EXCEPT ![b] = IF b \in Queues THEN 0 ELSE @ + n]
        /\ pending' = [pending EXCEPT ![a] = IF ~ fits THEN @
                                             ELSE IF whole THEN Append(@, Head(pending[b]))
                                             ELSE << >>,
                                      ![b] = IF whole THEN Tail(@) ELSE << >>]
        /\ torn' = IF whole THEN torn ELSE torn \cup {b} \cup (IF fits THEN {a} ELSE {})
        /\ UNCHANGED endian

\* A length of 0, or one too large, means everything to a queue and nothing
\* to the fixed buffer.
ReadFromByteArray(a, b, len) ==
    /\ a # b
    /\ a \notin torn
    /\ misread' = None
    /\ IF a \in Statics /\ (len = 0 \/ len > BytesAvailable(b))
       THEN UNCHANGED <<bytes, has_read, endian, pending, torn>>
       ELSE IF len \in 1..(BytesAvailable(b) - 1) THEN MovePart(a, b, len)
       ELSE Move(a, b, bytes[a], has_read[a], pending[a])

Cleared(a) == << >>

\* operator= of the two classes, between arrays of the same class.
Assign(a, b) ==
    /\ a # b /\ (a \in Queues <=> b \in Queues)
    /\ misread' = None
    /\ IF a \in Statics /\ BytesAvailable(b) = 0
       THEN /\ bytes' = [bytes EXCEPT ![a] = Cleared(a)] /\ has_read' = [has_read EXCEPT ![a] = 0]
            /\ pending' = [pending EXCEPT ![a] = << >>] /\ torn' = torn \ {a}
            /\ UNCHANGED endian
       ELSE Move(a, b, Cleared(a), 0, << >>)

\* operator= of ByteArray, which declares none: the only member is assigned.
AssignInterface(a, b) ==
    /\ a # b /\ (a \in Queues <=> b \in Queues)
    /\ misread' = None
    /\ endian' = [endian EXCEPT ![a] = endian[b]]
    /\ UNCHANGED <<bytes, has_read, pending, torn>>

-----------------------------------------------------------------------------
WriteItem(a) ==
    \/ \E w \in Widths, signed \in BOOLEAN : \E u \in Bits[<<w, signed>>] :
          WriteNumber(a, w, signed, FromBits(u, w, signed))
    \/ \E s \in Strings : IF a \in Queues THEN WriteQueueString(a, s) ELSE WriteStaticString(a, s)

ArraysNext ==
    \/ \E a \in Arrays : WriteItem(a) \/ Clear(a)
    \/ \E a \in Arrays, type \in Numbers \cup {Text} : ReadItem(a, type)
    \/ \E a \in Queues, order \in {"big", "little"} : SetEndian(a, order)
    \/ \E a, b \in Arrays : \/ Assign(a, b) \/ AssignInterface(a, b)
                            \/ \E len \in 0..(BytesAvailable(b) + 1) : ReadFromByteArray(a, b, len)

ArraysSpec == ArraysInit /\ [][ArraysNext]_arrayVars

-----------------------------------------------------------------------------
\* The unread bytes of an array are its items, each in the byte order of the
\* array it was first written to, however often they have been moved, unless
\* a string too long for its 16-bit length was put into a fixed buffer, the
\* length of a string was read in another byte order than it was written or an
\* array took over a part of another one that is not an item; and a fixed
\* buffer is never filled past its end, whichever mixture of items and other
\* arrays has filled it.
BytesAreItems ==
    /\ \A a \in Statics : has_write(a) <= MAX_MSG_LENGTH
    /\ \A a \in Arrays \ torn :
          bytes[a] = FlattenSeq([i \in 1..Len(pending[a]) |-> Encoding(pending[a][i])])

\* A read returns the value written, or zero from an empty array, with two
\* exceptions: an array with another byte order, and a string with a 0 byte
\* in a fixed buffer.
ReadsBack ==
    misread # None =>
       LET item == misread[2]
       IN  \/ item[3] # misread[3]
           \/ misread[1] \in Statics /\ item[1] = Text /\ \E i \in DOMAIN item[2] : item[2][i] = 0

=============================================================================
