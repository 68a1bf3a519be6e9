---------------------------- MODULE SerializeCode ---------------------------
(***************************************************************************)
(* Serialize and Unserialize of the classes that serialize_creator writes: *)
(* the code of GetSerializeCode and GetUnserializeCode for a list of       *)
(* attribute types.  It is given to Serialize as Encode and Decode.        *)
(*                                                                         *)
(* What is written is a sequence of units: a number is one unit, lengths   *)
(* are numbers below Cut (2^16), a character is one unit.  Bytes and their *)
(* order are the matter of ByteArray.                                      *)
(***************************************************************************)
EXTENDS Serialize

RECURSIVE WriteAttrs(_, _), WriteItems(_, _)

\* Serialize of class c.
WriteObject(c, v) == WriteAttrs(Classes[c], v)

WriteString(s) == IF Len(s) >= Cut THEN << >> ELSE <<Len(s)>> \o s

\* The size of an array is cut to 16 bits, its items are all written; for an
\* attribute of class type there is no code.
WriteAttr(type, x) ==
    CASE type.kind = "number" -> <<x>>
      [] type.kind = "string" -> WriteString(x)
      [] type.kind = "array" -> <<Len(x) % Cut>> \o WriteItems(type.sub, x)
      [] type.kind = "class" -> << >>

WriteItems(sub, x) ==
    IF x = << >> THEN << >>
    ELSE (IF sub.kind = "class" THEN WriteObject(sub.sub, Head(x)) ELSE WriteAttr(sub, Head(x)))
         \o WriteItems(sub, Tail(x))

WriteAttrs(types, v) ==
    IF v = << >> THEN << >>
    ELSE WriteAttr(Head(types), Head(v)) \o WriteAttrs(Tail(types), Tail(v))

RECURSIVE ReadAttrs(_, _, _, _), ReadItems(_, _, _, _)

\* Unserialize of an object that has the value v, which need not be new.
\* Reads return the value and the units left.
ReadObject(c, v, q) == ReadAttrs(Classes[c], v, 1, q)

ReadNumber(q) == IF q = << >> THEN <<0, q>> ELSE <<Head(q), Tail(q)>>
ReadString(q) ==
    IF q = << >> \/ Head(q) > Len(q) - 1 THEN << << >>, q>>
    ELSE <<SubSeq(q, 2, Head(q) + 1), SubSeq(q, Head(q) + 2, Len(q))>>

\* Faulty variant: the last item is not read.
OneShort(n) == IF n = 0 THEN 0 ELSE n - 1
array_size(n) == n

ReadAttr(type, x, q) ==
    CASE type.kind = "number" -> ReadNumber(q)
      [] type.kind = "string" -> ReadString(q)
      [] type.kind = "class" -> <<x, q>>
      [] type.kind = "array" ->
            LET tmp_attr_value == IF type.sub.kind = "class" THEN New(type.sub.sub) ELSE Default(type.sub)
                n == ReadNumber(q)
            IN  ReadItems(type.sub, [list |-> x, tmp |-> tmp_attr_value], array_size(n[1]), n[2])

\* All items are read into the one tmp_attr_value, then copied to the array.
ReadItems(sub, to, n, q) ==
    IF n = 0 THEN <<to.list, q>>
    ELSE LET r == IF sub.kind = "class" THEN ReadObject(sub.sub, to.tmp, q)
                  ELSE ReadAttr(sub, to.tmp, q)
         IN  ReadItems(sub, [list |-> Append(to.list, r[1]), tmp |-> r[1]], n - 1, r[2])

ReadAttrs(types, v, i, q) ==
    IF i > Len(types) THEN <<v, q>>
    ELSE LET r == ReadAttr(types[i], v[i], q)
         IN  ReadAttrs(types, [v EXCEPT ![i] = r[1]], i + 1, r[2])

\* What Unserialize of class c makes of an object with the value v.
Unserialized(c, v, q) == ReadObject(c, v, q)[1]

=============================================================================
