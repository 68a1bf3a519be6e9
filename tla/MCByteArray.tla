----------------------------- MODULE MCByteArray -----------------------------
(***************************************************************************)
(* Bytes of one bit: a number of 16 bits is then below 4.                  *)
(***************************************************************************)
EXTENDS ByteArray, TLC

CONSTANTS q1, s1, s2

\* Every width once; the top bit is set, so the sign matters.
MCBits == [type \in Numbers |->
              CASE type = <<1, FALSE>> -> {1}
                [] type = <<2, TRUE>>  -> {2}
                [] type = <<4, FALSE>> -> {11}
                [] type = <<8, TRUE>>  -> {205}
                [] OTHER -> {}]
\* Lengths 0, 1, 3 and one too large: 1 is another number in the other byte order.
MCStrings == {<< >>, <<1>>, <<1, 0, 1>>, <<1, 1, 0, 1>>}

\* After bytes were torn apart TLC goes on only where no other array holds any.
OneTorn == Cardinality(torn) <= 1 /\ (torn # {} => \A a \in Arrays \ torn : bytes[a] = << >>)

\* The two fixed buffers are interchangeable.
StaticSymmetry == Permutations({s1, s2})

=============================================================================
