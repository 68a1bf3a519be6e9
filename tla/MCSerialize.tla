----------------------------- MODULE MCSerialize -----------------------------
(***************************************************************************)
(* Classes of every shape the generator accepts: numbers and strings (P),  *)
(* arrays of objects and of strings, as in the demo (L), an array in the   *)
(* items of an array (N of A), an attribute of class type (C), a class     *)
(* without description (U), one with a name that is too long (X).          *)
(***************************************************************************)
EXTENDS SerializeCode, TLC

number == [kind |-> "number"]
string == [kind |-> "string"]
class(c) == [kind |-> "class", sub |-> c]
array(sub) == [kind |-> "array", sub |-> sub]

MCClasses ==
    [P |-> <<number, string>>, L |-> <<array(class("P")), array(string)>>,
     A |-> <<array(number)>>, N |-> <<array(class("A")), number>>,
     C |-> <<class("P"), number>>, U |-> <<number>>, X |-> <<number>>]
MCNameLength == [c \in DOMAIN MCClasses |-> IF c = "X" THEN 3 ELSE 2]
MCRegistered == DOMAIN MCClasses \ {"U"}

long == <<2, 1, 1>>     \* as a string, and <<1, 1, 1>> as an array
p1 == <<1, <<1>>>>
p2 == <<2, <<>>>>
MCObjects ==
    << {<<"P", p1>>, <<"P", p2>>, <<"P", <<1, long>>>>,
        <<"L", << << >>, <<<<1>>>>>>>>, <<"L", <<<<p1, p2>>, <<<<2>>, << >>>>>>>>,
        <<"L", <<<<p2>>, <<<<1>>, <<1>>, <<1>>>>>>>>, <<"L", <<<<<<1, long>>>>, << >>>>>>,
        <<"N", <<<<<<<<1>>>>>>, 2>>>>, <<"N", <<<<<<<<1>>>>, <<<<2, 1>>>>>>, 1>>>>,
        <<"N", <<<<<<<< >>>>, <<<<2>>>>>>, 1>>>>, <<"N", <<<<<<<<1, 1, 1>>>>>>, 1>>>>,
        <<"C", << << >>, 1>>>>, <<"C", <<p1, 1>>>>},
       {<<"P", <<2, <<2>>>>>>, <<"N", <<<<<<<<1>>>>>>, 2>>>>, <<"U", <<1>>>>, <<"X", <<1>>>>} >>
MCMaxSent == <<1, 2>>

=============================================================================
