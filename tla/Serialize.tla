------------------------------ MODULE Serialize ------------------------------
(***************************************************************************)
(* SerializeNetworkManager: an object is sent as the name of its class and *)
(* its attributes, and built again on the socket thread of the connection  *)
(* it arrives on.  All these threads share one static buffer for the name. *)
(*                                                                         *)
(* A package is the class and what Serialize of the class writes; Encode   *)
(* and Decode stand for the methods of the classes, SerializeCode has what *)
(* serialize_creator generates for them.  The transport is the matter of   *)
(* NetworkManager and FixHeadPacker.                                       *)
(***************************************************************************)
EXTENDS Naturals, Sequences, SequencesExt

CONSTANTS Classes,    \* Classes[c]: the attribute types of class c, in order
          Registered, \* classes with a description object in this process
          NameLength, \* NameLength[c]: characters of the name of c
          SERIALIZE_CLASS_NAME_MAX_LEN,
          Objects,    \* Objects[n]: bound: what the peer may send on connection n, <<class, value>>
          MaxSent,    \* MaxSent[n]: bound: objects the peer sends on n
          Cut,        \* lengths are taken modulo this
          Encode(_, _),     \* Encode(c, v): what Serialize of class c writes for the value v
          Decode(_, _, _),  \* Decode(c, v, q): the value after Unserialize(q) of one that was v
          NoName            \* a name that no class has

nullptr == << >>   \* no object; every object is a pair

Nets == DOMAIN Objects   \* connections, each with its socket thread

\* Attribute types: [kind |-> "number"], "string", "array" (of sub), "class" (sub)
ASSUME SerializeAssumption ==
    /\ Cut \in Nat \ {0} /\ Registered \subseteq DOMAIN Classes
    /\ MaxSent \in [Nets -> Nat] /\ NameLength \in [DOMAIN Classes -> Nat \ {0}]
    /\ SERIALIZE_CLASS_NAME_MAX_LEN \in Nat
    /\ \A n \in Nets : \A o \in Objects[n] : o = <<o[1], o[2]>> /\ o[1] \in DOMAIN Classes

VARIABLES sent,            \* per connection: the objects sent
          packages,        \* per connection: packages on their way, <<class, units>>
          pc, data,        \* per socket thread: place in OnRecvPackage, the package
          serialize_name,  \* the static buffer: the class last copied to it
          mixed,           \* ghost: threads that have not filled it, or not since another wrote to it
          serialize_data,  \* per thread: the object under construction, or nullptr
          handlers,        \* serialize_handler_list_: the handler is in it
          done,            \* per connection: what became of each package in turn:
                           \* the object given to OnRecv, or nullptr
          raced, missed    \* ghosts: packages (numbers per connection) whose name was
                           \* overwritten by another thread; that met no handler

serializeVars == <<sent, packages, pc, data, serialize_name, mixed, serialize_data, handlers,
                   done, raced, missed>>

-----------------------------------------------------------------------------
(* A new object. *)

Default(type) == IF type.kind = "number" THEN 0 ELSE << >>
New(c) == << >> \o [i \in DOMAIN Classes[c] |-> Default(Classes[c][i])]

-----------------------------------------------------------------------------
SerializeInit ==
    /\ sent = [n \in Nets |-> << >>] /\ packages = [n \in Nets |-> << >>]
    /\ pc = [n \in Nets |-> "idle"] /\ data = [n \in Nets |-> nullptr]
    /\ serialize_name = NoName /\ mixed = Nets
    /\ serialize_data = [n \in Nets |-> nullptr] /\ handlers = FALSE
    /\ done = [n \in Nets |-> << >>] /\ raced = {} /\ missed = {}

\* The peer calls SendSerialize.
SendSerialize(n, o) ==
    /\ Len(sent[n]) < MaxSent[n]
    /\ sent' = [sent EXCEPT ![n] = Append(@, o)]
    /\ packages' = [packages EXCEPT ![n] = Append(@, <<o[1], Encode(o[1], o[2])>>)]
    /\ UNCHANGED <<pc, data, serialize_name, mixed, serialize_data, handlers, done, raced, missed>>

RegistSerializeHandler ==
    /\ ~ handlers /\ handlers' = TRUE
    /\ UNCHANGED <<sent, packages, pc, data, serialize_name, mixed, serialize_data, done,
                   raced, missed>>

UnregistSerializeHandler ==
    /\ handlers /\ handlers' = FALSE
    /\ UNCHANGED <<sent, packages, pc, data, serialize_name, mixed, serialize_data, done,
                   raced, missed>>

this(n) == <<n, Len(done[n]) + 1>>
Return(n, result) ==
    /\ pc' = [pc EXCEPT ![n] = "idle"] /\ data' = [data EXCEPT ![n] = nullptr]
    /\ done' = [done EXCEPT ![n] = Append(@, result)]

\* Faulty variant: one character less.
NameAlmostFits(c) == NameLength[c] \in 1..(SERIALIZE_CLASS_NAME_MAX_LEN - 2)
NameFits(c) == NameLength[c] \in 1..(SERIALIZE_CLASS_NAME_MAX_LEN - 1)

\* The name is copied to the static buffer.
OnRecvPackage(n) ==
    /\ pc[n] = "idle" /\ packages[n] # << >>
    /\ packages' = [packages EXCEPT ![n] = Tail(@)]
    /\ IF NameFits(Head(packages[n])[1])
       THEN /\ data' = [data EXCEPT ![n] = Head(packages[n])]
            /\ serialize_name' = Head(packages[n])[1] /\ mixed' = Nets \ {n}
            /\ pc' = [pc EXCEPT ![n] = "end"] /\ UNCHANGED done
       ELSE Return(n, nullptr) /\ UNCHANGED <<serialize_name, mixed>>
    /\ UNCHANGED <<sent, serialize_data, handlers, raced, missed>>

\* The 0 that ends the name, or cuts the one that another thread has copied since.
TerminateName(n) ==
    /\ pc[n] = "end"
    /\ mixed' = mixed \cup (Nets \ {n})
    /\ pc' = [pc EXCEPT ![n] = "create"]
    /\ UNCHANGED <<sent, packages, data, serialize_name, serialize_data, handlers, done, raced, missed>>

\* What a thread reads from the buffer that another has written to since: the
\* other name, the own one or a mixture, which no class has.
NamesRead(n) ==
    IF n \in mixed THEN {serialize_name, data[n][1], NoName} ELSE {serialize_name}

CreateSerialize(n) ==
    /\ pc[n] = "create"
    /\ raced' = IF n \in mixed THEN raced \cup {this(n)} ELSE raced
    /\ \E c \in NamesRead(n) :
          IF c \in Registered
          THEN /\ serialize_data' = [serialize_data EXCEPT ![n] = <<c, New(c)>>]
               /\ pc' = [pc EXCEPT ![n] = "read"] /\ UNCHANGED <<data, done>>
          ELSE Return(n, nullptr) /\ UNCHANGED serialize_data
    /\ UNCHANGED <<sent, packages, serialize_name, mixed, handlers, missed>>

Unserialize(n) ==
    /\ pc[n] = "read"
    /\ LET c == serialize_data[n][1]
       IN  serialize_data' = [serialize_data EXCEPT
                                ![n] = <<c, Decode(c, @[2], data[n][2])>>]
    /\ pc' = [pc EXCEPT ![n] = "tell"]
    /\ UNCHANGED <<sent, packages, data, serialize_name, mixed, handlers, done, raced, missed>>

Delete(n) == serialize_data' = [serialize_data EXCEPT ![n] = nullptr]

\* The handler if it is registered, then delete.
OnRecv(n) ==
    /\ pc[n] = "tell"
    /\ Return(n, IF handlers THEN serialize_data[n] ELSE nullptr)
    /\ missed' = IF handlers THEN missed ELSE missed \cup {this(n)}
    /\ Delete(n)
    /\ UNCHANGED <<sent, packages, serialize_name, mixed, handlers, raced>>

Handle(n) ==
    OnRecvPackage(n) \/ TerminateName(n) \/ CreateSerialize(n) \/ Unserialize(n) \/ OnRecv(n)

SerializeNext ==
    \/ \E n \in Nets : Handle(n) \/ \E o \in Objects[n] : SendSerialize(n, o)
    \/ RegistSerializeHandler \/ UnregistSerializeHandler

SerializeSpec == SerializeInit /\ [][SerializeNext]_serializeVars

-----------------------------------------------------------------------------
\* The values that the generated code can carry: strings and arrays are
\* shorter than Cut, attributes of class type have their default, and an
\* array has several items only if their class has no array itself.
PortableItem(sub, x) ==
    CASE sub.kind = "number" -> TRUE
      [] sub.kind = "string" -> Len(x) < Cut
      [] sub.kind = "class" ->
            \A i \in DOMAIN x : LET t == Classes[sub.sub][i]
                                IN  /\ t.kind \in {"string", "array"} => Len(x[i]) < Cut
                                    /\ t.kind = "class" => x[i] = Default(t)

Portable(o) ==
    \A i \in DOMAIN o[2] :
        LET type == Classes[o[1]][i]
            x == o[2][i]
        IN  CASE type.kind = "array" ->
                    /\ Len(x) < Cut /\ \A j \in DOMAIN x : PortableItem(type.sub, x[j])
                    /\ Len(x) > 1 /\ type.sub.kind = "class" =>
                           \A t \in Range(Classes[type.sub.sub]) : t.kind # "array"
              [] type.kind = "class" -> x = Default(type)
              [] OTHER -> PortableItem(type, x)

\* What Unserialize of a class makes of a new object, from what Serialize of
\* the class wrote for a portable one, is that one.
RoundTrip ==
    \A n \in Nets : \A o \in Objects[n] :
        Portable(o) => Decode(o[1], New(o[1]), Encode(o[1], o[2])) = o[2]

\* What a handler gets is what was sent, class and value, in the order of the
\* connection, if the value is portable and no other thread wrote to the buffer
\* of the name in between.
DeliveredAsSent ==
    \A n \in Nets : \A i \in DOMAIN done[n] :
        done[n][i] = nullptr \/ <<n, i>> \in raced \/ ~ Portable(sent[n][i])
            \/ done[n][i] = sent[n][i]

\* A package is dropped only if its class is not known here, its name is too
\* long, nobody listens, or another thread wrote to the buffer of the name.
DroppedForCause ==
    \A n \in Nets : \A i \in DOMAIN done[n] :
        done[n][i] = nullptr =>
            \/ <<n, i>> \in raced \cup missed \/ sent[n][i][1] \notin Registered
            \/ NameLength[sent[n][i][1]] >= SERIALIZE_CLASS_NAME_MAX_LEN

=============================================================================
