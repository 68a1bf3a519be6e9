-------------------------- MODULE RpcManagerProofs --------------------------
(***************************************************************************)
(* Proofs about the two users of NetworkManager: RpcManager, for any       *)
(* connections, addresses, ports and keys, and Serialize, for any classes, *)
(* objects and connections.                                                *)
(***************************************************************************)
EXTENDS RpcManager, Serialize, SequenceTheorems, TLAPS

Messages == {"key", "yes", "no", "data"}

TypeInv ==
    /\ state \in [Conns -> {"idle", "dialling", "open", "closed"}]
    /\ id \in [Conns -> Nat] /\ free_ids \subseteq Nat /\ max_id \in Nat
    /\ in \in [Conns -> Seq(Messages)]
    /\ out \in [Conns -> Messages \cup {"nothing"}]
    /\ shown \in [Conns -> Keys \cup {None}] /\ needed \in [Conns -> Keys \cup {None}]
    /\ \A p \in DOMAIN listen_port_2_key : listen_port_2_key[p] \in Keys

\* Open connections have ids of their own, and an id that has a session is not
\* given to another one.
IdsInv ==
    /\ \A n \in free_ids : n <= max_id
    /\ \A c \in Conns : state[c] = "open" => id[c] <= max_id /\ id[c] \notin free_ids
    /\ \A c, d \in Conns : state[c] = "open" /\ state[d] = "open" /\ id[c] = id[d] => c = d
    /\ \A n \in DOMAIN net_2_session : n \in Nat /\ n <= max_id /\ n \notin free_ids

Has(c, m) == \E i \in DOMAIN in[c] : in[c][i] = m
OneKey(c) == \A i, j \in DOMAIN in[c] : in[c][i] = "key" /\ in[c][j] = "key" => i = j

\* The key of a peer is sent once; who has answered unasked is known.
PeerInv ==
    \A c \in Conns :
       /\ state[c] \in {"idle", "dialling"} =>
             in[c] = << >> /\ out[c] = "nothing" /\ shown[c] = None /\ c \notin closing
       /\ Has(c, "key") => c \in Accepted /\ shown[c] # None
       /\ OneKey(c)
       /\ c \in Accepted /\ (Has(c, "yes") \/ Has(c, "no")) => c \in unasked

\* The key kept for the id of an accepted connection is that of its port.
Right(c) == shown[c] # None /\ shown[c] = needed[c]
KeyInv ==
    /\ \A c \in Accepted : state[c] = "open" =>
          id[c] \in DOMAIN network_id_2_key /\ network_id_2_key[id[c]] = needed[c]
    /\ \A c \in Accepted \ unasked :
          /\ c \in Checked => Right(c) /\ ~ Has(c, "key")
          /\ Right(c) /\ c \notin closing => c \in Checked \/ Has(c, "key")

\* The info kept for the id of a connection that waits for an answer is its own.
InfoInv ==
    \A c \in Dialled : state[c] = "open" /\ (out[c] = "key" \/ Has(c, "yes")) =>
       id[c] \in DOMAIN uncheck_info /\ uncheck_info[id[c]] = Own(c)

AcceptInfo ==
    \A c \in Accepted : state[c] = "open" =>
       id[c] \in DOMAIN uncheck_info /\ uncheck_info[id[c]] = Own(c)
SessInv == ~ confused => AcceptInfo /\ SessionsMatch

Inv == TypeInv /\ IdsInv /\ PeerInv /\ KeyInv /\ InfoInv /\ SessInv

-----------------------------------------------------------------------------
LEMMA ConnSets == Accepted \subseteq Conns /\ Dialled \subseteq Conns /\ Accepted \cap Dialled = {}
  BY RpcManagerAssumption DEF Conns

LEMMA TailSeq ==
    ASSUME NEW S, NEW s \in Seq(S), s # << >>
    PROVE  /\ Len(s) \in Nat \ {0} /\ DOMAIN s = 1..Len(s) /\ Head(s) = s[1]
           /\ Tail(s) \in Seq(S) /\ Len(Tail(s)) = Len(s) - 1
           /\ DOMAIN Tail(s) = 1..(Len(s) - 1)
           /\ \A i \in DOMAIN Tail(s) : i \in Nat \ {0} /\ i + 1 \in DOMAIN s /\ Tail(s)[i] = s[i + 1]
<1>1. Len(s) \in Nat \ {0} /\ DOMAIN s = 1..Len(s)
  BY EmptySeq, LenProperties
<1>2. /\ Head(s) = s[1] /\ Tail(s) \in Seq(S) /\ Len(Tail(s)) = Len(s) - 1
      /\ \A i \in 1..(Len(s) - 1) : Tail(s)[i] = s[i + 1]
  BY <1>1, HeadTailProperties
<1>3. DOMAIN Tail(s) = 1..(Len(s) - 1)
  BY <1>2, LenProperties
<1> QED BY <1>1, <1>2, <1>3

LEMMA AppendSeq ==
    ASSUME NEW S, NEW s \in Seq(S), NEW x \in S
    PROVE  /\ Append(s, x) \in Seq(S) /\ Len(s) \in Nat /\ DOMAIN s = 1..Len(s)
           /\ DOMAIN Append(s, x) = 1..(Len(s) + 1)
           /\ \A i \in DOMAIN s : Append(s, x)[i] = s[i]
           /\ Append(s, x)[Len(s) + 1] = x
<1>1. Append(s, x) \in Seq(S) /\ Len(Append(s, x)) = Len(s) + 1
  BY AppendProperties
<1> QED BY <1>1, AppendProperties, LenProperties

\* Reading a message: a key is the only one of its kind.
LEMMA ReadsIn ==
    ASSUME TypeInv, PeerInv, NEW c \in Conns, NEW type, Reads(c, type)
    PROVE  /\ state[c] = "open" /\ Has(c, type)
           /\ in' \in [Conns -> Seq(Messages)] /\ \A d \in Conns \ {c} : in'[d] = in[d]
           /\ \A m : Has(c, m)' => Has(c, m)
           /\ type = "key" => ~ Has(c, "key")'
           /\ type # "key" /\ Has(c, "key") => Has(c, "key")'
           /\ OneKey(c)'
<1> DEFINE q == in[c]
<1>1. /\ state[c] = "open" /\ q # << >> /\ Head(q) = type
      /\ in' = [in EXCEPT ![c] = Tail(q)]
  BY DEF Reads
<1>2. in \in [Conns -> Seq(Messages)] /\ q \in Seq(Messages) /\ OneKey(c)
  BY DEF TypeInv, PeerInv
<1>3. in'[c] = Tail(q) /\ \A d \in Conns \ {c} : in'[d] = in[d]
  BY <1>1, <1>2
<1> HIDE DEF q
<1>4. /\ Len(q) \in Nat \ {0} /\ DOMAIN q = 1..Len(q) /\ Head(q) = q[1]
      /\ Tail(q) \in Seq(Messages) /\ DOMAIN Tail(q) = 1..(Len(q) - 1)
      /\ \A i \in DOMAIN Tail(q) : i \in Nat \ {0} /\ i + 1 \in DOMAIN q /\ Tail(q)[i] = q[i + 1]
  BY <1>1, <1>2, TailSeq
<1>5. in' \in [Conns -> Seq(Messages)]
  BY <1>1, <1>2, <1>4
<1>6. 1 \in DOMAIN q /\ q[1] = type
  BY <1>1, <1>4
<1>7. \A i, j \in DOMAIN q : q[i] = "key" /\ q[j] = "key" => i = j
  BY <1>2 DEF OneKey, q
<1>8. \A m : Has(c, m)' => Has(c, m)
  BY <1>3, <1>4 DEF Has, q
<1>9. ASSUME type = "key" PROVE ~ Has(c, "key")'
  <2>1. \A i \in DOMAIN Tail(q) : i + 1 # 1 /\ i + 1 \in DOMAIN q /\ Tail(q)[i] = q[i + 1]
    BY <1>4
  <2> QED BY <1>3, <1>6, <1>7, <1>9, <2>1 DEF Has
<1>10. ASSUME type # "key", Has(c, "key") PROVE Has(c, "key")'
  <2>1. PICK i \in DOMAIN q : q[i] = "key"
    BY <1>10 DEF Has, q
  <2>2. i # 1 /\ i \in Nat /\ i - 1 \in DOMAIN Tail(q) /\ (i - 1) + 1 = i
    BY <1>4, <1>6, <1>10, <2>1
  <2>3. Tail(q)[i - 1] = q[i]
    BY <1>4, <2>2
  <2> QED BY <1>3, <2>1, <2>2, <2>3 DEF Has
<1>11. OneKey(c)'
  <2>1. ASSUME NEW i \in DOMAIN Tail(q), NEW j \in DOMAIN Tail(q),
               Tail(q)[i] = "key", Tail(q)[j] = "key"
        PROVE  i = j
    <3>1. i + 1 = j + 1
      BY <1>4, <1>7, <2>1
    <3> QED BY <1>4, <3>1
  <2> QED BY <1>3, <2>1 DEF OneKey
<1> QED BY <1>1, <1>3, <1>5, <1>6, <1>8, <1>9, <1>10, <1>11 DEF Has, q

LEMMA SaysIn ==
    ASSUME TypeInv, NEW c \in Conns, NEW type \in Messages, PeerSays(c, type)
    PROVE  /\ state[c] = "open" /\ c \notin closing
           /\ in' \in [Conns -> Seq(Messages)] /\ \A d \in Conns \ {c} : in'[d] = in[d]
           /\ Has(c, type)' /\ \A m : Has(c, m) => Has(c, m)'
           /\ \A m : Has(c, m)' /\ m # type => Has(c, m)
           /\ OneKey(c) /\ (type = "key" => ~ Has(c, "key")) => OneKey(c)'
<1> DEFINE q == in[c]
<1>1. /\ state[c] = "open" /\ c \notin closing
      /\ in' = [in EXCEPT ![c] = Append(q, type)]
  BY DEF PeerSays
<1>2. in \in [Conns -> Seq(Messages)] /\ q \in Seq(Messages)
  BY DEF TypeInv
<1>3. in'[c] = Append(q, type) /\ \A d \in Conns \ {c} : in'[d] = in[d]
  BY <1>1, <1>2
<1> HIDE DEF q
<1>4. /\ Append(q, type) \in Seq(Messages) /\ Len(q) \in Nat /\ DOMAIN q = 1..Len(q)
      /\ DOMAIN Append(q, type) = 1..(Len(q) + 1)
      /\ \A i \in DOMAIN q : Append(q, type)[i] = q[i]
      /\ Append(q, type)[Len(q) + 1] = type
  BY <1>2, AppendSeq
<1>5. in' \in [Conns -> Seq(Messages)]
  BY <1>1, <1>2, <1>4
<1>6. /\ Len(q) + 1 \in DOMAIN Append(q, type)
      /\ DOMAIN q \subseteq DOMAIN Append(q, type)
      /\ \A i \in DOMAIN Append(q, type) : i \in DOMAIN q \/ i = Len(q) + 1
  BY <1>4
<1>7. Has(c, type)' /\ \A m : Has(c, m) => Has(c, m)'
  BY <1>3, <1>4, <1>6 DEF Has, q
<1>8. \A m : Has(c, m)' /\ m # type => Has(c, m)
  BY <1>3, <1>4, <1>6 DEF Has, q
<1>9. ASSUME OneKey(c), type = "key" => ~ Has(c, "key") PROVE OneKey(c)'
  BY <1>3, <1>4, <1>6, <1>9 DEF OneKey, Has, q
<1> QED BY <1>1, <1>3, <1>5, <1>7, <1>8, <1>9

\* The same for all connections.
LEMMA ReadsAll ==
    ASSUME TypeInv, PeerInv, NEW c \in Conns, NEW type, Reads(c, type)
    PROVE  \A d \in Conns : OneKey(d)' /\ \A m : Has(d, m)' => Has(d, m)
<1> SUFFICES ASSUME NEW d \in Conns PROVE OneKey(d)' /\ \A m : Has(d, m)' => Has(d, m)
  OBVIOUS
<1>1. CASE d = c
  BY <1>1, ReadsIn
<1>2. CASE d # c
  <2>1. in'[d] = in[d]
    BY <1>2, ReadsIn
  <2> QED BY <2>1 DEF PeerInv, OneKey, Has
<1> QED BY <1>1, <1>2

\* A new connection gets an id that no open one has and that has no session.
LEMMA TakesFresh ==
    ASSUME TypeInv, IdsInv, NEW c \in Conns, NEW n, TakesNetID(c, n)
    PROVE  /\ n \in Nat /\ n <= max_id' /\ n \notin free_ids'
           /\ free_ids' \subseteq free_ids /\ max_id' \in Nat /\ max_id <= max_id'
           /\ n \notin DOMAIN net_2_session
           /\ \A d \in Conns : state[d] = "open" => id[d] # n
           /\ id' = [id EXCEPT ![c] = n] /\ state' = [state EXCEPT ![c] = "open"]
<1>1. CASE free_ids = {}
  <2>1. /\ n = max_id + 1 /\ max_id' = n /\ free_ids' = free_ids \ {n}
        /\ id' = [id EXCEPT ![c] = n] /\ state' = [state EXCEPT ![c] = "open"]
    BY <1>1 DEF TakesNetID
  <2>2. max_id \in Nat /\ \A d \in Conns : id[d] \in Nat
    BY DEF TypeInv
  <2>3. \A d \in Conns : state[d] = "open" => id[d] # n
    BY <2>1, <2>2 DEF IdsInv
  <2> QED BY <2>1, <2>2, <2>3 DEF IdsInv
<1>2. CASE free_ids # {}
  <2>1. /\ n \in free_ids /\ max_id' = max_id /\ free_ids' = free_ids \ {n}
        /\ id' = [id EXCEPT ![c] = n] /\ state' = [state EXCEPT ![c] = "open"]
    BY <1>2 DEF TakesNetID
  <2> QED BY <2>1 DEF TypeInv, IdsInv
<1> QED BY <1>1, <1>2

-----------------------------------------------------------------------------
\* The parts that a step leaves alone.
LEMMA SessionsKept ==
    ASSUME SessInv, UNCHANGED <<session_2_net, net_2_session, active, got>>,
           Checked' = Checked, \A c \in Checked : id'[c] = id[c],
           ~ confused' => ~ confused /\ AcceptInfo'
    PROVE  SessInv'
<1> SUFFICES ASSUME ~ confused'
             PROVE  AcceptInfo' /\ SessionsMatch'
  BY DEF SessInv
<1>1. SessionsMatch'
  BY DEF SessInv, SessionsMatch, Own
<1> QED BY <1>1 DEF SessInv

LEMMA SessKept ==
    ASSUME SessInv, UNCHANGED <<session_2_net, net_2_session, active, got, confused,
                                uncheck_info, id>>,
           Checked' = Checked,
           \A c \in Accepted : state'[c] = "open" => state[c] = "open"
    PROVE  SessInv'
<1>1. ~ confused => AcceptInfo'
  BY DEF SessInv, AcceptInfo, Own
<1> QED BY <1>1, SessionsKept

LEMMA InitInv == Init => Inv
<1> SUFFICES ASSUME Init PROVE Inv
  OBVIOUS
<1>1. TypeInv
  <2>1. DOMAIN listen_port_2_key = {}
    BY DEF Init, Empty
  <2> QED BY <2>1 DEF Init, TypeInv
<1>2. DOMAIN net_2_session = {} /\ DOMAIN session_2_net = {} /\ Checked = {}
  BY DEF Init, Empty, Checked
<1>3. IdsInv
  BY <1>2 DEF Init, IdsInv
<1>4. \A c \in Conns : in[c] = << >> /\ DOMAIN in[c] = {}
  BY DEF Init
<1>5. PeerInv
  BY <1>4 DEF Init, PeerInv, Has, OneKey
<1>6. KeyInv /\ InfoInv
  BY <1>2, <1>4, ConnSets DEF Init, KeyInv, InfoInv, Right
<1>7. SessInv
  BY <1>2, ConnSets DEF Init, SessInv, AcceptInfo, SessionsMatch
<1> QED BY <1>1, <1>3, <1>5, <1>6, <1>7 DEF Inv

LEMMA InvAsyncListen ==
    ASSUME Inv, NEW c \in Accepted, NEW key \in Keys, AsyncListen(LPort[c], key)
    PROVE  Inv'
<1>1. /\ listen_port_2_key' = Put(listen_port_2_key, LPort[c], key)
      /\ UNCHANGED <<idVars, sessionVars, connVars, in, out, got, needed, shown, unasked, confused>>
  BY DEF AsyncListen
<1>2. TypeInv'
  BY <1>1 DEF Inv, TypeInv, Put, connVars
<1>3. IdsInv' /\ PeerInv' /\ KeyInv' /\ InfoInv'
  BY <1>1 DEF Inv, IdsInv, PeerInv, KeyInv, InfoInv, Has, OneKey, Right, Checked, Own,
              idVars, sessionVars, connVars
<1>4. SessInv'
  BY <1>1, SessKept DEF Inv, Checked, idVars, sessionVars, connVars
<1> QED BY <1>2, <1>3, <1>4 DEF Inv

\* A connection that is not open goes on, without becoming open.
LEMMA InvNotOpen ==
    ASSUME Inv, NEW c \in Dialled, NEW to \in {"dialling", "closed"},
           state[c] \in {"idle", "dialling"}, state' = [state EXCEPT ![c] = to],
           UNCHANGED <<listen_port_2_key, idVars, sessionVars, id, free_ids, max_id, closing,
                       in, out, got, needed, shown, unasked, confused>>
    PROVE  Inv'
<1>1. c \in Conns /\ c \notin Accepted
  BY ConnSets
<1>2. TypeInv'
  BY <1>1 DEF Inv, TypeInv
<1>3. /\ \A d \in Conns : state'[d] = "open" <=> state[d] = "open"
      /\ \A d \in Conns : state'[d] \in {"idle", "dialling"} => state[d] \in {"idle", "dialling"}
  BY <1>1 DEF Inv, TypeInv
<1>4. Checked' = Checked
  BY <1>3 DEF Checked, sessionVars
<1>5. IdsInv'
  BY <1>3 DEF Inv, IdsInv, sessionVars
<1>6. PeerInv'
  BY <1>3 DEF Inv, PeerInv, Has, OneKey
<1>7. KeyInv'
  BY <1>3, <1>4, ConnSets DEF Inv, KeyInv, Right, Has, idVars
<1>8. InfoInv'
  BY <1>3, ConnSets DEF Inv, InfoInv, Has, Own, idVars
<1>9. SessInv'
  BY <1>3, <1>4, ConnSets, SessKept DEF Inv, sessionVars, idVars
<1> QED BY <1>2, <1>5, <1>6, <1>7, <1>8, <1>9 DEF Inv

LEMMA InvPeerCloses == ASSUME Inv, NEW c \in Conns, PeerCloses(c) PROVE Inv'
<1>1. /\ state[c] = "open" /\ closing' = closing \cup {c}
      /\ UNCHANGED <<listen_port_2_key, idVars, sessionVars, state, id, free_ids, max_id, in,
                     out, got, needed, shown, unasked, confused>>
  BY DEF PeerCloses, keyVars
<1>2. Checked' = Checked
  BY <1>1 DEF Checked, sessionVars
<1>3. TypeInv' /\ IdsInv'
  BY <1>1 DEF Inv, TypeInv, IdsInv, sessionVars
<1>4. PeerInv'
  BY <1>1 DEF Inv, PeerInv, Has, OneKey
<1>5. KeyInv' /\ InfoInv'
  BY <1>1, <1>2, ConnSets DEF Inv, KeyInv, InfoInv, Right, Has, Own, idVars
<1>6. SessInv'
  BY <1>1, <1>2, SessKept DEF Inv, sessionVars, idVars
<1> QED BY <1>3, <1>4, <1>5, <1>6 DEF Inv

LEMMA OpensIds ==
    ASSUME Inv, NEW c \in Conns, NEW n, TakesNetID(c, n), state[c] \in {"idle", "dialling"},
           UNCHANGED net_2_session
    PROVE  /\ IdsInv' /\ Checked' = Checked /\ c \notin Checked
           /\ id' \in [Conns -> Nat] /\ id'[c] = n
           /\ state' \in [Conns -> {"idle", "dialling", "open", "closed"}] /\ state'[c] = "open"
           /\ free_ids' \subseteq Nat /\ max_id' \in Nat
           /\ \A d \in Conns \ {c} : id'[d] = id[d] /\ state'[d] = state[d]
           /\ \A d \in Conns : state[d] = "open" => id[d] # n /\ d # c
<1>1. /\ n \in Nat /\ n <= max_id' /\ n \notin free_ids'
      /\ free_ids' \subseteq free_ids /\ max_id' \in Nat /\ max_id <= max_id'
      /\ n \notin DOMAIN net_2_session
      /\ \A d \in Conns : state[d] = "open" => id[d] # n
      /\ id' = [id EXCEPT ![c] = n] /\ state' = [state EXCEPT ![c] = "open"]
  BY TakesFresh DEF Inv
<1>2. /\ id \in [Conns -> Nat] /\ state \in [Conns -> {"idle", "dialling", "open", "closed"}]
      /\ free_ids \subseteq Nat /\ max_id \in Nat
  BY DEF Inv, TypeInv
<1>3. /\ id'[c] = n /\ state'[c] = "open"
      /\ \A d \in Conns \ {c} : id'[d] = id[d] /\ state'[d] = state[d]
  BY <1>1, <1>2
<1>4. /\ id' \in [Conns -> Nat]
      /\ state' \in [Conns -> {"idle", "dialling", "open", "closed"}]
  BY <1>1, <1>2
<1>5. \A d \in Conns : state[d] = "open" => id[d] # n /\ d # c
  BY <1>1
<1>6. Checked' = Checked /\ c \notin Checked
  BY <1>1, <1>3 DEF Checked
<1>7. IdsInv'
  <2>1. \A m \in free_ids' : m <= max_id'
    BY <1>1, <1>2 DEF Inv, IdsInv
  <2>2. ASSUME NEW d \in Conns, state'[d] = "open"
        PROVE  id'[d] <= max_id' /\ id'[d] \notin free_ids'
    <3>1. CASE d = c
      BY <1>1, <1>3, <3>1
    <3>2. CASE d # c
      <4>1. id'[d] = id[d] /\ id[d] \in Nat /\ id[d] <= max_id /\ id[d] \notin free_ids
        BY <1>2, <1>3, <2>2, <3>2 DEF Inv, IdsInv
      <4> QED BY <1>1, <1>2, <4>1
    <3> QED BY <3>1, <3>2
  <2>3. \A d, e \in Conns : state'[d] = "open" /\ state'[e] = "open" /\ id'[d] = id'[e] => d = e
    BY <1>1, <1>3 DEF Inv, IdsInv
  <2>4. \A m \in DOMAIN net_2_session' : m \in Nat /\ m <= max_id' /\ m \notin free_ids'
    BY <1>1, <1>2 DEF Inv, IdsInv
  <2> QED BY <2>1, <2>2, <2>3, <2>4 DEF IdsInv
<1> QED BY <1>1, <1>2, <1>3, <1>4, <1>5, <1>6, <1>7

LEMMA InvOnConnect == ASSUME Inv, NEW c \in Dialled, NEW n, OnConnect(c, n) PROVE Inv'
<1>1. /\ state[c] = "dialling" /\ TakesNetID(c, n)
      /\ \/ UNCHANGED <<uncheck_info, out>>
         \/ /\ uncheck_info' = Put(uncheck_info, n, Own(c))
            /\ out' = [out EXCEPT ![c] = "key"]
      /\ UNCHANGED <<listen_port_2_key, network_id_2_key, sessionVars, closing, in, got, needed,
                     shown, unasked, confused>>
  BY DEF OnConnect, InfoOfConnect, keyVars
<1>2. c \in Conns /\ c \notin Accepted
  BY ConnSets
<1>3. /\ IdsInv' /\ Checked' = Checked /\ c \notin Checked
      /\ id' \in [Conns -> Nat] /\ id'[c] = n
      /\ state' \in [Conns -> {"idle", "dialling", "open", "closed"}] /\ state'[c] = "open"
      /\ free_ids' \subseteq Nat /\ max_id' \in Nat
      /\ \A d \in Conns \ {c} : id'[d] = id[d] /\ state'[d] = state[d]
      /\ \A d \in Conns : state[d] = "open" => id[d] # n /\ d # c
  BY <1>1, <1>2, OpensIds DEF sessionVars
<1>4. out' \in [Conns -> Messages \cup {"nothing"}] /\ \A d \in Conns \ {c} : out'[d] = out[d]
  BY <1>1, <1>2 DEF Inv, TypeInv, Messages
<1>5. TypeInv'
  BY <1>1, <1>3, <1>4 DEF Inv, TypeInv
<1>6. PeerInv'
  BY <1>1, <1>3, <1>4 DEF Inv, PeerInv, Has, OneKey
<1>7. KeyInv'
  BY <1>1, <1>2, <1>3, ConnSets DEF Inv, KeyInv, Right, Has
<1>8. \A d \in Conns : state[d] = "open" /\ id[d] \in DOMAIN uncheck_info =>
         id[d] \in DOMAIN uncheck_info' /\ uncheck_info'[id[d]] = uncheck_info[id[d]]
  BY <1>1, <1>3 DEF Put
<1>9. InfoInv'
  <2>1. ASSUME NEW d \in Dialled, state'[d] = "open", out'[d] = "key" \/ Has(d, "yes")'
        PROVE  id'[d] \in DOMAIN uncheck_info' /\ uncheck_info'[id'[d]] = Own(d)
    <3>1. CASE d = c
      <4>1. in[c] = << >> /\ out[c] # "key"
        BY <1>1, <1>2 DEF Inv, PeerInv
      <4>2. ~ Has(c, "yes")'
        BY <1>1, <4>1 DEF Has
      <4>3. uncheck_info' = Put(uncheck_info, n, Own(c))
        BY <1>1, <2>1, <3>1, <4>1, <4>2
      <4> QED BY <1>3, <3>1, <4>3 DEF Put
    <3>2. CASE d # c
      BY <1>1, <1>3, <1>4, <1>8, <2>1, <3>2, ConnSets DEF Inv, InfoInv, Has
    <3> QED BY <3>1, <3>2
  <2> QED BY <2>1 DEF InfoInv, Own
<1>10. SessInv'
  <2>1. ~ confused' => ~ confused /\ AcceptInfo'
    BY <1>1, <1>2, <1>3, <1>8, ConnSets DEF Inv, SessInv, AcceptInfo, Own
  <2>2. \A d \in Checked : id'[d] = id[d]
    BY <1>3 DEF Checked
  <2> QED BY <1>1, <1>3, <2>1, <2>2, SessionsKept DEF Inv, sessionVars
<1> QED BY <1>3, <1>5, <1>6, <1>7, <1>9, <1>10 DEF Inv

LEMMA InvOnAccept == ASSUME Inv, NEW c \in Accepted, NEW n, OnAccept(c, n) PROVE Inv'
<1> DEFINE key == listen_port_2_key[LPort[c]]
<1>1. /\ state[c] = "idle" /\ TakesNetID(c, n)
      /\ LPort[c] \in DOMAIN listen_port_2_key
      /\ network_id_2_key' = Put(network_id_2_key, n, key)
      /\ needed' = [needed EXCEPT ![c] = key]
      /\ uncheck_info' = uncheck_info \/ uncheck_info' = Put(uncheck_info, n, Own(c))
      /\ n \in DOMAIN uncheck_info'
      /\ UNCHANGED <<listen_port_2_key, sessionVars, closing, in, out, got, shown, unasked>>
  BY DEF OnAccept, keyVars, Put
<1>2. c \in Conns /\ c \notin Dialled /\ key \in Keys
  BY <1>1, ConnSets DEF Inv, TypeInv
<1>3. /\ IdsInv' /\ Checked' = Checked /\ c \notin Checked
      /\ id' \in [Conns -> Nat] /\ id'[c] = n
      /\ state' \in [Conns -> {"idle", "dialling", "open", "closed"}] /\ state'[c] = "open"
      /\ free_ids' \subseteq Nat /\ max_id' \in Nat
      /\ \A d \in Conns \ {c} : id'[d] = id[d] /\ state'[d] = state[d]
      /\ \A d \in Conns : state[d] = "open" => id[d] # n /\ d # c
  BY <1>1, <1>2, OpensIds DEF sessionVars
<1> HIDE DEF key
<1>4. /\ needed' \in [Conns -> Keys \cup {None}] /\ needed'[c] = key
      /\ \A d \in Conns \ {c} : needed'[d] = needed[d]
  BY <1>1, <1>2 DEF Inv, TypeInv
<1>5. TypeInv'
  BY <1>1, <1>3, <1>4 DEF Inv, TypeInv
<1>6. PeerInv'
  BY <1>1, <1>3 DEF Inv, PeerInv, Has, OneKey
<1>7. KeyInv'
  <2>1. shown[c] = None
    BY <1>1, <1>2 DEF Inv, PeerInv
  <2>2. /\ n \in DOMAIN network_id_2_key' /\ network_id_2_key'[n] = key
        /\ \A m \in DOMAIN network_id_2_key \ {n} :
              m \in DOMAIN network_id_2_key' /\ network_id_2_key'[m] = network_id_2_key[m]
    BY <1>1 DEF Put
  <2>3. ASSUME NEW d \in Accepted, state'[d] = "open"
        PROVE  id'[d] \in DOMAIN network_id_2_key' /\ network_id_2_key'[id'[d]] = needed'[d]
    <3>1. CASE d = c
      BY <1>3, <1>4, <2>2, <3>1
    <3>2. CASE d # c
      BY <1>3, <1>4, <2>2, <2>3, <3>2, ConnSets DEF Inv, KeyInv
    <3> QED BY <3>1, <3>2
  <2>4. ASSUME NEW d \in Accepted \ unasked PROVE
           /\ d \in Checked' => Right(d)' /\ ~ Has(d, "key")'
           /\ Right(d)' /\ d \notin closing' => d \in Checked' \/ Has(d, "key")'
    <3>1. CASE d = c
      BY <1>1, <1>3, <2>1, <3>1 DEF Right
    <3>2. CASE d # c
      BY <1>1, <1>3, <1>4, <3>2, ConnSets DEF Inv, KeyInv, Right, Has
    <3> QED BY <3>1, <3>2
  <2> QED BY <1>1, <2>3, <2>4 DEF KeyInv
<1>8. \A d \in Conns : state[d] = "open" /\ id[d] \in DOMAIN uncheck_info =>
         id[d] \in DOMAIN uncheck_info' /\ uncheck_info'[id[d]] = uncheck_info[id[d]]
  BY <1>1, <1>3 DEF Put
<1>9. InfoInv'
  BY <1>1, <1>2, <1>3, <1>8, ConnSets DEF Inv, InfoInv, Has, Own
<1>10. SessInv'
  <2>1. ASSUME ~ confused' PROVE ~ confused /\ uncheck_info'[n] = Own(c)
    BY <2>1, Zenon DEF OnAccept
  <2>2. ~ confused' => ~ confused /\ AcceptInfo'
    BY <1>1, <1>2, <1>3, <1>8, <2>1, ConnSets DEF Inv, SessInv, AcceptInfo, Own
  <2>3. \A d \in Checked : id'[d] = id[d]
    BY <1>3 DEF Checked
  <2> QED BY <1>1, <1>3, <2>2, <2>3, SessionsKept DEF Inv, sessionVars
<1> QED BY <1>3, <1>5, <1>6, <1>7, <1>9, <1>10 DEF Inv

\* A session becomes active with the info of its own connection.
LEMMA Activates ==
    ASSUME Inv, NEW c \in Conns, state[c] = "open", OnActiveNetwork(id[c]),
           UNCHANGED <<state, id, got, uncheck_info>>,
           ~ confused => uncheck_info[id[c]] = Own(c)
    PROVE  /\ DOMAIN net_2_session' = DOMAIN net_2_session \cup {id[c]}
           /\ id[c] \in Nat /\ id[c] <= max_id /\ id[c] \notin free_ids
           /\ Checked' = Checked \cup {c} /\ SessInv'
<1> DEFINE sid == uncheck_info[id[c]]
<1>1. /\ session_2_net' = Put(session_2_net, sid, id[c])
      /\ net_2_session' = Put(net_2_session, id[c], sid)
      /\ active' = active \cup {sid}
  BY DEF OnActiveNetwork
<1>2. DOMAIN net_2_session' = DOMAIN net_2_session \cup {id[c]}
  BY <1>1 DEF Put
<1>3. Checked' = Checked \cup {c}
  BY <1>2 DEF Checked, Inv, IdsInv
<1> HIDE DEF sid
<1>4. SessInv'
  <2> SUFFICES ASSUME ~ confused'
               PROVE  AcceptInfo' /\ SessionsMatch'
    BY DEF SessInv
  <2>1. ~ confused /\ sid \notin active
    BY Zenon DEF OnActiveNetwork, sid
  <2>2. sid = Own(c)
    BY <2>1 DEF sid
  <2>3. /\ \A d \in Checked : /\ net_2_session[id[d]] = Own(d)
                              /\ Own(d) \in DOMAIN session_2_net
                              /\ session_2_net[Own(d)] = id[d]
        /\ DOMAIN session_2_net = {Own(d) : d \in Checked}
        /\ active = DOMAIN session_2_net
        /\ \A g \in got : g[2] = Own(g[1])
        /\ AcceptInfo
    BY <2>1 DEF Inv, SessInv, SessionsMatch
  <2>4. AcceptInfo'
    BY <2>3 DEF AcceptInfo, Own
  <2>5. \A d \in Checked : Own(d) # sid /\ d \in Conns /\ d # c
    BY <2>1, <2>2, <2>3 DEF Checked
  <2>6. \A d \in Checked : id[d] # id[c] /\ id[d] \in DOMAIN net_2_session
    BY <2>5 DEF Checked, Inv, IdsInv
  <2>7. /\ session_2_net'[sid] = id[c] /\ net_2_session'[id[c]] = sid
        /\ DOMAIN session_2_net' = DOMAIN session_2_net \cup {sid}
        /\ \A x \in DOMAIN session_2_net \ {sid} : session_2_net'[x] = session_2_net[x]
        /\ \A m \in DOMAIN net_2_session \ {id[c]} : net_2_session'[m] = net_2_session[m]
    BY <1>1 DEF Put
  <2>8. \A d \in Checked' : /\ net_2_session'[id[d]] = Own(d)
                            /\ Own(d) \in DOMAIN session_2_net'
                            /\ session_2_net'[Own(d)] = id[d]
    BY <1>3, <2>2, <2>3, <2>5, <2>6, <2>7
  <2>9. DOMAIN session_2_net' = {Own(d) : d \in Checked'}
    BY <1>3, <2>2, <2>3, <2>7
  <2>10. active' = DOMAIN session_2_net'
    BY <1>1, <2>3, <2>7
  <2>11. SessionsMatch'
    BY <2>3, <2>8, <2>9, <2>10 DEF SessionsMatch, Own
  <2> QED BY <2>4, <2>11
<1>5. id[c] \in Nat /\ id[c] <= max_id /\ id[c] \notin free_ids
  BY DEF Inv, TypeInv, IdsInv
<1> QED BY <1>2, <1>3, <1>4, <1>5

\* An accepted connection is closed by this side.
LEMMA Disconnects ==
    ASSUME Inv, NEW c \in Accepted, state[c] = "open", Disconnect(c), UNCHANGED <<id, got, uncheck_info>>
    PROVE  /\ state'[c] = "closed" /\ \A d \in Conns \ {c} : state'[d] = state[d]
           /\ state' \in [Conns -> {"idle", "dialling", "open", "closed"}]
           /\ Checked' = Checked \ {c} /\ SessInv' /\ UNCHANGED net_2_session
<1>1. /\ state' = [state EXCEPT ![c] = "closed"]
      /\ confused' = (confused \/ id[c] \in DOMAIN net_2_session)
      /\ UNCHANGED sessionVars /\ c \in Conns
  BY ConnSets DEF Disconnect
<1>2. /\ state'[c] = "closed" /\ \A d \in Conns \ {c} : state'[d] = state[d]
      /\ state' \in [Conns -> {"idle", "dialling", "open", "closed"}]
  BY <1>1 DEF Inv, TypeInv
<1>3. Checked' = Checked \ {c} /\ UNCHANGED net_2_session
  BY <1>1, <1>2 DEF Checked, sessionVars
<1>4. SessInv'
  <2> SUFFICES ASSUME ~ confused' PROVE SessInv'
    BY DEF SessInv
  <2>1. ~ confused /\ id[c] \notin DOMAIN net_2_session
    BY Zenon DEF Disconnect
  <2>2. Checked' = Checked
    BY <1>3, <2>1 DEF Checked
  <2>3. \A d \in Accepted : state'[d] = "open" => state[d] = "open"
    BY <1>1, <1>2, ConnSets
  <2>4. ~ confused' => ~ confused /\ AcceptInfo'
    BY <2>1, <2>3 DEF Inv, SessInv, AcceptInfo, Own
  <2> QED BY <1>1, <2>2, <2>4, SessionsKept DEF Inv, sessionVars
<1> QED BY <1>2, <1>3, <1>4

LEMMA InvOnRecvKey == ASSUME Inv, NEW c \in Conns, OnRecvKey(c) PROVE Inv'
<1>1. Reads(c, "key") /\ UNCHANGED <<listen_port_2_key, idVars, id, free_ids, max_id, closing,
                                     got, needed, shown, unasked>>
  BY DEF OnRecvKey, keyVars
<1>2. /\ state[c] = "open" /\ Has(c, "key")
      /\ in' \in [Conns -> Seq(Messages)] /\ \A d \in Conns \ {c} : in'[d] = in[d]
      /\ \A m : Has(c, m)' => Has(c, m)
      /\ ~ Has(c, "key")' /\ OneKey(c)'
  BY <1>1, ReadsIn DEF Inv
<1>3. c \in Accepted /\ shown[c] # None
  BY <1>2 DEF Inv, PeerInv
<1>7. \A d \in Conns : OneKey(d)' /\ \A m : Has(d, m)' => Has(d, m)
  BY <1>1, ReadsAll DEF Inv
<1>4. network_id_2_key[id[c]] = needed[c]
  BY <1>2, <1>3 DEF Inv, KeyInv
<1>5. CASE shown[c] = KeyOfNet(c)
  <2>1. out' = [out EXCEPT ![c] = "yes"] /\ OnActiveNetwork(id[c]) /\ UNCHANGED state
    BY <1>5 DEF OnRecvKey
  <2>2. out' \in [Conns -> Messages \cup {"nothing"}] /\ \A d \in Conns \ {c} : out'[d] = out[d]
    BY <2>1 DEF Inv, TypeInv, Messages
  <2>3. ~ confused => uncheck_info[id[c]] = Own(c)
    BY <1>2, <1>3 DEF Inv, SessInv, AcceptInfo
  <2>4. /\ DOMAIN net_2_session' = DOMAIN net_2_session \cup {id[c]}
        /\ id[c] \in Nat /\ id[c] <= max_id /\ id[c] \notin free_ids
        /\ Checked' = Checked \cup {c} /\ SessInv'
    BY <1>1, <1>2, <2>1, <2>3, Activates DEF idVars
  <2>5. TypeInv'
    BY <1>1, <1>2, <2>1, <2>2 DEF Inv, TypeInv
  <2>6. IdsInv'
    BY <1>1, <1>2, <2>1, <2>4 DEF Inv, IdsInv
  <2>7. PeerInv'
    BY <1>1, <1>2, <1>7, <2>1, <2>2 DEF Inv, PeerInv
  <2>8. KeyInv'
    <3>1. Right(c)'
      BY <1>1, <1>3, <1>4, <1>5 DEF Right, KeyOfNet
    <3> QED BY <1>1, <1>2, <2>1, <2>4, <3>1, ConnSets DEF Inv, KeyInv, Right, Has, idVars
  <2>9. InfoInv'
    <3>1. \A d \in Dialled : Has(d, "yes")' => Has(d, "yes")
      BY <1>1, ReadsAll, ConnSets DEF Inv
    <3> QED BY <1>1, <1>3, <2>1, <2>2, <3>1, ConnSets DEF Inv, InfoInv, Own, idVars
  <2> QED BY <2>4, <2>5, <2>6, <2>7, <2>8, <2>9 DEF Inv
<1>6. CASE shown[c] # KeyOfNet(c)
  <2>1. Disconnect(c) /\ out' = out
    BY <1>6 DEF OnRecvKey
  <2>2. /\ state'[c] = "closed" /\ \A d \in Conns \ {c} : state'[d] = state[d]
        /\ state' \in [Conns -> {"idle", "dialling", "open", "closed"}]
        /\ Checked' = Checked \ {c} /\ SessInv' /\ UNCHANGED net_2_session
    BY <1>1, <1>2, <1>3, <2>1, Disconnects DEF idVars
  <2>3. TypeInv'
    BY <1>1, <1>2, <2>1, <2>2 DEF Inv, TypeInv
  <2>4. IdsInv'
    BY <1>1, <2>2 DEF Inv, IdsInv
  <2>5. PeerInv'
    <3>1. \A d \in Conns : state'[d] \in {"idle", "dialling"} => d # c /\ in'[d] = in[d] /\ state'[d] = state[d]
      BY <1>2, <2>2
    <3> QED BY <1>1, <1>7, <2>1, <3>1 DEF Inv, PeerInv
  <2>6. ~ Right(c)'
    BY <1>1, <1>4, <1>6 DEF Right, KeyOfNet
  <2>7. KeyInv'
    <3>1. \A d \in Conns \ {c} : /\ Has(d, "key")' <=> Has(d, "key")
                                 /\ Right(d)' <=> Right(d)
                                 /\ d \in Checked' <=> d \in Checked
      BY <1>1, <1>2, <2>2 DEF Has, Right
    <3>2. c \notin Checked'
      BY <2>2
    <3>3. \A d \in Accepted \ unasked' :
             /\ d \in Checked' => Right(d)' /\ ~ Has(d, "key")'
             /\ Right(d)' /\ d \notin closing' => d \in Checked' \/ Has(d, "key")'
      BY <1>1, <2>6, <3>1, <3>2, ConnSets DEF Inv, KeyInv
    <3>4. \A d \in Accepted : state'[d] = "open" =>
             id'[d] \in DOMAIN network_id_2_key' /\ network_id_2_key'[id'[d]] = needed'[d]
      BY <1>1, <2>2, ConnSets DEF Inv, KeyInv, idVars
    <3> QED BY <3>3, <3>4 DEF KeyInv
  <2>8. InfoInv'
    BY <1>1, <1>2, <1>3, <2>1, <2>2, ConnSets DEF Inv, InfoInv, Has, Own, idVars
  <2> QED BY <2>2, <2>3, <2>4, <2>5, <2>7, <2>8 DEF Inv
<1> QED BY <1>5, <1>6

LEMMA InvOnRecvAnswer ==
    ASSUME Inv, NEW c \in Conns, NEW answer \in {"yes", "no"}, OnRecvAnswer(c, answer)
    PROVE  Inv'
<1>1. /\ Reads(c, answer)
      /\ UNCHANGED <<listen_port_2_key, idVars, id, free_ids, max_id, closing, out, got, needed, shown,
                     unasked>>
  BY DEF OnRecvAnswer, keyVars
<1>2. /\ state[c] = "open" /\ Has(c, answer)
      /\ in' \in [Conns -> Seq(Messages)] /\ \A d \in Conns \ {c} : in'[d] = in[d]
      /\ Has(c, "key") => Has(c, "key")'
  BY <1>1, ReadsIn DEF Inv
<1>3. \A d \in Conns : OneKey(d)' /\ \A m : Has(d, m)' => Has(d, m)
  BY <1>1, ReadsAll DEF Inv
<1>4. c \in Accepted => c \in unasked
  BY <1>2 DEF Inv, PeerInv
<1>5. \A d \in Conns : Has(d, "key")' <=> Has(d, "key")
  <2>1. \A d \in Conns \ {c} : Has(d, "key") => Has(d, "key")'
    BY <1>2 DEF Has
  <2> QED BY <1>2, <1>3, <2>1, Zenon
<1>6. ASSUME state' \in [Conns -> {"idle", "dialling", "open", "closed"}],
             state' = state \/ state'[c] = "closed", \A d \in Conns \ {c} : state'[d] = state[d],
             \A n \in DOMAIN net_2_session' : n \in DOMAIN net_2_session \/ n = id[c],
             \A d \in Accepted \ {c} : d \in Checked' <=> d \in Checked,
             SessInv'
      PROVE  Inv'
  <2>1. TypeInv'
    BY <1>1, <1>2, <1>6 DEF Inv, TypeInv
  <2>2. id[c] \in Nat /\ id[c] <= max_id /\ id[c] \notin free_ids
    BY <1>2 DEF Inv, TypeInv, IdsInv
  <2>3. \A d \in Conns : state'[d] \in {"idle", "dialling", "open"} => state'[d] = state[d]
    BY <1>6
  <2>4. IdsInv'
    BY <1>1, <1>6, <2>2, <2>3 DEF Inv, IdsInv
  <2>5. PeerInv'
    <3>1. \A d \in Conns : state'[d] \in {"idle", "dialling"} => d # c /\ in'[d] = in[d]
      BY <1>2, <1>6, <2>3
    <3> QED BY <1>1, <1>3, <2>3, <3>1 DEF Inv, PeerInv
  <2>6. KeyInv'
    BY <1>1, <1>4, <1>5, <1>6, <2>3, ConnSets DEF Inv, KeyInv, Right, idVars
  <2>7. InfoInv'
    BY <1>1, <1>3, <2>3, ConnSets DEF Inv, InfoInv, Own, idVars
  <2> QED BY <1>6, <2>1, <2>4, <2>5, <2>6, <2>7 DEF Inv
<1>7. CASE answer = "yes" /\ OnActiveNetwork(id[c]) /\ state' = state
  <2>1. ~ confused => uncheck_info[id[c]] = Own(c)
    <3>1. CASE c \in Accepted
      BY <1>2, <3>1 DEF Inv, SessInv, AcceptInfo
    <3>2. CASE c \in Dialled
      BY <1>2, <1>7, <3>2 DEF Inv, InfoInv
    <3> QED BY <3>1, <3>2 DEF Conns
  <2>2. /\ DOMAIN net_2_session' = DOMAIN net_2_session \cup {id[c]}
        /\ Checked' = Checked \cup {c} /\ SessInv'
    BY <1>1, <1>2, <1>7, <2>1, Activates DEF idVars
  <2>3. state' \in [Conns -> {"idle", "dialling", "open", "closed"}]
    BY <1>7 DEF Inv, TypeInv
  <2> QED BY <1>6, <1>7, <2>2, <2>3
<1>8. CASE c \in Accepted /\ Disconnect(c)
  <2>1. /\ state'[c] = "closed" /\ \A d \in Conns \ {c} : state'[d] = state[d]
        /\ state' \in [Conns -> {"idle", "dialling", "open", "closed"}]
        /\ Checked' = Checked \ {c} /\ SessInv' /\ UNCHANGED net_2_session
    BY <1>1, <1>2, <1>8, Disconnects DEF idVars
  <2> QED BY <1>6, <2>1
<1>9. CASE UNCHANGED <<state, sessionVars, confused>>
  <2>1. Checked' = Checked
    BY <1>1, <1>9 DEF Checked, sessionVars
  <2>2. SessInv'
    BY <1>1, <1>9, <2>1, SessKept DEF Inv, sessionVars, idVars
  <2>3. state' \in [Conns -> {"idle", "dialling", "open", "closed"}]
    BY <1>9 DEF Inv, TypeInv
  <2> QED BY <1>6, <1>9, <2>1, <2>2, <2>3 DEF sessionVars
<1> QED BY <1>7, <1>8, <1>9 DEF OnRecvAnswer

LEMMA InvOnRecvData == ASSUME Inv, NEW c \in Conns, OnRecvData(c) PROVE Inv'
<1>1. /\ Reads(c, "data")
      /\ \A g \in got' : g \in got \/ (id[c] \in DOMAIN net_2_session /\ g = <<c, net_2_session[id[c]]>>)
      /\ UNCHANGED <<listen_port_2_key, idVars, sessionVars, connVars, out, needed, shown, unasked, confused>>
  BY DEF OnRecvData, keyVars
<1>2. /\ state[c] = "open" /\ in' \in [Conns -> Seq(Messages)]
      /\ \A d \in Conns \ {c} : in'[d] = in[d]
      /\ Has(c, "key") => Has(c, "key")'
  BY <1>1, ReadsIn DEF Inv
<1>3. \A d \in Conns : OneKey(d)' /\ \A m : Has(d, m)' => Has(d, m)
  BY <1>1, ReadsAll DEF Inv
<1>4. Checked' = Checked
  BY <1>1 DEF Checked, connVars, sessionVars
<1>5. TypeInv' /\ IdsInv'
  BY <1>1, <1>2 DEF Inv, TypeInv, IdsInv, connVars, sessionVars
<1>6. PeerInv'
  BY <1>1, <1>2, <1>3 DEF Inv, PeerInv, connVars
<1>7. \A d \in Conns : Has(d, "key") => Has(d, "key")'
  BY <1>2 DEF Has
<1>8. KeyInv'
  BY <1>1, <1>3, <1>4, <1>7, ConnSets DEF Inv, KeyInv, Right, connVars, idVars
<1>9. InfoInv'
  BY <1>1, <1>3, ConnSets DEF Inv, InfoInv, Own, connVars, idVars
<1>10. SessInv'
  <2> SUFFICES ASSUME ~ confused
               PROVE  AcceptInfo' /\ SessionsMatch'
    BY <1>1 DEF SessInv
  <2>1. AcceptInfo /\ SessionsMatch
    BY DEF Inv, SessInv
  <2>2. id[c] \in DOMAIN net_2_session => net_2_session[id[c]] = Own(c)
    BY <1>2, <2>1 DEF SessionsMatch, Checked
  <2>3. \A g \in got' : g[2] = Own(g[1])
    BY <1>1, <2>1, <2>2 DEF SessionsMatch
  <2>4. SessionsMatch'
    BY <1>1, <1>4, <2>1, <2>3 DEF SessionsMatch, Own, connVars, sessionVars
  <2>5. AcceptInfo'
    BY <1>1, <2>1 DEF AcceptInfo, Own, connVars, sessionVars, idVars
  <2> QED BY <2>4, <2>5
<1> QED BY <1>5, <1>6, <1>8, <1>9, <1>10 DEF Inv

LEMMA InvOnDisconnect == ASSUME Inv, NEW c \in Conns, OnDisconnect(c) PROVE Inv'
<1> DEFINE sids == {net_2_session[n] : n \in {id[c]} \cap DOMAIN net_2_session}
<1>1. /\ state[c] = "open" /\ c \in closing /\ in[c] = << >>
      /\ session_2_net' = [s \in DOMAIN session_2_net \ sids |-> session_2_net[s]]
      /\ net_2_session' = [n \in DOMAIN net_2_session \ {id[c]} |-> net_2_session[n]]
      /\ active' = active \ sids
      /\ state' = [state EXCEPT ![c] = "closed"]
      /\ free_ids' = free_ids \cup {id[c]}
      /\ UNCHANGED <<listen_port_2_key, idVars, session_map, id, max_id, closing, in, out,
                     got, needed, shown, unasked, confused>>
  BY DEF OnDisconnect, NetWithoutSession, Erase, keyVars
<1>2. state'[c] = "closed" /\ \A d \in Conns \ {c} : state'[d] = state[d]
  BY <1>1 DEF Inv, TypeInv
<1>3. TypeInv'
  BY <1>1 DEF Inv, TypeInv
<1>4. \A d \in Conns \ {c} : state[d] = "open" => id[d] # id[c]
  BY <1>1 DEF Inv, IdsInv
<1>5. Checked' = Checked \ {c}
  BY <1>1, <1>2, <1>4 DEF Checked
<1>6. IdsInv'
  <2>1. id[c] <= max_id
    BY <1>1 DEF Inv, IdsInv
  <2>2. \A n \in DOMAIN net_2_session' : n \in Nat /\ n <= max_id /\ n \notin free_ids'
    BY <1>1 DEF Inv, IdsInv
  <2> QED BY <1>1, <1>2, <1>4, <2>1, <2>2 DEF Inv, IdsInv
<1>7. PeerInv'
  BY <1>1, <1>2 DEF Inv, PeerInv, Has, OneKey
<1>8. KeyInv'
  BY <1>1, <1>2, <1>5, ConnSets DEF Inv, KeyInv, Right, Has, idVars
<1>9. InfoInv'
  BY <1>1, <1>2, ConnSets DEF Inv, InfoInv, Has, Own, idVars
<1>10. SessInv'
  <2> SUFFICES ASSUME ~ confused
               PROVE  AcceptInfo' /\ SessionsMatch'
    BY <1>1 DEF SessInv
  <2>1. /\ \A d \in Checked : /\ net_2_session[id[d]] = Own(d)
                              /\ Own(d) \in DOMAIN session_2_net
                              /\ session_2_net[Own(d)] = id[d]
        /\ DOMAIN session_2_net = {Own(d) : d \in Checked}
        /\ active = DOMAIN session_2_net
        /\ \A g \in got : g[2] = Own(g[1])
        /\ AcceptInfo
    BY DEF Inv, SessInv, SessionsMatch
  <2>2. AcceptInfo'
    BY <1>1, <1>2, <2>1, ConnSets DEF AcceptInfo, Own, idVars
  <2>3. \A d \in Checked' : d \in Checked /\ d # c /\ id[d] # id[c] /\ id[d] \in DOMAIN net_2_session
    BY <1>4, <1>5 DEF Checked
  <2>4. sids = IF c \in Checked THEN {Own(c)} ELSE {}
    BY <1>1, <2>1 DEF Checked
  <2>5. \A d \in Checked' : Own(d) \notin sids
    BY <2>1, <2>3, <2>4
  <2>6. /\ DOMAIN session_2_net' = DOMAIN session_2_net \ sids
        /\ \A x \in DOMAIN session_2_net' : session_2_net'[x] = session_2_net[x]
        /\ \A n \in DOMAIN net_2_session \ {id[c]} : net_2_session'[n] = net_2_session[n]
    BY <1>1
  <2>7. active' = DOMAIN session_2_net'
    BY <1>1, <2>1, <2>6
  <2> HIDE DEF sids
  <2>8. \A d \in Checked' : /\ net_2_session'[id[d]] = Own(d)
                            /\ Own(d) \in DOMAIN session_2_net'
                            /\ session_2_net'[Own(d)] = id[d]
    BY <2>1, <2>3, <2>5, <2>6
  <2>9. DOMAIN session_2_net' = {Own(d) : d \in Checked'}
    BY <1>5, <2>1, <2>4, <2>5, <2>6
  <2>10. SessionsMatch'
    BY <1>1, <2>1, <2>7, <2>8, <2>9 DEF SessionsMatch, Own
  <2> QED BY <2>2, <2>10
<1> QED BY <1>3, <1>6, <1>7, <1>8, <1>9, <1>10 DEF Inv

-----------------------------------------------------------------------------
\* What a peer says changes messages only; the parts about keys and info are
\* left to each message.
LEMMA PeerKept ==
    ASSUME Inv, NEW c \in Conns, NEW type \in Messages, PeerSays(c, type),
           shown' \in [Conns -> Keys \cup {None}],
           out' \in [Conns -> Messages \cup {"nothing"}],
           \A d \in Conns \ {c} : shown'[d] = shown[d] /\ out'[d] = out[d],
           type = "key" => ~ Has(c, "key") /\ c \in Accepted /\ shown'[c] # None,
           type # "key" => shown'[c] = shown[c],
           unasked \subseteq unasked', c \in Accepted /\ type \in {"yes", "no"} => c \in unasked',
           KeyInv', InfoInv'
    PROVE  Inv'
<1>1. UNCHANGED <<listen_port_2_key, idVars, sessionVars, connVars, got, needed, confused>>
  BY DEF PeerSays, keyVars
<1>2. /\ state[c] = "open" /\ in' \in [Conns -> Seq(Messages)]
      /\ \A d \in Conns \ {c} : in'[d] = in[d]
      /\ \A m : Has(c, m)' /\ m # type => Has(c, m)
  BY SaysIn DEF Inv
<1>3. OneKey(c)'
  BY SaysIn DEF Inv, PeerInv
<1>4. TypeInv' /\ IdsInv'
  BY <1>1, <1>2 DEF Inv, TypeInv, IdsInv, connVars, sessionVars
<1>5. PeerInv'
  <2>1. \A d \in Conns \ {c} : OneKey(d)' /\ \A m : Has(d, m)' => Has(d, m)
    <3>1. \A d \in Conns : OneKey(d)
      BY DEF Inv, PeerInv
    <3> TAKE d \in Conns \ {c}
    <3>2. in'[d] = in[d] /\ OneKey(d)
      BY <1>2, <3>1
    <3>3. OneKey(d)'
      BY <3>2 DEF OneKey
    <3> QED BY <3>2, <3>3 DEF Has
  <2>2. ASSUME NEW d \in Accepted, Has(d, "yes")' \/ Has(d, "no")' PROVE d \in unasked'
    BY <1>2, <2>1, <2>2, ConnSets DEF Inv, PeerInv
  <2>3. ASSUME NEW d \in Conns
        PROVE  /\ state'[d] \in {"idle", "dialling"} =>
                     in'[d] = << >> /\ out'[d] = "nothing" /\ shown'[d] = None /\ d \notin closing'
               /\ Has(d, "key")' => d \in Accepted /\ shown'[d] # None
               /\ OneKey(d)'
    BY <1>1, <1>2, <1>3, <2>1 DEF Inv, PeerInv, connVars
  <2> QED BY <2>2, <2>3 DEF PeerInv
<1>6. Checked' = Checked
  BY <1>1 DEF Checked, connVars, sessionVars
<1>7. SessInv'
  BY <1>1, <1>6, SessKept DEF Inv, connVars, sessionVars, idVars
<1> QED BY <1>4, <1>5, <1>7 DEF Inv

LEMMA InvPeerSendsKey ==
    ASSUME Inv, NEW c \in Conns, NEW key \in Keys \ LongKeys, PeerSendsKey(c, key)
    PROVE  Inv'
<1>1. /\ c \in Accepted /\ shown[c] = None /\ shown' = [shown EXCEPT ![c] = key]
      /\ PeerSays(c, "key") /\ out' = out /\ unasked' = unasked
  BY DEF PeerSendsKey
<1>2. /\ shown' \in [Conns -> Keys \cup {None}] /\ shown'[c] = key /\ key # None
      /\ \A d \in Conns \ {c} : shown'[d] = shown[d]
  BY <1>1, RpcManagerAssumption DEF Inv, TypeInv
<1>3. ~ Has(c, "key")
  BY <1>1 DEF Inv, PeerInv
<1>4. "key" \in Messages
  BY DEF Messages
<1>5. /\ \A d \in Conns \ {c} : in'[d] = in[d]
      /\ Has(c, "key")' /\ \A m : Has(c, m)' /\ m # "key" => Has(c, m)
  BY <1>1, <1>4, SaysIn DEF Inv
<1>6. UNCHANGED <<idVars, sessionVars, connVars, needed>>
  BY <1>1 DEF PeerSays
<1>7. Checked' = Checked /\ (c \notin unasked => c \notin Checked)
  BY <1>1, <1>6 DEF Checked, connVars, sessionVars, Inv, KeyInv, Right
<1>8. KeyInv'
  <2>1. \A d \in Conns \ {c} : Has(d, "key")' <=> Has(d, "key")
    BY <1>5 DEF Has
  <2> QED BY <1>1, <1>2, <1>5, <1>6, <1>7, <2>1, ConnSets DEF Inv, KeyInv, Right, connVars, idVars
<1>9. InfoInv'
  <2>1. \A d \in Dialled : Has(d, "yes")' => Has(d, "yes")
    BY <1>1, <1>5, ConnSets DEF Has
  <2> QED BY <1>1, <1>6, <2>1 DEF Inv, InfoInv, Own, connVars, idVars
<1>10. out' \in [Conns -> Messages \cup {"nothing"}]
  BY <1>1 DEF Inv, TypeInv
<1> QED BY <1>1, <1>2, <1>3, <1>4, <1>8, <1>9, <1>10, PeerKept

\* Answers and data.
LEMMA InvPeerSays ==
    ASSUME Inv, NEW c \in Conns, NEW type \in {"yes", "no", "data"}, NEW now \in Messages,
           PeerSays(c, type), out' = [out EXCEPT ![c] = now], now # "key", shown' = shown,
           c \in Dialled /\ type = "yes" => out[c] = "key",
           unasked' = unasked \/ (c \in Accepted /\ unasked' = unasked \cup {c}),
           c \in Accepted /\ type # "data" => c \in unasked'
    PROVE  Inv'
<1>1. type \in Messages /\ type # "key"
  BY DEF Messages
<1>2. /\ state[c] = "open" /\ \A d \in Conns \ {c} : in'[d] = in[d]
      /\ \A m : Has(c, m) => Has(c, m)'
      /\ \A m : Has(c, m)' /\ m # type => Has(c, m)
  BY <1>1, SaysIn DEF Inv
<1>3. UNCHANGED <<idVars, sessionVars, connVars, needed>>
  BY DEF PeerSays
<1>4. Checked' = Checked
  BY <1>3 DEF Checked, connVars, sessionVars
<1>5. /\ out' \in [Conns -> Messages \cup {"nothing"}] /\ out'[c] = now
      /\ \A d \in Conns \ {c} : out'[d] = out[d]
  BY DEF Inv, TypeInv
<1>6. KeyInv'
  <2>1. \A d \in Conns : Has(d, "key")' <=> Has(d, "key")
    BY <1>1, <1>2 DEF Has
  <2> QED BY <1>3, <1>4, <2>1, ConnSets DEF Inv, KeyInv, Right, connVars, idVars
<1>7. InfoInv'
  <2>1. \A d \in Conns \ {c} : Has(d, "yes")' => Has(d, "yes")
    BY <1>2 DEF Has
  <2>2. c \in Dialled /\ Has(c, "yes")' => out[c] = "key" \/ Has(c, "yes")
    BY <1>2
  <2> QED BY <1>2, <1>3, <1>5, <2>1, <2>2, ConnSets DEF Inv, InfoInv, Own, connVars, idVars
<1>8. shown' \in [Conns -> Keys \cup {None}]
  BY DEF Inv, TypeInv
<1> QED BY <1>1, <1>5, <1>6, <1>7, <1>8, PeerKept

LEMMA NextInv == Inv /\ [Next]_vars => Inv'
<1> SUFFICES ASSUME Inv, [Next]_vars PROVE Inv'
  OBVIOUS
<1>1. CASE UNCHANGED vars
  <2>1. TypeInv' /\ IdsInv'
    BY <1>1 DEF Inv, TypeInv, IdsInv, vars, keyVars, connVars, sessionVars
  <2>2. PeerInv' /\ KeyInv' /\ InfoInv'
    BY <1>1 DEF Inv, PeerInv, KeyInv, InfoInv, Has, OneKey, Right, Checked, Own,
                vars, connVars, sessionVars, idVars
  <2>3. SessInv'
    BY <1>1, SessKept DEF Inv, Checked, vars, connVars, sessionVars, idVars
  <2> QED BY <2>1, <2>2, <2>3 DEF Inv
<1>2. ASSUME NEW c \in Dialled, OnConnectFail(c) PROVE Inv'
  BY <1>2, InvNotOpen DEF OnConnectFail, keyVars
<1>3. ASSUME NEW c \in Dialled, NEW key \in Keys, AsyncConnect(c, key) PROVE Inv'
  BY <1>3, InvNotOpen DEF AsyncConnect
<1>4. ASSUME NEW c \in Conns, Open(c) PROVE Inv'
  BY <1>4, InvOnAccept, InvOnConnect DEF Open, Conns
<1>5. ASSUME NEW c \in Conns, Callback(c) PROVE Inv'
  BY <1>5, InvOnRecvKey, InvOnRecvData, InvOnDisconnect, InvOnRecvAnswer DEF Callback
<1>6. ASSUME NEW c \in Conns, Peer(c) PROVE Inv'
  <2>1. ASSUME NEW answer \in {"yes", "no"}, PeerAnswers(c, answer) PROVE Inv'
    <3>1. answer \in {"yes", "no", "data"} /\ answer \in Messages /\ answer # "key"
      BY DEF Messages
    <3>2. PeerSays(c, answer) /\ out' = [out EXCEPT ![c] = answer] /\ shown' = shown
      BY <2>1 DEF PeerAnswers
    <3>3. CASE c \in Dialled
      <4>1. out[c] = "key" /\ unasked' = unasked /\ c \notin Accepted
        BY <2>1, <3>3, ConnSets DEF PeerAnswers
      <4> QED BY <3>1, <3>2, <4>1, InvPeerSays, Zenon
    <3>4. CASE c \notin Dialled
      <4>1. c \in Accepted /\ unasked' = unasked \cup {c}
        BY <2>1, <3>4 DEF PeerAnswers, Conns
      <4>2. c \in unasked'
        BY <4>1
      <4> QED BY <3>1, <3>2, <3>4, <4>1, <4>2, InvPeerSays, Zenon
    <3> QED BY <3>3, <3>4
  <2>2. ASSUME PeerSendsData(c) PROVE Inv'
    <3>1. "data" \in Messages /\ "data" \in {"yes", "no", "data"} /\ "data" # "yes" /\ "data" # "key"
      BY DEF Messages
    <3>2. PeerSays(c, "data") /\ out' = [out EXCEPT ![c] = "data"] /\ shown' = shown /\ unasked' = unasked
      BY <2>2 DEF PeerSendsData
    <3> QED BY <3>1, <3>2, InvPeerSays, Zenon
  <2> QED BY <1>6, <2>1, <2>2, InvPeerSendsKey, InvPeerCloses DEF Peer
<1> QED BY <1>1, <1>2, <1>3, <1>4, <1>5, <1>6, InvAsyncListen DEF Next

LEMMA SpecInv == Spec => []Inv
<1> QED BY InitInv, NextInv, PTL DEF Spec

\* The key check decides about a session, for any number of connections, ids
\* that are used again and keys that are changed while connections are open, except
\* on those whose peer has sent an answer of its own.
THEOREM KeyCheck == Spec => []KeyDecides
<1>1. Inv => KeyDecides
  BY DEF Inv, KeyInv, KeyDecides, Right, Has
<1> QED BY <1>1, SpecInv, PTL

\* The maps of sessions and net ids agree with the connections that are open,
\* and data goes to the session of the connection it came on.
THEOREM SessionMaps == Spec => []SessionsMatch
<1>1. Inv => SessionsMatch
  BY DEF Inv, SessInv, SessionsMatch
<1> QED BY <1>1, SpecInv, PTL

-----------------------------------------------------------------------------
(* Serialize. *)

\* What can be sent at all, and what goes out for it.
Sent == UNION {Objects[n] : n \in Nets}
Packed(o) == <<o[1], Encode(o[1], o[2])>>
\* The object that comes out at the other end.
Rebuilt(o) == <<o[1], Decode(o[1], New(o[1]), Encode(o[1], o[2]))>>

\* Packages, and what can become of one.
Packages == {Packed(o) : o \in Sent}
Results == {nullptr} \cup {<<c, Decode(c, New(c), p[2])>> : c \in Registered, p \in Packages}

SerializeTypes ==
    /\ sent \in [Nets -> Seq(Sent)] /\ packages \in [Nets -> Seq(Packages)]
    /\ pc \in [Nets -> {"idle", "end", "create", "read", "tell"}]
    /\ done \in [Nets -> Seq(Results)]
    /\ data = [n \in Nets |-> data[n]] /\ serialize_data = [n \in Nets |-> serialize_data[n]]
    /\ \A n \in Nets :
          /\ pc[n] # "idle" => data[n] \in Packages
          /\ pc[n] = "read" => \E c \in Registered : serialize_data[n] = <<c, New(c)>>
          /\ pc[n] = "tell" => serialize_data[n] \in Results

InHand(n) == IF pc[n] = "idle" THEN 0 ELSE 1

\* The packages done with, in hand and under way are those sent, in this order.
Flow(n) ==
    /\ Len(done[n]) + InHand(n) + Len(packages[n]) = Len(sent[n])
    /\ \A j \in 1..Len(packages[n]) : packages[n][j] = Packed(sent[n][Len(done[n]) + InHand(n) + j])

\* The package in hand; its object has the right class unless the name was
\* overwritten before it was read.
Current(n, o) ==
    /\ data[n] = Packed(o)
    /\ pc[n] \in {"end", "create"} /\ n \notin mixed => serialize_name = o[1]
    /\ pc[n] = "read" /\ this(n) \notin raced =>
          o[1] \in Registered /\ serialize_data[n] = <<o[1], New(o[1])>>
    /\ pc[n] = "tell" /\ this(n) \notin raced =>
          o[1] \in Registered /\ serialize_data[n] = Rebuilt(o)

\* What became of package i, which was o.
Outcome(n, i, o) ==
    \/ <<n, i>> \in raced
    \/ done[n][i] = Rebuilt(o)
    \/ /\ done[n][i] = nullptr
       /\ \/ <<n, i>> \in missed \/ o[1] \notin Registered
          \/ NameLength[o[1]] >= SERIALIZE_CLASS_NAME_MAX_LEN

NetOK(n) ==
    /\ Flow(n)
    /\ pc[n] # "idle" => Current(n, sent[n][Len(done[n]) + 1])
    /\ \A i \in 1..Len(done[n]) : Outcome(n, i, sent[n][i])

SerializeInv == SerializeTypes /\ \A n \in Nets : NetOK(n)

LEMMA NetFrame ==
    ASSUME NEW m, NetOK(m), sent'[m] = sent[m], packages'[m] = packages[m], pc'[m] = pc[m],
           data'[m] = data[m], serialize_data'[m] = serialize_data[m], done'[m] = done[m],
           raced \subseteq raced', missed \subseteq missed',
           m \in mixed' \/ (mixed' = mixed /\ serialize_name' = serialize_name)
    PROVE  NetOK(m)'
<1>1. Flow(m)'
  BY Zenon DEF NetOK, Flow, InHand
<1>2. ASSUME pc[m] # "idle" PROVE Current(m, sent[m][Len(done[m]) + 1])'
  <2>1. PICK o : o = sent[m][Len(done[m]) + 1]
    OBVIOUS
  <2>2. o = sent'[m][Len(done'[m]) + 1]
    BY <2>1, Zenon
  <2>3. Current(m, o)
    BY <1>2, <2>1, Zenon DEF NetOK
  <2>4. Current(m, o)'
    BY <2>3, Zenon DEF Current, this
  <2> QED BY <2>2, <2>4, Zenon DEF Current, this
<1>3. ASSUME NEW i \in 1..Len(done[m]) PROVE Outcome(m, i, sent[m][i])'
  <2>1. Outcome(m, i, sent[m][i])
    BY Zenon DEF NetOK
  <2> QED BY <2>1, Zenon DEF Outcome
<1> QED BY <1>1, <1>2, <1>3, Zenon DEF NetOK

LEMMA SerializeInitInv == SerializeInit => SerializeInv
<1> SUFFICES ASSUME SerializeInit PROVE SerializeInv
  OBVIOUS
<1>1. << >> \in Seq(Sent) /\ << >> \in Seq(Packages) /\ << >> \in Seq(Results) /\ Len(<< >>) = 0
  OBVIOUS
<1>2. SerializeTypes
  BY <1>1, Zenon DEF SerializeTypes, SerializeInit
<1>3. ASSUME NEW n \in Nets PROVE NetOK(n)
  <2>1. sent[n] = << >> /\ packages[n] = << >> /\ done[n] = << >> /\ pc[n] = "idle"
    BY Zenon DEF SerializeInit
  <2>2. InHand(n) = 0
    BY <2>1, Zenon DEF InHand
  <2>3. Flow(n)
    BY <1>1, <2>1, <2>2 DEF Flow
  <2>4. 1..Len(done[n]) = {}
    BY <1>1, <2>1
  <2> QED BY <2>1, <2>3, <2>4, Zenon DEF NetOK
<1> QED BY <1>2, <1>3, Zenon DEF SerializeInv

\* What a connection has, as numbers and sequences.
LEMMA NetParts ==
    ASSUME SerializeTypes, NEW n \in Nets, NetOK(n)
    PROVE  \E s \in Seq(Sent), p \in Seq(Packages), r \in Seq(Results), h \in {0, 1} :
              /\ s = sent[n] /\ p = packages[n] /\ r = done[n] /\ h = InHand(n)
              /\ Len(r) + h + Len(p) = Len(s)
              /\ \A j \in 1..Len(p) : p[j] = Packed(s[Len(r) + h + j])
              /\ h = 1 => Current(n, s[Len(r) + 1])
              /\ \A i \in 1..Len(r) : Outcome(n, i, s[i])
<1>1. sent[n] \in Seq(Sent) /\ packages[n] \in Seq(Packages) /\ done[n] \in Seq(Results)
  BY Zenon DEF SerializeTypes
<1>2. InHand(n) \in {0, 1} /\ (InHand(n) = 1 => pc[n] # "idle")
  BY DEF InHand
<1>3. Flow(n) /\ (InHand(n) = 1 => Current(n, sent[n][Len(done[n]) + 1]))
      /\ \A i \in 1..Len(done[n]) : Outcome(n, i, sent[n][i])
  BY <1>2, Zenon DEF NetOK
<1> QED BY <1>1, <1>2, <1>3, Zenon DEF Flow

LEMMA AppendIs ==
    ASSUME NEW S, NEW s \in Seq(S), NEW x \in S
    PROVE  /\ Append(s, x) \in Seq(S) /\ Len(Append(s, x)) = Len(s) + 1
           /\ Append(s, x)[Len(s) + 1] = x /\ \A i \in 1..Len(s) : Append(s, x)[i] = s[i]
  OBVIOUS

LEMMA SerializeSend ==
    ASSUME SerializeInv, NEW n \in Nets, NEW o \in Objects[n], SendSerialize(n, o)
    PROVE  SerializeInv'
<1>0. SerializeTypes /\ NetOK(n) /\ \A m \in Nets : NetOK(m)
  BY Zenon DEF SerializeInv
<1>1. o \in Sent /\ Packed(o) \in Packages
  BY Zenon DEF Sent, Packages
<1>2. PICK s \in Seq(Sent), p \in Seq(Packages), r \in Seq(Results), h \in {0, 1} :
         /\ s = sent[n] /\ p = packages[n] /\ r = done[n] /\ h = InHand(n)
         /\ Len(r) + h + Len(p) = Len(s)
         /\ \A j \in 1..Len(p) : p[j] = Packed(s[Len(r) + h + j])
         /\ h = 1 => Current(n, s[Len(r) + 1])
         /\ \A i \in 1..Len(r) : Outcome(n, i, s[i])
  BY <1>0, NetParts, Zenon
<1>3. /\ sent' = [sent EXCEPT ![n] = Append(s, o)]
      /\ packages' = [packages EXCEPT ![n] = Append(p, Packed(o))]
      /\ pc' = pc /\ data' = data /\ serialize_name' = serialize_name /\ mixed' = mixed
      /\ serialize_data' = serialize_data /\ done' = done /\ raced' = raced /\ missed' = missed
  BY <1>2, Zenon DEF SendSerialize, Packed
<1>a. Len(r) + h + Len(p) = Len(s) /\ h \in {0, 1} /\ Len(r) \in Nat /\ Len(p) \in Nat /\ Len(s) \in Nat
  <2>1. Len(r) \in Nat /\ Len(p) \in Nat /\ Len(s) \in Nat
    OBVIOUS
  <2> QED BY <1>2, <2>1, Zenon
<1>4. PICK t \in Seq(Sent) : /\ t = Append(s, o) /\ Len(t) = Len(s) + 1 /\ t[Len(s) + 1] = o
                             /\ \A i \in 1..Len(s) : t[i] = s[i]
  <2>1. /\ Append(s, o) \in Seq(Sent) /\ Len(Append(s, o)) = Len(s) + 1
        /\ Append(s, o)[Len(s) + 1] = o /\ \A i \in 1..Len(s) : Append(s, o)[i] = s[i]
    BY <1>1, AppendIs
  <2> QED BY <2>1, Zenon
<1>5. PICK q \in Seq(Packages) : /\ q = Append(p, Packed(o)) /\ Len(q) = Len(p) + 1
                                 /\ q[Len(p) + 1] = Packed(o) /\ \A i \in 1..Len(p) : q[i] = p[i]
  <2>1. PICK x \in Packages : x = Packed(o)
    BY <1>1, Zenon
  <2>2. /\ Append(p, x) \in Seq(Packages) /\ Len(Append(p, x)) = Len(p) + 1
        /\ Append(p, x)[Len(p) + 1] = x /\ \A i \in 1..Len(p) : Append(p, x)[i] = p[i]
    BY AppendIs
  <2> QED BY <2>1, <2>2, Zenon
<1>6. sent' = [sent EXCEPT ![n] = t] /\ packages' = [packages EXCEPT ![n] = q]
  BY <1>3, <1>4, <1>5, Zenon
<1>7. sent' \in [Nets -> Seq(Sent)] /\ packages' \in [Nets -> Seq(Packages)]
      /\ sent'[n] = t /\ packages'[n] = q
      /\ \A m \in Nets \ {n} : sent'[m] = sent[m] /\ packages'[m] = packages[m]
  BY <1>0, <1>6, Zenon DEF SerializeTypes
<1>8. SerializeTypes'
  BY <1>0, <1>3, <1>7, Zenon DEF SerializeTypes
<1>9. Len(r) + h + Len(q) = Len(t)
  <2>1. Len(t) = Len(s) + 1 /\ Len(q) = Len(p) + 1
    BY <1>4, <1>5, Zenon
  <2> QED BY <1>a, <2>1
<1>10. ASSUME NEW j \in 1..Len(q) PROVE q[j] = Packed(t[Len(r) + h + j])
  <2>1. PICK k \in Nat : k = Len(r) + h + j
    OBVIOUS
  <2>2. CASE j = Len(p) + 1
    <3>1. k = Len(s) + 1
      BY <1>a, <2>1, <2>2
    <3> QED BY <1>4, <1>5, <2>1, <2>2, <3>1, Zenon
  <2>3. CASE j # Len(p) + 1
    <3>1. j \in 1..Len(p)
      BY <1>5, <2>3
    <3>2. k \in 1..Len(s)
      BY <1>a, <2>1, <3>1
    <3>3. p[j] = Packed(s[k]) /\ t[k] = s[k] /\ q[j] = p[j]
      BY <1>2, <1>4, <1>5, <2>1, <3>1, <3>2, Zenon
    <3> QED BY <2>1, <3>3, Zenon
  <2> QED BY <2>2, <2>3
<1>11. ASSUME h = 1 PROVE t[Len(r) + 1] = s[Len(r) + 1]
  <2>1. Len(r) + 1 \in 1..Len(s)
    BY <1>a, <1>11
  <2> QED BY <1>4, <2>1, Zenon
<1>12. \A i \in 1..Len(r) : t[i] = s[i]
  <2> SUFFICES ASSUME NEW i \in 1..Len(r) PROVE t[i] = s[i]
    OBVIOUS
  <2>1. i \in 1..Len(s)
    BY <1>a
  <2> QED BY <1>4, <2>1, Zenon
<1>13. NetOK(n)'
  <2>1. h = InHand(n)' /\ r = done'[n]
    BY <1>2, <1>3, Zenon DEF InHand
  <2>2. Flow(n)'
    BY <1>7, <1>9, <1>10, <2>1, Zenon DEF Flow
  <2>3. ASSUME pc'[n] # "idle" PROVE Current(n, sent[n][Len(done[n]) + 1])'
    <3>1. h = 1
      BY <1>2, <1>3, <2>3, Zenon DEF InHand
    <3>2. PICK x : x = t[Len(r) + 1]
      OBVIOUS
    <3>3. Current(n, x)
      BY <1>2, <1>11, <3>1, <3>2, Zenon
    <3>4. x = sent'[n][Len(done'[n]) + 1]
      BY <1>7, <2>1, <3>2, Zenon
    <3>5. Current(n, x)'
      BY <1>3, <3>3, Zenon DEF Current, this
    <3> QED BY <3>4, <3>5, Zenon DEF Current
  <2>4. ASSUME NEW i \in 1..Len(done'[n]) PROVE Outcome(n, i, sent[n][i])'
    <3>1. i \in 1..Len(r)
      BY <2>1, Zenon
    <3>2. PICK x : x = t[i]
      OBVIOUS
    <3>3. Outcome(n, i, x)
      BY <1>2, <1>12, <3>1, <3>2, Zenon
    <3>4. x = sent'[n][i]
      BY <1>7, <3>2, Zenon
    <3> QED BY <1>3, <3>3, <3>4, Zenon DEF Outcome
  <2> QED BY <2>2, <2>3, <2>4, Zenon DEF NetOK
<1>14. ASSUME NEW m \in Nets, m # n PROVE NetOK(m)'
  <2>1. sent'[m] = sent[m] /\ packages'[m] = packages[m]
    BY <1>7, <1>14, Zenon
  <2> QED BY <1>0, <1>3, <2>1, NetFrame, Zenon
<1> QED BY <1>8, <1>13, <1>14, Zenon DEF SerializeInv

\* What a thread has in hand fits the place it is at.
Local(n) ==
    /\ pc[n] # "idle" => data[n] \in Packages
    /\ pc[n] = "read" => \E c \in Registered : serialize_data[n] = <<c, New(c)>>
    /\ pc[n] = "tell" => serialize_data[n] \in Results

\* Only connection n changes.
LEMMA OneNet ==
    ASSUME SerializeInv, NEW n \in Nets, sent' = sent,
           packages' \in [Nets -> Seq(Packages)], done' \in [Nets -> Seq(Results)],
           pc' \in [Nets -> {"idle", "end", "create", "read", "tell"}],
           data' = [m \in Nets |-> data'[m]], serialize_data' = [m \in Nets |-> serialize_data'[m]],
           \A m \in Nets \ {n} : /\ packages'[m] = packages[m] /\ pc'[m] = pc[m] /\ data'[m] = data[m]
                                 /\ serialize_data'[m] = serialize_data[m] /\ done'[m] = done[m],
           raced \subseteq raced', missed \subseteq missed',
           Nets \ {n} \subseteq mixed' \/ (mixed' = mixed /\ serialize_name' = serialize_name),
           Local(n)', NetOK(n)'
    PROVE  SerializeInv'
<1>1. SerializeTypes /\ \A m \in Nets : NetOK(m)
  BY Zenon DEF SerializeInv
<1>2. ASSUME NEW m \in Nets PROVE Local(m)'
  <2>1. CASE m = n
    BY <2>1, Zenon DEF Local
  <2>2. CASE m # n
    BY <1>1, <2>2, Zenon DEF SerializeTypes, Local
  <2> QED BY <2>1, <2>2
<1>3. SerializeTypes'
  BY <1>1, <1>2, Zenon DEF SerializeTypes, Local
<1>4. ASSUME NEW m \in Nets PROVE NetOK(m)'
  <2>1. CASE m = n
    BY <2>1, Zenon DEF NetOK, Flow, Current, Outcome, InHand, this
  <2>2. CASE m # n
    <3>1. m \in mixed' \/ (mixed' = mixed /\ serialize_name' = serialize_name)
      BY <2>2, Zenon
    <3>2. /\ sent'[m] = sent[m] /\ packages'[m] = packages[m] /\ pc'[m] = pc[m] /\ data'[m] = data[m]
          /\ serialize_data'[m] = serialize_data[m] /\ done'[m] = done[m]
      BY <2>2, Zenon
    <3> QED BY <1>1, <3>1, <3>2, NetFrame, Zenon
  <2> QED BY <2>1, <2>2
<1> QED BY <1>3, <1>4, Zenon DEF SerializeInv

\* The package stays in hand.
LEMMA NetGoesOn ==
    ASSUME NEW n \in Nets, NetOK(n), pc[n] # "idle", pc'[n] # "idle", sent' = sent,
           packages'[n] = packages[n], done'[n] = done[n], raced \subseteq raced', missed \subseteq missed',
           NEW o, o = sent[n][Len(done[n]) + 1], Current(n, o)'
    PROVE  NetOK(n)'
<1>1. InHand(n)' = InHand(n)
  BY Zenon DEF InHand
<1>2. Flow(n)'
  BY <1>1, Zenon DEF NetOK, Flow
<1>3. Current(n, sent[n][Len(done[n]) + 1])'
  <2>1. o = sent'[n][Len(done'[n]) + 1]
    BY Zenon
  <2> QED BY <2>1, Zenon DEF Current
<1>4. ASSUME NEW i \in 1..Len(done'[n]) PROVE Outcome(n, i, sent[n][i])'
  <2>1. Outcome(n, i, sent[n][i])
    BY Zenon DEF NetOK
  <2> QED BY <2>1, Zenon DEF Outcome
<1> QED BY <1>2, <1>3, <1>4, Zenon DEF NetOK

\* What may become of a package o, the next one to be done with.
Settled(n, x, o) ==
    \/ this(n) \in raced' \/ x = Rebuilt(o)
    \/ /\ x = nullptr
       /\ \/ this(n) \in missed' \/ o[1] \notin Registered
          \/ NameLength[o[1]] >= SERIALIZE_CLASS_NAME_MAX_LEN

\* A package is done with; q is under way.
LEMMA NetReturns ==
    ASSUME SerializeTypes, NEW n \in Nets, NetOK(n), NEW x \in Results, NEW q \in Seq(Packages),
           packages'[n] = q, done' = [done EXCEPT ![n] = Append(@, x)], pc'[n] = "idle", sent' = sent,
           raced \subseteq raced', missed \subseteq missed',
           Len(done[n]) + 1 + Len(q) = Len(sent[n]),
           \A j \in 1..Len(q) : q[j] = Packed(sent[n][Len(done[n]) + 1 + j]),
           Settled(n, x, sent[n][Len(done[n]) + 1])
    PROVE  /\ done' \in [Nets -> Seq(Results)] /\ \A m \in Nets \ {n} : done'[m] = done[m]
           /\ NetOK(n)'
<1>1. PICK r \in Seq(Results) : r = done[n]
  BY Zenon DEF SerializeTypes
<1>2. PICK t \in Seq(Results) : /\ t = Append(r, x) /\ Len(t) = Len(r) + 1 /\ t[Len(r) + 1] = x
                                /\ \A i \in 1..Len(r) : t[i] = r[i]
  <2>1. /\ Append(r, x) \in Seq(Results) /\ Len(Append(r, x)) = Len(r) + 1
        /\ Append(r, x)[Len(r) + 1] = x /\ \A i \in 1..Len(r) : Append(r, x)[i] = r[i]
    BY AppendIs
  <2> QED BY <2>1, Zenon
<1>3. done' = [done EXCEPT ![n] = t]
  BY <1>1, <1>2, Zenon
<1>4. done' \in [Nets -> Seq(Results)] /\ done'[n] = t /\ \A m \in Nets \ {n} : done'[m] = done[m]
  BY <1>3, Zenon DEF SerializeTypes
<1>5. PICK a \in Nat : a = Len(r)
  OBVIOUS
<1>6. Len(t) = a + 1 /\ t[a + 1] = x /\ \A i \in 1..a : t[i] = r[i]
  BY <1>2, <1>5, Zenon
<1>7. InHand(n)' = 0
  BY Zenon DEF InHand
<1>8. a + 1 + 0 = a + 1
  OBVIOUS
<1>9. Flow(n)'
  <2>1. Len(done'[n]) + InHand(n)' = a + 1
    BY <1>4, <1>6, <1>7, <1>8, Zenon
  <2>2. Len(done[n]) = a
    BY <1>1, <1>5, Zenon
  <2> QED BY <2>1, <2>2, Zenon DEF Flow
<1>10. ASSUME NEW i \in 1..Len(done'[n]) PROVE Outcome(n, i, sent[n][i])'
  <2>1. i \in 1..(a + 1)
    BY <1>4, <1>6, Zenon
  <2>2. CASE i = a + 1
    <3>1. this(n) = <<n, i>> /\ done'[n][i] = x /\ sent'[n][i] = sent[n][Len(done[n]) + 1]
      BY <1>1, <1>4, <1>5, <1>6, <2>2, Zenon DEF this
    <3> QED BY <3>1, Zenon DEF Settled, Outcome
  <2>3. CASE i # a + 1
    <3>1. i \in 1..a
      BY <2>1, <2>3
    <3>2. Outcome(n, i, sent[n][i])
      BY <1>1, <1>5, <3>1, Zenon DEF NetOK
    <3>3. done'[n][i] = done[n][i]
      BY <1>1, <1>4, <1>6, <3>1, Zenon
    <3> QED BY <3>2, <3>3, Zenon DEF Outcome
  <2> QED BY <2>2, <2>3
<1> QED BY <1>4, <1>9, <1>10, Zenon DEF NetOK

LEMMA NullIsResult == nullptr \in Results
  BY DEF Results

LEMMA NameTooLong ==
    ASSUME NEW o \in Sent, ~ NameFits(o[1])
    PROVE  NameLength[o[1]] >= SERIALIZE_CLASS_NAME_MAX_LEN
<1>1. PICK n \in Nets : o \in Objects[n]
  BY Zenon DEF Sent
<1>2. o[1] \in DOMAIN Classes
  BY <1>1, SerializeAssumption, Zenon
<1>3. PICK l \in Nat \ {0} : l = NameLength[o[1]]
  BY <1>2, SerializeAssumption
<1>4. SERIALIZE_CLASS_NAME_MAX_LEN \in Nat
  BY SerializeAssumption, Zenon
<1>5. l \notin 1..(SERIALIZE_CLASS_NAME_MAX_LEN - 1)
  BY <1>3, Zenon DEF NameFits
<1>6. l >= SERIALIZE_CLASS_NAME_MAX_LEN
  BY <1>4, <1>5
<1> QED BY <1>3, <1>6, Zenon

LEMMA SerializeOnRecvPackage ==
    ASSUME SerializeInv, NEW n \in Nets, OnRecvPackage(n)
    PROVE  SerializeInv'
<1>0. SerializeTypes /\ NetOK(n)
  BY Zenon DEF SerializeInv
<1>1. pc[n] = "idle" /\ InHand(n) = 0 /\ packages[n] # << >>
  BY Zenon DEF OnRecvPackage, InHand
<1>2. PICK s \in Seq(Sent), p \in Seq(Packages), r \in Seq(Results), h \in {0, 1} :
         /\ s = sent[n] /\ p = packages[n] /\ r = done[n] /\ h = InHand(n)
         /\ Len(r) + h + Len(p) = Len(s)
         /\ \A j \in 1..Len(p) : p[j] = Packed(s[Len(r) + h + j])
         /\ h = 1 => Current(n, s[Len(r) + 1])
         /\ \A i \in 1..Len(r) : Outcome(n, i, s[i])
  BY <1>0, NetParts, Zenon
<1>3. PICK a \in Nat : a = Len(r)
  OBVIOUS
<1>4. PICK q \in Seq(Packages) : /\ q = Tail(p) /\ Len(p) = Len(q) + 1 /\ Head(p) = p[1]
                                 /\ \A j \in 1..Len(q) : q[j] = p[j + 1]
  <2>1. p # << >>
    BY <1>1, <1>2, Zenon
  <2>2. /\ Tail(p) \in Seq(Packages) /\ Len(p) = Len(Tail(p)) + 1 /\ Head(p) = p[1]
        /\ \A j \in 1..Len(Tail(p)) : Tail(p)[j] = p[j + 1]
    BY <2>1, HeadTailProperties
  <2> QED BY <2>2, Zenon
<1>5. /\ Len(r) + h + Len(p) = Len(s) /\ h = 0 /\ Len(q) \in Nat
      /\ \A j \in 1..Len(p) : p[j] = Packed(s[a + 0 + j])
  <2>1. Len(q) \in Nat
    OBVIOUS
  <2> QED BY <1>1, <1>2, <1>3, <2>1, Zenon
<1>6. a + 1 + Len(q) = Len(s) /\ a + 1 \in 1..Len(s) /\ 1 \in 1..Len(p) /\ a + 0 + 1 = a + 1
  BY <1>3, <1>4, <1>5
<1>7. ASSUME NEW j \in 1..Len(q) PROVE q[j] = Packed(s[a + 1 + j])
  <2>1. j + 1 \in 1..Len(p) /\ a + 0 + (j + 1) = a + 1 + j
    BY <1>4
  <2>2. q[j] = p[j + 1] /\ p[j + 1] = Packed(s[a + 0 + (j + 1)])
    BY <1>4, <1>5, <2>1, Zenon
  <2> QED BY <2>1, <2>2, Zenon
<1>8. PICK o \in Sent : o = s[a + 1]
  BY <1>6, ElementOfSeq
<1>9. Head(packages[n]) = Packed(o) /\ Packed(o) \in Packages /\ Packed(o)[1] = o[1]
  <2>1. p[1] = Packed(o)
    BY <1>5, <1>6, <1>8, Zenon
  <2>2. Packed(o) \in Packages
    BY Zenon DEF Packages
  <2>3. Packed(o)[1] = o[1]
    BY Zenon DEF Packed
  <2> QED BY <1>2, <1>4, <2>1, <2>2, <2>3, Zenon
<1>10. /\ packages' = [packages EXCEPT ![n] = q] /\ sent' = sent /\ serialize_data' = serialize_data
       /\ raced' = raced /\ missed' = missed
  BY <1>2, <1>4, Zenon DEF OnRecvPackage
<1>11. /\ packages' \in [Nets -> Seq(Packages)] /\ packages'[n] = q
       /\ \A m \in Nets \ {n} : packages'[m] = packages[m]
  BY <1>0, <1>10, Zenon DEF SerializeTypes
<1>12. CASE NameFits(o[1])
  <2>1. /\ data' = [data EXCEPT ![n] = Packed(o)] /\ serialize_name' = o[1] /\ mixed' = Nets \ {n}
        /\ pc' = [pc EXCEPT ![n] = "end"] /\ done' = done
    BY <1>9, <1>12, Zenon DEF OnRecvPackage
  <2>2. /\ pc' \in [Nets -> {"idle", "end", "create", "read", "tell"}] /\ pc'[n] = "end"
        /\ \A m \in Nets \ {n} : pc'[m] = pc[m]
    BY <1>0, <2>1, Zenon DEF SerializeTypes
  <2>3. /\ data' = [m \in Nets |-> data'[m]] /\ data'[n] = Packed(o)
        /\ \A m \in Nets \ {n} : data'[m] = data[m]
    BY <1>0, <2>1 DEF SerializeTypes
  <2>4. serialize_data' = [m \in Nets |-> serialize_data'[m]] /\ done' \in [Nets -> Seq(Results)]
    BY <1>0, <1>10, <2>1, Zenon DEF SerializeTypes
  <2>5. Local(n)'
    BY <1>9, <2>2, <2>3 DEF Local
  <2>6. "end" # "idle" /\ "end" # "read" /\ "end" # "tell"
    OBVIOUS
  <2>7. NetOK(n)'
    <3>1. InHand(n)' = 1
      BY <2>2, <2>6, Zenon DEF InHand
    <3>2. Len(done'[n]) + InHand(n)' = a + 1
      BY <1>2, <1>3, <2>1, <3>1, Zenon
    <3>3. Flow(n)'
      BY <1>2, <1>6, <1>7, <1>10, <1>11, <3>2, Zenon DEF Flow
    <3>4. Current(n, o)'
      BY <2>1, <2>2, <2>3, <2>6, Zenon DEF Current
    <3>5. o = sent'[n][Len(done'[n]) + 1]
      BY <1>2, <1>3, <1>8, <1>10, <2>1, Zenon
    <3>6. Current(n, sent[n][Len(done[n]) + 1])'
      BY <3>4, <3>5, Zenon DEF Current
    <3>7. ASSUME NEW i \in 1..Len(done'[n]) PROVE Outcome(n, i, sent[n][i])'
      <4>1. Outcome(n, i, sent[n][i])
        BY <1>0, <2>1, Zenon DEF NetOK
      <4> QED BY <1>10, <2>1, <4>1, Zenon DEF Outcome
    <3> QED BY <3>3, <3>6, <3>7, Zenon DEF NetOK
  <2>8. raced \subseteq raced' /\ missed \subseteq missed'
    BY <1>10, Zenon
  <2> QED BY <1>10, <1>11, <2>1, <2>2, <2>3, <2>4, <2>5, <2>7, <2>8, OneNet, Zenon
<1>13. CASE ~ NameFits(o[1])
  <2>1. /\ pc' = [pc EXCEPT ![n] = "idle"] /\ data' = [data EXCEPT ![n] = nullptr]
        /\ done' = [done EXCEPT ![n] = Append(@, nullptr)]
        /\ serialize_name' = serialize_name /\ mixed' = mixed
    BY <1>9, <1>13, Zenon DEF OnRecvPackage, Return
  <2>2. /\ pc' \in [Nets -> {"idle", "end", "create", "read", "tell"}] /\ pc'[n] = "idle"
        /\ \A m \in Nets \ {n} : pc'[m] = pc[m]
    BY <1>0, <2>1, Zenon DEF SerializeTypes
  <2>3. data' = [m \in Nets |-> data'[m]] /\ \A m \in Nets \ {n} : data'[m] = data[m]
    BY <1>0, <2>1 DEF SerializeTypes
  <2>4. serialize_data' = [m \in Nets |-> serialize_data'[m]]
    BY <1>0, <1>10, Zenon DEF SerializeTypes
  <2>5. Local(n)'
    BY <2>2 DEF Local
  <2>6. nullptr \in Results /\ raced \subseteq raced' /\ missed \subseteq missed'
    BY <1>10, NullIsResult, Zenon
  <2>7. Settled(n, nullptr, o)
    BY <1>13, NameTooLong, Zenon DEF Settled
  <2>8. /\ Len(done[n]) + 1 + Len(q) = Len(sent[n])
        /\ \A j \in 1..Len(q) : q[j] = Packed(sent[n][Len(done[n]) + 1 + j])
        /\ Settled(n, nullptr, sent[n][Len(done[n]) + 1])
    BY <1>2, <1>3, <1>6, <1>7, <1>8, <2>7, Zenon
  <2>9. /\ done' \in [Nets -> Seq(Results)] /\ \A m \in Nets \ {n} : done'[m] = done[m]
        /\ NetOK(n)'
    BY <1>0, <1>10, <1>11, <2>1, <2>2, <2>6, <2>8, NetReturns, Zenon
  <2> QED BY <1>10, <1>11, <2>1, <2>2, <2>3, <2>4, <2>5, <2>6, <2>9, OneNet, Zenon
<1> QED BY <1>12, <1>13

\* The package in hand.
LEMMA NetInHand ==
    ASSUME SerializeInv, NEW n \in Nets, pc[n] # "idle"
    PROVE  \E o \in Sent :
              /\ o = sent[n][Len(done[n]) + 1] /\ Current(n, o) /\ Packed(o) \in Packages
              /\ packages[n] \in Seq(Packages) /\ Len(done[n]) + 1 + Len(packages[n]) = Len(sent[n])
              /\ \A j \in 1..Len(packages[n]) : packages[n][j] = Packed(sent[n][Len(done[n]) + 1 + j])
<1>0. SerializeTypes /\ NetOK(n)
  BY Zenon DEF SerializeInv
<1>1. InHand(n) = 1
  BY Zenon DEF InHand
<1>2. PICK s \in Seq(Sent), p \in Seq(Packages), r \in Seq(Results), h \in {0, 1} :
         /\ s = sent[n] /\ p = packages[n] /\ r = done[n] /\ h = InHand(n)
         /\ Len(r) + h + Len(p) = Len(s)
         /\ \A j \in 1..Len(p) : p[j] = Packed(s[Len(r) + h + j])
         /\ h = 1 => Current(n, s[Len(r) + 1])
         /\ \A i \in 1..Len(r) : Outcome(n, i, s[i])
  BY <1>0, NetParts, Zenon
<1>3. Len(r) + 1 + Len(p) = Len(s)
  BY <1>1, <1>2, Zenon
<1>4. Len(r) + 1 \in 1..Len(s)
  BY <1>3
<1>5. PICK o \in Sent : o = s[Len(r) + 1]
  BY <1>4, ElementOfSeq
<1>6. Packed(o) \in Packages
  BY Zenon DEF Packages
<1> QED BY <1>1, <1>2, <1>3, <1>5, <1>6, Zenon

\* The thread of connection n goes on with the package in hand, o: it is now
\* at x and has the object d.
GoesOn(n, x, d, o) ==
    /\ pc[n] # "idle" /\ x \in {"read", "tell"} /\ pc' = [pc EXCEPT ![n] = x]
    /\ serialize_data' = [serialize_data EXCEPT ![n] = d]
    /\ sent' = sent /\ packages' = packages /\ data' = data /\ done' = done
    /\ serialize_name' = serialize_name /\ mixed' = mixed
    /\ raced \subseteq raced' /\ missed \subseteq missed'
    /\ x = "read" => \E c \in Registered : d = <<c, New(c)>>
    /\ x = "tell" => d \in Results
    /\ o = sent[n][Len(done[n]) + 1]
    /\ x = "read" /\ this(n) \notin raced' => o[1] \in Registered /\ d = <<o[1], New(o[1])>>
    /\ x = "tell" /\ this(n) \notin raced' => o[1] \in Registered /\ d = Rebuilt(o)

LEMMA ThreadGoesOn ==
    ASSUME SerializeInv, NEW n \in Nets, NEW x, NEW d, NEW o, GoesOn(n, x, d, o)
    PROVE  SerializeInv'
<1> USE DEF GoesOn
<1>0. SerializeTypes /\ NetOK(n) /\ data[n] \in Packages
  BY Zenon DEF SerializeInv, SerializeTypes
<1>1. x # "idle" /\ x \notin {"end", "create"} /\ x \in {"idle", "end", "create", "read", "tell"}
  OBVIOUS
<1>2. /\ pc' \in [Nets -> {"idle", "end", "create", "read", "tell"}] /\ pc'[n] = x
      /\ \A m \in Nets \ {n} : pc'[m] = pc[m]
  BY <1>0, <1>1, Zenon DEF SerializeTypes
<1>3. /\ serialize_data' = [m \in Nets |-> serialize_data'[m]] /\ serialize_data'[n] = d
      /\ \A m \in Nets \ {n} : serialize_data'[m] = serialize_data[m]
  <2>1. serialize_data = [m \in Nets |-> serialize_data[m]]
    BY <1>0, Zenon DEF SerializeTypes
  <2> QED BY <2>1
<1>4. /\ data' = [m \in Nets |-> data'[m]] /\ done' \in [Nets -> Seq(Results)]
      /\ packages' \in [Nets -> Seq(Packages)]
  BY <1>0, Zenon DEF SerializeTypes
<1>5. Local(n)'
  BY <1>0, <1>2, <1>3, Zenon DEF Local
<1>6. Current(n, o)
  BY <1>0, Zenon DEF NetOK
<1>7. this(n)' = this(n)
  BY Zenon DEF this
<1>8. Current(n, o)'
  BY <1>1, <1>2, <1>3, <1>6, <1>7, Zenon DEF Current
<1>9. NetOK(n)'
  BY <1>0, <1>1, <1>2, <1>8, NetGoesOn, Zenon
<1> QED BY <1>2, <1>3, <1>4, <1>5, <1>9, OneNet, Zenon

\* The thread of connection n is done with the package in hand.
LEMMA ThreadReturns ==
    ASSUME SerializeInv, NEW n \in Nets, pc[n] # "idle", NEW x \in Results, Return(n, x),
           sent' = sent, packages' = packages,
           serialize_data' = [m \in Nets |-> serialize_data'[m]],
           \A m \in Nets \ {n} : serialize_data'[m] = serialize_data[m],
           serialize_name' = serialize_name, mixed' = mixed,
           raced \subseteq raced', missed \subseteq missed',
           NEW o, o = sent[n][Len(done[n]) + 1], Settled(n, x, o)
    PROVE  SerializeInv'
<1>0. SerializeTypes /\ NetOK(n)
  BY Zenon DEF SerializeInv
<1>1. /\ pc' = [pc EXCEPT ![n] = "idle"] /\ data' = [data EXCEPT ![n] = nullptr]
      /\ done' = [done EXCEPT ![n] = Append(@, x)]
  BY Zenon DEF Return
<1>2. /\ pc' \in [Nets -> {"idle", "end", "create", "read", "tell"}] /\ pc'[n] = "idle"
      /\ \A m \in Nets \ {n} : pc'[m] = pc[m]
  BY <1>0, <1>1, Zenon DEF SerializeTypes
<1>3. data' = [m \in Nets |-> data'[m]] /\ \A m \in Nets \ {n} : data'[m] = data[m]
  <2>1. data = [m \in Nets |-> data[m]]
    BY <1>0, Zenon DEF SerializeTypes
  <2> QED BY <1>1, <2>1
<1>4. packages' \in [Nets -> Seq(Packages)]
  BY <1>0, Zenon DEF SerializeTypes
<1>5. Local(n)'
  BY <1>2 DEF Local
<1>6. /\ packages[n] \in Seq(Packages) /\ Len(done[n]) + 1 + Len(packages[n]) = Len(sent[n])
      /\ \A j \in 1..Len(packages[n]) : packages[n][j] = Packed(sent[n][Len(done[n]) + 1 + j])
  BY NetInHand, Zenon
<1>7. PICK q \in Seq(Packages) : q = packages[n]
  BY <1>6, Zenon
<1>8. /\ packages'[n] = q /\ Len(done[n]) + 1 + Len(q) = Len(sent[n])
      /\ \A j \in 1..Len(q) : q[j] = Packed(sent[n][Len(done[n]) + 1 + j])
      /\ Settled(n, x, sent[n][Len(done[n]) + 1])
  BY <1>6, <1>7, Zenon
<1>9. /\ done' \in [Nets -> Seq(Results)] /\ \A m \in Nets \ {n} : done'[m] = done[m]
      /\ NetOK(n)'
  BY <1>0, <1>1, <1>2, <1>8, NetReturns, Zenon
<1>10. \A m \in Nets \ {n} : packages'[m] = packages[m]
  BY Zenon
<1> QED BY <1>2, <1>3, <1>4, <1>5, <1>9, <1>10, OneNet, Zenon

LEMMA SerializeTerminate ==
    ASSUME SerializeInv, NEW n \in Nets, TerminateName(n)
    PROVE  SerializeInv'
<1>1. pc[n] = "end" /\ pc[n] # "idle" /\ SerializeTypes /\ NetOK(n) /\ data[n] \in Packages
  <2>1. pc[n] = "end" /\ SerializeTypes /\ NetOK(n)
    BY Zenon DEF TerminateName, SerializeInv
  <2>2. pc[n] # "idle"
    BY <2>1
  <2> QED BY <2>1, <2>2, Zenon DEF SerializeTypes
<1>2. PICK o \in Sent : o = sent[n][Len(done[n]) + 1] /\ Current(n, o)
  BY <1>1, NetInHand, Zenon
<1>3. /\ sent' = sent /\ packages' = packages /\ data' = data /\ serialize_data' = serialize_data
      /\ done' = done /\ serialize_name' = serialize_name
      /\ raced \subseteq raced' /\ missed \subseteq missed' /\ raced' = raced
      /\ mixed' = mixed \cup (Nets \ {n}) /\ pc' = [pc EXCEPT ![n] = "create"]
  BY Zenon DEF TerminateName
<1>4. /\ pc' \in [Nets -> {"idle", "end", "create", "read", "tell"}] /\ pc'[n] = "create"
      /\ \A m \in Nets \ {n} : pc'[m] = pc[m]
  BY <1>1, <1>3, Zenon DEF SerializeTypes
<1>5. /\ data' = [m \in Nets |-> data'[m]] /\ serialize_data' = [m \in Nets |-> serialize_data'[m]]
      /\ packages' \in [Nets -> Seq(Packages)] /\ done' \in [Nets -> Seq(Results)]
  BY <1>1, <1>3, Zenon DEF SerializeTypes
<1>6. pc'[n] # "idle" /\ pc'[n] # "read" /\ pc'[n] # "tell" /\ pc[n] \in {"end", "create"}
  BY <1>1, <1>4
<1>7. Local(n)'
  BY <1>1, <1>3, <1>6, Zenon DEF Local
<1>8. n \notin mixed' => n \notin mixed
  BY <1>3, Zenon
<1>9. Current(n, o)'
  BY <1>2, <1>3, <1>6, <1>8, Zenon DEF Current
<1>10. NetOK(n)'
  BY <1>1, <1>2, <1>3, <1>6, <1>9, NetGoesOn, Zenon
<1>11. Nets \ {n} \subseteq mixed'
  BY <1>3, Zenon
<1> QED BY <1>3, <1>4, <1>5, <1>7, <1>10, <1>11, OneNet, Zenon

LEMMA SerializeCreate ==
    ASSUME SerializeInv, NEW n \in Nets, CreateSerialize(n)
    PROVE  SerializeInv'
<1>1. pc[n] = "create" /\ pc[n] # "idle" /\ SerializeTypes
  <2>1. pc[n] = "create" /\ SerializeTypes
    BY Zenon DEF CreateSerialize, SerializeInv
  <2> QED BY <2>1
<1>2. PICK o \in Sent : o = sent[n][Len(done[n]) + 1] /\ Current(n, o)
  BY <1>1, NetInHand, Zenon
<1>3. PICK c \in NamesRead(n) :
         IF c \in Registered
         THEN /\ serialize_data' = [serialize_data EXCEPT ![n] = <<c, New(c)>>]
              /\ pc' = [pc EXCEPT ![n] = "read"] /\ UNCHANGED <<data, done>>
         ELSE Return(n, nullptr) /\ UNCHANGED serialize_data
  BY Zenon DEF CreateSerialize
<1>4. /\ sent' = sent /\ packages' = packages /\ serialize_name' = serialize_name
      /\ mixed' = mixed /\ missed \subseteq missed'
  BY Zenon DEF CreateSerialize
<1>5. raced \subseteq raced' /\ (n \in mixed => this(n) \in raced')
  BY DEF CreateSerialize
<1>6. this(n) \in raced' \/ c = o[1]
  <2>1. CASE n \notin mixed
    BY <1>1, <1>2, <1>3, <2>1 DEF NamesRead, Current
  <2>2. CASE n \in mixed
    BY <1>5, <2>2, Zenon
  <2> QED BY <2>1, <2>2
<1>7. CASE c \in Registered
  <2>1. PICK d : d = <<c, New(c)>>
    OBVIOUS
  <2>2. /\ serialize_data' = [serialize_data EXCEPT ![n] = d] /\ pc' = [pc EXCEPT ![n] = "read"]
        /\ data' = data /\ done' = done
    BY <1>3, <1>7, <2>1, Zenon
  <2>3. \E b \in Registered : d = <<b, New(b)>>
    BY <1>7, <2>1
  <2>4. this(n) \notin raced' => o[1] \in Registered /\ d = <<o[1], New(o[1])>>
    BY <1>6, <1>7, <2>1, Zenon
  <2>5. PICK x : x = "read"
    OBVIOUS
  <2>6. x \in {"read", "tell"} /\ x # "tell" /\ pc' = [pc EXCEPT ![n] = x]
    BY <2>2, <2>5
  <2>7. /\ x = "read" => \E b \in Registered : d = <<b, New(b)>>
        /\ x = "tell" => d \in Results
        /\ x = "read" /\ this(n) \notin raced' => o[1] \in Registered /\ d = <<o[1], New(o[1])>>
        /\ x = "tell" /\ this(n) \notin raced' => o[1] \in Registered /\ d = Rebuilt(o)
    BY <2>3, <2>4, <2>6, Zenon
  <2>8. GoesOn(n, x, d, o)
    BY <1>1, <1>2, <1>4, <1>5, <2>2, <2>6, <2>7, Zenon DEF GoesOn
  <2> QED BY <2>8, ThreadGoesOn, Zenon
<1>8. CASE c \notin Registered
  <2>1. Return(n, nullptr) /\ serialize_data' = serialize_data
    BY <1>3, <1>8, Zenon
  <2>2. serialize_data' = [m \in Nets |-> serialize_data'[m]]
        /\ \A m \in Nets \ {n} : serialize_data'[m] = serialize_data[m]
    BY <1>1, <2>1, Zenon DEF SerializeTypes
  <2>3. Settled(n, nullptr, o)
    BY <1>6, <1>8, Zenon DEF Settled
  <2> QED BY <1>1, <1>2, <1>4, <1>5, <2>1, <2>2, <2>3, NullIsResult, ThreadReturns, Zenon
<1> QED BY <1>7, <1>8

LEMMA SerializeUnserialize ==
    ASSUME SerializeInv, NEW n \in Nets, Unserialize(n)
    PROVE  SerializeInv'
<1>1. pc[n] = "read" /\ pc[n] # "idle" /\ SerializeTypes
  <2>1. pc[n] = "read" /\ SerializeTypes
    BY Zenon DEF Unserialize, SerializeInv
  <2> QED BY <2>1
<1>2. PICK o \in Sent : o = sent[n][Len(done[n]) + 1] /\ Current(n, o) /\ Packed(o) \in Packages
  BY <1>1, NetInHand, Zenon
<1>3. PICK c \in Registered : serialize_data[n] = <<c, New(c)>>
  BY <1>1, Zenon DEF SerializeTypes
<1>4. data[n] = Packed(o) /\ Packed(o)[2] = Encode(o[1], o[2])
  BY <1>2 DEF Current, Packed
<1>5. PICK d : d = <<c, Decode(c, New(c), Packed(o)[2])>>
  OBVIOUS
<1>6. serialize_data' = [serialize_data EXCEPT ![n] = d]
  <2>1. serialize_data[n][1] = c /\ serialize_data[n][2] = New(c)
    BY <1>3
  <2>2. serialize_data' = [serialize_data EXCEPT ![n] =
           <<serialize_data[n][1], Decode(serialize_data[n][1], serialize_data[n][2], data[n][2])>>]
    BY <1>1, Zenon DEF Unserialize, SerializeTypes
  <2> QED BY <1>4, <1>5, <2>1, <2>2, Zenon
<1>7. /\ sent' = sent /\ packages' = packages /\ serialize_name' = serialize_name
      /\ data' = data /\ done' = done /\ pc' = [pc EXCEPT ![n] = "tell"]
      /\ mixed' = mixed /\ missed \subseteq missed' /\ raced \subseteq raced' /\ raced' = raced
  BY Zenon DEF Unserialize
<1>8. d \in Results
  BY <1>2, <1>5 DEF Results
<1>9. this(n) \notin raced' => o[1] \in Registered /\ d = Rebuilt(o)
  <2> SUFFICES ASSUME this(n) \notin raced' PROVE o[1] \in Registered /\ d = Rebuilt(o)
    OBVIOUS
  <2>1. o[1] \in Registered /\ serialize_data[n] = <<o[1], New(o[1])>>
    BY <1>1, <1>2, <1>7, Zenon DEF Current
  <2>2. c = o[1]
    BY <1>3, <2>1
  <2> QED BY <1>4, <1>5, <2>1, <2>2, Zenon DEF Rebuilt
<1>10. PICK x : x = "tell"
  OBVIOUS
<1>11. x \in {"read", "tell"} /\ x # "read" /\ pc' = [pc EXCEPT ![n] = x]
  BY <1>7, <1>10
<1>12. /\ x = "read" => \E b \in Registered : d = <<b, New(b)>>
       /\ x = "tell" => d \in Results
       /\ x = "read" /\ this(n) \notin raced' => o[1] \in Registered /\ d = <<o[1], New(o[1])>>
       /\ x = "tell" /\ this(n) \notin raced' => o[1] \in Registered /\ d = Rebuilt(o)
  BY <1>8, <1>9, <1>11, Zenon
<1>13. GoesOn(n, x, d, o)
  BY <1>1, <1>2, <1>6, <1>7, <1>11, <1>12, Zenon DEF GoesOn
<1> QED BY <1>13, ThreadGoesOn, Zenon

LEMMA SerializeOnRecv ==
    ASSUME SerializeInv, NEW n \in Nets, OnRecv(n)
    PROVE  SerializeInv'
<1>1. pc[n] = "tell" /\ pc[n] # "idle" /\ SerializeTypes
  <2>1. pc[n] = "tell" /\ SerializeTypes
    BY Zenon DEF OnRecv, SerializeInv
  <2> QED BY <2>1
<1>2. PICK o \in Sent : o = sent[n][Len(done[n]) + 1] /\ Current(n, o)
  BY <1>1, NetInHand, Zenon
<1>3. /\ sent' = sent /\ packages' = packages /\ serialize_name' = serialize_name
      /\ mixed' = mixed /\ raced' = raced /\ raced \subseteq raced'
      /\ serialize_data' = [serialize_data EXCEPT ![n] = nullptr]
  BY Zenon DEF OnRecv, Delete
<1>4. missed \subseteq missed' /\ (~ handlers => this(n) \in missed')
  BY DEF OnRecv
<1>5. /\ serialize_data' = [m \in Nets |-> serialize_data'[m]]
      /\ \A m \in Nets \ {n} : serialize_data'[m] = serialize_data[m]
  <2>1. serialize_data = [m \in Nets |-> serialize_data[m]]
    BY <1>1, Zenon DEF SerializeTypes
  <2> QED BY <1>3, <2>1
<1>6. CASE handlers
  <2>1. PICK x \in Results : x = serialize_data[n]
    BY <1>1, Zenon DEF SerializeTypes
  <2>2. Return(n, x)
    BY <1>6, <2>1, Zenon DEF OnRecv
  <2>3. this(n) \notin raced' => x = Rebuilt(o)
    BY <1>1, <1>2, <1>3, <2>1, Zenon DEF Current
  <2>4. Settled(n, x, o)
    BY <2>3, Zenon DEF Settled
  <2> QED BY <1>1, <1>2, <1>3, <1>4, <1>5, <2>2, <2>4, ThreadReturns, Zenon
<1>7. CASE ~ handlers
  <2>1. Return(n, nullptr)
    BY <1>7, Zenon DEF OnRecv
  <2>2. Settled(n, nullptr, o)
    BY <1>4, <1>7, Zenon DEF Settled
  <2> QED BY <1>1, <1>2, <1>3, <1>4, <1>5, <2>1, <2>2, NullIsResult, ThreadReturns, Zenon
<1> QED BY <1>6, <1>7

\* Nothing but the handler list changes.
LEMMA SerializeElsewhere ==
    ASSUME SerializeInv, sent' = sent, packages' = packages, pc' = pc, data' = data,
           serialize_name' = serialize_name, mixed' = mixed, serialize_data' = serialize_data,
           done' = done, raced' = raced, missed' = missed
    PROVE  SerializeInv'
<1>0. SerializeTypes /\ \A n \in Nets : NetOK(n)
  BY Zenon DEF SerializeInv
<1>1. SerializeTypes'
  BY <1>0, Zenon DEF SerializeTypes
<1>2. ASSUME NEW n \in Nets PROVE NetOK(n)'
  <2>1. raced \subseteq raced' /\ missed \subseteq missed'
    BY Zenon
  <2> QED BY <1>0, <2>1, NetFrame, Zenon
<1> QED BY <1>1, <1>2, Zenon DEF SerializeInv

LEMMA SerializeNextInv == SerializeInv /\ [SerializeNext]_serializeVars => SerializeInv'
<1> SUFFICES ASSUME SerializeInv, [SerializeNext]_serializeVars PROVE SerializeInv'
  OBVIOUS
<1>1. CASE SerializeNext
  <2>1. ASSUME NEW n \in Nets, Handle(n) PROVE SerializeInv'
    BY <2>1, SerializeOnRecvPackage, SerializeTerminate, SerializeCreate, SerializeUnserialize, SerializeOnRecv,
       Zenon DEF Handle
  <2>2. ASSUME NEW n \in Nets, NEW o \in Objects[n], SendSerialize(n, o) PROVE SerializeInv'
    BY <2>2, SerializeSend, Zenon
  <2>3. ASSUME RegistSerializeHandler PROVE SerializeInv'
    BY <2>3, SerializeElsewhere, Zenon DEF RegistSerializeHandler
  <2>4. ASSUME UnregistSerializeHandler PROVE SerializeInv'
    BY <2>4, SerializeElsewhere, Zenon DEF UnregistSerializeHandler
  <2> QED BY <1>1, <2>1, <2>2, <2>3, <2>4, Zenon DEF SerializeNext
<1>2. CASE UNCHANGED serializeVars
  BY <1>2, SerializeElsewhere, Zenon DEF serializeVars
<1> QED BY <1>1, <1>2, Zenon


\* What became of package i of connection n.
LEMMA SerializeOutcome ==
    ASSUME SerializeInv, NEW n \in Nets, NEW i \in DOMAIN done[n]
    PROVE  sent[n][i] \in Sent /\ Outcome(n, i, sent[n][i])
<1>0. SerializeTypes /\ NetOK(n)
  BY Zenon DEF SerializeInv
<1>1. PICK s \in Seq(Sent), p \in Seq(Packages), r \in Seq(Results), h \in {0, 1} :
         /\ s = sent[n] /\ p = packages[n] /\ r = done[n] /\ h = InHand(n)
         /\ Len(r) + h + Len(p) = Len(s)
         /\ \A j \in 1..Len(p) : p[j] = Packed(s[Len(r) + h + j])
         /\ h = 1 => Current(n, s[Len(r) + 1])
         /\ \A j \in 1..Len(r) : Outcome(n, j, s[j])
  BY <1>0, NetParts, Zenon
<1>2. i \in 1..Len(r)
  BY <1>1
<1>3. Len(r) + h + Len(p) = Len(s)
  BY <1>1, Zenon
<1>4. i \in 1..Len(s)
  BY <1>2, <1>3
<1>5. s[i] \in Sent
  BY <1>4, ElementOfSeq
<1> QED BY <1>1, <1>2, <1>5, Zenon

\* Every package that OnRecvPackage is done with has an outcome that the code
\* accounts for, and the packages are taken in the order they were sent, while
\* the threads of the connections share one buffer for the name of the class.
THEOREM SerializeInvariant == SerializeSpec => []SerializeInv
  BY SerializeInitInv, SerializeNextInv, PTL DEF SerializeSpec

\* OnRecvPackage drops a package only if the class has no description object
\* here, its name does not fit the buffer, no handler is registered, or
\* another thread overwrote the name before CreateSerialize read it.
THEOREM NoObjectLost == SerializeSpec => []DroppedForCause
<1>1. SerializeInv => DroppedForCause
  <2> SUFFICES ASSUME SerializeInv, NEW n \in Nets, NEW i \in DOMAIN done[n], done[n][i] = nullptr
               PROVE  \/ <<n, i>> \in raced \cup missed \/ sent[n][i][1] \notin Registered
                      \/ NameLength[sent[n][i][1]] >= SERIALIZE_CLASS_NAME_MAX_LEN
    BY Zenon DEF DroppedForCause
  <2>1. PICK o : o = sent[n][i] /\ Outcome(n, i, o)
    BY SerializeOutcome, Zenon
  <2>2. Rebuilt(o) # nullptr
    BY DEF Rebuilt, nullptr
  <2> QED BY <2>1, <2>2, Zenon DEF Outcome
<1> QED BY <1>1, SerializeInvariant, PTL

\* If the generated code of every class reads back the portable values it
\* writes, a handler gets each of them as SendSerialize was given it, and in
\* the order of the connection, unless another thread overwrote its name.
THEOREM ObjectsAsSent == ASSUME RoundTrip PROVE SerializeSpec => []DeliveredAsSent
<1>1. SerializeInv => DeliveredAsSent
  <2> SUFFICES ASSUME SerializeInv, NEW n \in Nets, NEW i \in DOMAIN done[n], done[n][i] # nullptr,
                      <<n, i>> \notin raced, Portable(sent[n][i])
               PROVE  done[n][i] = sent[n][i]
    BY Zenon DEF DeliveredAsSent
  <2>1. PICK o \in Sent : o = sent[n][i] /\ Outcome(n, i, o)
    BY SerializeOutcome, Zenon
  <2>2. PICK m \in Nets : o \in Objects[m]
    BY Zenon DEF Sent
  <2>3. o = <<o[1], o[2]>> /\ Portable(o)
    BY <2>1, <2>2, SerializeAssumption, Zenon
  <2>4. Decode(o[1], New(o[1]), Encode(o[1], o[2])) = o[2]
    BY <2>2, <2>3, Zenon DEF RoundTrip
  <2>5. done[n][i] = Rebuilt(o)
    BY <2>1, Zenon DEF Outcome
  <2> QED BY <2>1, <2>3, <2>4, <2>5, Zenon DEF Rebuilt
<1> QED BY <1>1, SerializeInvariant, PTL

=============================================================================
