-------------------------- MODULE SocketIocpProofs --------------------------
(***************************************************************************)
(* Proofs about SocketIocp, for any threads, messages and portions: the    *)
(* structures are freed once, no byte goes out twice, and messages keep    *)
(* their order, each with the exception its property names.                *)
(***************************************************************************)
EXTENDS SocketIocp, SequenceTheorems, TLAPS

\* Bytes of a message that are still to be transferred.
Pieces == {p \in Msgs \X Nat : p[2] \in 1..Size[p[1]]}
Packets ==
    [op : {"recv", "send"}, m : Msgs \cup {nullptr}, bytes : Nat, left : Nat, err : BOOLEAN]
Transfers == {e \in Msgs \X Nat \X Nat : e[3] < e[2] /\ e[2] <= Size[e[1]]}
Piece(p) == <<p.m, p.left>>

WorkerPlaces ==
    {"idle", "dead", "lost", "end", "recv", "rearm", "pop", "front", "take", "send", "rest", "mark"}
WriterPlaces == {"idle", "test", "push", "send", "mark"}

\* Packets of a partial transfer, in the port and with the workers.
Parts == {i \in DOMAIN port : PlaceFor(port[i]) = "rest"}
Rests == {t \in Workers : pc[t] = "rest"}
Senders == {t \in Workers : pc[t] = "send"}
Holders == {w \in Writers : wpc[w] \in {"test", "push", "send"}}

TypeInv ==
    /\ listen \in {"accept", "register", "tell", "on", "ended"}
    /\ ends \in Nat /\ handle \in {"none", "live", "freed"}
    /\ outs \in Seq(Pieces) /\ port \in Seq(Packets) /\ wire \in Seq(Transfers)
    /\ send_queue \in Seq(Msgs \cup {nullptr})
    /\ pc \in [Workers -> WorkerPlaces] /\ cur \in [Workers -> Packets \cup {Nothing}]
    /\ next \in [Workers -> Msgs \cup {nullptr}]
    /\ wpc \in [Writers -> WriterPlaces] /\ written \in [Writers -> Nat]
    /\ \A i \in Parts : Piece(port[i]) \in Pieces
    /\ \A t \in Rests : Piece(cur[t]) \in Pieces
    /\ \A t \in Senders : next[t] \in Msgs
    /\ \A w \in Writers : written[w] <= Quota[w] /\ (wpc[w] # "idle" => written[w] > 0)

-----------------------------------------------------------------------------
\* Once an end was taken with nothing else under way, it stays the last thing
\* that happens: one worker serves it, and nobody submits anything after it.
QuietInv ==
    /\ ends = 0 => handle # "freed" /\ \A t \in Workers : pc[t] # "end"
    /\ ~ busyEnd /\ ends > 0 =>
          /\ ends = 1 /\ ~ recv /\ outs = << >> /\ port = << >> /\ listen \in {"on", "ended"}
          /\ \A t \in Workers : Busy(t) => pc[t] = "end" /\ handle # "freed"
          /\ \A t, u \in Workers : Busy(t) /\ Busy(u) => t = u

-----------------------------------------------------------------------------
\* Who still means to send a message: a writer, the queue, a worker that took
\* it from the queue, the kernel, or a packet that brings its rest.
Writing == {msg(w) : w \in Holders}
Queued == {send_queue[i] : i \in DOMAIN send_queue} \ {nullptr}
Taken == {next[t] : t \in Senders}
Given == {outs[i][1] : i \in DOMAIN outs}
Back == {port[i].m : i \in Parts}
Resting == {cur[t].m : t \in Rests}

PartPieces == {Piece(port[i]) : i \in Parts}
RestPieces == {Piece(cur[t]) : t \in Rests}
Lefts == {outs[i] : i \in DOMAIN outs} \cup PartPieces \cup RestPieces

\* No message is in two of these places,
Apart ==
    /\ Writing \cap (Queued \cup Taken \cup Given \cup Back \cup Resting) = {}
    /\ Queued \cap (Taken \cup Given \cup Back \cup Resting) = {}
    /\ Taken \cap (Given \cup Back \cup Resting) = {}
    /\ Given \cap (Back \cup Resting) = {}
    /\ Back \cap Resting = {}

\* nor in one of them twice.
Single ==
    /\ \A i, j \in DOMAIN send_queue : send_queue[i] # nullptr /\ send_queue[i] = send_queue[j] => i = j
    /\ \A i, j \in DOMAIN outs : outs[i][1] = outs[j][1] => i = j
    /\ \A i, j \in Parts : port[i].m = port[j].m => i = j
    /\ \A t, u \in Senders : next[t] = next[u] => t = u
    /\ \A t, u \in Rests : cur[t].m = cur[u].m => t = u

\* Nobody holds a message before its Write.
Begun == {m \in Msgs : m[2] <= written[m[1]]}
Fresh ==
    /\ Queued \cup Taken \cup Given \cup Back \cup Resting \subseteq Begun
    /\ \A i \in DOMAIN wire : wire[i][1] \in Begun

\* What is still to be sent has not been sent.
Unsent ==
    /\ \A i \in DOMAIN wire : wire[i][1] \notin Writing \cup Queued \cup Taken
    /\ \A i \in DOMAIN wire : \A c \in Lefts : wire[i][1] = c[1] => c[2] <= wire[i][3]

InTurn ==
    \A i, j \in DOMAIN wire : i < j /\ wire[i][1] = wire[j][1] => wire[j][2] <= wire[i][3]

ClaimInv == Apart /\ Single /\ Fresh /\ Unsent /\ InTurn

\* A worker between front and pop is the only one, and has what pop removes.
HeadInv ==
    /\ \A t \in Workers : pc[t] = "take" => send_queue # << >> /\ send_queue[1] = next[t]
    /\ \A t, u \in Workers : pc[t] = "take" /\ pc[u] = "take" => t = u

-----------------------------------------------------------------------------
\* Nothing happens before the connection; a packet has an error only if the
\* connection broke.
BreakInv ==
    /\ listen = "accept" =>
          /\ sock = "none" /\ peer = "none" /\ recv = FALSE /\ outs = << >> /\ port = << >>
          /\ \A t \in Workers : pc[t] = "idle"
          /\ \A w \in Writers : wpc[w] = "idle"
    /\ \A i \in DOMAIN port : port[i].err => Broken
    /\ \A t \in Workers : cur[t].err => Broken

Sending == {w \in Writers : wpc[w] = "send"}
Marking == (\E t \in Workers : pc[t] = "mark") \/ (\E w \in Writers : wpc[w] = "mark")
OnWay == Given \cup Back \cup Resting
Active == Taken \cup OnWay

\* At most one message is between the queue and the wire,
OneActive == \A a, b \in Active : a = b

\* and no writer finds the queue empty meanwhile.
Guarded ==
    ~ Broken =>
        /\ \A w, v \in Sending : w = v
        /\ Sending # {} => Active = {}
        /\ OnWay # {} => send_queue # << >> \/ Marking

QueueOrder ==
    \A i, j \in DOMAIN send_queue :
        /\ i < j /\ send_queue[i] # nullptr /\ send_queue[j] # nullptr
        /\ send_queue[i][1] = send_queue[j][1]
        => send_queue[i][2] < send_queue[j][2]

\* What is on its way is older than what waits,
ActiveFirst ==
    /\ \A m \in Active : \A q \in Queued : m[1] = q[1] => m[2] < q[2]
    /\ \A w \in Sending : \A q \in Queued : q[1] # w

\* and younger than what went out, or the last of it.
WireFirst ==
    \A i \in DOMAIN wire : \A m \in Active \cup Queued :
        wire[i][1][1] = m[1] => wire[i][1][2] <= m[2]

LastOnWire ==
    \A m \in Active : \A i \in DOMAIN wire :
        wire[i][1] = m => \A k \in DOMAIN wire : i <= k => wire[k][1] = m

WireOrder ==
    \A i, j \in DOMAIN wire :
        /\ i < j /\ wire[i][1][1] = wire[j][1][1] => wire[i][1][2] <= wire[j][1][2]
        /\ i < j /\ wire[i][1] = wire[j][1] => \A k \in i..j : wire[k][1] = wire[i][1]

Ordered == OneActive /\ Guarded /\ ActiveFirst /\ WireFirst /\ LastOnWire /\ WireOrder
OrderInv == QueueOrder /\ (~ disorder => Ordered)

\* Messages have one place and their order until workers clash at the queue.
Inv == TypeInv /\ QuietInv /\ BreakInv /\ (~ clashed => HeadInv /\ ClaimInv /\ OrderInv)

-----------------------------------------------------------------------------
LEMMA Constants ==
    /\ nullptr \notin Msgs
    /\ \A m \in Msgs : /\ Size[m] \in Nat \ {0} /\ m[1] \in Writers /\ m[2] \in Nat \ {0}
                       /\ m = <<m[1], m[2]>>
    /\ \A w \in Writers : \A k \in Nat : k > 0 /\ k <= Quota[w] => <<w, k>> \in Msgs
    /\ \A m \in Msgs : <<m, Size[m]>> \in Pieces
<1>1. nullptr \notin Msgs /\ \A m \in Msgs : Size[m] \in Nat \ {0}
  BY IocpAssumption
<1>2. ASSUME NEW m \in Msgs
      PROVE  m[1] \in Writers /\ m[2] \in Nat \ {0} /\ m = <<m[1], m[2]>>
  <2>1. PICK w \in Writers : m \in {<<w, k>> : k \in 1..Quota[w]}
    BY DEF Msgs
  <2>2. PICK k \in 1..Quota[w] : m = <<w, k>>
    BY <2>1
  <2>3. Quota[w] \in Nat
    BY IocpAssumption
  <2> QED BY <2>2, <2>3
<1>3. ASSUME NEW w \in Writers, NEW k \in Nat, k > 0, k <= Quota[w]
      PROVE  <<w, k>> \in Msgs
  <2>1. k \in 1..Quota[w]
    BY <1>3, IocpAssumption
  <2> QED BY <2>1 DEF Msgs
<1> QED BY <1>1, <1>2, <1>3 DEF Pieces

LEMMA TailSeq ==
    ASSUME NEW S, NEW s \in Seq(S), s # << >>
    PROVE  /\ Len(s) \in Nat \ {0} /\ DOMAIN s = 1..Len(s) /\ Head(s) = s[1] /\ 1 \in DOMAIN s
           /\ s[1] \in S /\ Tail(s) \in Seq(S) /\ Len(Tail(s)) = Len(s) - 1
           /\ DOMAIN Tail(s) = 1..(Len(s) - 1)
           /\ \A i \in DOMAIN Tail(s) :
                 i \in Nat \ {0} /\ i + 1 \in DOMAIN s /\ i + 1 # 1 /\ Tail(s)[i] = s[i + 1]
<1>1. Len(s) \in Nat \ {0} /\ DOMAIN s = 1..Len(s)
  BY EmptySeq, LenProperties
<1>2. /\ Head(s) = s[1] /\ Tail(s) \in Seq(S) /\ Len(Tail(s)) = Len(s) - 1
      /\ \A i \in 1..(Len(s) - 1) : Tail(s)[i] = s[i + 1]
  BY <1>1, HeadTailProperties
<1>3. DOMAIN Tail(s) = 1..(Len(s) - 1)
  BY <1>2, LenProperties
<1>4. 1 \in DOMAIN s /\ s[1] \in S
  BY <1>1, ElementOfSeq
<1> QED BY <1>1, <1>2, <1>3, <1>4

LEMMA AppendSeq ==
    ASSUME NEW S, NEW s \in Seq(S), NEW x \in S
    PROVE  /\ Append(s, x) \in Seq(S) /\ Len(s) \in Nat /\ DOMAIN s = 1..Len(s)
           /\ DOMAIN Append(s, x) = 1..(Len(s) + 1) /\ Append(s, x) # << >>
           /\ \A i \in DOMAIN s : Append(s, x)[i] = s[i] /\ i \in Nat /\ i < Len(s) + 1
           /\ \A i \in DOMAIN Append(s, x) : i \in DOMAIN s \/ i = Len(s) + 1
           /\ Append(s, x)[Len(s) + 1] = x
<1>1. Append(s, x) \in Seq(S) /\ Len(Append(s, x)) = Len(s) + 1
  BY AppendProperties
<1>2. Len(s) \in Nat /\ DOMAIN s = 1..Len(s) /\ DOMAIN Append(s, x) = 1..(Len(s) + 1)
  BY <1>1, LenProperties
<1>3. /\ \A i \in 1..Len(s) : Append(s, x)[i] = s[i]
      /\ Append(s, x)[Len(s) + 1] = x /\ Append(s, x) # << >>
  BY AppendProperties
<1> QED BY <1>1, <1>2, <1>3

LEMMA SeqElements ==
    ASSUME NEW S, NEW s \in Seq(S)
    PROVE  /\ \A i \in DOMAIN s : s[i] \in S /\ i \in Nat \ {0} /\ i <= Len(s)
           /\ Len(s) \in Nat /\ DOMAIN s = 1..Len(s)
           /\ << >> \in Seq(S) /\ DOMAIN << >> = {}
BY LenProperties, EmptySeq

\* Where a packet leads the worker that takes it.
LEMMA Places ==
    ASSUME NEW p \in Packets
    PROVE  /\ PlaceFor(p) \in {"end", "recv", "pop", "rest"}
           /\ PlaceFor(p) = "rest" => p.op = "send" /\ p.left \in Nat \ {0}
           /\ PlaceFor(p) = "end" <=> IsEnd(p)
           /\ p.bytes = 0 => PlaceFor(p) = "end"
BY DEF Packets, PlaceFor, IsEnd, all_bytes_transferred

LEMMA RecvPacket ==
    ASSUME NEW n \in Nat, NEW e \in BOOLEAN
    PROVE  /\ Packet("recv", nullptr, n, 0, e) \in Packets
           /\ PlaceFor(Packet("recv", nullptr, n, 0, e)) # "rest"
BY DEF Packets, Packet, PlaceFor, IsEnd, all_bytes_transferred

LEMMA SendPacket ==
    ASSUME NEW m \in Msgs, NEW n \in Nat, NEW l \in Nat, NEW e \in BOOLEAN
    PROVE  /\ Packet("send", m, n, l, e) \in Packets
           /\ Packet("send", m, n, l, e).m = m /\ Packet("send", m, n, l, e).left = l
           /\ Piece(Packet("send", m, n, l, e)) = <<m, l>>
           /\ PlaceFor(Packet("send", m, n, l, e)) = "rest" => l > 0 /\ n # 0
BY DEF Packets, Packet, PlaceFor, IsEnd, all_bytes_transferred, Piece

-----------------------------------------------------------------------------
(* What the parts of an action change. *)

\* A worker goes on, to a place where it holds no message.
LEMMA Leaves ==
    ASSUME TypeInv, NEW t \in Workers,
           \/ Free(t) \/ Dies(t) \/ Goto(t, "rearm") \/ Goto(t, "mark")
           \/ Goto(t, "front") \/ Goto(t, "lost")
    PROVE  /\ pc' \in [Workers -> WorkerPlaces] /\ cur' \in [Workers -> Packets \cup {Nothing}]
           /\ next' \in [Workers -> Msgs \cup {nullptr}]
           /\ pc'[t] \in {"idle", "dead", "rearm", "mark", "front", "lost"}
           /\ \A u \in Workers \ {t} : pc'[u] = pc[u] /\ cur'[u] = cur[u] /\ next'[u] = next[u]
           /\ Rests' = Rests \ {t} /\ Senders' = Senders \ {t}
           /\ \A u \in Rests' : cur'[u] = cur[u]
           /\ \A u \in Senders' : next'[u] = next[u]
<1>1. /\ pc \in [Workers -> WorkerPlaces] /\ cur \in [Workers -> Packets \cup {Nothing}]
      /\ next \in [Workers -> Msgs \cup {nullptr}]
  BY DEF TypeInv
<1>2. /\ pc' \in [Workers -> WorkerPlaces] /\ cur' \in [Workers -> Packets \cup {Nothing}]
      /\ next' \in [Workers -> Msgs \cup {nullptr}]
      /\ pc'[t] \in {"idle", "dead", "rearm", "mark", "front", "lost"}
      /\ \A u \in Workers \ {t} : pc'[u] = pc[u] /\ cur'[u] = cur[u] /\ next'[u] = next[u]
  BY <1>1 DEF Free, Dies, Goto, WorkerPlaces
<1>3. Rests' = Rests \ {t} /\ Senders' = Senders \ {t}
  BY <1>2 DEF Rests, Senders
<1>4. \A u \in Rests' \cup Senders' : u \in Workers \ {t}
  BY <1>3 DEF Rests, Senders
<1> QED BY <1>2, <1>3, <1>4

LEMMA PortGets ==
    ASSUME TypeInv, NEW p \in Packets, port' = Append(port, p)
    PROVE  /\ port' \in Seq(Packets)
           /\ \A i \in Parts : i \in Parts' /\ port'[i] = port[i]
           /\ \A i \in Parts' : i \in Parts \/ (port'[i] = p /\ i = Len(port) + 1)
           /\ PlaceFor(p) # "rest" => Parts' = Parts
           /\ Len(port) + 1 \notin Parts
<1>1. port \in Seq(Packets)
  BY DEF TypeInv
<1>2. /\ port' \in Seq(Packets) /\ Len(port) \in Nat /\ DOMAIN port = 1..Len(port)
      /\ DOMAIN port' = 1..(Len(port) + 1)
      /\ \A i \in DOMAIN port : port'[i] = port[i]
      /\ \A i \in DOMAIN port' : i \in DOMAIN port \/ i = Len(port) + 1
      /\ port'[Len(port) + 1] = p
  BY <1>1, AppendSeq
<1>3. \A i \in Parts : i \in Parts' /\ port'[i] = port[i]
  BY <1>2 DEF Parts
<1>4. \A i \in Parts' : i \in Parts \/ (port'[i] = p /\ i = Len(port) + 1)
  BY <1>2 DEF Parts
<1>5. PlaceFor(p) # "rest" => Parts' = Parts
  BY <1>2, <1>3, <1>4 DEF Parts
<1>6. Len(port) + 1 \notin Parts
  BY <1>2 DEF Parts
<1> QED BY <1>2, <1>3, <1>4, <1>5, <1>6

\* A submission with its three outcomes.
Submits(m, n) == AtOnce(m, n) \/ Pending(m, n) \/ SendFails

LEMMA Submission ==
    ASSUME TypeInv, NEW m, NEW n, <<m, n>> \in Pieces, Submits(m, n)
    PROVE  /\ port' \in Seq(Packets) /\ outs' \in Seq(Pieces) /\ wire' \in Seq(Transfers)
           /\ Parts' = Parts /\ \A i \in Parts : port'[i] = port[i]
           /\ \/ wire' = Append(wire, <<m, n, 0>>) /\ outs' = outs /\ outs = << >> /\ ~ Broken
              \/ wire' = wire /\ port' = port /\ outs' = Append(outs, <<m, n>>) /\ ~ Broken
              \/ wire' = wire /\ port' = port /\ outs' = outs /\ Broken
           /\ <<m, n, 0>> \in Transfers
<1>1. m \in Msgs /\ n \in Nat \ {0} /\ n <= Size[m] /\ Size[m] \in Nat
  <2>1. m \in Msgs /\ n \in Nat /\ n \in 1..Size[m]
    BY DEF Pieces
  <2> QED BY <2>1, Constants
<1>2. <<m, n, 0>> \in Transfers
  BY <1>1 DEF Transfers
<1>3. port \in Seq(Packets) /\ outs \in Seq(Pieces) /\ wire \in Seq(Transfers)
  BY DEF TypeInv
<1>4. CASE AtOnce(m, n)
  <2>1. /\ wire' = Append(wire, <<m, n, 0>>) /\ outs' = outs /\ outs = << >> /\ ~ Broken
        /\ port' = Append(port, Packet("send", m, n, 0, FALSE))
    BY <1>4 DEF AtOnce
  <2>2. /\ Packet("send", m, n, 0, FALSE) \in Packets
        /\ PlaceFor(Packet("send", m, n, 0, FALSE)) # "rest"
    <3>1. 0 \in Nat /\ ~ (0 > 0) /\ FALSE \in BOOLEAN
      OBVIOUS
    <3>2. m \in Msgs /\ n \in Nat
      BY <1>1
    <3> QED BY <3>1, <3>2, SendPacket, Zenon
  <2>3. port' \in Seq(Packets) /\ Parts' = Parts /\ \A i \in Parts : port'[i] = port[i]
    BY <2>1, <2>2, PortGets
  <2>4. wire' \in Seq(Transfers)
    BY <2>1, <1>2, <1>3, AppendSeq
  <2> QED BY <2>1, <2>3, <2>4, <1>2, <1>3
<1>5. CASE Pending(m, n)
  <2>1. wire' = wire /\ port' = port /\ outs' = Append(outs, <<m, n>>) /\ ~ Broken
    BY <1>5 DEF Pending
  <2>2. outs' \in Seq(Pieces)
    BY <2>1, <1>3, AppendSeq
  <2>3. Parts' = Parts
    BY <2>1 DEF Parts
  <2> QED BY <2>1, <2>2, <2>3, <1>2, <1>3
<1>6. CASE SendFails
  <2>1. wire' = wire /\ port' = port /\ outs' = outs /\ Broken
    BY <1>6 DEF SendFails
  <2>2. Parts' = Parts
    BY <2>1 DEF Parts
  <2> QED BY <2>1, <2>2, <1>2, <1>3
<1> QED BY <1>4, <1>5, <1>6 DEF Submits

\* A send that ends with the kernel.
LEMMA Completion ==
    ASSUME TypeInv, SendCompletes
    PROVE  \E l \in Nat, n \in Nat :
           /\ outs # << >> /\ outs' = Tail(outs) /\ outs[1] \in Pieces /\ outs[1] = <<outs[1][1], l>>
           /\ outs[1][1] \in Msgs /\ n <= l /\ 0 < l /\ l - n \in Nat
           /\ port' \in Seq(Packets) /\ outs' \in Seq(Pieces) /\ wire' \in Seq(Transfers)
           /\ \/ n = 0 /\ wire' = wire /\ Parts' = Parts
              \/ 0 < n /\ wire' = Append(wire, <<outs[1][1], l, l - n>>)
           /\ <<outs[1][1], l, l - n>> \in Transfers \/ n = 0
           /\ \A i \in Parts : i \in Parts' /\ port'[i] = port[i]
           /\ \A i \in Parts' : i \in Parts \/
                 (/\ i = Len(port) + 1 /\ Piece(port'[i]) = <<outs[1][1], l - n>>
                  /\ port'[i].m = outs[1][1] /\ Piece(port'[i]) \in Pieces /\ 0 < n)
           /\ Len(port) + 1 \notin Parts
<1>1. outs \in Seq(Pieces) /\ port \in Seq(Packets) /\ wire \in Seq(Transfers)
  BY DEF TypeInv
<1>2. outs # << >> /\ outs' = Tail(outs)
  BY DEF SendCompletes
<1>3. Head(outs) = outs[1] /\ outs[1] \in Pieces /\ outs' \in Seq(Pieces)
  BY <1>1, <1>2, TailSeq
<1> DEFINE m == outs[1][1]
           l == outs[1][2]
<1>4. outs[1] = <<m, l>> /\ m \in Msgs /\ l \in Nat /\ 0 < l /\ l <= Size[m] /\ Size[m] \in Nat
  <2>1. m \in Msgs /\ l \in Nat /\ l \in 1..Size[m] /\ outs[1] = <<m, l>>
    BY <1>3 DEF Pieces
  <2> QED BY <2>1, Constants
<1>5. PICK n \in Nat :
         /\ n <= l /\ l - n \in Nat
         /\ \E e \in BOOLEAN : port' = Append(port, Packet("send", m, n, l - n, e))
         /\ \/ n = 0 /\ wire' = wire
            \/ 0 < n /\ wire' = Append(wire, <<m, l, l - n>>)
  <2>1. \/ \E n \in 1..l : /\ wire' = Append(wire, <<m, l, l - n>>)
                           /\ port' = Append(port, Packet("send", m, n, l - n, FALSE))
        \/ port' = Append(port, Packet("send", m, 0, l, TRUE)) /\ wire' = wire
    BY <1>3 DEF SendCompletes
  <2>2. CASE \E n \in 1..l : /\ wire' = Append(wire, <<m, l, l - n>>)
                             /\ port' = Append(port, Packet("send", m, n, l - n, FALSE))
    <3>1. PICK n \in 1..l : /\ wire' = Append(wire, <<m, l, l - n>>)
                            /\ port' = Append(port, Packet("send", m, n, l - n, FALSE))
      BY <2>2
    <3>2. n \in Nat /\ n <= l /\ l - n \in Nat /\ 0 < n
      BY <1>4
    <3> QED BY <3>1, <3>2
  <2>3. CASE port' = Append(port, Packet("send", m, 0, l, TRUE)) /\ wire' = wire
    <3>1. 0 \in Nat /\ 0 <= l /\ l - 0 = l
      BY <1>4
    <3> QED BY <2>3, <3>1, <1>4
  <2> QED BY <2>1, <2>2, <2>3
<1>6. PICK e \in BOOLEAN : port' = Append(port, Packet("send", m, n, l - n, e))
  BY <1>5
<1> DEFINE p == Packet("send", m, n, l - n, e)
<1>7. /\ p \in Packets /\ p.m = m /\ p.left = l - n /\ Piece(p) = <<m, l - n>>
      /\ PlaceFor(p) = "rest" => l - n > 0 /\ n # 0
  <2>1. m \in Msgs /\ n \in Nat /\ l - n \in Nat /\ e \in BOOLEAN
    BY <1>4, <1>5
  <2> DEFINE k == l - n
  <2>2. k \in Nat
    BY <2>1
  <2> HIDE DEF m, k
  <2>3. /\ Packet("send", m, n, k, e) \in Packets /\ Packet("send", m, n, k, e).m = m
        /\ Packet("send", m, n, k, e).left = k /\ Piece(Packet("send", m, n, k, e)) = <<m, k>>
        /\ PlaceFor(Packet("send", m, n, k, e)) = "rest" => k > 0 /\ n # 0
    BY <2>1, <2>2, SendPacket
  <2> QED BY <2>3 DEF k
<1>8. PlaceFor(p) = "rest" => Piece(p) \in Pieces /\ 0 < n
  <2>1. n \in Nat
    OBVIOUS
  <2> HIDE DEF m, l, p
  <2>2. ASSUME PlaceFor(p) = "rest" PROVE l - n \in 1..Size[m] /\ l - n \in Nat /\ 0 < n
    BY <2>1, <2>2, <1>4, <1>5, <1>7
  <2> QED BY <2>2, <1>4, <1>7 DEF Pieces
<1> HIDE DEF p
<1>9. /\ port' \in Seq(Packets) /\ Len(port) + 1 \notin Parts
      /\ \A i \in Parts : i \in Parts' /\ port'[i] = port[i]
      /\ \A i \in Parts' : i \in Parts \/ (port'[i] = p /\ i = Len(port) + 1)
      /\ PlaceFor(p) # "rest" => Parts' = Parts
  BY <1>6, <1>7, PortGets DEF p
<1>10. \A i \in Parts' : PlaceFor(port'[i]) = "rest"
  BY DEF Parts
<1>11. \A i \in Parts' : i \in Parts \/
          (/\ i = Len(port) + 1 /\ Piece(port'[i]) = <<m, l - n>>
           /\ port'[i].m = m /\ Piece(port'[i]) \in Pieces /\ 0 < n)
  BY <1>7, <1>8, <1>9, <1>10
<1>12. n = 0 => Parts' = Parts
  BY <1>7, <1>9
<1>13. n = 0 \/ <<m, l, l - n>> \in Transfers
  <2> HIDE DEF m, l
  <2>1. n # 0 => l - n < l
    BY <1>4, <1>5
  <2> QED BY <2>1, <1>4, <1>5 DEF Transfers
<1>14. wire' \in Seq(Transfers)
  <2>1. CASE n = 0
    BY <2>1, <1>5, <1>1
  <2>2. CASE n # 0
    <3> DEFINE x == <<m, l, l - n>>
    <3>1. wire' = Append(wire, x) /\ x \in Transfers
      BY <2>2, <1>5, <1>13
    <3> HIDE DEF x
    <3> QED BY <3>1, <1>1, AppendSeq
  <2> QED BY <2>1, <2>2
<1> QED BY <1>2, <1>3, <1>4, <1>5, <1>9, <1>11, <1>12, <1>13, <1>14

\* A worker takes the first packet.
LEMMA Takes ==
    ASSUME TypeInv, NEW t \in Workers, GetQueuedCompletionStatus(t)
    PROVE  /\ port # << >> /\ pc[t] = "idle" /\ port' \in Seq(Packets) /\ port[1] \in Packets
           /\ port' = Tail(port) /\ DOMAIN port' = 1..(Len(port) - 1) /\ Len(port) \in Nat \ {0}
           /\ 1 \in DOMAIN port
           /\ pc' \in [Workers -> WorkerPlaces] /\ cur' \in [Workers -> Packets \cup {Nothing}]
           /\ \A i \in Parts' : i + 1 \in Parts /\ i \in Nat \ {0} /\ port'[i] = port[i + 1]
           /\ cur'[t] = port[1] /\ pc'[t] = PlaceFor(port[1])
           /\ \A u \in Workers \ {t} : pc'[u] = pc[u] /\ cur'[u] = cur[u]
           /\ Senders' = Senders /\ t \notin Rests
           /\ \A u \in Rests' : \/ u \in Rests /\ u # t /\ cur'[u] = cur[u]
                                \/ u = t /\ 1 \in Parts /\ cur'[u] = port[1]
           /\ ends' \in Nat /\ (pc'[t] = "end" => ends' = ends + 1)
<1>1. /\ port \in Seq(Packets) /\ pc \in [Workers -> WorkerPlaces] /\ ends \in Nat
      /\ cur \in [Workers -> Packets \cup {Nothing}]
  BY DEF TypeInv
<1>2. /\ port # << >> /\ pc[t] = "idle" /\ port' = Tail(port)
      /\ cur' = [cur EXCEPT ![t] = Head(port)]
      /\ pc' = [pc EXCEPT ![t] = PlaceFor(Head(port))]
      /\ ends' = IF IsEnd(Head(port)) THEN ends + 1 ELSE ends
  BY DEF GetQueuedCompletionStatus
<1>3. /\ Head(port) = port[1] /\ port[1] \in Packets /\ port' \in Seq(Packets) /\ 1 \in DOMAIN port
      /\ DOMAIN port' = 1..(Len(port) - 1) /\ Len(port) \in Nat \ {0}
      /\ \A i \in DOMAIN port' : i \in Nat \ {0} /\ i + 1 \in DOMAIN port /\ port'[i] = port[i + 1]
  BY <1>1, <1>2, TailSeq
<1>4. PlaceFor(port[1]) \in {"end", "recv", "pop", "rest"} /\ (PlaceFor(port[1]) = "end" <=> IsEnd(port[1]))
  BY <1>3, Places
<1>5. /\ pc' \in [Workers -> WorkerPlaces] /\ cur' \in [Workers -> Packets \cup {Nothing}]
      /\ cur'[t] = port[1] /\ pc'[t] = PlaceFor(port[1])
      /\ \A u \in Workers \ {t} : pc'[u] = pc[u] /\ cur'[u] = cur[u]
  BY <1>1, <1>2, <1>3, <1>4 DEF WorkerPlaces
<1>6. ends' \in Nat /\ (pc'[t] = "end" => ends' = ends + 1)
  BY <1>1, <1>2, <1>3, <1>4, <1>5
<1>7. Senders' = Senders /\ t \notin Rests
  BY <1>2, <1>4, <1>5 DEF Senders, Rests
<1>8. \A u \in Rests' : \/ u \in Rests /\ u # t /\ cur'[u] = cur[u]
                        \/ u = t /\ 1 \in Parts /\ cur'[u] = port[1]
  BY <1>3, <1>5 DEF Rests, Parts
<1>9. \A i \in Parts' : i + 1 \in Parts /\ i \in Nat \ {0} /\ port'[i] = port[i + 1]
  BY <1>3 DEF Parts
<1> QED BY <1>2, <1>3, <1>5, <1>6, <1>7, <1>8, <1>9

\* A worker looks at the queue.
LEMMA Looks ==
    ASSUME TypeInv, NEW t \in Workers, TestEmpty(t) \/ Front(t)
    PROVE  /\ pc[t] \in {"pop", "front"} /\ send_queue' = send_queue
           /\ pc' \in [Workers -> WorkerPlaces] /\ cur' \in [Workers -> Packets \cup {Nothing}]
           /\ next' \in [Workers -> Msgs \cup {nullptr}]
           /\ pc'[t] \in {"idle", "front", "take", "lost"}
           /\ \A u \in Workers \ {t} : pc'[u] = pc[u] /\ cur'[u] = cur[u] /\ next'[u] = next[u]
           /\ Rests' = Rests /\ Senders' = Senders
           /\ \A u \in Rests : cur'[u] = cur[u]
           /\ \A u \in Senders : next'[u] = next[u]
<1>1. /\ send_queue' = send_queue /\ pc[t] \in {"pop", "front"}
  BY DEF TestEmpty, Front
<1>2. /\ pc \in [Workers -> WorkerPlaces] /\ cur \in [Workers -> Packets \cup {Nothing}]
      /\ next \in [Workers -> Msgs \cup {nullptr}] /\ send_queue \in Seq(Msgs \cup {nullptr})
  BY DEF TypeInv
<1>3. /\ pc' \in [Workers -> WorkerPlaces] /\ cur' \in [Workers -> Packets \cup {Nothing}]
      /\ next' \in [Workers -> Msgs \cup {nullptr}]
      /\ pc'[t] \in {"idle", "front", "take", "lost"}
      /\ \A u \in Workers \ {t} : pc'[u] = pc[u] /\ cur'[u] = cur[u] /\ next'[u] = next[u]
  <2>1. CASE Free(t)
    BY <1>2, <2>1 DEF Free, WorkerPlaces
  <2>2. CASE Goto(t, "front") \/ Goto(t, "lost")
    BY <1>2, <2>2 DEF Goto, WorkerPlaces
  <2>3. CASE /\ send_queue # << >> /\ next' = [next EXCEPT ![t] = Head(send_queue)]
             /\ pc' = [pc EXCEPT ![t] = "take"] /\ cur' = cur
    <3>1. Head(send_queue) \in Msgs \cup {nullptr}
      BY <1>2, <2>3, TailSeq
    <3> QED BY <1>2, <2>3, <3>1 DEF WorkerPlaces
  <2> QED BY <2>1, <2>2, <2>3 DEF TestEmpty, Front
<1>4. Rests' = Rests /\ Senders' = Senders /\ t \notin Rests /\ t \notin Senders
  BY <1>1, <1>3 DEF Rests, Senders
<1>5. \A u \in Rests \cup Senders : u \in Workers \ {t}
  BY <1>4 DEF Rests, Senders
<1> QED BY <1>1, <1>3, <1>4, <1>5

\* A worker removes the first entry: a message or a mark.
LEMMA Pops ==
    ASSUME TypeInv, NEW t \in Workers, Pop(t), send_queue # << >>
    PROVE  /\ pc[t] = "take" /\ cur' = cur /\ next' = next /\ 1 \in DOMAIN send_queue
           /\ send_queue' \in Seq(Msgs \cup {nullptr})
           /\ \A j \in DOMAIN send_queue' :
                 /\ j \in Nat \ {0} /\ 1 + j \in DOMAIN send_queue /\ 1 + j # 1
                 /\ send_queue'[j] = send_queue[1 + j]
           /\ pc' \in [Workers -> WorkerPlaces]
           /\ \A u \in Workers \ {t} : pc'[u] = pc[u]
           /\ t \notin Senders /\ Rests' = Rests
           /\ next[t] = nullptr => pc'[t] = "pop" /\ Senders' = Senders
           /\ next[t] # nullptr => pc'[t] = "send" /\ Senders' = Senders \cup {t}
<1>1. /\ pc[t] = "take" /\ cur' = cur /\ next' = next /\ send_queue' = Tail(send_queue)
      /\ pc' = [pc EXCEPT ![t] = AfterPop(next[t])]
  BY DEF Pop, Goto
<1>2. send_queue \in Seq(Msgs \cup {nullptr}) /\ pc \in [Workers -> WorkerPlaces]
  BY DEF TypeInv
<1>3. /\ 1 \in DOMAIN send_queue /\ send_queue' \in Seq(Msgs \cup {nullptr})
      /\ \A j \in DOMAIN send_queue' :
            /\ j \in Nat \ {0} /\ j + 1 \in DOMAIN send_queue /\ j + 1 # 1
            /\ send_queue'[j] = send_queue[j + 1]
  BY <1>1, <1>2, TailSeq
<1>4. \A j \in DOMAIN send_queue' :
         /\ j \in Nat \ {0} /\ 1 + j \in DOMAIN send_queue /\ 1 + j # 1
         /\ send_queue'[j] = send_queue[1 + j]
  <2> TAKE j \in DOMAIN send_queue'
  <2>1. j \in Nat \ {0} /\ 1 + j = j + 1
    BY <1>3
  <2> QED BY <1>3, <2>1
<1>5. /\ next[t] = nullptr => pc'[t] = "pop"
      /\ next[t] # nullptr => pc'[t] = "send"
      /\ pc' \in [Workers -> WorkerPlaces] /\ \A u \in Workers \ {t} : pc'[u] = pc[u]
  BY <1>1, <1>2 DEF AfterPop, WorkerPlaces
<1>6. /\ t \notin Senders /\ Rests' = Rests
      /\ next[t] = nullptr => Senders' = Senders
      /\ next[t] # nullptr => Senders' = Senders \cup {t}
  BY <1>1, <1>5 DEF Senders, Rests
<1> QED BY <1>1, <1>3, <1>4, <1>5, <1>6

\* pop of an empty queue: the worker is not followed any further.
LEMMA PopsNothing ==
    ASSUME NEW t \in Workers, Pop(t), send_queue = << >>
    PROVE  Goto(t, "lost") /\ send_queue' = send_queue
BY DEF Pop

-----------------------------------------------------------------------------
LEMMA InitType == Init => TypeInv
<1> SUFFICES ASSUME Init PROVE TypeInv
  OBVIOUS
<1>1. /\ outs \in Seq(Pieces) /\ port \in Seq(Packets) /\ wire \in Seq(Transfers)
      /\ send_queue \in Seq(Msgs \cup {nullptr}) /\ DOMAIN port = {}
  BY SeqElements DEF Init
<1>2. Parts = {} /\ Rests = {} /\ Senders = {}
  BY <1>1 DEF Init, Parts, Rests, Senders
<1>3. \A w \in Writers : written[w] = 0 /\ Quota[w] \in Nat
  BY IocpAssumption DEF Init
<1>4. \A w \in Writers : written[w] <= Quota[w]
  BY <1>3
<1> QED BY <1>1, <1>2, <1>4 DEF Init, TypeInv, WorkerPlaces, WriterPlaces

\* Steps of the peer, of the accept loop and of Disconnect.
Outside ==
    PeerSends \/ PeerCloses \/ RecvCompletes \/ WSAAccept \/ Accept \/ ListenEnds \/ Disconnect

LEMMA OutsideStep ==
    ASSUME TypeInv, Outside
    PROVE  /\ UNCHANGED <<ends, disorder, outs, wire, send_queue, pc, cur, next, wpc, written>>
           /\ port' \in Seq(Packets) /\ \A i \in Parts' : i \in Parts /\ port'[i] = port[i]
<1>1. UNCHANGED <<ends, disorder, outs, wire, send_queue, pc, cur, next, wpc, written>>
  BY DEF Outside, PeerSends, PeerCloses, RecvCompletes, WSAAccept, Accept, Register, OnAccept,
         ListenEnds, Disconnect, workVars, writeVars, ghosts, kernelVars
<1>2. CASE RecvCompletes
  <2>1. PICK n \in Nat, e \in BOOLEAN : port' = Append(port, Packet("recv", nullptr, n, 0, e))
    BY <1>2 DEF RecvCompletes
  <2> DEFINE p == Packet("recv", nullptr, n, 0, e)
  <2>2. p \in Packets /\ PlaceFor(p) # "rest"
    BY RecvPacket
  <2> HIDE DEF p
  <2> QED BY <1>1, <2>1, <2>2, PortGets DEF p
<1>3. CASE ListenEnds
  <2>1. port' = << >>
    BY <1>3 DEF ListenEnds
  <2>2. port' \in Seq(Packets) /\ DOMAIN port' = {}
    BY <2>1, SeqElements
  <2> QED BY <1>1, <2>2 DEF Parts
<1>4. CASE PeerSends \/ PeerCloses \/ WSAAccept \/ Accept \/ Disconnect
  <2>1. port' = port
    BY <1>4 DEF PeerSends, PeerCloses, WSAAccept, Accept, Register, OnAccept, Disconnect, kernelVars
  <2> QED BY <1>1, <2>1 DEF TypeInv, Parts
<1> QED BY <1>2, <1>3, <1>4 DEF Outside

LEMMA TypeOutside ==
    ASSUME TypeInv, Outside
    PROVE  TypeInv'
<1>1. /\ UNCHANGED <<ends, outs, wire, send_queue, pc, cur, next, wpc, written>>
      /\ port' \in Seq(Packets) /\ \A i \in Parts' : i \in Parts /\ port'[i] = port[i]
  BY OutsideStep
<1>2. listen' \in {"accept", "register", "tell", "on", "ended"} /\ handle' \in {"none", "live", "freed"}
  BY DEF TypeInv, Outside, PeerSends, PeerCloses, RecvCompletes, WSAAccept, Accept, Register, OnAccept,
         ListenEnds, Disconnect
<1>3. Rests' = Rests /\ Senders' = Senders
  BY <1>1 DEF Rests, Senders
<1>4. \A i \in Parts' : Piece(port'[i]) \in Pieces
  BY <1>1 DEF TypeInv
<1> QED BY <1>1, <1>2, <1>3, <1>4 DEF TypeInv

LEMMA TypeCompletes ==
    ASSUME TypeInv, SendCompletes
    PROVE  TypeInv'
<1>1. UNCHANGED <<listen, ends, handle, send_queue, pc, cur, next, wpc, written>>
  BY DEF SendCompletes, workVars, writeVars, ghosts
<1>2. /\ port' \in Seq(Packets) /\ outs' \in Seq(Pieces) /\ wire' \in Seq(Transfers)
      /\ \A i \in Parts : port'[i] = port[i]
      /\ \A i \in Parts' : i \in Parts \/ Piece(port'[i]) \in Pieces
  BY Completion
<1>3. Rests' = Rests /\ Senders' = Senders
  BY <1>1 DEF Rests, Senders
<1>4. \A i \in Parts' : Piece(port'[i]) \in Pieces
  BY <1>2 DEF TypeInv
<1> QED BY <1>1, <1>2, <1>3, <1>4 DEF TypeInv

LEMMA TypeWork ==
    ASSUME TypeInv, NEW t \in Workers, Work(t)
    PROVE  TypeInv'
<1>1. UNCHANGED <<listen, wpc, written>>
  BY DEF Work, GetQueuedCompletionStatus, OnDisconnect, TestEmpty, Front, Pop, SendNext, MarkNext,
         SendRest, OnRecv, WSARecv, writeVars
<1>2. CASE GetQueuedCompletionStatus(t)
  <2>1. UNCHANGED <<handle, outs, wire, send_queue, next>>
    BY <1>2 DEF GetQueuedCompletionStatus
  <2>2. /\ port' \in Seq(Packets) /\ pc' \in [Workers -> WorkerPlaces] /\ ends' \in Nat
        /\ cur' \in [Workers -> Packets \cup {Nothing}] /\ Senders' = Senders
        /\ \A i \in Parts' : i + 1 \in Parts /\ port'[i] = port[i + 1]
        /\ \A u \in Rests' : \/ u \in Rests /\ cur'[u] = cur[u]
                             \/ 1 \in Parts /\ cur'[u] = port[1]
    BY <1>2, Takes
  <2>3. /\ \A i \in Parts' : Piece(port'[i]) \in Pieces
        /\ \A u \in Rests' : Piece(cur'[u]) \in Pieces
    BY <2>2 DEF TypeInv
  <2> QED BY <1>1, <2>1, <2>2, <2>3 DEF TypeInv
<1>3. ASSUME \/ Free(t) \/ Dies(t) \/ Goto(t, "rearm") \/ Goto(t, "mark")
             \/ Goto(t, "front") \/ Goto(t, "lost"),
             ends' = ends, handle' \in {"none", "live", "freed"},
             outs' \in Seq(Pieces), port' \in Seq(Packets), wire' \in Seq(Transfers),
             send_queue' \in Seq(Msgs \cup {nullptr}),
             \A i \in Parts' : i \in Parts /\ port'[i] = port[i]
      PROVE  TypeInv'
  <2>1. /\ pc' \in [Workers -> WorkerPlaces] /\ cur' \in [Workers -> Packets \cup {Nothing}]
        /\ next' \in [Workers -> Msgs \cup {nullptr}]
        /\ \A u \in Rests' : u \in Rests /\ cur'[u] = cur[u]
        /\ \A u \in Senders' : u \in Senders /\ next'[u] = next[u]
    BY <1>3, Leaves
  <2>2. /\ \A i \in Parts' : Piece(port'[i]) \in Pieces
        /\ \A u \in Rests' : Piece(cur'[u]) \in Pieces
        /\ \A u \in Senders' : next'[u] \in Msgs
    BY <1>3, <2>1 DEF TypeInv
  <2> QED BY <1>1, <1>3, <2>1, <2>2 DEF TypeInv
<1>4. CASE OnDisconnect(t)
  <2>1. /\ UNCHANGED <<outs, port, wire, ends>> /\ handle' = "freed" /\ send_queue' = << >> /\ Free(t)
    BY <1>4 DEF OnDisconnect, ghosts
  <2>2. send_queue' \in Seq(Msgs \cup {nullptr}) /\ Parts' = Parts
    BY <2>1, SeqElements DEF Parts
  <2> QED BY <1>3, <2>1, <2>2 DEF TypeInv
<1>5. CASE TestEmpty(t) \/ Front(t)
  <2>1. UNCHANGED <<outs, port, wire, ends, handle>>
    BY <1>5 DEF TestEmpty, Front, kernelVars, KeepHandle, ghosts
  <2>2. /\ send_queue' = send_queue
        /\ pc' \in [Workers -> WorkerPlaces] /\ cur' \in [Workers -> Packets \cup {Nothing}]
        /\ next' \in [Workers -> Msgs \cup {nullptr}] /\ Rests' = Rests /\ Senders' = Senders
        /\ \A u \in Rests : cur'[u] = cur[u]
        /\ \A u \in Senders : next'[u] = next[u]
    BY <1>5, Looks
  <2>3. Parts' = Parts
    BY <2>1 DEF Parts
  <2>4. /\ \A u \in Rests' : Piece(cur'[u]) \in Pieces
        /\ \A u \in Senders' : next'[u] \in Msgs
    BY <2>2 DEF TypeInv
  <2> QED BY <1>1, <2>1, <2>2, <2>3, <2>4 DEF TypeInv
<1>10. CASE Pop(t)
  <2>1. UNCHANGED <<outs, port, wire, ends, handle>>
    BY <1>10 DEF Pop, kernelVars
  <2>2. Parts' = Parts
    BY <2>1 DEF Parts
  <2>3. CASE send_queue = << >>
    <3>1. Goto(t, "lost") /\ send_queue' = send_queue
      BY <1>10, <2>3, PopsNothing
    <3> QED BY <1>3, <2>1, <2>2, <3>1 DEF TypeInv
  <2>4. CASE send_queue # << >>
    <3>1. /\ cur' = cur /\ next' = next /\ send_queue' \in Seq(Msgs \cup {nullptr})
          /\ pc' \in [Workers -> WorkerPlaces] /\ Rests' = Rests
          /\ next[t] = nullptr => Senders' = Senders
          /\ next[t] # nullptr => Senders' = Senders \cup {t}
      BY <1>10, <2>4, Pops
    <3>2. next[t] \in Msgs \cup {nullptr}
      BY DEF TypeInv
    <3>3. \A u \in Senders' : next[u] \in Msgs
      BY <3>1, <3>2 DEF TypeInv
    <3> QED BY <1>1, <2>1, <2>2, <3>1, <3>3 DEF TypeInv
  <2> QED BY <2>3, <2>4
<1>6. CASE SendNext(t)
  <2>1. /\ UNCHANGED <<handle, send_queue, ends>> /\ Submits(next[t], Size[next[t]])
        /\ Free(t) \/ Dies(t) \/ Goto(t, "mark")
    BY <1>6 DEF SendNext, Submits, Noted, Goto
  <2>2. next[t] \in Msgs
    BY <1>6 DEF SendNext, TypeInv, Senders
  <2>3. <<next[t], Size[next[t]]>> \in Pieces
    BY <2>2, Constants
  <2>4. /\ port' \in Seq(Packets) /\ outs' \in Seq(Pieces) /\ wire' \in Seq(Transfers)
        /\ Parts' = Parts /\ \A i \in Parts : port'[i] = port[i]
    BY <2>1, <2>3, Submission
  <2> QED BY <1>3, <2>1, <2>4 DEF TypeInv
<1>7. CASE MarkNext(t)
  <2>1. /\ UNCHANGED <<outs, port, wire, ends, handle>> /\ send_queue' = Append(send_queue, nullptr)
        /\ Free(t)
    BY <1>7 DEF MarkNext, kernelVars
  <2>2. send_queue' \in Seq(Msgs \cup {nullptr}) /\ Parts' = Parts
    BY <2>1, AppendSeq DEF Parts, TypeInv
  <2> QED BY <1>3, <2>1, <2>2 DEF TypeInv
<1>8. CASE SendRest(t)
  <2>1. /\ UNCHANGED <<handle, send_queue, ends>> /\ Submits(cur[t].m, cur[t].left)
        /\ Free(t) \/ Dies(t)
    BY <1>8 DEF SendRest, Submits, Noted, Rest
  <2>2. <<cur[t].m, cur[t].left>> \in Pieces
    BY <1>8 DEF SendRest, TypeInv, Rests, Piece
  <2>3. /\ port' \in Seq(Packets) /\ outs' \in Seq(Pieces) /\ wire' \in Seq(Transfers)
        /\ Parts' = Parts /\ \A i \in Parts : port'[i] = port[i]
    BY <2>1, <2>2, Submission
  <2> QED BY <1>3, <2>1, <2>3 DEF TypeInv
<1>9. CASE OnRecv(t) \/ WSARecv(t)
  <2>1. /\ UNCHANGED <<outs, port, wire, ends, handle, send_queue>>
        /\ Free(t) \/ Dies(t) \/ Goto(t, "rearm")
    BY <1>9 DEF OnRecv, WSARecv, kernelVars, ghosts
  <2>2. Parts' = Parts
    BY <2>1 DEF Parts
  <2> QED BY <1>3, <2>1, <2>2 DEF TypeInv
<1> QED BY <1>2, <1>4, <1>5, <1>6, <1>7, <1>8, <1>9, <1>10 DEF Work

\* A writer inside Write holds the message of its last call.
LEMMA Message ==
    ASSUME TypeInv, NEW w \in Writers, wpc[w] # "idle"
    PROVE  msg(w) \in Msgs /\ <<msg(w), Size[msg(w)]>> \in Pieces /\ msg(w)[1] = w
<1>1. written[w] \in Nat /\ written[w] > 0 /\ written[w] <= Quota[w]
  BY DEF TypeInv
<1>2. msg(w) \in Msgs
  BY <1>1, Constants DEF msg
<1> QED BY <1>2, Constants DEF msg

LEMMA TypeWrite ==
    ASSUME TypeInv, NEW w \in Writers, Write(w) \/ WriteSteps(w)
    PROVE  TypeInv'
<1>1. UNCHANGED <<listen, ends, handle, pc, cur, next>>
  BY DEF Write, WriteSteps, TestQueue, PushWrite, SendWrite, MarkWrite, workVars, ghosts, Push, Noted
<1>2. Rests' = Rests /\ Senders' = Senders
  BY <1>1 DEF Rests, Senders
<1>3. wpc \in [Writers -> WriterPlaces] /\ written \in [Writers -> Nat]
  BY DEF TypeInv
<1>4. CASE Write(w)
  <2>1. /\ UNCHANGED <<outs, port, wire, send_queue>> /\ written[w] < Quota[w]
        /\ wpc' = [wpc EXCEPT ![w] = "test"] /\ written' = [written EXCEPT ![w] = written[w] + 1]
    BY <1>4 DEF Write, kernelVars
  <2>2. /\ wpc' \in [Writers -> WriterPlaces] /\ written' \in [Writers -> Nat]
        /\ written'[w] = written[w] + 1
        /\ \A v \in Writers \ {w} : wpc'[v] = wpc[v] /\ written'[v] = written[v]
    BY <1>3, <2>1 DEF WriterPlaces
  <2>3. written[w] \in Nat /\ Quota[w] \in Nat
    BY <1>3, IocpAssumption
  <2>4. written'[w] <= Quota[w] /\ written'[w] > 0
    BY <2>1, <2>2, <2>3
  <2>5. \A v \in Writers : written'[v] <= Quota[v] /\ (wpc'[v] # "idle" => written'[v] > 0)
    BY <2>2, <2>4 DEF TypeInv
  <2>6. Parts' = Parts
    BY <2>1 DEF Parts
  <2> QED BY <1>1, <1>2, <2>1, <2>2, <2>5, <2>6 DEF TypeInv
<1>5. CASE WriteSteps(w)
  <2>1. /\ wpc[w] # "idle" /\ written' = written
        /\ \E place \in WriterPlaces : wpc' = [wpc EXCEPT ![w] = place]
    BY <1>5 DEF WriteSteps, TestQueue, PushWrite, SendWrite, MarkWrite, Place, WriterPlaces
  <2>2. wpc' \in [Writers -> WriterPlaces] /\ \A v \in Writers \ {w} : wpc'[v] = wpc[v]
    BY <1>3, <2>1
  <2>3. \A v \in Writers : written'[v] <= Quota[v] /\ (wpc'[v] # "idle" => written'[v] > 0)
    BY <2>1, <2>2 DEF TypeInv
  <2>4. msg(w) \in Msgs /\ <<msg(w), Size[msg(w)]>> \in Pieces
    BY <2>1, Message
  <2>5. CASE TestQueue(w)
    <3>1. UNCHANGED <<outs, port, wire, send_queue>>
      BY <2>5 DEF TestQueue, kernelVars
    <3>2. Parts' = Parts
      BY <3>1 DEF Parts
    <3> QED BY <1>1, <1>2, <2>1, <2>2, <2>3, <3>1, <3>2 DEF TypeInv
  <2>6. CASE PushWrite(w) \/ MarkWrite(w)
    <3>1. /\ UNCHANGED <<outs, port, wire>>
          /\ send_queue' = Append(send_queue, msg(w)) \/ send_queue' = Append(send_queue, nullptr)
      BY <2>6 DEF PushWrite, MarkWrite, Push, kernelVars
    <3>2. Parts' = Parts
      BY <3>1 DEF Parts
    <3>3. send_queue \in Seq(Msgs \cup {nullptr})
      BY DEF TypeInv
    <3>4. send_queue' \in Seq(Msgs \cup {nullptr})
      <4>1. msg(w) \in Msgs \cup {nullptr} /\ nullptr \in Msgs \cup {nullptr}
        BY <2>4
      <4>2. CASE send_queue' = Append(send_queue, msg(w))
        BY <3>3, <4>1, <4>2, AppendSeq
      <4>3. CASE send_queue' = Append(send_queue, nullptr)
        BY <3>3, <4>1, <4>3, AppendSeq
      <4> QED BY <3>1, <4>2, <4>3
    <3> QED BY <1>1, <1>2, <2>1, <2>2, <2>3, <3>1, <3>2, <3>4 DEF TypeInv
  <2>7. CASE SendWrite(w)
    <3>1. Submits(msg(w), Size[msg(w)]) /\ send_queue' = send_queue
      BY <2>7 DEF SendWrite, Submits
    <3>2. /\ port' \in Seq(Packets) /\ outs' \in Seq(Pieces) /\ wire' \in Seq(Transfers)
          /\ Parts' = Parts /\ \A i \in Parts : port'[i] = port[i]
      BY <2>4, <3>1, Submission
    <3>3. \A i \in Parts' : Piece(port'[i]) \in Pieces
      BY <3>2 DEF TypeInv
    <3> QED BY <1>1, <1>2, <2>1, <2>2, <2>3, <3>1, <3>2, <3>3 DEF TypeInv
  <2> QED BY <1>5, <2>5, <2>6, <2>7 DEF WriteSteps
<1> QED BY <1>4, <1>5

LEMMA TypeStep == TypeInv /\ [Next]_vars => TypeInv'
<1> SUFFICES ASSUME TypeInv, [Next]_vars PROVE TypeInv'
  OBVIOUS
<1>1. CASE UNCHANGED vars
  <2>1. UNCHANGED <<listen, ends, handle, outs, port, wire, send_queue, pc, cur, next, wpc, written>>
    BY <1>1 DEF vars, kernelVars, workVars, writeVars, ghosts
  <2>2. Parts' = Parts /\ Rests' = Rests /\ Senders' = Senders
    BY <2>1 DEF Parts, Rests, Senders
  <2> QED BY <2>1, <2>2 DEF TypeInv
<1>2. CASE Outside
  BY <1>2, TypeOutside
<1>3. CASE SendCompletes
  BY <1>3, TypeCompletes
<1>4. CASE \E t \in Workers : Work(t)
  BY <1>4, TypeWork
<1>5. CASE \E w \in Writers : Write(w) \/ WriteSteps(w)
  BY <1>5, TypeWrite
<1> QED BY <1>1, <1>2, <1>3, <1>4, <1>5 DEF Next, Kernel, Outside

-----------------------------------------------------------------------------
(* The end of a connection. *)

LEMMA BusyKept ==
    ASSUME [Next]_vars
    PROVE  busyEnd => busyEnd'
<1>1. CASE UNCHANGED vars
  BY <1>1, Zenon DEF vars, ghosts
<1>2. CASE PeerSends \/ PeerCloses \/ Kernel \/ WSAAccept \/ Accept \/ ListenEnds \/ Disconnect
  BY <1>2, Zenon DEF PeerSends, PeerCloses, Kernel, RecvCompletes, SendCompletes, WSAAccept, Accept,
     Register, OnAccept, ListenEnds, Disconnect, ghosts
<1>3. CASE \E t \in Workers : Work(t)
  BY <1>3, Zenon DEF Work, GetQueuedCompletionStatus, OnDisconnect, TestEmpty, Front, Pop, SendNext,
     MarkNext, SendRest, OnRecv, WSARecv, ghosts, Noted
<1>4. CASE \E w \in Writers : Write(w) \/ WriteSteps(w)
  BY <1>4, Zenon DEF Write, WriteSteps, TestQueue, PushWrite, SendWrite, MarkWrite, Push, Noted, ghosts
<1> QED BY <1>1, <1>2, <1>3, <1>4 DEF Next

LEMMA ClashKept ==
    ASSUME [Next]_vars
    PROVE  clashed => clashed'
<1>1. CASE UNCHANGED vars
  BY <1>1, Zenon DEF vars, ghosts
<1>2. CASE PeerSends \/ PeerCloses \/ Kernel \/ WSAAccept \/ Accept \/ ListenEnds \/ Disconnect
  BY <1>2, Zenon DEF PeerSends, PeerCloses, Kernel, RecvCompletes, SendCompletes, WSAAccept, Accept,
     Register, OnAccept, ListenEnds, Disconnect, ghosts
<1>3. CASE \E t \in Workers : Work(t)
  BY <1>3, Zenon DEF Work, GetQueuedCompletionStatus, OnDisconnect, TestEmpty, Front, Pop, SendNext,
     MarkNext, SendRest, OnRecv, WSARecv, ghosts, Noted
<1>4. CASE \E w \in Writers : Write(w) \/ WriteSteps(w)
  BY <1>4, Zenon DEF Write, WriteSteps, TestQueue, PushWrite, SendWrite, MarkWrite, Push, Noted, ghosts
<1> QED BY <1>1, <1>2, <1>3, <1>4 DEF Next

Quiet ==
    /\ ends = 1 /\ ~ recv /\ outs = << >> /\ port = << >> /\ listen \in {"on", "ended"}
    /\ \A t \in Workers : Busy(t) => pc[t] = "end" /\ handle # "freed"
    /\ \A t, u \in Workers : Busy(t) /\ Busy(u) => t = u

LEMMA QuietOutside ==
    ASSUME TypeInv, QuietInv,
           PeerSends \/ PeerCloses \/ Kernel \/ WSAAccept \/ Accept \/ ListenEnds \/ Disconnect,
           [Next]_vars
    PROVE  QuietInv'
<1>1. UNCHANGED <<ends, pc>>
  BY DEF PeerSends, PeerCloses, Kernel, RecvCompletes, SendCompletes, WSAAccept, Accept,
     Register, OnAccept, ListenEnds, Disconnect, ghosts, workVars
<1>2. handle' = handle \/ handle' = "live"
  BY DEF PeerSends, PeerCloses, Kernel, RecvCompletes, SendCompletes, WSAAccept, Accept,
     Register, OnAccept, ListenEnds, Disconnect
<1>3. (ends = 0 => handle # "freed" /\ \A t \in Workers : pc[t] # "end")'
  BY <1>1, <1>2 DEF QuietInv
<1>4. ASSUME ~ busyEnd', (ends > 0)' PROVE Quiet'
  <2>1. ~ busyEnd /\ ends > 0
    BY <1>1, <1>4, BusyKept
  <2>2. Quiet
    BY <2>1 DEF QuietInv, Quiet
  <2>3. ~ recv /\ outs = << >> /\ listen \in {"on", "ended"} /\ port = << >>
    BY <2>2 DEF Quiet
  <2>4. ~ RecvCompletes /\ ~ SendCompletes /\ ~ WSAAccept /\ ~ Accept
    BY <2>3 DEF RecvCompletes, SendCompletes, WSAAccept, Accept, Register, OnAccept
  <2>5. PeerSends \/ PeerCloses \/ ListenEnds \/ Disconnect
    BY <2>4 DEF Kernel
  <2>6. /\ ~ recv' /\ outs' = outs /\ port' = << >> /\ listen' \in {"on", "ended"} /\ handle' = handle
    BY <2>3, <2>5 DEF PeerSends, PeerCloses, ListenEnds, Disconnect
  <2>7. /\ \A t \in Workers : Busy(t)' => pc'[t] = "end" /\ handle' # "freed"
        /\ \A t, u \in Workers : Busy(t)' /\ Busy(u)' => t = u
    BY <1>1, <2>2, <2>6 DEF Quiet, Busy
  <2> QED BY <1>1, <2>2, <2>6, <2>7 DEF Quiet
<1> QED BY <1>3, <1>4 DEF QuietInv, Quiet

LEMMA QuietWork ==
    ASSUME TypeInv, QuietInv, NEW t \in Workers, Work(t), [Next]_vars
    PROVE  QuietInv'
<1>1. CASE GetQueuedCompletionStatus(t)
  <2>1. /\ port # << >> /\ pc[t] = "idle" /\ port[1] \in Packets
        /\ port' = Tail(port) /\ Len(port) \in Nat \ {0}
        /\ port' \in Seq(Packets) /\ DOMAIN port' = 1..(Len(port) - 1)
        /\ pc'[t] = PlaceFor(port[1]) /\ (\A u \in Workers \ {t} : pc'[u] = pc[u])
        /\ (pc'[t] = "end" => ends' = ends + 1)
    BY <1>1, Takes
  <2>2. /\ UNCHANGED <<recv, outs, listen, handle>>
        /\ ends' = IF IsEnd(Head(port)) THEN ends + 1 ELSE ends
    BY <1>1 DEF GetQueuedCompletionStatus
  <2>3. Head(port) = port[1] /\ port \in Seq(Packets)
    BY <2>1, TailSeq DEF TypeInv
  <2>4. PlaceFor(port[1]) = "end" <=> IsEnd(port[1])
    BY <2>1, Places
  <2>5. ends \in Nat
    BY DEF TypeInv
  <2>6. (ends = 0 => handle # "freed" /\ \A u \in Workers : pc[u] # "end")'
    <3> SUFFICES ASSUME ends' = 0 PROVE handle' # "freed" /\ \A u \in Workers : pc'[u] # "end"
      OBVIOUS
    <3>1. pc'[t] # "end" /\ ends = 0
      BY <2>1, <2>2, <2>5
    <3> QED BY <3>1, <2>1, <2>2 DEF QuietInv
  <2>7. ASSUME ~ busyEnd', (ends > 0)' PROVE Quiet'
    <3>1. ~ busyEnd
      BY <2>7, BusyKept
    <3>2. ends = 0
      BY <2>1, <2>5, <3>1 DEF QuietInv
    <3>3. IsEnd(port[1]) /\ ends' = 1 /\ pc'[t] = "end"
      BY <2>1, <2>2, <2>3, <2>4, <2>7, <3>2
    <3>4. ~ recv /\ outs = << >> /\ ~ (Len(port) > 1) /\ listen = "on" /\ \A u \in Workers : ~ Busy(u)
      <4>1. ~ (/\ IsEnd(Head(port))
               /\ recv \/ outs # << >> \/ Len(port) > 1 \/ listen # "on" \/ \E u \in Workers : Busy(u))
        BY <1>1, <2>7, Zenon DEF GetQueuedCompletionStatus
      <4> QED BY <4>1, <2>3, <3>3
    <3>5. port' = << >>
      <4>1. Len(port) = 1
        <5>1. ~ (Len(port) > 1) /\ Len(port) \in Nat \ {0}
          BY <2>1, <3>4, Zenon
        <5>2. \A n \in Nat \ {0} : ~ (n > 1) => n = 1
          OBVIOUS
        <5> QED BY <5>1, <5>2, Zenon
      <4>2. DOMAIN port' = 1..0
        BY <2>1, <4>1
      <4>3. Len(port') \in Nat /\ DOMAIN port' = 1..Len(port')
        BY <2>1, SeqElements
      <4>4. Len(port') = 0
        BY <4>2, <4>3
      <4> QED BY <2>1, <4>4, EmptySeq
    <3>6. \A u \in Workers : u # t => ~ Busy(u)'
      BY <2>1, <3>4 DEF Busy
    <3>7. handle' # "freed"
      BY <2>2, <3>2 DEF QuietInv
    <3> QED BY <2>2, <3>3, <3>4, <3>5, <3>6, <3>7 DEF Quiet, Busy
  <2> QED BY <2>6, <2>7 DEF QuietInv, Quiet
<1>2. CASE OnDisconnect(t)
  <2>1. /\ pc[t] = "end" /\ Free(t) /\ UNCHANGED <<listen, recv, outs, port, ends>>
    BY <1>2 DEF OnDisconnect, ghosts
  <2>2. ends # 0 /\ Busy(t)
    BY <2>1 DEF QuietInv, Busy
  <2>3. pc'[t] = "idle" /\ \A u \in Workers \ {t} : pc'[u] = pc[u]
    BY <2>1 DEF Free, TypeInv
  <2>4. ASSUME ~ busyEnd', (ends > 0)' PROVE Quiet'
    <3>1. Quiet
      BY <2>1, <2>4, BusyKept DEF QuietInv, Quiet
    <3>2. \A u \in Workers : ~ Busy(u)'
      BY <2>2, <2>3, <3>1 DEF Quiet, Busy
    <3> QED BY <2>1, <3>1, <3>2 DEF Quiet
  <2> QED BY <2>1, <2>2, <2>4 DEF QuietInv, Quiet
<1>3. CASE \/ TestEmpty(t) \/ Front(t) \/ Pop(t)
           \/ SendNext(t) \/ MarkNext(t) \/ SendRest(t) \/ OnRecv(t) \/ WSARecv(t)
  <2>1. /\ pc[t] \in {"pop", "front", "take", "send", "mark", "rest", "recv", "rearm"}
        /\ UNCHANGED <<handle, ends>>
        /\ \E place \in {"idle", "dead", "lost", "pop", "front", "take", "send", "mark", "rearm"} :
              pc' = [pc EXCEPT ![t] = place]
    BY <1>3 DEF TestEmpty, Front, Pop, AfterPop, SendNext, MarkNext, SendRest, OnRecv, WSARecv,
       KeepHandle, Noted, ghosts, Free, Dies, Goto
  <2>2. (ends = 0 => handle # "freed" /\ \A u \in Workers : pc[u] # "end")'
    <3>1. pc \in [Workers -> WorkerPlaces]
      BY DEF TypeInv
    <3>2. \A u \in Workers : pc'[u] = "end" => pc[u] = "end"
      BY <2>1, <3>1
    <3> QED BY <2>1, <3>2 DEF QuietInv
  <2>3. busyEnd \/ ~ (ends > 0)
    BY <2>1 DEF QuietInv, Busy
  <2>4. busyEnd' \/ ~ (ends > 0)'
    BY <2>1, <2>3, BusyKept
  <2> QED BY <2>2, <2>4 DEF QuietInv
<1> QED BY <1>1, <1>2, <1>3 DEF Work

LEMMA QuietWrite ==
    ASSUME TypeInv, QuietInv, NEW w \in Writers, Write(w) \/ WriteSteps(w), [Next]_vars
    PROVE  QuietInv'
<1>1. UNCHANGED <<listen, recv, ends, handle, pc>>
  BY DEF Write, WriteSteps, TestQueue, PushWrite, SendWrite, MarkWrite, Push, Noted, ghosts, workVars,
     kernelVars
<1>2. ASSUME ~ busyEnd', (ends > 0)' PROVE UNCHANGED <<outs, port>>
  <2>1. ~ SendWrite(w) => UNCHANGED <<outs, port>>
    BY DEF Write, WriteSteps, TestQueue, PushWrite, MarkWrite, kernelVars
  <2>2. ASSUME SendWrite(w) PROVE Broken
    BY <1>1, <1>2, <2>2, Zenon DEF SendWrite, Noted
  <2>3. SendWrite(w) => UNCHANGED <<outs, port>>
    BY <2>2 DEF SendWrite, AtOnce, Pending, SendFails
  <2> QED BY <2>1, <2>3
<1>3. ASSUME ~ busyEnd', (ends > 0)' PROVE Quiet'
  <2>1. Quiet
    BY <1>1, <1>3, BusyKept DEF QuietInv, Quiet
  <2> QED BY <1>1, <1>2, <1>3, <2>1 DEF Quiet, Busy
<1> QED BY <1>1, <1>3 DEF QuietInv, Quiet

LEMMA QuietStep == TypeInv /\ QuietInv /\ [Next]_vars => QuietInv'
<1> SUFFICES ASSUME TypeInv, QuietInv, [Next]_vars PROVE QuietInv'
  OBVIOUS
<1>1. CASE UNCHANGED vars
  BY <1>1, Zenon DEF vars, kernelVars, workVars, ghosts, QuietInv, Busy
<1>2. CASE PeerSends \/ PeerCloses \/ Kernel \/ WSAAccept \/ Accept \/ ListenEnds \/ Disconnect
  BY <1>2, QuietOutside
<1>3. CASE \E t \in Workers : Work(t)
  BY <1>3, QuietWork
<1>4. CASE \E w \in Writers : Write(w) \/ WriteSteps(w)
  BY <1>4, QuietWrite
<1> QED BY <1>1, <1>2, <1>3, <1>4 DEF Next

-----------------------------------------------------------------------------
(* The claims on a message. *)

LEMMA ClaimTypes ==
    ASSUME TypeInv
    PROVE  /\ Writing \subseteq Msgs /\ Queued \subseteq Msgs /\ Taken \subseteq Msgs
           /\ Given \subseteq Msgs /\ Back \subseteq Msgs /\ Resting \subseteq Msgs
           /\ \A c \in Lefts : c \in Pieces /\ c[1] \in Given \cup Back \cup Resting /\ c[2] \in Nat
           /\ \A i \in DOMAIN wire : /\ wire[i][1] \in Msgs /\ wire[i][2] \in Nat /\ wire[i][3] \in Nat
                                     /\ wire[i][3] < wire[i][2] /\ i \in Nat \ {0}
           /\ DOMAIN outs = 1..Len(outs) /\ Len(outs) \in Nat
<1>1. Writing \subseteq Msgs
  BY Message DEF Writing, Holders
<1>2. Queued \subseteq Msgs
  <2>1. \A i \in DOMAIN send_queue : send_queue[i] \in Msgs \cup {nullptr}
    BY SeqElements DEF TypeInv
  <2> QED BY <2>1 DEF Queued
<1>3. Taken \subseteq Msgs
  BY DEF Taken, TypeInv
<1>4. \A i \in DOMAIN outs : outs[i] \in Pieces
  BY SeqElements DEF TypeInv
<1>5. \A c \in Pieces : c[1] \in Msgs /\ c[2] \in Nat
  BY DEF Pieces
<1>6. Given \subseteq Msgs
  BY <1>4, <1>5 DEF Given
<1>7. ASSUME NEW i \in Parts
      PROVE  Piece(port[i]) \in Pieces /\ Piece(port[i])[1] = port[i].m /\ port[i].m \in Msgs
  <2>1. Piece(port[i]) \in Pieces /\ Piece(port[i])[1] = port[i].m
    BY DEF TypeInv, Piece
  <2> QED BY <2>1, <1>5
<1>8. ASSUME NEW t \in Rests
      PROVE  Piece(cur[t]) \in Pieces /\ Piece(cur[t])[1] = cur[t].m /\ cur[t].m \in Msgs
  <2>1. Piece(cur[t]) \in Pieces /\ Piece(cur[t])[1] = cur[t].m
    BY DEF TypeInv, Piece
  <2> QED BY <2>1, <1>5
<1>9. Back \subseteq Msgs /\ Resting \subseteq Msgs
  BY <1>7, <1>8 DEF Back, Resting
<1>10. \A c \in Lefts : c \in Pieces /\ c[1] \in Given \cup Back \cup Resting
  <2>1. \A c \in {outs[i] : i \in DOMAIN outs} : c \in Pieces /\ c[1] \in Given
    BY <1>4 DEF Given
  <2>2. \A c \in PartPieces : c \in Pieces /\ c[1] \in Back
    BY <1>7 DEF Back, PartPieces
  <2>3. \A c \in RestPieces : c \in Pieces /\ c[1] \in Resting
    BY <1>8 DEF Resting, RestPieces
  <2> QED BY <2>1, <2>2, <2>3 DEF Lefts
<1>11. ASSUME NEW i \in DOMAIN wire
       PROVE  /\ wire[i][1] \in Msgs /\ wire[i][2] \in Nat /\ wire[i][3] \in Nat
              /\ wire[i][3] < wire[i][2] /\ i \in Nat \ {0}
  <2>1. wire[i] \in Transfers /\ i \in Nat \ {0}
    BY SeqElements DEF TypeInv
  <2> QED BY <2>1 DEF Transfers
<1>12. DOMAIN outs = 1..Len(outs) /\ Len(outs) \in Nat
  BY SeqElements DEF TypeInv
<1> QED BY <1>1, <1>2, <1>3, <1>5, <1>6, <1>9, <1>10, <1>11, <1>12

LEMMA PartsSame ==
    ASSUME Parts' = Parts, \A i \in Parts : port'[i] = port[i]
    PROVE  Back' = Back /\ PartPieces' = PartPieces
BY DEF Back, PartPieces

\* A step that gives up claims.
LEMMA Fewer ==
    ASSUME ClaimInv, Single', wire' = wire, written' = written,
           Writing' \subseteq Writing, Queued' \subseteq Queued, Taken' \subseteq Taken,
           Given' \subseteq Given, Back' \subseteq Back, Resting' \subseteq Resting,
           Lefts' \subseteq Lefts
    PROVE  ClaimInv'
<1>1. Apart'
  BY DEF ClaimInv, Apart
<1>2. Begun' = Begun
  BY DEF Begun
<1>3. Fresh'
  BY <1>2 DEF ClaimInv, Fresh
<1>4. Unsent'
  BY DEF ClaimInv, Unsent
<1>5. InTurn'
  BY DEF ClaimInv, InTurn
<1> QED BY <1>1, <1>3, <1>4, <1>5 DEF ClaimInv

\* A message that a thread held is submitted.
LEMMA ClaimSubmits ==
    ASSUME TypeInv, ClaimInv, NEW m, NEW n, <<m, n>> \in Pieces, Submits(m, n),
           written' = written, send_queue' = send_queue,
           Writing' \subseteq Writing, Taken' \subseteq Taken, Resting' \subseteq Resting,
           RestPieces' \subseteq RestPieces,
           \A c \in RestPieces' : c[1] \in Resting',
           m \in Writing \cup Taken \cup Resting, m \notin Writing' \cup Taken' \cup Resting',
           \A t, u \in Senders' : next'[t] = next'[u] => t = u,
           \A t, u \in Rests' : cur'[t].m = cur'[u].m => t = u,
           \A i \in DOMAIN wire : wire[i][1] = m => n <= wire[i][3],
           m \in Begun
    PROVE  ClaimInv'
<1>1. /\ Parts' = Parts /\ \A i \in Parts : port'[i] = port[i]
      /\ \/ wire' = Append(wire, <<m, n, 0>>) /\ outs' = outs /\ outs = << >>
         \/ wire' = wire /\ outs' = Append(outs, <<m, n>>)
         \/ wire' = wire /\ outs' = outs
      /\ <<m, n, 0>> \in Transfers
  BY Submission
<1>2. Back' = Back /\ PartPieces' = PartPieces
  BY <1>1, PartsSame
<1>3. Queued' = Queued /\ Begun' = Begun
  BY DEF Queued, Begun
<1>4. m \notin Queued /\ m \notin Given /\ m \notin Back /\ m \in Msgs /\ n \in Nat
  BY DEF ClaimInv, Apart, Pieces
<1>5. \A i, j \in Parts' : port'[i].m = port'[j].m => i = j
  BY <1>1 DEF ClaimInv, Single
<1>6. \A i, j \in DOMAIN send_queue' : send_queue'[i] # nullptr /\ send_queue'[i] = send_queue'[j] => i = j
  BY DEF ClaimInv, Single
<1>7. ASSUME outs' = outs PROVE Single' /\ Given' = Given
  BY <1>5, <1>6, <1>7 DEF ClaimInv, Single, Given
<1>8. CASE wire' = wire /\ outs' = outs
  <2>1. Lefts' \subseteq Lefts
    BY <1>2, <1>8 DEF Lefts
  <2> QED BY <1>2, <1>3, <1>7, <1>8, <2>1, Fewer
<1>9. CASE wire' = wire /\ outs' = Append(outs, <<m, n>>)
  <2>1. outs \in Seq(Pieces) /\ <<m, n>> \in Pieces
    BY DEF TypeInv
  <2>2. /\ Len(outs) \in Nat /\ DOMAIN outs' = 1..(Len(outs) + 1)
        /\ \A i \in DOMAIN outs : outs'[i] = outs[i]
        /\ \A i \in DOMAIN outs' : i \in DOMAIN outs \/ i = Len(outs) + 1
        /\ outs'[Len(outs) + 1] = <<m, n>>
    BY <1>9, <2>1, AppendSeq
  <2>3. outs'[Len(outs) + 1][1] = m
    BY <2>2
  <2>4. \A i \in DOMAIN outs : outs'[i][1] = outs[i][1] /\ outs[i][1] # m
    BY <1>4, <2>2 DEF Given
  <2>5. Given' \subseteq Given \cup {m}
    BY <2>2, <2>3, <2>4 DEF Given
  <2>6. \A i, j \in DOMAIN outs' : outs'[i][1] = outs'[j][1] => i = j
    BY <2>2, <2>3, <2>4 DEF ClaimInv, Single
  <2>7. Lefts' \subseteq Lefts \cup {<<m, n>>}
    BY <1>2, <2>2 DEF Lefts
  <2>8. Single'
    BY <1>5, <1>6, <2>6 DEF Single
  <2>9. Apart'
    BY <1>2, <1>3, <1>4, <2>5 DEF ClaimInv, Apart
  <2>10. Fresh'
    BY <1>2, <1>3, <1>9, <2>5 DEF ClaimInv, Fresh
  <2>11. Unsent'
    BY <1>2, <1>3, <1>9, <2>7 DEF ClaimInv, Unsent
  <2>12. InTurn'
    BY <1>9 DEF ClaimInv, InTurn
  <2> QED BY <2>8, <2>9, <2>10, <2>11, <2>12 DEF ClaimInv
<1>10. CASE wire' = Append(wire, <<m, n, 0>>) /\ outs' = outs
  <2>1. wire \in Seq(Transfers) /\ <<m, n, 0>> \in Transfers
    BY <1>1 DEF TypeInv
  <2>2. /\ Len(wire) \in Nat /\ DOMAIN wire' = 1..(Len(wire) + 1)
        /\ \A i \in DOMAIN wire : wire'[i] = wire[i] /\ i \in Nat /\ i < Len(wire) + 1
        /\ \A i \in DOMAIN wire' : i \in DOMAIN wire \/ i = Len(wire) + 1
        /\ wire'[Len(wire) + 1] = <<m, n, 0>>
    BY <1>10, <2>1, AppendSeq
  <2>3. wire'[Len(wire) + 1][1] = m /\ wire'[Len(wire) + 1][2] = n
    BY <2>2
  <2>4. Given' = Given /\ Single'
    BY <1>7, <1>10
  <2>5. Apart'
    BY <1>2, <1>3, <2>4 DEF ClaimInv, Apart
  <2>6. \A i \in DOMAIN wire' : wire'[i][1] \in Begun
    BY <2>2, <2>3 DEF ClaimInv, Fresh
  <2>7. Fresh'
    BY <1>2, <1>3, <2>4, <2>6 DEF ClaimInv, Fresh
  <2>8. Lefts' \subseteq Lefts /\ \A c \in Lefts' : c[1] # m
    <3>1. Lefts' \subseteq Lefts
      BY <1>2, <1>10 DEF Lefts
    <3>2. \A c \in {outs[i] : i \in DOMAIN outs} : c[1] # m
      BY <1>4 DEF Given
    <3>3. \A c \in PartPieces : c[1] # m
      BY <1>4 DEF PartPieces, Back, Piece
    <3> QED BY <1>2, <1>10, <3>1, <3>2, <3>3 DEF Lefts
  <2>9. \A i \in DOMAIN wire' : wire'[i][1] \notin Writing' \cup Queued' \cup Taken'
    BY <1>3, <1>4, <2>2, <2>3 DEF ClaimInv, Unsent
  <2>10. \A i \in DOMAIN wire' : \A c \in Lefts' : wire'[i][1] = c[1] => c[2] <= wire'[i][3]
    BY <2>2, <2>3, <2>8 DEF ClaimInv, Unsent
  <2>11. Unsent'
    BY <2>9, <2>10 DEF Unsent
  <2>12. InTurn'
    <3> SUFFICES ASSUME NEW i \in DOMAIN wire', NEW j \in DOMAIN wire', i < j, wire'[i][1] = wire'[j][1]
                 PROVE  wire'[j][2] <= wire'[i][3]
      BY DEF InTurn
    <3>1. i \in DOMAIN wire
      BY <2>2
    <3>2. CASE j \in DOMAIN wire
      BY <2>2, <3>1, <3>2 DEF ClaimInv, InTurn
    <3>3. CASE j = Len(wire) + 1
      BY <2>2, <2>3, <3>1, <3>3
    <3> QED BY <2>2, <3>2, <3>3
  <2> QED BY <2>4, <2>5, <2>7, <2>11, <2>12 DEF ClaimInv
<1> QED BY <1>1, <1>8, <1>9, <1>10

LEMMA ClaimOutside ==
    ASSUME TypeInv, ClaimInv, Outside
    PROVE  ClaimInv'
<1>1. /\ UNCHANGED <<outs, wire, send_queue, pc, cur, next, wpc, written>>
      /\ \A i \in Parts' : i \in Parts /\ port'[i] = port[i]
  BY OutsideStep
<1>2. /\ Rests' = Rests /\ Senders' = Senders /\ Holders' = Holders
  BY <1>1 DEF Rests, Senders, Holders
<1>3. Back' \subseteq Back /\ PartPieces' \subseteq PartPieces
  BY <1>1 DEF Back, PartPieces
<1>4. Writing' = Writing /\ Queued' = Queued /\ Taken' = Taken /\ Given' = Given /\ Resting' = Resting
  BY <1>1, <1>2 DEF Writing, Queued, Taken, Given, Resting, msg
<1>5. Lefts' \subseteq Lefts
  <2>1. RestPieces' = RestPieces
    BY <1>1, <1>2 DEF RestPieces
  <2> QED BY <1>1, <1>3, <2>1 DEF Lefts
<1>6. Single'
  BY <1>1, <1>2 DEF ClaimInv, Single
<1> QED BY <1>1, <1>3, <1>4, <1>5, <1>6, Fewer

LEMMA ClaimCompletes ==
    ASSUME TypeInv, ClaimInv, SendCompletes
    PROVE  ClaimInv'
<1>1. UNCHANGED <<send_queue, pc, cur, next, wpc, written>>
  BY DEF SendCompletes, workVars, writeVars
<1>2. PICK l \in Nat, n \in Nat :
      /\ outs # << >> /\ outs' = Tail(outs) /\ outs[1] = <<outs[1][1], l>>
      /\ outs[1][1] \in Msgs /\ n <= l /\ l - n \in Nat
      /\ \/ n = 0 /\ wire' = wire /\ Parts' = Parts
         \/ 0 < n /\ wire' = Append(wire, <<outs[1][1], l, l - n>>)
      /\ <<outs[1][1], l, l - n>> \in Transfers \/ n = 0
      /\ \A i \in Parts : i \in Parts' /\ port'[i] = port[i]
      /\ \A i \in Parts' : i \in Parts \/
            (/\ i = Len(port) + 1 /\ Piece(port'[i]) = <<outs[1][1], l - n>>
             /\ port'[i].m = outs[1][1])
      /\ Len(port) + 1 \notin Parts
  BY Completion
<1> DEFINE m == outs[1][1]
           r == l - n
<1>3. /\ Rests' = Rests /\ Senders' = Senders /\ Holders' = Holders
      /\ Writing' = Writing /\ Queued' = Queued /\ Taken' = Taken /\ Resting' = Resting
      /\ RestPieces' = RestPieces /\ Begun' = Begun
  <2>1. Rests' = Rests /\ Senders' = Senders /\ Holders' = Holders /\ Begun' = Begun
    BY <1>1 DEF Rests, Senders, Holders, Begun
  <2> QED BY <1>1, <2>1 DEF Writing, Queued, Taken, Resting, RestPieces, msg
<1>4. outs \in Seq(Pieces) /\ wire \in Seq(Transfers)
  BY DEF TypeInv
<1>5. /\ 1 \in DOMAIN outs
      /\ \A i \in DOMAIN outs' : i \in Nat /\ i + 1 \in DOMAIN outs /\ i + 1 # 1 /\ outs'[i] = outs[i + 1]
  BY <1>2, <1>4, TailSeq
<1>6. \A i \in DOMAIN outs' : outs'[i][1] = outs[i + 1][1] /\ outs[i + 1][1] # m
  BY <1>5 DEF ClaimInv, Single
<1>7. Given' \subseteq Given \ {m} /\ m \in Given
  BY <1>5, <1>6 DEF Given
<1>8. m \notin Writing \cup Queued \cup Taken \cup Back \cup Resting
  BY <1>7 DEF ClaimInv, Apart
<1>9. outs[1] \in Lefts /\ outs[1][2] = l
  <2>1. outs[1] = <<m, l>>
    BY <1>2
  <2> QED BY <1>5, <2>1 DEF Lefts
<1>10. \A i \in DOMAIN wire : wire[i][1] = m => l <= wire[i][3]
  BY <1>9 DEF ClaimInv, Unsent
<1>11. Back' \subseteq Back \cup {m} /\ PartPieces' \subseteq PartPieces \cup {<<m, r>>}
  BY <1>2 DEF Back, PartPieces
<1>12. Lefts' \subseteq Lefts \cup {<<m, r>>}
  BY <1>3, <1>5, <1>11 DEF Lefts
<1>13. \A c \in Lefts' : c[1] = m => c = <<m, r>>
  <2>1. \A c \in {outs'[i] : i \in DOMAIN outs'} : c[1] # m
    BY <1>6
  <2>2. \A c \in RestPieces : c[1] # m
    BY <1>8 DEF RestPieces, Resting, Piece
  <2>3. \A c \in PartPieces : c[1] # m
    BY <1>8 DEF PartPieces, Back, Piece
  <2> QED BY <2>1, <2>2, <2>3, <1>3, <1>11 DEF Lefts
<1>14. Apart'
  BY <1>3, <1>7, <1>8, <1>11 DEF ClaimInv, Apart
<1>15. Single'
  <2>1. \A i, j \in DOMAIN outs' : outs'[i][1] = outs'[j][1] => i = j
    <3> SUFFICES ASSUME NEW i \in DOMAIN outs', NEW j \in DOMAIN outs', outs'[i][1] = outs'[j][1]
                 PROVE  i = j
      OBVIOUS
    <3>1. i + 1 = j + 1
      BY <1>5, <1>6 DEF ClaimInv, Single
    <3> QED BY <1>5, <3>1
  <2>2. \A i \in Parts : port[i].m # m
    BY <1>8 DEF Back
  <2>3. \A i, j \in Parts' : port'[i].m = port'[j].m => i = j
    BY <1>2, <2>2 DEF ClaimInv, Single
  <2> QED BY <1>1, <1>3, <2>1, <2>3 DEF ClaimInv, Single
<1>16. m \in Begun
  BY <1>7 DEF ClaimInv, Fresh
<1>17. r \in Nat /\ r <= l
  BY <1>2
<1> HIDE DEF m, r
<1>18. CASE wire' = wire
  <2>1. Fresh'
    BY <1>3, <1>7, <1>11, <1>16, <1>18 DEF ClaimInv, Fresh
  <2>2. \A i \in DOMAIN wire : \A c \in Lefts' : wire[i][1] = c[1] => c[2] <= wire[i][3]
    <3> SUFFICES ASSUME NEW i \in DOMAIN wire, NEW c \in Lefts', wire[i][1] = c[1]
                 PROVE  c[2] <= wire[i][3]
      OBVIOUS
    <3>1. CASE c[1] # m
      BY <1>12, <3>1 DEF ClaimInv, Unsent
    <3>2. CASE c[1] = m
      <4>1. c[2] = r /\ wire[i][3] \in Nat /\ l <= wire[i][3]
        BY <1>10, <1>13, <3>2, ClaimTypes
      <4> QED BY <1>17, <4>1
    <3> QED BY <3>1, <3>2
  <2>3. Unsent'
    BY <1>3, <1>18, <2>2 DEF ClaimInv, Unsent
  <2>4. InTurn'
    BY <1>18 DEF ClaimInv, InTurn
  <2> QED BY <1>14, <1>15, <2>1, <2>3, <2>4 DEF ClaimInv
<1>19. CASE wire' = Append(wire, <<m, l, r>>) /\ <<m, l, r>> \in Transfers
  <2>1. /\ Len(wire) \in Nat /\ DOMAIN wire' = 1..(Len(wire) + 1)
        /\ \A i \in DOMAIN wire : wire'[i] = wire[i] /\ i \in Nat /\ i < Len(wire) + 1
        /\ \A i \in DOMAIN wire' : i \in DOMAIN wire \/ i = Len(wire) + 1
        /\ wire'[Len(wire) + 1] = <<m, l, r>>
    BY <1>4, <1>19, AppendSeq
  <2>2. wire'[Len(wire) + 1][1] = m /\ wire'[Len(wire) + 1][2] = l /\ wire'[Len(wire) + 1][3] = r
    BY <2>1
  <2>3. \A i \in DOMAIN wire' : wire'[i][1] \in Begun
    BY <1>16, <2>1, <2>2 DEF ClaimInv, Fresh
  <2>4. Fresh'
    BY <1>3, <1>7, <1>11, <1>16, <2>3 DEF ClaimInv, Fresh
  <2>5. ASSUME NEW i \in DOMAIN wire', NEW c \in Lefts', wire'[i][1] = c[1]
        PROVE  c[2] <= wire'[i][3]
    <3>1. CASE c[1] # m
      <4>1. i \in DOMAIN wire /\ wire'[i] = wire[i] /\ c \in Lefts
        BY <1>12, <2>1, <2>2, <2>5, <3>1
      <4> QED BY <2>5, <4>1 DEF ClaimInv, Unsent
    <3>2. CASE c[1] = m
      <4>1. c[2] = r
        BY <1>13, <3>2
      <4>2. CASE i = Len(wire) + 1
        BY <1>17, <2>2, <4>1, <4>2
      <4>3. CASE i \in DOMAIN wire
        <5>1. wire'[i] = wire[i] /\ l <= wire[i][3] /\ wire[i][3] \in Nat
          BY <1>10, <2>1, <2>5, <3>2, <4>3, ClaimTypes
        <5> QED BY <1>17, <4>1, <5>1
      <4> QED BY <2>1, <4>2, <4>3
    <3> QED BY <3>1, <3>2
  <2>6. \A i \in DOMAIN wire' : wire'[i][1] \notin Writing' \cup Queued' \cup Taken'
    BY <1>3, <1>8, <2>1, <2>2 DEF ClaimInv, Unsent
  <2>7. Unsent'
    BY <2>5, <2>6 DEF Unsent
  <2>8. InTurn'
    <3> SUFFICES ASSUME NEW i \in DOMAIN wire', NEW j \in DOMAIN wire', i < j, wire'[i][1] = wire'[j][1]
                 PROVE  wire'[j][2] <= wire'[i][3]
      BY DEF InTurn
    <3>1. i \in DOMAIN wire
      BY <2>1
    <3>2. CASE j \in DOMAIN wire
      BY <2>1, <3>1, <3>2 DEF ClaimInv, InTurn
    <3>3. CASE j = Len(wire) + 1
      BY <1>10, <2>1, <2>2, <3>1, <3>3
    <3> QED BY <2>1, <3>2, <3>3
  <2> QED BY <1>14, <1>15, <2>4, <2>7, <2>8 DEF ClaimInv
<1>20. wire' = wire \/ (wire' = Append(wire, <<m, l, r>>) /\ <<m, l, r>> \in Transfers)
  BY <1>2 DEF m, r
<1> QED BY <1>18, <1>19, <1>20

LEMMA ClaimTakes ==
    ASSUME TypeInv, ClaimInv, NEW t \in Workers, GetQueuedCompletionStatus(t)
    PROVE  ClaimInv'
<1>1. UNCHANGED <<outs, wire, send_queue, next, wpc, written>>
  BY DEF GetQueuedCompletionStatus, writeVars
<1>2. /\ \A i \in Parts' : i + 1 \in Parts /\ i \in Nat \ {0} /\ port'[i] = port[i + 1]
      /\ Senders' = Senders
      /\ \A u \in Rests' : \/ u \in Rests /\ u # t /\ cur'[u] = cur[u]
                           \/ u = t /\ 1 \in Parts /\ cur'[u] = port[1]
  BY Takes
<1>3. Writing' = Writing /\ Queued' = Queued /\ Taken' = Taken /\ Given' = Given /\ Begun' = Begun
  <2>1. Holders' = Holders
    BY <1>1 DEF Holders
  <2> QED BY <1>1, <1>2, <2>1 DEF Writing, Queued, Taken, Given, Begun, msg
<1>4. \A i \in Parts' : i + 1 # 1
  BY <1>2
<1>5. Back' \subseteq Back /\ PartPieces' \subseteq PartPieces
  BY <1>2 DEF Back, PartPieces
<1>6. Resting' \subseteq Resting \cup Back /\ RestPieces' \subseteq RestPieces \cup PartPieces
  BY <1>2 DEF Resting, Back, RestPieces, PartPieces
<1>7. Lefts' \subseteq Lefts
  BY <1>1, <1>5, <1>6 DEF Lefts
<1>8. ASSUME NEW m \in Resting', m \notin Resting PROVE m \notin Back'
  <2>1. 1 \in Parts /\ m = port[1].m
    BY <1>2, <1>8 DEF Resting
  <2>2. \A i \in Parts' : port'[i].m # m
    BY <1>2, <1>4, <2>1 DEF ClaimInv, Single
  <2> QED BY <2>2 DEF Back
<1>9. Apart'
  <2>1. Back' \cap Resting' = {}
    BY <1>5, <1>8 DEF ClaimInv, Apart
  <2> QED BY <1>3, <1>5, <1>6, <2>1 DEF ClaimInv, Apart
<1>10. Single'
  <2>1. \A i, j \in Parts' : port'[i].m = port'[j].m => i = j
    <3> SUFFICES ASSUME NEW i \in Parts', NEW j \in Parts', port'[i].m = port'[j].m PROVE i = j
      OBVIOUS
    <3>1. i + 1 = j + 1
      BY <1>2 DEF ClaimInv, Single
    <3> QED BY <1>2, <3>1
  <2>2. 1 \in Parts => \A u \in Rests : cur[u].m # port[1].m
    BY DEF ClaimInv, Apart, Back, Resting
  <2>3. \A u, v \in Rests' : cur'[u].m = cur'[v].m => u = v
    BY <1>2, <2>2 DEF ClaimInv, Single
  <2> QED BY <1>1, <1>2, <2>1, <2>3 DEF ClaimInv, Single
<1>11. Fresh'
  BY <1>1, <1>3, <1>5, <1>6 DEF ClaimInv, Fresh
<1>12. Unsent'
  BY <1>1, <1>3, <1>7 DEF ClaimInv, Unsent
<1>13. InTurn'
  BY <1>1 DEF ClaimInv, InTurn
<1> QED BY <1>9, <1>10, <1>11, <1>12, <1>13 DEF ClaimInv

\* A worker looks at the queue: no claim changes.
LEMMA ClaimLooks ==
    ASSUME TypeInv, ClaimInv, NEW t \in Workers, TestEmpty(t) \/ Front(t)
    PROVE  ClaimInv'
<1>1. UNCHANGED <<outs, port, wire, wpc, written>>
  BY DEF TestEmpty, Front, writeVars, kernelVars
<1>2. /\ send_queue' = send_queue /\ Rests' = Rests /\ Senders' = Senders
      /\ \A u \in Rests : cur'[u] = cur[u]
      /\ \A u \in Senders : next'[u] = next[u]
  BY Looks
<1>3. Holders' = Holders /\ Parts' = Parts
  BY <1>1 DEF Holders, Parts
<1>4. /\ Writing' = Writing /\ Queued' = Queued /\ Taken' = Taken /\ Given' = Given
      /\ Back' = Back /\ Resting' = Resting /\ PartPieces' = PartPieces /\ RestPieces' = RestPieces
  BY <1>1, <1>2, <1>3
     DEF Writing, Queued, Taken, Given, Back, Resting, PartPieces, RestPieces, msg
<1>5. Lefts' = Lefts
  BY <1>1, <1>4 DEF Lefts
<1>6. Single'
  BY <1>1, <1>2, <1>3 DEF ClaimInv, Single
<1> QED BY <1>1, <1>4, <1>5, <1>6, Fewer

LEMMA ClaimPops ==
    ASSUME TypeInv, HeadInv, ClaimInv, NEW t \in Workers, Pop(t)
    PROVE  ClaimInv'
<1>1. UNCHANGED <<outs, port, wire, wpc, written>> /\ pc[t] = "take"
  BY DEF Pop, writeVars, kernelVars
<1>2. /\ Parts' = Parts /\ Back' = Back /\ PartPieces' = PartPieces /\ Writing' = Writing
      /\ Given' = Given /\ Begun' = Begun
  <2>1. Holders' = Holders /\ Parts' = Parts
    BY <1>1 DEF Holders, Parts
  <2> QED BY <1>1, <2>1 DEF Back, PartPieces, Writing, Given, Begun, msg
<1> DEFINE m == send_queue[1]
<1>3. send_queue # << >> /\ next[t] = m
  BY <1>1 DEF HeadInv
<1>4. /\ cur' = cur /\ next' = next /\ 1 \in DOMAIN send_queue /\ Rests' = Rests /\ t \notin Senders
      /\ \A j \in DOMAIN send_queue' :
            /\ j \in Nat \ {0} /\ 1 + j \in DOMAIN send_queue /\ 1 + j # 1
            /\ send_queue'[j] = send_queue[1 + j]
      /\ m = nullptr => Senders' = Senders
      /\ m # nullptr => Senders' = Senders \cup {t}
  BY <1>3, Pops
<1>5. Resting' = Resting /\ RestPieces' = RestPieces
  BY <1>4 DEF Resting, RestPieces
<1>6. Lefts' = Lefts
  BY <1>1, <1>2, <1>5 DEF Lefts
<1>7. \A j, k \in DOMAIN send_queue' :
         send_queue'[j] # nullptr /\ send_queue'[j] = send_queue'[k] => j = k
  <2> SUFFICES ASSUME NEW j \in DOMAIN send_queue', NEW k \in DOMAIN send_queue',
                      send_queue'[j] # nullptr, send_queue'[j] = send_queue'[k]
               PROVE  j = k
    OBVIOUS
  <2>1. 1 + j = 1 + k
    BY <1>4 DEF ClaimInv, Single
  <2> QED BY <1>4, <2>1
<1>8. CASE m = nullptr
  <2>1. Taken' = Taken
    BY <1>4, <1>8 DEF Taken
  <2>2. Queued' \subseteq Queued
    BY <1>4 DEF Queued
  <2>3. Single'
    BY <1>1, <1>2, <1>4, <1>7, <1>8 DEF ClaimInv, Single
  <2> QED BY <1>1, <1>2, <1>5, <1>6, <2>1, <2>2, <2>3, Fewer
<1>9. CASE m # nullptr
  <2>1. Senders' = Senders \cup {t}
    BY <1>4, <1>9
  <2>2. m \in Queued
    BY <1>4, <1>9 DEF Queued
  <2>3. \A j \in DOMAIN send_queue' : send_queue'[j] # m
    BY <1>4, <1>9 DEF ClaimInv, Single
  <2>4. Queued' \subseteq Queued \ {m}
    BY <1>4, <2>3 DEF Queued
  <2>5. \A u \in Senders : next[u] # m
    <3>1. m \notin Taken
      BY <2>2 DEF ClaimInv, Apart
    <3> QED BY <3>1 DEF Taken
  <2>6. Taken' \subseteq Taken \cup {m}
    BY <1>3, <1>4, <2>1 DEF Taken
  <2>7. Single'
    <3>1. \A u, v \in Senders' : next'[u] = next'[v] => u = v
      BY <1>3, <1>4, <2>1, <2>5 DEF ClaimInv, Single
    <3> QED BY <1>1, <1>2, <1>4, <1>7, <3>1 DEF ClaimInv, Single
  <2> HIDE DEF m
  <2>8. Apart'
    BY <1>2, <1>5, <2>2, <2>4, <2>6 DEF ClaimInv, Apart
  <2>9. Fresh'
    BY <1>1, <1>2, <1>5, <2>2, <2>4, <2>6 DEF ClaimInv, Fresh
  <2>10. Unsent'
    BY <1>1, <1>2, <1>6, <2>2, <2>4, <2>6 DEF ClaimInv, Unsent
  <2>11. InTurn'
    BY <1>1 DEF ClaimInv, InTurn
  <2> QED BY <2>7, <2>8, <2>9, <2>10, <2>11 DEF ClaimInv
<1> QED BY <1>8, <1>9

LEMMA ClaimSends ==
    ASSUME TypeInv, ClaimInv, NEW t \in Workers, SendNext(t) \/ SendRest(t)
    PROVE  ClaimInv'
<1>1. UNCHANGED <<send_queue, wpc, written>>
  BY DEF SendNext, SendRest, writeVars
<1>2. Writing' = Writing
  BY <1>1 DEF Writing, Holders, msg
<1>3. Free(t) \/ Dies(t) \/ Goto(t, "mark")
  BY DEF SendNext, SendRest, Goto
<1>4. /\ Rests' = Rests \ {t} /\ Senders' = Senders \ {t}
      /\ \A u \in Rests' : cur'[u] = cur[u]
      /\ \A u \in Senders' : next'[u] = next[u]
  BY <1>3, Leaves
<1>5. /\ Taken' \subseteq Taken /\ Resting' \subseteq Resting /\ RestPieces' \subseteq RestPieces
      /\ \A c \in RestPieces' : c[1] \in Resting'
  BY <1>4 DEF Taken, Resting, RestPieces, Piece
<1>6. /\ \A u, v \in Senders' : next'[u] = next'[v] => u = v
      /\ \A u, v \in Rests' : cur'[u].m = cur'[v].m => u = v
  BY <1>4 DEF ClaimInv, Single
<1>7. CASE SendNext(t)
  <2> DEFINE m == next[t]
  <2>1. t \in Senders /\ Submits(m, Size[m])
    BY <1>7 DEF SendNext, Senders, Submits
  <2>2. m \in Taken /\ m \in Msgs
    BY <2>1 DEF Taken, TypeInv
  <2>3. m \notin Writing /\ m \notin Resting /\ m \in Begun
    BY <2>2 DEF ClaimInv, Apart, Fresh
  <2>4. m \notin Taken'
    BY <1>4, <2>1 DEF Taken, ClaimInv, Single
  <2>5. \A i \in DOMAIN wire : wire[i][1] # m
    BY <2>2 DEF ClaimInv, Unsent
  <2>6. <<m, Size[m]>> \in Pieces
    BY <2>2, Constants
  <2> HIDE DEF m
  <2> QED BY <1>1, <1>2, <1>5, <1>6, <2>1, <2>2, <2>3, <2>4, <2>5, <2>6, ClaimSubmits
<1>8. CASE SendRest(t)
  <2> DEFINE m == cur[t].m
             n == cur[t].left
  <2>1. t \in Rests /\ Submits(m, n)
    BY <1>8 DEF SendRest, Rests, Submits, Rest
  <2>2. m \in Resting /\ <<m, n>> \in RestPieces /\ <<m, n>> \in Pieces
    BY <2>1 DEF Resting, TypeInv, RestPieces, Piece
  <2>3. m \notin Writing /\ m \notin Taken /\ m \in Begun
    BY <2>2 DEF ClaimInv, Apart, Fresh
  <2>4. m \notin Resting'
    BY <1>4, <2>1 DEF Resting, ClaimInv, Single
  <2>5. \A i \in DOMAIN wire : wire[i][1] = m => n <= wire[i][3]
    <3>1. <<m, n>> \in Lefts
      BY <2>2 DEF Lefts
    <3> QED BY <3>1 DEF ClaimInv, Unsent
  <2> HIDE DEF m, n
  <2> QED BY <1>1, <1>2, <1>5, <1>6, <2>1, <2>2, <2>3, <2>4, <2>5, ClaimSubmits
<1> QED BY <1>7, <1>8

\* The other steps of a worker: it may empty the queue or push a mark.
LEMMA ClaimRest ==
    ASSUME TypeInv, ClaimInv, NEW t \in Workers,
           OnDisconnect(t) \/ MarkNext(t) \/ OnRecv(t) \/ WSARecv(t)
    PROVE  ClaimInv'
<1>1. UNCHANGED <<outs, port, wire, wpc, written>>
  BY DEF OnDisconnect, MarkNext, OnRecv, WSARecv, writeVars, kernelVars
<1>2. /\ Parts' = Parts /\ Back' = Back /\ PartPieces' = PartPieces /\ Writing' = Writing
      /\ Given' = Given
  <2>1. Holders' = Holders /\ Parts' = Parts
    BY <1>1 DEF Holders, Parts
  <2> QED BY <1>1, <2>1 DEF Back, PartPieces, Writing, Given, msg
<1>3. Free(t) \/ Dies(t) \/ Goto(t, "rearm")
  BY DEF OnDisconnect, MarkNext, OnRecv, WSARecv
<1>4. /\ Rests' = Rests \ {t} /\ Senders' = Senders \ {t}
      /\ \A u \in Rests' : cur'[u] = cur[u]
      /\ \A u \in Senders' : next'[u] = next[u]
  BY <1>3, Leaves
<1>5. Taken' \subseteq Taken /\ Resting' \subseteq Resting /\ RestPieces' \subseteq RestPieces
  BY <1>4 DEF Taken, Resting, RestPieces
<1>6. send_queue' = << >> \/ send_queue' = send_queue \/ send_queue' = Append(send_queue, nullptr)
  BY DEF OnDisconnect, MarkNext, OnRecv, WSARecv
<1>7. \A i \in DOMAIN send_queue' :
         send_queue'[i] = nullptr \/ (i \in DOMAIN send_queue /\ send_queue'[i] = send_queue[i])
  <2>1. send_queue \in Seq(Msgs \cup {nullptr}) /\ nullptr \in Msgs \cup {nullptr}
    BY DEF TypeInv
  <2>2. CASE send_queue' = << >>
    BY <2>2, SeqElements
  <2>3. CASE send_queue' = Append(send_queue, nullptr)
    BY <2>1, <2>3, AppendSeq
  <2> QED BY <1>6, <2>2, <2>3
<1>8. Queued' \subseteq Queued
  BY <1>7 DEF Queued
<1>9. Lefts' \subseteq Lefts
  BY <1>1, <1>2, <1>5 DEF Lefts
<1>10. Single'
  BY <1>1, <1>2, <1>4, <1>7 DEF ClaimInv, Single
<1> QED BY <1>1, <1>2, <1>5, <1>8, <1>9, <1>10, Fewer

LEMMA Distinct ==
    ASSUME NEW v \in Writers, NEW w \in Writers, v # w
    PROVE  msg(v) # msg(w)
BY DEF msg

\* A writer leaves its place.
LEMMA Writes ==
    ASSUME TypeInv, NEW w \in Writers, WriteSteps(w)
    PROVE  /\ UNCHANGED <<pc, cur, next, written, ends>> /\ wpc[w] # "idle"
           /\ \A v \in Writers \ {w} : wpc'[v] = wpc[v]
           /\ Rests' = Rests /\ Senders' = Senders /\ Taken' = Taken /\ Resting' = Resting
           /\ RestPieces' = RestPieces /\ Begun' = Begun
           /\ wpc'[w] \notin {"test", "push", "send"} => /\ Holders' = Holders \ {w}
                                                         /\ Writing' = Writing \ {msg(w)}
           /\ Holders' \subseteq Holders \cup {w}
<1>1. UNCHANGED <<pc, cur, next, written, ends>>
  BY DEF WriteSteps, TestQueue, PushWrite, SendWrite, MarkWrite, Place, workVars, Push, Noted
<1>2. wpc[w] # "idle" /\ \E place : wpc' = [wpc EXCEPT ![w] = place]
  BY DEF WriteSteps, TestQueue, PushWrite, SendWrite, MarkWrite, Place
<1>3. \A v \in Writers \ {w} : wpc'[v] = wpc[v]
  BY <1>2 DEF TypeInv
<1>4. Rests' = Rests /\ Senders' = Senders /\ Begun' = Begun
  BY <1>1 DEF Rests, Senders, Begun
<1>5. Taken' = Taken /\ Resting' = Resting /\ RestPieces' = RestPieces
  BY <1>1, <1>4 DEF Taken, Resting, RestPieces
<1>6. Holders' \subseteq Holders \cup {w}
  BY <1>3 DEF Holders
<1>7. wpc'[w] \notin {"test", "push", "send"} => Holders' = Holders \ {w} /\ Writing' = Writing \ {msg(w)}
  <2> SUFFICES ASSUME wpc'[w] \notin {"test", "push", "send"}
               PROVE  Holders' = Holders \ {w} /\ Writing' = Writing \ {msg(w)}
    OBVIOUS
  <2>1. Holders' = Holders \ {w}
    BY <1>3 DEF Holders
  <2>2. \A v \in Holders \ {w} : msg(v) # msg(w)
    BY Distinct DEF Holders
  <2>3. Writing' = {msg(v) : v \in Holders \ {w}}
    BY <1>1, <2>1 DEF Writing, msg
  <2>4. {msg(v) : v \in Holders \ {w}} = {msg(v) : v \in Holders} \ {msg(w)}
    BY <2>2
  <2> QED BY <2>1, <2>3, <2>4 DEF Writing
<1> QED BY <1>1, <1>2, <1>3, <1>4, <1>5, <1>6, <1>7

LEMMA ClaimWrite ==
    ASSUME TypeInv, ClaimInv, NEW w \in Writers, Write(w)
    PROVE  ClaimInv'
<1>1. /\ UNCHANGED <<outs, port, wire, send_queue, pc, cur, next>> /\ wpc[w] = "idle"
      /\ wpc' = [wpc EXCEPT ![w] = "test"] /\ written' = [written EXCEPT ![w] = written[w] + 1]
      /\ written[w] < Quota[w]
  BY DEF Write, kernelVars, workVars
<1>2. wpc \in [Writers -> WriterPlaces] /\ written \in [Writers -> Nat]
  BY DEF TypeInv
<1>3. /\ \A v \in Writers \ {w} : wpc'[v] = wpc[v] /\ written'[v] = written[v]
      /\ wpc'[w] = "test" /\ written'[w] = written[w] + 1 /\ written[w] \in Nat
  BY <1>1, <1>2
<1> DEFINE m == <<w, written[w] + 1>>
<1>4. Holders' = Holders \cup {w} /\ w \notin Holders
  BY <1>1, <1>3 DEF Holders
<1>5. /\ Rests' = Rests /\ Senders' = Senders /\ Parts' = Parts
  BY <1>1 DEF Rests, Senders, Parts
<1>6. /\ Taken' = Taken /\ Resting' = Resting /\ RestPieces' = RestPieces /\ Back' = Back
      /\ PartPieces' = PartPieces /\ Given' = Given /\ Queued' = Queued
  BY <1>1, <1>5 DEF Taken, Resting, RestPieces, Back, PartPieces, Given, Queued
<1>7. Lefts' = Lefts
  BY <1>1, <1>6 DEF Lefts
<1>8. Writing' \subseteq Writing \cup {m}
  <2>1. \A v \in Holders : <<v, written'[v]>> = msg(v)
    BY <1>3, <1>4 DEF Holders, msg
  <2> QED BY <1>3, <1>4, <2>1 DEF Writing, msg
<1>9. m \notin Begun
  <2>1. m[2] = written[w] + 1 /\ written[m[1]] = written[w]
    OBVIOUS
  <2>2. ~ (written[w] + 1 <= written[w])
    BY <1>3
  <2> QED BY <2>1, <2>2 DEF Begun
<1>10. Begun \subseteq Begun'
  <2> SUFFICES ASSUME NEW x \in Msgs, x[2] <= written[x[1]] PROVE x[2] <= written'[x[1]]
    BY DEF Begun
  <2>1. x[1] \in Writers /\ x[2] \in Nat
    BY Constants
  <2>2. CASE x[1] = w
    <3>1. x[2] <= written[w] /\ written'[x[1]] = written[w] + 1
      BY <1>3, <2>2
    <3> QED BY <1>3, <2>1, <3>1
  <2>3. CASE x[1] # w
    BY <1>3, <2>1, <2>3
  <2> QED BY <2>2, <2>3
<1> HIDE DEF m
<1>11. Apart'
  BY <1>6, <1>8, <1>9 DEF ClaimInv, Apart, Fresh
<1>12. Single'
  BY <1>1, <1>5 DEF ClaimInv, Single
<1>13. Fresh'
  BY <1>1, <1>6, <1>10 DEF ClaimInv, Fresh
<1>14. Unsent'
  BY <1>1, <1>6, <1>7, <1>8, <1>9 DEF ClaimInv, Unsent, Fresh
<1>15. InTurn'
  BY <1>1 DEF ClaimInv, InTurn
<1> QED BY <1>11, <1>12, <1>13, <1>14, <1>15 DEF ClaimInv

LEMMA ClaimWriteSteps ==
    ASSUME TypeInv, ClaimInv, NEW w \in Writers, WriteSteps(w)
    PROVE  ClaimInv'
<1>1. /\ UNCHANGED <<pc, cur, next, written>> /\ wpc[w] # "idle"
      /\ Rests' = Rests /\ Senders' = Senders /\ Taken' = Taken /\ Resting' = Resting
      /\ RestPieces' = RestPieces /\ Begun' = Begun
      /\ wpc'[w] \notin {"test", "push", "send"} => Writing' = Writing \ {msg(w)}
      /\ Holders' \subseteq Holders \cup {w}
  BY Writes
<1>2. wpc \in [Writers -> WriterPlaces]
  BY DEF TypeInv
<1> DEFINE m == msg(w)
<1>3. m \in Msgs /\ <<m, Size[m]>> \in Pieces
  BY <1>1, Message
<1>4. ASSUME w \in Holders
      PROVE  /\ m \in Writing /\ m \notin Queued \cup Taken \cup Given \cup Back \cup Resting
             /\ m \in Begun /\ \A i \in DOMAIN wire : wire[i][1] # m
  <2>1. m \in Writing
    BY <1>4 DEF Writing
  <2>2. m \in Begun
    <3>1. written[w] \in Nat /\ m[1] = w /\ m[2] = written[w]
      BY DEF TypeInv, msg
    <3> QED BY <1>3, <3>1 DEF Begun
  <2> QED BY <2>1, <2>2 DEF ClaimInv, Apart, Unsent
<1>5. CASE TestQueue(w) \/ MarkWrite(w)
  <2>1. UNCHANGED <<outs, port, wire>>
    BY <1>5 DEF TestQueue, MarkWrite, kernelVars
  <2>2. Parts' = Parts
    BY <2>1 DEF Parts
  <2>3. Back' = Back /\ PartPieces' = PartPieces /\ Given' = Given
    BY <2>1, <2>2 DEF Back, PartPieces, Given
  <2>4. Lefts' = Lefts
    BY <1>1, <2>1, <2>3 DEF Lefts
  <2>5. Writing' \subseteq Writing
    <3>1. CASE MarkWrite(w)
      <4>1. wpc'[w] = "idle"
        BY <1>2, <3>1 DEF MarkWrite, Place
      <4> QED BY <1>1, <4>1
    <3>2. CASE TestQueue(w)
      <4>1. w \in Holders
        BY <3>2 DEF TestQueue, Holders
      <4>2. Holders' \subseteq Holders
        BY <1>1, <4>1
      <4> QED BY <1>1, <4>2 DEF Writing, msg
    <3> QED BY <1>5, <3>1, <3>2
  <2>6. \A i \in DOMAIN send_queue' :
           send_queue'[i] = nullptr \/ (i \in DOMAIN send_queue /\ send_queue'[i] = send_queue[i])
    <3>1. send_queue \in Seq(Msgs \cup {nullptr}) /\ nullptr \in Msgs \cup {nullptr}
      BY DEF TypeInv
    <3>2. send_queue' = send_queue \/ send_queue' = Append(send_queue, nullptr)
      BY <1>5 DEF TestQueue, MarkWrite, Push
    <3> QED BY <3>1, <3>2, AppendSeq
  <2>7. Queued' \subseteq Queued
    BY <2>6 DEF Queued
  <2>8. Single'
    BY <1>1, <2>1, <2>2, <2>6 DEF ClaimInv, Single
  <2> QED BY <1>1, <2>1, <2>3, <2>4, <2>5, <2>7, <2>8, Fewer
<1>6. CASE PushWrite(w)
  <2>1. /\ UNCHANGED <<outs, port, wire>> /\ send_queue' = Append(send_queue, m)
        /\ w \in Holders /\ wpc'[w] = "idle"
    BY <1>2, <1>6 DEF PushWrite, Push, Place, kernelVars, Holders
  <2>2. Parts' = Parts
    BY <2>1 DEF Parts
  <2>3. Back' = Back /\ PartPieces' = PartPieces /\ Given' = Given
    BY <2>1, <2>2 DEF Back, PartPieces, Given
  <2>4. Lefts' = Lefts
    BY <1>1, <2>1, <2>3 DEF Lefts
  <2>5. Writing' = Writing \ {m}
    BY <1>1, <2>1
  <2>6. /\ \A i \in DOMAIN send_queue : send_queue'[i] = send_queue[i]
        /\ \A i \in DOMAIN send_queue' : i \in DOMAIN send_queue \/ i = Len(send_queue) + 1
        /\ send_queue'[Len(send_queue) + 1] = m
    <3>1. send_queue \in Seq(Msgs \cup {nullptr}) /\ m \in Msgs \cup {nullptr}
      BY <1>3 DEF TypeInv
    <3> HIDE DEF m
    <3> QED BY <2>1, <3>1, AppendSeq
  <2>7. /\ m \in Writing /\ m \notin Queued \cup Taken \cup Given \cup Back \cup Resting
        /\ m \in Begun /\ \A i \in DOMAIN wire : wire[i][1] # m
    BY <1>4, <2>1
  <2> HIDE DEF m
  <2>8. Queued' \subseteq Queued \cup {m}
    BY <2>6 DEF Queued
  <2>9. \A i \in DOMAIN send_queue : send_queue[i] # m
    BY <1>3, <2>7, Constants DEF Queued
  <2>10. Single'
    <3>1. \A i, j \in DOMAIN send_queue' :
             send_queue'[i] # nullptr /\ send_queue'[i] = send_queue'[j] => i = j
      BY <2>6, <2>9 DEF ClaimInv, Single
    <3> QED BY <1>1, <2>1, <2>2, <3>1 DEF ClaimInv, Single
  <2>11. Apart'
    BY <1>1, <2>3, <2>5, <2>7, <2>8 DEF ClaimInv, Apart
  <2>12. Fresh'
    BY <1>1, <2>1, <2>3, <2>7, <2>8 DEF ClaimInv, Fresh
  <2>13. Unsent'
    BY <1>1, <2>1, <2>4, <2>5, <2>7, <2>8 DEF ClaimInv, Unsent
  <2>14. InTurn'
    BY <2>1 DEF ClaimInv, InTurn
  <2> QED BY <2>10, <2>11, <2>12, <2>13, <2>14 DEF ClaimInv
<1>7. CASE SendWrite(w)
  <2>1. /\ Submits(m, Size[m]) /\ send_queue' = send_queue /\ w \in Holders
        /\ wpc'[w] \in {"idle", "mark"}
    BY <1>2, <1>7 DEF SendWrite, Submits, Holders, Place
  <2>2. Writing' = Writing \ {m}
    BY <1>1, <2>1
  <2>3. /\ m \in Writing /\ m \notin Taken \cup Resting
        /\ m \in Begun /\ \A i \in DOMAIN wire : wire[i][1] # m
    BY <1>4, <2>1
  <2>4. \A c \in RestPieces' : c[1] \in Resting'
    BY DEF RestPieces, Resting, Piece
  <2>5. /\ \A t, u \in Senders' : next'[t] = next'[u] => t = u
        /\ \A t, u \in Rests' : cur'[t].m = cur'[u].m => t = u
    BY <1>1 DEF ClaimInv, Single
  <2> HIDE DEF m
  <2> QED BY <1>1, <1>3, <2>1, <2>2, <2>3, <2>4, <2>5, ClaimSubmits
<1> QED BY <1>5, <1>6, <1>7 DEF WriteSteps

LEMMA ClaimStep == TypeInv /\ HeadInv /\ ClaimInv /\ [Next]_vars => ClaimInv'
<1> SUFFICES ASSUME TypeInv, HeadInv, ClaimInv, [Next]_vars PROVE ClaimInv'
  OBVIOUS
<1>1. CASE UNCHANGED vars
  <2>1. UNCHANGED <<outs, port, wire, send_queue, pc, cur, next, wpc, written>>
    BY <1>1 DEF vars, kernelVars, workVars, writeVars
  <2>2. Parts' = Parts /\ Rests' = Rests /\ Senders' = Senders /\ Holders' = Holders
    BY <2>1 DEF Parts, Rests, Senders, Holders
  <2>3. /\ Writing' = Writing /\ Queued' = Queued /\ Taken' = Taken /\ Given' = Given
        /\ Back' = Back /\ Resting' = Resting /\ PartPieces' = PartPieces /\ RestPieces' = RestPieces
    BY <2>1, <2>2 DEF Writing, Queued, Taken, Given, Back, Resting, PartPieces, RestPieces, msg
  <2>4. Lefts' = Lefts
    BY <2>1, <2>3 DEF Lefts
  <2>5. Single'
    BY <2>1, <2>2 DEF ClaimInv, Single
  <2> QED BY <2>1, <2>3, <2>4, <2>5, Fewer
<1>2. CASE Outside
  BY <1>2, ClaimOutside
<1>3. CASE SendCompletes
  BY <1>3, ClaimCompletes
<1>4. CASE \E t \in Workers : Work(t)
  BY <1>4, ClaimTakes, ClaimLooks, ClaimPops, ClaimSends, ClaimRest DEF Work
<1>5. CASE \E w \in Writers : Write(w) \/ WriteSteps(w)
  BY <1>5, ClaimWrite, ClaimWriteSteps
<1> QED BY <1>1, <1>2, <1>3, <1>4, <1>5 DEF Next, Kernel, Outside

-----------------------------------------------------------------------------
(* The end of the connection shows in no packet before it happens. *)

LEMMA StaysBroken ==
    ASSUME BreakInv, [Next]_vars
    PROVE  Broken => Broken'
<1>1. CASE UNCHANGED vars
  BY <1>1 DEF vars, kernelVars, Broken
<1>2. CASE PeerSends \/ PeerCloses \/ Kernel \/ Accept \/ ListenEnds \/ Disconnect
  BY <1>2 DEF PeerSends, PeerCloses, Kernel, RecvCompletes, SendCompletes, Accept,
     Register, OnAccept, ListenEnds, Disconnect, kernelVars, Broken
<1>3. CASE WSAAccept
  BY <1>3 DEF WSAAccept, BreakInv, Broken
<1>4. CASE \E t \in Workers : Work(t)
  BY <1>4 DEF Work, GetQueuedCompletionStatus, OnDisconnect, TestEmpty, Front, Pop, SendNext,
     MarkNext, SendRest, OnRecv, WSARecv, kernelVars, Broken, CloseSocket
<1>5. CASE \E w \in Writers : Write(w) \/ WriteSteps(w)
  BY <1>5 DEF Write, WriteSteps, TestQueue, PushWrite, SendWrite, MarkWrite, kernelVars, Broken
<1> QED BY <1>1, <1>2, <1>3, <1>4, <1>5 DEF Next

\* In the state before the connection only WSAAccept is possible.
LEMMA NothingBefore ==
    ASSUME BreakInv, listen = "accept", Next
    PROVE  WSAAccept
<1>1. /\ peer = "none" /\ recv = FALSE /\ outs = << >> /\ port = << >>
      /\ \A t \in Workers : pc[t] = "idle"
      /\ \A w \in Writers : wpc[w] = "idle"
  BY DEF BreakInv
<1>2. ~ PeerSends /\ ~ PeerCloses /\ ~ Accept /\ ~ ListenEnds /\ ~ Disconnect
  BY <1>1 DEF PeerSends, PeerCloses, Accept, Register, OnAccept, ListenEnds, Disconnect
<1>3. ~ Kernel
  BY <1>1 DEF Kernel, RecvCompletes, SendCompletes
<1>4. \A t \in Workers : ~ Work(t)
  BY <1>1 DEF Work, GetQueuedCompletionStatus, OnDisconnect, TestEmpty, Front, Pop, SendNext,
     MarkNext, SendRest, OnRecv, WSARecv
<1>5. \A w \in Writers : ~ Write(w) /\ ~ WriteSteps(w)
  BY <1>1 DEF Write, WriteSteps, TestQueue, PushWrite, SendWrite, MarkWrite
<1> QED BY <1>2, <1>3, <1>4, <1>5 DEF Next

LEMMA StartKept ==
    ASSUME BreakInv, Next
    PROVE  listen' # "accept"
<1>1. CASE listen = "accept"
  BY <1>1, NothingBefore DEF WSAAccept
<1>2. CASE listen # "accept"
  <2>1. CASE PeerSends \/ PeerCloses \/ Kernel \/ WSAAccept \/ Accept \/ ListenEnds \/ Disconnect
    BY <1>2, <2>1 DEF PeerSends, PeerCloses, Kernel, RecvCompletes, SendCompletes, WSAAccept, Accept,
       Register, OnAccept, ListenEnds, Disconnect
  <2>2. CASE \E t \in Workers : Work(t)
    BY <1>2, <2>2 DEF Work, GetQueuedCompletionStatus, OnDisconnect, TestEmpty, Front, Pop, SendNext,
       MarkNext, SendRest, OnRecv, WSARecv
  <2>3. CASE \E w \in Writers : Write(w) \/ WriteSteps(w)
    BY <1>2, <2>3 DEF Write, WriteSteps, TestQueue, PushWrite, SendWrite, MarkWrite
  <2> QED BY <2>1, <2>2, <2>3 DEF Next
<1> QED BY <1>1, <1>2

LEMMA NewPacket ==
    ASSUME TypeInv, BreakInv, [Next]_vars, NEW p \in Packets, port' = Append(port, p), p.err => Broken
    PROVE  \A i \in DOMAIN port' : port'[i].err => Broken'
<1>1. port \in Seq(Packets)
  BY DEF TypeInv
<1>2. /\ \A i \in DOMAIN port : port'[i] = port[i]
      /\ \A i \in DOMAIN port' : i \in DOMAIN port \/ i = Len(port) + 1
      /\ port'[Len(port) + 1] = p
  BY <1>1, AppendSeq
<1>3. \A i \in DOMAIN port : port[i].err => Broken
  BY DEF BreakInv
<1>4. Broken => Broken'
  BY StaysBroken
<1> QED BY <1>2, <1>3, <1>4, Zenon

LEMMA PacketError ==
    ASSUME NEW op, NEW m, NEW n, NEW l, NEW e
    PROVE  Packet(op, m, n, l, e).err = e
BY DEF Packet

LEMMA PortSubmits ==
    ASSUME TypeInv, BreakInv, [Next]_vars, NEW m, NEW n, <<m, n>> \in Pieces, Submits(m, n)
    PROVE  \A i \in DOMAIN port' : port'[i].err => Broken'
<1>1. CASE port' = port
  <2>1. \A i \in DOMAIN port : port[i].err => Broken
    BY DEF BreakInv
  <2> QED BY <1>1, <2>1, StaysBroken, Zenon
<1>2. CASE AtOnce(m, n)
  <2> DEFINE p == Packet("send", m, n, 0, FALSE)
  <2>1. m \in Msgs /\ n \in Nat
    BY DEF Pieces
  <2>2. p \in Packets
    BY <2>1, SendPacket
  <2>3. ~ p.err
    BY DEF Packet
  <2>4. port' = Append(port, p)
    BY <1>2 DEF AtOnce
  <2> HIDE DEF p
  <2> QED BY <2>2, <2>3, <2>4, NewPacket
<1> QED BY <1>1, <1>2 DEF Submits, Pending, SendFails

LEMMA BreakStep == TypeInv /\ BreakInv /\ [Next]_vars => BreakInv'
<1> SUFFICES ASSUME TypeInv, BreakInv, [Next]_vars PROVE BreakInv'
  OBVIOUS
<1>1. CASE UNCHANGED vars
  BY <1>1, Zenon DEF vars, kernelVars, workVars, writeVars, BreakInv, Broken
<1>2. Broken => Broken'
  BY StaysBroken
<1>3. /\ \A i \in DOMAIN port : port[i].err => Broken
      /\ \A t \in Workers : cur[t].err => Broken
  BY DEF BreakInv
<1>4. ASSUME Next, \A i \in DOMAIN port' : port'[i].err => Broken',
             \A t \in Workers : cur'[t].err => Broken'
      PROVE  BreakInv'
  BY <1>4, StartKept DEF BreakInv
<1>5. ASSUME UNCHANGED <<port, cur>>, Next PROVE BreakInv'
  <2>1. /\ \A i \in DOMAIN port' : port'[i].err => Broken'
        /\ \A t \in Workers : cur'[t].err => Broken'
    BY <1>2, <1>3, <1>5, Zenon
  <2> QED BY <1>4, <1>5, <2>1
<1>6. CASE PeerSends \/ PeerCloses \/ WSAAccept \/ Accept \/ Disconnect
  <2>1. UNCHANGED <<port, cur>> /\ Next
    BY <1>6 DEF PeerSends, PeerCloses, WSAAccept, Accept, Register, OnAccept, Disconnect, kernelVars,
       workVars, Next
  <2> QED BY <1>5, <2>1
<1>7. CASE RecvCompletes
  <2>1. cur' = cur /\ Next
    BY <1>7 DEF RecvCompletes, workVars, Next, Kernel
  <2>2. \/ port' = Append(port, Packet("recv", nullptr, 1, 0, FALSE))
        \/ port' = Append(port, Packet("recv", nullptr, 0, 0, FALSE))
        \/ port' = Append(port, Packet("recv", nullptr, 0, 0, TRUE)) /\ Broken
    BY <1>7 DEF RecvCompletes
  <2>3. PICK n \in Nat, e \in BOOLEAN : port' = Append(port, Packet("recv", nullptr, n, 0, e)) /\ (e => Broken)
    BY <2>2
  <2> DEFINE p == Packet("recv", nullptr, n, 0, e)
  <2>4. p \in Packets /\ (p.err => Broken)
    <3>1. p \in Packets
      BY <2>3, RecvPacket
    <3>2. p.err = e
      BY PacketError
    <3> HIDE DEF p
    <3> QED BY <2>3, <3>1, <3>2, Zenon
  <2> HIDE DEF p
  <2>5. \A i \in DOMAIN port' : port'[i].err => Broken'
    BY <2>3, <2>4, NewPacket DEF p
  <2>6. \A t \in Workers : cur'[t].err => Broken'
    BY <1>2, <1>3, <2>1, Zenon
  <2> QED BY <1>4, <2>1, <2>5, <2>6
<1>8. CASE SendCompletes
  <2>1. cur' = cur /\ Next /\ outs # << >>
    BY <1>8 DEF SendCompletes, workVars, Next, Kernel
  <2>2. outs[1] \in Pieces /\ Head(outs) = outs[1]
    BY <2>1, TailSeq DEF TypeInv
  <2> DEFINE m == outs[1][1]
             l == outs[1][2]
  <2>3. m \in Msgs /\ l \in Nat
    BY <2>2 DEF Pieces
  <2>4. PICK n \in Nat, r \in Nat, e \in BOOLEAN :
           port' = Append(port, Packet("send", m, n, r, e)) /\ (e => Broken)
    <3>1. \/ \E n \in 1..l : port' = Append(port, Packet("send", m, n, l - n, FALSE))
          \/ port' = Append(port, Packet("send", m, 0, l, TRUE)) /\ Broken
      BY <1>8, <2>2 DEF SendCompletes
    <3>2. \A n \in 1..l : n \in Nat /\ l - n \in Nat
      BY <2>3
    <3> HIDE DEF m, l
    <3> QED BY <2>3, <3>1, <3>2
  <2> HIDE DEF m
  <2> DEFINE p == Packet("send", m, n, r, e)
  <2>5. p \in Packets /\ (p.err => Broken)
    <3>1. p \in Packets
      BY <2>3, SendPacket
    <3>2. p.err = e
      BY PacketError
    <3> HIDE DEF p
    <3> QED BY <2>4, <3>1, <3>2, Zenon
  <2> HIDE DEF p
  <2>6. \A i \in DOMAIN port' : port'[i].err => Broken'
    BY <2>4, <2>5, NewPacket DEF p
  <2>7. \A t \in Workers : cur'[t].err => Broken'
    BY <1>2, <1>3, <2>1, Zenon
  <2> QED BY <1>4, <2>1, <2>6, <2>7
<1>9. CASE ListenEnds
  <2>1. cur' = cur /\ Next /\ port' = << >>
    BY <1>9 DEF ListenEnds, workVars, Next
  <2>2. DOMAIN port' = {}
    BY <2>1, SeqElements
  <2>3. \A t \in Workers : cur'[t].err => Broken'
    BY <1>2, <1>3, <2>1, Zenon
  <2> QED BY <1>4, <2>1, <2>2, <2>3
<1>10. ASSUME NEW t \in Workers, Work(t) PROVE BreakInv'
  <2>1. Next
    BY <1>10 DEF Next
  <2>2. CASE GetQueuedCompletionStatus(t)
    <3>1. port # << >> /\ port' = Tail(port) /\ cur' = [cur EXCEPT ![t] = Head(port)]
      BY <2>2 DEF GetQueuedCompletionStatus
    <3>2. /\ Head(port) = port[1] /\ 1 \in DOMAIN port
          /\ \A i \in DOMAIN port' : i + 1 \in DOMAIN port /\ port'[i] = port[i + 1]
      BY <3>1, TailSeq DEF TypeInv
    <3>3. cur'[t] = port[1] /\ \A u \in Workers \ {t} : cur'[u] = cur[u]
      BY <3>1, <3>2 DEF TypeInv
    <3>4. \A i \in DOMAIN port' : port'[i].err => Broken'
      BY <1>2, <1>3, <3>2, Zenon
    <3>5. \A u \in Workers : cur'[u].err => Broken'
      BY <1>2, <1>3, <3>2, <3>3
    <3> QED BY <1>4, <2>1, <3>4, <3>5
  <2>3. ASSUME Free(t), port' = port PROVE BreakInv'
    <3>1. cur'[t] = Nothing /\ \A u \in Workers \ {t} : cur'[u] = cur[u]
      BY <2>3 DEF Free, TypeInv
    <3>2. ~ Nothing.err
      BY DEF Nothing
    <3>3. \A i \in DOMAIN port' : port'[i].err => Broken'
      BY <1>2, <1>3, <2>3, Zenon
    <3>4. \A u \in Workers : cur'[u].err => Broken'
      BY <1>2, <1>3, <3>1, <3>2
    <3> QED BY <1>4, <2>1, <3>3, <3>4
  <2>4. CASE \/ OnDisconnect(t) \/ TestEmpty(t) \/ Front(t) \/ Pop(t)
             \/ MarkNext(t) \/ OnRecv(t) \/ WSARecv(t)
    <3>1. port' = port /\ (Free(t) \/ cur' = cur)
      BY <2>4 DEF OnDisconnect, TestEmpty, Front, Pop, MarkNext, OnRecv, WSARecv, kernelVars, Dies, Goto
    <3> QED BY <1>5, <2>1, <2>3, <3>1
  <2>5. CASE SendNext(t) \/ SendRest(t)
    <3>1. PICK m, n : Submits(m, n) /\ <<m, n>> \in Pieces
      <4>1. CASE SendNext(t)
        <5>1. Submits(next[t], Size[next[t]]) /\ next[t] \in Msgs
          BY <4>1 DEF SendNext, Submits, TypeInv, Senders
        <5> QED BY <5>1, Constants
      <4>2. CASE SendRest(t)
        <5>1. Submits(cur[t].m, cur[t].left) /\ <<cur[t].m, cur[t].left>> \in Pieces
          BY <4>2 DEF SendRest, Submits, Rest, TypeInv, Rests, Piece
        <5> QED BY <5>1
      <4> QED BY <2>5, <4>1, <4>2
    <3>2. \A u \in Workers : cur'[u].err => Broken'
      <4>1. \A u \in Workers : cur'[u] = cur[u] \/ cur'[u] = Nothing
        BY <2>5 DEF SendNext, SendRest, Free, Dies, TypeInv
      <4>2. ~ Nothing.err
        BY DEF Nothing
      <4> QED BY <1>2, <1>3, <4>1, <4>2
    <3>3. \A i \in DOMAIN port' : port'[i].err => Broken'
      BY <3>1, PortSubmits
    <3> QED BY <1>4, <2>1, <3>2, <3>3
  <2> QED BY <1>10, <2>2, <2>4, <2>5 DEF Work
<1>11. ASSUME NEW w \in Writers, Write(w) \/ WriteSteps(w) PROVE BreakInv'
  <2>1. Next
    BY <1>11 DEF Next
  <2>2. CASE ~ SendWrite(w)
    <3>1. UNCHANGED <<port, cur>>
      BY <1>11, <2>2 DEF Write, WriteSteps, TestQueue, PushWrite, MarkWrite, kernelVars, workVars
    <3> QED BY <1>5, <2>1, <3>1
  <2>3. CASE SendWrite(w)
    <3>1. cur' = cur /\ Submits(msg(w), Size[msg(w)]) /\ wpc[w] = "send"
      BY <2>3 DEF SendWrite, Submits, workVars
    <3>2. <<msg(w), Size[msg(w)]>> \in Pieces
      BY <3>1, Message
    <3>3. \A i \in DOMAIN port' : port'[i].err => Broken'
      BY <3>1, <3>2, PortSubmits
    <3>4. \A t \in Workers : cur'[t].err => Broken'
      BY <1>2, <1>3, <3>1, Zenon
    <3> QED BY <1>4, <2>1, <3>3, <3>4
  <2> QED BY <2>2, <2>3
<1> QED BY <1>1, <1>6, <1>7, <1>8, <1>9, <1>10, <1>11 DEF Next, Kernel

-----------------------------------------------------------------------------
(* The order of messages. *)

\* Claims move on or are given up.
LEMMA OrderedKept ==
    ASSUME Ordered, Broken => Broken', wire' = wire,
           Active' \subseteq Active, Queued' \subseteq Queued, Sending' \subseteq Sending,
           ~ Broken' /\ OnWay' # {} => send_queue' # << >> \/ Marking'
    PROVE  Ordered'
<1>1. OneActive'
  BY DEF Ordered, OneActive
<1>2. Guarded'
  BY DEF Ordered, Guarded
<1>3. ActiveFirst'
  BY DEF Ordered, ActiveFirst
<1>4. WireFirst'
  BY DEF Ordered, WireFirst
<1>5. LastOnWire'
  BY DEF Ordered, LastOnWire
<1>6. WireOrder'
  BY DEF Ordered, WireOrder
<1> QED BY <1>1, <1>2, <1>3, <1>4, <1>5, <1>6 DEF Ordered

\* Bytes of m go out, and no other message is on its way.
LEMMA OrderedAppend ==
    ASSUME TypeInv, Ordered, Broken => Broken', NEW m \in Msgs, NEW e \in Transfers, e[1] = m,
           wire' = Append(wire, e),
           Active' \subseteq {m}, Queued' \subseteq Queued, Sending' = {} \/ Broken',
           Sending' \subseteq Sending,
           ~ Broken' /\ OnWay' # {} => send_queue' # << >> \/ Marking',
           \A q \in Queued : m[1] = q[1] => m[2] < q[2],
           \A i \in DOMAIN wire : wire[i][1][1] = m[1] => wire[i][1][2] <= m[2],
           \A i \in DOMAIN wire : wire[i][1] = m => \A k \in DOMAIN wire : i <= k => wire[k][1] = m
    PROVE  Ordered'
<1>1. wire \in Seq(Transfers)
  BY DEF TypeInv
<1> DEFINE n == Len(wire) + 1
<1>2. /\ Len(wire) \in Nat /\ DOMAIN wire = 1..Len(wire) /\ DOMAIN wire' = 1..(Len(wire) + 1)
      /\ \A i \in DOMAIN wire : wire'[i] = wire[i] /\ i \in Nat /\ i < n
      /\ \A i \in DOMAIN wire' : i \in DOMAIN wire \/ i = n
      /\ wire'[n] = e
  BY <1>1, AppendSeq
<1>3. wire'[n][1] = m /\ n \in Nat
  BY <1>2
<1>4. m[2] \in Nat /\ \A q \in Queued : q \in Msgs /\ q[2] \in Nat
  BY ClaimTypes, Constants
<1> HIDE DEF n
<1>5. OneActive'
  BY DEF OneActive
<1>6. Guarded'
  BY DEF Guarded
<1>7. ActiveFirst'
  BY DEF Ordered, ActiveFirst
<1>8. WireFirst'
  <2> SUFFICES ASSUME NEW i \in DOMAIN wire', NEW x \in Active' \cup Queued', wire'[i][1][1] = x[1]
               PROVE  wire'[i][1][2] <= x[2]
    BY DEF WireFirst
  <2>1. CASE i \in DOMAIN wire
    BY <1>2, <2>1 DEF Ordered, WireFirst
  <2>2. CASE i = n
    <3>1. CASE x = m
      BY <1>3, <1>4, <2>2, <3>1
    <3>2. CASE x \in Queued
      <4>1. m[2] < x[2] /\ wire'[i][1][2] = m[2]
        BY <1>3, <2>2, <3>2
      <4> QED BY <1>4, <3>2, <4>1
    <3> QED BY <3>1, <3>2
  <2> QED BY <1>2, <2>1, <2>2
<1>9. LastOnWire'
  <2> SUFFICES ASSUME NEW x \in Active', NEW i \in DOMAIN wire', wire'[i][1] = x,
                      NEW k \in DOMAIN wire', i <= k
               PROVE  wire'[k][1] = x
    BY DEF LastOnWire
  <2>1. x = m
    OBVIOUS
  <2>2. CASE k = n
    BY <1>3, <2>1, <2>2
  <2>3. CASE k \in DOMAIN wire
    <3>1. i \in DOMAIN wire
      BY <1>2, <1>3, <2>3
    <3> QED BY <1>2, <2>1, <2>3, <3>1
  <2> QED BY <1>2, <2>2, <2>3
<1>10. WireOrder'
  <2> SUFFICES ASSUME NEW i \in DOMAIN wire', NEW j \in DOMAIN wire', i < j
               PROVE  /\ wire'[i][1][1] = wire'[j][1][1] => wire'[i][1][2] <= wire'[j][1][2]
                      /\ wire'[i][1] = wire'[j][1] => \A k \in i..j : wire'[k][1] = wire'[i][1]
    BY DEF WireOrder
  <2>1. i \in DOMAIN wire
    BY <1>2, <1>3
  <2>2. CASE j \in DOMAIN wire
    <3>1. \A k \in i..j : k \in DOMAIN wire
      BY <1>2, <2>1, <2>2
    <3> QED BY <1>2, <2>1, <2>2, <3>1 DEF Ordered, WireOrder
  <2>3. CASE j = n
    <3>1. \A k \in i..j : k \in DOMAIN wire' /\ i <= k
      BY <1>2, <1>3, <2>1, <2>3 DEF n
    <3> QED BY <1>2, <1>3, <2>1, <2>3, <3>1
  <2> QED BY <1>2, <2>2, <2>3
<1> QED BY <1>5, <1>6, <1>7, <1>8, <1>9, <1>10 DEF Ordered

\* The queue loses entries at its front, or all.
LEMMA QueueShrinks ==
    ASSUME OrderInv, NEW k \in Nat, DOMAIN send_queue \subseteq Nat,
           \A i \in DOMAIN send_queue' :
              \/ send_queue'[i] = nullptr
              \/ i \in Nat /\ k + i \in DOMAIN send_queue /\ send_queue'[i] = send_queue[k + i]
    PROVE  QueueOrder'
<1> SUFFICES ASSUME NEW i \in DOMAIN send_queue', NEW j \in DOMAIN send_queue', i < j,
                    send_queue'[i] # nullptr, send_queue'[j] # nullptr,
                    send_queue'[i][1] = send_queue'[j][1]
             PROVE  send_queue'[i][2] < send_queue'[j][2]
  BY DEF QueueOrder
<1>1. /\ i \in Nat /\ k + i \in DOMAIN send_queue /\ send_queue'[i] = send_queue[k + i]
      /\ j \in Nat /\ k + j \in DOMAIN send_queue /\ send_queue'[j] = send_queue[k + j]
  OBVIOUS
<1>2. k + i < k + j
  BY <1>1
<1> QED BY <1>1, <1>2 DEF OrderInv, QueueOrder

LEMMA MarkingKept ==
    ASSUME Marking,
           \A t \in Workers : pc[t] = "mark" => pc'[t] = "mark",
           \A w \in Writers : wpc[w] = "mark" => wpc'[w] = "mark"
    PROVE  Marking'
BY DEF Marking

LEMMA OrderOutside ==
    ASSUME TypeInv, BreakInv, OrderInv, Outside, [Next]_vars, ~ disorder'
    PROVE  Ordered'
<1>1. /\ UNCHANGED <<outs, wire, send_queue, pc, cur, next, wpc, written>>
      /\ \A i \in Parts' : i \in Parts /\ port'[i] = port[i]
  BY OutsideStep
<1>2. ~ disorder
  <2>1. disorder' = disorder
    BY OutsideStep
  <2> QED BY <2>1, Zenon
<1>3. Rests' = Rests /\ Senders' = Senders /\ Sending' = Sending /\ Marking' = Marking
  BY <1>1 DEF Rests, Senders, Sending, Marking
<1>4. Back' \subseteq Back
  BY <1>1 DEF Back
<1>5. Queued' = Queued /\ Taken' = Taken /\ Given' = Given /\ Resting' = Resting
  BY <1>1, <1>3 DEF Queued, Taken, Given, Resting
<1>6. Active' \subseteq Active /\ OnWay' \subseteq OnWay
  BY <1>4, <1>5 DEF Active, OnWay
<1>7. Ordered
  BY <1>2 DEF OrderInv
<1>8. Broken => Broken'
  BY StaysBroken
<1>9. ~ Broken' /\ OnWay' # {} => send_queue' # << >> \/ Marking'
  BY <1>1, <1>3, <1>6, <1>7, <1>8 DEF Ordered, Guarded
<1> QED BY <1>1, <1>3, <1>5, <1>6, <1>7, <1>8, <1>9, OrderedKept

LEMMA OrderCompletes ==
    ASSUME TypeInv, BreakInv, OrderInv, SendCompletes, [Next]_vars, ~ disorder'
    PROVE  Ordered'
<1>1. UNCHANGED <<sock, peer, send_queue, pc, cur, next, wpc, written>>
  BY DEF SendCompletes, workVars, writeVars
<1>2. ~ disorder
  BY Zenon DEF SendCompletes, ghosts
<1>3. PICK l \in Nat, n \in Nat :
      /\ outs # << >> /\ outs' = Tail(outs) /\ outs[1] = <<outs[1][1], l>>
      /\ outs[1][1] \in Msgs
      /\ \/ n = 0 /\ wire' = wire
         \/ 0 < n /\ wire' = Append(wire, <<outs[1][1], l, l - n>>)
      /\ <<outs[1][1], l, l - n>> \in Transfers \/ n = 0
      /\ \A i \in Parts : port'[i] = port[i]
      /\ \A i \in Parts' : i \in Parts \/ port'[i].m = outs[1][1]
  BY Completion
<1> DEFINE m == outs[1][1]
           e == <<m, l, l - n>>
<1>4. Rests' = Rests /\ Senders' = Senders /\ Sending' = Sending /\ Marking' = Marking
  BY <1>1 DEF Rests, Senders, Sending, Marking
<1>5. Queued' = Queued /\ Taken' = Taken /\ Resting' = Resting
  BY <1>1, <1>4 DEF Queued, Taken, Resting
<1>6. outs \in Seq(Pieces)
  BY DEF TypeInv
<1>7. m \in Given /\ Given' \subseteq Given
  <2>1. /\ 1 \in DOMAIN outs
        /\ \A i \in DOMAIN outs' : i + 1 \in DOMAIN outs /\ outs'[i] = outs[i + 1]
    BY <1>3, <1>6, TailSeq
  <2> QED BY <2>1 DEF Given
<1>8. Back' \subseteq Back \cup {m}
  BY <1>3 DEF Back
<1>9. Active' \subseteq Active /\ m \in Active /\ m \in OnWay
  BY <1>5, <1>7, <1>8 DEF Active, OnWay
<1>10. Ordered
  BY <1>2 DEF OrderInv
<1>11. Active \subseteq {m}
  BY <1>9, <1>10 DEF Ordered, OneActive
<1>12. Broken' = Broken
  BY <1>1 DEF Broken
<1>13. ~ Broken' => send_queue' # << >> \/ Marking'
  BY <1>1, <1>4, <1>9, <1>10, <1>12 DEF Ordered, Guarded
<1>14. Sending' = {} \/ Broken'
  BY <1>4, <1>9, <1>10, <1>12 DEF Ordered, Guarded
<1>15. CASE wire' = wire
  BY <1>4, <1>5, <1>9, <1>10, <1>12, <1>13, <1>15, OrderedKept
<1>16. CASE wire' = Append(wire, e) /\ e \in Transfers
  <2>1. /\ \A q \in Queued : m[1] = q[1] => m[2] < q[2]
        /\ \A i \in DOMAIN wire : wire[i][1][1] = m[1] => wire[i][1][2] <= m[2]
        /\ \A i \in DOMAIN wire : wire[i][1] = m => \A k \in DOMAIN wire : i <= k => wire[k][1] = m
    BY <1>9, <1>10 DEF Ordered, ActiveFirst, WireFirst, LastOnWire
  <2>2. e[1] = m /\ m \in Msgs
    BY <1>3
  <2> HIDE DEF m, e
  <2> QED BY <1>4, <1>5, <1>9, <1>10, <1>11, <1>12, <1>13, <1>14, <1>16, <2>1, <2>2, OrderedAppend
<1> QED BY <1>3, <1>15, <1>16

LEMMA OrderTakes ==
    ASSUME TypeInv, BreakInv, OrderInv, NEW t \in Workers, GetQueuedCompletionStatus(t), [Next]_vars,
           ~ disorder'
    PROVE  Ordered'
<1>1. UNCHANGED <<sock, peer, outs, wire, send_queue, next, wpc, written>>
  BY DEF GetQueuedCompletionStatus, writeVars
<1>2. ~ disorder
  BY Zenon DEF GetQueuedCompletionStatus
<1>3. /\ \A i \in Parts' : i + 1 \in Parts /\ port'[i] = port[i + 1]
      /\ Senders' = Senders /\ pc[t] = "idle"
      /\ \A u \in Workers \ {t} : pc'[u] = pc[u]
      /\ \A u \in Rests' : \/ u \in Rests /\ cur'[u] = cur[u]
                           \/ 1 \in Parts /\ cur'[u] = port[1]
  BY Takes
<1>4. Sending' = Sending /\ Queued' = Queued /\ Taken' = Taken /\ Given' = Given
  BY <1>1, <1>3 DEF Sending, Queued, Taken, Given
<1>5. Back' \subseteq Back /\ Resting' \subseteq Resting \cup Back
  BY <1>3 DEF Resting, Back
<1>6. Active' \subseteq Active /\ OnWay' \subseteq OnWay
  BY <1>4, <1>5 DEF Active, OnWay
<1>7. Marking => Marking'
  BY <1>1, <1>3 DEF Marking
<1>8. Ordered /\ Broken' = Broken
  BY <1>1, <1>2 DEF OrderInv, Broken
<1>9. ~ Broken' /\ OnWay' # {} => send_queue' # << >> \/ Marking'
  BY <1>1, <1>6, <1>7, <1>8 DEF Ordered, Guarded
<1> QED BY <1>1, <1>4, <1>6, <1>8, <1>9, OrderedKept

LEMMA OrderLooks ==
    ASSUME TypeInv, BreakInv, OrderInv, NEW t \in Workers, TestEmpty(t) \/ Front(t), [Next]_vars,
           ~ disorder'
    PROVE  Ordered'
<1>1. UNCHANGED <<sock, peer, outs, port, wire, wpc, written>>
  BY DEF TestEmpty, Front, writeVars, kernelVars
<1>2. ~ disorder
  BY Zenon DEF TestEmpty, Front, ghosts
<1>3. /\ send_queue' = send_queue /\ pc[t] \in {"pop", "front"}
      /\ \A u \in Workers \ {t} : pc'[u] = pc[u]
      /\ Rests' = Rests /\ Senders' = Senders
      /\ \A u \in Rests : cur'[u] = cur[u]
      /\ \A u \in Senders : next'[u] = next[u]
  BY Looks
<1>4. Parts' = Parts /\ Sending' = Sending
  BY <1>1 DEF Parts, Sending
<1>5. /\ Queued' = Queued /\ Taken' = Taken /\ Given' = Given /\ Back' = Back /\ Resting' = Resting
      /\ Broken' = Broken
  BY <1>1, <1>3, <1>4 DEF Queued, Taken, Given, Back, Resting, Broken
<1>6. Active' = Active /\ OnWay' = OnWay
  BY <1>5 DEF Active, OnWay
<1>7. Ordered
  BY <1>2 DEF OrderInv
<1>8. \A u \in Workers : pc[u] = "mark" => pc'[u] = "mark"
  BY <1>3
<1>9. Marking => Marking'
  BY <1>1, <1>8, MarkingKept
<1>10. ~ Broken' /\ OnWay' # {} => send_queue' # << >> \/ Marking'
  BY <1>3, <1>5, <1>6, <1>7, <1>9 DEF Ordered, Guarded
<1> QED BY <1>1, <1>4, <1>5, <1>6, <1>7, <1>10, OrderedKept

LEMMA OrderPops ==
    ASSUME TypeInv, HeadInv, ClaimInv, BreakInv, OrderInv, NEW t \in Workers, Pop(t), [Next]_vars,
           ~ disorder'
    PROVE  Ordered'
<1>1. UNCHANGED <<sock, peer, outs, port, wire, wpc, written>> /\ pc[t] = "take"
  BY DEF Pop, writeVars, kernelVars
<1>2. ~ disorder /\ ~ Unfinished /\ ~ Unsettled(t)
  BY Zenon DEF Pop
<1>3. Parts' = Parts /\ Sending' = Sending
  BY <1>1 DEF Parts, Sending
<1>4. Back' = Back /\ Given' = Given /\ Broken' = Broken
  BY <1>1, <1>3 DEF Back, Given, Broken
<1>5. Ordered
  BY <1>2 DEF OrderInv
<1>6. send_queue \in Seq(Msgs \cup {nullptr})
  BY DEF TypeInv
<1>7. DOMAIN send_queue \subseteq Nat
  BY <1>6, SeqElements
<1>8. Given = {} /\ Back = {} /\ Resting = {} /\ Taken = {} /\ Sending = {}
  <2>1. ~ Unfinished /\ ~ Unsettled(t)
    BY <1>2
  <2>2. outs = << >>
    BY <2>1 DEF Unfinished
  <2>3. Given = {}
    BY <2>2, SeqElements DEF Given
  <2>4. Parts = {}
    <3> SUFFICES ASSUME NEW i \in Parts PROVE FALSE
      OBVIOUS
    <3>1. i \in DOMAIN port /\ PlaceFor(port[i]) = "rest"
      BY DEF Parts
    <3>2. port[i] \in Packets
      BY <3>1, SeqElements DEF TypeInv
    <3>3. port[i].op = "send" /\ port[i].left > 0
      BY <3>1, <3>2, Places
    <3> QED BY <2>1, <3>1, <3>3 DEF Unfinished
  <2>5. \A u \in Workers : pc[u] \notin {"send", "rest"}
    BY <1>1, <2>1 DEF Unsettled
  <2>6. Rests = {} /\ Senders = {}
    BY <2>5 DEF Rests, Senders
  <2>7. \A w \in Writers : wpc[w] # "send"
    BY <2>1, IocpAssumption DEF Unsettled
  <2> QED BY <2>3, <2>4, <2>6, <2>7 DEF Back, Resting, Taken, Sending
<1> DEFINE m == send_queue[1]
<1>9. send_queue # << >> /\ next[t] = m
  BY <1>1 DEF HeadInv
<1>10. /\ cur' = cur /\ next' = next /\ 1 \in DOMAIN send_queue /\ Rests' = Rests
       /\ \A j \in DOMAIN send_queue' :
             /\ j \in Nat \ {0} /\ 1 + j \in DOMAIN send_queue /\ 1 + j # 1
             /\ send_queue'[j] = send_queue[1 + j]
       /\ m = nullptr => Senders' = Senders
       /\ m # nullptr => Senders' = Senders \cup {t}
  BY <1>9, Pops
<1>11. Resting' = {} /\ Queued' \subseteq Queued
  BY <1>8, <1>10 DEF Resting, Queued
<1>12. OnWay' = {} /\ Sending' = {}
  BY <1>3, <1>4, <1>8, <1>11 DEF OnWay
<1>13. CASE m = nullptr
  <2>1. Taken' = {}
    BY <1>8, <1>10, <1>13 DEF Taken
  <2>2. Active' = {}
    BY <1>12, <2>1 DEF Active
  <2> QED BY <1>1, <1>3, <1>4, <1>5, <1>11, <1>12, <2>2, OrderedKept
<1>14. CASE m # nullptr
  <2>1. Taken' = {m}
    <3>1. Senders = {}
      BY <1>8 DEF Taken
    <3>2. Senders' = {t}
      BY <1>10, <1>14, <3>1
    <3> QED BY <1>9, <1>10, <3>2 DEF Taken
  <2>2. Active' = {m}
    BY <1>12, <2>1 DEF Active
  <2>3. m \in Queued
    BY <1>10, <1>14 DEF Queued
  <2>4. OneActive'
    BY <2>2 DEF OneActive
  <2>5. Guarded'
    BY <1>12 DEF Guarded
  <2>6. ActiveFirst'
    <3> SUFFICES ASSUME NEW j \in DOMAIN send_queue', send_queue'[j] # nullptr,
                        m[1] = send_queue'[j][1]
                 PROVE  m[2] < send_queue'[j][2]
      BY <1>12, <2>2 DEF ActiveFirst, Queued
    <3>1. j \in Nat \ {0} /\ 1 + j \in DOMAIN send_queue /\ send_queue'[j] = send_queue[1 + j]
      BY <1>10
    <3>2. 1 < 1 + j
      BY <3>1
    <3> QED BY <1>10, <1>14, <3>1, <3>2 DEF OrderInv, QueueOrder
  <2>7. WireFirst'
    BY <1>1, <1>5, <1>11, <2>2, <2>3 DEF Ordered, WireFirst
  <2>8. LastOnWire'
    BY <1>1, <2>2, <2>3 DEF LastOnWire, ClaimInv, Unsent
  <2>9. WireOrder'
    BY <1>1, <1>5 DEF Ordered, WireOrder
  <2> QED BY <2>4, <2>5, <2>6, <2>7, <2>8, <2>9 DEF Ordered
<1> QED BY <1>13, <1>14

\* A thread submits m, which is the only message on its way.
LEMMA OrderSubmits ==
    ASSUME TypeInv, Ordered, UNCHANGED <<sock, peer, send_queue>>,
           NEW m, NEW n, <<m, n>> \in Pieces, Submits(m, n),
           Taken' \subseteq Taken, Resting' \subseteq Resting, Sending' \subseteq Sending,
           ~ Broken =>
              /\ Active \subseteq {m} /\ Sending' = {}
              /\ send_queue # << >> \/ Marking' \/ (outs' = outs /\ OnWay = {})
              /\ \A q \in Queued : m[1] = q[1] => m[2] < q[2]
              /\ \A i \in DOMAIN wire : wire[i][1][1] = m[1] => wire[i][1][2] <= m[2]
              /\ \A i \in DOMAIN wire : wire[i][1] = m => \A k \in DOMAIN wire : i <= k => wire[k][1] = m
    PROVE  Ordered'
<1>1. /\ Parts' = Parts /\ \A i \in Parts : port'[i] = port[i]
      /\ \/ wire' = Append(wire, <<m, n, 0>>) /\ outs' = outs /\ ~ Broken
         \/ wire' = wire /\ outs' = Append(outs, <<m, n>>) /\ ~ Broken
         \/ wire' = wire /\ outs' = outs /\ Broken
      /\ <<m, n, 0>> \in Transfers
  BY Submission
<1>2. Broken' = Broken /\ Queued' = Queued /\ Back' = Back
  BY <1>1 DEF Broken, Queued, Back
<1>3. m \in Msgs
  BY DEF Pieces
<1>4. outs' = outs => Active' \subseteq Active /\ OnWay' \subseteq OnWay
  <2> SUFFICES ASSUME outs' = outs PROVE Active' \subseteq Active /\ OnWay' \subseteq OnWay
    OBVIOUS
  <2>1. Given' = Given
    BY DEF Given
  <2> QED BY <1>2, <2>1 DEF Active, OnWay
<1>5. CASE wire' = wire /\ outs' = outs /\ Broken
  BY <1>2, <1>4, <1>5, OrderedKept
<1>6. CASE wire' = Append(wire, <<m, n, 0>>) /\ outs' = outs /\ ~ Broken
  <2> DEFINE e == <<m, n, 0>>
  <2>1. e[1] = m /\ e \in Transfers /\ wire' = Append(wire, e)
    BY <1>1, <1>6
  <2>2. OnWay' # {} => send_queue' # << >> \/ Marking'
    BY <1>4, <1>6
  <2>3. Active' \subseteq {m} /\ Sending' = {}
    BY <1>4, <1>6
  <2> HIDE DEF e
  <2> QED BY <1>2, <1>3, <1>6, <2>1, <2>2, <2>3, OrderedAppend
<1>7. CASE wire' = wire /\ outs' = Append(outs, <<m, n>>) /\ ~ Broken
  <2>1. outs \in Seq(Pieces)
    BY DEF TypeInv
  <2>2. /\ outs' # outs
        /\ \A i \in DOMAIN outs' : (i \in DOMAIN outs /\ outs'[i] = outs[i]) \/ outs'[i] = <<m, n>>
    <3>1. /\ Len(outs) \in Nat /\ DOMAIN outs = 1..Len(outs) /\ DOMAIN outs' = 1..(Len(outs) + 1)
          /\ \A i \in DOMAIN outs : outs'[i] = outs[i]
          /\ \A i \in DOMAIN outs' : i \in DOMAIN outs \/ i = Len(outs) + 1
          /\ outs'[Len(outs) + 1] = <<m, n>>
      BY <1>7, <2>1, AppendSeq
    <3>2. Len(outs) + 1 \in DOMAIN outs' /\ Len(outs) + 1 \notin DOMAIN outs
      BY <3>1
    <3> QED BY <3>1, <3>2
  <2>3. Given' \subseteq Given \cup {m}
    BY <2>2 DEF Given
  <2>4. Active' \subseteq {m} /\ Sending' = {}
    BY <1>2, <1>7, <2>3 DEF Active, OnWay
  <2>5. OneActive'
    BY <2>4 DEF OneActive
  <2>6. Guarded'
    BY <1>7, <2>2, <2>4 DEF Guarded
  <2>7. ActiveFirst'
    BY <1>2, <1>7, <2>4 DEF ActiveFirst
  <2>8. WireFirst'
    BY <1>2, <1>7, <2>4 DEF Ordered, WireFirst
  <2>9. LastOnWire'
    BY <1>7, <2>4 DEF LastOnWire
  <2>10. WireOrder'
    BY <1>7 DEF Ordered, WireOrder
  <2> QED BY <2>5, <2>6, <2>7, <2>8, <2>9, <2>10 DEF Ordered
<1> QED BY <1>1, <1>5, <1>6, <1>7

LEMMA OrderSends ==
    ASSUME TypeInv, ClaimInv, OrderInv, NEW t \in Workers, SendNext(t) \/ SendRest(t), ~ disorder'
    PROVE  Ordered'
<1>1. UNCHANGED <<sock, peer, send_queue, wpc, written>>
  BY DEF SendNext, SendRest, writeVars
<1>2. ~ disorder
  BY Zenon DEF SendNext, SendRest, Noted
<1>3. Free(t) \/ Dies(t) \/ Goto(t, "mark")
  BY DEF SendNext, SendRest, Goto
<1>4. /\ Rests' = Rests \ {t} /\ Senders' = Senders \ {t}
      /\ \A u \in Rests' : cur'[u] = cur[u]
      /\ \A u \in Senders' : next'[u] = next[u]
  BY <1>3, Leaves
<1>5. Taken' \subseteq Taken /\ Resting' \subseteq Resting
  BY <1>4 DEF Taken, Resting
<1>6. Sending' = Sending
  BY <1>1 DEF Sending
<1>7. Ordered
  BY <1>2 DEF OrderInv
<1>8. ASSUME NEW m \in Active, ~ Broken
      PROVE  /\ Active \subseteq {m} /\ Sending' = {}
             /\ \A q \in Queued : m[1] = q[1] => m[2] < q[2]
             /\ \A i \in DOMAIN wire : wire[i][1][1] = m[1] => wire[i][1][2] <= m[2]
             /\ \A i \in DOMAIN wire : wire[i][1] = m => \A k \in DOMAIN wire : i <= k => wire[k][1] = m
  BY <1>6, <1>7, <1>8 DEF Ordered, OneActive, Guarded, ActiveFirst, WireFirst, LastOnWire
<1>9. CASE SendNext(t)
  <2> DEFINE m == next[t]
  <2>1. t \in Senders /\ Submits(m, Size[m]) /\ (outs' = outs \/ pc' = [pc EXCEPT ![t] = "mark"])
    BY <1>9 DEF SendNext, Senders, Submits, AtOnce, SendFails
  <2>2. m \in Taken /\ m \in Msgs /\ m \in Active
    BY <2>1 DEF Taken, TypeInv, Active
  <2>3. <<m, Size[m]>> \in Pieces
    BY <2>2, Constants
  <2>4. ASSUME ~ Broken PROVE send_queue # << >> \/ Marking' \/ (outs' = outs /\ OnWay = {})
    <3>1. m \notin OnWay
      BY <2>2 DEF ClaimInv, Apart, OnWay
    <3>2. OnWay = {}
      BY <1>8, <2>2, <2>4, <3>1 DEF Active
    <3>3. pc' = [pc EXCEPT ![t] = "mark"] => pc'[t] = "mark"
      BY DEF TypeInv
    <3> QED BY <2>1, <3>2, <3>3 DEF Marking
  <2> HIDE DEF m
  <2> QED BY <1>1, <1>5, <1>6, <1>7, <1>8, <2>1, <2>2, <2>3, <2>4, OrderSubmits
<1>10. CASE SendRest(t)
  <2> DEFINE m == cur[t].m
             n == cur[t].left
  <2>1. t \in Rests /\ Submits(m, n) /\ pc[t] = "rest" /\ (Free(t) \/ Dies(t))
    BY <1>10 DEF SendRest, Rests, Submits, Rest
  <2>2. m \in Resting /\ <<m, n>> \in Pieces
    BY <2>1 DEF Resting, TypeInv, Piece
  <2>3. m \in Active /\ m \in OnWay
    BY <2>2 DEF Active, OnWay
  <2>4. ASSUME ~ Broken PROVE send_queue # << >> \/ Marking'
    <3>1. send_queue # << >> \/ Marking
      BY <1>7, <2>3, <2>4 DEF Ordered, Guarded
    <3>2. \A u \in Workers : pc[u] = "mark" => pc'[u] = "mark"
      BY <2>1 DEF Free, Dies, TypeInv
    <3> QED BY <1>1, <3>1, <3>2, MarkingKept
  <2> HIDE DEF m, n
  <2> QED BY <1>1, <1>5, <1>6, <1>7, <1>8, <2>1, <2>2, <2>3, <2>4, OrderSubmits
<1> QED BY <1>9, <1>10

\* The other steps of a worker: it may empty the queue or push a mark.
LEMMA OrderRest ==
    ASSUME TypeInv, BreakInv, OrderInv, NEW t \in Workers, [Next]_vars, ~ disorder',
           OnDisconnect(t) \/ MarkNext(t) \/ OnRecv(t) \/ WSARecv(t)
    PROVE  Ordered'
<1>1. UNCHANGED <<outs, port, wire, wpc, written>>
  BY DEF OnDisconnect, MarkNext, OnRecv, WSARecv, writeVars, kernelVars
<1>2. ~ disorder
  BY Zenon DEF OnDisconnect, MarkNext, OnRecv, WSARecv, ghosts
<1>3. Parts' = Parts /\ Sending' = Sending
  BY <1>1 DEF Parts, Sending
<1>4. Back' = Back /\ Given' = Given
  BY <1>1, <1>3 DEF Back, Given
<1>5. Free(t) \/ Dies(t) \/ Goto(t, "rearm")
  BY DEF OnDisconnect, MarkNext, OnRecv, WSARecv
<1>6. /\ Rests' = Rests \ {t} /\ Senders' = Senders \ {t}
      /\ \A u \in Rests' : cur'[u] = cur[u]
      /\ \A u \in Senders' : next'[u] = next[u]
  BY <1>5, Leaves
<1>7. Taken' \subseteq Taken /\ Resting' \subseteq Resting
  BY <1>6 DEF Taken, Resting
<1>8. Active' \subseteq Active /\ OnWay' \subseteq OnWay
  BY <1>4, <1>7 DEF Active, OnWay
<1>9. Ordered
  BY <1>2 DEF OrderInv
<1>10. Broken => Broken'
  BY StaysBroken
<1>11. send_queue \in Seq(Msgs \cup {nullptr}) /\ nullptr \in Msgs \cup {nullptr}
  BY DEF TypeInv
<1>12. CASE OnDisconnect(t)
  <2>1. send_queue' = << >> /\ CloseSocket(cur[t])
    BY <1>12 DEF OnDisconnect
  <2>2. DOMAIN send_queue' = {}
    BY <2>1, SeqElements
  <2>3. Queued' \subseteq Queued
    BY <2>2 DEF Queued
  <2>4. Broken'
    <3>1. CASE cur[t].err
      BY <1>10, <3>1, Zenon DEF BreakInv
    <3>2. CASE ~ cur[t].err
      BY <2>1, <3>2 DEF CloseSocket, Broken
    <3> QED BY <3>1, <3>2
  <2> QED BY <1>1, <1>3, <1>8, <1>9, <1>10, <2>3, <2>4, OrderedKept
<1>13. CASE MarkNext(t)
  <2>1. send_queue' = Append(send_queue, nullptr)
    BY <1>13 DEF MarkNext
  <2>2. /\ send_queue' # << >>
        /\ \A i \in DOMAIN send_queue : send_queue'[i] = send_queue[i]
        /\ \A i \in DOMAIN send_queue' : i \in DOMAIN send_queue \/ i = Len(send_queue) + 1
        /\ send_queue'[Len(send_queue) + 1] = nullptr
    BY <1>11, <2>1, AppendSeq
  <2>3. Queued' \subseteq Queued
    BY <2>2 DEF Queued
  <2> QED BY <1>1, <1>3, <1>8, <1>9, <1>10, <2>2, <2>3, OrderedKept
<1>14. CASE OnRecv(t) \/ WSARecv(t)
  <2>1. send_queue' = send_queue /\ pc[t] \in {"recv", "rearm"}
    BY <1>14 DEF OnRecv, WSARecv
  <2>2. Queued' = Queued
    BY <2>1 DEF Queued
  <2>3. \A u \in Workers : pc[u] = "mark" => pc'[u] = "mark"
    BY <1>5, <2>1 DEF Free, Dies, Goto, TypeInv
  <2>4. Marking => Marking'
    BY <1>1, <2>3, MarkingKept
  <2>5. ~ Broken' /\ OnWay' # {} => send_queue' # << >> \/ Marking'
    BY <1>8, <1>9, <1>10, <2>1, <2>4 DEF Ordered, Guarded
  <2> QED BY <1>1, <1>3, <1>8, <1>9, <1>10, <2>2, <2>5, OrderedKept
<1> QED BY <1>12, <1>13, <1>14

\* What was begun by a writer is not younger than what it writes.
LEMMA Older ==
    ASSUME TypeInv, NEW w \in Writers, NEW x \in Begun, x[1] = w
    PROVE  x[2] <= msg(w)[2] /\ (x # msg(w) => x[2] < msg(w)[2])
<1>1. x \in Msgs /\ x[2] <= written[w]
  BY DEF Begun
<1>2. x = <<w, x[2]>> /\ x[2] \in Nat /\ written[w] \in Nat
  BY <1>1, Constants DEF TypeInv
<1>3. msg(w)[2] = written[w]
  BY DEF msg
<1>4. x # msg(w) => x[2] # written[w]
  BY <1>2 DEF msg
<1> QED BY <1>1, <1>2, <1>3, <1>4

LEMMA OrderTest ==
    ASSUME TypeInv, OrderInv, NEW w \in Writers, TestQueue(w), ~ disorder'
    PROVE  Ordered'
<1>1. /\ UNCHANGED <<sock, peer, outs, port, wire, send_queue, pc, cur, next, written>>
      /\ wpc[w] = "test" /\ wpc' = [wpc EXCEPT ![w] = IF MustWait THEN "push" ELSE "send"]
  BY DEF TestQueue, Place, kernelVars, workVars
<1>2. ~ disorder /\ (~ MustWait => ~ Unsettled(w))
  BY Zenon DEF TestQueue
<1>3. \A v \in Writers \ {w} : wpc'[v] = wpc[v]
  BY <1>1 DEF TypeInv
<1>4. Parts' = Parts /\ Rests' = Rests /\ Senders' = Senders /\ Broken' = Broken
  BY <1>1 DEF Parts, Rests, Senders, Broken
<1>5. Given' = Given /\ Back' = Back /\ Resting' = Resting /\ Taken' = Taken /\ Queued' = Queued
  BY <1>1, <1>4 DEF Given, Back, Resting, Taken, Queued
<1>6. Active' = Active /\ OnWay' = OnWay
  BY <1>5 DEF Active, OnWay
<1>7. Ordered
  BY <1>2 DEF OrderInv
<1>8. CASE MustWait
  <2>1. wpc'[w] = "push"
    BY <1>1, <1>8 DEF TypeInv
  <2>2. Sending' \subseteq Sending
    BY <1>3, <2>1 DEF Sending
  <2>3. send_queue' # << >>
    BY <1>1, <1>8 DEF MustWait
  <2> QED BY <1>1, <1>4, <1>5, <1>6, <1>7, <2>2, <2>3, OrderedKept
<1>9. CASE ~ MustWait
  <2>1. send_queue = << >> /\ ~ Unsettled(w)
    BY <1>2, <1>9 DEF MustWait
  <2>2. Queued = {}
    BY <2>1, SeqElements DEF Queued
  <2>3. \A t \in Workers : pc[t] \notin {"send", "rest", "mark"}
    BY <2>1, IocpAssumption DEF Unsettled
  <2>4. \A v \in Writers : wpc[v] \notin {"send", "mark"}
    BY <1>1, <2>1 DEF Unsettled
  <2>5. ~ Marking
    BY <2>3, <2>4 DEF Marking
  <2>6. Taken = {}
    BY <2>3 DEF Taken, Senders
  <2>7. ~ Broken => Active = {} /\ OnWay = {}
    BY <1>7, <2>1, <2>5, <2>6 DEF Ordered, Guarded, Active
  <2>8. Sending' \subseteq {w}
    BY <1>3, <2>4 DEF Sending
  <2>9. OneActive'
    BY <1>6, <1>7 DEF Ordered, OneActive
  <2>10. Guarded'
    BY <1>4, <1>6, <2>7, <2>8 DEF Guarded
  <2>11. ActiveFirst'
    BY <1>5, <2>2 DEF ActiveFirst
  <2>12. WireFirst'
    BY <1>1, <1>5, <1>6, <1>7 DEF Ordered, WireFirst
  <2>13. LastOnWire'
    BY <1>1, <1>6, <1>7 DEF Ordered, LastOnWire
  <2>14. WireOrder'
    BY <1>1, <1>7 DEF Ordered, WireOrder
  <2> QED BY <2>9, <2>10, <2>11, <2>12, <2>13, <2>14 DEF Ordered
<1> QED BY <1>8, <1>9

\* A writer pushes its message behind everything it wrote before.
LEMMA OrderPushes ==
    ASSUME TypeInv, ClaimInv, OrderInv, NEW w \in Writers, PushWrite(w)
    PROVE  QueueOrder' /\ (~ disorder' => Ordered')
<1>1. /\ UNCHANGED <<sock, peer, outs, port, wire, pc, cur, next, written>>
      /\ wpc[w] = "push" /\ wpc' = [wpc EXCEPT ![w] = "idle"]
      /\ send_queue' = Append(send_queue, msg(w))
  BY DEF PushWrite, Place, Push, kernelVars, workVars
<1>2. ~ disorder' => Ordered
  <2>1. disorder' = disorder
    BY DEF PushWrite, Push
  <2> QED BY <2>1, Zenon DEF OrderInv
<1>3. wpc'[w] = "idle" /\ \A v \in Writers \ {w} : wpc'[v] = wpc[v]
  BY <1>1 DEF TypeInv
<1>4. Parts' = Parts /\ Rests' = Rests /\ Senders' = Senders /\ Broken' = Broken
  BY <1>1 DEF Parts, Rests, Senders, Broken
<1>5. Given' = Given /\ Back' = Back /\ Resting' = Resting /\ Taken' = Taken
  BY <1>1, <1>4 DEF Given, Back, Resting, Taken
<1>6. Active' = Active /\ OnWay' = OnWay
  BY <1>5 DEF Active, OnWay
<1>7. Sending' \subseteq Sending \ {w}
  BY <1>3 DEF Sending
<1> DEFINE m == msg(w)
<1>8. m \in Msgs /\ m[1] = w /\ m \in Writing
  <2>1. w \in Holders
    BY <1>1 DEF Holders
  <2> QED BY <1>1, <2>1, Message DEF Writing
<1>9. send_queue \in Seq(Msgs \cup {nullptr}) /\ m \in Msgs \cup {nullptr}
  BY <1>8 DEF TypeInv
<1> DEFINE n == Len(send_queue) + 1
<1>10. /\ send_queue' # << >>
       /\ \A i \in DOMAIN send_queue : send_queue'[i] = send_queue[i] /\ i \in Nat /\ i < n
       /\ \A i \in DOMAIN send_queue' : i \in DOMAIN send_queue \/ i = n
       /\ send_queue'[n] = m /\ n \in Nat
  BY <1>1, <1>9, AppendSeq
<1>11. ASSUME NEW x \in Active \cup Queued, x[1] = w
       PROVE  x[2] < m[2]
  <2>1. x \in Begun /\ x # m
    BY <1>8, <1>11 DEF ClaimInv, Apart, Fresh, Active, OnWay
  <2> QED BY <1>11, <2>1, Older
<1>12. ASSUME NEW i \in DOMAIN wire, wire[i][1][1] = w
       PROVE  wire[i][1][2] <= m[2]
  <2>1. wire[i][1] \in Begun
    BY DEF ClaimInv, Fresh
  <2> QED BY <1>12, <2>1, Older
<1> HIDE DEF m, n
<1>13. Queued' \subseteq Queued \cup {m}
  BY <1>10 DEF Queued
<1>14. QueueOrder'
  <2> SUFFICES ASSUME NEW i \in DOMAIN send_queue', NEW j \in DOMAIN send_queue', i < j,
                      send_queue'[i] # nullptr, send_queue'[j] # nullptr,
                      send_queue'[i][1] = send_queue'[j][1]
               PROVE  send_queue'[i][2] < send_queue'[j][2]
    BY DEF QueueOrder
  <2>1. i \in DOMAIN send_queue
    BY <1>10
  <2>2. CASE j \in DOMAIN send_queue
    BY <1>10, <2>1, <2>2 DEF OrderInv, QueueOrder
  <2>3. CASE j = n
    <3>1. send_queue[i] \in Queued /\ send_queue'[i] = send_queue[i] /\ send_queue'[j] = m
      BY <1>10, <2>1, <2>3 DEF Queued
    <3> QED BY <1>8, <1>11, <3>1
  <2> QED BY <1>10, <2>2, <2>3
<1>15. ASSUME Ordered PROVE Ordered'
  <2>1. OneActive'
    BY <1>6, <1>15 DEF Ordered, OneActive
  <2>2. Guarded'
    BY <1>4, <1>6, <1>7, <1>10, <1>15 DEF Ordered, Guarded
  <2>3. ActiveFirst'
    BY <1>6, <1>7, <1>8, <1>11, <1>13, <1>15 DEF Ordered, ActiveFirst
  <2>4. WireFirst'
    BY <1>1, <1>6, <1>8, <1>12, <1>13, <1>15 DEF Ordered, WireFirst
  <2>5. LastOnWire'
    BY <1>1, <1>6, <1>15 DEF Ordered, LastOnWire
  <2>6. WireOrder'
    BY <1>1, <1>15 DEF Ordered, WireOrder
  <2> QED BY <2>1, <2>2, <2>3, <2>4, <2>5, <2>6 DEF Ordered
<1> QED BY <1>2, <1>14, <1>15

LEMMA OrderSendWrite ==
    ASSUME TypeInv, ClaimInv, OrderInv, NEW w \in Writers, SendWrite(w), ~ disorder'
    PROVE  Ordered'
<1>1. UNCHANGED <<sock, peer, send_queue, pc, cur, next>> /\ wpc[w] = "send"
  BY DEF SendWrite, workVars
<1>2. ~ disorder
  BY Zenon DEF SendWrite, Noted
<1> DEFINE m == msg(w)
<1>3. /\ Submits(m, Size[m])
      /\ \/ wpc' = [wpc EXCEPT ![w] = "idle"] /\ outs' = outs
         \/ wpc' = [wpc EXCEPT ![w] = "mark"]
  BY DEF SendWrite, Submits, Place, AtOnce, SendFails
<1>4. /\ wpc'[w] \in {"idle", "mark"} /\ (outs' # outs => wpc'[w] = "mark")
      /\ \A v \in Writers \ {w} : wpc'[v] = wpc[v]
  BY <1>3 DEF TypeInv
<1>5. Rests' = Rests /\ Senders' = Senders
  BY <1>1 DEF Rests, Senders
<1>6. Taken' = Taken /\ Resting' = Resting
  BY <1>1, <1>5 DEF Taken, Resting
<1>7. w \in Sending /\ Sending' \subseteq Sending \ {w}
  BY <1>1, <1>4 DEF Sending
<1>8. m \in Msgs /\ <<m, Size[m]>> \in Pieces /\ m[1] = w /\ m \in Writing
  <2>1. w \in Holders
    BY <1>1 DEF Holders
  <2> QED BY <1>1, <2>1, Message DEF Writing
<1>9. Ordered
  BY <1>2 DEF OrderInv
<1>10. ASSUME ~ Broken
       PROVE  /\ Active = {} /\ Sending' = {}
              /\ Marking' \/ (outs' = outs /\ OnWay = {})
  <2>1. Active = {} /\ Sending' = {}
    BY <1>7, <1>9, <1>10 DEF Ordered, Guarded
  <2> QED BY <1>4, <2>1 DEF Marking, Active
<1>11. \A q \in Queued : q[1] # w
  BY <1>7, <1>9 DEF Ordered, ActiveFirst
<1>12. ASSUME NEW i \in DOMAIN wire
       PROVE  wire[i][1] # m /\ (wire[i][1][1] = w => wire[i][1][2] <= m[2])
  <2>1. wire[i][1] \in Begun /\ wire[i][1] # m
    BY <1>8 DEF ClaimInv, Fresh, Unsent
  <2> QED BY <2>1, Older
<1> HIDE DEF m
<1> QED BY <1>1, <1>3, <1>6, <1>7, <1>8, <1>9, <1>10, <1>11, <1>12, OrderSubmits

LEMMA OrderWrites ==
    ASSUME TypeInv, OrderInv, NEW w \in Writers, Write(w) \/ MarkWrite(w), ~ disorder'
    PROVE  Ordered'
<1>1. /\ UNCHANGED <<sock, peer, outs, port, wire, pc, cur, next>>
      /\ send_queue' = send_queue \/ send_queue' = Append(send_queue, nullptr)
  BY DEF Write, MarkWrite, Push, kernelVars, workVars
<1>2. ~ disorder
  BY Zenon DEF Write, MarkWrite, Push, ghosts
<1>3. Parts' = Parts /\ Rests' = Rests /\ Senders' = Senders /\ Broken' = Broken
  BY <1>1 DEF Parts, Rests, Senders, Broken
<1>4. Given' = Given /\ Back' = Back /\ Resting' = Resting /\ Taken' = Taken
  BY <1>1, <1>3 DEF Given, Back, Resting, Taken
<1>5. Active' = Active /\ OnWay' = OnWay
  BY <1>4 DEF Active, OnWay
<1>6. Ordered
  BY <1>2 DEF OrderInv
<1>7. CASE Write(w)
  <2>1. wpc[w] = "idle" /\ wpc' = [wpc EXCEPT ![w] = "test"] /\ send_queue' = send_queue
    BY <1>7 DEF Write
  <2>2. wpc'[w] = "test" /\ \A v \in Writers \ {w} : wpc'[v] = wpc[v]
    BY <2>1 DEF TypeInv
  <2>3. Sending' \subseteq Sending /\ Queued' = Queued
    BY <2>1, <2>2 DEF Sending, Queued
  <2>4. Marking => Marking'
    BY <1>1, <2>1, <2>2 DEF Marking
  <2>5. ~ Broken' /\ OnWay' # {} => send_queue' # << >> \/ Marking'
    BY <1>3, <1>5, <1>6, <2>1, <2>4 DEF Ordered, Guarded
  <2> QED BY <1>1, <1>3, <1>5, <1>6, <2>3, <2>5, OrderedKept
<1>8. CASE MarkWrite(w)
  <2>1. wpc' = [wpc EXCEPT ![w] = "idle"] /\ send_queue' = Append(send_queue, nullptr)
    BY <1>8 DEF MarkWrite, Place, Push
  <2>2. Sending' \subseteq Sending
    BY <2>1 DEF Sending, TypeInv
  <2>3. send_queue \in Seq(Msgs \cup {nullptr}) /\ nullptr \in Msgs \cup {nullptr}
    BY DEF TypeInv
  <2>4. /\ send_queue' # << >>
        /\ \A i \in DOMAIN send_queue : send_queue'[i] = send_queue[i]
        /\ \A i \in DOMAIN send_queue' : i \in DOMAIN send_queue \/ i = Len(send_queue) + 1
        /\ send_queue'[Len(send_queue) + 1] = nullptr
    BY <2>1, <2>3, AppendSeq
  <2>5. Queued' \subseteq Queued
    BY <2>4 DEF Queued
  <2> QED BY <1>1, <1>3, <1>5, <1>6, <2>2, <2>4, <2>5, OrderedKept
<1> QED BY <1>7, <1>8

\* Whatever happens to the queue, the messages of a writer stay in it in order.
LEMMA QueueStep ==
    ASSUME TypeInv, ClaimInv, OrderInv, [Next]_vars
    PROVE  QueueOrder'
<1>1. send_queue \in Seq(Msgs \cup {nullptr}) /\ nullptr \in Msgs \cup {nullptr}
  BY DEF TypeInv
<1>2. DOMAIN send_queue \subseteq Nat
  BY <1>1, SeqElements
<1>3. CASE send_queue' = send_queue
  BY <1>3 DEF OrderInv, QueueOrder
<1>4. CASE send_queue' = << >>
  <2>1. DOMAIN send_queue' = {}
    BY <1>4, SeqElements
  <2> QED BY <2>1 DEF QueueOrder
<1>5. CASE send_queue' = Append(send_queue, nullptr)
  <2>1. \A i \in DOMAIN send_queue' :
           send_queue'[i] = nullptr \/ (i \in DOMAIN send_queue /\ send_queue'[i] = send_queue[i])
    BY <1>1, <1>5, AppendSeq
  <2>2. \A i \in DOMAIN send_queue : i \in Nat /\ 0 + i = i /\ 0 \in Nat
    BY <1>2
  <2> QED BY <1>2, <2>1, <2>2, QueueShrinks
<1>6. ASSUME NEW t \in Workers, Pop(t) PROVE QueueOrder'
  <2>1. CASE send_queue = << >>
    BY <1>3, <1>6, <2>1, PopsNothing
  <2>2. CASE send_queue # << >>
    <3>1. \A j \in DOMAIN send_queue' :
             /\ j \in Nat \ {0} /\ 1 + j \in DOMAIN send_queue
             /\ send_queue'[j] = send_queue[1 + j]
      BY <1>6, <2>2, Pops
    <3>2. 1 \in Nat
      OBVIOUS
    <3> QED BY <1>2, <3>1, <3>2, QueueShrinks
  <2> QED BY <2>1, <2>2
<1>7. \/ send_queue' = send_queue \/ send_queue' = << >> \/ send_queue' = Append(send_queue, nullptr)
      \/ \E t \in Workers : Pop(t)
      \/ \E w \in Writers : PushWrite(w)
  <2>1. CASE UNCHANGED vars
    BY <2>1 DEF vars
  <2>2. CASE PeerSends \/ PeerCloses \/ Kernel \/ WSAAccept \/ Accept \/ ListenEnds \/ Disconnect
    BY <2>2 DEF PeerSends, PeerCloses, Kernel, RecvCompletes, SendCompletes, WSAAccept, Accept,
       Register, OnAccept, ListenEnds, Disconnect
  <2>3. ASSUME NEW t \in Workers, Work(t) PROVE <1>7!1 \/ <1>7!2 \/ <1>7!3 \/ Pop(t)
    BY <2>3 DEF Work, GetQueuedCompletionStatus, OnDisconnect, TestEmpty, Front, SendNext, MarkNext,
       SendRest, OnRecv, WSARecv
  <2>4. ASSUME NEW w \in Writers, Write(w) \/ WriteSteps(w)
        PROVE  <1>7!1 \/ <1>7!3 \/ PushWrite(w)
    BY <2>4 DEF Write, WriteSteps, TestQueue, SendWrite, MarkWrite, Push
  <2> QED BY <2>1, <2>2, <2>3, <2>4 DEF Next
<1> QED BY <1>3, <1>4, <1>5, <1>6, <1>7, OrderPushes

LEMMA OrderStep ==
    TypeInv /\ HeadInv /\ ClaimInv /\ BreakInv /\ OrderInv /\ [Next]_vars => OrderInv'
<1> SUFFICES ASSUME TypeInv, HeadInv, ClaimInv, BreakInv, OrderInv, [Next]_vars, ~ disorder'
             PROVE  Ordered'
  BY QueueStep DEF OrderInv
<1>1. CASE UNCHANGED vars
  <2>1. UNCHANGED <<sock, peer, outs, port, wire, send_queue, pc, cur, next, wpc, written>>
    BY <1>1 DEF vars, kernelVars, workVars, writeVars
  <2>2. Ordered
    <3>1. disorder' = disorder
      BY <1>1 DEF vars, ghosts
    <3> QED BY <3>1, Zenon DEF OrderInv
  <2>3. /\ Parts' = Parts /\ Rests' = Rests /\ Senders' = Senders /\ Sending' = Sending
        /\ Marking' = Marking /\ Broken' = Broken
    BY <2>1 DEF Parts, Rests, Senders, Sending, Marking, Broken
  <2>4. /\ Queued' = Queued /\ Taken' = Taken /\ Given' = Given
        /\ Back' = Back /\ Resting' = Resting
    BY <2>1, <2>3 DEF Queued, Taken, Given, Back, Resting
  <2>5. Active' = Active /\ OnWay' = OnWay
    BY <2>4 DEF Active, OnWay
  <2>6. ~ Broken' /\ OnWay' # {} => send_queue' # << >> \/ Marking'
    BY <2>1, <2>2, <2>3, <2>5 DEF Ordered, Guarded
  <2> QED BY <2>1, <2>2, <2>3, <2>4, <2>5, <2>6, OrderedKept
<1>2. CASE Outside
  BY <1>2, OrderOutside
<1>3. CASE SendCompletes
  BY <1>3, OrderCompletes
<1>4. CASE \E t \in Workers : Work(t)
  BY <1>4, OrderTakes, OrderLooks, OrderPops, OrderSends, OrderRest DEF Work
<1>5. CASE \E w \in Writers : Write(w) \/ WriteSteps(w)
  BY <1>5, OrderWrites, OrderTest, OrderPushes, OrderSendWrite DEF WriteSteps
<1> QED BY <1>1, <1>2, <1>3, <1>4, <1>5 DEF Next, Kernel, Outside

-----------------------------------------------------------------------------
(* The first entry of the queue, between front and pop. *)

LEMMA HeadKept ==
    ASSUME TypeInv, HeadInv,
           \/ send_queue' = send_queue
           \/ \E x \in Msgs \cup {nullptr} : send_queue' = Append(send_queue, x),
           \A u \in Workers : pc'[u] = "take" => pc[u] = "take" /\ next'[u] = next[u]
    PROVE  HeadInv'
<1>1. send_queue # << >> => send_queue' # << >> /\ send_queue'[1] = send_queue[1]
  <2>1. CASE send_queue' = send_queue
    BY <2>1
  <2>2. ASSUME NEW x \in Msgs \cup {nullptr}, send_queue' = Append(send_queue, x), send_queue # << >>
        PROVE  send_queue' # << >> /\ send_queue'[1] = send_queue[1]
    <3>1. send_queue \in Seq(Msgs \cup {nullptr})
      BY DEF TypeInv
    <3>2. 1 \in DOMAIN send_queue
      BY <2>2, <3>1, TailSeq
    <3>3. send_queue' # << >> /\ \A i \in DOMAIN send_queue : send_queue'[i] = send_queue[i]
      BY <2>2, <3>1, AppendSeq
    <3> QED BY <3>2, <3>3
  <2> QED BY <2>1, <2>2
<1> QED BY <1>1 DEF HeadInv

LEMMA HeadStep ==
    ASSUME TypeInv, HeadInv, [Next]_vars, ~ clashed'
    PROVE  HeadInv'
<1>1. pc \in [Workers -> WorkerPlaces] /\ next \in [Workers -> Msgs \cup {nullptr}]
  BY DEF TypeInv
<1>2. ASSUME UNCHANGED <<send_queue, pc, next>> PROVE HeadInv'
  BY <1>2 DEF HeadInv
<1>3. CASE UNCHANGED vars
  BY <1>2, <1>3 DEF vars, workVars
<1>4. CASE PeerSends \/ PeerCloses \/ Kernel \/ WSAAccept \/ Accept \/ ListenEnds \/ Disconnect
  BY <1>2, <1>4 DEF PeerSends, PeerCloses, Kernel, RecvCompletes, SendCompletes, WSAAccept, Accept,
     Register, OnAccept, ListenEnds, Disconnect, workVars
<1>5. ASSUME NEW w \in Writers, Write(w) \/ WriteSteps(w) PROVE HeadInv'
  <2>1. pc' = pc /\ next' = next
    BY <1>5 DEF Write, WriteSteps, TestQueue, PushWrite, SendWrite, MarkWrite, workVars
  <2>2. CASE PushWrite(w)
    <3>1. send_queue' = Append(send_queue, msg(w)) /\ wpc[w] # "idle"
      BY <2>2 DEF PushWrite, Push
    <3>2. msg(w) \in Msgs \cup {nullptr}
      BY <3>1, Message
    <3> QED BY <2>1, <3>1, <3>2, HeadKept
  <2>3. CASE Write(w) \/ TestQueue(w) \/ SendWrite(w) \/ MarkWrite(w)
    <3>1. send_queue' = send_queue \/ send_queue' = Append(send_queue, nullptr)
      BY <2>3 DEF Write, TestQueue, SendWrite, MarkWrite, Push
    <3> QED BY <2>1, <3>1, HeadKept
  <2> QED BY <1>5, <2>2, <2>3 DEF WriteSteps
<1>6. ASSUME NEW t \in Workers, Work(t) PROVE HeadInv'
  <2>1. CASE GetQueuedCompletionStatus(t)
    <3>1. UNCHANGED <<send_queue, next>>
      BY <2>1 DEF GetQueuedCompletionStatus
    <3>2. pc'[t] = PlaceFor(port[1]) /\ port[1] \in Packets /\ \A u \in Workers \ {t} : pc'[u] = pc[u]
      BY <2>1, Takes
    <3>3. pc'[t] # "take"
      BY <3>2, Places
    <3> QED BY <3>1, <3>2, <3>3, HeadKept
  <2>2. CASE OnDisconnect(t)
    <3>1. ~ Held(t)
      BY <2>2, Zenon DEF OnDisconnect
    <3>2. pc' = [pc EXCEPT ![t] = "idle"]
      BY <2>2 DEF OnDisconnect, Free
    <3>3. \A u \in Workers : pc'[u] # "take"
      BY <1>1, <3>1, <3>2 DEF Held
    <3> QED BY <3>3 DEF HeadInv
  <2>3. CASE Front(t)
    <3>1. ~ Held(t) /\ send_queue # << >>
      BY <2>3, Zenon DEF Front
    <3>2. /\ next' = [next EXCEPT ![t] = Head(send_queue)] /\ pc' = [pc EXCEPT ![t] = "take"]
          /\ send_queue' = send_queue
      BY <2>3, <3>1 DEF Front
    <3>3. Head(send_queue) = send_queue[1]
      BY <3>1, TailSeq DEF TypeInv
    <3>4. next'[t] = send_queue[1] /\ \A u \in Workers : u # t => pc'[u] # "take"
      BY <1>1, <3>1, <3>2, <3>3 DEF Held
    <3> QED BY <3>1, <3>2, <3>4 DEF HeadInv
  <2>4. CASE Pop(t)
    <3>1. pc[t] = "take"
      BY <2>4 DEF Pop
    <3>2. pc'[t] # "take" /\ \A u \in Workers \ {t} : pc'[u] = pc[u]
      BY <1>1, <2>4 DEF Pop, Goto, AfterPop
    <3>3. \A u \in Workers : pc'[u] # "take"
      BY <3>1, <3>2 DEF HeadInv
    <3> QED BY <3>3 DEF HeadInv
  <2>5. CASE TestEmpty(t) \/ SendNext(t) \/ MarkNext(t) \/ SendRest(t) \/ OnRecv(t) \/ WSARecv(t)
    <3>1. \/ Free(t) \/ Dies(t) \/ Goto(t, "rearm") \/ Goto(t, "mark")
          \/ Goto(t, "front") \/ Goto(t, "lost")
      BY <2>5 DEF TestEmpty, SendNext, MarkNext, SendRest, OnRecv, WSARecv, Goto
    <3>2. send_queue' = send_queue \/ send_queue' = Append(send_queue, nullptr)
      BY <2>5 DEF TestEmpty, SendNext, MarkNext, SendRest, OnRecv, WSARecv
    <3>3. /\ pc'[t] # "take"
          /\ \A u \in Workers \ {t} : pc'[u] = pc[u] /\ next'[u] = next[u]
      BY <3>1, Leaves
    <3> QED BY <3>2, <3>3, HeadKept
  <2> QED BY <1>6, <2>1, <2>2, <2>3, <2>4, <2>5 DEF Work
<1> QED BY <1>3, <1>4, <1>5, <1>6 DEF Next

-----------------------------------------------------------------------------
LEMMA InitInv == Init => Inv
<1> SUFFICES ASSUME Init PROVE Inv
  OBVIOUS
<1>1. DOMAIN outs = {} /\ DOMAIN port = {} /\ DOMAIN wire = {} /\ DOMAIN send_queue = {}
  BY SeqElements DEF Init
<1>2. Parts = {} /\ Rests = {} /\ Senders = {} /\ Holders = {} /\ Sending = {}
  BY <1>1 DEF Init, Parts, Rests, Senders, Holders, Sending
<1>3. /\ Writing = {} /\ Queued = {} /\ Taken = {} /\ Given = {} /\ Back = {} /\ Resting = {}
      /\ Active = {} /\ OnWay = {}
  BY <1>1, <1>2 DEF Writing, Queued, Taken, Given, Back, Resting, Active, OnWay
<1>4. TypeInv
  BY InitType
<1>5. QuietInv
  BY DEF Init, QuietInv
<1>6. ClaimInv
  <2>1. Apart /\ Fresh
    BY <1>1, <1>3 DEF Apart, Fresh
  <2>2. Single /\ Unsent /\ InTurn
    BY <1>1, <1>2 DEF Single, Unsent, InTurn
  <2> QED BY <2>1, <2>2 DEF ClaimInv
<1>7. BreakInv
  <2>1. \A t \in Workers : ~ cur[t].err
    BY DEF Init, Nothing
  <2> QED BY <1>1, <2>1 DEF Init, BreakInv
<1>8. OrderInv
  <2>1. OneActive /\ Guarded /\ ActiveFirst
    BY <1>2, <1>3 DEF OneActive, Guarded, ActiveFirst
  <2>2. WireFirst /\ LastOnWire /\ WireOrder /\ QueueOrder
    BY <1>1 DEF WireFirst, LastOnWire, WireOrder, QueueOrder
  <2> QED BY <2>1, <2>2 DEF Ordered, OrderInv
<1>9. HeadInv
  BY DEF Init, HeadInv
<1> QED BY <1>4, <1>5, <1>6, <1>7, <1>8, <1>9 DEF Inv

LEMMA SpecInv == Spec => []Inv
<1>1. Inv /\ [Next]_vars => Inv'
  <2> SUFFICES ASSUME Inv, [Next]_vars PROVE Inv'
    OBVIOUS
  <2>1. TypeInv /\ BreakInv /\ QuietInv
    BY Zenon DEF Inv
  <2>2. TypeInv' /\ BreakInv' /\ QuietInv'
    BY <2>1, TypeStep, QuietStep, BreakStep
  <2>3. ASSUME ~ clashed' PROVE HeadInv' /\ ClaimInv' /\ OrderInv'
    <3>1. ~ clashed
      BY <2>3, ClashKept, Zenon
    <3>2. HeadInv /\ ClaimInv /\ OrderInv
      BY <3>1, Zenon DEF Inv
    <3>3. HeadInv'
      BY <2>1, <2>3, <3>2, HeadStep, Zenon
    <3> QED BY <2>1, <3>2, <3>3, ClaimStep, OrderStep, Zenon
  <2> QED BY <2>2, <2>3, Zenon DEF Inv
<1> QED BY InitInv, <1>1, PTL DEF Spec

\* SocketAccept frees the structures of a connection once: a second packet
\* ends it, or a packet still comes, only if the first end was taken while
\* something else was under way.
THEOREM FreedOnceOnly == Spec => []FreedOnce
<1>1. Inv => FreedOnce
  <2> SUFFICES ASSUME TypeInv, QuietInv, ~ busyEnd,
                      ends > 1 \/ (handle = "freed" /\ (recv \/ SendUnderWay \/ \E t \in Workers : Busy(t)))
               PROVE  FALSE
    BY Zenon DEF Inv, FreedOnce
  <2>1. ends \in Nat /\ (handle = "freed" => ends > 0)
    BY DEF TypeInv, QuietInv
  <2>2. ends > 0 => ends = 1
    BY Zenon DEF QuietInv
  <2>3. ends > 0 /\ handle = "freed"
    BY <2>1, <2>2
  <2>4. /\ ~ recv /\ outs = << >> /\ port = << >>
        /\ \A t \in Workers : ~ Busy(t)
    BY <2>3, Zenon DEF QuietInv
  <2>5. DOMAIN port = {}
    BY <2>4, SeqElements
  <2>6. ~ SendUnderWay
    BY <2>4, <2>5 DEF SendUnderWay
  <2>7. ~ (ends > 1)
    BY <2>1, <2>2
  <2> QED BY <2>4, <2>6, <2>7, Zenon
<1> QED BY <1>1, SpecInv, PTL

\* No byte of a message goes out twice, and the bytes of a message go out in
\* their order, however transfers are divided and whichever threads submit the
\* rests, unless two workers were at the front of the queue at once: until
\* then there is never more than one place that still means to send a message.
THEOREM BytesOnce == Spec => []NeverTwice
<1>1. Inv => NeverTwice
  BY Zenon DEF Inv, ClaimInv, InTurn, NeverTwice
<1> QED BY <1>1, SpecInv, PTL

\* Messages of a writer leave in the order of its Writes and each in one
\* piece, unless two workers were at the front of the queue at once, or a
\* thread passed by the queue while another was between its look at the queue
\* and its mark.
THEOREM MessagesInOrder == Spec => []SentInOrder
<1>1. Inv => SentInOrder
  BY Zenon DEF Inv, OrderInv, Ordered, WireOrder, SentInOrder
<1> QED BY <1>1, SpecInv, PTL

=============================================================================
