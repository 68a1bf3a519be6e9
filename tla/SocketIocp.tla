----------------------------- MODULE SocketIocp -----------------------------
(***************************************************************************)
(* SocketAccept of the Windows build, for one accepted connection: the     *)
(* accept loop that arms the first receive, the threads that serve the     *)
(* completion port, and application threads that call Write and            *)
(* Disconnect.  Connections share nothing but the threads, and a thread    *)
(* keeps nothing from one packet to the next.                              *)
(*                                                                         *)
(* Only one send of a socket should be pending: send_queue_map_ holds what *)
(* must wait, with a nullptr for the send that is pending.  No lock guards *)
(* it; every call of empty, front, pop and push is a step of its own.      *)
(***************************************************************************)
EXTENDS Naturals, Sequences

CONSTANTS Workers,     \* threads in ServerWorkThread
          Writers,     \* application threads
          Quota,       \* Quota[w]: bound: messages that w writes, one after the other
          Size,        \* Size[m]: bytes of message m, the k-th of w being <<w, k>>
          Portions,    \* bound: data the peer sends, in portions of one receive
          Disconnects, \* bound: calls of Disconnect
          nullptr      \* the mark of a pending send

Msgs == UNION {{<<w, k>> : k \in 1..Quota[w]} : w \in Writers}

ASSUME IocpAssumption ==
    /\ Quota \in [Writers -> Nat] /\ Size \in [Msgs -> Nat \ {0}]
    /\ Portions \in Nat /\ Disconnects \in Nat /\ nullptr \notin Msgs
    /\ Workers \cap Writers = {}

VARIABLES
    listen,          \* accept loop: "accept", "register", "tell", "on", "ended"
    sock, peer,      \* our socket: "none", "open", "closed"; the peer's end: also "reset"
    recv,            \* the receive operation is with the kernel
    unread, sent,    \* portions that wait, portions the peer sent
    outs,            \* sends with the kernel, in the order of submission: <<m, bytes left>>
    port,            \* completion port: packets that no thread has taken
    wire,            \* what went out: <<m, bytes left before, bytes left after>> per transfer
    known,           \* the connection is in both maps of endpoints
    send_queue,      \* send_queue_map_[socket]
    handle,          \* pHandleData: "none", "live", "freed"
    pc, cur, next,   \* per worker: place, packet, message taken from the queue
    wpc, written,    \* per writer: place, messages begun
    calls,           \* Disconnect: calls made so far
    refused,         \* messages whose Write returned false
    told,            \* what the handler was told last: "none", "open", "closed"
    received, early, \* ghosts: portions given to OnRecv, dropped before Register
    ends,            \* ghost: packets of an end taken
    busyEnd,         \* ghost: the end was taken while more was under way
    late,            \* ghost: the queue was filled when no send was under way
    disorder,        \* ghost: a thread found the queue empty, or took from it, while
                     \* another was submitting a send, or one was pending
    clashed          \* ghost: an entry was looked at twice before it was removed, the
                     \* queue was erased between the two, or was empty for front()

kernelVars == <<sock, peer, recv, unread, sent, outs, port, wire>>
workVars == <<pc, cur, next>>
writeVars == <<wpc, written, refused>>
tellVars == <<told, received, early>>
ghosts == <<ends, busyEnd, late, disorder, clashed>>
vars == <<listen, kernelVars, known, send_queue, handle, workVars, writeVars, calls, tellVars, ghosts>>

Nothing == [op |-> "none", m |-> nullptr, bytes |-> 0, left |-> 0, err |-> FALSE]
Packet(op, m, bytes, left, err) == [op |-> op, m |-> m, bytes |-> bytes, left |-> left, err |-> err]

Init ==
    /\ listen = "accept" /\ sock = "none" /\ peer = "none" /\ recv = FALSE
    /\ unread = 0 /\ sent = 0 /\ outs = << >> /\ port = << >> /\ wire = << >>
    /\ known = FALSE /\ send_queue = << >> /\ handle = "none"
    /\ pc = [t \in Workers |-> "idle"] /\ cur = [t \in Workers |-> Nothing]
    /\ next = [t \in Workers |-> nullptr]
    /\ wpc = [w \in Writers |-> "idle"] /\ written = [w \in Writers |-> 0]
    /\ calls = 0 /\ refused = {}
    /\ told = "none" /\ received = 0 /\ early = 0
    /\ ends = 0 /\ busyEnd = FALSE /\ late = FALSE /\ disorder = FALSE /\ clashed = FALSE

Busy(t) == pc[t] \notin {"idle", "dead"}

\* A send is with the kernel, in the port or in the hands of a worker.
SendUnderWay ==
    \/ outs # << >> \/ \E i \in DOMAIN port : port[i].op = "send"
    \/ \E t \in Workers : Busy(t) /\ cur[t].op = "send"

-----------------------------------------------------------------------------
(* The peer and the kernel. *)

PeerSends ==
    /\ peer = "open" /\ sent < Portions
    /\ sent' = sent + 1 /\ unread' = unread + 1
    /\ UNCHANGED <<listen, sock, peer, recv, outs, port, wire, known, send_queue, handle,
                   workVars, writeVars, calls, tellVars, ghosts>>

PeerCloses ==
    /\ peer = "open" /\ peer' \in {"closed", "reset"}
    /\ UNCHANGED <<listen, sock, recv, unread, sent, outs, port, wire, known, send_queue,
                   handle, workVars, writeVars, calls, tellVars, ghosts>>

Broken == sock = "closed" \/ peer = "reset"

\* A receive ends with data, with no byte when the peer has closed, or with
\* an error after a reset or when the socket was closed here.
RecvCompletes ==
    /\ recv /\ recv' = FALSE
    /\ \/ /\ sock = "open" /\ unread > 0
          /\ unread' = unread - 1
          /\ port' = Append(port, Packet("recv", nullptr, 1, 0, FALSE))
       \/ /\ sock = "open" /\ unread = 0 /\ peer = "closed"
          /\ port' = Append(port, Packet("recv", nullptr, 0, 0, FALSE))
          /\ UNCHANGED unread
       \/ /\ Broken
          /\ port' = Append(port, Packet("recv", nullptr, 0, 0, TRUE))
          /\ UNCHANGED unread
    /\ UNCHANGED <<listen, sock, peer, sent, outs, wire, known, send_queue, handle, workVars,
                   writeVars, calls, tellVars, ghosts>>

\* The oldest send transfers some or all of its bytes, or fails.
SendCompletes ==
    /\ outs # << >> /\ outs' = Tail(outs)
    /\ LET m == Head(outs)[1]
           left == Head(outs)[2]
       IN  \/ /\ sock = "open"
              /\ \E n \in 1..left :
                    /\ wire' = Append(wire, <<m, left, left - n>>)
                    /\ port' = Append(port, Packet("send", m, n, left - n, FALSE))
           \/ /\ Broken
              /\ port' = Append(port, Packet("send", m, 0, left, TRUE))
              /\ UNCHANGED wire
    /\ UNCHANGED <<listen, sock, peer, recv, unread, sent, known, send_queue, handle, workVars,
                   writeVars, calls, tellVars, ghosts>>

\* WSASend: transferred at once, or pending behind what is with the kernel.
\* A packet comes in both cases.
AtOnce(m, n) ==
    /\ ~ Broken /\ outs = << >>
    /\ wire' = Append(wire, <<m, n, 0>>)
    /\ port' = Append(port, Packet("send", m, n, 0, FALSE))
    /\ UNCHANGED outs
Pending(m, n) ==
    /\ ~ Broken
    /\ outs' = Append(outs, <<m, n>>)
    /\ UNCHANGED <<wire, port>>
SendFails == Broken /\ UNCHANGED <<wire, port, outs>>

\* Ghosts of a submission: it is too late once the end was taken.
Noted == busyEnd' = (busyEnd \/ (ends > 0 /\ ~ Broken)) /\ UNCHANGED <<ends, late, disorder, clashed>>

\* A send is with the kernel, or came back with a part of its bytes.
Unfinished == outs # << >> \/ \E i \in DOMAIN port : port[i].op = "send" /\ port[i].left > 0

\* Another thread than x has still to submit a send, or to push its mark.
Unsettled(x) ==
    \/ \E t \in Workers \ {x} : pc[t] \in {"send", "rest", "mark"}
    \/ \E w \in Writers \ {x} : wpc[w] \in {"send", "mark"}

-----------------------------------------------------------------------------
(* The accept loop: the first receive is armed before the maps know the    *)
(* socket and before the handler does.                                     *)

WSAAccept ==
    /\ listen = "accept"
    /\ listen' = "register" /\ sock' = "open" /\ peer' = "open"
    /\ handle' = "live" /\ recv' = TRUE
    /\ UNCHANGED <<unread, sent, outs, port, wire, known, send_queue, workVars, writeVars,
                   calls, tellVars, ghosts>>

FillMaps == known' = TRUE

Register ==
    /\ listen = "register" /\ listen' = "tell" /\ FillMaps
    /\ UNCHANGED <<kernelVars, send_queue, handle, workVars, writeVars, calls, tellVars, ghosts>>

OnAccept ==
    /\ listen = "tell" /\ listen' = "on" /\ told' = "open"
    /\ UNCHANGED <<kernelVars, known, send_queue, handle, workVars, writeVars, calls, received,
                   early, ghosts>>

\* A later WSAAccept fails: the port is closed, and local_port_ is 0, so that
\* no endpoint is found any more.
ListenEnds ==
    /\ listen = "on" /\ listen' = "ended" /\ port' = << >>
    /\ UNCHANGED <<sock, peer, recv, unread, sent, outs, wire, known, send_queue, handle,
                   workVars, writeVars, calls, tellVars, ghosts>>

-----------------------------------------------------------------------------
(* ServerWorkThread *)

Free(t) ==
    /\ pc' = [pc EXCEPT ![t] = "idle"] /\ cur' = [cur EXCEPT ![t] = Nothing]
    /\ next' = [next EXCEPT ![t] = nullptr]
\* return 0: the thread is gone, and what it holds is never freed.
Dies(t) == pc' = [pc EXCEPT ![t] = "dead"] /\ UNCHANGED <<cur, next>>
Goto(t, place) == pc' = [pc EXCEPT ![t] = place] /\ UNCHANGED <<cur, next>>

IsEnd(p) == p.bytes = 0 \/ p.err

all_bytes_transferred(p) == p.left = 0

PlaceFor(p) ==
    IF IsEnd(p) THEN "end"
    ELSE IF p.op = "recv" THEN "recv"
    ELSE IF all_bytes_transferred(p) THEN "pop" ELSE "rest"

GetQueuedCompletionStatus(t) ==
    /\ pc[t] = "idle" /\ port # << >> /\ listen # "ended"
    /\ port' = Tail(port)
    /\ cur' = [cur EXCEPT ![t] = Head(port)]
    /\ pc' = [pc EXCEPT ![t] = PlaceFor(Head(port))]
    /\ ends' = IF IsEnd(Head(port)) THEN ends + 1 ELSE ends
    /\ busyEnd' = \/ busyEnd
                  \/ /\ IsEnd(Head(port))
                     /\ \/ recv \/ outs # << >> \/ Len(port) > 1 \/ listen # "on"
                        \/ \E u \in Workers : Busy(u)
    /\ UNCHANGED <<listen, sock, peer, recv, unread, sent, outs, wire, known, send_queue, handle,
                   next, writeVars, calls, tellVars, late, disorder, clashed>>

\* Faulty variant: the socket stays open.
LeaveOpen(p) == UNCHANGED sock
\* Without an error, no Disconnect has closed the socket.
CloseSocket(p) == sock' = IF p.err THEN sock ELSE "closed"

\* Another worker than t is between front and pop.
Held(t) == \E u \in Workers \ {t} : pc[u] = "take"

\* OnDisconnect if the socket is known, then the maps, the queue, the socket
\* and both structures.
OnDisconnect(t) ==
    /\ pc[t] = "end"
    /\ told' = IF known THEN "closed" ELSE told
    /\ known' = FALSE /\ send_queue' = << >>
    /\ CloseSocket(cur[t])
    /\ handle' = "freed"
    /\ Free(t)
    /\ clashed' = (clashed \/ Held(t))
    /\ UNCHANGED <<listen, peer, recv, unread, sent, outs, port, wire, writeVars, calls,
                   received, early, ends, busyEnd, late, disorder>>

\* Faulty variant: a GlobalFree of the code that is commented out.
FreeHandle == handle' = "freed"
KeepHandle == UNCHANGED handle

\* The loop that takes the next message from the queue, past marks: empty(),
TestEmpty(t) ==
    /\ pc[t] = "pop"
    /\ IF send_queue = << >> THEN Free(t) ELSE Goto(t, "front")
    /\ KeepHandle
    /\ UNCHANGED <<listen, kernelVars, known, send_queue, writeVars, calls, tellVars, ghosts>>

\* front(),
Front(t) ==
    /\ pc[t] = "front"
    /\ IF send_queue = << >> THEN Goto(t, "lost")
       ELSE /\ next' = [next EXCEPT ![t] = Head(send_queue)]
            /\ pc' = [pc EXCEPT ![t] = "take"] /\ UNCHANGED cur
    /\ clashed' = (clashed \/ send_queue = << >> \/ Held(t))
    /\ UNCHANGED <<listen, kernelVars, known, send_queue, handle, writeVars, calls, tellVars, ends,
                   busyEnd, late, disorder>>

\* Faulty variant: the loop ends at the first entry, be it a mark.
FirstEntry(m) == IF m = nullptr THEN "dead" ELSE "send"
AfterPop(m) == IF m = nullptr THEN "pop" ELSE "send"

\* and pop().  front() or pop() of an empty queue is undefined: the thread is
\* not followed any further.
Pop(t) ==
    /\ pc[t] = "take"
    /\ IF send_queue = << >> THEN Goto(t, "lost") /\ UNCHANGED send_queue
       ELSE Goto(t, AfterPop(next[t])) /\ send_queue' = Tail(send_queue)
    /\ disorder' = (disorder \/ Unfinished \/ Unsettled(t))
    /\ UNCHANGED <<listen, kernelVars, known, handle, writeVars, calls, tellVars, ends, busyEnd, late,
                   clashed>>

SendNext(t) ==
    /\ pc[t] = "send"
    /\ LET m == next[t]
           n == Size[m]
       IN  \/ AtOnce(m, n) /\ Free(t)
           \/ Pending(m, n) /\ pc' = [pc EXCEPT ![t] = "mark"] /\ UNCHANGED <<cur, next>>
           \/ SendFails /\ Dies(t)
    /\ Noted
    /\ UNCHANGED <<listen, sock, peer, recv, unread, sent, known, send_queue, handle, writeVars,
                   calls, tellVars>>

\* Push to the queue; late if there is no send whose end would empty it.
Push(m) ==
    /\ send_queue' = Append(send_queue, m)
    /\ late' = (late \/ ~ SendUnderWay)
    /\ UNCHANGED <<ends, busyEnd, disorder, clashed>>

MarkNext(t) ==
    /\ pc[t] = "mark"
    /\ send_queue' = Append(send_queue, nullptr)
    /\ LET others == outs # << >> \/ (\E i \in DOMAIN port : port[i].op = "send")
                     \/ \E u \in Workers \ {t} : Busy(u) /\ cur[u].op = "send"
       IN  late' = (late \/ ~ others)
    /\ Free(t)
    /\ UNCHANGED <<listen, kernelVars, known, handle, writeVars, calls, tellVars, ends, busyEnd,
                   disorder, clashed>>

\* Faulty variant: buf and len stay as they were.
WholeAgain(p) == Size[p.m]
Rest(p) == p.left

\* The rest of a partial transfer goes behind everything submitted since; the
\* io data is not freed, it comes back with the next packet.
SendRest(t) ==
    /\ pc[t] = "rest"
    /\ \/ AtOnce(cur[t].m, Rest(cur[t])) /\ Free(t)
       \/ Pending(cur[t].m, Rest(cur[t])) /\ Free(t)
       \/ SendFails /\ Dies(t)
    /\ Noted
    /\ UNCHANGED <<listen, sock, peer, recv, unread, sent, known, send_queue, handle, writeVars,
                   calls, tellVars>>

\* OnRecv only if the maps know the socket.
OnRecv(t) ==
    /\ pc[t] = "recv" /\ Goto(t, "rearm")
    /\ received' = IF known THEN received + 1 ELSE received
    /\ early' = IF ~ known /\ listen = "register" THEN early + 1 ELSE early
    /\ UNCHANGED <<listen, kernelVars, known, send_queue, handle, writeVars, calls, told, ghosts>>

\* Faulty variant: no further receive.
NotArmed == UNCHANGED recv
Arm == recv' = TRUE

\* The receive is armed again; the io data stays in use.
WSARecv(t) ==
    /\ pc[t] = "rearm"
    /\ \/ ~ Broken /\ Arm /\ Free(t)
       \/ Broken /\ UNCHANGED recv /\ Dies(t)
    /\ UNCHANGED <<listen, sock, peer, unread, sent, outs, port, wire, known, send_queue, handle,
                   writeVars, calls, tellVars, ghosts>>

Work(t) ==
    \/ GetQueuedCompletionStatus(t) \/ OnDisconnect(t) \/ TestEmpty(t) \/ Front(t) \/ Pop(t)
    \/ SendNext(t) \/ MarkNext(t) \/ SendRest(t) \/ OnRecv(t) \/ WSARecv(t)

-----------------------------------------------------------------------------
(* Write and Disconnect, for an endpoint that the handler was told of. *)

msg(w) == <<w, written[w]>>
Place(w, place) == wpc' = [wpc EXCEPT ![w] = place] /\ UNCHANGED written

Write(w) ==
    /\ wpc[w] = "idle" /\ written[w] < Quota[w]
    /\ told = "open" /\ known /\ listen = "on"
    /\ wpc' = [wpc EXCEPT ![w] = "test"]
    /\ written' = [written EXCEPT ![w] = @ + 1]
    /\ UNCHANGED <<listen, kernelVars, known, send_queue, handle, workVars, calls, refused,
                   tellVars, ghosts>>

\* Faulty variant: messages never wait.
SendAnyway == FALSE
MustWait == send_queue # << >>

TestQueue(w) ==
    /\ wpc[w] = "test"
    /\ Place(w, IF MustWait THEN "push" ELSE "send")
    /\ disorder' = (disorder \/ (~ MustWait /\ Unsettled(w)))
    /\ UNCHANGED <<listen, kernelVars, known, send_queue, handle, workVars, calls, refused,
                   tellVars, ends, busyEnd, late, clashed>>

PushWrite(w) ==
    /\ wpc[w] = "push" /\ Push(msg(w)) /\ Place(w, "idle")
    /\ UNCHANGED <<listen, kernelVars, known, handle, workVars, calls, refused, tellVars>>

SendWrite(w) ==
    /\ wpc[w] = "send"
    /\ \/ AtOnce(msg(w), Size[msg(w)]) /\ Place(w, "idle") /\ UNCHANGED refused
       \/ Pending(msg(w), Size[msg(w)]) /\ Place(w, "mark") /\ UNCHANGED refused
       \/ SendFails /\ Place(w, "idle") /\ refused' = refused \cup {msg(w)}
    /\ Noted
    /\ UNCHANGED <<listen, sock, peer, recv, unread, sent, known, send_queue, handle, workVars,
                   calls, tellVars>>

MarkWrite(w) ==
    /\ wpc[w] = "mark" /\ Push(nullptr) /\ Place(w, "idle")
    /\ UNCHANGED <<listen, kernelVars, known, handle, workVars, calls, refused, tellVars>>

Disconnect ==
    /\ told = "open" /\ known /\ listen = "on" /\ calls < Disconnects
    /\ sock' = "closed" /\ calls' = calls + 1
    /\ UNCHANGED <<listen, peer, recv, unread, sent, outs, port, wire, known, send_queue, handle,
                   workVars, writeVars, tellVars, ghosts>>

WriteSteps(w) == TestQueue(w) \/ PushWrite(w) \/ SendWrite(w) \/ MarkWrite(w)

-----------------------------------------------------------------------------
Kernel == RecvCompletes \/ SendCompletes
Accept == Register \/ OnAccept

Next ==
    \/ PeerSends \/ PeerCloses \/ Kernel
    \/ WSAAccept \/ Accept \/ ListenEnds
    \/ \E t \in Workers : Work(t)
    \/ \E w \in Writers : Write(w) \/ WriteSteps(w)
    \/ Disconnect

Spec == Init /\ [][Next]_vars

\* Threads go on while they can, and operations end; nobody has to write, to
\* send or to close.
FairSpec ==
    /\ Spec /\ WF_vars(Kernel) /\ WF_vars(Accept)
    /\ \A t \in Workers : WF_vars(Work(t))
    /\ \A w \in Writers : WF_vars(WriteSteps(w))

-----------------------------------------------------------------------------
\* Bytes of m that went out, counted from its end.
Gone(m) ==
    {b \in 1..Size[m] : \E i \in DOMAIN wire : wire[i][1] = m /\ wire[i][3] < b /\ b <= wire[i][2]}

AllDead == \A t \in Workers : pc[t] = "dead"
\* A thread failed to arm the receive again.
Deaf == \E t \in Workers : pc[t] = "dead" /\ cur[t].op = "recv"
Lost == \E t \in Workers : pc[t] = "lost"
Over == ends > 0 \/ listen = "ended" \/ AllDead \/ Lost

\* Every byte of a message goes out at most once, and the bytes in their order,
\* however the message is divided and whichever thread submits the parts, unless
\* workers clashed at the queue: two looked at its front before one removed it.
NeverTwice ==
    clashed \/ \A i, j \in DOMAIN wire :
        i < j /\ wire[i][1] = wire[j][1] => wire[j][2] <= wire[i][3]

\* Messages of one thread leave in the order of its Writes, and each in one
\* piece, unless workers clashed, or a thread found the queue empty, or took
\* from it, while another thread was submitting a send or had not yet marked
\* it, or took from it, with the end of one send, the mark of another.
SentInOrder ==
    clashed \/ disorder \/ \A i, j \in DOMAIN wire :
        /\ i < j /\ wire[i][1][1] = wire[j][1][1] => wire[i][1][2] <= wire[j][1][2]
        /\ i < j /\ wire[i][1] = wire[j][1] => \A k \in i..j : wire[k][1] = wire[i][1]

\* The structures of the connection are freed once: a second packet ends the
\* connection, or a packet comes for freed structures, only if the end came
\* while more than one operation was with the kernel, the port or a worker,
\* or before the accept loop was done with the socket.
FreedOnce ==
    /\ ends > 1 => busyEnd
    /\ handle = "freed" /\ (recv \/ SendUnderWay \/ \E t \in Workers : Busy(t))
           => busyEnd

\* Every Write that was not refused goes out, while the connection and the
\* threads last, the queue was not filled late and workers did not clash at it.
MessageSent ==
    []<>(Over \/ late \/ clashed \/
         \A w \in Writers : \A k \in 1..written[w] :
             <<w, k>> \in refused \/ Gone(<<w, k>>) = 1..Size[<<w, k>>])

\* Data of the peer is given to OnRecv, except what is received before the
\* maps have the socket, while the connection and the threads last.
DataHeard == []<>(Over \/ Broken \/ received + early = sent)

\* The end of a connection, by either side, is told to the handler and the
\* socket closed, except after a reset, whose error the code takes for a
\* Disconnect, if OnAccept was before the end and a thread is left, unless the
\* end comes between a receive and the next one: the thread that cannot arm it
\* leaves everything as it is, or a thread was lost at an empty queue.
EndTold ==
    []<>(\/ listen = "ended" \/ AllDead \/ Deaf \/ Lost \/ busyEnd \/ told = "none"
         \/ told = "closed" /\ (sock = "closed" \/ peer = "reset")
         \/ sock = "open" /\ peer = "open")

=============================================================================
