---------------------------- MODULE SocketAccept ----------------------------
(***************************************************************************)
(* SocketAccept of the Linux build, with file descriptors: the loop of     *)
(* Listen over an edge-triggered epoll, and application threads that call  *)
(* Write and Disconnect.  NetworkManager names a connection by its         *)
(* endpoint; here it is seen that a name goes through two maps to a number *)
(* that the kernel gives out again.                                        *)
(*                                                                         *)
(* A connection is used once; the endpoint of one that is over can come    *)
(* back as another connection with the same Key.                           *)
(***************************************************************************)
EXTENDS Naturals, Sequences, SequencesExt

CONSTANTS Conns,      \* connections of remote peers
          Key,        \* Key[c]: what Endpoint::operator< sees of its endpoint
          MaxFd,      \* bound: descriptors of the process for this listener
          Portions,   \* Portions[c]: bound: data the peer sends, in portions of one read
          Users,      \* application threads
          None

Fds == 1..MaxFd
local_sock == 0       \* the listening descriptor

ASSUME AcceptAssumption ==
    /\ DOMAIN Key = Conns /\ None \notin Conns
    /\ MaxFd \in Nat \ {0} /\ Portions \in [Conns -> Nat]

VARIABLES
    peer,                  \* state of the remote end: "new", "open", "closed"
    unread, sent,          \* per connection: portions that wait, portions sent
    backlog,               \* completed connections that accept has not returned
    file,                  \* descriptor table: the connection, or None
    rdy,                   \* descriptors on the ready list of the epoll instance
    merged,                \* ghost: connections that found the listener on rdy
    sock_endpoint_map_,    \* fd -> connection whose endpoint it holds
    endpoint_sock_map_,    \* Key -> fd
    pc, cur_sock, cur,     \* of the loop: descriptor, connection accepted last
    epoll_event_list_,     \* the events of this round still to be handled
    told,                  \* what the handler was told: "none", "open", "closed"
    cut,                   \* ghost: <<connection, fd>> closed by Disconnect
    shared,                \* ghost: connections that shared their Key in the fd map
    swallowed,             \* ghost: connections whose end the inner loop read
    upc, named, ufd,       \* per application thread: place, endpoint, descriptor
    overtaken              \* ghost: threads whose descriptor the loop closed since FindSock

kernelVars == <<peer, unread, sent, backlog, file, rdy, merged>>
mapVars == <<sock_endpoint_map_, endpoint_sock_map_>>
loopVars == <<pc, cur_sock, cur, epoll_event_list_, told, swallowed>>
userVars == <<upc, named, ufd, overtaken>>
vars == <<kernelVars, mapVars, loopVars, userVars, cut, shared>>

Put(m, k, v) == [x \in DOMAIN m \cup {k} |-> IF x = k THEN v ELSE m[x]]
Erase(m, k) == [x \in DOMAIN m \ {k} |-> m[x]]
Empty == [x \in {} |-> None]

Init ==
    /\ peer = [c \in Conns |-> "new"]
    /\ unread = [c \in Conns |-> 0] /\ sent = [c \in Conns |-> 0]
    /\ backlog = << >> /\ file = [f \in Fds |-> None] /\ rdy = {} /\ merged = 0
    /\ sock_endpoint_map_ = Empty /\ endpoint_sock_map_ = Empty
    /\ pc = "wait" /\ cur_sock = local_sock /\ cur = None /\ epoll_event_list_ = << >>
    /\ told = [c \in Conns |-> "none"]
    /\ cut = {} /\ shared = {} /\ swallowed = {}
    /\ upc = [u \in Users |-> "idle"]
    /\ named = [u \in Users |-> None] /\ ufd = [u \in Users |-> local_sock]
    /\ overtaken = {}

\* Faulty variant: only the address is compared.
AddressOnly(c) == "address"
\* What Endpoint::operator< tells apart.
EndpointKey(c) == Key[c]

-----------------------------------------------------------------------------
(* The peers and the kernel. *)

\* An edge: the descriptor enters the ready list, where it is at most once.
ReadyConn(c) == rdy \cup {f \in Fds : file[f] = c}

PeerConnects(c) ==
    /\ peer[c] = "new"
    /\ peer' = [peer EXCEPT ![c] = "open"]
    /\ backlog' = Append(backlog, c)
    /\ rdy' = rdy \cup {local_sock}
    /\ merged' = IF local_sock \in rdy THEN merged + 1 ELSE merged
    /\ UNCHANGED <<unread, sent, file, mapVars, loopVars, userVars, cut, shared>>

PeerSends(c) ==
    /\ peer[c] = "open" /\ sent[c] < Portions[c]
    /\ sent' = [sent EXCEPT ![c] = @ + 1]
    /\ unread' = [unread EXCEPT ![c] = @ + 1]
    /\ rdy' = ReadyConn(c)
    /\ UNCHANGED <<peer, backlog, file, merged, mapVars, loopVars, userVars, cut, shared>>

PeerCloses(c) ==
    /\ peer[c] = "open"
    /\ peer' = [peer EXCEPT ![c] = "closed"]
    /\ rdy' = ReadyConn(c)
    /\ UNCHANGED <<unread, sent, backlog, file, merged, mapVars, loopVars, userVars, cut, shared>>

-----------------------------------------------------------------------------
(* The loop of Listen. *)

\* epoll_wait looks at each ready descriptor again: without data, end or
\* waiting connection there is no event.  A connection that is over may be
\* reported as an error only.  The events may come in any order.
Reported(f) ==
    IF f = local_sock THEN backlog # << >>
    ELSE file[f] # None /\ (unread[file[f]] > 0 \/ peer[file[f]] = "closed")

EventKinds(f) ==
    IF f # local_sock /\ unread[file[f]] = 0 THEN {"in", "hup"} ELSE {"in"}

epoll_wait ==
    /\ pc = "wait" /\ rdy # {}
    /\ \E fds \in SetToSeqs({f \in rdy : Reported(f)}) :
          \E kind \in [DOMAIN fds -> {"in", "hup"}] :
              /\ \A i \in DOMAIN fds : kind[i] \in EventKinds(fds[i])
              /\ epoll_event_list_' = [i \in DOMAIN fds |-> <<fds[i], kind[i]>>]
              /\ pc' = IF fds = << >> THEN "wait" ELSE "next"
    /\ rdy' = {}
    /\ UNCHANGED <<peer, unread, sent, backlog, file, merged, mapVars, cur_sock, cur,
                   told, swallowed, userVars, cut, shared>>

Event(f, kind) == pc = "next" /\ Head(epoll_event_list_) = <<f, kind>>
\* Faulty variant: only the first event of a round is handled.
OneEvent ==
    /\ cur_sock' = local_sock /\ cur' = None
    /\ epoll_event_list_' = << >> /\ pc' = "wait"
NextEvent ==
    /\ cur_sock' = local_sock /\ cur' = None
    /\ epoll_event_list_' = Tail(epoll_event_list_)
    /\ pc' = IF Tail(epoll_event_list_) = << >> THEN "wait" ELSE "next"

\* A listening socket that blocks: accept waits if nobody is in the backlog.
accept(f) ==
    /\ Event(local_sock, "in") /\ backlog # << >>
    /\ f \in Fds /\ file[f] = None /\ \A g \in 1..(f - 1) : file[g] # None
    /\ LET c == Head(backlog)
       IN  /\ file' = [file EXCEPT ![f] = c]
           /\ rdy' = IF unread[c] > 0 \/ peer[c] = "closed" THEN rdy \cup {f} ELSE rdy
    /\ backlog' = Tail(backlog)
    /\ cur_sock' = f /\ cur' = Head(backlog) /\ pc' = "register"
    /\ UNCHANGED <<peer, unread, sent, merged, mapVars, epoll_event_list_, told, swallowed,
                   userVars, cut, shared>>

\* Faulty variant: accept is called until it fails, on a socket that blocks.
AcceptAll ==
    /\ cur_sock' = local_sock /\ cur' = None /\ pc' = "next"
    /\ UNCHANGED epoll_event_list_
AfterAccept == NextEvent

\* The two maps, then the handler.
OnAccept ==
    /\ pc = "register"
    /\ LET others == {sock_endpoint_map_[f] : f \in DOMAIN sock_endpoint_map_ \ {cur_sock}}
           same == {d \in others : Key[d] = Key[cur]}
       IN  shared' = IF same = {} THEN shared ELSE shared \cup same \cup {cur}
    /\ sock_endpoint_map_' = Put(sock_endpoint_map_, cur_sock, cur)
    /\ endpoint_sock_map_' = Put(endpoint_sock_map_, EndpointKey(cur), cur_sock)
    /\ told' = [told EXCEPT ![cur] = "open"]
    /\ AfterAccept
    /\ UNCHANGED <<kernelVars, swallowed, userVars, cut>>

\* Listen returns with everything as it is, and listening_ stays set.
ListenEnds ==
    /\ pc' = "ended"
    /\ UNCHANGED <<kernelVars, mapVars, cur_sock, cur, epoll_event_list_, told, swallowed,
                   userVars, cut, shared>>

\* accept has no descriptor left.
AcceptFails ==
    /\ Event(local_sock, "in") /\ backlog # << >>
    /\ \A f \in Fds : file[f] # None
    /\ ListenEnds

\* fcntl or epoll_ctl fail on the new socket, which stays open.
SetupFails == pc = "register" /\ ListenEnds

HasData(f) == file[f] # None /\ unread[file[f]] > 0
TakeData(f) == unread' = [unread EXCEPT ![file[f]] = @ - 1]

\* The first read gave data: OnRecv, and the inner loop reads on.
OnRecv(f) ==
    /\ Event(f, "in") /\ f # local_sock
    /\ HasData(f) /\ TakeData(f)
    /\ cur_sock' = f /\ pc' = "drain"
    /\ UNCHANGED <<peer, sent, backlog, file, rdy, merged, mapVars, cur, epoll_event_list_,
                   told, swallowed, userVars, cut, shared>>

OnRecvMore ==
    /\ pc = "drain"
    /\ HasData(cur_sock) /\ TakeData(cur_sock)
    /\ UNCHANGED <<peer, sent, backlog, file, rdy, merged, mapVars, loopVars, userVars, cut,
                   shared>>

\* The inner loop ends at anything that is not data, an end of the stream too.
DrainEnds ==
    /\ pc = "drain" /\ ~ HasData(cur_sock)
    /\ swallowed' = IF file[cur_sock] # None /\ peer[file[cur_sock]] = "closed"
                    THEN swallowed \cup {file[cur_sock]} ELSE swallowed
    /\ NextEvent
    /\ UNCHANGED <<kernelVars, mapVars, told, userVars, cut, shared>>

\* Faulty variant: a first read that gives nothing is not distinguished.
AnyRead(f) == TRUE
NoData(f) == ~ HasData(f)

\* No data (end, error or nothing to read), or an error event: the descriptor
\* leaves epoll and is closed.
CloseSock(f) ==
    /\ f # local_sock
    /\ \/ Event(f, "in") /\ NoData(f)
       \/ Event(f, "hup")
    /\ file' = [file EXCEPT ![f] = None]
    /\ rdy' = rdy \ {f}
    /\ cur_sock' = f /\ pc' = "forget"
    /\ overtaken' = overtaken \cup {u \in Users : upc[u] = "use" /\ ufd[u] = f}
    /\ UNCHANGED <<peer, unread, sent, backlog, merged, mapVars, cur, epoll_event_list_,
                   told, swallowed, upc, named, ufd, cut, shared>>

\* Faulty variant: the descriptor map keeps the entry.
EndpointOnly(m, f) == m
ForgetSock(m, f) == Erase(m, f)

\* OnDisconnect, then both maps.
OnDisconnect ==
    /\ pc = "forget"
    /\ IF cur_sock \in DOMAIN sock_endpoint_map_
       THEN LET c == sock_endpoint_map_[cur_sock]
            IN  /\ told' = [told EXCEPT ![c] = "closed"]
                /\ endpoint_sock_map_' = Erase(endpoint_sock_map_, EndpointKey(c))
                /\ sock_endpoint_map_' = ForgetSock(sock_endpoint_map_, cur_sock)
       ELSE UNCHANGED <<told, mapVars>>
    /\ NextEvent
    /\ UNCHANGED <<kernelVars, swallowed, userVars, cut, shared>>

Listen ==
    \/ epoll_wait \/ AcceptFails \/ OnAccept \/ OnRecvMore \/ DrainEnds \/ OnDisconnect
    \/ \E f \in Fds : accept(f) \/ OnRecv(f) \/ CloseSock(f)

-----------------------------------------------------------------------------
(* The application, which knows the endpoints it was told of. *)

\* Write and Disconnect begin alike: they find the descriptor of an endpoint ...
FindSock(u, c) ==
    /\ upc[u] = "idle" /\ told[c] = "open"
    /\ EndpointKey(c) \in DOMAIN endpoint_sock_map_
    /\ upc' = [upc EXCEPT ![u] = "use"]
    /\ named' = [named EXCEPT ![u] = c]
    /\ ufd' = [ufd EXCEPT ![u] = endpoint_sock_map_[EndpointKey(c)]]
    /\ overtaken' = IF pc = "forget" /\ cur_sock = endpoint_sock_map_[EndpointKey(c)]
                    THEN overtaken \cup {u} ELSE overtaken
    /\ UNCHANGED <<kernelVars, mapVars, loopVars, cut, shared>>

Returns(u) ==
    /\ upc' = [upc EXCEPT ![u] = "idle"]
    /\ named' = [named EXCEPT ![u] = None] /\ ufd' = [ufd EXCEPT ![u] = local_sock]
    /\ overtaken' = overtaken \ {u}

\* ... and send on it or close it.
Write(u) ==
    /\ upc[u] = "use"
    /\ Returns(u)
    /\ UNCHANGED <<kernelVars, mapVars, loopVars, cut, shared>>

Disconnect(u) ==
    /\ upc[u] = "use"
    /\ Returns(u)
    /\ file' = [file EXCEPT ![ufd[u]] = None]
    /\ rdy' = rdy \ {ufd[u]}
    /\ cut' = IF file[ufd[u]] = None THEN cut ELSE cut \cup {<<file[ufd[u]], ufd[u]>>}
    /\ UNCHANGED <<peer, unread, sent, backlog, merged, mapVars, loopVars, shared>>

-----------------------------------------------------------------------------
Next ==
    \/ \E c \in Conns : PeerConnects(c) \/ PeerSends(c) \/ PeerCloses(c)
    \/ Listen \/ SetupFails
    \/ \E u \in Users : Write(u) \/ Disconnect(u)
                        \/ \E c \in Conns : FindSock(u, c)

Spec == Init /\ [][Next]_vars

\* The loop goes on while it can; peers and applications need not do anything.
FairSpec == Spec /\ WF_vars(Listen)

-----------------------------------------------------------------------------
Closed(c) == \E f \in Fds : <<c, f>> \in cut

\* The entry of a descriptor is the connection the kernel has there, except
\* after a Disconnect, which closes the descriptor and leaves the entry, and
\* while the loop itself is between close and erase.  An open connection whose
\* Key is its own is found by Write and Disconnect, under its descriptor.
MapsFollowKernel ==
    /\ \A f \in DOMAIN sock_endpoint_map_ :
          \/ file[f] = sock_endpoint_map_[f]
          \/ <<sock_endpoint_map_[f], f>> \in cut
          \/ pc = "forget" /\ cur_sock = f
    /\ \A f \in Fds :
          LET c == file[f]
          IN  c # None /\ told[c] = "open" /\ c \notin shared =>
                 /\ EndpointKey(c) \in DOMAIN endpoint_sock_map_
                 /\ endpoint_sock_map_[EndpointKey(c)] = f

\* Write and Disconnect use a number after they looked it up, while numbers
\* are closed and given out again.  A call acts on a connection of another Key
\* than the one it names only if a connection of that Key was closed under this
\* number: by the loop since the lookup, or by a Disconnect at any time before,
\* which leaves the number to be found.
CallsReachNamed ==
    [][\A u \in Users :
          upc[u] = "use" /\ upc'[u] = "idle" /\ file[ufd[u]] # None
             => \/ Key[file[ufd[u]]] = Key[named[u]]
                \/ u \in overtaken
                \/ \E c \in Conns : Key[c] = Key[named[u]] /\ <<c, ufd[u]>> \in cut]_vars

\* The loop closes a connection only if its peer has closed it, or if an
\* event of this round is meant for a connection that a Disconnect closed and
\* whose descriptor was given out again since.
LoopClosesOnlyDead ==
    [][\A f \in Fds :
          pc = "next" /\ pc' = "forget" /\ cur_sock' = f /\ file[f] # None
              => peer[file[f]] = "closed" \/ \E c \in Conns : <<c, f>> \in cut]_vars

\* One accept per event: each connection that arrives while an event of the
\* listener is waiting to be reported leaves one connection in the backlog,
\* and no other one stays there.
BacklogServed == []<>(pc = "ended" \/ Len(backlog) <= merged)

\* A peer's close is told to the handler, unless the inner loop read it after
\* data, the application closed the descriptor first, or Listen has returned;
\* in particular accept, which blocks, never waits for a connection and keeps
\* the loop from the ones it serves.
\* (A close that is due stays due until one of these holds.)
CloseReported ==
    []<>(\A c \in Conns :
            peer[c] = "closed" /\ told[c] = "open"
                => c \in swallowed \/ Closed(c) \/ pc = "ended")

=============================================================================
