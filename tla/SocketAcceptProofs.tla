------------------------- MODULE SocketAcceptProofs -------------------------
(***************************************************************************)
(* Proofs about SocketAccept, for any connections, keys, descriptors, data *)
(* and application threads.                                                *)
(***************************************************************************)
EXTENDS SocketAccept, SequenceTheorems, FiniteSetTheorems, TLAPS

Socks == Fds \cup {local_sock}
PCs == {"wait", "next", "register", "drain", "forget", "ended"}

TypeInv ==
    /\ peer \in [Conns -> {"new", "open", "closed"}] /\ unread \in [Conns -> Nat]
    /\ backlog \in Seq(Conns) /\ file \in [Fds -> Conns \cup {None}] /\ rdy \subseteq Socks
    /\ DOMAIN sock_endpoint_map_ \subseteq Fds
    /\ \A f \in DOMAIN sock_endpoint_map_ : sock_endpoint_map_[f] \in Conns
    /\ \A k \in DOMAIN endpoint_sock_map_ : endpoint_sock_map_[k] \in Fds
    /\ pc \in PCs /\ cur_sock \in Socks /\ cur \in Conns \cup {None}
    /\ epoll_event_list_ \in Seq(Socks \X {"in", "hup"})
    /\ told \in [Conns -> {"none", "open", "closed"}] /\ cut \subseteq Conns \X Fds
    /\ upc \in [Users -> {"idle", "use"}] /\ named \in [Users -> Conns \cup {None}]
    /\ ufd \in [Users -> Socks]

\* A connection that accept has not returned is nowhere but in the backlog.
Untouched == {c \in Conns : told[c] = "none" /\ cur # c /\ \A f \in Fds : file[f] # c}

PlaceInv ==
    /\ \A f, g \in Fds : file[f] # None /\ file[f] = file[g] => f = g
    /\ \A i, j \in 1..Len(backlog) : backlog[i] = backlog[j] => i = j
    /\ \A i \in 1..Len(backlog) : backlog[i] \in Untouched /\ peer[backlog[i]] # "new"
    /\ \A c \in Conns : peer[c] = "new" => c \in Untouched

\* Between accept and OnAccept only a Disconnect with a stale number can take
\* the descriptor away; nobody is given it between close and erase.
LoopInv ==
    /\ pc = "register" =>
          /\ cur \in Conns /\ cur_sock \in Fds /\ told[cur] = "none"
          /\ file[cur_sock] = cur \/ (file[cur_sock] = None /\ <<cur, cur_sock>> \in cut)
          /\ \A f \in Fds : file[f] = cur => f = cur_sock
    /\ pc = "forget" => cur_sock \in Fds /\ file[cur_sock] = None
    /\ pc \in {"drain", "forget"} => cur_sock \in Fds /\ epoll_event_list_[1][1] = cur_sock
    /\ pc \in {"next", "register", "drain", "forget"} => epoll_event_list_ # << >>

FollowsKernel(f) ==
    \/ file[f] = sock_endpoint_map_[f]
    \/ <<sock_endpoint_map_[f], f>> \in cut
    \/ pc = "forget" /\ cur_sock = f

\* What Write and Disconnect rely on.
Findable(f) ==
    /\ EndpointKey(file[f]) \in DOMAIN endpoint_sock_map_
    /\ endpoint_sock_map_[EndpointKey(file[f])] = f

MapInv ==
    /\ \A f \in DOMAIN sock_endpoint_map_ : FollowsKernel(f) /\ told[sock_endpoint_map_[f]] # "none"
    /\ \A f \in Fds : file[f] # None /\ told[file[f]] = "open" =>
          f \in DOMAIN sock_endpoint_map_ /\ sock_endpoint_map_[f] = file[f]
    /\ \A f, g \in DOMAIN sock_endpoint_map_ :
          f # g /\ Key[sock_endpoint_map_[f]] = Key[sock_endpoint_map_[g]] =>
             sock_endpoint_map_[f] \in shared
    /\ \A f \in Fds : file[f] # None /\ told[file[f]] = "open" /\ file[f] \notin shared => Findable(f)

\* What endpoint_sock_map_ has under a number is, or was, a connection there.
RegInv ==
    \A k \in DOMAIN endpoint_sock_map_ : \E c \in Conns :
        Key[c] = k /\ (\/ <<c, endpoint_sock_map_[k]>> \in cut
                      \/ /\ endpoint_sock_map_[k] \in DOMAIN sock_endpoint_map_
                         /\ sock_endpoint_map_[endpoint_sock_map_[k]] = c)

\* A connection with the Key that was named is, or was, at the number in use.
ActsOn(u, c) == Key[c] = Key[named[u]] /\ (file[ufd[u]] = c \/ <<c, ufd[u]>> \in cut)

CallInv ==
    \A u \in Users : upc[u] = "use" =>
        /\ named[u] \in Conns /\ ufd[u] \in Fds
        /\ u \in overtaken \/ \E c \in Conns : ActsOn(u, c)

\* An event still to be handled is about the connection at its descriptor,
\* unless a Disconnect closed that descriptor.
Justified ==
    {e \in Socks \X {"in", "hup"} :
        \/ e[1] = local_sock
        \/ \E c \in Conns : <<c, e[1]>> \in cut
        \/ /\ file[e[1]] # None
           /\ peer[file[e[1]]] = "closed" \/ (e[2] = "in" /\ unread[file[e[1]]] > 0)}

EventInv ==
    /\ \A i, j \in 1..Len(epoll_event_list_) :
          epoll_event_list_[i][1] = epoll_event_list_[j][1] => i = j
    /\ \A i \in 1..Len(epoll_event_list_) :
          pc = "next" \/ i # 1 => epoll_event_list_[i] \in Justified

Inv == TypeInv /\ PlaceInv /\ LoopInv /\ MapInv /\ RegInv /\ CallInv /\ EventInv

-----------------------------------------------------------------------------
LEMMA Constants ==
    /\ None \notin Conns /\ local_sock \notin Fds /\ Fds \subseteq Nat
    /\ IsFiniteSet(Socks)
<1>1. None \notin Conns /\ local_sock \notin Fds /\ Fds \subseteq Nat
  BY AcceptAssumption DEF Fds, local_sock
<1>2. IsFiniteSet(Fds)
  BY AcceptAssumption, FS_Interval DEF Fds
<1> QED BY <1>1, <1>2, FS_AddElement DEF Socks

LEMMA TailSeq ==
    ASSUME NEW S, NEW s \in Seq(S), s # << >>
    PROVE  /\ Len(s) \in Nat \ {0} /\ s[1] \in S /\ Head(s) = s[1]
           /\ Tail(s) \in Seq(S) /\ Len(Tail(s)) = Len(s) - 1
           /\ \A i \in 1..Len(Tail(s)) : Tail(s)[i] = s[i + 1] /\ i + 1 \in 1..Len(s) /\ i + 1 # 1
<1>1. Len(s) \in Nat \ {0} /\ s[1] \in S /\ Head(s) = s[1]
  BY EmptySeq
<1>2. Tail(s) \in Seq(S) /\ Len(Tail(s)) = Len(s) - 1 /\ \A i \in 1..Len(Tail(s)) : Tail(s)[i] = s[i + 1]
  BY HeadTailProperties
<1>3. \A i \in 1..(Len(s) - 1) : i + 1 \in 1..Len(s) /\ i + 1 # 1
  BY <1>1
<1> QED BY <1>1, <1>2, <1>3

LEMMA AppendSeq ==
    ASSUME NEW S, NEW s \in Seq(S), NEW x \in S
    PROVE  /\ Append(s, x) \in Seq(S) /\ Len(Append(s, x)) = Len(s) + 1
           /\ \A i \in 1..Len(s) : Append(s, x)[i] = s[i]
           /\ Append(s, x)[Len(s) + 1] = x
           /\ \A i \in 1..(Len(s) + 1) : i \in 1..Len(s) \/ i = Len(s) + 1
<1>1. Len(s) \in Nat
  OBVIOUS
<1>2. /\ Append(s, x) \in Seq(S) /\ Len(Append(s, x)) = Len(s) + 1
      /\ \A i \in 1..Len(s) : Append(s, x)[i] = s[i]
      /\ Append(s, x)[Len(s) + 1] = x
  BY AppendProperties
<1> QED BY <1>1, <1>2

LEMMA InitInv == Init => Inv
<1> SUFFICES ASSUME Init PROVE Inv
  OBVIOUS
<1>1. /\ peer = [c \in Conns |-> "new"] /\ unread = [c \in Conns |-> 0] /\ backlog = << >>
      /\ file = [f \in Fds |-> None] /\ rdy = {} /\ pc = "wait" /\ cur_sock = local_sock
      /\ cur = None /\ epoll_event_list_ = << >> /\ told = [c \in Conns |-> "none"]
      /\ cut = {} /\ shared = {} /\ upc = [u \in Users |-> "idle"]
      /\ named = [u \in Users |-> None] /\ ufd = [u \in Users |-> local_sock]
  BY DEF Init
<1>2. DOMAIN sock_endpoint_map_ = {} /\ DOMAIN endpoint_sock_map_ = {}
  BY DEF Init, Empty
<1>3. Len(backlog) = 0 /\ Len(epoll_event_list_) = 0
  BY <1>1
<1>4. TypeInv
  BY <1>1, <1>2, Constants DEF TypeInv, PCs, Socks
<1>5. PlaceInv
  BY <1>1, <1>3, Constants DEF PlaceInv, Untouched
<1>6. LoopInv
  BY <1>1 DEF LoopInv
<1>7. MapInv
  BY <1>1, <1>2 DEF MapInv
<1>8. CallInv
  BY <1>1 DEF CallInv
<1>9. EventInv
  BY <1>1, <1>3 DEF EventInv
<1>10. RegInv
  BY <1>2 DEF RegInv
<1> QED BY <1>4, <1>5, <1>6, <1>7, <1>8, <1>9, <1>10 DEF Inv

-----------------------------------------------------------------------------
(* What keeps each part of the invariant. *)

LEMMA PlaceKept ==
    ASSUME PlaceInv, UNCHANGED <<file, backlog, told, peer>>,
           cur' = cur \/ cur' = None, TypeInv
    PROVE  PlaceInv'
<1>1. Untouched \subseteq Untouched'
  BY Constants DEF Untouched
<1>2. \A i \in 1..Len(backlog) : backlog[i] \in Conns
  BY ElementOfSeq DEF TypeInv
<1> QED BY <1>1, <1>2 DEF PlaceInv

LEMMA MapKept ==
    ASSUME MapInv, UNCHANGED <<mapVars, file, cut, told, shared>>, pc # "forget"
    PROVE  MapInv'
<1>1. UNCHANGED <<sock_endpoint_map_, endpoint_sock_map_>>
  BY DEF mapVars
<1> QED BY <1>1 DEF MapInv, FollowsKernel, Findable, EndpointKey

LEMMA CallKept ==
    ASSUME CallInv, UNCHANGED userVars, UNCHANGED file, cut \subseteq cut'
    PROVE  CallInv'
<1>1. UNCHANGED <<upc, named, ufd, overtaken>>
  BY DEF userVars
<1> QED BY <1>1 DEF CallInv, ActsOn

LEMMA RegKept ==
    ASSUME RegInv, UNCHANGED mapVars, cut \subseteq cut'
    PROVE  RegInv'
<1>1. UNCHANGED <<sock_endpoint_map_, endpoint_sock_map_>>
  BY DEF mapVars
<1> QED BY <1>1 DEF RegInv

\* The next event: the invariant does not speak of the one that was handled.
LEMMA EventTail ==
    ASSUME TypeInv, EventInv, epoll_event_list_ # << >>, epoll_event_list_' = Tail(epoll_event_list_),
           UNCHANGED <<cut, file, peer, unread>>
    PROVE  EventInv' /\ epoll_event_list_' \in Seq(Socks \X {"in", "hup"})
<1> DEFINE s == epoll_event_list_
<1>1. s \in Seq(Socks \X {"in", "hup"}) /\ s # << >> /\ s' = Tail(s)
  BY DEF TypeInv
<1>2. /\ Tail(s) \in Seq(Socks \X {"in", "hup"})
      /\ \A i \in 1..Len(Tail(s)) : Tail(s)[i] = s[i + 1] /\ i + 1 \in 1..Len(s) /\ i + 1 # 1
  BY <1>1, TailSeq
<1>3. \A i, j \in 1..Len(s) : s[i][1] = s[j][1] => i = j
  BY DEF EventInv
<1>4. \A i \in 1..Len(s) : i # 1 => s[i] \in Justified
  BY DEF EventInv
<1>5. Justified' = Justified
  BY DEF Justified
<1> HIDE DEF s
<1>6. \A i, j \in 1..Len(Tail(s)) : Tail(s)[i][1] = Tail(s)[j][1] => i = j
  <2> SUFFICES ASSUME NEW i \in 1..Len(Tail(s)), NEW j \in 1..Len(Tail(s)), Tail(s)[i][1] = Tail(s)[j][1]
               PROVE  i = j
    OBVIOUS
  <2>1. s[i + 1][1] = s[j + 1][1] /\ i + 1 \in 1..Len(s) /\ j + 1 \in 1..Len(s)
    BY <1>2
  <2>2. i + 1 = j + 1
    BY <1>3, <2>1
  <2> QED BY <2>2
<1>7. \A i \in 1..Len(Tail(s)) : Tail(s)[i] \in Justified'
  BY <1>2, <1>4, <1>5
<1> QED BY <1>1, <1>2, <1>6, <1>7 DEF EventInv, s

LEMMA EventKept ==
    ASSUME EventInv, UNCHANGED epoll_event_list_, pc' = pc \/ pc' # "next",
           Justified \subseteq Justified'
    PROVE  EventInv'
  BY DEF EventInv

LEMMA LoopKept ==
    ASSUME LoopInv, UNCHANGED <<pc, cur_sock, cur, told, file, epoll_event_list_>>, cut \subseteq cut'
    PROVE  LoopInv'
  BY DEF LoopInv

-----------------------------------------------------------------------------
(* The peers. *)

LEMMA InvPeerConnects ==
    ASSUME Inv, NEW c \in Conns, PeerConnects(c)
    PROVE  Inv'
<1>1. /\ peer[c] = "new" /\ peer' = [peer EXCEPT ![c] = "open"] /\ backlog' = Append(backlog, c)
      /\ rdy' = rdy \cup {local_sock}
      /\ UNCHANGED <<unread, file, mapVars, loopVars, userVars, cut, shared>>
  BY DEF PeerConnects
<1>2. /\ UNCHANGED <<sock_endpoint_map_, endpoint_sock_map_, pc, cur_sock, cur, epoll_event_list_, told>>
      /\ UNCHANGED <<upc, named, ufd>>
  BY <1>1 DEF mapVars, loopVars, userVars
<1>3. /\ backlog' \in Seq(Conns) /\ Len(backlog') = Len(backlog) + 1
      /\ \A i \in 1..Len(backlog) : backlog'[i] = backlog[i]
      /\ backlog'[Len(backlog) + 1] = c
      /\ \A i \in 1..(Len(backlog) + 1) : i \in 1..Len(backlog) \/ i = Len(backlog) + 1
  BY <1>1, AppendSeq DEF Inv, TypeInv
<1>4. peer'[c] = "open" /\ \A d \in Conns \ {c} : peer'[d] = peer[d]
  BY <1>1 DEF Inv, TypeInv
<1>5. TypeInv'
  BY <1>1, <1>2, <1>3 DEF Inv, TypeInv, Socks
<1>6. PlaceInv'
  <2>1. Untouched' = Untouched
    BY <1>1, <1>2 DEF Untouched
  <2>2. \A i \in 1..Len(backlog) : backlog[i] \in Conns /\ backlog[i] # c
    BY <1>1, ElementOfSeq DEF Inv, TypeInv, PlaceInv
  <2>3. \A i, j \in 1..Len(backlog') : backlog'[i] = backlog'[j] => i = j
    BY <1>3, <2>2 DEF Inv, PlaceInv
  <2>4. c \in Untouched
    BY <1>1 DEF Inv, PlaceInv
  <2>5. \A i \in 1..Len(backlog') : backlog'[i] \in Untouched /\ peer'[backlog'[i]] # "new"
    BY <1>3, <1>4, <2>2, <2>4 DEF Inv, PlaceInv
  <2>6. \A d \in Conns : peer'[d] = "new" => d \in Untouched
    BY <1>4 DEF Inv, PlaceInv
  <2> QED BY <1>1, <2>1, <2>3, <2>5, <2>6 DEF Inv, PlaceInv
<1>7. MapInv'
  BY <1>1, <1>2 DEF Inv, MapInv, FollowsKernel, Findable, EndpointKey
<1>8. EventInv'
  <2>1. \A d \in Conns : peer[d] = "closed" => peer'[d] = "closed"
    BY <1>1, <1>4
  <2>2. \A f \in Fds : file[f] # None => file[f] \in Conns
    BY DEF Inv, TypeInv
  <2>3. Justified \subseteq Justified'
    BY <1>1, <2>1, <2>2, Constants DEF Justified, Socks
  <2> QED BY <1>2, <2>3, EventKept DEF Inv
<1> QED BY <1>1, <1>2, <1>5, <1>6, <1>7, <1>8, LoopKept, CallKept, RegKept DEF Inv

LEMMA InvPeerSends ==
    ASSUME Inv, NEW c \in Conns, PeerSends(c)
    PROVE  Inv'
<1>1. /\ unread' = [unread EXCEPT ![c] = @ + 1] /\ rdy' = ReadyConn(c)
      /\ UNCHANGED <<peer, backlog, file, mapVars, loopVars, userVars, cut, shared>>
  BY DEF PeerSends
<1>2. /\ UNCHANGED <<sock_endpoint_map_, endpoint_sock_map_, pc, cur_sock, cur, epoll_event_list_, told>>
      /\ UNCHANGED <<upc, named, ufd>>
  BY <1>1 DEF mapVars, loopVars, userVars
<1>3. unread' \in [Conns -> Nat] /\ \A d \in Conns : unread[d] > 0 => unread'[d] > 0
  BY <1>1 DEF Inv, TypeInv
<1>4. TypeInv'
  BY <1>1, <1>2, <1>3 DEF Inv, TypeInv, Socks, ReadyConn
<1>5. MapInv'
  BY <1>1, <1>2 DEF Inv, MapInv, FollowsKernel, Findable, EndpointKey
<1>6. EventInv'
  <2>1. \A f \in Fds : file[f] # None => file[f] \in Conns
    BY DEF Inv, TypeInv
  <2>2. Justified \subseteq Justified'
    BY <1>1, <1>3, <2>1, Constants DEF Justified, Socks
  <2> QED BY <1>2, <2>2, EventKept DEF Inv
<1> QED BY <1>1, <1>2, <1>4, <1>5, <1>6, PlaceKept, LoopKept, CallKept, RegKept DEF Inv

LEMMA InvPeerCloses ==
    ASSUME Inv, NEW c \in Conns, PeerCloses(c)
    PROVE  Inv'
<1>1. /\ peer[c] = "open" /\ peer' = [peer EXCEPT ![c] = "closed"] /\ rdy' = ReadyConn(c)
      /\ UNCHANGED <<unread, backlog, file, mapVars, loopVars, userVars, cut, shared>>
  BY DEF PeerCloses
<1>2. /\ UNCHANGED <<sock_endpoint_map_, endpoint_sock_map_, pc, cur_sock, cur, epoll_event_list_, told>>
      /\ UNCHANGED <<upc, named, ufd>>
  BY <1>1 DEF mapVars, loopVars, userVars
<1>3. peer'[c] = "closed" /\ \A d \in Conns \ {c} : peer'[d] = peer[d]
  BY <1>1 DEF Inv, TypeInv
<1>4. TypeInv'
  BY <1>1, <1>2 DEF Inv, TypeInv, Socks, ReadyConn
<1>5. PlaceInv'
  <2>1. Untouched' = Untouched
    BY <1>1, <1>2 DEF Untouched
  <2>2. \A i \in 1..Len(backlog) : backlog[i] \in Conns
    BY ElementOfSeq DEF Inv, TypeInv
  <2> QED BY <1>1, <1>3, <2>1, <2>2 DEF Inv, PlaceInv
<1>6. MapInv'
  BY <1>1, <1>2 DEF Inv, MapInv, FollowsKernel, Findable, EndpointKey
<1>7. EventInv'
  <2>1. \A f \in Fds : file[f] # None => file[f] \in Conns
    BY DEF Inv, TypeInv
  <2>2. \A d \in Conns : peer[d] = "closed" => peer'[d] = "closed"
    BY <1>3
  <2>3. Justified \subseteq Justified'
    BY <1>1, <2>1, <2>2, Constants DEF Justified, Socks
  <2> QED BY <1>2, <2>3, EventKept DEF Inv
<1> QED BY <1>1, <1>2, <1>4, <1>5, <1>6, <1>7, LoopKept, CallKept, RegKept DEF Inv

-----------------------------------------------------------------------------
(* The loop. *)

LEMMA NextEventKeeps ==
    ASSUME Inv, NextEvent, epoll_event_list_ # << >>, UNCHANGED <<cut, file, peer, unread>>
    PROVE  /\ EventInv' /\ LoopInv'
           /\ pc' \in {"wait", "next"} /\ cur_sock' = local_sock /\ cur' = None
           /\ epoll_event_list_' \in Seq(Socks \X {"in", "hup"})
<1>1. /\ cur_sock' = local_sock /\ cur' = None /\ epoll_event_list_' = Tail(epoll_event_list_)
      /\ pc' = IF Tail(epoll_event_list_) = << >> THEN "wait" ELSE "next"
  BY DEF NextEvent
<1>2. EventInv' /\ epoll_event_list_' \in Seq(Socks \X {"in", "hup"})
  BY <1>1, EventTail DEF Inv
<1>3. LoopInv'
  BY <1>1 DEF LoopInv
<1> QED BY <1>1, <1>2, <1>3

\* The events of a round are about different descriptors, and each is justified.
LEMMA InvEpollWait ==
    ASSUME Inv, epoll_wait
    PROVE  Inv'
<1> DEFINE S == {f \in rdy : Reported(f)}
<1>1. /\ pc = "wait" /\ rdy' = {}
      /\ UNCHANGED <<peer, unread, backlog, file, mapVars, cur_sock, cur, told, userVars, cut, shared>>
  BY DEF epoll_wait
<1>2. PICK fds \in SetToSeqs(S) : \E kind \in [DOMAIN fds -> {"in", "hup"}] :
         /\ \A i \in DOMAIN fds : kind[i] \in EventKinds(fds[i])
         /\ epoll_event_list_' = [i \in DOMAIN fds |-> <<fds[i], kind[i]>>]
         /\ pc' = IF fds = << >> THEN "wait" ELSE "next"
  BY DEF epoll_wait
<1>3. PICK kind \in [DOMAIN fds -> {"in", "hup"}] :
         /\ \A i \in DOMAIN fds : kind[i] \in EventKinds(fds[i])
         /\ epoll_event_list_' = [i \in DOMAIN fds |-> <<fds[i], kind[i]>>]
         /\ pc' = IF fds = << >> THEN "wait" ELSE "next"
  BY <1>2
<1> DEFINE n == Cardinality(S)
<1>4. n \in Nat
  <2>1. S \subseteq Socks
    BY DEF Inv, TypeInv
  <2> QED BY <2>1, Constants, FS_Subset, FS_CardinalityType
<1>5. fds \in [1..n -> S] /\ \A i, j \in 1..n : i # j => fds[i] # fds[j]
  BY DEF SetToSeqs
<1>6. \A f \in S : f \in Socks /\ Reported(f)
  BY DEF Inv, TypeInv
<1> HIDE DEF S, n
<1> DEFINE s == epoll_event_list_'
<1>7. DOMAIN fds = 1..n /\ \A i \in 1..n : fds[i] \in S
  BY <1>5
<1>8. s = [i \in 1..n |-> <<fds[i], kind[i]>>] /\ \A i \in 1..n : s[i] = <<fds[i], kind[i]>>
  BY <1>3, <1>7
<1>9. \A i \in 1..n : <<fds[i], kind[i]>> \in Socks \X {"in", "hup"}
  BY <1>3, <1>6, <1>7
<1>10. s \in [1..n -> Socks \X {"in", "hup"}]
  BY <1>8, <1>9
<1>11. s \in Seq(Socks \X {"in", "hup"}) /\ Len(s) = n
  BY <1>4, <1>10
<1>12. \A i \in 1..n : s[i] \in Justified
  <2> SUFFICES ASSUME NEW i \in 1..n PROVE <<fds[i], kind[i]>> \in Justified
    BY <1>8
  <2>1. fds[i] \in Socks /\ Reported(fds[i]) /\ kind[i] \in EventKinds(fds[i]) /\ kind[i] \in {"in", "hup"}
    BY <1>3, <1>6, <1>7
  <2>2. CASE fds[i] = local_sock
    BY <1>9, <2>2 DEF Justified
  <2>3. CASE fds[i] # local_sock
    <3>1. file[fds[i]] # None /\ (unread[file[fds[i]]] > 0 \/ peer[file[fds[i]]] = "closed")
      BY <2>1, <2>3 DEF Reported
    <3>2. fds[i] \in Fds
      BY <2>1, <2>3 DEF Socks
    <3>3. unread[file[fds[i]]] \in Nat
      BY <3>1, <3>2 DEF Inv, TypeInv
    <3>4. unread[file[fds[i]]] > 0 => kind[i] = "in"
      BY <2>1, <2>3, <3>3 DEF EventKinds
    <3> QED BY <1>9, <3>1, <3>4 DEF Justified
  <2> QED BY <2>2, <2>3
<1>13. Justified' = Justified
  BY <1>1 DEF Justified
<1>14. \A i, j \in 1..n : s[i][1] = s[j][1] => i = j
  BY <1>5, <1>8
<1>15. EventInv'
  BY <1>11, <1>12, <1>13, <1>14 DEF EventInv
<1>16. pc' \in {"wait", "next"} /\ (pc' = "next" => s # << >>)
  <2>1. CASE fds = << >>
    BY <1>3, <2>1
  <2>2. CASE fds # << >>
    <3>1. n # 0
      <4> SUFFICES ASSUME n = 0 PROVE FALSE
        OBVIOUS
      <4>1. fds \in [1..0 -> S]
        BY <1>5
      <4>2. fds \in Seq(S) /\ Len(fds) = 0
        BY <4>1
      <4> QED BY <2>2, <4>2, EmptySeq
    <3>2. s # << >>
      BY <1>4, <1>11, <3>1
    <3> QED BY <1>3, <2>2, <3>2
  <2> QED BY <2>1, <2>2
<1>17. LoopInv'
  BY <1>16 DEF LoopInv
<1>18. TypeInv'
  <2>1. UNCHANGED <<sock_endpoint_map_, endpoint_sock_map_, upc, named, ufd>>
    BY <1>1 DEF mapVars, userVars
  <2> QED BY <1>1, <1>11, <1>16, <2>1 DEF Inv, TypeInv, PCs
<1> QED BY <1>1, <1>15, <1>17, <1>18, PlaceKept, MapKept, CallKept, RegKept DEF Inv

LEMMA InvListenEnds ==
    ASSUME Inv, ListenEnds, pc \in {"next", "register"}
    PROVE  Inv'
<1>1. /\ pc' = "ended"
      /\ UNCHANGED <<kernelVars, mapVars, cur_sock, cur, epoll_event_list_, told, userVars, cut, shared>>
  BY DEF ListenEnds
<1>2. /\ UNCHANGED <<peer, unread, backlog, file, rdy, sock_endpoint_map_, endpoint_sock_map_>>
      /\ UNCHANGED <<upc, named, ufd>>
  BY <1>1 DEF kernelVars, mapVars, userVars
<1>3. TypeInv'
  BY <1>1, <1>2 DEF Inv, TypeInv, PCs
<1>4. LoopInv'
  BY <1>1 DEF LoopInv
<1>5. Justified' = Justified
  BY <1>1, <1>2 DEF Justified
<1>6. EventInv'
  BY <1>1, <1>5, EventKept DEF Inv
<1> QED BY <1>1, <1>2, <1>3, <1>4, <1>6, PlaceKept, MapKept, CallKept, RegKept DEF Inv

LEMMA EventHead ==
    ASSUME Inv, NEW f, NEW kind, Event(f, kind)
    PROVE  /\ pc = "next" /\ epoll_event_list_ # << >> /\ epoll_event_list_[1] = <<f, kind>>
           /\ 1 \in 1..Len(epoll_event_list_) /\ <<f, kind>> \in Justified
<1>1. pc = "next" /\ epoll_event_list_ # << >>
  BY DEF Event, Inv, LoopInv
<1>2. /\ Len(epoll_event_list_) \in Nat \ {0}
      /\ Head(epoll_event_list_) = epoll_event_list_[1]
  BY <1>1, TailSeq DEF Inv, TypeInv
<1>3. epoll_event_list_[1] = <<f, kind>> /\ 1 \in 1..Len(epoll_event_list_)
  BY <1>2 DEF Event
<1> QED BY <1>1, <1>3 DEF Inv, EventInv

\* A descriptor that is free is given to the first of the backlog.
LEMMA InvAccept ==
    ASSUME Inv, NEW f \in Fds, accept(f)
    PROVE  Inv'
<1> DEFINE c == Head(backlog)
<1>1. /\ Event(local_sock, "in") /\ backlog # << >> /\ file[f] = None
      /\ file' = [file EXCEPT ![f] = c] /\ backlog' = Tail(backlog)
      /\ rdy' \in {rdy, rdy \cup {f}}
      /\ cur_sock' = f /\ cur' = c /\ pc' = "register"
      /\ UNCHANGED <<peer, unread, mapVars, epoll_event_list_, told, userVars, cut, shared>>
  BY DEF accept
<1>2. UNCHANGED <<sock_endpoint_map_, endpoint_sock_map_, upc, named, ufd>>
  BY <1>1 DEF mapVars, userVars
<1>3. /\ pc = "next" /\ epoll_event_list_ # << >>
  BY <1>1, EventHead
<1>4. /\ Len(backlog) \in Nat \ {0} /\ c \in Conns /\ c = backlog[1]
      /\ Tail(backlog) \in Seq(Conns)
      /\ \A i \in 1..Len(Tail(backlog)) :
            Tail(backlog)[i] = backlog[i + 1] /\ i + 1 \in 1..Len(backlog) /\ i + 1 # 1
  BY <1>1, TailSeq DEF Inv, TypeInv
<1>5. 1 \in 1..Len(backlog)
  BY <1>4
<1>6. c \in Untouched /\ peer[c] # "new"
  BY <1>4, <1>5 DEF Inv, PlaceInv
<1>7. told[c] = "none" /\ \A g \in Fds : file[g] # c
  BY <1>6 DEF Untouched
<1> HIDE DEF c
<1>8. file'[f] = c /\ \A g \in Fds \ {f} : file'[g] = file[g]
  BY <1>1 DEF Inv, TypeInv
<1>9. c # None
  BY <1>4, Constants
<1>10. TypeInv'
  BY <1>1, <1>2, <1>4 DEF Inv, TypeInv, PCs, Socks
<1>11. PlaceInv'
  <2>1. \A d \in Untouched : d # c => d \in Untouched'
    BY <1>1, <1>8 DEF Untouched
  <2>2. \A g, h \in Fds : file'[g] # None /\ file'[g] = file'[h] => g = h
    BY <1>7, <1>8 DEF Inv, PlaceInv
  <2>3. \A i \in 1..Len(Tail(backlog)) : Tail(backlog)[i] # c
    BY <1>4, <1>5 DEF Inv, PlaceInv
  <2>4. \A i, j \in 1..Len(Tail(backlog)) : Tail(backlog)[i] = Tail(backlog)[j] => i = j
    <3> SUFFICES ASSUME NEW i \in 1..Len(Tail(backlog)), NEW j \in 1..Len(Tail(backlog)),
                        Tail(backlog)[i] = Tail(backlog)[j]
                 PROVE  i = j
      OBVIOUS
    <3>1. i + 1 = j + 1
      BY <1>4 DEF Inv, PlaceInv
    <3> QED BY <3>1
  <2>5. \A i \in 1..Len(Tail(backlog)) : Tail(backlog)[i] \in Untouched /\ peer[Tail(backlog)[i]] # "new"
    BY <1>4 DEF Inv, PlaceInv
  <2>6. \A d \in Conns : peer[d] = "new" => d \in Untouched /\ d # c
    BY <1>6 DEF Inv, PlaceInv
  <2> QED BY <1>1, <2>1, <2>2, <2>3, <2>4, <2>5, <2>6 DEF PlaceInv
<1>12. LoopInv'
  <2>1. \A g \in Fds : file'[g] = c => g = f
    BY <1>7, <1>8
  <2> QED BY <1>1, <1>3, <1>4, <1>7, <1>8, <2>1 DEF LoopInv
<1>13. MapInv'
  <2>1. \A g \in DOMAIN sock_endpoint_map_ :
           file'[g] = sock_endpoint_map_[g] \/ <<sock_endpoint_map_[g], g>> \in cut
    <3> SUFFICES ASSUME NEW g \in DOMAIN sock_endpoint_map_
                 PROVE  file'[g] = sock_endpoint_map_[g] \/ <<sock_endpoint_map_[g], g>> \in cut
      OBVIOUS
    <3>1. file[g] = sock_endpoint_map_[g] \/ <<sock_endpoint_map_[g], g>> \in cut
      BY <1>3 DEF Inv, MapInv, FollowsKernel
    <3>2. g \in Fds /\ sock_endpoint_map_[g] # None
      BY Constants DEF Inv, TypeInv
    <3> QED BY <1>1, <1>8, <3>1, <3>2
  <2>2. \A g \in Fds : file'[g] # None /\ told[file'[g]] = "open" => g # f /\ file'[g] = file[g]
    BY <1>7, <1>8
  <2>3. \A g \in DOMAIN sock_endpoint_map_' : FollowsKernel(g)' /\ told'[sock_endpoint_map_'[g]] # "none"
    BY <1>1, <1>2, <2>1 DEF FollowsKernel, Inv, MapInv
  <2>4. \A g \in Fds : file'[g] # None /\ told'[file'[g]] = "open" =>
           g \in DOMAIN sock_endpoint_map_' /\ sock_endpoint_map_'[g] = file'[g]
    BY <1>1, <1>2, <2>2 DEF Inv, MapInv
  <2>5. \A g \in Fds : file'[g] # None /\ told'[file'[g]] = "open" /\ file'[g] \notin shared' => Findable(g)'
    BY <1>1, <1>2, <2>2 DEF Inv, MapInv, Findable, EndpointKey
  <2> QED BY <1>1, <1>2, <2>3, <2>4, <2>5 DEF Inv, MapInv
<1>14. CallInv'
  <2> SUFFICES ASSUME NEW u \in Users, upc[u] = "use"
               PROVE  /\ named[u] \in Conns /\ ufd[u] \in Fds
                      /\ u \in overtaken \/ \E d \in Conns : ActsOn(u, d)'
    BY <1>1, <1>2 DEF CallInv, userVars
  <2>1. /\ named[u] \in Conns /\ ufd[u] \in Fds
        /\ u \in overtaken \/ \E d \in Conns : ActsOn(u, d)
    BY DEF Inv, CallInv
  <2>2. ASSUME NEW d \in Conns, ActsOn(u, d) PROVE ActsOn(u, d)'
    BY <1>1, <1>2, <1>8, <2>1, <2>2, Constants DEF ActsOn
  <2> QED BY <2>1, <2>2
<1>15. EventInv'
  <2>1. \A g \in Fds : file[g] # None => file'[g] = file[g]
    BY <1>1, <1>8
  <2>2. Justified \subseteq Justified'
    BY <1>1, <2>1 DEF Justified, Socks
  <2> QED BY <1>1, <2>2, EventKept DEF Inv
<1> QED BY <1>1, <1>10, <1>11, <1>12, <1>13, <1>14, <1>15, RegKept DEF Inv

\* Both maps take the new connection; one that had its key becomes shared.
LEMMA InvOnAccept ==
    ASSUME Inv, OnAccept
    PROVE  Inv'
<1> DEFINE sem == sock_endpoint_map_
           esm == endpoint_sock_map_
<1>1. /\ pc = "register" /\ sem' = Put(sem, cur_sock, cur)
      /\ esm' = Put(esm, Key[cur], cur_sock)
      /\ told' = [told EXCEPT ![cur] = "open"] /\ NextEvent
      /\ UNCHANGED <<kernelVars, userVars, cut>>
  BY DEF OnAccept, AfterAccept, EndpointKey
<1>2. UNCHANGED <<peer, unread, backlog, file, rdy, upc, named, ufd, cut>>
  BY <1>1 DEF kernelVars, userVars
<1>3. /\ cur \in Conns /\ cur_sock \in Fds /\ told[cur] = "none" /\ epoll_event_list_ # << >>
      /\ file[cur_sock] = cur \/ (file[cur_sock] = None /\ <<cur, cur_sock>> \in cut)
      /\ \A f \in Fds : file[f] = cur => f = cur_sock
  BY <1>1 DEF Inv, LoopInv
<1>4. /\ EventInv' /\ LoopInv' /\ pc' \in {"wait", "next"} /\ cur_sock' = local_sock /\ cur' = None
      /\ epoll_event_list_' \in Seq(Socks \X {"in", "hup"})
  BY <1>1, <1>2, <1>3, NextEventKeeps
<1>5. /\ shared \subseteq shared'
      /\ \A f \in DOMAIN sem \ {cur_sock} : Key[sem[f]] = Key[cur] => sem[f] \in shared' /\ cur \in shared'
  <2> DEFINE others == {sem[f] : f \in DOMAIN sem \ {cur_sock}}
             same == {d \in others : Key[d] = Key[cur]}
  <2>1. shared' = IF same = {} THEN shared ELSE shared \cup same \cup {cur}
    BY DEF OnAccept
  <2>2. \A f \in DOMAIN sem \ {cur_sock} : Key[sem[f]] = Key[cur] => sem[f] \in same
    OBVIOUS
  <2> HIDE DEF same
  <2> QED BY <2>1, <2>2
<1> HIDE DEF sem, esm
<1>6. /\ DOMAIN sem' = DOMAIN sem \cup {cur_sock} /\ sem'[cur_sock] = cur
      /\ \A f \in DOMAIN sem \ {cur_sock} : sem'[f] = sem[f]
  BY <1>1 DEF Put
<1>7. /\ DOMAIN esm' = DOMAIN esm \cup {Key[cur]} /\ esm'[Key[cur]] = cur_sock
      /\ \A k \in DOMAIN esm \ {Key[cur]} : esm'[k] = esm[k]
  BY <1>1 DEF Put
<1>8. told'[cur] = "open" /\ \A d \in Conns \ {cur} : told'[d] = told[d]
  BY <1>1, <1>3 DEF Inv, TypeInv
<1>9. TypeInv'
  <2>1. DOMAIN sem' \subseteq Fds /\ \A f \in DOMAIN sem' : sem'[f] \in Conns
    BY <1>3, <1>6 DEF Inv, TypeInv, sem
  <2>2. \A k \in DOMAIN esm' : esm'[k] \in Fds
    BY <1>3, <1>7 DEF Inv, TypeInv, esm
  <2>3. told' \in [Conns -> {"none", "open", "closed"}]
    BY <1>1 DEF Inv, TypeInv
  <2> QED BY <1>2, <1>4, <2>1, <2>2, <2>3 DEF Inv, TypeInv, PCs, Socks, sem, esm
<1>10. PlaceInv'
  <2>1. cur \notin Untouched
    BY DEF Untouched
  <2>2. \A d \in Untouched : d \in Untouched'
    BY <1>2, <1>4, <1>8, <2>1, Constants DEF Untouched
  <2> QED BY <1>2, <2>2 DEF Inv, PlaceInv
<1>11. MapInv'
  <2>1. \A f \in DOMAIN sem \ {cur_sock} : file[f] = sem[f] \/ <<sem[f], f>> \in cut
    BY <1>1 DEF Inv, MapInv, FollowsKernel, sem
  <2>2. \A f \in DOMAIN sem' : file[f] = sem'[f] \/ <<sem'[f], f>> \in cut
    BY <1>3, <1>6, <2>1
  <2>3. \A f \in DOMAIN sock_endpoint_map_' : FollowsKernel(f)' /\ told'[sock_endpoint_map_'[f]] # "none"
    <3>1. \A f \in DOMAIN sock_endpoint_map_' : FollowsKernel(f)'
      BY <1>2, <2>2 DEF FollowsKernel, sem
    <3>2. \A f \in DOMAIN sem : sem[f] \in Conns /\ told[sem[f]] # "none"
      BY DEF Inv, TypeInv, MapInv, sem
    <3>3. \A f \in DOMAIN sem' : told'[sem'[f]] # "none"
      BY <1>6, <1>8, <3>2
    <3> QED BY <3>1, <3>3 DEF sem
  <2>4. \A f \in Fds \ {cur_sock} : file[f] # None /\ told'[file[f]] = "open" =>
           file[f] \in Conns /\ file[f] # cur /\ told[file[f]] = "open"
    BY <1>3, <1>8 DEF Inv, TypeInv
  <2>5. \A f \in Fds \ {cur_sock} : file[f] # None /\ told'[file[f]] = "open" =>
           f \in DOMAIN sem /\ sem[f] = file[f]
    BY <2>4 DEF Inv, MapInv, sem
  <2>6. \A f \in Fds : file[f] # None /\ told'[file[f]] = "open" =>
           f \in DOMAIN sem' /\ sem'[f] = file[f]
    BY <1>3, <1>6, <2>5
  <2>7. \A f, g \in DOMAIN sem' : f # g /\ Key[sem'[f]] = Key[sem'[g]] => sem'[f] \in shared'
    <3>1. \A f, g \in DOMAIN sem : f # g /\ Key[sem[f]] = Key[sem[g]] => sem[f] \in shared
      BY DEF Inv, MapInv, sem
    <3> SUFFICES ASSUME NEW f \in DOMAIN sem', NEW g \in DOMAIN sem', f # g, Key[sem'[f]] = Key[sem'[g]]
                 PROVE  sem'[f] \in shared'
      OBVIOUS
    <3>2. CASE f = cur_sock
      BY <1>5, <1>6, <3>2
    <3>3. CASE g = cur_sock
      BY <1>5, <1>6, <3>3
    <3>4. CASE f # cur_sock /\ g # cur_sock
      BY <1>5, <1>6, <3>1, <3>4
    <3> QED BY <3>2, <3>3, <3>4
  <2>8. \A f \in Fds : file[f] # None /\ told'[file[f]] = "open" /\ file[f] \notin shared' =>
           Key[file[f]] \in DOMAIN esm' /\ esm'[Key[file[f]]] = f
    <3> SUFFICES ASSUME NEW f \in Fds, file[f] # None, told'[file[f]] = "open", file[f] \notin shared'
                 PROVE  Key[file[f]] \in DOMAIN esm' /\ esm'[Key[file[f]]] = f
      OBVIOUS
    <3>1. CASE f = cur_sock
      <4>1. file[f] = cur
        BY <1>3, <3>1
      <4> QED BY <1>7, <3>1, <4>1
    <3>2. CASE f # cur_sock
      <4>1. told[file[f]] = "open" /\ file[f] \notin shared /\ f \in DOMAIN sem /\ sem[f] = file[f]
        BY <1>5, <2>4, <2>5, <3>2
      <4>2. Key[file[f]] \in DOMAIN esm /\ esm[Key[file[f]]] = f
        BY <4>1 DEF Inv, MapInv, Findable, EndpointKey, esm
      <4>3. Key[file[f]] # Key[cur]
        BY <1>5, <3>2, <4>1
      <4> QED BY <1>7, <4>2, <4>3
    <3> QED BY <3>1, <3>2
  <2>9. \A f \in Fds : file'[f] # None /\ told'[file'[f]] = "open" /\ file'[f] \notin shared' => Findable(f)'
    BY <1>2, <2>8 DEF Findable, EndpointKey, esm
  <2> QED BY <1>2, <2>3, <2>6, <2>7, <2>9 DEF MapInv, sem
<1>12. CallInv'
  BY <1>1, <1>2, CallKept DEF Inv
<1>13. RegInv'
  <2>1. \A f \in DOMAIN sem \ {cur_sock} : f \in DOMAIN sem' /\ sem'[f] = sem[f]
    BY <1>6
  <2>2. cur_sock \in DOMAIN sem => <<sem[cur_sock], cur_sock>> \in cut
    <3> SUFFICES ASSUME cur_sock \in DOMAIN sem PROVE <<sem[cur_sock], cur_sock>> \in cut
      OBVIOUS
    <3>1. file[cur_sock] = sem[cur_sock] \/ <<sem[cur_sock], cur_sock>> \in cut
      BY <1>1 DEF Inv, MapInv, FollowsKernel, sem
    <3>2. sem[cur_sock] \in Conns /\ sem[cur_sock] # cur
      BY <1>3 DEF Inv, TypeInv, MapInv, sem
    <3> QED BY <1>3, <3>1, <3>2, Constants
  <2>3. ASSUME NEW k \in DOMAIN esm'
        PROVE  \E c \in Conns : Key[c] = k /\ (<<c, esm'[k]>> \in cut \/ (esm'[k] \in DOMAIN sem' /\ sem'[esm'[k]] = c))
    <3>1. CASE k = Key[cur]
      BY <1>3, <1>6, <1>7, <3>1
    <3>2. CASE k # Key[cur]
      <4>1. k \in DOMAIN esm /\ esm'[k] = esm[k]
        BY <1>7, <2>3, <3>2
      <4>2. PICK c \in Conns : Key[c] = k /\ (<<c, esm[k]>> \in cut \/ (esm[k] \in DOMAIN sem /\ sem[esm[k]] = c))
        BY <4>1 DEF Inv, RegInv, esm, sem
      <4> QED BY <2>1, <2>2, <4>1, <4>2
    <3> QED BY <3>1, <3>2
  <2> QED BY <1>2, <2>3 DEF RegInv, esm, sem
<1> QED BY <1>4, <1>9, <1>10, <1>11, <1>12, <1>13 DEF Inv

\* The event being handled is the only one about its descriptor, and a read
\* touches no other connection.
LEMMA EventRead ==
    ASSUME Inv, NEW f \in Fds, epoll_event_list_[1][1] = f, epoll_event_list_ # << >>,
           file[f] # None, TakeData(f), pc' # "next",
           UNCHANGED <<epoll_event_list_, cut, file, peer>>
    PROVE  EventInv'
<1>1. \A g \in Fds \ {f} : file[g] # None => unread'[file[g]] = unread[file[g]]
  BY DEF TakeData, Inv, TypeInv, PlaceInv
<1>2. \A e \in Justified : e[1] # f => e \in Justified'
  BY <1>1 DEF Justified, Socks
<1>3. 1 \in 1..Len(epoll_event_list_)
  BY TailSeq DEF Inv, TypeInv
<1>4. \A i \in 1..Len(epoll_event_list_) : i # 1 => epoll_event_list_[i] \in Justified /\ epoll_event_list_[i][1] # f
  BY <1>3 DEF Inv, EventInv
<1> QED BY <1>2, <1>4 DEF Inv, EventInv

LEMMA TakeDataType ==
    ASSUME TypeInv, NEW f \in Fds, HasData(f), TakeData(f)
    PROVE  unread' \in [Conns -> Nat]
<1>1. file[f] \in Conns /\ unread[file[f]] \in Nat \ {0}
  BY DEF TypeInv, HasData
<1>2. unread[file[f]] - 1 \in Nat
  BY <1>1
<1> QED BY <1>1, <1>2 DEF TypeInv, TakeData

LEMMA InvOnRecv ==
    ASSUME Inv, NEW f \in Fds, OnRecv(f)
    PROVE  Inv'
<1>1. /\ Event(f, "in") /\ HasData(f) /\ TakeData(f) /\ cur_sock' = f /\ pc' = "drain"
      /\ UNCHANGED <<peer, backlog, file, rdy, mapVars, cur, epoll_event_list_, told, userVars, cut, shared>>
  BY DEF OnRecv
<1>2. UNCHANGED <<sock_endpoint_map_, endpoint_sock_map_, upc, named, ufd>>
  BY <1>1 DEF mapVars, userVars
<1>3. pc = "next" /\ epoll_event_list_ # << >> /\ epoll_event_list_[1][1] = f
  <2>1. pc = "next" /\ epoll_event_list_ # << >> /\ epoll_event_list_[1] = <<f, "in">>
    BY <1>1, EventHead
  <2> QED BY <2>1
<1>4. unread' \in [Conns -> Nat] /\ file[f] # None
  BY <1>1, TakeDataType DEF Inv, HasData
<1>5. TypeInv'
  BY <1>1, <1>2, <1>4 DEF Inv, TypeInv, PCs, Socks
<1>6. LoopInv'
  BY <1>1, <1>3 DEF LoopInv
<1>7. EventInv'
  BY <1>1, <1>3, <1>4, EventRead
<1> QED BY <1>1, <1>3, <1>5, <1>6, <1>7, PlaceKept, MapKept, CallKept, RegKept DEF Inv

LEMMA InvOnRecvMore ==
    ASSUME Inv, OnRecvMore
    PROVE  Inv'
<1>1. /\ pc = "drain" /\ HasData(cur_sock) /\ TakeData(cur_sock)
      /\ UNCHANGED <<peer, backlog, file, rdy, mapVars, loopVars, userVars, cut, shared>>
  BY DEF OnRecvMore
<1>2. /\ UNCHANGED <<sock_endpoint_map_, endpoint_sock_map_, pc, cur_sock, cur, epoll_event_list_, told>>
      /\ UNCHANGED <<upc, named, ufd>>
  BY <1>1 DEF mapVars, loopVars, userVars
<1>3. cur_sock \in Fds /\ epoll_event_list_ # << >> /\ epoll_event_list_[1][1] = cur_sock
  BY <1>1 DEF Inv, LoopInv
<1>4. unread' \in [Conns -> Nat] /\ file[cur_sock] # None
  BY <1>1, <1>3, TakeDataType DEF Inv, HasData
<1>5. TypeInv'
  BY <1>1, <1>2, <1>4 DEF Inv, TypeInv
<1>6. EventInv'
  BY <1>1, <1>2, <1>3, <1>4, EventRead
<1> QED BY <1>1, <1>2, <1>5, <1>6, PlaceKept, MapKept, CallKept, RegKept, LoopKept DEF Inv

LEMMA InvDrainEnds ==
    ASSUME Inv, DrainEnds
    PROVE  Inv'
<1>1. pc = "drain" /\ NextEvent /\ UNCHANGED <<kernelVars, mapVars, told, userVars, cut, shared>>
  BY DEF DrainEnds
<1>2. /\ UNCHANGED <<peer, unread, backlog, file, rdy, sock_endpoint_map_, endpoint_sock_map_>>
      /\ UNCHANGED <<upc, named, ufd>>
  BY <1>1 DEF kernelVars, mapVars, userVars
<1>3. /\ EventInv' /\ LoopInv' /\ pc' \in {"wait", "next"} /\ cur_sock' = local_sock /\ cur' = None
      /\ epoll_event_list_' \in Seq(Socks \X {"in", "hup"})
  BY <1>1, <1>2, NextEventKeeps DEF Inv, LoopInv
<1>4. TypeInv'
  BY <1>1, <1>2, <1>3 DEF Inv, TypeInv, PCs, Socks
<1> QED BY <1>1, <1>2, <1>3, <1>4, PlaceKept, MapKept, CallKept, RegKept DEF Inv

\* A descriptor is closed: what is about the others stays.
LEMMA ClosedKeeps ==
    ASSUME Inv, NEW f \in Fds, file' = [file EXCEPT ![f] = None], UNCHANGED <<told, shared>>
    PROVE  /\ file' \in [Fds -> Conns \cup {None}]
           /\ file'[f] = None /\ \A g \in Fds \ {f} : file'[g] = file[g]
           /\ \A g, h \in Fds : file'[g] # None /\ file'[g] = file'[h] => g = h
           /\ \A c \in Conns : told[c] = "none" /\ cur # c /\ (\A g \in Fds : file[g] # c) =>
                 \A g \in Fds : file'[g] # c
<1>1. /\ file' \in [Fds -> Conns \cup {None}] /\ file'[f] = None
      /\ \A g \in Fds \ {f} : file'[g] = file[g]
  BY DEF Inv, TypeInv
<1>2. \A g, h \in Fds : file'[g] # None /\ file'[g] = file'[h] => g = h
  BY <1>1 DEF Inv, PlaceInv
<1>3. \A c \in Conns : (\A g \in Fds : file[g] # c) => \A g \in Fds : file'[g] # c
  BY <1>1, Constants
<1> QED BY <1>1, <1>2, <1>3

LEMMA InvCloseSock ==
    ASSUME Inv, NEW f \in Fds, CloseSock(f)
    PROVE  Inv'
<1>1. /\ Event(f, "in") \/ Event(f, "hup")
      /\ file' = [file EXCEPT ![f] = None]
      /\ rdy' = rdy \ {f} /\ cur_sock' = f /\ pc' = "forget"
      /\ overtaken' = overtaken \cup {u \in Users : upc[u] = "use" /\ ufd[u] = f}
      /\ UNCHANGED <<peer, unread, backlog, mapVars, cur, epoll_event_list_, told, upc, named, ufd, cut, shared>>
  BY DEF CloseSock
<1>2. UNCHANGED <<sock_endpoint_map_, endpoint_sock_map_, upc, named, ufd>>
  BY <1>1 DEF mapVars
<1>3. /\ pc = "next" /\ epoll_event_list_ # << >> /\ epoll_event_list_[1][1] = f
      /\ 1 \in 1..Len(epoll_event_list_)
  <2>1. PICK kind \in {"in", "hup"} : Event(f, kind)
    BY <1>1
  <2>2. /\ pc = "next" /\ epoll_event_list_ # << >> /\ epoll_event_list_[1] = <<f, kind>>
        /\ 1 \in 1..Len(epoll_event_list_)
    BY <2>1, EventHead
  <2> QED BY <2>2
<1>4. /\ file' \in [Fds -> Conns \cup {None}]
      /\ file'[f] = None /\ \A g \in Fds \ {f} : file'[g] = file[g]
      /\ \A g, h \in Fds : file'[g] # None /\ file'[g] = file'[h] => g = h
      /\ \A c \in Conns : told[c] = "none" /\ cur # c /\ (\A g \in Fds : file[g] # c) =>
            \A g \in Fds : file'[g] # c
  BY <1>1, ClosedKeeps
<1>5. TypeInv'
  BY <1>1, <1>2, <1>4 DEF Inv, TypeInv, PCs, Socks
<1>6. PlaceInv'
  <2>1. Untouched \subseteq Untouched'
    BY <1>1, <1>4 DEF Untouched
  <2> QED BY <1>1, <1>4, <2>1 DEF Inv, PlaceInv
<1>7. LoopInv'
  BY <1>1, <1>3, <1>4 DEF LoopInv
<1>8. MapInv'
  <2>1. \A g \in Fds : file'[g] # None => file'[g] = file[g]
    BY <1>4
  <2>2. \A g \in DOMAIN sock_endpoint_map_ : g \in Fds
    BY DEF Inv, TypeInv
  <2>3. \A g \in DOMAIN sock_endpoint_map_' : FollowsKernel(g)' /\ told'[sock_endpoint_map_'[g]] # "none"
    BY <1>1, <1>2, <1>3, <1>4, <2>2 DEF Inv, MapInv, FollowsKernel
  <2>4. \A g \in Fds : file'[g] # None /\ told'[file'[g]] = "open" /\ file'[g] \notin shared' => Findable(g)'
    BY <1>1, <1>2, <2>1 DEF Inv, MapInv, Findable, EndpointKey
  <2> QED BY <1>1, <1>2, <2>1, <2>3, <2>4 DEF Inv, MapInv
<1>9. CallInv'
  <2> SUFFICES ASSUME NEW u \in Users, upc[u] = "use"
               PROVE  /\ named[u] \in Conns /\ ufd[u] \in Fds
                      /\ u \in overtaken' \/ \E d \in Conns : ActsOn(u, d)'
    BY <1>2 DEF CallInv
  <2>1. /\ named[u] \in Conns /\ ufd[u] \in Fds
        /\ u \in overtaken \/ \E d \in Conns : ActsOn(u, d)
    BY DEF Inv, CallInv
  <2>2. CASE ufd[u] = f
    BY <1>1, <2>1, <2>2
  <2>3. CASE ufd[u] # f
    <3>1. ASSUME NEW d \in Conns, ActsOn(u, d) PROVE ActsOn(u, d)'
      BY <1>1, <1>2, <1>4, <2>1, <2>3, <3>1 DEF ActsOn
    <3> QED BY <1>1, <2>1, <3>1
  <2> QED BY <2>2, <2>3
<1>10. EventInv'
  <2>1. \A e \in Justified : e[1] # f => e \in Justified'
    BY <1>1, <1>4 DEF Justified, Socks
  <2>2. \A i \in 1..Len(epoll_event_list_) : i # 1 => epoll_event_list_[i] \in Justified /\ epoll_event_list_[i][1] # f
    BY <1>3 DEF Inv, EventInv
  <2> QED BY <1>1, <2>1, <2>2 DEF Inv, EventInv
<1> QED BY <1>1, <1>5, <1>6, <1>7, <1>8, <1>9, <1>10, RegKept DEF Inv

\* The entry of the closed descriptor goes; another connection that loses its
\* entry in the second map had the same key.
LEMMA InvOnDisconnect ==
    ASSUME Inv, OnDisconnect
    PROVE  Inv'
<1> DEFINE sem == sock_endpoint_map_
           esm == endpoint_sock_map_
<1>1. pc = "forget" /\ NextEvent /\ UNCHANGED <<kernelVars, userVars, cut, shared>>
  BY DEF OnDisconnect
<1>2. UNCHANGED <<peer, unread, backlog, file, rdy, upc, named, ufd>>
  BY <1>1 DEF kernelVars, userVars
<1>3. cur_sock \in Fds /\ file[cur_sock] = None /\ epoll_event_list_ # << >>
  BY <1>1 DEF Inv, LoopInv
<1>4. /\ EventInv' /\ LoopInv' /\ pc' \in {"wait", "next"} /\ cur_sock' = local_sock /\ cur' = None
      /\ epoll_event_list_' \in Seq(Socks \X {"in", "hup"})
  BY <1>1, <1>2, <1>3, NextEventKeeps
<1>5. CASE cur_sock \notin DOMAIN sem
  <2>1. UNCHANGED <<told, mapVars>>
    BY <1>5 DEF OnDisconnect
  <2>2. UNCHANGED <<sock_endpoint_map_, endpoint_sock_map_>>
    BY <2>1 DEF mapVars
  <2>3. TypeInv'
    BY <1>1, <1>2, <1>4, <2>1, <2>2 DEF Inv, TypeInv, PCs, Socks
  <2>4. MapInv'
    BY <1>1, <1>2, <1>5, <2>1, <2>2 DEF Inv, MapInv, FollowsKernel, Findable, EndpointKey
  <2> QED BY <1>1, <1>2, <1>4, <2>1, <2>3, <2>4, PlaceKept, CallKept, RegKept DEF Inv
<1>6. CASE cur_sock \in DOMAIN sem
  <2> DEFINE c == sem[cur_sock]
  <2>1. /\ told' = [told EXCEPT ![c] = "closed"] /\ esm' = Erase(esm, Key[c])
        /\ sem' = Erase(sem, cur_sock)
    BY <1>6 DEF OnDisconnect, ForgetSock, EndpointKey
  <2>2. c \in Conns
    BY <1>6 DEF Inv, TypeInv
  <2>3. sem[cur_sock] = c
    OBVIOUS
  <2> HIDE DEF c, sem, esm
  <2>4. DOMAIN sem' = DOMAIN sem \ {cur_sock} /\ \A f \in DOMAIN sem' : sem'[f] = sem[f]
    BY <2>1 DEF Erase
  <2>5. DOMAIN esm' = DOMAIN esm \ {Key[c]} /\ \A k \in DOMAIN esm' : esm'[k] = esm[k]
    BY <2>1 DEF Erase
  <2>6. told'[c] = "closed" /\ \A d \in Conns \ {c} : told'[d] = told[d]
    BY <2>1, <2>2 DEF Inv, TypeInv
  <2>7. TypeInv'
    <3>1. DOMAIN sem' \subseteq Fds /\ \A f \in DOMAIN sem' : sem'[f] \in Conns
      BY <2>4 DEF Inv, TypeInv, sem
    <3>2. \A k \in DOMAIN esm' : esm'[k] \in Fds
      BY <2>5 DEF Inv, TypeInv, esm
    <3>3. told' \in [Conns -> {"none", "open", "closed"}]
      BY <2>1 DEF Inv, TypeInv
    <3> QED BY <1>1, <1>2, <1>4, <3>1, <3>2, <3>3 DEF Inv, TypeInv, PCs, Socks, sem, esm
  <2>8. PlaceInv'
    <3>1. c \notin Untouched
      BY <1>6, <2>3 DEF Inv, MapInv, Untouched, sem
    <3>2. Untouched \subseteq Untouched'
      BY <1>2, <1>4, <2>6, <3>1, Constants DEF Untouched
    <3> QED BY <1>2, <3>2 DEF Inv, PlaceInv
  <2>9. MapInv'
    <3>1. \A f \in DOMAIN sem' : file[f] = sem'[f] \/ <<sem'[f], f>> \in cut
      BY <2>4 DEF Inv, MapInv, FollowsKernel, sem
    <3>2. \A f \in DOMAIN sem' : told'[sem'[f]] # "none"
      BY <2>4, <2>6 DEF Inv, TypeInv, MapInv, sem
    <3>3. \A f \in DOMAIN sock_endpoint_map_' : FollowsKernel(f)' /\ told'[sock_endpoint_map_'[f]] # "none"
      BY <1>1, <1>2, <3>1, <3>2 DEF FollowsKernel, sem
    <3>4. \A f \in Fds : file[f] # None /\ told'[file[f]] = "open" =>
             f # cur_sock /\ file[f] # c /\ told[file[f]] = "open"
      BY <1>3, <2>6 DEF Inv, TypeInv
    <3>5. \A f \in Fds : file[f] # None /\ told'[file[f]] = "open" =>
             f \in DOMAIN sem /\ sem[f] = file[f]
      BY <3>4 DEF Inv, MapInv, sem
    <3>6. \A f \in Fds : file[f] # None /\ told'[file[f]] = "open" =>
             f \in DOMAIN sem' /\ sem'[f] = file[f]
      BY <2>4, <3>4, <3>5
    <3>7. \A f, g \in DOMAIN sem : f # g /\ Key[sem[f]] = Key[sem[g]] => sem[f] \in shared
      BY DEF Inv, MapInv, sem
    <3>8. \A f, g \in DOMAIN sem' : f # g /\ Key[sem'[f]] = Key[sem'[g]] => sem'[f] \in shared
      BY <2>4, <3>7
    <3>9. \A f \in Fds : file[f] # None /\ told'[file[f]] = "open" /\ file[f] \notin shared =>
             Key[file[f]] \in DOMAIN esm' /\ esm'[Key[file[f]]] = f
      <4> SUFFICES ASSUME NEW f \in Fds, file[f] # None, told'[file[f]] = "open", file[f] \notin shared
                   PROVE  Key[file[f]] \in DOMAIN esm' /\ esm'[Key[file[f]]] = f
        OBVIOUS
      <4>1. Key[file[f]] \in DOMAIN esm /\ esm[Key[file[f]]] = f
        BY <3>4 DEF Inv, MapInv, Findable, EndpointKey, esm
      <4>2. Key[file[f]] # Key[c]
        BY <1>6, <2>3, <3>4, <3>5, <3>7
      <4> QED BY <2>5, <4>1, <4>2
    <3>10. \A f \in Fds : file'[f] # None /\ told'[file'[f]] = "open" /\ file'[f] \notin shared' => Findable(f)'
      BY <1>1, <1>2, <3>9 DEF Findable, EndpointKey, esm
    <3> QED BY <1>1, <1>2, <3>3, <3>6, <3>8, <3>10 DEF MapInv, sem
  <2>10. CallInv'
    BY <1>1, <1>2, CallKept DEF Inv
  <2>11. RegInv'
    <3>1. ASSUME NEW k \in DOMAIN esm'
          PROVE  \E d \in Conns : Key[d] = k /\ (<<d, esm'[k]>> \in cut \/ (esm'[k] \in DOMAIN sem' /\ sem'[esm'[k]] = d))
      <4>1. k \in DOMAIN esm /\ k # Key[c] /\ esm'[k] = esm[k]
        BY <2>5, <3>1
      <4>2. PICK d \in Conns : Key[d] = k /\ (<<d, esm[k]>> \in cut \/ (esm[k] \in DOMAIN sem /\ sem[esm[k]] = d))
        BY <4>1 DEF Inv, RegInv, esm, sem
      <4> QED BY <2>3, <2>4, <4>1, <4>2
    <3> QED BY <1>1, <3>1 DEF RegInv, esm, sem
  <2> QED BY <1>4, <2>7, <2>8, <2>9, <2>10, <2>11 DEF Inv
<1> QED BY <1>5, <1>6

-----------------------------------------------------------------------------
(* The application threads. *)

LEMMA InvFindSock ==
    ASSUME Inv, NEW u \in Users, NEW c \in Conns, FindSock(u, c)
    PROVE  Inv'
<1> DEFINE f == endpoint_sock_map_[Key[c]]
<1>1. /\ told[c] = "open" /\ Key[c] \in DOMAIN endpoint_sock_map_
      /\ upc' = [upc EXCEPT ![u] = "use"] /\ named' = [named EXCEPT ![u] = c]
      /\ ufd' = [ufd EXCEPT ![u] = f]
      /\ overtaken' = IF pc = "forget" /\ cur_sock = f THEN overtaken \cup {u} ELSE overtaken
      /\ UNCHANGED <<kernelVars, mapVars, loopVars, cut, shared>>
  BY DEF FindSock, EndpointKey
<1>2. /\ UNCHANGED <<peer, unread, backlog, file, rdy, sock_endpoint_map_, endpoint_sock_map_>>
      /\ UNCHANGED <<pc, cur_sock, cur, epoll_event_list_, told>>
  BY <1>1 DEF kernelVars, mapVars, loopVars
<1>3. f \in Fds
  BY <1>1 DEF Inv, TypeInv
<1>4. /\ overtaken \subseteq overtaken'
      /\ u \in overtaken' \/ \E d \in Conns : Key[d] = Key[c] /\ (file[f] = d \/ <<d, f>> \in cut)
  <2>1. PICK d \in Conns : Key[d] = Key[c] /\ (<<d, f>> \in cut \/ (f \in DOMAIN sock_endpoint_map_ /\ sock_endpoint_map_[f] = d))
    BY <1>1 DEF Inv, RegInv
  <2>2. \/ f \notin DOMAIN sock_endpoint_map_ \/ file[f] = sock_endpoint_map_[f]
        \/ <<sock_endpoint_map_[f], f>> \in cut \/ (pc = "forget" /\ cur_sock = f)
    BY DEF Inv, MapInv, FollowsKernel
  <2> HIDE DEF f
  <2> QED BY <1>1, <2>1, <2>2
<1> HIDE DEF f
<1>5. /\ upc'[u] = "use" /\ named'[u] = c /\ ufd'[u] = f
      /\ \A v \in Users \ {u} : upc'[v] = upc[v] /\ named'[v] = named[v] /\ ufd'[v] = ufd[v]
  BY <1>1 DEF Inv, TypeInv
<1>6. TypeInv'
  BY <1>1, <1>2, <1>3 DEF Inv, TypeInv, Socks
<1>7. MapInv'
  BY <1>1, <1>2 DEF Inv, MapInv, FollowsKernel, Findable, EndpointKey
<1>8. CallInv'
  <2> SUFFICES ASSUME NEW v \in Users, upc'[v] = "use"
               PROVE  /\ named'[v] \in Conns /\ ufd'[v] \in Fds
                      /\ v \in overtaken' \/ \E d \in Conns : ActsOn(v, d)'
    BY DEF CallInv
  <2>1. CASE v = u
    <3>1. named'[v] = c /\ ufd'[v] = f /\ c \in Conns /\ f \in Fds
      BY <1>3, <1>5, <2>1
    <3>2. ASSUME NEW d \in Conns, Key[d] = Key[c], file[f] = d \/ <<d, f>> \in cut
          PROVE  ActsOn(v, d)'
      BY <1>1, <1>2, <3>1, <3>2 DEF ActsOn
    <3> QED BY <1>4, <2>1, <3>1, <3>2
  <2>2. CASE v # u
    <3>1. /\ named[v] \in Conns /\ ufd[v] \in Fds
          /\ v \in overtaken \/ \E d \in Conns : ActsOn(v, d)
      BY <1>5, <2>2 DEF Inv, CallInv
    <3>2. ASSUME NEW d \in Conns, ActsOn(v, d) PROVE ActsOn(v, d)'
      BY <1>1, <1>2, <1>5, <2>2, <3>2 DEF ActsOn
    <3> QED BY <1>4, <1>5, <2>2, <3>1, <3>2
  <2> QED BY <2>1, <2>2
<1>9. Justified' = Justified
  BY <1>1, <1>2 DEF Justified
<1> QED BY <1>1, <1>2, <1>6, <1>7, <1>8, <1>9, PlaceKept, LoopKept, EventKept, RegKept DEF Inv

LEMMA InvWrite ==
    ASSUME Inv, NEW u \in Users, Write(u)
    PROVE  Inv'
<1>1. /\ upc' = [upc EXCEPT ![u] = "idle"] /\ named' = [named EXCEPT ![u] = None]
      /\ ufd' = [ufd EXCEPT ![u] = local_sock] /\ overtaken' = overtaken \ {u}
      /\ UNCHANGED <<kernelVars, mapVars, loopVars, cut, shared>>
  BY DEF Write, Returns
<1>2. /\ UNCHANGED <<peer, unread, backlog, file, rdy, sock_endpoint_map_, endpoint_sock_map_>>
      /\ UNCHANGED <<pc, cur_sock, cur, epoll_event_list_, told>>
  BY <1>1 DEF kernelVars, mapVars, loopVars
<1>3. TypeInv'
  BY <1>1, <1>2 DEF Inv, TypeInv, Socks
<1>4. MapInv'
  BY <1>1, <1>2 DEF Inv, MapInv, FollowsKernel, Findable, EndpointKey
<1>5. CallInv'
  <2>1. \A v \in Users : upc'[v] = "use" => v # u /\ upc[v] = "use" /\ named'[v] = named[v] /\ ufd'[v] = ufd[v]
    BY <1>1 DEF Inv, TypeInv
  <2> SUFFICES ASSUME NEW v \in Users, upc'[v] = "use"
               PROVE  /\ named'[v] \in Conns /\ ufd'[v] \in Fds
                      /\ v \in overtaken' \/ \E d \in Conns : ActsOn(v, d)'
    BY DEF CallInv
  <2>2. /\ named[v] \in Conns /\ ufd[v] \in Fds
        /\ v \in overtaken \/ \E d \in Conns : ActsOn(v, d)
    BY <2>1 DEF Inv, CallInv
  <2>3. ASSUME NEW d \in Conns, ActsOn(v, d) PROVE ActsOn(v, d)'
    BY <1>1, <1>2, <2>1, <2>3 DEF ActsOn
  <2> QED BY <1>1, <2>1, <2>2, <2>3
<1>6. Justified' = Justified
  BY <1>1, <1>2 DEF Justified
<1> QED BY <1>1, <1>2, <1>3, <1>4, <1>5, <1>6, PlaceKept, LoopKept, EventKept, RegKept DEF Inv

\* The descriptor is closed and its entries stay; cut remembers the entry.
LEMMA InvDisconnect ==
    ASSUME Inv, NEW u \in Users, Disconnect(u)
    PROVE  Inv'
<1> DEFINE f == ufd[u]
<1>1. /\ upc[u] = "use" /\ upc' = [upc EXCEPT ![u] = "idle"] /\ named' = [named EXCEPT ![u] = None]
      /\ ufd' = [ufd EXCEPT ![u] = local_sock] /\ overtaken' = overtaken \ {u}
      /\ file' = [file EXCEPT ![f] = None] /\ rdy' = rdy \ {f}
      /\ cut' = IF file[f] = None THEN cut ELSE cut \cup {<<file[f], f>>}
      /\ UNCHANGED <<peer, unread, backlog, mapVars, loopVars, shared>>
  BY DEF Disconnect, Returns
<1>2. /\ UNCHANGED <<sock_endpoint_map_, endpoint_sock_map_, pc, cur_sock, cur, epoll_event_list_, told>>
  BY <1>1 DEF mapVars, loopVars
<1>3. f \in Fds
  BY <1>1 DEF Inv, CallInv
<1> HIDE DEF f
<1>4. /\ file' \in [Fds -> Conns \cup {None}]
      /\ file'[f] = None /\ \A g \in Fds \ {f} : file'[g] = file[g]
      /\ \A g, h \in Fds : file'[g] # None /\ file'[g] = file'[h] => g = h
      /\ \A c \in Conns : told[c] = "none" /\ cur # c /\ (\A g \in Fds : file[g] # c) =>
            \A g \in Fds : file'[g] # c
  BY <1>1, <1>2, <1>3, ClosedKeeps
<1>5. /\ cut \subseteq cut' /\ cut' \subseteq Conns \X Fds
      /\ file[f] # None => file[f] \in Conns /\ <<file[f], f>> \in cut'
  BY <1>1, <1>3 DEF Inv, TypeInv
<1>6. TypeInv'
  BY <1>1, <1>2, <1>4, <1>5 DEF Inv, TypeInv, Socks
<1>7. PlaceInv'
  <2>1. Untouched \subseteq Untouched'
    BY <1>2, <1>4 DEF Untouched
  <2> QED BY <1>1, <1>4, <2>1 DEF Inv, PlaceInv
<1>8. LoopInv'
  <2>1. ASSUME pc = "register"
        PROVE  /\ cur \in Conns /\ cur_sock \in Fds /\ told[cur] = "none"
               /\ file'[cur_sock] = cur \/ (file'[cur_sock] = None /\ <<cur, cur_sock>> \in cut')
               /\ \A g \in Fds : file'[g] = cur => g = cur_sock
    <3>1. /\ cur \in Conns /\ cur_sock \in Fds /\ told[cur] = "none"
          /\ file[cur_sock] = cur \/ (file[cur_sock] = None /\ <<cur, cur_sock>> \in cut)
          /\ \A g \in Fds : file[g] = cur => g = cur_sock
      BY <2>1 DEF Inv, LoopInv
    <3>2. \A g \in Fds : file'[g] = cur => g = cur_sock
      BY <1>4, <3>1, Constants
    <3>3. CASE f = cur_sock
      BY <1>4, <1>5, <3>1, <3>2, <3>3, Constants
    <3>4. CASE f # cur_sock
      BY <1>4, <1>5, <3>1, <3>2, <3>4
    <3> QED BY <3>3, <3>4
  <2>2. pc = "forget" => file'[cur_sock] = None
    BY <1>4 DEF Inv, LoopInv
  <2> QED BY <1>2, <2>1, <2>2 DEF Inv, LoopInv
<1>9. MapInv'
  <2>1. \A g \in Fds : file'[g] # None => file'[g] = file[g]
    BY <1>4
  <2>2. \A g \in DOMAIN sock_endpoint_map_ : g \in Fds /\ sock_endpoint_map_[g] \in Conns
    BY DEF Inv, TypeInv
  <2>3. \A g \in DOMAIN sock_endpoint_map_ :
           \/ file'[g] = sock_endpoint_map_[g]
           \/ <<sock_endpoint_map_[g], g>> \in cut'
           \/ pc = "forget" /\ cur_sock = g
    <3> SUFFICES ASSUME NEW g \in DOMAIN sock_endpoint_map_,
                        ~ (pc = "forget" /\ cur_sock = g), <<sock_endpoint_map_[g], g>> \notin cut'
                 PROVE  file'[g] = sock_endpoint_map_[g]
      OBVIOUS
    <3>1. file[g] = sock_endpoint_map_[g] /\ file[g] # None
      BY <1>5, <2>2, Constants DEF Inv, MapInv, FollowsKernel
    <3> QED BY <1>4, <1>5, <2>2, <3>1
  <2>4. \A g \in DOMAIN sock_endpoint_map_' : FollowsKernel(g)' /\ told'[sock_endpoint_map_'[g]] # "none"
    BY <1>2, <2>3 DEF FollowsKernel, Inv, MapInv
  <2>5. \A g \in Fds : file'[g] # None /\ told'[file'[g]] = "open" /\ file'[g] \notin shared' => Findable(g)'
    BY <1>1, <1>2, <2>1 DEF Inv, MapInv, Findable, EndpointKey
  <2> QED BY <1>1, <1>2, <2>1, <2>4, <2>5 DEF Inv, MapInv
<1>10. CallInv'
  <2>1. \A v \in Users : upc'[v] = "use" => v # u /\ upc[v] = "use" /\ named'[v] = named[v] /\ ufd'[v] = ufd[v]
    BY <1>1 DEF Inv, TypeInv
  <2> SUFFICES ASSUME NEW v \in Users, upc'[v] = "use"
               PROVE  /\ named'[v] \in Conns /\ ufd'[v] \in Fds
                      /\ v \in overtaken' \/ \E d \in Conns : ActsOn(v, d)'
    BY DEF CallInv
  <2>2. /\ named[v] \in Conns /\ ufd[v] \in Fds
        /\ v \in overtaken \/ \E d \in Conns : ActsOn(v, d)
    BY <2>1 DEF Inv, CallInv
  <2>3. ASSUME NEW d \in Conns, ActsOn(v, d) PROVE ActsOn(v, d)'
    <3>1. Key[d] = Key[named'[v]] /\ ufd'[v] = ufd[v]
      BY <2>1, <2>3 DEF ActsOn
    <3>2. CASE <<d, ufd[v]>> \in cut
      BY <1>5, <3>1, <3>2 DEF ActsOn
    <3>3. CASE file[ufd[v]] = d /\ ufd[v] = f
      <4>1. file[f] # None
        BY <3>3, Constants
      <4> QED BY <1>5, <3>1, <3>3, <4>1 DEF ActsOn
    <3>4. CASE file[ufd[v]] = d /\ ufd[v] # f
      BY <1>4, <2>2, <3>1, <3>4 DEF ActsOn
    <3> QED BY <2>3, <3>2, <3>3, <3>4 DEF ActsOn
  <2> QED BY <1>1, <2>1, <2>2, <2>3
<1>11. EventInv'
  <2>1. \A e \in Justified : e[1] # f => e \in Justified'
    BY <1>1, <1>4, <1>5 DEF Justified, Socks
  <2>2. \A e \in Justified : e[1] = f => e \in Justified'
    <3> SUFFICES ASSUME NEW e \in Justified, e[1] = f PROVE e \in Justified'
      OBVIOUS
    <3>1. \E c \in Conns : <<c, f>> \in cut'
      BY <1>3, <1>5, Constants DEF Justified
    <3> QED BY <3>1 DEF Justified
  <2> QED BY <1>2, <2>1, <2>2, EventKept DEF Inv
<1> QED BY <1>1, <1>5, <1>6, <1>7, <1>8, <1>9, <1>10, <1>11, RegKept DEF Inv

-----------------------------------------------------------------------------
LEMMA NextInv == Inv /\ [Next]_vars => Inv'
<1> SUFFICES ASSUME Inv, [Next]_vars PROVE Inv'
  OBVIOUS
<1>1. CASE UNCHANGED vars
  <2>1. /\ UNCHANGED <<peer, unread, backlog, file, rdy, sock_endpoint_map_, endpoint_sock_map_, pc>>
        /\ UNCHANGED <<cur_sock, cur, epoll_event_list_, told, upc, named, ufd, cut, shared>>
    BY <1>1 DEF vars, kernelVars, mapVars, loopVars, userVars
  <2>2. TypeInv'
    BY <2>1 DEF Inv, TypeInv
  <2>3. MapInv'
    BY <2>1 DEF Inv, MapInv, FollowsKernel, Findable, EndpointKey
  <2>4. Justified' = Justified
    BY <2>1 DEF Justified
  <2>5. CallInv' /\ RegInv'
    BY <1>1, CallKept, RegKept DEF Inv, vars, kernelVars
  <2> QED BY <2>1, <2>2, <2>3, <2>4, <2>5, PlaceKept, LoopKept, EventKept DEF Inv
<1>2. CASE \E c \in Conns : PeerConnects(c) \/ PeerSends(c) \/ PeerCloses(c)
  BY <1>2, InvPeerConnects, InvPeerSends, InvPeerCloses
<1>3. CASE Listen
  <2>1. CASE epoll_wait \/ OnAccept \/ OnRecvMore \/ DrainEnds \/ OnDisconnect
    BY <2>1, InvEpollWait, InvOnAccept, InvOnRecvMore, InvDrainEnds, InvOnDisconnect
  <2>2. CASE AcceptFails
    BY <2>2, InvListenEnds DEF AcceptFails, Event
  <2>3. CASE \E f \in Fds : accept(f) \/ OnRecv(f) \/ CloseSock(f)
    BY <2>3, InvAccept, InvOnRecv, InvCloseSock
  <2> QED BY <1>3, <2>1, <2>2, <2>3 DEF Listen
<1>4. CASE SetupFails
  BY <1>4, InvListenEnds DEF SetupFails
<1>5. CASE \E u \in Users : Write(u) \/ Disconnect(u) \/ \E c \in Conns : FindSock(u, c)
  BY <1>5, InvWrite, InvDisconnect, InvFindSock
<1> QED BY <1>1, <1>2, <1>3, <1>4, <1>5 DEF Next

LEMMA SpecInv == Spec => []Inv
<1>1. Init => Inv
  BY InitInv
<1>2. Inv /\ [Next]_vars => Inv'
  BY NextInv
<1> QED BY <1>1, <1>2, PTL DEF Spec

\* The descriptor map follows the kernel except for what Disconnect closed,
\* and Write and Disconnect find an open connection whose key is its own.
THEOREM MapsAndKernel == Spec => []MapsFollowKernel
<1>1. Inv => MapsFollowKernel
  <2> SUFFICES ASSUME Inv PROVE MapsFollowKernel
    OBVIOUS
  <2>1. \A f \in DOMAIN sock_endpoint_map_ :
           \/ file[f] = sock_endpoint_map_[f]
           \/ <<sock_endpoint_map_[f], f>> \in cut
           \/ pc = "forget" /\ cur_sock = f
    BY DEF Inv, MapInv, FollowsKernel
  <2>2. \A f \in Fds : file[f] # None /\ told[file[f]] = "open" /\ file[f] \notin shared =>
           /\ EndpointKey(file[f]) \in DOMAIN endpoint_sock_map_
           /\ endpoint_sock_map_[EndpointKey(file[f])] = f
    BY DEF Inv, MapInv, Findable
  <2> QED BY <2>1, <2>2 DEF MapsFollowKernel
<1> QED BY <1>1, SpecInv, PTL

\* Write and Disconnect act on a connection of another key than the one named
\* only if one of that key was closed under the number they found: by the loop
\* between the lookup and the use, or by an earlier Disconnect.
THEOREM CallsActOnNamed == Spec => CallsReachNamed
<1> DEFINE A == \A u \in Users :
                   upc[u] = "use" /\ upc'[u] = "idle" /\ file[ufd[u]] # None
                      => \/ Key[file[ufd[u]]] = Key[named[u]]
                         \/ u \in overtaken
                         \/ \E c \in Conns : Key[c] = Key[named[u]] /\ <<c, ufd[u]>> \in cut
<1>1. Inv /\ [Next]_vars => [A]_vars
  BY DEF Inv, CallInv, ActsOn
<1>2. Spec => [][A]_vars
  BY <1>1, SpecInv, PTL DEF Spec
<1> QED BY <1>2 DEF CallsReachNamed

\* The loop of Listen closes a connection that its peer has not closed only
\* through an event of a descriptor that a Disconnect had closed.
THEOREM ClosesOnlyDead == Spec => LoopClosesOnlyDead
<1> DEFINE A == \A f \in Fds :
                   pc = "next" /\ pc' = "forget" /\ cur_sock' = f /\ file[f] # None
                      => peer[file[f]] = "closed" \/ \E c \in Conns : <<c, f>> \in cut
<1>1. Inv /\ [Next]_vars => [A]_vars
  <2> SUFFICES ASSUME Inv, [Next]_vars, NEW f \in Fds, pc = "next", pc' = "forget", cur_sock' = f,
                      file[f] # None, \A c \in Conns : <<c, f>> \notin cut
               PROVE  peer[file[f]] = "closed"
    OBVIOUS
  <2>1. CloseSock(f)
    <3>1. Next
      BY DEF vars, loopVars
    <3>2. \A g \in Fds : CloseSock(g) => g = f
      BY DEF CloseSock
    <3>3. ~ \E c \in Conns : PeerConnects(c) \/ PeerSends(c) \/ PeerCloses(c)
      BY DEF PeerConnects, PeerSends, PeerCloses, loopVars
    <3>4. ~ \E u \in Users : Write(u) \/ Disconnect(u) \/ \E c \in Conns : FindSock(u, c)
      BY DEF Write, Disconnect, FindSock, loopVars
    <3>5. ~ SetupFails /\ ~ AcceptFails
      BY DEF SetupFails, AcceptFails, ListenEnds
    <3>6. ~ epoll_wait /\ ~ OnAccept /\ ~ OnRecvMore /\ ~ DrainEnds /\ ~ OnDisconnect
      BY DEF epoll_wait, OnAccept, OnRecvMore, DrainEnds, OnDisconnect
    <3>7. \A g \in Fds : ~ accept(g) /\ ~ OnRecv(g)
      BY DEF accept, OnRecv
    <3> QED BY <3>1, <3>2, <3>3, <3>4, <3>5, <3>6, <3>7 DEF Next, Listen
  <2>2. f # local_sock
    BY Constants
  <2>3. CASE Event(f, "hup")
    <3>1. <<f, "hup">> \in Justified
      BY <2>3, EventHead
    <3> QED BY <2>2, <3>1 DEF Justified
  <2>4. CASE Event(f, "in") /\ NoData(f)
    <3>1. <<f, "in">> \in Justified
      BY <2>4, EventHead
    <3> QED BY <2>2, <2>4, <3>1 DEF Justified, NoData, HasData
  <2> QED BY <2>1, <2>3, <2>4 DEF CloseSock
<1>2. Spec => [][A]_vars
  BY <1>1, SpecInv, PTL DEF Spec
<1> QED BY <1>2 DEF LoopClosesOnlyDead

=============================================================================
