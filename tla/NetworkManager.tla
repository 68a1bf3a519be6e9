--------------------------- MODULE NetworkManager ---------------------------
(***************************************************************************)
(* The connection registry of Elegance: NetworkManager with the socket     *)
(* threads that call it (SocketAccept::Listen, SocketConnect::Connect), the *)
(* dispatch loop of SyncRunning and application threads that call Send and *)
(* Disconnect.  The epoll build for Linux is modelled.                     *)
(*                                                                         *)
(* A socket object is an integer, its heap address: std::set<SocketAccept*> *)
(* is walked in address order and an address freed by delete can be handed *)
(* out again.  Each socket object runs on a thread of its own, named by the *)
(* same integer.  A connection is named by its endpoint.  Ports, addresses *)
(* and payloads are abstract; a payload is not represented at all.         *)
(***************************************************************************)
EXTENDS Integers, Sequences, FiniteSets

CONSTANTS Accepts,      \* addresses of SocketAccept objects
          Connects,     \* addresses of SocketConnect objects
          Endpoints,    \* the connections that can exist
          Owner,        \* Owner[e]: the socket object that serves e
          Ip, IpLen,    \* Ip[e]: remote address text; IpLen[Ip[e]]: its length
          RPort, LPort, \* remote and local port of an endpoint
          ListenPort,   \* ListenPort[a]: local_port_ of a SocketAccept
          Users,        \* application threads
          MaxOpens,     \* bound: connections opened in a behaviour
          MaxQueue,     \* bound: length of handle_task_queue_
          None

Threads == Accepts \cup Connects

(***************************************************************************)
(* Endpoint::operator< looks at the LENGTH of the address text, so the     *)
(* maps keyed by Endpoint identify two endpoints with the same Key.        *)
(***************************************************************************)
KeyAt(e, port) == <<IpLen[Ip[e]], RPort[e], port>>
Key(e) == KeyAt(e, LPort[e])
Keys == {Key(e) : e \in Endpoints}

ASSUME SocketAssumption ==
    /\ Accepts \subseteq Nat /\ Connects \subseteq Nat
    /\ Accepts \cap Connects = {}
    /\ Owner \in [Endpoints -> Threads]
    /\ \A e \in Endpoints : Owner[e] \in Accepts => LPort[e] = ListenPort[Owner[e]]

ASSUME BoundAssumption == MaxOpens \in Nat /\ MaxQueue \in Nat

ASSUME NoneAssumption == None \notin Endpoints

VARIABLES
    accept_list_, connect_list_,   \* live socket objects
    endpoint_sock_map_,            \* per accept: Key -> connection of the fd
    running_,                      \* per connect
    conn,                          \* state of each connection, see ConnStates
    opened,                        \* connections opened so far (bound)
    free_net_id_list_, max_net_id_,
    snap,                          \* the free list a thread saw when it began push
    raced,                         \* ghost: an access overlapped an unlocked push
    net_id_to_endpoint_map_, endpoint_to_net_id_map_,
    net_id_to_accept_, net_id_to_connect_,
    single_thread_handle_mode_, handle_task_queue_,
    handling,                      \* the loop thread is inside a callback
    view,                          \* ghost: the connections the application knows
    allocating,                    \* threads that get a block for their task
    freeing,                       \* the loop thread is in Free
    overlap,                       \* ghost: two were in the task pool at once
    pc, cur, nid, what,            \* of each socket thread
    upc, ucall, uid, ep      \* of each application thread

sockVars == <<accept_list_, connect_list_, endpoint_sock_map_, running_, conn, opened>>
idVars   == <<free_net_id_list_, max_net_id_, snap, raced>>
regVars  == <<net_id_to_endpoint_map_, endpoint_to_net_id_map_>>
routeVars == <<net_id_to_accept_, net_id_to_connect_>>
poolVars == <<allocating, freeing, overlap>>
appVars  == <<single_thread_handle_mode_, handle_task_queue_, handling, view, poolVars>>
threadVars == <<pc, cur, nid, what>>
userVars == <<upc, ucall, uid, ep>>
vars == <<sockVars, idVars, regVars, routeVars, appVars, threadVars, userVars>>

\* std::map: operator[] assignment and erase.
Put(m, k, v) == [x \in DOMAIN m \cup {k} |-> IF x = k THEN v ELSE m[x]]
Erase(m, k)  == [x \in DOMAIN m \ {k} |-> m[x]]
Empty == [x \in {} |-> None]

NetIds == Nat \ {0}

\* "fin": the peer closed and the edge is not yet taken; "cut": closed by
\* Disconnect; "dead": open in the kernel, but no event will reach a thread.
ConnStates == {"idle", "up", "fin", "cut", "dead"}

Kinds == {"open", "recv", "disc", "fail"}
Tasks == [kind : Kinds, id : Nat, conn : Endpoints \cup {None}]

PCs == {"off", "dial", "poll", "drain", "test", "arm", "getid", "register",
        "tell", "call", "disc", "unroute", "push", "pushing", "forget", "leave"}

Goto(t, l) == pc' = [pc EXCEPT ![t] = l]
Going(t, from, l) == pc[t] = from /\ Goto(t, l)

Init ==
    /\ accept_list_ = {} /\ connect_list_ = {}
    /\ endpoint_sock_map_ = [a \in Accepts |-> Empty]
    /\ running_ = [c \in Connects |-> FALSE]
    /\ conn = [e \in Endpoints |-> "idle"]
    /\ opened = 0
    /\ free_net_id_list_ = << >> /\ max_net_id_ = 0
    /\ snap = [t \in Threads |-> << >>] /\ raced = FALSE
    /\ net_id_to_endpoint_map_ = Empty /\ endpoint_to_net_id_map_ = Empty
    /\ net_id_to_accept_ = Empty /\ net_id_to_connect_ = Empty
    /\ single_thread_handle_mode_ = FALSE /\ handle_task_queue_ = << >>
    /\ handling = FALSE /\ view = Empty
    /\ allocating = {} /\ freeing = FALSE /\ overlap = FALSE
    /\ pc = [t \in Threads |-> "off"] /\ cur = [t \in Threads |-> None]
    /\ nid = [t \in Threads |-> 0] /\ what = [t \in Threads |-> "none"]
    /\ upc = [u \in Users |-> "idle"] /\ ucall = [u \in Users |-> "Send"]
    /\ uid = [u \in Users |-> 0]
    /\ ep = [u \in Users |-> None]

-----------------------------------------------------------------------------
(* Starting a socket thread: SyncListen and SyncConnect. *)

\* ListenThread inserts the new SocketAccept and Listen reaches its loop.
ListenThread(a) ==
    /\ Going(a, "off", "poll")
    /\ accept_list_' = accept_list_ \cup {a}
    /\ UNCHANGED <<connect_list_, endpoint_sock_map_, running_, conn, opened, idVars,
                   regVars, routeVars, appVars, cur, nid, what, userVars>>

ConnectThread(c) ==
    /\ Going(c, "off", "dial")
    /\ connect_list_' = connect_list_ \cup {c}
    /\ UNCHANGED <<accept_list_, endpoint_sock_map_, running_, conn, opened, idVars,
                   regVars, routeVars, appVars, cur, nid, what, userVars>>

\* A failing socket call: Listen or Connect returns false, whatever had been
\* opened before is neither closed nor reported.
SocketFails(t) ==
    /\ \/ pc[t] = "poll"
       \/ t \in Connects /\ pc[t] \in {"dial", "arm"}
    /\ Goto(t, "tell")
    /\ what' = [what EXCEPT ![t] = "fail"]
    /\ UNCHANGED <<sockVars, idVars, regVars, routeVars, appVars, cur, nid, userVars>>

\* The tail of ListenThread and ConnectThread: the object leaves its list and
\* is deleted.  The destructors close nothing.
Leave(t) ==
    /\ Going(t, "leave", "off")
    /\ accept_list_' = accept_list_ \ {t}
    /\ connect_list_' = connect_list_ \ {t}
    /\ endpoint_sock_map_' = [a \in Accepts |->
                                 IF a = t THEN Empty ELSE endpoint_sock_map_[a]]
    /\ running_' = [c \in Connects |-> c # t /\ running_[c]]
    /\ conn' = [e \in Endpoints |->
                   IF Owner[e] = t /\ conn[e] \in {"up", "fin"} THEN "dead" ELSE conn[e]]
    /\ cur' = [cur EXCEPT ![t] = None]
    /\ UNCHANGED <<opened, idVars, regVars, routeVars, appVars, nid, what, userVars>>

-----------------------------------------------------------------------------
(* A new connection. *)

\* Common part of accept() and connect() succeeding for connection e.
Opens(t, e) ==
    /\ Owner[e] = t
    /\ opened < MaxOpens
    /\ opened' = opened + 1
    /\ conn' = [conn EXCEPT ![e] = "up"]
    /\ cur' = [cur EXCEPT ![t] = e]
    /\ Goto(t, "getid")

\* A remote port closed by this side can be used again by the peer.
AcceptConnection(a, e) ==
    /\ pc[a] = "poll"
    /\ conn[e] \in {"idle", "cut"}
    /\ Opens(a, e)
    /\ endpoint_sock_map_' = [endpoint_sock_map_ EXCEPT ![a] = Put(@, Key(e), e)]
    /\ UNCHANGED <<accept_list_, connect_list_, running_, idVars, regVars, routeVars,
                   appVars, nid, what, userVars>>

Dial(c, e) ==
    /\ pc[c] = "dial"
    /\ conn[e] = "idle"
    /\ Opens(c, e)
    /\ UNCHANGED <<accept_list_, connect_list_, endpoint_sock_map_, running_, idVars,
                   regVars, routeVars, appVars, nid, what, userVars>>

Pushing == {t \in Threads : pc[t] = "pushing"}

\* free_net_id_list_.top() and .pop(); faulty variant: the id stays on the stack.
Top(s) == s[Len(s)]
KeepTop(s) == s
Pop(s) == SubSeq(s, 1, Len(s) - 1)

\* The id handed out when the stack is empty; faulty variant: post-increment.
OldMaxNetID == max_net_id_
FreshNetID == max_net_id_ + 1

\* Under free_net_id_lock_; a push in progress does not hold that lock.
GetFreeNetID(t) ==
    /\ Going(t, "getid", "register")
    /\ IF free_net_id_list_ # << >>
       THEN /\ nid' = [nid EXCEPT ![t] = Top(free_net_id_list_)]
            /\ free_net_id_list_' = Pop(free_net_id_list_)
            /\ UNCHANGED max_net_id_
       ELSE /\ nid' = [nid EXCEPT ![t] = FreshNetID]
            /\ max_net_id_' = max_net_id_ + 1
            /\ UNCHANGED free_net_id_list_
    /\ raced' = (raced \/ Pushing # {})
    /\ UNCHANGED <<snap, sockVars, regVars, routeVars, appVars, cur, what, userVars>>

\* SocketAccept::CheckOnHandle and SocketConnect::CheckOnHandle: is s a socket
\* that serves the peer of e?
AcceptsPeer(e) ==
    {a \in accept_list_ : KeyAt(e, ListenPort[a]) \in DOMAIN endpoint_sock_map_[a]}
ConnectsPeer(e) ==
    {c \in connect_list_ : /\ cur[c] # None
                           /\ Ip[cur[c]] = Ip[e]
                           /\ RPort[cur[c]] = RPort[e]}

\* The loops of OnAccept and OnConnect assign the route once per match: the
\* match with the highest address stays.
Highest(matches) == {s \in matches : \A r \in matches : r <= s}

Register(t, matches) ==
    IF matches = {} THEN UNCHANGED regVars
    ELSE /\ net_id_to_endpoint_map_' = Put(net_id_to_endpoint_map_, nid[t], cur[t])
         /\ endpoint_to_net_id_map_' = Put(endpoint_to_net_id_map_, Key(cur[t]), nid[t])

TellOpen(t) ==
    /\ Going(t, "register", "tell")
    /\ what' = [what EXCEPT ![t] = "open"]
    /\ UNCHANGED <<sockVars, idVars, appVars, cur, nid, userVars>>

OnAccept(a) ==
    /\ TellOpen(a)
    /\ Register(a, AcceptsPeer(cur[a]))
    /\ IF AcceptsPeer(cur[a]) = {} THEN UNCHANGED net_id_to_accept_
       ELSE \E s \in Highest(AcceptsPeer(cur[a])) :
               net_id_to_accept_' = Put(net_id_to_accept_, nid[a], s)
    /\ UNCHANGED net_id_to_connect_

OnConnect(c) ==
    /\ TellOpen(c)
    /\ Register(c, ConnectsPeer(cur[c]))
    /\ IF ConnectsPeer(cur[c]) = {} THEN UNCHANGED net_id_to_connect_
       ELSE \E s \in Highest(ConnectsPeer(cur[c])) :
               net_id_to_connect_' = Put(net_id_to_connect_, nid[c], s)
    /\ UNCHANGED net_id_to_accept_

-----------------------------------------------------------------------------
(* Handing an event to the application: on the calling thread, or through  *)
(* handle_task_queue_ once single_thread_handle_mode_ is set.              *)

\* What the application knows after a callback.  Faulty variant: OnDisconnect is
\* never called.
ToldOpensOnly(k, id, e) == IF k = "open" THEN Put(view, id, e) ELSE view
Told(k, id, e) ==
    CASE k = "open" -> Put(view, id, e)
      [] k = "disc" -> Erase(view, id)
      [] OTHER      -> view

\* Where a socket thread goes on after it has told the application.
AfterTell(t) ==
    CASE what[t] = "open" -> IF t \in Accepts THEN "poll" ELSE "arm"
      [] what[t] = "recv" -> "drain"
      [] what[t] = "disc" -> "push"
      [] what[t] = "fail" -> "leave"

\* The locals of a finished callback go out of scope; OnDisconnect still needs
\* its net_id, and a SocketConnect keeps its connection.
Resume(t, from) ==
    /\ Going(t, from, AfterTell(t))
    /\ nid' = [nid EXCEPT ![t] = IF what[t] = "disc" THEN @ ELSE 0]
    /\ cur' = [cur EXCEPT ![t] = IF t \in Accepts /\ what[t] = "open" THEN None ELSE @]
    /\ what' = [what EXCEPT ![t] = "none"]

\* The mode is tested and network_task_memory_pool_.Alloc entered, which locks
\* nothing.  That there is room in the bounded queue is asked for here as well.
AllocTask(t) ==
    /\ pc[t] = "tell" /\ t \notin allocating
    /\ single_thread_handle_mode_
    /\ Len(handle_task_queue_) < MaxQueue
    /\ overlap' = (overlap \/ freeing \/ allocating # {})
    /\ allocating' = allocating \cup {t}
    /\ UNCHANGED <<sockVars, idVars, regVars, routeVars, single_thread_handle_mode_,
                   handle_task_queue_, handling, view, freeing, threadVars, userVars>>

\* Alloc returns; the block, which nobody else has as long as nothing overlapped,
\* is filled in and, under handle_task_mutex_, put into the queue.
EnqueueTask(t) ==
    /\ Resume(t, "tell")
    /\ t \in allocating
    /\ Len(handle_task_queue_) < MaxQueue
    /\ handle_task_queue_' =
          Append(handle_task_queue_, [kind |-> what[t], id |-> nid[t], conn |-> cur[t]])
    /\ allocating' = allocating \ {t}
    /\ UNCHANGED <<sockVars, idVars, regVars, routeVars, single_thread_handle_mode_,
                   handling, view, freeing, overlap, userVars>>

\* Faulty variant: OnRecv is not queued.
CallHandlersOnRecv(t) ==
    /\ Going(t, "tell", "call")
    /\ ~single_thread_handle_mode_ \/ what[t] = "recv"
    /\ view' = Told(what[t], nid[t], cur[t])
    /\ UNCHANGED <<sockVars, idVars, regVars, routeVars, single_thread_handle_mode_,
                   handle_task_queue_, handling, poolVars, cur, nid, what, userVars>>

CallHandlers(t) ==
    /\ Going(t, "tell", "call")
    /\ ~single_thread_handle_mode_
    /\ view' = Told(what[t], nid[t], cur[t])
    /\ UNCHANGED <<sockVars, idVars, regVars, routeVars, single_thread_handle_mode_,
                   handle_task_queue_, handling, poolVars, cur, nid, what, userVars>>

HandlersReturn(t) ==
    /\ Resume(t, "call")
    /\ UNCHANGED <<sockVars, idVars, regVars, routeVars, appVars, userVars>>

\* SyncRunning sets the mode and loops over HandleNetTask for ever.
SyncRunning ==
    /\ ~single_thread_handle_mode_
    /\ single_thread_handle_mode_' = TRUE
    /\ UNCHANGED <<sockVars, idVars, regVars, routeVars, handle_task_queue_, handling, view,
                   poolVars, threadVars, userVars>>

\* What the loop finds in the block of a queued task.  After an overlap in the
\* pool a block can be given out twice and hold whatever its other user wrote.
Content(task) ==
    {task} \cup IF overlap THEN [kind : Kinds, id : 1..max_net_id_, conn : Endpoints] ELSE {}

HandleNetTask ==
    /\ single_thread_handle_mode_ /\ ~handling /\ ~freeing
    /\ handle_task_queue_ # << >>
    /\ handle_task_queue_' = Tail(handle_task_queue_)
    /\ handling' = TRUE
    /\ \E task \in Content(Head(handle_task_queue_)) :
          view' = Told(task.kind, task.id, task.conn)
    /\ UNCHANGED <<sockVars, idVars, regVars, routeVars, single_thread_handle_mode_,
                   poolVars, threadVars, userVars>>

\* The handlers have returned and network_task_memory_pool_.Free is entered.
NetTaskHandled ==
    /\ handling /\ handling' = FALSE
    /\ freeing' = TRUE
    /\ overlap' = (overlap \/ allocating # {})
    /\ UNCHANGED <<sockVars, idVars, regVars, routeVars, single_thread_handle_mode_,
                   handle_task_queue_, view, allocating, threadVars, userVars>>

TaskFreed ==
    /\ freeing /\ freeing' = FALSE
    /\ UNCHANGED <<sockVars, idVars, regVars, routeVars, single_thread_handle_mode_,
                   handle_task_queue_, handling, view, allocating, overlap,
                   threadVars, userVars>>

-----------------------------------------------------------------------------
(* The event loops of the sockets. *)

\* SocketConnect::Connect sets running_ only after OnConnect has returned.
Arm(c) ==
    /\ Going(c, "arm", "test")
    /\ running_' = [running_ EXCEPT ![c] = TRUE]
    /\ UNCHANGED <<accept_list_, connect_list_, endpoint_sock_map_, conn, opened, idVars,
                   regVars, routeVars, appVars, cur, nid, what, userVars>>

TestRunning(c) ==
    /\ Going(c, "test", IF running_[c] THEN "poll" ELSE "leave")
    /\ UNCHANGED <<sockVars, idVars, regVars, routeVars, appVars, cur, nid, what, userVars>>

Serves(t, e) == Owner[e] = t /\ (t \in Connects => e = cur[t])

\* A package of e read right after epoll_wait, or by a further read() of the
\* inner loop.  The sockets are edge triggered: a close that arrived together
\* with data is used up by the event, for the inner loop stops at 0 silently.
OnRecv(t, e) ==
    /\ Serves(t, e)
    /\ \/ pc[t] = "poll" /\ conn[e] \in {"up", "fin"}
       \/ pc[t] = "drain" /\ e = cur[t] /\ conn[e] \in {"up", "fin", "dead"}
    /\ conn' = IF pc[t] = "poll" /\ conn[e] = "fin" THEN [conn EXCEPT ![e] = "dead"] ELSE conn
    /\ cur' = [cur EXCEPT ![t] = e]
    /\ IF Key(e) \in DOMAIN endpoint_to_net_id_map_
       THEN /\ nid' = [nid EXCEPT ![t] = endpoint_to_net_id_map_[Key(e)]]
            /\ what' = [what EXCEPT ![t] = "recv"]
            /\ Goto(t, "tell")
       ELSE Goto(t, "drain") /\ UNCHANGED <<nid, what>>
    /\ UNCHANGED <<accept_list_, connect_list_, endpoint_sock_map_, running_, opened, idVars,
                   regVars, routeVars, appVars, userVars>>

NothingMoreToRead(t) ==
    /\ Going(t, "drain", IF t \in Accepts THEN "poll" ELSE "test")
    /\ cur' = [cur EXCEPT ![t] = IF t \in Accepts THEN None ELSE @]
    /\ UNCHANGED <<sockVars, idVars, regVars, routeVars, appVars, nid, what, userVars>>

\* The first read() of an event returned 0 or failed: the socket is closed.
HangUp(t, e) ==
    /\ Serves(t, e)
    /\ conn[e] = "fin"
    /\ Going(t, "poll", "disc")
    /\ conn' = [conn EXCEPT ![e] = "idle"]
    /\ cur' = [cur EXCEPT ![t] = e]
    /\ UNCHANGED <<accept_list_, connect_list_, endpoint_sock_map_, running_, opened, idVars,
                   regVars, routeVars, appVars, nid, what, userVars>>

\* After OnDisconnect: SocketAccept erases the socket from its maps,
\* SocketConnect leaves its loop.
AfterDisconnect(t) == IF t \in Accepts THEN "forget" ELSE "leave"

\* Faulty variant: only one of the two registry maps is cleared.
OnDisconnectKeepsKey(t) ==
    LET k == Key(cur[t])
    IN  /\ Going(t, "disc", "unroute")
        /\ k \in DOMAIN endpoint_to_net_id_map_
        /\ nid' = [nid EXCEPT ![t] = endpoint_to_net_id_map_[k]]
        /\ net_id_to_endpoint_map_' =
              Erase(net_id_to_endpoint_map_, endpoint_to_net_id_map_[k])
        /\ UNCHANGED <<endpoint_to_net_id_map_, sockVars, idVars, routeVars, appVars, cur,
                       what, userVars>>

\* OnDisconnect, under net_id_endpoint_lock_.
OnDisconnect(t) ==
    LET k == Key(cur[t])
        id == endpoint_to_net_id_map_[k]
    IN  /\ pc[t] = "disc"
        /\ IF k \in DOMAIN endpoint_to_net_id_map_
           THEN /\ nid' = [nid EXCEPT ![t] = id]
                /\ net_id_to_endpoint_map_' = Erase(net_id_to_endpoint_map_, id)
                /\ endpoint_to_net_id_map_' = Erase(endpoint_to_net_id_map_, k)
                /\ Goto(t, "unroute")
           ELSE Goto(t, AfterDisconnect(t)) /\ UNCHANGED <<nid, regVars>>
        /\ UNCHANGED <<sockVars, idVars, routeVars, appVars, cur, what, userVars>>

\* Faulty variant: only accepted connections lose their route.
EraseAcceptRoute(t) ==
    /\ Going(t, "unroute", "tell")
    /\ net_id_to_accept_' = Erase(net_id_to_accept_, nid[t])
    /\ what' = [what EXCEPT ![t] = "disc"]
    /\ UNCHANGED <<net_id_to_connect_, sockVars, idVars, regVars, appVars, cur, nid, userVars>>

\* OnDisconnect, after the lock.
EraseRoute(t) ==
    /\ Going(t, "unroute", "tell")
    /\ net_id_to_accept_' = Erase(net_id_to_accept_, nid[t])
    /\ net_id_to_connect_' = Erase(net_id_to_connect_, nid[t])
    /\ what' = [what EXCEPT ![t] = "disc"]
    /\ UNCHANGED <<sockVars, idVars, regVars, appVars, cur, nid, userVars>>

\* free_net_id_list_.push(net_id) at the end of OnDisconnect holds no lock: it
\* begins and ends in separate steps.
BeginPush(t) ==
    /\ Going(t, "push", "pushing")
    /\ snap' = [snap EXCEPT ![t] = free_net_id_list_]
    /\ raced' = (raced \/ Pushing # {})
    /\ UNCHANGED <<free_net_id_list_, max_net_id_, sockVars, regVars, routeVars, appVars, cur,
                   nid, what, userVars>>

\* If the stack changed meanwhile, both updates take effect, or the push
\* undoes the other one, or is itself lost.
EndPush(t) ==
    /\ Going(t, "pushing", AfterDisconnect(t))
    /\ \/ free_net_id_list_' = Append(free_net_id_list_, nid[t])
       \/ /\ free_net_id_list_ # snap[t]
          /\ free_net_id_list_' \in {Append(snap[t], nid[t]), free_net_id_list_}
    /\ snap' = [snap EXCEPT ![t] = << >>]
    /\ nid' = [nid EXCEPT ![t] = 0]
    /\ UNCHANGED <<max_net_id_, raced, sockVars, regVars, routeVars, appVars, cur, what,
                   userVars>>

Forget(a) ==
    /\ Going(a, "forget", "poll")
    /\ endpoint_sock_map_' = [endpoint_sock_map_ EXCEPT ![a] = Erase(@, Key(cur[a]))]
    /\ cur' = [cur EXCEPT ![a] = None]
    /\ UNCHANGED <<accept_list_, connect_list_, running_, conn, opened, idVars, regVars,
                   routeVars, appVars, nid, what, userVars>>

-----------------------------------------------------------------------------
(* Send and Disconnect, called by an application thread with an id that    *)
(* the application was given and that it has not been told is closed.      *)

PeerCloses(e) ==
    /\ conn[e] = "up"
    /\ conn' = [conn EXCEPT ![e] = "fin"]
    /\ UNCHANGED <<accept_list_, connect_list_, endpoint_sock_map_, running_, opened, idVars,
                   regVars, routeVars, appVars, threadVars, userVars>>

\* The lookups under net_id_endpoint_lock_ at the start of Send, SendRaw and
\* Disconnect; endpoint_it is used after the lock is released.  An id that is
\* not registered makes all three return at once, which changes nothing.
FindEndpoint(u, op, id) ==
    /\ upc[u] = "idle"
    /\ id \in DOMAIN view
    /\ id \in DOMAIN net_id_to_endpoint_map_
    /\ upc' = [upc EXCEPT ![u] = "accept"]
    /\ ucall' = [ucall EXCEPT ![u] = op]
    /\ uid' = [uid EXCEPT ![u] = id]
    /\ ep' = [ep EXCEPT ![u] = net_id_to_endpoint_map_[id]]
    /\ UNCHANGED <<sockVars, idVars, regVars, routeVars, appVars, threadVars>>

\* The connection whose fd SocketAccept::Write and ::Disconnect find, if any.
\* A route to a deleted object reads freed memory and is taken to find none.
AcceptedBy(u) ==
    {f \in Endpoints :
        /\ uid[u] \in DOMAIN net_id_to_accept_
        /\ LET a == net_id_to_accept_[uid[u]]
               k == KeyAt(ep[u], ListenPort[a])
           IN  /\ a \in accept_list_
               /\ k \in DOMAIN endpoint_sock_map_[a]
               /\ f = endpoint_sock_map_[a][k]}

\* The SocketConnect object that the id is routed to, if it is alive.
ConnectedBy(u) ==
    {c \in connect_list_ : uid[u] \in DOMAIN net_id_to_connect_
                           /\ net_id_to_connect_[uid[u]] = c}

\* The connections the next write of a Send reaches.
Reached(u) ==
    CASE ucall[u] = "Send" /\ upc[u] = "accept"  -> AcceptedBy(u)
      [] ucall[u] = "Send" /\ upc[u] = "connect" ->
            {cur[c] : c \in ConnectedBy(u)} \ {None}
      [] OTHER -> {}

\* First net_id_to_accept_: SocketAccept::Write hands the data to the kernel,
\* SocketAccept::Disconnect closes the fd: epoll drops it, no event follows.
UseAccept(u) ==
    /\ upc[u] = "accept"
    /\ upc' = [upc EXCEPT ![u] = "connect"]
    /\ conn' = [e \in Endpoints |->
                   IF ucall[u] = "Disconnect" /\ e \in AcceptedBy(u) /\ conn[e] # "idle"
                   THEN "cut" ELSE conn[e]]
    /\ UNCHANGED <<accept_list_, connect_list_, endpoint_sock_map_, running_, opened, idVars,
                   regVars, routeVars, appVars, threadVars, ucall, uid, ep>>

\* Then net_id_to_connect_: SocketConnect::Write, or SocketConnect::Disconnect,
\* which only clears running_.
UseConnect(u) ==
    /\ upc[u] = "connect"
    /\ upc' = [upc EXCEPT ![u] = "idle"]
    /\ running_' = [c \in Connects |->
                       running_[c] /\ ~(ucall[u] = "Disconnect" /\ c \in ConnectedBy(u))]
    /\ ucall' = [ucall EXCEPT ![u] = "Send"] /\ uid' = [uid EXCEPT ![u] = 0]
    /\ ep' = [ep EXCEPT ![u] = None]
    /\ UNCHANGED <<accept_list_, connect_list_, endpoint_sock_map_, conn, opened, idVars,
                   regVars, routeVars, appVars, threadVars>>

-----------------------------------------------------------------------------
SocketStep(t) ==
    \/ SocketFails(t) \/ Leave(t) \/ GetFreeNetID(t)
    \/ AllocTask(t) \/ EnqueueTask(t)
    \/ CallHandlers(t) \/ HandlersReturn(t)
    \/ \E e \in Endpoints : OnRecv(t, e) \/ HangUp(t, e)
    \/ NothingMoreToRead(t) \/ OnDisconnect(t) \/ EraseRoute(t)
    \/ BeginPush(t) \/ EndPush(t)

AcceptStep(a) ==
    \/ ListenThread(a) \/ OnAccept(a) \/ Forget(a)
    \/ \E e \in Endpoints : AcceptConnection(a, e)

ConnectStep(c) ==
    \/ ConnectThread(c) \/ OnConnect(c) \/ Arm(c) \/ TestRunning(c)
    \/ \E e \in Endpoints : Dial(c, e)

UserStep(u) ==
    \/ \E op \in {"Send", "Disconnect"}, id \in DOMAIN view : FindEndpoint(u, op, id)
    \/ UseAccept(u) \/ UseConnect(u)

Next ==
    \/ \E t \in Threads : SocketStep(t)
    \/ \E a \in Accepts : AcceptStep(a)
    \/ \E c \in Connects : ConnectStep(c)
    \/ SyncRunning \/ HandleNetTask \/ NetTaskHandled \/ TaskFreed
    \/ \E e \in Endpoints : PeerCloses(e)
    \/ \E u \in Users : UserStep(u)

Spec == Init /\ [][Next]_vars

\* A socket thread inside a callback of the socket layer runs on until it is
\* back in epoll_wait.
Advance(t) ==
    \/ GetFreeNetID(t) \/ AllocTask(t) \/ EnqueueTask(t)
    \/ CallHandlers(t) \/ HandlersReturn(t)
    \/ NothingMoreToRead(t) \/ OnDisconnect(t) \/ EraseRoute(t)
    \/ BeginPush(t) \/ EndPush(t) \/ Leave(t)
    \/ t \in Accepts /\ (OnAccept(t) \/ Forget(t))
    \/ t \in Connects /\ (OnConnect(t) \/ Arm(t) \/ TestRunning(t))

\* Threads are scheduled, handlers return, the loop of SyncRunning keeps
\* polling and epoll_wait reports a pending hang-up of each socket, however
\* many other events there are.  No peer sends so fast that the inner read
\* loop never sees the end of the data.  The queue is unbounded in the code, so a push
\* that waits for room below MaxQueue gets its turn.
Fairness ==
    /\ \A t \in Threads : WF_vars(Advance(t))
    /\ \A t \in Threads : /\ SF_vars(AllocTask(t) \/ EnqueueTask(t))
                          /\ SF_vars(NothingMoreToRead(t))
    /\ \A e \in Endpoints : SF_vars(HangUp(Owner[e], e))
    /\ WF_vars(HandleNetTask) /\ WF_vars(NetTaskHandled \/ TaskFreed)

FairSpec == Spec /\ Fairness

-----------------------------------------------------------------------------
(* Properties. *)

IsMap(m, D, R) == DOMAIN m \subseteq D /\ \A x \in DOMAIN m : m[x] \in R

SockType ==
    /\ accept_list_ \subseteq Accepts /\ connect_list_ \subseteq Connects
    /\ DOMAIN endpoint_sock_map_ = Accepts
    /\ \A a \in Accepts : IsMap(endpoint_sock_map_[a], Keys, Endpoints)
    /\ running_ \in [Connects -> BOOLEAN]
    /\ conn \in [Endpoints -> ConnStates]
    /\ opened \in Nat
IdType ==
    /\ free_net_id_list_ \in Seq(NetIds) /\ max_net_id_ \in Nat
    /\ snap \in [Threads -> Seq(NetIds)] /\ raced \in BOOLEAN
RegType ==
    /\ IsMap(net_id_to_endpoint_map_, NetIds, Endpoints)
    /\ IsMap(endpoint_to_net_id_map_, Keys, NetIds)
RouteType ==
    /\ IsMap(net_id_to_accept_, NetIds, Accepts)
    /\ IsMap(net_id_to_connect_, NetIds, Connects)
AppType ==
    /\ single_thread_handle_mode_ \in BOOLEAN /\ handling \in BOOLEAN
    /\ handle_task_queue_ \in Seq(Tasks)
    /\ IsMap(view, NetIds, Endpoints)
PoolType ==
    /\ allocating \subseteq Threads
    /\ freeing \in BOOLEAN /\ overlap \in BOOLEAN
ThreadType ==
    /\ pc \in [Threads -> PCs] /\ what \in [Threads -> Kinds \cup {"none"}]
    /\ cur \in [Threads -> Endpoints \cup {None}]
    /\ nid \in [Threads -> Nat]
UserType ==
    /\ upc \in [Users -> {"idle", "accept", "connect"}]
    /\ ucall \in [Users -> {"Send", "Disconnect"}]
    /\ uid \in [Users -> Nat]
    /\ ep \in [Users -> Endpoints \cup {None}]

\* Every variable has its type; in particular the ids that are registered, free
\* or known to the application are positive.
TypeOK == SockType /\ IdType /\ RegType /\ RouteType /\ AppType /\ PoolType /\ ThreadType /\ UserType

\* Threads between taking an id and publishing it, or between withdrawing it
\* and giving it back.
Holding(t) ==
    \/ pc[t] \in {"register", "unroute", "push", "pushing"}
    \/ pc[t] \in {"tell", "call"} /\ what[t] = "disc"

FreeIds == {free_net_id_list_[i] : i \in 1..Len(free_net_id_list_)}

\* An id is in one place only: on the free stack (once), held by one socket
\* thread, or registered for a connection; so GetFreeNetID never gives two
\* connections the same id - as long as no thread touched the stack during
\* the unlocked push of OnDisconnect.
NetIdsDistinct ==
    ~raced =>
       /\ \A i, j \in 1..Len(free_net_id_list_) :
             i # j => free_net_id_list_[i] # free_net_id_list_[j]
       /\ FreeIds \cap DOMAIN net_id_to_endpoint_map_ = {}
       /\ \A t \in Threads : Holding(t) =>
             /\ nid[t] \notin FreeIds \cup DOMAIN net_id_to_endpoint_map_
             /\ \A u \in Threads \ {t} : Holding(u) => nid[u] # nid[t]

\* The two registry maps agree: the id found for an incoming package is
\* registered for an endpoint with that key, so OnDisconnect withdraws the
\* connection in both directions.
RegistryConsistent ==
    ~raced =>
       \A k \in DOMAIN endpoint_to_net_id_map_ :
          LET id == endpoint_to_net_id_map_[k]
          IN  id \in DOMAIN net_id_to_endpoint_map_ /\ Key(net_id_to_endpoint_map_[id]) = k

\* A handler expects OnAccept/OnConnect for an id it does not know, and
\* OnRecv/OnDisconnect for one it does.
Expected(k, id) == k = "fail" \/ (k = "open" <=> id \notin DOMAIN view)

\* Every callback, by the loop of SyncRunning or by a socket thread, is one the
\* handler expects, although ids are recycled while callbacks for them still
\* wait in the queue - until an access overlaps the unlocked push of an id, or two
\* threads are in the pool of the queued tasks at once, which is not locked either.
CallbackOrder ==
    [][~raced /\ ~overlap =>
          /\ ~handling /\ handling' =>
                Expected(Head(handle_task_queue_).kind, Head(handle_task_queue_).id)
          /\ \A t \in Threads : pc[t] = "tell" /\ pc'[t] = "call" =>
                Expected(what[t], nid[t])]_vars

\* Endpoints the socket layer cannot tell apart by address length and port.
LooksLike(e, f) == IpLen[Ip[e]] = IpLen[Ip[f]] /\ RPort[e] = RPort[f]

\* The connections id is for: the registered one, and one being withdrawn.
NamedBy(id) ==
    {net_id_to_endpoint_map_[i] : i \in {id} \cap DOMAIN net_id_to_endpoint_map_}
    \cup {cur[t] : t \in {t \in Threads : pc[t] = "unroute" /\ nid[t] = id}}

\* A look-alike of e may be taken for e by another socket object, or e's socket
\* object may be gone without OnDisconnect and its address in use again.
Confusable(e) ==
    \/ \E f \in Endpoints : LooksLike(f, e) /\ Owner[f] # Owner[e]
    \/ conn[e] \in {"cut", "dead"}

\* A Send leaves the lock after it has found its endpoint, and uses the routes of
\* the id later.  If the id is withdrawn and given to another connection meanwhile
\* the data may go to that one; but it never goes to a connection that the id
\* neither was for when it was looked up nor is for when it is written.
SendReachesNamed ==
    ~raced =>
       \A u \in Users : \A f \in Reached(u) :
          \/ LooksLike(f, ep[u])
          \/ \E e \in NamedBy(uid[u]) : LooksLike(f, e) \/ Confusable(e)

\* A close by the peer that epoll still has to report reaches the application
\* as OnDisconnect, unless the thread left its loop or read the close together
\* with data ("dead"), the connection was cut by this side, a connection with
\* the same key took over the id lookup, or its task was lost in the unlocked pool.
PeerCloseReported ==
    \A id \in 1..MaxOpens, e \in Endpoints :
       /\ id \in DOMAIN view /\ view[id] = e
       /\ conn[e] = "fin"
       /\ Key(e) \in DOMAIN endpoint_to_net_id_map_
       /\ endpoint_to_net_id_map_[Key(e)] = id
       ~> \/ id \notin DOMAIN view
          \/ view[id] # e
          \/ conn[e] \in {"dead", "cut"} \/ overlap
          \/ /\ Key(e) \in DOMAIN endpoint_to_net_id_map_
             /\ endpoint_to_net_id_map_[Key(e)] # id

\* network_manager.hpp on SyncRunning: it guarantees that all callbacks to the
\* INetworkHandler are made on the same thread.
CallbacksOnOneThread == ~(handling /\ \E t \in Threads : pc[t] = "call")

=============================================================================
