------------------------ MODULE NetworkManagerProofs ------------------------
(***************************************************************************)
(* Proofs about NetworkManager for any number of sockets, connections and  *)
(* application threads.                                                    *)
(***************************************************************************)
EXTENDS NetworkManager, SequenceTheorems, TLAPS

\* The locals of a socket thread are set wherever they are used.
LocalsOK ==
    \A t \in Threads :
       /\ pc[t] \in {"getid", "register", "disc", "unroute", "push", "pushing", "forget"}
             => cur[t] # None
       /\ pc[t] \in {"register", "unroute", "push", "pushing"} => nid[t] # 0
       /\ pc[t] \in {"tell", "call"} => what[t] # "none"
       /\ pc[t] \in {"tell", "call"} /\ what[t] # "fail" => nid[t] # 0 /\ cur[t] # None

\* A queued OnAccept/OnConnect task names a connection.
QueueOK ==
    \A i \in 1..Len(handle_task_queue_) :
       handle_task_queue_[i].kind \in {"open", "recv", "disc"} =>
          handle_task_queue_[i].id # 0 /\ handle_task_queue_[i].conn # None

TypeInv == TypeOK /\ LocalsOK /\ QueueOK

LEMMA PutType ==
    ASSUME NEW D, NEW R, NEW m, IsMap(m, D, R), NEW k \in D, NEW v \in R
    PROVE  IsMap(Put(m, k, v), D, R)
  BY DEF IsMap, Put

LEMMA EraseType ==
    ASSUME NEW D, NEW R, NEW m, IsMap(m, D, R), NEW k
    PROVE  IsMap(Erase(m, k), D, R)
  BY DEF IsMap, Erase

LEMMA PopTop ==
    ASSUME NEW S, NEW s \in Seq(S), s # << >>
    PROVE  /\ Top(s) \in S
           /\ Pop(s) \in Seq(S) /\ Len(Pop(s)) = Len(s) - 1
           /\ Len(s) \in Nat \ {0}
           /\ \A i \in 1..Len(s) - 1 : Pop(s)[i] = s[i]
<1>1. Len(s) \in Nat \ {0} /\ 1 \in 1..Len(s)+1 /\ Len(s) - 1 \in 1-1..Len(s)
  BY EmptySeq
<1>2. Top(s) \in S
  BY <1>1, ElementOfSeq DEF Top
<1>3. \A i \in 1..Len(s) - 1 : s[i] \in S
  BY <1>1, ElementOfSeq
<1>4. /\ Pop(s) \in Seq(S)
      /\ Len(Pop(s)) = IF 1 <= Len(s) - 1 THEN (Len(s) - 1) - 1 + 1 ELSE 0
      /\ \A i \in 1..(Len(s) - 1) - 1 + 1 : Pop(s)[i] = s[1 + i - 1]
  BY <1>1, <1>3, SubSeqProperties DEF Pop
<1>5. \A i \in 1..Len(s) - 1 : Pop(s)[i] = s[i]
  BY <1>1, <1>4
<1>6. Len(Pop(s)) = Len(s) - 1
  <2> DEFINE n == Len(s)
  <2>1. n \in Nat /\ n # 0 /\ Len(Pop(s)) = IF 1 <= n - 1 THEN (n - 1) - 1 + 1 ELSE 0
    BY <1>1, <1>4
  <2> HIDE DEF n
  <2>2. Len(Pop(s)) = n - 1
    BY <2>1
  <2> QED BY <2>2 DEF n
<1> QED BY <1>1, <1>2, <1>4, <1>5, <1>6

LEMMA KeyType == \A e \in Endpoints : Key(e) \in Keys
  BY DEF Keys

LEMMA InitTypeInv == Init => TypeInv
<1> SUFFICES ASSUME Init PROVE TypeInv
  OBVIOUS
<1>1. \A D, R : IsMap(Empty, D, R)
  BY DEF IsMap, Empty
<1>2. SockType
  <2>1. running_ \in [Connects -> BOOLEAN]
    BY Zenon DEF Init
  <2> QED BY <1>1, <2>1 DEF Init, SockType, ConnStates
<1>3. IdType /\ RegType /\ RouteType
  <2>1. raced \in BOOLEAN
    BY Zenon DEF Init
  <2> QED BY <1>1, <2>1 DEF Init, IdType, RegType, RouteType, NetIds
<1>4. AppType /\ QueueOK /\ PoolType
  <2>1. single_thread_handle_mode_ \in BOOLEAN /\ handling \in BOOLEAN
    BY Zenon DEF Init
  <2>2. freeing \in BOOLEAN /\ overlap \in BOOLEAN /\ allocating = {}
    BY Zenon DEF Init
  <2>3. PoolType
    BY <2>2 DEF PoolType
  <2> QED BY <1>1, <2>1, <2>3 DEF Init, AppType, QueueOK
<1>5. ThreadType /\ LocalsOK
  BY DEF Init, ThreadType, LocalsOK, PCs, Kinds
<1>6. UserType
  BY DEF Init, UserType
<1> QED BY <1>2, <1>3, <1>4, <1>5, <1>6 DEF TypeInv, TypeOK

\* A group of variables that a step leaves alone keeps its type.
LEMMA Unchanged ==
    /\ SockType /\ UNCHANGED sockVars => SockType'
    /\ IdType /\ UNCHANGED idVars => IdType'
    /\ RegType /\ UNCHANGED regVars => RegType'
    /\ RouteType /\ UNCHANGED routeVars => RouteType'
    /\ AppType /\ QueueOK /\ PoolType /\ UNCHANGED appVars => AppType' /\ QueueOK' /\ PoolType'
    /\ PoolType /\ UNCHANGED poolVars => PoolType'
    /\ ThreadType /\ LocalsOK /\ UNCHANGED threadVars => ThreadType' /\ LocalsOK'
    /\ UserType /\ UNCHANGED userVars => UserType'
<1>1. SockType /\ UNCHANGED sockVars => SockType'
  BY DEF SockType, sockVars, IsMap
<1>2. IdType /\ UNCHANGED idVars => IdType'
  BY DEF IdType, idVars
<1>3. RegType /\ UNCHANGED regVars => RegType'
  BY DEF RegType, regVars, IsMap
<1>4. RouteType /\ UNCHANGED routeVars => RouteType'
  BY DEF RouteType, routeVars, IsMap
<1>8. PoolType /\ UNCHANGED poolVars => PoolType'
  BY DEF PoolType, poolVars
<1>5. AppType /\ QueueOK /\ PoolType /\ UNCHANGED appVars => AppType' /\ QueueOK' /\ PoolType'
  <2>1. AppType /\ QueueOK /\ UNCHANGED appVars => AppType' /\ QueueOK'
    BY DEF AppType, QueueOK, appVars, IsMap
  <2>2. UNCHANGED appVars => UNCHANGED poolVars
    BY DEF appVars
  <2> QED BY <1>8, <2>1, <2>2
<1>6. ThreadType /\ LocalsOK /\ UNCHANGED threadVars => ThreadType' /\ LocalsOK'
  BY DEF ThreadType, LocalsOK, threadVars
<1>7. UserType /\ UNCHANGED userVars => UserType'
  BY DEF UserType, userVars
<1> QED BY <1>1, <1>2, <1>3, <1>4, <1>5, <1>6, <1>7, <1>8

\* The pool's variables, which no other type depends on.
LEMMA PoolNext ==
    ASSUME PoolType,
           TaskFreed \/ \E t \in Threads : AllocTask(t) \/ EnqueueTask(t)
    PROVE  PoolType'
<1>1. /\ freeing \in BOOLEAN /\ overlap \in BOOLEAN /\ allocating \subseteq Threads
  BY DEF PoolType
<1>2. freeing' \in BOOLEAN /\ overlap' \in BOOLEAN
  BY <1>1, Zenon DEF AllocTask, EnqueueTask, TaskFreed
<1>3. allocating' \subseteq Threads
  BY <1>1 DEF AllocTask, EnqueueTask, TaskFreed
<1> QED BY <1>2, <1>3 DEF PoolType

LEMMA TypeNext == TypeInv /\ [Next]_vars => TypeInv'
<1> SUFFICES ASSUME TypeInv, [Next]_vars PROVE TypeInv'
  OBVIOUS
<1> USE DEF TypeInv, TypeOK
<1>1. ASSUME NEW t \in Threads, SocketFails(t) PROVE TypeInv'
  <2>1. ThreadType' /\ LocalsOK'
    BY <1>1 DEF SocketFails, Goto, ThreadType, LocalsOK, PCs, Kinds
  <2> QED BY <1>1, <2>1, Unchanged DEF SocketFails
<1>2. ASSUME NEW t \in Threads, Leave(t) PROVE TypeInv'
  <2>1. ThreadType' /\ LocalsOK'
    BY <1>2 DEF Leave, Going, Goto, ThreadType, LocalsOK, PCs
  <2>2. running_' \in [Connects -> BOOLEAN]
    BY <1>2, Zenon DEF Leave
  <2>3. \A a \in Accepts : IsMap(endpoint_sock_map_'[a], Keys, Endpoints)
    BY <1>2 DEF Leave, SockType, IsMap, Empty
  <2>4. SockType'
    BY <1>2, <2>2, <2>3 DEF Leave, SockType, ConnStates
  <2> QED BY <1>2, <2>1, <2>4, Unchanged DEF Leave
<1>3. ASSUME NEW t \in Threads, GetFreeNetID(t) PROVE TypeInv'
  <2>1. /\ free_net_id_list_' \in Seq(NetIds) /\ max_net_id_' \in Nat
        /\ nid' \in [Threads -> Nat] /\ nid'[t] # 0
    <3>1. CASE free_net_id_list_ # << >>
      <4>1. /\ nid' = [nid EXCEPT ![t] = Top(free_net_id_list_)]
            /\ free_net_id_list_' = Pop(free_net_id_list_)
            /\ max_net_id_' = max_net_id_
        BY <1>3, <3>1 DEF GetFreeNetID
      <4>2. Top(free_net_id_list_) \in NetIds /\ Pop(free_net_id_list_) \in Seq(NetIds)
        BY <3>1, PopTop DEF IdType
      <4> QED BY <4>1, <4>2 DEF IdType, ThreadType, NetIds
    <3>2. CASE free_net_id_list_ = << >>
      <4>1. /\ nid' = [nid EXCEPT ![t] = max_net_id_ + 1]
            /\ free_net_id_list_' = free_net_id_list_
            /\ max_net_id_' = max_net_id_ + 1
        BY <1>3, <3>2 DEF GetFreeNetID, FreshNetID
      <4> QED BY <4>1 DEF IdType, ThreadType
    <3> QED BY <3>1, <3>2
  <2>3. raced' \in BOOLEAN
    BY <1>3, Zenon DEF GetFreeNetID
  <2>4. IdType'
    BY <1>3, <2>1, <2>3 DEF GetFreeNetID, IdType
  <2>2. ThreadType' /\ LocalsOK'
    BY <1>3, <2>1 DEF GetFreeNetID, Going, Goto, ThreadType, LocalsOK, PCs
  <2> QED BY <1>3, <2>4, <2>2, Unchanged DEF GetFreeNetID
<1>4. ASSUME NEW t \in Threads, EnqueueTask(t) PROVE TypeInv'
  <2>1. ThreadType' /\ LocalsOK'
    BY <1>4 DEF EnqueueTask, Resume, Going, Goto, AfterTell, ThreadType, LocalsOK, PCs, Kinds
  <2>2. [kind |-> what[t], id |-> nid[t], conn |-> cur[t]] \in Tasks
    BY <1>4 DEF EnqueueTask, Resume, Going, ThreadType, LocalsOK, Tasks
  <2>3. AppType' /\ QueueOK'
    BY <1>4, <2>2 DEF EnqueueTask, Resume, Going, AppType, QueueOK, LocalsOK, IsMap
  <2>4. PoolType'
    BY <1>4, PoolNext
  <2> QED BY <1>4, <2>1, <2>3, <2>4, Unchanged DEF EnqueueTask
<1>31. ASSUME TaskFreed \/ \E t \in Threads : AllocTask(t) PROVE TypeInv'
  <2>1. PoolType'
    BY <1>31, PoolNext
  <2>2. AppType' /\ QueueOK'
    BY <1>31 DEF AllocTask, TaskFreed, AppType, QueueOK, IsMap
  <2> QED BY <1>31, <2>1, <2>2, Unchanged DEF AllocTask, TaskFreed
<1>5. ASSUME NEW t \in Threads, CallHandlers(t) PROVE TypeInv'
  <2>1. ThreadType' /\ LocalsOK'
    BY <1>5 DEF CallHandlers, Going, Goto, ThreadType, LocalsOK, PCs
  <2>2. IsMap(view', NetIds, Endpoints)
    BY <1>5, PutType, EraseType
    DEF CallHandlers, Going, Told, AppType, ThreadType, LocalsOK, NetIds, Kinds
  <2>3. AppType' /\ QueueOK'
    BY <1>5, <2>2 DEF CallHandlers, AppType, QueueOK
  <2> QED BY <1>5, <2>1, <2>3, Unchanged DEF CallHandlers
<1>6. ASSUME NEW t \in Threads, HandlersReturn(t) PROVE TypeInv'
  <2>1. ThreadType' /\ LocalsOK'
    BY <1>6 DEF HandlersReturn, Resume, Going, Goto, AfterTell, ThreadType, LocalsOK, PCs, Kinds
  <2> QED BY <1>6, <2>1, Unchanged DEF HandlersReturn
<1>7. ASSUME NEW t \in Threads, NEW e \in Endpoints, OnRecv(t, e) PROVE TypeInv'
  <2>1. SockType'
    BY <1>7 DEF OnRecv, SockType, ConnStates
  <2>2. ThreadType' /\ LocalsOK'
    BY <1>7, NoneAssumption
    DEF OnRecv, Goto, ThreadType, LocalsOK, RegType, IsMap, NetIds, PCs, Kinds
  <2> QED BY <1>7, <2>1, <2>2, Unchanged DEF OnRecv
<1>8. ASSUME NEW t \in Threads, NEW e \in Endpoints, HangUp(t, e) PROVE TypeInv'
  <2>1. SockType'
    BY <1>8 DEF HangUp, SockType, ConnStates
  <2>2. ThreadType' /\ LocalsOK'
    BY <1>8, NoneAssumption DEF HangUp, Going, Goto, ThreadType, LocalsOK, PCs
  <2> QED BY <1>8, <2>1, <2>2, Unchanged DEF HangUp
<1>9. ASSUME NEW t \in Threads, NothingMoreToRead(t) PROVE TypeInv'
  <2>1. ThreadType' /\ LocalsOK'
    BY <1>9 DEF NothingMoreToRead, Going, Goto, ThreadType, LocalsOK, PCs
  <2> QED BY <1>9, <2>1, Unchanged DEF NothingMoreToRead
<1>10. ASSUME NEW t \in Threads, OnDisconnect(t) PROVE TypeInv'
  <2>1. RegType'
    BY <1>10, EraseType DEF OnDisconnect, RegType, regVars
  <2>2. ThreadType' /\ LocalsOK'
    BY <1>10
    DEF OnDisconnect, AfterDisconnect, Goto, ThreadType, LocalsOK, RegType, IsMap, NetIds, PCs
  <2> QED BY <1>10, <2>1, <2>2, Unchanged DEF OnDisconnect
<1>11. ASSUME NEW t \in Threads, EraseRoute(t) PROVE TypeInv'
  <2>1. RouteType'
    BY <1>11, EraseType DEF EraseRoute, RouteType
  <2>2. ThreadType' /\ LocalsOK'
    BY <1>11 DEF EraseRoute, Going, Goto, ThreadType, LocalsOK, PCs, Kinds
  <2> QED BY <1>11, <2>1, <2>2, Unchanged DEF EraseRoute
<1>12. ASSUME NEW t \in Threads, BeginPush(t) PROVE TypeInv'
  <2>1. raced' \in BOOLEAN
    BY <1>12, Zenon DEF BeginPush
  <2>2. IdType'
    BY <1>12, <2>1 DEF BeginPush, IdType
  <2>3. ThreadType' /\ LocalsOK'
    BY <1>12 DEF BeginPush, Going, Goto, ThreadType, LocalsOK, PCs
  <2> QED BY <1>12, <2>2, <2>3, Unchanged DEF BeginPush
<1>13. ASSUME NEW t \in Threads, EndPush(t) PROVE TypeInv'
  <2>1. nid[t] \in NetIds
    BY <1>13 DEF EndPush, Going, LocalsOK, ThreadType, NetIds
  <2>2. free_net_id_list_' \in Seq(NetIds)
    <3>1. Append(free_net_id_list_, nid[t]) \in Seq(NetIds) /\ free_net_id_list_ \in Seq(NetIds)
      BY <2>1 DEF IdType
    <3>2. Append(snap[t], nid[t]) \in Seq(NetIds)
      BY <2>1 DEF IdType
    <3> QED BY <1>13, <3>1, <3>2 DEF EndPush
  <2>3. IdType'
    BY <1>13, <2>2 DEF EndPush, IdType
  <2>4. ThreadType' /\ LocalsOK'
    BY <1>13 DEF EndPush, AfterDisconnect, Going, Goto, ThreadType, LocalsOK, PCs
  <2> QED BY <1>13, <2>3, <2>4, Unchanged DEF EndPush
<1>14. ASSUME NEW a \in Accepts, ListenThread(a) PROVE TypeInv'
  <2>1. SockType'
    BY <1>14 DEF ListenThread, SockType
  <2>2. ThreadType' /\ LocalsOK'
    BY <1>14 DEF ListenThread, Going, Goto, ThreadType, LocalsOK, PCs, Threads
  <2> QED BY <1>14, <2>1, <2>2, Unchanged DEF ListenThread
<1>15. ASSUME NEW a \in Accepts, OnAccept(a) PROVE TypeInv'
  <2>1. a \in Threads /\ cur[a] \in Endpoints /\ nid[a] \in NetIds
    BY <1>15 DEF OnAccept, TellOpen, Going, ThreadType, LocalsOK, NetIds, Threads
  <2>2. RegType'
    BY <1>15, <2>1, PutType, KeyType DEF OnAccept, Register, RegType, regVars
  <2>3. \A s \in Highest(AcceptsPeer(cur[a])) : s \in Accepts
    BY DEF Highest, AcceptsPeer, SockType
  <2>4. RouteType'
    BY <1>15, <2>1, <2>3, PutType DEF OnAccept, RouteType
  <2>5. ThreadType' /\ LocalsOK'
    BY <1>15, <2>1, NoneAssumption
    DEF OnAccept, TellOpen, Going, Goto, ThreadType, LocalsOK, PCs, Kinds, NetIds
  <2> QED BY <1>15, <2>2, <2>4, <2>5, Unchanged DEF OnAccept, TellOpen
<1>16. ASSUME NEW a \in Accepts, Forget(a) PROVE TypeInv'
  <2>1. SockType'
    BY <1>16, EraseType DEF Forget, SockType
  <2>2. ThreadType' /\ LocalsOK'
    BY <1>16 DEF Forget, Going, Goto, ThreadType, LocalsOK, PCs, Threads
  <2> QED BY <1>16, <2>1, <2>2, Unchanged DEF Forget
<1>17. ASSUME NEW a \in Accepts, NEW e \in Endpoints, AcceptConnection(a, e) PROVE TypeInv'
  <2>1. SockType'
    BY <1>17, PutType, KeyType DEF AcceptConnection, Opens, SockType, ConnStates
  <2>2. ThreadType' /\ LocalsOK'
    BY <1>17, NoneAssumption
    DEF AcceptConnection, Opens, Goto, ThreadType, LocalsOK, PCs, Threads
  <2> QED BY <1>17, <2>1, <2>2, Unchanged DEF AcceptConnection
<1>18. ASSUME NEW c \in Connects, ConnectThread(c) PROVE TypeInv'
  <2>1. SockType'
    BY <1>18 DEF ConnectThread, SockType
  <2>2. ThreadType' /\ LocalsOK'
    BY <1>18 DEF ConnectThread, Going, Goto, ThreadType, LocalsOK, PCs, Threads
  <2> QED BY <1>18, <2>1, <2>2, Unchanged DEF ConnectThread
<1>19. ASSUME NEW c \in Connects, OnConnect(c) PROVE TypeInv'
  <2>1. c \in Threads /\ cur[c] \in Endpoints /\ nid[c] \in NetIds
    BY <1>19 DEF OnConnect, TellOpen, Going, ThreadType, LocalsOK, NetIds, Threads
  <2>2. RegType'
    BY <1>19, <2>1, PutType, KeyType DEF OnConnect, Register, RegType, regVars
  <2>3. \A s \in Highest(ConnectsPeer(cur[c])) : s \in Connects
    BY DEF Highest, ConnectsPeer, SockType
  <2>4. RouteType'
    BY <1>19, <2>1, <2>3, PutType DEF OnConnect, RouteType
  <2>5. ThreadType' /\ LocalsOK'
    BY <1>19, <2>1, NoneAssumption
    DEF OnConnect, TellOpen, Going, Goto, ThreadType, LocalsOK, PCs, Kinds, NetIds
  <2> QED BY <1>19, <2>2, <2>4, <2>5, Unchanged DEF OnConnect, TellOpen
<1>20. ASSUME NEW c \in Connects, Arm(c) PROVE TypeInv'
  <2>1. running_' \in [Connects -> BOOLEAN]
    BY <1>20, Zenon DEF Arm, SockType
  <2>2. SockType'
    BY <1>20, <2>1 DEF Arm, SockType
  <2>3. ThreadType' /\ LocalsOK'
    BY <1>20 DEF Arm, Going, Goto, ThreadType, LocalsOK, PCs, Threads
  <2> QED BY <1>20, <2>2, <2>3, Unchanged DEF Arm
<1>21. ASSUME NEW c \in Connects, TestRunning(c) PROVE TypeInv'
  <2>1. ThreadType' /\ LocalsOK'
    BY <1>21 DEF TestRunning, Going, Goto, ThreadType, LocalsOK, PCs, Threads
  <2> QED BY <1>21, <2>1, Unchanged DEF TestRunning
<1>22. ASSUME NEW c \in Connects, NEW e \in Endpoints, Dial(c, e) PROVE TypeInv'
  <2>1. SockType'
    BY <1>22 DEF Dial, Opens, SockType, ConnStates
  <2>2. ThreadType' /\ LocalsOK'
    BY <1>22, NoneAssumption DEF Dial, Opens, Goto, ThreadType, LocalsOK, PCs, Threads
  <2> QED BY <1>22, <2>1, <2>2, Unchanged DEF Dial
<1>23. ASSUME SyncRunning PROVE TypeInv'
  <2>1. single_thread_handle_mode_' \in BOOLEAN
    BY <1>23, Zenon DEF SyncRunning
  <2>2. AppType' /\ QueueOK'
    BY <1>23, <2>1 DEF SyncRunning, AppType, QueueOK, IsMap
  <2> QED BY <1>23, <2>2, Unchanged DEF SyncRunning
<1>24. ASSUME HandleNetTask PROVE TypeInv'
  <2>1. Head(handle_task_queue_) \in Tasks /\ Head(handle_task_queue_) = handle_task_queue_[1]
        /\ 1 \in 1..Len(handle_task_queue_)
    BY <1>24 DEF HandleNetTask, AppType
  <2>6. PICK task \in Content(Head(handle_task_queue_)) :
           view' = Told(task.kind, task.id, task.conn)
    BY <1>24 DEF HandleNetTask
  <2>7. /\ task.kind \in Kinds
        /\ task.kind \in {"open", "recv", "disc"} => task.id \in NetIds /\ task.conn \in Endpoints
    BY <2>1 DEF Content, IdType, QueueOK, Tasks, NetIds
  <2>2. IsMap(view', NetIds, Endpoints)
    BY <2>6, <2>7, PutType, EraseType DEF Told, AppType, Kinds
  <2>3. handling' \in BOOLEAN
    BY <1>24, Zenon DEF HandleNetTask
  <2>4. handle_task_queue_' \in Seq(Tasks) /\ QueueOK'
    BY <1>24 DEF HandleNetTask, AppType, QueueOK
  <2>5. AppType'
    BY <1>24, <2>2, <2>3, <2>4 DEF HandleNetTask, AppType
  <2> QED BY <1>24, <2>4, <2>5, Unchanged DEF HandleNetTask
<1>25. ASSUME NetTaskHandled PROVE TypeInv'
  <2>1. handling' \in BOOLEAN
    BY <1>25, Zenon DEF NetTaskHandled
  <2>2. AppType' /\ QueueOK'
    BY <1>25, <2>1 DEF NetTaskHandled, AppType, QueueOK, IsMap
  <2>3. freeing' \in BOOLEAN /\ overlap' \in BOOLEAN /\ allocating' = allocating
    BY <1>25, Zenon DEF NetTaskHandled, PoolType
  <2>4. PoolType'
    BY <2>3 DEF PoolType
  <2> QED BY <1>25, <2>2, <2>4, Unchanged DEF NetTaskHandled
<1>26. ASSUME NEW e \in Endpoints, PeerCloses(e) PROVE TypeInv'
  <2>1. SockType'
    BY <1>26 DEF PeerCloses, SockType, ConnStates
  <2> QED BY <1>26, <2>1, Unchanged DEF PeerCloses
<1>27. ASSUME NEW u \in Users, NEW op \in {"Send", "Disconnect"}, NEW id \in DOMAIN view,
              FindEndpoint(u, op, id)
       PROVE  TypeInv'
  <2>1. UserType'
    BY <1>27 DEF FindEndpoint, UserType, RegType, AppType, IsMap, NetIds
  <2> QED BY <1>27, <2>1, Unchanged DEF FindEndpoint
<1>28. ASSUME NEW u \in Users, UseAccept(u) PROVE TypeInv'
  <2>1. SockType'
    BY <1>28 DEF UseAccept, SockType, ConnStates
  <2>2. UserType'
    BY <1>28 DEF UseAccept, UserType
  <2> QED BY <1>28, <2>1, <2>2, Unchanged DEF UseAccept
<1>29. ASSUME NEW u \in Users, UseConnect(u) PROVE TypeInv'
  <2>1. running_' \in [Connects -> BOOLEAN]
    BY <1>29, Zenon DEF UseConnect
  <2>2. SockType'
    BY <1>29, <2>1 DEF UseConnect, SockType
  <2>3. UserType'
    BY <1>29 DEF UseConnect, UserType
  <2> QED BY <1>29, <2>2, <2>3, Unchanged DEF UseConnect
<1>30. ASSUME UNCHANGED vars PROVE TypeInv'
  BY <1>30, Unchanged DEF vars
<1> QED
  BY <1>1, <1>2, <1>3, <1>4, <1>5, <1>6, <1>7, <1>8, <1>9, <1>10, <1>11, <1>12, <1>13, <1>14,
     <1>15, <1>16, <1>17, <1>18, <1>19, <1>20, <1>21, <1>22, <1>23, <1>24, <1>25, <1>26, <1>27,
     <1>28, <1>29, <1>30, <1>31
  DEF Next, SocketStep, AcceptStep, ConnectStep, UserStep

\* Every reachable state is well typed; in particular no id of 0 is ever
\* registered, freed or told to the application.
THEOREM TypeCorrect == Spec => []TypeOK
<1>1. Init => TypeInv
  BY InitTypeInv
<1>2. TypeInv /\ [Next]_vars => TypeInv'
  BY TypeNext
<1>3. TypeInv => TypeOK
  BY DEF TypeInv
<1> QED BY <1>1, <1>2, <1>3, PTL DEF Spec

-----------------------------------------------------------------------------
(***************************************************************************)
(* Distinct ids.  NetIdsDistinct is not inductive: a fresh id is new only  *)
(* because no id above max_net_id_ is in use, a finished push is harmless  *)
(* only because the stack is the one the push began with, and withdrawing  *)
(* an id frees it only because both registry maps agree.                   *)
(***************************************************************************)
Registered == DOMAIN net_id_to_endpoint_map_
FreeOK ==
    /\ \A i, j \in 1..Len(free_net_id_list_) :
          i # j => free_net_id_list_[i] # free_net_id_list_[j]
    /\ \A i \in 1..Len(free_net_id_list_) :
          free_net_id_list_[i] <= max_net_id_ /\ free_net_id_list_[i] \notin Registered
HeldOK ==
    /\ \A t \in Threads : Holding(t) =>
          /\ nid[t] <= max_net_id_ /\ nid[t] \notin Registered
          /\ \A i \in 1..Len(free_net_id_list_) : free_net_id_list_[i] # nid[t]
    /\ \A t, u \in Threads : t # u /\ Holding(t) /\ Holding(u) => nid[t] # nid[u]
PushOK ==
    /\ \A t \in Threads : pc[t] = "pushing" => snap[t] = free_net_id_list_
    /\ \A t, u \in Threads : pc[t] = "pushing" /\ pc[u] = "pushing" => t = u
RegOK ==
    /\ \A id \in Registered : id <= max_net_id_
    /\ \A k \in DOMAIN endpoint_to_net_id_map_ :
          /\ endpoint_to_net_id_map_[k] \in Registered
          /\ Key(net_id_to_endpoint_map_[endpoint_to_net_id_map_[k]]) = k

IdInv == ~raced => FreeOK /\ HeldOK /\ PushOK /\ RegOK

\* Steps that leave the stack and the registry alone, and after which no
\* thread holds an id that it did not hold before.
LEMMA IdFrame ==
    ASSUME IdInv, UNCHANGED idVars, UNCHANGED regVars,
           \A t \in Threads : Holding(t)' => Holding(t) /\ nid'[t] = nid[t],
           \A t \in Threads : pc'[t] = "pushing" => pc[t] = "pushing"
    PROVE  IdInv'
  BY DEF IdInv, FreeOK, HeldOK, PushOK, RegOK, Registered, idVars, regVars

LEMMA InitIdInv == Init => IdInv
  BY DEF Init, IdInv, FreeOK, HeldOK, PushOK, RegOK, Registered, Holding, Empty

LEMMA IdGetFreeNetID ==
    ASSUME TypeInv, IdInv, NEW t \in Threads, GetFreeNetID(t) PROVE IdInv'
<1> SUFFICES ASSUME ~raced' PROVE (FreeOK /\ HeldOK /\ PushOK /\ RegOK)'
  BY DEF IdInv
<1> DEFINE new == nid'[t]
<1>1. ~raced /\ \A u \in Threads : pc[u] # "pushing"
  BY DEF GetFreeNetID, Pushing
<1>2. FreeOK /\ HeldOK /\ RegOK
  BY <1>1 DEF IdInv
<1>3. /\ \A u \in Threads \ {t} : pc'[u] = pc[u] /\ nid'[u] = nid[u]
      /\ pc[t] = "getid" /\ pc'[t] = "register" /\ what' = what
  BY DEF GetFreeNetID, Going, Goto, TypeInv, TypeOK, ThreadType
<1>4. UNCHANGED regVars
  BY DEF GetFreeNetID
<1>5. Len(free_net_id_list_) \in Nat /\ max_net_id_ \in Nat /\ Registered \subseteq Nat
      /\ \A u \in Threads : nid[u] \in Nat
      /\ \A i \in 1..Len(free_net_id_list_) : free_net_id_list_[i] \in Nat
  BY ElementOfSeq
  DEF TypeInv, TypeOK, IdType, RegType, ThreadType, IsMap, Registered, NetIds
<1>6. /\ new \in Nat /\ max_net_id_' \in Nat /\ max_net_id_ <= max_net_id_'
      /\ new <= max_net_id_'
      /\ new \notin Registered
      /\ \A u \in Threads : Holding(u) => nid[u] # new
      /\ Len(free_net_id_list_') \in Nat /\ Len(free_net_id_list_') <= Len(free_net_id_list_)
      /\ \A i \in 1..Len(free_net_id_list_') : free_net_id_list_'[i] = free_net_id_list_[i]
      /\ \A i \in 1..Len(free_net_id_list_') : free_net_id_list_'[i] # new
  <2>1. CASE free_net_id_list_ # << >>
    <3> DEFINE n == Len(free_net_id_list_)
    <3>1. /\ nid' = [nid EXCEPT ![t] = Top(free_net_id_list_)]
          /\ free_net_id_list_' = Pop(free_net_id_list_)
          /\ max_net_id_' = max_net_id_
      BY <2>1 DEF GetFreeNetID
    <3>2. /\ n \in Nat \ {0} /\ Len(free_net_id_list_') = n - 1
          /\ \A i \in 1..n - 1 : free_net_id_list_'[i] = free_net_id_list_[i]
      BY <2>1, <3>1, PopTop DEF TypeInv, TypeOK, IdType
    <3>3. new = free_net_id_list_[n]
      BY <3>1 DEF Top, TypeInv, TypeOK, ThreadType
    <3> HIDE DEF n, new
    <3>4. n \in 1..n /\ \A i \in 1..n - 1 : i \in 1..n /\ i # n
      BY <3>2
    <3>5. n = Len(free_net_id_list_)
      BY DEF n
    <3> QED
      BY <1>2, <1>5, <3>1, <3>2, <3>3, <3>4, <3>5 DEF FreeOK, HeldOK
  <2>2. CASE free_net_id_list_ = << >>
    <3>1. /\ new = max_net_id_ + 1
          /\ free_net_id_list_' = free_net_id_list_
          /\ max_net_id_' = max_net_id_ + 1
      BY <2>2 DEF GetFreeNetID, FreshNetID, TypeInv, TypeOK, ThreadType
    <3> HIDE DEF new
    <3> QED BY <1>2, <1>5, <2>2, <3>1 DEF HeldOK, RegOK
  <2> QED BY <2>1, <2>2
<1>7. \A u \in Threads : Holding(u)' => u = t \/ Holding(u)
  BY <1>3 DEF Holding
<1>8. Registered' = Registered
  BY <1>4 DEF Registered, regVars
<1>9. FreeOK'
  <2>1. \A i \in 1..Len(free_net_id_list_') :
           i \in 1..Len(free_net_id_list_) /\ free_net_id_list_'[i] = free_net_id_list_[i]
    BY <1>5, <1>6
  <2>2. \A i, j \in 1..Len(free_net_id_list_') :
           i # j => free_net_id_list_'[i] # free_net_id_list_'[j]
    BY <1>2, <2>1 DEF FreeOK
  <2>3. \A i \in 1..Len(free_net_id_list_') : free_net_id_list_'[i] \notin Registered'
    BY <1>2, <1>8, <2>1 DEF FreeOK
  <2>4. \A i \in 1..Len(free_net_id_list_') : free_net_id_list_'[i] <= max_net_id_'
    BY <1>2, <1>5, <1>6, <2>1 DEF FreeOK
  <2> QED BY <2>2, <2>3, <2>4 DEF FreeOK
<1>10. HeldOK'
  <2> HIDE DEF new
  <2>1. nid'[t] = new
    BY DEF new
  <2>2. \A u \in Threads : u # t => nid'[u] = nid[u]
    BY <1>3
  <2>3. \A u \in Threads : Holding(u)' =>
           /\ nid'[u] <= max_net_id_' /\ nid'[u] \notin Registered'
           /\ \A i \in 1..Len(free_net_id_list_') : free_net_id_list_'[i] # nid'[u]
    BY <1>2, <1>5, <1>6, <1>7, <1>8, <2>1, <2>2 DEF HeldOK
  <2>4. \A u, v \in Threads : u # v /\ Holding(u)' /\ Holding(v)' => nid'[u] # nid'[v]
    BY <1>2, <1>6, <1>7, <2>1, <2>2 DEF HeldOK
  <2> QED BY <2>3, <2>4 DEF HeldOK
<1>11. PushOK'
  BY <1>1, <1>3 DEF PushOK
<1>12. RegOK'
  BY <1>2, <1>4, <1>5, <1>6, <1>8 DEF RegOK, regVars
<1> QED BY <1>9, <1>10, <1>11, <1>12

\* Publishing an id: OnAccept and OnConnect.
LEMMA IdRegister ==
    ASSUME TypeInv, IdInv, NEW t \in Threads, NEW matches, TellOpen(t), Register(t, matches)
    PROVE  IdInv'
<1> SUFFICES ASSUME ~raced' PROVE (FreeOK /\ HeldOK /\ PushOK /\ RegOK)'
  BY DEF IdInv
<1>1. UNCHANGED <<free_net_id_list_, max_net_id_, snap, raced, nid>>
  BY DEF TellOpen, idVars
<1>2. FreeOK /\ HeldOK /\ PushOK /\ RegOK
  BY <1>1 DEF IdInv
<1>3. /\ \A u \in Threads \ {t} : pc'[u] = pc[u] /\ what'[u] = what[u]
      /\ pc[t] = "register" /\ pc'[t] = "tell" /\ what'[t] = "open"
  BY DEF TellOpen, Going, Goto, TypeInv, TypeOK, ThreadType
<1>4. /\ Holding(t) /\ ~Holding(t)'
      /\ \A u \in Threads : Holding(u)' => u # t /\ Holding(u)
  BY <1>3 DEF Holding
<1>5. \A id \in Registered' : id \in Registered \/ id = nid[t]
  BY DEF Register, Registered, Put, regVars
<1>6. /\ \A i \in 1..Len(free_net_id_list_) : free_net_id_list_[i] # nid[t]
      /\ nid[t] <= max_net_id_ /\ nid[t] \notin Registered
  BY <1>2, <1>4 DEF HeldOK
<1>7. FreeOK'
  BY <1>1, <1>2, <1>5, <1>6 DEF FreeOK
<1>8. HeldOK'
  BY <1>1, <1>2, <1>4, <1>5 DEF HeldOK
<1>9. PushOK'
  BY <1>1, <1>2, <1>3 DEF PushOK
<1>10. RegOK'
  <2>1. CASE matches = {}
    BY <1>1, <1>2, <2>1 DEF Register, RegOK, Registered, regVars
  <2>2. CASE matches # {}
    <3>1. /\ net_id_to_endpoint_map_' = Put(net_id_to_endpoint_map_, nid[t], cur[t])
          /\ endpoint_to_net_id_map_' = Put(endpoint_to_net_id_map_, Key(cur[t]), nid[t])
      BY <2>2 DEF Register
    <3>2. /\ Registered' = Registered \cup {nid[t]}
          /\ net_id_to_endpoint_map_'[nid[t]] = cur[t]
          /\ \A id \in Registered : net_id_to_endpoint_map_'[id] = net_id_to_endpoint_map_[id]
      BY <1>6, <3>1 DEF Put, Registered
    <3>3. \A k \in DOMAIN endpoint_to_net_id_map_' :
             \/ k = Key(cur[t]) /\ endpoint_to_net_id_map_'[k] = nid[t]
             \/ /\ k \in DOMAIN endpoint_to_net_id_map_
                /\ endpoint_to_net_id_map_'[k] = endpoint_to_net_id_map_[k]
      BY <3>1 DEF Put
    <3>4. \A k \in DOMAIN endpoint_to_net_id_map_' :
             /\ endpoint_to_net_id_map_'[k] \in Registered'
             /\ Key(net_id_to_endpoint_map_'[endpoint_to_net_id_map_'[k]]) = k
      BY <1>2, <3>2, <3>3 DEF RegOK
    <3>5. \A id \in Registered' : id <= max_net_id_'
      BY <1>1, <1>2, <1>6, <3>2 DEF RegOK
    <3>6. \A e : Key(e)' = Key(e)
      BY DEF Key, KeyAt
    <3> QED BY <3>4, <3>5, <3>6 DEF RegOK
  <2> QED BY <2>1, <2>2
<1> QED BY <1>7, <1>8, <1>9, <1>10

\* Withdrawing an id: the locked part of OnDisconnect.
LEMMA IdOnDisconnect ==
    ASSUME TypeInv, IdInv, NEW t \in Threads, OnDisconnect(t) PROVE IdInv'
<1> DEFINE k == Key(cur[t])
           id == endpoint_to_net_id_map_[k]
<1>1. CASE k \notin DOMAIN endpoint_to_net_id_map_
  <2>1. UNCHANGED <<idVars, regVars, nid, what>>
    BY <1>1 DEF OnDisconnect
  <2>2. /\ \A u \in Threads \ {t} : pc'[u] = pc[u]
        /\ pc'[t] \in {"forget", "leave"}
    BY <1>1 DEF OnDisconnect, AfterDisconnect, Goto, TypeInv, TypeOK, ThreadType
  <2>3. \A u \in Threads : Holding(u)' => Holding(u) /\ nid'[u] = nid[u]
    BY <2>1, <2>2 DEF Holding
  <2>4. \A u \in Threads : pc'[u] = "pushing" => pc[u] = "pushing"
    BY <2>2
  <2> QED BY <2>1, <2>3, <2>4, IdFrame
<1>2. CASE k \in DOMAIN endpoint_to_net_id_map_
  <2> SUFFICES ASSUME ~raced' PROVE (FreeOK /\ HeldOK /\ PushOK /\ RegOK)'
    BY DEF IdInv
  <2>1. UNCHANGED <<free_net_id_list_, max_net_id_, snap, raced, what>>
    BY DEF OnDisconnect, idVars
  <2>2. FreeOK /\ HeldOK /\ PushOK /\ RegOK
    BY <2>1 DEF IdInv
  <2>3. /\ \A u \in Threads \ {t} : pc'[u] = pc[u] /\ nid'[u] = nid[u]
        /\ pc'[t] = "unroute" /\ nid'[t] = id
    BY <1>2 DEF OnDisconnect, Goto, TypeInv, TypeOK, ThreadType
  <2>4. \A u \in Threads : u # t /\ Holding(u)' => Holding(u)
    BY <2>1, <2>3 DEF Holding
  <2>5. id \in Registered /\ Key(net_id_to_endpoint_map_[id]) = k
    BY <1>2, <2>2 DEF RegOK
  <2>6. /\ Registered' = Registered \ {id}
        /\ \A x \in Registered' : net_id_to_endpoint_map_'[x] = net_id_to_endpoint_map_[x]
        /\ DOMAIN endpoint_to_net_id_map_' = DOMAIN endpoint_to_net_id_map_ \ {k}
        /\ \A x \in DOMAIN endpoint_to_net_id_map_' :
              endpoint_to_net_id_map_'[x] = endpoint_to_net_id_map_[x]
    BY <1>2 DEF OnDisconnect, Erase, Registered
  <2> HIDE DEF id, k
  <2>7. FreeOK'
    BY <2>1, <2>2, <2>6 DEF FreeOK
  <2>8. HeldOK'
    <3>1. id <= max_net_id_ /\ \A i \in 1..Len(free_net_id_list_) : free_net_id_list_[i] # id
      BY <2>2, <2>5 DEF FreeOK, RegOK
    <3>2. \A u \in Threads : u # t /\ Holding(u)' =>
             /\ nid'[u] = nid[u] /\ nid[u] # id /\ nid[u] \notin Registered
             /\ nid[u] <= max_net_id_
             /\ \A i \in 1..Len(free_net_id_list_) : free_net_id_list_[i] # nid[u]
      BY <2>2, <2>3, <2>4, <2>5 DEF HeldOK
    <3>3. \A u, v \in Threads : u # v /\ Holding(u)' /\ Holding(v)' => nid'[u] # nid'[v]
      BY <2>2, <2>3, <2>4, <3>2 DEF HeldOK
    <3>4. \A u \in Threads : Holding(u)' =>
             /\ nid'[u] <= max_net_id_' /\ nid'[u] \notin Registered'
             /\ \A i \in 1..Len(free_net_id_list_') : free_net_id_list_'[i] # nid'[u]
      BY <2>1, <2>3, <2>6, <3>1, <3>2
    <3> QED BY <3>3, <3>4 DEF HeldOK
  <2>9. PushOK'
    BY <2>1, <2>2, <2>3 DEF PushOK
  <2>10. RegOK'
    <3>1. \A x \in DOMAIN endpoint_to_net_id_map_' :
             /\ x # k
             /\ endpoint_to_net_id_map_[x] \in Registered
             /\ Key(net_id_to_endpoint_map_[endpoint_to_net_id_map_[x]]) = x
      <4>1. \A x \in DOMAIN endpoint_to_net_id_map_' :
               x # k /\ x \in DOMAIN endpoint_to_net_id_map_
        BY <2>6
      <4>2. \A x \in DOMAIN endpoint_to_net_id_map_ :
               /\ endpoint_to_net_id_map_[x] \in Registered
               /\ Key(net_id_to_endpoint_map_[endpoint_to_net_id_map_[x]]) = x
        BY <2>2 DEF RegOK
      <4> QED BY <4>1, <4>2
    <3>2. \A x \in DOMAIN endpoint_to_net_id_map_' : endpoint_to_net_id_map_[x] # id
      BY <2>5, <3>1
    <3>3. \A x \in DOMAIN endpoint_to_net_id_map_' :
             /\ endpoint_to_net_id_map_'[x] \in Registered'
             /\ Key(net_id_to_endpoint_map_'[endpoint_to_net_id_map_'[x]]) = x
      BY <2>6, <3>1, <3>2
    <3>4. \A x \in Registered' : x <= max_net_id_'
      BY <2>1, <2>2, <2>6 DEF RegOK
    <3>5. \A e : Key(e)' = Key(e)
      BY DEF Key, KeyAt
    <3> QED BY <3>3, <3>4, <3>5 DEF RegOK
  <2> QED BY <2>7, <2>8, <2>9, <2>10
<1> QED BY <1>1, <1>2

LEMMA IdBeginPush ==
    ASSUME TypeInv, IdInv, NEW t \in Threads, BeginPush(t) PROVE IdInv'
<1> SUFFICES ASSUME ~raced' PROVE (FreeOK /\ HeldOK /\ PushOK /\ RegOK)'
  BY DEF IdInv
<1>1. ~raced /\ \A u \in Threads : pc[u] # "pushing"
  BY DEF BeginPush, Pushing
<1>2. FreeOK /\ HeldOK /\ PushOK /\ RegOK
  BY <1>1 DEF IdInv
<1>3. /\ \A u \in Threads \ {t} : pc'[u] = pc[u]
      /\ pc[t] = "push" /\ pc'[t] = "pushing" /\ snap'[t] = free_net_id_list_
      /\ UNCHANGED <<free_net_id_list_, max_net_id_, nid, what>> /\ UNCHANGED regVars
  BY DEF BeginPush, Going, Goto, TypeInv, TypeOK, ThreadType, IdType
<1>4. \A u \in Threads : Holding(u)' => Holding(u)
  BY <1>3 DEF Holding
<1>5. Registered' = Registered
  BY <1>3 DEF Registered, regVars
<1>6. FreeOK' /\ HeldOK' /\ RegOK'
  BY <1>2, <1>3, <1>4, <1>5 DEF FreeOK, HeldOK, RegOK, regVars
<1>7. PushOK'
  BY <1>1, <1>3 DEF PushOK
<1> QED BY <1>6, <1>7

LEMMA IdEndPush ==
    ASSUME TypeInv, IdInv, NEW t \in Threads, EndPush(t) PROVE IdInv'
<1> SUFFICES ASSUME ~raced' PROVE (FreeOK /\ HeldOK /\ PushOK /\ RegOK)'
  BY DEF IdInv
<1>1. ~raced /\ pc[t] = "pushing"
  BY DEF EndPush, Going
<1>2. FreeOK /\ HeldOK /\ PushOK /\ RegOK
  BY <1>1 DEF IdInv
<1>3. /\ \A u \in Threads \ {t} : pc'[u] = pc[u] /\ nid'[u] = nid[u]
      /\ pc'[t] \in {"forget", "leave"}
      /\ UNCHANGED <<max_net_id_, what>> /\ UNCHANGED regVars
  BY DEF EndPush, Going, Goto, AfterDisconnect, TypeInv, TypeOK, ThreadType
<1>4. free_net_id_list_' = Append(free_net_id_list_, nid[t])
  BY <1>1, <1>2 DEF EndPush, PushOK
<1>5. Holding(t) /\ \A u \in Threads : Holding(u)' => u # t /\ Holding(u)
  BY <1>1, <1>3 DEF Holding
<1>6. Registered' = Registered
  BY <1>3 DEF Registered, regVars
<1>7. /\ nid[t] <= max_net_id_ /\ nid[t] \notin Registered
      /\ \A i \in 1..Len(free_net_id_list_) : free_net_id_list_[i] # nid[t]
  BY <1>2, <1>5 DEF HeldOK
<1> DEFINE n == Len(free_net_id_list_)
<1>8. n \in Nat /\ Len(free_net_id_list_') = n + 1 /\ free_net_id_list_'[n + 1] = nid[t]
      /\ \A i \in 1..n : free_net_id_list_'[i] = free_net_id_list_[i]
  <2>1. free_net_id_list_ \in Seq(NetIds) /\ nid[t] \in NetIds
    BY <1>1 DEF TypeInv, TypeOK, IdType, ThreadType, LocalsOK, NetIds
  <2> QED BY <1>4, <2>1, AppendProperties, LenProperties
<1>9. \A i \in 1..Len(free_net_id_list_') :
         \/ i \in 1..n /\ free_net_id_list_'[i] = free_net_id_list_[i]
         \/ i = n + 1 /\ free_net_id_list_'[i] = nid[t]
  BY <1>8
<1>10. FreeOK'
  BY <1>2, <1>3, <1>6, <1>7, <1>9 DEF FreeOK
<1>11. HeldOK'
  <2>1. \A u \in Threads : Holding(u)' =>
           /\ nid'[u] = nid[u] /\ nid[u] # nid[t] /\ nid[u] \notin Registered
           /\ nid[u] <= max_net_id_
           /\ \A i \in 1..n : free_net_id_list_[i] # nid[u]
    BY <1>2, <1>3, <1>5 DEF HeldOK
  <2>2. \A u \in Threads : Holding(u)' =>
           \A i \in 1..Len(free_net_id_list_') : free_net_id_list_'[i] # nid'[u]
    BY <1>9, <2>1
  <2>3. \A u, v \in Threads : u # v /\ Holding(u)' /\ Holding(v)' => nid'[u] # nid'[v]
    BY <1>2, <1>5, <2>1 DEF HeldOK
  <2> QED BY <1>3, <1>6, <2>1, <2>2, <2>3 DEF HeldOK
<1>12. PushOK'
  BY <1>1, <1>2, <1>3 DEF PushOK
<1>13. RegOK'
  BY <1>2, <1>3, <1>6 DEF RegOK, regVars
<1> QED BY <1>10, <1>11, <1>12, <1>13

LEMMA IdNext == TypeInv /\ IdInv /\ [Next]_vars => IdInv'
<1> SUFFICES ASSUME TypeInv, IdInv, [Next]_vars PROVE IdInv'
  OBVIOUS
<1> DEFINE Quiet == /\ UNCHANGED idVars /\ UNCHANGED regVars
                    /\ \A t \in Threads : Holding(t)' => Holding(t) /\ nid'[t] = nid[t]
                    /\ \A t \in Threads : pc'[t] = "pushing" => pc[t] = "pushing"
<1>1. Quiet => IdInv'
  BY IdFrame
<1>2. ASSUME NEW t \in Threads,
             SocketFails(t) \/ Leave(t) \/ NothingMoreToRead(t)
      PROVE  Quiet
  BY <1>2
  DEF SocketFails, Leave, NothingMoreToRead, Going, Goto, Holding, TypeInv, TypeOK, ThreadType
<1>3. ASSUME NEW t \in Threads, EnqueueTask(t) \/ HandlersReturn(t) PROVE Quiet
  BY <1>3
  DEF EnqueueTask, HandlersReturn, Resume, AfterTell, appVars, Going, Goto, Holding, TypeInv,
      TypeOK, ThreadType, Kinds, LocalsOK
<1>4. ASSUME NEW t \in Threads, CallHandlers(t) \/ EraseRoute(t) PROVE Quiet
  BY <1>4 DEF CallHandlers, EraseRoute, Going, Goto, Holding, TypeInv, TypeOK, ThreadType
<1>5. ASSUME NEW t \in Threads, NEW e \in Endpoints, OnRecv(t, e) \/ HangUp(t, e) PROVE Quiet
  BY <1>5 DEF OnRecv, HangUp, Going, Goto, Holding, TypeInv, TypeOK, ThreadType
<1>6. ASSUME NEW a \in Accepts, ListenThread(a) \/ Forget(a) PROVE Quiet
  BY <1>6 DEF ListenThread, Forget, Going, Goto, Holding, TypeInv, TypeOK, ThreadType, Threads
<1>7. ASSUME NEW a \in Accepts, NEW e \in Endpoints, AcceptConnection(a, e) PROVE Quiet
  BY <1>7 DEF AcceptConnection, Opens, Goto, Holding, TypeInv, TypeOK, ThreadType, Threads
<1>8. ASSUME NEW c \in Connects, ConnectThread(c) \/ Arm(c) \/ TestRunning(c) PROVE Quiet
  BY <1>8
  DEF ConnectThread, Arm, TestRunning, Going, Goto, Holding, TypeInv, TypeOK, ThreadType, Threads
<1>9. ASSUME NEW c \in Connects, NEW e \in Endpoints, Dial(c, e) PROVE Quiet
  BY <1>9 DEF Dial, Opens, Goto, Holding, TypeInv, TypeOK, ThreadType, Threads
<1>10. ASSUME \/ SyncRunning \/ HandleNetTask \/ NetTaskHandled \/ TaskFreed
              \/ \E t \in Threads : AllocTask(t)
              \/ \E e \in Endpoints : PeerCloses(e)
              \/ \E u \in Users : UserStep(u)
              \/ UNCHANGED vars
       PROVE  Quiet
  BY <1>10
  DEF SyncRunning, HandleNetTask, NetTaskHandled, TaskFreed, AllocTask, PeerCloses, UserStep, FindEndpoint, UseAccept,
      UseConnect, vars, threadVars, Holding
<1>11. ASSUME NEW a \in Accepts, OnAccept(a) PROVE IdInv'
  BY <1>11, IdRegister DEF OnAccept, Threads
<1>12. ASSUME NEW c \in Connects, OnConnect(c) PROVE IdInv'
  BY <1>12, IdRegister DEF OnConnect, Threads
<1> HIDE DEF Quiet
<1> QED
  BY <1>1, <1>2, <1>3, <1>4, <1>5, <1>6, <1>7, <1>8, <1>9, <1>10, <1>11, <1>12, IdGetFreeNetID,
     IdOnDisconnect, IdBeginPush, IdEndPush
  DEF Next, SocketStep, AcceptStep, ConnectStep

LEMMA Invariance == Spec => [](TypeInv /\ IdInv)
<1>1. Init => TypeInv /\ IdInv
  BY InitTypeInv, InitIdInv
<1>2. TypeInv /\ IdInv /\ [Next]_vars => (TypeInv /\ IdInv)'
  BY TypeNext, IdNext
<1> QED BY <1>1, <1>2, PTL DEF Spec

\* GetFreeNetID and OnDisconnect never let two connections share an id, unless
\* an access to the free stack overlapped the unlocked push.
THEOREM DistinctIds == Spec => []NetIdsDistinct
<1>1. IdInv => NetIdsDistinct
  <2> SUFFICES ASSUME IdInv, ~raced PROVE NetIdsDistinct
    BY DEF NetIdsDistinct
  <2>1. FreeOK /\ HeldOK
    BY DEF IdInv
  <2> QED BY <2>1 DEF FreeOK, HeldOK, Registered, NetIdsDistinct, FreeIds
<1> QED BY <1>1, Invariance, PTL

\* The two registry maps stay each other's inverse where a key is registered.
THEOREM ConsistentRegistry == Spec => []RegistryConsistent
<1>1. IdInv => RegistryConsistent
  BY DEF IdInv, RegOK, Registered, RegistryConsistent
<1> QED BY <1>1, Invariance, PTL

-----------------------------------------------------------------------------
(***************************************************************************)
(* Where a Send goes.  A SocketAccept finds the descriptor by key, but a   *)
(* SocketConnect writes to the connection it has at the time.  So a route  *)
(* to a SocketConnect must name the socket that owns the connection, and   *)
(* that socket must not have a later one while the connection is up.       *)
(***************************************************************************)
SockKeyInv ==
    \A a \in Accepts : \A k \in DOMAIN endpoint_sock_map_[a] : Key(endpoint_sock_map_[a][k]) = k

DialInv ==
    /\ \A c \in Connects : pc[c] \in {"off", "dial"} => cur[c] = None
    /\ \A c \in Connects : cur[c] # None => Owner[cur[c]] = c
    /\ \A e \in Endpoints : Owner[e] \in Connects /\ conn[e] \in {"up", "fin"} => cur[Owner[e]] = e

CurInv == \A t \in Threads : cur[t] # None => Owner[cur[t]] = t

\* A route to a SocketConnect was made for a look-alike of its connection; it
\* goes with the registration, or is about to.
RouteInv ==
    ~raced => \A id \in DOMAIN net_id_to_connect_ :
       \/ /\ id \in Registered
          /\ \E f \in Endpoints : /\ LooksLike(f, net_id_to_endpoint_map_[id])
                                  /\ Owner[f] = net_id_to_connect_[id]
       \/ \E t \in Threads : /\ pc[t] = "unroute" /\ nid[t] = id
                             /\ \E f \in Endpoints : /\ LooksLike(f, cur[t])
                                                     /\ Owner[f] = net_id_to_connect_[id]

\* A connection of a SocketConnect stays its connection as long as it is
\* registered: it is withdrawn, by its own key, before another one is dialled.
FreshInv ==
    \A c \in Connects : pc[c] \in {"getid", "register"} => cur[c] # None /\ conn[cur[c]] # "idle"
DialledInv ==
    ~raced => \A id \in Registered : \A e \in Endpoints :
       /\ net_id_to_endpoint_map_[id] = e
       /\ Owner[e] \in Connects /\ ~Confusable(e)
       => /\ Key(e) \in DOMAIN endpoint_to_net_id_map_ /\ endpoint_to_net_id_map_[Key(e)] = id
          /\ cur[Owner[e]] = e /\ pc[Owner[e]] \notin {"getid", "register"}
          /\ conn[e] = "idle" => pc[Owner[e]] = "disc"

SendInv == SockKeyInv /\ DialInv /\ CurInv /\ FreshInv /\ RouteInv /\ DialledInv

LEMMA ThreadKinds == /\ Accepts \subseteq Threads /\ Connects \subseteq Threads
                     /\ \A t \in Accepts : t \notin Connects
                     /\ \A e \in Endpoints : Owner[e] \in Threads
  BY SocketAssumption DEF Threads

LEMMA InitSendInv == Init => SendInv
<1> SUFFICES ASSUME Init PROVE SendInv
  OBVIOUS
<1>1. SockKeyInv
  BY DEF Init, SockKeyInv, Empty
<1>2. DialInv
  BY ThreadKinds DEF Init, DialInv
<1>3. RouteInv /\ DialledInv
  BY DEF Init, RouteInv, DialledInv, Registered, Empty
<1>4. CurInv /\ FreshInv
  BY ThreadKinds DEF Init, CurInv, FreshInv
<1> QED BY <1>1, <1>2, <1>3, <1>4 DEF SendInv

LEMMA CurNext == TypeInv /\ CurInv /\ [Next]_vars => CurInv'
<1> SUFFICES ASSUME TypeInv, CurInv, [Next]_vars,
                    NEW u \in Threads, cur'[u] # None
             PROVE  Owner[cur'[u]] = u
  BY DEF CurInv
<1> USE DEF TypeInv, TypeOK, ThreadType, CurInv
<1>1. ASSUME NEW t \in Threads, SocketStep(t) PROVE Owner[cur'[u]] = u
  <2>1. ASSUME NEW e \in Endpoints, OnRecv(t, e) \/ HangUp(t, e) PROVE Owner[cur'[u]] = u
    BY <2>1 DEF OnRecv, HangUp, Serves
  <2>2. ASSUME EnqueueTask(t) \/ HandlersReturn(t) PROVE Owner[cur'[u]] = u
    BY <2>2 DEF EnqueueTask, HandlersReturn, Resume
  <2>3. ASSUME \/ SocketFails(t) \/ Leave(t) \/ GetFreeNetID(t) \/ CallHandlers(t)
               \/ NothingMoreToRead(t) \/ AllocTask(t)
        PROVE  Owner[cur'[u]] = u
    BY <2>3 DEF SocketFails, Leave, GetFreeNetID, CallHandlers, NothingMoreToRead, AllocTask,
                threadVars
  <2>4. ASSUME OnDisconnect(t) \/ EraseRoute(t) \/ BeginPush(t) \/ EndPush(t)
        PROVE  Owner[cur'[u]] = u
    BY <2>4 DEF OnDisconnect, EraseRoute, BeginPush, EndPush
  <2> QED BY <1>1, <2>1, <2>2, <2>3, <2>4 DEF SocketStep
<1>2. ASSUME NEW a \in Accepts, AcceptStep(a) PROVE Owner[cur'[u]] = u
  BY <1>2, ThreadKinds
  DEF AcceptStep, ListenThread, OnAccept, TellOpen, Forget, AcceptConnection, Opens
<1>3. ASSUME NEW c \in Connects, ConnectStep(c) PROVE Owner[cur'[u]] = u
  BY <1>3, ThreadKinds
  DEF ConnectStep, ConnectThread, OnConnect, TellOpen, Arm, TestRunning, Dial, Opens
<1>4. ASSUME \/ SyncRunning \/ HandleNetTask \/ NetTaskHandled \/ TaskFreed
             \/ \E t \in Threads : AllocTask(t)
             \/ \E e \in Endpoints : PeerCloses(e)
             \/ \E v \in Users : UserStep(v)
             \/ UNCHANGED vars
      PROVE  Owner[cur'[u]] = u
  BY <1>4
  DEF SyncRunning, HandleNetTask, NetTaskHandled, TaskFreed, AllocTask, PeerCloses, UserStep, FindEndpoint, UseAccept,
      UseConnect, vars, threadVars
<1> QED BY <1>1, <1>2, <1>3, <1>4 DEF Next

LEMMA SockKeyNext == TypeInv /\ SockKeyInv /\ [Next]_vars => SockKeyInv'
<1> SUFFICES ASSUME TypeInv, SockKeyInv, [Next]_vars PROVE SockKeyInv'
  OBVIOUS
<1>1. UNCHANGED endpoint_sock_map_ => SockKeyInv'
  BY DEF SockKeyInv, Key, KeyAt
<1>2. ASSUME NEW t \in Threads, Leave(t) PROVE SockKeyInv'
  BY <1>2 DEF Leave, SockKeyInv, Empty, Key, KeyAt
<1>3. ASSUME NEW a \in Accepts, NEW e \in Endpoints, AcceptConnection(a, e) PROVE SockKeyInv'
  <2>1. endpoint_sock_map_' = [endpoint_sock_map_ EXCEPT ![a] = Put(@, Key(e), e)]
    BY <1>3 DEF AcceptConnection
  <2>2. \A b \in Accepts \ {a} : endpoint_sock_map_'[b] = endpoint_sock_map_[b]
    BY <2>1 DEF TypeInv, TypeOK, SockType
  <2>3. endpoint_sock_map_'[a] = Put(endpoint_sock_map_[a], Key(e), e)
    BY <2>1 DEF TypeInv, TypeOK, SockType
  <2>4. \A k \in DOMAIN endpoint_sock_map_'[a] : Key(endpoint_sock_map_'[a][k]) = k
    BY <2>3 DEF Put, SockKeyInv
  <2> QED BY <2>2, <2>4 DEF SockKeyInv, Key, KeyAt
<1>4. ASSUME NEW a \in Accepts, Forget(a) PROVE SockKeyInv'
  <2>1. endpoint_sock_map_' = [endpoint_sock_map_ EXCEPT ![a] = Erase(@, Key(cur[a]))]
    BY <1>4 DEF Forget
  <2>2. \A b \in Accepts \ {a} : endpoint_sock_map_'[b] = endpoint_sock_map_[b]
    BY <2>1 DEF TypeInv, TypeOK, SockType
  <2>3. endpoint_sock_map_'[a] = Erase(endpoint_sock_map_[a], Key(cur[a]))
    BY <2>1 DEF TypeInv, TypeOK, SockType
  <2>4. \A k \in DOMAIN endpoint_sock_map_'[a] : Key(endpoint_sock_map_'[a][k]) = k
    BY <2>3 DEF Erase, SockKeyInv
  <2> QED BY <2>2, <2>4 DEF SockKeyInv, Key, KeyAt
<1>5. ASSUME NEW t \in Threads,
             \/ SocketFails(t) \/ GetFreeNetID(t) \/ EnqueueTask(t) \/ CallHandlers(t)
             \/ HandlersReturn(t) \/ NothingMoreToRead(t) \/ OnDisconnect(t) \/ EraseRoute(t)
             \/ BeginPush(t) \/ EndPush(t) \/ \E e \in Endpoints : OnRecv(t, e) \/ HangUp(t, e)
      PROVE  UNCHANGED endpoint_sock_map_
  BY <1>5 DEF SocketFails, GetFreeNetID, EnqueueTask, CallHandlers, HandlersReturn, NothingMoreToRead,
              OnDisconnect, EraseRoute, BeginPush, EndPush, OnRecv, HangUp, sockVars
<1>6. ASSUME \/ \E a \in Accepts : ListenThread(a) \/ OnAccept(a)
             \/ \E c \in Connects : \/ ConnectThread(c) \/ OnConnect(c) \/ Arm(c) \/ TestRunning(c)
                                    \/ \E e \in Endpoints : Dial(c, e)
      PROVE  UNCHANGED endpoint_sock_map_
  BY <1>6 DEF ListenThread, OnAccept, ConnectThread, OnConnect, Arm, TestRunning, Dial, TellOpen, sockVars
<1>7. ASSUME \/ SyncRunning \/ HandleNetTask \/ NetTaskHandled \/ TaskFreed \/ UNCHANGED vars
             \/ \E t \in Threads : AllocTask(t)
             \/ \E e \in Endpoints : PeerCloses(e)
             \/ \E u \in Users : UserStep(u)
      PROVE  UNCHANGED endpoint_sock_map_
  BY <1>7 DEF SyncRunning, HandleNetTask, NetTaskHandled, TaskFreed, AllocTask, PeerCloses, UserStep, FindEndpoint, UseAccept,
              UseConnect, sockVars, vars
<1> QED BY <1>1, <1>2, <1>3, <1>4, <1>5, <1>6, <1>7 DEF Next, SocketStep, AcceptStep, ConnectStep

LEMMA DialFrame ==
    ASSUME DialInv,
           \A c \in Connects : cur'[c] = cur[c] /\ (pc'[c] \in {"off", "dial"} => pc[c] \in {"off", "dial"}),
           \A e \in Endpoints : Owner[e] \in Connects /\ conn'[e] \in {"up", "fin"} => conn[e] \in {"up", "fin"}
    PROVE  DialInv'
  BY DEF DialInv

LEMMA DialNext == TypeInv /\ DialInv /\ [Next]_vars => DialInv'
<1> SUFFICES ASSUME TypeInv, DialInv, [Next]_vars PROVE DialInv'
  OBVIOUS
<1> DEFINE Quiet ==
       /\ \A c \in Connects : cur'[c] = cur[c] /\ (pc'[c] \in {"off", "dial"} => pc[c] \in {"off", "dial"})
       /\ \A e \in Endpoints : Owner[e] \in Connects /\ conn'[e] \in {"up", "fin"} => conn[e] \in {"up", "fin"}
<1>1. Quiet => DialInv'
  BY DialFrame
<1>2. ASSUME NEW t \in Threads, Leave(t) PROVE DialInv'
  <2>1. /\ cur'[t] = None /\ \A u \in Threads \ {t} : cur'[u] = cur[u] /\ pc'[u] = pc[u]
    BY <1>2 DEF Leave, Going, Goto, TypeInv, TypeOK, ThreadType
  <2>2. \A e \in Endpoints : conn'[e] \in {"up", "fin"} => Owner[e] # t /\ conn[e] \in {"up", "fin"}
    BY <1>2 DEF Leave
  <2> QED BY <2>1, <2>2, ThreadKinds DEF DialInv
<1>3. ASSUME NEW c \in Connects, NEW e \in Endpoints, Dial(c, e) PROVE DialInv'
  <2>1. /\ pc[c] = "dial" /\ Owner[e] = c /\ cur'[c] = e /\ pc'[c] = "getid"
        /\ \A u \in Threads \ {c} : cur'[u] = cur[u] /\ pc'[u] = pc[u]
        /\ \A f \in Endpoints \ {e} : conn'[f] = conn[f]
    BY <1>3, ThreadKinds DEF Dial, Opens, Goto, TypeInv, TypeOK, ThreadType, SockType
  <2>2. \A f \in Endpoints : Owner[f] = c => conn[f] \notin {"up", "fin"}
    BY <2>1, NoneAssumption DEF DialInv
  <2> QED BY <2>1, <2>2, ThreadKinds DEF DialInv
<1>4. ASSUME NEW t \in Threads,
             \/ SocketFails(t) \/ GetFreeNetID(t) \/ CallHandlers(t) \/ NothingMoreToRead(t)
             \/ OnDisconnect(t) \/ EraseRoute(t) \/ BeginPush(t) \/ EndPush(t)
      PROVE  Quiet
  BY <1>4, ThreadKinds
  DEF SocketFails, GetFreeNetID, CallHandlers, NothingMoreToRead, OnDisconnect, EraseRoute, BeginPush,
      EndPush, AfterDisconnect, Going, Goto, sockVars, TypeInv, TypeOK, ThreadType
<1>5. ASSUME NEW t \in Threads, EnqueueTask(t) \/ HandlersReturn(t) PROVE Quiet
  BY <1>5, ThreadKinds
  DEF EnqueueTask, HandlersReturn, Resume, AfterTell, Going, Goto, sockVars, TypeInv, TypeOK, ThreadType,
      Kinds, LocalsOK
<1>6. ASSUME NEW t \in Threads, NEW e \in Endpoints, OnRecv(t, e) \/ HangUp(t, e) PROVE Quiet
  <2>1. /\ \A u \in Threads \ {t} : cur'[u] = cur[u] /\ pc'[u] = pc[u]
        /\ pc'[t] \in {"tell", "drain", "disc"} /\ cur'[t] = e /\ (t \in Connects => e = cur[t])
    BY <1>6 DEF OnRecv, HangUp, Serves, Going, Goto, TypeInv, TypeOK, ThreadType
  <2>2. \A f \in Endpoints : conn'[f] \in {"up", "fin"} => conn[f] \in {"up", "fin"}
    BY <1>6 DEF OnRecv, HangUp, TypeInv, TypeOK, SockType
  <2> QED BY <2>1, <2>2, ThreadKinds
<1>7. ASSUME NEW a \in Accepts, \/ ListenThread(a) \/ OnAccept(a) \/ Forget(a)
                                \/ \E e \in Endpoints : AcceptConnection(a, e)
      PROVE  Quiet
  <2>1. \A c \in Connects : cur'[c] = cur[c] /\ pc'[c] = pc[c]
    BY <1>7, ThreadKinds
    DEF ListenThread, OnAccept, TellOpen, Forget, AcceptConnection, Opens, Going, Goto, TypeInv, TypeOK, ThreadType
  <2>2. \A f \in Endpoints : Owner[f] \in Connects => conn'[f] = conn[f]
    BY <1>7, ThreadKinds
    DEF ListenThread, OnAccept, TellOpen, Forget, AcceptConnection, Opens, sockVars, TypeInv, TypeOK, SockType
  <2> QED BY <2>1, <2>2
<1>8. ASSUME NEW c \in Connects, ConnectThread(c) \/ OnConnect(c) \/ Arm(c) \/ TestRunning(c) PROVE Quiet
  BY <1>8, ThreadKinds
  DEF ConnectThread, OnConnect, TellOpen, Arm, TestRunning, Going, Goto, sockVars, TypeInv, TypeOK, ThreadType
<1>9. ASSUME \/ SyncRunning \/ HandleNetTask \/ NetTaskHandled \/ TaskFreed \/ UNCHANGED vars
             \/ \E t \in Threads : AllocTask(t)
             \/ \E e \in Endpoints : PeerCloses(e)
             \/ \E u \in Users : UserStep(u)
      PROVE  Quiet
  BY <1>9
  DEF SyncRunning, HandleNetTask, NetTaskHandled, TaskFreed, AllocTask, PeerCloses, UserStep, FindEndpoint, UseAccept, UseConnect,
      sockVars, threadVars, vars, TypeInv, TypeOK, SockType
<1> HIDE DEF Quiet
<1> QED BY <1>1, <1>2, <1>3, <1>4, <1>5, <1>6, <1>7, <1>8, <1>9 DEF Next, SocketStep, AcceptStep, ConnectStep

LEMMA RouteFrame ==
    ASSUME RouteInv, UNCHANGED regVars, UNCHANGED net_id_to_connect_, ~raced' => ~raced,
           \A t \in Threads : pc[t] = "unroute" =>
              pc'[t] = "unroute" /\ nid'[t] = nid[t] /\ cur'[t] = cur[t]
    PROVE  RouteInv'
  BY DEF RouteInv, Registered, regVars, LooksLike

\* The id that a thread registers has no route from an earlier use.
LEMMA NewIdHasNoRoute ==
    ASSUME IdInv, RouteInv, ~raced, NEW t \in Threads, pc[t] = "register"
    PROVE  nid[t] \notin Registered /\ nid[t] \notin DOMAIN net_id_to_connect_
<1>1. Holding(t) /\ HeldOK
  BY DEF Holding, IdInv
<1>2. \A u \in Threads : pc[u] = "unroute" => u # t /\ Holding(u)
  BY DEF Holding
<1>3. \A u \in Threads : pc[u] = "unroute" => nid[u] # nid[t]
  BY <1>1, <1>2 DEF HeldOK
<1> QED BY <1>1, <1>3 DEF HeldOK, RouteInv

\* Registering keeps the routes of the other ids.
LEMMA RouteRegister ==
    ASSUME TypeInv, IdInv, RouteInv, ~raced, NEW t \in Threads, NEW matches, TellOpen(t), Register(t, matches)
    PROVE  /\ nid[t] \notin DOMAIN net_id_to_connect_
           /\ \A id \in DOMAIN net_id_to_connect_ :
                \/ /\ id \in Registered'
                   /\ \E f \in Endpoints : /\ LooksLike(f, net_id_to_endpoint_map_'[id])
                                           /\ Owner[f] = net_id_to_connect_[id]
                \/ \E u \in Threads : /\ pc'[u] = "unroute" /\ nid'[u] = id
                                      /\ \E f \in Endpoints : /\ LooksLike(f, cur'[u])
                                                              /\ Owner[f] = net_id_to_connect_[id]
           /\ matches # {} => nid[t] \in Registered' /\ net_id_to_endpoint_map_'[nid[t]] = cur[t]
<1>1. /\ pc[t] = "register" /\ UNCHANGED <<nid, cur, raced>>
      /\ \A u \in Threads \ {t} : pc'[u] = pc[u]
  BY DEF TellOpen, Going, Goto, idVars, TypeInv, TypeOK, ThreadType
<1>2. nid[t] \notin Registered /\ nid[t] \notin DOMAIN net_id_to_connect_
  BY <1>1, NewIdHasNoRoute
<1>3. \A id \in Registered : id \in Registered' /\ net_id_to_endpoint_map_'[id] = net_id_to_endpoint_map_[id]
  BY <1>2 DEF Register, Registered, Put, regVars
<1>4. matches # {} => nid[t] \in Registered' /\ net_id_to_endpoint_map_'[nid[t]] = cur[t]
  BY DEF Register, Registered, Put
<1>5. \A u \in Threads : pc[u] = "unroute" => pc'[u] = "unroute"
  BY <1>1
<1> QED BY <1>1, <1>2, <1>3, <1>4, <1>5 DEF RouteInv

LEMMA RouteNext == TypeInv /\ IdInv /\ DialInv /\ RouteInv /\ [Next]_vars => RouteInv'
<1> SUFFICES ASSUME TypeInv, IdInv, DialInv, RouteInv, [Next]_vars PROVE RouteInv'
  OBVIOUS
<1> DEFINE Quiet == /\ UNCHANGED regVars /\ UNCHANGED net_id_to_connect_ /\ (~raced' => ~raced)
                    /\ \A t \in Threads : pc[t] = "unroute" =>
                          pc'[t] = "unroute" /\ nid'[t] = nid[t] /\ cur'[t] = cur[t]
<1>1. Quiet => RouteInv'
  BY RouteFrame
<1>2. ASSUME NEW a \in Accepts, OnAccept(a) PROVE RouteInv'
  <2> SUFFICES ASSUME ~raced PROVE RouteInv'
    BY <1>2 DEF OnAccept, TellOpen, idVars, RouteInv
  <2>1. a \in Threads /\ TellOpen(a) /\ Register(a, AcceptsPeer(cur[a])) /\ UNCHANGED net_id_to_connect_
    BY <1>2, ThreadKinds DEF OnAccept
  <2> QED BY <2>1, RouteRegister DEF RouteInv, LooksLike
<1>3. ASSUME NEW c \in Connects, OnConnect(c) PROVE RouteInv'
  <2> SUFFICES ASSUME ~raced PROVE RouteInv'
    BY <1>3 DEF OnConnect, TellOpen, idVars, RouteInv
  <2> DEFINE M == ConnectsPeer(cur[c])
             n2c == net_id_to_connect_
  <2>1. c \in Threads /\ TellOpen(c) /\ Register(c, M)
    BY <1>3, ThreadKinds DEF OnConnect
  <2>2. /\ nid[c] \notin DOMAIN n2c
        /\ \A id \in DOMAIN n2c :
             \/ /\ id \in Registered'
                /\ \E f \in Endpoints : /\ LooksLike(f, net_id_to_endpoint_map_'[id])
                                        /\ Owner[f] = n2c[id]
             \/ \E u \in Threads : /\ pc'[u] = "unroute" /\ nid'[u] = id
                                   /\ \E f \in Endpoints : /\ LooksLike(f, cur'[u])
                                                           /\ Owner[f] = n2c[id]
        /\ M # {} => nid[c] \in Registered' /\ net_id_to_endpoint_map_'[nid[c]] = cur[c]
    BY <2>1, RouteRegister
  <2>3. CASE M = {}
    <3>1. UNCHANGED n2c
      BY <1>3, <2>3 DEF OnConnect
    <3> QED BY <2>2, <3>1 DEF RouteInv, LooksLike
  <2>4. CASE M # {}
    <3>1. PICK s \in M : n2c' = Put(n2c, nid[c], s)
      BY <1>3, <2>4 DEF OnConnect, Highest
    <3>2. s \in Connects /\ cur[s] # None /\ Ip[cur[s]] = Ip[cur[c]] /\ RPort[cur[s]] = RPort[cur[c]]
      BY <3>1 DEF ConnectsPeer, TypeInv, TypeOK, SockType
    <3>3. cur[s] \in Endpoints /\ Owner[cur[s]] = s /\ LooksLike(cur[s], cur[c])
      BY <3>2, ThreadKinds DEF DialInv, TypeInv, TypeOK, ThreadType, LooksLike
    <3> HIDE DEF M, n2c
    <3>4. /\ \A id \in DOMAIN n2c' : id = nid[c] \/ (id \in DOMAIN n2c /\ n2c'[id] = n2c[id])
          /\ n2c'[nid[c]] = s
      BY <2>2, <3>1 DEF Put
    <3>5. \A id \in DOMAIN n2c' :
             \/ /\ id \in Registered'
                /\ \E f \in Endpoints : /\ LooksLike(f, net_id_to_endpoint_map_'[id])
                                        /\ Owner[f] = n2c'[id]
             \/ \E u \in Threads : /\ pc'[u] = "unroute" /\ nid'[u] = id
                                   /\ \E f \in Endpoints : /\ LooksLike(f, cur'[u])
                                                           /\ Owner[f] = n2c'[id]
      BY <2>2, <2>4, <3>3, <3>4
    <3> QED BY <3>5 DEF RouteInv, n2c, LooksLike
  <2> QED BY <2>3, <2>4
<1>4. ASSUME NEW t \in Threads, OnDisconnect(t) PROVE RouteInv'
  <2> DEFINE k == Key(cur[t])
             i0 == endpoint_to_net_id_map_[k]
  <2>1. CASE k \notin DOMAIN endpoint_to_net_id_map_
    <3>1. Quiet
      BY <1>4, <2>1 DEF OnDisconnect, Goto, regVars, routeVars, idVars, TypeInv, TypeOK, ThreadType
    <3> QED BY <1>1, <3>1
  <2>2. CASE k \in DOMAIN endpoint_to_net_id_map_
    <3>1. /\ pc[t] = "disc" /\ nid' = [nid EXCEPT ![t] = i0] /\ pc' = [pc EXCEPT ![t] = "unroute"]
          /\ net_id_to_endpoint_map_' = Erase(net_id_to_endpoint_map_, i0)
          /\ UNCHANGED <<net_id_to_connect_, cur, raced>>
      BY <1>4, <2>2 DEF OnDisconnect, Goto, routeVars, idVars
    <3>8. ~raced => i0 \in Registered /\ Key(net_id_to_endpoint_map_[i0]) = k
      BY <2>2 DEF IdInv, RegOK
    <3>9. ~raced => LooksLike(net_id_to_endpoint_map_[i0], cur[t])
      BY <3>8 DEF Key, KeyAt, LooksLike
    <3>2. /\ pc'[t] = "unroute" /\ nid'[t] = i0
          /\ \A u \in Threads : pc[u] = "unroute" => pc'[u] = "unroute" /\ nid'[u] = nid[u]
      BY <3>1 DEF TypeInv, TypeOK, ThreadType
    <3> HIDE DEF i0, k
    <3>3. \A id \in Registered : id # i0 =>
             id \in Registered' /\ net_id_to_endpoint_map_'[id] = net_id_to_endpoint_map_[id]
      BY <3>1 DEF Erase, Registered
    <3> QED BY <3>1, <3>2, <3>3, <3>9 DEF RouteInv, LooksLike
  <2> QED BY <2>1, <2>2
<1>5. ASSUME NEW t \in Threads, EraseRoute(t) PROVE RouteInv'
  <2>1. /\ net_id_to_connect_' = Erase(net_id_to_connect_, nid[t])
        /\ UNCHANGED <<regVars, nid, cur, raced>>
        /\ \A u \in Threads \ {t} : pc'[u] = pc[u]
    BY <1>5 DEF EraseRoute, Going, Goto, idVars, TypeInv, TypeOK, ThreadType
  <2>2. \A id \in DOMAIN net_id_to_connect_' :
           id # nid[t] /\ id \in DOMAIN net_id_to_connect_ /\ net_id_to_connect_'[id] = net_id_to_connect_[id]
    BY <2>1 DEF Erase
  <2>3. Registered' = Registered /\ UNCHANGED net_id_to_endpoint_map_
    BY <2>1 DEF regVars, Registered
  <2> QED BY <2>1, <2>2, <2>3 DEF RouteInv, LooksLike
<1>6. ASSUME NEW t \in Threads, SocketFails(t) \/ Leave(t) \/ NothingMoreToRead(t) PROVE Quiet
  BY <1>6 DEF SocketFails, Leave, NothingMoreToRead, Going, Goto, routeVars, idVars, TypeInv, TypeOK, ThreadType
<1>7. ASSUME NEW t \in Threads, EnqueueTask(t) \/ HandlersReturn(t) \/ CallHandlers(t) PROVE Quiet
  BY <1>7 DEF EnqueueTask, HandlersReturn, CallHandlers, Resume, Going, Goto, routeVars, idVars, TypeInv,
              TypeOK, ThreadType
<1>8. ASSUME NEW t \in Threads, GetFreeNetID(t) \/ BeginPush(t) \/ EndPush(t) PROVE Quiet
  <2>1. ~raced' => ~raced
    BY <1>8, Zenon DEF GetFreeNetID, BeginPush, EndPush
  <2> QED BY <1>8, <2>1 DEF GetFreeNetID, BeginPush, EndPush, Going, Goto, routeVars, TypeInv, TypeOK, ThreadType
<1>9. ASSUME NEW t \in Threads, NEW e \in Endpoints, OnRecv(t, e) \/ HangUp(t, e) PROVE Quiet
  BY <1>9 DEF OnRecv, HangUp, Going, Goto, routeVars, idVars, TypeInv, TypeOK, ThreadType
<1>10. ASSUME NEW a \in Accepts, \/ ListenThread(a) \/ Forget(a)
                                 \/ \E e \in Endpoints : AcceptConnection(a, e)
       PROVE  Quiet
  BY <1>10, ThreadKinds DEF ListenThread, Forget, AcceptConnection, Opens, Going, Goto, routeVars, idVars,
                            TypeInv, TypeOK, ThreadType
<1>11. ASSUME NEW c \in Connects, \/ ConnectThread(c) \/ Arm(c) \/ TestRunning(c)
                                  \/ \E e \in Endpoints : Dial(c, e)
       PROVE  Quiet
  BY <1>11, ThreadKinds DEF ConnectThread, Arm, TestRunning, Dial, Opens, Going, Goto, routeVars, idVars,
                            TypeInv, TypeOK, ThreadType
<1>12. ASSUME \/ SyncRunning \/ HandleNetTask \/ NetTaskHandled \/ TaskFreed \/ UNCHANGED vars
              \/ \E t \in Threads : AllocTask(t)
              \/ \E e \in Endpoints : PeerCloses(e)
              \/ \E u \in Users : UserStep(u)
       PROVE  Quiet
  BY <1>12
  DEF SyncRunning, HandleNetTask, NetTaskHandled, TaskFreed, AllocTask, PeerCloses, UserStep, FindEndpoint, UseAccept, UseConnect,
      routeVars, idVars, threadVars, vars
<1> HIDE DEF Quiet
<1> QED BY <1>1, <1>2, <1>3, <1>4, <1>5, <1>6, <1>7, <1>8, <1>9, <1>10, <1>11, <1>12
        DEF Next, SocketStep, AcceptStep, ConnectStep

\* What the other threads do to a connection of a SocketConnect.
ConnQuiet ==
    \A e \in Endpoints : Owner[e] \in Connects =>
       /\ conn[e] \in {"cut", "dead"} => conn'[e] \in {"cut", "dead"}
       /\ conn'[e] = "idle" => conn[e] = "idle"
ThreadQuiet ==
    \A c \in Connects :
       /\ cur'[c] = cur[c]
       /\ pc'[c] \in {"getid", "register"} => pc[c] \in {"getid", "register"}
DialQuiet ==
    /\ ConnQuiet /\ ThreadQuiet
    /\ \A c \in Connects : pc[c] = "disc" => pc'[c] = "disc"
    /\ UNCHANGED regVars /\ (~raced' => ~raced)

LEMMA FreshFrame == TypeInv /\ CurInv /\ FreshInv /\ ConnQuiet /\ ThreadQuiet => FreshInv'
<1> SUFFICES ASSUME TypeInv, CurInv, FreshInv, ConnQuiet, ThreadQuiet, NEW c \in Connects,
                    pc'[c] \in {"getid", "register"}
             PROVE  cur'[c] # None /\ conn'[cur'[c]] # "idle"
  BY DEF FreshInv
<1>1. pc[c] \in {"getid", "register"} /\ cur'[c] = cur[c]
  BY DEF ThreadQuiet
<1>2. cur[c] # None /\ cur[c] \in Endpoints /\ conn[cur[c]] # "idle" /\ Owner[cur[c]] = c
  BY <1>1, ThreadKinds DEF FreshInv, CurInv, TypeInv, TypeOK, ThreadType
<1> QED BY <1>1, <1>2 DEF ConnQuiet

LEMMA DialledFrame == DialledInv /\ DialQuiet => DialledInv'
<1> SUFFICES ASSUME DialledInv, DialQuiet, ~raced', NEW id \in Registered', NEW e \in Endpoints,
                    net_id_to_endpoint_map_'[id] = e, Owner[e] \in Connects, ~Confusable(e)'
             PROVE  /\ Key(e) \in DOMAIN endpoint_to_net_id_map_'
                    /\ endpoint_to_net_id_map_'[Key(e)] = id
                    /\ cur'[Owner[e]] = e /\ pc'[Owner[e]] \notin {"getid", "register"}
                    /\ conn'[e] = "idle" => pc'[Owner[e]] = "disc"
  BY DEF DialledInv, Key, KeyAt
<1>1. ~raced /\ UNCHANGED <<net_id_to_endpoint_map_, endpoint_to_net_id_map_>>
  BY DEF DialQuiet, regVars
<1>2. id \in Registered /\ net_id_to_endpoint_map_[id] = e
  BY <1>1 DEF Registered
<1>3. ~Confusable(e)
  BY DEF DialQuiet, ConnQuiet, Confusable, LooksLike
<1>4. /\ Key(e) \in DOMAIN endpoint_to_net_id_map_ /\ endpoint_to_net_id_map_[Key(e)] = id
      /\ cur[Owner[e]] = e /\ pc[Owner[e]] \notin {"getid", "register"}
      /\ conn[e] = "idle" => pc[Owner[e]] = "disc"
  BY <1>1, <1>2, <1>3 DEF DialledInv
<1> QED BY <1>1, <1>4 DEF DialQuiet, ConnQuiet, ThreadQuiet

LEMMA DialSteps ==
    ASSUME TypeInv, [Next]_vars
    PROVE  \/ DialQuiet
           \/ \E c \in Connects : \/ Leave(c) \/ OnConnect(c)
                                  \/ \E e \in Endpoints : Dial(c, e) \/ HangUp(c, e)
           \/ \E a \in Accepts : OnAccept(a)
           \/ \E t \in Threads : OnDisconnect(t)
<1> USE DEF TypeInv, TypeOK, ThreadType, SockType
<1>1. ASSUME NEW t \in Threads, SocketFails(t) \/ NothingMoreToRead(t) \/ EraseRoute(t) \/ CallHandlers(t)
      PROVE  DialQuiet
  BY <1>1, ThreadKinds
  DEF SocketFails, NothingMoreToRead, EraseRoute, CallHandlers, Going, Goto, idVars, sockVars,
      DialQuiet, ConnQuiet, ThreadQuiet
<1>2. ASSUME NEW t \in Threads, GetFreeNetID(t) \/ BeginPush(t) \/ EndPush(t) PROVE DialQuiet
  <2>1. ~raced' => ~raced
    BY <1>2, Zenon DEF GetFreeNetID, BeginPush, EndPush
  <2> QED BY <1>2, <2>1, ThreadKinds
          DEF GetFreeNetID, BeginPush, EndPush, AfterDisconnect, Going, Goto, sockVars,
              DialQuiet, ConnQuiet, ThreadQuiet
<1>3. ASSUME NEW t \in Threads, EnqueueTask(t) \/ HandlersReturn(t) PROVE DialQuiet
  BY <1>3, ThreadKinds
  DEF EnqueueTask, HandlersReturn, Resume, AfterTell, Going, Goto, idVars, sockVars, Kinds, LocalsOK,
      DialQuiet, ConnQuiet, ThreadQuiet
<1>4. ASSUME NEW t \in Threads, NEW e \in Endpoints, OnRecv(t, e) PROVE DialQuiet
  <2>1. /\ \A u \in Threads \ {t} : cur'[u] = cur[u] /\ pc'[u] = pc[u]
        /\ pc[t] # "disc" /\ pc'[t] \in {"tell", "drain"} /\ (t \in Connects => cur'[t] = cur[t])
    BY <1>4 DEF OnRecv, Serves, Goto
  <2>2. ConnQuiet
    BY <1>4 DEF OnRecv, ConnQuiet
  <2>3. UNCHANGED <<regVars, raced>>
    BY <1>4 DEF OnRecv, idVars
  <2> QED BY <2>1, <2>2, <2>3, ThreadKinds DEF DialQuiet, ThreadQuiet
<1>5. ASSUME NEW a \in Accepts, Leave(a) \/ \E e \in Endpoints : HangUp(a, e) PROVE DialQuiet
  <2>1. /\ \A u \in Threads \ {a} : cur'[u] = cur[u] /\ pc'[u] = pc[u]
        /\ UNCHANGED <<regVars, raced>>
    BY <1>5 DEF Leave, HangUp, Going, Goto, idVars
  <2>2. \A e \in Endpoints : Owner[e] # a => conn'[e] = conn[e]
    BY <1>5 DEF Leave, HangUp, Serves
  <2> QED BY <2>1, <2>2, ThreadKinds DEF DialQuiet, ConnQuiet, ThreadQuiet
<1>6. ASSUME NEW a \in Accepts, \/ ListenThread(a) \/ Forget(a)
                                \/ \E e \in Endpoints : AcceptConnection(a, e)
      PROVE  DialQuiet
  <2>1. \A u \in Threads \ {a} : cur'[u] = cur[u] /\ pc'[u] = pc[u]
    BY <1>6 DEF ListenThread, Forget, AcceptConnection, Opens, Going, Goto
  <2>2. UNCHANGED <<regVars, raced>>
    BY <1>6 DEF ListenThread, Forget, AcceptConnection, idVars
  <2>3. \A e \in Endpoints : Owner[e] # a => conn'[e] = conn[e]
    BY <1>6 DEF ListenThread, Forget, AcceptConnection, Opens
  <2> QED BY <2>1, <2>2, <2>3, ThreadKinds DEF DialQuiet, ConnQuiet, ThreadQuiet
<1>7. ASSUME NEW c \in Connects, ConnectThread(c) \/ Arm(c) \/ TestRunning(c) PROVE DialQuiet
  BY <1>7, ThreadKinds
  DEF ConnectThread, Arm, TestRunning, Going, Goto, idVars, sockVars, DialQuiet, ConnQuiet, ThreadQuiet
<1>8. ASSUME \/ SyncRunning \/ HandleNetTask \/ NetTaskHandled \/ TaskFreed
             \/ \E t \in Threads : AllocTask(t)
             \/ UNCHANGED vars
      PROVE  DialQuiet
  BY <1>8
  DEF SyncRunning, HandleNetTask, NetTaskHandled, TaskFreed, AllocTask, idVars, sockVars, threadVars, vars,
      DialQuiet, ConnQuiet, ThreadQuiet
<1>9. ASSUME \/ \E e \in Endpoints : PeerCloses(e)
             \/ \E u \in Users : UserStep(u)
      PROVE  DialQuiet
  BY <1>9
  DEF PeerCloses, UserStep, FindEndpoint, UseAccept, UseConnect, idVars, sockVars, threadVars,
      DialQuiet, ConnQuiet, ThreadQuiet
<1>10. ASSUME NEW t \in Threads, Leave(t) \/ \E e \in Endpoints : HangUp(t, e)
       PROVE  \/ DialQuiet
              \/ t \in Connects
  BY <1>5, <1>10 DEF Threads
<1> QED BY <1>1, <1>2, <1>3, <1>4, <1>6, <1>7, <1>8, <1>9, <1>10
        DEF Next, SocketStep, AcceptStep, ConnectStep

LEMMA FreshNext == TypeInv /\ CurInv /\ FreshInv /\ [Next]_vars => FreshInv'
<1> SUFFICES ASSUME TypeInv, CurInv, FreshInv, [Next]_vars PROVE FreshInv'
  OBVIOUS
<1> USE DEF TypeInv, TypeOK, ThreadType, SockType
<1>1. ASSUME ConnQuiet, ThreadQuiet PROVE FreshInv'
  BY <1>1, FreshFrame
<1>2. ASSUME NEW t \in Threads, OnDisconnect(t) PROVE FreshInv'
  <2>1. UNCHANGED <<conn, cur>> /\ \A c \in Connects : pc'[c] \in {pc[c], "unroute", "forget", "leave"}
    BY <1>2, ThreadKinds DEF OnDisconnect, AfterDisconnect, Goto, sockVars
  <2>2. ConnQuiet /\ ThreadQuiet
    BY <2>1 DEF ConnQuiet, ThreadQuiet
  <2> QED BY <1>1, <2>2
<1>3. ASSUME NEW t \in Threads, TellOpen(t) PROVE FreshInv'
  <2>1. ConnQuiet /\ ThreadQuiet
    BY <1>3 DEF TellOpen, Going, Goto, sockVars, ConnQuiet, ThreadQuiet
  <2> QED BY <1>1, <2>1
<1>4. ASSUME NEW c \in Connects, NEW e \in Endpoints, Dial(c, e) PROVE FreshInv'
  <2>1. /\ cur'[c] = e /\ conn'[e] = "up" /\ Owner[e] = c
        /\ \A u \in Threads \ {c} : cur'[u] = cur[u] /\ pc'[u] = pc[u]
        /\ \A f \in Endpoints \ {e} : conn'[f] = conn[f]
    BY <1>4, ThreadKinds DEF Dial, Opens, Goto
  <2>2. \A d \in Connects \ {c} : pc[d] \in {"getid", "register"} =>
           cur[d] # None /\ cur[d] \in Endpoints /\ Owner[cur[d]] = d /\ conn[cur[d]] # "idle"
    BY ThreadKinds DEF FreshInv, CurInv
  <2> QED BY <2>1, <2>2, ThreadKinds, NoneAssumption DEF FreshInv
<1>5. ASSUME NEW c \in Connects, Leave(c) \/ \E e \in Endpoints : HangUp(c, e) PROVE FreshInv'
  <2>1. /\ pc'[c] \notin {"getid", "register"}
        /\ \A u \in Threads \ {c} : cur'[u] = cur[u] /\ pc'[u] = pc[u]
    BY <1>5, ThreadKinds DEF Leave, HangUp, Going, Goto
  <2>2. \A e \in Endpoints : Owner[e] # c => conn'[e] = conn[e]
    BY <1>5 DEF Leave, HangUp, Serves
  <2>3. \A d \in Connects \ {c} : pc[d] \in {"getid", "register"} =>
           cur[d] # None /\ cur[d] \in Endpoints /\ Owner[cur[d]] = d /\ conn[cur[d]] # "idle"
    BY ThreadKinds DEF FreshInv, CurInv
  <2> QED BY <2>1, <2>2, <2>3, ThreadKinds DEF FreshInv
<1> QED BY <1>1, <1>2, <1>3, <1>4, <1>5, DialSteps, ThreadKinds DEF DialQuiet, OnAccept, OnConnect

\* A newly registered connection of another key leaves the registered ones alone.
LEMMA DialledRegister ==
    ASSUME TypeInv, IdInv, CurInv, FreshInv, DialledInv, NEW t \in Threads, NEW matches,
           TellOpen(t), Register(t, matches)
    PROVE  DialledInv'
<1> SUFFICES ASSUME ~raced', NEW id \in Registered', NEW e \in Endpoints,
                    net_id_to_endpoint_map_'[id] = e, Owner[e] \in Connects, ~Confusable(e)'
             PROVE  /\ Key(e) \in DOMAIN endpoint_to_net_id_map_'
                    /\ endpoint_to_net_id_map_'[Key(e)] = id
                    /\ cur'[Owner[e]] = e /\ pc'[Owner[e]] \notin {"getid", "register"}
                    /\ conn'[e] = "idle" => pc'[Owner[e]] = "disc"
  BY DEF DialledInv, Key, KeyAt
<1>1. /\ pc[t] = "register" /\ pc'[t] = "tell" /\ UNCHANGED <<nid, cur, raced, conn>>
      /\ \A u \in Threads \ {t} : pc'[u] = pc[u]
  BY DEF TellOpen, Going, Goto, sockVars, idVars, TypeInv, TypeOK, ThreadType
<1>2. ~Confusable(e)
  BY <1>1 DEF Confusable, LooksLike
<1>3. cur[t] # None /\ Owner[cur[t]] = t /\ cur[t] \in Endpoints
  BY <1>1 DEF TypeInv, TypeOK, ThreadType, LocalsOK, CurInv
<1>4. Owner[e] \in Threads
  BY ThreadKinds
<1>5. CASE id \in Registered /\ net_id_to_endpoint_map_[id] = e
  <2>1. /\ Key(e) \in DOMAIN endpoint_to_net_id_map_ /\ endpoint_to_net_id_map_[Key(e)] = id
        /\ cur[Owner[e]] = e /\ pc[Owner[e]] \notin {"getid", "register"}
        /\ conn[e] = "idle" => pc[Owner[e]] = "disc"
    BY <1>1, <1>2, <1>5 DEF DialledInv
  <2>2. Owner[e] # t
    BY <1>1, <2>1
  <2>3. Key(cur[t]) # Key(e)
    <3> SUFFICES ASSUME Key(cur[t]) = Key(e) PROVE FALSE
      OBVIOUS
    <3>1. LooksLike(cur[t], e)
      BY DEF Key, KeyAt, LooksLike
    <3> QED BY <1>2, <1>3, <2>2, <3>1 DEF Confusable
  <2>4. /\ Key(e) \in DOMAIN endpoint_to_net_id_map_'
        /\ endpoint_to_net_id_map_'[Key(e)] = endpoint_to_net_id_map_[Key(e)]
    BY <2>1, <2>3 DEF Register, Put, regVars
  <2> QED BY <1>1, <1>4, <2>1, <2>2, <2>4
<1>6. CASE ~(id \in Registered /\ net_id_to_endpoint_map_[id] = e)
  <2>1. matches # {}
    BY <1>6 DEF Register, regVars, Registered
  <2>2. /\ net_id_to_endpoint_map_' = Put(net_id_to_endpoint_map_, nid[t], cur[t])
        /\ endpoint_to_net_id_map_' = Put(endpoint_to_net_id_map_, Key(cur[t]), nid[t])
    BY <2>1 DEF Register
  <2>3. id = nid[t] /\ e = cur[t]
    BY <1>6, <2>2 DEF Put, Registered
  <2>4. Key(e) \in DOMAIN endpoint_to_net_id_map_' /\ endpoint_to_net_id_map_'[Key(e)] = id
    BY <2>2, <2>3 DEF Put
  <2>5. conn[e] # "idle"
    BY <1>1, <1>3, <2>3 DEF FreshInv
  <2> QED BY <1>1, <1>3, <2>3, <2>4, <2>5
<1> QED BY <1>5, <1>6

LEMMA DialledNext ==
    TypeInv /\ IdInv /\ DialInv /\ CurInv /\ FreshInv /\ DialledInv /\ [Next]_vars => DialledInv'
<1> SUFFICES ASSUME TypeInv, IdInv, DialInv, CurInv, FreshInv, DialledInv, [Next]_vars
             PROVE  DialledInv'
  OBVIOUS
<1>1. ASSUME DialQuiet PROVE DialledInv'
  BY <1>1, DialledFrame
<1>2. ASSUME NEW a \in Accepts, OnAccept(a) PROVE DialledInv'
  BY <1>2, ThreadKinds, DialledRegister DEF OnAccept
<1>3. ASSUME NEW c \in Connects, OnConnect(c) PROVE DialledInv'
  BY <1>3, ThreadKinds, DialledRegister DEF OnConnect
<1>4. ASSUME NEW t \in Threads, \/ OnDisconnect(t)
                                \/ t \in Connects /\ \/ Leave(t)
                                                     \/ \E e \in Endpoints : Dial(t, e) \/ HangUp(t, e)
      PROVE  DialledInv'
  <2> SUFFICES ASSUME ~raced', NEW id \in Registered', NEW e \in Endpoints,
                      net_id_to_endpoint_map_'[id] = e, Owner[e] \in Connects, ~Confusable(e)'
               PROVE  /\ Key(e) \in DOMAIN endpoint_to_net_id_map_'
                      /\ endpoint_to_net_id_map_'[Key(e)] = id
                      /\ cur'[Owner[e]] = e /\ pc'[Owner[e]] \notin {"getid", "register"}
                      /\ conn'[e] = "idle" => pc'[Owner[e]] = "disc"
    BY DEF DialledInv, Key, KeyAt
  <2> USE DEF TypeInv, TypeOK, ThreadType, SockType
  <2>1. UNCHANGED raced /\ Owner[e] \in Threads
    BY <1>4, ThreadKinds DEF OnDisconnect, Leave, Dial, HangUp, idVars
  <2>2. CASE OnDisconnect(t)
    <3> DEFINE k == Key(cur[t])
               e2n == endpoint_to_net_id_map_
               n2e == net_id_to_endpoint_map_
    <3>1. UNCHANGED <<conn, cur>> /\ pc[t] = "disc" /\ \A u \in Threads \ {t} : pc'[u] = pc[u]
      BY <2>2 DEF OnDisconnect, AfterDisconnect, Goto, sockVars
    <3>2. \/ k \notin DOMAIN e2n /\ UNCHANGED <<n2e, e2n>>
          \/ k \in DOMAIN e2n /\ n2e' = Erase(n2e, e2n[k]) /\ e2n' = Erase(e2n, k)
      BY <2>2 DEF OnDisconnect, regVars
    <3>3. ~Confusable(e)
      BY <3>1 DEF Confusable, LooksLike
    <3> HIDE DEF k, e2n, n2e
    <3>4. /\ id \in Registered /\ n2e[id] = e
          /\ k \in DOMAIN e2n => id # e2n[k]
      BY <3>2 DEF Erase, Registered, n2e
    <3>5. /\ Key(e) \in DOMAIN e2n /\ e2n[Key(e)] = id
          /\ cur[Owner[e]] = e /\ pc[Owner[e]] \notin {"getid", "register"}
          /\ conn[e] = "idle" => pc[Owner[e]] = "disc"
      BY <2>1, <3>3, <3>4 DEF DialledInv, e2n, n2e
    <3>6. Key(e) # k /\ Owner[e] # t
      BY <3>4, <3>5 DEF k
    <3>7. Key(e) \in DOMAIN e2n' /\ e2n'[Key(e)] = id
      BY <3>2, <3>5, <3>6 DEF Erase
    <3> QED BY <2>1, <3>1, <3>5, <3>6, <3>7 DEF e2n
  <2>3. CASE t \in Connects /\ (Leave(t) \/ \E g \in Endpoints : Dial(t, g) \/ HangUp(t, g))
    <3>1. id \in Registered /\ UNCHANGED <<net_id_to_endpoint_map_, endpoint_to_net_id_map_>>
      BY <2>3 DEF Leave, Dial, HangUp, regVars, Registered
    <3>2. \A f \in Endpoints : conn[f] \in {"cut", "dead"} => conn'[f] \in {"cut", "dead"}
      BY <2>3 DEF Leave, Dial, Opens, HangUp
    <3>3. ~Confusable(e)
      BY <3>2 DEF Confusable, LooksLike
    <3>4. /\ Key(e) \in DOMAIN endpoint_to_net_id_map_ /\ endpoint_to_net_id_map_[Key(e)] = id
          /\ cur[Owner[e]] = e /\ pc[Owner[e]] \notin {"getid", "register"}
          /\ conn[e] = "idle" => pc[Owner[e]] = "disc"
      BY <2>1, <3>1, <3>3 DEF DialledInv
    <3>5. CASE Leave(t)
      <4>1. /\ pc[t] = "leave" /\ \A u \in Threads \ {t} : cur'[u] = cur[u] /\ pc'[u] = pc[u]
            /\ \A f \in Endpoints : conn'[f] = IF Owner[f] = t /\ conn[f] \in {"up", "fin"}
                                               THEN "dead" ELSE conn[f]
        BY <3>5 DEF Leave, Going, Goto
      <4>2. Owner[e] # t
        BY <3>4, <4>1 DEF Confusable, ConnStates
      <4> QED BY <2>1, <3>1, <3>4, <4>1, <4>2
    <3>6. ASSUME NEW g \in Endpoints, Dial(t, g)
          PROVE  /\ cur'[Owner[e]] = e /\ pc'[Owner[e]] \notin {"getid", "register"}
                 /\ conn'[e] = "idle" => pc'[Owner[e]] = "disc"
      <4>1. /\ pc[t] = "dial" /\ Owner[g] = t
            /\ \A u \in Threads \ {t} : cur'[u] = cur[u] /\ pc'[u] = pc[u]
            /\ \A f \in Endpoints \ {g} : conn'[f] = conn[f]
        BY <3>6 DEF Dial, Opens, Goto
      <4>2. Owner[e] # t
        BY <2>3, <3>4, <4>1, NoneAssumption DEF DialInv
      <4> QED BY <2>1, <3>4, <4>1, <4>2
    <3>7. ASSUME NEW g \in Endpoints, HangUp(t, g)
          PROVE  /\ cur'[Owner[e]] = e /\ pc'[Owner[e]] \notin {"getid", "register"}
                 /\ conn'[e] = "idle" => pc'[Owner[e]] = "disc"
      <4>1. /\ pc'[t] = "disc" /\ Owner[g] = t /\ cur[t] = g /\ cur'[t] = g
            /\ \A u \in Threads \ {t} : cur'[u] = cur[u] /\ pc'[u] = pc[u]
            /\ \A f \in Endpoints \ {g} : conn'[f] = conn[f]
        BY <2>3, <3>7 DEF HangUp, Serves, Going, Goto
      <4> QED BY <2>1, <3>4, <4>1
    <3> QED BY <2>3, <3>1, <3>4, <3>5, <3>6, <3>7
  <2> QED BY <1>4, <2>2, <2>3
<1> QED BY <1>1, <1>2, <1>3, <1>4, DialSteps, ThreadKinds

\* After the lookup of a Send anything may open, close and be given the id again
\* before its routes are used.  What is written then still goes to a connection
\* that looks like the one looked up or one the id is for at that moment, if that
\* one is not confusable: the route of an id never outlives the id.
THEOREM SendReaches == Spec => []SendReachesNamed
<1>1. Init => SendInv
  BY InitSendInv
<1>2. TypeInv /\ IdInv /\ SendInv /\ [Next]_vars => SendInv'
  BY SockKeyNext, DialNext, CurNext, FreshNext, RouteNext, DialledNext DEF SendInv
<1>3. TypeInv /\ IdInv /\ SendInv => SendReachesNamed
  <2> SUFFICES ASSUME TypeInv, IdInv, SendInv, ~raced, NEW u \in Users, NEW f \in Reached(u)
               PROVE  \/ LooksLike(f, ep[u])
                      \/ \E e \in NamedBy(uid[u]) : LooksLike(f, e) \/ Confusable(e)
    BY DEF SendReachesNamed
  <2>1. CASE ucall[u] = "Send" /\ upc[u] = "accept"
    <3>1. f \in AcceptedBy(u)
      BY <2>1 DEF Reached
    <3>2. PICK a \in Accepts : LET k == KeyAt(ep[u], ListenPort[a])
                               IN  k \in DOMAIN endpoint_sock_map_[a] /\ f = endpoint_sock_map_[a][k]
      BY <3>1 DEF AcceptedBy, TypeInv, TypeOK, SockType
    <3>3. Key(f) = KeyAt(ep[u], ListenPort[a])
      BY <3>2 DEF SendInv, SockKeyInv
    <3> QED BY <3>3 DEF Key, KeyAt, LooksLike
  <2>2. CASE ucall[u] = "Send" /\ upc[u] = "connect"
    <3>1. PICK c \in ConnectedBy(u) : f = cur[c]
      BY <2>2 DEF Reached
    <3>2. uid[u] \in DOMAIN net_id_to_connect_ /\ net_id_to_connect_[uid[u]] = c /\ c \in Connects
      BY DEF ConnectedBy, TypeInv, TypeOK, SockType
    <3>3. CASE /\ uid[u] \in Registered
               /\ \E g \in Endpoints : /\ LooksLike(g, net_id_to_endpoint_map_[uid[u]])
                                       /\ Owner[g] = c
      <4>1. PICK e \in Endpoints : e = net_id_to_endpoint_map_[uid[u]]
        BY <3>3 DEF Registered, TypeInv, TypeOK, RegType, IsMap
      <4>2. e \in NamedBy(uid[u])
        BY <3>3, <4>1 DEF NamedBy, Registered
      <4>3. ~Confusable(e) => Owner[e] = c
        BY <3>3, <4>1 DEF Confusable
      <4>4. ~Confusable(e) => cur[c] = e
        BY <3>2, <3>3, <4>1, <4>3 DEF SendInv, DialledInv
      <4> QED BY <3>1, <4>2, <4>4 DEF LooksLike
    <3>4. ASSUME NEW t \in Threads, pc[t] = "unroute", nid[t] = uid[u],
                 \E g \in Endpoints : LooksLike(g, cur[t]) /\ Owner[g] = c
          PROVE  \E e \in NamedBy(uid[u]) : LooksLike(f, e) \/ Confusable(e)
      <4>1. cur[t] \in NamedBy(uid[u])
        BY <3>4 DEF NamedBy
      <4>2. cur[t] # None /\ Owner[cur[t]] = t
        BY <3>4 DEF TypeInv, LocalsOK, SendInv, CurInv
      <4>3. ~Confusable(cur[t]) => c = t
        BY <3>4, <4>2 DEF Confusable
      <4> QED BY <3>1, <4>1, <4>3 DEF LooksLike
    <3> QED BY <3>2, <3>3, <3>4 DEF SendInv, RouteInv
  <2> QED BY <2>1, <2>2 DEF Reached
<1> QED BY <1>1, <1>2, <1>3, Invariance, PTL DEF Spec

-----------------------------------------------------------------------------
(***************************************************************************)
(* The order of the callbacks.  What the application knows lags behind what *)
(* the socket threads have said: the difference waits in the queue.  kn[i] *)
(* is the set of ids the application will know once it has handled the     *)
(* first i waiting tasks; each task has to fit the set before it, and the  *)
(* last set is the one the socket threads go by.                           *)
(*                                                                         *)
(* Between publishing an id and telling the application of it a thread     *)
(* relies on nobody else finding the id.  The maps are searched by key, so *)
(* this needs connections with equal keys to be on one thread.             *)
(***************************************************************************)
KeysByOwner == \A e, f \in Endpoints : Key(e) = Key(f) => Owner[e] = Owner[f]

KnownAfter(S, k, id) ==
    CASE k = "open" -> S \cup {id}
      [] k = "disc" -> S \ {id}
      [] OTHER      -> S
Fits(S, k, id) == k = "fail" \/ (k = "open" <=> id \notin S)

Foretells(kn) ==
    /\ kn[0] = DOMAIN view
    /\ \A i \in 1..Len(handle_task_queue_) :
          LET task == handle_task_queue_[i]
          IN  /\ Fits(kn[i - 1], task.kind, task.id)
              /\ kn[i] = KnownAfter(kn[i - 1], task.kind, task.id)

\* The threads that are about to say something of an id, by what the others
\* have been told of it: nothing (or that it is closed), or that it is open.
Announcing(t) == pc[t] = "tell" /\ what[t] = "open"
Receiving(t) == pc[t] = "tell" /\ what[t] = "recv"
Unknown(t) ==
    \/ pc[t] \in {"register", "push", "pushing"}
    \/ Announcing(t)
    \/ pc[t] = "call" /\ what[t] = "disc"
Known(t) == pc[t] = "unroute" \/ Receiving(t) \/ (pc[t] = "tell" /\ what[t] = "disc")

\* The id of a thread that announces it is its own, although it need not be
\* registered; the id of a thread that received data is the one its key names.
TellOK ==
    /\ \A t \in Threads : Announcing(t) =>
          /\ nid[t] <= max_net_id_
          /\ \A i \in 1..Len(free_net_id_list_) : free_net_id_list_[i] # nid[t]
          /\ \A u \in Threads : u # t /\ (Holding(u) \/ Announcing(u)) => nid[u] # nid[t]
          /\ \A k \in DOMAIN endpoint_to_net_id_map_ :
                endpoint_to_net_id_map_[k] = nid[t] => k = Key(cur[t])
    /\ \A t \in Threads : Receiving(t) =>
          /\ Key(cur[t]) \in DOMAIN endpoint_to_net_id_map_
          /\ endpoint_to_net_id_map_[Key(cur[t])] = nid[t]

KnownOK(S) ==
    /\ \A id \in S : id \in Nat /\ id <= max_net_id_
    /\ \A i \in 1..Len(free_net_id_list_) : free_net_id_list_[i] \notin S
    /\ \A t \in Threads : Unknown(t) => nid[t] \notin S
    /\ \A t \in Threads : Known(t) => nid[t] \in S
    /\ \A k \in DOMAIN endpoint_to_net_id_map_ :
          \/ endpoint_to_net_id_map_[k] \in S
          \/ \E t \in Threads : /\ Announcing(t) /\ Key(cur[t]) = k
                                /\ nid[t] = endpoint_to_net_id_map_[k]

DirectInv == ~single_thread_handle_mode_ => handle_task_queue_ = << >> /\ allocating = {}
OrderInv ==
    ~raced /\ ~overlap =>
       /\ TellOK
       /\ \E kn \in [0..Len(handle_task_queue_) -> SUBSET Nat], S \in SUBSET Nat :
             Foretells(kn) /\ S = kn[Len(handle_task_queue_)] /\ KnownOK(S)

\* Steps that leave the ids alone and change nothing a thread is about to say.
SaysNothing ==
    /\ UNCHANGED <<free_net_id_list_, max_net_id_>> /\ UNCHANGED regVars
    /\ \A t \in Threads :
          /\ Announcing(t)' <=> Announcing(t)
          /\ Receiving(t)' => Receiving(t)
          /\ Announcing(t) \/ Receiving(t)' => nid'[t] = nid[t] /\ cur'[t] = cur[t]
          /\ Holding(t)' => Holding(t) /\ nid'[t] = nid[t]
          /\ Unknown(t)' => Unknown(t) /\ nid'[t] = nid[t]
          /\ Known(t)' => Known(t) /\ nid'[t] = nid[t]

LEMMA KeyIsConstant == \A t \in Threads : Key(cur[t])' = Key(cur'[t])
  BY DEF Key, KeyAt

LEMMA OrderFrame ==
    ASSUME SaysNothing, TellOK, NEW S, KnownOK(S) PROVE TellOK' /\ KnownOK(S)'
<1>1. TellOK'
  BY KeyIsConstant DEF SaysNothing, TellOK, regVars
<1>2. KnownOK(S)'
  <2>1. \A k \in DOMAIN endpoint_to_net_id_map_ :
           \/ endpoint_to_net_id_map_[k] \in S
           \/ \E t \in Threads : /\ Announcing(t)' /\ Key(cur[t])' = k
                                 /\ nid'[t] = endpoint_to_net_id_map_[k]
    BY KeyIsConstant DEF SaysNothing, KnownOK
  <2> QED BY <2>1 DEF SaysNothing, KnownOK, regVars
<1> QED BY <1>1, <1>2

\* Types that the steps below use.
LEMMA IdsAreNat ==
    ASSUME TypeInv
    PROVE  /\ Len(free_net_id_list_) \in Nat /\ max_net_id_ \in Nat
           /\ \A i \in 1..Len(free_net_id_list_) : free_net_id_list_[i] \in Nat
           /\ \A t \in Threads : nid[t] \in Nat
           /\ \A k \in DOMAIN endpoint_to_net_id_map_ : endpoint_to_net_id_map_[k] \in Nat
  BY ElementOfSeq DEF TypeInv, TypeOK, IdType, RegType, ThreadType, IsMap, NetIds

LEMMA OrderGetFreeNetID ==
    ASSUME TypeInv, TellOK, NEW S, KnownOK(S), NEW t \in Threads, GetFreeNetID(t)
    PROVE  TellOK' /\ KnownOK(S)'
<1> DEFINE new == nid'[t]
<1>1. /\ \A u \in Threads \ {t} : pc'[u] = pc[u] /\ nid'[u] = nid[u]
      /\ pc[t] = "getid" /\ pc'[t] = "register"
      /\ UNCHANGED <<what, cur>> /\ UNCHANGED regVars
  BY DEF GetFreeNetID, Going, Goto, TypeInv, TypeOK, ThreadType
<1>2. /\ max_net_id_' \in Nat /\ max_net_id_ <= max_net_id_'
      /\ \/ \E i \in 1..Len(free_net_id_list_) : new = free_net_id_list_[i]
         \/ new = max_net_id_ + 1
      /\ \A i \in 1..Len(free_net_id_list_') :
            i \in 1..Len(free_net_id_list_) /\ free_net_id_list_'[i] = free_net_id_list_[i]
  <2>1. CASE free_net_id_list_ # << >>
    <3> DEFINE n == Len(free_net_id_list_)
    <3>1. /\ nid' = [nid EXCEPT ![t] = Top(free_net_id_list_)]
          /\ free_net_id_list_' = Pop(free_net_id_list_)
          /\ max_net_id_' = max_net_id_
      BY <2>1 DEF GetFreeNetID
    <3>2. /\ n \in Nat \ {0} /\ Len(free_net_id_list_') = n - 1
          /\ \A i \in 1..n - 1 : free_net_id_list_'[i] = free_net_id_list_[i]
      BY <2>1, <3>1, PopTop DEF TypeInv, TypeOK, IdType
    <3>3. new = free_net_id_list_[n]
      BY <3>1 DEF Top, TypeInv, TypeOK, ThreadType
    <3> HIDE DEF n, new
    <3>4. n \in 1..n /\ \A i \in 1..n - 1 : i \in 1..n
      BY <3>2
    <3> QED BY <3>1, <3>2, <3>3, <3>4, IdsAreNat DEF n
  <2>2. CASE free_net_id_list_ = << >>
    <3>1. /\ new = max_net_id_ + 1
          /\ free_net_id_list_' = free_net_id_list_
          /\ max_net_id_' = max_net_id_ + 1
      BY <2>2 DEF GetFreeNetID, FreshNetID, TypeInv, TypeOK, ThreadType
    <3> HIDE DEF new
    <3> QED BY <3>1, IdsAreNat
  <2> QED BY <2>1, <2>2
<1> HIDE DEF new
<1>3. \A u \in Threads :
         /\ Announcing(u)' <=> Announcing(u)
         /\ Receiving(u)' <=> Receiving(u)
         /\ Known(u)' <=> Known(u)
         /\ Announcing(u) \/ Receiving(u) \/ Known(u) => u # t
         /\ Holding(u)' => u = t \/ Holding(u)
         /\ Unknown(u)' => u = t \/ Unknown(u)
  BY <1>1 DEF Announcing, Receiving, Known, Unknown, Holding
<1>4. nid'[t] = new /\ \A u \in Threads : u # t => nid'[u] = nid[u]
  BY <1>1 DEF new
<1>5. \A u \in Threads : Announcing(u) =>
         /\ nid[u] # new /\ nid[u] <= max_net_id_'
         /\ \A i \in 1..Len(free_net_id_list_') : free_net_id_list_'[i] # nid[u]
  BY <1>2, IdsAreNat DEF TellOK
<1>6. TellOK'
  <2>1. \A u \in Threads : Announcing(u) =>
           \A v \in Threads : v # u /\ (Holding(v)' \/ Announcing(v)') => nid'[v] # nid'[u]
    BY <1>3, <1>4, <1>5 DEF TellOK
  <2>2. \A u \in Threads : Announcing(u) =>
           \A k \in DOMAIN endpoint_to_net_id_map_ :
              endpoint_to_net_id_map_[k] = nid[u] => k = Key(cur'[u])
    BY <1>1 DEF TellOK
  <2>3. \A u \in Threads : Receiving(u) =>
           /\ Key(cur'[u]) \in DOMAIN endpoint_to_net_id_map_
           /\ endpoint_to_net_id_map_[Key(cur'[u])] = nid'[u]
    BY <1>1, <1>3, <1>4 DEF TellOK
  <2> QED BY <1>1, <1>3, <1>4, <1>5, <2>1, <2>2, <2>3, KeyIsConstant DEF TellOK, regVars
<1>7. KnownOK(S)'
  <2>1. new \notin S
    BY <1>2, IdsAreNat DEF KnownOK
  <2>2. \A id \in S : id \in Nat /\ id <= max_net_id_'
    BY <1>2, IdsAreNat DEF KnownOK
  <2>3. \A i \in 1..Len(free_net_id_list_') : free_net_id_list_'[i] \notin S
    BY <1>2 DEF KnownOK
  <2>4. \A u \in Threads : Unknown(u)' => nid'[u] \notin S
    BY <1>3, <1>4, <2>1 DEF KnownOK
  <2>5. \A u \in Threads : Known(u)' => nid'[u] \in S
    BY <1>3, <1>4 DEF KnownOK
  <2>6. \A k \in DOMAIN endpoint_to_net_id_map_ :
           \/ endpoint_to_net_id_map_[k] \in S
           \/ \E u \in Threads : /\ Announcing(u)' /\ Key(cur[u])' = k
                                 /\ nid'[u] = endpoint_to_net_id_map_[k]
    BY <1>1, <1>3, <1>4, KeyIsConstant DEF KnownOK
  <2> QED BY <1>1, <2>2, <2>3, <2>4, <2>5, <2>6 DEF KnownOK, regVars
<1> QED BY <1>6, <1>7

\* An id that a key of the thread itself names is one the application knows
\* of, unless the thread is just announcing it.
LEMMA FoundIsKnown ==
    ASSUME KeysByOwner, TypeInv, CurInv, NEW S, KnownOK(S), NEW t \in Threads, NEW e \in Endpoints,
           Owner[e] = t, ~Announcing(t), Key(e) \in DOMAIN endpoint_to_net_id_map_
    PROVE  endpoint_to_net_id_map_[Key(e)] \in S
<1> SUFFICES ASSUME NEW u \in Threads, Announcing(u), Key(cur[u]) = Key(e) PROVE FALSE
  BY DEF KnownOK
<1>1. cur[u] \in Endpoints
  BY DEF TypeInv, TypeOK, ThreadType, LocalsOK, Announcing
<1>2. Owner[cur[u]] = u
  BY <1>1, NoneAssumption DEF CurInv
<1> QED BY <1>1, <1>2 DEF KeysByOwner

LEMMA OrderOnRecv ==
    ASSUME KeysByOwner, TypeInv, CurInv, TellOK, NEW S, KnownOK(S), NEW t \in Threads,
           NEW e \in Endpoints, OnRecv(t, e)
    PROVE  TellOK' /\ KnownOK(S)'
<1>1. /\ \A u \in Threads \ {t} : pc'[u] = pc[u] /\ nid'[u] = nid[u] /\ cur'[u] = cur[u]
                                  /\ what'[u] = what[u]
      /\ pc[t] \in {"poll", "drain"} /\ Owner[e] = t /\ cur'[t] = e
      /\ UNCHANGED <<free_net_id_list_, max_net_id_>> /\ UNCHANGED regVars
  BY DEF OnRecv, Serves, Goto, TypeInv, TypeOK, ThreadType, idVars
<1>2. CASE Key(e) \notin DOMAIN endpoint_to_net_id_map_
  <2>1. pc'[t] = "drain"
    BY <1>2 DEF OnRecv, Goto, TypeInv, TypeOK, ThreadType
  <2>2. SaysNothing
    BY <1>1, <2>1 DEF SaysNothing, Announcing, Receiving, Known, Unknown, Holding
  <2> QED BY <2>2, OrderFrame
<1>3. CASE Key(e) \in DOMAIN endpoint_to_net_id_map_
  <2>1. /\ pc'[t] = "tell" /\ what'[t] = "recv"
        /\ nid'[t] = endpoint_to_net_id_map_[Key(e)]
    BY <1>3 DEF OnRecv, Goto, TypeInv, TypeOK, ThreadType
  <2>2. \A u \in Threads :
           /\ Announcing(u)' <=> Announcing(u)
           /\ Receiving(u)' => u = t \/ Receiving(u)
           /\ Known(u)' => u = t \/ Known(u)
           /\ Holding(u)' => u # t /\ Holding(u)
           /\ Unknown(u)' => u # t /\ Unknown(u)
           /\ Announcing(u) => u # t
    BY <1>1, <2>1 DEF Announcing, Receiving, Known, Unknown, Holding
  <2>3. nid'[t] \in S
    BY <1>1, <1>3, <2>1, <2>2, FoundIsKnown
  <2>4. TellOK'
    BY <1>1, <1>3, <2>1, <2>2, KeyIsConstant DEF TellOK, regVars
  <2>5. KnownOK(S)'
    <3>1. \A k \in DOMAIN endpoint_to_net_id_map_ :
             \/ endpoint_to_net_id_map_[k] \in S
             \/ \E u \in Threads : /\ Announcing(u)' /\ Key(cur[u])' = k
                                   /\ nid'[u] = endpoint_to_net_id_map_[k]
      BY <1>1, <2>2, KeyIsConstant DEF KnownOK
    <3> QED BY <1>1, <2>2, <2>3, <3>1 DEF KnownOK, regVars
  <2> QED BY <2>4, <2>5
<1> QED BY <1>2, <1>3

LEMMA OrderOnDisconnect ==
    ASSUME KeysByOwner, TypeInv, IdInv, ~raced, CurInv, TellOK, NEW S, KnownOK(S),
           NEW t \in Threads, OnDisconnect(t)
    PROVE  TellOK' /\ KnownOK(S)'
<1> DEFINE k == Key(cur[t])
           id == endpoint_to_net_id_map_[k]
<1>1. /\ \A u \in Threads \ {t} : pc'[u] = pc[u] /\ nid'[u] = nid[u]
      /\ pc[t] = "disc"
      /\ UNCHANGED <<free_net_id_list_, max_net_id_, what, cur>>
  BY DEF OnDisconnect, Goto, TypeInv, TypeOK, ThreadType, idVars
<1>2. cur[t] \in Endpoints /\ Owner[cur[t]] = t
  BY <1>1, NoneAssumption DEF CurInv, TypeInv, TypeOK, ThreadType, LocalsOK
<1>3. CASE k \notin DOMAIN endpoint_to_net_id_map_
  <2>1. pc'[t] \in {"forget", "leave"} /\ UNCHANGED regVars
    BY <1>3 DEF OnDisconnect, AfterDisconnect, Goto, TypeInv, TypeOK, ThreadType
  <2>2. SaysNothing
    BY <1>1, <2>1 DEF SaysNothing, Announcing, Receiving, Known, Unknown, Holding
  <2> QED BY <2>2, OrderFrame
<1>4. CASE k \in DOMAIN endpoint_to_net_id_map_
  <2>1. /\ pc'[t] = "unroute" /\ nid'[t] = id
        /\ endpoint_to_net_id_map_' = Erase(endpoint_to_net_id_map_, k)
    BY <1>4 DEF OnDisconnect, Goto, TypeInv, TypeOK, ThreadType
  <2>2. /\ \A x : x \in DOMAIN endpoint_to_net_id_map_' <=>
                  x \in DOMAIN endpoint_to_net_id_map_ /\ x # k
        /\ \A x \in DOMAIN endpoint_to_net_id_map_' :
              endpoint_to_net_id_map_'[x] = endpoint_to_net_id_map_[x]
    BY <2>1 DEF Erase
  <2>3. \A u \in Threads :
           /\ Announcing(u)' <=> Announcing(u)
           /\ Receiving(u)' => Receiving(u)
           /\ Announcing(u) \/ Receiving(u) => u # t
           /\ Known(u)' => u = t \/ Known(u)
           /\ Holding(u)' => u = t \/ Holding(u)
           /\ Unknown(u)' => u # t /\ Unknown(u)
    BY <1>1, <2>1 DEF Announcing, Receiving, Known, Unknown, Holding
  <2>4. \A u \in Threads : Announcing(u) \/ Receiving(u) => Key(cur[u]) # k
    <3> SUFFICES ASSUME NEW u \in Threads, Announcing(u) \/ Receiving(u), Key(cur[u]) = k
                 PROVE  FALSE
      OBVIOUS
    <3>1. cur[u] \in Endpoints
      BY DEF TypeInv, TypeOK, ThreadType, LocalsOK, Announcing, Receiving
    <3>2. Owner[cur[u]] = u
      BY <3>1, NoneAssumption DEF CurInv
    <3> QED BY <1>2, <2>3, <3>1, <3>2 DEF KeysByOwner
  <2>5. id \in S
    BY <1>2, <1>4, <2>3, FoundIsKnown
  <2> HIDE DEF k, id
  <2>6. \A u \in Threads : Announcing(u) => nid[u] # id
    BY <1>4, <2>4 DEF TellOK, id
  <2>7. TellOK'
    <3>1. \A u \in Threads : Announcing(u) =>
             \A v \in Threads : v # u /\ (Holding(v)' \/ Announcing(v)') => nid'[v] # nid'[u]
      BY <1>1, <2>1, <2>3, <2>6 DEF TellOK
    <3>2. \A u \in Threads : Announcing(u) =>
             \A x \in DOMAIN endpoint_to_net_id_map_' :
                endpoint_to_net_id_map_'[x] = nid'[u] => x = Key(cur'[u])
      BY <1>1, <2>2, <2>3 DEF TellOK
    <3>3. \A u \in Threads : Receiving(u) =>
             /\ Key(cur'[u]) \in DOMAIN endpoint_to_net_id_map_'
             /\ endpoint_to_net_id_map_'[Key(cur'[u])] = nid'[u]
      BY <1>1, <2>2, <2>3, <2>4 DEF TellOK
    <3> QED BY <1>1, <2>3, <3>1, <3>2, <3>3, KeyIsConstant DEF TellOK
  <2>8. KnownOK(S)'
    <3>1. \A x \in DOMAIN endpoint_to_net_id_map_' :
             \/ endpoint_to_net_id_map_'[x] \in S
             \/ \E u \in Threads : /\ Announcing(u)' /\ Key(cur[u])' = x
                                   /\ nid'[u] = endpoint_to_net_id_map_'[x]
      BY <1>1, <2>2, <2>3, KeyIsConstant DEF KnownOK
    <3> QED BY <1>1, <2>1, <2>3, <2>5, <3>1 DEF KnownOK
  <2> QED BY <2>7, <2>8
<1> QED BY <1>3, <1>4

LEMMA OrderEndPush ==
    ASSUME TypeInv, IdInv, ~raced, TellOK, NEW S, KnownOK(S), NEW t \in Threads, EndPush(t)
    PROVE  TellOK' /\ KnownOK(S)'
<1>1. /\ \A u \in Threads \ {t} : pc'[u] = pc[u] /\ nid'[u] = nid[u]
      /\ pc[t] = "pushing" /\ pc'[t] \in {"forget", "leave"}
      /\ UNCHANGED <<max_net_id_, what, cur>> /\ UNCHANGED regVars
  BY DEF EndPush, Going, Goto, AfterDisconnect, TypeInv, TypeOK, ThreadType
<1>2. free_net_id_list_' = Append(free_net_id_list_, nid[t])
  BY <1>1 DEF EndPush, IdInv, PushOK
<1> DEFINE n == Len(free_net_id_list_)
<1>3. n \in Nat /\ Len(free_net_id_list_') = n + 1 /\ free_net_id_list_'[n + 1] = nid[t]
      /\ \A i \in 1..n : free_net_id_list_'[i] = free_net_id_list_[i]
  <2>1. free_net_id_list_ \in Seq(NetIds) /\ nid[t] \in NetIds
    BY <1>1 DEF TypeInv, TypeOK, IdType, ThreadType, LocalsOK, NetIds
  <2> QED BY <1>2, <2>1, AppendProperties, LenProperties
<1>4. \A i \in 1..Len(free_net_id_list_') :
         \/ i \in 1..n /\ free_net_id_list_'[i] = free_net_id_list_[i]
         \/ free_net_id_list_'[i] = nid[t]
  BY <1>3
<1>5. \A u \in Threads :
         /\ Announcing(u)' <=> Announcing(u)
         /\ Receiving(u)' => Receiving(u)
         /\ Known(u)' => Known(u)
         /\ Announcing(u) \/ Receiving(u) \/ Known(u) => u # t
         /\ Holding(u)' => u # t /\ Holding(u)
         /\ Unknown(u)' => u # t /\ Unknown(u)
  BY <1>1 DEF Announcing, Receiving, Known, Unknown, Holding
<1>6. Holding(t) /\ Unknown(t)
  BY <1>1 DEF Holding, Unknown
<1>7. TellOK'
  <2>1. \A u \in Threads : Announcing(u) =>
           \A i \in 1..Len(free_net_id_list_') : free_net_id_list_'[i] # nid'[u]
    BY <1>1, <1>4, <1>5, <1>6 DEF TellOK
  <2>2. \A u \in Threads : Announcing(u) =>
           \A v \in Threads : v # u /\ (Holding(v)' \/ Announcing(v)') => nid'[v] # nid'[u]
    BY <1>1, <1>5 DEF TellOK
  <2> QED BY <1>1, <1>5, <2>1, <2>2, KeyIsConstant DEF TellOK, regVars
<1>8. KnownOK(S)'
  <2>1. \A i \in 1..Len(free_net_id_list_') : free_net_id_list_'[i] \notin S
    BY <1>4, <1>6 DEF KnownOK
  <2>2. \A k \in DOMAIN endpoint_to_net_id_map_ :
           \/ endpoint_to_net_id_map_[k] \in S
           \/ \E u \in Threads : /\ Announcing(u)' /\ Key(cur[u])' = k
                                 /\ nid'[u] = endpoint_to_net_id_map_[k]
    BY <1>1, <1>5, KeyIsConstant DEF KnownOK
  <2> QED BY <1>1, <1>5, <2>1, <2>2 DEF KnownOK, regVars
<1> QED BY <1>7, <1>8

\* Publishing an id overwrites the entry of its key, which only its own thread
\* could be using.
LEMMA OrderRegister ==
    ASSUME KeysByOwner, TypeInv, IdInv, ~raced, CurInv, TellOK, NEW S, KnownOK(S),
           NEW t \in Threads, NEW matches, TellOpen(t), Register(t, matches)
    PROVE  TellOK' /\ KnownOK(S)'
<1> DEFINE k == Key(cur[t])
<1>1. /\ \A u \in Threads \ {t} : pc'[u] = pc[u] /\ what'[u] = what[u]
      /\ pc[t] = "register" /\ pc'[t] = "tell" /\ what'[t] = "open"
      /\ UNCHANGED <<free_net_id_list_, max_net_id_, nid, cur>>
  BY DEF TellOpen, Going, Goto, idVars, TypeInv, TypeOK, ThreadType
<1>2. cur[t] \in Endpoints /\ Owner[cur[t]] = t
  BY <1>1, NoneAssumption DEF CurInv, TypeInv, TypeOK, ThreadType, LocalsOK
<1>3. \A u \in Threads :
         /\ Announcing(u)' <=> u = t \/ Announcing(u)
         /\ Receiving(u)' => Receiving(u)
         /\ Announcing(u) \/ Receiving(u) => u # t
         /\ Known(u)' => Known(u)
         /\ Holding(u)' => u # t /\ Holding(u)
         /\ Unknown(u)' => Unknown(u)
  BY <1>1 DEF Announcing, Receiving, Known, Unknown, Holding
<1>4. Holding(t) /\ Unknown(t)
  BY <1>1 DEF Holding, Unknown
<1>5. /\ nid[t] <= max_net_id_ /\ nid[t] \notin Registered
      /\ \A i \in 1..Len(free_net_id_list_) : free_net_id_list_[i] # nid[t]
      /\ \A u \in Threads : u # t /\ Holding(u) => nid[u] # nid[t]
  BY <1>4 DEF IdInv, HeldOK
<1>6. \A x \in DOMAIN endpoint_to_net_id_map_ : endpoint_to_net_id_map_[x] # nid[t]
  BY <1>5 DEF IdInv, RegOK
<1>7. \A x \in DOMAIN endpoint_to_net_id_map_' :
         \/ x = k /\ endpoint_to_net_id_map_'[x] = nid[t]
         \/ x \in DOMAIN endpoint_to_net_id_map_
            /\ endpoint_to_net_id_map_'[x] = endpoint_to_net_id_map_[x]
  BY DEF Register, Put, regVars
<1>8. \A x \in DOMAIN endpoint_to_net_id_map_ : x # k =>
         x \in DOMAIN endpoint_to_net_id_map_'
         /\ endpoint_to_net_id_map_'[x] = endpoint_to_net_id_map_[x]
  BY DEF Register, Put, regVars
<1>9. \A u \in Threads : Receiving(u) => Key(cur[u]) # k
  <2> SUFFICES ASSUME NEW u \in Threads, Receiving(u), Key(cur[u]) = k PROVE FALSE
    OBVIOUS
  <2>1. cur[u] \in Endpoints
    BY DEF TypeInv, TypeOK, ThreadType, LocalsOK, Receiving
  <2>2. Owner[cur[u]] = u
    BY <2>1, NoneAssumption DEF CurInv
  <2> QED BY <1>2, <1>3, <2>1, <2>2 DEF KeysByOwner
<1> HIDE DEF k
<1>10. Key(cur[t]) = k
  BY DEF k
<1>11. TellOK'
  <2>1. \A u \in Threads : Announcing(u)' =>
           \A v \in Threads : v # u /\ (Holding(v)' \/ Announcing(v)') => nid[v] # nid[u]
    BY <1>3, <1>4, <1>5 DEF TellOK
  <2>2. \A u \in Threads : Announcing(u)' =>
           \A x \in DOMAIN endpoint_to_net_id_map_' :
              endpoint_to_net_id_map_'[x] = nid[u] => x = Key(cur[u])
    BY <1>3, <1>4, <1>6, <1>7, <1>10 DEF TellOK
  <2>3. \A u \in Threads : Receiving(u)' =>
           /\ Key(cur[u]) \in DOMAIN endpoint_to_net_id_map_'
           /\ endpoint_to_net_id_map_'[Key(cur[u])] = nid[u]
    BY <1>3, <1>8, <1>9 DEF TellOK
  <2>4. \A u \in Threads : Announcing(u)' =>
           /\ nid[u] <= max_net_id_
           /\ \A i \in 1..Len(free_net_id_list_) : free_net_id_list_[i] # nid[u]
    BY <1>3, <1>5 DEF TellOK
  <2> QED BY <1>1, <2>1, <2>2, <2>3, <2>4, KeyIsConstant DEF TellOK
<1>12. KnownOK(S)'
  <2>1. \A x \in DOMAIN endpoint_to_net_id_map_' :
           \/ endpoint_to_net_id_map_'[x] \in S
           \/ \E u \in Threads : /\ Announcing(u)' /\ Key(cur[u])' = x
                                 /\ nid[u] = endpoint_to_net_id_map_'[x]
    BY <1>1, <1>3, <1>7, <1>10, KeyIsConstant DEF KnownOK
  <2> QED BY <1>1, <1>3, <1>4, <2>1 DEF KnownOK
<1> QED BY <1>11, <1>12

\* Telling the application, now or through the queue: the event fits what it
\* was told before, and changes what it knows.
LEMMA OrderTell ==
    ASSUME TypeInv, IdInv, ~raced, TellOK, NEW S, KnownOK(S), NEW t \in Threads,
           EnqueueTask(t) \/ CallHandlers(t), NEW R, R = KnownAfter(S, what[t], nid[t])
    PROVE  Fits(S, what[t], nid[t]) /\ TellOK' /\ KnownOK(R)'
<1>1. /\ \A u \in Threads \ {t} : pc'[u] = pc[u] /\ what'[u] = what[u] /\ nid'[u] = nid[u]
                                  /\ cur'[u] = cur[u]
      /\ pc[t] = "tell" /\ what[t] \in Kinds
      /\ UNCHANGED <<free_net_id_list_, max_net_id_>> /\ UNCHANGED regVars
  BY DEF EnqueueTask, CallHandlers, Resume, Going, Goto, idVars, TypeInv, TypeOK, ThreadType,
         LocalsOK
<1>2. /\ \/ pc'[t] = "call" /\ what'[t] = what[t]
         \/ pc'[t] \in {"poll", "arm", "drain", "leave"}
         \/ pc'[t] = "push" /\ what[t] = "disc"
      /\ what[t] = "disc" => nid'[t] = nid[t]
  BY <1>1 DEF EnqueueTask, CallHandlers, Resume, AfterTell, Going, Goto, TypeInv, TypeOK,
              ThreadType, Kinds
<1>3. \A u \in Threads :
         /\ Announcing(u)' <=> u # t /\ Announcing(u)
         /\ Receiving(u)' => u # t /\ Receiving(u)
         /\ Known(u)' => u # t /\ Known(u)
         /\ Holding(u)' => Holding(u) /\ nid'[u] = nid[u]
         /\ Unknown(u)' => (u # t /\ Unknown(u)) \/ (u = t /\ what[t] = "disc")
  BY <1>1, <1>2 DEF Announcing, Receiving, Known, Unknown, Holding
<1>4. Fits(S, what[t], nid[t])
  <2>1. what[t] = "open" => nid[t] \notin S
    BY <1>1 DEF KnownOK, Unknown, Announcing
  <2>2. what[t] \in {"recv", "disc"} => nid[t] \in S
    BY <1>1 DEF KnownOK, Known, Receiving
  <2> QED BY <1>1, <2>1, <2>2 DEF Fits, Kinds
<1>5. TellOK'
  BY <1>1, <1>3, KeyIsConstant DEF TellOK, regVars
<1>6. \A u \in Threads : Announcing(u) => nid[u] <= max_net_id_ /\ nid[u] \in Nat
  BY IdsAreNat DEF TellOK
<1>7. CASE what[t] = "open"
  <2>1. R = S \cup {nid[t]}
    BY <1>7 DEF KnownAfter
  <2>2. Announcing(t)
    BY <1>1, <1>7 DEF Announcing
  <2>3. \A u \in Threads : Unknown(u) => Announcing(u) \/ Holding(u)
    BY DEF Unknown, Holding
  <2>4. \A u \in Threads : Unknown(u)' => nid'[u] \notin R
    BY <1>1, <1>3, <1>7, <2>1, <2>2, <2>3 DEF TellOK, KnownOK
  <2>5. \A u \in Threads : Known(u)' => nid'[u] \in R
    BY <1>1, <1>3, <2>1 DEF KnownOK
  <2>6. \A i \in 1..Len(free_net_id_list_) : free_net_id_list_[i] \notin R
    BY <2>1, <2>2 DEF TellOK, KnownOK
  <2>7. \A k \in DOMAIN endpoint_to_net_id_map_ :
           \/ endpoint_to_net_id_map_[k] \in R
           \/ \E u \in Threads : /\ Announcing(u)' /\ Key(cur[u])' = k
                                 /\ nid'[u] = endpoint_to_net_id_map_[k]
    BY <1>1, <1>3, <2>1, KeyIsConstant DEF KnownOK
  <2>8. \A id \in R : id \in Nat /\ id <= max_net_id_
    BY <1>6, <2>1, <2>2 DEF KnownOK
  <2>9. KnownOK(R)'
    BY <1>1, <2>4, <2>5, <2>6, <2>7, <2>8 DEF KnownOK, regVars
  <2> QED BY <1>4, <1>5, <2>9
<1>8. CASE what[t] = "disc"
  <2>1. R = S \ {nid[t]}
    BY <1>8 DEF KnownAfter
  <2>2. Holding(t)
    BY <1>1, <1>8 DEF Holding
  <2>3. nid[t] \notin Registered /\ \A u \in Threads : u # t /\ Holding(u) => nid[u] # nid[t]
    BY <2>2 DEF IdInv, HeldOK
  <2>4. \A k \in DOMAIN endpoint_to_net_id_map_ : endpoint_to_net_id_map_[k] # nid[t]
    BY <2>3 DEF IdInv, RegOK
  <2>5. \A u \in Threads : Known(u) => Receiving(u) \/ Holding(u)
    BY DEF Known, Holding
  <2>6. \A u \in Threads : Receiving(u) => nid[u] # nid[t]
    BY <2>4 DEF TellOK
  <2>7. \A u \in Threads : Known(u)' => nid'[u] \in R
    BY <1>1, <1>3, <2>1, <2>3, <2>5, <2>6 DEF KnownOK
  <2>8. \A u \in Threads : Unknown(u)' => nid'[u] \notin R
    BY <1>1, <1>2, <1>3, <1>8, <2>1 DEF KnownOK
  <2>9. \A k \in DOMAIN endpoint_to_net_id_map_ :
           \/ endpoint_to_net_id_map_[k] \in R
           \/ \E u \in Threads : /\ Announcing(u)' /\ Key(cur[u])' = k
                                 /\ nid'[u] = endpoint_to_net_id_map_[k]
    <3>1. ~Announcing(t)
      BY <1>8 DEF Announcing
    <3> QED BY <1>1, <1>3, <2>1, <2>4, <3>1, KeyIsConstant DEF KnownOK
  <2>10. KnownOK(R)'
    BY <1>1, <2>1, <2>7, <2>8, <2>9 DEF KnownOK, regVars
  <2> QED BY <1>4, <1>5, <2>10
<1>9. CASE what[t] \in {"recv", "fail"}
  <2>1. R = S
    BY <1>9 DEF KnownAfter
  <2>2. ~Announcing(t)
    BY <1>9 DEF Announcing
  <2>3. \A k \in DOMAIN endpoint_to_net_id_map_ :
           \/ endpoint_to_net_id_map_[k] \in R
           \/ \E u \in Threads : /\ Announcing(u)' /\ Key(cur[u])' = k
                                 /\ nid'[u] = endpoint_to_net_id_map_[k]
    BY <1>1, <1>3, <2>1, <2>2, KeyIsConstant DEF KnownOK
  <2>4. KnownOK(R)'
    BY <1>1, <1>3, <1>9, <2>1, <2>3 DEF KnownOK, regVars
  <2> QED BY <1>4, <1>5, <2>4
<1> QED BY <1>1, <1>7, <1>8, <1>9 DEF Kinds

LEMMA ToldDomain == \A k, id, e : DOMAIN Told(k, id, e) = KnownAfter(DOMAIN view, k, id)
  BY DEF Told, Put, Erase, KnownAfter

\* How the forecast kn changes when a task is queued, when a callback is made
\* directly, and when the oldest task is handled.
LEMMA ForetellEnqueue ==
    ASSUME TypeInv, NEW kn \in [0..Len(handle_task_queue_) -> SUBSET Nat], Foretells(kn),
           NEW t \in Threads, EnqueueTask(t), NEW R \in SUBSET Nat,
           R = KnownAfter(kn[Len(handle_task_queue_)], what[t], nid[t]),
           Fits(kn[Len(handle_task_queue_)], what[t], nid[t])
    PROVE  \E new \in [0..Len(handle_task_queue_') -> SUBSET Nat] :
              Foretells(new)' /\ new[Len(handle_task_queue_')] = R
<1> DEFINE n == Len(handle_task_queue_)
           task == [kind |-> what[t], id |-> nid[t], conn |-> cur[t]]
<1>1. handle_task_queue_' = Append(handle_task_queue_, task) /\ view' = view /\ pc[t] = "tell"
  BY DEF EnqueueTask, Resume, Going
<1>2. handle_task_queue_ \in Seq(Tasks) /\ task \in Tasks
  BY <1>1 DEF TypeInv, TypeOK, AppType, ThreadType, LocalsOK, Tasks
<1>3. task.kind = what[t] /\ task.id = nid[t]
  OBVIOUS
<1> HIDE DEF task
<1>4. n \in Nat /\ Len(handle_task_queue_') = n + 1 /\ handle_task_queue_'[n + 1] = task
      /\ \A i \in 1..n : handle_task_queue_'[i] = handle_task_queue_[i]
  BY <1>1, <1>2, AppendProperties, LenProperties
<1>5. n = Len(handle_task_queue_)
  OBVIOUS
<1> HIDE DEF n
<1>0. PICK new : new = [i \in 0..n + 1 |-> IF i = n + 1 THEN R ELSE kn[i]]
  OBVIOUS
<1>6. /\ new \in [0..n + 1 -> SUBSET Nat] /\ new[n + 1] = R /\ new[0] = kn[0]
      /\ \A i \in 1..n : new[i] = kn[i] /\ new[i - 1] = kn[i - 1]
      /\ new[(n + 1) - 1] = kn[n]
  BY <1>0, <1>4, <1>5
<1>7. \A i \in 1..n + 1 : i \in 1..n \/ i = n + 1
  BY <1>4
<1>8. \A i \in 1..n + 1 :
         /\ Fits(new[i - 1], handle_task_queue_'[i].kind, handle_task_queue_'[i].id)
         /\ new[i] = KnownAfter(new[i - 1], handle_task_queue_'[i].kind, handle_task_queue_'[i].id)
  <2>1. ASSUME NEW i \in 1..n
        PROVE  /\ Fits(new[i - 1], handle_task_queue_'[i].kind, handle_task_queue_'[i].id)
               /\ new[i] = KnownAfter(new[i - 1], handle_task_queue_'[i].kind,
                                      handle_task_queue_'[i].id)
    <3>1. /\ Fits(kn[i - 1], handle_task_queue_[i].kind, handle_task_queue_[i].id)
          /\ kn[i] = KnownAfter(kn[i - 1], handle_task_queue_[i].kind, handle_task_queue_[i].id)
      BY <1>5 DEF Foretells
    <3>2. new[i] = kn[i] /\ new[i - 1] = kn[i - 1] /\ handle_task_queue_'[i] = handle_task_queue_[i]
      BY <1>4, <1>6
    <3> QED BY <3>1, <3>2, Zenon
  <2>2. /\ Fits(new[(n + 1) - 1], handle_task_queue_'[n + 1].kind, handle_task_queue_'[n + 1].id)
        /\ new[n + 1] = KnownAfter(new[(n + 1) - 1], handle_task_queue_'[n + 1].kind,
                                   handle_task_queue_'[n + 1].id)
    BY <1>3, <1>4, <1>5, <1>6, Zenon
  <2> QED BY <1>7, <2>1, <2>2, Zenon
<1>9. Foretells(new)'
  BY <1>1, <1>4, <1>6, <1>8 DEF Foretells, Fits, KnownAfter
<1> QED BY <1>4, <1>6, <1>9

LEMMA ForetellCall ==
    ASSUME DirectInv, NEW kn, Foretells(kn), NEW t \in Threads, CallHandlers(t), NEW R \in SUBSET Nat,
           R = KnownAfter(kn[Len(handle_task_queue_)], what[t], nid[t])
    PROVE  \E new \in [0..Len(handle_task_queue_') -> SUBSET Nat] :
              Foretells(new)' /\ new[Len(handle_task_queue_')] = R
<1>0. PICK new : new = [i \in 0..0 |-> R]
  OBVIOUS
<1>1. handle_task_queue_ = << >> /\ handle_task_queue_' = << >>
  BY DEF DirectInv, CallHandlers
<1>2. view' = Told(what[t], nid[t], cur[t])
  BY DEF CallHandlers
<1>3. R = DOMAIN view'
  BY <1>1, <1>2, ToldDomain DEF Foretells
<1>4. new \in [0..0 -> SUBSET Nat] /\ new[0] = R
  BY <1>0
<1>5. Foretells(new)'
  BY <1>1, <1>3, <1>4 DEF Foretells
<1> QED BY <1>1, <1>4, <1>5

LEMMA ForetellHandle ==
    ASSUME TypeInv, ~overlap, NEW kn \in [0..Len(handle_task_queue_) -> SUBSET Nat], Foretells(kn),
           HandleNetTask
    PROVE  \E new \in [0..Len(handle_task_queue_') -> SUBSET Nat] :
              /\ Foretells(new)'
              /\ new[Len(handle_task_queue_')] = kn[Len(handle_task_queue_)]
<1> DEFINE n == Len(handle_task_queue_)
           task == Head(handle_task_queue_)
<1>1. /\ handle_task_queue_ # << >> /\ handle_task_queue_' = Tail(handle_task_queue_)
      /\ view' = Told(task.kind, task.id, task.conn)
  BY DEF HandleNetTask, Content
<1>2. handle_task_queue_ \in Seq(Tasks)
  BY DEF TypeInv, TypeOK, AppType
<1>3. /\ n \in Nat \ {0} /\ Len(handle_task_queue_') = n - 1 /\ task = handle_task_queue_[1]
      /\ \A i \in 1..n - 1 : handle_task_queue_'[i] = handle_task_queue_[i + 1]
  BY <1>1, <1>2, HeadTailProperties, LenProperties, EmptySeq
<1>4. n = Len(handle_task_queue_)
  OBVIOUS
<1> HIDE DEF n
<1>0. PICK new : new = [i \in 0..n - 1 |-> kn[i + 1]]
  OBVIOUS
<1>5. /\ new \in [0..n - 1 -> SUBSET Nat] /\ new[0] = kn[1] /\ new[n - 1] = kn[n]
      /\ \A i \in 1..n - 1 : new[i] = kn[i + 1] /\ new[i - 1] = kn[(i + 1) - 1]
                             /\ i + 1 \in 1..n
      /\ 1 \in 1..n
  BY <1>0, <1>3, <1>4
<1>6. kn[1] = DOMAIN view'
  <2>1. kn[1] = KnownAfter(kn[1 - 1], handle_task_queue_[1].kind, handle_task_queue_[1].id)
    BY <1>4, <1>5 DEF Foretells
  <2>2. 1 - 1 = 0 /\ kn[0] = DOMAIN view
    BY DEF Foretells
  <2>3. kn[1] = KnownAfter(DOMAIN view, task.kind, task.id)
    BY <1>3, <2>1, <2>2, Zenon
  <2> HIDE DEF task
  <2> QED BY <1>1, <2>3, ToldDomain
<1>7. \A i \in 1..n - 1 :
         /\ Fits(new[i - 1], handle_task_queue_'[i].kind, handle_task_queue_'[i].id)
         /\ new[i] = KnownAfter(new[i - 1], handle_task_queue_'[i].kind, handle_task_queue_'[i].id)
  <2> SUFFICES ASSUME NEW i \in 1..n - 1
               PROVE  /\ Fits(new[i - 1], handle_task_queue_'[i].kind, handle_task_queue_'[i].id)
                      /\ new[i] = KnownAfter(new[i - 1], handle_task_queue_'[i].kind,
                                             handle_task_queue_'[i].id)
    OBVIOUS
  <2>1. LET j == i + 1
        IN  /\ Fits(kn[j - 1], handle_task_queue_[j].kind, handle_task_queue_[j].id)
            /\ kn[j] = KnownAfter(kn[j - 1], handle_task_queue_[j].kind, handle_task_queue_[j].id)
    <3>1. i + 1 \in 1..Len(handle_task_queue_)
      BY <1>4, <1>5
    <3> QED BY <3>1, Zenon DEF Foretells
  <2>2. /\ new[i] = kn[i + 1] /\ new[i - 1] = kn[(i + 1) - 1]
        /\ handle_task_queue_'[i] = handle_task_queue_[i + 1]
    BY <1>3, <1>5
  <2> QED BY <2>1, <2>2, Zenon
<1>8. Foretells(new)'
  BY <1>3, <1>5, <1>6, <1>7 DEF Foretells, Fits, KnownAfter
<1> QED BY <1>3, <1>4, <1>5, <1>8

\* A step either leaves the queue, its mode and what the application knows
\* alone, or is one of those that tell the application something or use the pool of tasks.
LEMMA QueueSteps ==
    ASSUME [Next]_vars
    PROVE  \/ UNCHANGED appVars
           \/ \E t \in Threads : EnqueueTask(t) \/ CallHandlers(t)
           \/ SyncRunning \/ HandleNetTask \/ NetTaskHandled \/ TaskFreed
           \/ \E t \in Threads : AllocTask(t)
<1>1. ASSUME NEW t \in Threads, SocketStep(t)
      PROVE  UNCHANGED appVars \/ AllocTask(t) \/ EnqueueTask(t) \/ CallHandlers(t)
  BY <1>1
  DEF SocketStep, SocketFails, Leave, GetFreeNetID, HandlersReturn, OnRecv, HangUp,
      NothingMoreToRead, OnDisconnect, EraseRoute, BeginPush, EndPush
<1>2. ASSUME NEW a \in Accepts, AcceptStep(a) PROVE UNCHANGED appVars
  BY <1>2 DEF AcceptStep, ListenThread, OnAccept, TellOpen, Forget, AcceptConnection
<1>3. ASSUME NEW c \in Connects, ConnectStep(c) PROVE UNCHANGED appVars
  BY <1>3 DEF ConnectStep, ConnectThread, OnConnect, TellOpen, Arm, TestRunning, Dial
<1>4. ASSUME \/ \E e \in Endpoints : PeerCloses(e)
             \/ \E v \in Users : UserStep(v)
             \/ UNCHANGED vars
      PROVE  UNCHANGED appVars
  BY <1>4 DEF PeerCloses, UserStep, FindEndpoint, UseAccept, UseConnect, vars
<1> QED BY <1>1, <1>2, <1>3, <1>4 DEF Next

LEMMA DirectNext == DirectInv /\ [Next]_vars => DirectInv'
<1> SUFFICES ASSUME DirectInv, [Next]_vars PROVE DirectInv'
  OBVIOUS
<1>1. CASE UNCHANGED appVars \/ (\E t \in Threads : CallHandlers(t)) \/ NetTaskHandled \/ TaskFreed
  <2>1. UNCHANGED <<single_thread_handle_mode_, handle_task_queue_, allocating>>
    BY <1>1, Zenon DEF appVars, poolVars, CallHandlers, NetTaskHandled, TaskFreed
  <2> QED BY <2>1, Zenon DEF DirectInv
<1>2. CASE SyncRunning \/ HandleNetTask \/ \E t \in Threads : AllocTask(t) \/ EnqueueTask(t)
  <2>1. SyncRunning => single_thread_handle_mode_'
    BY Zenon DEF SyncRunning
  <2>2. HandleNetTask \/ (\E t \in Threads : AllocTask(t)) =>
           single_thread_handle_mode_ /\ UNCHANGED single_thread_handle_mode_
    BY DEF HandleNetTask, AllocTask
  <2>3. (\E t \in Threads : EnqueueTask(t)) =>
           allocating # {} /\ UNCHANGED single_thread_handle_mode_
    BY DEF EnqueueTask
  <2>4. single_thread_handle_mode_ /\ UNCHANGED single_thread_handle_mode_ =>
           single_thread_handle_mode_'
    OBVIOUS
  <2>5. single_thread_handle_mode_'
    BY <1>2, <2>1, <2>2, <2>3, <2>4, Zenon DEF DirectInv
  <2> QED BY <2>5, Zenon DEF DirectInv
<1> QED BY <1>1, <1>2, QueueSteps

LEMMA OverlapStays == [Next]_vars /\ overlap => overlap'
<1> SUFFICES ASSUME [Next]_vars, overlap PROVE overlap'
  OBVIOUS
<1>1. UNCHANGED appVars => UNCHANGED overlap
  BY DEF appVars, poolVars
<1>2. ASSUME NEW t \in Threads, AllocTask(t) \/ EnqueueTask(t) \/ CallHandlers(t) PROVE overlap'
  BY <1>2, Zenon DEF AllocTask, EnqueueTask, CallHandlers, poolVars
<1>3. SyncRunning \/ HandleNetTask \/ NetTaskHandled \/ TaskFreed => overlap'
  BY Zenon DEF SyncRunning, HandleNetTask, NetTaskHandled, TaskFreed, poolVars
<1> QED BY <1>1, <1>2, <1>3, QueueSteps

LEMMA RacedStays == [Next]_vars /\ raced => raced'
<1> SUFFICES ASSUME [Next]_vars, raced PROVE raced'
  OBVIOUS
<1>1. ASSUME NEW t \in Threads, SocketStep(t) PROVE raced'
  BY <1>1, Zenon
  DEF SocketStep, SocketFails, Leave, GetFreeNetID, AllocTask, EnqueueTask, CallHandlers,
      HandlersReturn, OnRecv, HangUp, NothingMoreToRead, OnDisconnect, EraseRoute, BeginPush,
      EndPush, idVars
<1>2. ASSUME NEW a \in Accepts, AcceptStep(a) PROVE raced'
  BY <1>2, Zenon
  DEF AcceptStep, ListenThread, OnAccept, TellOpen, Forget, AcceptConnection, idVars
<1>3. ASSUME NEW c \in Connects, ConnectStep(c) PROVE raced'
  BY <1>3, Zenon
  DEF ConnectStep, ConnectThread, OnConnect, TellOpen, Arm, TestRunning, Dial, idVars
<1>4. ASSUME \/ SyncRunning \/ HandleNetTask \/ NetTaskHandled \/ TaskFreed
             \/ \E t \in Threads : AllocTask(t)
             \/ \E e \in Endpoints : PeerCloses(e)
             \/ \E v \in Users : UserStep(v)
             \/ UNCHANGED vars
      PROVE  raced'
  BY <1>4, Zenon
  DEF SyncRunning, HandleNetTask, NetTaskHandled, TaskFreed, AllocTask, PeerCloses, UserStep, FindEndpoint, UseAccept,
      UseConnect, vars, idVars
<1> QED BY <1>1, <1>2, <1>3, <1>4 DEF Next

\* The socket threads' side of a step that tells the application nothing.
LEMMA OrderThreads ==
    ASSUME KeysByOwner, TypeInv, IdInv, ~raced, CurInv, TellOK, NEW S, KnownOK(S), [Next]_vars,
           \A t \in Threads : ~EnqueueTask(t) /\ ~CallHandlers(t)
    PROVE  TellOK' /\ KnownOK(S)'
<1>1. SaysNothing => TellOK' /\ KnownOK(S)'
  BY OrderFrame
<1> USE DEF TypeInv, TypeOK, ThreadType
<1>2. ASSUME NEW t \in Threads,
             SocketFails(t) \/ Leave(t) \/ NothingMoreToRead(t)
      PROVE  SaysNothing
  BY <1>2
  DEF SocketFails, Leave, NothingMoreToRead, Going, Goto, idVars, SaysNothing, Announcing,
      Receiving, Known, Unknown, Holding
<1>3. ASSUME NEW t \in Threads, HandlersReturn(t) PROVE SaysNothing
  BY <1>3
  DEF HandlersReturn, Resume, AfterTell, Going, Goto, LocalsOK, Kinds, idVars, SaysNothing,
      Announcing, Receiving, Known, Unknown, Holding
<1>4. ASSUME NEW t \in Threads, EraseRoute(t) \/ BeginPush(t) PROVE SaysNothing
  BY <1>4
  DEF EraseRoute, BeginPush, Going, Goto, idVars, SaysNothing, Announcing, Receiving, Known,
      Unknown, Holding
<1>5. ASSUME NEW t \in Threads, NEW e \in Endpoints, HangUp(t, e) PROVE SaysNothing
  BY <1>5
  DEF HangUp, Going, Goto, idVars, SaysNothing, Announcing, Receiving, Known, Unknown, Holding
<1>6. ASSUME NEW a \in Accepts, ListenThread(a) \/ Forget(a) PROVE SaysNothing
  BY <1>6, ThreadKinds
  DEF ListenThread, Forget, Going, Goto, idVars, SaysNothing, Announcing, Receiving, Known,
      Unknown, Holding
<1>7. ASSUME NEW a \in Accepts, NEW e \in Endpoints, AcceptConnection(a, e) PROVE SaysNothing
  BY <1>7, ThreadKinds
  DEF AcceptConnection, Opens, Goto, idVars, SaysNothing, Announcing, Receiving, Known, Unknown,
      Holding
<1>8. ASSUME NEW c \in Connects, ConnectThread(c) \/ Arm(c) \/ TestRunning(c) PROVE SaysNothing
  BY <1>8, ThreadKinds
  DEF ConnectThread, Arm, TestRunning, Going, Goto, idVars, SaysNothing, Announcing, Receiving,
      Known, Unknown, Holding
<1>9. ASSUME NEW c \in Connects, NEW e \in Endpoints, Dial(c, e) PROVE SaysNothing
  BY <1>9, ThreadKinds
  DEF Dial, Opens, Goto, idVars, SaysNothing, Announcing, Receiving, Known, Unknown, Holding
<1>10. ASSUME \/ SyncRunning \/ HandleNetTask \/ NetTaskHandled \/ TaskFreed
              \/ \E t \in Threads : AllocTask(t)
              \/ \E e \in Endpoints : PeerCloses(e)
              \/ \E u \in Users : UserStep(u)
              \/ UNCHANGED vars
       PROVE  SaysNothing
  BY <1>10
  DEF SyncRunning, HandleNetTask, NetTaskHandled, TaskFreed, AllocTask, PeerCloses, UserStep, FindEndpoint, UseAccept,
      UseConnect, vars, threadVars, idVars, SaysNothing, Announcing, Receiving, Known, Unknown,
      Holding
<1>11. ASSUME NEW a \in Accepts, OnAccept(a) PROVE TellOK' /\ KnownOK(S)'
  BY <1>11, OrderRegister, ThreadKinds DEF OnAccept
<1>12. ASSUME NEW c \in Connects, OnConnect(c) PROVE TellOK' /\ KnownOK(S)'
  BY <1>12, OrderRegister, ThreadKinds DEF OnConnect
<1> QED
  BY <1>1, <1>2, <1>3, <1>4, <1>5, <1>6, <1>7, <1>8, <1>9, <1>10, <1>11, <1>12,
     OrderGetFreeNetID, OrderOnRecv, OrderOnDisconnect, OrderEndPush
  DEF Next, SocketStep, AcceptStep, ConnectStep

LEMMA OrderNext ==
    ASSUME KeysByOwner, TypeInv, IdInv, CurInv, DirectInv, OrderInv, [Next]_vars
    PROVE  OrderInv'
<1> SUFFICES ASSUME ~raced', ~overlap'
             PROVE  /\ TellOK'
                    /\ \E new \in [0..Len(handle_task_queue_') -> SUBSET Nat], R \in SUBSET Nat :
                          Foretells(new)' /\ R = new[Len(handle_task_queue_')] /\ KnownOK(R)'
  BY DEF OrderInv
<1>1. ~raced /\ ~overlap
  BY RacedStays, OverlapStays
<1>2. TellOK
  BY <1>1 DEF OrderInv
<1>3. PICK kn \in [0..Len(handle_task_queue_) -> SUBSET Nat], S \in SUBSET Nat :
         Foretells(kn) /\ S = kn[Len(handle_task_queue_)] /\ KnownOK(S)
  BY <1>1 DEF OrderInv
<1>4. ASSUME NEW t \in Threads, EnqueueTask(t) \/ CallHandlers(t)
      PROVE  /\ TellOK'
             /\ \E new \in [0..Len(handle_task_queue_') -> SUBSET Nat], R \in SUBSET Nat :
                   Foretells(new)' /\ R = new[Len(handle_task_queue_')] /\ KnownOK(R)'
  <2>1. PICK R : R = KnownAfter(S, what[t], nid[t])
    OBVIOUS
  <2>2. Fits(S, what[t], nid[t]) /\ TellOK' /\ KnownOK(R)'
    BY <1>1, <1>2, <1>3, <1>4, <2>1, OrderTell
  <2>3. R \in SUBSET Nat
    BY <2>2 DEF KnownOK
  <2>4. \E new \in [0..Len(handle_task_queue_') -> SUBSET Nat] :
           Foretells(new)' /\ new[Len(handle_task_queue_')] = R
    <3>1. CASE EnqueueTask(t)
      BY <1>3, <2>1, <2>2, <2>3, <3>1, ForetellEnqueue
    <3>2. CASE CallHandlers(t)
      BY <1>3, <2>1, <2>3, <3>2, ForetellCall
    <3> QED BY <1>4, <3>1, <3>2
  <2> QED BY <2>2, <2>3, <2>4
<1>5. ASSUME \A t \in Threads : ~EnqueueTask(t) /\ ~CallHandlers(t)
      PROVE  /\ TellOK'
             /\ \E new \in [0..Len(handle_task_queue_') -> SUBSET Nat], R \in SUBSET Nat :
                   Foretells(new)' /\ R = new[Len(handle_task_queue_')] /\ KnownOK(R)'
  <2>1. TellOK' /\ KnownOK(S)'
    BY <1>1, <1>2, <1>3, <1>5, OrderThreads
  <2>2. CASE HandleNetTask
    BY <1>1, <1>3, <2>1, <2>2, ForetellHandle
  <2>3. CASE \/ UNCHANGED appVars \/ SyncRunning \/ NetTaskHandled \/ TaskFreed
             \/ \E t \in Threads : AllocTask(t)
    <3>1. UNCHANGED <<handle_task_queue_, view>>
      BY <2>3 DEF appVars, SyncRunning, NetTaskHandled, TaskFreed, AllocTask
    <3>2. Foretells(kn)'
      BY <1>3, <3>1 DEF Foretells
    <3> QED BY <1>3, <2>1, <3>1, <3>2
  <2> QED BY <1>5, <2>2, <2>3, QueueSteps
<1> QED BY <1>4, <1>5

LEMMA InitOrderInv == Init => CurInv /\ DirectInv /\ OrderInv
<1> SUFFICES ASSUME Init PROVE CurInv /\ DirectInv /\ OrderInv
  OBVIOUS
<1>1. CurInv /\ DirectInv
  BY DEF Init, CurInv, DirectInv
<1>2. TellOK
  BY DEF Init, TellOK, Announcing, Receiving
<1>3. PICK kn : kn = [i \in 0..0 |-> {}]
  OBVIOUS
<1>4. Len(handle_task_queue_) = 0 /\ kn \in [0..0 -> SUBSET Nat] /\ kn[0] = {}
  BY <1>3 DEF Init
<1>5. Foretells(kn)
  BY <1>4 DEF Init, Foretells, Empty
<1>6. KnownOK({})
  BY DEF Init, KnownOK, Known, Receiving, Empty
<1> QED BY <1>1, <1>2, <1>4, <1>5, <1>6 DEF OrderInv

\* Only CallHandlers takes a thread from telling to a direct call.
LEMMA CallSteps ==
    ASSUME TypeInv, [Next]_vars, NEW t \in Threads, pc[t] = "tell", pc'[t] = "call"
    PROVE  CallHandlers(t)
<1> USE DEF TypeInv, TypeOK, ThreadType
<1>1. ASSUME NEW u \in Threads, SocketStep(u) PROVE CallHandlers(t)
  <2>1. ASSUME NEW e \in Endpoints, OnRecv(u, e) \/ HangUp(u, e) PROVE FALSE
    BY <2>1 DEF OnRecv, HangUp, Going, Goto
  <2>2. ASSUME EnqueueTask(u) \/ HandlersReturn(u) PROVE FALSE
    BY <2>2 DEF EnqueueTask, HandlersReturn, Resume, AfterTell, Going, Goto, LocalsOK, Kinds
  <2>3. ASSUME \/ SocketFails(u) \/ Leave(u) \/ GetFreeNetID(u) \/ NothingMoreToRead(u)
               \/ AllocTask(u)
        PROVE  FALSE
    BY <2>3 DEF SocketFails, Leave, GetFreeNetID, NothingMoreToRead, AllocTask, threadVars,
                Going, Goto
  <2>4. ASSUME OnDisconnect(u) \/ EraseRoute(u) \/ BeginPush(u) \/ EndPush(u) PROVE FALSE
    BY <2>4 DEF OnDisconnect, EraseRoute, BeginPush, EndPush, AfterDisconnect, Going, Goto
  <2>5. ASSUME CallHandlers(u) PROVE CallHandlers(t)
    <3>1. u = t
      BY <2>5 DEF CallHandlers, Going, Goto
    <3> QED BY <2>5, <3>1
  <2> QED BY <1>1, <2>1, <2>2, <2>3, <2>4, <2>5 DEF SocketStep
<1>2. ASSUME NEW a \in Accepts, AcceptStep(a) PROVE FALSE
  BY <1>2, ThreadKinds
  DEF AcceptStep, ListenThread, OnAccept, TellOpen, Forget, AcceptConnection, Opens, Going, Goto
<1>3. ASSUME NEW c \in Connects, ConnectStep(c) PROVE FALSE
  BY <1>3, ThreadKinds
  DEF ConnectStep, ConnectThread, OnConnect, TellOpen, Arm, TestRunning, Dial, Opens, Going, Goto
<1>4. ASSUME \/ SyncRunning \/ HandleNetTask \/ NetTaskHandled \/ TaskFreed
             \/ \E w \in Threads : AllocTask(w)
             \/ \E e \in Endpoints : PeerCloses(e)
             \/ \E v \in Users : UserStep(v)
             \/ UNCHANGED vars
      PROVE  FALSE
  BY <1>4
  DEF SyncRunning, HandleNetTask, NetTaskHandled, TaskFreed, AllocTask, PeerCloses, UserStep, FindEndpoint, UseAccept,
      UseConnect, vars, threadVars
<1> QED BY <1>1, <1>2, <1>3, <1>4 DEF Next

LEMMA FitsIsExpected == \A k, id : Fits(DOMAIN view, k, id) => Expected(k, id)
  BY DEF Fits, Expected

\* OnAccept/OnConnect only for ids the handler does not know, OnRecv and
\* OnDisconnect only for ids it does, in both modes and however long the queue
\* is - as long as no access to the free stack or to the pool of tasks overlapped
\* another and no two socket objects have connections with equal keys.
THEOREM CallbacksInOrder ==
    ASSUME KeysByOwner
    PROVE  Spec => CallbackOrder
<1> DEFINE OInv == TypeInv /\ IdInv /\ CurInv /\ DirectInv /\ OrderInv
           Step == ~raced /\ ~overlap =>
                      /\ ~handling /\ handling' =>
                            Expected(Head(handle_task_queue_).kind, Head(handle_task_queue_).id)
                      /\ \A t \in Threads : pc[t] = "tell" /\ pc'[t] = "call" =>
                            Expected(what[t], nid[t])
<1>1. Init => OInv
  BY InitTypeInv, InitIdInv, InitOrderInv
<1>2. OInv /\ [Next]_vars => OInv'
  BY TypeNext, IdNext, CurNext, DirectNext, OrderNext
<1>3. OInv /\ [Next]_vars => [Step]_vars
  <2> SUFFICES ASSUME OInv, [Next]_vars, ~raced, ~overlap
               PROVE  /\ ~handling /\ handling' =>
                            Expected(Head(handle_task_queue_).kind, Head(handle_task_queue_).id)
                      /\ \A t \in Threads : pc[t] = "tell" /\ pc'[t] = "call" =>
                            Expected(what[t], nid[t])
    OBVIOUS
  <2>1. TellOK
    BY DEF OrderInv
  <2>2. PICK kn \in [0..Len(handle_task_queue_) -> SUBSET Nat], S \in SUBSET Nat :
           Foretells(kn) /\ S = kn[Len(handle_task_queue_)] /\ KnownOK(S)
    BY DEF OrderInv
  <2>3. ASSUME ~handling, handling'
        PROVE  Expected(Head(handle_task_queue_).kind, Head(handle_task_queue_).id)
    <3>1. HandleNetTask
      <4>1. ~(handling' = handling)
        BY <2>3, Zenon
      <4>2. \A t \in Threads : EnqueueTask(t) \/ CallHandlers(t) => handling' = handling
        BY DEF EnqueueTask, CallHandlers
      <4>3. UNCHANGED appVars \/ SyncRunning \/ (\E t \in Threads : AllocTask(t))
               => handling' = handling
        BY DEF appVars, SyncRunning, AllocTask
      <4>4. ~NetTaskHandled /\ (TaskFreed => handling' = handling)
        BY <2>3, Zenon DEF NetTaskHandled, TaskFreed
      <4> QED BY <4>1, <4>2, <4>3, <4>4, QueueSteps
    <3>2. /\ handle_task_queue_ \in Seq(Tasks) /\ handle_task_queue_ # << >>
      BY <3>1 DEF HandleNetTask, TypeInv, TypeOK, AppType
    <3>3. 1 \in 1..Len(handle_task_queue_) /\ Head(handle_task_queue_) = handle_task_queue_[1]
      BY <3>2
    <3>4. Fits(kn[1 - 1], handle_task_queue_[1].kind, handle_task_queue_[1].id)
      BY <2>2, <3>3 DEF Foretells
    <3>5. kn[1 - 1] = DOMAIN view
      BY <2>2 DEF Foretells
    <3>6. Fits(DOMAIN view, Head(handle_task_queue_).kind, Head(handle_task_queue_).id)
      BY <3>3, <3>4, <3>5, Zenon
    <3> QED BY <3>6, FitsIsExpected
  <2>4. ASSUME NEW t \in Threads, pc[t] = "tell", pc'[t] = "call" PROVE Expected(what[t], nid[t])
    <3>1. CallHandlers(t)
      BY <2>4, CallSteps
    <3>2. handle_task_queue_ = << >>
      BY <3>1 DEF CallHandlers, DirectInv
    <3>3. S = DOMAIN view
      BY <2>2, <3>2 DEF Foretells
    <3>4. PICK R : R = KnownAfter(S, what[t], nid[t])
      OBVIOUS
    <3>5. Fits(S, what[t], nid[t])
      BY <2>1, <2>2, <3>1, <3>4, OrderTell
    <3> QED BY <3>3, <3>5, FitsIsExpected
  <2> QED BY <2>3, <2>4
<1>4. CallbackOrder <=> [][Step]_vars
  BY DEF CallbackOrder
<1> QED BY <1>1, <1>2, <1>3, <1>4, PTL DEF Spec

=============================================================================
