----------------------------- MODULE RpcSession -----------------------------
(***************************************************************************)
(* RPCSession: asynchronous calls over one connection.  Each AsyncCall     *)
(* runs on a thread of its own or, called from OnCallBack, on the network  *)
(* thread, which also runs OnRecv.  The peer is an RPCSession as well; its *)
(* part is what it does with a request: an answer of each of its handlers, *)
(* or none of a handler that fails.                                        *)
(*                                                                         *)
(* The packages of a connection arrive in order and once.  A request is    *)
(* named by its IRpcRequest object; an answer carries, as a ghost, the     *)
(* request it is for.                                                      *)
(***************************************************************************)
EXTENDS Naturals, Sequences

CONSTANTS Requests,   \* IRpcRequest objects, each given to AsyncCall once
          Handlers,   \* number of handlers registered with the peer's session
          MaxId,      \* SHRT_MAX: request ids are 0 .. MaxId - 1
          Net,        \* the network thread
          None

ASSUME RpcAssumption ==
    /\ Net \notin Requests /\ None \notin Requests \cup {Net}
    /\ Handlers \in Nat /\ MaxId \in Nat \ {0}

Threads == Requests \cup {Net}

VARIABLES
    next_request_id, free_request_id_stack,
    request_list,             \* request_list_: request id -> request
    send_lock, request_lock,  \* holder of the recursive mutexes, or None
    pc, rid, thread,          \* of the AsyncCall of each request
    current, answer,          \* OnRecv: the request in OnCallBack and its answer
    to_peer, from_peer,       \* packages under way
    up,                       \* the connection is up
    got,                      \* ghost: the answers that OnCallBack was given
    fresh,                    \* ghost: ids made by next_request_id_ ++
    early,                    \* ghost: requests answered before they were listed
    doubled                   \* ghost: two handlers have answered one request

idVars == <<next_request_id, free_request_id_stack, fresh>>
callVars == <<pc, rid, thread>>
recvVars == <<current, answer, got, early>>
wireVars == <<to_peer, from_peer, up, doubled>>
lockVars == <<send_lock, request_lock>>
vars == <<idVars, request_list, lockVars, callVars, recvVars, wireVars>>

Init ==
    /\ next_request_id = 0 /\ free_request_id_stack = << >> /\ fresh = 0
    /\ request_list = [i \in {} |-> None]
    /\ send_lock = None /\ request_lock = None
    /\ pc = [r \in Requests |-> "new"] /\ rid = [r \in Requests |-> 0]
    /\ thread = [r \in Requests |-> None]
    /\ current = None /\ answer = None
    /\ to_peer = << >> /\ from_peer = << >> /\ up = TRUE
    /\ got = [r \in Requests |-> << >>] /\ early = {} /\ doubled = FALSE

\* Mutex::Lock on a recursive mutex; the holder gets it again.
Free(lock, t) == lock \in {None, t}

-----------------------------------------------------------------------------
(* AsyncCall. *)

\* No data, or more than fits: the request is deleted.
GiveUp(r) ==
    /\ pc[r] = "new"
    /\ pc' = [pc EXCEPT ![r] = "deleted"]
    /\ UNCHANGED <<idVars, request_list, lockVars, rid, thread, recvVars, wireVars>>

NextId(id) == (id + 1) % MaxId

\* The first calls of AsyncCall up to GetRequestID, on thread t: a thread of
\* the caller, or the network thread while it is in OnCallBack.
GetRequestID(r, t) ==
    /\ pc[r] = "new"
    /\ t = r \/ (t = Net /\ current # None)
    /\ \A s \in Requests : thread[s] = t => pc[s] = "done"
    /\ thread' = [thread EXCEPT ![r] = t]
    /\ IF free_request_id_stack = << >>
       THEN /\ rid' = [rid EXCEPT ![r] = next_request_id]
            /\ next_request_id' = NextId(next_request_id)
            /\ fresh' = fresh + 1
            /\ UNCHANGED free_request_id_stack
       ELSE /\ rid' = [rid EXCEPT ![r] = free_request_id_stack[Len(free_request_id_stack)]]
            /\ free_request_id_stack' =
                  SubSeq(free_request_id_stack, 1, Len(free_request_id_stack) - 1)
            /\ UNCHANGED <<next_request_id, fresh>>
    /\ pc' = [pc EXCEPT ![r] = "lock"]
    /\ UNCHANGED <<request_list, lockVars, recvVars, wireVars>>

\* message_buffer_ is filled and sent under send_message_lock_.
SendRequest(r) ==
    /\ pc[r] = "lock"
    /\ Free(send_lock, thread[r])
    /\ send_lock' = thread[r]
    /\ to_peer' = IF up THEN Append(to_peer, [id |-> rid[r], req |-> r]) ELSE to_peer
    /\ pc' = [pc EXCEPT ![r] = "list"]
    /\ UNCHANGED <<idVars, request_list, request_lock, rid, thread, recvVars, from_peer, up, doubled>>

\* The request is listed only after it was sent.
ListRequest(r) ==
    /\ pc[r] = "list"
    /\ Free(request_lock, thread[r])
    /\ request_list' = [i \in DOMAIN request_list \cup {rid[r]} |->
                           IF i = rid[r] THEN r ELSE request_list[i]]
    /\ send_lock' = None
    /\ pc' = [pc EXCEPT ![r] = "done"]
    /\ UNCHANGED <<idVars, request_lock, rid, thread, recvVars, wireVars>>

-----------------------------------------------------------------------------
(* The peer: OnRecv of a request. *)

\* Each handler that returns 0 and has data to return is answered for.
HandleCalls(n) ==
    /\ to_peer # << >>
    /\ to_peer' = Tail(to_peer)
    /\ from_peer' = from_peer \o [i \in 1..n |-> Head(to_peer)]
    /\ doubled' = (doubled \/ n > 1)
    /\ UNCHANGED <<idVars, request_list, lockVars, callVars, recvVars, up>>

\* The connection closes; the session keeps its lists and its network_id_.
Disconnected ==
    /\ up
    /\ up' = FALSE /\ to_peer' = << >> /\ from_peer' = << >>
    /\ UNCHANGED <<idVars, request_list, lockVars, callVars, recvVars, doubled>>

-----------------------------------------------------------------------------
(* OnRecv of a response, under request_lock_ from beginning to end. *)

\* No request has this id: nothing happens.
DropAnswer ==
    /\ current = None
    /\ from_peer # << >>
    /\ Free(request_lock, Net)
    /\ Head(from_peer).id \notin DOMAIN request_list
    /\ from_peer' = Tail(from_peer)
    /\ early' = IF pc[Head(from_peer).req] = "list" THEN early \cup {Head(from_peer).req}
                ELSE early
    /\ UNCHANGED <<idVars, request_list, lockVars, callVars, current, answer, got,
                   to_peer, up, doubled>>

\* Faulty variant: the oldest request is called back, whatever the id.
FoundAny(id) == request_list[CHOOSE i \in DOMAIN request_list : TRUE]
Found(id) == request_list[id]

OnCallBack ==
    /\ current = None
    /\ from_peer # << >>
    /\ Free(request_lock, Net)
    /\ Head(from_peer).id \in DOMAIN request_list
    /\ from_peer' = Tail(from_peer)
    /\ request_lock' = Net
    /\ current' = Found(Head(from_peer).id)
    /\ answer' = Head(from_peer)
    /\ got' = [got EXCEPT ![current'] = Append(@, Head(from_peer).req)]
    /\ UNCHANGED <<idVars, request_list, send_lock, callVars, early, to_peer, up, doubled>>

\* Faulty variant: the request stays in the list.
KeepsRequest(id) == request_list
WithoutRequest(id) == [i \in DOMAIN request_list \ {id} |-> request_list[i]]

\* Faulty variant: returns with request_lock_ held.
KeepsLock == Net
Released == None

\* OnCallBack returns, and with it every AsyncCall it made: the request is
\* deleted and its id is free.
CallBackReturns ==
    /\ current # None
    /\ \A r \in Requests : thread[r] = Net => pc[r] = "done"
    /\ request_list' = WithoutRequest(answer.id)
    /\ free_request_id_stack' = Append(free_request_id_stack, answer.id)
    /\ request_lock' = Released
    /\ current' = None /\ answer' = None
    /\ UNCHANGED <<next_request_id, fresh, send_lock, callVars, got, early, wireVars>>

-----------------------------------------------------------------------------
Call(r) == SendRequest(r) \/ ListRequest(r)
OnRecv == DropAnswer \/ OnCallBack \/ CallBackReturns

Next ==
    \/ \E r \in Requests : GiveUp(r) \/ Call(r) \/ \E t \in {r, Net} : GetRequestID(r, t)
    \/ \E n \in 0..Handlers : HandleCalls(n)
    \/ Disconnected \/ OnRecv

Spec == Init /\ [][Next]_vars

\* Threads that can run do, and the network thread keeps reading.
FairSpec ==
    /\ Spec
    /\ \A r \in Requests : WF_vars(Call(r))
    /\ WF_vars(OnRecv)

-----------------------------------------------------------------------------
\* More ids were made than there are: next_request_id_ has wrapped around and
\* may be in use.
Wrapped == fresh > MaxId

\* A call has its id from GetRequestID until its answer has been handled.
Holds(r) == pc[r] \in {"lock", "list"} \/ \E i \in DOMAIN request_list : request_list[i] = r

\* Calls under way have different ids, and none of these is free; the entry
\* of a request is under its own id.  This is up to the wrap-around, and needs
\* that no request is answered twice.
RequestIdsDistinct ==
    ~ Wrapped /\ ~ doubled =>
       /\ \A r \in Requests : Holds(r) =>
             /\ \A s \in Requests \ {r} : Holds(s) => rid[s] # rid[r]
             /\ \A i \in 1..Len(free_request_id_stack) : free_request_id_stack[i] # rid[r]
       /\ \A i \in DOMAIN request_list : rid[request_list[i]] = i

\* A request is called back with its own answer, once: up to the wrap-around
\* and unless some request was answered twice.
AnswerIsForRequest ==
    ~ Wrapped /\ ~ doubled => \A r \in Requests : got[r] \in {<< >>, <<r>>}

\* A callback has called AsyncCall while another thread is between the two
\* locks: the network thread has request_lock_ and waits for
\* send_message_lock_, the other has that and waits for request_lock_.
Crossed ==
    \E r, s \in Requests :
       /\ thread[r] = Net /\ pc[r] = "lock"
       /\ thread[s] = s /\ pc[s] = "list"

\* A request that was answered is called back with this answer, unless the
\* connection closed, the answer was there before the request was listed, the
\* ids wrapped around, a request was answered twice or two threads wait for
\* each other.
AnswerArrives ==
    \A r \in Requests :
       (\E i \in 1..Len(from_peer) : from_peer[i].req = r) ~>
          \/ \E i \in 1..Len(got[r]) : got[r][i] = r
          \/ ~ up \/ r \in early \/ Wrapped \/ doubled \/ Crossed

\* AsyncCall returns: the crossed locks are the only way to be stuck in it.
AsyncCallReturns ==
    \A r \in Requests : pc[r] \in {"lock", "list"} ~> (pc[r] = "done" \/ Crossed)

=============================================================================
