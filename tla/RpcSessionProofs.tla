-------------------------- MODULE RpcSessionProofs --------------------------
(***************************************************************************)
(* Proofs about RpcSession, for any number of requests, handlers and ids.  *)
(***************************************************************************)
EXTENDS RpcSession, SequenceTheorems, TLAPS

Ids == 0..(MaxId - 1)
Package == [id : Ids, req : Requests]

TypeInv ==
    /\ next_request_id \in Ids /\ free_request_id_stack \in Seq(Ids) /\ fresh \in Nat
    /\ DOMAIN request_list \subseteq Ids
    /\ \A i \in DOMAIN request_list : request_list[i] \in Requests
    /\ pc \in [Requests -> {"new", "deleted", "lock", "list", "done"}]
    /\ rid \in [Requests -> Ids]
    /\ current \in Requests \cup {None} /\ (current # None => answer \in Package)
    /\ to_peer \in Seq(Package) /\ from_peer \in Seq(Package)
    /\ got \in [Requests -> Seq(Requests)]

\* Ids that are held or free have been made, each once, and are in one place.
IdInv ==
    /\ fresh < MaxId => next_request_id = fresh
    /\ \A i \in DOMAIN request_list :
          rid[request_list[i]] = i /\ pc[request_list[i]] = "done"
    /\ \A r, s \in Requests : Holds(r) /\ Holds(s) /\ rid[r] = rid[s] => r = s
    /\ \A r \in Requests : Holds(r) =>
          /\ rid[r] < fresh
          /\ \A i \in 1..Len(free_request_id_stack) : free_request_id_stack[i] # rid[r]
    /\ \A i \in 1..Len(free_request_id_stack) : free_request_id_stack[i] < fresh
    /\ \A i, j \in 1..Len(free_request_id_stack) :
          free_request_id_stack[i] = free_request_id_stack[j] => i = j

Held == {r \in Requests : Holds(r)}

\* A package under way is for a request that still has its id and has not been
\* called back; there is at most one of each request.
InFlight(q) ==
    /\ \A j \in 1..Len(q) :
          /\ q[j].id = rid[q[j].req]
          /\ pc[q[j].req] \in {"list", "done"} /\ q[j].req \in Held
          /\ got[q[j].req] = << >>
    /\ \A j, k \in 1..Len(q) : q[j].req = q[k].req => j = k

PackInv ==
    /\ InFlight(to_peer) /\ InFlight(from_peer)
    /\ \A j \in 1..Len(to_peer), k \in 1..Len(from_peer) : to_peer[j].req # from_peer[k].req

\* A request that was called back and still has its id is the one in OnCallBack.
CallInv ==
    /\ \A r \in Requests : got[r] \in {<< >>, <<r>>}
    /\ \A r \in Requests : pc[r] \in {"new", "lock"} => got[r] = << >>
    /\ \A r \in Requests : Holds(r) /\ got[r] # << >> => r = current
    /\ current # None =>
          /\ answer.id = rid[current] /\ got[current] # << >>
          /\ answer.id \in DOMAIN request_list /\ request_list[answer.id] = current

Inv == TypeInv /\ (~ Wrapped /\ ~ doubled => IdInv /\ PackInv /\ CallInv)

-----------------------------------------------------------------------------
LEMMA PopSeq ==
    ASSUME NEW S, NEW s \in Seq(S), s # << >>
    PROVE  /\ Len(s) \in Nat \ {0} /\ s[Len(s)] \in S
           /\ SubSeq(s, 1, Len(s) - 1) \in Seq(S)
           /\ Len(SubSeq(s, 1, Len(s) - 1)) = Len(s) - 1
           /\ \A i \in 1..(Len(s) - 1) : SubSeq(s, 1, Len(s) - 1)[i] = s[i]
<1>1. Len(s) \in Nat \ {0}
  BY EmptySeq
<1> DEFINE n == Len(s)
<1>2. \A i \in 1..n : s[i] \in S
  BY ElementOfSeq
<1>3. \A i \in 1..(n - 1) : s[i] \in S
  BY <1>1, <1>2
<1>4. 1 \in 1..(Len(s) + 1) /\ n - 1 \in (1 - 1)..Len(s)
  BY <1>1
<1>5. /\ SubSeq(s, 1, n - 1) \in Seq(S)
      /\ Len(SubSeq(s, 1, n - 1)) = IF 1 <= n - 1 THEN n - 1 - 1 + 1 ELSE 0
      /\ \A i \in 1..(n - 1 - 1 + 1) : SubSeq(s, 1, n - 1)[i] = s[1 + i - 1]
  BY <1>3, <1>4, SubSeqProperties
<1> HIDE DEF n
<1>6. n \in Nat \ {0}
  BY <1>1 DEF n
<1>7. Len(SubSeq(s, 1, n - 1)) = n - 1 /\ \A i \in 1..(n - 1) : SubSeq(s, 1, n - 1)[i] = s[i]
  BY <1>5, <1>6
<1> QED BY <1>1, <1>2, <1>5, <1>6, <1>7 DEF n

LEMMA TailSeq ==
    ASSUME NEW S, NEW s \in Seq(S), s # << >>
    PROVE  /\ Len(s) \in Nat \ {0} /\ Head(s) = s[1] /\ Head(s) \in S
           /\ Tail(s) \in Seq(S) /\ Len(Tail(s)) = Len(s) - 1
           /\ \A i \in 1..Len(Tail(s)) : i + 1 \in 1..Len(s) /\ Tail(s)[i] = s[i + 1]
<1>1. Len(s) \in Nat \ {0}
  BY EmptySeq
<1> QED BY <1>1, HeadTailProperties, ElementOfSeq

LEMMA AppendSeq ==
    ASSUME NEW S, NEW s \in Seq(S), NEW x \in S
    PROVE  /\ Append(s, x) \in Seq(S) /\ Len(s) \in Nat /\ Len(Append(s, x)) = Len(s) + 1
           /\ \A i \in 1..Len(s) : Append(s, x)[i] = s[i]
           /\ Append(s, x)[Len(s) + 1] = x
  BY AppendProperties

LEMMA ModSmall == ASSUME NEW x \in Nat, NEW m \in Nat, x < m PROVE x % m = x
  OBVIOUS

LEMMA NextIdType == \A i \in Ids : NextId(i) \in Ids
  BY RpcAssumption DEF NextId, Ids

LEMMA InitInv == Init => Inv
<1> SUFFICES ASSUME Init PROVE Inv
  OBVIOUS
<1>1. 0 \in Ids /\ MaxId \in Nat \ {0}
  BY RpcAssumption DEF Ids
<1>2. TypeInv
  BY <1>1 DEF Init, TypeInv
<1>3. IdInv
  BY <1>1 DEF Init, IdInv, Holds
<1>4. PackInv /\ CallInv
  BY DEF Init, PackInv, InFlight, CallInv, Holds
<1> QED BY <1>2, <1>3, <1>4 DEF Inv

LEMMA TypeNext == TypeInv /\ [Next]_vars => TypeInv'
<1> SUFFICES ASSUME TypeInv, [Next]_vars PROVE TypeInv'
  OBVIOUS
<1> USE DEF TypeInv
<1>1. ASSUME NEW r \in Requests, GiveUp(r) PROVE TypeInv'
  BY <1>1 DEF GiveUp, idVars, recvVars, wireVars
<1>2. ASSUME NEW r \in Requests, NEW t \in {r, Net}, GetRequestID(r, t) PROVE TypeInv'
  <2>1. CASE free_request_id_stack = << >>
    <3>1. /\ rid' = [rid EXCEPT ![r] = next_request_id]
          /\ next_request_id' = NextId(next_request_id)
          /\ fresh' = fresh + 1 /\ UNCHANGED free_request_id_stack
      BY <1>2, <2>1 DEF GetRequestID
    <3>2. next_request_id' \in Ids
      BY <3>1, NextIdType
    <3> QED BY <1>2, <3>1, <3>2 DEF GetRequestID, recvVars, wireVars
  <2>2. CASE free_request_id_stack # << >>
    <3> DEFINE top == free_request_id_stack[Len(free_request_id_stack)]
    <3>0. free_request_id_stack' =
             SubSeq(free_request_id_stack, 1, Len(free_request_id_stack) - 1)
      BY <1>2, <2>2 DEF GetRequestID
    <3>1. top \in Ids /\ free_request_id_stack' \in Seq(Ids)
      BY ONLY free_request_id_stack \in Seq(Ids), <2>2, <3>0, PopSeq
    <3>2. rid' = [rid EXCEPT ![r] = top] /\ UNCHANGED <<next_request_id, fresh>>
      BY <1>2, <2>2 DEF GetRequestID
    <3> HIDE DEF top
    <3> QED BY <1>2, <3>1, <3>2 DEF GetRequestID, recvVars, wireVars
  <2> QED BY <2>1, <2>2
<1>3. ASSUME NEW r \in Requests, SendRequest(r) PROVE TypeInv'
  <2>1. [id |-> rid[r], req |-> r] \in Package
    BY DEF Package
  <2>2. to_peer' \in Seq(Package)
    BY <1>3, <2>1, AppendSeq DEF SendRequest
  <2> QED BY <1>3, <2>2 DEF SendRequest, idVars, recvVars
<1>4. ASSUME NEW r \in Requests, ListRequest(r) PROVE TypeInv'
  BY <1>4 DEF ListRequest, idVars, recvVars, wireVars
<1>5. ASSUME NEW n \in 0..Handlers, HandleCalls(n) PROVE TypeInv'
  <2>1. Head(to_peer) \in Package /\ Tail(to_peer) \in Seq(Package)
    BY <1>5, TailSeq DEF HandleCalls
  <2>2. n \in Nat
    BY RpcAssumption
  <2>3. [i \in 1..n |-> Head(to_peer)] \in Seq(Package)
    BY <2>1, <2>2, IsASeq
  <2>4. from_peer' \in Seq(Package)
    BY <1>5, <2>3, ConcatProperties DEF HandleCalls
  <2> QED BY <1>5, <2>1, <2>4 DEF HandleCalls, idVars, callVars, recvVars
<1>6. ASSUME Disconnected PROVE TypeInv'
  BY <1>6 DEF Disconnected, idVars, callVars, recvVars
<1>7. ASSUME DropAnswer PROVE TypeInv'
  BY <1>7, TailSeq DEF DropAnswer, idVars, callVars
<1>8. ASSUME OnCallBack PROVE TypeInv'
  <2>1. Head(from_peer) \in Package /\ Tail(from_peer) \in Seq(Package)
    BY <1>8, TailSeq DEF OnCallBack
  <2>2. current' \in Requests /\ Head(from_peer).req \in Requests
    BY <1>8, <2>1 DEF OnCallBack, Found, Package
  <2>3. Append(got[current'], Head(from_peer).req) \in Seq(Requests)
    BY <2>2, AppendSeq
  <2> QED BY <1>8, <2>1, <2>2, <2>3 DEF OnCallBack, idVars, callVars
<1>9. ASSUME CallBackReturns PROVE TypeInv'
  <2>1. answer.id \in Ids
    BY <1>9 DEF CallBackReturns, Package
  <2>2. free_request_id_stack' \in Seq(Ids)
    BY <1>9, <2>1, AppendSeq DEF CallBackReturns
  <2> QED BY <1>9, <2>2 DEF CallBackReturns, WithoutRequest, callVars, wireVars
<1>10. CASE UNCHANGED vars
  BY <1>10 DEF vars, idVars, callVars, recvVars, wireVars
<1> QED
  BY <1>1, <1>2, <1>3, <1>4, <1>5, <1>6, <1>7, <1>8, <1>9, <1>10 DEF Next, Call, OnRecv

-----------------------------------------------------------------------------
\* Before the wrap-around and the first double answer.
Plain == ~ Wrapped /\ ~ doubled
Body == IdInv /\ PackInv /\ CallInv

LEMMA PackagesType ==
    ASSUME TypeInv
    PROVE  /\ \A j \in 1..Len(to_peer) : to_peer[j].req \in Requests
           /\ \A j \in 1..Len(from_peer) : from_peer[j].req \in Requests
<1>1. /\ \A j \in 1..Len(to_peer) : to_peer[j] \in Package
      /\ \A j \in 1..Len(from_peer) : from_peer[j] \in Package
  BY ElementOfSeq DEF TypeInv
<1> QED BY <1>1 DEF Package

\* Packages that stay as they are stay in flight, if what they need of their
\* requests stays.
LEMMA PackKept ==
    ASSUME TypeInv, PackInv, UNCHANGED <<to_peer, from_peer>>,
           \A r \in Requests :
              Holds(r) /\ pc[r] \in {"list", "done"} /\ got[r] = << >> =>
                 /\ Holds(r)' /\ pc'[r] \in {"list", "done"} /\ got'[r] = << >>
                 /\ rid'[r] = rid[r]
    PROVE  PackInv'
  BY PackagesType DEF PackInv, InFlight, Held

LEMMA BodyGiveUp ==
    ASSUME TypeInv, Body, NEW r \in Requests, GiveUp(r)
    PROVE  Body'
<1>1. /\ pc[r] = "new" /\ pc' = [pc EXCEPT ![r] = "deleted"]
      /\ UNCHANGED <<idVars, request_list, rid, recvVars, wireVars>>
  BY DEF GiveUp
<1>2. \A s \in Requests : Holds(s)' <=> Holds(s)
  BY <1>1 DEF TypeInv, Holds
<1>3. IdInv'
  BY <1>1, <1>2 DEF TypeInv, Body, IdInv, idVars
<1>4. PackInv'
  BY <1>1, <1>2, PackKept DEF TypeInv, Body, recvVars, wireVars
<1>5. CallInv'
  BY <1>1, <1>2 DEF TypeInv, Body, CallInv, recvVars
<1> QED BY <1>3, <1>4, <1>5 DEF Body

\* The id that GetRequestID returns is neither held nor on the stack.
LEMMA NewId ==
    ASSUME TypeInv, Body, ~ Wrapped', NEW r \in Requests, NEW t, GetRequestID(r, t)
    PROVE  /\ rid' = [rid EXCEPT ![r] = rid'[r]] /\ rid'[r] \in Ids
           /\ \A s \in Requests : Holds(s) => rid[s] # rid'[r]
           /\ rid'[r] < fresh' /\ fresh <= fresh' /\ fresh' \in Nat
           /\ fresh' < MaxId => next_request_id' = fresh'
           /\ Len(free_request_id_stack') <= Len(free_request_id_stack)
           /\ \A i \in 1..Len(free_request_id_stack') :
                 /\ free_request_id_stack'[i] = free_request_id_stack[i]
                 /\ free_request_id_stack'[i] # rid'[r]
<1>1. CASE free_request_id_stack = << >>
  <2>1. /\ rid' = [rid EXCEPT ![r] = next_request_id]
        /\ next_request_id' = NextId(next_request_id)
        /\ fresh' = fresh + 1 /\ UNCHANGED free_request_id_stack
    BY <1>1 DEF GetRequestID
  <2>2. fresh \in Nat /\ MaxId \in Nat /\ fresh < MaxId
    BY <2>1, RpcAssumption DEF TypeInv, Wrapped
  <2>3. next_request_id = fresh
    BY <2>2 DEF Body, IdInv
  <2>4. fresh' < MaxId => next_request_id' = fresh'
    BY <2>1, <2>2, <2>3, ModSmall DEF NextId
  <2>5. rid'[r] = fresh
    BY <2>1, <2>3 DEF TypeInv
  <2>6. \A s \in Requests : Holds(s) => rid[s] < fresh
    BY DEF Body, IdInv
  <2>7. \A i \in 1..Len(free_request_id_stack) : FALSE
    BY <1>1
  <2>8. rid \in [Requests -> Ids] /\ next_request_id \in Ids
    BY DEF TypeInv
  <2> QED BY <1>1, <2>1, <2>2, <2>4, <2>5, <2>6, <2>7, <2>8 DEF Ids
<1>2. CASE free_request_id_stack # << >>
  <2> DEFINE n == Len(free_request_id_stack)
             top == free_request_id_stack[n]
  <2>1. /\ rid' = [rid EXCEPT ![r] = top] /\ UNCHANGED <<next_request_id, fresh>>
        /\ free_request_id_stack' = SubSeq(free_request_id_stack, 1, n - 1)
    BY <1>2 DEF GetRequestID
  <2>2. /\ n \in Nat \ {0} /\ top \in Ids /\ Len(free_request_id_stack') = n - 1
        /\ \A i \in 1..(n - 1) : free_request_id_stack'[i] = free_request_id_stack[i]
    BY <1>2, <2>1, PopSeq DEF TypeInv
  <2>3. /\ \A s \in Requests : Holds(s) => rid[s] # top
        /\ top < fresh /\ \A i \in 1..(n - 1) : free_request_id_stack[i] # top
        /\ fresh < MaxId => next_request_id = fresh
    BY <2>2 DEF Body, IdInv
  <2>4. rid \in [Requests -> Ids] /\ fresh \in Nat
    BY DEF TypeInv
  <2> HIDE DEF top, n
  <2>5. rid'[r] = top
    BY <2>1, <2>4
  <2>6. n - 1 <= n
    BY <2>2
  <2> QED BY <2>1, <2>2, <2>3, <2>4, <2>5, <2>6 DEF n
<1> QED BY <1>1, <1>2

LEMMA BodyGetRequestID ==
    ASSUME TypeInv, Body, ~ Wrapped', NEW r \in Requests, NEW t, GetRequestID(r, t)
    PROVE  Body'
<1>1. /\ pc[r] = "new" /\ pc' = [pc EXCEPT ![r] = "lock"]
      /\ UNCHANGED <<request_list, recvVars, wireVars>>
  BY DEF GetRequestID
<1>2. /\ rid' = [rid EXCEPT ![r] = rid'[r]] /\ rid'[r] \in Ids
      /\ \A s \in Requests : Holds(s) => rid[s] # rid'[r]
      /\ rid'[r] < fresh' /\ fresh <= fresh' /\ fresh' \in Nat
      /\ fresh' < MaxId => next_request_id' = fresh'
      /\ Len(free_request_id_stack') <= Len(free_request_id_stack)
      /\ \A i \in 1..Len(free_request_id_stack') :
            /\ free_request_id_stack'[i] = free_request_id_stack[i]
            /\ free_request_id_stack'[i] # rid'[r]
  BY NewId
<1>3. \A i \in DOMAIN request_list : request_list[i] # r
  BY <1>1 DEF Body, IdInv
<1>4. Holds(r)' /\ \A s \in Requests \ {r} : Holds(s)' <=> Holds(s)
  BY <1>1 DEF TypeInv, Holds
<1>5. \A s \in Requests \ {r} : rid'[s] = rid[s] /\ pc'[s] = pc[s]
  BY <1>1, <1>2 DEF TypeInv
<1>6. 1..Len(free_request_id_stack') \subseteq 1..Len(free_request_id_stack)
  <2>1. Len(free_request_id_stack) \in Nat
    BY DEF TypeInv
  <2> QED BY <1>2, <2>1
<1>7. IdInv'
  <2>1. \A i \in DOMAIN request_list' :
           rid'[request_list'[i]] = i /\ pc'[request_list'[i]] = "done"
    BY <1>1, <1>3, <1>5 DEF TypeInv, Body, IdInv
  <2>2. \A s \in Requests : rid[s] \in Nat
    BY RpcAssumption DEF TypeInv, Ids
  <2>3. \A p, q \in Requests : Holds(p)' /\ Holds(q)' /\ rid'[p] = rid'[q] => p = q
    BY <1>2, <1>4, <1>5 DEF Body, IdInv
  <2>4. ASSUME NEW s \in Requests, Holds(s)' PROVE rid'[s] < fresh'
    <3>1. CASE s = r
      BY <1>2, <3>1
    <3>2. CASE s # r
      <4>1. rid[s] < fresh /\ rid[s] \in Nat /\ rid'[s] = rid[s] /\ fresh \in Nat
        BY <1>4, <1>5, <2>2, <2>4, <3>2 DEF TypeInv, Body, IdInv
      <4> QED BY <1>2, <4>1
    <3> QED BY <3>1, <3>2
  <2>5. \A s \in Requests : Holds(s)' =>
           \A i \in 1..Len(free_request_id_stack') : free_request_id_stack'[i] # rid'[s]
    BY <1>2, <1>4, <1>5, <1>6 DEF Body, IdInv
  <2>6. \A i \in 1..Len(free_request_id_stack) :
           free_request_id_stack[i] \in Nat /\ free_request_id_stack[i] < fresh
    BY RpcAssumption, ElementOfSeq DEF TypeInv, Ids, Body, IdInv
  <2>7. \A i \in 1..Len(free_request_id_stack') : free_request_id_stack'[i] < fresh'
    BY <1>2, <1>6, <2>6 DEF TypeInv
  <2>8. \A i, j \in 1..Len(free_request_id_stack') :
           free_request_id_stack'[i] = free_request_id_stack'[j] => i = j
    BY <1>2, <1>6 DEF Body, IdInv
  <2> QED BY <1>2, <2>1, <2>3, <2>4, <2>5, <2>7, <2>8 DEF IdInv
<1>8. PackInv'
  BY <1>1, <1>4, <1>5, PackKept DEF Body, recvVars, wireVars
<1>9. CallInv'
  <2>1. current # r
    BY <1>3, RpcAssumption DEF Body, CallInv
  <2> QED BY <1>1, <1>4, <1>5, <2>1 DEF TypeInv, Body, CallInv, recvVars
<1> QED BY <1>7, <1>8, <1>9 DEF Body

LEMMA BodySendRequest ==
    ASSUME TypeInv, Body, NEW r \in Requests, SendRequest(r)
    PROVE  Body'
<1>1. /\ pc[r] = "lock" /\ pc' = [pc EXCEPT ![r] = "list"]
      /\ to_peer' = IF up THEN Append(to_peer, [id |-> rid[r], req |-> r]) ELSE to_peer
      /\ UNCHANGED <<idVars, request_list, rid, recvVars, from_peer>>
  BY DEF SendRequest
<1>2. \A s \in Requests : /\ Holds(s)' <=> Holds(s)
                          /\ pc[s] \in {"list", "done"} => pc'[s] = pc[s]
  BY <1>1 DEF TypeInv, Holds
<1>3. Holds(r) /\ got[r] = << >> /\ pc'[r] = "list"
  BY <1>1 DEF TypeInv, Body, CallInv, Holds
<1>4. IdInv'
  BY <1>1, <1>2 DEF TypeInv, Body, IdInv, idVars
<1>5. CallInv'
  BY <1>1, <1>2 DEF TypeInv, Body, CallInv, recvVars
<1>6. PackInv'
  <2> DEFINE p == [id |-> rid[r], req |-> r]
  <2>1. CASE to_peer' = to_peer
    BY <1>1, <1>2, <2>1, PackKept DEF Body, recvVars
  <2>2. CASE to_peer' = Append(to_peer, p)
    <3>1. p \in Package /\ p.id = rid[r] /\ p.req = r
      BY DEF TypeInv, Package
    <3> HIDE DEF p
    <3>2. /\ Len(to_peer) \in Nat /\ Len(to_peer') = Len(to_peer) + 1
          /\ \A j \in 1..Len(to_peer) : to_peer'[j] = to_peer[j]
          /\ to_peer'[Len(to_peer) + 1] = p
      BY <2>2, <3>1, AppendSeq DEF TypeInv
    <3>3. \A j \in 1..Len(to_peer') : j \in 1..Len(to_peer) \/ j = Len(to_peer) + 1
      BY <3>2
    <3>4. /\ \A j \in 1..Len(to_peer) : to_peer[j].req # r
          /\ \A j \in 1..Len(from_peer) : from_peer[j].req # r
      BY <1>1 DEF Body, PackInv, InFlight
    <3>5. InFlight(to_peer)'
      BY <1>1, <1>2, <1>3, <3>1, <3>2, <3>3, <3>4, PackagesType
         DEF Body, PackInv, InFlight, Held, recvVars
    <3>6. InFlight(from_peer)'
      BY <1>1, <1>2, PackagesType DEF Body, PackInv, InFlight, Held, recvVars
    <3> QED BY <1>1, <3>1, <3>2, <3>3, <3>4, <3>5, <3>6 DEF Body, PackInv
  <2> QED BY <1>1, <2>1, <2>2
<1> QED BY <1>4, <1>5, <1>6 DEF Body

LEMMA BodyListRequest ==
    ASSUME TypeInv, Body, NEW r \in Requests, ListRequest(r)
    PROVE  Body'
<1>1. /\ pc[r] = "list" /\ pc' = [pc EXCEPT ![r] = "done"]
      /\ request_list' = [i \in DOMAIN request_list \cup {rid[r]} |->
                             IF i = rid[r] THEN r ELSE request_list[i]]
      /\ UNCHANGED <<idVars, rid, recvVars, wireVars>>
  BY DEF ListRequest
<1>2. Holds(r) /\ pc'[r] = "done" /\ \A s \in Requests \ {r} : pc'[s] = pc[s]
  BY <1>1 DEF TypeInv, Holds
<1>3. rid[r] \notin DOMAIN request_list
  <2> SUFFICES ASSUME rid[r] \in DOMAIN request_list PROVE FALSE
    OBVIOUS
  <2> DEFINE s == request_list[rid[r]]
  <2>1. s \in Requests /\ rid[s] = rid[r] /\ pc[s] = "done"
    BY DEF TypeInv, Body, IdInv
  <2>2. Holds(s)
    BY <2>1 DEF Holds
  <2>3. s = r
    BY <1>2, <2>1, <2>2 DEF Body, IdInv
  <2> QED BY <1>1, <2>1, <2>3
<1>4. /\ \A i \in DOMAIN request_list : i \in DOMAIN request_list' /\ request_list'[i] = request_list[i]
      /\ rid[r] \in DOMAIN request_list' /\ request_list'[rid[r]] = r
      /\ DOMAIN request_list' = DOMAIN request_list \cup {rid[r]}
  BY <1>1, <1>3
<1>5. Holds(r)'
  BY <1>4 DEF Holds
<1>6. \A s \in Requests \ {r} : Holds(s)' <=> Holds(s)
  BY <1>2, <1>4 DEF Holds
<1>7. IdInv'
  <2>1. \A i \in DOMAIN request_list' :
           rid'[request_list'[i]] = i /\ pc'[request_list'[i]] = "done"
    BY <1>1, <1>2, <1>4 DEF TypeInv, Body, IdInv
  <2>2. \A s \in Requests : Holds(s)' <=> Holds(s)
    BY <1>2, <1>5, <1>6
  <2>3. UNCHANGED <<next_request_id, free_request_id_stack, fresh, rid>>
    BY <1>1 DEF idVars
  <2> QED BY <2>1, <2>2, <2>3 DEF Body, IdInv
<1>8. PackInv'
  BY <1>1, <1>2, <1>5, <1>6, PackKept DEF Body, recvVars, wireVars
<1>9. CallInv'
  BY <1>1, <1>2, <1>4, <1>5, <1>6 DEF TypeInv, Body, CallInv, recvVars
<1> QED BY <1>7, <1>8, <1>9 DEF Body

\* What does not change a request or its id leaves the first and last part.
LEMMA CallsKept ==
    ASSUME Body, UNCHANGED <<idVars, request_list, pc, rid>>
    PROVE  /\ IdInv' /\ \A r \in Requests : Holds(r)' <=> Holds(r)
           /\ UNCHANGED <<current, answer, got>> => CallInv'
<1>1. \A r \in Requests : Holds(r)' <=> Holds(r)
  BY DEF Holds
<1>2. IdInv'
  BY <1>1 DEF Body, IdInv, idVars
<1> QED BY <1>1, <1>2 DEF Body, CallInv

\* A package that is read leaves the others in flight.
LEMMA TailInFlight ==
    ASSUME TypeInv, Body, UNCHANGED <<request_list, pc, rid>>, from_peer # << >>,
           from_peer' = Tail(from_peer), UNCHANGED to_peer,
           \A r \in Requests \ {Head(from_peer).req} : got'[r] = got[r]
    PROVE  PackInv'
<1>1. /\ Len(from_peer) \in Nat \ {0} /\ Head(from_peer) = from_peer[1]
      /\ Len(from_peer') = Len(from_peer) - 1
      /\ \A i \in 1..Len(from_peer') : i + 1 \in 1..Len(from_peer)
                                       /\ from_peer'[i] = from_peer[i + 1]
  BY TailSeq DEF TypeInv
<1>2. 1 \in 1..Len(from_peer) /\ \A i \in 1..Len(from_peer') : i \in Nat \ {0} /\ i + 1 # 1
  BY <1>1
<1>3. /\ \A i \in 1..Len(from_peer') : from_peer'[i].req # Head(from_peer).req
      /\ \A i \in 1..Len(to_peer) : to_peer[i].req # Head(from_peer).req
  BY <1>1, <1>2 DEF Body, PackInv, InFlight
<1>4. Held' = Held
  BY DEF Holds, Held
<1>5. /\ \A j \in 1..Len(to_peer) : to_peer[j].req \in Requests
      /\ \A j \in 1..Len(from_peer) : from_peer[j].req \in Requests
  BY PackagesType
<1>6. InFlight(to_peer)'
  BY <1>3, <1>4, <1>5 DEF Body, PackInv, InFlight
<1>7. InFlight(from_peer)'
  <2>1. \A j \in 1..Len(from_peer') :
           /\ from_peer'[j].id = rid'[from_peer'[j].req]
           /\ pc'[from_peer'[j].req] \in {"list", "done"} /\ from_peer'[j].req \in Held'
           /\ got'[from_peer'[j].req] = << >>
    BY <1>1, <1>3, <1>4, <1>5 DEF Body, PackInv, InFlight
  <2>2. ASSUME NEW j \in 1..Len(from_peer'), NEW k \in 1..Len(from_peer'),
               from_peer'[j].req = from_peer'[k].req
        PROVE  j = k
    <3>1. j + 1 = k + 1
      BY <1>1, <2>2 DEF Body, PackInv, InFlight
    <3> QED BY <3>1, <1>2
  <2> QED BY <2>1, <2>2 DEF InFlight
<1> QED BY <1>1, <1>6, <1>7 DEF Body, PackInv

LEMMA BodyHandleCalls ==
    ASSUME TypeInv, Body, NEW n \in 0..Handlers, HandleCalls(n), ~ doubled'
    PROVE  Body'
<1>1. /\ to_peer # << >> /\ to_peer' = Tail(to_peer)
      /\ from_peer' = from_peer \o [i \in 1..n |-> Head(to_peer)]
      /\ UNCHANGED <<idVars, request_list, pc, rid, current, answer, got>>
  BY DEF HandleCalls, callVars, recvVars
<1>2. n = 0 \/ n = 1
  <2>1. ~ (n > 1)
    BY Zenon DEF HandleCalls
  <2> QED BY <2>1, RpcAssumption
<1>3. /\ Len(to_peer) \in Nat \ {0} /\ Head(to_peer) = to_peer[1] /\ Head(to_peer) \in Package
      /\ Len(to_peer') = Len(to_peer) - 1
      /\ \A i \in 1..Len(to_peer') : i + 1 \in 1..Len(to_peer) /\ to_peer'[i] = to_peer[i + 1]
  BY <1>1, TailSeq DEF TypeInv
<1>4. /\ Len(from_peer) \in Nat /\ Len(from_peer') = Len(from_peer) + n
      /\ \A i \in 1..Len(from_peer) : from_peer'[i] = from_peer[i]
      /\ n = 1 => from_peer'[Len(from_peer) + 1] = Head(to_peer)
  <2> DEFINE more == [i \in 1..n |-> Head(to_peer)]
  <2>1. more \in Seq(Package) /\ Len(more) = n /\ (n = 1 => more[1] = Head(to_peer))
    BY <1>2, <1>3, IsASeq
  <2> HIDE DEF more
  <2>2. Len(from_peer) \in Nat /\ from_peer \in Seq(Package)
    BY DEF TypeInv
  <2>3. /\ Len(from_peer \o more) = Len(from_peer) + Len(more)
        /\ \A i \in 1..(Len(from_peer) + Len(more)) : (from_peer \o more)[i] =
              IF i <= Len(from_peer) THEN from_peer[i] ELSE more[i - Len(from_peer)]
    BY <2>1, <2>2, ConcatProperties
  <2>4. from_peer' = from_peer \o more
    BY <1>1 DEF more
  <2> QED BY <1>2, <2>1, <2>2, <2>3, <2>4
<1>5. Held' = Held
  BY <1>1 DEF Holds, Held
<1>6. /\ \A j \in 1..Len(to_peer) : to_peer[j].req \in Requests
      /\ \A j \in 1..Len(from_peer) : from_peer[j].req \in Requests
  BY PackagesType
<1>7. 1 \in 1..Len(to_peer) /\ \A i \in 1..Len(to_peer') : i \in Nat \ {0} /\ i + 1 # 1
  BY <1>3
<1>8. /\ \A i \in 1..Len(to_peer') : to_peer'[i].req # Head(to_peer).req
      /\ \A i \in 1..Len(from_peer) : from_peer[i].req # Head(to_peer).req
  BY <1>3, <1>7 DEF Body, PackInv, InFlight
<1>9. \A i \in 1..Len(from_peer') :
         i \in 1..Len(from_peer) \/ (i = Len(from_peer) + 1 /\ n = 1)
  BY <1>2, <1>4
<1>10. InFlight(to_peer)'
  <2>1. \A j \in 1..Len(to_peer') :
           /\ to_peer'[j].id = rid'[to_peer'[j].req]
           /\ pc'[to_peer'[j].req] \in {"list", "done"} /\ to_peer'[j].req \in Held'
           /\ got'[to_peer'[j].req] = << >>
    BY <1>1, <1>3, <1>5, <1>6 DEF Body, PackInv, InFlight
  <2>2. ASSUME NEW j \in 1..Len(to_peer'), NEW k \in 1..Len(to_peer'),
               to_peer'[j].req = to_peer'[k].req
        PROVE  j = k
    <3>1. j + 1 = k + 1
      BY <1>3, <2>2 DEF Body, PackInv, InFlight
    <3> QED BY <3>1, <1>7
  <2> QED BY <2>1, <2>2 DEF InFlight
<1>11. InFlight(from_peer)'
  <2>1. \A j \in 1..Len(from_peer') :
           /\ from_peer'[j].id = rid'[from_peer'[j].req]
           /\ pc'[from_peer'[j].req] \in {"list", "done"} /\ from_peer'[j].req \in Held'
           /\ got'[from_peer'[j].req] = << >>
    BY <1>1, <1>3, <1>4, <1>5, <1>6, <1>7, <1>9 DEF Body, PackInv, InFlight
  <2>2. \A j, k \in 1..Len(from_peer') : from_peer'[j].req = from_peer'[k].req => j = k
    BY <1>4, <1>8, <1>9 DEF Body, PackInv, InFlight
  <2> QED BY <2>1, <2>2 DEF InFlight
<1>12. ASSUME NEW j \in 1..Len(to_peer'), NEW k \in 1..Len(from_peer')
       PROVE  to_peer'[j].req # from_peer'[k].req
  <2>1. CASE k \in 1..Len(from_peer)
    <3>1. from_peer'[k] = from_peer[k] /\ j + 1 \in 1..Len(to_peer) /\ to_peer'[j] = to_peer[j + 1]
      BY <1>3, <1>4, <2>1
    <3> QED BY <2>1, <3>1 DEF Body, PackInv
  <2>2. CASE k = Len(from_peer) + 1 /\ n = 1
    BY <1>4, <1>8, <2>2
  <2> QED BY <1>9, <2>1, <2>2
<1> QED BY <1>1, <1>10, <1>11, <1>12, CallsKept DEF Body, PackInv

LEMMA BodyDisconnected == ASSUME Body, Disconnected PROVE Body'
<1>1. /\ to_peer' = << >> /\ from_peer' = << >>
      /\ UNCHANGED <<idVars, request_list, pc, rid, current, answer, got>>
  BY DEF Disconnected, callVars, recvVars
<1>2. PackInv'
  BY <1>1 DEF PackInv, InFlight
<1> QED BY <1>1, <1>2, CallsKept DEF Body

LEMMA BodyDropAnswer == ASSUME TypeInv, Body, DropAnswer PROVE Body'
<1>1. /\ from_peer # << >> /\ from_peer' = Tail(from_peer) /\ UNCHANGED to_peer
      /\ UNCHANGED <<idVars, request_list, pc, rid, current, answer, got>>
  BY DEF DropAnswer, callVars
<1> QED BY <1>1, TailInFlight, CallsKept DEF Body

\* The request found under the id of an answer is the one the answer is for.
LEMMA FoundIsRequest ==
    ASSUME TypeInv, Body, OnCallBack
    PROVE  /\ Head(from_peer) \in Package /\ Head(from_peer).req \in Requests
           /\ Head(from_peer).id = rid[Head(from_peer).req]
           /\ current' = Head(from_peer).req
           /\ got[Head(from_peer).req] = << >>
           /\ request_list[Head(from_peer).id] = Head(from_peer).req
<1> DEFINE p == Head(from_peer)
<1>1. from_peer # << >> /\ p.id \in DOMAIN request_list /\ current' = request_list[p.id]
  BY DEF OnCallBack, Found
<1>2. p \in Package /\ p = from_peer[1] /\ 1 \in 1..Len(from_peer)
  BY <1>1, TailSeq DEF TypeInv
<1> HIDE DEF p
<1>3. p.req \in Requests /\ p.id = rid[p.req] /\ p.req \in Held /\ got[p.req] = << >>
  BY <1>2 DEF Body, PackInv, InFlight, Package
<1>4. /\ request_list[p.id] \in Requests /\ Holds(request_list[p.id])
      /\ rid[request_list[p.id]] = p.id
  BY <1>1 DEF TypeInv, Body, IdInv, Holds
<1>5. request_list[p.id] = p.req
  BY <1>3, <1>4 DEF Body, IdInv, Held
<1> QED BY <1>1, <1>2, <1>3, <1>5 DEF p

LEMMA BodyOnCallBack == ASSUME TypeInv, Body, OnCallBack PROVE Body'
<1> DEFINE r == Head(from_peer).req
<1>1. /\ from_peer # << >> /\ from_peer' = Tail(from_peer) /\ current = None
      /\ answer' = Head(from_peer) /\ got' = [got EXCEPT ![current'] = Append(@, r)]
      /\ Head(from_peer).id \in DOMAIN request_list
      /\ UNCHANGED <<idVars, request_list, pc, rid, to_peer>>
  BY DEF OnCallBack, callVars
<1>2. /\ r \in Requests /\ Head(from_peer).id = rid[r] /\ current' = r /\ got[r] = << >>
      /\ request_list[Head(from_peer).id] = r
  BY FoundIsRequest
<1> HIDE DEF r
<1>3. Append(<< >>, r) = <<r>> /\ <<r>> # << >>
  OBVIOUS
<1>4. got'[r] = <<r>> /\ \A s \in Requests \ {r} : got'[s] = got[s]
  BY <1>1, <1>2, <1>3 DEF TypeInv
<1>5. IdInv' /\ \A s \in Requests : Holds(s)' <=> Holds(s)
  BY <1>1, CallsKept
<1>6. PackInv'
  BY <1>1, <1>4, TailInFlight DEF r
<1>7. pc[r] = "done"
  BY <1>1, <1>2 DEF Body, IdInv
<1>8. \A s \in Requests : Holds(s) => got[s] = << >>
  BY <1>1, RpcAssumption DEF Body, CallInv
<1>9. CallInv'
  <2>1. \A s \in Requests : got'[s] \in {<< >>, <<s>>}
    BY <1>4 DEF Body, CallInv
  <2>2. \A s \in Requests : pc'[s] \in {"new", "lock"} => got'[s] = << >>
    BY <1>1, <1>4, <1>7 DEF Body, CallInv
  <2>3. \A s \in Requests : Holds(s)' /\ got'[s] # << >> => s = current'
    BY <1>2, <1>4, <1>5, <1>8
  <2>4. /\ answer'.id = rid'[current'] /\ got'[current'] # << >>
        /\ answer'.id \in DOMAIN request_list' /\ request_list'[answer'.id] = current'
    BY <1>1, <1>2, <1>3, <1>4
  <2> QED BY <2>1, <2>2, <2>3, <2>4 DEF CallInv
<1> QED BY <1>5, <1>6, <1>9 DEF Body

LEMMA BodyCallBackReturns == ASSUME TypeInv, Body, CallBackReturns PROVE Body'
<1> DEFINE id == answer.id
           n == Len(free_request_id_stack)
<1>1. /\ current # None /\ current' = None
      /\ request_list' = [i \in DOMAIN request_list \ {id} |-> request_list[i]]
      /\ free_request_id_stack' = Append(free_request_id_stack, id)
      /\ UNCHANGED <<next_request_id, fresh, pc, rid, got, to_peer, from_peer>>
  BY DEF CallBackReturns, WithoutRequest, callVars, wireVars
<1>2. /\ current \in Requests /\ id \in Ids /\ id = rid[current] /\ got[current] # << >>
      /\ id \in DOMAIN request_list /\ request_list[id] = current
  BY <1>1 DEF TypeInv, Body, CallInv, Package
<1>3. Holds(current) /\ pc[current] = "done"
  BY <1>2 DEF Body, IdInv, Holds
<1>4. /\ n \in Nat /\ Len(free_request_id_stack') = n + 1
      /\ \A i \in 1..n : free_request_id_stack'[i] = free_request_id_stack[i]
      /\ free_request_id_stack'[n + 1] = id
  BY <1>1, <1>2, AppendSeq DEF TypeInv
<1> HIDE DEF id, n
<1>5. \A i \in 1..(n + 1) : i \in 1..n \/ i = n + 1
  BY <1>4
<1>6. \A i \in DOMAIN request_list' :
         i \in DOMAIN request_list /\ i # id /\ request_list'[i] = request_list[i]
  BY <1>1
<1>7. \A s \in Requests : Holds(s)' <=> Holds(s) /\ s # current
  <2>1. \A i \in DOMAIN request_list \ {id} :
           i \in DOMAIN request_list' /\ request_list'[i] = request_list[i]
    BY <1>1
  <2>2. \A i \in DOMAIN request_list : request_list[i] = current => i = id
    BY <1>2 DEF Body, IdInv
  <2> QED BY <1>1, <1>2, <1>3, <1>6, <2>1, <2>2 DEF Holds
<1>8. \A s \in Requests : Holds(s)' => rid[s] # id
  BY <1>2, <1>3, <1>7 DEF Body, IdInv
<1>9. IdInv'
  <2>1. \A i \in DOMAIN request_list' :
           rid'[request_list'[i]] = i /\ pc'[request_list'[i]] = "done"
    BY <1>1, <1>6 DEF Body, IdInv
  <2>2. \A p, q \in Requests : Holds(p)' /\ Holds(q)' /\ rid'[p] = rid'[q] => p = q
    BY <1>1, <1>7 DEF Body, IdInv
  <2>3. /\ id < fresh /\ \A i \in 1..n : free_request_id_stack[i] < fresh
        /\ \A i \in 1..n : free_request_id_stack[i] # id
    BY <1>2, <1>3 DEF Body, IdInv, n
  <2>4. \A s \in Requests : Holds(s)' =>
           /\ rid'[s] < fresh'
           /\ \A i \in 1..Len(free_request_id_stack') : free_request_id_stack'[i] # rid'[s]
    BY <1>1, <1>4, <1>5, <1>7, <1>8 DEF Body, IdInv, n
  <2>5. \A i \in 1..Len(free_request_id_stack') : free_request_id_stack'[i] < fresh'
    BY <1>1, <1>4, <1>5, <2>3
  <2>6. \A i, j \in 1..Len(free_request_id_stack') :
           free_request_id_stack'[i] = free_request_id_stack'[j] => i = j
    BY <1>4, <1>5, <2>3 DEF Body, IdInv, n
  <2>7. fresh' < MaxId => next_request_id' = fresh'
    BY <1>1 DEF Body, IdInv
  <2> QED BY <2>1, <2>2, <2>4, <2>5, <2>6, <2>7 DEF IdInv
<1>10. PackInv'
  BY <1>1, <1>2, <1>7, PackKept DEF Body
<1>11. CallInv'
  BY <1>1, <1>7 DEF Body, CallInv
<1> QED BY <1>9, <1>10, <1>11 DEF Body

-----------------------------------------------------------------------------
\* A step leaves what is behind the wrap-around or a double answer behind it.
LEMMA PlainBefore ==
    ASSUME TypeInv, [Next]_vars, Plain'
    PROVE  Plain
<1>1. fresh' = fresh \/ fresh' = fresh + 1
  BY DEF Next, Call, OnRecv, GiveUp, GetRequestID, SendRequest, ListRequest, HandleCalls,
         Disconnected, DropAnswer, OnCallBack, CallBackReturns, idVars, vars
<1>2. ~ doubled
  BY Zenon DEF Plain, Next, Call, OnRecv, GiveUp, GetRequestID, SendRequest, ListRequest,
     HandleCalls, Disconnected, DropAnswer, OnCallBack, CallBackReturns, wireVars, vars
<1> QED BY <1>1, <1>2, RpcAssumption DEF TypeInv, Plain, Wrapped

LEMMA NextInv == Inv /\ [Next]_vars => Inv'
<1> SUFFICES ASSUME Inv, [Next]_vars, Plain' PROVE Body'
  BY TypeNext DEF Inv, Plain, Body
<1>1. TypeInv /\ Body /\ ~ Wrapped' /\ ~ doubled'
  BY PlainBefore DEF Inv, Plain, Body
<1>2. CASE UNCHANGED vars
  <2>1. UNCHANGED <<idVars, request_list, pc, rid, current, answer, got, to_peer, from_peer>>
    BY <1>2 DEF vars, callVars, recvVars, wireVars
  <2>2. IdInv' /\ CallInv' /\ \A r \in Requests : Holds(r)' <=> Holds(r)
    BY <1>1, <2>1, CallsKept
  <2>3. PackInv'
    BY <1>1, <2>1, <2>2, PackKept DEF Body
  <2> QED BY <2>2, <2>3 DEF Body
<1>3. CASE Next
  BY <1>1, <1>3, BodyGiveUp, BodyGetRequestID, BodySendRequest, BodyListRequest,
     BodyHandleCalls, BodyDisconnected, BodyDropAnswer, BodyOnCallBack, BodyCallBackReturns
     DEF Next, Call, OnRecv
<1> QED BY <1>2, <1>3

LEMMA InvImplies == Inv => RequestIdsDistinct /\ AnswerIsForRequest
<1> SUFFICES ASSUME Inv, ~ Wrapped, ~ doubled
             PROVE  /\ \A r \in Requests : Holds(r) =>
                          /\ \A s \in Requests \ {r} : Holds(s) => rid[s] # rid[r]
                          /\ \A i \in 1..Len(free_request_id_stack) :
                                free_request_id_stack[i] # rid[r]
                    /\ \A i \in DOMAIN request_list : rid[request_list[i]] = i
                    /\ \A r \in Requests : got[r] \in {<< >>, <<r>>}
  BY DEF RequestIdsDistinct, AnswerIsForRequest
<1> QED BY DEF Inv, IdInv, CallInv

LEMMA SpecInv == Spec => []Inv
<1> QED BY InitInv, NextInv, PTL DEF Spec

\* GetRequestID never gives out an id that a call under way has, whichever
\* thread makes the call and however answers, callbacks and calls from callbacks
\* interleave, for any SHRT_MAX, up to the wrap-around of next_request_id_.
THEOREM DistinctRequestIds == Spec => []RequestIdsDistinct
<1>1. Inv => RequestIdsDistinct
  BY InvImplies
<1> QED BY <1>1, SpecInv, PTL

\* OnCallBack gets the answer to its own request and runs once, although ids
\* are reused and an answer can come before the request is listed.
THEOREM AnswersMatch == Spec => []AnswerIsForRequest
<1>1. Inv => AnswerIsForRequest
  BY InvImplies
<1> QED BY <1>1, SpecInv, PTL

=============================================================================
