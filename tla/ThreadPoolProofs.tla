-------------------------- MODULE ThreadPoolProofs --------------------------
(***************************************************************************)
(* Proofs about ThreadPool for every number of workers and of tasks.       *)
(***************************************************************************)
EXTENDS ThreadPool, SequenceTheorems, TLAPS

\* What a worker that has left ThreadPoolWorkingTask::Run can be doing.
Past == {"failed", "zero", "tail", "gone"}

\* Where a worker holds mutex_; at front and pop_front there is a task.
LockInv ==
    \A w \in Workers :
       /\ pc[w] \in {"look", "sleep", "decide", "take"} => mutex = w
       /\ pc[w] = "take" => task_list # << >>

\* A worker has a task exactly when it is at task->Run.
TypeInv ==
    /\ TypeOK /\ LockInv
    /\ \A w \in Workers : pc[w] = "run" <=> task[w] # None

\* thread_id_ is 0, and the thread detached, only when the worker is past Run;
\* from Stop on every worker was started.
ThreadInv ==
    /\ owner \in {"running", "cleared", "flagged"} => thread_set = Workers
    /\ \A w \in thread_set : pc[w] # "none"
    /\ \A w \in thread_set : ~ thread_id[w] => pc[w] \in Past
    /\ \A w \in detached : pc[w] \in Past
    /\ StopQuiesces

LEMMA RangeOfAppend ==
    ASSUME NEW S, NEW s \in Seq(S), NEW e \in S
    PROVE  /\ Range(Append(s, e)) = Range(s) \cup {e}
           /\ Append(s, e) \in Seq(S)
           /\ IsInjective(s) /\ e \notin Range(s) => IsInjective(Append(s, e))
<1>1. /\ DOMAIN Append(s, e) = 1..Len(s) + 1
      /\ \A i \in 1..Len(s) : Append(s, e)[i] = s[i]
      /\ Append(s, e)[Len(s) + 1] = e
      /\ DOMAIN s = 1..Len(s) /\ Len(s) \in Nat
      /\ Append(s, e) \in Seq(S)
  BY AppendProperties
<1>2. \A i \in 1..Len(s) + 1 : i \in 1..Len(s) \/ i = Len(s) + 1
  BY <1>1
<1>3. \A i \in 1..Len(s) : i \in 1..Len(s) + 1
  BY <1>1
<1>4. Len(s) + 1 \in 1..Len(s) + 1
  BY <1>1
<1>5. Range(Append(s, e)) = Range(s) \cup {e}
  BY <1>1, <1>2, <1>3, <1>4 DEF Range
<1>6. ASSUME IsInjective(s), e \notin Range(s) PROVE IsInjective(Append(s, e))
  BY <1>1, <1>2, <1>6 DEF IsInjective, Range
<1> QED BY <1>1, <1>5, <1>6

LEMMA RangeOfTail ==
    ASSUME NEW S, NEW s \in Seq(S), s # << >>
    PROVE  /\ Range(Tail(s)) \subseteq Range(s) /\ Tail(s) \in Seq(S)
           /\ Head(s) \in S /\ Head(s) \in Range(s)
           /\ IsInjective(s) => /\ IsInjective(Tail(s))
                                /\ Range(Tail(s)) = Range(s) \ {Head(s)}
<1>1. /\ Tail(s) \in Seq(S) /\ Len(Tail(s)) = Len(s) - 1
      /\ \A i \in 1..Len(Tail(s)) : Tail(s)[i] = s[i + 1]
      /\ Head(s) \in S /\ Head(s) = s[1]
  BY HeadTailProperties
<1>2. Len(s) \in Nat /\ Len(s) > 0 /\ DOMAIN s = 1..Len(s)
  BY EmptySeq
<1>3. DOMAIN Tail(s) = 1..Len(s) - 1
  BY <1>1
<1>4. \A i \in 1..Len(s) - 1 : i + 1 \in 1..Len(s) /\ i + 1 # 1 /\ Tail(s)[i] = s[i + 1]
  BY <1>1, <1>2
<1>5. 1 \in 1..Len(s) /\ \A i \in 1..Len(s) : i # 1 => i - 1 \in 1..Len(s) - 1 /\ (i - 1) + 1 = i
  BY <1>2
<1>6. Range(Tail(s)) \subseteq Range(s) /\ Head(s) \in Range(s)
  BY <1>1, <1>2, <1>3, <1>4, <1>5 DEF Range
<1>7. ASSUME IsInjective(s)
      PROVE  IsInjective(Tail(s)) /\ Range(Tail(s)) = Range(s) \ {Head(s)}
  <2>1. ASSUME NEW i \in 1..Len(s) - 1, NEW j \in 1..Len(s) - 1, Tail(s)[i] = Tail(s)[j]
        PROVE  i = j
    <3>1. i + 1 = j + 1
      BY <1>2, <1>4, <1>7, <2>1 DEF IsInjective
    <3> QED BY <3>1
  <2>2. IsInjective(Tail(s))
    BY <1>3, <2>1 DEF IsInjective
  <2>3. \A i \in 1..Len(s) - 1 : Tail(s)[i] # Head(s)
    BY <1>1, <1>2, <1>4, <1>5, <1>7 DEF IsInjective
  <2>4. ASSUME NEW i \in 1..Len(s), s[i] # Head(s)
        PROVE  \E j \in 1..Len(s) - 1 : Tail(s)[j] = s[i]
    <3>1. i - 1 \in 1..Len(s) - 1 /\ (i - 1) + 1 = i
      BY <1>1, <1>5, <2>4
    <3>2. Tail(s)[i - 1] = s[i]
      BY <1>4, <3>1
    <3> QED BY <3>1, <3>2
  <2>5. Range(Tail(s)) = Range(s) \ {Head(s)}
    <3>1. Head(s) \notin Range(Tail(s))
      BY <1>3, <2>3 DEF Range
    <3>2. ASSUME NEW x \in Range(s), x # Head(s) PROVE x \in Range(Tail(s))
      <4>1. PICK i \in 1..Len(s) : s[i] = x
        BY <1>2, <3>2 DEF Range
      <4>2. PICK j \in 1..Len(s) - 1 : Tail(s)[j] = x
        BY <2>4, <3>2, <4>1
      <4> QED BY <1>3, <4>2 DEF Range
    <3> QED BY <1>6, <3>1, <3>2
  <2> QED BY <2>2, <2>5
<1> QED BY <1>1, <1>6, <1>7

-----------------------------------------------------------------------------
(* Type correctness. *)

LEMMA InitTypeInv == Init => TypeInv
<1> SUFFICES ASSUME Init PROVE TypeInv
  OBVIOUS
<1>1. is_running \in BOOLEAN
  BY Zenon DEF Init
<1>2. thread_id \in [Workers -> BOOLEAN]
  BY Zenon DEF Init
<1>3. /\ pc \in [Workers -> PCs] /\ \A w \in Workers : pc[w] = "none" /\ task[w] = None
      /\ task \in [Workers -> Tasks \cup {None}]
  BY DEF Init, PCs
<1>4. adding \in [Tasks -> {"new", "checked", "pushed", "refused"}]
  BY DEF Init
<1>5. task_list \in Seq(Tasks) /\ done \in Seq(Tasks)
  BY DEF Init
<1>6. TypeOK
  BY <1>1, <1>2, <1>3, <1>4, <1>5 DEF Init, TypeOK
<1>7. LockInv
  BY <1>3 DEF LockInv
<1> QED BY <1>3, <1>6, <1>7 DEF TypeInv

\* A step of worker w to label l.
LEMMA GotoType ==
    ASSUME TypeOK, NEW w \in Workers, NEW l \in PCs, Goto(w, l)
    PROVE  /\ pc' \in [Workers -> PCs] /\ pc'[w] = l
           /\ \A v \in Workers : v # w => pc'[v] = pc[v]
BY DEF TypeOK, Goto

\* Waking up moves waiting workers only.
LEMMA WakeType ==
    ASSUME TypeOK, WakeAll \/ WakeOne
    PROVE  /\ pc' \in [Workers -> PCs]
           /\ \A v \in Workers : pc'[v] = pc[v] \/ (pc[v] = "wait" /\ pc'[v] = "wake")
<1>1. CASE WakeAll
  BY <1>1 DEF TypeOK, WakeAll, PCs
<1>2. CASE WakeOne
  BY <1>2 DEF TypeOK, WakeOne, PCs
<1> QED BY <1>1, <1>2

\* The part of TypeInv that concerns labels and tasks of workers.
LabelInv ==
    /\ pc \in [Workers -> PCs] /\ task \in [Workers -> Tasks \cup {None}]
    /\ \A w \in Workers : pc[w] = "run" <=> task[w] # None

LEMMA LabelNext ==
    ASSUME TypeInv, [Next]_vars
    PROVE  LabelInv'
<1> USE PoolAssumption
<1>0. TypeOK /\ LabelInv
  BY DEF TypeInv, TypeOK, LabelInv
<1>1. CASE UNCHANGED <<pc, task>>
  BY <1>0, <1>1 DEF LabelInv
<1>2. ASSUME NEW w \in Workers, NEW l \in PCs \ {"run"}, pc[w] # "run", Goto(w, l), UNCHANGED task
      PROVE  LabelInv'
  BY <1>0, <1>2, GotoType DEF LabelInv
<1>3. CASE (WakeAll \/ WakeOne) /\ UNCHANGED task
  BY <1>0, <1>3, WakeType DEF LabelInv
<1>4. ASSUME NEW w \in Workers, Take(w) PROVE LabelInv'
  <2>1. /\ task' = [task EXCEPT ![w] = Head(task_list)]
        /\ Goto(w, "run") /\ task_list # << >>
    BY <1>4 DEF Take, TypeInv, LockInv
  <2>2. Head(task_list) \in Tasks
    BY <1>0, <2>1, RangeOfTail DEF TypeOK
  <2>3. /\ pc' \in [Workers -> PCs] /\ pc'[w] = "run"
        /\ \A v \in Workers : v # w => pc'[v] = pc[v]
    BY <1>0, <2>1, GotoType DEF PCs
  <2> QED BY <1>0, <2>1, <2>2, <2>3 DEF LabelInv
<1>5. ASSUME NEW w \in Workers, RunTask(w) PROVE LabelInv'
  <2>1. Goto(w, "test") /\ task' = [task EXCEPT ![w] = None]
    BY <1>5 DEF RunTask
  <2>2. /\ pc' \in [Workers -> PCs] /\ pc'[w] = "test"
        /\ \A v \in Workers : v # w => pc'[v] = pc[v]
    BY <1>0, <2>1, GotoType DEF PCs
  <2> QED BY <1>0, <2>1, <2>2 DEF LabelInv
<1>6. ASSUME NEW w \in Workers, StartThread(w) PROVE LabelInv'
  BY <1>2, <1>6 DEF StartThread, Goto, PCs
<1>7. ASSUME NEW w \in Workers, Worker(w) PROVE LabelInv'
  <2>1. CASE Test(w)
    BY <1>2, <2>1 DEF Test, PCs
  <2>2. CASE Lock(w)
    BY <1>2, <2>2 DEF Lock, PCs
  <2>3. CASE Look(w)
    BY <1>2, <2>3 DEF Look, PCs
  <2>4. CASE Sleep(w)
    BY <1>2, <2>4 DEF Sleep, PCs
  <2>5. CASE Detach(w)
    BY <1>2, <2>5 DEF Detach, PCs
  <2>6. CASE ClearThreadID(w)
    BY <1>2, <2>6 DEF ClearThreadID, PCs
  <2>7. CASE EndThread(w)
    BY <1>2, <2>7 DEF EndThread, PCs
  <2>8. CASE Decide(w)
    BY <1>2, <2>8 DEF Decide, PCs
  <2> QED BY <1>4, <1>5, <1>7, <2>1, <2>2, <2>3, <2>4, <2>5, <2>6, <2>7, <2>8 DEF Worker
<1>8. ASSUME NEW w \in Workers, SpuriousWakeup(w) PROVE LabelInv'
  BY <1>2, <1>8 DEF SpuriousWakeup, PCs
<1>9. CASE Run \/ Owner
  <2>1. CASE StopBroadcast
    BY <1>3, <2>1 DEF StopBroadcast, Broadcast
  <2>2. CASE UNCHANGED <<pc, task>>
    BY <1>1, <2>2
  <2> QED BY <1>9, <2>1, <2>2
          DEF Run, Owner, StopClears, StopFlag, JoinStart, JoinNothing, JoinEnd, StopReturn
<1>10. ASSUME NEW t \in Tasks, AddTaskTest(t) \/ AddTaskPush(t) PROVE LabelInv'
  BY <1>1, <1>3, <1>10 DEF AddTaskTest, AddTaskPush, Signal
<1>11. CASE UNCHANGED vars
  BY <1>1, <1>11 DEF vars
<1> QED BY <1>6, <1>7, <1>8, <1>9, <1>10, <1>11 DEF Next

LEMMA LockNext ==
    ASSUME TypeInv, [Next]_vars
    PROVE  LockInv'
<1>0. TypeOK /\ LockInv /\ None \notin Workers
  BY PoolAssumption DEF TypeInv
<1> DEFINE Inside == {"look", "sleep", "decide", "take"}
<1>1. CASE UNCHANGED <<pc, mutex, task_list>>
  BY <1>0, <1>1 DEF LockInv
\* The list changes only where no worker is inside.
<1>2. ASSUME mutex = None, UNCHANGED mutex,
             \A v \in Workers : pc'[v] \in Inside => pc[v] \in Inside
      PROVE  LockInv'
  BY <1>0, <1>2 DEF LockInv
<1>3. ASSUME UNCHANGED <<mutex, task_list>>,
             \A v \in Workers : pc'[v] \in Inside => pc'[v] = pc[v]
      PROVE  LockInv'
  BY <1>0, <1>3 DEF LockInv
\* A worker leaves.
<1>4. ASSUME NEW w \in Workers, NEW l \in PCs \ Inside, pc[w] \in Inside, Goto(w, l),
             mutex' = None
      PROVE  LockInv'
  <2>1. \A v \in Workers : pc'[v] \in Inside => pc[v] \in Inside /\ v # w
    BY <1>0, <1>4, GotoType
  <2>2. \A v \in Workers : v # w => pc[v] \notin Inside
    BY <1>0, <1>4 DEF LockInv
  <2> QED BY <2>1, <2>2 DEF LockInv
<1>5. ASSUME NEW w \in Workers, Worker(w) PROVE LockInv'
  <2>1. ASSUME NEW l \in PCs \ Inside, Goto(w, l), UNCHANGED <<mutex, task_list>>
        PROVE  LockInv'
    BY <1>0, <1>3, <2>1, GotoType
  <2>2. CASE Test(w)
    BY <2>1, <2>2 DEF Test, PCs, taskVars
  <2>3. CASE Lock(w)
    <3>1. mutex = None /\ mutex' = w /\ Goto(w, "look")
      BY <2>3 DEF Lock
    <3>2. \A v \in Workers : v # w => pc'[v] \notin Inside
      BY <1>0, <3>1, GotoType DEF PCs, LockInv
    <3> QED BY <1>0, <3>1, <3>2, GotoType DEF PCs, LockInv
  <2>4. CASE Look(w)
    <3>1. PICK l \in {"sleep", "decide"} : Goto(w, l)
      BY <2>4 DEF Look
    <3>2. mutex = w /\ mutex' = mutex /\ l \in PCs
      BY <1>0, <2>4 DEF Look, LockInv, PCs
    <3>3. \A v \in Workers : v # w => pc'[v] \notin Inside
      BY <1>0, <3>1, <3>2, GotoType DEF LockInv
    <3> QED BY <1>0, <3>1, <3>2, <3>3, GotoType DEF LockInv
  <2>5. CASE Sleep(w)
    BY <1>4, <2>5 DEF Sleep, PCs
  <2>6. CASE Decide(w)
    <3>1. CASE NothingToDo
      BY <1>4, <2>6, <3>1 DEF Decide, PCs
    <3>2. CASE ~ NothingToDo
      <4>1. Goto(w, "take") /\ mutex' = mutex /\ task_list' = task_list /\ task_list # << >>
        BY <2>6, <3>2 DEF Decide, NothingToDo, taskVars
      <4>2. mutex = w
        BY <1>0, <2>6 DEF Decide, LockInv
      <4>3. \A v \in Workers : v # w => pc'[v] \notin Inside
        BY <1>0, <4>1, <4>2, GotoType DEF LockInv, PCs
      <4> QED BY <4>1, <4>2, <4>3 DEF LockInv
    <3> QED BY <3>1, <3>2
  <2>7. CASE Take(w)
    BY <1>4, <2>7 DEF Take, PCs
  <2>8. CASE RunTask(w)
    BY <2>1, <2>8 DEF RunTask, PCs
  <2>9. CASE Detach(w)
    BY <2>1, <2>9 DEF Detach, PCs, taskVars
  <2>10. CASE ClearThreadID(w)
    BY <2>1, <2>10 DEF ClearThreadID, PCs, taskVars
  <2>11. CASE EndThread(w)
    BY <2>1, <2>11 DEF EndThread, PCs, taskVars
  <2> QED BY <1>5, <2>2, <2>3, <2>4, <2>5, <2>6, <2>7, <2>8, <2>9, <2>10, <2>11 DEF Worker
<1>6. ASSUME NEW w \in Workers, StartThread(w) \/ SpuriousWakeup(w) PROVE LockInv'
  BY <1>0, <1>3, <1>6 DEF StartThread, SpuriousWakeup, Goto, TypeOK, taskVars
<1>7. CASE Run \/ Owner
  <2>1. CASE StopBroadcast
    BY <1>0, <1>3, <2>1, WakeType DEF StopBroadcast, Broadcast, taskVars
  <2>2. CASE StopClears
    BY <1>2, <2>2 DEF StopClears
  <2> QED BY <1>1, <1>7, <2>1, <2>2
          DEF Run, Owner, StopFlag, JoinStart, JoinNothing, JoinEnd, StopReturn, taskVars
<1>8. ASSUME NEW t \in Tasks, AddTaskPush(t) PROVE LockInv'
  BY <1>0, <1>2, <1>8, WakeType DEF AddTaskPush, Signal
<1>9. ASSUME NEW t \in Tasks, AddTaskTest(t) PROVE LockInv'
  BY <1>1, <1>9 DEF AddTaskTest
<1>10. CASE UNCHANGED vars
  BY <1>1, <1>10 DEF vars, taskVars
<1> QED BY <1>5, <1>6, <1>7, <1>8, <1>9, <1>10 DEF Next

LEMMA FlagNext ==
    ASSUME TypeInv, [Next]_vars
    PROVE  is_running' \in BOOLEAN
<1>1. is_running \in BOOLEAN
  BY DEF TypeInv, TypeOK
<1>2. CASE Run
  BY Zenon, <1>2 DEF Run
<1>3. CASE StopFlag
  BY Zenon, <1>3 DEF StopFlag
<1>4. CASE UNCHANGED is_running
  BY Zenon, <1>1, <1>4
<1> QED BY <1>2, <1>3, <1>4
        DEF Next, vars, Owner, StopClears, StopBroadcast, JoinStart, JoinNothing, JoinEnd,
            StopReturn, StartThread, SpuriousWakeup, AddTaskTest, AddTaskPush, Worker,
            Test, Lock, Look, Sleep, Decide, Take, RunTask, Detach, ClearThreadID,
            EndThread

LEMMA ThreadTypeNext ==
    ASSUME TypeInv, [Next]_vars
    PROVE  /\ mutex' \in Workers \cup {None}
           /\ joining' \in Workers \cup {None} /\ thread_set' \subseteq Workers
           /\ thread_id' \in [Workers -> BOOLEAN] /\ detached' \subseteq Workers
           /\ missed' \subseteq Workers
           /\ owner' \in {"idle", "starting", "running", "cleared", "flagged", "joining",
                          "stopped"}
<1>1. /\ mutex \in Workers \cup {None}
      /\ joining \in Workers \cup {None} /\ thread_set \subseteq Workers
      /\ thread_id \in [Workers -> BOOLEAN] /\ detached \subseteq Workers
      /\ missed \subseteq Workers
      /\ owner \in {"idle", "starting", "running", "cleared", "flagged", "joining", "stopped"}
  BY DEF TypeInv, TypeOK
<1>2. CASE Run \/ Owner
  BY <1>1, <1>2
     DEF Run, Owner, StopClears, StopFlag, StopBroadcast, JoinStart, JoinNothing, JoinEnd,
         StopReturn, threadVars
<1>3. ASSUME NEW w \in Workers, StartThread(w) \/ Worker(w) \/ SpuriousWakeup(w)
      PROVE  /\ mutex' \in Workers \cup {None}
             /\ joining' \in Workers \cup {None} /\ thread_set' \subseteq Workers
             /\ thread_id' \in [Workers -> BOOLEAN] /\ detached' \subseteq Workers
             /\ missed' \subseteq Workers
             /\ owner' \in {"idle", "starting", "running", "cleared", "flagged", "joining",
                            "stopped"}
  BY <1>1, <1>3
     DEF StartThread, SpuriousWakeup, Worker, Test, Lock, Look, Sleep, Decide, Take,
         RunTask, Detach, ClearThreadID, EndThread, threadVars
<1>4. CASE UNCHANGED <<mutex, missed, owner, threadVars>>
  BY <1>1, <1>4 DEF threadVars
<1> QED BY <1>2, <1>3, <1>4 DEF Next, vars, AddTaskTest, AddTaskPush

LEMMA TaskTypeNext ==
    ASSUME TypeInv, [Next]_vars
    PROVE  /\ task_list' \in Seq(Tasks) /\ done' \in Seq(Tasks)
           /\ adding' \in [Tasks -> {"new", "checked", "pushed", "refused"}]
           /\ dropped' \subseteq Tasks /\ late' \subseteq Tasks
<1> DEFINE T == /\ task_list \in Seq(Tasks) /\ done \in Seq(Tasks)
                /\ adding \in [Tasks -> {"new", "checked", "pushed", "refused"}]
                /\ dropped \subseteq Tasks /\ late \subseteq Tasks
<1>1. T
  BY DEF TypeInv, TypeOK
<1>2. CASE UNCHANGED taskVars
  BY <1>1, <1>2 DEF taskVars
<1>3. CASE StopClears
  BY <1>1, <1>3, RangeOfSeq DEF StopClears
<1>4. ASSUME NEW t \in Tasks, AddTaskTest(t) PROVE T'
  BY <1>1, <1>4 DEF AddTaskTest
<1>5. ASSUME NEW t \in Tasks, AddTaskPush(t) PROVE T'
  BY <1>1, <1>5, RangeOfAppend DEF AddTaskPush
<1>6. ASSUME NEW w \in Workers, Take(w) PROVE T'
  <2>1. task_list # << >>
    BY <1>6 DEF Take, TypeInv, LockInv
  <2>2. Tail(task_list) \in Seq(Tasks)
    BY <1>1, <2>1, RangeOfTail
  <2> QED BY <1>1, <1>6, <2>2 DEF Take, PopFront
<1>7. ASSUME NEW w \in Workers, RunTask(w) PROVE T'
  <2>1. task[w] \in Tasks
    BY <1>7 DEF RunTask, TypeInv, TypeOK
  <2> QED BY <1>1, <1>7, <2>1, RangeOfAppend DEF RunTask
<1> QED BY <1>2, <1>3, <1>4, <1>5, <1>6, <1>7
        DEF Next, vars, Run, Owner, StopFlag, StopBroadcast, JoinStart, JoinNothing, JoinEnd,
            StopReturn, StartThread, SpuriousWakeup, Worker,
            Test, Lock, Look, Sleep, Decide, Detach, ClearThreadID, EndThread

LEMMA TypeInvariant == Spec => []TypeInv
<1>1. ASSUME TypeInv, [Next]_vars PROVE TypeInv'
  BY <1>1, LabelNext, LockNext, FlagNext, ThreadTypeNext, TaskTypeNext DEF TypeInv, TypeOK, LabelInv
<1> QED BY <1>1, InitTypeInv, PTL DEF Spec

\* The labels, the holder of mutex_ and the lists keep their types for every
\* number of workers and tasks; a worker never runs a task it did not take.
THEOREM TypeCorrect == Spec => []TypeOK
<1>1. TypeInv => TypeOK
  BY DEF TypeInv
<1> QED BY <1>1, TypeInvariant, PTL

-----------------------------------------------------------------------------
(* Workers and Stop. *)

\* A worker that is past Run stays past it, a started one stays started.
LEMMA PastStays ==
    ASSUME TypeInv, [Next]_vars, NEW v \in Workers
    PROVE  /\ pc[v] \in Past => pc'[v] \in Past
           /\ pc[v] # "none" => pc'[v] # "none"
<1>0. TypeOK
  BY DEF TypeInv
<1>1. CASE UNCHANGED pc
  BY <1>1
<1>2. ASSUME NEW w \in Workers, NEW l \in PCs, Goto(w, l), l # "none",
             pc[w] \in Past => l \in Past
      PROVE  /\ pc[v] \in Past => pc'[v] \in Past
             /\ pc[v] # "none" => pc'[v] # "none"
  BY <1>0, <1>2, GotoType
<1>3. CASE WakeAll \/ WakeOne
  BY <1>0, <1>3, WakeType DEF Past
<1>4. ASSUME NEW w \in Workers, Worker(w)
      PROVE  /\ pc[v] \in Past => pc'[v] \in Past
             /\ pc[v] # "none" => pc'[v] # "none"
  <2>1. CASE Test(w)
    BY <1>2, <2>1 DEF Test, PCs, Past
  <2>2. CASE Lock(w)
    BY <1>2, <2>2 DEF Lock, PCs, Past
  <2>3. CASE Look(w)
    BY <1>2, <2>3 DEF Look, PCs, Past
  <2>4. CASE Sleep(w)
    BY <1>2, <2>4 DEF Sleep, PCs, Past
  <2>5. CASE Decide(w)
    BY <1>2, <2>5 DEF Decide, PCs, Past
  <2>6. CASE RunTask(w)
    BY <1>2, <2>6 DEF RunTask, PCs, Past
  <2>7. CASE Detach(w)
    BY <1>2, <2>7 DEF Detach, PCs, Past
  <2>8. CASE ClearThreadID(w)
    BY <1>2, <2>8 DEF ClearThreadID, PCs, Past
  <2>9. CASE EndThread(w)
    BY <1>2, <2>9 DEF EndThread, PCs, Past
  <2>10. CASE Take(w)
    BY <1>2, <2>10 DEF Take, PCs, Past
  <2> QED BY <1>4, <2>1, <2>2, <2>3, <2>4, <2>5, <2>6, <2>7, <2>8, <2>9, <2>10 DEF Worker
<1>5. ASSUME NEW w \in Workers, StartThread(w) \/ SpuriousWakeup(w)
      PROVE  /\ pc[v] \in Past => pc'[v] \in Past
             /\ pc[v] # "none" => pc'[v] # "none"
  BY <1>2, <1>5 DEF StartThread, SpuriousWakeup, Goto, PCs, Past
<1>6. ASSUME NEW t \in Tasks, AddTaskTest(t) \/ AddTaskPush(t)
      PROVE  /\ pc[v] \in Past => pc'[v] \in Past
             /\ pc[v] # "none" => pc'[v] # "none"
  BY <1>1, <1>3, <1>6 DEF AddTaskTest, AddTaskPush, Signal
<1>7. CASE StopBroadcast
  BY <1>3, <1>7 DEF StopBroadcast, Broadcast
<1> QED BY <1>1, <1>4, <1>5, <1>6, <1>7
        DEF Next, vars, Run, Owner, StopClears, StopFlag, JoinStart, JoinNothing, JoinEnd,
            StopReturn

LEMMA InitThreadInv == Init => ThreadInv
BY DEF Init, ThreadInv, StopQuiesces

LEMMA ThreadNext ==
    ASSUME TypeInv, ThreadInv, [Next]_vars
    PROVE  ThreadInv'
<1>0. /\ TypeOK /\ ThreadInv
      /\ pc \in [Workers -> PCs] /\ thread_id \in [Workers -> BOOLEAN]
      /\ thread_set \subseteq Workers /\ detached \subseteq Workers
  BY DEF TypeInv, TypeOK
<1>1. \A v \in Workers : /\ pc[v] \in Past => pc'[v] \in Past
                         /\ pc[v] # "none" => pc'[v] # "none"
  BY PastStays
<1> USE <1>0, <1>1
<1>2. CASE UNCHANGED <<owner, thread_set, thread_id, detached>>
  BY <1>2 DEF ThreadInv, StopQuiesces, Past
<1>3. CASE Run
  BY <1>3 DEF Run, threadVars, ThreadInv, StopQuiesces, Past
<1>4. ASSUME NEW w \in Workers, StartThread(w) PROVE ThreadInv'
  <2>1. /\ thread_set' = thread_set \cup {w} /\ detached' = detached
        /\ owner' \notin {"joining", "stopped", "cleared", "flagged"}
        /\ owner' = "running" => thread_set' = Workers
    BY <1>4 DEF StartThread
  <2>2. \/ pc'[w] = "test" /\ thread_id'[w]
        \/ pc'[w] = "failed"
    BY <1>4 DEF StartThread
  <2>3. \A v \in Workers : v # w => thread_id'[v] = thread_id[v]
    BY <1>4 DEF StartThread
  <2>4. \A v \in thread_set' : ~ thread_id'[v] => pc'[v] \in Past
    <3> SUFFICES ASSUME NEW v \in thread_set', ~ thread_id'[v] PROVE pc'[v] \in Past
      OBVIOUS
    <3>1. CASE v = w
      BY <2>2, <3>1 DEF Past
    <3>2. CASE v # w
      BY <2>1, <2>3, <3>2 DEF ThreadInv
    <3> QED BY <3>1, <3>2
  <2>5. \A v \in thread_set' : pc'[v] # "none"
    BY <2>1, <2>2 DEF ThreadInv
  <2>6. \A v \in detached' : pc'[v] \in Past
    BY <2>1 DEF ThreadInv
  <2> QED BY <2>1, <2>4, <2>5, <2>6 DEF ThreadInv, StopQuiesces
<1>5. CASE StopClears \/ StopFlag
  BY <1>5 DEF StopClears, StopFlag, threadVars, ThreadInv, StopQuiesces, Past
<1>6. CASE StopBroadcast
  BY <1>6 DEF StopBroadcast, threadVars, ThreadInv, StopQuiesces, Past
<1>7. ASSUME NEW w \in Workers, JoinNothing(w) PROVE ThreadInv'
  <2>1. pc[w] \in Past
    BY <1>7 DEF JoinNothing, ThreadInv
  <2> QED BY <1>7, <2>1 DEF JoinNothing, ThreadInv, StopQuiesces, Past
<1>8. CASE JoinEnd
  <2>1. joining \in Workers
    BY <1>8 DEF JoinEnd, TypeOK
  <2>2. pc[joining] \in Past
    BY <1>8 DEF JoinEnd, JoinReturns, ThreadInv, Past
  <2>3. /\ thread_set' = thread_set \ {joining}
        /\ thread_id' = [thread_id EXCEPT ![joining] = FALSE]
        /\ owner' = owner /\ detached' = detached /\ pc' = pc
    BY <1>8 DEF JoinEnd
  <2>4. \A v \in thread_set' : v \in thread_set /\ thread_id'[v] = thread_id[v]
    BY <2>1, <2>3
  <2>5. owner = "joining"
    BY <1>8 DEF JoinEnd
  <2> QED BY <2>1, <2>2, <2>3, <2>4, <2>5 DEF ThreadInv, StopQuiesces, Past
<1>9. CASE StopReturn
  BY <1>9 DEF StopReturn, threadVars, ThreadInv, StopQuiesces, Past
<1>10. ASSUME NEW w \in Workers, Detach(w) PROVE ThreadInv'
  <2>1. pc'[w] = "zero"
    BY <1>10 DEF Detach, Goto
  <2> QED BY <1>10, <2>1 DEF Detach, ThreadInv, StopQuiesces, Past
<1>11. ASSUME NEW w \in Workers, ClearThreadID(w) PROVE ThreadInv'
  <2>1. /\ thread_id' = [thread_id EXCEPT ![w] = FALSE] /\ pc'[w] = "tail"
        /\ UNCHANGED <<owner, thread_set, detached>>
    BY <1>11 DEF ClearThreadID, Goto
  <2>2. \A v \in Workers : v # w => thread_id'[v] = thread_id[v]
    BY <2>1
  <2>3. \A v \in thread_set' : ~ thread_id'[v] => pc'[v] \in Past
    BY <2>1, <2>2 DEF ThreadInv, Past
  <2> QED BY <2>1, <2>3 DEF ThreadInv, StopQuiesces, Past
<1> QED BY <1>2, <1>3, <1>4, <1>5, <1>6, <1>7, <1>8, <1>9, <1>10, <1>11
        DEF Next, vars, Owner, JoinStart, Worker, SpuriousWakeup, AddTaskTest, AddTaskPush,
            Test, Lock, Look, Sleep, Decide, Take, RunTask, EndThread, threadVars

LEMMA ThreadInvariant == Spec => []ThreadInv
<1>1. TypeInv /\ ThreadInv /\ [Next]_vars => ThreadInv'
  BY ThreadNext
<1> QED BY <1>1, InitThreadInv, TypeInvariant, PTL DEF Spec

\* Stop deletes a Thread object only when its worker has left the pool for
\* good, so that the pool can be destroyed once Stop has returned.
THEOREM QuiescentStop == Spec => []StopQuiesces
<1>1. ThreadInv => StopQuiesces
  BY DEF ThreadInv
<1> QED BY <1>1, ThreadInvariant, PTL

-----------------------------------------------------------------------------
(* Each task in one place. *)

LEMMA InitOnePlace == Init => TaskInOnePlace
<1> SUFFICES ASSUME Init PROVE TaskInOnePlace
  OBVIOUS
<1>1. Range(<< >>) = {} /\ IsInjective(<< >>)
  BY DEF Range, IsInjective
<1>2. Held = {}
  BY DEF Init, Held
<1>3. {t \in Tasks : adding[t] = "pushed"} = {}
  BY DEF Init
<1>4. task_list = << >> /\ done = << >> /\ dropped = {} /\ \A w \in Workers : task[w] = None
  BY DEF Init
<1> QED BY <1>1, <1>2, <1>3, <1>4 DEF TaskInOnePlace

LEMMA OnePlaceNext ==
    ASSUME TypeInv, TaskInOnePlace, [Next]_vars
    PROVE  TaskInOnePlace'
<1>0. /\ task_list \in Seq(Tasks) /\ done \in Seq(Tasks) /\ dropped \subseteq Tasks
      /\ adding \in [Tasks -> {"new", "checked", "pushed", "refused"}]
      /\ task \in [Workers -> Tasks \cup {None}]
      /\ \A w \in Workers : pc[w] = "run" <=> task[w] # None
  BY DEF TypeInv, TypeOK
<1> DEFINE Pushed == {t \in Tasks : adding[t] = "pushed"}
<1>1. CASE UNCHANGED <<task_list, task, adding, done, dropped>>
  BY <1>1 DEF TaskInOnePlace, Held
<1>2. CASE StopClears
  <2>1. /\ task_list' = << >> /\ dropped' = dropped \cup Range(task_list)
        /\ UNCHANGED <<task, adding, done>>
    BY <1>2 DEF StopClears
  <2>2. Range(<< >>) = {} /\ IsInjective(<< >>)
    BY DEF Range, IsInjective
  <2>3. Held' = Held /\ Pushed' = Pushed
    BY <2>1 DEF Held
  <2> QED BY <2>1, <2>2, <2>3 DEF TaskInOnePlace
<1>3. ASSUME NEW t \in Tasks, AddTaskTest(t) PROVE TaskInOnePlace'
  <2>1. UNCHANGED <<task_list, task, done, dropped>>
    BY <1>3 DEF AddTaskTest
  <2>2. Pushed' = Pushed
    BY <1>0, <1>3 DEF AddTaskTest
  <2>3. Held' = Held
    BY <2>1 DEF Held
  <2> QED BY <2>1, <2>2, <2>3 DEF TaskInOnePlace
<1>4. ASSUME NEW t \in Tasks, AddTaskPush(t) PROVE TaskInOnePlace'
  <2>1. UNCHANGED <<task, done, dropped>> /\ task_list' = Append(task_list, t)
    BY <1>4 DEF AddTaskPush
  <2>2. t \notin Pushed /\ Pushed' = Pushed \cup {t}
    BY <1>0, <1>4 DEF AddTaskPush
  <2>3. Held' = Held
    BY <2>1 DEF Held
  <2>4. t \notin Range(task_list) \cup Held \cup Range(done) \cup dropped
    BY <2>2 DEF TaskInOnePlace
  <2>5. Range(task_list') = Range(task_list) \cup {t} /\ IsInjective(task_list')
    BY <1>0, <2>1, <2>4, RangeOfAppend DEF TaskInOnePlace
  <2> HIDE DEF Pushed
  <2>6. Pushed = Range(task_list) \cup Held \cup Range(done) \cup dropped
    BY DEF TaskInOnePlace, Pushed
  <2>7. Pushed' = Range(task_list') \cup Held' \cup Range(done') \cup dropped'
    BY <2>1, <2>2, <2>3, <2>5, <2>6
  <2> QED BY <2>1, <2>3, <2>4, <2>5, <2>7 DEF TaskInOnePlace, Pushed
<1>5. ASSUME NEW w \in Workers, Take(w) PROVE TaskInOnePlace'
  <2> DEFINE h == Head(task_list)
  <2>1. /\ task' = [task EXCEPT ![w] = h]
        /\ task_list' = Tail(task_list) /\ task_list # << >>
        /\ UNCHANGED <<adding, done, dropped>>
    BY <1>5 DEF Take, PopFront, TypeInv, LockInv
  <2>2. task[w] = None
    BY <1>0, <1>5 DEF Take
  <2>3. /\ h \in Range(task_list) /\ IsInjective(task_list')
        /\ Range(task_list') = Range(task_list) \ {h} /\ h \in Tasks
    BY <1>0, <2>1, RangeOfTail DEF TaskInOnePlace
  <2> HIDE DEF h
  <2>4. h # None
    BY <2>3, PoolAssumption
  <2>5. task'[w] = h /\ \A v \in Workers : v # w => task'[v] = task[v]
    BY <1>0, <2>1
  <2>6. Held' = Held \cup {h}
    BY <2>2, <2>4, <2>5 DEF Held
  <2>7. h \notin Held \cup Range(done) \cup dropped
    BY <2>3 DEF TaskInOnePlace
  <2>8. \A u, v \in Workers : task'[u] = task'[v] /\ task'[u] # None => u = v
    BY <2>4, <2>5, <2>7 DEF TaskInOnePlace, Held
  <2> QED BY <2>1, <2>3, <2>6, <2>7, <2>8 DEF TaskInOnePlace
<1>6. ASSUME NEW w \in Workers, RunTask(w) PROVE TaskInOnePlace'
  <2> DEFINE t == task[w]
  <2>1. /\ task' = [task EXCEPT ![w] = None] /\ done' = Append(done, t)
        /\ UNCHANGED <<task_list, adding, dropped>>
    BY <1>6 DEF RunTask
  <2>2. t # None /\ t \in Tasks
    BY <1>0, <1>6 DEF RunTask
  <2>3. task'[w] = None /\ \A v \in Workers : v # w => task'[v] = task[v]
    BY <1>0, <2>1
  <2>4. t \in Held /\ Held' = Held \ {t}
    BY <2>2, <2>3 DEF TaskInOnePlace, Held
  <2> HIDE DEF t
  <2>5. t \notin Range(done) \cup Range(task_list) \cup dropped
    BY <2>4 DEF TaskInOnePlace
  <2>6. Range(done') = Range(done) \cup {t} /\ IsInjective(done')
    BY <1>0, <2>1, <2>2, <2>5, RangeOfAppend DEF TaskInOnePlace
  <2>7. \A u, v \in Workers : task'[u] = task'[v] /\ task'[u] # None => u = v
    BY <2>3 DEF TaskInOnePlace
  <2> QED BY <2>1, <2>4, <2>5, <2>6, <2>7 DEF TaskInOnePlace
<1> QED BY <1>1, <1>2, <1>3, <1>4, <1>5, <1>6
        DEF Next, vars, taskVars, Run, Owner, StopFlag, StopBroadcast, JoinStart, JoinNothing,
            JoinEnd, StopReturn, StartThread, SpuriousWakeup, Worker,
            Test, Lock, Look, Sleep, Decide, Detach, ClearThreadID, EndThread

\* No task of AddTask is lost, run twice, or deleted twice by workers and Stop.
THEOREM OnePlace == Spec => []TaskInOnePlace
<1>1. TypeInv /\ TaskInOnePlace /\ [Next]_vars => TaskInOnePlace'
  BY OnePlaceNext
<1> QED BY <1>1, InitOnePlace, TypeInvariant, PTL DEF Spec

-----------------------------------------------------------------------------
(* ThreadPool implements TaskPool. *)

\* is_running_ is set from Run to the middle of Stop; a task is taken by AddTask
\* only after Run; when Stop has returned every Thread object is deleted.
PhaseInv ==
    /\ is_running <=> owner \in {"starting", "running", "cleared"}
    /\ owner = "idle" => \A t \in Tasks : adding[t] \notin {"checked", "pushed"}
    /\ owner = "stopped" => thread_set = {}

LEMMA InitPhase == Init => PhaseInv
<1> SUFFICES ASSUME Init PROVE PhaseInv
  OBVIOUS
<1>1. owner = "idle" /\ is_running = FALSE
  BY DEF Init
<1>2. \A t \in Tasks : adding[t] = "new"
  BY DEF Init
<1> QED BY <1>1, <1>2 DEF PhaseInv

LEMMA PhaseNext ==
    ASSUME TypeInv, PhaseInv, [Next]_vars
    PROVE  PhaseInv'
<1>0. /\ adding \in [Tasks -> {"new", "checked", "pushed", "refused"}]
      /\ is_running \in BOOLEAN
  BY DEF TypeInv, TypeOK
<1>1. CASE UNCHANGED <<is_running, owner, adding, thread_set>>
  BY <1>1 DEF PhaseInv
<1>2. CASE Run
  BY <1>2 DEF Run, PhaseInv, threadVars
<1>3. ASSUME NEW w \in Workers, StartThread(w) PROVE PhaseInv'
  BY <1>3 DEF StartThread, PhaseInv, taskVars
<1>4. CASE StopClears
  BY <1>4 DEF StopClears, PhaseInv, threadVars
<1>5. CASE StopFlag
  BY <1>5 DEF StopFlag, PhaseInv, threadVars
<1>6. CASE StopBroadcast
  BY <1>6 DEF StopBroadcast, PhaseInv, threadVars
<1>7. ASSUME NEW w \in Workers, JoinNothing(w) PROVE PhaseInv'
  BY <1>7 DEF JoinNothing, PhaseInv, taskVars
<1>8. CASE JoinEnd
  BY <1>8 DEF JoinEnd, PhaseInv, taskVars
<1>9. CASE StopReturn
  BY <1>9 DEF StopReturn, PhaseInv, taskVars, threadVars
<1>10. ASSUME NEW t \in Tasks, AddTaskTest(t) PROVE PhaseInv'
  BY <1>0, <1>10 DEF AddTaskTest, PhaseInv, threadVars
<1>11. ASSUME NEW t \in Tasks, AddTaskPush(t) PROVE PhaseInv'
  BY <1>0, <1>11 DEF AddTaskPush, PhaseInv, threadVars
<1> QED BY <1>1, <1>2, <1>3, <1>4, <1>5, <1>6, <1>7, <1>8, <1>9, <1>10, <1>11
        DEF Next, vars, taskVars, threadVars, Owner, JoinStart, SpuriousWakeup, Worker,
            Test, Lock, Look, Sleep, Decide, Take, RunTask, Detach, ClearThreadID,
            EndThread

LEMMA RangeIsElements ==
    ASSUME NEW S, NEW s \in Seq(S) PROVE Range(s) = Promise!Elements(s)
BY DEF Range, Promise!Elements

LEMMA InitImplements == Init => Promise!Init
<1> SUFFICES ASSUME Init PROVE Promise!Init
  OBVIOUS
<1>1. Held = {}
  BY DEF Init, Held
<1>2. Phase = "new"
  BY DEF Init, Phase
<1> QED BY <1>1, <1>2 DEF Init, Promise!Init

\* Only the steps to and from the label "take" change Taking.
LEMMA GotoTaking ==
    ASSUME TypeInv, NEW w \in Workers, NEW l \in PCs, pc[w] # "take", l # "take",
           Goto(w, l)
    PROVE  Taking' = Taking
BY DEF TypeInv, TypeOK, Goto, Taking

LEMMA WakeTaking ==
    ASSUME TypeInv, WakeAll \/ WakeOne
    PROVE  Taking' = Taking
BY DEF TypeInv, TypeOK, WakeAll, WakeOne, Taking

LEMMA StepTaking ==
    ASSUME TypeInv, NEW w \in Workers,
           SpuriousWakeup(w) \/ (Worker(w) /\ ~ Decide(w) /\ ~ Take(w))
    PROVE  Taking' = Taking
<1>1. pc[w] # "take"
  BY DEF SpuriousWakeup, Worker, Test, Lock, Look, Sleep, RunTask, Detach, ClearThreadID, EndThread
<1>2. \E l \in PCs : l # "take" /\ Goto(w, l)
  BY DEF SpuriousWakeup, Worker, Test, Lock, Look, Sleep, RunTask, Detach, ClearThreadID,
         EndThread, PCs
<1> QED BY <1>1, <1>2, GotoTaking

LEMMA NextImplements ==
    ASSUME TypeInv, ThreadInv, TaskInOnePlace, PhaseInv, [Next]_vars
    PROVE  [Promise!Next]_(Promise!vars)
<1>0. /\ task_list \in Seq(Tasks) /\ done \in Seq(Tasks)
      /\ task \in [Workers -> Tasks \cup {None}]
      /\ \A w \in Workers : pc[w] = "run" <=> task[w] # None
      /\ owner \in {"idle", "starting", "running", "cleared", "flagged", "joining", "stopped"}
  BY DEF TypeInv, TypeOK
<1>1. ASSUME UNCHANGED <<task_list, task, done, dropped, Phase>>
      PROVE  UNCHANGED Promise!vars
  BY <1>1 DEF Promise!vars, Held
<1>2. ASSUME UNCHANGED <<task_list, task, done, dropped, owner>>, Taking' = Taking
      PROVE  UNCHANGED Promise!vars
  <2>1. UNCHANGED Phase
    BY <1>2 DEF Phase
  <2> QED BY <1>1, <1>2, <2>1
<1>3. CASE Run
  <2>1. Phase = "new" /\ Phase' = "open" /\ UNCHANGED <<task_list, task, done, dropped>>
    BY <1>3 DEF Run, Phase, taskVars
  <2>2. Promise!Open
    BY <2>1 DEF Promise!Open, Held
  <2> QED BY <2>2 DEF Promise!Next
<1>4. ASSUME NEW w \in Workers, StartThread(w) PROVE UNCHANGED Promise!vars
  <2>1. Phase' = Phase /\ UNCHANGED <<task_list, task, done, dropped>>
    BY <1>4 DEF StartThread, Phase, taskVars
  <2> QED BY <1>1, <2>1
<1>5. CASE StopClears
  <2>1. /\ Phase = "open" /\ Phase' = "draining"
        /\ task_list' = << >> /\ dropped' = dropped \cup Range(task_list)
        /\ UNCHANGED <<task, done>>
    BY <1>5 DEF StopClears, Phase
  <2>2. Range(task_list) = Promise!Elements(task_list)
    BY <1>0, RangeIsElements
  <2>3. Promise!Discard
    BY <2>1, <2>2 DEF Promise!Discard, Held
  <2> QED BY <2>3 DEF Promise!Next
<1>6. CASE StopFlag
  <2>1. /\ Phase = "draining" /\ Phase' \in {"last", "closing"}
        /\ UNCHANGED <<task_list, task, done, dropped>>
    BY <1>6 DEF StopFlag, Phase, taskVars
  <2>2. Promise!Shut
    BY <2>1 DEF Promise!Shut, Held
  <2> QED BY <2>2 DEF Promise!Next
<1>7. CASE StopBroadcast
  <2>1. Taking' = Taking
    BY <1>7, WakeTaking DEF StopBroadcast, Broadcast
  <2>2. Phase' = Phase /\ UNCHANGED <<task_list, task, done, dropped>>
    BY <1>7, <2>1 DEF StopBroadcast, Phase, taskVars
  <2> QED BY <1>1, <2>2
<1>8. CASE StopReturn
  <2>2. \A w \in Workers : pc[w] \notin {"run", "take"}
    BY <1>8 DEF StopReturn, ThreadInv, StopQuiesces
  <2>1. /\ Phase = "closing" /\ Phase' = "closed"
        /\ UNCHANGED <<task_list, task, done, dropped>>
    BY <1>8, <2>2 DEF StopReturn, Phase, Taking, taskVars
  <2>3. Held = {}
    BY <1>0, <2>2 DEF Held
  <2>4. Held' = Held
    BY <2>1 DEF Held
  <2>5. Promise!Close
    BY <2>1, <2>3, <2>4 DEF Promise!Close
  <2> QED BY <2>5 DEF Promise!Next
<1>9. ASSUME NEW t \in Tasks, AddTaskPush(t) PROVE Promise!Next
  <2>0. Taking' = Taking
    BY <1>9, WakeTaking DEF AddTaskPush, Signal
  <2>1. /\ task_list' = Append(task_list, t) /\ UNCHANGED <<task, done, dropped>>
        /\ Phase' = Phase
    BY <1>9, <2>0 DEF AddTaskPush, Phase
  <2>2. owner # "idle"
    BY <1>9 DEF AddTaskPush, PhaseInv
  <2>3. Phase # "new"
    BY <1>0, <2>2 DEF Phase
  <2>4. t \notin Range(task_list) \cup Held \cup Range(done) \cup dropped
    BY <1>9 DEF AddTaskPush, TaskInOnePlace
  <2>5. Range(task_list) = Promise!Elements(task_list) /\ Range(done) = Promise!Elements(done)
    BY <1>0, RangeIsElements
  <2>6. Held' = Held
    BY <2>1 DEF Held
  <2>7. Promise!Submit(t)
    BY <2>1, <2>3, <2>4, <2>5, <2>6 DEF Promise!Submit
  <2> QED BY <2>7 DEF Promise!Next
<1>10. ASSUME NEW w \in Workers, Decide(w) PROVE UNCHANGED Promise!vars
  <2>1. UNCHANGED <<task_list, task, done, dropped, owner>> /\ pc[w] = "decide"
    BY <1>10 DEF Decide, taskVars
  <2>2. CASE NothingToDo
    <3>1. Goto(w, "leave")
      BY <1>10, <2>2 DEF Decide
    <3>2. Taking' = Taking
      BY <2>1, <3>1, GotoTaking DEF PCs
    <3> QED BY <1>2, <2>1, <3>2
  <2>3. CASE ~ NothingToDo
    <3>1. owner \in {"starting", "running", "cleared"}
      BY <2>3 DEF NothingToDo, PhaseInv
    <3>2. Phase' = Phase
      BY <2>1, <3>1 DEF Phase
    <3> QED BY <1>1, <2>1, <3>2
  <2> QED BY <2>2, <2>3
<1>12. ASSUME NEW w \in Workers, Take(w) PROVE Promise!Next
  <2>1. /\ task' = [task EXCEPT ![w] = Head(task_list)]
        /\ task_list' = Tail(task_list) /\ task_list # << >>
        /\ UNCHANGED <<done, dropped, owner>> /\ pc[w] = "take" /\ mutex = w
    BY <1>12 DEF Take, PopFront, TypeInv, LockInv
  <2>2. task[w] = None
    BY <1>0, <2>1
  <2>3. Head(task_list) \in Tasks /\ Head(task_list) \in Range(task_list)
    BY <1>0, <2>1, RangeOfTail
  <2>4. Head(task_list) # None
    BY <2>3, PoolAssumption
  <2>5. task'[w] = Head(task_list) /\ \A v \in Workers : v # w => task'[v] = task[v]
    BY <1>0, <2>1
  <2>6. Held' = Held \cup {Head(task_list)}
    BY <2>2, <2>4, <2>5 DEF Held
  <2>7. owner # "idle"
    BY <2>3 DEF PhaseInv, TaskInOnePlace
  <2>8. owner # "stopped"
    BY <2>1 DEF PhaseInv, ThreadInv, StopQuiesces
  <2>9. \A v \in Workers : pc'[v] # "take"
    <3>1. \A v \in Workers : v # w => pc[v] # "take"
      BY <2>1 DEF TypeInv, LockInv
    <3>2. pc \in [Workers -> PCs] /\ pc' = [pc EXCEPT ![w] = "run"]
      BY <1>12 DEF Take, Goto, TypeInv, TypeOK
    <3> QED BY <3>1, <3>2
  <2>10. Taking /\ ~ Taking'
    BY <2>1, <2>9 DEF Taking
  <2>11. \/ Phase \in {"open", "draining"} /\ Phase' = Phase
         \/ Phase = "last" /\ Phase' = "closing"
    BY <1>0, <2>1, <2>7, <2>8, <2>10 DEF Phase
  <2>12. Promise!Take
    BY <2>1, <2>6, <2>11 DEF Promise!Take
  <2> QED BY <2>12 DEF Promise!Next
<1>13. ASSUME NEW w \in Workers,
              Test(w) \/ Lock(w) \/ Look(w) \/ Sleep(w) \/ Detach(w) \/ ClearThreadID(w)
                 \/ EndThread(w) \/ SpuriousWakeup(w)
       PROVE  UNCHANGED Promise!vars
  <2>1. UNCHANGED <<task_list, task, done, dropped, owner>>
    BY <1>13 DEF Test, Lock, Look, Sleep, Detach, ClearThreadID, EndThread, SpuriousWakeup,
                 taskVars
  <2>2. ~ Decide(w) /\ ~ Take(w)
    BY <1>13 DEF Test, Lock, Look, Sleep, Detach, ClearThreadID, EndThread, SpuriousWakeup,
                 Decide, Take
  <2>3. SpuriousWakeup(w) \/ Worker(w)
    BY <1>13 DEF Worker
  <2>4. Taking' = Taking
    BY <2>2, <2>3, StepTaking
  <2> QED BY <1>2, <2>1, <2>4
<1>14. CASE UNCHANGED <<task_list, task, done, dropped, owner, pc>>
  <2>1. Taking' = Taking
    BY <1>14 DEF Taking
  <2> QED BY <1>2, <1>14, <2>1
<1>11. ASSUME NEW w \in Workers, RunTask(w) PROVE Promise!Next
  <2>1. /\ task' = [task EXCEPT ![w] = None] /\ done' = Append(done, task[w])
        /\ UNCHANGED <<task_list, dropped, owner>> /\ pc[w] = "run"
    BY <1>11 DEF RunTask
  <2>2. task[w] # None /\ task[w] \in Tasks
    BY <1>0, <2>1
  <2>3. task'[w] = None /\ \A v \in Workers : v # w => task'[v] = task[v]
    BY <1>0, <2>1
  <2>4. task[w] \in Held /\ Held' = Held \ {task[w]}
    BY <2>2, <2>3 DEF TaskInOnePlace, Held
  <2>5. owner # "stopped"
    BY <2>1 DEF PhaseInv, ThreadInv, StopQuiesces
  <2>8. Taking' = Taking
    BY <1>11, GotoTaking DEF RunTask, PCs
  <2>6. Phase # "closed" /\ Phase' = Phase
    BY <1>0, <2>1, <2>5, <2>8 DEF Phase
  <2>7. Promise!Finish(task[w])
    BY <2>1, <2>4, <2>6 DEF Promise!Finish
  <2> QED BY <2>2, <2>7 DEF Promise!Next
<1> QED BY <1>3, <1>4, <1>5, <1>6, <1>7, <1>8, <1>9, <1>10, <1>11, <1>12, <1>13, <1>14
        DEF Next, vars, taskVars, threadVars, Owner, JoinStart, JoinNothing, JoinEnd,
            AddTaskTest, Worker

\* ThreadPool implements TaskPool for every number of workers and of tasks:
\* its threads, its lock and its wakeups do not show, except in the tasks that an
\* AddTask that tested is_running_ before Stop puts into the list late, and in one
\* task that a worker that tested it before Stop takes after the reset.
THEOREM PoolRefinement == Spec => ImplementsTaskPool
<1>1. TypeInv /\ PhaseInv /\ [Next]_vars => PhaseInv'
  BY PhaseNext
<1>2. Spec => []PhaseInv
  BY <1>1, InitPhase, TypeInvariant, PTL DEF Spec
<1>3. Spec => []TaskInOnePlace
  BY OnePlace
<1>4. Spec => []ThreadInv
  BY ThreadInvariant
<1>5. TypeInv /\ ThreadInv /\ TaskInOnePlace /\ PhaseInv /\ [Next]_vars
         => [Promise!Next]_(Promise!vars)
  BY NextImplements
<1> QED BY <1>2, <1>3, <1>4, <1>5, InitImplements, TypeInvariant, PTL
        DEF Spec, ImplementsTaskPool, Promise!Spec

=============================================================================
