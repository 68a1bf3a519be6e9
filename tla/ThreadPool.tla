----------------------------- MODULE ThreadPool -----------------------------
(***************************************************************************)
(* ThreadPool over Thread, Mutex and a condition variable: an owner calls  *)
(* Run and, once, Stop; worker threads take tasks with GetNextTask; any    *)
(* thread calls AddTask.  is_running_ is read and written without the      *)
(* mutex, and Stop broadcasts without it.                                  *)
(*                                                                         *)
(* A worker's program counter names the line it is about to execute:       *)
(*   none    not created               failed  pthread_create failed       *)
(*   test    first test of is_running_ lock    mutex_.Lock                 *)
(*   look    loop condition            sleep   pthread_cond_wait entered   *)
(*   wait    asleep                    wake    woken, mutex not yet held   *)
(*   decide  test after the loop       take    front and pop_front         *)
(*   run     task->Run                 leave   Run over, pthread_detach    *)
(*   zero    thread_id_ = 0            tail    running_ = false            *)
(*   gone    thread has ended                                              *)
(***************************************************************************)
EXTENDS Naturals, Sequences, SequencesExt

CONSTANTS Workers,   \* the Thread objects that Run creates
          Tasks,     \* the IThreadTask objects, each given to AddTask once
          None       \* no thread, no task

ASSUME PoolAssumption == None \notin Workers \cup Tasks

VARIABLES
    is_running,  \* is_running_
    mutex,       \* worker that holds mutex_ between its steps, or None
    task_list,   \* task_list_
    owner,       \* what the owner is doing
    joining,     \* the Thread whose Join Stop is in, or None
    thread_set,  \* Thread objects that exist
    pc,          \* program counter of each worker
    task,        \* task that a worker runs, or None
    thread_id,   \* Thread::thread_id_ is not 0
    detached,    \* threads that pthread_detach has detached
    adding,      \* program counter of the AddTask call of each task
    done,        \* tasks run and deleted, in this order
    dropped,     \* tasks that Stop deleted
    late,        \* ghost: tasks pushed after Stop cleared the list
    missed       \* ghost: workers between loop condition and wait at the broadcast

taskVars == <<task_list, adding, done, dropped, late>>
threadVars == <<thread_set, joining, thread_id, detached>>
vars == <<is_running, mutex, owner, pc, task, missed, taskVars, threadVars>>

Init ==
    /\ is_running = FALSE /\ mutex = None /\ task_list = << >>
    /\ owner = "idle" /\ joining = None /\ thread_set = {}
    /\ pc = [w \in Workers |-> "none"]
    /\ task = [w \in Workers |-> None]
    /\ thread_id = [w \in Workers |-> FALSE] /\ detached = {}
    /\ adding = [t \in Tasks |-> "new"]
    /\ done = << >> /\ dropped = {} /\ late = {} /\ missed = {}

-----------------------------------------------------------------------------
(* The owner. *)

Run ==
    /\ owner = "idle"
    /\ is_running' = TRUE
    /\ owner' = "starting"
    /\ UNCHANGED <<mutex, pc, task, missed, taskVars, threadVars>>

\* new Thread, Thread::Run and the insertion into thread_set_; that
\* pthread_create failed is not looked at.
StartThread(w) ==
    /\ owner = "starting"
    /\ pc[w] = "none"
    /\ thread_set' = thread_set \cup {w}
    /\ \/ pc' = [pc EXCEPT ![w] = "test"] /\ thread_id' = [thread_id EXCEPT ![w] = TRUE]
       \/ pc' = [pc EXCEPT ![w] = "failed"] /\ UNCHANGED thread_id
    /\ owner' = IF thread_set' = Workers THEN "running" ELSE owner
    /\ UNCHANGED <<is_running, mutex, task, missed, taskVars, joining, detached>>

\* The first part of Stop: the tasks nobody took are deleted.
StopClears ==
    /\ owner = "running" /\ is_running
    /\ mutex = None
    /\ dropped' = dropped \cup Range(task_list)
    /\ task_list' = << >>
    /\ owner' = "cleared"
    /\ UNCHANGED <<is_running, mutex, pc, task, missed, adding, done, late, threadVars>>

StopFlag ==
    /\ owner = "cleared"
    /\ is_running' = FALSE
    /\ owner' = "flagged"
    /\ UNCHANGED <<mutex, pc, task, missed, taskVars, threadVars>>

\* pthread_cond_broadcast and pthread_cond_signal wake threads that wait;
\* faulty variant of the broadcast: one of them.
WakeAll == pc' = [w \in Workers |-> IF pc[w] = "wait" THEN "wake" ELSE pc[w]]
WakeOne ==
    IF \E w \in Workers : pc[w] = "wait"
    THEN \E w \in Workers : pc[w] = "wait" /\ pc' = [pc EXCEPT ![w] = "wake"]
    ELSE UNCHANGED pc
Broadcast == WakeAll

StopBroadcast ==
    /\ owner = "flagged"
    /\ Broadcast
    /\ missed' = {w \in Workers : pc[w] = "sleep"}
    /\ owner' = "joining"
    /\ UNCHANGED <<is_running, mutex, task, taskVars, threadVars>>

\* Join reads thread_id_ and goes into pthread_join if there is one.
JoinStart(w) ==
    /\ owner = "joining" /\ joining = None
    /\ w \in thread_set
    /\ thread_id[w]
    /\ joining' = w
    /\ UNCHANGED <<is_running, mutex, owner, pc, task, missed, taskVars,
                   thread_set, thread_id, detached>>

\* Without a thread_id_ Join returns false, and the Thread object is deleted.
JoinNothing(w) ==
    /\ owner = "joining" /\ joining = None
    /\ w \in thread_set
    /\ ~ thread_id[w]
    /\ thread_set' = thread_set \ {w}
    /\ UNCHANGED <<is_running, mutex, owner, pc, task, missed, taskVars,
                   joining, thread_id, detached>>

\* pthread_join returns: the thread has ended, or it was detached (EINVAL).
\* Faulty variant: pthread_join does not wait.
JoinReturnsAtOnce(w) == TRUE
JoinReturns(w) == pc[w] = "gone" \/ w \in detached

\* Join is over; deleting the Thread object detaches whatever is left.
JoinEnd ==
    /\ owner = "joining" /\ joining # None
    /\ JoinReturns(joining)
    /\ thread_id' = [thread_id EXCEPT ![joining] = FALSE]
    /\ thread_set' = thread_set \ {joining}
    /\ joining' = None
    /\ UNCHANGED <<is_running, mutex, owner, pc, task, missed, taskVars, detached>>

StopReturn ==
    /\ owner = "joining" /\ thread_set = {}
    /\ owner' = "stopped"
    /\ UNCHANGED <<is_running, mutex, pc, task, missed, taskVars, threadVars>>

Owner ==
    \/ StopClears \/ StopFlag \/ StopBroadcast
    \/ \E w \in Workers : JoinStart(w) \/ JoinNothing(w)
    \/ JoinEnd \/ StopReturn

-----------------------------------------------------------------------------
(* AddTask, for each task on some thread. *)

AddTaskTest(t) ==
    /\ adding[t] = "new"
    /\ adding' = [adding EXCEPT ![t] = IF is_running THEN "checked" ELSE "refused"]
    /\ UNCHANGED <<is_running, mutex, owner, pc, task, missed,
                   task_list, done, dropped, late, threadVars>>

\* Faulty variant: nobody is woken.
WakeNobody == UNCHANGED pc
Signal == WakeOne

AddTaskPush(t) ==
    /\ adding[t] = "checked"
    /\ mutex = None
    /\ task_list' = Append(task_list, t)
    /\ Signal
    /\ adding' = [adding EXCEPT ![t] = "pushed"]
    /\ late' = IF owner \in {"starting", "running"} THEN late ELSE late \cup {t}
    /\ UNCHANGED <<is_running, mutex, owner, task, missed, done, dropped, threadVars>>

-----------------------------------------------------------------------------
(* The workers: ThreadPoolWorkingTask::Run with GetNextTask. *)

Goto(w, l) == pc' = [pc EXCEPT ![w] = l]

Test(w) ==
    /\ pc[w] = "test"
    /\ Goto(w, IF is_running THEN "lock" ELSE "leave")
    /\ UNCHANGED <<is_running, mutex, owner, task, missed, taskVars, threadVars>>

\* mutex_.Lock, also the one inside pthread_cond_wait after waking up.
Lock(w) ==
    /\ pc[w] \in {"lock", "wake"}
    /\ mutex = None
    /\ mutex' = w
    /\ Goto(w, "look")
    /\ UNCHANGED <<is_running, owner, task, missed, taskVars, threadVars>>

Look(w) ==
    /\ pc[w] = "look"
    /\ Goto(w, IF task_list = << >> /\ is_running THEN "sleep" ELSE "decide")
    /\ UNCHANGED <<is_running, mutex, owner, task, missed, taskVars, threadVars>>

\* pthread_cond_wait gives up the mutex and waits, in one step.
Sleep(w) ==
    /\ pc[w] = "sleep"
    /\ mutex' = None
    /\ Goto(w, "wait")
    /\ UNCHANGED <<is_running, owner, task, missed, taskVars, threadVars>>

\* A wakeup that nobody signalled, which pthread_cond_wait permits.
SpuriousWakeup(w) ==
    /\ pc[w] = "wait"
    /\ Goto(w, "wake")
    /\ UNCHANGED <<is_running, mutex, owner, task, missed, taskVars, threadVars>>

\* The test after the loop; faulty variant: is_running_ is not tested again.
ListEmpty == task_list = << >>
NothingToDo == task_list = << >> \/ ~ is_running

Decide(w) ==
    /\ pc[w] = "decide"
    /\ IF NothingToDo
       THEN Goto(w, "leave") /\ mutex' = None
       ELSE Goto(w, "take") /\ UNCHANGED mutex
    /\ UNCHANGED <<is_running, owner, task, missed, taskVars, threadVars>>

\* The list without the task that was taken.
PopFront(s) == Tail(s)

\* Stop resets is_running_ without the mutex, and may have done so by now.
Take(w) ==
    /\ pc[w] = "take"
    /\ mutex' = None
    /\ task' = [task EXCEPT ![w] = Head(task_list)]
    /\ task_list' = PopFront(task_list)
    /\ Goto(w, "run")
    /\ UNCHANGED <<is_running, owner, missed, adding, done, dropped, late, threadVars>>

RunTask(w) ==
    /\ pc[w] = "run"
    /\ done' = Append(done, task[w])
    /\ task' = [task EXCEPT ![w] = None]
    /\ Goto(w, "test")
    /\ UNCHANGED <<is_running, mutex, owner, missed, task_list, adding, dropped, late,
                   threadVars>>

\* StartRoutine after Run: Detach calls pthread_detach, which has no effect
\* when the owner is in pthread_join already ...
Detach(w) ==
    /\ pc[w] = "leave"
    /\ Goto(w, "zero")
    /\ detached' = IF joining = w THEN detached ELSE detached \cup {w}
    /\ UNCHANGED <<is_running, mutex, owner, task, missed, taskVars,
                   thread_set, joining, thread_id>>

\* ... then it writes thread_id_ = 0 ...
ClearThreadID(w) ==
    /\ pc[w] = "zero"
    /\ thread_id' = [thread_id EXCEPT ![w] = FALSE]
    /\ Goto(w, "tail")
    /\ UNCHANGED <<is_running, mutex, owner, task, missed, taskVars,
                   thread_set, joining, detached>>

\* ... and StartRoutine writes running_ = false and returns.
EndThread(w) ==
    /\ pc[w] = "tail"
    /\ Goto(w, "gone")
    /\ UNCHANGED <<is_running, mutex, owner, task, missed, taskVars, threadVars>>

Worker(w) ==
    \/ Test(w) \/ Lock(w) \/ Look(w) \/ Sleep(w) \/ Decide(w) \/ Take(w)
    \/ RunTask(w) \/ Detach(w) \/ ClearThreadID(w) \/ EndThread(w)

-----------------------------------------------------------------------------
Next ==
    \/ Run \/ Owner
    \/ \E w \in Workers : StartThread(w) \/ Worker(w) \/ SpuriousWakeup(w)
    \/ \E t \in Tasks : AddTaskTest(t) \/ AddTaskPush(t)

Spec == Init /\ [][Next]_vars

\* A thread that can take a step takes it (tasks return, a mutex that is free
\* is got); nothing obliges the owner to call Stop or the system to wake a
\* waiting thread without a signal.
FairSpec ==
    /\ Spec
    /\ \A w \in Workers : WF_vars(StartThread(w)) /\ WF_vars(Worker(w))
    /\ \A t \in Tasks : WF_vars(AddTaskPush(t))
    /\ WF_vars(owner # "running" /\ Owner)

-----------------------------------------------------------------------------
PCs == {"none", "failed", "test", "lock", "look", "sleep", "wait", "wake", "decide",
        "take", "run", "leave", "zero", "tail", "gone"}

\* Every variable has its type.
TypeOK ==
    /\ is_running \in BOOLEAN /\ mutex \in Workers \cup {None}
    /\ task_list \in Seq(Tasks) /\ done \in Seq(Tasks)
    /\ owner \in {"idle", "starting", "running", "cleared", "flagged", "joining", "stopped"}
    /\ joining \in Workers \cup {None} /\ thread_set \subseteq Workers
    /\ pc \in [Workers -> PCs] /\ task \in [Workers -> Tasks \cup {None}]
    /\ thread_id \in [Workers -> BOOLEAN] /\ detached \subseteq Workers
    /\ adding \in [Tasks -> {"new", "checked", "pushed", "refused"}]
    /\ dropped \subseteq Tasks /\ late \subseteq Tasks /\ missed \subseteq Workers

\* The tasks that workers have taken from the list.
Held == {task[w] : w \in Workers} \ {None}

\* A task that AddTask took is in exactly one place: in the list, with one
\* worker, deleted after it ran or deleted by Stop.
TaskInOnePlace ==
    /\ {t \in Tasks : adding[t] = "pushed"} =
          Range(task_list) \cup Held \cup Range(done) \cup dropped
    /\ Range(task_list) \cap (Held \cup Range(done) \cup dropped) = {}
    /\ Held \cap (Range(done) \cup dropped) = {}
    /\ Range(done) \cap dropped = {}
    /\ IsInjective(task_list) /\ IsInjective(done)
    /\ \A v, w \in Workers : task[v] = task[w] /\ task[v] # None => v = w

\* Stop deletes a Thread object, and in the end returns to a caller that may
\* destroy the pool, only when that worker will not touch pool, mutex or
\* tasks again.
StopQuiesces ==
    owner \in {"joining", "stopped"} =>
        \A w \in Workers \ thread_set : pc[w] \in {"failed", "zero", "tail", "gone"}

\* The state of a TaskPool that a state of this module shows.
Taking == \E w \in Workers : pc[w] = "take"
Phase ==
    CASE owner = "idle" -> "new"
      [] owner \in {"starting", "running"} -> "open"
      [] owner = "cleared" -> "draining"
      [] owner \in {"flagged", "joining"} -> IF Taking THEN "last" ELSE "closing"
      [] owner = "stopped" -> "closed"

Promise == INSTANCE TaskPool WITH phase <- Phase, queue <- task_list, running <- Held,
                                  finished <- done, discarded <- dropped

\* ThreadPool with its threads, lock and wakeups implements TaskPool: tasks are
\* taken in the order of AddTask and run at most once; once Stop has reset
\* is_running_ at most one is still taken, by a worker that had tested it before;
\* and none is running when Stop returns.
ImplementsTaskPool == Promise!Spec

\* A task that AddTask took ends: it runs, or Stop deletes it, provided that one
\* pthread_create succeeded - so no wakeup of AddTask is lost, nor does Stop miss
\* a task that was there.  Only a task pushed after Stop cleared the list may be
\* left in it, for ever, when is_running_ is reset before a worker takes it.
TaskEnds ==
    \A t \in Tasks :
        adding[t] = "pushed" ~> \/ t \in Range(done) \cup dropped
                                \/ t \in late \cap Range(task_list) /\ ~ is_running
                                \/ \A w \in Workers : pc[w] = "failed"

\* Stop returns, unless a worker was between its test of is_running_ and its
\* wait when Stop broadcast without the mutex: that worker sleeps on.
StopReturns == owner = "cleared" ~> (owner = "stopped" \/ missed # {})

=============================================================================
