------------------------------ MODULE TaskPool ------------------------------
(***************************************************************************)
(* What ThreadPool promises to who uses it: a queue of tasks, each run at  *)
(* most once, taken in the order of AddTask; a Stop that deletes what      *)
(* nobody took and that returns when no task runs any more.  Threads, the  *)
(* mutex and the condition variable do not occur.                          *)
(***************************************************************************)
EXTENDS Naturals, Sequences

CONSTANT Tasks

VARIABLES phase,     \* "new", "open", "draining", "last", "closing" or "closed"
          queue,     \* tasks accepted and not yet taken
          running,   \* tasks being run
          finished,  \* tasks that ran, in the order they ended
          discarded  \* tasks that Stop deleted

vars == <<phase, queue, running, finished, discarded>>

Init ==
    /\ phase = "new" /\ queue = << >> /\ running = {}
    /\ finished = << >> /\ discarded = {}

Open ==
    /\ phase = "new" /\ phase' = "open"
    /\ UNCHANGED <<queue, running, finished, discarded>>

Elements(s) == {s[i] : i \in 1..Len(s)}

\* A task is accepted once; a call that overlaps with Stop may still put it
\* into the queue when Stop is far ahead.
Submit(t) ==
    /\ phase # "new"
    /\ t \notin Elements(queue) \cup running \cup Elements(finished) \cup discarded
    /\ queue' = Append(queue, t)
    /\ UNCHANGED <<phase, running, finished, discarded>>

\* While the pool closes one task is taken at most.
Take ==
    /\ \/ phase \in {"open", "draining"} /\ UNCHANGED phase
       \/ phase = "last" /\ phase' = "closing"
    /\ queue # << >>
    /\ running' = running \cup {Head(queue)}
    /\ queue' = Tail(queue)
    /\ UNCHANGED <<finished, discarded>>

Finish(t) ==
    /\ phase # "closed"
    /\ t \in running
    /\ running' = running \ {t}
    /\ finished' = Append(finished, t)
    /\ UNCHANGED <<phase, queue, discarded>>

Discard ==
    /\ phase = "open" /\ phase' = "draining"
    /\ discarded' = discarded \cup Elements(queue)
    /\ queue' = << >>
    /\ UNCHANGED <<running, finished>>

Shut ==
    /\ phase = "draining" /\ phase' \in {"last", "closing"}
    /\ UNCHANGED <<queue, running, finished, discarded>>

Close ==
    /\ phase = "closing" /\ phase' = "closed"
    /\ running = {}
    /\ UNCHANGED <<queue, running, finished, discarded>>

Next ==
    \/ Open \/ Take \/ Discard \/ Shut \/ Close
    \/ \E t \in Tasks : Submit(t) \/ Finish(t)

Spec == Init /\ [][Next]_vars

=============================================================================
