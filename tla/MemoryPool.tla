----------------------------- MODULE MemoryPool -----------------------------
(***************************************************************************)
(* MemoryPoolManager over MemoryPool: blocks of equal size are cached in a *)
(* stack per size.  Alloc and Free look up under two locks; the push of    *)
(* Free is under none, and Free returns with a lock held for a pointer it  *)
(* does not know.  Threads allocate and free, also each other's blocks.    *)
(*                                                                         *)
(* A block is the size of its pool and a number.                           *)
(***************************************************************************)
EXTENDS Naturals, Sequences, FiniteSets

CONSTANTS Threads, Sizes,      \* the sizes asked for
          Align,               \* sizeof(long)
          IncreaseNum,         \* blocks made at a time
          MaxHeld,             \* bound: blocks in use at a time
          Foreign, None

ASSUME MemoryPoolAssumption ==
    /\ Sizes \subseteq Nat /\ Align \in Nat \ {0} /\ IncreaseNum \in Nat \ {0}
    /\ None \notin Threads
    /\ {Foreign, None} \cap (Nat \X Nat) = {}   \* no block

VARIABLES
    pools,       \* memory_size_to_pool_map_ and the free_buffers_ of each pool
    made,        \* size -> number of blocks in real_buffer_ptrs_
    size_map,    \* memory_to_size_map_
    size_lock, pool_lock,   \* the thread that returned with the lock held
    pc, mem, size,          \* of each thread
    seen,        \* the stack as a push that is under way found it
    held,        \* blocks the application has, <<block, size asked for>>
    raced,       \* ghost: a push overlapped another access of its stack
    foreign      \* ghost: a pointer from elsewhere was freed

locals == <<pc, mem, size, seen>>
vars == <<pools, made, size_map, size_lock, pool_lock, locals, held, raced, foreign>>

Empty == [x \in {} |-> None]
Put(m, k, v) == [x \in DOMAIN m \cup {k} |-> IF x = k THEN v ELSE m[x]]

Init ==
    /\ pools = Empty /\ made = Empty /\ size_map = Empty
    /\ size_lock = None /\ pool_lock = None
    /\ pc = [t \in Threads |-> "idle"] /\ mem = [t \in Threads |-> None]
    /\ size = [t \in Threads |-> 0] /\ seen = [t \in Threads |-> << >>]
    /\ held = {} /\ raced = FALSE /\ foreign = FALSE

\* The locks are recursive: the thread that kept one may go on.
Lockable(lock, t) == lock \in {None, t}

\* Faulty variant: rounded down.
RoundedDown(n) == n - (n % Align)
FixSize(n) == n + Align - (n % Align)

-----------------------------------------------------------------------------
(* Alloc. *)

CallAlloc(t, n) ==
    /\ pc[t] = "idle"
    /\ Cardinality(held) + Cardinality({u \in Threads : pc[u] # "idle"}) < MaxHeld
    /\ pc' = [pc EXCEPT ![t] = "alloc"] /\ size' = [size EXCEPT ![t] = n]
    /\ UNCHANGED <<pools, made, size_map, size_lock, pool_lock, mem, seen, held, raced, foreign>>

\* A pool that does not exist yet is made empty; an empty one is filled up.
HasBlock(s) == s \in DOMAIN pools /\ pools[s] # << >>
MadeOf(s) == IF s \in DOMAIN made THEN made[s] ELSE 0

Filled(s) ==
    IF HasBlock(s) THEN pools[s] ELSE [i \in 1..IncreaseNum |-> <<s, MadeOf(s) + i>>]

\* Faulty variant: the block stays in the stack.
NotPopped(stack) == stack
Popped(stack) == SubSeq(stack, 1, Len(stack) - 1)

TakeBlock(t) ==
    LET s == FixSize(size[t])
        stack == Filled(s)
    IN  /\ pc[t] = "alloc" /\ Lockable(pool_lock, t)
        /\ made' = Put(made, s, MadeOf(s) + IF HasBlock(s) THEN 0 ELSE IncreaseNum)
        /\ mem' = [mem EXCEPT ![t] = stack[Len(stack)]]
        /\ pools' = Put(pools, s, Popped(stack))
        /\ pc' = [pc EXCEPT ![t] = "record"]
        /\ UNCHANGED <<size_map, size_lock, pool_lock, size, seen, held, raced, foreign>>

\* Faulty variant: the size asked for is recorded.
AskedSize(t) == Put(size_map, mem[t], size[t])
Recorded(t) == Put(size_map, mem[t], FixSize(size[t]))

RecordSize(t) ==
    /\ pc[t] = "record" /\ Lockable(size_lock, t)
    /\ size_map' = Recorded(t)
    /\ held' = held \cup {<<mem[t], size[t]>>}
    /\ pc' = [pc EXCEPT ![t] = "idle"] /\ mem' = [mem EXCEPT ![t] = None]
    /\ size' = [size EXCEPT ![t] = 0]
    /\ UNCHANGED <<pools, made, size_lock, pool_lock, seen, raced, foreign>>

-----------------------------------------------------------------------------
(* Free. *)

CallFree(t, h) ==
    /\ pc[t] = "idle" /\ h \in held
    /\ held' = held \ {h}
    /\ mem' = [mem EXCEPT ![t] = h[1]]
    /\ pc' = [pc EXCEPT ![t] = "free"]
    /\ UNCHANGED <<pools, made, size_map, size_lock, pool_lock, size, seen, raced, foreign>>

FreeForeign(t) ==
    /\ pc[t] = "idle"
    /\ mem' = [mem EXCEPT ![t] = Foreign]
    /\ pc' = [pc EXCEPT ![t] = "free"]
    /\ foreign' = TRUE
    /\ UNCHANGED <<pools, made, size_map, size_lock, pool_lock, size, seen, held, raced>>

\* Unlock leaves the lock as the thread found it.
Unlocked(t) == size_lock

\* A return in the middle keeps the lock.
FindSize(t) ==
    /\ pc[t] = "free" /\ Lockable(size_lock, t)
    /\ IF mem[t] \in DOMAIN size_map
       THEN /\ size_lock' = Unlocked(t)
            /\ pc' = [pc EXCEPT ![t] = "pool"]
            /\ UNCHANGED mem
       ELSE /\ size_lock' = t
            /\ pc' = [pc EXCEPT ![t] = "idle"] /\ mem' = [mem EXCEPT ![t] = None]
    /\ UNCHANGED <<pools, made, size_map, pool_lock, size, seen, held, raced, foreign>>

FindPool(t) ==
    /\ pc[t] = "pool" /\ Lockable(pool_lock, t)
    /\ IF size_map[mem[t]] \in DOMAIN pools
       THEN /\ pc' = [pc EXCEPT ![t] = "push"]
            /\ UNCHANGED <<pool_lock, mem>>
       ELSE /\ pool_lock' = t
            /\ pc' = [pc EXCEPT ![t] = "idle"] /\ mem' = [mem EXCEPT ![t] = None]
    /\ UNCHANGED <<pools, made, size_map, size_lock, size, seen, held, raced, foreign>>

BeginPush(t) ==
    /\ pc[t] = "push"
    /\ seen' = [seen EXCEPT ![t] = pools[size_map[mem[t]]]]
    /\ pc' = [pc EXCEPT ![t] = "pushing"]
    /\ UNCHANGED <<pools, made, size_map, size_lock, pool_lock, mem, size, held, raced, foreign>>

\* A push that overlapped another access: both have their effect, or one.
EndPush(t) ==
    LET s == size_map[mem[t]]
    IN  /\ pc[t] = "pushing"
        /\ raced' = (raced \/ seen[t] # pools[s])
        /\ \E stack \in {Append(pools[s], mem[t])} \cup
                        (IF seen[t] = pools[s] THEN {} ELSE {pools[s], Append(seen[t], mem[t])}) :
              pools' = [pools EXCEPT ![s] = stack]
        /\ pc' = [pc EXCEPT ![t] = "idle"] /\ mem' = [mem EXCEPT ![t] = None]
        /\ seen' = [seen EXCEPT ![t] = << >>]
        /\ UNCHANGED <<made, size_map, size_lock, pool_lock, size, held, foreign>>

-----------------------------------------------------------------------------
Step(t) ==
    \/ TakeBlock(t) \/ RecordSize(t)
    \/ FindSize(t) \/ FindPool(t) \/ BeginPush(t) \/ EndPush(t)

Next ==
    \E t \in Threads : \/ \E n \in Sizes : CallAlloc(t, n)
                       \/ \E h \in held : CallFree(t, h)
                       \/ FreeForeign(t) \/ Step(t)

\* After a race a stack may hold anything twice; what follows is not explored.
Spec == Init /\ [][Next /\ ~ raced]_vars

\* A thread inside a call goes on.
FairSpec == Spec /\ \A t \in Threads : WF_vars(Step(t) /\ ~ raced)

-----------------------------------------------------------------------------
Made == UNION {{<<s, i>> : i \in 1..made[s]} : s \in DOMAIN made}

\* The places where a block is: free, in a call, with the application.
Places(b) ==
    (UNION {{<<"free", s, i>> : i \in {j \in DOMAIN pools[s] : pools[s][j] = b}} : s \in DOMAIN pools})
    \cup {<<"call", t, 0>> : t \in {u \in Threads : mem[u] = b}}
    \cup {<<"held", 0, h[2]>> : h \in {g \in held : g[1] = b}}

\* A block is neither lost nor given to two callers, unless an unlocked push
\* overlapped another access.
OnePlace == ~ raced => \A b \in Made : Cardinality(Places(b)) = 1

\* The application gets at least the size it asked for, and a block comes
\* back to the pool it was made for.
BlocksFit ==
    /\ \A h \in held : h[2] <= h[1][1]
    /\ \A s \in DOMAIN pools : \A i \in DOMAIN pools[s] : pools[s][i][1] = s

\* Alloc and Free return (the second early return of Free, which would keep
\* the lock of the pools, is not taken: a recorded size has a pool), unless a foreign pointer was freed: the lock is
\* then kept and the other threads wait for ever.
CallsReturn == \A t \in Threads : pc[t] # "idle" ~> pc[t] = "idle" \/ foreign \/ raced

=============================================================================
