-------------------------- MODULE MemoryPoolProofs --------------------------
(***************************************************************************)
(* Proofs about MemoryPool, for any threads, sizes, alignment and number   *)
(* of blocks made at a time.                                               *)
(***************************************************************************)
EXTENDS MemoryPool, SequenceTheorems, FiniteSetTheorems, TLAPS

Blocks == Nat \X Nat
PCs == {"idle", "alloc", "record", "free", "pool", "push", "pushing"}

TypeInv ==
    /\ DOMAIN pools \subseteq Nat /\ \A s \in DOMAIN pools : pools[s] \in Seq(Blocks)
    /\ DOMAIN made = DOMAIN pools /\ \A s \in DOMAIN made : made[s] \in Nat
    /\ DOMAIN size_map \subseteq Blocks
    /\ pc \in [Threads -> PCs] /\ mem \in [Threads -> Blocks \cup {Foreign, None}]
    /\ size \in [Threads -> Nat] /\ seen \in [Threads -> Seq(Blocks)]
    /\ held \subseteq Blocks \X Nat

\* A block carries the size of its pool, in every place and after a race too.
SizeInv ==
    /\ \A s \in DOMAIN pools : \A i \in 1..Len(pools[s]) : pools[s][i][1] = s
    /\ \A b \in DOMAIN size_map : size_map[b] = b[1] /\ b[1] \in DOMAIN pools
    /\ \A h \in held : h[1] \in DOMAIN size_map /\ h[2] <= h[1][1]
    /\ \A t \in Threads :
          /\ pc[t] \in {"idle", "alloc"} => mem[t] = None
          /\ pc[t] = "record" => /\ mem[t] \in Blocks /\ mem[t][1] = FixSize(size[t])
                                 /\ mem[t][1] \in DOMAIN pools
          /\ pc[t] = "free" => mem[t] \in DOMAIN size_map \/ mem[t] = Foreign
          /\ pc[t] \in {"pool", "push", "pushing"} => mem[t] \in DOMAIN size_map
          /\ pc[t] = "pushing" => \A i \in 1..Len(seen[t]) : seen[t][i][1] = mem[t][1]

IsMade(b) == b[1] \in DOMAIN made /\ b[2] \in 1..made[b[1]]
InPool(b) == \E s \in DOMAIN pools : \E i \in 1..Len(pools[s]) : pools[s][i] = b
InCall(b) == \E t \in Threads : mem[t] = b
WithApp(b) == \E h \in held : h[1] = b

\* Every block that was made is in exactly one place.
PlaceInv ==
    /\ \A b \in Blocks : InPool(b) \/ InCall(b) \/ WithApp(b) <=> IsMade(b)
    /\ \A b \in Blocks : /\ ~ (InPool(b) /\ InCall(b)) /\ ~ (InPool(b) /\ WithApp(b))
                         /\ ~ (InCall(b) /\ WithApp(b))
    /\ \A s \in DOMAIN pools : \A i, j \in 1..Len(pools[s]) : pools[s][i] = pools[s][j] => i = j
    /\ \A t, u \in Threads : mem[t] \in Blocks /\ mem[t] = mem[u] => t = u
    /\ \A g, h \in held : g[1] = h[1] => g = h

Inv == TypeInv /\ SizeInv /\ (~ raced => PlaceInv)

-----------------------------------------------------------------------------
LEMMA Constants == /\ Align \in Nat \ {0} /\ IncreaseNum \in Nat \ {0} /\ Sizes \subseteq Nat
                   /\ Foreign \notin Blocks /\ None \notin Blocks
  BY MemoryPoolAssumption DEF Blocks

\* The size of a block is at least the size asked for.
LEMMA FixSizeFits == ASSUME NEW n \in Nat PROVE FixSize(n) \in Nat /\ n <= FixSize(n)
<1>1. n % Align \in 0..(Align - 1)
  BY Constants
<1> QED BY <1>1, Constants DEF FixSize

LEMMA PopSeq ==
    ASSUME NEW S, NEW s \in Seq(S), s # << >>
    PROVE  /\ Len(s) \in Nat \ {0} /\ s[Len(s)] \in S
           /\ Popped(s) \in Seq(S) /\ Len(Popped(s)) = Len(s) - 1
           /\ \A i \in 1..(Len(s) - 1) : Popped(s)[i] = s[i]
<1>1. Len(s) \in Nat \ {0}
  BY EmptySeq
<1> DEFINE n == Len(s)
<1>2. \A i \in 1..n : s[i] \in S
  BY ElementOfSeq
<1>3. \A i \in 1..(n - 1) : s[i] \in S
  BY <1>1, <1>2
<1>4. 1 \in 1..(Len(s) + 1) /\ n - 1 \in (1 - 1)..Len(s)
  BY <1>1
<1>5. /\ SubSeq(s, 1, n - 1) \in Seq(S)
      /\ Len(SubSeq(s, 1, n - 1)) = IF 1 <= n - 1 THEN n - 1 - 1 + 1 ELSE 0
      /\ \A i \in 1..(n - 1 - 1 + 1) : SubSeq(s, 1, n - 1)[i] = s[1 + i - 1]
  BY <1>3, <1>4, SubSeqProperties
<1> HIDE DEF n
<1>6. n \in Nat \ {0}
  BY <1>1 DEF n
<1>7. Len(SubSeq(s, 1, n - 1)) = n - 1 /\ \A i \in 1..(n - 1) : SubSeq(s, 1, n - 1)[i] = s[i]
  BY <1>5, <1>6
<1> QED BY <1>1, <1>2, <1>5, <1>6, <1>7 DEF n, Popped

LEMMA AppendSeq ==
    ASSUME NEW S, NEW s \in Seq(S), NEW x \in S
    PROVE  /\ Append(s, x) \in Seq(S) /\ Len(s) \in Nat /\ Len(Append(s, x)) = Len(s) + 1
           /\ \A i \in 1..Len(s) : Append(s, x)[i] = s[i]
           /\ Append(s, x)[Len(s) + 1] = x
           /\ \A i \in 1..(Len(s) + 1) : i \in 1..Len(s) \/ i = Len(s) + 1
           /\ 1..Len(s) \subseteq 1..(Len(s) + 1) /\ Len(s) + 1 \in 1..(Len(s) + 1)
<1>1. Len(s) \in Nat
  OBVIOUS
<1>2. /\ Append(s, x) \in Seq(S) /\ Len(Append(s, x)) = Len(s) + 1
      /\ \A i \in 1..Len(s) : Append(s, x)[i] = s[i]
      /\ Append(s, x)[Len(s) + 1] = x
  BY AppendProperties
<1> QED BY <1>1, <1>2

LEMMA InitInv == Init => Inv
<1> SUFFICES ASSUME Init PROVE Inv
  OBVIOUS
<1>1. DOMAIN pools = {} /\ DOMAIN made = {} /\ DOMAIN size_map = {} /\ held = {}
  BY DEF Init, Empty
<1>2. /\ pc = [t \in Threads |-> "idle"] /\ mem = [t \in Threads |-> None]
      /\ size = [t \in Threads |-> 0] /\ seen = [t \in Threads |-> << >>]
  BY DEF Init
<1>3. TypeInv
  BY <1>1, <1>2 DEF TypeInv, PCs
<1>4. SizeInv
  BY <1>1, <1>2 DEF SizeInv
<1>5. PlaceInv
  BY <1>1, <1>2, Constants DEF PlaceInv, InPool, InCall, WithApp, IsMade
<1> QED BY <1>3, <1>4, <1>5 DEF Inv

LEMMA PlaceKept ==
    ASSUME PlaceInv, UNCHANGED <<pools, made, mem, held>>
    PROVE  PlaceInv'
  BY DEF PlaceInv, InPool, InCall, WithApp, IsMade

LEMMA InvCallAlloc ==
    ASSUME Inv, ~ raced, NEW t \in Threads, NEW n \in Sizes, CallAlloc(t, n)
    PROVE  Inv'
<1>1. /\ pc[t] = "idle" /\ pc' = [pc EXCEPT ![t] = "alloc"] /\ size' = [size EXCEPT ![t] = n]
      /\ UNCHANGED <<pools, made, size_map, mem, seen, held, raced>>
  BY DEF CallAlloc
<1>2. TypeInv'
  BY <1>1, Constants DEF Inv, TypeInv, PCs
<1>3. SizeInv'
  BY <1>1 DEF Inv, SizeInv, TypeInv
<1> QED BY <1>1, <1>2, <1>3, PlaceKept DEF Inv

LEMMA InvBeginPush ==
    ASSUME Inv, ~ raced, NEW t \in Threads, BeginPush(t)
    PROVE  Inv'
<1> DEFINE s == size_map[mem[t]]
<1>1. /\ pc[t] = "push" /\ pc' = [pc EXCEPT ![t] = "pushing"]
      /\ seen' = [seen EXCEPT ![t] = pools[s]]
      /\ UNCHANGED <<pools, made, size_map, mem, size, held, raced>>
  BY DEF BeginPush
<1>2. s = mem[t][1] /\ s \in DOMAIN pools
  BY <1>1 DEF Inv, SizeInv
<1> HIDE DEF s
<1>3. TypeInv'
  BY <1>1, <1>2 DEF Inv, TypeInv, PCs
<1>4. SizeInv'
  <2>1. /\ seen'[t] = pools[s] /\ \A u \in Threads \ {t} : seen'[u] = seen[u] /\ pc'[u] = pc[u]
        /\ pc'[t] = "pushing"
    BY <1>1 DEF Inv, TypeInv
  <2>2. \A i \in 1..Len(seen'[t]) : seen'[t][i][1] = mem[t][1]
    BY <1>2, <2>1 DEF Inv, SizeInv
  <2>3. \A u \in Threads : pc'[u] = "pushing" => \A i \in 1..Len(seen'[u]) : seen'[u][i][1] = mem[u][1]
    BY <2>1, <2>2 DEF Inv, SizeInv
  <2>4. mem[t] \in DOMAIN size_map
    BY <1>1 DEF Inv, SizeInv
  <2> QED BY <1>1, <2>1, <2>3, <2>4 DEF Inv, SizeInv
<1> QED BY <1>1, <1>3, <1>4, PlaceKept DEF Inv

LEMMA InvFreeForeign ==
    ASSUME Inv, ~ raced, NEW t \in Threads, FreeForeign(t)
    PROVE  Inv'
<1>1. /\ pc[t] = "idle" /\ pc' = [pc EXCEPT ![t] = "free"] /\ mem' = [mem EXCEPT ![t] = Foreign]
      /\ UNCHANGED <<pools, made, size_map, size, seen, held, raced>>
  BY DEF FreeForeign
<1>2. /\ mem[t] = None /\ mem'[t] = Foreign /\ pc'[t] = "free"
      /\ \A u \in Threads \ {t} : mem'[u] = mem[u] /\ pc'[u] = pc[u]
  BY <1>1 DEF Inv, TypeInv, SizeInv
<1>3. TypeInv'
  BY <1>1 DEF Inv, TypeInv, PCs
<1>4. SizeInv'
  BY <1>1, <1>2 DEF Inv, SizeInv
<1>5. PlaceInv'
  <2>1. \A b \in Blocks : InCall(b)' <=> InCall(b)
    BY <1>2, Constants DEF InCall
  <2>2. \A b \in Blocks : InPool(b)' = InPool(b) /\ WithApp(b)' = WithApp(b) /\ IsMade(b)' = IsMade(b)
    BY <1>1 DEF InPool, WithApp, IsMade
  <2>3. \A u, v \in Threads : mem'[u] \in Blocks /\ mem'[u] = mem'[v] => u = v
    BY <1>2, Constants DEF Inv, PlaceInv
  <2> QED BY <1>1, <2>1, <2>2, <2>3 DEF Inv, PlaceInv
<1> QED BY <1>3, <1>4, <1>5 DEF Inv

\* The application's pointer is recorded, so Free finds its pool.
LEMMA InvFindSize ==
    ASSUME Inv, ~ raced, NEW t \in Threads, FindSize(t)
    PROVE  Inv'
<1>1. /\ pc[t] = "free" /\ UNCHANGED <<pools, made, size_map, size, seen, held, raced>>
  BY DEF FindSize
<1>2. CASE mem[t] \in DOMAIN size_map
  <2>1. pc' = [pc EXCEPT ![t] = "pool"] /\ UNCHANGED mem
    BY <1>2 DEF FindSize
  <2>2. TypeInv'
    BY <1>1, <2>1 DEF Inv, TypeInv, PCs
  <2>3. SizeInv'
    BY <1>1, <1>2, <2>1 DEF Inv, SizeInv, TypeInv
  <2> QED BY <1>1, <2>1, <2>2, <2>3, PlaceKept DEF Inv
<1>3. CASE mem[t] \notin DOMAIN size_map
  <2>1. pc' = [pc EXCEPT ![t] = "idle"] /\ mem' = [mem EXCEPT ![t] = None]
    BY <1>3 DEF FindSize
  <2>2. mem[t] = Foreign
    BY <1>1, <1>3 DEF Inv, SizeInv
  <2>3. /\ mem'[t] = None /\ pc'[t] = "idle"
        /\ \A u \in Threads \ {t} : mem'[u] = mem[u] /\ pc'[u] = pc[u]
    BY <2>1 DEF Inv, TypeInv
  <2>4. TypeInv'
    BY <1>1, <2>1 DEF Inv, TypeInv, PCs
  <2>5. SizeInv'
    BY <1>1, <2>3 DEF Inv, SizeInv
  <2>6. PlaceInv'
    <3>1. \A b \in Blocks : InCall(b)' <=> InCall(b)
      BY <2>2, <2>3, Constants DEF InCall
    <3>2. \A b \in Blocks : InPool(b)' = InPool(b) /\ WithApp(b)' = WithApp(b) /\ IsMade(b)' = IsMade(b)
      BY <1>1 DEF InPool, WithApp, IsMade
    <3>3. \A u, v \in Threads : mem'[u] \in Blocks /\ mem'[u] = mem'[v] => u = v
      BY <2>3, Constants DEF Inv, PlaceInv
    <3> QED BY <1>1, <3>1, <3>2, <3>3 DEF Inv, PlaceInv
  <2> QED BY <2>4, <2>5, <2>6 DEF Inv
<1> QED BY <1>2, <1>3

\* The second early return of Free is never taken.
LEMMA InvFindPool ==
    ASSUME Inv, ~ raced, NEW t \in Threads, FindPool(t)
    PROVE  Inv' /\ UNCHANGED pool_lock
<1>1. pc[t] = "pool" /\ size_map[mem[t]] \in DOMAIN pools
  BY DEF FindPool, Inv, SizeInv
<1>2. /\ pc' = [pc EXCEPT ![t] = "push"]
      /\ UNCHANGED <<pool_lock, mem, pools, made, size_map, size, seen, held, raced>>
  BY <1>1 DEF FindPool
<1>3. TypeInv'
  BY <1>2 DEF Inv, TypeInv, PCs
<1>4. SizeInv'
  BY <1>1, <1>2 DEF Inv, SizeInv, TypeInv
<1> QED BY <1>2, <1>3, <1>4, PlaceKept DEF Inv

\* A block in a stack is in the stack of its own size.
LEMMA InPoolOwn ==
    ASSUME SizeInv, NEW b
    PROVE  InPool(b) <=> /\ b[1] \in DOMAIN pools
                         /\ \E i \in 1..Len(pools[b[1]]) : pools[b[1]][i] = b
  BY DEF SizeInv, InPool

\* What Alloc pops from: the stack it finds, or one of new blocks.
LEMMA FilledType ==
    ASSUME Inv, NEW s \in Nat
    PROVE  /\ Filled(s) \in Seq(Blocks) /\ Filled(s) # << >>
           /\ \A i \in 1..Len(Filled(s)) : Filled(s)[i][1] = s
           /\ MadeOf(s) \in Nat
<1>1. MadeOf(s) \in Nat
  BY DEF MadeOf, Inv, TypeInv
<1>2. CASE HasBlock(s)
  BY <1>1, <1>2 DEF Filled, HasBlock, Inv, TypeInv, SizeInv
<1>3. CASE ~ HasBlock(s)
  <2> DEFINE new == [i \in 1..IncreaseNum |-> <<s, MadeOf(s) + i>>]
  <2>1. Filled(s) = new
    BY <1>3 DEF Filled
  <2>2. \A i \in 1..IncreaseNum : <<s, MadeOf(s) + i>> \in Blocks
    BY <1>1, Constants DEF Blocks
  <2>3. new \in [1..IncreaseNum -> Blocks]
    BY <2>2
  <2>4. new \in Seq(Blocks) /\ Len(new) = IncreaseNum
    BY <2>3, Constants
  <2>5. new # << >>
    BY <2>4, Constants
  <2>6. \A i \in 1..Len(new) : new[i][1] = s
    BY <2>4
  <2> HIDE DEF new
  <2> QED BY <1>1, <2>1, <2>4, <2>5, <2>6
<1> QED BY <1>2, <1>3

\* No block of that stack is in use, none is there twice, and with those in
\* use it holds every block of its size.
LEMMA FilledPlaces ==
    ASSUME Inv, ~ raced, NEW s \in Nat
    PROVE  /\ \A i, j \in 1..Len(Filled(s)) : Filled(s)[i] = Filled(s)[j] => i = j
           /\ \A i \in 1..Len(Filled(s)) : ~ InCall(Filled(s)[i]) /\ ~ WithApp(Filled(s)[i])
           /\ \A b \in Blocks : b[1] = s =>
                 (   b[2] \in 1..(MadeOf(s) + IF HasBlock(s) THEN 0 ELSE IncreaseNum)
                 <=> (\E i \in 1..Len(Filled(s)) : Filled(s)[i] = b) \/ InCall(b) \/ WithApp(b))
<1> DEFINE st == Filled(s)
<1>1. st \in Seq(Blocks) /\ (\A i \in 1..Len(st) : st[i][1] = s) /\ MadeOf(s) \in Nat
  BY FilledType
<1>2. \A i \in 1..Len(st) : st[i] \in Blocks
  BY <1>1, ElementOfSeq
<1>3. \A b \in Blocks : b[1] = s => (IsMade(b) <=> b[2] \in 1..MadeOf(s))
  BY DEF IsMade, MadeOf, Blocks
<1>4. \A b \in Blocks : InPool(b) \/ InCall(b) \/ WithApp(b) <=> IsMade(b)
  BY DEF Inv, PlaceInv
<1>5. CASE HasBlock(s)
  <2>1. st = pools[s] /\ s \in DOMAIN pools
    BY <1>5 DEF Filled, HasBlock
  <2> HIDE DEF st
  <2>2. \A b \in Blocks : b[1] = s => (InPool(b) <=> \E i \in 1..Len(st) : st[i] = b)
    BY <2>1, InPoolOwn DEF Inv
  <2>3. \A i, j \in 1..Len(st) : st[i] = st[j] => i = j
    BY <2>1 DEF Inv, PlaceInv
  <2>4. \A i \in 1..Len(st) : InPool(st[i])
    BY <2>1 DEF InPool
  <2>5. \A i \in 1..Len(st) : ~ InCall(st[i]) /\ ~ WithApp(st[i])
    BY <1>2, <2>4 DEF Inv, PlaceInv
  <2>6. \A b \in Blocks : b[1] = s =>
          (b[2] \in 1..MadeOf(s) <=> (\E i \in 1..Len(st) : st[i] = b) \/ InCall(b) \/ WithApp(b))
    BY <1>3, <1>4, <2>2
  <2>7. (MadeOf(s) + IF HasBlock(s) THEN 0 ELSE IncreaseNum) = MadeOf(s)
    BY <1>1, <1>5
  <2> QED BY <2>3, <2>5, <2>6, <2>7 DEF st
<1>6. CASE ~ HasBlock(s)
  <2> DEFINE m == MadeOf(s)
  <2>1. st = [i \in 1..IncreaseNum |-> <<s, m + i>>]
    BY <1>6 DEF Filled
  <2>2. Len(st) = IncreaseNum /\ \A i \in 1..Len(st) : st[i] = <<s, m + i>>
    BY <2>1, Constants
  <2>3. (m + IF HasBlock(s) THEN 0 ELSE IncreaseNum) = m + IncreaseNum
    BY <1>6
  <2> HIDE DEF st, m
  <2>4. m \in Nat
    BY <1>1 DEF m
  <2>5. \A i, j \in 1..Len(st) : st[i] = st[j] => i = j
    BY <2>2, <2>4, Constants
  <2>6. \A i \in 1..Len(st) : ~ IsMade(st[i])
    <3>1. \A i \in 1..Len(st) : st[i][2] \notin 1..m
      BY <2>2, <2>4, Constants
    <3> QED BY <1>1, <1>2, <1>3, <3>1 DEF m
  <2>7. \A i \in 1..Len(st) : ~ InCall(st[i]) /\ ~ WithApp(st[i])
    BY <1>2, <1>4, <2>6
  <2>8. \A b \in Blocks : b[1] = s => ~ InPool(b)
    <3> SUFFICES ASSUME NEW b \in Blocks, b[1] = s, InPool(b) PROVE FALSE
      OBVIOUS
    <3>1. s \in DOMAIN pools /\ \E i \in 1..Len(pools[s]) : pools[s][i] = b
      BY InPoolOwn DEF Inv
    <3>2. pools[s] = << >>
      BY <1>6, <3>1 DEF HasBlock
    <3> QED BY <3>1, <3>2
  <2>9. \A b \in Blocks : b[1] = s =>
          ((\E i \in 1..Len(st) : st[i] = b) <=> b[2] \in (m + 1)..(m + IncreaseNum))
    <3> SUFFICES ASSUME NEW b \in Blocks, b[1] = s
                 PROVE  (\E i \in 1..Len(st) : st[i] = b) <=> b[2] \in (m + 1)..(m + IncreaseNum)
      OBVIOUS
    <3>1. b = <<s, b[2]>> /\ b[2] \in Nat
      BY DEF Blocks
    <3>2. ASSUME NEW i \in 1..Len(st), st[i] = b PROVE b[2] \in (m + 1)..(m + IncreaseNum)
      BY <2>2, <2>4, <3>1, <3>2, Constants
    <3>3. ASSUME b[2] \in (m + 1)..(m + IncreaseNum) PROVE \E i \in 1..Len(st) : st[i] = b
      <4>1. b[2] - m \in 1..Len(st) /\ m + (b[2] - m) = b[2]
        BY <2>2, <2>4, <3>1, <3>3, Constants
      <4>2. st[b[2] - m] = <<s, m + (b[2] - m)>>
        BY <2>2, <4>1
      <4> QED BY <3>1, <4>1, <4>2
    <3> QED BY <3>2, <3>3
  <2>10. \A k \in Nat : k \in 1..(m + IncreaseNum) <=> k \in 1..m \/ k \in (m + 1)..(m + IncreaseNum)
    BY <2>4, Constants
  <2>11. \A b \in Blocks : b[1] = s =>
          (b[2] \in 1..(m + IncreaseNum) <=> (\E i \in 1..Len(st) : st[i] = b) \/ InCall(b) \/ WithApp(b))
    <3> SUFFICES ASSUME NEW b \in Blocks, b[1] = s
                 PROVE  b[2] \in 1..(m + IncreaseNum)
                        <=> (\E i \in 1..Len(st) : st[i] = b) \/ InCall(b) \/ WithApp(b)
      OBVIOUS
    <3>1. b[2] \in 1..m <=> InCall(b) \/ WithApp(b)
      BY <1>3, <1>4, <2>8 DEF m
    <3>2. b[2] \in Nat
      BY DEF Blocks
    <3> QED BY <2>9, <2>10, <3>1, <3>2
  <2> QED BY <2>3, <2>5, <2>7, <2>11 DEF st, m
<1> QED BY <1>5, <1>6

LEMMA InvTakeBlock ==
    ASSUME Inv, ~ raced, NEW t \in Threads, TakeBlock(t)
    PROVE  Inv'
<1> DEFINE s == FixSize(size[t])
           st == Filled(s)
           m == MadeOf(s) + IF HasBlock(s) THEN 0 ELSE IncreaseNum
           n == Len(st)
<1>1. /\ pc[t] = "alloc" /\ made' = Put(made, s, m) /\ mem' = [mem EXCEPT ![t] = st[n]]
      /\ pools' = Put(pools, s, Popped(st)) /\ pc' = [pc EXCEPT ![t] = "record"]
      /\ UNCHANGED <<size_map, size, seen, held, raced>>
  BY DEF TakeBlock
<1>2. s \in Nat
  BY FixSizeFits DEF Inv, TypeInv
<1>3. /\ st \in Seq(Blocks) /\ st # << >> /\ (\A i \in 1..n : st[i][1] = s) /\ m \in Nat
  <2>1. /\ st \in Seq(Blocks) /\ st # << >> /\ (\A i \in 1..n : st[i][1] = s) /\ MadeOf(s) \in Nat
    BY <1>2, FilledType
  <2>2. m \in Nat
    BY <2>1, Constants
  <2> QED BY <2>1, <2>2
<1>4. /\ n \in Nat \ {0} /\ st[n] \in Blocks /\ Popped(st) \in Seq(Blocks)
      /\ Len(Popped(st)) = n - 1 /\ \A i \in 1..(n - 1) : Popped(st)[i] = st[i]
  BY <1>3, PopSeq
<1>5. /\ \A i, j \in 1..n : st[i] = st[j] => i = j
      /\ \A i \in 1..n : ~ InCall(st[i]) /\ ~ WithApp(st[i])
      /\ \A b \in Blocks : b[1] = s =>
            (b[2] \in 1..m <=> (\E i \in 1..n : st[i] = b) \/ InCall(b) \/ WithApp(b))
  BY <1>2, FilledPlaces
<1> DEFINE rest == Popped(st)
<1>6. s = FixSize(size[t])
  OBVIOUS
<1> HIDE DEF s, st, m, n, rest
<1>7. /\ DOMAIN pools' = DOMAIN pools \cup {s} /\ pools'[s] = rest
      /\ \A k \in DOMAIN pools \ {s} : pools'[k] = pools[k]
  BY <1>1 DEF Put, rest
<1>8. /\ DOMAIN made' = DOMAIN made \cup {s} /\ made'[s] = m
      /\ \A k \in DOMAIN made \ {s} : made'[k] = made[k]
  BY <1>1 DEF Put
<1>9. /\ mem[t] = None /\ mem'[t] = st[n] /\ pc'[t] = "record"
      /\ \A u \in Threads \ {t} : mem'[u] = mem[u] /\ pc'[u] = pc[u]
  BY <1>1 DEF Inv, TypeInv, SizeInv
<1>10. /\ rest \in Seq(Blocks) /\ Len(rest) = n - 1 /\ \A i \in 1..(n - 1) : rest[i] = st[i] /\ i \in 1..n
  BY <1>4 DEF rest
<1>11. n \in 1..n /\ n \notin 1..(n - 1) /\ \A i \in 1..n : i \in 1..(n - 1) \/ i = n
  BY <1>4
<1>12. TypeInv'
  <2>1. \A k \in DOMAIN pools' : k \in Nat /\ pools'[k] \in Seq(Blocks)
    BY <1>2, <1>7, <1>10 DEF Inv, TypeInv
  <2>2. DOMAIN made' = DOMAIN pools' /\ \A k \in DOMAIN made' : made'[k] \in Nat
    BY <1>3, <1>7, <1>8 DEF Inv, TypeInv
  <2>3. mem' \in [Threads -> Blocks \cup {Foreign, None}] /\ pc' \in [Threads -> PCs]
    BY <1>1, <1>4 DEF Inv, TypeInv, PCs
  <2> QED BY <1>1, <2>1, <2>2, <2>3 DEF Inv, TypeInv
<1>13. SizeInv'
  <2>1. \A i \in 1..Len(rest) : rest[i][1] = s
    BY <1>3, <1>10
  <2>2. \A k \in DOMAIN pools' : \A i \in 1..Len(pools'[k]) : pools'[k][i][1] = k
    BY <1>7, <2>1 DEF Inv, SizeInv
  <2>3. \A b \in DOMAIN size_map : size_map[b] = b[1] /\ b[1] \in DOMAIN pools'
    BY <1>7 DEF Inv, SizeInv
  <2>4. mem'[t] \in Blocks /\ mem'[t][1] = FixSize(size[t]) /\ mem'[t][1] \in DOMAIN pools'
    BY <1>3, <1>4, <1>6, <1>7, <1>9, <1>11
  <2> QED BY <1>1, <1>7, <1>9, <2>2, <2>3, <2>4 DEF Inv, SizeInv
<1>14. PlaceInv'
  <2>1. \A b \in Blocks : InPool(b)' <=> (b[1] # s /\ InPool(b)) \/ \E i \in 1..(n - 1) : st[i] = b
    <3> SUFFICES ASSUME NEW b \in Blocks
                 PROVE  InPool(b)' <=> (b[1] # s /\ InPool(b)) \/ \E i \in 1..(n - 1) : st[i] = b
      OBVIOUS
    <3>1. InPool(b)' <=> /\ b[1] \in DOMAIN pools'
                         /\ \E i \in 1..Len(pools'[b[1]]) : pools'[b[1]][i] = b
      BY <1>13 DEF SizeInv, InPool
    <3>2. CASE b[1] = s
      BY <1>7, <1>10, <3>1, <3>2
    <3>3. CASE b[1] # s
      <4>1. ~ \E i \in 1..(n - 1) : st[i] = b
        BY <1>3, <1>10, <3>3
      <4>2. b[1] \in DOMAIN pools' <=> b[1] \in DOMAIN pools
        BY <1>7, <3>3
      <4>3. b[1] \in DOMAIN pools => pools'[b[1]] = pools[b[1]]
        BY <1>7, <3>3
      <4> QED BY <3>1, <3>3, <4>1, <4>2, <4>3, InPoolOwn DEF Inv
    <3> QED BY <3>2, <3>3
  <2>2. \A b \in Blocks : InCall(b)' <=> InCall(b) \/ b = st[n]
    BY <1>9, Constants DEF InCall
  <2>3. \A b : WithApp(b)' <=> WithApp(b)
    BY <1>1 DEF WithApp
  <2>4. \A b \in Blocks : b[1] = s => (IsMade(b)' <=> b[2] \in 1..m)
    BY <1>8 DEF IsMade
  <2>5. \A b \in Blocks : b[1] # s => (IsMade(b)' <=> IsMade(b))
    BY <1>8 DEF IsMade
  <2>6. \A b \in Blocks : InPool(b)' \/ InCall(b)' \/ WithApp(b)' <=> IsMade(b)'
    <3> SUFFICES ASSUME NEW b \in Blocks
                 PROVE  InPool(b)' \/ InCall(b)' \/ WithApp(b)' <=> IsMade(b)'
      OBVIOUS
    <3>1. CASE b[1] = s
      <4>1. (\E i \in 1..n : st[i] = b) <=> (\E i \in 1..(n - 1) : st[i] = b) \/ b = st[n]
        BY <1>10, <1>11
      <4> QED BY <1>5, <2>1, <2>2, <2>3, <2>4, <3>1, <4>1
    <3>2. CASE b[1] # s
      <4>1. ~ (\E i \in 1..(n - 1) : st[i] = b) /\ b # st[n]
        BY <1>3, <1>10, <1>11, <3>2
      <4>2. InPool(b) \/ InCall(b) \/ WithApp(b) <=> IsMade(b)
        BY DEF Inv, PlaceInv
      <4> QED BY <2>1, <2>2, <2>3, <2>5, <3>2, <4>1, <4>2
    <3> QED BY <3>1, <3>2
  <2>7. \A b \in Blocks : /\ ~ (InPool(b)' /\ InCall(b)') /\ ~ (InPool(b)' /\ WithApp(b)')
                          /\ ~ (InCall(b)' /\ WithApp(b)')
    <3> SUFFICES ASSUME NEW b \in Blocks
                 PROVE  /\ ~ (InPool(b)' /\ InCall(b)') /\ ~ (InPool(b)' /\ WithApp(b)')
                        /\ ~ (InCall(b)' /\ WithApp(b)')
      OBVIOUS
    <3>1. ~ (InPool(b) /\ InCall(b)) /\ ~ (InPool(b) /\ WithApp(b)) /\ ~ (InCall(b) /\ WithApp(b))
      BY DEF Inv, PlaceInv
    <3>2. (\E i \in 1..(n - 1) : st[i] = b) => b # st[n] /\ ~ InCall(b) /\ ~ WithApp(b)
      BY <1>5, <1>10, <1>11
    <3>3. b = st[n] => b[1] = s /\ ~ WithApp(b)
      BY <1>3, <1>5, <1>11
    <3> QED BY <2>1, <2>2, <2>3, <3>1, <3>2, <3>3
  <2>8. \A k \in DOMAIN pools' : \A i, j \in 1..Len(pools'[k]) : pools'[k][i] = pools'[k][j] => i = j
    <3>1. \A i, j \in 1..Len(rest) : rest[i] = rest[j] => i = j
      BY <1>5, <1>10
    <3> QED BY <1>7, <3>1 DEF Inv, PlaceInv
  <2>9. \A u, v \in Threads : mem'[u] \in Blocks /\ mem'[u] = mem'[v] => u = v
    <3>1. \A u \in Threads \ {t} : mem[u] # st[n]
      BY <1>5, <1>11 DEF InCall
    <3> QED BY <1>9, <3>1 DEF Inv, PlaceInv
  <2> QED BY <1>1, <2>6, <2>7, <2>8, <2>9 DEF Inv, PlaceInv
<1> QED BY <1>12, <1>13, <1>14 DEF Inv

\* The block goes from the call to the application.
LEMMA InvRecordSize ==
    ASSUME Inv, ~ raced, NEW t \in Threads, RecordSize(t)
    PROVE  Inv'
<1> DEFINE b0 == mem[t]
           h0 == <<mem[t], size[t]>>
<1>1. /\ pc[t] = "record" /\ size_map' = Put(size_map, b0, FixSize(size[t]))
      /\ held' = held \cup {h0} /\ pc' = [pc EXCEPT ![t] = "idle"]
      /\ mem' = [mem EXCEPT ![t] = None] /\ size' = [size EXCEPT ![t] = 0]
      /\ UNCHANGED <<pools, made, seen, raced>>
  BY DEF RecordSize, Recorded
<1>2. /\ b0 \in Blocks /\ b0[1] = FixSize(size[t]) /\ b0[1] \in DOMAIN pools /\ size[t] \in Nat
  BY <1>1 DEF Inv, SizeInv, TypeInv
<1>3. h0[1] = b0 /\ h0[2] = size[t] /\ size[t] <= b0[1]
  BY <1>2, FixSizeFits
<1>4. h0 \in Blocks \X Nat
  BY <1>2
<1> HIDE DEF b0, h0
<1>5. /\ DOMAIN size_map' = DOMAIN size_map \cup {b0} /\ size_map'[b0] = b0[1]
      /\ \A b \in DOMAIN size_map \ {b0} : size_map'[b] = size_map[b]
  BY <1>1, <1>2 DEF Put
<1>6. /\ mem[t] = b0 /\ mem'[t] = None /\ pc'[t] = "idle"
      /\ \A u \in Threads \ {t} : mem'[u] = mem[u] /\ pc'[u] = pc[u] /\ size'[u] = size[u]
  BY <1>1 DEF Inv, TypeInv, b0
<1>7. TypeInv'
  BY <1>1, <1>2, <1>4, <1>5 DEF Inv, TypeInv, PCs
<1>8. SizeInv'
  <2>1. \A b \in DOMAIN size_map' : size_map'[b] = b[1] /\ b[1] \in DOMAIN pools
    BY <1>2, <1>5 DEF Inv, SizeInv
  <2>2. \A h \in held' : h[1] \in DOMAIN size_map' /\ h[2] <= h[1][1]
    BY <1>1, <1>3, <1>5 DEF Inv, SizeInv
  <2> QED BY <1>1, <1>5, <1>6, <2>1, <2>2 DEF Inv, SizeInv
<1>9. PlaceInv'
  <2>1. \A b \in Blocks : WithApp(b)' <=> WithApp(b) \/ b = b0
    BY <1>1, <1>3 DEF WithApp
  <2>2. \A u \in Threads \ {t} : mem[u] # b0
    BY <1>2, <1>6 DEF Inv, PlaceInv
  <2>3. \A b \in Blocks : InCall(b)' <=> InCall(b) /\ b # b0
    BY <1>6, <2>2, Constants DEF InCall
  <2>4. \A b \in Blocks : (InPool(b)' <=> InPool(b)) /\ (IsMade(b)' <=> IsMade(b))
    BY <1>1 DEF InPool, IsMade
  <2>5. InCall(b0)
    BY <1>6 DEF InCall
  <2>6. ~ InPool(b0) /\ ~ WithApp(b0)
    BY <1>2, <2>5 DEF Inv, PlaceInv
  <2>7. \A u, v \in Threads : mem'[u] \in Blocks /\ mem'[u] = mem'[v] => u = v
    BY <1>6, Constants DEF Inv, PlaceInv
  <2>8. \A g, h \in held' : g[1] = h[1] => g = h
    BY <1>1, <1>3, <2>6 DEF Inv, PlaceInv, WithApp
  <2>9. \A b \in Blocks : InPool(b) \/ InCall(b) \/ WithApp(b) <=> IsMade(b)
    BY DEF Inv, PlaceInv
  <2>10. \A b \in Blocks : /\ ~ (InPool(b) /\ InCall(b)) /\ ~ (InPool(b) /\ WithApp(b))
                           /\ ~ (InCall(b) /\ WithApp(b))
    BY DEF Inv, PlaceInv
  <2>11. \A b \in Blocks : InPool(b)' \/ InCall(b)' \/ WithApp(b)' <=> IsMade(b)'
    BY <2>1, <2>3, <2>4, <2>5, <2>9
  <2>12. \A b \in Blocks : /\ ~ (InPool(b)' /\ InCall(b)') /\ ~ (InPool(b)' /\ WithApp(b)')
                           /\ ~ (InCall(b)' /\ WithApp(b)')
    BY <2>1, <2>3, <2>4, <2>6, <2>10
  <2> QED BY <1>1, <2>7, <2>8, <2>11, <2>12 DEF Inv, PlaceInv
<1> QED BY <1>7, <1>8, <1>9 DEF Inv

\* The block goes from the application to the call.
LEMMA InvCallFree ==
    ASSUME Inv, ~ raced, NEW t \in Threads, NEW h0 \in held, CallFree(t, h0)
    PROVE  Inv'
<1> DEFINE b0 == h0[1]
<1>1. /\ pc[t] = "idle" /\ held' = held \ {h0} /\ mem' = [mem EXCEPT ![t] = b0]
      /\ pc' = [pc EXCEPT ![t] = "free"]
      /\ UNCHANGED <<pools, made, size_map, size, seen, raced>>
  BY DEF CallFree
<1>2. b0 \in Blocks /\ b0 \in DOMAIN size_map
  BY DEF Inv, TypeInv, SizeInv
<1>3. /\ mem[t] = None /\ mem'[t] = b0 /\ pc'[t] = "free"
      /\ \A u \in Threads \ {t} : mem'[u] = mem[u] /\ pc'[u] = pc[u]
  BY <1>1 DEF Inv, TypeInv, SizeInv
<1>4. h0[1] = b0
  OBVIOUS
<1> HIDE DEF b0
<1>5. TypeInv'
  BY <1>1, <1>2 DEF Inv, TypeInv, PCs
<1>6. SizeInv'
  BY <1>1, <1>2, <1>3 DEF Inv, SizeInv
<1>7. PlaceInv'
  <2>1. \A b \in Blocks : InCall(b)' <=> InCall(b) \/ b = b0
    BY <1>3, Constants DEF InCall
  <2>2. \A b \in Blocks : WithApp(b)' <=> WithApp(b) /\ b # b0
    BY <1>1, <1>4 DEF WithApp, Inv, PlaceInv
  <2>3. \A b \in Blocks : (InPool(b)' <=> InPool(b)) /\ (IsMade(b)' <=> IsMade(b))
    BY <1>1 DEF InPool, IsMade
  <2>4. WithApp(b0)
    BY <1>4 DEF WithApp
  <2>5. ~ InPool(b0) /\ ~ InCall(b0)
    BY <1>2, <2>4 DEF Inv, PlaceInv
  <2>6. \A u, v \in Threads : mem'[u] \in Blocks /\ mem'[u] = mem'[v] => u = v
    BY <1>3, <2>5 DEF Inv, PlaceInv, InCall
  <2>7. \A b \in Blocks : InPool(b) \/ InCall(b) \/ WithApp(b) <=> IsMade(b)
    BY DEF Inv, PlaceInv
  <2>8. \A b \in Blocks : /\ ~ (InPool(b) /\ InCall(b)) /\ ~ (InPool(b) /\ WithApp(b))
                          /\ ~ (InCall(b) /\ WithApp(b))
    BY DEF Inv, PlaceInv
  <2>9. \A b \in Blocks : InPool(b)' \/ InCall(b)' \/ WithApp(b)' <=> IsMade(b)'
    BY <2>1, <2>2, <2>3, <2>4, <2>7
  <2>10. \A b \in Blocks : /\ ~ (InPool(b)' /\ InCall(b)') /\ ~ (InPool(b)' /\ WithApp(b)')
                           /\ ~ (InCall(b)' /\ WithApp(b)')
    BY <2>1, <2>2, <2>3, <2>5, <2>8
  <2> QED BY <1>1, <2>6, <2>9, <2>10 DEF Inv, PlaceInv
<1> QED BY <1>5, <1>6, <1>7 DEF Inv

\* A push that nothing overlapped puts the block on the stack of its size; one
\* that raced leaves some stack of blocks of that size.
LEMMA InvEndPush ==
    ASSUME Inv, ~ raced, NEW t \in Threads, EndPush(t)
    PROVE  Inv'
<1> DEFINE b0 == mem[t]
           s == size_map[b0]
<1>1. /\ pc[t] = "pushing" /\ pc' = [pc EXCEPT ![t] = "idle"] /\ mem' = [mem EXCEPT ![t] = None]
      /\ seen' = [seen EXCEPT ![t] = << >>] /\ UNCHANGED <<made, size_map, size, held>>
  BY DEF EndPush
<1>2. PICK st \in {Append(pools[s], b0), pools[s], Append(seen[t], b0)} :
         /\ pools' = [pools EXCEPT ![s] = st]
         /\ seen[t] = pools[s] => st = Append(pools[s], b0)
  <2>1. CASE seen[t] = pools[s]
    BY <2>1 DEF EndPush
  <2>2. CASE seen[t] # pools[s]
    BY <2>2 DEF EndPush
  <2> QED BY <2>1, <2>2
<1>3. ~ raced' => seen[t] = pools[s]
  BY Zenon DEF EndPush
<1>4. /\ b0 \in Blocks /\ s = b0[1] /\ s \in DOMAIN pools /\ b0 \in DOMAIN size_map
      /\ \A i \in 1..Len(seen[t]) : seen[t][i][1] = b0[1]
  BY <1>1 DEF Inv, TypeInv, SizeInv
<1>5. /\ mem[t] = b0 /\ mem'[t] = None /\ pc'[t] = "idle"
      /\ \A u \in Threads \ {t} : mem'[u] = mem[u] /\ pc'[u] = pc[u] /\ seen'[u] = seen[u]
  BY <1>1 DEF Inv, TypeInv
<1> HIDE DEF b0, s
<1>6. /\ DOMAIN pools' = DOMAIN pools /\ pools'[s] = st
      /\ \A k \in DOMAIN pools \ {s} : pools'[k] = pools[k]
  BY <1>2, <1>4
<1> DEFINE p == pools[s]
           q == seen[t]
<1>7. p \in Seq(Blocks) /\ q \in Seq(Blocks)
  BY <1>4 DEF Inv, TypeInv
<1>8. (\A i \in 1..Len(p) : p[i][1] = s) /\ (\A i \in 1..Len(q) : q[i][1] = s)
  BY <1>4 DEF Inv, SizeInv
<1>9. st \in {Append(p, b0), p, Append(q, b0)} /\ (q = p => st = Append(p, b0))
  BY <1>2
<1> HIDE DEF p, q
<1>10. /\ Append(p, b0) \in Seq(Blocks) /\ Len(p) \in Nat /\ Len(Append(p, b0)) = Len(p) + 1
       /\ \A i \in 1..Len(p) : Append(p, b0)[i] = p[i]
       /\ Append(p, b0)[Len(p) + 1] = b0
       /\ \A i \in 1..(Len(p) + 1) : i \in 1..Len(p) \/ i = Len(p) + 1
       /\ 1..Len(p) \subseteq 1..(Len(p) + 1) /\ Len(p) + 1 \in 1..(Len(p) + 1)
  BY <1>4, <1>7, AppendSeq
<1>11. /\ Append(q, b0) \in Seq(Blocks) /\ Len(Append(q, b0)) = Len(q) + 1
       /\ \A i \in 1..Len(q) : Append(q, b0)[i] = q[i]
       /\ Append(q, b0)[Len(q) + 1] = b0
       /\ \A i \in 1..(Len(q) + 1) : i \in 1..Len(q) \/ i = Len(q) + 1
  BY <1>4, <1>7, AppendSeq
<1>12. st \in Seq(Blocks)
  BY <1>7, <1>9, <1>10, <1>11
<1>13. \A i \in 1..Len(st) : st[i][1] = s
  <2>1. CASE st = p
    BY <1>8, <2>1
  <2>2. CASE st = Append(p, b0)
    BY <1>4, <1>8, <1>10, <2>2
  <2>3. CASE st = Append(q, b0)
    BY <1>4, <1>8, <1>11, <2>3
  <2> QED BY <1>9, <2>1, <2>2, <2>3
<1>14. TypeInv'
  <2>1. \A k \in DOMAIN pools' : k \in Nat /\ pools'[k] \in Seq(Blocks)
    BY <1>6, <1>12 DEF Inv, TypeInv
  <2>2. << >> \in Seq(Blocks)
    OBVIOUS
  <2> QED BY <1>1, <1>6, <2>1, <2>2 DEF Inv, TypeInv, PCs
<1>15. SizeInv'
  <2>1. \A k \in DOMAIN pools' : \A i \in 1..Len(pools'[k]) : pools'[k][i][1] = k
    BY <1>6, <1>13 DEF Inv, SizeInv
  <2> QED BY <1>1, <1>5, <1>6, <2>1 DEF Inv, SizeInv
<1>16. ASSUME ~ raced' PROVE PlaceInv'
  <2>1. st = Append(p, b0)
    BY <1>3, <1>9, <1>16 DEF p, q
  <2>2. pools[s] = p
    BY DEF p
  <2>3. \A b \in Blocks : InPool(b)' <=> InPool(b) \/ b = b0
    <3> SUFFICES ASSUME NEW b \in Blocks PROVE InPool(b)' <=> InPool(b) \/ b = b0
      OBVIOUS
    <3>1. InPool(b)' <=> /\ b[1] \in DOMAIN pools'
                         /\ \E i \in 1..Len(pools'[b[1]]) : pools'[b[1]][i] = b
      BY <1>15 DEF SizeInv, InPool
    <3>2. InPool(b) <=> /\ b[1] \in DOMAIN pools
                        /\ \E i \in 1..Len(pools[b[1]]) : pools[b[1]][i] = b
      BY InPoolOwn DEF Inv
    <3>3. CASE b[1] = s
      <4>1. InPool(b)' <=> \E i \in 1..(Len(p) + 1) : Append(p, b0)[i] = b
        BY <1>4, <1>6, <1>10, <2>1, <3>1, <3>3
      <4>2. InPool(b) <=> \E i \in 1..Len(p) : p[i] = b
        BY <1>4, <2>2, <3>2, <3>3
      <4> QED BY <1>10, <4>1, <4>2
    <3>4. CASE b[1] # s
      BY <1>4, <1>6, <3>1, <3>2, <3>4
    <3> QED BY <3>3, <3>4
  <2>4. \A u \in Threads \ {t} : mem[u] # b0
    BY <1>4, <1>5 DEF Inv, PlaceInv
  <2>5. \A b \in Blocks : InCall(b)' <=> InCall(b) /\ b # b0
    BY <1>5, <2>4, Constants DEF InCall
  <2>6. \A b \in Blocks : (WithApp(b)' <=> WithApp(b)) /\ (IsMade(b)' <=> IsMade(b))
    BY <1>1 DEF WithApp, IsMade
  <2>7. InCall(b0)
    BY <1>5 DEF InCall
  <2>8. ~ InPool(b0) /\ ~ WithApp(b0)
    BY <1>4, <2>7 DEF Inv, PlaceInv
  <2>9. \A b \in Blocks : InPool(b) \/ InCall(b) \/ WithApp(b) <=> IsMade(b)
    BY DEF Inv, PlaceInv
  <2>10. \A b \in Blocks : /\ ~ (InPool(b) /\ InCall(b)) /\ ~ (InPool(b) /\ WithApp(b))
                           /\ ~ (InCall(b) /\ WithApp(b))
    BY DEF Inv, PlaceInv
  <2>11. \A b \in Blocks : InPool(b)' \/ InCall(b)' \/ WithApp(b)' <=> IsMade(b)'
    BY <2>3, <2>5, <2>6, <2>7, <2>9
  <2>12. \A b \in Blocks : /\ ~ (InPool(b)' /\ InCall(b)') /\ ~ (InPool(b)' /\ WithApp(b)')
                           /\ ~ (InCall(b)' /\ WithApp(b)')
    BY <2>3, <2>5, <2>6, <2>8, <2>10
  <2>13. \A u, v \in Threads : mem'[u] \in Blocks /\ mem'[u] = mem'[v] => u = v
    BY <1>5, Constants DEF Inv, PlaceInv
  <2>14. \A i \in 1..Len(p) : p[i] # b0
    BY <1>4, <2>2, <2>8 DEF InPool
  <2>15. \A i, j \in 1..Len(p) : p[i] = p[j] => i = j
    BY <1>4, <2>2 DEF Inv, PlaceInv
  <2>16. \A i, j \in 1..Len(st) : st[i] = st[j] => i = j
    BY <1>10, <2>1, <2>14, <2>15
  <2>17. \A k \in DOMAIN pools' : \A i, j \in 1..Len(pools'[k]) : pools'[k][i] = pools'[k][j] => i = j
    BY <1>6, <2>16 DEF Inv, PlaceInv
  <2> QED BY <1>1, <2>11, <2>12, <2>13, <2>17 DEF Inv, PlaceInv
<1> QED BY <1>14, <1>15, <1>16 DEF Inv

-----------------------------------------------------------------------------
LEMMA NextInv == Inv /\ [Next /\ ~ raced]_vars => Inv'
<1> SUFFICES ASSUME Inv, [Next /\ ~ raced]_vars PROVE Inv'
  OBVIOUS
<1>1. CASE Next /\ ~ raced
  <2>1. PICK t \in Threads : \/ \E n \in Sizes : CallAlloc(t, n)
                             \/ \E h \in held : CallFree(t, h)
                             \/ FreeForeign(t) \/ Step(t)
    BY <1>1 DEF Next
  <2>2. CASE \E n \in Sizes : CallAlloc(t, n)
    BY <1>1, <2>2, InvCallAlloc
  <2>3. CASE \E h \in held : CallFree(t, h)
    BY <1>1, <2>3, InvCallFree
  <2>4. CASE FreeForeign(t)
    BY <1>1, <2>4, InvFreeForeign
  <2>5. CASE Step(t)
    BY <1>1, <2>5, InvTakeBlock, InvRecordSize, InvFindSize, InvFindPool, InvBeginPush, InvEndPush DEF Step
  <2> QED BY <2>1, <2>2, <2>3, <2>4, <2>5
<1>2. CASE UNCHANGED vars
  <2>1. UNCHANGED <<pools, made, size_map, pc, mem, size, seen, held, raced>>
    BY <1>2 DEF vars, locals
  <2>2. TypeInv'
    BY <2>1 DEF Inv, TypeInv
  <2>3. SizeInv'
    BY <2>1 DEF Inv, SizeInv
  <2> QED BY <2>1, <2>2, <2>3, PlaceKept DEF Inv
<1> QED BY <1>1, <1>2

LEMMA SpecInv == Spec => []Inv
<1>1. Init => Inv
  BY InitInv
<1>2. Inv /\ [Next /\ ~ raced]_vars => Inv'
  BY NextInv
<1> QED BY <1>1, <1>2, PTL DEF Spec

\* A block that is in one place of the model has one element in Places.
LEMMA InvOnePlace == Inv => OnePlace
<1> SUFFICES ASSUME Inv, ~ raced, NEW b \in Made PROVE Cardinality(Places(b)) = 1
  BY DEF OnePlace
<1>1. b \in Blocks /\ IsMade(b)
  BY DEF Made, IsMade, Inv, TypeInv, Blocks
<1>2. \A p : p \in Places(b) <=>
         \/ \E s \in DOMAIN pools : \E i \in DOMAIN pools[s] : pools[s][i] = b /\ p = <<"free", s, i>>
         \/ \E t \in Threads : mem[t] = b /\ p = <<"call", t, 0>>
         \/ \E h \in held : h[1] = b /\ p = <<"held", 0, h[2]>>
  BY DEF Places
<1>3. \A s \in DOMAIN pools : DOMAIN pools[s] = 1..Len(pools[s])
  BY DEF Inv, TypeInv
<1>4. \E p : Places(b) = {p}
  <2>1. CASE InPool(b)
    <3>1. ~ InCall(b) /\ ~ WithApp(b)
      BY <1>1, <2>1 DEF Inv, PlaceInv
    <3>2. PICK s \in DOMAIN pools : \E i \in 1..Len(pools[s]) : pools[s][i] = b
      BY <2>1 DEF InPool
    <3>3. PICK i \in 1..Len(pools[s]) : pools[s][i] = b
      BY <3>2
    <3>4. \A r \in DOMAIN pools : \A j \in 1..Len(pools[r]) : pools[r][j] = b => r = s /\ j = i
      BY <3>3 DEF Inv, SizeInv, PlaceInv
    <3>5. \A p : p \in Places(b) <=> p = <<"free", s, i>>
      BY <1>2, <1>3, <3>1, <3>3, <3>4 DEF InCall, WithApp
    <3>6. Places(b) = {<<"free", s, i>>}
      BY <3>5
    <3> QED BY <3>6
  <2>2. CASE InCall(b)
    <3>1. ~ InPool(b) /\ ~ WithApp(b)
      BY <1>1, <2>2 DEF Inv, PlaceInv
    <3>2. PICK t \in Threads : mem[t] = b
      BY <2>2 DEF InCall
    <3>3. \A u \in Threads : mem[u] = b => u = t
      BY <1>1, <3>2 DEF Inv, PlaceInv
    <3>4. \A p : p \in Places(b) <=> p = <<"call", t, 0>>
      BY <1>2, <1>3, <3>1, <3>2, <3>3 DEF InPool, WithApp
    <3>5. Places(b) = {<<"call", t, 0>>}
      BY <3>4
    <3> QED BY <3>5
  <2>3. CASE WithApp(b)
    <3>1. ~ InPool(b) /\ ~ InCall(b)
      BY <1>1, <2>3 DEF Inv, PlaceInv
    <3>2. PICK h \in held : h[1] = b
      BY <2>3 DEF WithApp
    <3>3. \A g \in held : g[1] = b => g = h
      BY <3>2 DEF Inv, PlaceInv
    <3>4. \A p : p \in Places(b) <=> p = <<"held", 0, h[2]>>
      BY <1>2, <1>3, <3>1, <3>2, <3>3 DEF InPool, InCall
    <3>5. Places(b) = {<<"held", 0, h[2]>>}
      BY <3>4
    <3> QED BY <3>5
  <2> QED BY <1>1, <2>1, <2>2, <2>3 DEF Inv, PlaceInv
<1> QED BY <1>4, FS_Singleton

\* Every block that was made is free, in a call or with the application, and
\* in one of these places once, as long as no push raced (Alloc, Free).
THEOREM BlockInOnePlace == Spec => []OnePlace
  BY SpecInv, InvOnePlace, PTL

\* Alloc gives a block of at least the size asked for, and Free puts it back
\* on the stack of its size.  As all of this specification, it speaks of what
\* happens until a push overlaps another access.
THEOREM BlocksOfTheirSize == Spec => []BlocksFit
<1>1. Inv => BlocksFit
  BY DEF Inv, TypeInv, SizeInv, BlocksFit
<1> QED BY <1>1, SpecInv, PTL

\* Free never takes its second early return, which would keep pool_lock_:
\* nothing changes pool_lock_ for good, whatever pointers are freed, until a
\* push overlaps another access.
THEOREM PoolLockKeptByNone == Spec => [](pool_lock = None)
<1>1. Init => pool_lock = None
  BY DEF Init
<1>2. Inv /\ pool_lock = None /\ [Next /\ ~ raced]_vars => (pool_lock = None)'
  <2> SUFFICES ASSUME Inv, pool_lock = None, [Next /\ ~ raced]_vars PROVE (pool_lock = None)'
    OBVIOUS
  <2>1. CASE UNCHANGED vars
    BY <2>1 DEF vars
  <2>2. ASSUME ~ raced, NEW t \in Threads, FindPool(t) PROVE (pool_lock = None)'
    BY <2>2, InvFindPool
  <2>3. CASE Next /\ ~ raced
    BY <2>2, <2>3 DEF Next, Step, CallAlloc, CallFree, FreeForeign, TakeBlock, RecordSize,
                      FindSize, BeginPush, EndPush
  <2> QED BY <2>1, <2>3
<1> QED BY <1>1, <1>2, SpecInv, PTL DEF Spec

=============================================================================
