------------------------ MODULE DispatchQueueProofs -------------------------
(***************************************************************************)
(* The table of slots is a queue, for any number of slots and for all the  *)
(* functions the code dispatches, in a critical section or not, in every   *)
(* behaviour in which no interrupt comes inside one of the two windows of  *)
(* a dispatch that has none: between its test of a slot and its claim, and *)
(* between the last link it reads and the one it writes.  No slot leaks,   *)
(* what k_que_start fetches has been dispatched, and the list is the FIFO  *)
(* of TaskQueue.  That the condition is needed is what the run             *)
(* dispatch_queue_unmasked shows; that nothing else is, what is proved     *)
(* here: interrupts may come anywhere else in a dispatch.  If unlockIfAble *)
(* and ipcCleanup were not queued, or masked interrupts, the condition     *)
(* would hold by itself (MaskedIsSteady).                                  *)
(***************************************************************************)
EXTENDS DispatchQueue, FiniteSetTheorems, SequenceTheorems, WellFoundedInduction, TLAPS

-----------------------------------------------------------------------------
(* The invariant: the n slots of L, in this order, are the list.           *)

InDispatch == {"scan", "claim", "fill", "walk", "link"}
HasClaimed == pc \in {"fill", "walk", "link"}

TypeOK ==
  /\ reserved \in [Slot -> BOOLEAN]
  /\ func \in [Slot -> Function \cup {DFE_NONE}]
  /\ next \in [Slot -> Slot \cup {NULL}]
  /\ current \in Slot \cup {NULL}
  /\ pc \in {"fetch", "check", "run", "unlink"} \cup InDispatch
  /\ masked \in BOOLEAN
  /\ i \in 0 .. MAX_QUEUE_LENGTH
  /\ oops \in {"none", "capacity"}

IsList(L, n) ==
  /\ \A j, k \in 1 .. n : L[j] = L[k] => j = k
  /\ current = IF n = 0 THEN NULL ELSE L[1]
  /\ \A k \in 1 .. n : next[L[k]] = IF k = n THEN NULL ELSE L[k + 1]
  /\ \A k \in 1 .. n : func[L[k]] \in Function

\* What is reserved is in the list, or claimed by the kernel and not yet linked.
Agrees(L, n) ==
  /\ \A s \in Slot :
       reserved[s] <=> (\E k \in 1 .. n : s = L[k]) \/ (HasClaimed /\ s = i)
  /\ HasClaimed => \A k \in 1 .. n : L[k] # i
  /\ pc \in {"walk", "link"} => \E k \in 1 .. n : last = L[k]

\* The kernel runs the head of the list, and dispatches with interrupts disabled
\* unless that is a function that does not care to.
KernelHoldsHead ==
  /\ pc \in InDispatch => masked \/ func[enqueued] \in Unmasked
  /\ pc # "fetch" => current # NULL /\ enqueued = current
  /\ pc = "claim" => i \in Slot /\ ~reserved[i]
  /\ HasClaimed => i \in Slot
  /\ pc \in {"walk", "link"} => func[i] = "schedEvaluate" /\ next[i] = NULL
  /\ pc = "link" => next[last] = NULL

Lists(n) == [1 .. n -> Slot]
IsQueue ==
  \E n \in 0 .. MAX_QUEUE_LENGTH : \E L \in Lists(n) : IsList(L, n) /\ Agrees(L, n)

QueueInv == TypeOK /\ KernelHoldsHead /\ IsQueue

-----------------------------------------------------------------------------
(* Slots, functions and lists of them.                                     *)

\* No entry is not a slot; no function is not a function.
LEMMA NothingIsNothing ==
  /\ NULL \notin Slot
  /\ DFE_NONE \notin Function
<1>1. NULL \notin Slot
  BY DispatchQueueAssumption DEF NULL, Slot
<1>2. DFE_NONE \notin {"schedEvaluate", "waitForEvent", "unlockIfAble", "ipcCleanup"}
  BY Zenon DEF DFE_NONE
<1> QED BY <1>1, <1>2, DispatchQueueAssumption, Zenon

\* A set of natural numbers with a member has a least one.
LEMMA LeastNumber ==
  ASSUME NEW S, S \subseteq Nat, S # {}
  PROVE  \E x \in S : \A y \in S : x <= y
<1> DEFINE R == OpToRel(<, Nat)
<1>1. \A x, y \in Nat : y < x => <<y, x>> \in R
  BY Zenon DEF OpToRel
<1>2. \E x \in S : \A y \in S : ~ (<<y, x>> \in R)
  BY NatLessThanWellFounded, WFMin
<1> HIDE DEF R
<1>3. PICK x \in S : \A y \in S : ~ (<<y, x>> \in R)
  BY <1>2
<1>4. \A y \in S : ~ (y < x)
  BY <1>1, <1>3
<1> QED BY <1>4

\* A list without repetitions is no longer than the table.
LEMMA ListFits ==
  ASSUME NEW n \in Nat, NEW L \in Lists(n),
         \A j, k \in 1 .. n : L[j] = L[k] => j = k
  PROVE  n <= MAX_QUEUE_LENGTH
<1>1. IsFiniteSet(Slot) /\ Cardinality(Slot) = MAX_QUEUE_LENGTH
  BY FS_Interval, DispatchQueueAssumption DEF Slot
<1>2. Cardinality(1 .. n) = n
  BY FS_Interval
<1>3. L \in Injection(1 .. n, Slot)
  BY DEF Injection, IsInjective, Lists
<1>4. Cardinality(1 .. n) <= Cardinality(Slot)
  BY <1>1, <1>3, FS_Injection
<1> QED BY <1>1, <1>2, <1>4

-----------------------------------------------------------------------------
(* What the list looks like from its head.                                 *)

\* The recursive definition of Linked has a solution, so it is one: the entry
\* after k links is the one at place k + 1.
LEMMA LinkedIsList ==
  ASSUME NEW n \in 0 .. MAX_QUEUE_LENGTH, NEW L \in Lists(n), IsList(L, n)
  PROVE  \A k \in 0 .. MAX_QUEUE_LENGTH :
           Linked[k] = IF k < n THEN L[k + 1] ELSE NULL
<1> DEFINE D == 0 .. MAX_QUEUE_LENGTH
           Step(g) == [k \in D |-> IF k = 0 THEN current
                                   ELSE IF g[k - 1] = NULL THEN NULL ELSE next[g[k - 1]]]
           l == [k \in D |-> IF k < n THEN L[k + 1] ELSE NULL]
<1>1. l = Step(l)
  <2> SUFFICES ASSUME NEW k \in D
               PROVE  l[k] = Step(l)[k]
    OBVIOUS
  <2>1. n \in Nat /\ k \in Nat
    BY DispatchQueueAssumption
  <2>2. CASE k = 0
    BY <2>1, <2>2 DEF IsList
  <2>3. CASE k # 0
    <3>1. k - 1 \in D /\ l[k - 1] = IF k - 1 < n THEN L[k] ELSE NULL
      BY <2>1, <2>3, DispatchQueueAssumption
    <3>2. CASE k - 1 < n
      <4>1. k \in 1 .. n /\ L[k] \in Slot
        BY <2>1, <2>3, <3>2 DEF Lists
      <4>2. l[k - 1] # NULL /\ Step(l)[k] = next[L[k]]
        BY <3>1, <3>2, <4>1, <2>3, NothingIsNothing
      <4>3. next[L[k]] = IF k = n THEN NULL ELSE L[k + 1]
        BY <4>1 DEF IsList
      <4> QED BY <2>1, <4>1, <4>2, <4>3
    <3>3. CASE ~ (k - 1 < n)
      BY <2>1, <2>3, <3>1, <3>3
    <3> QED BY <3>2, <3>3
  <2> QED BY <2>2, <2>3
<1>2. Linked = CHOOSE g : g = Step(g)
  BY Zenon DEF Linked
<1>3. Linked = Step(Linked)
  <2> HIDE DEF Step, l
  <2> QED BY <1>1, <1>2, Zenon
<1>4. \A k \in D : l[k] = IF k = 0 THEN current
                          ELSE IF l[k - 1] = NULL THEN NULL ELSE next[l[k - 1]]
  <2> HIDE DEF l
  <2> QED BY <1>1
<1>5. \A k \in D : Linked[k] = IF k = 0 THEN current
                     ELSE IF Linked[k - 1] = NULL THEN NULL ELSE next[Linked[k - 1]]
  BY <1>3
<1>6. \A k \in D : Linked[k] = l[k]
  <2> HIDE DEF l, Step
  <2> SUFFICES ASSUME \E k \in D : Linked[k] # l[k]
               PROVE  FALSE
    OBVIOUS
  <2> DEFINE S == {k \in D : Linked[k] # l[k]}
  <2>1. S \subseteq Nat /\ S # {}
    BY DispatchQueueAssumption
  <2>2. PICK k \in S : \A y \in S : k <= y
    BY <2>1, LeastNumber
  <2>3. k # 0
    BY <1>4, <1>5
  <2>4. k - 1 \in D /\ ~ (k <= k - 1)
    BY <2>3, DispatchQueueAssumption
  <2>5. Linked[k - 1] = l[k - 1]
    BY <2>2, <2>4
  <2> QED BY <1>4, <1>5, <2>3, <2>5
<1> QED BY <1>6

\* So the list has an end, its entries are those of L, and its tasks their functions.
ListReads ==
  \A n \in 0 .. MAX_QUEUE_LENGTH : \A L \in Lists(n) : IsList(L, n) =>
    /\ HasEnd
    /\ Entries = {L[k] : k \in 1 .. n}
    /\ Tasks = [k \in 1 .. n |-> func[L[k]]]

LEMMA ListIsRead == ListReads
<1> SUFFICES ASSUME NEW n \in 0 .. MAX_QUEUE_LENGTH, NEW L \in Lists(n), IsList(L, n)
             PROVE  /\ HasEnd
                    /\ Entries = {L[k] : k \in 1 .. n}
                    /\ Tasks = [k \in 1 .. n |-> func[L[k]]]
  BY DEF ListReads
<1>0. n \in Nat /\ n <= MAX_QUEUE_LENGTH /\ MAX_QUEUE_LENGTH \in Nat
  BY DispatchQueueAssumption
<1>1. \A k \in 0 .. MAX_QUEUE_LENGTH : Linked[k] = IF k < n THEN L[k + 1] ELSE NULL
  BY LinkedIsList
<1>2. \A k \in 0 .. MAX_QUEUE_LENGTH : Linked[k] = NULL <=> n <= k
  <2> TAKE k \in 0 .. MAX_QUEUE_LENGTH
  <2>1. k < n => L[k + 1] \in Slot
    BY <1>0 DEF Lists
  <2> QED BY <1>0, <1>1, <2>1, NothingIsNothing
<1>3. \A m \in 0 .. MAX_QUEUE_LENGTH : IsLength(m) <=> m = n
  <2> TAKE m \in 0 .. MAX_QUEUE_LENGTH
  <2>1. IsLength(n)
    BY <1>0, <1>2 DEF IsLength
  <2>2. ASSUME IsLength(m) PROVE m = n
    <3>1. n <= m
      BY <1>2, <2>2 DEF IsLength
    <3>2. ~ (n \in 0 .. m - 1)
      BY <1>0, <1>2, <2>2 DEF IsLength
    <3> QED BY <1>0, <3>1, <3>2
  <2> QED BY <2>1, <2>2
<1>4. HasEnd
  BY <1>3 DEF HasEnd
<1>5. Entries = {L[k] : k \in 1 .. n}
  <2>1. ASSUME NEW e \in Entries PROVE e \in {L[k] : k \in 1 .. n}
    <3>1. PICK k \in 0 .. MAX_QUEUE_LENGTH : e = Linked[k] /\ e # NULL
      BY DEF Entries
    <3>2. k < n /\ e = L[k + 1]
      BY <1>0, <1>1, <3>1
    <3>3. k + 1 \in 1 .. n
      BY <3>2, <1>0
    <3> QED BY <3>2, <3>3
  <2>2. ASSUME NEW k \in 1 .. n PROVE L[k] \in Entries
    <3>1. k - 1 \in 0 .. MAX_QUEUE_LENGTH /\ k - 1 < n /\ k - 1 + 1 = k
      BY <1>0
    <3>2. Linked[k - 1] = L[k]
      BY <1>1, <3>1
    <3>3. Linked[k - 1] # NULL
      BY <1>0, <1>2, <3>1
    <3> QED BY <3>1, <3>2, <3>3 DEF Entries
  <2> QED BY <2>1, <2>2
<1>6. Tasks = [k \in 1 .. n |-> func[L[k]]]
  <2> DEFINE m == CHOOSE m \in 0 .. MAX_QUEUE_LENGTH : IsLength(m)
  <2>1. m = n
    BY <1>3
  <2>2. Tasks = [k \in 1 .. m |-> func[Linked[k - 1]]]
    BY Zenon DEF Tasks
  <2>3. \A k \in 1 .. n : Linked[k - 1] = L[k]
    <3> TAKE k \in 1 .. n
    <3>1. k - 1 \in 0 .. MAX_QUEUE_LENGTH /\ k - 1 < n /\ k - 1 + 1 = k
      BY <1>0
    <3> QED BY <1>1, <3>1
  <2> HIDE DEF m
  <2> QED BY <2>1, <2>2, <2>3
<1> QED BY <1>4, <1>5, <1>6

-----------------------------------------------------------------------------
(* What a step does to the list.                                           *)

\* A slot that is not in the list becomes its last entry.
Appended(L, n, s) == [k \in 1 .. n + 1 |-> IF k = n + 1 THEN s ELSE L[k]]

LEMMA ListGrows ==
  ASSUME NEW n \in 0 .. MAX_QUEUE_LENGTH, NEW L \in Lists(n), IsList(L, n),
         NEW s \in Slot, \A k \in 1 .. n : L[k] # s,
         TypeOK,
         func'[s] \in Function, next'[s] = NULL,
         IF n = 0 THEN current' = s ELSE current' = current /\ next'[L[n]] = s,
         \A k \in 1 .. n : k # n => next'[L[k]] = next[L[k]],
         \A k \in 1 .. n : func'[L[k]] = func[L[k]]
  PROVE  /\ n + 1 \in 0 .. MAX_QUEUE_LENGTH
         /\ Appended(L, n, s) \in Lists(n + 1)
         /\ IsList(Appended(L, n, s), n + 1)'
<1> DEFINE M == Appended(L, n, s)
<1>0. n \in Nat /\ MAX_QUEUE_LENGTH \in Nat /\ n + 1 \in Nat /\ n + 1 # 0
  BY DispatchQueueAssumption
<1>1. M[n + 1] = s /\ \A k \in 1 .. n : M[k] = L[k]
  BY <1>0 DEF Appended
<1>2. \A k \in 1 .. n + 1 : k = n + 1 \/ k \in 1 .. n
  BY <1>0
<1>3. M \in Lists(n + 1)
  BY <1>0, <1>2 DEF Lists, Appended
<1> HIDE DEF M
<1>4. ASSUME NEW j \in 1 .. n + 1, NEW k \in 1 .. n + 1, M[j] = M[k]
      PROVE  j = k
  <2>1. CASE j = n + 1 /\ k = n + 1
    BY <2>1
  <2>2. CASE j = n + 1 /\ k \in 1 .. n
    BY <2>2, <1>1, <1>4
  <2>3. CASE j \in 1 .. n /\ k = n + 1
    BY <2>3, <1>1, <1>4
  <2>4. CASE j \in 1 .. n /\ k \in 1 .. n
    BY <2>4, <1>1, <1>4 DEF IsList
  <2> QED BY <1>2, <2>1, <2>2, <2>3, <2>4
<1>5. n + 1 <= MAX_QUEUE_LENGTH
  BY <1>0, <1>3, <1>4, ListFits
<1>6. current' = M[1]
  <2>1. CASE n = 0
    BY <2>1, <1>1
  <2>2. CASE n # 0
    <3>1. 1 \in 1 .. n
      BY <1>0, <2>2
    <3> QED BY <2>2, <3>1, <1>1 DEF IsList
  <2> QED BY <2>1, <2>2
<1>7. ASSUME NEW k \in 1 .. n + 1
      PROVE  next'[M[k]] = IF k = n + 1 THEN NULL ELSE M[k + 1]
  <2>1. CASE k = n + 1
    BY <2>1, <1>1
  <2>2. CASE k \in 1 .. n /\ k = n
    <3>1. n # 0 /\ k # n + 1 /\ M[k] = L[n] /\ M[k + 1] = s
      BY <1>0, <1>1, <2>2
    <3> QED BY <3>1
  <2>3. CASE k \in 1 .. n /\ k # n
    <3>1. k # n + 1 /\ k + 1 \in 1 .. n
      BY <1>0, <2>3
    <3>2. M[k] = L[k] /\ M[k + 1] = L[k + 1]
      BY <1>1, <2>3, <3>1
    <3>3. next[L[k]] = L[k + 1]
      BY <2>3 DEF IsList
    <3> QED BY <2>3, <3>1, <3>2, <3>3
  <2> QED BY <1>2, <2>1, <2>2, <2>3
<1>8. ASSUME NEW k \in 1 .. n + 1
      PROVE  func'[M[k]] \in Function
  BY <1>1, <1>2 DEF IsList
<1>9. n + 1 \in 0 .. MAX_QUEUE_LENGTH
  BY <1>0, <1>5
<1>10. IsList(M, n + 1)'
  BY <1>0, <1>4, <1>6, <1>7, <1>8 DEF IsList
<1> QED BY <1>3, <1>9, <1>10 DEF M

\* The head leaves it.
Rest(L, n) == [k \in 1 .. n - 1 |-> L[k + 1]]

LEMMA ListShrinks ==
  ASSUME NEW n \in 0 .. MAX_QUEUE_LENGTH, NEW L \in Lists(n), IsList(L, n), n # 0,
         current' = next[L[1]],
         \A k \in 1 .. n : k # 1 => next'[L[k]] = next[L[k]] /\ func'[L[k]] = func[L[k]]
  PROVE  /\ n - 1 \in 0 .. MAX_QUEUE_LENGTH
         /\ Rest(L, n) \in Lists(n - 1)
         /\ IsList(Rest(L, n), n - 1)'
<1> DEFINE M == Rest(L, n)
<1>0. n \in Nat /\ MAX_QUEUE_LENGTH \in Nat /\ n - 1 \in Nat /\ n - 1 \in 0 .. MAX_QUEUE_LENGTH
  BY DispatchQueueAssumption
<1>1. \A k \in 1 .. n - 1 : M[k] = L[k + 1] /\ k \in 1 .. n /\ k + 1 \in 1 .. n /\ k + 1 # 1
  BY <1>0 DEF Rest
<1>2. M \in Lists(n - 1)
  BY <1>0, <1>1 DEF Lists, Rest
<1> HIDE DEF M
<1>3. ASSUME NEW j \in 1 .. n - 1, NEW k \in 1 .. n - 1, M[j] = M[k]
      PROVE  j = k
  <2>1. j + 1 = k + 1
    BY <1>1, <1>3 DEF IsList
  <2> QED BY <2>1
<1>4. current' = IF n - 1 = 0 THEN NULL ELSE M[1]
  <2>1. 1 \in 1 .. n /\ next[L[1]] = IF 1 = n THEN NULL ELSE L[1 + 1]
    BY <1>0 DEF IsList
  <2>2. CASE n - 1 = 0
    BY <2>1, <2>2, <1>0
  <2>3. CASE n - 1 # 0
    <3>1. 1 \in 1 .. n - 1 /\ 1 # n
      BY <1>0, <2>3
    <3> QED BY <2>1, <2>3, <3>1, <1>1
  <2> QED BY <2>2, <2>3
<1>5. ASSUME NEW k \in 1 .. n - 1
      PROVE  next'[M[k]] = IF k = n - 1 THEN NULL ELSE M[k + 1]
  <2>1. next'[M[k]] = next[L[k + 1]]
    BY <1>1
  <2>2. next[L[k + 1]] = IF k + 1 = n THEN NULL ELSE L[k + 1 + 1]
    BY <1>1 DEF IsList
  <2>3. CASE k = n - 1
    BY <2>1, <2>2, <2>3, <1>0
  <2>4. CASE k # n - 1
    <3>1. k + 1 \in 1 .. n - 1 /\ k + 1 # n
      BY <1>0, <2>4
    <3> QED BY <2>1, <2>2, <2>4, <3>1, <1>1
  <2> QED BY <2>3, <2>4
<1>6. ASSUME NEW k \in 1 .. n - 1
      PROVE  func'[M[k]] \in Function
  BY <1>1 DEF IsList
<1>7. IsList(M, n - 1)'
  BY <1>3, <1>4, <1>5, <1>6 DEF IsList
<1> QED BY <1>0, <1>2, <1>7 DEF M

\* It stays what it is, if what is linked is let alone.
LEMMA ListStays ==
  ASSUME NEW n \in 0 .. MAX_QUEUE_LENGTH, NEW L \in Lists(n), IsList(L, n),
         current' = current,
         \A k \in 1 .. n : next'[L[k]] = next[L[k]] /\ func'[L[k]] = func[L[k]]
  PROVE  IsList(L, n)'
BY DEF IsList

-----------------------------------------------------------------------------
(* What a step does to the sequence of tasks, as TaskQueue sees it.        *)

Puts(f) == Len(Tasks) < MAX_QUEUE_LENGTH /\ Tasks' = Append(Tasks, f)
IsDone == Tasks # <<>> /\ Tasks' = Tail(Tasks)
QueueStep == Tasks' = Tasks \/ IsDone \/ \E f \in Function : Puts(f)

LEMMA ListIsReadAlways == ListReads /\ ListReads'
BY ListIsRead, PTL

LEMMA TasksGrow ==
  ASSUME NEW n \in 0 .. MAX_QUEUE_LENGTH, NEW L \in Lists(n), IsList(L, n),
         n + 1 \in 0 .. MAX_QUEUE_LENGTH,
         NEW s \in Slot, Appended(L, n, s) \in Lists(n + 1),
         IsList(Appended(L, n, s), n + 1)',
         \A k \in 1 .. n : func'[L[k]] = func[L[k]]
  PROVE  Puts(func'[s])
<1> DEFINE M == Appended(L, n, s)
           T == [k \in 1 .. n |-> func[L[k]]]
<1>0. n \in Nat /\ n < MAX_QUEUE_LENGTH
  BY DispatchQueueAssumption
<1>1. Tasks = T
  BY ListIsReadAlways DEF ListReads
<1>2. Tasks' = [k \in 1 .. n + 1 |-> func'[M[k]]]
  <2> HIDE DEF M
  <2>1. M \in Lists(n + 1) /\ IsList(M, n + 1)'
    BY DEF M
  <2> QED BY <2>1, ListIsReadAlways DEF ListReads, Lists
<1>3. M[n + 1] = s /\ \A k \in 1 .. n : M[k] = L[k]
  BY <1>0 DEF Appended
<1>4. T \in Seq({func[L[k]] : k \in 1 .. n}) /\ Len(T) = n
  BY <1>0
<1> HIDE DEF M
<1>5. Append(T, func'[s]) = [k \in 1 .. n + 1 |-> IF k = n + 1 THEN func'[s] ELSE T[k]]
  <2> HIDE DEF T
  <2> QED BY <1>0, <1>4
<1>6. \A k \in 1 .. n + 1 : func'[M[k]] = IF k = n + 1 THEN func'[s] ELSE T[k]
  BY <1>0, <1>3
<1>7. Tasks' = Append(T, func'[s])
  <2> HIDE DEF T
  <2> QED BY <1>2, <1>5, <1>6
<1> HIDE DEF T
<1> QED BY <1>0, <1>1, <1>4, <1>7 DEF Puts

LEMMA TasksShrink ==
  ASSUME NEW n \in 0 .. MAX_QUEUE_LENGTH, NEW L \in Lists(n), IsList(L, n), n # 0,
         n - 1 \in 0 .. MAX_QUEUE_LENGTH, Rest(L, n) \in Lists(n - 1),
         IsList(Rest(L, n), n - 1)',
         \A k \in 1 .. n : k # 1 => func'[L[k]] = func[L[k]]
  PROVE  IsDone
<1> DEFINE M == Rest(L, n)
           T == [k \in 1 .. n |-> func[L[k]]]
<1>0. n \in Nat
  BY DispatchQueueAssumption
<1>1. Tasks = T
  BY ListIsReadAlways DEF ListReads
<1>2. Tasks' = [k \in 1 .. n - 1 |-> func'[M[k]]]
  <2> HIDE DEF M
  <2>1. M \in Lists(n - 1) /\ IsList(M, n - 1)'
    BY DEF M
  <2> QED BY <2>1, ListIsReadAlways DEF ListReads, Lists
<1>3. \A k \in 1 .. n - 1 : M[k] = L[k + 1] /\ k + 1 \in 1 .. n /\ k + 1 # 1
  BY <1>0 DEF Rest
<1>4. T \in Seq({func[L[k]] : k \in 1 .. n}) /\ Len(T) = n
  BY <1>0
<1> HIDE DEF M
<1>5. Tail(T) = [k \in 1 .. n - 1 |-> T[k + 1]]
  <2> HIDE DEF T
  <2> DEFINE F == {func[L[k]] : k \in 1 .. n}
  <2> HIDE DEF F
  <2>1. T \in Seq(F) /\ T # <<>>
    BY <1>0, <1>4 DEF F
  <2>2. /\ Tail(T) \in Seq(F) /\ Len(Tail(T)) = n - 1
        /\ \A k \in 1 .. n - 1 : Tail(T)[k] = T[k + 1]
    BY <1>4, <2>1
  <2>3. Tail(T) = [k \in 1 .. Len(Tail(T)) |-> Tail(T)[k]]
    BY <2>2, LenProperties
  <2> QED BY <2>2, <2>3
<1>6. \A k \in 1 .. n - 1 : func'[M[k]] = T[k + 1]
  BY <1>0, <1>3
<1>7. Tasks' = Tail(T) /\ T # <<>>
  <2> HIDE DEF T
  <2> QED BY <1>0, <1>2, <1>4, <1>5, <1>6
<1> HIDE DEF T
<1> QED BY <1>1, <1>7 DEF IsDone

LEMMA TasksStay ==
  ASSUME NEW n \in 0 .. MAX_QUEUE_LENGTH, NEW L \in Lists(n), IsList(L, n),
         IsList(L, n)',
         \A k \in 1 .. n : func'[L[k]] = func[L[k]]
  PROVE  Tasks' = Tasks
<1>1. Tasks = [k \in 1 .. n |-> func[L[k]]]
  BY ListIsReadAlways DEF ListReads
<1>2. Tasks' = [k \in 1 .. n |-> func'[L[k]]]
  BY ListIsReadAlways DEF ListReads, Lists
<1> QED BY <1>1, <1>2

-----------------------------------------------------------------------------
(* Every step keeps the invariant, and is a step of TaskQueue or a stutter. *)

\* What every lemma below shows of its action.
StepIsSound == QueueInv' /\ QueueStep

\* A step that leaves the table alone moves no task.
LEMMA TableIsLeftAlone ==
  ASSUME NEW n \in 0 .. MAX_QUEUE_LENGTH, NEW L \in Lists(n), IsList(L, n),
         UNCHANGED table
  PROVE  IsList(L, n)' /\ QueueStep
<1>1. IsList(L, n)'
  BY ListStays DEF table
<1> QED BY <1>1, TasksStay DEF table, QueueStep

LEMMA FetchStep == QueueInv /\ Fetch => StepIsSound
<1> SUFFICES ASSUME QueueInv, Fetch PROVE StepIsSound
  OBVIOUS
<1>0. PICK n \in 0 .. MAX_QUEUE_LENGTH : \E L \in Lists(n) : IsList(L, n) /\ Agrees(L, n)
  BY DEF QueueInv, IsQueue
<1>1. PICK L \in Lists(n) : IsList(L, n) /\ Agrees(L, n)
  BY <1>0
<1>2. IsList(L, n)' /\ QueueStep
  BY <1>1, TableIsLeftAlone DEF Fetch
<1>3. pc = "fetch" /\ pc' = "check"
  BY DEF Fetch, At
<1>4. Agrees(L, n)'
  BY <1>1, <1>3 DEF Agrees, Fetch, table, HasClaimed
<1>5. KernelHoldsHead'
  BY <1>3 DEF QueueInv, KernelHoldsHead, Fetch, table, InDispatch, HasClaimed
<1>6. TypeOK'
  BY <1>3 DEF QueueInv, TypeOK, Fetch, table
<1> QED BY <1>1, <1>2, <1>4, <1>5, <1>6 DEF StepIsSound, QueueInv, IsQueue, Lists

\* What the kernel is about to run is in the list, so it has been dispatched.
LEMMA HeadIsDispatched ==
  ASSUME NEW n \in 0 .. MAX_QUEUE_LENGTH, NEW L \in Lists(n), IsList(L, n), Agrees(L, n),
         QueueInv, pc # "fetch"
  PROVE  /\ n # 0 /\ 1 \in 1 .. n
         /\ enqueued = L[1] /\ enqueued \in Slot
         /\ reserved[enqueued] /\ func[enqueued] \in Function
<1>1. current # NULL /\ enqueued = current
  BY DEF QueueInv, KernelHoldsHead
<1>2. n # 0 /\ 1 \in 1 .. n
  BY <1>1, DispatchQueueAssumption DEF IsList
<1>3. enqueued = L[1] /\ enqueued \in Slot
  BY <1>1, <1>2 DEF IsList, Lists
<1> QED BY <1>2, <1>3 DEF IsList, Agrees

LEMMA CheckStep == QueueInv /\ Check => StepIsSound
<1> SUFFICES ASSUME QueueInv, Check PROVE StepIsSound
  OBVIOUS
<1>0. PICK n \in 0 .. MAX_QUEUE_LENGTH : \E L \in Lists(n) : IsList(L, n) /\ Agrees(L, n)
  BY DEF QueueInv, IsQueue
<1>1. PICK L \in Lists(n) : IsList(L, n) /\ Agrees(L, n)
  BY <1>0
<1>2. IsList(L, n)' /\ QueueStep
  BY <1>1, TableIsLeftAlone DEF Check
<1>3. pc = "check" /\ pc' = "run"
  BY DEF Check, At
<1>4. reserved[enqueued] /\ func[enqueued] # DFE_NONE
  BY <1>1, <1>3, HeadIsDispatched, NothingIsNothing
<1>5. oops' = "none"
  BY <1>4, Zenon DEF Check
<1>6. Agrees(L, n)'
  BY <1>1, <1>3 DEF Agrees, Check, table, HasClaimed
<1>7. KernelHoldsHead'
  BY <1>3 DEF QueueInv, KernelHoldsHead, Check, table, locals, InDispatch, HasClaimed
<1>8. TypeOK'
  BY <1>3, <1>5 DEF QueueInv, TypeOK, Check, table, locals
<1> QED BY <1>1, <1>2, <1>6, <1>7, <1>8 DEF StepIsSound, QueueInv, IsQueue, Lists

LEMMA FunctionReturnsStep == QueueInv /\ FunctionReturns => StepIsSound
<1> SUFFICES ASSUME QueueInv, FunctionReturns PROVE StepIsSound
  OBVIOUS
<1>0. PICK n \in 0 .. MAX_QUEUE_LENGTH : \E L \in Lists(n) : IsList(L, n) /\ Agrees(L, n)
  BY DEF QueueInv, IsQueue
<1>1. PICK L \in Lists(n) : IsList(L, n) /\ Agrees(L, n)
  BY <1>0
<1>2. IsList(L, n)' /\ QueueStep
  BY <1>1, TableIsLeftAlone DEF FunctionReturns
<1>3. pc = "run" /\ pc' = "unlink"
  BY DEF FunctionReturns, At
<1>4. Agrees(L, n)'
  BY <1>1, <1>3 DEF Agrees, FunctionReturns, table, locals, HasClaimed
<1>5. KernelHoldsHead'
  BY <1>3 DEF QueueInv, KernelHoldsHead, FunctionReturns, table, locals, InDispatch, HasClaimed
<1>6. TypeOK'
  BY <1>3 DEF QueueInv, TypeOK, FunctionReturns, table, locals
<1> QED BY <1>1, <1>2, <1>4, <1>5, <1>6 DEF StepIsSound, QueueInv, IsQueue, Lists

LEMMA FunctionDispatchesStep == QueueInv /\ FunctionDispatches => StepIsSound
<1> SUFFICES ASSUME QueueInv, FunctionDispatches PROVE StepIsSound
  OBVIOUS
<1>0. PICK n \in 0 .. MAX_QUEUE_LENGTH : \E L \in Lists(n) : IsList(L, n) /\ Agrees(L, n)
  BY DEF QueueInv, IsQueue
<1>1. PICK L \in Lists(n) : IsList(L, n) /\ Agrees(L, n)
  BY <1>0
<1>2. IsList(L, n)' /\ QueueStep
  BY <1>1, TableIsLeftAlone DEF FunctionDispatches
<1>3. pc = "run" /\ pc' = "scan"
  BY DEF FunctionDispatches, At
<1>4. func[enqueued] \in Function
  BY <1>1, <1>3, HeadIsDispatched
<1>5. masked' \in BOOLEAN /\ (masked' \/ func[enqueued] \in Unmasked)
  BY <1>4, Zenon DEF FunctionDispatches, MasksInterrupts
<1>6. Agrees(L, n)'
  BY <1>1, <1>3 DEF Agrees, FunctionDispatches, table, HasClaimed
<1>7. KernelHoldsHead'
  BY <1>3, <1>5 DEF QueueInv, KernelHoldsHead, FunctionDispatches, table, InDispatch, HasClaimed
<1>8. TypeOK'
  <2>1. i' \in 0 .. MAX_QUEUE_LENGTH
    BY DispatchQueueAssumption DEF FunctionDispatches
  <2> QED BY <1>3, <1>5, <2>1 DEF QueueInv, TypeOK, FunctionDispatches, table, InDispatch
<1> QED BY <1>1, <1>2, <1>6, <1>7, <1>8 DEF StepIsSound, QueueInv, IsQueue, Lists

LEMMA ScanStep == QueueInv /\ Scan => StepIsSound
<1> SUFFICES ASSUME QueueInv, Scan PROVE StepIsSound
  OBVIOUS
<1>0. PICK n \in 0 .. MAX_QUEUE_LENGTH : \E L \in Lists(n) : IsList(L, n) /\ Agrees(L, n)
  BY DEF QueueInv, IsQueue
<1>1. PICK L \in Lists(n) : IsList(L, n) /\ Agrees(L, n)
  BY <1>0
<1>2. IsList(L, n)' /\ QueueStep
  BY <1>1, TableIsLeftAlone DEF Scan
<1>3. pc = "scan" /\ pc' \in {"scan", "claim"}
  BY DEF Scan, At
<1>4. i \in 0 .. MAX_QUEUE_LENGTH /\ i' \in 0 .. MAX_QUEUE_LENGTH /\ oops' \in {"none", "capacity"}
  BY DispatchQueueAssumption DEF QueueInv, TypeOK, Scan
<1>5. pc' = "claim" => i' \in Slot /\ ~reserved'[i']
  BY <1>3, <1>4, DispatchQueueAssumption DEF Scan, table, Slot
<1>6. Agrees(L, n)'
  BY <1>1, <1>3 DEF Agrees, Scan, table, HasClaimed
<1>7. KernelHoldsHead'
  BY <1>3, <1>5 DEF QueueInv, KernelHoldsHead, Scan, table, InDispatch, HasClaimed
<1>8. TypeOK'
  BY <1>3, <1>4 DEF QueueInv, TypeOK, Scan, table, InDispatch
<1> QED BY <1>1, <1>2, <1>6, <1>7, <1>8 DEF StepIsSound, QueueInv, IsQueue, Lists

LEMMA ClaimStep == QueueInv /\ Claim => StepIsSound
<1> SUFFICES ASSUME QueueInv, Claim PROVE StepIsSound
  OBVIOUS
<1>0. PICK n \in 0 .. MAX_QUEUE_LENGTH : \E L \in Lists(n) : IsList(L, n) /\ Agrees(L, n)
  BY DEF QueueInv, IsQueue
<1>1. PICK L \in Lists(n) : IsList(L, n) /\ Agrees(L, n)
  BY <1>0
<1>2. IsList(L, n)' /\ QueueStep
  BY <1>1, ListStays, TasksStay DEF Claim, QueueStep
<1>3. pc = "claim" /\ pc' = "fill" /\ i' = i
  BY DEF Claim, At, locals
<1>4. i \in Slot /\ ~reserved[i]
  BY <1>3 DEF QueueInv, KernelHoldsHead
<1>5. \A k \in 1 .. n : L[k] # i
  BY <1>1, <1>4 DEF Agrees
<1>6. reserved \in [Slot -> BOOLEAN] /\ reserved' = [reserved EXCEPT ![i] = TRUE]
  BY DEF QueueInv, TypeOK, Claim
<1>7. Agrees(L, n)'
  <2>1. ASSUME NEW s \in Slot
        PROVE  reserved'[s] <=> (\E k \in 1 .. n : s = L[k]) \/ s = i
    BY <1>1, <1>3, <1>4, <1>6 DEF Agrees, HasClaimed
  <2> QED BY <1>3, <1>5, <2>1 DEF Agrees, HasClaimed
<1>8. KernelHoldsHead'
  BY <1>3, <1>4 DEF QueueInv, KernelHoldsHead, Claim, locals, InDispatch, HasClaimed
<1>9. TypeOK'
  BY <1>3, <1>4, <1>6 DEF QueueInv, TypeOK, Claim, locals, InDispatch
<1> QED BY <1>1, <1>2, <1>7, <1>8, <1>9 DEF StepIsSound, QueueInv, IsQueue, Lists

LEMMA FillStep == QueueInv /\ Fill => StepIsSound
<1> SUFFICES ASSUME QueueInv, Fill PROVE StepIsSound
  OBVIOUS
<1>0. PICK n \in 0 .. MAX_QUEUE_LENGTH : \E L \in Lists(n) : IsList(L, n) /\ Agrees(L, n)
  BY DEF QueueInv, IsQueue
<1>1. PICK L \in Lists(n) : IsList(L, n) /\ Agrees(L, n)
  BY <1>0
<1>2. pc = "fill" /\ pc' = "walk" /\ i' = i /\ reserved' = reserved /\ last' = current
  BY DEF Fill, At
<1>3. i \in Slot /\ \A k \in 1 .. n : L[k] # i /\ L[k] \in Slot
  BY <1>1, <1>2 DEF QueueInv, KernelHoldsHead, Agrees, HasClaimed, Lists
<1>4. /\ func \in [Slot -> Function \cup {DFE_NONE}] /\ next \in [Slot -> Slot \cup {NULL}]
      /\ func' = [func EXCEPT ![i] = "schedEvaluate"] /\ next' = [next EXCEPT ![i] = NULL]
  BY DEF QueueInv, TypeOK, Fill
<1>5. \A k \in 1 .. n : next'[L[k]] = next[L[k]] /\ func'[L[k]] = func[L[k]]
  BY <1>3, <1>4
<1>6. func'[i] = "schedEvaluate" /\ next'[i] = NULL
  BY <1>3, <1>4
<1>7. IsList(L, n)' /\ QueueStep
  BY <1>1, <1>5, ListStays, TasksStay DEF Fill, QueueStep
<1>8. 1 \in 1 .. n /\ current = L[1]
  BY <1>1, <1>2, HeadIsDispatched DEF QueueInv, KernelHoldsHead
<1>9. Agrees(L, n)'
  BY <1>1, <1>2, <1>8 DEF Agrees, HasClaimed
<1>e. func'[enqueued] = func[enqueued] /\ enqueued' = enqueued
  BY <1>1, <1>2, <1>5, HeadIsDispatched DEF Fill
<1>10. KernelHoldsHead'
  BY <1>2, <1>3, <1>6, <1>e DEF QueueInv, KernelHoldsHead, Fill, InDispatch, HasClaimed
<1>11. TypeOK'
  BY <1>2, <1>3, <1>4, DispatchQueueAssumption DEF QueueInv, TypeOK, Fill, InDispatch
<1> QED BY <1>1, <1>7, <1>9, <1>10, <1>11 DEF StepIsSound, QueueInv, IsQueue, Lists

\* The walk stays in the list, and stops at its end only.
LEMMA WalkStep == QueueInv /\ Walk => StepIsSound
<1> SUFFICES ASSUME QueueInv, Walk PROVE StepIsSound
  OBVIOUS
<1>0. PICK n \in 0 .. MAX_QUEUE_LENGTH : \E L \in Lists(n) : IsList(L, n) /\ Agrees(L, n)
  BY DEF QueueInv, IsQueue
<1>1. PICK L \in Lists(n) : IsList(L, n) /\ Agrees(L, n)
  BY <1>0
<1>2. IsList(L, n)' /\ QueueStep
  BY <1>1, TableIsLeftAlone DEF Walk
<1>3. pc = "walk" /\ pc' \in {"walk", "link"} /\ i' = i
  BY DEF Walk, At
<1>4. PICK k \in 1 .. n : last = L[k]
  BY <1>1, <1>3 DEF Agrees
<1>5. \E j \in 1 .. n : last' = L[j]
  <2>1. CASE next[last] = NULL
    BY <1>4, <2>1 DEF Walk
  <2>2. CASE next[last] # NULL
    <3>1. k # n /\ last' = L[k + 1]
      BY <1>1, <1>4, <2>2 DEF IsList, Walk
    <3>2. k + 1 \in 1 .. n
      BY <3>1, DispatchQueueAssumption
    <3> QED BY <3>1, <3>2
  <2> QED BY <2>1, <2>2
<1>6. pc' = "link" => next'[last'] = NULL
  BY <1>3 DEF Walk, table
<1>7. Agrees(L, n)'
  BY <1>1, <1>3, <1>5 DEF Agrees, Walk, table, HasClaimed
<1>8. KernelHoldsHead'
  BY <1>3, <1>6 DEF QueueInv, KernelHoldsHead, Walk, table, InDispatch, HasClaimed
<1>9. TypeOK'
  BY <1>3 DEF QueueInv, TypeOK, Walk, table, InDispatch
<1> QED BY <1>1, <1>2, <1>7, <1>8, <1>9 DEF StepIsSound, QueueInv, IsQueue, Lists

LEMMA LinkStep == QueueInv /\ Link => StepIsSound
<1> SUFFICES ASSUME QueueInv, Link PROVE StepIsSound
  OBVIOUS
<1>0. PICK n \in 0 .. MAX_QUEUE_LENGTH : \E L \in Lists(n) : IsList(L, n) /\ Agrees(L, n)
  BY DEF QueueInv, IsQueue
<1>1. PICK L \in Lists(n) : IsList(L, n) /\ Agrees(L, n)
  BY <1>0
<1>2. /\ pc = "link" /\ pc' \in {"run", "unlink"} /\ i' = i /\ masked' = FALSE /\ oops' = oops
      /\ reserved' = reserved /\ func' = func /\ current' = current /\ enqueued' = enqueued
  BY DEF Link, At, locals
<1>3. /\ i \in Slot /\ func[i] = "schedEvaluate" /\ next[i] = NULL /\ next[last] = NULL
      /\ \A k \in 1 .. n : L[k] # i /\ L[k] \in Slot
  BY <1>1, <1>2 DEF QueueInv, KernelHoldsHead, Agrees, HasClaimed, Lists
<1>4. n # 0 /\ n \in 1 .. n /\ last = L[n]
  <2>1. PICK k \in 1 .. n : last = L[k]
    BY <1>1, <1>2 DEF Agrees
  <2>2. k = n
    <3>1. k # n => k + 1 \in 1 .. n
      BY DispatchQueueAssumption
    <3>2. k # n => next[last] = L[k + 1]
      BY <1>1, <2>1 DEF IsList
    <3> QED BY <1>3, <3>1, <3>2, NothingIsNothing
  <2> QED BY <2>1, <2>2, DispatchQueueAssumption
<1>5. next \in [Slot -> Slot \cup {NULL}] /\ next' = [next EXCEPT ![last] = i]
  BY DEF QueueInv, TypeOK, Link
<1>6. next'[i] = NULL /\ next'[L[n]] = i
  BY <1>3, <1>4, <1>5
<1>7. \A k \in 1 .. n : k # n => next'[L[k]] = next[L[k]]
  BY <1>1, <1>3, <1>4, <1>5 DEF IsList
<1>8. func'[i] \in Function
  BY <1>2, <1>3, DispatchQueueAssumption
<1>c. PICK c \in Slot : c = i
  BY <1>3
<1> DEFINE M == Appended(L, n, c)
<1>9. n + 1 \in 0 .. MAX_QUEUE_LENGTH /\ M \in Lists(n + 1) /\ IsList(M, n + 1)'
  <2>1. \A k \in 1 .. n : L[k] # c
    BY <1>3, <1>c
  <2>2. func'[c] \in Function /\ next'[c] = NULL
    BY <1>6, <1>8, <1>c
  <2>3. IF n = 0 THEN current' = c ELSE current' = current /\ next'[L[n]] = c
    BY <1>2, <1>4, <1>6, <1>c
  <2> QED BY <1>1, <1>2, <1>7, <2>1, <2>2, <2>3, ListGrows DEF QueueInv
<1>10. QueueStep
  <2>1. Puts(func'[c])
    BY <1>1, <1>2, <1>9, TasksGrow
  <2> QED BY <1>8, <1>c, <2>1 DEF QueueStep
<1>11. Agrees(M, n + 1)'
  <2>1. ASSUME NEW s \in Slot
        PROVE  (\E k \in 1 .. n + 1 : s = M[k]) <=> (\E k \in 1 .. n : s = L[k]) \/ s = c
    <3>1. M[n + 1] = c /\ n + 1 \in 1 .. n + 1 /\ \A k \in 1 .. n : M[k] = L[k] /\ k \in 1 .. n + 1
      BY DispatchQueueAssumption DEF Appended
    <3>2. \A k \in 1 .. n + 1 : k = n + 1 \/ k \in 1 .. n
      BY DispatchQueueAssumption
    <3> HIDE DEF M
    <3> QED BY <3>1, <3>2
  <2>2. \A s \in Slot : reserved[s] <=> (\E k \in 1 .. n : s = L[k]) \/ s = c
    BY <1>1, <1>2, <1>c DEF Agrees, HasClaimed
  <2> HIDE DEF M
  <2> QED BY <1>2, <2>1, <2>2 DEF Agrees, HasClaimed
<1>12. KernelHoldsHead'
  BY <1>2 DEF QueueInv, KernelHoldsHead, InDispatch, HasClaimed
<1>13. TypeOK'
  BY <1>2, <1>3, <1>5, <1>4 DEF QueueInv, TypeOK, InDispatch
<1> HIDE DEF M
<1> QED BY <1>9, <1>10, <1>11, <1>12, <1>13 DEF StepIsSound, QueueInv, IsQueue, Lists

LEMMA UnlinkStep == QueueInv /\ Unlink => StepIsSound
<1> SUFFICES ASSUME QueueInv, Unlink PROVE StepIsSound
  OBVIOUS
<1>0. PICK n \in 0 .. MAX_QUEUE_LENGTH : \E L \in Lists(n) : IsList(L, n) /\ Agrees(L, n)
  BY DEF QueueInv, IsQueue
<1>1. PICK L \in Lists(n) : IsList(L, n) /\ Agrees(L, n)
  BY <1>0
<1>2. /\ pc = "unlink" /\ pc' = "fetch" /\ masked' = masked /\ i' = i /\ oops' = oops
      /\ oops = "none"
  BY DEF Unlink, At, locals
<1>3. n # 0 /\ 1 \in 1 .. n /\ enqueued = L[1] /\ enqueued \in Slot
  BY <1>1, <1>2, HeadIsDispatched
<1>4. /\ reserved \in [Slot -> BOOLEAN] /\ func \in [Slot -> Function \cup {DFE_NONE}]
      /\ next \in [Slot -> Slot \cup {NULL}]
      /\ reserved' = [reserved EXCEPT ![enqueued] = FALSE]
      /\ func' = [func EXCEPT ![enqueued] = DFE_NONE]
      /\ next' = [next EXCEPT ![enqueued] = NULL]
      /\ current' = next[L[1]]
  BY <1>3 DEF QueueInv, TypeOK, Unlink, GivesSlotBack
<1>5. \A k \in 1 .. n : L[k] \in Slot /\ (k # 1 => L[k] # enqueued)
  BY <1>1, <1>3 DEF IsList, Lists
<1>6. \A k \in 1 .. n : k # 1 => next'[L[k]] = next[L[k]] /\ func'[L[k]] = func[L[k]]
  BY <1>4, <1>5
<1> DEFINE M == Rest(L, n)
<1>7. n - 1 \in 0 .. MAX_QUEUE_LENGTH /\ M \in Lists(n - 1) /\ IsList(M, n - 1)'
  BY <1>1, <1>3, <1>4, <1>6, ListShrinks
<1>8. QueueStep
  BY <1>1, <1>3, <1>6, <1>7, TasksShrink DEF QueueStep
<1>9. Agrees(M, n - 1)'
  <2>1. ASSUME NEW s \in Slot
        PROVE  (\E k \in 1 .. n - 1 : s = M[k]) <=> (\E k \in 1 .. n : s = L[k]) /\ s # enqueued
    <3>1. \A k \in 1 .. n - 1 : M[k] = L[k + 1] /\ k + 1 \in 1 .. n /\ k + 1 # 1
      BY DispatchQueueAssumption DEF Rest
    <3>2. \A k \in 1 .. n : k # 1 => k - 1 \in 1 .. n - 1 /\ k - 1 + 1 = k
      BY DispatchQueueAssumption
    <3> HIDE DEF M
    <3>3. ASSUME NEW k \in 1 .. n, s = L[k], s # enqueued
          PROVE  \E j \in 1 .. n - 1 : s = M[j]
      <4>1. k - 1 \in 1 .. n - 1 /\ k - 1 + 1 = k
        BY <1>3, <3>2, <3>3
      <4>2. M[k - 1] = s
        BY <3>1, <3>3, <4>1
      <4> QED BY <4>1, <4>2
    <3>4. ASSUME NEW k \in 1 .. n - 1, s = M[k]
          PROVE  (\E j \in 1 .. n : s = L[j]) /\ s # enqueued
      BY <1>5, <3>1, <3>4
    <3> QED BY <3>3, <3>4
  <2>2. \A s \in Slot : reserved'[s] <=> reserved[s] /\ s # enqueued
    BY <1>3, <1>4
  <2> HIDE DEF M
  <2> QED BY <1>1, <1>2, <2>1, <2>2 DEF Agrees, HasClaimed
<1>10. KernelHoldsHead'
  BY <1>2 DEF QueueInv, KernelHoldsHead, InDispatch, HasClaimed
<1>11. TypeOK'
  <2>1. next[L[1]] \in Slot \cup {NULL}
    BY <1>3, <1>4
  <2> QED BY <1>2, <1>4, <2>1 DEF QueueInv, TypeOK
<1> HIDE DEF M
<1> QED BY <1>7, <1>8, <1>9, <1>10, <1>11 DEF StepIsSound, QueueInv, IsQueue, Lists

\* An interrupt finds the kernel outside of any dispatch, or in one with interrupts
\* enabled, and there before its test of a slot or after its claim, and before the
\* walk has come to the end: the slot it takes is another, and the end is the end.
LEMMA InterruptStep ==
  ASSUME NEW f \in Function
  PROVE  QueueInv /\ ~Exposed /\ Interrupt(f) => StepIsSound
<1> SUFFICES ASSUME QueueInv, ~Exposed, Interrupt(f) PROVE StepIsSound
  OBVIOUS
<1>0. PICK n \in 0 .. MAX_QUEUE_LENGTH : \E L \in Lists(n) : IsList(L, n) /\ Agrees(L, n)
  BY DEF QueueInv, IsQueue
<1>1. PICK L \in Lists(n) : IsList(L, n) /\ Agrees(L, n)
  BY <1>0
<1>2. /\ ~masked /\ DispatchAtOnce(f)
      /\ pc' = pc /\ masked' = masked /\ enqueued' = enqueued /\ i' = i /\ last' = last
  BY DEF Interrupt, locals
<1>3. pc \notin {"claim", "link"}
  BY <1>2 DEF QueueInv, KernelHoldsHead, InDispatch, Exposed
<1>4. HasClaimed' <=> HasClaimed
  BY <1>2 DEF HasClaimed
<1>5. CASE oops' = "capacity" /\ UNCHANGED table
  <2>1. IsList(L, n)' /\ QueueStep
    BY <1>1, <1>5, TableIsLeftAlone
  <2>2. Agrees(L, n)'
    BY <1>1, <1>4, <1>5, <1>2 DEF Agrees, table
  <2>3. KernelHoldsHead'
    BY <1>2, <1>4, <1>5 DEF QueueInv, KernelHoldsHead, table
  <2>4. TypeOK'
    BY <1>2, <1>5 DEF QueueInv, TypeOK, table
  <2> QED BY <2>1, <2>2, <2>3, <2>4 DEF StepIsSound, QueueInv, IsQueue, Lists
<1>6. ASSUME NEW s \in Slot, First(s), PutAtEnd(s),
             reserved' = [reserved EXCEPT ![s] = TRUE],
             func' = [func EXCEPT ![s] = f], oops' = oops
      PROVE  StepIsSound
  <2>1. /\ reserved \in [Slot -> BOOLEAN] /\ func \in [Slot -> Function \cup {DFE_NONE}]
        /\ next \in [Slot -> Slot \cup {NULL}]
    BY DEF QueueInv, TypeOK
  <2>2. \A k \in 1 .. n : L[k] \in Slot /\ L[k] # s
    BY <1>1, <1>6 DEF First, Free, Agrees, Lists
  <2>c. HasClaimed => i \in Slot /\ i # s /\ \A k \in 1 .. n : L[k] # i
    BY <1>1, <1>6 DEF First, Free, Agrees, QueueInv, KernelHoldsHead
  <2>3. /\ next' \in [Slot -> Slot \cup {NULL}] /\ next'[s] = NULL
        /\ IF n = 0 THEN current' = s ELSE current' = current /\ next'[L[n]] = s
        /\ \A k \in 1 .. n : k # n => next'[L[k]] = next[L[k]]
        /\ pc # "fetch" => current' = current
        /\ HasClaimed => next'[i] = next[i]
    <3>1. CASE current = NULL
      <4>1. n = 0
        <5>1. n # 0 => 1 \in 1 .. n /\ current = L[1]
          BY <1>1, DispatchQueueAssumption DEF IsList
        <5> QED BY <2>2, <3>1, <5>1, NothingIsNothing
      <4>2. current' = s /\ next' = [next EXCEPT ![s] = NULL]
        BY <1>6, <3>1 DEF PutAtEnd
      <4>3. pc = "fetch"
        BY <3>1 DEF QueueInv, KernelHoldsHead
      <4> QED BY <2>1, <2>2, <4>1, <4>2, <4>3 DEF HasClaimed
    <3>2. CASE current # NULL
      <4>1. n # 0
        BY <1>1, <3>2 DEF IsList
      <4>2. PICK e \in Entries : /\ next[e] = NULL
                                 /\ next' = [next EXCEPT ![s] = NULL, ![e] = s]
                                 /\ current' = current
        BY <1>6, <3>2 DEF PutAtEnd
      <4>3. PICK k \in 1 .. n : e = L[k]
        BY <1>1, <4>2, ListIsRead DEF ListReads
      <4>4. k = n
        <5>1. k # n => k + 1 \in 1 .. n
          BY DispatchQueueAssumption
        <5>2. k # n => next[e] = L[k + 1]
          BY <1>1, <4>3 DEF IsList
        <5> QED BY <2>2, <4>2, <5>1, <5>2, NothingIsNothing
      <4>5. \A j \in 1 .. n : j # n => L[j] # L[n]
        BY <1>1, <4>4 DEF IsList
      <4>6. next' = [next EXCEPT ![s] = NULL, ![L[n]] = s] /\ L[n] \in Slot /\ L[n] # s
        BY <2>2, <4>2, <4>3, <4>4
      <4>7. next' \in [Slot -> Slot \cup {NULL}] /\ next'[s] = NULL /\ next'[L[n]] = s
        BY <2>1, <4>6
      <4>8. ASSUME NEW j \in 1 .. n, j # n
            PROVE  next'[L[j]] = next[L[j]]
        <5>1. L[j] \in Slot /\ L[j] # s /\ L[j] # L[n]
          BY <2>2, <4>5, <4>8
        <5> QED BY <2>1, <4>6, <5>1
      <4>9. HasClaimed => next'[i] = next[i]
        <5>1. HasClaimed => i \in Slot /\ i # s /\ i # L[n]
          BY <2>c, <4>4
        <5> QED BY <2>1, <4>6, <5>1
      <4> QED BY <4>1, <4>2, <4>7, <4>8, <4>9
    <3> QED BY <3>1, <3>2
  <2>4. func'[s] = f /\ \A k \in 1 .. n : func'[L[k]] = func[L[k]]
    BY <1>6, <2>1, <2>2
  <2> DEFINE M == Appended(L, n, s)
  <2>5. n + 1 \in 0 .. MAX_QUEUE_LENGTH /\ M \in Lists(n + 1) /\ IsList(M, n + 1)'
    BY <1>1, <2>2, <2>3, <2>4, ListGrows DEF QueueInv
  <2>6. QueueStep
    <3>1. Puts(func'[s])
      BY <1>1, <2>4, <2>5, TasksGrow
    <3> QED BY <2>4, <3>1 DEF QueueStep
  <2>7. Agrees(M, n + 1)'
    <3>1. ASSUME NEW t \in Slot
          PROVE  (\E k \in 1 .. n + 1 : t = M[k]) <=> (\E k \in 1 .. n : t = L[k]) \/ t = s
      <4>1. M[n + 1] = s /\ n + 1 \in 1 .. n + 1 /\ \A k \in 1 .. n : M[k] = L[k] /\ k \in 1 .. n + 1
        BY DispatchQueueAssumption DEF Appended
      <4>2. \A k \in 1 .. n + 1 : k = n + 1 \/ k \in 1 .. n
        BY DispatchQueueAssumption
      <4> HIDE DEF M
      <4> QED BY <4>1, <4>2
    <3>2. \A t \in Slot : reserved'[t] <=> reserved[t] \/ t = s
      BY <1>6, <2>1
    <3>3. \A t \in Slot :
            reserved[t] <=> (\E k \in 1 .. n : t = L[k]) \/ (HasClaimed /\ t = i)
      BY <1>1 DEF Agrees
    <3>4. \A k \in 1 .. n + 1 : M[k] \in Slot
      BY <2>5 DEF Lists
    <3>5. HasClaimed => \A k \in 1 .. n + 1 : M[k] # i
      BY <2>c, <3>1
    <3>6. pc = "walk" => \E k \in 1 .. n + 1 : last = M[k]
      <4> SUFFICES ASSUME pc = "walk" PROVE \E k \in 1 .. n + 1 : last = M[k]
        OBVIOUS
      <4>1. PICK k \in 1 .. n : last = L[k]
        BY <1>1 DEF Agrees
      <4>2. k \in 1 .. n + 1 /\ M[k] = L[k]
        BY DispatchQueueAssumption DEF Appended
      <4> HIDE DEF M
      <4> QED BY <4>1, <4>2
    <3> HIDE DEF M
    <3> QED BY <1>2, <1>3, <1>4, <3>1, <3>2, <3>3, <3>5, <3>6 DEF Agrees
  <2>8. KernelHoldsHead'
    <3>1. pc # "fetch" => current # NULL /\ enqueued = current
      BY DEF QueueInv, KernelHoldsHead
    <3>2. pc # "fetch" => func'[enqueued] = func[enqueued]
      BY <1>1, <2>4, HeadIsDispatched
    <3>3. HasClaimed => func'[i] = func[i] /\ next'[i] = next[i]
      BY <2>3, <2>c, <1>6, <2>1
    <3> QED
      BY <1>2, <1>3, <1>4, <2>3, <2>c, <3>1, <3>2, <3>3
      DEF QueueInv, KernelHoldsHead, InDispatch, HasClaimed
  <2>9. TypeOK'
    <3>1. current' \in Slot \cup {NULL}
      BY <2>3 DEF QueueInv, TypeOK
    <3>2. /\ reserved' \in [Slot -> BOOLEAN] /\ func' \in [Slot -> Function \cup {DFE_NONE}]
      BY <1>6, <2>1
    <3> QED BY <1>2, <1>6, <2>3, <3>1, <3>2 DEF QueueInv, TypeOK
  <2> HIDE DEF M
  <2> QED BY <2>5, <2>6, <2>7, <2>8, <2>9 DEF StepIsSound, QueueInv, IsQueue, Lists
<1> QED BY <1>2, <1>5, <1>6 DEF DispatchAtOnce

LEMMA StutterIsSound == QueueInv /\ UNCHANGED vars => StepIsSound
<1> SUFFICES ASSUME QueueInv, UNCHANGED vars PROVE StepIsSound
  OBVIOUS
<1>0. PICK n \in 0 .. MAX_QUEUE_LENGTH : \E L \in Lists(n) : IsList(L, n) /\ Agrees(L, n)
  BY DEF QueueInv, IsQueue
<1>1. PICK L \in Lists(n) : IsList(L, n) /\ Agrees(L, n)
  BY <1>0
<1>2. IsList(L, n)' /\ QueueStep
  BY <1>1, TableIsLeftAlone DEF vars
<1>3. Agrees(L, n)'
  BY <1>1 DEF Agrees, vars, table, locals, HasClaimed
<1>4. KernelHoldsHead'
  BY DEF QueueInv, KernelHoldsHead, vars, table, locals, InDispatch, HasClaimed
<1>5. TypeOK'
  BY DEF QueueInv, TypeOK, vars, table, locals
<1> QED BY <1>2, <1>3, <1>4, <1>5 DEF StepIsSound, QueueInv, IsQueue, Lists

LEMMA EmptyAtFirst == Init => QueueInv /\ Tasks = <<>>
<1> SUFFICES ASSUME Init PROVE QueueInv /\ Tasks = <<>>
  OBVIOUS
<1> DEFINE L == [k \in 1 .. 0 |-> NULL]
<1>1. 0 \in 0 .. MAX_QUEUE_LENGTH /\ L \in Lists(0)
  BY DispatchQueueAssumption DEF Lists
<1>2. IsList(L, 0)
  BY DEF Init, IsList
<1>3. Agrees(L, 0)
  BY DEF Init, Agrees, HasClaimed
<1>4. TypeOK /\ KernelHoldsHead
  <2>1. i \in 0 .. MAX_QUEUE_LENGTH
    BY DispatchQueueAssumption DEF Init
  <2>2. TypeOK
    BY <2>1 DEF Init, TypeOK
  <2>3. KernelHoldsHead
    BY DEF Init, KernelHoldsHead, InDispatch, HasClaimed
  <2> QED BY <2>2, <2>3
<1>5. Tasks = [k \in 1 .. 0 |-> func[L[k]]]
  <2> HIDE DEF L
  <2> QED BY <1>1, <1>2, ListIsRead DEF ListReads
<1>6. Tasks = <<>>
  BY <1>5
<1> HIDE DEF L
<1> QED BY <1>1, <1>2, <1>3, <1>4, <1>6 DEF QueueInv, IsQueue

LEMMA EveryStepIsSound == QueueInv /\ [SteadyNext]_vars => StepIsSound
<1> SUFFICES ASSUME QueueInv, [SteadyNext]_vars PROVE StepIsSound
  OBVIOUS
<1>1. CASE Fetch
  BY <1>1, FetchStep
<1>2. CASE Check
  BY <1>2, CheckStep
<1>3. CASE FunctionReturns
  BY <1>3, FunctionReturnsStep
<1>4. CASE FunctionDispatches
  BY <1>4, FunctionDispatchesStep
<1>5. CASE Scan
  BY <1>5, ScanStep
<1>6. CASE Claim
  BY <1>6, ClaimStep
<1>7. CASE Fill
  BY <1>7, FillStep
<1>8. CASE Walk
  BY <1>8, WalkStep
<1>9. CASE Link
  BY <1>9, LinkStep
<1>10. CASE Unlink
  BY <1>10, UnlinkStep
<1>11. CASE ~Exposed /\ \E f \in Function : Interrupt(f)
  BY <1>11, InterruptStep
<1>12. CASE UNCHANGED vars
  BY <1>12, StutterIsSound
<1> QED
  BY <1>1, <1>2, <1>3, <1>4, <1>5, <1>6, <1>7, <1>8, <1>9, <1>10, <1>11, <1>12
  DEF SteadyNext, KernelStep

-----------------------------------------------------------------------------
(* The theorems.                                                           *)

\* The slots of the list and the kernel's place in it, wherever interrupts come
\* but inside a window of an unmasked dispatch (queue.c:69-103).
THEOREM QueueStaysLinked ==
  SteadySpec => []QueueInv
<1>1. Init => QueueInv
  BY EmptyAtFirst
<1>2. QueueInv /\ [SteadyNext]_vars => QueueInv'
  BY EveryStepIsSound DEF StepIsSound
<1> QED BY <1>1, <1>2, PTL DEF SteadySpec

\* k_que_start never meets "Enqueued item disabled" nor "Unexpected queued
\* function type", unless an interrupt comes inside a window of an unmasked dispatch.
THEOREM FetchedStaysEnabled ==
  SteadySpec => []FetchedIsEnabled
<1>1. QueueInv => FetchedIsEnabled
  BY DEF QueueInv, TypeOK, FetchedIsEnabled
<1> QED BY <1>1, QueueStaysLinked, PTL

\* No slot of the table leaks, none is in the list without being reserved, and the
\* list has an end, whenever no dispatch of the kernel is under way and none was
\* interrupted inside a window.
THEOREM ReservedStaysLinked ==
  SteadySpec => []ReservedIsLinked
<1>1. QueueInv => ReservedIsLinked
  <2> SUFFICES ASSUME QueueInv, pc \notin {"fill", "walk", "link"}
               PROVE  HasEnd /\ \A s \in Slot : reserved[s] <=> s \in Entries
    BY DEF ReservedIsLinked
  <2>1. PICK n \in 0 .. MAX_QUEUE_LENGTH : \E L \in Lists(n) : IsList(L, n) /\ Agrees(L, n)
    BY DEF QueueInv, IsQueue
  <2>2. PICK L \in Lists(n) : IsList(L, n) /\ Agrees(L, n)
    BY <2>1
  <2>3. HasEnd /\ Entries = {L[k] : k \in 1 .. n}
    BY <2>2, ListIsRead DEF ListReads
  <2> QED BY <2>2, <2>3 DEF Agrees, HasClaimed
<1> QED BY <1>1, QueueStaysLinked, PTL

\* The table is a FIFO of functions: whatever interrupts dispatch between two steps
\* of the kernel, but inside a window of an unmasked dispatch, each function runs
\* once, in the order it was queued in.
THEOREM TableIsQueue ==
  SteadySpec => ImplementsQueue
<1>1. Init => Queue!Init
  BY EmptyAtFirst DEF Queue!Init
<1>2. QueueInv /\ [SteadyNext]_vars => [Queue!Next]_Tasks
  <2>1. QueueStep => [Queue!Next]_Tasks
    BY Zenon DEF QueueStep, Puts, IsDone, Queue!Next, Queue!Done, Queue!Put
  <2> QED BY <2>1, EveryStepIsSound, Zenon DEF StepIsSound
<1> QED
  BY <1>1, <1>2, QueueStaysLinked, PTL DEF SteadySpec, ImplementsQueue, Queue!Spec

-----------------------------------------------------------------------------

\* Were every dispatch of the kernel in a critical section, no interrupt would come
\* inside a window: the condition is what the functions that do not mask cost.
THEOREM MaskedIsSteady ==
  ASSUME Function \cap Unmasked = {}
  PROVE  Spec => SteadySpec
<1>1. QueueInv => ~Exposed
  <2> SUFFICES ASSUME QueueInv, Exposed PROVE FALSE
    OBVIOUS
  <2>1. PICK n \in 0 .. MAX_QUEUE_LENGTH : \E L \in Lists(n) : IsList(L, n) /\ Agrees(L, n)
    BY DEF QueueInv, IsQueue
  <2>2. PICK L \in Lists(n) : IsList(L, n) /\ Agrees(L, n)
    BY <2>1
  <2>3. func[enqueued] \in Function
    BY <2>2, HeadIsDispatched DEF Exposed
  <2> QED BY <2>3 DEF Exposed
<1>2. QueueInv /\ [Next]_vars => [SteadyNext]_vars
  BY <1>1 DEF Next, SteadyNext
<1>3. QueueInv /\ [Next]_vars => QueueInv'
  BY <1>2, EveryStepIsSound DEF StepIsSound
<1>4. Init => QueueInv
  BY EmptyAtFirst
<1> QED BY <1>2, <1>3, <1>4, PTL DEF Spec, SteadySpec

=============================================================================
