--------------------------- MODULE WorkQueueProofs ---------------------------
(***************************************************************************)
(* The safety of WorkQueue for every set of keys, workers and listeners    *)
(* and every bound: its types, the agreement of the queue's containers     *)
(* with the workers, the exclusion that follows from it, the bookkeeping   *)
(* of the failure counts, and that every step is one of KeyedWork.         *)
(***************************************************************************)
EXTENDS WorkQueue, FiniteSetTheorems, TLAPS

\* What Append and Tail do to the elements of a sequence.
LEMMA AppendElements ==
    ASSUME NEW S, NEW s \in Seq(S), NEW e \in S
    PROVE  /\ Append(s, e) \in Seq(S)
           /\ ToSet(Append(s, e)) = ToSet(s) \cup {e}
           /\ IsInjective(s) /\ e \notin ToSet(s) => IsInjective(Append(s, e))
  <1> DEFINE t == Append(s, e)
  <1>1. /\ t \in Seq(S)
        /\ Len(t) = Len(s) + 1
        /\ \A i \in 1..Len(s) : t[i] = s[i]
        /\ t[Len(s) + 1] = e
    OBVIOUS
  <1>2. DOMAIN s = 1..Len(s) /\ DOMAIN t = 1..(Len(s) + 1) /\ Len(s) \in Nat
    BY <1>1
  <1> HIDE DEF t
  <1>3. ToSet(t) = ToSet(s) \cup {e}
    <2>1. ToSet(t) \subseteq ToSet(s) \cup {e}
      BY <1>1, <1>2 DEF ToSet
    <2>2. e \in ToSet(t)
      BY <1>1, <1>2 DEF ToSet
    <2>3. ToSet(s) \subseteq ToSet(t)
      BY <1>1, <1>2 DEF ToSet
    <2>4. QED
      BY <2>1, <2>2, <2>3
  <1>4. ASSUME IsInjective(s), e \notin ToSet(s) PROVE IsInjective(t)
    <2>1. \A i \in 1..Len(s) : s[i] # e
      BY <1>2, <1>4 DEF ToSet
    <2>2. \A i, j \in 1..Len(s) : s[i] = s[j] => i = j
      BY <1>2, <1>4 DEF IsInjective
    <2>3. SUFFICES ASSUME NEW i \in 1..(Len(s) + 1), NEW j \in 1..(Len(s) + 1), t[i] = t[j]
                   PROVE  i = j
      BY <1>2 DEF IsInjective
    <2>4. QED
      BY <1>1, <1>2, <2>1, <2>2, <2>3
  <1>5. QED
    BY <1>1, <1>3, <1>4 DEF t

LEMMA TailElements ==
    ASSUME NEW S, NEW s \in Seq(S), s # <<>>
    PROVE  /\ Head(s) \in S
           /\ Tail(s) \in Seq(S)
           /\ Len(Tail(s)) = Len(s) - 1
           /\ ToSet(s) = ToSet(Tail(s)) \cup {Head(s)}
           /\ IsInjective(s) => IsInjective(Tail(s)) /\ Head(s) \notin ToSet(Tail(s))
  <1> DEFINE t == Tail(s)
             h == Head(s)
  <1>1. /\ Len(s) \in Nat /\ Len(s) >= 1
        /\ h = s[1] /\ h \in S
        /\ t \in Seq(S)
        /\ Len(t) = Len(s) - 1
        /\ \A i \in 1..(Len(s) - 1) : t[i] = s[i + 1]
    OBVIOUS
  <1>2. DOMAIN s = 1..Len(s) /\ DOMAIN t = 1..(Len(s) - 1)
    BY <1>1
  <1> HIDE DEF t, h
  <1>3. ToSet(s) = ToSet(t) \cup {h}
    <2>1. ASSUME NEW i \in 1..Len(s) PROVE s[i] \in ToSet(t) \cup {h}
      <3>1. CASE i = 1
        BY <1>1, <3>1
      <3>2. CASE i # 1
        <4>1. i - 1 \in 1..(Len(s) - 1)
          BY <1>1, <3>2
        <4>2. t[i - 1] = s[i]
          BY <1>1, <4>1
        <4>3. QED
          BY <1>2, <4>1, <4>2 DEF ToSet
      <3>3. QED
        BY <3>1, <3>2
    <2>2. ASSUME NEW i \in 1..(Len(s) - 1) PROVE t[i] \in ToSet(s)
      <3>1. i + 1 \in 1..Len(s)
        BY <1>1
      <3>2. QED
        BY <1>1, <1>2, <3>1 DEF ToSet
    <2>3. h \in ToSet(s)
      BY <1>1, <1>2 DEF ToSet
    <2>4. ToSet(s) \subseteq ToSet(t) \cup {h}
      BY <1>2, <2>1 DEF ToSet
    <2>5. ToSet(t) \subseteq ToSet(s)
      BY <1>2, <2>2 DEF ToSet
    <2>6. QED
      BY <2>3, <2>4, <2>5
  <1>4. ASSUME IsInjective(s) PROVE IsInjective(t) /\ h \notin ToSet(t)
    <2>1. \A i, j \in 1..Len(s) : s[i] = s[j] => i = j
      BY <1>2, <1>4 DEF IsInjective
    <2>2. IsInjective(t)
      <3>1. SUFFICES ASSUME NEW i \in 1..(Len(s) - 1), NEW j \in 1..(Len(s) - 1), t[i] = t[j]
                     PROVE  i = j
        BY <1>2 DEF IsInjective
      <3>2. i + 1 \in 1..Len(s) /\ j + 1 \in 1..Len(s)
        BY <1>1
      <3>3. s[i + 1] = s[j + 1]
        BY <1>1, <3>1
      <3>4. QED
        BY <2>1, <3>2, <3>3
    <2>3. ASSUME NEW i \in 1..(Len(s) - 1) PROVE t[i] # h
      <3>1. i + 1 \in 1..Len(s) /\ 1 \in 1..Len(s) /\ i + 1 # 1
        BY <1>1
      <3>2. QED
        BY <1>1, <2>1, <3>1
    <2>4. QED
      BY <1>2, <2>2, <2>3 DEF ToSet
  <1>5. QED
    BY <1>1, <1>3, <1>4 DEF t, h
-----------------------------------------------------------------------------
\* The queue operations in terms of the containers' elements.
LEMMA AddTypes ==
    ASSUME TypeOK, NEW k \in Keys, Add(k)
    PROVE  queue' \in Seq(Keys) /\ dirty' \subseteq Keys /\ processing' \subseteq Keys
  <1>1. CASE UNCHANGED queueVars
    BY <1>1 DEF TypeOK, queueVars
  <1>2. CASE /\ dirty' = dirty \cup {k}
             /\ queue' = IF k \in processing THEN queue ELSE Append(queue, k)
             /\ UNCHANGED processing
    BY <1>2, AppendElements DEF TypeOK
  <1>3. QED
    BY <1>1, <1>2 DEF Add

LEMMA DoneTypes ==
    ASSUME TypeOK, NEW k \in Keys, Done(k)
    PROVE  queue' \in Seq(Keys) /\ dirty' \subseteq Keys /\ processing' \subseteq Keys
  BY AppendElements DEF TypeOK, Done

\* Add keeps the queue equal to the dirty keys that nobody processes.
LEMMA AddKeepsQueue ==
    ASSUME TypeOK, ContainersAgree, NEW k \in Keys, Add(k)
    PROVE  /\ ToSet(queue') = dirty' \ processing'
           /\ IsInjective(queue')
           /\ processing' = processing
  <1>1. CASE ShuttingDown \/ k \in dirty
    BY <1>1 DEF Add, queueVars, ContainersAgree
  <1>2. CASE ~(ShuttingDown \/ k \in dirty) /\ k \in processing
    BY <1>2 DEF Add, queueVars, ContainersAgree
  <1>3. CASE ~(ShuttingDown \/ k \in dirty) /\ k \notin processing
    <2>1. queue \in Seq(Keys) /\ k \notin ToSet(queue)
      BY <1>3 DEF TypeOK, ContainersAgree
    <2>2. queue' = Append(queue, k) /\ dirty' = dirty \cup {k} /\ processing' = processing
      BY <1>3 DEF Add
    <2>3. QED
      BY <1>3, <2>1, <2>2, AppendElements DEF ContainersAgree
  <1>4. QED
    BY <1>1, <1>2, <1>3

\* So does Done, for a key that is being processed.
LEMMA DoneKeepsQueue ==
    ASSUME TypeOK, ContainersAgree, NEW k \in Keys, k \in processing, Done(k)
    PROVE  /\ ToSet(queue') = dirty' \ processing'
           /\ IsInjective(queue')
  <1>1. queue \in Seq(Keys) /\ k \notin ToSet(queue)
    BY DEF TypeOK, ContainersAgree
  <1>2. CASE k \in dirty
    <2>1. queue' = Append(queue, k) /\ dirty' = dirty /\ processing' = processing \ {k}
      BY <1>2 DEF Done
    <2>2. QED
      BY <1>1, <1>2, <2>1, AppendElements DEF ContainersAgree
  <1>3. CASE k \notin dirty
    BY <1>3 DEF Done, ContainersAgree
  <1>4. QED
    BY <1>2, <1>3

\* A worker that holds a key holds one of Keys, and only it does.
LEMMA HeldKey ==
    ASSUME TypeOK, NEW w \in Workers, worker[w] # None
    PROVE  worker[w] \in Keys
  BY DEF TypeOK
-----------------------------------------------------------------------------
\* Every variable of the queue keeps its type (type correctness of the
\* queue, the delaying queue, the limiter and the workers).
THEOREM TypeCorrect == Spec => []TypeOK
  <1>1. Init => TypeOK
    BY WorkQueueAssumption DEF Init, TypeOK, Phases
  <1>2. TypeOK /\ [Next]_vars => TypeOK'
    <2> SUFFICES ASSUME TypeOK, [Next]_vars PROVE TypeOK'
      OBVIOUS
    <2> USE WorkQueueAssumption
    <2>1. ASSUME NEW p \in Producers, NEW k \in Keys, AddRateLimited(p, k) PROVE TypeOK'
      BY <2>1 DEF TypeOK, AddRateLimited, When, queueVars, processVars
    <2>2. ASSUME NEW p \in Producers, AddAfter(p) PROVE TypeOK'
      <3>1. producer[p] \in Keys
        BY <2>2 DEF TypeOK, AddAfter
      <3>2. inbox' \in Seq(Keys) /\ Len(inbox') <= ChanCap
        <4>1. CASE UNCHANGED inbox
          BY <4>1 DEF TypeOK
        <4>2. CASE Len(inbox) < ChanCap /\ inbox' = Append(inbox, producer[p])
          BY <3>1, <4>2 DEF TypeOK
        <4>3. QED
          BY <2>2, <4>1, <4>2 DEF AddAfter
      <3>3. producer' \in [Producers -> Keys \cup {None}]
        BY <2>2 DEF TypeOK, AddAfter
      <3>4. QED
        BY <2>2, <3>2, <3>3 DEF TypeOK, AddAfter, queueVars, processVars
    <2>3. CASE Receive
      <3>1. Head(inbox) \in Keys /\ inbox' \in Seq(Keys) /\ Len(inbox') <= ChanCap
        BY <2>3, TailElements DEF TypeOK, Receive
      <3>2. queue' \in Seq(Keys) /\ dirty' \subseteq Keys /\ processing' \subseteq Keys
        BY <2>3, <3>1, AddTypes DEF TypeOK, Receive, queueVars
      <3>3. heap' \subseteq Keys
        BY <2>3, <3>1 DEF TypeOK, Receive
      <3>4. QED
        BY <2>3, <3>1, <3>2, <3>3 DEF TypeOK, Receive, processVars
    <2>4. ASSUME NEW k \in Keys, Fire(k) PROVE TypeOK'
      <3>1. queue' \in Seq(Keys) /\ dirty' \subseteq Keys /\ processing' \subseteq Keys
        BY <2>4, AddTypes DEF Fire
      <3>2. QED
        BY <2>4, <3>1 DEF TypeOK, Fire, processVars
    <2>5. CASE StartWorkers
      BY <2>5 DEF TypeOK, StartWorkers, Phases, queueVars, delayVars
    <2>6. ASSUME NEW w \in Workers, Get(w) PROVE TypeOK'
      <3>1. Head(queue) \in Keys /\ queue' \in Seq(Keys)
        BY <2>6, TailElements DEF TypeOK, Get
      <3>2. QED
        BY <2>6, <3>1 DEF TypeOK, Get, delayVars, processVars
    <2>7. ASSUME NEW w \in Workers, SyncOk(w) PROVE TypeOK'
      <3>1. worker[w] \in Keys
        BY <2>7, HeldKey DEF SyncOk
      <3>2. queue' \in Seq(Keys) /\ dirty' \subseteq Keys /\ processing' \subseteq Keys
        BY <2>7, <3>1, DoneTypes DEF SyncOk
      <3>3. failures' \in [Keys -> 0..MaxBackoff]
        BY <2>7 DEF TypeOK, SyncOk, Forget
      <3>4. QED
        BY <2>7, <3>2, <3>3 DEF TypeOK, SyncOk, delayVars, processVars
    <2>8. ASSUME NEW w \in Workers, SyncFails(w) PROVE TypeOK'
      <3>1. worker[w] \in Keys
        BY <2>8, HeldKey DEF SyncFails
      <3>2. queue' \in Seq(Keys) /\ dirty' \subseteq Keys /\ processing' \subseteq Keys
        BY <2>8, <3>1, DoneTypes DEF SyncFails
      <3>3. QED
        BY <2>8, <3>1, <3>2 DEF TypeOK, SyncFails, delayVars, processVars
    <2>9. CASE Signal \/ ShutDown \/ Exit \/ Crash
      BY <2>9 DEF TypeOK, Signal, ShutDown, Exit, Crash, Phases, queueVars, delayVars
    <2>10. CASE Restart
      BY <2>10 DEF TypeOK, Restart, Phases
    <2>11. CASE UNCHANGED vars
      BY <2>11 DEF TypeOK, vars, queueVars, delayVars, processVars
    <2>12. QED
      BY <2>1, <2>2, <2>3, <2>4, <2>5, <2>6, <2>7, <2>8, <2>9, <2>10, <2>11 DEF Next
  <1>3. QED
    BY <1>1, <1>2, PTL DEF Spec
-----------------------------------------------------------------------------
\* The inductive invariant: exclusion is not inductive alone, because Get
\* hands out whatever the queue holds; it is with the queue disjoint from
\* the processing set and the processing set equal to what workers hold.
IInv == TypeOK /\ ContainersAgree /\ KeyExclusion

\* Giving back the key of worker w, as both ends of a sync do.
LEMMA ReleaseKeepsInv ==
    ASSUME IInv, NEW w \in Workers, worker[w] # None,
           Done(worker[w]), worker' = [worker EXCEPT ![w] = None]
    PROVE  ContainersAgree' /\ KeyExclusion'
  <1>1. worker \in [Workers -> Keys \cup {None}] /\ worker[w] \in Keys
    BY HeldKey DEF IInv, TypeOK
  <1>2. worker[w] \in processing
    BY <1>1 DEF IInv, ContainersAgree
  <1>3. ToSet(queue') = dirty' \ processing' /\ IsInjective(queue')
    BY <1>1, <1>2, DoneKeepsQueue DEF IInv
  <1>4. processing' = processing \ {worker[w]}
    BY DEF Done
  <1>5. \A v \in Workers : v # w => worker'[v] = worker[v] /\ worker[v] # worker[w]
    BY <1>1 DEF IInv, KeyExclusion
  <1>6. processing' = {worker'[v] : v \in Workers} \ {None}
    BY <1>1, <1>4, <1>5 DEF IInv, ContainersAgree
  <1>7. KeyExclusion'
    BY <1>1, <1>5 DEF IInv, KeyExclusion
  <1>8. QED
    BY <1>3, <1>6, <1>7 DEF ContainersAgree

\* Adding a key leaves the workers alone.
LEMMA AddKeepsInv ==
    ASSUME IInv, NEW k \in Keys, Add(k), UNCHANGED worker
    PROVE  ContainersAgree' /\ KeyExclusion'
  <1>1. /\ ToSet(queue') = dirty' \ processing'
        /\ IsInjective(queue')
        /\ processing' = processing
    BY AddKeepsQueue DEF IInv
  <1>2. QED
    BY <1>1 DEF IInv, ContainersAgree, KeyExclusion

\* Taking the head of the queue.
LEMMA GetKeepsInv ==
    ASSUME IInv, NEW w \in Workers, Get(w)
    PROVE  ContainersAgree' /\ KeyExclusion'
  <1> DEFINE h == Head(queue)
  <1>1. /\ queue \in Seq(Keys) /\ queue # <<>>
        /\ queue' = Tail(queue) /\ dirty' = dirty \ {h}
        /\ processing' = processing \cup {h}
        /\ worker' = [worker EXCEPT ![w] = h]
        /\ worker[w] = None /\ worker \in [Workers -> Keys \cup {None}]
    BY DEF Get, IInv, TypeOK
  <1>2. /\ h \in Keys
        /\ ToSet(queue) = ToSet(Tail(queue)) \cup {h}
        /\ IsInjective(Tail(queue)) /\ h \notin ToSet(Tail(queue))
    BY <1>1, TailElements DEF IInv, ContainersAgree
  <1> HIDE DEF h
  <1>3. h \notin processing
    BY <1>2 DEF IInv, ContainersAgree
  <1>4. ToSet(queue') = dirty' \ processing'
    BY <1>1, <1>2 DEF IInv, ContainersAgree
  <1>5. worker'[w] = h /\ \A v \in Workers : v # w => worker'[v] = worker[v]
    BY <1>1
  <1>6. \A v \in Workers : worker[v] # h
    BY <1>2, <1>3, WorkQueueAssumption DEF IInv, ContainersAgree
  <1>7. processing' = {worker'[v] : v \in Workers} \ {None}
    <2>1. \A x : x \in {worker'[v] : v \in Workers} \ {None}
                 <=> x = h \/ x \in {worker[v] : v \in Workers} \ {None}
      BY <1>1, <1>2, <1>5, WorkQueueAssumption
    <2>2. QED
      BY <1>1, <2>1 DEF IInv, ContainersAgree
  <1>8. KeyExclusion'
    BY <1>5, <1>6 DEF IInv, KeyExclusion
  <1>9. QED
    BY <1>1, <1>2, <1>4, <1>7, <1>8 DEF ContainersAgree

\* The containers of the queue agree with each other and with the workers.
THEOREM QueueSafety == Spec => []QueueInv
  <1>1. Init => ContainersAgree /\ KeyExclusion
    BY DEF Init, ContainersAgree, KeyExclusion, ToSet, IsInjective
  <1>2. IInv /\ [Next]_vars => (ContainersAgree /\ KeyExclusion)'
    <2> SUFFICES ASSUME IInv, [Next]_vars PROVE ContainersAgree' /\ KeyExclusion'
      OBVIOUS
    <2>1. CASE UNCHANGED <<queueVars, worker>>
      BY <2>1 DEF IInv, ContainersAgree, KeyExclusion, queueVars
    <2>2. ASSUME NEW p \in Producers, NEW k \in Keys, AddRateLimited(p, k)
          PROVE ContainersAgree' /\ KeyExclusion'
      BY <2>1, <2>2 DEF AddRateLimited
    <2>3. ASSUME NEW p \in Producers, AddAfter(p) PROVE ContainersAgree' /\ KeyExclusion'
      BY <2>1, <2>3 DEF AddAfter
    <2>4. CASE Receive
      <3>1. Head(inbox) \in Keys
        BY <2>4, TailElements DEF IInv, TypeOK, Receive
      <3>2. CASE Add(Head(inbox))
        BY <2>4, <3>1, <3>2, AddKeepsInv DEF Receive
      <3>3. CASE UNCHANGED queueVars
        BY <2>1, <2>4, <3>3 DEF Receive
      <3>4. QED
        BY <2>4, <3>2, <3>3 DEF Receive
    <2>5. ASSUME NEW k \in Keys, Fire(k) PROVE ContainersAgree' /\ KeyExclusion'
      BY <2>5, AddKeepsInv DEF Fire
    <2>6. CASE StartWorkers \/ Signal \/ ShutDown \/ Exit \/ Crash
      BY <2>1, <2>6 DEF StartWorkers, Signal, ShutDown, Exit, Crash
    <2>7. ASSUME NEW w \in Workers, Get(w) PROVE ContainersAgree' /\ KeyExclusion'
      BY <2>7, GetKeepsInv
    <2>8. ASSUME NEW w \in Workers, SyncOk(w) PROVE ContainersAgree' /\ KeyExclusion'
      BY <2>8, ReleaseKeepsInv DEF SyncOk
    <2>9. ASSUME NEW w \in Workers, SyncFails(w) PROVE ContainersAgree' /\ KeyExclusion'
      BY <2>9, ReleaseKeepsInv DEF SyncFails
    <2>10. CASE Restart
      BY <2>10 DEF Restart, ContainersAgree, KeyExclusion, ToSet, IsInjective
    <2>11. CASE UNCHANGED vars
      BY <2>1, <2>11 DEF vars
    <2>12. QED
      BY <2>2, <2>3, <2>4, <2>5, <2>6, <2>7, <2>8, <2>9, <2>10, <2>11 DEF Next
  <1>3. QED
    BY <1>1, <1>2, TypeCorrect, PTL DEF Spec, IInv, QueueInv

\* Two workers never reconcile the same object at the same time.
COROLLARY OneWorkerPerKey == Spec => []KeyExclusion
  BY QueueSafety, PTL DEF QueueInv
-----------------------------------------------------------------------------
\* What BackoffTracked says of one key.
Remembered(k) ==
    \/ Requested(k)
    \/ k \in processing \cup errored
    \/ \E p \in Producers : producer[p] = k

Open == phase \in {"syncing", "running", "stopping"}

\* While the queue is open, Add leaves its key dirty.
LEMMA AddRequests ==
    ASSUME NEW k, Open, Add(k)
    PROVE  k \in dirty' /\ dirty \subseteq dirty' /\ processing' = processing
  <1>1. ~ShuttingDown
    BY DEF Open, ShuttingDown
  <1>2. QED
    BY <1>1 DEF Add, queueVars

\* Only a finished sync makes a key forgotten, and then its count is zero.
THEOREM BackoffIsForgotten == Spec => []BackoffTracked
  <1>1. Init => BackoffTracked
    BY DEF Init, BackoffTracked
  <1>2. TypeOK /\ BackoffTracked /\ [Next]_vars => BackoffTracked'
    <2> SUFFICES ASSUME TypeOK, BackoffTracked, [Next]_vars,
                        NEW k \in Keys, failures'[k] > 0, Open'
                 PROVE  Remembered(k)'
      BY DEF BackoffTracked, Remembered, Open
    <2> DEFINE Before == failures[k] > 0 /\ Open => Remembered(k)
    <2>1. Before
      BY DEF BackoffTracked, Remembered, Open
    <2>2. CASE UNCHANGED <<queueVars, delayVars, failures, worker, errored>> /\ Open
      BY <2>1, <2>2 DEF Remembered, Requested, queueVars, delayVars
    <2>3. ASSUME NEW p \in Producers, NEW j \in Keys, AddRateLimited(p, j)
          PROVE  Remembered(k)'
      <3>1. /\ producer[p] = None /\ producer' = [producer EXCEPT ![p] = j]
            /\ UNCHANGED <<dirty, heap, inbox, processing, errored, phase>>
        BY <2>3 DEF AddRateLimited, queueVars, processVars
      <3>2. producer' \in [Producers -> Keys \cup {None}] /\ producer'[p] = j
            /\ \A q \in Producers : q # p => producer'[q] = producer[q]
        BY <3>1 DEF TypeOK
      <3>3. CASE j = k
        BY <3>2, <3>3 DEF Remembered
      <3>4. CASE j # k
        <4>1. failures'[k] = failures[k] /\ Open
          BY <2>3, <3>1, <3>4 DEF AddRateLimited, When, TypeOK, Open
        <4>2. Remembered(k)
          BY <2>1, <4>1
        <4>3. k # None
          BY WorkQueueAssumption
        <4>4. QED
          BY <3>1, <3>2, <4>2, <4>3 DEF Remembered, Requested
      <3>5. QED
        BY <3>3, <3>4
    <2>4. ASSUME NEW p \in Producers, AddAfter(p) PROVE Remembered(k)'
      <3>1. /\ ~ShuttingDown /\ Open
            /\ UNCHANGED <<dirty, heap, processing, errored, failures>>
            /\ producer' = [producer EXCEPT ![p] = None]
            /\ producer[p] # None
        BY <2>4 DEF AddAfter, ShuttingDown, Open, queueVars, processVars
      <3>2. inbox' = Append(inbox, producer[p]) /\ producer[p] \in Keys /\ inbox \in Seq(Keys)
        BY <2>4, <3>1 DEF AddAfter, TypeOK
      <3>3. ToSet(inbox') = ToSet(inbox) \cup {producer[p]}
        BY <3>2, AppendElements
      <3>4. \A q \in Producers : q # p => producer'[q] = producer[q]
        BY <3>1 DEF TypeOK
      <3>5. Remembered(k)
        BY <2>1, <3>1
      <3>6. QED
        BY <3>1, <3>3, <3>4, <3>5 DEF Remembered, Requested
    <2>5. CASE Receive
      <3>1. /\ Open
            /\ UNCHANGED <<producer, errored, failures>>
            /\ inbox \in Seq(Keys) /\ inbox # <<>> /\ inbox' = Tail(inbox)
        BY <2>5 DEF Receive, Open, processVars, TypeOK
      <3>2. ToSet(inbox) = ToSet(inbox') \cup {Head(inbox)}
        BY <3>1, TailElements
      <3>3. Remembered(k)
        BY <2>1, <3>1
      <3>4. CASE Add(Head(inbox)) /\ UNCHANGED heap
        <4>1. Head(inbox) \in dirty' /\ dirty \subseteq dirty' /\ processing' = processing
          BY <3>1, <3>4, AddRequests
        <4>2. QED
          BY <3>1, <3>2, <3>3, <3>4, <4>1 DEF Remembered, Requested
      <3>5. CASE heap' = heap \cup {Head(inbox)} /\ UNCHANGED queueVars
        BY <3>1, <3>2, <3>3, <3>5 DEF Remembered, Requested, queueVars
      <3>6. QED
        BY <2>5, <3>4, <3>5 DEF Receive
    <2>6. ASSUME NEW j \in Keys, Fire(j) PROVE Remembered(k)'
      <3>1. Open /\ UNCHANGED <<inbox, producer, errored, failures>> /\ heap' = heap \ {j}
        BY <2>6 DEF Fire, Open, processVars
      <3>2. j \in dirty' /\ dirty \subseteq dirty' /\ processing' = processing
        BY <2>6, <3>1, AddRequests DEF Fire
      <3>3. QED
        BY <2>1, <3>1, <3>2 DEF Remembered, Requested
    <2>7. CASE StartWorkers \/ Signal \/ ShutDown \/ Exit \/ Crash
      BY <2>2, <2>7 DEF StartWorkers, Signal, ShutDown, Exit, Crash, Open
    <2>8. ASSUME NEW w \in Workers, Get(w) PROVE Remembered(k)'
      <3>1. /\ Open
            /\ UNCHANGED <<inbox, heap, producer, errored, failures>>
            /\ processing' = processing \cup {Head(queue)}
            /\ dirty' = dirty \ {Head(queue)}
        BY <2>8 DEF Get, Open, delayVars, processVars
      <3>2. QED
        BY <2>1, <3>1 DEF Remembered, Requested
    <2>9. ASSUME NEW w \in Workers, SyncOk(w) PROVE Remembered(k)'
      <3>1. /\ Open
            /\ UNCHANGED <<inbox, heap, producer, dirty>>
            /\ processing' = processing \ {worker[w]}
            /\ errored' = errored \ {worker[w]}
        BY <2>9 DEF SyncOk, Open, Done, delayVars, processVars
      <3>2. k # worker[w] /\ failures'[k] = failures[k]
        BY <2>9, HeldKey DEF SyncOk, Forget, TypeOK
      <3>3. QED
        BY <2>1, <3>1, <3>2 DEF Remembered, Requested
    <2>10. ASSUME NEW w \in Workers, SyncFails(w) PROVE Remembered(k)'
      <3>1. /\ Open
            /\ UNCHANGED <<inbox, heap, producer, dirty, failures>>
            /\ processing' = processing \ {worker[w]}
            /\ errored' = errored \cup {worker[w]}
        BY <2>10 DEF SyncFails, Open, Done, delayVars, processVars
      <3>2. QED
        BY <2>1, <3>1 DEF Remembered, Requested
    <2>11. ~Restart
      BY DEF Restart
    <2>12. CASE UNCHANGED vars
      BY <2>2, <2>12 DEF vars, processVars, Open
    <2>13. QED
      BY <2>3, <2>4, <2>5, <2>6, <2>7, <2>8, <2>9, <2>10, <2>11, <2>12 DEF Next
  <1>3. QED
    BY <1>1, <1>2, TypeCorrect, PTL DEF Spec
-----------------------------------------------------------------------------
\* The refinement mapping of the module WorkQueue, under names of its own.
Pending == dirty \cup heap \cup ToSet(inbox)
Mode == CASE phase \in {"syncing", "running", "stopping"} -> "open"
          [] phase = "draining" -> "closed"
          [] OTHER -> "down"
KWvars == <<Pending, worker, Mode>>

LEMMA ModeValues ==
    /\ phase \in {"syncing", "running", "stopping"} => Mode = "open"
    /\ phase = "draining" => Mode = "closed"
    /\ phase \in {"exited", "crashed"} => Mode = "down"
  BY DEF Mode

LEMMA SameMode == ASSUME UNCHANGED phase PROVE UNCHANGED Mode
  BY DEF Mode

\* Adding a key that is on its way from the listeners, or dropping it from
\* the heap for the queue, is no step of the abstract queue.
LEMMA AddMoves ==
    ASSUME NEW k, ~ShuttingDown, Add(k)
    PROVE  dirty' = dirty \cup {k}
  BY DEF Add, queueVars

\* Every step of the queue is a step of KeyedWork or a stutter: requests are
\* kept until a run that starts after them, and runs of a key never overlap.
THEOREM QueueIsKeyedWork == Spec => KW!Spec
  <1>1. Init => KW!Init
    BY DEF Init, KW!Init, ToSet
  <1>2. IInv /\ [Next]_vars => [KW!Next]_(KW!vars)
    <2> SUFFICES ASSUME IInv, [Next]_vars PROVE KW!Next \/ UNCHANGED KWvars
      BY DEF KW!vars, KWvars, Pending, Mode
    <2>1. CASE UNCHANGED <<queueVars, heap, inbox, worker, phase>>
      BY <2>1, SameMode DEF KWvars, Pending, queueVars
    <2>2. ASSUME NEW p \in Producers, NEW k \in Keys, AddRateLimited(p, k)
          PROVE  UNCHANGED KWvars
      BY <2>1, <2>2, SameMode DEF AddRateLimited, KWvars, Pending, queueVars, processVars
    <2>3. ASSUME NEW p \in Producers, AddAfter(p) PROVE KW!Next \/ UNCHANGED KWvars
      <3>1. CASE ShuttingDown
        <4>1. UNCHANGED <<queueVars, heap, inbox, worker, phase>>
          BY <2>3, <3>1 DEF AddAfter, processVars
        <4>2. QED
          BY <2>1, <4>1
      <3>2. CASE ~ShuttingDown
        <4>1. /\ inbox' = Append(inbox, producer[p])
              /\ inbox \in Seq(Keys) /\ producer[p] \in Keys
              /\ UNCHANGED <<dirty, heap, worker, phase>>
          BY <2>3, <3>2 DEF AddAfter, IInv, TypeOK, queueVars, processVars
        <4>2. Pending' = Pending \cup {producer[p]}
          BY <4>1, AppendElements DEF Pending
        <4>3. Mode = "open" /\ UNCHANGED Mode
          BY <2>3, <3>2, <4>1, ModeValues, SameMode
             DEF AddAfter, Alive, ShuttingDown, IInv, TypeOK, Phases
        <4>4. KW!Request(producer[p])
          BY <4>1, <4>2, <4>3 DEF KW!Request, Pending, Mode
        <4>5. QED
          BY <4>1, <4>4 DEF KW!Next
      <3>3. QED
        BY <3>1, <3>2
    <2>4. CASE Receive
      <3>1. /\ ~ShuttingDown /\ inbox \in Seq(Keys) /\ inbox # <<>> /\ inbox' = Tail(inbox)
            /\ UNCHANGED <<worker, phase>>
        BY <2>4 DEF Receive, IInv, TypeOK, processVars
      <3>2. ToSet(inbox) = ToSet(inbox') \cup {Head(inbox)}
        BY <3>1, TailElements
      <3>3. CASE Add(Head(inbox)) /\ UNCHANGED heap
        <4>1. dirty' = dirty \cup {Head(inbox)}
          BY <3>1, <3>3, AddMoves
        <4>2. QED
          BY <3>1, <3>2, <3>3, <4>1, SameMode DEF KWvars, Pending
      <3>4. CASE heap' = heap \cup {Head(inbox)} /\ UNCHANGED queueVars
        BY <3>1, <3>2, <3>4, SameMode DEF KWvars, Pending, queueVars
      <3>5. QED
        BY <2>4, <3>3, <3>4 DEF Receive
    <2>5. ASSUME NEW k \in Keys, Fire(k) PROVE UNCHANGED KWvars
      <3>1. /\ k \in heap /\ heap' = heap \ {k} /\ dirty' = dirty \cup {k}
            /\ UNCHANGED <<inbox, worker, phase>>
        BY <2>5, AddMoves DEF Fire, processVars
      <3>2. QED
        BY <3>1, SameMode DEF KWvars, Pending
    <2>6. CASE StartWorkers \/ Signal
      <3>1. /\ phase \in {"syncing", "running", "stopping"}
            /\ phase' \in {"syncing", "running", "stopping"}
            /\ UNCHANGED <<dirty, heap, inbox, worker>>
        BY <2>6 DEF StartWorkers, Signal, queueVars, delayVars
      <3>2. UNCHANGED Mode
        BY <3>1 DEF Mode
      <3>3. QED
        BY <3>1, <3>2 DEF KWvars, Pending
    <2>7. CASE ShutDown
      <3>1. /\ phase = "stopping" /\ phase' = "draining"
            /\ UNCHANGED <<dirty, heap, inbox, worker>>
        BY <2>7 DEF ShutDown, queueVars, delayVars
      <3>2. KW!Close
        BY <3>1 DEF KW!Close
      <3>3. QED
        BY <3>2 DEF KW!Next
    <2>8. CASE Exit \/ Crash
      <3>1. /\ phase \in Phases \ {"exited", "crashed"} /\ phase' \in {"exited", "crashed"}
            /\ UNCHANGED <<dirty, heap, inbox, worker>>
        BY <2>8 DEF Exit, Crash, Alive, IInv, TypeOK, Phases, queueVars, delayVars
      <3>2. KW!Halt
        BY <3>1 DEF KW!Halt, Phases
      <3>3. QED
        BY <3>2 DEF KW!Next
    <2>9. CASE Restart
      <3>1. phase \in {"exited", "crashed"} /\ phase' = "syncing"
        BY <2>9 DEF Restart, Alive
      <3>2. KW!Boot
        BY <2>9, <3>1 DEF KW!Boot, Restart, ToSet
      <3>3. QED
        BY <3>2 DEF KW!Next
    <2>10. ASSUME NEW w \in Workers, Get(w) PROVE KW!Next
      <3> DEFINE h == Head(queue)
      <3>1. /\ worker[w] = None /\ queue \in Seq(Keys) /\ queue # <<>>
            /\ worker' = [worker EXCEPT ![w] = h]
            /\ dirty' = dirty \ {h}
            /\ phase \notin {"exited", "crashed"}
            /\ UNCHANGED <<heap, inbox, phase>>
        BY <2>10 DEF Get, IInv, TypeOK, delayVars, processVars
      <3>2. h \in Keys /\ h \in dirty \ processing
        BY <3>1, TailElements DEF IInv, ContainersAgree
      <3> HIDE DEF h
      <3>3. \A v \in Workers : worker[v] # h
        BY <3>2, WorkQueueAssumption DEF IInv, ContainersAgree
      <3>4. Pending' \in {Pending, Pending \ {h}}
        <4>1. CASE h \in heap \cup ToSet(inbox)
          BY <3>1, <4>1 DEF Pending
        <4>2. CASE h \notin heap \cup ToSet(inbox)
          BY <3>1, <4>2 DEF Pending
        <4>3. QED
          BY <4>1, <4>2
      <3>5. Mode # "down" /\ UNCHANGED Mode
        BY <3>1, SameMode, ModeValues DEF IInv, TypeOK, Phases
      <3>6. h \in Pending
        BY <3>2 DEF Pending
      <3>7. KW!Start(w, h)
        BY <3>1, <3>3, <3>4, <3>5, <3>6 DEF KW!Start, Pending, Mode
      <3>8. QED
        BY <3>2, <3>7 DEF KW!Next
    <2>11. ASSUME NEW w \in Workers, SyncOk(w) \/ SyncFails(w) PROVE KW!Next
      <3>1. /\ worker[w] # None /\ worker' = [worker EXCEPT ![w] = None]
            /\ phase \notin {"exited", "crashed"}
            /\ UNCHANGED <<dirty, heap, inbox, phase>>
        BY <2>11 DEF SyncOk, SyncFails, Alive, Done, delayVars, processVars
      <3>2. Mode # "down" /\ UNCHANGED Mode
        BY <3>1, SameMode, ModeValues DEF IInv, TypeOK, Phases
      <3>3. KW!Finish(w)
        BY <3>1, <3>2 DEF KW!Finish, Mode
      <3>4. QED
        BY <3>3 DEF KW!Next
    <2>12. CASE UNCHANGED vars
      BY <2>1, <2>12 DEF vars, delayVars, processVars
    <2>13. QED
      BY <2>2, <2>3, <2>4, <2>5, <2>6, <2>7, <2>8, <2>9, <2>10, <2>11, <2>12 DEF Next
  <1>3. QED
    BY <1>1, <1>2, TypeCorrect, QueueSafety, PTL DEF Spec, KW!Spec, IInv, QueueInv
-----------------------------------------------------------------------------
\* What NoOvertaking says of the key in place i.
InOrder(i) ==
    \/ queue[i] \in processing'
    \/ \E j \in 1..i : /\ j <= Len(queue') /\ queue'[j] = queue[i]
                       /\ processing' \subseteq processing \/ j < i

\* Adding at the end and taking from processing keeps everybody's place.
LEMMA AppendKeepsOrder ==
    ASSUME TypeOK, processing' \subseteq processing,
           queue' = queue \/ \E k \in Keys : queue' = Append(queue, k),
           NEW i \in 1..Len(queue)
    PROVE  InOrder(i)
  <1>1. queue \in Seq(Keys) /\ Len(queue) \in Nat /\ i \in 1..i
    BY DEF TypeOK
  <1>2. CASE queue' = queue
    BY <1>1, <1>2 DEF InOrder
  <1>3. ASSUME NEW k \in Keys, queue' = Append(queue, k) PROVE InOrder(i)
    <2>1. Len(queue') = Len(queue) + 1 /\ queue'[i] = queue[i]
      BY <1>1, <1>3
    <2>2. i <= Len(queue')
      BY <1>1, <2>1
    <2>3. QED
      BY <1>1, <2>1, <2>2 DEF InOrder
  <1>4. QED
    BY <1>2, <1>3

\* Taking the head brings everybody behind it one place nearer.
LEMMA GetKeepsOrder ==
    ASSUME TypeOK, NEW w \in Workers, Get(w), NEW i \in 1..Len(queue)
    PROVE  InOrder(i)
  <1>1. /\ queue \in Seq(Keys) /\ queue # <<>> /\ queue' = Tail(queue)
        /\ processing' = processing \cup {Head(queue)}
    BY DEF TypeOK, Get
  <1>2. CASE i = 1
    <2>1. queue[i] = Head(queue)
      BY <1>1, <1>2
    <2>2. QED
      BY <1>1, <2>1 DEF InOrder
  <1>3. CASE i # 1
    <2> DEFINE j == i - 1
    <2>1. j \in 1..i /\ j < i /\ j <= Len(queue) - 1
      BY <1>1, <1>3
    <2>2. Len(queue') = Len(queue) - 1 /\ queue'[j] = queue[i]
      BY <1>1, <1>3, <2>1
    <2>3. QED
      BY <2>1, <2>2 DEF InOrder
  <1>4. QED
    BY <1>2, <1>3

\* Keys are served in the order of the queue.
THEOREM ServedInOrder == Spec => NoOvertaking
  <1>1. ASSUME TypeOK, [Next]_vars, restarts' = restarts, NEW i \in 1..Len(queue)
        PROVE  InOrder(i)
    <2> USE <1>1
    <2>1. CASE UNCHANGED <<queue, processing>>
      BY <2>1, AppendKeepsOrder
    <2>2. ASSUME NEW k \in Keys, Add(k) PROVE InOrder(i)
      <3>1. processing' = processing /\ (queue' = queue \/ queue' = Append(queue, k))
        BY <2>2 DEF Add, queueVars
      <3>2. QED
        BY <3>1, AppendKeepsOrder
    <2>3. ASSUME NEW k \in Keys, Done(k) PROVE InOrder(i)
      <3>1. /\ processing' \subseteq processing
            /\ queue' = queue \/ queue' = Append(queue, k)
        BY <2>3 DEF Done
      <3>2. QED
        BY <3>1, AppendKeepsOrder
    <2>4. ASSUME NEW p \in Producers,
                 AddAfter(p) \/ \E k \in Keys : AddRateLimited(p, k)
          PROVE  InOrder(i)
      BY <2>1, <2>4 DEF AddAfter, AddRateLimited, queueVars
    <2>5. CASE Receive
      <3>1. Head(inbox) \in Keys
        BY <2>5, TailElements DEF Receive, TypeOK
      <3>2. QED
        BY <2>1, <2>2, <2>5, <3>1 DEF Receive, queueVars
    <2>6. ASSUME NEW k \in Keys, Fire(k) PROVE InOrder(i)
      BY <2>2, <2>6 DEF Fire
    <2>7. ASSUME NEW w \in Workers, Get(w) PROVE InOrder(i)
      BY <2>7, GetKeepsOrder
    <2>8. ASSUME NEW w \in Workers, SyncOk(w) \/ SyncFails(w) PROVE InOrder(i)
      <3>1. worker[w] \in Keys /\ Done(worker[w])
        BY <2>8 DEF SyncOk, SyncFails, TypeOK
      <3>2. QED
        BY <2>3, <3>1
    <2>9. CASE StartWorkers \/ Signal \/ ShutDown \/ Exit \/ Crash
      BY <2>1, <2>9 DEF StartWorkers, Signal, ShutDown, Exit, Crash, queueVars
    <2>10. CASE Restart
      <3>1. restarts \in Nat /\ restarts' = restarts + 1
        BY <2>10, WorkQueueAssumption DEF Restart, TypeOK
      <3>2. QED
        BY <1>1, <3>1
    <2>11. CASE UNCHANGED vars
      BY <2>1, <2>11 DEF vars, queueVars
    <2>12. QED
      BY <2>4, <2>5, <2>6, <2>7, <2>8, <2>9, <2>10, <2>11 DEF Next
  <1>2. TypeOK /\ [Next]_vars =>
            [restarts' = restarts => \A i \in 1..Len(queue) : InOrder(i)]_vars
    BY <1>1
  <1>3. QED
    BY <1>2, TypeCorrect, PTL DEF Spec, NoOvertaking, InOrder
-----------------------------------------------------------------------------
\* However many events there are, the queue is no longer than there are objects:
\* a key is in it once.
THEOREM QueueIsBounded ==
    ASSUME IsFiniteSet(Keys)
    PROVE  Spec => [](Len(queue) <= Cardinality(Keys))
  <1>1. ASSUME TypeOK, QueueInv PROVE Len(queue) <= Cardinality(Keys)
    <2>1. queue \in Seq(Keys) /\ IsInjective(queue)
      BY <1>1 DEF TypeOK, QueueInv, ContainersAgree
    <2>2. queue \in [1..Len(queue) -> Keys] /\ Len(queue) \in Nat
      BY <2>1
    <2>3. queue \in Injection(1..Len(queue), Keys)
      BY <2>1, <2>2 DEF Injection
    <2>4. IsFiniteSet(1..Len(queue)) /\ Cardinality(1..Len(queue)) = Len(queue)
      <3>1. 1 \in Int /\ Len(queue) \in Int
        BY <2>2
      <3>2. /\ IsFiniteSet(1..Len(queue))
            /\ Cardinality(1..Len(queue)) = IF 1 > Len(queue) THEN 0 ELSE Len(queue) - 1 + 1
        BY <3>1, FS_Interval, Zenon
      <3>3. QED
        BY <2>2, <3>2
    <2>5. Cardinality(1..Len(queue)) <= Cardinality(Keys)
      BY <2>3, FS_Injection
    <2>6. QED
      BY <2>4, <2>5
  <1>2. TypeOK /\ QueueInv => Len(queue) <= Cardinality(Keys)
    BY <1>1
  <1>3. QED
    BY <1>2, TypeCorrect, QueueSafety, PTL
=============================================================================
