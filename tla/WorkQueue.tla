------------------------------ MODULE WorkQueue ------------------------------
(***************************************************************************)
(* One of the controller's rate limited work queues (serverQueue, dbQueue, *)
(* schemaQueue) with the goroutines around it:                             *)
(*   - producers: the informer listeners whose handlers call enqueue, that *)
(*     is AddRateLimited, for EVERY event (controller.go:329-337);         *)
(*   - the waiting loop of the delaying queue, which moves a key from the  *)
(*     channel waitingForAddCh to a heap and, when its delay is over, to   *)
(*     the queue proper;                                                   *)
(*   - workers running processNextWorkItem (controller.go:245-283);        *)
(*   - Run and main, which start the workers, shut the queues down and     *)
(*     exit (controller.go:196-225, main.go:48-95).                        *)
(* Delays are abstracted: a waiting key may become ready at any time.  The *)
(* failure count, from which the delay is computed, is kept, saturating at *)
(* MaxBackoff (the delay itself saturates at 1000 s).                      *)
(***************************************************************************)
EXTENDS Naturals, Sequences, SequencesExt

CONSTANTS Keys, Workers, Producers,
          Returning,    \* the workers whose sync handlers always return
          None,         \* "no key"
          ChanCap,      \* capacity of waitingForAddCh (1000 in the code)
          MaxBackoff,   \* where the modelled failure count saturates
          MaxRestarts   \* bound: how often the process is started again

ASSUME WorkQueueAssumption ==
    /\ Returning \subseteq Workers
    /\ None \notin Keys
    /\ ChanCap \in Nat \ {0}
    /\ MaxBackoff \in Nat \ {0}
    /\ MaxRestarts \in Nat

VARIABLES
    queue,        \* workqueue.Type.queue: the order in which keys are served
    dirty,        \* workqueue.Type.dirty: keys that need processing
    processing,   \* workqueue.Type.processing: keys being processed
    inbox,        \* delayingType.waitingForAddCh
    heap,         \* the entries of waitingForQueue, one per key
    failures,     \* ItemExponentialFailureRateLimiter.failures
    producer,     \* producer[p]: the key p is blocked sending, or None
    worker,       \* worker[w]: the key w is handling, or None
    errored,      \* history: keys whose last finished sync returned an error
    phase,        \* of the process, see Phases
    restarts      \* history: number of restarts, for the bound

queueVars   == <<queue, dirty, processing>>
delayVars   == <<inbox, heap, producer>>
processVars == <<phase, restarts>>
vars == <<queueVars, delayVars, failures, worker, errored, processVars>>

\* "syncing": Run waits for the caches; "running": the workers run;
\* "stopping": stopCh is closed; "draining": the queues are shut down;
\* "exited": main returned; "crashed": a panic or a kill ended the process.
Phases == {"syncing", "running", "stopping", "draining", "exited", "crashed"}

Alive        == phase \notin {"exited", "crashed"}
ShuttingDown == phase = "draining"
Requested(k) == k \in dirty \cup heap \cup ToSet(inbox)

Init ==
    /\ queue = <<>> /\ dirty = {} /\ processing = {}
    /\ inbox = <<>> /\ heap = {}
    /\ failures = [k \in Keys |-> 0]
    /\ producer = [p \in Producers |-> None]
    /\ worker = [w \in Workers |-> None]
    /\ errored = {}
    /\ phase = "syncing"
    /\ restarts = 0
-----------------------------------------------------------------------------
\* Mutant of Add: the test of the processing set is forgotten.
AddWhileProcessing(k) ==
    IF ShuttingDown \/ k \in dirty THEN UNCHANGED queueVars
    ELSE /\ dirty' = dirty \cup {k}
         /\ queue' = Append(queue, k)
         /\ UNCHANGED processing

\* Type.Add: coalesce with a request not served yet; a key being processed
\* is queued by Done.
Add(k) ==
    IF ShuttingDown \/ k \in dirty THEN UNCHANGED queueVars
    ELSE /\ dirty' = dirty \cup {k}
         /\ queue' = IF k \in processing THEN queue ELSE Append(queue, k)
         /\ UNCHANGED processing

\* Mutant of Done: a key that became dirty meanwhile is not queued.
DoneDropsDirty(k) ==
    /\ processing' = processing \ {k}
    /\ UNCHANGED <<queue, dirty>>

\* Mutant of Done: a key that became dirty meanwhile goes to the front.
DoneInFront(k) ==
    /\ processing' = processing \ {k}
    /\ queue' = IF k \in dirty THEN <<k>> \o queue ELSE queue
    /\ UNCHANGED dirty

\* Type.Done
Done(k) ==
    /\ processing' = processing \ {k}
    /\ queue' = IF k \in dirty THEN Append(queue, k) ELSE queue
    /\ UNCHANGED dirty

\* Mutant of Forget: the call is omitted.
ForgetNothing(k) == UNCHANGED failures

\* ItemExponentialFailureRateLimiter.Forget
Forget(k) == failures' = [failures EXCEPT ![k] = 0]

\* Mutant of When: the delay is not capped.
WhenUncapped(k) == failures' = [failures EXCEPT ![k] = @ + 1]

\* ItemExponentialFailureRateLimiter.When, called by AddRateLimited whatever
\* the reason of the request: an event counts as a failure.
When(k) == failures' = [failures EXCEPT ![k] = IF @ < MaxBackoff THEN @ + 1 ELSE @]
-----------------------------------------------------------------------------
\* An event handler of listener p calls AddRateLimited(k)...
AddRateLimited(p, k) ==
    /\ Alive
    /\ producer[p] = None
    /\ When(k)
    /\ producer' = [producer EXCEPT ![p] = k]
    /\ UNCHANGED <<queueVars, inbox, heap, worker, errored, processVars>>

\* ...whose AddAfter drops the key if the queue is shutting down and blocks
\* while the channel is full.
AddAfter(p) ==
    /\ Alive
    /\ producer[p] # None
    /\ \/ ShuttingDown /\ UNCHANGED inbox
       \/ ~ShuttingDown /\ Len(inbox) < ChanCap /\ inbox' = Append(inbox, producer[p])
    /\ producer' = [producer EXCEPT ![p] = None]
    /\ UNCHANGED <<queueVars, heap, failures, worker, errored, processVars>>

\* waitingLoop receives an entry: its delay is over, or it goes to the heap,
\* where insert keeps one entry per key.
Receive ==
    /\ Alive /\ ~ShuttingDown
    /\ inbox # <<>>
    /\ inbox' = Tail(inbox)
    /\ \/ Add(Head(inbox)) /\ UNCHANGED heap
       \/ heap' = heap \cup {Head(inbox)} /\ UNCHANGED queueVars
    /\ UNCHANGED <<failures, producer, worker, errored, processVars>>

\* waitingLoop adds an entry whose delay is over.
Fire(k) ==
    /\ Alive /\ ~ShuttingDown
    /\ k \in heap
    /\ heap' = heap \ {k}
    /\ Add(k)
    /\ UNCHANGED <<inbox, failures, producer, worker, errored, processVars>>
-----------------------------------------------------------------------------
\* Run: the caches are synced and the workers are launched.
StartWorkers ==
    /\ phase = "syncing"
    /\ phase' = "running"
    /\ UNCHANGED <<queueVars, delayVars, failures, worker, errored, restarts>>

\* Mutant of Get: the key is not entered in the processing set.
GetUnmarked(w) ==
    /\ phase \in {"running", "stopping", "draining"}
    /\ worker[w] = None
    /\ queue # <<>>
    /\ worker' = [worker EXCEPT ![w] = Head(queue)]
    /\ queue' = Tail(queue)
    /\ dirty' = dirty \ {Head(queue)}
    /\ UNCHANGED <<processing, delayVars, failures, errored, processVars>>

\* Type.Get in processNextWorkItem; workers go on until the queue is empty
\* when it shuts down.
Get(w) ==
    /\ phase \in {"running", "stopping", "draining"}
    /\ worker[w] = None
    /\ queue # <<>>
    /\ worker' = [worker EXCEPT ![w] = Head(queue)]
    /\ queue' = Tail(queue)
    /\ processing' = processing \cup {Head(queue)}
    /\ dirty' = dirty \ {Head(queue)}
    /\ UNCHANGED <<delayVars, failures, errored, processVars>>

\* syncObject returned nil: Forget, then the deferred Done.
SyncOk(w) ==
    /\ Alive
    /\ worker[w] # None
    /\ Forget(worker[w])
    /\ Done(worker[w])
    /\ worker' = [worker EXCEPT ![w] = None]
    /\ errored' = errored \ {worker[w]}
    /\ UNCHANGED <<delayVars, processVars>>

\* syncObject returned an error, which is logged: no Forget, and no
\* AddRateLimited either.
SyncFails(w) ==
    /\ Alive
    /\ worker[w] # None
    /\ Done(worker[w])
    /\ worker' = [worker EXCEPT ![w] = None]
    /\ errored' = errored \cup {worker[w]}
    /\ UNCHANGED <<delayVars, failures, processVars>>
-----------------------------------------------------------------------------
\* SIGTERM or SIGINT closes stopCh.
Signal ==
    /\ phase \in {"syncing", "running"}
    /\ phase' = "stopping"
    /\ UNCHANGED <<queueVars, delayVars, failures, worker, errored, restarts>>

\* The deferred ShutDown calls of Run.
ShutDown ==
    /\ phase = "stopping"
    /\ phase' = "draining"
    /\ UNCHANGED <<queueVars, delayVars, failures, worker, errored, restarts>>

\* Run returns and main ends: nobody waits for the workers.
Exit ==
    /\ phase = "draining"
    /\ phase' = "exited"
    /\ UNCHANGED <<queueVars, delayVars, failures, worker, errored, restarts>>

\* A panic in a handler (HandleCrash panics again), a second signal or a kill.
Crash ==
    /\ Alive
    /\ phase' = "crashed"
    /\ UNCHANGED <<queueVars, delayVars, failures, worker, errored, restarts>>

\* The deployment starts a new container; all queue state was in memory.
Restart ==
    /\ ~Alive
    /\ restarts < MaxRestarts
    /\ restarts' = restarts + 1
    /\ phase' = "syncing"
    /\ queue' = <<>> /\ dirty' = {} /\ processing' = {}
    /\ inbox' = <<>> /\ heap' = {}
    /\ failures' = [k \in Keys |-> 0]
    /\ producer' = [p \in Producers |-> None]
    /\ worker' = [w \in Workers |-> None]
    /\ errored' = {}

Next ==
    \/ \E p \in Producers, k \in Keys : AddRateLimited(p, k)
    \/ \E p \in Producers : AddAfter(p)
    \/ Receive
    \/ \E k \in Keys : Fire(k)
    \/ StartWorkers
    \/ \E w \in Workers : Get(w) \/ SyncOk(w) \/ SyncFails(w)
    \/ Signal \/ ShutDown \/ Exit \/ Crash \/ Restart

Spec == Init /\ [][Next]_vars

\* Goroutines that can take a step take one: the waiting loop and the
\* blocked listeners always, a worker when there is a key, the caches sync,
\* and the handlers of the Returning workers end.  No fairness on events,
\* signals, crashes or restarts.
Fairness ==
    /\ \A p \in Producers : WF_vars(AddAfter(p))
    /\ WF_vars(Receive)
    /\ \A k \in Keys : WF_vars(Fire(k))
    /\ WF_vars(StartWorkers)
    /\ WF_vars(\E w \in Workers : Get(w))
    /\ \A w \in Returning : WF_vars(SyncOk(w) \/ SyncFails(w))

FairSpec == Spec /\ Fairness
-----------------------------------------------------------------------------
TypeOK ==
    /\ queue \in Seq(Keys)
    /\ dirty \subseteq Keys
    /\ processing \subseteq Keys
    /\ inbox \in Seq(Keys) /\ Len(inbox) <= ChanCap
    /\ heap \subseteq Keys
    /\ failures \in [Keys -> 0..MaxBackoff]
    /\ producer \in [Producers -> Keys \cup {None}]
    /\ worker \in [Workers -> Keys \cup {None}]
    /\ errored \subseteq Keys
    /\ phase \in Phases
    /\ restarts \in 0..MaxRestarts

\* The three containers of workqueue.Type agree: the queue holds, once, each
\* dirty key that nobody processes, and the keys processed are those the
\* workers hold (queue.go:33-60, controller.go:245-283).
ContainersAgree ==
    /\ ToSet(queue) = dirty \ processing
    /\ IsInjective(queue)
    /\ processing = {worker[w] : w \in Workers} \ {None}

\* Two workers never reconcile the same object at the same time, whatever
\* the number of events while it is processed (the guarantee syncServer,
\* syncDatabase and syncSchema are written for).
KeyExclusion ==
    \A v, w \in Workers : v # w /\ worker[v] # None => worker[v] # worker[w]

\* What keeps a queue in order: its containers agree, and no key is handled
\* twice at a time.  Neither is kept without the other.
QueueInv == ContainersAgree /\ KeyExclusion

\* Keys are served in the order of the queue: no step moves a waiting key back,
\* and each key that a worker takes brings it nearer, until it is taken itself.
\* So a key waits for no more handlers than there are keys before it, which is
\* what the strong fairness of KeyedWork rests on (queue.go:87-155).
NoOvertaking ==
    [][restarts' = restarts =>
          \A i \in 1..Len(queue) :
              \/ queue[i] \in processing'
              \/ \E j \in 1..i :
                    /\ j <= Len(queue') /\ queue'[j] = queue[i]
                    /\ processing' \subseteq processing \/ j < i]_vars

\* A key that is waiting nowhere and whose last sync succeeded starts again
\* from the shortest delay, although every event raises its failure count
\* (controller.go:336) and only a successful sync resets it (:272).
BackoffTracked ==
    \A k \in Keys :
        failures[k] > 0 /\ phase \in {"syncing", "running", "stopping"} =>
            \/ Requested(k)
            \/ k \in processing \cup errored
            \/ \E p \in Producers : producer[p] = k

\* A key that a listener asks for is handled by a run of sync that starts
\* afterwards, even if another worker never returns from its own
\* (queue.go:87-155, delaying_queue.go:144-240).
Served ==
    \A k \in Keys :
        Requested(k) ~> (k \in processing \/ phase \notin {"syncing", "running"})

\* The queue implements the abstract keyed work its callers rely on.
KW == INSTANCE KeyedWork WITH
        pending <- dirty \cup heap \cup ToSet(inbox),
        running <- worker,
        mode <- CASE phase \in {"syncing", "running", "stopping"} -> "open"
                  [] phase = "draining" -> "closed"
                  [] OTHER -> "down"

ImplementsKeyedWork == KW!FairSpec
=============================================================================
