------------------------------ MODULE KeyedWork ------------------------------
(***************************************************************************)
(* What the three reconcilers of atlas-db rely on from a rate limited work *)
(* queue (atlas-db-controller/controller.go, processNextWorkItem): keys    *)
(* are requested any number of times, a request is coalesced with those    *)
(* not served yet, a key is handled by one worker at a time, and a request *)
(* is followed by a run of the handler that starts after it - as long as   *)
(* the queue is open.  Which requests the program makes, and in particular *)
(* whether a failed run requests its key again, is the caller's business.  *)
(***************************************************************************)
CONSTANTS Keys,        \* namespace/name keys of one resource type
          Workers,     \* goroutines started by Controller.Run for the type
          Returning,   \* the workers whose handler always returns
          None         \* "no key"

VARIABLES pending,     \* keys with a request that no run has started after
          running,     \* running[w]: the key worker w handles, or None
          mode         \* "open", "closed" (requests are ignored) or "down"

vars == <<pending, running, mode>>

Init == /\ pending = {}
        /\ running = [w \in Workers |-> None]
        /\ mode = "open"

Request(k) == /\ mode = "open"
              /\ pending' = pending \cup {k}
              /\ UNCHANGED <<running, mode>>

\* A run may leave the key pending: requests that wait for their delay are
\* not coalesced with the one being served, so a key can run once more than
\* it was asked to.
Start(w, k) == /\ mode # "down"
               /\ running[w] = None
               /\ k \in pending
               /\ \A v \in Workers : running[v] # k
               /\ pending' \in {pending, pending \ {k}}
               /\ running' = [running EXCEPT ![w] = k]
               /\ UNCHANGED mode

Finish(w) == /\ mode # "down"
             /\ running[w] # None
             /\ running' = [running EXCEPT ![w] = None]
             /\ UNCHANGED <<pending, mode>>

Close == mode = "open" /\ mode' = "closed" /\ UNCHANGED <<pending, running>>

Halt == mode # "down" /\ mode' = "down" /\ UNCHANGED <<pending, running>>

\* Nothing of the queue survives the process.
Boot == /\ mode = "down"
        /\ mode' = "open"
        /\ pending' = {}
        /\ running' = [w \in Workers |-> None]

Next == \/ \E k \in Keys : Request(k)
        \/ \E w \in Workers, k \in Keys : Start(w, k)
        \/ \E w \in Workers : Finish(w)
        \/ Close
        \/ Halt
        \/ Boot

StartOf(k) == mode = "open" /\ \E w \in Workers : Start(w, k)

Fairness == /\ \A k \in Keys : SF_vars(StartOf(k))
            /\ \A w \in Returning : WF_vars(Finish(w))

Spec == Init /\ [][Next]_vars
FairSpec == Spec /\ Fairness
=============================================================================
