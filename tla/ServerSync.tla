----------------------------- MODULE ServerSync ------------------------------
(***************************************************************************)
(* The DatabaseServer reconciler (databaseServerResource.go): one server   *)
(* name, through its deletions and re-creations, with the pod, the service *)
(* and the secret of the same name that the controller creates for it.     *)
(* Objects live in the API server; the listers trail them by the events    *)
(* not yet delivered; users, the garbage collector of Kubernetes and the   *)
(* controller change them.  Servers of other names share nothing with it.  *)
(*                                                                         *)
(* An incarnation of the server is a UID, counted from 1.  A child is      *)
(* abstracted to the UID of its controller, Foreign when it has none: the  *)
(* contents of the children are never compared with the spec (the TODOs at *)
(* :172, :235 and :273), so the spec is abstracted to its plugin and to    *)
(* whether the credentials it names can be read.                           *)
(***************************************************************************)
EXTENDS Naturals, Sequences

CONSTANTS NoObj,      \* no such object
          Plugins,    \* what ActivePlugin may return: "pod", "cloud" or "none"
          Creds,      \* what resolving the credentials may give at first:
                      \* "ready", "absent" (not found) or "invalid"
          MaxEvents,  \* bound: what users do, failed API calls and crashes
          MaxBacklog  \* bound: undelivered events of a child when it is collected

ASSUME ServerSyncAssumption ==
    /\ Plugins \subseteq {"pod", "cloud", "none"}
    /\ Creds \subseteq {"ready", "absent", "invalid"}
    /\ MaxEvents \in Nat /\ MaxBacklog \in Nat
    /\ NoObj \notin Nat

VARIABLES
    srv,       \* the DatabaseServer in the API server: UID and Status.State
    srvNews,   \* its watch events not yet delivered: UIDs, and NoObj if deleted
    srvCache,  \* the UID of what serversLister returns
    born,      \* number of incarnations so far
    child,     \* child[k]: the child of kind k in the API server
    childNews, \* childNews[k]: its watch events not yet delivered
    cached,    \* cached[k]: what the lister of kind k returns
    plugin, creds,
    pending,   \* the server's key is in serverQueue
    step,      \* where syncServer is
    snap,      \* the UID of the copy of the server that it works on
    current,   \* the copy is still the object in the API server
    verdict,   \* the state about to be written
    made,      \* history: the kinds of which this incarnation has had a child
    events

srvVars   == <<srv, srvNews, born>>
childVars == <<child, childNews, made>>
specVars  == <<plugin, creds>>
syncVars  == <<step, snap, current, verdict>>
vars == <<srvVars, srvCache, childVars, cached, specVars, pending, syncVars, events>>

Kinds == {"pod", "service", "secret"}
Uids == 1..(MaxEvents + 1)
Foreign == 0
Children == Uids \cup {Foreign, NoObj}
States == {"", "Pending", "Success", "Error"}
Servers == [uid : Uids, state : States]
ASSUME NoObjAssumption == NoObj \notin Servers

\* syncServer goes through these in this order; only a PodPlugin has a pod.
Needed == IF plugin = "pod" THEN Kinds ELSE {"service", "secret"}
First == IF plugin = "pod" THEN "pod" ELSE "service"
\* Mutant of After: the secret is made before the service.
AfterSecretFirst == [pod |-> "secret", secret |-> "service", service |-> "report"]
After == [pod |-> "service", service |-> "secret", secret |-> "report"]

\* The kind in the owner reference of a child.  objMeta(s, "Secret") makes
\* that of the secret "Secret" (:149); CreatePod and syncService get it right.
OwnerKind == [pod |-> "DatabaseServer", service |-> "DatabaseServer", secret |-> "Secret"]

Init ==
    /\ born = 1
    /\ srv = [uid |-> 1, state |-> ""]
    /\ srvNews = <<>> /\ srvCache = 1
    /\ child = [k \in Kinds |-> NoObj]
    /\ childNews = [k \in Kinds |-> <<>>] /\ cached = child
    /\ plugin \in Plugins /\ creds \in Creds
    /\ pending = TRUE
    /\ step = "idle" /\ snap = NoObj /\ current = FALSE /\ verdict = ""
    /\ made = {}
    /\ events = 0
-----------------------------------------------------------------------------
Happens == events < MaxEvents /\ events' = events + 1

StoreServer(uid, state) ==
    /\ srv' = [uid |-> uid, state |-> state]
    /\ srvNews' = Append(srvNews, uid)

StoreChild(k, c) ==
    /\ child' = [child EXCEPT ![k] = c]
    /\ childNews' = [childNews EXCEPT ![k] = Append(@, c)]
    /\ made' = IF srv # NoObj /\ srv.uid = c THEN made \cup {k} ELSE made

\* A user deletes the server, or creates it again.
UserServer ==
    /\ Happens
    /\ \/ /\ srv # NoObj
          /\ srv' = NoObj /\ srvNews' = Append(srvNews, NoObj)
          /\ UNCHANGED born
       \/ /\ srv = NoObj
          /\ born' = born + 1
          /\ StoreServer(born + 1, "")
    /\ current' = FALSE
    /\ made' = {}
    /\ UNCHANGED <<srvCache, child, childNews, cached, specVars, pending, step, snap, verdict>>

\* A user deletes a child, or creates an object of that kind and name.
UserChild(k) ==
    /\ Happens
    /\ StoreChild(k, IF child[k] = NoObj THEN Foreign ELSE NoObj)
    /\ UNCHANGED <<srvVars, srvCache, cached, specVars, pending, syncVars>>

\* The secrets or config maps with the credentials are provided.
CredsArrive ==
    /\ creds # "ready"
    /\ creds' = "ready"
    /\ UNCHANGED <<srvVars, srvCache, childVars, cached, plugin, pending, syncVars, events>>

\* Kubernetes deletes objects whose controller is gone.  It cannot look up an
\* owner of the kind that the secret's reference names, so the secret stays.
Collect(k) ==
    /\ OwnerKind[k] = "DatabaseServer"
    /\ child[k] \in Uids
    /\ srv # NoObj => srv.uid # child[k]
    /\ Len(childNews[k]) < MaxBacklog
    /\ StoreChild(k, NoObj)
    /\ UNCHANGED <<srvVars, srvCache, cached, specVars, pending, syncVars, events>>
-----------------------------------------------------------------------------
\* The server informer: added and updated servers are enqueued, not deleted ones.
DeliverServer ==
    /\ srvNews # <<>>
    /\ srvCache' = Head(srvNews)
    /\ srvNews' = Tail(srvNews)
    /\ pending' = (pending \/ srvCache' # NoObj)
    /\ UNCHANGED <<srv, born, childVars, cached, specVars, syncVars, events>>

\* handleObject: the server that controls the object is enqueued, if there is
\* a server of that name; the UID is not compared.
HandleObject(k, c) ==
    pending' = (pending \/ (OwnerKind[k] = "DatabaseServer" /\ c \in Uids /\ srvCache # NoObj))

\* The informers of owned objects; a deletion passes the last state on.
DeliverChild(k) ==
    /\ childNews[k] # <<>>
    /\ cached' = [cached EXCEPT ![k] = Head(childNews[k])]
    /\ childNews' = [childNews EXCEPT ![k] = Tail(@)]
    /\ HandleObject(k, IF Head(childNews[k]) = NoObj THEN cached[k] ELSE Head(childNews[k]))
    /\ UNCHANGED <<srvVars, srvCache, child, made, specVars, syncVars, events>>

\* Mutant of Resync: updates without a new resource version are ignored, as
\* the handlers of the owned objects do.
ResyncIgnored == srvCache # NoObj /\ ~pending /\ UNCHANGED vars

\* The periodic resync of the server informer.
Resync ==
    /\ srvCache # NoObj /\ ~pending
    /\ pending' = TRUE
    /\ UNCHANGED <<srvVars, srvCache, childVars, cached, specVars, syncVars, events>>
-----------------------------------------------------------------------------
\* syncServer takes its copy of the server (:36-45).
Start ==
    /\ pending /\ step = "idle"
    /\ pending' = FALSE
    /\ IF srvCache = NoObj THEN UNCHANGED syncVars
       ELSE /\ step' = First
            /\ snap' = srvCache
            /\ current' = (srvNews = <<>>)
            /\ UNCHANGED verdict
    /\ UNCHANGED <<srvVars, srvCache, childVars, cached, specVars, events>>

\* updateDatabaseServerStatus, an Update of the whole object.  A conflict is
\* logged and ignored.  The same Pending or Error again is a change if its
\* message is another one; that of Success never is.
WriteStatus(state) ==
    \/ /\ current
       /\ state = "Success" => srv.state # state
       /\ StoreServer(snap, state)
    \/ /\ current => srv.state = state
       /\ UNCHANGED <<srv, srvNews>>

\* The callee writes a status; syncServer will write another one.
WriteTwice(first, second) ==
    /\ WriteStatus(first)
    /\ current' = (current /\ srvNews' = srvNews)
    /\ step' = "report" /\ verdict' = second
    /\ UNCHANGED <<born, snap>>

\* Mutant of GoOn: the reason of an event is taken for a state.
GoOnSynced(k) ==
    /\ step' = After[k]
    /\ verdict' = IF k = "secret" THEN "Synced" ELSE ""
    /\ UNCHANGED <<snap, current>>

GoOn(k) ==
    /\ step' = After[k]
    /\ verdict' = IF k = "secret" THEN "Success" ELSE ""
    /\ UNCHANGED <<snap, current>>

\* Mutant of FindChild: whose child it is does not matter.
FindAnyChild(k) ==
    /\ step = k /\ cached[k] # NoObj
    /\ GoOn(k)
    /\ UNCHANGED <<srvVars, srvCache, childVars, cached, specVars, pending, events>>

\* The lister has the child: it must be controlled by this incarnation
\* (:166, :230, :267).
FindChild(k) ==
    /\ step = k /\ cached[k] # NoObj
    /\ \/ cached[k] = snap /\ GoOn(k)
       \/ /\ cached[k] # snap
          /\ step' = "report" /\ verdict' = "Error"
          /\ UNCHANGED <<snap, current>>
    /\ UNCHANGED <<srvVars, srvCache, childVars, cached, specVars, pending, events>>

\* The spec gives all that is needed to create the child.
Creatable(k) == k = "secret" => creds = "ready" /\ plugin # "none"

\* The lister has none, and Create works unless the API server has one.
CreateChild(k) ==
    /\ step = k /\ cached[k] = NoObj /\ Creatable(k)
    /\ \/ child[k] = NoObj /\ StoreChild(k, snap) /\ GoOn(k) /\ UNCHANGED srvVars
       \/ child[k] # NoObj /\ WriteTwice("Error", "Error") /\ UNCHANGED childVars
    /\ UNCHANGED <<srvCache, cached, specVars, pending, events>>

\* Another failure of Create.
CreateFails(k) ==
    /\ step = k /\ cached[k] = NoObj /\ Creatable(k)
    /\ Happens
    /\ WriteTwice("Error", "Error")
    /\ UNCHANGED <<srvCache, childVars, cached, specVars, pending>>

\* Absent credentials are an error to syncServer, but invalid ones are not:
\* syncServerSecret returns nil after it has written Error (:112-144).
NoCredentials ==
    /\ step = "secret" /\ cached["secret"] = NoObj
    /\ \/ creds = "absent" /\ WriteTwice("Pending", "Error")
       \/ creds = "invalid" /\ WriteTwice("Error", "Success")
    /\ UNCHANGED <<srvCache, childVars, cached, specVars, pending, events>>

\* The last status write (:89); an error leads to no retry of its own.
Report ==
    /\ step = "report"
    /\ WriteStatus(verdict)
    /\ step' = "idle" /\ snap' = NoObj /\ current' = FALSE /\ verdict' = ""
    /\ UNCHANGED <<born, srvCache, childVars, cached, specVars, pending, events>>

\* The process ends and starts again: the informers list everything.
Restart ==
    /\ srvCache' = (IF srv = NoObj THEN NoObj ELSE srv.uid) /\ srvNews' = <<>>
    /\ cached' = child /\ childNews' = [k \in Kinds |-> <<>>]
    /\ pending' = (srv # NoObj)
    /\ step' = "idle" /\ snap' = NoObj /\ current' = FALSE /\ verdict' = ""
    /\ UNCHANGED <<srv, born, child, made, specVars>>

Crash == Happens /\ Restart

\* ActivePlugin returns nil, and its method is called (:146).
Panic ==
    /\ step = "secret" /\ cached["secret"] = NoObj
    /\ creds = "ready" /\ plugin = "none"
    /\ Restart
    /\ UNCHANGED events

SyncStep ==
    \/ Start
    \/ \E k \in Kinds : FindChild(k) \/ CreateChild(k)
    \/ NoCredentials \/ Report \/ Panic

Next ==
    \/ UserServer \/ CredsArrive \/ DeliverServer \/ Resync \/ SyncStep \/ Crash
    \/ \E k \in Kinds : UserChild(k) \/ Collect(k) \/ DeliverChild(k) \/ CreateFails(k)

Spec == Init /\ [][Next]_vars

\* The workers run, events arrive, the informer resyncs, the garbage collector
\* works, and credentials come.  Users need not do anything.
Fairness ==
    /\ WF_vars(SyncStep) /\ WF_vars(DeliverServer) /\ WF_vars(Resync) /\ WF_vars(CredsArrive)
    /\ \A k \in Kinds : WF_vars(DeliverChild(k)) /\ WF_vars(Collect(k))

FairSpec == Spec /\ Fairness
-----------------------------------------------------------------------------
ServerTypeOK ==
    /\ srv \in Servers \cup {NoObj}
    /\ srvCache \in Uids \cup {NoObj} /\ snap \in Uids \cup {NoObj}
    /\ srvNews \in Seq(Uids \cup {NoObj})
    /\ born \in Uids
    /\ child \in [Kinds -> Children] /\ cached \in [Kinds -> Children]
    /\ childNews \in [Kinds -> Seq(Children)]
    /\ plugin \in Plugins /\ creds \in Creds \cup {"ready"}
    /\ pending \in BOOLEAN /\ current \in BOOLEAN
    /\ step \in Kinds \cup {"idle", "report"} /\ verdict \in States
    /\ made \subseteq Kinds
    /\ events \in 0..MaxEvents

Claims(k) == srv # NoObj /\ srv.state = "Success" /\ k \in Needed => k \in made

\* A server that says Success has had its own pod and service: not those of
\* an earlier incarnation that the lister still shows, nor a stranger's, and
\* the status was not meant for an earlier incarnation (:56-91, :176-291).
SuccessHasPodAndService == Claims("pod") /\ Claims("service")

\* The secret tells the Database controller that the server can be used
\* (databaseResource.go:118-124).  It is the last to come: a server with its
\* own secret has had its own pod and service, through failures, crashes,
\* stale listers and deletions (:56-87).
SecretComesLast ==
    srv # NoObj /\ child["secret"] = srv.uid => Needed \ {"secret"} \subseteq made

\* What keeps a server from being served: no plugin, or an object of the name
\* of a child that nobody will delete.
Blocked == \E k \in Needed : /\ child[k] \notin {NoObj, srv.uid}
                             /\ child[k] = Foreign \/ OwnerKind[k] # "DatabaseServer"

Served == srv.state = "Success" /\ \A k \in Needed : child[k] = srv.uid

\* Once users and faults are quiet, a server is served and says so, and stays
\* so: deleted children come back, Error and Pending are left behind, children
\* of earlier incarnations make way.
Recovers == <>[](srv = NoObj \/ plugin = "none" \/ Blocked \/ Served)

\* README.md:110 promises a Secret with the DSN to connect to the database:
\* a server that says Success has had one.
SuccessHasSecret == Claims("secret")
=============================================================================
