------------------------------ MODULE Endpoints ------------------------------
(***************************************************************************)
(* What the controller puts into the pod, the service and the secrets of   *)
(* DatabaseServers, and where the DSNs in them lead.  A DSN works because  *)
(* three objects agree that are made one after the other, by the code of   *)
(* different packages, and never compared with the spec again (the TODOs   *)
(* at databaseServerResource.go:172, :235 and :273): the DSN names the     *)
(* service, the service selects the pod by a label and a port, and the     *)
(* password is read once for the DSN and once for the pod.                 *)
(*                                                                         *)
(* When they are made, after which failure and for which incarnation, is   *)
(* the business of ServerSync and DatabaseSync: here a creation is a step, *)
(* in the order of syncServer, from the copy of the server that the sync   *)
(* has, and servers are edited but not deleted.  Children may be deleted.  *)
(* Each server has one Database, whose secret is made once its DSN works.  *)
(***************************************************************************)
EXTENDS Naturals

CONSTANTS None,       \* nil, "", or no such object
          Servers,    \* names of DatabaseServers
          Specs,      \* the specs users give
          UserLabels, \* the labels users give, or None
          Sources,    \* secrets and config maps with credentials
          Values,     \* credentials
          MaxEvents   \* bound: edits, rotations and deletions

\* The members of DatabaseServerPlugin; images are names with the port of a
\* registry and a tag, which may both be None.
Images == [name : {None, "custom"}, port : {None, 5000}, tag : {None, "t"}]
PodPlugins == [image : Images, version : {None, "v"}, dataVolume : {None, "data", "other"},
               configVolume : {None, "conf"}]
SpecType == [rds : {None, "postgres", "mysql", "other"},
             mySQL : PodPlugins \cup {None}, postgres : PodPlugins \cup {None},
             volumes : SUBSET {"data", "conf"}, dbHost : {None, "elsewhere"}, port : Nat,
             user : Values \cup {None}, userFrom : Sources \cup {None},
             password : Values \cup {None}, passwordFrom : Sources \cup {None}]
LabelKeys == {"app", "controller", "databaseserver"}
LabelValues == Servers \cup {"users"}
Labels == UNION {[K -> LabelValues] : K \in SUBSET LabelKeys}
Contents == Values \cup {"absent", "keyless"}

ASSUME EndpointsAssumption ==
    /\ Specs \subseteq SpecType
    /\ UserLabels \subseteq Labels \cup {None}
    /\ MaxEvents \in Nat

VARIABLES
    spec,    \* spec[n]: the spec of the server n in the API server
    labels,  \* labels[n]: and its labels
    copy,    \* copy[n]: the spec that the sync of n works on
    map,     \* map[n]: the labels of that copy, a map that the cache shares
    current, \* current[n]: the copy is the object in the API server
    pod, svc, sec, dbSec, \* the children of n and the secret of its Database
    running, \* running[n]: the password of the database in the pod, once up
    source,  \* source[f]: what the secret or config map f holds
    made,    \* history: the specs that the children of n are made from
    rotated, \* history: some source has changed after it had a value
    asked,   \* history: the labels that users have given n
    events

serverVars == <<spec, labels, asked>>
copyVars   == <<copy, map, current>>
childVars  == <<pod, svc, sec, dbSec, made>>
sourceVars == <<source, rotated>>
vars == <<serverVars, copyVars, childVars, running, sourceVars, events>>

Kinds == {"pod", "service", "secret", "database"}
-----------------------------------------------------------------------------
\* ActivePlugin, DatabasePlugin, and whether a plugin is a PodPlugin.
Defaults == [postgres |-> [image |-> "postgres", version |-> "10.4", port |-> 5432],
             mysql    |-> [image |-> "mysql", version |-> "5.6", port |-> 3306]]

ActivePlugin(s) ==
    CASE s.rds # None -> "rds"
      [] s.rds = None /\ s.mySQL # None -> "mysql"
      [] s.rds = None /\ s.mySQL = None /\ s.postgres # None -> "postgres"
      [] OTHER -> None

DatabasePlugin(s) ==
    IF ActivePlugin(s) # "rds" THEN ActivePlugin(s)
    ELSE IF s.rds \in {"mysql", "postgres"} THEN s.rds ELSE None

IsPodPlugin(s) == ActivePlugin(s) \in {"mysql", "postgres"}
Plugin(s) == IF ActivePlugin(s) = "mysql" THEN s.mySQL ELSE s.postgres

\* A colon anywhere in the image counts as a tag.
PodImage(p, default) ==
    [p.image EXCEPT !.name = IF @ = None THEN default.image ELSE @,
                    !.tag = IF @ # None \/ p.image.port # None THEN @
                            ELSE IF p.version = None THEN default.version ELSE p.version]

\* Mutant of PodContainerPort: the port is always the database's own.
OwnContainerPort(port, default) == default.port

PodContainerPort(port, default) == IF port = 0 THEN default.port ELSE port

AddMount(name) == IF name = None THEN {} ELSE {name}

Put(m, key, value) == [x \in DOMAIN m \cup {key} |-> IF x = key THEN value ELSE m[x]]

\* Mutant of ServerLabels: only the missing label is added.
ServerLabelsIfMissing(m, n) ==
    IF "databaseserver" \in DOMAIN m THEN Put(m, "controller", n)
    ELSE Put(Put(m, "controller", n), "databaseserver", n)

ServerLabels(m, n) == Put(Put(m, "controller", n), "databaseserver", n)

Own(m) == IF m = None THEN [x \in {} |-> None] ELSE m

\* CreatePod of PostgreSQL, and of MySQL, which mounts its configuration, too.
PostgresPod(s, m, n) ==
    LET p == Plugin(s)
        default == Defaults[ActivePlugin(s)]
    IN  [labels |-> ServerLabels(Own(m), n), plugin |-> ActivePlugin(s),
         image  |-> PodImage(p, default),
         value  |-> s.password, valueFrom |-> s.passwordFrom,
         port   |-> PodContainerPort(s.port, default),
         volumes |-> s.volumes, mounts |-> AddMount(p.dataVolume)]

MySQLPod(s, m, n) ==
    [PostgresPod(s, m, n) EXCEPT !.mounts = @ \cup AddMount(s.mySQL.configVolume)]

CreatePod(s, m, n) ==
    IF ActivePlugin(s) = "mysql" THEN MySQLPod(s, m, n) ELSE PostgresPod(s, m, n)

\* Mutant of Service: the port of the database, not that of the spec.
ServiceOfDefault(s, n) ==
    IF s.dbHost = None
    THEN [selector |-> n, external |-> None,
          port |-> IF IsPodPlugin(s) THEN Defaults[ActivePlugin(s)].port ELSE s.port]
    ELSE [selector |-> None, port |-> 0, external |-> s.dbHost]

\* syncService: to the pod, or to where the database is already.
Service(s, n) ==
    IF s.dbHost = None THEN [selector |-> n, port |-> s.port, external |-> None]
    ELSE [selector |-> None, port |-> 0, external |-> s.dbHost]

\* Dsn of the two plugins, for the superuser or for the admin of the Database
\* db.  PostgreSQL's puts the superuser's literals for what is empty.
PostgresDsn(s, user, password, db, n) ==
    [scheme |-> "postgres", host |-> n, port |-> s.port,
     user |-> IF user = None THEN s.user ELSE user,
     password |-> IF password = None THEN s.password ELSE password,
     database |-> IF db = None THEN "postgres" ELSE db]

MySQLDsn(s, user, password, n) ==
    [scheme |-> "mysql", host |-> n, port |-> s.port, user |-> user, password |-> password,
     database |-> "mysql"]

Dsn(s, user, password, db, n) ==
    IF DatabasePlugin(s) = "mysql" THEN MySQLDsn(s, user, password, n)
    ELSE PostgresDsn(s, user, password, db, n)

\* None is no object of any kind.
ASSUME NoneAssumption ==
    /\ None \notin Labels \cup Specs \cup Values
    /\ \A s \in Specs, n \in Servers :
          /\ Service(s, n) # None
          /\ \A m \in Labels \cup {None} : IsPodPlugin(s) => CreatePod(s, m, n) # None
          /\ \A user \in Values \cup {"admin"}, password \in Values \cup {"adminpw"},
                db \in {None, "db"} : Dsn(s, user, password, db, n) # None

\* What Kubernetes accepts: an environment variable has one value, mounts name
\* volumes of the pod, and a service has a port.
PodAccepted(p) == (p.value = None \/ p.valueFrom = None) /\ p.mounts \subseteq p.volumes
ServiceAccepted(s) == s.external # None \/ s.port # 0

\* Mutant of Resolves: that there is a source is enough.
ResolvesIfNamed(value, from) == value # None \/ from # None

\* getSecretFromValueSource: whether there is a value, and which.
Resolves(value, from) == value # None \/ (from # None /\ source[from] \in Values)
Resolved(value, from) == IF value # None THEN value ELSE source[from]
-----------------------------------------------------------------------------
Children == [Servers -> [Kinds -> Specs \cup {None}]]

Init ==
    /\ spec \in [Servers -> Specs] /\ labels \in [Servers -> UserLabels]
    /\ asked = labels /\ copy = spec /\ map = labels
    /\ current = [n \in Servers |-> TRUE]
    /\ pod = [n \in Servers |-> None] /\ svc = pod /\ sec = pod /\ dbSec = pod
    /\ running = pod
    /\ source \in [Sources -> Contents] /\ rotated = FALSE
    /\ made = [n \in Servers |-> [k \in Kinds |-> None]]
    /\ events = 0

Happens == events < MaxEvents /\ events' = events + 1

\* Users edit the spec or the labels of a server...
Edit(n) ==
    /\ Happens
    /\ \/ /\ \E s \in Specs \ {spec[n]} : spec' = [spec EXCEPT ![n] = s]
          /\ UNCHANGED <<labels, asked>>
       \/ /\ \E m \in UserLabels \ {asked[n]} :
                labels' = [labels EXCEPT ![n] = m] /\ asked' = [asked EXCEPT ![n] = m]
          /\ UNCHANGED spec
    /\ current' = [current EXCEPT ![n] = FALSE]
    /\ UNCHANGED <<copy, map, childVars, running, sourceVars>>

\* ...change what is in a source, delete children...
Rotate(f) ==
    /\ Happens
    /\ \E c \in Contents \ {source[f]} : source' = [source EXCEPT ![f] = c]
    /\ rotated' = (rotated \/ source[f] \in Values)
    /\ UNCHANGED <<serverVars, copyVars, childVars, running>>

DeleteChild(n, kind) ==
    /\ Happens
    /\ made[n][kind] # None
    /\ made' = [made EXCEPT ![n][kind] = None]
    /\ pod' = IF kind = "pod" THEN [pod EXCEPT ![n] = None] ELSE pod
    /\ running' = IF kind = "pod" THEN [running EXCEPT ![n] = None] ELSE running
    /\ svc' = IF kind = "service" THEN [svc EXCEPT ![n] = None] ELSE svc
    /\ sec' = IF kind = "secret" THEN [sec EXCEPT ![n] = None] ELSE sec
    /\ dbSec' = IF kind = "database" THEN [dbSec EXCEPT ![n] = None] ELSE dbSec
    /\ UNCHANGED <<serverVars, copyVars, sourceVars>>

\* ...and provide the sources that are missing.
SourceArrives(f) ==
    /\ source[f] \notin Values
    /\ \E v \in Values : source' = [source EXCEPT ![f] = v]
    /\ UNCHANGED <<serverVars, copyVars, childVars, running, rotated, events>>

\* The kubelet starts the pod once it can resolve the variable, and the image
\* gives its superuser that password.
Boot(n) ==
    /\ pod[n] # None /\ running[n] = None
    /\ Resolves(pod[n].value, pod[n].valueFrom)
    /\ running' = [running EXCEPT ![n] = Resolved(pod[n].value, pod[n].valueFrom)]
    /\ UNCHANGED <<serverVars, copyVars, childVars, sourceVars, events>>
-----------------------------------------------------------------------------
\* The next sync starts with the newest object.
Refresh(n) ==
    /\ ~current[n]
    /\ copy' = [copy EXCEPT ![n] = spec[n]]
    /\ map' = [map EXCEPT ![n] = labels[n]]
    /\ current' = [current EXCEPT ![n] = TRUE]
    /\ UNCHANGED <<serverVars, childVars, running, sourceVars, events>>

Made(n, kind) == made' = [made EXCEPT ![n][kind] = copy[n]]

\* objMeta and CreatePod add their labels to the map of the object, if it has one.
Mark(n, m) == map' = IF map[n] = None THEN map ELSE [map EXCEPT ![n] = m]

SyncPod(n) ==
    /\ IsPodPlugin(copy[n]) /\ pod[n] = None
    /\ Mark(n, ServerLabels(Own(map[n]), n))
    /\ LET p == CreatePod(copy[n], map[n], n)
       IN  IF PodAccepted(p) THEN pod' = [pod EXCEPT ![n] = p] /\ Made(n, "pod")
           ELSE UNCHANGED <<pod, made>>
    /\ UNCHANGED <<serverVars, copy, current, svc, sec, dbSec, running, sourceVars, events>>

HasPod(n) == IsPodPlugin(copy[n]) => pod[n] # None

SyncService(n) ==
    /\ HasPod(n) /\ svc[n] = None
    /\ Mark(n, Put(Own(map[n]), "controller", n))
    /\ LET s == Service(copy[n], n)
       IN  IF ServiceAccepted(s) THEN svc' = [svc EXCEPT ![n] = s] /\ Made(n, "service")
           ELSE UNCHANGED <<svc, made>>
    /\ UNCHANGED <<serverVars, copy, current, pod, sec, dbSec, running, sourceVars, events>>

\* Without a DatabasePlugin the process panics here.
SyncServerSecret(n) ==
    /\ HasPod(n) /\ svc[n] # None /\ sec[n] = None
    /\ LET s == copy[n]
       IN  /\ Resolves(s.user, s.userFrom) /\ Resolves(s.password, s.passwordFrom)
           /\ DatabasePlugin(s) # None
           /\ sec' = [sec EXCEPT ![n] = Dsn(s, Resolved(s.user, s.userFrom),
                                            Resolved(s.password, s.passwordFrom), None, n)]
    /\ Mark(n, Put(Own(map[n]), "controller", n))
    /\ Made(n, "secret")
    /\ UNCHANGED <<serverVars, copy, current, pod, svc, dbSec, running, sourceVars, events>>

\* Where a DSN leads: to an external database or, by the service, to the pods
\* with the label, on a port that they declare.
Selected(n) == {m \in Servers : pod[m] # None /\ pod[m].labels["databaseserver"] = svc[n].selector}
Leads(dsn) ==
    LET n == dsn.host
    IN  /\ svc[n] # None
        /\ \/ svc[n].external # None
           \/ /\ Selected(n) = {n}
              /\ dsn.port = svc[n].port /\ dsn.port = pod[n].port
              /\ dsn.scheme = pod[n].plugin
Connects(dsn) ==
    Leads(dsn) /\ (svc[dsn.host].external # None \/ running[dsn.host] = dsn.password)

\* getSecretByName: the secret of the server has its name and its DSN.
SuperuserDsn(n) == sec[n]

\* syncDatabase of the Database on n: when it has connected with the superuser's
\* DSN, it makes the secret for its admin.
SyncDatabaseSecret(n) ==
    /\ SuperuserDsn(n) # None /\ Connects(SuperuserDsn(n)) /\ dbSec[n] = None
    /\ DatabasePlugin(copy[n]) # None
    /\ dbSec' = [dbSec EXCEPT ![n] = Dsn(copy[n], "admin", "adminpw", "db", n)]
    /\ Made(n, "database")
    /\ UNCHANGED <<serverVars, copyVars, pod, svc, sec, running, sourceVars, events>>

\* Mutant of Report: the resource version is not compared.
ReportBlindly(n) ==
    /\ map[n] # labels[n]
    /\ labels' = [labels EXCEPT ![n] = map[n]]
    /\ UNCHANGED <<spec, asked, copyVars, childVars, running, sourceVars, events>>

\* The status Update sends the whole object, labels included.
Report(n) ==
    /\ current[n] /\ map[n] # labels[n]
    /\ labels' = [labels EXCEPT ![n] = map[n]]
    /\ UNCHANGED <<spec, asked, copyVars, childVars, running, sourceVars, events>>

Sync(n) ==
    SyncPod(n) \/ SyncService(n) \/ SyncServerSecret(n) \/ SyncDatabaseSecret(n) \/ Report(n)

Next ==
    \/ \E n \in Servers :
          \/ Edit(n) \/ Boot(n) \/ Refresh(n) \/ Sync(n)
          \/ \E kind \in Kinds : DeleteChild(n, kind)
    \/ \E f \in Sources : Rotate(f) \/ SourceArrives(f)

Spec == Init /\ [][Next]_vars

\* The resync starts syncs again and again (ServerSync, DatabaseSync), pods are
\* started, and users provide what is missing.
Fairness ==
    /\ \A n \in Servers :
          /\ WF_vars(Refresh(n)) /\ WF_vars(Boot(n)) /\ WF_vars(SyncPod(n))
          /\ WF_vars(SyncService(n)) /\ WF_vars(SyncServerSecret(n))
          /\ WF_vars(SyncDatabaseSecret(n))
    /\ \A f \in Sources : WF_vars(SourceArrives(f))

FairSpec == Spec /\ Fairness
-----------------------------------------------------------------------------
\* Every variable has the values that the code can give it.
EndpointsTypeOK ==
    /\ spec \in [Servers -> Specs] /\ copy \in [Servers -> Specs]
    /\ labels \in [Servers -> Labels \cup {None}] /\ map \in [Servers -> Labels \cup {None}]
    /\ asked \in [Servers -> UserLabels]
    /\ current \in [Servers -> BOOLEAN]
    /\ source \in [Sources -> Contents] /\ rotated \in BOOLEAN
    /\ running \in [Servers -> Values \cup {None}]
    /\ made \in Children
    /\ \A n \in Servers :
          /\ (pod[n] = None) = (made[n]["pod"] = None)
          /\ (svc[n] = None) = (made[n]["service"] = None)
          /\ (sec[n] = None) = (made[n]["secret"] = None)
          /\ (dbSec[n] = None) = (made[n]["database"] = None)
    /\ events \in 0..MaxEvents

\* The service of a server selects its pod and no other, whatever labels users
\* give the servers: CreatePod copies these to the pod (postgres.go:74-79).
ServiceSelectsOwnPod ==
    \A n, m \in Servers :
        svc[n] # None /\ svc[n].external = None /\ pod[m] # None =>
            (pod[m].labels["databaseserver"] = svc[n].selector) = (m = n)

\* The children that there are have been made from one spec.
OneSpec(n) == \A k, l \in Kinds : made[n][k] = made[n][l] \/ None \in {made[n][k], made[n][l]}

\* As long as no edit has come between the creation of two children, and no
\* source has changed, the DSNs of both secrets lead to the pod (or away from
\* the cluster) and the superuser's has the password of the database there.
DsnLeads ==
    \A n \in Servers :
        /\ OneSpec(n) /\ svc[n] # None
        /\ pod[n] # None \/ svc[n].external # None
        => /\ sec[n] # None => Leads(sec[n])
           /\ dbSec[n] # None => Leads(dbSec[n])
           /\ sec[n] # None /\ running[n] # None /\ ~rotated => running[n] = sec[n].password

\* Status writes send labels back, from a map that the controller writes to:
\* they never undo a user's, and add none but the controller's two.
LabelsAreTheUsers ==
    \A n \in Servers :
        /\ (labels[n] = None) = (asked[n] = None)
        /\ asked[n] # None =>
              /\ DOMAIN labels[n] \subseteq DOMAIN asked[n] \cup {"controller", "databaseserver"}
              /\ \A key \in DOMAIN asked[n] :
                    /\ key \in DOMAIN labels[n]
                    /\ labels[n][key] \in {asked[n][key], n}
                    /\ key = "app" => labels[n][key] = asked[n][key]

\* The excuses: specs that Kubernetes refuses, or that lack what a DSN needs.
Complete(s, n) ==
    /\ DatabasePlugin(s) # None
    /\ IsPodPlugin(s) => PodAccepted(CreatePod(s, None, n))
    /\ IsPodPlugin(s) \/ s.dbHost # None
    /\ ServiceAccepted(Service(s, n))
    /\ s.user # None \/ s.userFrom # None
    /\ s.password # None \/ s.passwordFrom # None

\* Once nobody interferes any more, a server with a complete spec can be
\* reached with its DSN, and the secret of its Database is made - unless its
\* children are from different specs or credentials, which nothing repairs.
EndpointOpens ==
    \A n \in Servers :
        <>[](\/ sec[n] # None /\ Connects(sec[n]) /\ dbSec[n] # None
             \/ ~OneSpec(n) \/ rotated \/ ~Complete(spec[n], n))
=============================================================================
