--------------------------- MODULE EndpointsProofs ---------------------------
(***************************************************************************)
(* The safety of Endpoints for all sets of servers, specs, labels, sources *)
(* and credentials, and every number of events.  What the children are is  *)
(* a function of the specs they are made from, which made remembers, and   *)
(* of what the sources hold, which stays while nothing is rotated; where   *)
(* these specs are one, the DSNs fit the service and the pod.              *)
(***************************************************************************)
EXTENDS Endpoints, TLAPS

Flags == current \in [Servers -> BOOLEAN] /\ rotated \in BOOLEAN
Maps ==
    /\ labels \in [Servers -> Labels \cup {None}] /\ map \in [Servers -> Labels \cup {None}]
    /\ asked \in [Servers -> UserLabels]
SpecsAre == spec \in [Servers -> Specs] /\ copy \in [Servers -> Specs]
SourcesAre == source \in [Sources -> Contents] /\ events \in 0..MaxEvents
ChildrenAre ==
    /\ pod = [n \in Servers |-> pod[n]] /\ svc = [n \in Servers |-> svc[n]]
    /\ sec = [n \in Servers |-> sec[n]] /\ dbSec = [n \in Servers |-> dbSec[n]]
    /\ made \in Children /\ running \in [Servers -> Values \cup {None}]
Types == Flags /\ Maps /\ SpecsAre /\ SourcesAre /\ ChildrenAre

\* How the labels of a copy may differ from those of the user.
Grown(m, a, n) ==
    /\ (m = None) = (a = None)
    /\ a # None =>
          /\ DOMAIN m \subseteq DOMAIN a \cup {"controller", "databaseserver"}
          /\ \A key \in DOMAIN a :
                /\ key \in DOMAIN m
                /\ m[key] \in {a[key], n}
                /\ key = "app" => m[key] = a[key]
LabelsGrow(n) ==
    Grown(labels[n], asked[n], n) /\ (current[n] => Grown(map[n], asked[n], n))

\* What each child has of the spec that it is made from.
PodOf(p, s, n) ==
    /\ IsPodPlugin(s) /\ p.plugin = ActivePlugin(s)
    /\ p.labels["databaseserver"] = n
    /\ p.port = PodContainerPort(s.port, Defaults[ActivePlugin(s)])
    /\ p.value = s.password /\ p.valueFrom = s.passwordFrom
ServiceOf(v, s, n) == v = Service(s, n) /\ ServiceAccepted(v)
DsnOf(d, s, n) ==
    /\ DatabasePlugin(s) # None /\ d.host = n /\ d.port = s.port
    /\ d.scheme = IF DatabasePlugin(s) = "mysql" THEN "mysql" ELSE "postgres"

PodIsMade(n) ==
    /\ (pod[n] = None) = (made[n]["pod"] = None)
    /\ pod[n] # None => PodOf(pod[n], made[n]["pod"], n)
ServiceIsMade(n) ==
    /\ (svc[n] = None) = (made[n]["service"] = None)
    /\ svc[n] # None => ServiceOf(svc[n], made[n]["service"], n)
SecretIsMade(n) ==
    /\ (sec[n] = None) = (made[n]["secret"] = None)
    /\ sec[n] # None => DsnOf(sec[n], made[n]["secret"], n)
    /\ (dbSec[n] = None) = (made[n]["database"] = None)
    /\ dbSec[n] # None => DsnOf(dbSec[n], made[n]["database"], n)
PasswordsAgree(n) ==
    /\ running[n] # None => pod[n] # None
    /\ ~rotated /\ running[n] # None =>
          /\ Resolves(pod[n].value, pod[n].valueFrom)
          /\ running[n] = Resolved(pod[n].value, pod[n].valueFrom)
    /\ ~rotated /\ sec[n] # None =>
          LET s == made[n]["secret"]
          IN  /\ Resolves(s.password, s.passwordFrom)
              /\ sec[n].password = Resolved(s.password, s.passwordFrom)

EndpointsInv ==
    /\ Types
    /\ \A n \in Servers :
          LabelsGrow(n) /\ PodIsMade(n) /\ ServiceIsMade(n) /\ SecretIsMade(n) /\ PasswordsAgree(n)
-----------------------------------------------------------------------------
\* The operators.
LEMMA PutIsLabels ==
    ASSUME NEW m \in Labels, NEW key \in LabelKeys, NEW n \in Servers
    PROVE  /\ Put(m, key, n) \in Labels
           /\ DOMAIN Put(m, key, n) = DOMAIN m \cup {key}
           /\ Put(m, key, n)[key] = n
           /\ \A x \in DOMAIN m : Put(m, key, n)[x] \in {m[x], n} /\ (x # key => Put(m, key, n)[x] = m[x])
  <1>1. PICK K \in SUBSET LabelKeys : m \in [K -> LabelValues]
    BY DEF Labels
  <1>2. K \cup {key} \in SUBSET LabelKeys /\ DOMAIN m = K /\ n \in LabelValues
    BY <1>1 DEF LabelValues
  <1>3. Put(m, key, n) \in [K \cup {key} -> LabelValues]
    BY <1>1, <1>2 DEF Put
  <1>4. Put(m, key, n) \in Labels
    BY <1>2, <1>3 DEF Labels
  <1>5. QED
    BY <1>2, <1>4 DEF Put

LEMMA OwnIsLabels ==
    ASSUME NEW m \in Labels \cup {None}
    PROVE  Own(m) \in Labels /\ (m # None => Own(m) = m)
  <1>1. [x \in {} |-> None] \in [{} -> LabelValues] /\ {} \in SUBSET LabelKeys
    OBVIOUS
  <1>2. [x \in {} |-> None] \in Labels
    BY <1>1 DEF Labels
  <1>3. QED
    BY <1>2 DEF Own

LEMMA PutGrows ==
    ASSUME NEW m \in Labels \cup {None}, NEW a \in UserLabels, NEW n \in Servers,
           NEW key \in {"controller", "databaseserver"}, Grown(m, a, n), m # None
    PROVE  Grown(Put(m, key, n), a, n)
  <1>1. m \in Labels /\ key \in LabelKeys
    BY DEF LabelKeys
  <1>2. /\ Put(m, key, n) # None
        /\ DOMAIN Put(m, key, n) = DOMAIN m \cup {key}
        /\ \A x \in DOMAIN m : Put(m, key, n)[x] \in {m[x], n} /\ (x # key => Put(m, key, n)[x] = m[x])
    BY <1>1, PutIsLabels, NoneAssumption
  <1>3. a # None /\ "app" # key
    BY DEF Grown
  <1>4. QED
    BY <1>2, <1>3 DEF Grown

LEMMA ServerLabelsGrow ==
    ASSUME NEW m \in Labels \cup {None}, NEW n \in Servers
    PROVE  /\ ServerLabels(Own(m), n) \in Labels
           /\ ServerLabels(Own(m), n)["databaseserver"] = n
           /\ \A a \in UserLabels : m # None /\ Grown(m, a, n) =>
                 Grown(ServerLabels(Own(m), n), a, n)
  <1>1. Own(m) \in Labels
    BY OwnIsLabels
  <1>2. "controller" \in LabelKeys /\ "databaseserver" \in LabelKeys
    BY DEF LabelKeys
  <1>3. Put(Own(m), "controller", n) \in Labels
    BY <1>1, <1>2, PutIsLabels
  <1>4. /\ ServerLabels(Own(m), n) \in Labels
        /\ ServerLabels(Own(m), n)["databaseserver"] = n
    BY <1>2, <1>3, PutIsLabels DEF ServerLabels
  <1>5. ASSUME NEW a \in UserLabels, m # None, Grown(m, a, n)
        PROVE  Grown(ServerLabels(Own(m), n), a, n)
    <2>1. Own(m) = m
      BY <1>5, OwnIsLabels
    <2>2. Grown(Put(m, "controller", n), a, n)
      BY <1>5, PutGrows
    <2>3. Put(m, "controller", n) # None
      BY <1>3, <2>1, NoneAssumption
    <2>4. QED
      BY <1>3, <2>1, <2>2, <2>3, PutGrows DEF ServerLabels
  <1>6. QED
    BY <1>4, <1>5

LEMMA CreatePodFacts ==
    ASSUME NEW s \in Specs, NEW m \in Labels \cup {None}, NEW n \in Servers, IsPodPlugin(s)
    PROVE  CreatePod(s, m, n) # None /\ PodOf(CreatePod(s, m, n), s, n)
  <1>1. CreatePod(s, m, n) # None
    BY NoneAssumption
  <1>2. PodOf(PostgresPod(s, m, n), s, n)
    <2>1. ServerLabels(Own(m), n)["databaseserver"] = n
      BY ServerLabelsGrow
    <2>2. QED
      BY <2>1 DEF PostgresPod, PodOf
  <1>3. PodOf(MySQLPod(s, m, n), s, n)
    BY <1>2 DEF MySQLPod, PodOf, PostgresPod
  <1>4. QED
    BY <1>1, <1>2, <1>3 DEF CreatePod

LEMMA DsnFacts ==
    ASSUME NEW s \in Specs, NEW n \in Servers, NEW user \in Values \cup {"admin"},
           NEW password \in Values \cup {"adminpw"}, NEW db \in {None, "db"},
           DatabasePlugin(s) # None
    PROVE  /\ Dsn(s, user, password, db, n) # None
           /\ DsnOf(Dsn(s, user, password, db, n), s, n)
           /\ password # None => Dsn(s, user, password, db, n).password = password
  <1>1. Dsn(s, user, password, db, n) # None
    BY NoneAssumption
  <1>2. QED
    BY <1>1 DEF Dsn, MySQLDsn, PostgresDsn, DsnOf

LEMMA ResolvedIsValue ==
    ASSUME SourcesAre, NEW value \in Values \cup {None}, NEW from \in Sources \cup {None},
           Resolves(value, from)
    PROVE  Resolved(value, from) \in Values
  BY DEF Resolves, Resolved

\* What a spec has for the credentials.
LEMMA CredentialTypes ==
    ASSUME NEW s \in Specs
    PROVE  /\ s.user \in Values \cup {None} /\ s.userFrom \in Sources \cup {None}
           /\ s.password \in Values \cup {None} /\ s.passwordFrom \in Sources \cup {None}
           /\ s.port \in Nat
  BY EndpointsAssumption DEF SpecType
-----------------------------------------------------------------------------
\* Every action keeps the invariant.
LEMMA TypeGroups ==
    ASSUME Types
    PROVE  /\ UNCHANGED <<current, rotated>> => Flags'
           /\ UNCHANGED <<labels, map, asked>> => Maps'
           /\ UNCHANGED <<spec, copy>> => SpecsAre'
           /\ UNCHANGED childVars /\ UNCHANGED running => ChildrenAre'
           /\ UNCHANGED source /\ UNCHANGED events => SourcesAre'
           /\ UNCHANGED source /\ Happens => SourcesAre'
  <1>1. UNCHANGED <<current, rotated>> => Flags'
    BY DEF Types, Flags
  <1>2. UNCHANGED <<labels, map, asked>> => Maps'
    BY DEF Types, Maps
  <1>3. UNCHANGED <<spec, copy>> => SpecsAre'
    BY DEF Types, SpecsAre
  <1>4. UNCHANGED childVars /\ UNCHANGED running => ChildrenAre'
    BY DEF Types, ChildrenAre, childVars
  <1>5. Happens => events' \in 0..MaxEvents
    <2>1. MaxEvents \in Nat
      BY EndpointsAssumption
    <2>2. events \in 0..MaxEvents
      BY DEF Types, SourcesAre
    <2>3. QED
      BY <2>1, <2>2 DEF Happens
  <1>6. (UNCHANGED source /\ UNCHANGED events => SourcesAre')
        /\ (UNCHANGED source /\ Happens => SourcesAre')
    BY <1>5 DEF Types, SourcesAre
  <1>7. QED
    BY <1>1, <1>2, <1>3, <1>4, <1>6

\* The children are what they were while they, made and the sources stay.
Kept(n) == PodIsMade(n) /\ ServiceIsMade(n) /\ SecretIsMade(n) /\ PasswordsAgree(n)

LEMMA ChildrenStay ==
    ASSUME EndpointsInv, NEW n \in Servers, UNCHANGED <<childVars, running, sourceVars>>
    PROVE  Kept(n)'
  <1>1. PodIsMade(n)' /\ ServiceIsMade(n)' /\ SecretIsMade(n)'
    BY DEF EndpointsInv, PodIsMade, ServiceIsMade, SecretIsMade, childVars
  <1>2. PasswordsAgree(n)'
    BY DEF EndpointsInv, PasswordsAgree, Resolves, Resolved, childVars, sourceVars
  <1>3. QED
    BY <1>1, <1>2 DEF Kept

LEMMA LabelsStay ==
    ASSUME EndpointsInv, NEW n \in Servers,
           labels'[n] = labels[n], asked'[n] = asked[n],
           current'[n] => current[n] /\ map'[n] = map[n]
    PROVE  LabelsGrow(n)'
  BY DEF EndpointsInv, LabelsGrow, Grown

LEMMA EditIsWell ==
    ASSUME EndpointsInv, NEW n \in Servers, Edit(n)
    PROVE  EndpointsInv'
  <1>t. Types /\ Flags /\ Maps /\ SpecsAre
    BY DEF EndpointsInv, Types
  <1>1. current' = [current EXCEPT ![n] = FALSE] /\ UNCHANGED <<copy, map>>
    BY DEF Edit
  <1>2. Types'
    <2>1. SpecsAre' /\ Maps'
      <3>1. CASE UNCHANGED <<labels, asked>> /\ \E s \in Specs : spec' = [spec EXCEPT ![n] = s]
        BY <1>1, <1>t, <3>1 DEF SpecsAre, Maps
      <3>2. CASE UNCHANGED spec /\ \E m \in UserLabels :
                     labels' = [labels EXCEPT ![n] = m] /\ asked' = [asked EXCEPT ![n] = m]
        BY <1>1, <1>t, <3>2, EndpointsAssumption DEF SpecsAre, Maps
      <3>3. QED
        BY <3>1, <3>2 DEF Edit
    <2>2. Flags'
      BY <1>1, <1>t DEF Flags, Edit, sourceVars
    <2>3. QED
      BY <1>t, <2>1, <2>2, TypeGroups DEF Edit, Types, sourceVars
  <1>3. ASSUME NEW m \in Servers PROVE LabelsGrow(m)' /\ Kept(m)'
    <2>1. Kept(m)'
      BY ChildrenStay DEF Edit
    <2>2. CASE UNCHANGED <<labels, asked>>
      <3>1. current'[m] => current[m]
        BY <1>1, <1>t DEF Flags
      <3>2. QED
        BY <1>1, <2>1, <2>2, <3>1, LabelsStay
    <2>3. CASE \E x \in UserLabels :
                   labels' = [labels EXCEPT ![n] = x] /\ asked' = [asked EXCEPT ![n] = x]
      <3>1. CASE m = n
        <4>1. labels'[n] = asked'[n] /\ ~current'[n]
          BY <1>1, <1>t, <2>3 DEF Maps, Flags
        <4>2. LabelsGrow(n)'
          BY <4>1 DEF LabelsGrow, Grown
        <4>3. QED
          BY <2>1, <3>1, <4>2
      <3>2. CASE m # n
        <4>1. /\ labels'[m] = labels[m] /\ asked'[m] = asked[m] /\ map'[m] = map[m]
              /\ current'[m] = current[m]
          BY <1>1, <1>t, <2>3, <3>2 DEF Maps, Flags
        <4>2. QED
          BY <2>1, <4>1, LabelsStay
      <3>3. QED
        BY <3>1, <3>2
    <2>4. QED
      BY <2>2, <2>3 DEF Edit
  <1>4. QED
    BY <1>2, <1>3 DEF EndpointsInv, Kept

\* Credentials: a source that has had a value is only changed by Rotate.
LEMMA SourceIsWell ==
    ASSUME EndpointsInv, NEW f \in Sources, Rotate(f) \/ SourceArrives(f)
    PROVE  EndpointsInv'
  <1>t. Types /\ Flags /\ SourcesAre
    BY DEF EndpointsInv, Types
  <1>1. UNCHANGED <<serverVars, copyVars, childVars, running>>
    BY DEF Rotate, SourceArrives
  <1>2. PICK c \in Contents : source' = [source EXCEPT ![f] = c]
    BY DEF Rotate, SourceArrives, Contents
  <1>3. Types'
    <2>1. source' \in [Sources -> Contents]
      BY <1>2, <1>t DEF SourcesAre
    <2>2. rotated' \in BOOLEAN
      BY <1>t DEF Rotate, SourceArrives, Flags
    <2>3. events' \in 0..MaxEvents
      <3>1. MaxEvents \in Nat
        BY EndpointsAssumption
      <3>2. events \in 0..MaxEvents
        BY <1>t DEF SourcesAre
      <3>3. QED
        BY <3>1, <3>2 DEF Rotate, SourceArrives, Happens
    <2>4. QED
      BY <1>1, <1>t, <2>1, <2>2, <2>3, TypeGroups
         DEF Types, Flags, SourcesAre, serverVars, copyVars
  <1>4. ~rotated' => /\ ~rotated
                     /\ \A g \in Sources : source[g] \in Values => source'[g] = source[g]
    <2>1. CASE Rotate(f)
      BY <1>2, <1>t, <2>1 DEF Rotate, SourcesAre, Flags
    <2>2. CASE SourceArrives(f)
      BY <1>2, <1>t, <2>2 DEF SourceArrives, SourcesAre, Flags
    <2>3. QED
      BY <2>1, <2>2
  <1>5. ASSUME NEW value, NEW from, from \in Sources \cup {None}, ~rotated', Resolves(value, from)
        PROVE  Resolves(value, from)' /\ Resolved(value, from)' = Resolved(value, from)
    BY <1>4, <1>5 DEF Resolves, Resolved
  <1>6. ASSUME NEW m \in Servers PROVE LabelsGrow(m)' /\ Kept(m)'
    <2>1. LabelsGrow(m)'
      BY <1>1, LabelsStay DEF serverVars, copyVars
    <2>2. PodIsMade(m)' /\ ServiceIsMade(m)' /\ SecretIsMade(m)'
      BY <1>1 DEF EndpointsInv, PodIsMade, ServiceIsMade, SecretIsMade, childVars
    <2>3. PasswordsAgree(m)'
      <3> DEFINE s == made[m]["secret"]
      <3>1. PasswordsAgree(m) /\ PodIsMade(m) /\ SecretIsMade(m)
        BY DEF EndpointsInv
      <3>2. pod' = pod /\ sec' = sec /\ made' = made /\ running' = running
        BY <1>1 DEF childVars
      <3>3. made \in Children
        BY <1>t DEF Types, ChildrenAre
      <3>4. sec[m] # None => s.passwordFrom \in Sources \cup {None}
        <4>1. sec[m] # None => s \in Specs
          BY <3>1, <3>3 DEF SecretIsMade, Children, Kinds
        <4>2. QED
          BY <4>1, CredentialTypes
      <3>5. pod[m] # None => pod[m].valueFrom \in Sources \cup {None}
        <4>1. pod[m] # None => made[m]["pod"] \in Specs
          BY <3>1, <3>3 DEF PodIsMade, Children, Kinds
        <4>2. pod[m] # None => pod[m].valueFrom = made[m]["pod"].passwordFrom
          BY <3>1 DEF PodIsMade, PodOf
        <4>3. QED
          BY <4>1, <4>2, CredentialTypes
      <3>6. ~rotated' /\ running[m] # None =>
                /\ Resolves(pod[m].value, pod[m].valueFrom)'
                /\ running[m] = Resolved(pod[m].value, pod[m].valueFrom)'
        BY <1>4, <3>1, <3>2, <3>5 DEF PasswordsAgree, Resolves, Resolved
      <3>7. ~rotated' /\ sec[m] # None =>
                /\ Resolves(s.password, s.passwordFrom)'
                /\ sec[m].password = Resolved(s.password, s.passwordFrom)'
        BY <1>4, <3>1, <3>2, <3>4 DEF PasswordsAgree, Resolves, Resolved
      <3>8. QED
        BY <3>1, <3>2, <3>6, <3>7 DEF PasswordsAgree
    <2>4. QED
      BY <2>1, <2>2, <2>3 DEF Kept
  <1>7. QED
    BY <1>3, <1>6 DEF EndpointsInv, Kept

\* A child is deleted, or made: the others are what they were.
LEMMA MadeFacts ==
    ASSUME Types, NEW n \in Servers, NEW kind \in Kinds, NEW x \in Specs \cup {None},
           made' = [made EXCEPT ![n][kind] = x]
    PROVE  /\ made' \in Children /\ made'[n][kind] = x
           /\ \A k \in Kinds \ {kind} : made'[n][k] = made[n][k]
           /\ \A m \in Servers \ {n} : made'[m] = made[m]
  <1>1. made \in [Servers -> [Kinds -> Specs \cup {None}]]
    BY DEF Types, ChildrenAre, Children
  <1>2. made' = [made EXCEPT ![n] = [made[n] EXCEPT ![kind] = x]]
    OBVIOUS
  <1>3. [made[n] EXCEPT ![kind] = x] \in [Kinds -> Specs \cup {None}]
    BY <1>1
  <1>4. QED
    BY <1>1, <1>2, <1>3 DEF Children

LEMMA DeleteIsWell ==
    ASSUME EndpointsInv, NEW n \in Servers, NEW kind \in Kinds, DeleteChild(n, kind)
    PROVE  EndpointsInv'
  <1>t. Types /\ ChildrenAre
    BY DEF EndpointsInv, Types
  <1>1. UNCHANGED <<serverVars, copyVars, sourceVars>> /\ Happens
    BY DEF DeleteChild
  <1>2. /\ made' \in Children /\ made'[n][kind] = None
        /\ \A k \in Kinds \ {kind} : made'[n][k] = made[n][k]
        /\ \A m \in Servers \ {n} : made'[m] = made[m]
    BY <1>t, MadeFacts DEF DeleteChild
  <1>3. /\ \A m \in Servers : pod'[m] = IF m = n /\ kind = "pod" THEN None ELSE pod[m]
        /\ \A m \in Servers : svc'[m] = IF m = n /\ kind = "service" THEN None ELSE svc[m]
        /\ \A m \in Servers : sec'[m] = IF m = n /\ kind = "secret" THEN None ELSE sec[m]
        /\ \A m \in Servers : dbSec'[m] = IF m = n /\ kind = "database" THEN None ELSE dbSec[m]
        /\ \A m \in Servers : running'[m] = IF m = n /\ kind = "pod" THEN None ELSE running[m]
    BY <1>t DEF DeleteChild, ChildrenAre
  <1>4. ChildrenAre'
    BY <1>t, <1>2 DEF DeleteChild, ChildrenAre
  <1>5. Types'
    BY <1>1, <1>t, <1>4, TypeGroups DEF Types, serverVars, copyVars, sourceVars
  <1>6. ASSUME NEW m \in Servers PROVE LabelsGrow(m)' /\ Kept(m)'
    <2>1. PodIsMade(m) /\ ServiceIsMade(m) /\ SecretIsMade(m) /\ PasswordsAgree(m)
      BY DEF EndpointsInv
    <2>2. LabelsGrow(m)'
      BY <1>1, LabelsStay DEF serverVars, copyVars
    <2>3. PodIsMade(m)'
      BY <1>2, <1>3, <2>1 DEF PodIsMade, Kinds
    <2>4. ServiceIsMade(m)'
      BY <1>2, <1>3, <2>1 DEF ServiceIsMade, Kinds
    <2>5. SecretIsMade(m)'
      BY <1>2, <1>3, <2>1 DEF SecretIsMade, Kinds
    <2>6. PasswordsAgree(m)'
      <3>1. source' = source /\ rotated' = rotated
        BY <1>1 DEF sourceVars
      <3>2. running'[m] # None => running'[m] = running[m] /\ pod'[m] = pod[m]
        BY <1>3
      <3>3. sec'[m] # None => sec'[m] = sec[m] /\ made'[m]["secret"] = made[m]["secret"]
        BY <1>2, <1>3 DEF Kinds
      <3>4. QED
        BY <2>1, <3>1, <3>2, <3>3 DEF PasswordsAgree, Resolves, Resolved
    <2>7. QED
      BY <2>2, <2>3, <2>4, <2>5, <2>6 DEF Kept
  <1>7. QED
    BY <1>5, <1>6 DEF EndpointsInv, Kept

LEMMA BootIsWell ==
    ASSUME EndpointsInv, NEW n \in Servers, Boot(n)
    PROVE  EndpointsInv'
  <1>t. Types /\ ChildrenAre /\ SourcesAre
    BY DEF EndpointsInv, Types
  <1>1. UNCHANGED <<serverVars, copyVars, childVars, sourceVars, events>>
    BY DEF Boot
  <1>2. /\ pod[n] # None /\ Resolves(pod[n].value, pod[n].valueFrom)
        /\ running' = [running EXCEPT ![n] = Resolved(pod[n].value, pod[n].valueFrom)]
    BY DEF Boot
  <1>3. Resolved(pod[n].value, pod[n].valueFrom) \in Values
    <2>1. /\ pod[n].value = made[n]["pod"].password
          /\ pod[n].valueFrom = made[n]["pod"].passwordFrom
          /\ made[n]["pod"] \in Specs
      BY <1>t, <1>2 DEF EndpointsInv, PodIsMade, PodOf, ChildrenAre, Children, Kinds
    <2>2. QED
      BY <1>2, <1>t, <2>1, CredentialTypes, ResolvedIsValue
  <1>4. /\ running' \in [Servers -> Values \cup {None}]
        /\ running'[n] = Resolved(pod[n].value, pod[n].valueFrom)
        /\ \A m \in Servers \ {n} : running'[m] = running[m]
    BY <1>t, <1>2, <1>3 DEF ChildrenAre
  <1>5. ChildrenAre'
    BY <1>1, <1>t, <1>4 DEF ChildrenAre, childVars
  <1>6. Types'
    BY <1>1, <1>t, <1>5, TypeGroups DEF Types, serverVars, copyVars, sourceVars
  <1>7. ASSUME NEW m \in Servers PROVE LabelsGrow(m)' /\ Kept(m)'
    <2>1. PodIsMade(m) /\ ServiceIsMade(m) /\ SecretIsMade(m) /\ PasswordsAgree(m)
      BY DEF EndpointsInv
    <2>2. LabelsGrow(m)'
      BY <1>1, LabelsStay DEF serverVars, copyVars
    <2>3. PodIsMade(m)' /\ ServiceIsMade(m)' /\ SecretIsMade(m)'
      BY <1>1, <2>1 DEF PodIsMade, ServiceIsMade, SecretIsMade, childVars
    <2>4. PasswordsAgree(m)'
      <3>1. /\ source' = source /\ rotated' = rotated /\ pod' = pod /\ sec' = sec
            /\ made' = made
        BY <1>1 DEF sourceVars, childVars
      <3>2. CASE m = n
        BY <1>2, <1>4, <2>1, <3>1, <3>2 DEF PasswordsAgree, Resolves, Resolved
      <3>3. CASE m # n
        BY <1>4, <2>1, <3>1, <3>3 DEF PasswordsAgree, Resolves, Resolved
      <3>4. QED
        BY <3>2, <3>3
    <2>5. QED
      BY <2>2, <2>3, <2>4 DEF Kept
  <1>8. QED
    BY <1>6, <1>7 DEF EndpointsInv, Kept

LEMMA CopyIsWell ==
    ASSUME EndpointsInv, NEW n \in Servers, Refresh(n) \/ Report(n)
    PROVE  EndpointsInv'
  <1>t. Types /\ Flags /\ Maps /\ SpecsAre
    BY DEF EndpointsInv, Types
  <1>1. UNCHANGED <<spec, asked, childVars, running, sourceVars, events>>
    BY DEF Refresh, Report, serverVars
  <1>2. Types'
    <2>1. Maps'
      BY <1>t DEF Refresh, Report, Maps, serverVars, copyVars
    <2>2. SpecsAre' /\ Flags'
      BY <1>t DEF Refresh, Report, SpecsAre, Flags, serverVars, copyVars, sourceVars
    <2>3. QED
      BY <1>1, <1>t, <2>1, <2>2, TypeGroups DEF Types, sourceVars
  <1>3. ASSUME NEW m \in Servers PROVE LabelsGrow(m)' /\ Kept(m)'
    <2>1. Kept(m)'
      BY <1>1, ChildrenStay
    <2>2. LabelsGrow(m)
      BY DEF EndpointsInv
    <2>3. CASE Refresh(n)
      <3>1. CASE m = n
        <4>1. labels'[n] = labels[n] /\ asked'[n] = asked[n] /\ map'[n] = labels[n]
          BY <1>t, <2>3 DEF Refresh, Maps, serverVars
        <4>2. QED
          BY <2>1, <2>2, <3>1, <4>1 DEF LabelsGrow, Grown
      <3>2. CASE m # n
        <4>1. /\ labels'[m] = labels[m] /\ asked'[m] = asked[m]
              /\ map'[m] = map[m] /\ current'[m] = current[m]
          BY <1>t, <2>3, <3>2 DEF Refresh, Maps, Flags, serverVars
        <4>2. QED
          BY <2>1, <4>1, LabelsStay
      <3>3. QED
        BY <3>1, <3>2
    <2>4. CASE Report(n)
      <3>1. CASE m = n
        <4>1. /\ labels'[n] = map[n] /\ asked'[n] = asked[n] /\ map'[n] = map[n]
              /\ current[n] /\ current'[n] = current[n]
          BY <1>t, <2>4 DEF Report, Maps, copyVars
        <4>2. QED
          BY <2>1, <2>2, <3>1, <4>1 DEF LabelsGrow, Grown
      <3>2. CASE m # n
        <4>1. /\ labels'[m] = labels[m] /\ asked'[m] = asked[m]
              /\ map'[m] = map[m] /\ current'[m] = current[m]
          BY <1>t, <2>4, <3>2 DEF Report, Maps, Flags, copyVars
        <4>2. QED
          BY <2>1, <4>1, LabelsStay
      <3>3. QED
        BY <3>1, <3>2
    <2>5. QED
      BY <2>3, <2>4
  <1>4. QED
    BY <1>2, <1>3 DEF EndpointsInv, Kept

\* The controller's labels go to the copy's map, which keeps the users'.
LEMMA MarkIsWell ==
    ASSUME EndpointsInv, NEW n \in Servers, NEW x \in Labels, Mark(n, x),
           \A a \in UserLabels : map[n] # None /\ Grown(map[n], a, n) => Grown(x, a, n),
           UNCHANGED <<serverVars, current>>
    PROVE  Maps' /\ \A m \in Servers : LabelsGrow(m)'
  <1>t. Maps
    BY DEF EndpointsInv, Types
  <1>1. map' = map \/ (map[n] # None /\ map' = [map EXCEPT ![n] = x])
    BY DEF Mark
  <1>2. Maps'
    BY <1>t, <1>1 DEF Maps, serverVars
  <1>3. ASSUME NEW m \in Servers PROVE LabelsGrow(m)'
    <2>1. labels'[m] = labels[m] /\ asked'[m] = asked[m] /\ current'[m] = current[m]
      BY DEF serverVars
    <2>2. LabelsGrow(m) /\ asked[m] \in UserLabels
      BY <1>t DEF EndpointsInv, Maps
    <2>3. CASE map'[m] = map[m]
      BY <2>1, <2>3, LabelsStay
    <2>4. CASE map'[m] # map[m]
      <3>1. m = n /\ map[n] # None /\ map'[m] = x
        BY <1>1, <1>t, <2>4 DEF Maps
      <3>2. current[m] => Grown(x, asked[m], m)
        BY <2>2, <3>1 DEF LabelsGrow
      <3>3. QED
        BY <2>1, <2>2, <3>1, <3>2 DEF LabelsGrow, Grown
    <2>5. QED
      BY <2>3, <2>4
  <1>4. QED
    BY <1>2, <1>3

LEMMA ControllerLabel ==
    ASSUME EndpointsInv, NEW n \in Servers
    PROVE  /\ Put(Own(map[n]), "controller", n) \in Labels
           /\ \A a \in UserLabels : map[n] # None /\ Grown(map[n], a, n) =>
                 Grown(Put(Own(map[n]), "controller", n), a, n)
  <1>1. map[n] \in Labels \cup {None}
    BY DEF EndpointsInv, Types, Maps
  <1>2. Own(map[n]) \in Labels /\ (map[n] # None => Own(map[n]) = map[n])
    BY <1>1, OwnIsLabels
  <1>3. "controller" \in LabelKeys
    BY DEF LabelKeys
  <1>4. QED
    BY <1>1, <1>2, <1>3, PutIsLabels, PutGrows

LEMMA SyncPodIsWell ==
    ASSUME EndpointsInv, NEW n \in Servers, SyncPod(n)
    PROVE  EndpointsInv'
  <1>t. Types /\ Maps /\ SpecsAre /\ ChildrenAre
    BY DEF EndpointsInv, Types
  <1>1. /\ IsPodPlugin(copy[n]) /\ pod[n] = None
        /\ copy[n] \in Specs /\ map[n] \in Labels \cup {None}
        /\ Mark(n, ServerLabels(Own(map[n]), n))
        /\ UNCHANGED <<serverVars, copy, current, svc, sec, dbSec, running, sourceVars, events>>
    BY <1>t DEF SyncPod, SpecsAre, Maps
  <1>2. Maps' /\ \A m \in Servers : LabelsGrow(m)'
    BY <1>1, MarkIsWell, ServerLabelsGrow
  <1>3. CASE UNCHANGED <<pod, made>>
    <2>1. UNCHANGED childVars
      BY <1>1, <1>3 DEF childVars
    <2>2. Types'
      BY <1>1, <1>2, <1>t, <2>1, TypeGroups DEF Types, serverVars, sourceVars
    <2>3. \A m \in Servers : Kept(m)'
      BY <1>1, <2>1, ChildrenStay
    <2>4. QED
      BY <1>2, <2>2, <2>3 DEF EndpointsInv, Kept
  <1>4. CASE pod' = [pod EXCEPT ![n] = CreatePod(copy[n], map[n], n)] /\ Made(n, "pod")
    <2> DEFINE p == CreatePod(copy[n], map[n], n)
    <2>1. p # None /\ PodOf(p, copy[n], n)
      BY <1>1, CreatePodFacts
    <2> HIDE DEF p
    <2>2. pod'[n] = p /\ \A m \in Servers \ {n} : pod'[m] = pod[m]
      BY <1>t, <1>4 DEF ChildrenAre, p
    <2>3. /\ made' \in Children /\ made'[n]["pod"] = copy[n] /\ copy[n] # None
          /\ \A k \in Kinds \ {"pod"} : made'[n][k] = made[n][k]
          /\ \A m \in Servers \ {n} : made'[m] = made[m]
      BY <1>1, <1>4, <1>t, MadeFacts, NoneAssumption DEF Made, Kinds
    <2>4. ChildrenAre'
      BY <1>1, <1>4, <1>t, <2>3 DEF ChildrenAre
    <2>5. Types'
      BY <1>1, <1>2, <1>t, <2>4, TypeGroups DEF Types, serverVars, sourceVars
    <2>6. ASSUME NEW m \in Servers PROVE Kept(m)'
      <3>1. PodIsMade(m) /\ ServiceIsMade(m) /\ SecretIsMade(m) /\ PasswordsAgree(m)
        BY DEF EndpointsInv
      <3>2. /\ svc' = svc /\ sec' = sec /\ dbSec' = dbSec /\ running' = running
            /\ source' = source /\ rotated' = rotated
            /\ \A k \in Kinds \ {"pod"} : made'[m][k] = made[m][k]
        BY <1>1, <2>3 DEF sourceVars
      <3>3. PodIsMade(m)'
        <4>1. CASE m = n
          BY <2>1, <2>2, <2>3, <4>1 DEF PodIsMade
        <4>2. CASE m # n
          BY <2>2, <2>3, <3>1, <4>2 DEF PodIsMade
        <4>3. QED
          BY <4>1, <4>2
      <3>4. ServiceIsMade(m)' /\ SecretIsMade(m)'
        BY <3>1, <3>2 DEF ServiceIsMade, SecretIsMade, Kinds
      <3>5. PasswordsAgree(m)'
        <4>1. running[m] # None => pod'[m] = pod[m]
          BY <1>1, <2>2, <3>1 DEF PasswordsAgree
        <4>2. QED
          BY <3>1, <3>2, <4>1 DEF PasswordsAgree, Resolves, Resolved, Kinds
      <3>6. QED
        BY <3>3, <3>4, <3>5 DEF Kept
    <2>7. QED
      BY <1>2, <2>5, <2>6 DEF EndpointsInv, Kept
  <1>5. QED
    BY <1>3, <1>4 DEF SyncPod

LEMMA SyncServiceIsWell ==
    ASSUME EndpointsInv, NEW n \in Servers, SyncService(n)
    PROVE  EndpointsInv'
  <1>t. Types /\ Maps /\ SpecsAre /\ ChildrenAre
    BY DEF EndpointsInv, Types
  <1>1. /\ copy[n] \in Specs
        /\ Mark(n, Put(Own(map[n]), "controller", n))
        /\ UNCHANGED <<serverVars, copy, current, pod, sec, dbSec, running, sourceVars, events>>
    BY <1>t DEF SyncService, SpecsAre
  <1>2. Maps' /\ \A m \in Servers : LabelsGrow(m)'
    BY <1>1, ControllerLabel, MarkIsWell
  <1>3. CASE UNCHANGED <<svc, made>>
    <2>1. UNCHANGED childVars
      BY <1>1, <1>3 DEF childVars
    <2>2. Types'
      BY <1>1, <1>2, <1>t, <2>1, TypeGroups DEF Types, serverVars, sourceVars
    <2>3. \A m \in Servers : Kept(m)'
      BY <1>1, <2>1, ChildrenStay
    <2>4. QED
      BY <1>2, <2>2, <2>3 DEF EndpointsInv, Kept
  <1>4. CASE /\ ServiceAccepted(Service(copy[n], n))
             /\ svc' = [svc EXCEPT ![n] = Service(copy[n], n)] /\ Made(n, "service")
    <2>1. Service(copy[n], n) # None
      BY <1>1, NoneAssumption
    <2>2. /\ svc'[n] = Service(copy[n], n)
          /\ \A m \in Servers \ {n} : svc'[m] = svc[m]
      BY <1>t, <1>4 DEF ChildrenAre
    <2>3. /\ made' \in Children /\ made'[n]["service"] = copy[n] /\ copy[n] # None
          /\ \A k \in Kinds \ {"service"} : made'[n][k] = made[n][k]
          /\ \A m \in Servers \ {n} : made'[m] = made[m]
      BY <1>1, <1>4, <1>t, MadeFacts, NoneAssumption DEF Made, Kinds
    <2>4. ChildrenAre'
      BY <1>1, <1>4, <1>t, <2>3 DEF ChildrenAre
    <2>5. Types'
      BY <1>1, <1>2, <1>t, <2>4, TypeGroups DEF Types, serverVars, sourceVars
    <2>6. ASSUME NEW m \in Servers PROVE Kept(m)'
      <3>1. PodIsMade(m) /\ ServiceIsMade(m) /\ SecretIsMade(m) /\ PasswordsAgree(m)
        BY DEF EndpointsInv
      <3>2. /\ pod' = pod /\ sec' = sec /\ dbSec' = dbSec /\ running' = running
            /\ source' = source /\ rotated' = rotated
            /\ \A k \in Kinds \ {"service"} : made'[m][k] = made[m][k]
        BY <1>1, <2>3 DEF sourceVars
      <3>3. ServiceIsMade(m)'
        <4>1. CASE m = n
          BY <1>4, <2>1, <2>2, <2>3, <4>1 DEF ServiceIsMade, ServiceOf
        <4>2. CASE m # n
          BY <2>2, <2>3, <3>1, <4>2 DEF ServiceIsMade
        <4>3. QED
          BY <4>1, <4>2
      <3>4. PodIsMade(m)' /\ SecretIsMade(m)'
        BY <3>1, <3>2 DEF PodIsMade, SecretIsMade, Kinds
      <3>5. PasswordsAgree(m)'
        BY <3>1, <3>2 DEF PasswordsAgree, Resolves, Resolved, Kinds
      <3>6. QED
        BY <3>3, <3>4, <3>5 DEF Kept
    <2>7. QED
      BY <1>2, <2>5, <2>6 DEF EndpointsInv, Kept
  <1>5. QED
    BY <1>3, <1>4 DEF SyncService

LEMMA SyncServerSecretIsWell ==
    ASSUME EndpointsInv, NEW n \in Servers, SyncServerSecret(n)
    PROVE  EndpointsInv'
  <1>t. Types /\ Maps /\ SpecsAre /\ ChildrenAre /\ SourcesAre
    BY DEF EndpointsInv, Types
  <1> DEFINE s == copy[n]
             user == Resolved(s.user, s.userFrom)
             word == Resolved(s.password, s.passwordFrom)
             d == Dsn(s, user, word, None, n)
  <1>1. /\ s \in Specs /\ DatabasePlugin(s) # None
        /\ Resolves(s.user, s.userFrom) /\ Resolves(s.password, s.passwordFrom)
        /\ sec' = [sec EXCEPT ![n] = d] /\ Made(n, "secret")
        /\ Mark(n, Put(Own(map[n]), "controller", n))
        /\ UNCHANGED <<serverVars, copy, current, pod, svc, dbSec, running, sourceVars, events>>
    BY <1>t DEF SyncServerSecret, SpecsAre
  <1>2. Maps' /\ \A m \in Servers : LabelsGrow(m)'
    BY <1>1, ControllerLabel, MarkIsWell
  <1>3. user \in Values /\ word \in Values
    BY <1>1, <1>t, CredentialTypes, ResolvedIsValue
  <1>4. d # None /\ DsnOf(d, s, n) /\ d.password = word
    <2> HIDE DEF user, word
    <2>1. word # None
      BY <1>3, NoneAssumption
    <2>2. QED
      BY <1>1, <1>3, <2>1, DsnFacts
  <1>5. s # None
    BY <1>1, NoneAssumption
  <1>6. Resolves(s.password, s.passwordFrom) /\ d.password = Resolved(s.password, s.passwordFrom)
    BY <1>1, <1>4
  <1> HIDE DEF d, user, word
  <1>7. sec'[n] = d /\ \A m \in Servers \ {n} : sec'[m] = sec[m]
    BY <1>1, <1>t DEF ChildrenAre
  <1>8. /\ made' \in Children /\ made'[n]["secret"] = s
        /\ \A k \in Kinds \ {"secret"} : made'[n][k] = made[n][k]
        /\ \A m \in Servers \ {n} : made'[m] = made[m]
    BY <1>1, <1>t, MadeFacts DEF Made, Kinds
  <1>9. ChildrenAre'
    BY <1>1, <1>t, <1>8 DEF ChildrenAre
  <1>10. Types'
    BY <1>1, <1>2, <1>t, <1>9, TypeGroups DEF Types, serverVars, sourceVars
  <1>11. ASSUME NEW m \in Servers PROVE Kept(m)'
    <2>1. PodIsMade(m) /\ ServiceIsMade(m) /\ SecretIsMade(m) /\ PasswordsAgree(m)
      BY DEF EndpointsInv
    <2>2. /\ pod' = pod /\ svc' = svc /\ dbSec' = dbSec /\ running' = running
          /\ source' = source /\ rotated' = rotated
          /\ \A k \in Kinds \ {"secret"} : made'[m][k] = made[m][k]
      BY <1>1, <1>8 DEF sourceVars
    <2>3. PodIsMade(m)' /\ ServiceIsMade(m)'
      BY <2>1, <2>2 DEF PodIsMade, ServiceIsMade, Kinds
    <2>4. SecretIsMade(m)' /\ PasswordsAgree(m)'
      <3>1. CASE m # n
        <4>1. sec'[m] = sec[m] /\ made'[m] = made[m]
          BY <1>7, <1>8, <3>1
        <4>2. QED
          BY <2>1, <2>2, <4>1 DEF SecretIsMade, PasswordsAgree, Resolves, Resolved
      <3>2. CASE m = n
        <4>1. SecretIsMade(n)'
          BY <1>4, <1>5, <1>7, <1>8, <2>1, <2>2, <3>2 DEF SecretIsMade, Kinds
        <4>2. sec'[n].password = Resolved(s.password, s.passwordFrom)
          BY <1>6, <1>7
        <4>3. PasswordsAgree(n)'
          BY <1>6, <1>8, <2>1, <2>2, <3>2, <4>2 DEF PasswordsAgree, Resolves, Resolved
        <4>4. QED
          BY <3>2, <4>1, <4>3
      <3>3. QED
        BY <3>1, <3>2
    <2>5. QED
      BY <2>3, <2>4 DEF Kept
  <1>12. QED
    BY <1>2, <1>10, <1>11 DEF EndpointsInv, Kept

LEMMA SyncDatabaseSecretIsWell ==
    ASSUME EndpointsInv, NEW n \in Servers, SyncDatabaseSecret(n)
    PROVE  EndpointsInv'
  <1>t. Types /\ SpecsAre /\ ChildrenAre
    BY DEF EndpointsInv, Types
  <1> DEFINE d == Dsn(copy[n], "admin", "adminpw", "db", n)
  <1>1. /\ copy[n] \in Specs /\ copy[n] # None /\ DatabasePlugin(copy[n]) # None
        /\ dbSec' = [dbSec EXCEPT ![n] = d] /\ Made(n, "database")
        /\ UNCHANGED <<serverVars, copyVars, pod, svc, sec, running, sourceVars, events>>
    BY <1>t, NoneAssumption DEF SyncDatabaseSecret, SpecsAre
  <1>2. d # None /\ DsnOf(d, copy[n], n)
    BY <1>1, DsnFacts
  <1> HIDE DEF d
  <1>3. dbSec'[n] = d /\ \A m \in Servers \ {n} : dbSec'[m] = dbSec[m]
    BY <1>1, <1>t DEF ChildrenAre
  <1>4. /\ made' \in Children /\ made'[n]["database"] = copy[n]
        /\ \A k \in Kinds \ {"database"} : made'[n][k] = made[n][k]
        /\ \A m \in Servers \ {n} : made'[m] = made[m]
    BY <1>1, <1>t, MadeFacts DEF Made, Kinds
  <1>5. ChildrenAre'
    BY <1>1, <1>t, <1>4 DEF ChildrenAre
  <1>6. Types'
    BY <1>1, <1>t, <1>5, TypeGroups DEF Types, serverVars, copyVars, sourceVars
  <1>7. ASSUME NEW m \in Servers PROVE LabelsGrow(m)' /\ Kept(m)'
    <2>1. PodIsMade(m) /\ ServiceIsMade(m) /\ SecretIsMade(m) /\ PasswordsAgree(m)
      BY DEF EndpointsInv
    <2>2. LabelsGrow(m)'
      BY <1>1, LabelsStay DEF serverVars, copyVars
    <2>3. /\ pod' = pod /\ svc' = svc /\ sec' = sec /\ running' = running
          /\ source' = source /\ rotated' = rotated
          /\ \A k \in Kinds \ {"database"} : made'[m][k] = made[m][k]
      BY <1>1, <1>4 DEF sourceVars
    <2>4. PodIsMade(m)' /\ ServiceIsMade(m)'
      BY <2>1, <2>3 DEF PodIsMade, ServiceIsMade, Kinds
    <2>5. PasswordsAgree(m)'
      BY <2>1, <2>3 DEF PasswordsAgree, Resolves, Resolved, Kinds
    <2>6. SecretIsMade(m)'
      <3>1. CASE m = n
        BY <1>1, <1>2, <1>3, <1>4, <2>1, <2>3, <3>1 DEF SecretIsMade, Kinds
      <3>2. CASE m # n
        BY <1>3, <1>4, <2>1, <2>3, <3>2 DEF SecretIsMade
      <3>3. QED
        BY <3>1, <3>2
    <2>7. QED
      BY <2>2, <2>4, <2>5, <2>6 DEF Kept
  <1>8. QED
    BY <1>6, <1>7 DEF EndpointsInv, Kept
-----------------------------------------------------------------------------
\* The invariant holds at first, and every step keeps it.
LEMMA EndpointsInit == Init => EndpointsInv
  <1> SUFFICES ASSUME Init PROVE EndpointsInv
    OBVIOUS
  <1>1. /\ spec \in [Servers -> Specs] /\ labels \in [Servers -> UserLabels]
        /\ asked = labels /\ copy = spec /\ map = labels
        /\ current = [n \in Servers |-> TRUE]
        /\ pod = [n \in Servers |-> None] /\ svc = pod /\ sec = pod /\ dbSec = pod
        /\ running = pod
        /\ source \in [Sources -> Contents] /\ rotated = FALSE
        /\ made = [n \in Servers |-> [k \in Kinds |-> None]]
        /\ events = 0
    BY DEF Init
  <1>2. Flags
    BY <1>1 DEF Flags
  <1>3. labels \in [Servers -> Labels \cup {None}]
    BY <1>1, EndpointsAssumption
  <1>4. Maps
    BY <1>1, <1>3 DEF Maps
  <1>5. SpecsAre
    BY <1>1 DEF SpecsAre
  <1>6. events \in 0..MaxEvents
    BY <1>1, EndpointsAssumption
  <1>7. SourcesAre
    BY <1>1, <1>6 DEF SourcesAre
  <1>8. made \in Children
    BY <1>1 DEF Children
  <1>9. ChildrenAre
    BY <1>1, <1>8 DEF ChildrenAre
  <1>10. ASSUME NEW n \in Servers
         PROVE  LabelsGrow(n) /\ PodIsMade(n) /\ ServiceIsMade(n) /\ SecretIsMade(n) /\ PasswordsAgree(n)
    <2>1. LabelsGrow(n)
      BY <1>1 DEF LabelsGrow, Grown
    <2>2. pod[n] = None /\ svc[n] = None /\ sec[n] = None /\ dbSec[n] = None /\ running[n] = None
      BY <1>1
    <2>3. \A k \in Kinds : made[n][k] = None
      BY <1>1
    <2>4. PodIsMade(n) /\ ServiceIsMade(n) /\ SecretIsMade(n)
      BY <2>2, <2>3 DEF PodIsMade, ServiceIsMade, SecretIsMade, Kinds
    <2>5. PasswordsAgree(n)
      BY <2>2 DEF PasswordsAgree
    <2>6. QED
      BY <2>1, <2>4, <2>5
  <1>11. QED
    BY <1>2, <1>4, <1>5, <1>7, <1>9, <1>10 DEF EndpointsInv, Types

LEMMA StutterIsWell ==
    ASSUME EndpointsInv, UNCHANGED vars
    PROVE  EndpointsInv'
  <1>1. UNCHANGED <<serverVars, copyVars, childVars, running, sourceVars, events>>
    BY DEF vars
  <1>2. Types
    BY DEF EndpointsInv
  <1>3. Types'
    BY <1>1, <1>2, TypeGroups DEF Types, serverVars, copyVars, sourceVars
  <1>4. ASSUME NEW n \in Servers PROVE LabelsGrow(n)' /\ Kept(n)'
    BY <1>1, ChildrenStay, LabelsStay DEF serverVars, copyVars
  <1>5. QED
    BY <1>3, <1>4 DEF EndpointsInv, Kept

LEMMA EndpointsNext == EndpointsInv /\ [Next]_vars => EndpointsInv'
  <1> SUFFICES ASSUME EndpointsInv, [Next]_vars PROVE EndpointsInv'
    OBVIOUS
  <1>1. CASE UNCHANGED vars
    BY <1>1, StutterIsWell
  <1>2. ASSUME NEW n \in Servers, Edit(n) \/ Boot(n) \/ Refresh(n) \/ Sync(n) PROVE EndpointsInv'
    BY <1>2, EditIsWell, BootIsWell, CopyIsWell, SyncPodIsWell, SyncServiceIsWell,
       SyncServerSecretIsWell, SyncDatabaseSecretIsWell DEF Sync
  <1>3. ASSUME NEW n \in Servers, NEW kind \in Kinds, DeleteChild(n, kind) PROVE EndpointsInv'
    BY <1>3, DeleteIsWell
  <1>4. ASSUME NEW f \in Sources, Rotate(f) \/ SourceArrives(f) PROVE EndpointsInv'
    BY <1>4, SourceIsWell
  <1>5. CASE Next
    <2>1. \/ \E n \in Servers : Edit(n) \/ Boot(n) \/ Refresh(n) \/ Sync(n)
          \/ \E n \in Servers : \E kind \in Kinds : DeleteChild(n, kind)
          \/ \E f \in Sources : Rotate(f) \/ SourceArrives(f)
      BY <1>5 DEF Next
    <2>2. QED
      BY <1>2, <1>3, <1>4, <2>1
  <1>6. QED
    BY <1>1, <1>5
-----------------------------------------------------------------------------
\* Every variable keeps its type, and there is a spec that a child is made
\* from as long as there is the child.
THEOREM EndpointsTypeCorrect == Spec => []EndpointsTypeOK
  <1>1. EndpointsInv => EndpointsTypeOK
    <2> SUFFICES ASSUME EndpointsInv PROVE EndpointsTypeOK
      OBVIOUS
    <2>1. Flags /\ Maps /\ SpecsAre /\ SourcesAre /\ ChildrenAre
      BY DEF EndpointsInv, Types
    <2>2. \A n \in Servers :
             /\ (pod[n] = None) = (made[n]["pod"] = None)
             /\ (svc[n] = None) = (made[n]["service"] = None)
             /\ (sec[n] = None) = (made[n]["secret"] = None)
             /\ (dbSec[n] = None) = (made[n]["database"] = None)
      BY DEF EndpointsInv, PodIsMade, ServiceIsMade, SecretIsMade
    <2>3. QED
      BY <2>1, <2>2 DEF EndpointsTypeOK, Flags, Maps, SpecsAre, SourcesAre, ChildrenAre
  <1>2. QED
    BY <1>1, EndpointsInit, EndpointsNext, PTL DEF Spec

\* Whatever labels users give the servers, which CreatePod copies to the pods
\* (postgres.go:74-79): a service selects the pod of its server and no other.
THEOREM ServicesSelectOwnPods == Spec => []ServiceSelectsOwnPod
  <1>1. EndpointsInv => ServiceSelectsOwnPod
    <2> SUFFICES ASSUME EndpointsInv, NEW n \in Servers, NEW m \in Servers,
                        svc[n] # None, svc[n].external = None, pod[m] # None
                 PROVE  (pod[m].labels["databaseserver"] = svc[n].selector) = (m = n)
      BY DEF ServiceSelectsOwnPod
    <2>1. pod[m].labels["databaseserver"] = m
      BY DEF EndpointsInv, PodIsMade, PodOf
    <2>2. svc[n].selector = n
      <3>1. svc[n] = Service(made[n]["service"], n)
        BY DEF EndpointsInv, ServiceIsMade, ServiceOf
      <3>2. made[n]["service"] \in Specs
        BY DEF EndpointsInv, ServiceIsMade, Types, ChildrenAre, Children, Kinds
      <3>3. made[n]["service"].dbHost = None
        BY <3>1 DEF Service
      <3>4. QED
        BY <3>1, <3>3 DEF Service
    <2>3. QED
      BY <2>1, <2>2
  <1>2. QED
    BY <1>1, EndpointsInit, EndpointsNext, PTL DEF Spec

\* Status writes send labels from the shared map of a cached object to the API
\* server (controller.go:310, databaseServerResource.go:157): they undo none of
\* the user's, and add none but the controller's two.
THEOREM LabelsStayTheUsers == Spec => []LabelsAreTheUsers
  <1>1. EndpointsInv => LabelsAreTheUsers
    BY DEF EndpointsInv, LabelsGrow, Grown, LabelsAreTheUsers
  <1>2. QED
    BY <1>1, EndpointsInit, EndpointsNext, PTL DEF Spec

\* Where service and pod of a server are made from the spec of a DSN, the DSN
\* leads to the pod.
LEMMA DsnFits ==
    ASSUME EndpointsInv, NEW n \in Servers, NEW s \in Specs, NEW dsn, DsnOf(dsn, s, n),
           svc[n] # None, made[n]["service"] = s, pod[n] # None => made[n]["pod"] = s,
           pod[n] # None \/ svc[n].external # None
    PROVE  Leads(dsn)
  <1>1. dsn.host = n
    BY DEF DsnOf
  <1>2. CASE svc[n].external # None
    BY <1>1, <1>2 DEF Leads
  <1>3. CASE svc[n].external = None
    <2>1. ServiceOf(svc[n], s, n) /\ PodOf(pod[n], s, n) /\ pod[n] # None
      BY <1>3 DEF EndpointsInv, ServiceIsMade, PodIsMade
    <2>2. svc[n].selector = n /\ svc[n].port = s.port
      BY <1>3, <2>1 DEF ServiceOf, Service
    <2>3. s.port # 0
      BY <1>3, <2>1, <2>2 DEF ServiceOf, ServiceAccepted
    <2>4. pod[n].port = s.port
      BY <2>1, <2>3 DEF PodOf, PodContainerPort
    <2>5. dsn.port = s.port /\ dsn.scheme = pod[n].plugin
      <3>1. DatabasePlugin(s) = ActivePlugin(s) /\ ActivePlugin(s) \in {"mysql", "postgres"}
        BY <2>1 DEF PodOf, IsPodPlugin, DatabasePlugin
      <3>2. QED
        BY <2>1, <3>1 DEF PodOf, DsnOf
    <2>6. \A m \in Servers : pod[m] # None => pod[m].labels["databaseserver"] = m
      BY DEF EndpointsInv, PodIsMade, PodOf
    <2>7. Selected(n) = {n}
      BY <2>1, <2>2, <2>6 DEF Selected
    <2>8. QED
      BY <1>1, <2>2, <2>4, <2>5, <2>7 DEF Leads
  <1>4. QED
    BY <1>2, <1>3

\* While the children of a server are made from one spec, the DSNs in its
\* secrets lead to its pod, and the superuser's has the password of the pod as
\* long as no source has changed.
THEOREM DsnsLead == Spec => []DsnLeads
  <1>1. EndpointsInv => DsnLeads
    <2> SUFFICES ASSUME EndpointsInv, NEW n \in Servers, OneSpec(n), svc[n] # None,
                        pod[n] # None \/ svc[n].external # None
                 PROVE  /\ sec[n] # None => Leads(sec[n])
                        /\ dbSec[n] # None => Leads(dbSec[n])
                        /\ sec[n] # None /\ running[n] # None /\ ~rotated => running[n] = sec[n].password
      BY DEF DsnLeads
    <2> DEFINE s == made[n]["service"]
    <2>1. \A k \in Kinds : made[n][k] \in Specs \cup {None}
      BY DEF EndpointsInv, Types, ChildrenAre, Children
    <2>2. PodIsMade(n) /\ ServiceIsMade(n) /\ SecretIsMade(n) /\ PasswordsAgree(n)
      BY DEF EndpointsInv
    <2>3. s \in Specs /\ s # None
      BY <2>1, <2>2 DEF ServiceIsMade, Kinds
    <2>4. \A k \in Kinds : made[n][k] # None => made[n][k] = s
      BY <2>3 DEF OneSpec, Kinds
    <2>5. pod[n] # None => made[n]["pod"] = s
      BY <2>2, <2>4 DEF PodIsMade, Kinds
    <2>6. ASSUME sec[n] # None PROVE Leads(sec[n])
      <3>1. DsnOf(sec[n], s, n)
        BY <2>2, <2>4, <2>6 DEF SecretIsMade, Kinds
      <3>2. QED
        BY <2>3, <2>5, <3>1, DsnFits
    <2>7. ASSUME dbSec[n] # None PROVE Leads(dbSec[n])
      <3>1. DsnOf(dbSec[n], s, n)
        BY <2>2, <2>4, <2>7 DEF SecretIsMade, Kinds
      <3>2. QED
        BY <2>3, <2>5, <3>1, DsnFits
    <2>8. ASSUME sec[n] # None, running[n] # None, ~rotated PROVE running[n] = sec[n].password
      <3>1. pod[n] # None /\ running[n] = Resolved(pod[n].value, pod[n].valueFrom)
        BY <2>2, <2>8 DEF PasswordsAgree
      <3>2. pod[n].value = s.password /\ pod[n].valueFrom = s.passwordFrom
        BY <2>2, <2>5, <3>1 DEF PodIsMade, PodOf
      <3>3. made[n]["secret"] = s
        BY <2>2, <2>4, <2>8 DEF SecretIsMade, Kinds
      <3>4. sec[n].password = Resolved(s.password, s.passwordFrom)
        BY <2>2, <2>8, <3>3 DEF PasswordsAgree
      <3>5. QED
        BY <3>1, <3>2, <3>4
    <2>9. QED
      BY <2>6, <2>7, <2>8
  <1>2. QED
    BY <1>1, EndpointsInit, EndpointsNext, PTL DEF Spec
=============================================================================
