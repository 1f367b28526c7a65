-------------------------- MODULE ServerSyncProofs ---------------------------
(***************************************************************************)
(* The safety of ServerSync for every plugin and every number of events,   *)
(* so for any number of incarnations of the server: Success and the secret *)
(* come after the pod and the service, of the same incarnation.            *)
(***************************************************************************)
EXTENDS ServerSync, TLAPS, SequenceTheorems

\* The UIDs given so far, and what can stand where one is expected.
Past == 1..born
Seen == Past \cup {NoObj}
Owners == Past \cup {Foreign, NoObj}

\* The types, sharpened: no UID is used before it is given, and the server in
\* the API server is the last that was created.
RangesOK ==
    /\ events \in 0..MaxEvents /\ born \in 1..(events + 1)
    /\ srv \in Servers \cup {NoObj} /\ (srv # NoObj => srv.uid = born)
    /\ srvCache \in Seen /\ snap \in Seen /\ srvNews \in Seq(Seen)
    /\ child \in [Kinds -> Owners] /\ cached \in [Kinds -> Owners]
    /\ childNews \in [Kinds -> Seq(Owners)]
    /\ plugin \in Plugins /\ creds \in Creds \cup {"ready"}
    /\ pending \in BOOLEAN /\ current \in BOOLEAN
    /\ step \in Kinds \cup {"idle", "report"} /\ verdict \in States
    /\ made \subseteq Kinds

\* The sync has a copy of a server, and knows when it may say Success.
SyncHasCopy == /\ step # "idle" => snap # NoObj
               /\ verdict = "Success" => step = "report"

\* The sharpened types are within those that the runs check.
LEMMA RangesAreTypes == RangesOK => ServerTypeOK
  <1> SUFFICES ASSUME RangesOK PROVE ServerTypeOK
    OBVIOUS
  <1>1. Past \subseteq Uids
    BY ServerSyncAssumption DEF RangesOK, Past, Uids
  <1>2. Seen \subseteq Uids \cup {NoObj} /\ Owners \subseteq Children
    BY <1>1 DEF Seen, Owners, Children
  <1>3. /\ srvNews \in Seq(Uids \cup {NoObj})
        /\ \A k \in Kinds : childNews[k] \in Seq(Children)
    BY <1>2 DEF RangesOK
  <1>4. childNews \in [Kinds -> Seq(Children)]
    BY <1>3 DEF RangesOK
  <1>5. born \in Uids
    BY <1>1 DEF RangesOK, Past
  <1>6. QED
    BY <1>2, <1>3, <1>4, <1>5 DEF RangesOK, ServerTypeOK
-----------------------------------------------------------------------------
\* A status write keeps the server the same, and its types.
LEMMA StatusRanges ==
    ASSUME RangesOK, NEW st \in States, snap # NoObj, current => srv # NoObj /\ snap = srv.uid,
           WriteStatus(st)
    PROVE  /\ srv' \in Servers \cup {NoObj} /\ srvNews' \in Seq(Seen)
           /\ srv' = NoObj <=> srv = NoObj
           /\ srv # NoObj => srv'.uid = srv.uid
           /\ srvNews' # srvNews => srvNews' # <<>> /\ current
                                    /\ srvNews'[Len(srvNews')] = srv'.uid
           /\ srv # NoObj /\ srv'.state = "Success" =>
                  srv.state = "Success" \/ (st = "Success" /\ current)
           /\ srvNews' = srvNews => srv' = srv
  <1>1. CASE UNCHANGED <<srv, srvNews>>
    BY <1>1 DEF RangesOK
  <1>2. CASE current /\ StoreServer(snap, st)
    <2>1. snap \in Uids /\ snap \in Seen /\ srv.uid = snap /\ srv # NoObj
      BY <1>2, ServerSyncAssumption DEF RangesOK, Seen, Past, Uids
    <2>2. srv' = [uid |-> snap, state |-> st] /\ srv' \in Servers /\ srv' # NoObj
      BY <1>2, <2>1, NoObjAssumption DEF StoreServer, Servers
    <2>3. /\ srvNews' \in Seq(Seen) /\ srvNews' # <<>> /\ srvNews' # srvNews
          /\ srvNews'[Len(srvNews')] = snap
      <3>1. srvNews \in Seq(Seen) /\ srvNews' = Append(srvNews, snap)
        BY <1>2 DEF RangesOK, StoreServer
      <3>2. /\ srvNews' \in Seq(Seen) /\ srvNews' # <<>> /\ Len(srvNews') = Len(srvNews) + 1
            /\ srvNews'[Len(srvNews) + 1] = snap
        BY <2>1, <3>1, AppendProperties
      <3>3. Len(srvNews) \in Nat
        BY <3>1
      <3>4. QED
        BY <3>2, <3>3
    <2>4. QED
      BY <1>2, <2>1, <2>2, <2>3
  <1>3. QED
    BY <1>1, <1>2 DEF WriteStatus

\* Whoever stores a child: its types, and its place in the history.
LEMMA ChildRanges ==
    ASSUME RangesOK, NEW k \in Kinds, NEW c \in Owners, StoreChild(k, c)
    PROVE  /\ child' \in [Kinds -> Owners] /\ childNews' \in [Kinds -> Seq(Owners)]
           /\ made \subseteq made' /\ made' \subseteq Kinds
           /\ srv # NoObj /\ srv.uid = c => k \in made'
  <1>1. Append(childNews[k], c) \in Seq(Owners)
    BY AppendProperties DEF RangesOK
  <1>2. QED
    BY <1>1 DEF StoreChild, RangesOK
-----------------------------------------------------------------------------
\* What the lister shows is the server, or the last event under way is.
ServerUid == IF srv = NoObj THEN NoObj ELSE srv.uid
CacheFollows == IF srvNews = <<>> THEN srvCache = ServerUid
                                  ELSE srvNews[Len(srvNews)] = ServerUid
CopyIsCurrent == current => srv # NoObj /\ snap = srv.uid

\* A status written by a callee: the copy is out of date afterwards.
LEMMA WriteTwiceRanges ==
    ASSUME RangesOK, CopyIsCurrent, NEW st1 \in States, NEW st2 \in States, snap # NoObj,
           WriteTwice(st1, st2)
    PROVE  /\ srv' \in Servers \cup {NoObj} /\ srvNews' \in Seq(Seen)
           /\ srv' # NoObj => srv'.uid = born
           /\ current' \in BOOLEAN /\ step' = "report" /\ verdict' = st2
           /\ UNCHANGED <<born, snap>>
  BY StatusRanges DEF WriteTwice, CopyIsCurrent, RangesOK

LEMMA RangesStep ==
    ASSUME RangesOK, SyncHasCopy, CopyIsCurrent, [Next]_vars
    PROVE  RangesOK'
  <1> USE ServerSyncAssumption
  <1>e. Happens => /\ events' \in 0..MaxEvents
                   /\ born \in 1..(events' + 1) /\ born + 1 \in 1..(events' + 1)
                   /\ born + 1 \in Uids
    BY DEF Happens, RangesOK, Uids
  <1>n. born \in Past /\ born \in Nat
    BY DEF RangesOK, Past
  <1>b. ASSUME UNCHANGED born PROVE Seen' = Seen /\ Owners' = Owners
    BY <1>b DEF Seen, Owners, Past
  <1>1. CASE UserServer
    <2>1. ASSUME srv # NoObj, srv' = NoObj, srvNews' = Append(srvNews, NoObj), UNCHANGED born
          PROVE  RangesOK'
      <3>1. srvNews' \in Seq(Seen)
        BY <2>1, AppendProperties DEF RangesOK, Seen
      <3>2. QED
        <4>1. born' \in 1..(events' + 1) /\ events' \in 0..MaxEvents
          BY <1>1, <1>e, <2>1 DEF UserServer
        <4>2. QED
          BY <1>1, <1>b, <2>1, <3>1, <4>1 DEF UserServer, RangesOK, specVars
    <2>2. ASSUME srv = NoObj, born' = born + 1, StoreServer(born + 1, "") PROVE RangesOK'
      <3>1. Seen \subseteq Seen' /\ Owners \subseteq Owners' /\ born' \in Seen'
        <4>1. Past \subseteq Past' /\ born' \in Past'
          <5>1. 1..born \subseteq 1..(born + 1) /\ born + 1 \in 1..(born + 1)
            BY <1>n
          <5>2. Past' = 1..(born + 1)
            BY <2>2 DEF Past
          <5>3. QED
            BY <2>2, <5>1, <5>2 DEF Past
        <4>2. QED
          BY <4>1 DEF Seen, Owners
      <3>2. born' \in Uids /\ srv' \in Servers /\ srv'.uid = born' /\ born' \in 1..(events' + 1)
        <4>1. born' \in Uids /\ born' \in 1..(events' + 1)
          BY <1>1, <1>e, <2>2 DEF UserServer
        <4>2. QED
          BY <2>2, <4>1 DEF Servers, States, StoreServer
      <3>3. srvNews' \in Seq(Seen')
        <4>1. srvNews \in Seq(Seen')
          BY <3>1 DEF RangesOK
        <4>2. srvNews' = Append(srvNews, born')
          BY <2>2 DEF StoreServer
        <4>3. QED
          BY <3>1, <4>1, <4>2, AppendProperties
      <3>4. childNews' \in [Kinds -> Seq(Owners')]
        <4>1. \A k \in Kinds : childNews[k] \in Seq(Owners')
          BY <3>1 DEF RangesOK
        <4>2. QED
          BY <1>1, <4>1 DEF UserServer, RangesOK
      <3>5. QED
        BY <1>1, <1>e, <3>1, <3>2, <3>3, <3>4 DEF UserServer, RangesOK, specVars
    <2>3. QED
      BY <1>1, <2>1, <2>2 DEF UserServer
  <1>2. ASSUME NEW k \in Kinds, UserChild(k) \/ Collect(k) PROVE RangesOK'
    <2>1. PICK c \in Owners : StoreChild(k, c)
      BY <1>2 DEF UserChild, Collect, Owners
    <2>2. UNCHANGED <<srv, srvNews, born, srvCache, cached, plugin, creds, pending,
                      step, snap, current, verdict>>
          /\ (events' = events \/ Happens)
      BY <1>2 DEF UserChild, Collect, srvVars, specVars, syncVars
    <2>3. QED
      BY <1>b, <1>e, <2>1, <2>2, ChildRanges DEF RangesOK
  <1>3. CASE CredsArrive \/ Resync
    BY <1>3, <1>b DEF CredsArrive, Resync, RangesOK, srvVars, childVars, specVars, syncVars
  <1>4. CASE DeliverServer
    <2>1. Head(srvNews) \in Seen /\ Tail(srvNews) \in Seq(Seen)
      BY <1>4, HeadTailProperties DEF DeliverServer, RangesOK
    <2>2. pending' \in BOOLEAN
      BY <1>4 DEF DeliverServer
    <2>3. QED
      BY <1>4, <1>b, <2>1, <2>2 DEF DeliverServer, RangesOK, childVars, specVars, syncVars
  <1>5. ASSUME NEW k \in Kinds, DeliverChild(k) PROVE RangesOK'
    <2>1. Head(childNews[k]) \in Owners /\ Tail(childNews[k]) \in Seq(Owners)
      BY <1>5, HeadTailProperties DEF DeliverChild, RangesOK
    <2>2. pending' \in BOOLEAN
      BY <1>5 DEF DeliverChild, HandleObject
    <2>3. cached' \in [Kinds -> Owners] /\ childNews' \in [Kinds -> Seq(Owners)]
      BY <1>5, <2>1 DEF DeliverChild, RangesOK
    <2>4. QED
      BY <1>5, <1>b, <2>2, <2>3 DEF DeliverChild, RangesOK, srvVars, specVars, syncVars
  <1>6. CASE Start
    <2>1. UNCHANGED <<srv, srvNews, born, srvCache, child, childNews, made, cached,
                      plugin, creds, events>>
      BY <1>6 DEF Start, srvVars, childVars, specVars
    <2>2. /\ pending' \in BOOLEAN /\ snap' \in Seen /\ verdict' \in States
          /\ step' \in Kinds \cup {"idle", "report"}
      BY <1>6 DEF Start, RangesOK, syncVars, First, Kinds
    <2>3. current' \in BOOLEAN
      BY <1>6 DEF Start, RangesOK, syncVars
    <2>4. QED
      BY <1>b, <2>1, <2>2, <2>3 DEF RangesOK
  <1>7. ASSUME NEW k \in Kinds, GoOn(k)
        PROVE  /\ step' \in Kinds \cup {"idle", "report"} /\ verdict' \in States
               /\ UNCHANGED <<snap, current>>
    <2>1. k = "pod" \/ k = "service" \/ k = "secret"
      BY DEF Kinds
    <2>2. After[k] \in Kinds \cup {"idle", "report"}
      BY <2>1 DEF After, Kinds
    <2>3. QED
      BY <1>7, <2>2 DEF GoOn, States
  <1>8. ASSUME NEW k \in Kinds, FindChild(k) PROVE RangesOK'
    <2>1. /\ step' \in Kinds \cup {"idle", "report"} /\ verdict' \in States
          /\ UNCHANGED <<snap, current>>
      BY <1>7, <1>8 DEF FindChild, States
    <2>2. QED
      BY <1>8, <1>b, <2>1 DEF FindChild, RangesOK, srvVars, childVars, specVars
  <1>9. ASSUME NEW k \in Kinds, CreateChild(k) PROVE RangesOK'
    <2>1. step # "idle" /\ snap # NoObj /\ snap \in Owners
      BY <1>9 DEF CreateChild, SyncHasCopy, RangesOK, Seen, Owners, Kinds
    <2>2. CASE StoreChild(k, snap) /\ GoOn(k) /\ UNCHANGED srvVars
      BY <1>7, <1>9, <1>b, <2>1, <2>2, ChildRanges
         DEF CreateChild, RangesOK, srvVars, specVars
    <2>3. CASE WriteTwice("Error", "Error") /\ UNCHANGED childVars
      BY <1>9, <1>b, <2>1, <2>3, WriteTwiceRanges
         DEF CreateChild, RangesOK, childVars, specVars, States
    <2>4. QED
      BY <1>9, <2>2, <2>3 DEF CreateChild
  <1>10. ASSUME NEW k \in Kinds, CreateFails(k) PROVE RangesOK'
    <2>1. snap # NoObj
      BY <1>10 DEF CreateFails, SyncHasCopy, Kinds
    <2>2. QED
      BY <1>10, <1>b, <1>e, <2>1, WriteTwiceRanges
         DEF CreateFails, RangesOK, childVars, specVars, States
  <1>11. CASE NoCredentials
    <2>1. snap # NoObj
      BY <1>11 DEF NoCredentials, SyncHasCopy
    <2>2. PICK st1 \in States, st2 \in States : WriteTwice(st1, st2)
      BY <1>11 DEF NoCredentials, States
    <2>3. QED
      BY <1>11, <1>b, <2>1, <2>2, WriteTwiceRanges
         DEF NoCredentials, RangesOK, childVars, specVars
  <1>12. CASE Report
    <2>1. snap # NoObj /\ verdict \in States
      BY <1>12 DEF Report, SyncHasCopy, RangesOK
    <2>2. /\ srv' \in Servers \cup {NoObj} /\ srvNews' \in Seq(Seen)
          /\ srv' # NoObj => srv'.uid = born
      BY <1>12, <2>1, StatusRanges DEF Report, CopyIsCurrent, RangesOK
    <2>3. QED
      BY <1>12, <1>b, <2>2 DEF Report, RangesOK, childVars, specVars, Seen, States
  <1>13. CASE Restart /\ (events' = events \/ Happens)
    <2>1. srvCache' \in Seen
      BY <1>13, <1>n DEF Restart, RangesOK, Seen
    <2>2. srvNews' \in Seq(Seen) /\ childNews' \in [Kinds -> Seq(Owners)]
      <3>1. <<>> \in Seq(Seen) /\ <<>> \in Seq(Owners)
        OBVIOUS
      <3>2. QED
        BY <1>13, <3>1 DEF Restart
    <2>3. /\ pending' \in BOOLEAN /\ current' \in BOOLEAN
      BY <1>13 DEF Restart
    <2>4. QED
      BY <1>13, <1>b, <1>e, <2>1, <2>2, <2>3 DEF Restart, RangesOK, specVars, Seen, States
  <1>14. CASE UNCHANGED vars
    BY <1>14, <1>b DEF vars, RangesOK, srvVars, childVars, specVars, syncVars
  <1>15. QED
    BY <1>1, <1>2, <1>3, <1>4, <1>5, <1>6, <1>8, <1>9, <1>10, <1>11, <1>12, <1>13, <1>14
       DEF Next, SyncStep, Crash, Panic
-----------------------------------------------------------------------------
\* The copy a sync works on, and the server it is a copy of.
LEMMA GoOnCopy ==
    ASSUME NEW k \in Kinds, SyncHasCopy, snap # NoObj, GoOn(k)
    PROVE  SyncHasCopy' /\ UNCHANGED <<snap, current>>
  <1>1. k = "secret" => step' = "report"
    BY DEF GoOn, After
  <1>2. snap' = snap /\ current' = current /\ (verdict' = "Success" => k = "secret")
    BY DEF GoOn
  <1>3. QED
    BY <1>1, <1>2 DEF SyncHasCopy

LEMMA WriteTwiceCopy ==
    ASSUME RangesOK, CacheFollows, CopyIsCurrent, snap # NoObj,
           NEW st1 \in States, NEW st2 \in States, WriteTwice(st1, st2), UNCHANGED srvCache
    PROVE  SyncHasCopy' /\ CacheFollows' /\ CopyIsCurrent'
  <1>1. /\ srv' = NoObj <=> srv = NoObj
        /\ srv # NoObj => srv'.uid = srv.uid
        /\ srvNews' # srvNews => srvNews' # <<>> /\ current
                                 /\ srvNews'[Len(srvNews')] = srv'.uid
        /\ srvNews' = srvNews => srv' = srv
    BY StatusRanges DEF WriteTwice, CopyIsCurrent
  <1>2. CacheFollows'
    BY <1>1 DEF CacheFollows, CopyIsCurrent, ServerUid
  <1>3. CopyIsCurrent' /\ SyncHasCopy'
    <2>1. /\ current' => current /\ srvNews' = srvNews
          /\ snap' = snap /\ step' = "report"
      BY DEF WriteTwice
    <2>2. QED
      BY <1>1, <2>1 DEF CopyIsCurrent, SyncHasCopy
  <1>4. QED
    BY <1>2, <1>3

LEMMA CopyStep ==
    ASSUME RangesOK, SyncHasCopy, CacheFollows, CopyIsCurrent, [Next]_vars
    PROVE  SyncHasCopy' /\ CacheFollows' /\ CopyIsCurrent'
  <1> USE ServerSyncAssumption
  <1>1. CASE UserServer
    <2>1. SyncHasCopy' /\ CopyIsCurrent'
      BY <1>1 DEF UserServer, SyncHasCopy, CopyIsCurrent
    <2>2. PICK u : srvNews' = Append(srvNews, u) /\ u = ServerUid'
      <3>1. CASE srv' = NoObj /\ srvNews' = Append(srvNews, NoObj)
        BY <3>1 DEF ServerUid
      <3>2. CASE born' = born + 1 /\ StoreServer(born + 1, "")
        <4>1. born + 1 \in Uids
          <5>1. events < MaxEvents /\ events \in 0..MaxEvents /\ born \in 1..(events + 1)
            BY <1>1 DEF UserServer, Happens, RangesOK
          <5>2. QED
            BY <5>1 DEF Uids
        <4>2. srv' = [uid |-> born + 1, state |-> ""] /\ srv' \in Servers
          BY <3>2, <4>1 DEF StoreServer, Servers, States
        <4>3. srv' # NoObj /\ srv'.uid = born + 1
          BY <4>2, NoObjAssumption
        <4>4. QED
          BY <3>2, <4>3 DEF StoreServer, ServerUid
      <3>3. QED
        BY <1>1, <3>1, <3>2 DEF UserServer
    <2>3. srvNews' # <<>> /\ srvNews'[Len(srvNews')] = u
      BY <2>2 DEF RangesOK
    <2>4. QED
      BY <2>1, <2>2, <2>3 DEF CacheFollows
  <1>2. ASSUME UNCHANGED <<srv, srvNews, srvCache>>, SyncHasCopy', CopyIsCurrent'
        PROVE  SyncHasCopy' /\ CacheFollows' /\ CopyIsCurrent'
    BY <1>2 DEF CacheFollows, ServerUid
  <1>3. ASSUME UNCHANGED <<srv, srvNews, srvCache, syncVars>>
        PROVE  SyncHasCopy' /\ CacheFollows' /\ CopyIsCurrent'
    BY <1>2, <1>3 DEF SyncHasCopy, CopyIsCurrent, syncVars
  <1>4. ASSUME NEW k \in Kinds,
               \/ UserChild(k) \/ Collect(k) \/ CredsArrive \/ Resync \/ DeliverChild(k)
               \/ UNCHANGED vars
        PROVE  SyncHasCopy' /\ CacheFollows' /\ CopyIsCurrent'
    BY <1>3, <1>4 DEF UserChild, Collect, CredsArrive, Resync, DeliverChild, vars, srvVars
  <1>5. CASE DeliverServer
    <2>1. SyncHasCopy' /\ CopyIsCurrent'
      BY <1>5 DEF DeliverServer, SyncHasCopy, CopyIsCurrent, syncVars
    <2>2. /\ Tail(srvNews) \in Seq(Seen) /\ Len(Tail(srvNews)) = Len(srvNews) - 1
          /\ \A i \in 1..Len(Tail(srvNews)) : Tail(srvNews)[i] = srvNews[i + 1]
          /\ Head(srvNews) = srvNews[1] /\ Len(srvNews) \in Nat
      BY <1>5, HeadTailProperties DEF DeliverServer, RangesOK
    <2>3. Tail(srvNews) = <<>> => Head(srvNews) = srvNews[Len(srvNews)]
      <3>1. Tail(srvNews) = <<>> => Len(Tail(srvNews)) = 0
        BY EmptySeq
      <3>2. QED
        BY <2>2, <3>1
    <2>4. Tail(srvNews) # <<>> => Tail(srvNews)[Len(Tail(srvNews))] = srvNews[Len(srvNews)]
      <3>1. Tail(srvNews) # <<>> => Len(Tail(srvNews)) \in 1..Len(Tail(srvNews))
        BY <2>2, EmptySeq
      <3>2. QED
        BY <2>2, <3>1
    <2>5. srvNews # <<>> /\ srvCache' = Head(srvNews) /\ srvNews' = Tail(srvNews) /\ srv' = srv
      BY <1>5 DEF DeliverServer
    <2>6. QED
      BY <2>1, <2>3, <2>4, <2>5 DEF CacheFollows, ServerUid
  <1>6. CASE Start
    <2>1. UNCHANGED <<srv, srvNews, srvCache>>
      BY <1>6 DEF Start, srvVars
    <2>2. CASE srvCache = NoObj
      BY <1>3, <1>6, <2>1, <2>2 DEF Start
    <2>3. CASE srvCache # NoObj
      <3>1. snap' = srvCache /\ current' = (srvNews = <<>>) /\ verdict' = verdict
        BY <1>6, <2>3 DEF Start
      <3>2. CopyIsCurrent'
        BY <2>1, <2>3, <3>1 DEF CacheFollows, CopyIsCurrent, ServerUid
      <3>3. SyncHasCopy'
        BY <1>6, <2>3, <3>1 DEF SyncHasCopy, Start
      <3>4. QED
        BY <1>2, <2>1, <3>2, <3>3
    <2>4. QED
      BY <2>2, <2>3
  <1>7. ASSUME NEW k \in Kinds, FindChild(k)
        PROVE  SyncHasCopy' /\ CacheFollows' /\ CopyIsCurrent'
    <2>1. snap # NoObj
      BY <1>7 DEF FindChild, SyncHasCopy, Kinds
    <2>2. SyncHasCopy' /\ UNCHANGED <<snap, current>>
      BY <1>7, <2>1, GoOnCopy DEF FindChild, SyncHasCopy
    <2>3. QED
      BY <1>2, <1>7, <2>2 DEF FindChild, CopyIsCurrent, srvVars
  <1>8. ASSUME NEW k \in Kinds, CreateChild(k)
        PROVE  SyncHasCopy' /\ CacheFollows' /\ CopyIsCurrent'
    <2>1. snap # NoObj
      BY <1>8 DEF CreateChild, SyncHasCopy, Kinds
    <2>2. CASE GoOn(k) /\ UNCHANGED srvVars
      <3>1. SyncHasCopy' /\ UNCHANGED <<snap, current>>
        BY <2>1, <2>2, GoOnCopy
      <3>2. QED
        BY <1>2, <1>8, <2>2, <3>1 DEF CreateChild, CopyIsCurrent, srvVars
    <2>3. CASE WriteTwice("Error", "Error")
      BY <1>8, <2>1, <2>3, WriteTwiceCopy DEF CreateChild, States
    <2>4. QED
      BY <1>8, <2>2, <2>3 DEF CreateChild
  <1>9. ASSUME NEW k \in Kinds, CreateFails(k)
        PROVE  SyncHasCopy' /\ CacheFollows' /\ CopyIsCurrent'
    BY <1>9, WriteTwiceCopy DEF CreateFails, SyncHasCopy, Kinds, States
  <1>10. CASE NoCredentials
    <2>1. snap # NoObj /\ UNCHANGED srvCache
      BY <1>10 DEF NoCredentials, SyncHasCopy
    <2>2. PICK st1 \in States, st2 \in States : WriteTwice(st1, st2)
      BY <1>10 DEF NoCredentials, States
    <2>3. QED
      BY <2>1, <2>2, WriteTwiceCopy
  <1>11. CASE Report
    <2>1. snap # NoObj /\ verdict \in States /\ WriteStatus(verdict) /\ UNCHANGED srvCache
      BY <1>11 DEF Report, SyncHasCopy, RangesOK
    <2>2. /\ srv' = NoObj <=> srv = NoObj
          /\ srv # NoObj => srv'.uid = srv.uid
          /\ srvNews' # srvNews => srvNews' # <<>> /\ current
                                   /\ srvNews'[Len(srvNews')] = srv'.uid
          /\ srvNews' = srvNews => srv' = srv
      BY <2>1, StatusRanges DEF CopyIsCurrent
    <2>3. CacheFollows'
      BY <2>1, <2>2 DEF CacheFollows, CopyIsCurrent, ServerUid
    <2>4. CopyIsCurrent' /\ SyncHasCopy'
      BY <1>11 DEF Report, CopyIsCurrent, SyncHasCopy
    <2>5. QED
      BY <2>3, <2>4
  <1>12. CASE Restart
    BY <1>12 DEF Restart, CacheFollows, CopyIsCurrent, SyncHasCopy, ServerUid
  <1>13. QED
    <2>1. "pod" \in Kinds
      BY DEF Kinds
    <2>2. QED
      BY <1>1, <1>4, <1>5, <1>6, <1>7, <1>8, <1>9, <1>10, <1>11, <1>12, <2>1
         DEF Next, SyncStep, Crash, Panic
-----------------------------------------------------------------------------
\* Whatever the API server, an event or a lister has of this incarnation's
\* children has been created for it.
Traced(k) == \/ child[k] = srv.uid \/ cached[k] = srv.uid
             \/ \E i \in 1..Len(childNews[k]) : childNews[k][i] = srv.uid
ChildrenAreMade == srv # NoObj => \A k \in Kinds : Traced(k) => k \in made

\* How far the sync of this incarnation has come.
Before == Needed \ {"secret"}
OrderKept ==
    srv # NoObj /\ snap = srv.uid =>
        /\ step = "service" /\ plugin = "pod" => "pod" \in made
        /\ step = "secret" \/ verdict = "Success" => Before \subseteq made

SuccessIsEarned == srv # NoObj /\ srv.state = "Success" => Before \subseteq made

\* CreateChild and FindChild are the steps that matter: the others keep the
\* history of the incarnation, or begin a new one.
History == ChildrenAreMade /\ OrderKept /\ SuccessIsEarned /\ SecretComesLast

\* The server stays, and its history may grow.
SameServer == /\ srv' = NoObj <=> srv = NoObj
              /\ srv # NoObj => srv'.uid = srv.uid
              /\ srv # NoObj /\ srv'.state = "Success" =>
                     srv.state = "Success" \/ Before \subseteq made
              /\ plugin' = plugin /\ made \subseteq made'

LEMMA SameHistory ==
    ASSUME History, SameServer,
           srv # NoObj => \A k \in Kinds : Traced(k)' => Traced(k) \/ k \in made',
           srv # NoObj /\ child'["secret"] = srv.uid =>
               child["secret"] = srv.uid \/ Before \subseteq made,
           OrderKept'
    PROVE  History'
  <1>1. Before' = Before /\ Needed' = Needed
    BY DEF SameServer, Before, Needed
  <1>2. ChildrenAreMade'
    BY DEF History, SameServer, ChildrenAreMade
  <1>3. SuccessIsEarned'
    BY <1>1 DEF History, SameServer, SuccessIsEarned
  <1>4. SecretComesLast'
    BY <1>1 DEF History, SameServer, SecretComesLast, Before
  <1>5. QED
    BY <1>2, <1>3, <1>4 DEF History

\* Going on from k, with a child of k of this incarnation.
LEMMA GoOnOrder ==
    ASSUME RangesOK, OrderKept, SameServer, SyncHasCopy, NEW k \in Kinds, step = k, GoOn(k),
           srv # NoObj /\ snap = srv.uid => k \in made'
    PROVE  OrderKept'
  <1>1. Before' = Before /\ Before = IF plugin = "pod" THEN {"pod", "service"} ELSE {"service"}
    BY DEF SameServer, Before, Needed, Kinds
  <1>2. snap' = snap /\ (srv' # NoObj /\ snap' = srv'.uid => srv # NoObj /\ snap = srv.uid)
    BY DEF GoOn, SameServer
  <1>3. CASE k = "pod"
    BY <1>2, <1>3 DEF GoOn, After, OrderKept
  <1>4. CASE k = "service"
    BY <1>1, <1>2, <1>4 DEF GoOn, After, OrderKept, SameServer
  <1>5. CASE k = "secret"
    BY <1>1, <1>2, <1>5 DEF GoOn, After, OrderKept, SameServer
  <1>6. QED
    BY <1>3, <1>4, <1>5 DEF Kinds

\* Success is written for the incarnation that earned it.
LEMMA WriteKeepsServer ==
    ASSUME RangesOK, History, CopyIsCurrent, snap # NoObj, NEW st \in States, WriteStatus(st),
           UNCHANGED <<plugin, made>>, st = "Success" => verdict = "Success"
    PROVE  SameServer
  <1>1. /\ srv' = NoObj <=> srv = NoObj
        /\ srv # NoObj => srv'.uid = srv.uid
        /\ srv # NoObj /\ srv'.state = "Success" =>
               srv.state = "Success" \/ (st = "Success" /\ current)
    BY StatusRanges DEF CopyIsCurrent
  <1>2. QED
    BY <1>1 DEF SameServer, History, OrderKept, CopyIsCurrent

LEMMA WriteTwiceHistory ==
    ASSUME RangesOK, History, CopyIsCurrent, snap # NoObj,
           NEW st1 \in States \ {"Success"}, NEW st2 \in States, WriteTwice(st1, st2),
           UNCHANGED <<plugin, childVars, cached>>,
           st2 = "Success" => step = "secret"
    PROVE  History'
  <1>1. SameServer
    BY WriteKeepsServer DEF WriteTwice, childVars
  <1>2. OrderKept'
    <2>1. Before' = Before
      BY DEF Before, Needed
    <2>2. QED
      BY <1>1, <2>1 DEF WriteTwice, History, OrderKept, SameServer, childVars
  <1>3. QED
    BY <1>1, <1>2, SameHistory DEF Traced, childVars, SameServer

LEMMA HistoryStep ==
    ASSUME RangesOK, SyncHasCopy, CacheFollows, CopyIsCurrent, History, [Next]_vars
    PROVE  History'
  <1> USE ServerSyncAssumption
  \* A new incarnation: nothing has its UID yet.
  <1>1. CASE UserServer
    <2>1. CASE srv' = NoObj
      BY <2>1 DEF History, ChildrenAreMade, OrderKept, SuccessIsEarned, SecretComesLast
    <2>2. CASE born' = born + 1 /\ StoreServer(born + 1, "")
      <3>1. srv'.uid = born + 1 /\ srv'.state # "Success"
        BY <2>2 DEF StoreServer
      <3>2. born + 1 \notin Seen /\ born + 1 \notin Owners
        <4>1. born \in Nat /\ born + 1 \in Nat /\ born + 1 # Foreign
          BY DEF RangesOK, Foreign
        <4>2. born + 1 \notin Past /\ born + 1 # NoObj
          BY <4>1 DEF Past
        <4>3. QED
          BY <4>1, <4>2 DEF Seen, Owners
      <3>3. UNCHANGED <<child, cached, childNews, snap>>
        BY <1>1 DEF UserServer
      <3>4. \A k \in Kinds : ~Traced(k)'
        BY <3>1, <3>2, <3>3 DEF Traced, RangesOK
      <3>5. snap' # srv'.uid /\ child'["secret"] # srv'.uid
        BY <3>1, <3>2, <3>3 DEF RangesOK, Kinds
      <3>6. QED
        BY <3>1, <3>4, <3>5 DEF History, ChildrenAreMade, OrderKept, SuccessIsEarned,
           SecretComesLast
    <2>3. QED
      BY <1>1, <2>1, <2>2 DEF UserServer
  \* A child appears or disappears, at the hands of others.
  <1>2. ASSUME NEW k \in Kinds, UserChild(k) \/ Collect(k) PROVE History'
    <2>1. PICK c \in {Foreign, NoObj} : StoreChild(k, c)
      BY <1>2 DEF UserChild, Collect
    <2>2. srv # NoObj => c # srv.uid
      BY DEF RangesOK, Servers, Uids, Foreign
    <2>3. UNCHANGED <<srv, plugin, cached, step, snap, verdict>>
      BY <1>2 DEF UserChild, Collect, srvVars, specVars, syncVars
    <2>4. /\ child' = [child EXCEPT ![k] = c] /\ made' = made
          /\ childNews' = [childNews EXCEPT ![k] = Append(@, c)]
      BY <2>1, <2>2 DEF StoreChild
    <2>5. ASSUME NEW j \in Kinds, srv # NoObj, Traced(j)' PROVE Traced(j)
      <3>1. CASE j # k
        BY <2>3, <2>4, <2>5, <3>1 DEF Traced, RangesOK
      <3>2. CASE j = k
        <4>1. child'[j] = c /\ childNews'[j] = Append(childNews[j], c)
          BY <2>4, <3>2 DEF RangesOK
        <4>2. /\ Len(childNews'[j]) = Len(childNews[j]) + 1 /\ Len(childNews[j]) \in Nat
              /\ \A i \in 1..Len(childNews[j]) : childNews'[j][i] = childNews[j][i]
              /\ childNews'[j][Len(childNews[j]) + 1] = c
          <5>1. childNews[j] \in Seq(Owners) /\ c \in Owners
            BY DEF RangesOK, Owners
          <5>2. QED
            BY <4>1, <5>1, AppendProperties
        <4>3. QED
          BY <2>2, <2>3, <2>5, <4>1, <4>2 DEF Traced
      <3>3. QED
        BY <3>1, <3>2
    <2>6. SameServer /\ OrderKept'
      BY <2>3, <2>4 DEF SameServer, History, OrderKept, Before, Needed
    <2>7. srv # NoObj /\ child'["secret"] = srv.uid => child["secret"] = srv.uid
      BY <2>2, <2>4 DEF RangesOK, Kinds
    <2>8. QED
      BY <2>5, <2>6, <2>7, SameHistory
  <1>3. ASSUME UNCHANGED <<srv, plugin, childVars, cached, step, snap, verdict>> PROVE History'
    BY <1>3 DEF History, ChildrenAreMade, Traced, OrderKept, SuccessIsEarned, SecretComesLast,
       Before, Needed, childVars
  <1>4. CASE CredsArrive \/ Resync \/ DeliverServer \/ UNCHANGED vars
    BY <1>3, <1>4 DEF CredsArrive, Resync, DeliverServer, vars, srvVars, specVars, syncVars
  \* The lister shows what an event brings.
  <1>5. ASSUME NEW k \in Kinds, DeliverChild(k) PROVE History'
    <2>1. /\ UNCHANGED <<srv, plugin, child, made, step, snap, verdict>> /\ childNews[k] # <<>>
          /\ cached' = [cached EXCEPT ![k] = Head(childNews[k])]
          /\ childNews' = [childNews EXCEPT ![k] = Tail(@)]
      BY <1>5 DEF DeliverChild, srvVars, specVars, syncVars
    <2>2. /\ Len(childNews[k]) \in Nat /\ Len(Tail(childNews[k])) = Len(childNews[k]) - 1
          /\ \A i \in 1..Len(Tail(childNews[k])) : Tail(childNews[k])[i] = childNews[k][i + 1]
          /\ Head(childNews[k]) = childNews[k][1] /\ 1 \in 1..Len(childNews[k])
      <3>1. childNews[k] \in Seq(Owners) /\ childNews[k] # <<>>
        BY <2>1 DEF RangesOK
      <3>2. Len(childNews[k]) \in Nat /\ Len(childNews[k]) # 0
            /\ Head(childNews[k]) = childNews[k][1]
        BY <3>1, EmptySeq
      <3>3. QED
        BY <3>1, <3>2, HeadTailProperties
    <2>3. ASSUME NEW j \in Kinds, srv # NoObj, Traced(j)' PROVE Traced(j)
      <3>1. CASE j # k
        BY <2>1, <2>3, <3>1 DEF Traced, RangesOK
      <3>2. CASE j = k
        <4>1. cached'[k] = Head(childNews[k]) /\ childNews'[k] = Tail(childNews[k])
          BY <2>1 DEF RangesOK
        <4>2. ASSUME NEW i \in 1..Len(childNews'[k]), childNews'[k][i] = srv.uid
              PROVE  \E n \in 1..Len(childNews[k]) : childNews[k][n] = srv.uid
          <5>1. i + 1 \in 1..Len(childNews[k]) /\ childNews[k][i + 1] = srv.uid
            BY <2>2, <4>1, <4>2
          <5>2. QED
            BY <5>1
        <4>3. QED
          BY <2>1, <2>2, <2>3, <3>2, <4>1, <4>2 DEF Traced
      <3>3. QED
        BY <3>1, <3>2
    <2>4. SameServer /\ OrderKept'
      BY <2>1 DEF SameServer, History, OrderKept, Before, Needed
    <2>5. QED
      BY <2>1, <2>3, <2>4, SameHistory
  <1>6. CASE Start
    <2>1. UNCHANGED <<srv, plugin, childVars, cached>>
      BY <1>6 DEF Start, srvVars, specVars
    <2>2. UNCHANGED syncVars \/ (step' = First /\ verdict' = verdict)
      BY <1>6 DEF Start
    <2>3. verdict # "Success" /\ (First = "service" => plugin # "pod") /\ First # "secret"
      BY <1>6 DEF Start, SyncHasCopy, First
    <2>4. OrderKept'
      BY <2>1, <2>2, <2>3 DEF History, OrderKept, Before, Needed, syncVars, childVars
    <2>5. SameServer
      BY <2>1 DEF SameServer, childVars
    <2>6. QED
      BY <2>1, <2>4, <2>5, SameHistory DEF Traced, childVars
  \* The two steps by which a sync advances.
  <1>7. ASSUME NEW k \in Kinds, FindChild(k) PROVE History'
    <2>1. UNCHANGED <<srv, plugin, childVars, cached>> /\ step = k
      BY <1>7 DEF FindChild, srvVars, specVars
    <2>2. SameServer
      BY <2>1 DEF SameServer, childVars
    <2>3. CASE cached[k] = snap /\ GoOn(k)
      <3>1. srv # NoObj /\ snap = srv.uid => k \in made'
        BY <2>1, <2>3 DEF History, ChildrenAreMade, Traced, childVars
      <3>2. OrderKept'
        BY <2>1, <2>2, <2>3, <3>1, GoOnOrder DEF History
      <3>3. QED
        BY <2>1, <2>2, <3>2, SameHistory DEF Traced, childVars
    <2>4. CASE step' = "report" /\ verdict' = "Error"
      BY <2>1, <2>2, <2>4, SameHistory DEF Traced, childVars, OrderKept
    <2>5. QED
      BY <1>7, <2>3, <2>4 DEF FindChild
  <1>8. ASSUME NEW k \in Kinds, CreateChild(k) PROVE History'
    <2>1. snap # NoObj /\ step = k /\ UNCHANGED <<plugin, cached>>
      BY <1>8 DEF CreateChild, SyncHasCopy, Kinds, specVars
    <2>2. CASE StoreChild(k, snap) /\ GoOn(k) /\ UNCHANGED srvVars
      <3>1. /\ child' = [child EXCEPT ![k] = snap] /\ srv' = srv
            /\ childNews' = [childNews EXCEPT ![k] = Append(@, snap)]
            /\ made' = IF srv # NoObj /\ srv.uid = snap THEN made \cup {k} ELSE made
        BY <2>2 DEF StoreChild, srvVars
      <3>2. SameServer
        BY <2>1, <3>1 DEF SameServer
      <3>3. srv # NoObj /\ snap = srv.uid => k \in made'
        BY <3>1
      <3>4. OrderKept'
        BY <2>1, <2>2, <3>2, <3>3, GoOnOrder DEF History
      <3>5. ASSUME NEW j \in Kinds, srv # NoObj, Traced(j)' PROVE Traced(j) \/ j \in made'
        <4>1. CASE j # k
          BY <2>1, <3>1, <3>5, <4>1 DEF Traced, RangesOK
        <4>2. CASE j = k /\ snap # srv.uid
          <5>1. child'[j] = snap /\ childNews'[j] = Append(childNews[j], snap)
            BY <3>1, <4>2 DEF RangesOK
          <5>2. /\ Len(childNews'[j]) = Len(childNews[j]) + 1 /\ Len(childNews[j]) \in Nat
                /\ \A i \in 1..Len(childNews[j]) : childNews'[j][i] = childNews[j][i]
                /\ childNews'[j][Len(childNews[j]) + 1] = snap
            <6>1. childNews[j] \in Seq(Owners) /\ snap \in Owners
              BY <2>1 DEF RangesOK, Owners, Seen
            <6>2. QED
              BY <5>1, <6>1, AppendProperties
          <5>3. QED
            BY <2>1, <3>1, <3>5, <4>2, <5>1, <5>2 DEF Traced
        <4>3. CASE j = k /\ snap = srv.uid
          BY <3>3, <3>5, <4>3
        <4>4. QED
          BY <4>1, <4>2, <4>3
      <3>6. srv # NoObj /\ child'["secret"] = srv.uid =>
                child["secret"] = srv.uid \/ Before \subseteq made
        BY <2>1, <3>1 DEF RangesOK, History, OrderKept, Kinds
      <3>7. QED
        BY <3>2, <3>4, <3>5, <3>6, SameHistory
    <2>3. CASE WriteTwice("Error", "Error") /\ UNCHANGED childVars
      BY <2>1, <2>3, WriteTwiceHistory DEF States
    <2>4. QED
      BY <1>8, <2>2, <2>3 DEF CreateChild
  <1>9. ASSUME NEW k \in Kinds, CreateFails(k) PROVE History'
    BY <1>9, WriteTwiceHistory DEF CreateFails, SyncHasCopy, Kinds, specVars, States
  <1>10. CASE NoCredentials
    BY <1>10, WriteTwiceHistory DEF NoCredentials, SyncHasCopy, specVars, States
  <1>11. CASE Report
    <2>1. snap # NoObj /\ verdict \in States /\ WriteStatus(verdict)
          /\ UNCHANGED <<plugin, childVars, cached>>
      BY <1>11 DEF Report, SyncHasCopy, RangesOK, specVars
    <2>2. SameServer
      BY <2>1, WriteKeepsServer DEF childVars
    <2>3. OrderKept'
      BY <1>11 DEF Report, OrderKept
    <2>4. QED
      BY <2>1, <2>2, <2>3, SameHistory DEF Traced, childVars, SameServer
  <1>12. CASE Restart
    <2>1. /\ UNCHANGED <<srv, plugin, child, made>> /\ cached' = child
          /\ childNews' = [k \in Kinds |-> <<>>] /\ step' = "idle" /\ verdict' = ""
      BY <1>12 DEF Restart, specVars
    <2>2. \A k \in Kinds : srv # NoObj /\ Traced(k)' => Traced(k)
      <3>1. \A k \in Kinds : Len(childNews'[k]) = 0
        BY <2>1, EmptySeq
      <3>2. 1..0 = {}
        OBVIOUS
      <3>3. QED
        BY <2>1, <3>1, <3>2 DEF Traced
    <2>3. SameServer /\ OrderKept'
      BY <2>1 DEF SameServer, OrderKept
    <2>4. QED
      BY <2>1, <2>2, <2>3, SameHistory
  <1>13. QED
    BY <1>1, <1>2, <1>4, <1>5, <1>6, <1>7, <1>8, <1>9, <1>10, <1>11, <1>12
       DEF Next, SyncStep, Crash, Panic
-----------------------------------------------------------------------------
\* That Success and the secret come last is not inductive: it needs to know
\* how far the sync has come, that a copy is current when it is written, and
\* that no event or lister shows a child that this incarnation has not had.
ServerIInv == RangesOK /\ SyncHasCopy /\ CacheFollows /\ CopyIsCurrent /\ History

LEMMA InitServer == Init => ServerIInv
  <1> SUFFICES ASSUME Init PROVE ServerIInv
    OBVIOUS
  <1> USE ServerSyncAssumption
  <1>1. srv \in Servers /\ srv # NoObj /\ srv.uid = 1 /\ srv.state = "" /\ born = 1
    <2>1. 1 \in Uids
      BY DEF Uids
    <2>2. srv \in Servers
      BY <2>1 DEF Init, Servers, States
    <2>3. QED
      BY <2>2, NoObjAssumption DEF Init
  <1>2. 1 \in Seen /\ NoObj \in Seen /\ NoObj \in Owners /\ NoObj # 1
    <2>1. 1 \in Past
      <3>1. 1 \in 1..1
        OBVIOUS
      <3>2. Past = 1..1
        BY <1>1, Zenon DEF Past
      <3>3. QED
        BY <3>1, <3>2
    <2>2. 1 \in Nat /\ NoObj \notin Nat
      OBVIOUS
    <2>3. QED
      BY <2>1, <2>2 DEF Seen, Owners
  <1>3. RangesOK
    <2>1. <<>> \in Seq(Seen) /\ <<>> \in Seq(Owners)
      OBVIOUS
    <2>2. srvNews \in Seq(Seen) /\ childNews \in [Kinds -> Seq(Owners)]
      BY <2>1 DEF Init
    <2>3. 0 \in 0..MaxEvents /\ 1 \in 1..(0 + 1)
      OBVIOUS
    <2>4. events \in 0..MaxEvents /\ born \in 1..(events + 1)
      <3>1. events = 0
        BY DEF Init
      <3>2. QED
        BY <1>1, <2>3, <3>1
    <2>5. child \in [Kinds -> Owners] /\ cached \in [Kinds -> Owners]
      BY <1>2 DEF Init
    <2>6. pending \in BOOLEAN /\ current \in BOOLEAN
      BY DEF Init
    <2>7. QED
      BY <1>1, <1>2, <2>2, <2>4, <2>5, <2>6 DEF Init, RangesOK, States
  <1>4. \A k \in Kinds : ~Traced(k)
    <2>1. \A k \in Kinds : child[k] = NoObj /\ cached[k] = NoObj /\ Len(childNews[k]) = 0
      BY EmptySeq DEF Init
    <2>2. 1..0 = {}
      OBVIOUS
    <2>3. QED
      BY <1>1, <1>2, <2>1, <2>2 DEF Traced
  <1>5. History
    <2>1. "secret" \in Kinds
      BY DEF Kinds
    <2>2. QED
      BY <1>1, <1>2, <1>4, <2>1 DEF Init, History, ChildrenAreMade, OrderKept, SuccessIsEarned,
         SecretComesLast
  <1>6. QED
    BY <1>1, <1>3, <1>5 DEF Init, ServerIInv, SyncHasCopy, CacheFollows, ServerUid, CopyIsCurrent

\* The inductive invariant of the server reconciler.
THEOREM ServerInvariant == Spec => []ServerIInv
  <1>1. ServerIInv /\ [Next]_vars => ServerIInv'
    BY RangesStep, CopyStep, HistoryStep DEF ServerIInv
  <1>2. QED
    BY <1>1, InitServer, PTL DEF Spec

\* Every variable of the reconciler has its type.
THEOREM ServerTypeCorrect == Spec => []ServerTypeOK
  <1>1. ServerIInv => ServerTypeOK
    BY RangesAreTypes DEF ServerIInv
  <1>2. QED
    BY <1>1, ServerInvariant, PTL

\* A server that says Success has had its own pod and service, however often
\* it was deleted and created again (:56-91).
THEOREM SuccessIsOwn == Spec => []SuccessHasPodAndService
  <1>1. ServerIInv => SuccessHasPodAndService
    <2>1. "pod" # "secret" /\ "service" # "secret"
      OBVIOUS
    <2>2. QED
      BY <2>1 DEF ServerIInv, History, SuccessIsEarned, SuccessHasPodAndService, Claims, Before
  <1>2. QED
    BY <1>1, ServerInvariant, PTL

\* The secret of an incarnation is created after its pod and service (:56-87).
THEOREM SecretIsLast == Spec => []SecretComesLast
  <1>1. ServerIInv => SecretComesLast
    BY DEF ServerIInv, History
  <1>2. QED
    BY <1>1, ServerInvariant, PTL
=============================================================================
