--------------------------- MODULE AccountsProofs ---------------------------
(***************************************************************************)
(* Theorems about Accounts for any set of round trips, identities, tokens  *)
(* and users.                                                              *)
(***************************************************************************)
EXTENDS Accounts, TLAPS

-----------------------------------------------------------------------------
(* Type correctness                                                        *)

\* A user that is appended gets the next id, the others stay as they are.
LEMMA AppendUser ==
  ASSUME TypeOK, NEW row \in Rows, row.into = 0, users' = Append(users, row)
  PROVE  /\ users' \in Seq(Rows)
         /\ Len(users') = Len(users) + 1 /\ Len(users) \in Nat
         /\ UserIds \subseteq UserIds' /\ Len(users) + 1 \in UserIds'
         /\ \A u \in UserIds : users'[u] = users[u]
         /\ \A u \in UserIds' : users'[u].into \in {0} \cup UserIds'
  <1>1. users \in Seq(Rows) /\ \A u \in UserIds : users[u].into \in {0} \cup UserIds
    BY DEF TypeOK
  <1>2. /\ users' \in Seq(Rows) /\ Len(users') = Len(users) + 1 /\ Len(users) \in Nat
        /\ \A u \in 1..Len(users) : users'[u] = users[u]
        /\ users'[Len(users) + 1] = row
    BY <1>1
  <1>3. UserIds' = UserIds \cup {Len(users) + 1}
    BY <1>2 DEF UserIds
  <1>4. \A u \in UserIds : users'[u] = users[u]
    BY <1>2 DEF UserIds
  <1>5. \A u \in UserIds' : users'[u].into \in {0} \cup UserIds'
    BY <1>1, <1>2, <1>3, <1>4
  <1> QED
    BY <1>2, <1>3, <1>4, <1>5

\* A tombstone changes one row and no id.
LEMMA TombstoneRow ==
  ASSUME TypeOK, merge # NoMerge, users' = Tombstone
  PROVE  /\ users' \in Seq(Rows)
         /\ UserIds' = UserIds
         /\ users'[merge.src].into = merge.dst
         /\ \A u \in UserIds \ {merge.src} : users'[u] = users[u]
         /\ \A u \in UserIds' : users'[u].into \in {0} \cup UserIds'
  <1>1. users \in Seq(Rows) /\ \A u \in UserIds : users[u].into \in {0} \cup UserIds
    BY DEF TypeOK
  <1>2. Len(users) \in Nat /\ users \in [1..Len(users) -> Rows]
    BY <1>1
  <1>3. merge.src \in UserIds /\ merge.dst \in UserIds
    BY DEF TypeOK, MergeData, NoMerge
  <1> DEFINE src == merge.src dst == merge.dst
  <1>4. src \in 1..Len(users) /\ dst \in Nat /\ dst \in UserIds /\ src \in UserIds
    BY <1>2, <1>3 DEF UserIds
  <1>5. users' = [users EXCEPT ![src] = [users[src] EXCEPT !.into = dst]]
    BY DEF Tombstone
  <1> HIDE DEF src, dst
  <1>6. [users[src] EXCEPT !.into = dst] \in Rows
    BY <1>2, <1>4 DEF Rows
  <1>7. users' \in [1..Len(users) -> Rows]
    BY <1>2, <1>5, <1>6
  <1>8. users' \in Seq(Rows) /\ Len(users') = Len(users)
    BY <1>2, <1>7
  <1>9. users'[src].into = dst
    BY <1>2, <1>4, <1>5 DEF Rows
  <1>10. \A u \in UserIds \ {src} : users'[u] = users[u]
    BY <1>2, <1>5 DEF UserIds
  <1>11. UserIds' = UserIds
    BY <1>8 DEF UserIds
  <1> QED
    BY <1>1, <1>4, <1>8, <1>9, <1>10, <1>11 DEF src, dst

\* Initially every variable has its type.
LEMMA InitType == Init => TypeOK
  <1> SUFFICES ASSUME Init PROVE TypeOK
    OBVIOUS
  <1>1. Legacy \in Seq(Mail) /\ Len(Legacy) \in Nat /\ DOMAIN Legacy = 1..Len(Legacy)
    BY IdentityAssumption
  <1>2. users \in [1..Len(Legacy) -> Rows]
    BY <1>1 DEF Init, Rows
  <1>3. users \in Seq(Rows) /\ Len(users) = Len(Legacy)
    BY <1>1, <1>2
  <1>4. \A u \in UserIds : users[u].into \in {0} \cup UserIds
    BY <1>1, <1>3 DEF Init, UserIds
  <1>5. pc \in [Req -> {"new", "away"} \cup InServer \cup Over] /\ StageData
    BY DEF Init, StageData, InServer
  <1>6. sessions \subseteq UserIds
    BY <1>1, <1>3 DEF Init, UserIds
  <1>7. MergeData
    BY DEF Init, MergeData, NoMerge, NoRows
  <1> QED
    BY <1>3, <1>4, <1>5, <1>6, <1>7 DEF Init, TypeOK

\* The types of the tables and the store, and those of the callbacks.
RowTypes ==
    /\ users \in Seq(Rows) /\ \A u \in UserIds : users[u].into \in {0} \cup UserIds
    /\ owner \in [Identity -> {0} \cup UserIds]
    /\ notes \subseteq UserIds \X Title /\ memos \subseteq UserIds
    /\ sessions \subseteq UserIds
    /\ tokens \in [Token -> {0} \cup UserIds] /\ issued \subseteq Token
    /\ MergeData

StageTypes ==
    /\ pc \in [Req -> {"new", "away"} \cup InServer \cup Over]
    /\ link \in [Req -> issued \cup {NoToken}]
    /\ who \in [Req -> Identity \cup {NoIdentity}]
    /\ uid \in [Req -> {0} \cup UserIds]
    /\ StageData

HistoryTypes ==
    /\ stored \subseteq Req \X Identity
    /\ met \subseteq {"identity", "user", "token"} \X Req \X Req
    /\ uprooted \subseteq Req

\* TypeOK has three parts.
LEMMA TypeParts ==
  /\ TypeOK <=> RowTypes /\ StageTypes /\ HistoryTypes
  /\ RowTypes' /\ StageTypes' /\ HistoryTypes' => TypeOK'
  BY DEF TypeOK, RowTypes, StageTypes, HistoryTypes

\* An end of a callback leaves the types of what it clears.
LEMMA ForgetType ==
  ASSUME TypeOK, NEW r \in Req, NEW outcome \in Over, Forget(r, outcome),
         link' = link \/ link' = [link EXCEPT ![r] = NoToken],
         issued' = issued, UserIds' = UserIds
  PROVE  StageTypes'
  <1>1. pc' = [pc EXCEPT ![r] = outcome] /\ outcome \notin InServer
    BY DEF Forget, Goto, Over, InServer
  <1>2. \A s \in Req : s # r => /\ pc'[s] = pc[s] /\ who'[s] = who[s]
                               /\ link'[s] = link[s] /\ uid'[s] = uid[s]
    BY <1>1 DEF Forget, TypeOK
  <1>3. pc'[r] \notin InServer /\ StageData
    BY <1>1 DEF TypeOK
  <1>4. StageData'
    BY <1>2, <1>3 DEF StageData, InServer
  <1>5. pc' \in [Req -> {"new", "away"} \cup InServer \cup Over]
    BY <1>1 DEF TypeOK
  <1>6. /\ link' \in [Req -> issued' \cup {NoToken}]
        /\ who' \in [Req -> Identity \cup {NoIdentity}]
        /\ uid' \in [Req -> {0} \cup UserIds']
    BY DEF Forget, TypeOK
  <1> QED
    BY <1>4, <1>5, <1>6 DEF StageTypes

\* A callback that is past its profile knows its identity.
LEMMA Identified ==
  ASSUME TypeOK, NEW r \in Req,
         pc[r] \in {"token", "drop", "check", "link", "lookup", "bridge", "create",
                   "attach", "session"}
  PROVE  /\ who[r] \in Identity /\ owner[who[r]] \in {0} \cup UserIds
         /\ Key(r) \in Mail \cup Identity
  <1>1. pc[r] \in InServer /\ pc[r] # "profile"
    BY DEF InServer
  <1>2. StageData
    BY DEF TypeOK
  <1>3. who[r] \in Identity
    BY <1>1, <1>2 DEF StageData
  <1>4. Key(r) \in Mail \cup Identity
    BY <1>3, IdentityAssumption DEF Key, Address
  <1> QED
    BY <1>3, <1>4 DEF TypeOK

\* The callbacks a callback can have met.
LEMMA MeetType ==
  ASSUME TypeOK, NEW r \in Req, NEW kind \in {"identity", "user", "token"}, NEW W \in SUBSET Req,
         Meet(kind, r, W) \/ met' = met
  PROVE  met' \subseteq {"identity", "user", "token"} \X Req \X Req
  BY DEF Meet, TypeOK

\* A step to another stage of the same callback.
LEMMA GotoType ==
  ASSUME TypeOK, NEW r \in Req, NEW stage \in InServer, Goto(r, stage),
         stage \in {"token", "drop"} => link[r] # NoToken,
         stage \in {"check", "link", "attach", "session"} => uid'[r] # 0,
         stage = "profile" \/ who'[r] \in Identity,
         who' = who \/ \E i \in Identity : who' = [who EXCEPT ![r] = i],
         link' = link, issued' = issued, UserIds' = UserIds,
         uid' = uid \/ \E u \in {0} \cup UserIds : uid' = [uid EXCEPT ![r] = u]
  PROVE  StageTypes'
  <1>1. /\ pc' = [pc EXCEPT ![r] = stage]
        /\ pc' \in [Req -> {"new", "away"} \cup InServer \cup Over]
    BY DEF Goto, TypeOK
  <1>2. /\ who' \in [Req -> Identity \cup {NoIdentity}]
        /\ \A s \in Req : s # r => pc'[s] = pc[s] /\ who'[s] = who[s] /\ uid'[s] = uid[s]
        /\ pc'[r] = stage
    BY <1>1 DEF TypeOK
  <1>3. StageData' 
    <2>1. StageData
      BY DEF TypeOK
    <2> QED
      BY <1>2, <2>1 DEF StageData
  <1>4. uid' \in [Req -> {0} \cup UserIds'] /\ link' \in [Req -> issued' \cup {NoToken}]
    BY DEF TypeOK
  <1> QED
    BY <1>1, <1>2, <1>3, <1>4 DEF StageTypes

\* The steps of a callback keep every type.
LEMMA ServeType == ASSUME TypeOK, NEW r \in Req, Serve(r) PROVE TypeOK'
  <1>0. RowTypes /\ StageTypes /\ HistoryTypes
    BY TypeParts
  <1> USE TypeParts
  <1>1. CASE Profile(r)
    <2>1. UserIds' = UserIds /\ RowTypes' /\ HistoryTypes'
      BY <1>0, <1>1 DEF Profile, tables, store, history, RowTypes, HistoryTypes, UserIds, MergeData
    <2>2. PICK i \in Identity : who' = [who EXCEPT ![r] = i]
      BY <1>1 DEF Profile
    <2>3. who'[r] \in Identity
      BY <1>0, <2>2 DEF StageTypes
    <2>4. PICK stage \in {"lookup", "token"} :
             Goto(r, stage) /\ (stage = "token" => link[r] # NoToken)
      BY <1>1 DEF Profile
    <2>5. stage \in InServer
      BY DEF InServer
    <2>6. StageTypes'
      BY <1>1, <2>1, <2>2, <2>3, <2>4, <2>5, GotoType DEF Profile, store
    <2> QED
      BY <2>1, <2>6
  <1>2. CASE Lookup(r)
    <2>1. UserIds' = UserIds /\ RowTypes'
      BY <1>0, <1>2 DEF Lookup, tables, store, RowTypes, UserIds, MergeData
    <2>2. HistoryTypes'
      BY <1>0, <1>2, MeetType DEF Lookup, MeetStoring, HistoryTypes
    <2>3. who[r] \in Identity /\ owner[who[r]] \in {0} \cup UserIds
      BY <1>2, Identified DEF Lookup
    <2>4. PICK stage \in {"bridge", "session"} :
             Goto(r, stage) /\ (stage = "session" => uid'[r] # 0)
      BY <1>0, <1>2 DEF Lookup, StageTypes
    <2>5. stage \in InServer
      BY DEF InServer
    <2>6. StageTypes'
      BY <1>2, <2>1, <2>3, <2>4, <2>5, GotoType DEF Lookup, store
    <2> QED
      BY <2>1, <2>2, <2>6
  <1>3. CASE Bridge(r)
    <2>1. UserIds' = UserIds /\ RowTypes'
      BY <1>0, <1>3 DEF Bridge, tables, store, RowTypes, UserIds, MergeData
    <2>2. HistoryTypes'
      BY <1>0, <1>3, MeetType DEF Bridge, HistoryTypes
    <2>3. who[r] \in Identity /\ Bridgeable(r) \subseteq UserIds /\ 0 \notin UserIds
      BY <1>3, Identified DEF Bridge, Bridgeable, UserIds
    <2>4. PICK stage \in {"create", "attach"} :
             /\ Goto(r, stage) /\ (stage = "attach" => uid'[r] # 0)
             /\ uid' = uid \/ \E u \in {0} \cup UserIds : uid' = [uid EXCEPT ![r] = u]
      BY <1>0, <1>3, <2>3 DEF Bridge, StageTypes
    <2>5. stage \in InServer
      BY DEF InServer
    <2>6. StageTypes'
      BY <1>3, <2>1, <2>3, <2>4, <2>5, GotoType DEF Bridge, store
    <2> QED
      BY <2>1, <2>2, <2>6
  <1>4. CASE CreateUser(r)
    <2> DEFINE row == [mail |-> Key(r), into |-> 0]
    <2>1. who[r] \in Identity /\ row \in Rows /\ row.into = 0
      BY <1>4, Identified DEF CreateUser, Rows
    <2>2. users' = Append(users, row) /\ uid' = [uid EXCEPT ![r] = Len(users) + 1]
      BY <1>4 DEF CreateUser
    <2> HIDE DEF row
    <2>3. /\ users' \in Seq(Rows)
          /\ UserIds \subseteq UserIds' /\ Len(users) + 1 \in UserIds'
          /\ \A u \in UserIds' : users'[u].into \in {0} \cup UserIds'
      BY <2>1, <2>2, AppendUser
    <2>4. RowTypes'
      BY <1>0, <1>4, <2>3 DEF CreateUser, store, RowTypes, MergeData, NoMerge
    <2>5. HistoryTypes'
      BY <1>0, <1>4 DEF CreateUser, history, HistoryTypes
    <2>6. /\ uid' \in [Req -> {0} \cup UserIds'] /\ uid'[r] # 0
          /\ \A s \in Req \ {r} : uid'[s] = uid[s]
          /\ pc' = [pc EXCEPT ![r] = "attach"] /\ UNCHANGED <<link, who, issued>>
      BY <1>0, <1>4, <2>2, <2>3 DEF CreateUser, Goto, store, StageTypes, UserIds
    <2>7. pc' \in [Req -> {"new", "away"} \cup InServer \cup Over]
      BY <1>0, <2>6 DEF StageTypes, InServer
    <2>8. StageData'
      BY <1>0, <2>1, <2>6 DEF StageTypes, StageData, InServer
    <2> QED
      BY <1>0, <2>4, <2>5, <2>6, <2>7, <2>8 DEF StageTypes
  <1>5. CASE Attach(r)
    <2>1. UserIds' = UserIds /\ who[r] \in Identity /\ "session" \in InServer /\ uid[r] # 0
      BY <1>0, <1>5, Identified DEF Attach, UserIds, InServer, StageTypes, StageData
    <2>2. RowTypes' /\ HistoryTypes'
      BY <1>0, <1>5, <2>1 DEF Attach, Attached, store, RowTypes, HistoryTypes, StageTypes, MergeData
    <2>3. StageTypes'
      BY <1>5, <2>1, GotoType DEF Attach, store
    <2> QED
      BY <2>2, <2>3
  <1>6. CASE OpenSession(r)
    <2>1. UserIds' = UserIds /\ uid[r] \in UserIds
      BY <1>0, <1>6 DEF OpenSession, tables, UserIds, StageTypes, StageData
    <2>2. HistoryTypes'
      BY <1>0, <1>6 DEF OpenSession, history, HistoryTypes
    <2>3. StageTypes'
      BY <1>6, <2>1, ForgetType DEF OpenSession, Answer, Over
    <2>4. RowTypes'
      BY <1>0, <1>6, <2>1 DEF OpenSession, tables, RowTypes, MergeData
    <2> QED
      BY <2>2, <2>3, <2>4
  <1>7. CASE ReadToken(r)
    <2>1. UserIds' = UserIds /\ RowTypes'
      BY <1>0, <1>7 DEF ReadToken, tables, store, RowTypes, UserIds, MergeData
    <2>2. HistoryTypes'
      BY <1>0, <1>7, MeetType DEF ReadToken, HistoryTypes
    <2>3. link[r] # NoToken /\ link[r] \in Token /\ who[r] \in Identity /\ "drop" \in InServer
      BY <1>0, <1>7, Identified DEF ReadToken, StageTypes, StageData, RowTypes, InServer
    <2>4. tokens[link[r]] \in {0} \cup UserIds
      BY <1>0, <2>3 DEF RowTypes
    <2>5. StageTypes'
      BY <1>7, <2>1, <2>3, <2>4, GotoType DEF ReadToken, store
    <2> QED
      BY <2>1, <2>2, <2>5
  <1>8. CASE DropToken(r)
    <2>1. UserIds' = UserIds /\ RowTypes' /\ HistoryTypes'
      BY <1>0, <1>8 DEF DropToken, tables, history, RowTypes, HistoryTypes, UserIds, MergeData
    <2>2. who[r] \in Identity /\ "check" \in InServer
      BY <1>8, Identified DEF DropToken, InServer
    <2>3. CASE uid[r] = 0
      BY <1>8, <2>1, <2>3, ForgetType DEF DropToken, Answer, Over
    <2>4. CASE uid[r] # 0
      BY <1>8, <2>1, <2>2, <2>4, GotoType DEF DropToken
    <2> QED
      BY <2>3, <2>4
  <1>9. CASE CheckOwner(r)
    <2>1. UserIds' = UserIds /\ RowTypes'
      BY <1>0, <1>9 DEF CheckOwner, tables, store, RowTypes, UserIds, MergeData
    <2>2. HistoryTypes'
      BY <1>0, <1>9, MeetType DEF CheckOwner, MeetStoring, HistoryTypes
    <2>3. who[r] \in Identity /\ "link" \in InServer /\ uid[r] # 0
      BY <1>0, <1>9, Identified DEF CheckOwner, InServer, StageTypes, StageData
    <2>4. CASE owner[who[r]] \in {0, uid[r]}
      BY <1>9, <2>1, <2>2, <2>3, <2>4, GotoType DEF CheckOwner, store
    <2>5. CASE owner[who[r]] \notin {0, uid[r]}
      BY <1>9, <2>1, <2>2, <2>5, ForgetType DEF CheckOwner, Answer, Over, store
    <2> QED
      BY <2>4, <2>5
  <1>10. CASE LinkIdentity(r)
    <2>1. UserIds' = UserIds /\ who[r] \in Identity
      BY <1>10, Identified DEF LinkIdentity, UserIds
    <2>2. RowTypes' /\ HistoryTypes'
      BY <1>0, <1>10, <2>1 DEF LinkIdentity, Attached, store, RowTypes, HistoryTypes, StageTypes,
         MergeData
    <2>3. StageTypes'
      BY <1>10, <2>1, ForgetType DEF LinkIdentity, store, Over
    <2> QED
      BY <2>2, <2>3
  <1>11. CASE Fail(r)
    <2>1. UserIds' = UserIds /\ RowTypes' /\ HistoryTypes'
      BY <1>0, <1>11 DEF Fail, tables, store, history, RowTypes, HistoryTypes, UserIds, MergeData
    <2> QED
      BY <1>11, <2>1, ForgetType DEF Fail, Answer, Over, store
  <1> QED
    BY <1>1, <1>2, <1>3, <1>4, <1>5, <1>6, <1>7, <1>8, <1>9, <1>10, <1>11 DEF Serve

\* The statements of a merge keep every type.
LEMMA MergeType ==
  ASSUME TypeOK,
         \/ \E src, dst \in UserIds : BeginMerge(src, dst)
         \/ MoveNotes \/ MoveIdentities \/ MoveMemo \/ CommitMerge \/ AbortMerge
  PROVE  TypeOK'
  <1>0. RowTypes /\ StageTypes /\ HistoryTypes
    BY TypeParts
  <1>1. /\ \A u : TitlesOf(u) \subseteq Title /\ Owns(u) \subseteq Identity
        /\ NoMerge.at = "none"
    BY DEF TitlesOf, Owns, NoMerge
  <1>2. ASSUME NEW src \in UserIds, NEW dst \in UserIds, BeginMerge(src, dst) PROVE TypeOK'
    <2>1. UserIds' = UserIds
      BY <1>2 DEF BeginMerge, tables, UserIds
    <2>2. MergeData'
      <3>1. merge' = [at |-> "notes", src |-> src, dst |-> dst, titles |-> {}, ids |-> {},
                      memo |-> IF MemoDoubled(src, dst) THEN "deleted" ELSE "left",
                      had |-> [titles |-> TitlesOf(src), ids |-> Owns(src), memo |-> src \in memos]]
        BY <1>2 DEF BeginMerge, NoMerge
      <3>2. merge'.had \in [titles : SUBSET Title, ids : SUBSET Identity, memo : BOOLEAN]
        BY <1>1, <3>1
      <3> QED
        BY <2>1, <3>1, <3>2 DEF MergeData, UserIds
    <2> QED
      BY <1>0, <1>2, <2>1, <2>2, TypeParts DEF BeginMerge, tables, store, history, RowTypes,
         StageTypes, StageData, HistoryTypes
  <1>3. CASE MoveNotes \/ MoveIdentities \/ MoveMemo \/ AbortMerge
    <2>1. UserIds' = UserIds
      BY <1>3 DEF MoveNotes, MoveIdentities, MoveMemo, AbortMerge, tables, UserIds
    <2>2. merge.at # "none" /\ MergeData
      BY <1>0, <1>3 DEF MoveNotes, MoveIdentities, MoveMemo, AbortMerge, RowTypes
    <2>3. MergeData'
      <3>1. CASE AbortMerge
        BY <2>1, <3>1 DEF AbortMerge, MergeData, NoMerge, NoRows
      <3>2. CASE MoveNotes \/ MoveIdentities \/ MoveMemo
        <4> DEFINE Held == [at : {"none", "notes", "identities", "memo", "commit"},
               src : {0} \cup UserIds, dst : {0} \cup UserIds,
               titles : SUBSET Title, ids : SUBSET Identity, memo : {"left", "moved", "deleted"},
               had : [titles : SUBSET Title, ids : SUBSET Identity, memo : BOOLEAN]]
        <4>0. merge \in Held /\ 0 \notin {merge.src, merge.dst}
          BY <2>2 DEF MergeData
        <4>1. merge' \in Held /\ merge'.at # "none" /\ merge'.src = merge.src /\ merge'.dst = merge.dst
          <5>1. CASE MoveNotes
            <6>1. merge' = [merge EXCEPT !.at = "identities", !.titles = TitlesOf(merge.src)]
              BY <5>1 DEF MoveNotes
            <6> QED
              BY <1>1, <4>0, <6>1
          <5>2. CASE MoveIdentities
            <6>1. merge' = [merge EXCEPT !.at = "memo", !.ids = Owns(merge.src)]
              BY <5>2 DEF MoveIdentities
            <6> QED
              BY <1>1, <4>0, <6>1
          <5>3. CASE MoveMemo
            <6>1. \E m \in {"left", "moved", "deleted"} :
                     merge' = [merge EXCEPT !.at = "commit", !.memo = m]
              BY <4>0, <5>3 DEF MoveMemo
            <6> QED
              BY <4>0, <6>1
          <5> QED
            BY <3>2, <5>1, <5>2, <5>3
        <4> QED
          BY <2>1, <4>0, <4>1 DEF MergeData
      <3> QED
        BY <1>3, <3>1, <3>2
    <2> QED
      BY <1>0, <1>3, <2>1, <2>3, TypeParts DEF MoveNotes, MoveIdentities, MoveMemo, AbortMerge,
         tables, store, history, RowTypes, StageTypes, StageData, HistoryTypes
  <1>4. CASE CommitMerge
    <2>1. merge # NoMerge /\ merge.src \in UserIds /\ merge.dst \in UserIds
          /\ merge.titles \subseteq Title
      BY <1>0, <1>1, <1>4 DEF CommitMerge, RowTypes, MergeData, NoMerge
    <2>2. /\ users' \in Seq(Rows) /\ UserIds' = UserIds
          /\ \A u \in UserIds' : users'[u].into \in {0} \cup UserIds'
      BY <1>4, <2>1, TombstoneRow DEF CommitMerge
    <2>3. owner' \in [Identity -> {0} \cup UserIds]
      BY <1>0, <1>4, <2>1 DEF CommitMerge, RowTypes
    <2>4. notes' \subseteq UserIds \X Title
      BY <1>0, <1>4, <2>1 DEF CommitMerge, RowTypes
    <2>5. memos' \subseteq UserIds
      BY <1>0, <1>4, <2>1 DEF CommitMerge, RowTypes
    <2>6. uprooted' \subseteq Req
      BY <1>0, <1>4 DEF CommitMerge, HistoryTypes, Serving
    <2>7. MergeData'
      BY <1>4, <2>2 DEF CommitMerge, MergeData, NoMerge, NoRows
    <2> QED
      BY <1>0, <1>4, <2>2, <2>3, <2>4, <2>5, <2>6, <2>7, TypeParts DEF CommitMerge, store, RowTypes,
         StageTypes, StageData, HistoryTypes
  <1> QED
    BY <1>2, <1>3, <1>4

\* Every step keeps every type.
LEMMA NextType == TypeOK /\ [Next]_vars => TypeOK'
  <1> SUFFICES ASSUME TypeOK, [Next]_vars PROVE TypeOK'
    OBVIOUS
  <1>0. RowTypes /\ StageTypes /\ HistoryTypes
    BY TypeParts
  <1>1. ASSUME NEW r \in Req, Login(r) PROVE TypeOK'
    <2>1. UserIds' = UserIds /\ RowTypes' /\ HistoryTypes'
      BY <1>0, <1>1 DEF Login, tables, store, history, RowTypes, HistoryTypes, UserIds, MergeData
    <2>2. StageTypes'
      BY <1>0, <1>1, <2>1 DEF Login, Goto, store, StageTypes, StageData, InServer
    <2> QED
      BY <2>1, <2>2, TypeParts
  <1>2. ASSUME NEW r \in Req, Callback(r) PROVE TypeOK'
    <2>1. UserIds' = UserIds /\ RowTypes' /\ HistoryTypes' /\ "profile" \in InServer
      BY <1>0, <1>2 DEF Callback, tables, store, history, RowTypes, HistoryTypes, UserIds, MergeData,
         InServer
    <2>2. StageTypes'
      BY <1>2, <2>1, GotoType DEF Callback, store
    <2> QED
      BY <2>1, <2>2, TypeParts
  <1>3. ASSUME NEW r \in Req, Serve(r) PROVE TypeOK'
    BY <1>3, ServeType
  <1>4. ASSUME NEW r \in Req, ExpireState(r) PROVE TypeOK'
    <2>1. UserIds' = UserIds /\ RowTypes' /\ HistoryTypes'
      BY <1>0, <1>4 DEF ExpireState, tables, store, history, RowTypes, HistoryTypes, UserIds, MergeData
    <2> QED
      BY <1>4, <2>1, ForgetType, TypeParts DEF ExpireState, Answer, Over, store
  <1>5. ASSUME NEW u \in sessions, CloseSession(u) \/ WriteMemo(u) PROVE TypeOK'
    <2>1. UserIds' = UserIds /\ HistoryTypes' /\ StageTypes'
      BY <1>0, <1>5 DEF CloseSession, WriteMemo, tables, store, history, HistoryTypes, StageTypes,
         StageData, UserIds
    <2>2. RowTypes'
      BY <1>0, <1>5, <2>1 DEF CloseSession, WriteMemo, tables, store, RowTypes, MergeData
    <2> QED
      BY <2>1, <2>2, TypeParts
  <1>6. ASSUME NEW t \in Token, IssueToken(t) \/ ExpireToken(t) PROVE TypeOK'
    <2>1. UserIds' = UserIds /\ HistoryTypes'
      BY <1>0, <1>6 DEF IssueToken, ExpireToken, tables, history, HistoryTypes, UserIds
    <2>3. tokens' \in [Token -> {0} \cup UserIds] /\ issued' \subseteq Token /\ sessions' = sessions
      BY <1>0, <1>6 DEF IssueToken, ExpireToken, RowTypes
    <2>4. RowTypes'
      BY <1>0, <1>6, <2>1, <2>3 DEF IssueToken, ExpireToken, tables, RowTypes, MergeData
    <2>2. StageTypes'
      BY <1>0, <1>6, <2>1 DEF IssueToken, ExpireToken, StageTypes, StageData
    <2> QED
      BY <2>1, <2>2, <2>4, TypeParts
  <1>7. ASSUME NEW u \in sessions, NEW t \in Title, WriteNote(u, t) PROVE TypeOK'
    <2>1. UserIds' = UserIds /\ HistoryTypes' /\ StageTypes'
      BY <1>0, <1>7 DEF WriteNote, store, history, HistoryTypes, StageTypes, StageData, UserIds
    <2>2. RowTypes'
      BY <1>0, <1>7, <2>1 DEF WriteNote, store, RowTypes, MergeData
    <2> QED
      BY <2>1, <2>2, TypeParts
  <1>8. CASE \/ \E src, dst \in UserIds : BeginMerge(src, dst)
             \/ MoveNotes \/ MoveIdentities \/ MoveMemo \/ CommitMerge \/ AbortMerge
    BY <1>8, MergeType
  <1>9. CASE Crash
    <2>1. UserIds' = UserIds /\ HistoryTypes' /\ RowTypes'
      BY <1>0, <1>9 DEF Crash, tables, store, history, HistoryTypes, RowTypes, MergeData, NoMerge, NoRows, UserIds
    <2>2. StageTypes'
      BY <1>0, <1>9, <2>1 DEF Crash, store, Serving, StageTypes, StageData, InServer, Over
    <2> QED
      BY <2>1, <2>2, TypeParts
  <1>10. CASE UNCHANGED vars
    BY <1>0, <1>10, TypeParts DEF vars, tables, store, history, RowTypes, StageTypes, StageData,
       HistoryTypes, MergeData, UserIds
  <1> QED
    BY <1>1, <1>2, <1>3, <1>4, <1>5, <1>6, <1>7, <1>8, <1>9, <1>10 DEF Next

\* Every variable has its type in every interleaving of callbacks, link tokens,
\* merges and crashes.
THEOREM TypeCorrect == Spec => []TypeOK
  BY InitType, NextType, PTL DEF Spec


-----------------------------------------------------------------------------
(* What a merge has in hand                                                *)

\* The rows a merge has moved, or found when it began, are those of its user until
\* it commits; what it found when it began it has moved by then.
Moving ==
    merge.at # "none" =>
        /\ Active(merge.src) /\ merge.src # merge.dst
        /\ merge.had.titles \subseteq TitlesOf(merge.src)
        /\ merge.at # "notes" => merge.had.titles \subseteq merge.titles
        /\ \A i \in merge.had.ids \cup merge.ids : owner[i] = merge.src
        /\ merge.at \in {"memo", "commit"} => merge.had.ids \subseteq merge.ids
        /\ merge.had.memo => merge.src \in memos
        /\ merge.memo = "deleted" => merge.dst \in memos
        /\ merge.at = "commit" /\ merge.had.memo => merge.memo # "left"

\* INSERT ... ON CONFLICT DO NOTHING never changes a row that is there.
LEMMA AttachedKeeps ==
  ASSUME TypeOK, NEW r \in Req, Attached(r), NEW i \in Identity, owner[i] # 0
  PROVE  owner'[i] = owner[i]
  BY DEF Attached, TypeOK

\* No step but the commit of a merge changes a row of users, takes an identity from
\* its user, a note or a memo.
LEMMA RowsStay ==
  ASSUME TypeOK, [Next]_vars, ~CommitMerge
  PROVE  /\ UserIds \subseteq UserIds' /\ \A u \in UserIds : users'[u] = users[u]
         /\ \A i \in Identity : owner[i] # 0 => owner'[i] = owner[i]
         /\ notes \subseteq notes' /\ memos \subseteq memos'
  <1>1. ASSUME NEW r \in Req, CreateUser(r)
        PROVE  UserIds \subseteq UserIds' /\ \A u \in UserIds : users'[u] = users[u]
    <2> DEFINE row == [mail |-> Key(r), into |-> 0]
    <2>1. row \in Rows /\ row.into = 0 /\ users' = Append(users, row)
      BY <1>1, Identified DEF CreateUser, Rows
    <2> QED
      BY <2>1, AppendUser
  <1>2. \/ \E r \in Req : CreateUser(r)
        \/ users' = users /\ UserIds' = UserIds
    BY DEF Next, Serve, Login, Callback, Profile, Lookup, Bridge, Attach, OpenSession, ReadToken,
       DropToken, CheckOwner, LinkIdentity, Fail, ExpireState, CloseSession, IssueToken, ExpireToken,
       WriteMemo, WriteNote, BeginMerge, MoveNotes, MoveIdentities, MoveMemo, AbortMerge, Crash,
       tables, vars, UserIds
  <1>3. \/ \E r \in Req : Attached(r)
        \/ owner' = owner
    BY DEF Next, Serve, Login, Callback, Profile, Lookup, Bridge, CreateUser, Attach, OpenSession,
       ReadToken, DropToken, CheckOwner, LinkIdentity, Fail, ExpireState, CloseSession, IssueToken,
       ExpireToken, WriteMemo, WriteNote, BeginMerge, MoveNotes, MoveIdentities, MoveMemo, AbortMerge,
       Crash, tables, vars
  <1>4. notes \subseteq notes' /\ memos \subseteq memos'
    BY DEF Next, Serve, Login, Callback, Profile, Lookup, Bridge, CreateUser, Attach, OpenSession,
       ReadToken, DropToken, CheckOwner, LinkIdentity, Fail, ExpireState, CloseSession, IssueToken,
       ExpireToken, WriteMemo, WriteNote, BeginMerge, MoveNotes, MoveIdentities, MoveMemo, AbortMerge,
       Crash, tables, vars
  <1> QED
    BY <1>1, <1>2, <1>3, <1>4, AttachedKeeps

\* Initially no merge runs.
LEMMA InitMoving == Init => Moving
  BY DEF Init, Moving, NoMerge

\* A step that lets a merge alone keeps what it has in hand.
LEMMA MovingStays ==
  ASSUME TypeOK, Moving, [Next]_vars, ~CommitMerge, merge' = merge
  PROVE  Moving'
  <1> SUFFICES ASSUME merge.at # "none" PROVE Moving'
    BY DEF Moving
  <1>0. MergeData /\ UserIds' \subseteq UserIds'
    BY DEF TypeOK
  <1>1. /\ merge.src \in UserIds /\ merge.dst \in UserIds /\ merge.src # 0
        /\ merge.had.ids \subseteq Identity /\ merge.ids \subseteq Identity
    BY <1>0 DEF MergeData
  <1>2. /\ \A u \in UserIds : users'[u] = users[u]
        /\ \A i \in Identity : owner[i] # 0 => owner'[i] = owner[i]
        /\ notes \subseteq notes' /\ memos \subseteq memos'
    BY RowsStay
  <1>3. Active(merge.src)'
    BY <1>1, <1>2 DEF Moving, Active
  <1>4. TitlesOf(merge.src) \subseteq TitlesOf(merge.src)'
    BY <1>2 DEF TitlesOf
  <1>5. \A i \in merge.had.ids \cup merge.ids : owner'[i] = merge.src
    BY <1>1, <1>2 DEF Moving
  <1> QED
    BY <1>2, <1>3, <1>4, <1>5 DEF Moving

\* Every step keeps what a merge has in hand.
LEMMA NextMoving == ASSUME TypeOK, Moving, [Next]_vars PROVE Moving'
  <1>0. MergeData
    BY DEF TypeOK
  <1>1. ASSUME NEW src \in UserIds, NEW dst \in UserIds, BeginMerge(src, dst) PROVE Moving'
    <2>1. merge' = [at |-> "notes", src |-> src, dst |-> dst, titles |-> {}, ids |-> {},
                    memo |-> IF MemoDoubled(src, dst) THEN "deleted" ELSE "left",
                    had |-> [titles |-> TitlesOf(src), ids |-> Owns(src), memo |-> src \in memos]]
      BY <1>1 DEF BeginMerge, NoMerge
    <2>2. /\ users' = users /\ notes' = notes /\ owner' = owner /\ memos' = memos
          /\ src # dst /\ Active(src)
      BY <1>1 DEF BeginMerge, tables
    <2> QED
      BY <2>1, <2>2 DEF Moving, Active, TitlesOf, Owns, MemoDoubled
  <1>2. CASE MoveNotes
    <2>1. merge' = [merge EXCEPT !.at = "identities", !.titles = TitlesOf(merge.src)]
          /\ UNCHANGED <<users, owner, notes, memos>> /\ merge.at = "notes"
      BY <1>2 DEF MoveNotes, tables
    <2>2. /\ merge'.at = "identities" /\ merge'.titles = TitlesOf(merge.src)
          /\ merge'.src = merge.src /\ merge'.dst = merge.dst /\ merge'.had = merge.had
          /\ merge'.ids = merge.ids /\ merge'.memo = merge.memo
      BY <1>0, <2>1 DEF MergeData
    <2> QED
      BY <2>1, <2>2 DEF Moving, Active, TitlesOf
  <1>3. CASE MoveIdentities
    <2>1. merge' = [merge EXCEPT !.at = "memo", !.ids = Owns(merge.src)]
          /\ UNCHANGED <<users, owner, notes, memos>> /\ merge.at = "identities"
      BY <1>3 DEF MoveIdentities, tables
    <2>2. /\ merge'.at = "memo" /\ merge'.titles = merge.titles
          /\ merge'.src = merge.src /\ merge'.dst = merge.dst /\ merge'.had = merge.had
          /\ merge'.ids = Owns(merge.src) /\ merge'.memo = merge.memo
      BY <1>0, <2>1 DEF MergeData
    <2>3. merge.had.ids \subseteq Identity
      BY <1>0 DEF MergeData
    <2>4. \A i \in merge'.had.ids \cup merge'.ids : owner'[i] = merge'.src
      BY <2>1, <2>2 DEF Moving, Owns
    <2>5. merge'.had.ids \subseteq merge'.ids
      BY <2>1, <2>2, <2>3 DEF Moving, Owns
    <2> QED
      BY <2>1, <2>2, <2>4, <2>5 DEF Moving, Active, TitlesOf
  <1>4. CASE MoveMemo
    <2>1. PICK m \in {"left", "moved", "deleted"} :
            /\ merge' = [merge EXCEPT !.at = "commit", !.memo = m]
            /\ m = merge.memo \/ m = "moved"
            /\ merge.memo = "left" /\ merge.src \in memos => m = "moved"
      BY <1>0, <1>4 DEF MoveMemo, MergeData
    <2>2. UNCHANGED <<users, owner, notes, memos>> /\ merge.at = "memo"
      BY <1>4 DEF MoveMemo, tables
    <2>3. /\ merge'.at = "commit" /\ merge'.titles = merge.titles
          /\ merge'.src = merge.src /\ merge'.dst = merge.dst /\ merge'.had = merge.had
          /\ merge'.ids = merge.ids /\ merge'.memo = m
      BY <1>0, <2>1 DEF MergeData
    <2> QED
      BY <2>1, <2>2, <2>3 DEF Moving, Active, TitlesOf
  <1>5. CASE CommitMerge \/ AbortMerge \/ Crash
    <2>1. merge'.at = "none"
      BY <1>5 DEF CommitMerge, AbortMerge, Crash, NoMerge
    <2> QED
      BY <2>1 DEF Moving
  <1>6. CASE merge' = merge /\ ~CommitMerge
    BY <1>6, MovingStays
  <1> QED
    BY <1>1, <1>2, <1>3, <1>4, <1>5, <1>6 DEF Next, Serve, Login, Callback, Profile, Lookup, Bridge,
       CreateUser, Attach, OpenSession, ReadToken, DropToken, CheckOwner, LinkIdentity, Fail,
       ExpireState, CloseSession, IssueToken, ExpireToken, WriteMemo, WriteNote, vars

\* What a commit does to the rows.
LEMMA Committed ==
  ASSUME TypeOK, Moving, CommitMerge
  PROVE  /\ merge.src \in UserIds /\ merge.dst \in UserIds /\ UserIds' = UserIds
         /\ users'[merge.src].into = merge.dst
         /\ \A u \in UserIds \ {merge.src} : users'[u] = users[u]
         /\ \A i \in Identity : owner'[i] # owner[i] => owner[i] = merge.src /\ owner'[i] = merge.dst
  <1>1. merge # NoMerge /\ merge.at = "commit" /\ merge.src \in UserIds /\ merge.dst \in UserIds
    BY DEF CommitMerge, NoMerge, TypeOK, MergeData
  <1>2. \A i \in merge.ids : owner[i] = merge.src
    BY <1>1 DEF Moving
  <1> QED
    BY <1>1, <1>2, TombstoneRow DEF CommitMerge

\* However sign-ins, links and merges interleave, an identity goes from its user
\* only to the user this one is merged into.
THEOREM OwnerKeptHolds == Spec => OwnerKept
  <1>1. TypeOK /\ Moving /\ [Next]_vars
          => [\A i \in Identity : owner[i] # 0 /\ owner'[i] # owner[i]
                => users'[owner[i]].into = owner'[i]]_vars
    <2> SUFFICES ASSUME TypeOK, Moving, [Next]_vars, NEW i \in Identity,
                        owner[i] # 0, owner'[i] # owner[i]
                 PROVE  users'[owner[i]].into = owner'[i]
      OBVIOUS
    <2>1. CommitMerge
      BY RowsStay
    <2> QED
      BY <2>1, Committed
  <1>2. TypeOK /\ Moving /\ [Next]_vars => Moving'
    BY NextMoving
  <1> QED
    BY <1>1, <1>2, InitMoving, TypeCorrect, PTL DEF Spec, OwnerKept

\* However sessions write and callbacks sign in and link between the statements of
\* a merge, what its users had when it began is with the user that stays, and what
\* came meanwhile is with one of the two.
THEOREM MergeKeepsDataHolds == Spec => MergeKeepsData
  <1> DEFINE Kept(src) ==
        LET dst == users'[src].into
        IN  /\ \A t \in merge.had.titles \cup TitlesOf(dst) : <<dst, t>> \in notes'
            /\ \A i \in merge.had.ids \cup Owns(dst) : owner'[i] = dst
            /\ merge.had.memo \/ dst \in memos => dst \in memos'
            /\ \A t \in TitlesOf(src) \ merge.had.titles :
                  <<src, t>> \in notes' \/ <<dst, t>> \in notes'
  <1>1. TypeOK /\ Moving /\ [Next]_vars
          => [\A src \in UserIds : Active(src) /\ users'[src].into # 0 => Kept(src)]_vars
    <2> SUFFICES ASSUME TypeOK, Moving, [Next]_vars, NEW u \in UserIds, Active(u),
                        users'[u].into # 0
                 PROVE  Kept(u)
      OBVIOUS
    <2>1. CommitMerge
      BY RowsStay DEF Active
    <2>2. merge.at = "commit" /\ u = merge.src /\ users'[u].into = merge.dst
      BY <2>1, Committed DEF Active, CommitMerge
    <2> DEFINE src == merge.src dst == merge.dst
    <2>3. /\ src # dst /\ merge.had.titles \subseteq merge.titles
          /\ merge.had.ids \subseteq merge.ids
          /\ merge.had.memo => merge.memo # "left" /\ src \in memos
          /\ merge.memo = "deleted" => dst \in memos
          /\ \A i \in merge.ids : owner[i] = src
      BY <2>2 DEF Moving
    <2>4. merge.memo \in {"left", "moved", "deleted"} /\ merge.ids \subseteq Identity
          /\ merge.titles \subseteq Title
      BY DEF TypeOK, MergeData
    <2>5. /\ notes' = (notes \ ({src} \X merge.titles)) \cup ({dst} \X merge.titles)
          /\ owner' = [i \in Identity |-> IF i \in merge.ids THEN dst ELSE owner[i]]
      BY <2>1 DEF CommitMerge
    <2>6. merge.had.memo \/ dst \in memos => dst \in memos'
      <3>1. CASE merge.memo = "moved"
        BY <2>1, <3>1 DEF CommitMerge
      <3>2. CASE merge.memo = "deleted"
        BY <2>1, <2>3, <3>2 DEF CommitMerge
      <3>3. CASE merge.memo = "left"
        BY <2>1, <2>3, <3>3 DEF CommitMerge
      <3> QED
        BY <2>4, <3>1, <3>2, <3>3
    <2> HIDE DEF src, dst
    <2>7. \A t \in merge.had.titles \cup TitlesOf(dst) : <<dst, t>> \in notes'
      BY <2>3, <2>5 DEF TitlesOf
    <2>8. \A i \in merge.had.ids \cup Owns(dst) : owner'[i] = dst
      BY <2>3, <2>4, <2>5 DEF Owns
    <2>9. \A t \in TitlesOf(src) : <<src, t>> \in notes' \/ <<dst, t>> \in notes'
      BY <2>3, <2>5 DEF TitlesOf
    <2> QED
      BY <2>2, <2>6, <2>7, <2>8, <2>9 DEF src, dst
  <1>2. TypeOK /\ Moving /\ [Next]_vars => Moving'
    BY NextMoving
  <1> QED
    BY <1>1, <1>2, InitMoving, TypeCorrect, PTL DEF Spec, MergeKeepsData


-----------------------------------------------------------------------------
(* What a callback has read                                                *)

\* Whom a callback has to have met: those that have found the same identity missing,
\* have looked for a user or have read the same token, and have not written yet.
Acquainted ==
    \A r, s \in Req : r # s =>
        /\ pc[r] \in Storing /\ pc[s] \in Storing /\ who[r] = who[s]
             => <<"identity", r, s>> \in met
        /\ pc[r] \in Choosing /\ pc[s] \in Choosing => <<"user", r, s>> \in met
        /\ pc[r] = "drop" /\ pc[s] = "drop" /\ link[r] = link[s] => <<"token", r, s>> \in met

Mutual == \A k \in {"identity", "user", "token"}, r, s \in Req :
              <<k, r, s>> \in met => <<k, s, r>> \in met

\* The histories only grow.
LEMMA HistoryGrows ==
  ASSUME [Next]_vars
  PROVE  met \subseteq met' /\ stored \subseteq stored' /\ uprooted \subseteq uprooted'
         /\ issued \subseteq issued'
  BY DEF Next, Serve, Login, Callback, Profile, Lookup, Bridge, CreateUser, Attach, Attached,
     OpenSession, ReadToken, DropToken, CheckOwner, LinkIdentity, Fail, ExpireState, CloseSession,
     IssueToken, ExpireToken, WriteMemo, WriteNote, BeginMerge, MoveNotes, MoveIdentities, MoveMemo,
     CommitMerge, AbortMerge, Crash, MeetStoring, Meet, history, store, vars

\* A step of one callback leaves the others alone.
LEMMA OthersStay ==
  ASSUME TypeOK, NEW r \in Req, Serve(r) \/ Login(r) \/ Callback(r) \/ ExpireState(r)
  PROVE  \A s \in Req \ {r} : /\ pc'[s] = pc[s] /\ who'[s] = who[s]
                               /\ uid'[s] = uid[s] /\ link'[s] = link[s]
  <1>1. /\ DOMAIN pc = Req /\ DOMAIN who = Req /\ DOMAIN uid = Req /\ DOMAIN link = Req
    BY DEF TypeOK
  <1> QED
    BY <1>1 DEF Serve, Login, Callback, ExpireState, Profile, Lookup, Bridge, CreateUser, Attach,
       OpenSession, ReadToken, DropToken, CheckOwner, LinkIdentity, Fail, Answer, Forget, Goto

\* Where the steps of a callback lead.
LEMMA Stages ==
  ASSUME TypeOK, NEW r \in Req
  PROVE  /\ Login(r) => pc'[r] = "away"
         /\ Callback(r) => pc'[r] = "profile"
         /\ ExpireState(r) \/ Fail(r) => pc'[r] = "refused"
         /\ Profile(r) => pc'[r] \in {"token", "lookup"}
         /\ Lookup(r) => \/ (pc'[r] = "bridge" /\ owner[who[r]] = 0)
                         \/ (pc'[r] = "session" /\ uid'[r] = owner[who[r]])
         /\ Bridge(r) => \/ pc'[r] = "create"
                         \/ (pc'[r] = "attach" /\ uid'[r] \in Bridgeable(r))
         /\ CreateUser(r) => pc'[r] = "attach" /\ uid'[r] = Len(users) + 1
         /\ Attach(r) => pc'[r] = "session" /\ pc[r] = "attach"
         /\ OpenSession(r) => pc'[r] = "done" /\ pc[r] = "session"
         /\ ReadToken(r) => pc'[r] = "drop" /\ uid'[r] = tokens[link[r]]
         /\ DropToken(r) => \/ pc'[r] = "refused"
                            \/ (pc'[r] = "check" /\ uid[r] # 0 /\ uid' = uid)
         /\ CheckOwner(r) => \/ pc'[r] = "refused"
                             \/ (pc'[r] = "link" /\ owner[who[r]] \in {0, uid[r]})
         /\ LinkIdentity(r) => pc'[r] = "linked" /\ pc[r] = "link"
  <1>1. DOMAIN pc = Req /\ DOMAIN uid = Req
    BY DEF TypeOK
  <1> QED
    BY <1>1 DEF Login, Callback, ExpireState, Profile, Lookup, Bridge, CreateUser, Attach,
       OpenSession, ReadToken, DropToken, CheckOwner, LinkIdentity, Fail, Answer, Forget, Goto

\* A step of one callback keeps the others acquainted, and makes it acquainted with
\* those whose stage it comes to.
LEMMA ServeAcquainted ==
  ASSUME TypeOK, Acquainted, NEW r \in Req, Serve(r), met \subseteq met'
  PROVE  Acquainted'
  <1>1. \A s \in Req \ {r} : /\ pc'[s] = pc[s] /\ who'[s] = who[s]
                              /\ uid'[s] = uid[s] /\ link'[s] = link[s]
    BY OthersStay
  <1>2. SUFFICES ASSUME NEW s \in Req \ {r}
        PROVE  /\ pc'[r] \in Storing /\ pc[s] \in Storing /\ who'[r] = who[s]
                    => <<"identity", r, s>> \in met' /\ <<"identity", s, r>> \in met'
               /\ pc'[r] \in Choosing /\ pc[s] \in Choosing
                    => <<"user", r, s>> \in met' /\ <<"user", s, r>> \in met'
               /\ pc'[r] = "drop" /\ pc[s] = "drop" /\ link'[r] = link[s]
                    => <<"token", r, s>> \in met' /\ <<"token", s, r>> \in met'
    BY <1>1 DEF Acquainted
  <1>3. CASE Lookup(r) \/ CheckOwner(r)
    <2>1. who' = who \/ pc'[r] = "refused"
      BY <1>3, Stages DEF Lookup, CheckOwner
    <2>2. pc'[r] \in {"bridge", "link", "session", "refused"}
      BY <1>3, Stages
    <2>3. pc'[r] \in {"bridge", "link"} => MeetStoring(r)
      BY <1>3, Stages DEF Lookup, CheckOwner, TypeOK
    <2> QED
      BY <2>1, <2>2, <2>3 DEF MeetStoring, Meet, Storing, Choosing
  <1>4. CASE Bridge(r)
    <2>1. /\ pc[r] = "bridge" /\ pc'[r] \in {"create", "attach"} /\ who' = who
          /\ Meet("user", r, {x \in Req : pc[x] \in Choosing})
      BY <1>4, Stages DEF Bridge
    <2>2. pc[s] \in Choosing => <<"user", r, s>> \in met' /\ <<"user", s, r>> \in met'
      BY <2>1 DEF Meet
    <2> QED
      BY <2>1, <2>2 DEF Acquainted, Storing
  <1>5. CASE ReadToken(r)
    <2>1. /\ pc'[r] = "drop" /\ link' = link
          /\ Meet("token", r, {x \in Req : pc[x] = "drop" /\ link[x] = link[r]})
      BY <1>5, Stages DEF ReadToken
    <2> QED
      BY <2>1 DEF Meet, Storing, Choosing
  <1>6. CASE CreateUser(r)
    <2>1. pc[r] = "create" /\ pc'[r] = "attach" /\ who' = who
      BY <1>6, Stages DEF CreateUser
    <2> QED
      BY <2>1 DEF Acquainted, Storing, Choosing
  <1>7. CASE Profile(r) \/ Attach(r) \/ OpenSession(r) \/ DropToken(r) \/ LinkIdentity(r) \/ Fail(r)
    <2>1. pc'[r] \notin Storing /\ pc'[r] \notin Choosing /\ pc'[r] # "drop"
      BY <1>7, Stages DEF Storing, Choosing
    <2> QED
      BY <2>1
  <1> QED
    BY <1>3, <1>4, <1>5, <1>6, <1>7 DEF Serve

\* Every step keeps callbacks acquainted, and acquaintance mutual.
LEMMA NextAcquainted ==
  ASSUME TypeOK, Acquainted, Mutual, [Next]_vars
  PROVE  Acquainted' /\ Mutual'
  <1>0. met \subseteq met' /\ DOMAIN pc = Req
    BY HistoryGrows DEF TypeOK
  <1>1. Mutual'
    <2>1. \/ met' = met
          \/ \E k \in {"identity", "user", "token"}, r \in Req, W \in SUBSET Req : Meet(k, r, W)
      <3>1. \A r \in Req : MeetStoring(r) =>
               \E W \in SUBSET Req : Meet("identity", r, W)
        BY DEF MeetStoring
      <3>2. \A r \in Req : Bridge(r) => \E W \in SUBSET Req : Meet("user", r, W)
        BY DEF Bridge
      <3>3. \A r \in Req : ReadToken(r) => \E W \in SUBSET Req : Meet("token", r, W)
        BY DEF ReadToken
      <3> QED
        BY <3>1, <3>2, <3>3 DEF Next, Serve, Login, Callback, Profile, Lookup, CreateUser, Attach,
           OpenSession, DropToken, CheckOwner, LinkIdentity, Fail, ExpireState, CloseSession,
           IssueToken, ExpireToken, WriteMemo, WriteNote, BeginMerge, MoveNotes, MoveIdentities,
           MoveMemo, CommitMerge, AbortMerge, Crash, history, vars
    <2> QED
      BY <2>1 DEF Mutual, Meet
  <1>2. ASSUME NEW r \in Req, Serve(r) PROVE Acquainted'
    BY <1>0, <1>2, ServeAcquainted
  <1>3. ASSUME NEW r \in Req, Login(r) \/ Callback(r) \/ ExpireState(r) PROVE Acquainted'
    <2>1. pc'[r] \notin Storing /\ pc'[r] \notin Choosing /\ pc'[r] # "drop"
      BY <1>3, Stages DEF Storing, Choosing
    <2>2. \A s \in Req \ {r} : pc'[s] = pc[s] /\ who'[s] = who[s] /\ link'[s] = link[s]
      BY <1>3, OthersStay
    <2> QED
      BY <1>0, <2>1, <2>2 DEF Acquainted
  <1>4. CASE Crash
    <2>1. \A s \in Req : pc'[s] \notin Storing /\ pc'[s] \notin Choosing /\ pc'[s] # "drop"
      BY <1>4 DEF Crash, Serving, InServer, Storing, Choosing
    <2> QED
      BY <1>1, <2>1 DEF Acquainted
  <1>5. CASE UNCHANGED <<pc, who, link>>
    <2>1. pc' = pc /\ who' = who /\ link' = link
      BY <1>5
    <2> QED
      BY <1>0, <1>1, <2>1 DEF Acquainted
  <1> QED
    BY <1>1, <1>2, <1>3, <1>4, <1>5 DEF Next, CloseSession, IssueToken, ExpireToken, WriteMemo,
       WriteNote, BeginMerge, MoveNotes, MoveIdentities, MoveMemo, CommitMerge, AbortMerge, vars

\* Initially nobody has read anything.
LEMMA InitAcquainted == Init => Acquainted /\ Mutual
  BY DEF Init, Acquainted, Mutual, Storing, Choosing

\* What a callback has read of its identity is still so, or it was raced for it, or
\* its user was merged.
ReadStays(r) ==
    /\ pc[r] \in {"bridge", "create", "attach"} => owner[who[r]] = 0 \/ Raced("identity", r)
    /\ pc[r] = "link" => owner[who[r]] \in {0, uid[r]} \/ Raced("identity", r) \/ r \in uprooted
    /\ pc[r] = "session" => owner[who[r]] = uid[r] \/ Raced("identity", r) \/ r \in uprooted

\* Another callback that stores an identity has met those that have found it missing.
LEMMA OtherStores ==
  ASSUME TypeOK, Acquainted, NEW s \in Req, Attached(s), pc[s] \in Storing,
         NEW r \in Req, r # s, ReadStays(r), met \subseteq met', uprooted \subseteq uprooted',
         pc'[r] = pc[r], who'[r] = who[r], uid'[r] = uid[r]
  PROVE  ReadStays(r)'
  <1>0. Raced("identity", r) => Raced("identity", r)'
    BY DEF Raced
  <1>1. CASE pc[r] \in Storing /\ who[r] = who[s]
    <2>1. <<"identity", r, s>> \in met'
      BY <1>1 DEF Acquainted
    <2> QED
      BY <1>1, <2>1 DEF ReadStays, Raced, Storing
  <1>2. CASE pc[r] \in Storing /\ who[r] # who[s]
    <2>1. who[r] \in Identity /\ owner'[who[r]] = owner[who[r]]
      BY <1>2, Identified DEF Attached, Storing, TypeOK
    <2> QED
      BY <1>0, <1>2, <2>1 DEF ReadStays, Storing
  <1>3. CASE pc[r] = "session"
    <2>1. who[r] \in Identity /\ uid[r] # 0
      BY <1>3, Identified DEF TypeOK, StageData
    <2>2. owner[who[r]] = uid[r] => owner'[who[r]] = uid[r]
      BY <2>1, AttachedKeeps
    <2> QED
      BY <1>0, <1>3, <2>2 DEF ReadStays
  <1> QED
    BY <1>1, <1>2, <1>3 DEF ReadStays, Storing

\* A step that leaves the owners and the callback alone.
LEMMA ReadStaysStill ==
  ASSUME NEW r \in Req, ReadStays(r), met \subseteq met', uprooted \subseteq uprooted',
         owner' = owner, pc'[r] = pc[r], who'[r] = who[r], uid'[r] = uid[r]
  PROVE  ReadStays(r)'
  BY DEF ReadStays, Raced

\* The step of a callback keeps what it and the others have read.
LEMMA ServeReads ==
  ASSUME TypeOK, Acquainted, \A x \in Req : ReadStays(x), NEW s \in Req, Serve(s), [Next]_vars,
         NEW r \in Req
  PROVE  ReadStays(r)'
  <1>0. met \subseteq met' /\ uprooted \subseteq uprooted'
    BY HistoryGrows
  <1>1. CASE r # s
    <2>1. pc'[r] = pc[r] /\ who'[r] = who[r] /\ uid'[r] = uid[r]
      BY <1>1, OthersStay
    <2>2. \/ owner' = owner
          \/ Attached(s) /\ pc[s] \in Storing
      BY DEF Serve, Profile, Lookup, Bridge, CreateUser, Attach, OpenSession, ReadToken, DropToken,
         CheckOwner, LinkIdentity, Fail, tables, Storing
    <2> QED
      BY <1>0, <1>1, <2>1, <2>2, OtherStores, ReadStaysStill
  <1>2. CASE r = s
    <2>1. CASE Lookup(r)
      <3>1. owner' = owner /\ who' = who
        BY <2>1 DEF Lookup, tables
      <3> QED
        BY <2>1, <3>1, Stages DEF ReadStays
    <2>2. CASE Bridge(r) \/ CreateUser(r)
      <3>1. /\ owner' = owner /\ who' = who /\ pc[r] \in {"bridge", "create"}
            /\ pc'[r] \in {"create", "attach"}
        BY <2>2, Stages DEF Bridge, CreateUser, tables
      <3> QED
        BY <1>0, <3>1 DEF ReadStays, Raced
    <2>3. CASE Attach(r)
      <3>1. /\ who[r] \in Identity /\ owner \in [Identity -> {0} \cup UserIds]
            /\ pc[r] = "attach" /\ pc'[r] = "session" /\ who' = who /\ uid' = uid /\ Attached(r)
        BY <2>3, Identified, Stages DEF Attach, TypeOK
      <3>2. owner[who[r]] = 0 => owner'[who[r]] = uid[r]
        BY <3>1 DEF Attached
      <3> QED
        BY <1>0, <3>1, <3>2 DEF ReadStays, Raced
    <2>4. CASE CheckOwner(r)
      <3>1. \/ pc'[r] = "refused"
            \/ /\ pc'[r] = "link" /\ owner[who[r]] \in {0, uid[r]} /\ pc[r] = "check"
               /\ owner' = owner /\ who' = who /\ uid' = uid
        BY <2>4, Stages DEF CheckOwner, tables
      <3> QED
        BY <3>1 DEF ReadStays
    <2>5. CASE \/ Profile(r) \/ OpenSession(r) \/ ReadToken(r) \/ DropToken(r)
               \/ LinkIdentity(r) \/ Fail(r)
      <3>1. pc'[r] \notin {"bridge", "create", "attach", "link", "session"}
        BY <2>5, Stages
      <3> QED
        BY <3>1 DEF ReadStays
    <2> QED
      BY <1>2, <2>1, <2>2, <2>3, <2>4, <2>5 DEF Serve
  <1> QED
    BY <1>1, <1>2

\* Every step keeps what callbacks have read.
LEMMA NextReads ==
  ASSUME TypeOK, Moving, Acquainted, \A x \in Req : ReadStays(x), [Next]_vars, NEW r \in Req
  PROVE  ReadStays(r)'
  <1>0. met \subseteq met' /\ uprooted \subseteq uprooted'
    BY HistoryGrows
  <1>1. ASSUME NEW s \in Req, Serve(s) PROVE ReadStays(r)'
    BY <1>1, ServeReads
  <1>2. ASSUME NEW s \in Req, Login(s) \/ Callback(s) \/ ExpireState(s) PROVE ReadStays(r)'
    <2>1. CASE r = s
      <3>1. pc'[r] \in {"away", "profile", "refused"}
        BY <1>2, <2>1, Stages
      <3> QED
        BY <3>1 DEF ReadStays
    <2>2. CASE r # s
      <3>1. pc'[r] = pc[r] /\ who'[r] = who[r] /\ uid'[r] = uid[r]
        BY <1>2, <2>2, OthersStay
      <3>2. owner' = owner
        BY <1>2 DEF Login, Callback, ExpireState, tables
      <3> QED
        BY <1>0, <3>1, <3>2, ReadStaysStill
    <2> QED
      BY <2>1, <2>2
  <1>3. CASE CommitMerge
    <2>1. /\ \A i \in Identity : owner'[i] # owner[i] => owner[i] = merge.src
          /\ merge.src \in UserIds /\ merge.src # 0
      BY <1>3, Committed DEF UserIds
    <2>2. UNCHANGED <<pc, who, uid>> /\ uprooted' = uprooted \cup {x \in Serving : uid[x] = merge.src}
      BY <1>3 DEF CommitMerge
    <2>3. pc[r] \in {"bridge", "create", "attach", "link", "session"} => who[r] \in Identity
      BY Identified
    <2>4. pc[r] \in {"link", "session"} /\ uid[r] = merge.src => r \in uprooted'
      BY <2>2 DEF Serving, InServer
    <2> QED
      BY <1>0, <2>1, <2>2, <2>3, <2>4 DEF ReadStays, Raced
  <1>4. CASE Crash
    <2>1. pc'[r] \notin {"bridge", "create", "attach", "link", "session"}
      BY <1>4 DEF Crash, Serving, InServer
    <2> QED
      BY <2>1 DEF ReadStays
  <1>5. CASE UNCHANGED <<owner, pc, who, uid>>
    BY <1>0, <1>5, ReadStaysStill
  <1> QED
    BY <1>1, <1>2, <1>3, <1>4, <1>5 DEF Next, CloseSession, IssueToken, ExpireToken, WriteMemo,
       WriteNote, BeginMerge, MoveNotes, MoveIdentities, MoveMemo, AbortMerge, tables, vars

ReadsInvariant ==
    /\ Moving /\ Acquainted /\ Mutual
    /\ \A r \in Req : ReadStays(r)

\* However many callbacks, merges and crashes interleave, what a callback has read of
\* its identity is so until it writes, but for the races that met and uprooted note.
THEOREM ReadsStay == Spec => []ReadsInvariant
  <1>1. Init => ReadsInvariant
    BY InitMoving, InitAcquainted DEF ReadsInvariant, Init, ReadStays
  <1>2. TypeOK /\ ReadsInvariant /\ [Next]_vars => ReadsInvariant'
    BY NextMoving, NextAcquainted, NextReads DEF ReadsInvariant
  <1> QED
    BY <1>1, <1>2, TypeCorrect, PTL DEF Spec

\* However many callbacks, merges and crashes interleave, who is told to be signed in
\* as a user, or that an identity was linked to a user, is its owner, unless another
\* callback had found the same identity missing or the user was merged meanwhile.
THEOREM AnswersOwnerUnlessRacedHolds == Spec => AnswersOwnerUnlessRaced
  <1>1. TypeOK /\ ReadsInvariant /\ [Next]_vars
          => [\A r \in Req : pc[r] # pc'[r] /\ pc'[r] \in {"done", "linked"}
                => \/ owner'[who[r]] = uid[r]
                   \/ Raced("identity", r) \/ r \in uprooted]_vars
    <2> SUFFICES ASSUME TypeOK, ReadsInvariant, [Next]_vars, NEW r \in Req, pc[r] # pc'[r],
                        pc'[r] \in {"done", "linked"}
                 PROVE  owner'[who[r]] = uid[r] \/ Raced("identity", r) \/ r \in uprooted
      OBVIOUS
    <2>0. DOMAIN pc = Req /\ ReadStays(r)
      BY DEF TypeOK, ReadsInvariant
    <2>1. CASE OpenSession(r)
      BY <2>0, <2>1 DEF OpenSession, tables, ReadStays
    <2>2. CASE LinkIdentity(r)
      <3>1. who[r] \in Identity /\ owner \in [Identity -> {0} \cup UserIds] /\ uid[r] # 0
        BY <2>2, Identified DEF LinkIdentity, TypeOK, StageData
      <3>2. owner[who[r]] \in {0, uid[r]} => owner'[who[r]] = uid[r]
        BY <2>2, <3>1 DEF LinkIdentity, Attached
      <3> QED
        BY <2>0, <2>2, <3>2 DEF LinkIdentity, ReadStays
    <2>3. OpenSession(r) \/ LinkIdentity(r)
      <3>1. ASSUME NEW s \in Req, Login(s) \/ Callback(s) \/ ExpireState(s) PROVE FALSE
        BY <3>1, Stages, OthersStay
      <3>2. ASSUME NEW s \in Req, Serve(s) PROVE OpenSession(r) \/ LinkIdentity(r)
        <4>1. s = r
          BY <3>2, OthersStay
        <4> QED
          BY <3>2, <4>1, Stages DEF Serve
      <3>3. CASE Crash
        BY <3>3 DEF Crash
      <3> QED
        BY <3>1, <3>2, <3>3 DEF Next, CloseSession, IssueToken, ExpireToken, WriteMemo, WriteNote,
           BeginMerge, MoveNotes, MoveIdentities, MoveMemo, CommitMerge, AbortMerge, vars
    <2> QED
      BY <2>1, <2>2, <2>3
  <1> QED
    BY <1>1, TypeCorrect, ReadsStay, PTL DEF Spec, AnswersOwnerUnlessRaced

-----------------------------------------------------------------------------
(* Which identities one user comes to own                                  *)

Into(u) == \E x \in UserIds : users[x].into = u

\* j was linked, or stored by a callback that had chosen its user when r did.
Excused(r, j) ==
    \E s \in Req : <<s, j>> \in stored /\ (pc[s] = "linked" \/ <<"user", r, s>> \in met)

\* i and j were stored by callbacks that are excused for it.
Joined(i, j) ==
    \E r, s \in Req : /\ <<r, i>> \in stored /\ <<s, j>> \in stored
                      /\ pc[r] = "linked" \/ pc[s] = "linked" \/ <<"user", r, s>> \in met

\* Somebody has stored every identity; what the user owns that a callback is about to
\* store an identity for is excused, and so is what one user owns two of.
Apart ==
    /\ \A i \in Identity : owner[i] # 0 => \E s \in Req : <<s, i>> \in stored
    /\ \A r \in Req : pc[r] = "attach" =>
          \A j \in Identity : owner[j] = uid[r] => Into(uid[r]) \/ Excused(r, j)
    /\ \A i, j \in Identity : i # j /\ owner[i] = owner[j] /\ owner[i] # 0
          => Into(owner[i]) \/ Joined(i, j)

\* A round trip that has linked stays so.
LEMMA LinkedStays ==
  ASSUME TypeOK, [Next]_vars, NEW s \in Req, pc[s] = "linked"
  PROVE  pc'[s] = "linked"
  <1>1. ASSUME NEW r \in Req, Serve(r) \/ Login(r) \/ Callback(r) \/ ExpireState(r)
        PROVE  pc'[s] = "linked"
    <2>1. r # s
      BY <1>1 DEF Serve, Login, Callback, ExpireState, Profile, Lookup, Bridge, CreateUser, Attach,
         OpenSession, ReadToken, DropToken, CheckOwner, LinkIdentity, Fail, InServer
    <2> QED
      BY <1>1, <2>1, OthersStay
  <1>2. CASE Crash
    BY <1>2 DEF Crash, Serving, InServer
  <1>3. CASE pc' = pc
    BY <1>3
  <1> QED
    BY <1>1, <1>2, <1>3 DEF Next, CloseSession, IssueToken, ExpireToken, WriteMemo, WriteNote,
       BeginMerge, MoveNotes, MoveIdentities, MoveMemo, CommitMerge, AbortMerge, vars

\* What excuses two identities of one user stays.
LEMMA ExcusesStay ==
  ASSUME TypeOK, Moving, [Next]_vars
  PROVE  /\ \A r \in Req, j \in Identity : Excused(r, j) => Excused(r, j)'
         /\ \A i, j \in Identity : Joined(i, j) => Joined(i, j)'
         /\ \A u : u # 0 /\ Into(u) => \E x \in UserIds' : users'[x].into = u
  <1>1. met \subseteq met' /\ stored \subseteq stored'
    BY HistoryGrows
  <1>2. \A s \in Req : pc[s] = "linked" => pc'[s] = "linked"
    BY LinkedStays
  <1>3. ASSUME NEW u, u # 0, Into(u) PROVE \E x \in UserIds' : users'[x].into = u
    <2>1. PICK x \in UserIds : users[x].into = u
      BY <1>3 DEF Into
    <2>2. CASE CommitMerge
      <3>1. x # merge.src
        BY <1>3, <2>1, <2>2 DEF Moving, Active, CommitMerge
      <3> QED
        BY <2>1, <2>2, <3>1, Committed
    <2>3. CASE ~CommitMerge
      BY <2>1, <2>3, RowsStay
    <2> QED
      BY <2>2, <2>3
  <1> QED
    BY <1>1, <1>2, <1>3 DEF Excused, Joined

\* A step that changes no owner keeps them apart if nobody comes to "attach" but with
\* a user that owns nothing.
LEMMA ApartStays ==
  ASSUME TypeOK, Moving, Apart, [Next]_vars, owner' = owner,
         \A r \in Req : pc'[r] = "attach" =>
            \/ pc[r] = "attach" /\ uid'[r] = uid[r]
            \/ \A j \in Identity : owner[j] # uid'[r]
  PROVE  Apart'
  <1>1. /\ \A r \in Req, j \in Identity : Excused(r, j) => Excused(r, j)'
        /\ \A i, j \in Identity : Joined(i, j) => Joined(i, j)'
        /\ \A u : u # 0 /\ Into(u) => \E x \in UserIds' : users'[x].into = u
    BY ExcusesStay
  <1>2. \A i \in Identity : owner'[i] # 0 => \E s \in Req : <<s, i>> \in stored'
    BY HistoryGrows DEF Apart
  <1>3. ASSUME NEW r \in Req, pc'[r] = "attach", NEW j \in Identity, owner'[j] = uid'[r]
        PROVE  (\E x \in UserIds' : users'[x].into = uid'[r]) \/ Excused(r, j)'
    <2>1. pc[r] = "attach" /\ uid'[r] = uid[r] /\ owner[j] = uid[r] /\ uid[r] # 0
      BY <1>3 DEF TypeOK, StageData
    <2>2. Into(uid[r]) \/ Excused(r, j)
      BY <2>1 DEF Apart
    <2> QED
      BY <1>1, <2>1, <2>2
  <1>4. ASSUME NEW i \in Identity, NEW j \in Identity, i # j, owner'[i] = owner'[j], owner'[i] # 0
        PROVE  (\E x \in UserIds' : users'[x].into = owner'[i]) \/ Joined(i, j)'
    BY <1>1, <1>4 DEF Apart
  <1> QED
    BY <1>2, <1>3, <1>4 DEF Apart, Into

\* A callback that stores an identity has an excuse for what its user owns already.
LEMMA AttachedApart ==
  ASSUME TypeOK, Moving, Acquainted, Mutual, Apart, [Next]_vars, NEW r \in Req,
         Attach(r) \/ LinkIdentity(r)
  PROVE  Apart'
  <1>0. /\ owner \in [Identity -> {0} \cup UserIds] /\ who[r] \in Identity /\ uid[r] # 0
        /\ Attached(r) /\ UNCHANGED <<users, met>> /\ UserIds' = UserIds
    BY Identified DEF TypeOK, StageData, Attach, LinkIdentity, UserIds
  <1>1. /\ \A q \in Req, j \in Identity : Excused(q, j) => Excused(q, j)'
        /\ \A i, j \in Identity : Joined(i, j) => Joined(i, j)'
        /\ \A u : u # 0 /\ Into(u) => \E x \in UserIds' : users'[x].into = u
    BY ExcusesStay
  <1>2. \A s \in Req \ {r} : pc'[s] = pc[s] /\ uid'[s] = uid[s]
    BY OthersStay DEF Serve
  <1>3. pc'[r] \in {"session", "linked"} /\ (LinkIdentity(r) => pc'[r] = "linked")
        /\ (Attach(r) => pc[r] = "attach")
    BY Stages
  <1>4. CASE owner[who[r]] # 0
    <2>1. owner' = owner
      BY <1>0, <1>4 DEF Attached
    <2>2. \A q \in Req : pc'[q] = "attach" => pc[q] = "attach" /\ uid'[q] = uid[q]
      BY <1>2, <1>3
    <2> QED
      BY <2>1, <2>2, ApartStays
  <1>5. CASE owner[who[r]] = 0
    <2>1. /\ owner' = [owner EXCEPT ![who[r]] = uid[r]] /\ stored' = stored \cup {<<r, who[r]>>}
          /\ owner'[who[r]] = uid[r] /\ \A i \in Identity \ {who[r]} : owner'[i] = owner[i]
      BY <1>0, <1>5 DEF Attached
    <2>2. \A i \in Identity : owner'[i] # 0 => \E s \in Req : <<s, i>> \in stored'
      BY <2>1 DEF Apart
    <2>3. ASSUME NEW q \in Req, pc'[q] = "attach", NEW j \in Identity, owner'[j] = uid'[q]
          PROVE  (\E x \in UserIds' : users'[x].into = uid'[q]) \/ Excused(q, j)'
      <3>1. q # r /\ pc[q] = "attach" /\ uid'[q] = uid[q] /\ uid[q] # 0
        BY <1>2, <1>3, <2>3 DEF TypeOK, StageData
      <3>2. CASE j # who[r]
        BY <1>1, <2>1, <2>3, <3>1, <3>2 DEF Apart
      <3>3. CASE j = who[r]
        <4>1. pc'[r] = "linked" \/ <<"user", q, r>> \in met'
          BY <1>0, <1>3, <3>1 DEF Acquainted, Choosing
        <4> QED
          BY <2>1, <3>3, <4>1 DEF Excused
      <3> QED
        BY <3>2, <3>3
    <2>4. ASSUME NEW i \in Identity, i = who[r], NEW j \in Identity, j # i, owner'[j] = uid[r]
          PROVE  \/ \E x \in UserIds' : users'[x].into = uid[r]
                 \/ (Joined(i, j)' /\ Joined(j, i)')
      <3>1. owner[j] = uid[r] /\ <<r, i>> \in stored' /\ stored \subseteq stored'
        BY <2>1, <2>4
      <3>2. CASE LinkIdentity(r)
        <4>1. PICK s \in Req : <<s, j>> \in stored
          BY <1>0, <3>1 DEF Apart
        <4> QED
          BY <1>3, <3>1, <3>2, <4>1 DEF Joined
      <3>3. CASE Attach(r)
        <4>1. Into(uid[r]) \/ Excused(r, j)
          BY <1>3, <3>1, <3>3 DEF Apart
        <4>2. CASE Into(uid[r])
          BY <1>0, <1>1, <4>2
        <4>3. CASE Excused(r, j)
          <5>1. PICK s \in Req : <<s, j>> \in stored /\ (pc[s] = "linked" \/ <<"user", r, s>> \in met)
            BY <4>3 DEF Excused
          <5>2. pc'[s] = "linked" \/ (<<"user", r, s>> \in met' /\ <<"user", s, r>> \in met')
            BY <1>0, <5>1, LinkedStays DEF Mutual
          <5> QED
            BY <3>1, <5>1, <5>2 DEF Joined
        <4> QED
          BY <4>1, <4>2, <4>3
      <3> QED
        BY <3>2, <3>3
    <2>5. ASSUME NEW i \in Identity, NEW j \in Identity, i # j, owner'[i] = owner'[j], owner'[i] # 0
          PROVE  (\E x \in UserIds' : users'[x].into = owner'[i]) \/ Joined(i, j)'
      <3>1. CASE i = who[r] \/ j = who[r]
        BY <2>1, <2>4, <2>5, <3>1
      <3>2. CASE i # who[r] /\ j # who[r]
        BY <1>1, <2>1, <2>5, <3>2 DEF Apart
      <3> QED
        BY <3>1, <3>2
    <2> QED
      BY <2>2, <2>3, <2>5 DEF Apart, Into
  <1> QED
    BY <1>4, <1>5

\* A merge is an excuse for what it joins.
LEMMA MergeApart ==
  ASSUME TypeOK, Moving, Apart, [Next]_vars, CommitMerge
  PROVE  Apart'
  <1>0. /\ merge.src \in UserIds /\ merge.dst \in UserIds /\ UserIds' = UserIds
        /\ users'[merge.src].into = merge.dst
        /\ \A i \in Identity : owner'[i] # owner[i] => owner[i] = merge.src /\ owner'[i] = merge.dst
        /\ UNCHANGED <<pc, uid>> /\ merge.src # 0 /\ merge.dst # 0
    BY Committed DEF CommitMerge, UserIds
  <1>1. /\ \A q \in Req, j \in Identity : Excused(q, j) => Excused(q, j)'
        /\ \A i, j \in Identity : Joined(i, j) => Joined(i, j)'
        /\ \A u : u # 0 /\ Into(u) => \E x \in UserIds' : users'[x].into = u
    BY ExcusesStay
  <1>2. \A i \in Identity : owner'[i] # 0 => \E s \in Req : <<s, i>> \in stored'
    BY <1>0, HistoryGrows DEF Apart
  <1>3. ASSUME NEW r \in Req, pc'[r] = "attach", NEW j \in Identity, owner'[j] = uid'[r]
        PROVE  (\E x \in UserIds' : users'[x].into = uid'[r]) \/ Excused(r, j)'
    <2>1. pc[r] = "attach" /\ uid'[r] = uid[r] /\ uid[r] # 0
      BY <1>0, <1>3 DEF TypeOK, StageData
    <2>2. CASE owner'[j] = owner[j]
      BY <1>1, <1>3, <2>1, <2>2 DEF Apart
    <2>3. CASE owner'[j] # owner[j]
      BY <1>0, <1>3, <2>3
    <2> QED
      BY <2>2, <2>3
  <1>4. ASSUME NEW i \in Identity, NEW j \in Identity, i # j, owner'[i] = owner'[j], owner'[i] # 0
        PROVE  (\E x \in UserIds' : users'[x].into = owner'[i]) \/ Joined(i, j)'
    <2>1. CASE owner'[i] = merge.dst
      BY <1>0, <2>1
    <2>2. CASE owner'[i] # merge.dst
      <3>1. owner'[i] = owner[i] /\ owner'[j] = owner[j]
        BY <1>0, <1>4, <2>2
      <3> QED
        BY <1>1, <1>4, <3>1 DEF Apart
    <2> QED
      BY <2>1, <2>2
  <1> QED
    BY <1>2, <1>3, <1>4 DEF Apart, Into

\* Every step keeps the identities apart.
LEMMA NextApart ==
  ASSUME TypeOK, Moving, Acquainted, Mutual, Apart, [Next]_vars
  PROVE  Apart'
  <1>1. ASSUME NEW r \in Req, Attach(r) \/ LinkIdentity(r) PROVE Apart'
    BY <1>1, AttachedApart
  <1>2. ASSUME NEW r \in Req, Bridge(r) \/ CreateUser(r) PROVE Apart'
    <2>1. owner' = owner
      BY <1>2 DEF Bridge, CreateUser, tables
    <2>2. pc'[r] = "attach" => \A j \in Identity : owner[j] # uid'[r]
      <3>1. CASE Bridge(r)
        BY <3>1, Stages DEF Bridgeable, Owns
      <3>2. CASE CreateUser(r)
        <4>1. Len(users) \in Nat /\ owner \in [Identity -> {0} \cup 1..Len(users)]
          BY DEF TypeOK, UserIds
        <4>2. \A j \in Identity : owner[j] # Len(users) + 1
          BY <4>1
        <4> QED
          BY <3>2, <4>2, Stages
      <3> QED
        BY <1>2, <3>1, <3>2
    <2>3. \A s \in Req \ {r} : pc'[s] = pc[s] /\ uid'[s] = uid[s]
      BY <1>2, OthersStay DEF Serve
    <2> QED
      BY <2>1, <2>2, <2>3, ApartStays
  <1>3. ASSUME NEW r \in Req,
               \/ Login(r) \/ Callback(r) \/ ExpireState(r) \/ Fail(r) \/ Profile(r) \/ Lookup(r)
               \/ OpenSession(r) \/ ReadToken(r) \/ DropToken(r) \/ CheckOwner(r)
        PROVE  Apart'
    <2>1. owner' = owner
      BY <1>3 DEF Login, Callback, ExpireState, Fail, Profile, Lookup, OpenSession, ReadToken,
         DropToken, CheckOwner, tables
    <2>2. pc'[r] # "attach"
      BY <1>3, Stages
    <2>3. \A s \in Req \ {r} : pc'[s] = pc[s] /\ uid'[s] = uid[s]
      BY <1>3, OthersStay DEF Serve
    <2> QED
      BY <2>1, <2>2, <2>3, ApartStays
  <1>4. CASE CommitMerge
    BY <1>4, MergeApart
  <1>5. CASE Crash
    <2>1. owner' = owner /\ \A s \in Req : pc'[s] # "attach"
      BY <1>5 DEF Crash, Serving, InServer, tables
    <2> QED
      BY <2>1, ApartStays
  <1>6. CASE UNCHANGED <<owner, pc, uid>>
    BY <1>6, ApartStays
  <1> QED
    BY <1>1, <1>2, <1>3, <1>4, <1>5, <1>6 DEF Next, Serve, CloseSession, IssueToken, ExpireToken,
       WriteMemo, WriteNote, BeginMerge, MoveNotes, MoveIdentities, MoveMemo, AbortMerge, tables, vars

\* However many callbacks, merges and crashes interleave, one user owns two identities
\* only by a link, a merge or sign-ins that had chosen a user before either stored its
\* identity.
THEOREM NoAutoLinkHolds == Spec => []NoAutoLink
  <1>1. Init => Apart
    BY DEF Init, Apart
  <1>2. TypeOK /\ ReadsInvariant /\ Apart /\ [Next]_vars => Apart'
    BY NextApart DEF ReadsInvariant
  <1>3. Apart => NoAutoLink
    <2> SUFFICES ASSUME Apart, NEW i \in Identity, NEW j \in Identity,
                        i # j, owner[i] = owner[j], owner[i] # 0
                 PROVE  \/ \E u \in UserIds : users[u].into = owner[i]
                        \/ Joined(i, j)
      BY DEF NoAutoLink, Joined
    <2> QED
      BY DEF Apart, Into
  <1> QED
    BY <1>1, <1>2, <1>3, TypeCorrect, ReadsStay, PTL DEF Spec

-----------------------------------------------------------------------------
(* What a link token is good for                                           *)

\* r has read a token that was there.
Using(r) == pc[r] \in {"check", "link", "linked"} \/ (pc[r] = "drop" /\ uid[r] # 0)

\* A token that was read was issued, one that was deleted is gone, and two that have
\* read the same token had both read it before either deleted it.
Spent ==
    /\ \A r \in Req : Using(r) => link[r] \in issued
    /\ \A r \in Req : pc[r] \in {"check", "link", "linked"} => tokens[link[r]] = 0
    /\ \A r, s \in Req : r # s /\ Using(r) /\ Using(s) /\ link[r] = link[s]
          => <<"token", r, s>> \in met

\* A step in which nobody reads a token and none comes back.
LEMMA SpentStays ==
  ASSUME Spent, met \subseteq met', issued \subseteq issued',
         \A r \in Req : Using(r)' => Using(r) /\ link'[r] = link[r],
         \A r \in Req : pc'[r] \in {"check", "link", "linked"} => tokens'[link'[r]] = 0
  PROVE  Spent'
  BY DEF Spent

\* The steps of a callback.
LEMMA ServeSpent ==
  ASSUME TypeOK, Spent, [Next]_vars, NEW r \in Req, Serve(r)
  PROVE  Spent'
  <1>0. /\ link \in [Req -> issued \cup {NoToken}] /\ issued \subseteq Token /\ DOMAIN pc = Req
        /\ tokens \in [Token -> {0} \cup UserIds]
    BY DEF TypeOK
  <1>1. \A s \in Req \ {r} : pc'[s] = pc[s] /\ link'[s] = link[s] /\ uid'[s] = uid[s]
    BY OthersStay
  <1>2. \A s \in Req \ {r} : Using(s)' = Using(s)
    BY <1>1 DEF Using
  <1>3. met \subseteq met' /\ issued \subseteq issued'
    BY HistoryGrows
  <1>4. CASE ReadToken(r)
    <2>1. /\ pc[r] = "token" /\ pc'[r] = "drop" /\ uid'[r] = tokens[link[r]] /\ link' = link
          /\ tokens' = tokens /\ Meet("token", r, {s \in Req : pc[s] = "drop" /\ link[s] = link[r]})
      BY <1>4, Stages DEF ReadToken, store
    <2>2. link[r] \in issued
      BY <1>0, <2>1 DEF TypeOK, StageData
    <2>3. ASSUME NEW s \in Req \ {r}, Using(s), Using(r)', link[s] = link[r]
          PROVE  <<"token", r, s>> \in met' /\ <<"token", s, r>> \in met'
      <3>1. tokens[link[s]] # 0
        BY <2>1, <2>3 DEF Using
      <3>2. pc[s] = "drop"
        BY <2>3, <3>1 DEF Using, Spent
      <3> QED
        BY <2>1, <2>3, <3>2 DEF Meet
    <2>4. \A s \in Req : pc'[s] \in {"check", "link", "linked"} => tokens'[link'[s]] = 0
      BY <1>1, <2>1 DEF Spent
    <2>5. \A s \in Req : Using(s)' => link'[s] \in issued'
      BY <1>2, <1>3, <2>1, <2>2 DEF Spent
    <2>6. \A s, q \in Req : s # q /\ Using(s)' /\ Using(q)' /\ link'[s] = link'[q]
             => <<"token", s, q>> \in met'
      BY <1>2, <1>3, <2>1, <2>3 DEF Spent
    <2> QED
      BY <2>4, <2>5, <2>6 DEF Spent
  <1>5. CASE DropToken(r)
    <2>1. pc[r] = "drop" /\ tokens' = [tokens EXCEPT ![link[r]] = 0]
      BY <1>5 DEF DropToken
    <2>2. \/ pc'[r] = "refused"
          \/ uid[r] # 0 /\ pc'[r] = "check" /\ link' = link
      BY <1>0, <1>5, Stages DEF DropToken, Answer, Forget, Goto
    <2>3. \A s \in Req : Using(s)' => Using(s) /\ link'[s] = link[s]
      BY <1>1, <1>2, <2>1, <2>2 DEF Using
    <2>4. ASSUME NEW s \in Req, pc'[s] \in {"check", "link", "linked"} PROVE tokens'[link'[s]] = 0
      <3>1. Using(s)' /\ Using(s) /\ link'[s] = link[s]
        BY <2>3, <2>4 DEF Using
      <3>2. link[s] \in Token
        BY <1>0, <3>1 DEF Spent
      <3>3. CASE s = r
        BY <1>0, <2>1, <3>1, <3>2, <3>3
      <3>4. CASE s # r
        <4>1. tokens[link[s]] = 0
          BY <1>1, <2>4, <3>4 DEF Spent
        <4> QED
          BY <1>0, <2>1, <3>1, <3>2, <4>1
      <3> QED
        BY <3>3, <3>4
    <2> QED
      BY <1>3, <2>3, <2>4, SpentStays
  <1>6. CASE CheckOwner(r) \/ LinkIdentity(r)
    <2>1. tokens' = tokens
      BY <1>6 DEF CheckOwner, LinkIdentity, store
    <2>2. \/ pc'[r] = "refused"
          \/ pc[r] \in {"check", "link"} /\ pc'[r] \in {"link", "linked"} /\ link' = link
      BY <1>0, <1>6 DEF CheckOwner, LinkIdentity, Answer, Forget, Goto, store
    <2>3. \A s \in Req : Using(s)' => Using(s) /\ link'[s] = link[s]
      BY <1>1, <1>2, <2>2 DEF Using
    <2>4. \A s \in Req : pc'[s] \in {"check", "link", "linked"} => tokens'[link'[s]] = 0
      BY <1>1, <2>1, <2>2 DEF Spent
    <2> QED
      BY <1>3, <2>3, <2>4, SpentStays
  <1>7. CASE \/ Profile(r) \/ Lookup(r) \/ Bridge(r) \/ CreateUser(r) \/ Attach(r)
             \/ OpenSession(r) \/ Fail(r)
    <2>1. tokens' = tokens
      BY <1>7 DEF Profile, Lookup, Bridge, CreateUser, Attach, OpenSession, Fail, store
    <2>2. pc'[r] \notin {"drop", "check", "link", "linked"}
      BY <1>7, Stages
    <2>3. \A s \in Req : Using(s)' => Using(s) /\ link'[s] = link[s]
      BY <1>1, <1>2, <2>2 DEF Using
    <2>4. \A s \in Req : pc'[s] \in {"check", "link", "linked"} => tokens'[link'[s]] = 0
      BY <1>1, <2>1, <2>2 DEF Spent
    <2> QED
      BY <1>3, <2>3, <2>4, SpentStays
  <1> QED
    BY <1>4, <1>5, <1>6, <1>7 DEF Serve

\* Every step.
LEMMA NextSpent ==
  ASSUME TypeOK, Spent, [Next]_vars
  PROVE  Spent'
  <1>0. /\ met \subseteq met' /\ issued \subseteq issued' /\ issued \subseteq Token
        /\ tokens \in [Token -> {0} \cup UserIds]
    BY HistoryGrows DEF TypeOK
  <1>1. ASSUME NEW r \in Req, Login(r) \/ Callback(r) \/ ExpireState(r) PROVE Spent'
    <2>1. /\ pc'[r] \notin {"drop", "check", "link", "linked"} /\ tokens' = tokens
          /\ \A s \in Req \ {r} : pc'[s] = pc[s] /\ link'[s] = link[s] /\ uid'[s] = uid[s]
      BY <1>1, Stages, OthersStay DEF Login, Callback, ExpireState, store
    <2>2. \A s \in Req : Using(s)' => Using(s) /\ link'[s] = link[s]
      BY <2>1 DEF Using
    <2>3. \A s \in Req : pc'[s] \in {"check", "link", "linked"} => tokens'[link'[s]] = 0
      BY <2>1 DEF Spent
    <2> QED
      BY <1>0, <2>2, <2>3, SpentStays
  <1>2. ASSUME NEW r \in Req, Serve(r) PROVE Spent'
    BY <1>2, ServeSpent
  <1>3. ASSUME NEW t \in Token, IssueToken(t) \/ ExpireToken(t) PROVE Spent'
    <2>1. /\ UNCHANGED <<pc, link, uid>>
          /\ \A x \in issued : tokens[x] = 0 => tokens'[x] = 0
      BY <1>0, <1>3 DEF IssueToken, ExpireToken
    <2>2. \A s \in Req : Using(s)' => Using(s) /\ link'[s] = link[s]
      BY <2>1 DEF Using
    <2>3. \A s \in Req : pc'[s] \in {"check", "link", "linked"} => tokens'[link'[s]] = 0
      BY <2>1 DEF Spent, Using
    <2> QED
      BY <1>0, <2>2, <2>3, SpentStays
  <1>4. CASE Crash
    <2>1. /\ \A s \in Req : \/ pc'[s] = "refused"
                            \/ pc'[s] = pc[s] /\ link'[s] = link[s] /\ uid'[s] = uid[s]
          /\ tokens' = tokens
      BY <1>4 DEF Crash, store
    <2>2. \A s \in Req : Using(s)' => Using(s) /\ link'[s] = link[s]
      BY <2>1 DEF Using
    <2>3. \A s \in Req : pc'[s] \in {"check", "link", "linked"} => tokens'[link'[s]] = 0
      BY <2>1 DEF Spent
    <2> QED
      BY <1>0, <2>2, <2>3, SpentStays
  <1>5. CASE UNCHANGED <<tokens, pc, link, uid>>
    <2>1. \A s \in Req : Using(s)' => Using(s) /\ link'[s] = link[s]
      BY <1>5 DEF Using
    <2>2. \A s \in Req : pc'[s] \in {"check", "link", "linked"} => tokens'[link'[s]] = 0
      BY <1>5 DEF Spent
    <2> QED
      BY <1>0, <2>1, <2>2, SpentStays
  <1> QED
    BY <1>1, <1>2, <1>3, <1>4, <1>5 DEF Next, CloseSession, WriteMemo, WriteNote, BeginMerge,
       MoveNotes, MoveIdentities, MoveMemo, CommitMerge, AbortMerge, store, vars

\* However many callbacks carry one link token and whatever fails or expires, two are
\* linked by it only if both had read it before either deleted it.
THEOREM TokenLinksOnceHolds == Spec => []TokenLinksOnce
  <1>1. Init => Spent
    BY DEF Init, Spent, Using
  <1>2. TypeOK /\ Spent /\ [Next]_vars => Spent'
    BY NextSpent
  <1>3. Spent => TokenLinksOnce
    BY DEF Spent, Using, TokenLinksOnce
  <1> QED
    BY <1>1, <1>2, <1>3, TypeCorrect, PTL DEF Spec

=============================================================================
