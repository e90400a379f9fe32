------------------------- MODULE OAuthServerProofs --------------------------
(***************************************************************************)
(* Theorems about OAuthServer for any clients, users and numbers of        *)
(* requests, failures and restarts.                                        *)
(***************************************************************************)
EXTENDS OAuthServer, TLAPS

\* Which kind of key a request has at which stage.
KeyAt ==
    \A r \in Req :
        /\ pc[r] = "new" => key[r] = <<>>
        /\ pc[r] \in {"session", "park", "parked"} => key[r] \in {"mcpclient"} \X Client
        /\ pc[r] \in {"away", "profile", "match", "plain"} => key[r] \in {"authreq"} \X Req
        /\ pc[r] \in {"read", "drop"} => key[r] \in {"authreq", "code", "mcprt"} \X Req
        /\ pc[r] \in {"issue", "redirected"} =>
              key[r] \in ({"mcpclient"} \X Client) \cup ({"authreq"} \X Req)
        /\ pc[r] \in {"access", "refresh", "answered"} => key[r] \in {"code", "mcprt"} \X Req
        /\ pc[r] \in {"bearer", "tool"} => key[r] \in {"mcptok"} \X Req

\* What a request knows at which stage.
KnownAt ==
    \A r \in Req :
        /\ pc[r] \in {"new", "session", "away", "profile"} => user[r] = NoUser
        /\ pc[r] \in {"match", "plain", "issue", "access", "refresh", "tool"} => user[r] \in User
        /\ pc[r] \in {"read", "drop"} /\ key[r][1] = "authreq" => user[r] \in User
        /\ pc[r] \in {"new", "session", "park", "away", "profile", "match", "plain",
                      "read", "bearer"} => found[r] = Absent
        /\ pc[r] \in {"issue", "access", "refresh"} /\ key[r] \in Key => found[r] \in Grant
        /\ found[r] \in Grant /\ key[r][1] \in {"code", "mcprt"} => found[r].user \in User

\* A key is stored by one request, at one of its steps.
Issued ==
    \A r \in Req :
        /\ store[<<"authreq", r>>] # Absent <=> pc[r] = "parked"
        /\ store[<<"code", r>>] # Absent <=> pc[r] = "redirected"
        /\ store[<<"mcprt", r>>] # Absent <=> pc[r] = "answered"
        /\ store[<<"mcptok", r>>] # Absent => pc[r] \in {"refresh", "answered", "failed"}
        /\ pc[r] \in {"refresh", "answered"} => store[<<"mcptok", r>>] # Absent

IInv == TypeOK /\ KeyAt /\ KnownAt /\ Issued

-----------------------------------------------------------------------------
(* Keys and records                                                        *)

\* A key is a pair; a client id and the key of a new request are none.
LEMMA KeyPairs ==
  /\ \A t, x : <<t, x>> \in Key <=> t \in {"authreq", "code", "mcptok", "mcprt"} /\ x \in Req
  /\ \A k \in Key : k = <<k[1], k[2]>> /\ k[1] \in {"authreq", "code", "mcptok", "mcprt"} /\ k[2] \in Req
  /\ \A k \in {"mcpclient"} \X Client : k = <<"mcpclient", k[2]>> /\ k[2] \in Client /\ k[1] = "mcpclient" /\ k \notin Key
  /\ <<>> \notin Key
  <1>1. <<>> \notin Key
    BY DEF Key
  <1> QED
    BY <1>1 DEF Key

\* What a request passes on at an issuing stage is a record for a user.
LEMMA CarriedType ==
  ASSUME IInv, NEW r \in Req, pc[r] \in {"issue", "access", "refresh"}
  PROVE  /\ Carried(r) \in Grant
         /\ Carried(r).user = user[r] /\ user[r] \in User /\ user[r] # NoUser
  <1>1. user[r] \in User /\ user[r] # NoUser
    BY StoreAssumption DEF IInv, KnownAt
  <1>2. CASE key[r][1] = "mcpclient"
    <2>1. key[r][2] \in Client
      BY <1>2, KeyPairs DEF IInv, KeyAt
    <2> QED
      BY <1>1, <1>2, <2>1 DEF Carried, Grant
  <1>3. CASE key[r][1] # "mcpclient"
    <2>1. key[r] \in Key
      BY <1>3 DEF IInv, KeyAt, Key
    <2>2. found[r] \in Grant
      BY <2>1 DEF IInv, KnownAt
    <2> QED
      BY <1>1, <1>3, <2>2 DEF Carried, Grant
  <1> QED
    BY <1>2, <1>3

\* What stands for no record is no record.
LEMMA NoGrants ==
  /\ Absent \notin Grant /\ Taken \notin Grant /\ Gone \notin Grant
  /\ Absent # Taken /\ Absent # Gone /\ Taken # Gone
  BY StoreAssumption DEF NoGrant

-----------------------------------------------------------------------------
(* The invariant                                                           *)

\* Initially nothing is stored and no request has been sent.
LEMMA InitInv == Init => IInv
  <1> SUFFICES ASSUME Init PROVE IInv
    OBVIOUS
  <1>1. TypeOK
    BY StoreAssumption, NoGrants DEF Init, TypeOK, Keys, NoGrant, Live
  <1>2. KeyAt /\ KnownAt /\ Issued
    BY NoGrants, KeyPairs DEF Init, KeyAt, KnownAt, Issued, Key
  <1> QED
    BY <1>1, <1>2 DEF IInv

\* Every step keeps the types.
LEMMA NextType == IInv /\ [Next]_vars => TypeOK'
  <1> SUFFICES ASSUME IInv, [Next]_vars PROVE TypeOK'
    OBVIOUS
  <1> DEFINE Pcs == {"new", "away"} \cup Waiting \cup Over
  <1>0. TypeOK
    BY DEF IInv
  <1>a. \A r \in Req, k \in Keys, stage \in Pcs : Send(r, k, stage) =>
            pc' \in [Req -> Pcs] /\ key' \in [Req -> Keys] /\ late' \in SUBSET Req
    BY <1>0 DEF Send, Goto, TypeOK
  <1>b. \A r \in Req, stage \in Pcs : Goto(r, stage) => pc' \in [Req -> Pcs]
    BY <1>0 DEF Goto, TypeOK
  <1>c. ASSUME NEW k \in Key, NEW v \in Grant \cup NoGrant, Put(k, v),
               v \in Grant => (v.user = NoUser <=> k[1] = "authreq")
        PROVE  /\ store' \in [Key -> Grant \cup NoGrant]
               /\ \A l \in Key : (Live(l) => (store[l].user = NoUser <=> l[1] = "authreq"))'
    BY <1>0, <1>c DEF Put, TypeOK, Live
  <1>d. store' = store => \A l \in Key : (Live(l) => (store[l].user = NoUser <=> l[1] = "authreq"))'
    BY <1>0 DEF TypeOK, Live
  <1>e. Mishap => mishaps' \in 0..Mishaps
    BY <1>0, StoreAssumption DEF Mishap, TypeOK
  <1>f. \A c \in Client : <<"mcpclient", c>> \in Keys
    BY DEF Keys
  <1>g. \A t \in {"authreq", "code", "mcptok", "mcprt"}, a \in Req : <<t, a>> \in Key /\ <<t, a>> \in Keys
    BY DEF Key, Keys
  <1>h. Taken \in NoGrant /\ Gone \in NoGrant /\ Absent \in NoGrant
    BY DEF NoGrant
  <1>1. ASSUME NEW c \in Client, Register(c) \/ ExpireClient(c) PROVE TypeOK'
    BY <1>0, <1>1, <1>d, <1>e DEF Register, ExpireClient, TypeOK
  <1>2. ASSUME NEW r \in Req, NEW c \in Client, Authorize(r, c) PROVE TypeOK'
    BY <1>0, <1>2, <1>a, <1>d, <1>f DEF Authorize, TypeOK, Waiting, Over
  <1>3. ASSUME NEW r \in Req, CheckSession(r) PROVE TypeOK'
    BY <1>0, <1>3, <1>b, <1>d DEF CheckSession, TypeOK, Waiting, Over
  <1>4. ASSUME NEW r \in Req, Park(r) PROVE TypeOK'
    <2>1. key[r][2] \in Client
      BY <1>4, KeyPairs DEF Park, IInv, KeyAt
    <2>2. [client |-> key[r][2], user |-> NoUser, trip |-> r] \in Grant
      BY <2>1 DEF Grant
    <2> QED
      BY <1>0, <1>4, <1>b, <1>c, <1>g, <2>2 DEF Park, TypeOK, Waiting, Over
  <1>5. ASSUME NEW r \in Req, NEW a \in Req, Login(r, a) PROVE TypeOK'
    BY <1>0, <1>5, <1>a, <1>d, <1>g DEF Login, TypeOK, Waiting, Over
  <1>6. ASSUME NEW r \in Req, Callback(r) \/ Match(r) PROVE TypeOK'
    BY <1>0, <1>6, <1>b, <1>d DEF Callback, Match, TypeOK, Waiting, Over
  <1>7. ASSUME NEW r \in Req, NEW u \in User, Profile(r, u) PROVE TypeOK'
    BY <1>0, <1>7, <1>b, <1>d DEF Profile, TypeOK, Waiting, Over
  <1>8. ASSUME NEW r \in Req, OpenSession(r) PROVE TypeOK'
    <2>1. user[r] \in User
      BY <1>8 DEF OpenSession, IInv, KnownAt
    <2> QED
      BY <1>0, <1>8, <1>b, <1>d, <2>1 DEF OpenSession, TypeOK, Waiting, Over
  <1>9. ASSUME NEW r \in Req, NEW a \in Req, Redeem(r, a) \/ Refresh(r, a) \/ Call(r, a) PROVE TypeOK'
    BY <1>0, <1>9, <1>a, <1>d, <1>g DEF Redeem, Refresh, Call, TypeOK, Waiting, Over
  <1>10. ASSUME NEW r \in Req, Read(r) PROVE TypeOK'
    <2>1. key[r] \in Key
      BY <1>10 DEF Read, IInv, KeyAt, Key
    <2> QED
      BY <1>0, <1>10, <1>b, <1>d, <2>1 DEF Read, TypeOK, Waiting, Over
  <1>11. ASSUME NEW r \in Req, Drop(r) PROVE TypeOK'
    <2>1. key[r] \in Key
      BY <1>11 DEF Drop, IInv, KeyAt, Key
    <2>2. /\ store' \in [Key -> Grant \cup NoGrant]
          /\ \A l \in Key : (Live(l) => (store[l].user = NoUser <=> l[1] = "authreq"))'
      BY <1>0, <1>11, <1>c, <1>d, <1>h, <2>1, NoGrants DEF Drop, TypeOK
    <2>3. found[r] \in Grant => found[r].user \in User \cup {NoUser}
      BY DEF Grant
    <2>4. pc' \in [Req -> Pcs] /\ user' \in [Req -> User \cup {NoUser}]
      BY <1>0, <1>11, <1>b, <2>3 DEF Drop, Popped, TypeOK, Waiting, Over
    <2> QED
      BY <1>0, <1>11, <2>2, <2>4 DEF Drop, TypeOK
  <1>12. ASSUME NEW r \in Req, IssueCode(r) \/ IssueAccess(r) \/ IssueRefresh(r) PROVE TypeOK'
    <2>1. Carried(r) \in Grant /\ Carried(r).user # NoUser
      BY <1>12, CarriedType DEF IssueCode, IssueAccess, IssueRefresh
    <2>2. PICK t \in {"code", "mcptok", "mcprt"} : Put(<<t, r>>, Carried(r))
      BY <1>12 DEF IssueCode, IssueAccess, IssueRefresh
    <2>3. /\ store' \in [Key -> Grant \cup NoGrant]
          /\ \A l \in Key : (Live(l) => (store[l].user = NoUser <=> l[1] = "authreq"))'
      BY <1>c, <1>g, <2>1, <2>2
    <2> QED
      BY <1>0, <1>12, <1>b, <2>3 DEF IssueCode, IssueAccess, IssueRefresh, TypeOK, Waiting, Over
  <1>13. ASSUME NEW r \in Req, ResolveAccess(r) PROVE TypeOK'
    <2>1. key[r] \in Key
      BY <1>13 DEF ResolveAccess, IInv, KeyAt, Key
    <2>2. Live(key[r]) => store[key[r]].user \in User \cup {NoUser}
      BY DEF Live, Grant
    <2> QED
      BY <1>0, <1>13, <1>b, <1>d, <2>1, <2>2 DEF ResolveAccess, TypeOK, Waiting, Over
  <1>14. ASSUME NEW r \in Req, Reset(r) \/ Fail(r) PROVE TypeOK'
    BY <1>0, <1>14, <1>b, <1>d, <1>e DEF Reset, Fail, TypeOK, Waiting, Over
  <1>15. ASSUME NEW k \in Key, ExpireKey(k) PROVE TypeOK'
    BY <1>0, <1>15, <1>c, <1>e, <1>h, NoGrants DEF ExpireKey, TypeOK
  <1>16. ASSUME NEW u \in User, CloseSession(u) PROVE TypeOK'
    BY <1>0, <1>16, <1>d, <1>e DEF CloseSession, TypeOK
  <1>17. ASSUME Crash PROVE TypeOK'
    <2>1. /\ store' \in [Key -> Grant \cup NoGrant]
          /\ \A l \in Key : (Live(l) => (store[l].user = NoUser <=> l[1] = "authreq"))'
      <3>1. CASE backend = "redis"
        BY <1>0, <1>17, <1>d, <3>1 DEF Crash, TypeOK
      <3>2. CASE backend # "redis"
        BY <1>0, <1>17, <1>h, <3>2, NoGrants DEF Crash, TypeOK, Live
      <3> QED
        BY <3>1, <3>2
    <2>2. clients' \in [Client -> {"never", "live", "gone"}] /\ sessions' \in SUBSET User
      BY <1>0, <1>17 DEF Crash, TypeOK
    <2>3. pc' \in [Req -> Pcs]
      BY <1>0, <1>17 DEF Crash, TypeOK, Waiting, Over
    <2> QED
      BY <1>0, <1>17, <1>e, <2>1, <2>2, <2>3 DEF Crash, TypeOK
  <1>18. CASE UNCHANGED vars
    BY <1>0, <1>18, <1>d DEF vars, TypeOK
  <1> QED
    BY <1>1, <1>2, <1>3, <1>4, <1>5, <1>6, <1>7, <1>8, <1>9, <1>10, <1>11, <1>12, <1>13,
       <1>14, <1>15, <1>16, <1>17, <1>18 DEF Next, Arrive, Handle

\* Every step keeps the kinds of the keys.
LEMMA NextKeyAt == IInv /\ [Next]_vars => KeyAt'
  <1> SUFFICES ASSUME IInv, [Next]_vars PROVE KeyAt'
    OBVIOUS
  <1>0. TypeOK /\ KeyAt
    BY DEF IInv
  <1> USE DEF KeyAt, TypeOK, Goto
  <1>1. ASSUME UNCHANGED <<pc, key>> PROVE KeyAt'
    BY <1>0, <1>1
  <1>2. ASSUME NEW c \in Client, Register(c) \/ ExpireClient(c) PROVE KeyAt'
    BY <1>1, <1>2 DEF Register, ExpireClient
  <1>3. ASSUME NEW r \in Req, NEW c \in Client, Authorize(r, c) PROVE KeyAt'
    BY <1>0, <1>3 DEF Authorize, Send
  <1>4. ASSUME NEW r \in Req, CheckSession(r) \/ Park(r) PROVE KeyAt'
    BY <1>0, <1>4 DEF CheckSession, Park
  <1>5. ASSUME NEW r \in Req, NEW a \in Req, Login(r, a) PROVE KeyAt'
    BY <1>0, <1>5 DEF Login, Send
  <1>6. ASSUME NEW r \in Req, Callback(r) \/ Match(r) \/ OpenSession(r) PROVE KeyAt'
    BY <1>0, <1>6 DEF Callback, Match, OpenSession
  <1>7. ASSUME NEW r \in Req, NEW u \in User, Profile(r, u) PROVE KeyAt'
    BY <1>0, <1>7 DEF Profile
  <1>8. ASSUME NEW r \in Req, NEW a \in Req, Redeem(r, a) \/ Refresh(r, a) \/ Call(r, a) PROVE KeyAt'
    BY <1>0, <1>8 DEF Redeem, Refresh, Call, Send
  <1>9. ASSUME NEW r \in Req, Read(r) PROVE KeyAt'
    BY <1>0, <1>9 DEF Read
  <1>10. ASSUME NEW r \in Req, Drop(r) PROVE KeyAt'
    BY <1>0, <1>10 DEF Drop, Popped
  <1>11. ASSUME NEW r \in Req, IssueCode(r) \/ IssueAccess(r) \/ IssueRefresh(r) PROVE KeyAt'
    BY <1>0, <1>11 DEF IssueCode, IssueAccess, IssueRefresh
  <1>12. ASSUME NEW r \in Req, ResolveAccess(r) \/ Reset(r) \/ Fail(r) PROVE KeyAt'
    BY <1>0, <1>12 DEF ResolveAccess, Reset, Fail
  <1>13. ASSUME NEW k \in Key, ExpireKey(k) PROVE KeyAt'
    BY <1>1, <1>13 DEF ExpireKey
  <1>14. ASSUME NEW u \in User, CloseSession(u) PROVE KeyAt'
    BY <1>1, <1>14 DEF CloseSession
  <1>15. ASSUME Crash PROVE KeyAt'
    BY <1>0, <1>15 DEF Crash
  <1>16. CASE UNCHANGED vars
    BY <1>1, <1>16 DEF vars
  <1> QED
    BY <1>2, <1>3, <1>4, <1>5, <1>6, <1>7, <1>8, <1>9, <1>10, <1>11, <1>12, <1>13,
       <1>14, <1>15, <1>16 DEF Next, Arrive, Handle

\* Every step keeps what a request knows at its stage.
LEMMA NextKnownAt == IInv /\ [Next]_vars => KnownAt'
  <1> SUFFICES ASSUME IInv, [Next]_vars PROVE KnownAt'
    OBVIOUS
  <1>0. TypeOK /\ KnownAt /\ KeyAt
    BY DEF IInv
  <1> USE NoGrants DEF KnownAt, TypeOK, Goto
  <1>1. ASSUME UNCHANGED <<pc, key, user, found>> PROVE KnownAt'
    BY <1>0, <1>1
  <1>2. ASSUME NEW c \in Client, Register(c) \/ ExpireClient(c) PROVE KnownAt'
    BY <1>1, <1>2 DEF Register, ExpireClient
  <1>3. ASSUME NEW r \in Req, NEW c \in Client, Authorize(r, c) PROVE KnownAt'
    BY <1>0, <1>3, KeyPairs DEF Authorize, Send
  <1>4. ASSUME NEW r \in Req, CheckSession(r) \/ Park(r) PROVE KnownAt'
    BY <1>0, <1>4, KeyPairs DEF CheckSession, Park, KeyAt
  <1>5. ASSUME NEW r \in Req, NEW a \in Req, Login(r, a) PROVE KnownAt'
    BY <1>0, <1>5 DEF Login, Send
  <1>6. ASSUME NEW r \in Req, Callback(r) \/ Match(r) \/ OpenSession(r) PROVE KnownAt'
    BY <1>0, <1>6 DEF Callback, Match, OpenSession
  <1>7. ASSUME NEW r \in Req, NEW u \in User, Profile(r, u) PROVE KnownAt'
    BY <1>0, <1>7 DEF Profile
  <1>8. ASSUME NEW r \in Req, NEW a \in Req, Redeem(r, a) \/ Refresh(r, a) \/ Call(r, a) PROVE KnownAt'
    BY <1>0, <1>8 DEF Redeem, Refresh, Call, Send
  <1>9. ASSUME NEW r \in Req, Read(r) PROVE KnownAt'
    <2>1. key[r] \in Key
      BY <1>0, <1>9 DEF Read, KeyAt, Key
    <2>2. store[key[r]] \in Grant /\ key[r][1] \in {"code", "mcprt"} => store[key[r]].user \in User
      BY <1>0, <2>1 DEF Live, Grant
    <2> QED
      BY <1>0, <1>9, <2>2 DEF Read
  <1>10. ASSUME NEW r \in Req, Drop(r) PROVE KnownAt'
    <2>1. key[r] \in Key /\ key[r][1] \in {"authreq", "code", "mcprt"}
      BY <1>0, <1>10 DEF Drop, KeyAt, Key
    <2> QED
      BY <1>0, <1>10, <2>1 DEF Drop, Popped
  <1>11. ASSUME NEW r \in Req, IssueCode(r) \/ IssueAccess(r) \/ IssueRefresh(r) PROVE KnownAt'
    BY <1>0, <1>11 DEF IssueCode, IssueAccess, IssueRefresh
  <1>12. ASSUME NEW r \in Req, ResolveAccess(r) PROVE KnownAt'
    <2>1. key[r] \in Key /\ key[r][1] = "mcptok"
      BY <1>0, <1>12 DEF ResolveAccess, KeyAt, Key
    <2>2. Live(key[r]) => store[key[r]].user \in User
      BY <1>0, <2>1 DEF Live, Grant
    <2> QED
      BY <1>0, <1>12, <2>1, <2>2 DEF ResolveAccess
  <1>13. ASSUME NEW r \in Req, Reset(r) \/ Fail(r) PROVE KnownAt'
    BY <1>0, <1>13 DEF Reset, Fail
  <1>14. ASSUME NEW k \in Key, ExpireKey(k) PROVE KnownAt'
    BY <1>1, <1>14 DEF ExpireKey
  <1>15. ASSUME NEW u \in User, CloseSession(u) PROVE KnownAt'
    BY <1>1, <1>15 DEF CloseSession
  <1>16. ASSUME Crash PROVE KnownAt'
    BY <1>0, <1>16 DEF Crash
  <1>17. CASE UNCHANGED vars
    BY <1>1, <1>17 DEF vars
  <1> QED
    BY <1>2, <1>3, <1>4, <1>5, <1>6, <1>7, <1>8, <1>9, <1>10, <1>11, <1>12, <1>13,
       <1>14, <1>15, <1>16, <1>17 DEF Next, Arrive, Handle

\* Steps that store nothing under a new key and end no request that stores one.
LEMMA IssuedKept ==
  ASSUME Issued, \A k \in Key : store'[k] = Absent <=> store[k] = Absent,
         \A s \in Req :
            \/ pc'[s] = pc[s]
            \/ /\ pc[s] \notin {"parked", "redirected", "answered", "failed"}
               /\ pc'[s] \notin {"parked", "redirected", "answered", "refresh"}
               /\ pc[s] = "refresh" => pc'[s] = "failed"
  PROVE  Issued'
  <1> SUFFICES ASSUME NEW r \in Req
               PROVE  /\ store'[<<"authreq", r>>] # Absent <=> pc'[r] = "parked"
                      /\ store'[<<"code", r>>] # Absent <=> pc'[r] = "redirected"
                      /\ store'[<<"mcprt", r>>] # Absent <=> pc'[r] = "answered"
                      /\ store'[<<"mcptok", r>>] # Absent => pc'[r] \in {"refresh", "answered", "failed"}
                      /\ pc'[r] \in {"refresh", "answered"} => store'[<<"mcptok", r>>] # Absent
    BY DEF Issued
  <1>1. \A t \in {"authreq", "code", "mcptok", "mcprt"} :
           store'[<<t, r>>] = Absent <=> store[<<t, r>>] = Absent
    BY KeyPairs
  <1> QED
    BY <1>1 DEF Issued

\* A step that stores something under a key of its request.
LEMMA IssuedPut ==
  ASSUME TypeOK, Issued, NEW r \in Req, NEW t \in {"authreq", "code", "mcptok", "mcprt"},
         NEW v, v # Absent, Put(<<t, r>>, v), NEW stage, Goto(r, stage),
         \/ t = "authreq" /\ pc[r] = "park" /\ stage = "parked"
         \/ t = "code" /\ pc[r] = "issue" /\ stage = "redirected"
         \/ t = "mcptok" /\ pc[r] = "access" /\ stage = "refresh"
         \/ t = "mcprt" /\ pc[r] = "refresh" /\ stage = "answered"
  PROVE  Issued'
  <1>1. \A k \in Key : store'[k] = IF k = <<t, r>> THEN v ELSE store[k]
    BY DEF TypeOK, Put
  <1>2. \A x \in {"authreq", "code", "mcptok", "mcprt"}, s \in Req :
           store'[<<x, s>>] = IF x = t /\ s = r THEN v ELSE store[<<x, s>>]
    BY <1>1, KeyPairs
  <1>3. \A s \in Req : pc'[s] = IF s = r THEN stage ELSE pc[s]
    BY DEF TypeOK, Goto
  <1>4. ASSUME NEW s \in Req, s # r
        PROVE  /\ pc'[s] = pc[s]
               /\ \A x \in {"authreq", "code", "mcptok", "mcprt"} : store'[<<x, s>>] = store[<<x, s>>]
    BY <1>2, <1>3, <1>4
  <1>5. /\ pc'[r] = stage
        /\ \A x \in {"authreq", "code", "mcptok", "mcprt"} :
              store'[<<x, r>>] = IF x = t THEN v ELSE store[<<x, r>>]
    BY <1>2, <1>3
  <1>6. SUFFICES ASSUME NEW s \in Req
                 PROVE  /\ store'[<<"authreq", s>>] # Absent <=> pc'[s] = "parked"
                        /\ store'[<<"code", s>>] # Absent <=> pc'[s] = "redirected"
                        /\ store'[<<"mcprt", s>>] # Absent <=> pc'[s] = "answered"
                        /\ store'[<<"mcptok", s>>] # Absent => pc'[s] \in {"refresh", "answered", "failed"}
                        /\ pc'[s] \in {"refresh", "answered"} => store'[<<"mcptok", s>>] # Absent
    BY DEF Issued
  <1>7. CASE s # r
    BY <1>4, <1>7 DEF Issued
  <1>8. CASE s = r
    BY <1>5, <1>8 DEF Issued
  <1> QED
    BY <1>7, <1>8

\* Every step keeps who has stored which key.
LEMMA NextIssued == IInv /\ [Next]_vars => Issued'
  <1> SUFFICES ASSUME IInv, [Next]_vars PROVE Issued'
    OBVIOUS
  <1>0. TypeOK /\ Issued /\ KeyAt
    BY DEF IInv
  <1> USE DEF TypeOK, Goto
  <1>1. ASSUME UNCHANGED <<pc, store>> PROVE Issued'
    BY <1>0, <1>1 DEF Issued
  <1>2. ASSUME NEW c \in Client, Register(c) \/ ExpireClient(c) PROVE Issued'
    BY <1>1, <1>2 DEF Register, ExpireClient
  <1>3. ASSUME NEW r \in Req, NEW c \in Client, Authorize(r, c) PROVE Issued'
    BY <1>0, <1>3, IssuedKept DEF Authorize, Send
  <1>4. ASSUME NEW r \in Req, CheckSession(r) PROVE Issued'
    BY <1>0, <1>4, IssuedKept DEF CheckSession
  <1>5. ASSUME NEW r \in Req, Park(r) PROVE Issued'
    <2>1. [client |-> key[r][2], user |-> NoUser, trip |-> r] # Absent
      BY <1>0, <1>5, NoGrants DEF Park, KeyAt, Grant
    <2> QED
      BY <1>0, <1>5, <2>1, IssuedPut DEF Park
  <1>6. ASSUME NEW r \in Req, NEW a \in Req, Login(r, a) PROVE Issued'
    BY <1>0, <1>6, IssuedKept DEF Login, Send
  <1>7. ASSUME NEW r \in Req, Callback(r) \/ Match(r) \/ OpenSession(r) PROVE Issued'
    BY <1>0, <1>7, IssuedKept DEF Callback, Match, OpenSession
  <1>8. ASSUME NEW r \in Req, NEW u \in User, Profile(r, u) PROVE Issued'
    BY <1>0, <1>8, IssuedKept DEF Profile
  <1>9. ASSUME NEW r \in Req, NEW a \in Req, Redeem(r, a) \/ Refresh(r, a) \/ Call(r, a) PROVE Issued'
    BY <1>0, <1>9, IssuedKept DEF Redeem, Refresh, Call, Send
  <1>10. ASSUME NEW r \in Req, Read(r) PROVE Issued'
    BY <1>0, <1>10, IssuedKept DEF Read
  <1>11. ASSUME NEW r \in Req, Drop(r) PROVE Issued'
    <2>1. \A k \in Key : store'[k] = Absent <=> store[k] = Absent
      BY <1>0, <1>11, NoGrants DEF Drop, Put, Live
    <2>2. /\ \A s \in Req : s # r => pc'[s] = pc[s]
          /\ pc[r] = "drop" /\ pc'[r] \in {"issue", "refused", "access"}
      BY <1>0, <1>11 DEF Drop, Popped
    <2> QED
      BY <1>0, <2>1, <2>2, IssuedKept
  <1>12. ASSUME NEW r \in Req, IssueCode(r) \/ IssueAccess(r) \/ IssueRefresh(r) PROVE Issued'
    <2>1. Carried(r) # Absent
      BY <1>12, CarriedType, NoGrants DEF IssueCode, IssueAccess, IssueRefresh
    <2>2. CASE IssueCode(r)
      BY <1>0, <2>1, <2>2, IssuedPut DEF IssueCode
    <2>3. CASE IssueAccess(r)
      BY <1>0, <2>1, <2>3, IssuedPut DEF IssueAccess
    <2>4. CASE IssueRefresh(r)
      BY <1>0, <2>1, <2>4, IssuedPut DEF IssueRefresh
    <2> QED
      BY <1>12, <2>2, <2>3, <2>4
  <1>13. ASSUME NEW r \in Req, ResolveAccess(r) \/ Reset(r) \/ Fail(r) PROVE Issued'
    <2>1. /\ store' = store /\ \A s \in Req : s # r => pc'[s] = pc[s]
          /\ pc[r] \in Waiting /\ pc'[r] \in {"tool", "refused", "done", "failed"}
          /\ pc[r] = "refresh" => pc'[r] = "failed"
      BY <1>0, <1>13 DEF ResolveAccess, Reset, Fail, Waiting
    <2> QED
      BY <1>0, <2>1, IssuedKept DEF Waiting
  <1>14. ASSUME NEW k \in Key, ExpireKey(k) PROVE Issued'
    <2>1. \A l \in Key : store'[l] = Absent <=> store[l] = Absent
      BY <1>0, <1>14, NoGrants DEF ExpireKey, Put, Live
    <2> QED
      BY <1>0, <1>14, <2>1, IssuedKept DEF ExpireKey
  <1>15. ASSUME NEW u \in User, CloseSession(u) PROVE Issued'
    BY <1>1, <1>15 DEF CloseSession
  <1>16. ASSUME Crash PROVE Issued'
    <2>1. \A k \in Key : store'[k] = Absent <=> store[k] = Absent
      BY <1>0, <1>16, NoGrants DEF Crash, Live
    <2>2. \A r \in Req : pc'[r] = IF pc[r] \in Waiting THEN "failed"
                                 ELSE IF pc[r] = "away" /\ backend = "memory" THEN "refused"
                                 ELSE pc[r]
      BY <1>16 DEF Crash
    <2>3. \A r \in Req : pc[r] \in Waiting => pc[r] \notin {"parked", "redirected", "answered", "failed"}
      BY DEF Waiting
    <2> QED
      BY <1>0, <2>1, <2>2, <2>3, IssuedKept
  <1>17. CASE UNCHANGED vars
    BY <1>1, <1>17 DEF vars
  <1> QED
    BY <1>2, <1>3, <1>4, <1>5, <1>6, <1>7, <1>8, <1>9, <1>10, <1>11, <1>12, <1>13,
       <1>14, <1>15, <1>16, <1>17 DEF Next, Arrive, Handle

\* The invariant holds throughout.
THEOREM Inductive == Spec => []IInv
  <1>1. IInv /\ [Next]_vars => IInv'
    BY NextType, NextKeyAt, NextKnownAt, NextIssued DEF IInv
  <1> QED
    BY InitInv, <1>1, PTL DEF Spec

-----------------------------------------------------------------------------
(* One-time keys                                                           *)

\* What a step does to a request that has been sent.
Step(s) ==
    /\ \/ found'[s] = found[s]
       \/ /\ pc[s] \in {"read", "bearer"} /\ found'[s] = store[key[s]]
          /\ pc'[s] \in {"drop", "tool", "refused"} /\ store' = store
    /\ pc'[s] = "drop" =>
          pc[s] = "drop" \/ (pc[s] = "read" /\ found'[s] = store[key[s]] /\ store' = store)
    /\ pc'[s] \in Honoured =>
          pc[s] \in Honoured \/ pc[s] = "session" \/ (Drop(s) /\ found[s] \in Grant)
    /\ pc'[s] = "new" <=> pc[s] = "new"

\* A key that is known is no longer absent; one that has been honoured, or
\* is the key of a late request, is not live again.
Spending ==
    /\ \A p \in Req : key[p] \in Key => store[key[p]] # Absent
    /\ \A p \in Req : pc[p] \in Honoured /\ key[p] \in Key => store[key[p]] \in {Taken, Gone}
    /\ \A p \in late : /\ key[p] \in Key /\ store[key[p]] \in {Taken, Gone}
                       /\ found[p] \notin Grant /\ pc[p] # "new" /\ pc[p] \notin Honoured
    /\ \A p \in Req : pc[p] = "drop" /\ key[p] \in Key /\ store[key[p]] \in Grant => found[p] \in Grant
    /\ \A k \in Key : store[k] = Taken =>
          \E p \in Req : key[p] = k /\ found[p] \in Grant /\ pc[p] # "drop"

\* A request arrives with the id of a client or with a key that has been stored.
LEMMA ArriveStep ==
  ASSUME IInv, NEW r \in Req, Arrive(r)
  PROVE  \E k \in Keys, stage \in {"session", "refused", "away", "read", "bearer"} :
            /\ Send(r, k, stage)
            /\ k \in Key => store[k] # Absent
            /\ UNCHANGED <<backend, clients, sessions, store, user, found>>
  <1>1. \A c \in Client : <<"mcpclient", c>> \in Keys /\ <<"mcpclient", c>> \notin Key
    BY KeyPairs DEF Keys
  <1>2. \A t \in {"authreq", "code", "mcptok", "mcprt"}, a \in Req : <<t, a>> \in Keys
    BY DEF Key, Keys
  <1>3. CASE \E c \in Client : Authorize(r, c)
    BY <1>1, <1>3 DEF Authorize
  <1>4. ASSUME NEW a \in Req, Login(r, a)
        PROVE  store[<<"authreq", a>>] # Absent
    BY <1>4 DEF Login, IInv, Issued
  <1>5. ASSUME NEW a \in Req, Redeem(r, a)
        PROVE  store[<<"code", a>>] # Absent
    BY <1>5 DEF Redeem, IInv, Issued
  <1>6. ASSUME NEW a \in Req, Refresh(r, a)
        PROVE  store[<<"mcprt", a>>] # Absent
    BY <1>6 DEF Refresh, IInv, Issued
  <1>7. ASSUME NEW a \in Req, Call(r, a)
        PROVE  store[<<"mcptok", a>>] # Absent
    BY <1>7 DEF Call, IInv, Issued
  <1>8. CASE \E a \in Req : Login(r, a)
    BY <1>2, <1>4, <1>8 DEF Login
  <1>9. CASE \E a \in Req : Redeem(r, a)
    BY <1>2, <1>5, <1>9 DEF Redeem
  <1>10. CASE \E a \in Req : Refresh(r, a)
    BY <1>2, <1>6, <1>10 DEF Refresh
  <1>11. CASE \E a \in Req : Call(r, a)
    BY <1>2, <1>7, <1>11 DEF Call
  <1> QED
    BY <1>3, <1>8, <1>9, <1>10, <1>11 DEF Arrive

\* No other step gives a request a key.
LEMMA ServeStep ==
  ASSUME IInv, [Next]_vars, ~ \E r \in Req : Arrive(r)
  PROVE  key' = key /\ late' = late /\ \A s \in Req : Step(s)
  <1>0. TypeOK
    BY DEF IInv
  <1> DEFINE Goal == key' = key /\ late' = late /\ \A s \in Req : Step(s)
  <1> USE DEF TypeOK, Goto, Honoured
  <1>1. CASE UNCHANGED <<pc, found, key, late>>
    BY <1>1 DEF Step
  <1>2. ASSUME NEW r \in Req, CheckSession(r) PROVE Goal
    BY <1>0, <1>2 DEF CheckSession, Step
  <1>3. ASSUME NEW r \in Req, Park(r) PROVE Goal
    BY <1>0, <1>3 DEF Park, Step
  <1>4. ASSUME NEW r \in Req, Callback(r) PROVE Goal
    BY <1>0, <1>4 DEF Callback, Step
  <1>5. ASSUME NEW r \in Req, Match(r) PROVE Goal
    BY <1>0, <1>5 DEF Match, Step
  <1>6. ASSUME NEW r \in Req, OpenSession(r) PROVE Goal
    BY <1>0, <1>6 DEF OpenSession, Step
  <1>7. ASSUME NEW r \in Req, Read(r) PROVE Goal
    BY <1>0, <1>7 DEF Read, Step
  <1>8. ASSUME NEW r \in Req, Drop(r) PROVE Goal
    BY <1>0, <1>8 DEF Drop, Popped, Step
  <1>9. ASSUME NEW r \in Req, IssueCode(r) PROVE Goal
    BY <1>0, <1>9 DEF IssueCode, Step
  <1>10. ASSUME NEW r \in Req, IssueAccess(r) PROVE Goal
    BY <1>0, <1>10 DEF IssueAccess, Step
  <1>11. ASSUME NEW r \in Req, IssueRefresh(r) PROVE Goal
    BY <1>0, <1>11 DEF IssueRefresh, Step
  <1>12. ASSUME NEW r \in Req, ResolveAccess(r) PROVE Goal
    BY <1>0, <1>12 DEF ResolveAccess, Step
  <1>13. ASSUME NEW r \in Req, Reset(r) PROVE Goal
    BY <1>0, <1>13 DEF Reset, Step
  <1>14. ASSUME NEW r \in Req, Fail(r) PROVE Goal
    BY <1>0, <1>14 DEF Fail, Waiting, Step
  <1>15. ASSUME NEW r \in Req, NEW u \in User, Profile(r, u) PROVE Goal
    BY <1>0, <1>15 DEF Profile, Step
  <1>16. ASSUME Crash PROVE Goal
    BY <1>0, <1>16 DEF Crash, Waiting, Step
  <1>17. CASE (\E c \in Client : Register(c) \/ ExpireClient(c)) \/ UNCHANGED vars
    BY <1>1, <1>17 DEF Register, ExpireClient, vars
  <1>18. CASE (\E k \in Key : ExpireKey(k)) \/ (\E u \in User : CloseSession(u))
    BY <1>1, <1>18 DEF ExpireKey, CloseSession
  <1> QED
    BY <1>1, <1>2, <1>3, <1>4, <1>5, <1>6, <1>7, <1>8, <1>9, <1>10, <1>11, <1>12, <1>13, <1>14, <1>15, <1>16, <1>17, <1>18 DEF Next, Handle

\* A key is stored once; then it expires, is lost or is taken by a pop.
LEMMA StoreStep ==
  ASSUME IInv, [Next]_vars, NEW k \in Key
  PROVE  \/ store'[k] = store[k]
         \/ store[k] = Absent /\ store'[k] \in Grant
         \/ Live(k) /\ store'[k] = Gone
         \/ Live(k) /\ store'[k] = Taken /\ \E r \in Req : Drop(r) /\ key[r] = k
  <1>0. TypeOK
    BY DEF IInv
  <1> DEFINE Goal == \/ store'[k] = store[k]
                     \/ store[k] = Absent /\ store'[k] \in Grant
                     \/ Live(k) /\ store'[k] = Gone
                     \/ Live(k) /\ store'[k] = Taken /\ \E r \in Req : Drop(r) /\ key[r] = k
  <1>1. CASE store' = store
    BY <1>1
  <1>2. ASSUME NEW r \in Req, NEW t \in {"authreq", "code", "mcptok", "mcprt"},
               NEW v \in Grant, Put(<<t, r>>, v), store[<<t, r>>] = Absent
        PROVE  Goal
    BY <1>0, <1>2 DEF Put, TypeOK
  <1>3. ASSUME NEW r \in Req, Park(r) PROVE Goal
    <2>1. [client |-> key[r][2], user |-> NoUser, trip |-> r] \in Grant
      BY <1>3, KeyPairs DEF Park, IInv, KeyAt, Grant
    <2> QED
      BY <1>2, <1>3, <2>1 DEF Park, IInv, Issued
  <1>4. ASSUME NEW r \in Req, IssueCode(r) PROVE Goal
    BY <1>2, <1>4, CarriedType DEF IssueCode, IInv, Issued
  <1>5. ASSUME NEW r \in Req, IssueAccess(r) PROVE Goal
    BY <1>2, <1>5, CarriedType DEF IssueAccess, IInv, Issued
  <1>6. ASSUME NEW r \in Req, IssueRefresh(r) PROVE Goal
    BY <1>2, <1>6, CarriedType DEF IssueRefresh, IInv, Issued
  <1>7. ASSUME NEW r \in Req, Drop(r) PROVE Goal
    <2>1. CASE Live(key[r])
      <3>1. Put(key[r], Taken)
        BY <1>7, <2>1 DEF Drop
      <3>2. CASE key[r] = k
        BY <1>0, <1>7, <2>1, <3>1, <3>2 DEF Put, TypeOK
      <3>3. CASE key[r] # k
        BY <1>0, <3>1, <3>3 DEF Put, TypeOK
      <3> QED
        BY <3>2, <3>3
    <2>2. CASE ~Live(key[r])
      BY <1>1, <1>7, <2>2 DEF Drop
    <2> QED
      BY <2>1, <2>2
  <1>8. ASSUME NEW l \in Key, ExpireKey(l) PROVE Goal
    BY <1>0, <1>8 DEF ExpireKey, Put, TypeOK
  <1>9. ASSUME Crash PROVE Goal
    BY <1>0, <1>9 DEF Crash, TypeOK
  <1>10. ASSUME NEW r \in Req, Arrive(r) PROVE Goal
    BY <1>1, <1>10 DEF Arrive, Authorize, Login, Redeem, Refresh, Call
  <1>11. CASE \E r \in Req : CheckSession(r) \/ Callback(r) \/ Match(r) \/ OpenSession(r) \/ Read(r)
                           \/ ResolveAccess(r) \/ Reset(r) \/ Fail(r) \/ \E u \in User : Profile(r, u)
    BY <1>1, <1>11 DEF CheckSession, Callback, Match, OpenSession, Read, ResolveAccess, Reset, Fail, Profile
  <1>12. CASE (\E c \in Client : Register(c) \/ ExpireClient(c)) \/ (\E u \in User : CloseSession(u))
             \/ UNCHANGED vars
    BY <1>1, <1>12 DEF Register, ExpireClient, CloseSession, vars
  <1> QED
    BY <1>3, <1>4, <1>5, <1>6, <1>7, <1>8, <1>9, <1>10, <1>11, <1>12 DEF Next, Handle

\* A request that arrives late is one whose key is used up.
LEMMA ArriveSpending ==
  ASSUME IInv, Spending, NEW r \in Req, Arrive(r)
  PROVE  Spending'
  <1>0. TypeOK
    BY DEF IInv
  <1>1. PICK k \in Keys, stage \in {"session", "refused", "away", "read", "bearer"} :
           /\ Send(r, k, stage)
           /\ k \in Key => store[k] # Absent
           /\ UNCHANGED <<backend, clients, sessions, store, user, found>>
    BY ArriveStep
  <1>2. /\ pc[r] = "new" /\ pc'[r] = stage /\ key'[r] = k
        /\ \A p \in Req : p # r => pc'[p] = pc[p] /\ key'[p] = key[p]
    BY <1>0, <1>1 DEF Send, Goto, TypeOK
  <1>3. key[r] = <<>> /\ found[r] = Absent
    BY <1>2 DEF IInv, KeyAt, KnownAt
  <1>4. store' = store /\ found' = found
    BY <1>1
  <1>6. \A p \in Req : key'[p] \in Key => store'[key'[p]] # Absent
    BY <1>1, <1>2, <1>4 DEF Spending
  <1>7. \A p \in Req : pc'[p] \in Honoured /\ key'[p] \in Key => store'[key'[p]] \in {Taken, Gone}
    BY <1>2, <1>4 DEF Spending, Honoured
  <1>8. ASSUME NEW p \in late'
        PROVE  /\ key'[p] \in Key /\ store'[key'[p]] \in {Taken, Gone}
               /\ found'[p] \notin Grant /\ pc'[p] # "new" /\ pc'[p] \notin Honoured
    <2>1. CASE p \in late
      BY <1>0, <1>2, <1>4, <2>1 DEF Spending, TypeOK
    <2>2. CASE p \notin late
      <3>1. p = r /\ Spent(k)
        BY <1>1, <1>8, <2>2 DEF Send
      <3>2. k \in Key /\ store[k] \in {Taken, Gone}
        BY <3>1 DEF Spent, Spending
      <3> QED
        BY <1>2, <1>3, <1>4, <3>1, <3>2, NoGrants DEF Honoured
    <2> QED
      BY <2>1, <2>2
  <1>9. \A p \in Req : pc'[p] = "drop" /\ key'[p] \in Key /\ store'[key'[p]] \in Grant => found'[p] \in Grant
    BY <1>2, <1>4 DEF Spending
  <1>10. ASSUME NEW l \in Key, store'[l] = Taken
         PROVE  \E p \in Req : key'[p] = l /\ found'[p] \in Grant /\ pc'[p] # "drop"
    <2>1. PICK p \in Req : key[p] = l /\ found[p] \in Grant /\ pc[p] # "drop"
      BY <1>4, <1>10 DEF Spending
    <2>2. p # r
      BY <1>3, <2>1, NoGrants
    <2> QED
      BY <1>2, <1>4, <2>1, <2>2
  <1> QED
    BY <1>6, <1>7, <1>8, <1>9, <1>10 DEF Spending

\* Whatever else happens, keys stay used up and what was taken is with someone.
LEMMA ServeSpending ==
  ASSUME IInv, Spending, [Next]_vars, ~ \E r \in Req : Arrive(r)
  PROVE  Spending'
  <1>0. TypeOK
    BY DEF IInv
  <1>1. key' = key /\ late' = late
    BY ServeStep
  <1>2. \A s \in Req : Step(s)
    BY ServeStep
  <1>3. \A k \in Key : \/ store'[k] = store[k]
                       \/ store[k] = Absent /\ store'[k] \in Grant
                       \/ Live(k) /\ store'[k] = Gone
                       \/ Live(k) /\ store'[k] = Taken /\ \E r \in Req : Drop(r) /\ key[r] = k
    BY StoreStep
  <1>4. \A k \in Key : store[k] \in {Taken, Gone} => store'[k] = store[k]
    BY <1>3, NoGrants DEF Live
  <1>5. \A p \in Req : key'[p] \in Key => store'[key'[p]] # Absent
    BY <1>1, <1>3, NoGrants DEF Spending
  <1>6. ASSUME NEW p \in Req, Drop(p), key[p] \in Key
        PROVE  store'[key[p]] \in {Taken, Gone} /\ pc'[p] # "drop"
    <2>1. CASE Live(key[p])
      BY <1>0, <1>6, <2>1 DEF Drop, Put, Popped, Goto, TypeOK
    <2>2. CASE ~Live(key[p])
      BY <1>0, <1>4, <1>6, <2>2 DEF Drop, Popped, Goto, TypeOK, Live, NoGrant, Spending
    <2> QED
      BY <2>1, <2>2
  <1>7. \A p \in Req : pc[p] = "session" => key[p] \notin Key
    BY KeyPairs DEF IInv, KeyAt
  <1>8. ASSUME NEW p \in Req, pc'[p] \in Honoured, key'[p] \in Key
        PROVE  store'[key'[p]] \in {Taken, Gone}
    <2>1. CASE pc[p] \in Honoured
      BY <1>1, <1>4, <1>8, <2>1 DEF Spending
    <2>2. CASE pc[p] \notin Honoured
      BY <1>1, <1>2, <1>6, <1>7, <1>8, <2>2 DEF Step
    <2> QED
      BY <2>1, <2>2
  <1>9. ASSUME NEW p \in late'
        PROVE  /\ key'[p] \in Key /\ store'[key'[p]] \in {Taken, Gone}
               /\ found'[p] \notin Grant /\ pc'[p] # "new" /\ pc'[p] \notin Honoured
    <2>1. /\ p \in Req /\ key[p] \in Key /\ store[key[p]] \in {Taken, Gone}
          /\ found[p] \notin Grant /\ pc[p] # "new" /\ pc[p] \notin Honoured
      BY <1>0, <1>1, <1>9 DEF Spending, TypeOK
    <2>2. Step(p)
      BY <1>2, <2>1
    <2>3. found'[p] \notin Grant
      BY <2>1, <2>2, NoGrants DEF Step
    <2> QED
      BY <1>1, <1>4, <1>7, <2>1, <2>2, <2>3 DEF Step
  <1>10. ASSUME NEW p \in Req, pc'[p] = "drop", key'[p] \in Key, store'[key'[p]] \in Grant
         PROVE  found'[p] \in Grant
    <2>1. Step(p) /\ store[key[p]] # Absent /\ key[p] \in Key
      BY <1>1, <1>2, <1>10 DEF Spending
    <2>2. Live(key[p]) /\ store'[key[p]] = store[key[p]]
      BY <1>1, <1>3, <1>10, <2>1, NoGrants DEF Live
    <2>3. CASE pc[p] = "drop"
      <3>1. found[p] \in Grant
        BY <2>1, <2>2, <2>3 DEF Spending, Live
      <3>2. found'[p] = found[p]
        BY <2>1, <2>3 DEF Step
      <3> QED
        BY <3>1, <3>2
    <2>4. CASE pc[p] = "read" /\ found'[p] = store[key[p]]
      BY <2>2, <2>4 DEF Live
    <2> QED
      BY <1>10, <2>1, <2>3, <2>4 DEF Step
  <1>11. ASSUME NEW k \in Key, store'[k] = Taken
         PROVE  \E p \in Req : key'[p] = k /\ found'[p] \in Grant /\ pc'[p] # "drop"
    <2>1. CASE store[k] = Taken
      <3>1. PICK p \in Req : key[p] = k /\ found[p] \in Grant /\ pc[p] # "drop"
        BY <2>1 DEF Spending
      <3>2. pc[p] \notin {"read", "bearer"}
        BY <3>1, NoGrants DEF IInv, KnownAt
      <3> QED
        BY <1>1, <1>2, <3>1, <3>2 DEF Step
    <2>2. CASE Live(k)
      <3>1. PICK r \in Req : Drop(r) /\ key[r] = k
        BY <1>3, <1>11, <2>2, NoGrants DEF Live
      <3>2. pc[r] = "drop" /\ found[r] \in Grant
        BY <2>2, <3>1 DEF Drop, Spending, Live
      <3> QED
        BY <1>1, <1>2, <1>6, <3>1, <3>2 DEF Step
    <2>3. CASE store[k] = Absent
      BY <1>3, <1>11, <2>3, NoGrants DEF Live
    <2> QED
      BY <1>0, <1>3, <1>11, <2>1, <2>2, <2>3 DEF TypeOK, Live, NoGrant
  <1> QED
    BY <1>5, <1>8, <1>9, <1>10, <1>11 DEF Spending

\* The two invariants hold throughout.
THEOREM SpendingInductive == Spec => [](IInv /\ Spending)
  <1>1. Init => Spending
    <2> SUFFICES ASSUME Init PROVE Spending
      OBVIOUS
    <2>1. \A r \in Req : key[r] \notin Key /\ pc[r] = "new"
      BY KeyPairs DEF Init
    <2>2. \A k \in Key : store[k] # Taken
      BY NoGrants DEF Init
    <2> QED
      BY <2>1, <2>2 DEF Init, Spending
  <1>2. IInv /\ [Next]_vars => IInv'
    BY NextType, NextKeyAt, NextKnownAt, NextIssued DEF IInv
  <1>3. IInv /\ Spending /\ [Next]_vars => Spending'
    BY ArriveSpending, ServeSpending
  <1> QED
    BY InitInv, <1>1, <1>2, <1>3, PTL DEF Spec

-----------------------------------------------------------------------------
(* One refresh token for each authorization                                *)

\* What an authorization has come to: the request that asks for it, then keys
\* and the requests that pass it on, in turn.
Root(t) == pc[t] = "new" \/ (key[t] \notin Key /\ pc[t] \in {"session", "park", "issue"})

Stored(k, t) == k[1] # "mcptok" /\ store[k] \in Grant /\ store[k].trip = t

Passing(p, t) ==
    /\ key[p] \in Key /\ found[p] \in Grant /\ found[p].trip = t
    /\ pc[p] \in {"drop", "issue", "access", "refresh"}

Alone(t) ==
    /\ \A k, l \in Key : Stored(k, t) /\ Stored(l, t) => k = l
    /\ \A k \in Key, p \in Req : Stored(k, t) /\ Passing(p, t) => pc[p] = "drop" /\ key[p] = k
    /\ \A p, q \in Req : Passing(p, t) /\ Passing(q, t) => p = q
    /\ Root(t) => (\A k \in Key : ~Stored(k, t)) /\ (\A p \in Req : ~Passing(p, t))

\* Unless pops have overlapped, an authorization is in one place.
Single == \A t \in Req : Overlapped(t) \/ Alone(t)

\* What has been found is kept, and so is the key it was found under.
LEMMA FoundStays ==
  ASSUME IInv, [Next]_vars, NEW p \in Req
  PROVE  /\ pc[p] # "new" => key'[p] = key[p]
         /\ found[p] \in Grant => found'[p] = found[p] /\ pc[p] # "new"
  <1>0. TypeOK /\ \A s \in Req : pc[s] \in {"new", "read", "bearer"} => found[s] \notin Grant
    BY NoGrants DEF IInv, KnownAt
  <1>1. CASE \E r \in Req : Arrive(r)
    <2>1. PICK r \in Req, k \in Keys, stage \in {"session", "refused", "away", "read", "bearer"} :
             Send(r, k, stage) /\ found' = found
      BY <1>1, ArriveStep
    <2> QED
      BY <1>0, <2>1 DEF Send, TypeOK
  <1>2. CASE ~ \E r \in Req : Arrive(r)
    BY <1>0, <1>2, ServeStep DEF Step
  <1> QED
    BY <1>1, <1>2

\* Once two pops of an authorization have overlapped, they have.
LEMMA OverlappedStays ==
  ASSUME IInv, [Next]_vars, NEW t \in Req, Overlapped(t)
  PROVE  Overlapped(t)'
  <1>1. PICK p, q \in Req : /\ p # q /\ key[p] = key[q]
                          /\ found[p] \in Grant /\ found[q] \in Grant
                          /\ found[p].trip = t
    BY DEF Overlapped
  <1>a. \A s \in Req : found[s] \in Grant => found'[s] = found[s] /\ key'[s] = key[s]
    BY FoundStays
  <1>2. found'[p] = found[p] /\ key'[p] = key[p]
    BY <1>1, <1>a
  <1>3. found'[q] = found[q] /\ key'[q] = key[q]
    BY <1>1, <1>a
  <1> QED
    BY <1>1, <1>2, <1>3 DEF Overlapped

\* A step by which an authorization is passed to nobody.
LEMMA AloneKept ==
  ASSUME NEW t \in Req, Alone(t),
         \A k \in Key : Stored(k, t)' => Stored(k, t),
         \A p \in Req : Passing(p, t)' =>
            /\ Passing(p, t) /\ key'[p] = key[p]
            /\ pc[p] = "drop" => pc'[p] = "drop" \/ store'[key[p]] \notin Grant,
         Root(t)' => Root(t)
  PROVE  Alone(t)'
  <1>1. \A k, l \in Key : Stored(k, t)' /\ Stored(l, t)' => k = l
    BY DEF Alone
  <1>2. ASSUME NEW k \in Key, NEW p \in Req, Stored(k, t)', Passing(p, t)'
        PROVE  pc'[p] = "drop" /\ key'[p] = k
    <2>1. pc[p] = "drop" /\ key[p] = k
      BY <1>2 DEF Alone
    <2>2. store'[k] \in Grant
      BY <1>2 DEF Stored
    <2> QED
      BY <1>2, <2>1, <2>2
  <1>3. \A p, q \in Req : Passing(p, t)' /\ Passing(q, t)' => p = q
    BY DEF Alone
  <1>4. Root(t)' => (\A k \in Key : ~Stored(k, t)') /\ (\A p \in Req : ~Passing(p, t)')
    BY DEF Alone
  <1> QED
    BY <1>1, <1>2, <1>3, <1>4 DEF Alone

\* A request reads the key an authorization is stored under.
LEMMA AloneRead ==
  ASSUME IInv, NEW t \in Req, Alone(t), NEW r \in Req, Read(r), ~Overlapped(t)'
  PROVE  Alone(t)'
  <1>0. TypeOK
    BY DEF IInv
  <1>1. key[r] \in Key /\ key[r][1] # "mcptok" /\ pc[r] = "read"
    BY <1>0 DEF Read, IInv, KeyAt, Key
  <1>2. /\ store' = store /\ key' = key
        /\ pc'[r] = "drop" /\ found'[r] = store[key[r]]
        /\ \A p \in Req : p # r => pc'[p] = pc[p] /\ found'[p] = found[p]
    BY <1>0 DEF Read, Goto, TypeOK
  <1>3. \A k \in Key : Stored(k, t)' <=> Stored(k, t)
    BY <1>2 DEF Stored
  <1>4. \A p \in Req : p # r => (Passing(p, t)' <=> Passing(p, t))
    BY <1>2 DEF Passing
  <1>5. Passing(r, t)' => Stored(key[r], t)
    BY <1>1, <1>2 DEF Passing, Stored
  <1>6. Root(t)' => Root(t)
    BY <1>2 DEF Root
  <1>7. ASSUME NEW q \in Req, q # r, Passing(q, t), Passing(r, t)' PROVE FALSE
    <2>1. key[q] = key[r]
      BY <1>1, <1>5, <1>7 DEF Alone
    <2>2. found'[q] \in Grant /\ found'[r] \in Grant /\ found'[q].trip = t
      BY <1>2, <1>7 DEF Passing
    <2> QED
      BY <1>2, <1>7, <2>1, <2>2 DEF Overlapped
  <1>8. \A k, l \in Key : Stored(k, t)' /\ Stored(l, t)' => k = l
    BY <1>3 DEF Alone
  <1>9. \A k \in Key, p \in Req : Stored(k, t)' /\ Passing(p, t)' => pc'[p] = "drop" /\ key'[p] = k
    BY <1>1, <1>2, <1>3, <1>4, <1>5 DEF Alone
  <1>10. \A p, q \in Req : Passing(p, t)' /\ Passing(q, t)' => p = q
    BY <1>4, <1>7 DEF Alone
  <1>11. Root(t)' => (\A k \in Key : ~Stored(k, t)') /\ (\A p \in Req : ~Passing(p, t)')
    BY <1>1, <1>3, <1>4, <1>5, <1>6 DEF Alone
  <1> QED
    BY <1>8, <1>9, <1>10, <1>11 DEF Alone

\* A request stores the authorization it asks for or passes on.
LEMMA AlonePut ==
  ASSUME IInv, NEW t \in Req, Alone(t), NEW r \in Req, NEW x \in {"authreq", "code", "mcprt"},
         NEW v \in Grant, NEW stage \in {"parked", "redirected", "answered"},
         pc[r] \in {"park", "issue", "refresh"},
         Put(<<x, r>>, v), Goto(r, stage), UNCHANGED <<key, found>>,
         \/ key[r] \notin Key /\ v.trip = r /\ pc[r] \in {"park", "issue"}
         \/ key[r] \in Key /\ found[r] \in Grant /\ v.trip = found[r].trip /\ pc[r] # "park"
  PROVE  Alone(t)'
  <1>0. TypeOK
    BY DEF IInv
  <1>1. /\ pc'[r] = stage /\ key' = key /\ found' = found
        /\ \A p \in Req : p # r => pc'[p] = pc[p]
    BY <1>0 DEF Goto, TypeOK
  <1>2. \A k \in Key : store'[k] = IF k = <<x, r>> THEN v ELSE store[k]
    BY <1>0 DEF Put, TypeOK
  <1>3. \A p \in Req : Passing(p, t)' => Passing(p, t) /\ p # r /\ pc'[p] = pc[p]
    BY <1>1 DEF Passing
  <1>4. Root(t)' => Root(t) /\ t # r
    BY <1>1 DEF Root
  <1>5. CASE v.trip # t
    <2>1. \A k \in Key : Stored(k, t)' => Stored(k, t)
      BY <1>2, <1>5 DEF Stored
    <2> QED
      BY <1>1, <1>3, <1>4, <2>1, AloneKept
  <1>6. CASE v.trip = t
    <2>1. \A k \in Key : Stored(k, t)' => Stored(k, t) \/ k = <<x, r>>
      BY <1>2 DEF Stored
    <2>2. \/ Root(t) /\ t = r
          \/ Passing(r, t) /\ pc[r] # "drop"
      BY <1>6 DEF Root, Passing
    <2>3. \A k \in Key : ~Stored(k, t)
      BY <2>2 DEF Alone
    <2>4. \A p \in Req : Passing(p, t) => p = r
      BY <2>2 DEF Alone
    <2>5. ~Root(t)'
      BY <1>4, <2>2 DEF Alone
    <2>6. \A p \in Req : ~Passing(p, t)'
      BY <1>3, <2>4
    <2> QED
      BY <2>1, <2>3, <2>5, <2>6 DEF Alone
  <1> QED
    BY <1>5, <1>6

\* Every step keeps an authorization in one place.
LEMMA NextSingle == IInv /\ Spending /\ Single /\ [Next]_vars => Single'
  <1> SUFFICES ASSUME IInv, Spending, Single, [Next]_vars, NEW t \in Req, ~Overlapped(t)'
               PROVE  Alone(t)'
    BY DEF Single
  <1>0. TypeOK /\ KeyAt /\ Alone(t)
    BY OverlappedStays DEF IInv, Single
  <1> DEFINE Loses == \A k \in Key : Stored(k, t)' => Stored(k, t)
             Holds == \A p \in Req : Passing(p, t)' =>
                         /\ Passing(p, t) /\ key'[p] = key[p]
                         /\ pc[p] = "drop" => pc'[p] = "drop" \/ store'[key[p]] \notin Grant
             Roots == Root(t)' => Root(t)
  <1>a. CASE Loses /\ Holds /\ Roots
    BY <1>0, <1>a, AloneKept
  <1>b. store' = store => Loses
    BY DEF Stored
  <1>1. CASE UNCHANGED <<store, pc, key, found>>
    <2>1. Holds /\ Roots
      BY <1>1 DEF Passing, Root
    <2> QED
      BY <1>1, <1>a, <1>b, <2>1
  <1>2. ASSUME NEW r \in Req, Arrive(r) PROVE Alone(t)'
    <2>1. PICK k \in Keys, stage \in {"session", "refused", "away", "read", "bearer"} :
             Send(r, k, stage) /\ UNCHANGED <<store, found>>
      BY <1>2, ArriveStep
    <2>2. /\ pc[r] = "new" /\ pc'[r] = stage /\ \A p \in Req : p # r => pc'[p] = pc[p] /\ key'[p] = key[p]
      BY <1>0, <2>1 DEF Send, Goto, TypeOK
    <2>3. Holds /\ Roots
      BY <2>1, <2>2 DEF Passing, Root
    <2> QED
      BY <1>a, <1>b, <2>1, <2>3
  <1>3. ASSUME NEW r \in Req, CheckSession(r) PROVE Alone(t)'
    <2>1. /\ pc[r] = "session" /\ key[r] \notin Key /\ pc'[r] \in {"park", "issue"}
          /\ \A p \in Req : p # r => pc'[p] = pc[p]
          /\ UNCHANGED <<store, key, found>>
      BY <1>0, <1>3, KeyPairs DEF CheckSession, KeyAt, Goto, TypeOK
    <2>2. Holds /\ Roots
      BY <2>1 DEF Passing, Root
    <2> QED
      BY <1>a, <1>b, <2>1, <2>2
  <1>4. ASSUME NEW r \in Req,
               \/ Callback(r) \/ Match(r) \/ OpenSession(r) \/ Reset(r) \/ Fail(r)
               \/ \E u \in User : Profile(r, u)
        PROVE  Alone(t)'
    <2>1. /\ pc[r] # "new" /\ pc'[r] \in {"profile", "refused", "match", "read", "plain", "signedin", "done", "failed"}
          /\ \A p \in Req : p # r => pc'[p] = pc[p]
          /\ UNCHANGED <<store, key, found>>
      BY <1>0, <1>4 DEF Callback, Match, OpenSession, Reset, Fail, Profile, Goto, TypeOK, Waiting
    <2>2. Holds /\ Roots
      BY <2>1 DEF Passing, Root
    <2> QED
      BY <1>a, <1>b, <2>1, <2>2
  <1>5. ASSUME NEW r \in Req, ResolveAccess(r) PROVE Alone(t)'
    <2>1. /\ pc[r] = "bearer" /\ pc'[r] \in {"tool", "refused"}
          /\ \A p \in Req : p # r => pc'[p] = pc[p] /\ found'[p] = found[p]
          /\ UNCHANGED <<store, key>>
      BY <1>0, <1>5 DEF ResolveAccess, Goto, TypeOK
    <2>2. Holds /\ Roots
      BY <2>1 DEF Passing, Root
    <2> QED
      BY <1>a, <1>b, <2>1, <2>2
  <1>6. ASSUME NEW r \in Req, Read(r) PROVE Alone(t)'
    BY <1>0, <1>6, AloneRead
  <1>7. ASSUME NEW r \in Req, Drop(r) PROVE Alone(t)'
    <2>1. key[r] \in Key
      BY <1>0, <1>7 DEF Drop, KeyAt, Key
    <2>2. /\ pc[r] = "drop" /\ pc'[r] \in {"issue", "access", "refused"}
          /\ \A p \in Req : p # r => pc'[p] = pc[p]
          /\ UNCHANGED <<key, found>>
      BY <1>0, <1>7 DEF Drop, Popped, Goto, TypeOK
    <2>3. store'[key[r]] \notin Grant /\ \A k \in Key : store'[k] = store[k] \/ store'[k] = Taken
      <3>1. CASE Live(key[r])
        BY <1>0, <1>7, <2>1, <3>1, NoGrants DEF Drop, Put, TypeOK
      <3>2. CASE ~Live(key[r])
        BY <1>0, <1>7, <2>1, <3>2 DEF Drop, Live
      <3> QED
        BY <3>1, <3>2
    <2>4. Loses
      BY <2>3, NoGrants DEF Stored
    <2>5. Holds /\ Roots
      BY <2>1, <2>2, <2>3 DEF Passing, Root
    <2> QED
      BY <1>a, <2>4, <2>5
  <1>8. ASSUME NEW r \in Req, Park(r) PROVE Alone(t)'
    <2>1. key[r] \notin Key
      BY <1>0, <1>8, KeyPairs DEF Park, KeyAt
    <2>2. [client |-> key[r][2], user |-> NoUser, trip |-> r] \in Grant
      BY <1>0, <1>8, KeyPairs DEF Park, KeyAt, Grant
    <2> QED
      BY <1>0, <1>8, <2>1, <2>2, AlonePut DEF Park
  <1>9. ASSUME NEW r \in Req, IssueCode(r) PROVE Alone(t)'
    <2>1. Carried(r) \in Grant /\ pc[r] = "issue"
      BY <1>9, CarriedType DEF IssueCode
    <2>2. \/ key[r] \notin Key /\ Carried(r).trip = r
          \/ key[r] \in Key /\ found[r] \in Grant /\ Carried(r).trip = found[r].trip
      BY <1>0, <2>1, KeyPairs DEF KeyAt, Carried, IInv, KnownAt, Key
    <2> QED
      BY <1>0, <1>9, <2>1, <2>2, AlonePut DEF IssueCode
  <1>10. ASSUME NEW r \in Req, IssueRefresh(r) PROVE Alone(t)'
    <2>1. Carried(r) \in Grant /\ pc[r] = "refresh"
      BY <1>10, CarriedType DEF IssueRefresh
    <2>2. key[r] \in Key /\ found[r] \in Grant /\ Carried(r).trip = found[r].trip
      BY <1>0, <2>1 DEF KeyAt, Carried, IInv, KnownAt, Key
    <2> QED
      BY <1>0, <1>10, <2>1, <2>2, AlonePut DEF IssueRefresh
  <1>11. ASSUME NEW r \in Req, IssueAccess(r) PROVE Alone(t)'
    <2>1. /\ pc[r] = "access" /\ pc'[r] = "refresh"
          /\ \A p \in Req : p # r => pc'[p] = pc[p]
          /\ UNCHANGED <<key, found>>
      BY <1>0, <1>11 DEF IssueAccess, Goto, TypeOK
    <2>2. \A k \in Key : k[1] # "mcptok" => store'[k] = store[k]
      BY <1>0, <1>11 DEF IssueAccess, Put, TypeOK
    <2>3. Loses
      BY <2>2 DEF Stored
    <2>4. Holds /\ Roots
      BY <2>1 DEF Passing, Root
    <2> QED
      BY <1>a, <2>3, <2>4
  <1>12. ASSUME NEW k \in Key, ExpireKey(k) PROVE Alone(t)'
    <2>1. UNCHANGED <<pc, key, found>> /\ \A l \in Key : store'[l] = store[l] \/ store'[l] = Gone
      BY <1>0, <1>12 DEF ExpireKey, Put, TypeOK
    <2>2. Loses
      BY <2>1, NoGrants DEF Stored
    <2>3. Holds /\ Roots
      BY <2>1 DEF Passing, Root
    <2> QED
      BY <1>a, <2>2, <2>3
  <1>13. ASSUME Crash PROVE Alone(t)'
    <2>1. UNCHANGED <<key, found>> /\ \A l \in Key : store'[l] = store[l] \/ store'[l] = Gone
      BY <1>0, <1>13 DEF Crash, TypeOK
    <2>2. \A p \in Req : pc'[p] = pc[p] \/ pc'[p] \in {"failed", "refused"}
      BY <1>13 DEF Crash
    <2>3. Loses
      BY <2>1, NoGrants DEF Stored
    <2>4. Holds /\ Roots
      BY <2>1, <2>2 DEF Passing, Root
    <2> QED
      BY <1>a, <2>3, <2>4
  <1>14. CASE (\E c \in Client : Register(c) \/ ExpireClient(c)) \/ (\E u \in User : CloseSession(u))
             \/ UNCHANGED vars
    BY <1>1, <1>14 DEF Register, ExpireClient, CloseSession, vars
  <1> QED
    BY <1>2, <1>3, <1>4, <1>5, <1>6, <1>7, <1>8, <1>9, <1>10, <1>11, <1>12, <1>13, <1>14 DEF Next, Handle

\* All three invariants hold throughout.
THEOREM SingleInductive == Spec => []Single
  <1>1. Init => Single
    <2> SUFFICES ASSUME Init, NEW t \in Req PROVE Alone(t)
      BY DEF Single
    <2>1. \A k \in Key : store[k] \notin Grant
      BY NoGrants DEF Init
    <2>2. \A p \in Req : found[p] \notin Grant
      BY NoGrants DEF Init
    <2> QED
      BY <2>1, <2>2 DEF Alone, Stored, Passing
  <1>2. IInv /\ Spending /\ Single /\ [Next]_vars => Single'
    BY NextSingle
  <1> QED
    BY SpendingInductive, <1>1, <1>2, PTL DEF Spec

-----------------------------------------------------------------------------
(* Delegation                                                              *)

\* The client a request is for, and the pair its user has agreed to.
ClientOf(r) == IF key[r][1] = "mcpclient" THEN key[r][2] ELSE key[key[r][2]][2]

Consents(r, x) ==
    /\ key[r] # <<>> /\ key[r][1] \in {"mcpclient", "authreq"} /\ user[r] \in User
    /\ x = <<ClientOf(r), user[r]>>

\* Where the records come from.
Provenance ==
    /\ \A r \in Req : pc[r] # "new" /\ key[r][1] = "authreq" =>
          key[r][2] \in Req /\ pc[key[r][2]] = "parked"
    /\ \A k \in Key : store[k] \in Grant =>
          IF k[1] = "authreq" THEN store[k].client = key[k[2]][2]
          ELSE <<store[k].client, store[k].user>> \in Consented
    /\ \A r \in Req : found[r] \in Grant /\ key[r][1] = "authreq" => found[r].client = ClientOf(r)
    /\ \A r \in Req : found[r] \in Grant /\ key[r][1] \in {"code", "mcprt"} =>
          <<found[r].client, found[r].user>> \in Consented
    /\ \A r \in Req : pc[r] \in {"access", "refresh"} => user[r] = found[r].user

\* Whoever has signed in has done so in some request.
LEMMA ConsentedIs == \A x : x \in Consented <=> \E r \in Req : Consents(r, x)
  BY DEF Consented, Consents, ClientOf

\* The client of a request is what it was when the request was sent.
LEMMA ClientStays ==
  ASSUME IInv, Provenance, [Next]_vars, NEW r \in Req, pc[r] # "new",
         key[r][1] \in {"mcpclient", "authreq"}
  PROVE  key'[r] = key[r] /\ ClientOf(r)' = ClientOf(r)
  <1>1. key'[r] = key[r]
    BY FoundStays
  <1>2. CASE key[r][1] = "mcpclient"
    BY <1>1, <1>2 DEF ClientOf
  <1>3. CASE key[r][1] = "authreq"
    <2>1. key[r][2] \in Req /\ pc[key[r][2]] # "new"
      BY <1>3 DEF Provenance
    <2>2. key'[key[r][2]] = key[key[r][2]]
      BY <2>1, FoundStays
    <2> QED
      BY <1>1, <1>3, <2>2 DEF ClientOf
  <1> QED
    BY <1>2, <1>3

\* Only a request of a browser learns who its user is, and only once.
LEMMA UserStays ==
  ASSUME IInv, [Next]_vars, NEW r \in Req
  PROVE  \/ user'[r] = user[r]
         \/ pc[r] = "session" /\ CheckSession(r)
         \/ pc[r] = "profile" /\ \E u \in User : Profile(r, u)
         \/ key[r][1] \in {"code", "mcptok", "mcprt"} /\ pc[r] \in {"drop", "bearer"}
  <1>0. TypeOK /\ KeyAt
    BY DEF IInv
  <1>1. CASE user' = user
    BY <1>1
  <1>2. ASSUME NEW s \in Req, s # r,
               CheckSession(s) \/ Drop(s) \/ ResolveAccess(s) \/ \E u \in User : Profile(s, u)
        PROVE  user'[r] = user[r]
    BY <1>0, <1>2 DEF CheckSession, Drop, Popped, ResolveAccess, Profile, TypeOK
  <1>3. CASE CheckSession(r)
    BY <1>3 DEF CheckSession
  <1>4. CASE \E u \in User : Profile(r, u)
    BY <1>4 DEF Profile
  <1>5. CASE Drop(r)
    BY <1>0, <1>5 DEF Drop, Popped, KeyAt
  <1>6. CASE ResolveAccess(r)
    BY <1>0, <1>6 DEF ResolveAccess, KeyAt
  <1>7. CASE UNCHANGED vars
    BY <1>1, <1>7 DEF vars
  <1>8. CASE \E s \in Req :
               \/ Arrive(s) \/ Park(s) \/ Callback(s) \/ Match(s) \/ OpenSession(s) \/ Read(s)
               \/ IssueCode(s) \/ IssueAccess(s) \/ IssueRefresh(s) \/ Reset(s) \/ Fail(s)
    BY <1>1, <1>8 DEF Arrive, Authorize, Login, Redeem, Refresh, Call, Park, Callback, Match, OpenSession,
                      Read, IssueCode, IssueAccess, IssueRefresh, Reset, Fail
  <1>9. CASE \/ \E c \in Client : Register(c) \/ ExpireClient(c)
             \/ \E k \in Key : ExpireKey(k)
             \/ \E u \in User : CloseSession(u)
             \/ Crash
    BY <1>1, <1>9 DEF Register, ExpireClient, ExpireKey, CloseSession, Crash
  <1> QED
    BY <1>2, <1>3, <1>4, <1>5, <1>6, <1>7, <1>8, <1>9 DEF Next, Handle

\* Who has signed in for a client has.
LEMMA ConsentedGrows ==
  ASSUME IInv, Provenance, [Next]_vars, NEW x \in Consented
  PROVE  x \in Consented'
  <1>1. PICK r \in Req : Consents(r, x)
    BY ConsentedIs
  <1>2. pc[r] \notin {"new", "session", "profile"} /\ user[r] \in User
    BY <1>1, StoreAssumption DEF Consents, IInv, KnownAt
  <1>3. user'[r] = user[r]
    BY <1>1, <1>2, UserStays DEF Consents
  <1>4. key'[r] = key[r] /\ ClientOf(r)' = ClientOf(r)
    BY <1>1, <1>2, ClientStays DEF Consents
  <1>5. Consents(r, x)'
    BY <1>1, <1>3, <1>4 DEF Consents
  <1>6. (\E s \in Req : Consents(s, x)') => x \in Consented'
    BY DEF Consented, Consents, ClientOf
  <1> QED
    BY <1>5, <1>6

\* And only CheckSession and Profile are sign-ins.
LEMMA ConsentedStays ==
  ASSUME IInv, Provenance, [Next]_vars,
         \A r \in Req : ~(pc[r] = "session" /\ CheckSession(r)) /\ ~(\E u \in User : Profile(r, u))
  PROVE  Consented' = Consented
  <1>1. ASSUME NEW x \in Consented' PROVE x \in Consented
    <2>1. PICK r \in Req : Consents(r, x)'
      BY DEF Consented, Consents, ClientOf
    <2>2. \/ user'[r] = user[r]
          \/ key[r][1] \in {"code", "mcptok", "mcprt"} /\ pc[r] \in {"drop", "bearer"}
      BY UserStays
    <2>3. pc[r] # "new"
      BY <2>1, <2>2, StoreAssumption DEF Consents, IInv, KnownAt
    <2>4. key'[r] = key[r]
      BY <2>3, FoundStays
    <2>5. key[r][1] \in {"mcpclient", "authreq"} /\ user'[r] = user[r]
      BY <2>1, <2>2, <2>4 DEF Consents
    <2>6. ClientOf(r)' = ClientOf(r)
      BY <2>3, <2>5, ClientStays
    <2>7. Consents(r, x)
      BY <2>1, <2>4, <2>5, <2>6 DEF Consents
    <2> QED
      BY <2>7, ConsentedIs
  <1> QED
    BY <1>1, ConsentedGrows

\* What a request passes on is for someone who has signed in for its client.
LEMMA CarriedConsented ==
  ASSUME IInv, Provenance, NEW r \in Req, pc[r] \in {"issue", "access", "refresh"}
  PROVE  <<Carried(r).client, Carried(r).user>> \in Consented
  <1>0. Carried(r).user = user[r] /\ user[r] \in User
    BY CarriedType
  <1>1. CASE pc[r] = "issue"
    <2>1. key[r] # <<>> /\ key[r][1] \in {"mcpclient", "authreq"}
      BY <1>1, KeyPairs DEF IInv, KeyAt, Key
    <2>2. Carried(r).client = ClientOf(r)
      <3>1. CASE key[r][1] = "mcpclient"
        BY <3>1 DEF Carried, ClientOf
      <3>2. CASE key[r][1] = "authreq"
        <4>1. key[r] \in Key
          BY <1>1, <3>2 DEF IInv, KeyAt, Key
        <4>2. found[r] \in Grant
          BY <1>1, <4>1 DEF IInv, KnownAt
        <4> QED
          BY <3>2, <4>2 DEF Carried, Provenance
      <3> QED
        BY <2>1, <3>1, <3>2
    <2>3. Consents(r, <<Carried(r).client, Carried(r).user>>)
      BY <1>0, <2>1, <2>2 DEF Consents
    <2> QED
      BY <2>3, ConsentedIs
  <1>2. CASE pc[r] \in {"access", "refresh"}
    <2>1. key[r] \in Key /\ key[r][1] \in {"code", "mcprt"}
      BY <1>2 DEF IInv, KeyAt, Key
    <2>2. found[r] \in Grant
      BY <1>2, <2>1 DEF IInv, KnownAt
    <2>3. Carried(r).client = found[r].client /\ Carried(r).user = found[r].user
      BY <1>0, <1>2, <2>1 DEF Carried, Provenance
    <2> QED
      BY <2>1, <2>2, <2>3 DEF Provenance
  <1> QED
    BY <1>1, <1>2

\* A record that appears in the store is that of a parked request, or for
\* someone who has signed in for its client.
LEMMA StoredProvenance ==
  ASSUME IInv, Provenance, [Next]_vars, NEW k \in Key, store'[k] \in Grant, store'[k] # store[k]
  PROVE  IF k[1] = "authreq" THEN store'[k].client = key[k[2]][2] /\ pc[k[2]] = "park"
         ELSE <<store'[k].client, store'[k].user>> \in Consented
  <1>0. TypeOK
    BY DEF IInv
  <1> DEFINE Goal == IF k[1] = "authreq" THEN store'[k].client = key[k[2]][2] /\ pc[k[2]] = "park"
                     ELSE <<store'[k].client, store'[k].user>> \in Consented
  <1>1. ASSUME NEW l, NEW v, Put(l, v) PROVE l = k /\ store'[k] = v
    BY <1>0, <1>1 DEF Put, TypeOK
  <1>2. ASSUME NEW r \in Req, Park(r) PROVE Goal
    <2>1. k = <<"authreq", r>> /\ store'[k] = [client |-> key[r][2], user |-> NoUser, trip |-> r]
      BY <1>1, <1>2 DEF Park
    <2> QED
      BY <1>2, <2>1 DEF Park
  <1>3. ASSUME NEW r \in Req, IssueCode(r) \/ IssueAccess(r) \/ IssueRefresh(r) PROVE Goal
    <2>1. k[1] # "authreq" /\ store'[k] = Carried(r)
      BY <1>1, <1>3 DEF IssueCode, IssueAccess, IssueRefresh
    <2>2. pc[r] \in {"issue", "access", "refresh"}
      BY <1>3 DEF IssueCode, IssueAccess, IssueRefresh
    <2> QED
      BY <2>1, <2>2, CarriedConsented
  <1>4. ASSUME NEW r \in Req, Drop(r) PROVE FALSE
    BY <1>1, <1>4, NoGrants DEF Drop
  <1>5. ASSUME NEW l \in Key, ExpireKey(l) PROVE FALSE
    BY <1>1, <1>5, NoGrants DEF ExpireKey
  <1>6. ASSUME Crash PROVE FALSE
    BY <1>0, <1>6, NoGrants DEF Crash, TypeOK
  <1>7. store' # store
    OBVIOUS
  <1>8. ~ \E r \in Req : \/ Arrive(r) \/ CheckSession(r) \/ Callback(r) \/ Match(r) \/ OpenSession(r)
                        \/ Read(r) \/ ResolveAccess(r) \/ Reset(r) \/ Fail(r) \/ \E u \in User : Profile(r, u)
    BY <1>7 DEF Arrive, Authorize, Login, Redeem, Refresh, Call, CheckSession, Callback, Match, OpenSession,
                Read, ResolveAccess, Reset, Fail, Profile
  <1>9. ~ \/ \E c \in Client : Register(c) \/ ExpireClient(c)
          \/ \E u \in User : CloseSession(u)
          \/ UNCHANGED vars
    BY <1>7 DEF Register, ExpireClient, CloseSession, vars
  <1> QED
    BY <1>2, <1>3, <1>4, <1>5, <1>6, <1>8, <1>9 DEF Next, Handle

\* A parked request stays parked, and a login is for one.
LEMMA ParkedStays ==
  ASSUME IInv, [Next]_vars, NEW r \in Req
  PROVE  /\ pc[r] = "parked" => pc'[r] = "parked"
         /\ pc[r] = "new" /\ pc'[r] # "new" /\ key'[r][1] = "authreq" =>
               key'[r][2] \in Req /\ pc[key'[r][2]] = "parked"
         /\ pc'[r] \in {"access", "refresh"} =>
               \/ pc[r] \in {"access", "refresh"} /\ user'[r] = user[r]
               \/ pc[r] = "drop" /\ user'[r] = found[r].user
  <1>0. TypeOK
    BY DEF IInv
  <1> USE DEF TypeOK, Goto
  <1>1. CASE UNCHANGED <<pc, key, user>>
    BY <1>1
  <1>2. ASSUME NEW s \in Req, Arrive(s)
        PROVE  /\ pc[s] = "new" /\ \A q \in Req : q # s => pc'[q] = pc[q]
               /\ user' = user /\ pc'[s] \notin {"access", "refresh"}
               /\ key'[s][1] = "authreq" => key'[s][2] \in Req /\ pc[key'[s][2]] = "parked"
    <2>1. CASE \E c \in Client : Authorize(s, c)
      BY <1>0, <2>1 DEF Authorize, Send
    <2>2. CASE \E a \in Req : Login(s, a)
      BY <1>0, <2>2 DEF Login, Send
    <2>3. CASE \E a \in Req : Redeem(s, a)
      BY <1>0, <2>3 DEF Redeem, Send
    <2>4. CASE \E a \in Req : Refresh(s, a) \/ Call(s, a)
      BY <1>0, <2>4 DEF Refresh, Call, Send
    <2> QED
      BY <1>2, <2>1, <2>2, <2>3, <2>4 DEF Arrive
  <1>3. CASE \E s \in Req : Arrive(s)
    BY <1>2, <1>3
  <1>4. ASSUME NEW s \in Req, Handle(s)
        PROVE  /\ pc[s] \notin {"new", "parked"} /\ \A q \in Req : q # s => pc'[q] = pc[q] /\ user'[q] = user[q]
               /\ pc'[s] \in {"access", "refresh"} =>
                     \/ pc[s] \in {"access", "refresh"} /\ user'[s] = user[s]
                     \/ pc[s] = "drop" /\ user'[s] = found[s].user
    <2>1. CASE Drop(s)
      BY <1>0, <2>1 DEF Drop, Popped
    <2>2. CASE \/ CheckSession(s) \/ Park(s) \/ Callback(s) \/ Match(s) \/ OpenSession(s)
               \/ \E u \in User : Profile(s, u)
      BY <1>0, <2>2 DEF CheckSession, Park, Callback, Match, OpenSession, Profile
    <2>3. CASE Read(s) \/ IssueCode(s) \/ IssueAccess(s) \/ IssueRefresh(s) \/ ResolveAccess(s) \/ Reset(s)
      BY <1>0, <2>3 DEF Read, IssueCode, IssueAccess, IssueRefresh, ResolveAccess, Reset
    <2>4. CASE Fail(s)
      BY <1>0, <2>4 DEF Fail, Waiting
    <2> QED
      BY <1>4, <2>1, <2>2, <2>3, <2>4 DEF Handle
  <1>5. CASE \E s \in Req : Handle(s)
    BY <1>4, <1>5
  <1>6. CASE Crash
    BY <1>0, <1>6 DEF Crash, Waiting
  <1>7. CASE \/ \E c \in Client : Register(c) \/ ExpireClient(c)
             \/ \E k \in Key : ExpireKey(k)
             \/ \E u \in User : CloseSession(u)
             \/ UNCHANGED vars
    BY <1>1, <1>7 DEF Register, ExpireClient, ExpireKey, CloseSession, vars
  <1> QED
    BY <1>3, <1>5, <1>6, <1>7 DEF Next

\* What a request finds is what was stored under its key.
LEMMA FoundIs ==
  ASSUME IInv, [Next]_vars, NEW r \in Req, found'[r] # found[r]
  PROVE  /\ pc[r] \in {"read", "bearer"} /\ found'[r] = store[key[r]] /\ key'[r] = key[r] /\ key[r] \in Key
         /\ pc'[r] \in {"drop", "tool", "refused"}
  <1>1. ~ \E s \in Req : Arrive(s)
    BY DEF Arrive, Authorize, Login, Redeem, Refresh, Call
  <1>2. Step(r) /\ key' = key
    BY <1>1, ServeStep
  <1>3. pc[r] \in {"read", "bearer"} => key[r] \in Key
    BY DEF IInv, KeyAt, Key
  <1> QED
    BY <1>2, <1>3 DEF Step

\* Every step keeps where the records come from.
LEMMA NextProvenance == IInv /\ Provenance /\ [Next]_vars => Provenance'
  <1> SUFFICES ASSUME IInv, Provenance, [Next]_vars PROVE Provenance'
    OBVIOUS
  <1>0. TypeOK /\ TypeOK'
    BY NextType DEF IInv
  <1>1. ASSUME NEW r \in Req, pc'[r] # "new", key'[r][1] = "authreq"
        PROVE  key'[r][2] \in Req /\ pc'[key'[r][2]] = "parked"
    <2>1. CASE pc[r] = "new"
      BY <1>1, <2>1, ParkedStays
    <2>2. CASE pc[r] # "new"
      <3>1. key'[r] = key[r]
        BY <2>2, FoundStays
      <3>2. key[r][2] \in Req /\ pc[key[r][2]] = "parked"
        BY <1>1, <2>2, <3>1 DEF Provenance
      <3> QED
        BY <3>1, <3>2, ParkedStays
    <2> QED
      BY <2>1, <2>2
  <1>2. ASSUME NEW k \in Key, store'[k] \in Grant
        PROVE  IF k[1] = "authreq" THEN store'[k].client = key'[k[2]][2]
               ELSE <<store'[k].client, store'[k].user>> \in Consented'
    <2>1. IF k[1] = "authreq" THEN store'[k].client = key[k[2]][2] /\ pc[k[2]] \in {"park", "parked"}
          ELSE <<store'[k].client, store'[k].user>> \in Consented
      <3>1. CASE store'[k] # store[k]
        BY <1>2, <3>1, StoredProvenance
      <3>2. CASE store'[k] = store[k]
        <4>1. k = <<k[1], k[2]>> /\ k[2] \in Req
          BY KeyPairs
        <4>2. ASSUME k[1] = "authreq" PROVE pc[k[2]] = "parked"
          <5>1. k = <<"authreq", k[2]>>
            BY <4>1, <4>2
          <5>2. store[<<"authreq", k[2]>>] # Absent
            BY <1>2, <3>2, <5>1, NoGrants
          <5> QED
            BY <4>1, <5>2 DEF IInv, Issued
        <4> QED
          BY <1>2, <3>2, <4>2 DEF Provenance
      <3> QED
        BY <3>1, <3>2
    <2>2. CASE k[1] = "authreq"
      <3>1. k[2] \in Req /\ pc[k[2]] # "new"
        BY <2>1, <2>2, KeyPairs
      <3>2. key'[k[2]] = key[k[2]]
        BY <3>1, FoundStays
      <3> QED
        BY <2>1, <2>2, <3>2
    <2>3. CASE k[1] # "authreq"
      BY <2>1, <2>3, ConsentedGrows
    <2> QED
      BY <2>2, <2>3
  <1>3. ASSUME NEW r \in Req, found'[r] \in Grant, key'[r][1] = "authreq"
        PROVE  found'[r].client = ClientOf(r)'
    <2>1. CASE found'[r] = found[r]
      <3>1. pc[r] # "new" /\ key'[r] = key[r]
        BY <1>3, <2>1, FoundStays
      <3>2. ClientOf(r)' = ClientOf(r)
        BY <1>3, <3>1, ClientStays
      <3> QED
        BY <1>3, <2>1, <3>1, <3>2 DEF Provenance
    <2>2. CASE found'[r] # found[r]
      <3>1. /\ found'[r] = store[key[r]] /\ key'[r] = key[r] /\ key[r] \in Key /\ pc[r] # "new"
        BY <2>2, FoundIs
      <3>2. ClientOf(r)' = ClientOf(r)
        BY <1>3, <3>1, ClientStays
      <3>3. found'[r].client = key[key[r][2]][2]
        BY <1>3, <3>1 DEF Provenance
      <3> QED
        BY <1>3, <3>1, <3>2, <3>3 DEF ClientOf
    <2> QED
      BY <2>1, <2>2
  <1>4. ASSUME NEW r \in Req, found'[r] \in Grant, key'[r][1] \in {"code", "mcprt"}
        PROVE  <<found'[r].client, found'[r].user>> \in Consented'
    <2>1. <<found'[r].client, found'[r].user>> \in Consented
      <3>1. CASE found'[r] = found[r]
        <4>1. key'[r] = key[r]
          BY <1>4, <3>1, FoundStays
        <4> QED
          BY <1>4, <3>1, <4>1 DEF Provenance
      <3>2. CASE found'[r] # found[r]
        <4>1. found'[r] = store[key[r]] /\ key'[r] = key[r] /\ key[r] \in Key
          BY <3>2, FoundIs
        <4> QED
          BY <1>4, <4>1 DEF Provenance
      <3> QED
        BY <3>1, <3>2
    <2> QED
      BY <2>1, ConsentedGrows
  <1>5. ASSUME NEW r \in Req, pc'[r] \in {"access", "refresh"}
        PROVE  user'[r] = found'[r].user
    <2>1. found'[r] = found[r]
      BY <1>5, FoundIs
    <2>2. \/ pc[r] \in {"access", "refresh"} /\ user'[r] = user[r]
          \/ pc[r] = "drop" /\ user'[r] = found[r].user
      BY <1>5, ParkedStays
    <2> QED
      BY <2>1, <2>2 DEF Provenance
  <1> QED
    BY <1>1, <1>2, <1>3, <1>4, <1>5 DEF Provenance

\* A step by which nobody signs in, is given a token or begins a call.
LEMMA Vanishes ==
  ASSUME IInv, Provenance, [Next]_vars,
         \A r \in Req : ~(pc[r] = "session" /\ CheckSession(r)) /\ ~(\E u \in User : Profile(r, u)),
         \A r \in Req : store'[<<"mcptok", r>>] \in Grant => store'[<<"mcptok", r>>] = store[<<"mcptok", r>>],
         \A r \in Req : pc'[r] = "tool" => pc[r] = "tool"
  PROVE  D!Vanish
  <1>1. Consented' = Consented
    BY ConsentedStays
  <1>2. Valid' \in SUBSET Valid
    BY DEF Valid, Live
  <1>3. \A r \in Req : pc[r] = "tool" => user'[r] = user[r] /\ found'[r] = found[r]
    BY UserStays, FoundIs DEF IInv, KeyAt
  <1>4. Acting' \in SUBSET Acting
    BY <1>3 DEF Acting
  <1> QED
    BY <1>1, <1>2, <1>4 DEF D!Vanish

\* Somebody signs in.
LEMMA SignsIn ==
  ASSUME IInv, Provenance, [Next]_vars, NEW r \in Req, NEW u \in User,
         pc[r] \in {"session", "profile"}, user' = [user EXCEPT ![r] = u],
         pc'[r] \in {"issue", "match"}, \A s \in Req : s # r => pc'[s] = pc[s],
         UNCHANGED <<store, key, found>>
  PROVE  \E p \in D!Pairs : D!Consent(p)
  <1>0. TypeOK
    BY DEF IInv
  <1>1. key[r] # <<>> /\ key[r][1] \in {"mcpclient", "authreq"} /\ ClientOf(r) \in Client
    <2>1. CASE pc[r] = "session"
      BY <2>1, KeyPairs DEF IInv, KeyAt, ClientOf
    <2>2. CASE pc[r] = "profile"
      <3>1. key[r] # <<>> /\ key[r][1] = "authreq"
        BY <2>2 DEF IInv, KeyAt
      <3>2. key[r][2] \in Req /\ pc[key[r][2]] = "parked"
        BY <2>2, <3>1 DEF Provenance
      <3>3. key[key[r][2]][2] \in Client
        BY <3>2, KeyPairs DEF IInv, KeyAt
      <3> QED
        BY <3>1, <3>3 DEF ClientOf
    <2> QED
      BY <2>1, <2>2
  <1> DEFINE x == <<ClientOf(r), u>>
  <1>2. x \in D!Pairs
    BY <1>1 DEF D!Pairs
  <1>3. key' = key /\ user'[r] = u /\ \A s \in Req : s # r => user'[s] = user[s]
    BY <1>0 DEF TypeOK
  <1>4. \A s \in Req : ClientOf(s)' = ClientOf(s)
    BY <1>3 DEF ClientOf
  <1>5. user[r] \notin User
    BY StoreAssumption DEF IInv, KnownAt
  <1>6. \A y : (\E s \in Req : Consents(s, y)') <=> y = x \/ \E s \in Req : Consents(s, y)
    BY <1>1, <1>3, <1>4, <1>5 DEF Consents
  <1>7. \A y : y \in Consented' <=> \E s \in Req : Consents(s, y)'
    BY DEF Consented, Consents, ClientOf
  <1>8. Consented' = Consented \cup {x}
    BY <1>6, <1>7, ConsentedIs
  <1>9. Valid' = Valid
    BY DEF Valid, Live
  <1>10. Acting' = Acting
    <2>1. {q \in Req : pc'[q] = "tool"} = {q \in Req : pc[q] = "tool"}
      OBVIOUS
    <2>2. \A q \in Req : pc[q] = "tool" => user'[q] = user[q] /\ found'[q] = found[q]
      BY <1>3
    <2> QED
      BY <2>1, <2>2 DEF Acting
  <1> QED
    BY <1>2, <1>8, <1>9, <1>10 DEF D!Consent

\* A client is given an access token.
LEMMA IsGivenToken ==
  ASSUME IInv, Provenance, [Next]_vars, NEW r \in Req, IssueAccess(r)
  PROVE  \E p \in D!Pairs : D!Issue(p)
  <1>0. TypeOK
    BY DEF IInv
  <1> DEFINE x == <<Carried(r).client, Carried(r).user>>
  <1>1. pc[r] = "access" /\ pc'[r] = "refresh" /\ (\A s \in Req : s # r => pc'[s] = pc[s])
        /\ UNCHANGED <<key, user, found>>
    BY <1>0 DEF IssueAccess, Goto, TypeOK
  <1>2. Carried(r) \in Grant /\ Carried(r).user \in User /\ x \in Consented
    BY <1>1, CarriedType, CarriedConsented
  <1>3. x \in D!Pairs
    BY <1>2 DEF D!Pairs, Grant
  <1>4. \A s \in Req : store'[<<"mcptok", s>>] = IF s = r THEN Carried(r) ELSE store[<<"mcptok", s>>]
    BY <1>0, KeyPairs DEF IssueAccess, Put, TypeOK
  <1>5. store[<<"mcptok", r>>] \notin Grant
    BY <1>1, NoGrants DEF IInv, Issued
  <1>6. Valid' = Valid \cup {x}
    <2>1. \A y : y \in Valid <=> \E s \in Req :
             /\ store[<<"mcptok", s>>] \in Grant
             /\ y = <<store[<<"mcptok", s>>].client, store[<<"mcptok", s>>].user>>
      BY DEF Valid, Live
    <2>2. \A y : y \in Valid' <=> \E s \in Req :
             /\ store'[<<"mcptok", s>>] \in Grant
             /\ y = <<store'[<<"mcptok", s>>].client, store'[<<"mcptok", s>>].user>>
      BY DEF Valid, Live
    <2>3. x \in Valid'
      BY <1>2, <1>4, <2>2
    <2>4. ASSUME NEW y \in Valid PROVE y \in Valid'
      <3>1. PICK s \in Req : /\ store[<<"mcptok", s>>] \in Grant
                           /\ y = <<store[<<"mcptok", s>>].client, store[<<"mcptok", s>>].user>>
        BY <2>1
      <3>2. store'[<<"mcptok", s>>] = store[<<"mcptok", s>>]
        BY <1>4, <1>5, <3>1
      <3> QED
        BY <2>2, <3>1, <3>2
    <2>5. ASSUME NEW y \in Valid', y # x PROVE y \in Valid
      <3>1. PICK s \in Req : /\ store'[<<"mcptok", s>>] \in Grant
                           /\ y = <<store'[<<"mcptok", s>>].client, store'[<<"mcptok", s>>].user>>
        BY <2>2
      <3>2. store'[<<"mcptok", s>>] = store[<<"mcptok", s>>]
        BY <1>4, <2>5, <3>1
      <3> QED
        BY <2>1, <3>1, <3>2
    <2> QED
      BY <2>3, <2>4, <2>5
  <1>7. Consented' = Consented
    BY <1>1 DEF Consented
  <1>8. Acting' = Acting
    <2>1. {q \in Req : pc'[q] = "tool"} = {q \in Req : pc[q] = "tool"}
      BY <1>1
    <2> QED
      BY <1>1, <2>1 DEF Acting
  <1> QED
    BY <1>2, <1>3, <1>6, <1>7, <1>8 DEF D!Issue

\* A call is let through.
LEMMA IsLetThrough ==
  ASSUME IInv, Provenance, [Next]_vars, NEW r \in Req, ResolveAccess(r), pc'[r] = "tool"
  PROVE  \E p \in D!Pairs : D!Call(p)
  <1>0. TypeOK
    BY DEF IInv
  <1>1. pc[r] = "bearer" /\ key[r] \in Key /\ key[r] = <<"mcptok", key[r][2]>> /\ key[r][2] \in Req
    BY DEF ResolveAccess, IInv, KeyAt, Key
  <1>2. Live(key[r])
    BY <1>0 DEF ResolveAccess, Goto, TypeOK
  <1> DEFINE x == <<store[key[r]].client, store[key[r]].user>>
  <1>3. x \in Valid
    BY <1>1, <1>2 DEF Valid
  <1>4. x \in D!Pairs
    <2>1. store[key[r]].user # NoUser
      BY <1>0, <1>1, <1>2 DEF TypeOK
    <2> QED
      BY <1>2, <2>1 DEF D!Pairs, Live, Grant
  <1>5. /\ found'[r] = store[key[r]] /\ user'[r] = store[key[r]].user
        /\ \A s \in Req : s # r => pc'[s] = pc[s] /\ user'[s] = user[s] /\ found'[s] = found[s]
    BY <1>0, <1>2 DEF ResolveAccess, Goto, TypeOK
  <1>6. Acting' = Acting \cup {x}
    <2>1. \A y : y \in Acting <=> \E s \in Req : pc[s] = "tool" /\ y = <<found[s].client, user[s]>>
      BY DEF Acting
    <2>2. \A y : y \in Acting' <=> \E s \in Req : pc'[s] = "tool" /\ y = <<found'[s].client, user'[s]>>
      BY DEF Acting
    <2> QED
      BY <1>1, <1>5, <2>1, <2>2
  <1>7. store' = store
    BY DEF ResolveAccess
  <1>8. Valid' = Valid
    BY <1>7 DEF Valid, Live
  <1>9. Consented' = Consented
    <2>1. \A s \in Req : ~(pc[s] = "session" /\ CheckSession(s)) /\ ~(\E u \in User : Profile(s, u))
      BY <1>0, <1>1, <1>5 DEF CheckSession, Profile, Goto, TypeOK
    <2> QED
      BY <2>1, ConsentedStays
  <1> QED
    BY <1>3, <1>4, <1>6, <1>8, <1>9 DEF D!Call

\* Only IssueAccess stores an access token.
LEMMA TokenIsNew ==
  ASSUME IInv, [Next]_vars, NEW r \in Req,
         store[<<"mcptok", r>>] = Absent, store'[<<"mcptok", r>>] \in Grant
  PROVE  IssueAccess(r)
  <1>0. TypeOK /\ <<"mcptok", r>> \in Key /\ store'[<<"mcptok", r>>] # store[<<"mcptok", r>>]
    BY KeyPairs, NoGrants DEF IInv
  <1>1. ASSUME NEW l, NEW v, Put(l, v) PROVE l = <<"mcptok", r>> /\ store'[<<"mcptok", r>>] = v
    BY <1>0, <1>1 DEF Put, TypeOK
  <1>2. ASSUME NEW s \in Req, Park(s) \/ IssueCode(s) \/ IssueRefresh(s) PROVE FALSE
    BY <1>1, <1>2 DEF Park, IssueCode, IssueRefresh
  <1>3. ASSUME NEW s \in Req, Drop(s) PROVE FALSE
    BY <1>0, <1>1, <1>3, NoGrants DEF Drop
  <1>4. ASSUME NEW l \in Key, ExpireKey(l) PROVE FALSE
    BY <1>1, <1>4, NoGrants DEF ExpireKey
  <1>5. ASSUME Crash PROVE FALSE
    BY <1>0, <1>5, NoGrants DEF Crash, TypeOK
  <1>6. ASSUME NEW s \in Req, IssueAccess(s) PROVE s = r
    BY <1>1, <1>6 DEF IssueAccess
  <1>7. store' # store
    BY <1>0
  <1>8. ~ \E s \in Req : \/ Arrive(s) \/ CheckSession(s) \/ Callback(s) \/ Match(s) \/ OpenSession(s)
                        \/ Read(s) \/ ResolveAccess(s) \/ Reset(s) \/ Fail(s) \/ \E u \in User : Profile(s, u)
    BY <1>7 DEF Arrive, Authorize, Login, Redeem, Refresh, Call, CheckSession, Callback, Match, OpenSession,
                Read, ResolveAccess, Reset, Fail, Profile
  <1>9. ~ \/ \E c \in Client : Register(c) \/ ExpireClient(c)
          \/ \E u \in User : CloseSession(u)
          \/ UNCHANGED vars
    BY <1>7 DEF Register, ExpireClient, CloseSession, vars
  <1> QED
    BY <1>2, <1>3, <1>4, <1>5, <1>6, <1>8, <1>9 DEF Next, Handle

\* Only ResolveAccess begins a call.
LEMMA CallIsNew ==
  ASSUME IInv, [Next]_vars, NEW r \in Req, pc'[r] = "tool", pc[r] # "tool"
  PROVE  ResolveAccess(r)
  <1>0. TypeOK
    BY DEF IInv
  <1>1. ASSUME NEW s \in Req, NEW stage, Goto(s, stage) PROVE s = r /\ stage = "tool"
    BY <1>0, <1>1 DEF Goto, TypeOK
  <1>2. ASSUME NEW s \in Req, Arrive(s) PROVE FALSE
    BY <1>1, <1>2, ArriveStep DEF Send
  <1>3. ASSUME NEW s \in Req, \E u \in User : Profile(s, u) PROVE FALSE
    BY <1>1, <1>3 DEF Profile
  <1>4. ASSUME NEW s \in Req, CheckSession(s) \/ Park(s) \/ Callback(s) \/ Match(s) \/ OpenSession(s) \/ Read(s)
        PROVE  FALSE
    BY <1>1, <1>4 DEF CheckSession, Park, Callback, Match, OpenSession, Read
  <1>5. ASSUME NEW s \in Req, Drop(s) PROVE FALSE
    BY <1>1, <1>5 DEF Drop, Popped
  <1>6. ASSUME NEW s \in Req, IssueCode(s) \/ IssueAccess(s) \/ IssueRefresh(s) \/ Reset(s) \/ Fail(s)
        PROVE  FALSE
    BY <1>1, <1>6 DEF IssueCode, IssueAccess, IssueRefresh, Reset, Fail
  <1>7. ASSUME NEW s \in Req, ResolveAccess(s) PROVE s = r
    BY <1>1, <1>7 DEF ResolveAccess
  <1>8. ~Crash
    BY <1>0 DEF Crash, TypeOK
  <1>9. ~ \/ \E c \in Client : Register(c) \/ ExpireClient(c)
          \/ \E k \in Key : ExpireKey(k)
          \/ \E u \in User : CloseSession(u)
          \/ UNCHANGED vars
    BY DEF Register, ExpireClient, ExpireKey, CloseSession, vars
  <1> QED
    BY <1>2, <1>3, <1>4, <1>5, <1>6, <1>7, <1>8, <1>9 DEF Next, Handle

\* Every step is one of Delegation.
LEMMA StepRefines ==
  ASSUME IInv, Provenance, [Next]_vars
  PROVE  D!Next
  <1>0. TypeOK
    BY DEF IInv
  <1>1. CASE \E r \in Req, u \in User : Profile(r, u)
    <2>1. PICK r \in Req, u \in User : Profile(r, u)
      BY <1>1
    <2> QED
      BY <1>0, <2>1, SignsIn DEF Profile, Goto, TypeOK, D!Next
  <1>2. CASE \E r \in Req : CheckSession(r)
    <2>1. PICK r \in Req : CheckSession(r)
      BY <1>2
    <2>2. CASE \E u \in sessions : user' = [user EXCEPT ![r] = u] /\ Goto(r, "issue")
      BY <1>0, <2>1, <2>2, SignsIn DEF CheckSession, Goto, TypeOK, D!Next
    <2>3. CASE Goto(r, "park") /\ UNCHANGED user
      <3>1. Consented' = Consented
        BY <2>1, <2>3 DEF CheckSession, Consented
      <3>2. Valid' = Valid
        BY <2>1 DEF CheckSession, Valid, Live
      <3>3. Acting' = Acting
        <4>1. {q \in Req : pc'[q] = "tool"} = {q \in Req : pc[q] = "tool"}
          BY <1>0, <2>1, <2>3 DEF CheckSession, Goto, TypeOK
        <4> QED
          BY <2>1, <2>3, <4>1 DEF CheckSession, Acting
      <3> QED
        BY <3>1, <3>2, <3>3 DEF D!Next, D!Vanish
    <2> QED
      BY <2>1, <2>2, <2>3 DEF CheckSession
  <1>3. CASE \E r \in Req : IssueAccess(r)
    BY <1>3, IsGivenToken DEF D!Next
  <1>4. CASE \E r \in Req : ResolveAccess(r) /\ pc'[r] = "tool"
    BY <1>4, IsLetThrough DEF D!Next
  <1>5. CASE /\ ~ \E r \in Req, u \in User : Profile(r, u)
             /\ ~ \E r \in Req : CheckSession(r)
             /\ ~ \E r \in Req : IssueAccess(r)
             /\ ~ \E r \in Req : ResolveAccess(r) /\ pc'[r] = "tool"
    <2>1. ASSUME NEW r \in Req, store'[<<"mcptok", r>>] \in Grant
          PROVE  store'[<<"mcptok", r>>] = store[<<"mcptok", r>>]
      <3>1. <<"mcptok", r>> \in Key
        BY KeyPairs
      <3>2. CASE store[<<"mcptok", r>>] # Absent
        BY <2>1, <3>1, <3>2, StoreStep, NoGrants
      <3>3. CASE store[<<"mcptok", r>>] = Absent
        BY <1>5, <2>1, <3>1, <3>3, TokenIsNew
      <3> QED
        BY <3>2, <3>3
    <2>2. \A r \in Req : pc'[r] = "tool" => pc[r] = "tool"
      BY <1>5, CallIsNew
    <2> QED
      BY <1>5, <2>1, <2>2, Vanishes DEF D!Next
  <1> QED
    BY <1>1, <1>2, <1>3, <1>4, <1>5

-----------------------------------------------------------------------------
(* The theorems                                                            *)

\* The store and the requests keep their types: what is stored is for a user
\* unless it stands for a request that waits for one.
THEOREM TypeCorrect == Spec => []TypeOK
  <1>1. IInv => TypeOK
    BY DEF IInv
  <1> QED
    BY Inductive, <1>1, PTL

\* oauth_store._pop: whoever comes with a code, a refresh token or the key of a
\* parked request that has been honoured before is refused.
THEOREM NoReplayHolds == Spec => []NoReplay
  <1>1. Spending => NoReplay
    BY DEF Spending, NoReplay
  <1> QED
    BY SpendingInductive, <1>1, PTL

\* Of the requests that race for a key one at least has found what was under
\* it when it is gone.
THEOREM NothingLostHolds == Spec => []NothingLostInRace
  <1>1. Spending => NothingLostInRace
    BY DEF Spending, NothingLostInRace
  <1> QED
    BY SpendingInductive, <1>1, PTL

\* Refresh tokens rotate: an authorization has two only where two pops of one
\* key have overlapped.
THEOREM OneRefreshTokenHolds == Spec => []OneRefreshToken
  <1>1. IInv /\ Single => OneRefreshToken
    <2> SUFFICES ASSUME IInv, Single, NEW p \in Req, NEW q \in Req, p # q,
                        store[<<"mcprt", p>>] \in Grant, store[<<"mcprt", q>>] \in Grant,
                        store[<<"mcprt", p>>].trip = store[<<"mcprt", q>>].trip
                 PROVE  Overlapped(store[<<"mcprt", p>>].trip)
      BY DEF OneRefreshToken
    <2> DEFINE t == store[<<"mcprt", p>>].trip
    <2>1. t \in Req
      BY DEF Grant
    <2>2. <<"mcprt", p>> \in Key /\ <<"mcprt", q>> \in Key /\ <<"mcprt", p>> # <<"mcprt", q>>
      BY KeyPairs
    <2>3. Stored(<<"mcprt", p>>, t) /\ Stored(<<"mcprt", q>>, t)
      BY DEF Stored
    <2>4. ~Alone(t)
      BY <2>2, <2>3 DEF Alone
    <2> QED
      BY <2>1, <2>4 DEF Single
  <1> QED
    BY Inductive, SingleInductive, <1>1, PTL

\* A client acts for users who have signed in for it, and for no one else: the
\* server implements Delegation.
THEOREM ImplementsDelegation == Spec => DelegationSpec
  <1>1. Init => D!Init
    <2> SUFFICES ASSUME Init PROVE D!Init
      OBVIOUS
    <2>1. \A r \in Req : key[r] = <<>> /\ pc[r] # "tool" /\ store[<<"mcptok", r>>] \notin Grant
      BY KeyPairs, NoGrants DEF Init
    <2>2. Consented = {}
      BY <2>1 DEF Consented
    <2>3. Valid = {} /\ Acting = {}
      BY <2>1 DEF Valid, Acting, Live
    <2> QED
      BY <2>2, <2>3 DEF D!Init
  <1>2. Init => Provenance
    <2> SUFFICES ASSUME Init PROVE Provenance
      OBVIOUS
    <2>1. \A k \in Key : store[k] \notin Grant
      BY NoGrants DEF Init
    <2>2. \A r \in Req : found[r] \notin Grant /\ pc[r] = "new"
      BY NoGrants DEF Init
    <2> QED
      BY <2>1, <2>2 DEF Provenance
  <1>3. IInv /\ Provenance /\ [Next]_vars => Provenance'
    BY NextProvenance
  <1>4. IInv /\ Provenance /\ [Next]_vars => [D!Next]_<<Consented, Valid, Acting>>
    BY StepRefines
  <1> QED
    BY Inductive, <1>1, <1>2, <1>3, <1>4, PTL DEF Spec, DelegationSpec, D!Spec

=============================================================================
