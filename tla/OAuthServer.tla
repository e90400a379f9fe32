---------------------------- MODULE OAuthServer -----------------------------
(***************************************************************************)
(* The authorization server for MCP clients: registration, authorize, the  *)
(* login that resumes an authorize request, the token endpoint             *)
(* (app/routes/oauth.py over app/oauth_store.py) and the bearer check in   *)
(* front of /mcp (app/mcp_server.py).                                      *)
(*                                                                         *)
(* Every call of the store is a step: a one-time key is read and deleted   *)
(* in two, and an access token and its refresh token are stored in two.    *)
(* Between them other requests run, keys expire and the process may stop;  *)
(* with the MemoryStore a stop loses every key.                            *)
(***************************************************************************)
EXTENDS Naturals, FiniteSets

CONSTANTS
    Requests, \* how many HTTP requests are sent
    Parallel, \* how many of them are served at once
    Mishaps,  \* how many failures, expiries and restarts happen
    Client, \* the client ids that registration can hand out
    User, NoUser,
    Absent, \* a key that was never stored
    Taken,  \* a key that was deleted by a pop
    Gone    \* a key that has expired or was lost with the MemoryStore

VARIABLES
    backend,  \* what start-up found: Redis or the MemoryStore
    clients,  \* mcpclient: what has become of each client id
    sessions, \* sess: the users with a browser session
    store,    \* authreq, code, mcptok and mcprt: the value under each key
    pc,       \* where each request is
    key,      \* the key each request was sent with
    user,     \* the user each request has established
    found,    \* what each request has read under its key
    mishaps,  \* how many failures, expiries and restarts have happened
    late      \* the requests sent after their key had been honoured (history)

Req == 1..Requests \* in the order in which they are sent

vars == <<backend, clients, sessions, store, pc, key, user, found, late, mishaps>>

-----------------------------------------------------------------------------
\* A stored record. trip is the authorize request it descends from: the code
\* challenge in the records that have one, history in the tokens.
Grant == [client : Client, user : User \cup {NoUser}, trip : Req]

NoGrant == {Absent, Taken, Gone}

ASSUME StoreAssumption ==
    /\ Requests \in Nat /\ Parallel \in Nat \ {0} /\ Mishaps \in Nat
    /\ NoUser \notin User
    /\ NoGrant \cap Grant = {}
    /\ Absent # Taken /\ Absent # Gone /\ Taken # Gone

Key == {"authreq", "code", "mcptok", "mcprt"} \X Req

\* An authorize request is sent with a client id, any other with a key.
Keys == Key \cup ({"mcpclient"} \X Client) \cup {<<>>}

Live(k) == store[k] \in Grant

Waiting == {"session", "park", "profile", "match", "plain", "read", "drop",
            "issue", "access", "refresh", "bearer", "tool"}

Over == {"refused", "failed", "parked", "redirected", "signedin", "answered", "done"}

\* The stages behind a successful pop.
Honoured == {"issue", "redirected", "access", "refresh", "answered"}

Spent(k) == k \in Key /\ \E p \in Req : key[p] = k /\ pc[p] \in Honoured

Goto(r, stage) == pc' = [pc EXCEPT ![r] = stage]

Put(k, v) == store' = [store EXCEPT ![k] = v]

Mishap == mishaps < Mishaps /\ mishaps' = mishaps + 1

MayRun == Cardinality({r \in Req : pc[r] \in Waiting}) < Parallel

\* A request arrives with a key.
Send(r, k, stage) ==
    /\ MayRun
    /\ pc[r] = "new" /\ \A q \in 1..(r - 1) : pc[q] # "new"
    /\ Goto(r, stage)
    /\ key' = [key EXCEPT ![r] = k]
    /\ late' = IF Spent(k) THEN late \cup {r} ELSE late

Init ==
    /\ backend \in {"redis", "memory"}
    /\ clients = [c \in Client |-> "never"]
    /\ sessions \in SUBSET User
    /\ store = [k \in Key |-> Absent]
    /\ pc = [r \in Req |-> "new"]
    /\ key = [r \in Req |-> <<>>]
    /\ user = [r \in Req |-> NoUser]
    /\ found = [r \in Req |-> Absent]
    /\ late = {} /\ mishaps = 0

-----------------------------------------------------------------------------
(* Registration and authorize                                              *)

Register(c) ==
    /\ clients[c] = "never"
    /\ clients' = [clients EXCEPT ![c] = "live"]
    /\ UNCHANGED <<backend, sessions, store, pc, key, user, found, late, mishaps>>

\* authorize: the client is looked up; an unknown one, a redirect_uri or a
\* response_type that does not fit and a missing challenge end the request.
Authorize(r, c) ==
    /\ \/ clients[c] = "live" /\ Send(r, <<"mcpclient", c>>, "session")
       \/ Send(r, <<"mcpclient", c>>, "refused")
    /\ UNCHANGED <<backend, clients, sessions, store, user, found, mishaps>>

\* A browser with a session is given a code at once.
CheckSession(r) ==
    /\ pc[r] = "session"
    /\ \/ Goto(r, "park") /\ UNCHANGED user
       \/ \E u \in sessions :
             user' = [user EXCEPT ![r] = u] /\ Goto(r, "issue")
    /\ UNCHANGED <<backend, clients, sessions, store, key, found, late, mishaps>>

\* save_authreq: the request waits for the login the browser is sent to.
Park(r) ==
    /\ pc[r] = "park"
    /\ Put(<<"authreq", r>>, [client |-> key[r][2], user |-> NoUser, trip |-> r])
    /\ Goto(r, "parked")
    /\ UNCHANGED <<backend, clients, sessions, key, user, found, late, mishaps>>

-----------------------------------------------------------------------------
(* The login that resumes it                                               *)

\* login with an authreq: both states are stashed, the browser goes away.
Login(r, a) ==
    /\ pc[a] = "parked"
    /\ Send(r, <<"authreq", a>>, "away")
    /\ UNCHANGED <<backend, clients, sessions, store, user, found, mishaps>>

\* A fault: nobody asks the provider who signs in.
Callback_SkipsProfile(r) ==
    /\ pc[r] = "away" /\ MayRun
    /\ \/ Goto(r, "match")
       \/ backend = "redis" /\ Goto(r, "refused")
    /\ UNCHANGED <<backend, clients, sessions, store, key, user, found, late, mishaps>>

\* callback: the state is taken, unless it has expired.
Callback(r) ==
    /\ pc[r] = "away" /\ MayRun
    /\ \/ Goto(r, "profile")
       \/ backend = "redis" /\ Goto(r, "refused")
    /\ UNCHANGED <<backend, clients, sessions, store, key, user, found, late, mishaps>>

\* _fetch_profile and resolve_user: who signs in.
Profile(r, u) ==
    /\ pc[r] = "profile"
    /\ user' = [user EXCEPT ![r] = u]
    /\ Goto(r, "match")
    /\ UNCHANGED <<backend, clients, sessions, store, key, found, late, mishaps>>

\* pop_authreq_state: if it has expired meanwhile this is an ordinary login.
Match(r) ==
    /\ pc[r] = "match"
    /\ \/ Goto(r, "read")
       \/ backend = "redis" /\ Goto(r, "plain")
    /\ UNCHANGED <<backend, clients, sessions, store, key, user, found, late, mishaps>>

OpenSession(r) ==
    /\ pc[r] = "plain"
    /\ sessions' = sessions \cup {user[r]}
    /\ Goto(r, "signedin")
    /\ UNCHANGED <<backend, clients, store, key, user, found, late, mishaps>>

-----------------------------------------------------------------------------
(* The token endpoint                                                      *)

\* A client sends a code it was redirected with, more than once if it likes.
Redeem(r, a) ==
    /\ pc[a] = "redirected"
    /\ Send(r, <<"code", a>>, "read")
    /\ UNCHANGED <<backend, clients, sessions, store, user, found, mishaps>>

\* A client sends a refresh token it was answered with.
Refresh(r, a) ==
    /\ pc[a] = "answered"
    /\ Send(r, <<"mcprt", a>>, "read")
    /\ UNCHANGED <<backend, clients, sessions, store, user, found, mishaps>>

\* A fault: the key is deleted first.
Read_DeletesFirst(r) ==
    /\ pc[r] = "read"
    /\ IF Live(key[r]) THEN Put(key[r], Taken) ELSE UNCHANGED store
    /\ found' = [found EXCEPT ![r] = IF Live(key[r]) THEN Taken ELSE store[key[r]]]
    /\ Goto(r, "drop")
    /\ UNCHANGED <<backend, clients, sessions, key, user, late, mishaps>>

\* _pop, first half.
Read(r) ==
    /\ pc[r] = "read"
    /\ found' = [found EXCEPT ![r] = store[key[r]]]
    /\ Goto(r, "drop")
    /\ UNCHANGED <<backend, clients, sessions, store, key, user, late, mishaps>>

\* What follows a pop: resume_authorize makes a code of an authreq, the token
\* endpoint refuses what does not fit the code or the refresh token.
Popped(r) ==
    IF key[r][1] = "authreq"
    THEN Goto(r, "issue") /\ UNCHANGED user
    ELSE \/ Goto(r, "refused") /\ UNCHANGED user
         \/ Goto(r, "access") /\ user' = [user EXCEPT ![r] = found[r].user]

\* Faults: nothing is deleted, or no refresh token is.
Drop_Keeps(r) ==
    /\ pc[r] = "drop"
    /\ IF found[r] \in Grant THEN Popped(r) ELSE Goto(r, "refused") /\ UNCHANGED user
    /\ UNCHANGED <<backend, clients, sessions, store, key, found, late, mishaps>>

Drop_KeepsRefresh(r) ==
    /\ pc[r] = "drop"
    /\ IF Live(key[r]) /\ key[r][1] # "mcprt" THEN Put(key[r], Taken) ELSE UNCHANGED store
    /\ IF found[r] \in Grant THEN Popped(r) ELSE Goto(r, "refused") /\ UNCHANGED user
    /\ UNCHANGED <<backend, clients, sessions, key, found, late, mishaps>>

\* _pop, second half, and the checks of what was popped.
Drop(r) ==
    /\ pc[r] = "drop"
    /\ IF Live(key[r]) THEN Put(key[r], Taken) ELSE UNCHANGED store
    /\ IF found[r] \in Grant THEN Popped(r) ELSE Goto(r, "refused") /\ UNCHANGED user
    /\ UNCHANGED <<backend, clients, sessions, key, found, late, mishaps>>

\* A fault: a resumed request is for the user of some session, not for the one
\* who has signed in.
Carried_SessionUser(r) ==
    IF key[r][1] = "mcpclient"
    THEN [client |-> key[r][2], user |-> user[r], trip |-> r]
    ELSE [client |-> found[r].client, trip |-> found[r].trip,
          user |-> IF key[r][1] = "authreq" /\ sessions # {}
                   THEN CHOOSE u \in sessions : TRUE ELSE user[r]]

\* The record that a request passes on.
Carried(r) ==
    IF key[r][1] = "mcpclient"
    THEN [client |-> key[r][2], user |-> user[r], trip |-> r]
    ELSE [client |-> found[r].client, user |-> user[r], trip |-> found[r].trip]

IssueCode(r) ==
    /\ pc[r] = "issue"
    /\ Put(<<"code", r>>, Carried(r))
    /\ Goto(r, "redirected")
    /\ UNCHANGED <<backend, clients, sessions, key, user, found, late, mishaps>>

IssueAccess(r) ==
    /\ pc[r] = "access"
    /\ Put(<<"mcptok", r>>, Carried(r))
    /\ Goto(r, "refresh")
    /\ UNCHANGED <<backend, clients, sessions, key, user, found, late, mishaps>>

IssueRefresh(r) ==
    /\ pc[r] = "refresh"
    /\ Put(<<"mcprt", r>>, Carried(r))
    /\ Goto(r, "answered")
    /\ UNCHANGED <<backend, clients, sessions, key, user, found, late, mishaps>>

-----------------------------------------------------------------------------
(* Calls of /mcp                                                           *)

\* A client sends an access token it was answered with.
Call(r, a) ==
    /\ pc[a] = "answered"
    /\ Send(r, <<"mcptok", a>>, "bearer")
    /\ UNCHANGED <<backend, clients, sessions, store, user, found, mishaps>>

\* McpAuthMiddleware: 401, or the context variables are set for this task.
ResolveAccess(r) ==
    /\ pc[r] = "bearer"
    /\ found' = [found EXCEPT ![r] = store[key[r]]]
    /\ IF Live(key[r])
       THEN Goto(r, "tool") /\ user' = [user EXCEPT ![r] = store[key[r]].user]
       ELSE Goto(r, "refused") /\ UNCHANGED user
    /\ UNCHANGED <<backend, clients, sessions, store, key, late, mishaps>>

\* The tool has answered; the context variables are reset.
Reset(r) ==
    /\ pc[r] = "tool"
    /\ Goto(r, "done")
    /\ UNCHANGED <<backend, clients, sessions, store, key, user, found, late, mishaps>>

-----------------------------------------------------------------------------
(* Failures and time                                                       *)

\* The store, the provider or a tool raises: the request ends with a 5xx.
Fail(r) ==
    /\ Mishap
    /\ pc[r] \in Waiting
    /\ Goto(r, "failed")
    /\ UNCHANGED <<backend, clients, sessions, store, key, user, found, late>>

ExpireClient(c) ==
    /\ Mishap
    /\ backend = "redis" /\ clients[c] = "live"
    /\ clients' = [clients EXCEPT ![c] = "gone"]
    /\ UNCHANGED <<backend, sessions, store, pc, key, user, found, late>>

ExpireKey(k) ==
    /\ Mishap
    /\ backend = "redis" /\ Live(k)
    /\ Put(k, Gone)
    /\ UNCHANGED <<backend, clients, sessions, pc, key, user, found, late>>

\* Logout or expiry.
CloseSession(u) ==
    /\ Mishap
    /\ u \in sessions
    /\ sessions' = sessions \ {u}
    /\ UNCHANGED <<backend, clients, store, pc, key, user, found, late>>

\* A restart: requests are lost, and with the MemoryStore everything in it,
\* the states of the browsers that are away included.
Crash ==
    /\ Mishap
    /\ pc' = [r \in Req |->
                IF pc[r] \in Waiting THEN "failed"
                ELSE IF pc[r] = "away" /\ backend = "memory" THEN "refused"
                ELSE pc[r]]
    /\ IF backend = "redis" THEN UNCHANGED <<clients, sessions, store>>
       ELSE /\ clients' = [c \in Client |-> IF clients[c] = "live" THEN "gone" ELSE clients[c]]
            /\ sessions' = {}
            /\ store' = [k \in Key |-> IF Live(k) THEN Gone ELSE store[k]]
    /\ UNCHANGED <<backend, key, user, found, late>>

Handle(r) ==
    \/ CheckSession(r) \/ Park(r)
    \/ Callback(r) \/ (\E u \in User : Profile(r, u)) \/ Match(r) \/ OpenSession(r)
    \/ Read(r) \/ Drop(r) \/ IssueCode(r) \/ IssueAccess(r) \/ IssueRefresh(r)
    \/ ResolveAccess(r) \/ Reset(r) \/ Fail(r)

Arrive(r) ==
    \/ \E c \in Client : Authorize(r, c)
    \/ \E a \in Req : Login(r, a) \/ Redeem(r, a) \/ Refresh(r, a) \/ Call(r, a)

Next ==
    \/ \E r \in Req : Arrive(r) \/ Handle(r)
    \/ \E c \in Client : Register(c) \/ ExpireClient(c)
    \/ \E k \in Key : ExpireKey(k)
    \/ \E u \in User : CloseSession(u)
    \/ Crash

Spec == Init /\ [][Next]_vars

-----------------------------------------------------------------------------
(* Properties                                                              *)

\* Types of the store and of the requests; a key is for a user unless it stands
\* for a request that waits for one.
TypeOK ==
    /\ backend \in {"redis", "memory"}
    /\ clients \in [Client -> {"never", "live", "gone"}]
    /\ sessions \in SUBSET User
    /\ store \in [Key -> Grant \cup NoGrant]
    /\ pc \in [Req -> {"new", "away"} \cup Waiting \cup Over]
    /\ key \in [Req -> Keys]
    /\ user \in [Req -> User \cup {NoUser}]
    /\ found \in [Req -> Grant \cup NoGrant]
    /\ late \in SUBSET Req
    /\ mishaps \in 0..Mishaps
    /\ \A k \in Key : Live(k) => (store[k].user = NoUser <=> k[1] = "authreq")

\* Codes, refresh tokens and parked requests are for one use: whoever comes
\* with a key that has been honoured before is refused, whatever runs between
\* the two halves of a pop.
NoReplay == \A r \in late : pc[r] \notin Honoured

\* Two requests have read the same key of this authorization before either
\* deleted it.
Overlapped(t) ==
    \E p, q \in Req :
        /\ p # q /\ key[p] = key[q]
        /\ {found[p], found[q]} \subseteq Grant
        /\ found[p].trip = t

\* Refresh tokens rotate: the old one is deleted before the new one is stored,
\* so an authorization has one at most, and two only where pops have overlapped.
OneRefreshToken ==
    \A p, q \in Req :
        LET s == store[<<"mcprt", p>>] t == store[<<"mcprt", q>>] IN
        (p # q /\ {s, t} \subseteq Grant /\ s.trip = t.trip) => Overlapped(s.trip)

\* Of the requests that race for a key one at least gets what was under it:
\* when a parked request, a code or a refresh token is used up, somebody has it.
\* Only a failure after that, or a request that does not fit, wastes it.
NothingLostInRace ==
    \A k \in Key : store[k] = Taken =>
        \E p \in Req : key[p] = k /\ found[p] \in Grant

\* A client acts for users who have signed in for it, and for no one else: see
\* Delegation.  A sign-in counts from the moment the server knows of it.
Consented ==
    {<<key[r][2], user[r]>> : r \in {q \in Req : key[q] # <<>> /\ key[q][1] = "mcpclient" /\ user[q] \in User}}
    \cup
    {<<key[key[r][2]][2], user[r]>> : r \in {q \in Req : key[q] # <<>> /\ key[q][1] = "authreq" /\ user[q] \in User}}

Valid == {<<store[<<"mcptok", r>>].client, store[<<"mcptok", r>>].user>> :
             r \in {q \in Req : Live(<<"mcptok", q>>)}}

Acting == {<<found[r].client, user[r]>> : r \in {q \in Req : pc[q] = "tool"}}

D == INSTANCE Delegation WITH consented <- Consented, live <- Valid, acting <- Acting

DelegationSpec == D!Spec

=============================================================================
