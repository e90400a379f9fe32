------------------------------ MODULE Accounts ------------------------------
(***************************************************************************)
(* Who is who: users, the identities (provider, sub) they sign in with,    *)
(* the sign-in callbacks that look identities up, bridge and create users  *)
(* (app/routes/auth.py), the sessions and link tokens of the session store *)
(* (app/session.py, app/routes/account.py) and the merging of two users.   *)
(*                                                                         *)
(* resolve_user is up to four transactions, a link four calls to the store *)
(* and the database, a merge one transaction of several statements, each   *)
(* with a snapshot of its own: between two of these steps other callbacks, *)
(* the statements of sessions and a crash of the process can run.  A       *)
(* session is the user id it holds; those of the users from before the     *)
(* identities are still open.                                              *)
(***************************************************************************)
EXTENDS Naturals, Sequences, FiniteSets

CONSTANTS
    Req,       \* the round trips to a provider, each used once
    Identity,  \* the rows identities can have: pairs of provider and sub
    NoIdentity,
    Mail,      \* the addresses providers report
    NoMail,    \* the profile has no address
    MailOf,    \* what the provider reports in a round trip with an identity
    Legacy,    \* the addresses of the users from before migration 0005
    Token,     \* the link tokens that can be issued
    NoToken,   \* a round trip that signs in instead of linking
    Title,     \* the titles of notes
    Parallel   \* how many callbacks run at once

ASSUME IdentityAssumption ==
    /\ NoMail \notin Mail \cup Identity /\ NoToken \notin Token
    /\ NoIdentity \notin Identity
    /\ Mail \cap Identity = {}
    /\ MailOf \in [Req -> [Identity -> Mail \cup {NoMail}]]
    /\ Legacy \in Seq(Mail)
    /\ Parallel \in Nat \ {0}

VARIABLES
    users,     \* the rows of users, by id
    owner,     \* identities.user_id, 0 where there is no row
    notes,     \* the pairs of notes.user_id and notes.title
    memos,     \* the users with a row in user_memo
    sessions,  \* the users that have an open session
    tokens,    \* the user id under each link token, 0 where there is none
    issued,    \* the link tokens that have been issued
    pc,        \* where each round trip is
    link,      \* the link token each carries
    who,       \* the identity the provider reported for each
    uid,       \* the user id each works with
    merge,     \* the transaction of merge_users, if one runs
    stored,    \* history: which round trip has inserted which identity
    met,       \* history: the pairs of callbacks that have read the same before
               \* either has written
    uprooted   \* history: the callbacks whose user was merged under their hands

tables  == <<users, owner, notes, memos>>
store   == <<sessions, tokens, issued>>
history == <<stored, met, uprooted>>
vars    == <<tables, store, pc, link, who, uid, merge, history>>

-----------------------------------------------------------------------------
UserIds == 1..Len(users)

Rows == [mail : Mail \cup Identity, into : Nat]

Active(u) == users[u].into = 0

Owns(u) == {i \in Identity : owner[i] = u}

Address(r) == MailOf[r][who[r]]

\* users.email: without an address the placeholder provider:sub.
Key(r) == IF Address(r) = NoMail THEN who[r] ELSE Address(r)

\* An identity was found to be missing, or a user to have none, and is yet to be
\* inserted.
Storing  == {"bridge", "create", "attach", "link"}
Choosing == {"create", "attach"}

InServer == {"profile", "token", "drop", "check", "link",
             "lookup", "bridge", "create", "attach", "session"}

\* How it ends: signed in, linked, or with an error, a conflict or nothing at all.
Over == {"done", "linked", "refused"}

Serving == {r \in Req : pc[r] \in InServer}

MayRun == Cardinality(Serving) < Parallel

Goto(r, stage) == pc' = [pc EXCEPT ![r] = stage]

\* The callback has answered and forgets what it worked with.
Forget(r, outcome) ==
    /\ Goto(r, outcome)
    /\ who' = [who EXCEPT ![r] = NoIdentity]
    /\ uid' = [uid EXCEPT ![r] = 0]

Answer(r, outcome) == Forget(r, outcome) /\ link' = [link EXCEPT ![r] = NoToken]

\* The callbacks of W have read what r reads now, and have not written yet.
Meet(kind, r, W) == met' = met \cup ({kind} \X {r} \X W) \cup ({kind} \X W \X {r})

NoRows == [titles |-> {}, ids |-> {}, memo |-> FALSE]

\* at: the next statement; titles, ids, memo: what it has moved or deleted and not
\* committed; had: what src had when the transaction began.
NoMerge == [at |-> "none", src |-> 0, dst |-> 0, titles |-> {}, ids |-> {},
            memo |-> "left", had |-> NoRows]

Init ==
    /\ users = [u \in DOMAIN Legacy |-> [mail |-> Legacy[u], into |-> 0]]
    /\ owner = [i \in Identity |-> 0]
    /\ notes = {} /\ memos = {}
    /\ sessions = DOMAIN Legacy
    /\ tokens = [t \in Token |-> 0] /\ issued = {}
    /\ pc = [r \in Req |-> "new"]
    /\ link = [r \in Req |-> NoToken]
    /\ who = [r \in Req |-> NoIdentity]
    /\ uid = [r \in Req |-> 0]
    /\ merge = NoMerge
    /\ stored = {} /\ met = {} /\ uprooted = {}

-----------------------------------------------------------------------------
(* The round trip to the provider                                          *)

\* login: state and link token are stashed, the browser is sent away.
Login(r) ==
    /\ pc[r] = "new"
    /\ \E t \in issued \cup {NoToken} : link' = [link EXCEPT ![r] = t]
    /\ Goto(r, "away")
    /\ UNCHANGED <<tables, store, who, uid, merge, history>>

\* callback: the state is taken out of the store.
Callback(r) ==
    /\ pc[r] = "away"
    /\ MayRun
    /\ Goto(r, "profile")
    /\ UNCHANGED <<tables, store, link, who, uid, merge, history>>

\* _fetch_profile: any identity the person owns at the provider.
Profile(r) ==
    /\ pc[r] = "profile"
    /\ \E i \in Identity : who' = [who EXCEPT ![r] = i]
    /\ Goto(r, IF link[r] = NoToken THEN "lookup" ELSE "token")
    /\ UNCHANGED <<tables, store, link, uid, merge, history>>

-----------------------------------------------------------------------------
(* Signing in: resolve_user, _login_and_redirect                           *)

\* Those that have found the same identity to be missing too.
MeetStoring(r) == Meet("identity", r, {s \in Req : pc[s] \in Storing /\ who[s] = who[r]})

Lookup(r) ==
    /\ pc[r] = "lookup"
    /\ uid' = [uid EXCEPT ![r] = owner[who[r]]]
    /\ Goto(r, IF owner[who[r]] = 0 THEN "bridge" ELSE "session")
    /\ IF owner[who[r]] = 0 THEN MeetStoring(r) ELSE met' = met
    /\ UNCHANGED <<tables, store, link, who, merge, stored, uprooted>>

\* A fault for the checks: users that have an identity are bridged too.
Bridgeable_AnyMail(r) == {u \in UserIds : users[u].mail = Address(r) /\ Active(u)}

\* The users without identity that the address names.
Bridgeable(r) ==
    {u \in UserIds : users[u].mail = Address(r) /\ Active(u) /\ Owns(u) = {}}

\* One of them is taken, the query orders nothing; nobody without an address.
Bridge(r) ==
    /\ pc[r] = "bridge"
    /\ IF Bridgeable(r) = {}
       THEN Goto(r, "create") /\ uid' = uid
       ELSE Goto(r, "attach") /\ \E u \in Bridgeable(r) : uid' = [uid EXCEPT ![r] = u]
    /\ Meet("user", r, {s \in Req : pc[s] \in Choosing})
    /\ UNCHANGED <<tables, store, link, who, merge, stored, uprooted>>

\* Faults for the checks: the INSERT is not committed, its id is used; the new user
\* is used without storing the identity.
CreateUser_Uncommitted(r) ==
    /\ pc[r] = "create"
    /\ uid' = [uid EXCEPT ![r] = Len(users) + 1]
    /\ Goto(r, "attach")
    /\ UNCHANGED <<tables, store, link, who, merge, history>>

CreateUser_NoIdentity(r) ==
    /\ pc[r] = "create"
    /\ users' = Append(users, [mail |-> Key(r), into |-> 0])
    /\ uid' = [uid EXCEPT ![r] = Len(users) + 1]
    /\ Goto(r, "session")
    /\ UNCHANGED <<owner, notes, memos, store, link, who, merge, history>>

CreateUser(r) ==
    /\ pc[r] = "create"
    /\ users' = Append(users, [mail |-> Key(r), into |-> 0])
    /\ uid' = [uid EXCEPT ![r] = Len(users) + 1]
    /\ Goto(r, "attach")
    /\ UNCHANGED <<owner, notes, memos, store, link, who, merge, history>>

\* INSERT INTO identities ... ON CONFLICT DO NOTHING.
Attached(r) ==
    /\ owner' = [owner EXCEPT ![who[r]] = IF @ = 0 THEN uid[r] ELSE @]
    /\ stored' = IF owner[who[r]] = 0 THEN stored \cup {<<r, who[r]>>} ELSE stored

Attach(r) ==
    /\ pc[r] = "attach"
    /\ Attached(r)
    /\ Goto(r, "session")
    /\ UNCHANGED <<users, notes, memos, store, link, who, uid, merge, met, uprooted>>

\* create_session and the cookie (for an authorize request a code, not modelled).
OpenSession(r) ==
    /\ pc[r] = "session"
    /\ sessions' = sessions \cup {uid[r]}
    /\ Answer(r, "done")
    /\ UNCHANGED <<tables, tokens, issued, merge, history>>

-----------------------------------------------------------------------------
(* Linking: link_start, pop_link_token, _link_and_respond                  *)

IssueToken(t) ==
    /\ t \notin issued
    /\ \E u \in sessions : tokens' = [tokens EXCEPT ![t] = u]
    /\ issued' = issued \cup {t}
    /\ UNCHANGED <<tables, sessions, pc, link, who, uid, merge, history>>

\* pop_link_token reads the token ...
ReadToken(r) ==
    /\ pc[r] = "token"
    /\ uid' = [uid EXCEPT ![r] = tokens[link[r]]]
    /\ Goto(r, "drop")
    /\ Meet("token", r, {s \in Req : pc[s] = "drop" /\ link[s] = link[r]})
    /\ UNCHANGED <<tables, store, link, who, merge, stored, uprooted>>

\* A fault for the checks: the token stays in the store.
DropToken_Keeps(r) ==
    /\ pc[r] = "drop"
    /\ IF uid[r] = 0
       THEN Answer(r, "refused")
       ELSE Goto(r, "check") /\ UNCHANGED <<link, who, uid>>
    /\ UNCHANGED <<tables, store, merge, history>>

\* ... and deletes it in a second call, whatever it has read.
DropToken(r) ==
    /\ pc[r] = "drop"
    /\ tokens' = [tokens EXCEPT ![link[r]] = 0]
    /\ IF uid[r] = 0
       THEN Answer(r, "refused")
       ELSE Goto(r, "check") /\ UNCHANGED <<link, who, uid>>
    /\ UNCHANGED <<tables, sessions, issued, merge, history>>

\* An identity of somebody else is left alone: conflict.
CheckOwner(r) ==
    /\ pc[r] = "check"
    /\ IF owner[who[r]] \in {0, uid[r]}
       THEN Goto(r, "link") /\ MeetStoring(r) /\ UNCHANGED <<link, who, uid>>
       ELSE Answer(r, "refused") /\ met' = met
    /\ UNCHANGED <<tables, store, merge, stored, uprooted>>

LinkIdentity(r) ==
    /\ pc[r] = "link"
    /\ Attached(r)
    /\ Forget(r, "linked")
    /\ UNCHANGED <<users, notes, memos, store, link, merge, met, uprooted>>

-----------------------------------------------------------------------------
(* What a session writes, and the merging of two users                     *)

\* INSERT or UPDATE; it waits for a merge that has the title in hand.
WriteNote(u, t) ==
    /\ u \notin {merge.src, merge.dst} \/ t \notin merge.titles
    /\ notes' = notes \cup {<<u, t>>}
    /\ UNCHANGED <<users, owner, memos, store, pc, link, who, uid, merge, history>>

\* put_global_memo; it waits for a merge that has deleted or moved the row.
WriteMemo(u) ==
    /\ u \notin {merge.src, merge.dst} \/ merge.memo = "left"
    /\ memos' = memos \cup {u}
    /\ UNCHANGED <<users, owner, notes, store, pc, link, who, uid, merge, history>>

TitlesOf(u) == {t \in Title : <<u, t>> \in notes}

\* A fault for the checks: the memo of src is deleted whether or not dst has one.
MemoDoubled_Always(src, dst) == src \in memos

\* dst has a memo too: that of src is deleted.
MemoDoubled(src, dst) == {src, dst} \subseteq memos

\* merge_users, the DELETE.  Its caller, which the code does not have yet, names
\* two users that are active and runs one merge at a time.
BeginMerge(src, dst) ==
    /\ merge.at = "none" /\ src # dst /\ Active(src) /\ Active(dst)
    /\ merge' = [NoMerge EXCEPT !.at = "notes", !.src = src, !.dst = dst,
                    !.memo = IF MemoDoubled(src, dst) THEN "deleted" ELSE "left",
                    !.had = [titles |-> TitlesOf(src), ids |-> Owns(src),
                             memo |-> src \in memos]]
    /\ UNCHANGED <<tables, store, pc, link, who, uid, history>>

\* UPDATE notes: a title that dst has too fails, and the merge is rolled back.
MoveNotes ==
    /\ merge.at = "notes"
    /\ TitlesOf(merge.src) \cap TitlesOf(merge.dst) = {}
    /\ merge' = [merge EXCEPT !.at = "identities", !.titles = TitlesOf(merge.src)]
    /\ UNCHANGED <<tables, store, pc, link, who, uid, history>>

MoveIdentities ==
    /\ merge.at = "identities"
    /\ merge' = [merge EXCEPT !.at = "memo", !.ids = Owns(merge.src)]
    /\ UNCHANGED <<tables, store, pc, link, who, uid, history>>

\* UPDATE user_memo: a memo that dst has got since the DELETE makes it fail.
MoveMemo ==
    /\ merge.at = "memo"
    /\ LET moves == merge.memo = "left" /\ merge.src \in memos
       IN  /\ moves => merge.dst \notin memos
           /\ merge' = [merge EXCEPT !.at = "commit", !.memo = IF moves THEN "moved" ELSE @]
    /\ UNCHANGED <<tables, store, pc, link, who, uid, history>>

\* A fault for the checks: the tombstone is put on the wrong user.
Tombstone_Swapped == [users EXCEPT ![merge.dst].into = merge.src]

Tombstone == [users EXCEPT ![merge.src].into = merge.dst]

\* The tombstone and the COMMIT: what the statements have moved is seen to be moved,
\* a row inserted for src behind them stays.
CommitMerge ==
    /\ merge.at = "commit"
    /\ users' = Tombstone
    /\ owner' = [i \in Identity |-> IF i \in merge.ids THEN merge.dst ELSE owner[i]]
    /\ notes' = (notes \ ({merge.src} \X merge.titles)) \cup ({merge.dst} \X merge.titles)
    /\ memos' = CASE merge.memo = "moved" -> (memos \ {merge.src}) \cup {merge.dst}
                  [] merge.memo = "deleted" -> memos \ {merge.src}
                  [] OTHER -> memos
    /\ uprooted' = uprooted \cup {r \in Serving : uid[r] = merge.src}
    /\ merge' = NoMerge
    /\ UNCHANGED <<store, pc, link, who, uid, stored, met>>

\* A statement fails, or the connection does: all of it is undone.
AbortMerge ==
    /\ merge.at # "none"
    /\ merge' = NoMerge
    /\ UNCHANGED <<tables, store, pc, link, who, uid, history>>

-----------------------------------------------------------------------------
(* Ends: failures, expiry, logout, crash                                   *)

\* The provider, the store or the database fails: an error answers.
Fail(r) ==
    /\ pc[r] \in InServer
    /\ Answer(r, "refused")
    /\ UNCHANGED <<tables, store, merge, history>>

\* A key of the store reaches its TTL, or the user logs out.
ExpireState(r) ==
    /\ pc[r] = "away"
    /\ Answer(r, "refused")
    /\ UNCHANGED <<tables, store, merge, history>>

\* The last session of the user.
CloseSession(u) ==
    /\ sessions' = sessions \ {u}
    /\ UNCHANGED <<tables, tokens, issued, pc, link, who, uid, merge, history>>

ExpireToken(t) ==
    /\ tokens[t] # 0
    /\ tokens' = [tokens EXCEPT ![t] = 0]
    /\ UNCHANGED <<tables, sessions, issued, pc, link, who, uid, merge, history>>

\* The process stops and starts: callbacks and a merge that has not committed are
\* gone, tables and store stay.
Crash ==
    /\ Serving # {} \/ merge # NoMerge
    /\ merge' = NoMerge
    /\ pc' = [r \in Req |-> IF r \in Serving THEN "refused" ELSE pc[r]]
    /\ link' = [r \in Req |-> IF r \in Serving THEN NoToken ELSE link[r]]
    /\ who' = [r \in Req |-> IF r \in Serving THEN NoIdentity ELSE who[r]]
    /\ uid' = [r \in Req |-> IF r \in Serving THEN 0 ELSE uid[r]]
    /\ UNCHANGED <<tables, store, history>>

Serve(r) ==
    \/ Profile(r)
    \/ Lookup(r) \/ Bridge(r) \/ CreateUser(r) \/ Attach(r) \/ OpenSession(r)
    \/ ReadToken(r) \/ DropToken(r) \/ CheckOwner(r) \/ LinkIdentity(r)
    \/ Fail(r)

Next ==
    \/ \E r \in Req : Login(r) \/ Callback(r) \/ Serve(r)
    \/ \E r \in Req : ExpireState(r)
    \/ \E t \in Token : IssueToken(t) \/ ExpireToken(t)
    \/ \E u \in sessions : CloseSession(u) \/ WriteMemo(u) \/ \E t \in Title : WriteNote(u, t)
    \/ \E src, dst \in UserIds : BeginMerge(src, dst)
    \/ MoveNotes \/ MoveIdentities \/ MoveMemo \/ CommitMerge \/ AbortMerge
    \/ Crash

Spec == Init /\ [][Next]_vars

-----------------------------------------------------------------------------
(* Properties                                                              *)

\* Past the profile the identity is known, a token is at hand where it is read, and
\* a user where one is stored or answered with.
StageData ==
    \A r \in Req : /\ pc[r] \in InServer => pc[r] = "profile" \/ who[r] \in Identity
                   /\ pc[r] \in {"token", "drop"} => link[r] # NoToken
                   /\ pc[r] \in {"check", "link", "attach", "session"} => uid[r] # 0

\* What a merge has in hand, nothing without one.
MergeData ==
    /\ merge \in [at : {"none", "notes", "identities", "memo", "commit"},
                 src : {0} \cup UserIds, dst : {0} \cup UserIds,
                 titles : SUBSET Title, ids : SUBSET Identity, memo : {"left", "moved", "deleted"},
                 had : [titles : SUBSET Title, ids : SUBSET Identity, memo : BOOLEAN]]
    /\ merge.at = "none" => merge = NoMerge
    /\ merge.at # "none" => 0 \notin {merge.src, merge.dst}

\* Every variable has its type: ids name rows, keys name what was issued.
TypeOK ==
    /\ users \in Seq(Rows) /\ \A u \in UserIds : users[u].into \in {0} \cup UserIds
    /\ owner \in [Identity -> {0} \cup UserIds]
    /\ notes \subseteq UserIds \X Title /\ memos \subseteq UserIds
    /\ sessions \subseteq UserIds
    /\ tokens \in [Token -> {0} \cup UserIds] /\ issued \subseteq Token
    /\ pc \in [Req -> {"new", "away"} \cup InServer \cup Over]
    /\ link \in [Req -> issued \cup {NoToken}]
    /\ who \in [Req -> Identity \cup {NoIdentity}]
    /\ uid \in [Req -> {0} \cup UserIds]
    /\ stored \subseteq Req \X Identity
    /\ met \subseteq {"identity", "user", "token"} \X Req \X Req
    /\ uprooted \subseteq Req
    /\ MergeData /\ StageData

\* Whoever is told to be signed in as a user, or that an identity was linked to
\* a user, finds that user again by signing in with this identity
\* (resolve_user, _link_and_respond).
AnswersOwner ==
    [][\A r \in Req : pc[r] # pc'[r] /\ pc'[r] \in {"done", "linked"}
           => owner'[who[r]] = uid[r]]_vars

Raced(kind, r) == \E s \in Req : <<kind, r, s>> \in met

\* The answer of a sign-in or a link names another user than the owner of the
\* identity only if another callback had found the same identity missing before
\* either stored it, or the user was merged meanwhile: a crash or failure that
\* left half a sign-in, however often, is no cause (resolve_user,
\* _link_and_respond).
AnswersOwnerUnlessRaced ==
    [][\A r \in Req : pc[r] # pc'[r] /\ pc'[r] \in {"done", "linked"}
           => \/ owner'[who[r]] = uid[r]
              \/ Raced("identity", r) \/ r \in uprooted]_vars

\* Two identities belong to one user only if one of them was linked, a user was
\* merged into it, or the sign-ins that stored them had both chosen a user before
\* either stored: an equal address never joins them otherwise, also where bridging
\* picks up the user that a crashed sign-in has left (test_no_email_autolink).
NoAutoLink ==
    \A i, j \in Identity : i # j /\ owner[i] = owner[j] /\ owner[i] # 0
        => \/ \E u \in UserIds : users[u].into = owner[i]
           \/ \E r, s \in Req : /\ <<r, i>> \in stored /\ <<s, j>> \in stored
                                /\ \/ pc[r] = "linked" \/ pc[s] = "linked"
                                   \/ <<"user", r, s>> \in met

\* An identity leaves its user only for the user this one is merged into.
OwnerKept ==
    [][\A i \in Identity : owner[i] # 0 /\ owner'[i] # owner[i]
           => users'[owner[i]].into = owner'[i]]_vars

\* Two round trips are linked by one token only if both had read it before either
\* deleted it, whatever fails or expires after it was read (pop_link_token).
TokenLinksOnce ==
    \A r, s \in Req :
        r # s /\ pc[r] = "linked" /\ pc[s] = "linked" /\ link[r] = link[s]
            => <<"token", r, s>> \in met

\* A merge loses nothing that was there when it began, whatever sessions, sign-ins
\* and links insert between its statements: what src had and what dst has is with
\* dst, and there is a memo if one of them had one.  Only what comes for src while
\* it runs can stay with the tombstone (merge_users).
MergeKeepsData ==
    [][\A src \in UserIds : Active(src) /\ users'[src].into # 0 =>
           LET dst == users'[src].into
           IN  /\ \A t \in merge.had.titles \cup TitlesOf(dst) : <<dst, t>> \in notes'
               /\ \A i \in merge.had.ids \cup Owns(dst) : owner'[i] = dst
               /\ merge.had.memo \/ dst \in memos => dst \in memos'
               /\ \A t \in TitlesOf(src) \ merge.had.titles :
                     <<src, t>> \in notes' \/ <<dst, t>> \in notes']_vars

=============================================================================
