# TLA+ models of vegapunk-web

vegapunk-web is a personal assistant that answers questions from its user's notes.
One FastAPI process serves a single page client, an MCP endpoint and an OAuth server.
Its state is in PostgreSQL (psycopg 3, READ COMMITTED; every helper of `app/db.py`
is a connection and a transaction of its own) and in Redis. It calls one language
model over HTTP. Handlers are coroutines: at every `await` any other request, a
background task or a shutdown can run.

This directory models the parts where that matters, checks small instances with TLC
and proves some of the results for every instance with TLAPS.

## 1. The system

| Component | State | Operations | Talks to |
|---|---|---|---|
| Chat pipeline `app/routes/chat.py` | rows of `conversations`, `messages`, `message_citations`; one generator per open stream | `chat` (rewrite, search, answer, save, title), list, rename, retitle, delete | memory, search, LLM |
| Conversation memory `app/memory.py` | `summary`, `summary_upto_msg_id` of a conversation | `maybe_update_summary` (BackgroundTask), `build_answer_context`, `build_rewrite_input` | LLM, database |
| Note saving `app/ingest.py` | `notes`, `note_tags` | `ingest_note`: create, update, merge | indexing |
| Indexing `app/indexing.py` | `chunks`, `edges` | `reindex_note`, `resolve_inbound_links`, `unresolve_links_to`, `index_after_save` | embedding, chunking, wikilinks |
| Notes API `app/routes/notes.py` | none of its own | list, page, graph, tags, ingest, delete, settings | ingest, indexing, settings |
| MCP `app/mcp_server.py`, `app/mcp_tools.py` | context variables of a request | the note operations, `link_account` | ingest, indexing, search, OAuth store |
| Search `app/search.py` | none | vector and bigram search, rank fusion, graph expansion, relevance gate | embedding, settings |
| Chunking, wikilinks, LLM text | none | pure functions of a text | |
| Embedding `app/embedding.py` | the loaded model | batch embedding in a worker thread | |
| Distill `app/routes/distill.py`, `app/distill_match.py` | none | candidates of a conversation, merge target, merge preview | LLM, search |
| Memo `app/routes/memo.py` | `user_memo`, `conversations.memo` | get and put | |
| Settings `app/settings.py` | a cache and its backup in Redis | load, update | |
| Accounts `app/routes/auth.py`, `account.py`, `app/deps.py` | `users`, `identities` | login, callback, `resolve_user`, linking, `merge_users` | sessions |
| Sessions `app/session.py` | sessions, OAuth states, link tokens in the store | put, get, pop | |
| OAuth server `app/routes/oauth.py`, `app/oauth_store.py` | clients, pending requests, codes, tokens in the store | register, authorize, token, bearer lookup | accounts |
| LLM client `app/llm.py` | one client object | `complete`, `stream`: two attempts, a timeout each | |
| Database `app/db.py`, `migrations/` | the pool, `schema_migrations` | migrations at start-up | |
| Client `static/app.js` | current conversation, open stream, memo editors | open, new, delete a conversation, ask, save memos | all endpoints |

Interaction is by calls between coroutines, by rows that several of them read and
write in separate transactions, and by work that outlives its request: the shielded
generation of an answer, the BackgroundTask that folds a conversation, the
indexing of a note after its save.

What makes it hard:

* **Read, await, write.** A fold reads a summary, waits for the summarizer (up to
  minutes), and overwrites the row. A link is looked up and inserted later. A prompt is
  assembled from two reads on two connections.
* **Identity order is not commit order.** `upto` is a message id; ids are given by an
  INSERT, rows appear at the commit.
* **Clients that leave.** A stream may be cancelled at every await; from the shield on
  the answer must be saved nevertheless.
* **Two transactions for one intent.** A note is committed, then indexed; either may
  fail or be lost with the process.
* **Cascades.** Deleting a note or a conversation removes rows that other transactions
  are reading, locking or about to insert.

The properties that make each component correct: for the memory, that summary and
window partition the past, that a prompt has the newest turns and what it leaves out lies
between its two parts, that what a user asked is answered, saved and folded in the end; for notes, that chunks and links
are those of the current body, that links lead to the note of their title whenever it
exists, that a deletion leaves nothing dangling and loses nothing of other notes; for
accounts, that an identity belongs to one user and every login of it ends there; for
the OAuth server, that a code or refresh token is honoured once, that racing for one
loses nothing, and that a client acts only for users who have signed in for it; for
start-up, that migrations run once and in order and that a setting is not undone; for
search, that what answers the question is found while the index changes, and that a
stored answer comes back with its sources; for distilling, that a merge has a reason and
overwrites nothing its preview knew of; for the client, that what is shown and saved
belongs to the conversation that is open.

## 2. Modules

| Module | What it is |
|---|---|
| `Recall` | abstract: a past of ordered messages, an initial segment of it folded |
| `ChatMemory` | one conversation: requests, shielded generation, background folds, deletion, crash; `Recall` as instance |
| `MCChatMemory` | symmetry of the requests for TLC |
| `ChatMemoryProofs` | the theorems about `ChatMemory` |
| `NoteIndex` | the notes of one user: saves, indexing, deletions as interleaved transactions |
| `MCNoteIndex` | two titles and three bodies, one with a link and one blank, for TLC |
| `NoteIndexProofs` | the theorems about `NoteIndex` |
| `Accounts` | users and identities: sign-in, linking, sessions, merging as interleaved transactions |
| `MCAccounts` | two identities with one address, which an older user has too, for TLC |
| `AccountsProofs` | the theorems about `Accounts` |
| `Delegation` | abstract: a client acts for users who have consented |
| `OAuthServer` | registration, authorize, the resuming login, token endpoint and bearer check over the store; `Delegation` as instance |
| `MCOAuthServer` | symmetry of clients and users for TLC |
| `OAuthServerProofs` | the theorems about `OAuthServer` |
| `Startup` | processes that start, migrate, serve and stop beside each other; the cached setting |
| `MCStartup` | an image with one migration and one with two, for TLC |
| `StartupProofs` | the theorems about `Startup` |
| `Answering` | hybrid search, sources, citations and reading them back, beside changes of notes |
| `MCAnswering` | three notes, three bodies and their distances, for TLC |
| `AnsweringProofs` | the theorem about stored sources |
| `SearchProofs` | the theorems about what a search finds |
| `Distilling` | candidates, merge targets, the dialog, previews and saves, beside changes of notes |
| `MCDistilling` | two candidates, three titles of which two are alike, for TLC |
| `DistillingProofs` | the theorems about `Distilling` |

`Recall` and `Delegation` are specifications of what a component promises; `ChatMemory`
and `OAuthServer` implement them. The other modules meet at the tables: a save that is
one step in `Answering` and `Distilling` is the job of `NoteIndex`; the sign-in that is
`Profile` in `OAuthServer` is the callback of `Accounts`; the answer whose generation is
a few steps of `ChatMemory` has its sources and citations in `Answering`.

### ChatMemory

A message is its id. `users` and `answers` are the ids of committed rows, `nextId` is
the identity sequence, `conv` the conversations row. A summary is the set of the
messages it covers (`summary`), as if the summarizer were truthful: what it forgets is
not a matter of this code. A prompt is the set of messages it carries.

A request r moves through `pc[r]`: `Start` (the ownership check of `chat`), `Rewrite`,
`LoadContext` and `LoadRecent` (the two connections of `build_answer_context`),
`InsertQuestion`/`CommitQuestion`, then under the shield `InsertAnswer`/`CommitAnswer`
and `Cite`. An INSERT and its commit are two steps because the id is taken by the
first and seen by others after the second. `Fail` is the `except` of `_chat_stream`;
`Disconnect` is the cancellation of the generator, which before the shield ends the
request (with or without its question, if the COMMIT was on its way) and after it only
detaches the client. `Finish` starts the BackgroundTask. A task moves through `load`,
`read`, `fold` by `LoadSummary`, `ChooseFold`, `SaveSummary`: the three await points of
`maybe_update_summary`. `Delete` and `Crash` can come anywhere; `Delete` waits for open
INSERTs because their foreign key locks the row of the conversation.

Two INSERTs of different requests may be open at once: PostgreSQL lets them, and then the
smaller id can be committed after the larger. `late` is the history of the messages that
were committed when a newer one already was. It exists for the properties: what went wrong
with an overlap is what is late, and nothing else may go wrong. `undid` marks a task that has
set `upto` back, having chosen its fold before a longer one was saved. `past`, in a prompt,
is what the request could have read; no text holds it.

Constants: `RecentTurns`, `Trigger`, `FoldTo` are the parameters at the head of
`memory.py` (6, 12, 6 there); `Earlier` is the number of turns the conversation has when the
requests come. All requests may run at once.

`TurnsFoldWhole` speaks of a question and the answer *next to* it. Two requests at once can
leave q1 q2 a1 a2; `_group_turns` then makes turns of q1 and of q2 a1 a2, and a fold
can separate q1 from a1. `memory.py:9` ("turn = user message and the following assistant
answer") has nothing to say about that case, and neither has the property.

### Recall

What the memory promises to a reader of the two columns and the messages: the past
grows at its end, the summary covers an initial segment of it, and deletion empties
both. The segment may shrink, since the code lets a slow fold overwrite a newer one; the
module says so rather than promise more. `ChatMemory` maps `past` to the committed
messages, `folded` to the summary and `open` to the existence of the row.

### NoteIndex

A job is one save or one deletion. `notes`, `chunks` and `edges` are the tables;
`edges.dst` 0 is NULL; `by` tells a row from a later one with the same key; `creator`
and `writer` remember which job inserted a note and which wrote its body, so that
properties can speak of jobs that have ended well. `met` is the history of the pairs of jobs
whose transactions (of indexing or deletion) were open at the same time. `cited` are the notes that
`message_citations` refers to.

The save of a note is `Save` (the lookup), then `InsertNote` or `UpdateNote`, which
commit. Its indexing is a transaction of its own: `ReadNote`, `ClearChunks`,
`ChunksCleared`, `StoreChunks`, `ClearEdges`, `EdgesCleared`, a `Link` for each link,
`Linked`, `Commit`. The effects are applied at `Commit`; before it a job holds what its
statements have found. A statement that touches existing rows is two steps: it is issued
(the snapshot of READ COMMITTED: it can only find what is committed by then) and it is
done (when no open transaction holds a row it has found). A row that meanwhile was
deleted is skipped, one that was updated is looked at again. Inserted chunks and edges
keep the notes they refer to from deletion until the commit. A deletion is `Delete`
(lookup), `Unresolve`, `Unresolved`, and `DropNote`, which cascades.

No lock keeps two indexings, or an indexing and a deletion, of related notes apart, and the
code goes wrong when they overlap: two reindexings of one note leave the chunks of both, a
link that is looked up while its target is created stays unresolved, a link that is
committed between `unresolve_links_to` and the DELETE goes with the note. The properties
name these overlaps, by pairs of `met`, as the only causes; all of them are needed (TLC finds
a counterexample without each), and nothing is restricted to one job at a time.

A body in `Blank` has no chunks: `split_into_chunks` gives none and `reindex_note` inserts
none after its DELETE (`indexing.py:32`). Such a note leaves the search, which
`StaysSearchable` and `ChunksCurrent` say.

Simplifications: a body that is not blank has one chunk; one user; the row lock that an UPDATE of a note
takes is not modelled since it delays but does not change anything that is read; a wait
that PostgreSQL would break as a deadlock ends by `Fail`. Tags are left out.

### Accounts

A round trip r goes to a provider and comes back (`Login`, `Callback`, `Profile`); it
carries a link token or none. `users` is the table, its index the id; `into` 0 is an
active user. `owner` are the rows of `identities`, 0 where there is none: its key is the
unique pair `(provider, sub)`. Signing in is `resolve_user`: `Lookup`, `Bridge`,
`CreateUser` and `Attach` are its four transactions, `OpenSession` follows. Linking is
`ReadToken`, `DropToken` (the two calls of `pop_link_token`), `CheckOwner`,
`LinkIdentity`. A merge is one transaction of several statements, each with a snapshot of
its own: `BeginMerge` (the DELETE of a doubled memo), `MoveNotes`, `MoveIdentities`,
`MoveMemo`, `CommitMerge` (the tombstone and the COMMIT) or `AbortMerge`; `merge` holds what
the statements have moved and, as history, what its user `src` had when it began. Between
them sessions and callbacks write rows for `src` and `dst`; a write that meets a row the
merge has in hand waits. Nothing but a test calls `merge_users` today: that its caller names
two active users and runs one merge at a time is assumed. Of what users store, the model has
the titles of their notes and whether they have a memo: the two things a merge can collide
on. `Fail` ends a callback at any point, `Crash` all of them, keys expire (`ExpireState`,
`ExpireToken`, `CloseSession`, which is also the logout).

`MailOf` is the address a provider reports with an identity in a round trip, possibly none;
`users.email` is not unique since migration 0005. `Legacy` are the addresses of users from
before it, who have open sessions and no identity. `Parallel` bounds the callbacks at once.

`met` is the history of pairs of callbacks that have read the same before either has
written: have found the same identity missing (`"identity"`), have looked for a user to
bridge to (`"user"`), have read the same link token (`"token"`). `uprooted` are the callbacks
whose user was merged under their hands, `stored` says which callback inserted which row of
identities. The code goes wrong in these races: two first sign-ins make two users, two
sign-ins with one address both bridge to one user, two callbacks link with one token. The
properties say that nothing else has these effects, neither crashes and failures that leave
half a sign-in nor expiry.

Simplifications: a browser comes back once (the state is taken on the first return and the
provider honours its code once); a token is issued to a user with a session, which also
stands for the `link_account` tool; a sign-in that resumes an authorize request differs
only in its end and is left to the OAuth server.

### OAuthServer and Delegation

`backend` is what `lifespan` found when it pinged Redis. `clients` are the registered
ids, `sessions` the users with a browser session, `store` the four kinds of keys of
`oauth_store.py` (`authreq`, `code`, `mcptok`, `mcprt`), each named by the request that
stores it. A stored value is a `Grant`, or tells why there is none: never stored, deleted
by a pop, or expired. A request r is at `pc[r]`, was sent with `key[r]`, has established
`user[r]` and has read `found[r]`.

`Register` is one step. An authorize request is `Authorize`, `CheckSession`, and either
`IssueCode` for the user of the session or `Park`, which waits for a login. The login is
`Login`, `Callback`, `Profile`, `Match`; if the state of the authorize request has
expired meanwhile, it is an ordinary login (`OpenSession`), else `resume_authorize` pops
the request and issues a code. The token endpoint is `Redeem` or `Refresh`, the pop, and
`IssueAccess` and `IssueRefresh`, two calls of the store. `_pop` is two steps, `Read` and
`Drop`, because between `get` and `delete` every other request can run. A call of `/mcp`
is `Call`, `ResolveAccess`, `Reset`. `Fail`, `ExpireClient`, `ExpireKey`, `CloseSession`
and `Crash` come at any point; with the MemoryStore `Crash` empties everything, and
nothing expires, since it has no clock for keys nobody reads. Arrivals are in the order
of the request numbers, which loses nothing: the numbers are only names.

What does not fit a code or refresh token (verifier, redirect_uri, client id) is a free
choice of `Popped`. A client may send a key as often as it likes; `late` remembers which
requests were sent when their key had already been honoured, so that a replay can be told
from a race.

`Delegation` knows three sets of pairs of a client and a user: who has signed in for
whom, which tokens are valid, in whose name calls are served. `OAuthServer` maps to them
the users its requests have established, the access tokens in the store and the calls
that have passed the bearer check.

### Startup

`applied` are the rows of `schema_migrations`, `ran` the history of what was committed.
A process is started (`Boot` reads the table once, as `run_migrations` does), runs its
`Pending` files, each in a transaction (`Migrate` issues its statements, `Commit` commits
them with the row), connects to the store (`ConnectStore`), loads the settings
(`LoadSettings`) and serves. Two processes that run the same migration collide: the
second waits for the first transaction and then raises, and its start-up ends (`Migrate`
back to `down`). `Crash` stops a process at any stage. `Files` gives each process the
number of migrations of its image, so an old and a new one can run side by side.

A setting is the number of the write that set it. `SetCache` is `update` up to its await,
`Backup` the `redis.set` after it, which may fail silently. `before` and `saved` are
history. Only this is promised: Redis does not fall back to a value that was answered
before a saved one was sent. Two updates that overlap may leave cache and Redis with
different values until the next restart, and a process does not see what another has set.

### Answering

A note has a body or none, a body has chunks and links; `Index` is what is stored.
A search s is `Ask` (from the chat: gated, `TopK`; from `search_notes`: ungated, a limit
that is clamped), `VectorSearch`, `BigmSearch` with the fusion, `Neighbours`, a `Nearest`
for each neighbour, `Pick` (gate and cut), `LoadMeta`, `Sources`. Each is one statement
with a snapshot of its own; notes are saved and deleted in between (`SaveNote`,
`DeleteNote`). The answer is saved by `SaveAnswer`, its citations by `Cite`, one INSERT
each, and `CommitCitations`; a note that is gone by then fails the whole transaction.
`ReadMessages` and `ReadCitations` are the two statements of `get_conversation`.

An order is stated by what comes before what, and listed by ranks (`Arranged`): the two
statements with ORDER BY, the sort of `rrf` by score with equals as they came up, the sort
before the gate. Scores are integers, fractions over a common multiple of the ranks
(`Scale`), so that the sums of `rrf` compare as they do there. Tables give each text its
distance and its similarity, `Literal` are the texts that contain the question, which
the text list takes in whatever their similarity is. A scan returns the rows of the notes
in any order, which decides between equals. A chunk row is named by its note, the number of
the note's reindexing and its place; `changes` counts the reindexings of all notes and bounds
them. Simplifications: the vector index is taken as exact; the threshold does not change
during a search; the score column of a citation is left out (a stored source is a note).

### Distilling

A body is the set of its facts, one chunk for each. `Distill` is the LLM's answer,
`CompareTitles`, `Vote` and `Judge` are `find_merge_target`, one statement each, while
others rewrite and delete notes. `Show` puts the rows before the user. `ChooseMerge`
asks for a preview (`ReadTarget` or `Refuse`, the LLM call with its one retry, `Arrive` or
`FailPreview`), `ChooseNew` restores the candidate; `Post` sends what the row shows now,
`MergeInto`, `UpdateNote`, `CreateNote` and `FailSave` are what `_write_note` makes of it.

The dialog lets some things happen that the properties do not forbid, because the code
does nothing against them:

* "merge" saved before its preview has arrived, or after it has failed, replaces the body of
  the note by the candidate alone.
* What others write to a note between the preview's read and the save is lost, however
  long the LLM call and its repetition take.
* A candidate left at "new" whose title a note has already overwrites that note, since
  `_write_note` updates by title.
* Two candidates merged into one note: the second preview had not seen the first save and
  overwrites it.
* The client does not look at `r.ok` (`app.js:802`). An error that is JSON, `require_user`'s
  401 without a session or the answer for a note that is gone, has no `merged_body`: the
  text becomes "undefined". The session can be opened again in another tab, the target is
  still there, and the save replaces its body by that.
* A preview that arrives after the user went back to "new" is put into the row all the
  same.
* A save that failed is passed over in silence.

Simplifications: one dialog; `Undefined` is a fact that no note has; the LLM keeps every fact, as its prompt demands; the user
does not edit texts or titles; tags and the tolerant JSON parser are left out; others
rewrite and delete notes but do not create any.

## 3. Runs

All bounds are in the cfg files. Every pass run is exhaustive for its bounds.

| Run | Instance | Shows |
|---|---|---|
| `chat` | 2 requests at once, 2 earlier turns; RecentTurns 3, Trigger 2, FoldTo 2; fair; 62 thousand states | `TypeOK`, `FoldedExactly`, `NothingFoldedTwice`, `TurnsFoldWhole`, `NewestTurnsInPrompt`, refinement of `Recall`, `ShieldedAnswerIsSaved`, `RequestsEnd`, `LongWindowIsFolded` |
| `chat_hole` | 3 requests at once | `NoHole` fails |
| `chat_prompt` | 2 requests, 2 earlier turns; RecentTurns 1, Trigger 2, FoldTo 1 | `PromptWhole` fails |
| `notes` | 3 jobs at once, failing or lost at any step; 2 titles, 3 bodies; 2.2 million states | `TypeOK`, `EdgesPointRight`, `ChunksCurrent`, `LinksCurrent`, `LinksResolved`, `InboundKept`, `StaysSearchable` |
| `note_retry` | one job at a time | `ResolvedOnceSaved` fails |
| `accounts` | 2 round trips at once, 2 identities, 1 token, 1 older user, a merge; 2.3 million states | `TypeOK`, `NoAutoLink`, `TokenLinksOnce`, `AnswersOwnerUnlessRaced`, `OwnerKept`, `MergeKeepsData` |
| `accounts_race` | 2 round trips at once | `AnswersOwner` fails |
| `oauth` | 4 requests, 2 at a time, 2 failures, expiries or restarts; 1 client, 2 users; both stores; 1.5 million states | `TypeOK`, `NoReplay`, `OneRefreshToken`, `NothingLostInRace`, refinement of `Delegation` |
| `startup` | 2 processes, images with 1 and 2 migrations, 3 writes of the setting, 2 crashes, fair; 270 thousand states | `TypeOK`, `MigrationsInOrder`, `SchemaReady`, `NoOlderSetting`, `AllComeUp` |
| `answering` | 3 notes, 3 bodies, 1 search, 2 changes; Candidates 4, TopK 2; 2.2 million states | `TypeOK`, `AgreementKept`, `NothingRelevantDropped`, `ReloadAgrees` |
| `cited_note` | the same with 1 change | `CitedNoteCanGo` fails |
| `distilling` | 2 candidates, 3 ids, 3 titles, 1 preview per row, 1 change by others; Ratio 34; 4.2 million states | `TypeOK`, `TargetJustified`, `MergeLosesOnlyUnseen`, `NewIsCandidate` |

Why the bounds are enough to be interesting. `nextId` and `nextNote` are bounded by the
number of requests and jobs, each used once. Deadlock is not checked: requests and jobs run
out, and then the system may stop.

`chat`: the earlier turns fill the window to its trigger, so that each of the two requests
can bring a fold, and both folds can be pending, chosen from different windows and saved in
either order. The two overlap in every way two requests can.
One case needs a third: a fold that *passes* a message which is inserted and not yet
committed. With two requests, only one of them can be done by then, and its fold ends among
the earlier turns. `chat_hole` has three requests for that reason, and the theorems hold for
any number. The
stale save that leaves a long window for good needs three requests as well if the
conversation starts empty; with the earlier turns two are enough, and `LongWindowIsFolded`
excuses it by `undid`. RecentTurns is above FoldTo here, although both are 6 in the
code: if it is not, a prompt whose messages were read after a fold that its summary does not
show carries the same turns, and the check would not tell a wrong read from a right one.
`chat_prompt` has the order of the code, where RecentTurns is below Trigger.

`notes`: three jobs are a linking note, its target and the target's deletion, or two saves
of one note and a third that meets one of them; each overlap the properties name happens,
and each is needed: without it TLC finds a counterexample.

`accounts`: two round trips at once are the races; one after the other they leave a user
behind in a crash and bridge to it, issue a token and redeem it twice. The older user has the
address that both identities report, in one round trip one of them without it. A merge runs
statement by statement beside them. Sessions outlive merges: `notes` and `memos` of a
tombstone are written, as in the code.

`oauth`: four requests are a whole trip with something to spare: authorize, login or
session, redeem, and then a refresh, a second redeem of the same code, or a call. Two at a
time is every interleaving of two pops. One client is enough because requests of different
clients share no key; two users are needed to tell a wrong one. Two mishaps are a crash and
an expiry, or a failure in each of two requests.

`startup`: two migrations in the new image and one in the old make the processes collide on
the first and not on the second; two crashes stop a process between the statements and the
commit and once more in its second attempt; of three writes two overlap and a third comes
after one of them has been answered. Crashes stop in the end, so that `AllComeUp` speaks of
what happens then.

`answering`: four candidates are as many chunks as two lists of three notes can disagree
on, TopK 2 makes the cut bite, and a distance or similarity lies on each side of each
threshold; the text that contains the question is below the text thresholds, so that it is in
the text list and not relevant by it. `Scale` is 61 · 62 · 63 · 64, so that the scores
of four ranks are exact. Two changes are a rewrite or deletion before and after a statement, or a note
that is new in the middle. `Limits` has only "none given"; that calls the ungated branch of
`search_notes`. A list of hits that was full when it was cut is exempted from
`NothingRelevantDropped`: the place of a chunk that goes before the rows are loaded stays
empty.

`distilling`: the first candidate has three facts, so that with the code's ratio of 34
percent one vote is not enough and two are; two titles differ in spelling only, so that a
candidate can be matched by title with a note it would not overwrite as a new one. The
facts that give a target its reason may have been in the note at different moments of the
search: the code counts votes that way.

### Liveness and fairness

`FairSpec` assumes weak fairness of each request and of each task, `Serve(r)` and
`Summarize(r)`: a coroutine that can run is run by the event loop, an LLM call returns
or fails by its timeout (`app/llm.py`), a statement ends. Failing is one of the steps
fairness is satisfied by. Nothing is assumed of clients, deletions or crashes, and the
properties except what they take away: an answer is saved *unless* its call fails, the
conversation is deleted or the process stops.

In `Startup` the fairness is of `Start(p)`: a container that has ended is started again
and the database answers. It is what the deployment does (`restart: unless-stopped` in
`docker-compose.yml`) and not a property of the code; what `AllComeUp` then says about the code is that a start that fails
on the work of another cannot do so for ever.

### Disagreements between code and documents

* `NoHole` (`memory.py:6`): with overlapping INSERTs a message can be behind `upto` and in no
  summary. This one loses content.
* `PromptWhole` (`기획서.md:134-135`): with 6 recent turns and a trigger of 12, up to six
  turns are neither in the summary nor among the recent turns of a prompt until they are
  folded. `NewestTurnsInPrompt` is what holds: only these turns, and late messages, are
  missing.
* `ResolvedOnceSaved` (`기획서.md:196`): after a creation whose indexing failed, repeating the
  save is an update; links to the note stay unresolved until their sources are saved again.
* `AnswersOwner` (`tasks/v2/01-account-model.md:4`): two first sign-ins of one identity that
  overlap create two users, and the second session belongs to the one that no identity leads
  to. What it stores is not found by later sign-ins.
* `CitedNoteCanGo` (`기획서.md:232`, `tasks/09-notes-api.md:31`): a cited note cannot be
  deleted. `message_citations` has `note_id` in its primary key, so the column is NOT NULL
  and `ON DELETE SET NULL` (`0001_init.sql:81`) fails; the LEFT JOIN of `get_conversation`
  for citations without note (`chat.py:247`) never finds one. `DeleteNote` has the guard
  for that reason.

Known, visible in the models, and contradicting no document:

* `upto` can go back when a slow fold overwrites a newer one (`memory.py:111`; the guard
  of `memory.py:89` does not protect against two folds at once). The range is summarized
  again, `Recall` still holds and nothing is lost, but the window can stay over the trigger
  until the next request.
* The overlaps of section 2 in `NoteIndex` and `Accounts`, and what the dialog of
  `Distilling` loses.

## 4. Theorems

Nothing is assumed of the constants but their types and, where said, that sets are finite;
no theorem restricts how many requests, jobs or callbacks run at once.

`ChatMemoryProofs` proves, for any set of requests and any four parameters:

| Theorem | Says |
|---|---|
| `TypeCorrect` | `Spec => []TypeOK` |
| `FoldInvariantHolds` | `Spec => []FoldInvariant` |
| `SummaryExact` | `Spec => []FoldedExactly` |
| `ImplementsRecall` | `Spec => RecallSpec` |
| `FoldedOnce` | `Spec => []NothingFoldedTwice` |
| `PromptKeepsNewest` | `Spec => []NewestTurnsInPrompt` |
| `TurnsAreFoldedWhole` | `Spec => []TurnsFoldWhole` |

`FoldedExactly` speaks of the row alone and is not inductive: a task may write anything
it has read. `FoldInvariant` adds that every pair (summary, upto) that exists, the
row's, the one a task has read and the one it is about to write, covers now all that is not
late (`Covers`). It stays so: a commit below a message makes what it commits late
(`StepGrows`), and upto is a message, so what a commit puts behind it is late
(`CoversKept`); a fold takes an initial segment of the window (`FoldIsInitial`, from
`TurnsAfterMonotonic`: an older message has at least as many turns behind it), so that what it
writes covers what it should (`FoldCovers`). A save may put an older pair into the row; it is
as exact as the newer one. A deletion empties everything that the pairs speak of, and no row
can appear again. `Numbers` says that an id belongs to one message. `ImplementsRecall` uses
the same invariant: a commit is a step of `Recall` that remembers, at the end or late, a
save one that folds. `FoldedOnce` needs less: what a task has read as summary lies behind the
upto it has read.

`PromptKeepsNewest` (invariant `PromptsOK`): the pair a request has read of the row stays
exact until it reads the messages, by the same argument as a task's; what is behind its upto
then is in its summary or late, what is in the window it reads is recent or has enough turns
after it, and if the window was read after a newer fold, what that fold took has them too.

`TurnsAreFoldedWhole` (invariant `TurnsInv`): every upto that exists parts no pair. A pair is
new only by the commit of its answer behind everything else (`NewPair`), and no upto is the
newest message, since a fold leaves a turn behind it. A fold of a window that begins between
pairs ends between pairs, because the answer next to a question is in its turn (`FoldParts`).

`AccountsProofs` proves, for any identities, addresses, tokens, titles, round trips and
parallelism:

| Theorem | Says |
|---|---|
| `TypeCorrect` | `Spec => []TypeOK` |
| `OwnerKeptHolds` | `Spec => OwnerKept` |
| `MergeKeepsDataHolds` | `Spec => MergeKeepsData` |
| `ReadsStay` | `Spec => []ReadsInvariant` |
| `AnswersOwnerUnlessRacedHolds` | `Spec => AnswersOwnerUnlessRaced` |
| `NoAutoLinkHolds` | `Spec => []NoAutoLink` |
| `TokenLinksOnceHolds` | `Spec => []TokenLinksOnce` |

`TypeOK` contains `StageData` (past its profile a callback knows its identity), without
which the lookups have no type. An INSERT with ON CONFLICT DO NOTHING never changes a row
that is there, so only `CommitMerge` moves an identity (`RowsStay`). `Moving` says that what a
merge has in hand is its user's until it commits, and that what it found when it began it
has moved by then: hence `OwnerKept` and `MergeKeepsData`, whatever is inserted meanwhile.

`ReadsInvariant` adds to it `Acquainted`: two callbacks that have both found an identity
missing, chosen a user or read a token, and have not written yet, have met. So who stores an
identity has met everybody who believes it to be missing, and what a callback has read
(`ReadStays`) is still so or is excused. `Apart`, for `NoAutoLink`, follows the user a callback
is about to attach an identity to: it was new or had no identity when it was chosen, and who
has stored one for it since has chosen it too by then, has linked, or it was merged into.
`Spent`, for `TokenLinksOnce`: a token that somebody has read and deleted is empty for
everybody who has not read it before.

`StartupProofs` proves, for any processes, images, numbers of writes and crashes, with
no assumption but the types of the constants:

| Theorem | Says |
|---|---|
| `TypeCorrect` | `Spec => []TypeOK` |
| `MigrationsOnceInOrder` | `Spec => []MigrationsInOrder` |
| `ServesWithSchema` | `Spec => []SchemaReady` |
| `SettingNotUndone` | `Spec => []NoOlderSetting` |

They share one invariant (`IInv`, theorem `Inductive`). Its part about migrations
(`Progress`) is that `ran` is 1, 2, ..., n, that `applied` is the initial segment 1..n,
that what each process has seen is an initial segment of it, and that a transaction that is
open is for migration n + 1. The last is what makes the commit the next in order; it is
preserved because an open transaction blocks every other that would run the same file, and
one whose file has been applied meanwhile is not opened. For the setting (`Answered`) it is
that the writes a write comes after have been answered, and so have the saved ones: what
is answered never writes to Redis again.

`OAuthServerProofs` proves, for any clients, users, requests, parallelism and mishaps, with
no assumption but the types of the constants:

| Theorem | Says |
|---|---|
| `TypeCorrect` | `Spec => []TypeOK` |
| `NoReplayHolds` | `Spec => []NoReplay` |
| `NothingLostHolds` | `Spec => []NothingLostInRace` |
| `OneRefreshTokenHolds` | `Spec => []OneRefreshToken` |
| `ImplementsDelegation` | `Spec => DelegationSpec` |

`TypeOK` needs to know which kind of key a request at each stage has (`KeyAt`), what a
request knows at each stage (`KnownAt`), and that a key is stored by the one request it is
named after, at one of its steps (`Issued`); with these it is inductive. On top of it:

* `Spending`: a key that was honoured is used up or gone, a request that came late has read
  nothing under it, and what was taken some request has. Since a key is stored at one step
  of one request, and no request takes a step twice, nothing brings a key back. Hence
  `NoReplay` and `NothingLostInRace`, whatever runs between the halves of a pop.
* `Single`: an authorization is in one place. Its request has not been answered yet, or its
  record is under one key, or one request is passing it on; only two reads of one key before
  its deletion (`Overlapped`) make two of it. Hence `OneRefreshToken`.
* `Provenance`: the records under a key with a user, and what requests have read of them,
  are pairs of `Consented`; a parked record has the client of the request that parked it.
  That is the refinement: each step of the server is `Consent`, `Issue`, `Call`, `Vanish`
  or a stutter of `Delegation`.

`NoteIndexProofs` proves, for any jobs, titles, bodies and concurrency:

| Theorem | Says |
|---|---|
| `TypeCorrect` | `Spec => []TypeOK` |
| `EdgesPointRightHolds` | `Spec => []EdgesPointRight` |
| `StaysSearchableHolds` | `Spec => StaysSearchable` |
| `ChunksCurrentHolds` | `Spec => []ChunksCurrent` |
| `LinksCurrentHolds` | `Spec => []LinksCurrent` |
| `LinksResolvedHolds` | `Spec => []LinksResolved` |
| `InboundKeptHolds` | `Spec => InboundKept` |

The first three follow from `IInv`: ids are below the sequence (`Numbered`), and what an open
transaction holds agrees with the rows (`Held`): the note it has inserted chunks or edges for
is there, since the foreign key keeps it from deletion; every link it has resolved leads to a
note that is there under that title; what it will resolve has the title of its own note. A
commit then adds only edges that point right.

The others need `Full` (theorem `FullInductive`), in which each thing a job has found is still
so, or somebody has changed it whom the job has met. Its parts are the authors of a row
(`WritersKnown`, `CreatorsKnown`: the save that wrote a body has got as far as its stage says),
that open transactions have met (`OverlapsKnown`), and then one for each read: the body
(`BodiesSeen`), the chunks and edges the DELETEs have seen (`ChunksSeen`, `EdgesSeen`), the
links of the body (`LinksAll`), their targets (`LinksLooked`), the unresolved links a creation
will resolve (`LinksWaiting`) and those a deletion has made unresolved (`LinksLeft`). A job that
has failed or was lost is an excuse of its own, because the properties are about saves that
have ended well.

`SearchProofs` proves, for any notes, bodies, chunks, distances, similarities, thresholds and
limits, of the search of `Answering`:

| Theorem | Says |
|---|---|
| `TypeCorrect` | `Spec => []TypeOK` |
| `AgreementKeptHolds` | `Spec => []AgreementKept` |
| `NothingRelevantDroppedHolds` | `Spec => []NothingRelevantDropped` |

They assume the types of the constants, finitely many notes, limits of at least 1 and that
`BigmLimit` is at most `BigmKeep` (0.1 and 0.3 in the code): otherwise the text list would not
show what the gate wants. That scores are exact (`ScaleAssumption`) is not used: `Scale`
may round, as long as a better rank is never worth less. The same is true of the floats of the
code, whose quotients and sums are monotonic too.

They rest on one fact about orders, `Ranked`: if each member of a finite set has as its rank
the number of members before it, the ranks are 0, 1, ..., n - 1, each once, and listing
the set by rank lists it in order. It is proved by counting, with no induction: what is before
x is a proper part of what is before y whenever x comes before y (hence no two ranks are
equal), and n different numbers below n are all of them. Each list of the module is such a
listing, cut or filtered: the two lists (`KeyLists`), the fusion (`FusedIs`), the entries
that pass a filter (`EntriesKeepOrder`), the sort before the gate (`DescendingOrder`).

The invariant (`IInv`, theorem `Inductive`) has for each search (`Good`) what each property
needs on its way from the lists to the hits:

* `Agrees`: in the scores, a chunk that both lists have ahead of another one, not lifted by
  a link, comes before it with no smaller score. Fusion establishes it (`RrfIs`, from
  `ShareOrder`: who is ahead in a list has no smaller share of it, and who is in a list
  comes up before who comes later or in none); the cut of the pool takes an initial
  segment (`TopAgrees`); a bonus raises scores and appends at the end (`RaisedIs`). The sort
  is stable, so that it turns it into the order of the hits; the gate removes neither
  of the two; the cut takes an initial segment again (`ChosenIs`). This is `Kept`, which is
  `AgreementKept` of one search.
* `Covers`: the chunks that have been in the index since the search began are in each list
  that had room; the chunks of the lists are in the pool unless it was cut; those of the pool
  that pass the gate are picked unless the hits are cut; what is picked and still in the
  index is loaded. A change of a note removes its rows from what "has been there since"
  (`ForgetGood`) and adds none; rows of a later reindexing are other rows.
* `Distinct`: no chunk twice, since a bonus finds the entry of a chunk that is scored
  already.

None of these is needed for `ReloadAgreesHolds` (`Spec => []ReloadAgrees`), which
`AnsweringProofs` proves for any searches, notes, bodies and distances: there a search is its
fields, whatever it finds. The argument is in `Citing` and `Viewed`: what is inserted as
citations are notes that were shown; they are committed together and after the answer, and
keep their notes from deletion from the INSERT on, so that a reader who finds the answer's
row finds all of them or none.

`DistillingProofs` proves, for any offers, notes, titles and numbers of previews and
changes, with no assumption but the types of the constants:

| Theorem | Says |
|---|---|
| `TypeCorrect` | `Spec => []TypeOK` |
| `TargetJustifiedHolds` | `Spec => []TargetJustified` |
| `MergeLosesOnlyUnseenHolds` | `Spec => []MergeLosesOnlyUnseen` |
| `NewIsCandidateHolds` | `Spec => []NewIsCandidate` |

Their invariant (`IInv`) follows a fact on its way. While targets are looked for, the votes
of a note are at most the facts of the candidate the note has had (`Voted`); hence a target
is a title alike or enough facts (`Chosen`). In the dialog a row has the facts of its candidate,
unless an error has got into it (`Whole`), and with a merged body what the target has, as long
as nobody has written to it since the preview's read (`Fresh`); `RowOK` and `PreviewOK`, together
`Carried`, say so of rows and of previews under way. A post sends what its row shows (`PostOK`).
Writes are counted and deleted notes do not come back, so what was overtaken stays so
(`Onward`).

Every safety property that a passing run checks is proved. Only model-checked are the
liveness properties (`ShieldedAnswerIsSaved`, `RequestsEnd`, `LongWindowIsFolded`,
`AllComeUp`), since liveness under fairness and ENABLED are out of the prover's reach.
The refutations (`NoHole`, `PromptWhole`, `ResolvedOnceSaved`, `AnswersOwner`,
`CitedNoteCanGo`) are counterexamples by nature.

## 5. What is not modelled

The table in `PROJECT.json` lists every component. Left out for good: the formatting of
prompts and the parsing of model output, embedding, the metadata documents of OAuth,
packaging, routing. Chunking appears as a constant (`Chunks`): where it cuts is a matter of
characters, which no property here is about. Wikilinks appear as the constant `Links`.

Left out because nothing else depends on them: titles, renaming and the list of
conversations; tags; lists and the graph of notes, which are single statements. The
automatic title overwrites one the user has given meanwhile (`chat.py:153`), which no
document forbids.

Left out so far: the client but for its distill dialog. Its races (a conversation opened
while another loads, `app.js:657`; a memo that arrives late, `app.js:284`) end in what is
shown and in a memo of another conversation being saved. Two values put into memo editors
within one turn of the event loop (two memos that arrive together) leave `memoSuppress` set
for good (`app.js:277`: the second call takes the first one's TRUE for what is to be
restored), and no memo is saved until the page is loaded again; this is read from the code
and not yet checked.

## 6. Plan

1. `ChatClient`: conversation switching, late answers, debounced memo saves, composed with
   the endpoints of chat and memo.
2. Titles and tags as extensions of `ChatMemory` and `NoteIndex`.
