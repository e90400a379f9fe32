----------------------------- MODULE ChatMemory -----------------------------
(***************************************************************************)
(* One conversation of the chat pipeline (app/routes/chat.py) and its      *)
(* incremental memory (app/memory.py).                                     *)
(*                                                                         *)
(* A request r answers one question: it rewrites the question, searches,   *)
(* reads the conversation row and then the messages (two connections, two  *)
(* snapshots), saves the question, has the answer generated under          *)
(* asyncio.shield, saves it and its citations.  When its stream ends, or   *)
(* its client goes away, a BackgroundTask may fold the oldest turns of the *)
(* window into the summary.  Every await is a point where another request, *)
(* a background task, a deletion or a crash of the process can run.        *)
(*                                                                         *)
(* A message is its id: a summary is the set of the messages it covers (a  *)
(* truthful summarizer), a prompt is the set of messages it carries.       *)
(***************************************************************************)
EXTENDS Naturals, FiniteSets

CONSTANTS
    Req,          \* the chat requests, each used once
    RecentTurns,  \* RECENT_TURNS: turns an answer prompt carries verbatim
    Trigger,      \* SUMMARY_TRIGGER_TURNS: a longer window is folded
    FoldTo,       \* FOLD_TO_TURNS: turns a fold leaves in the window
    Earlier       \* turns the conversation has already, none of them folded

ASSUME ParametersAssumption ==
    RecentTurns \in Nat /\ Trigger \in Nat /\ FoldTo \in Nat /\ Earlier \in Nat

VARIABLES
    conv,     \* the conversations row
    users,    \* ids of the committed rows of messages with role 'user'
    answers,  \* ids of the committed rows with role 'assistant'
    late,     \* history: the messages committed when a newer id already was
    nextId,   \* the identity sequence of messages.id
    pc,       \* where each request is in _chat_stream
    prompt,   \* what each request has read for its answer prompt
    qid,      \* the id its question was given, 0 before
    aid,      \* the id its answer was given, 0 before
    task      \* the BackgroundTask of each request

vars == <<conv, users, answers, late, nextId, pc, prompt, qid, aid, task>>

-----------------------------------------------------------------------------
(* Rows and the states of requests and tasks                               *)

Committed == users \cup answers

\* The ids the sequence has given out, and 0, which is NULL.
Ids == 0..(nextId - 1)

Conversations == [live : BOOLEAN, summary : SUBSET Ids, upto : Ids]

NewConversation == [live |-> TRUE, summary |-> {}, upto |-> 0]

\* past is what the two reads could have seen; no prompt text holds it.
Prompts == [summary : SUBSET Ids, upto : Ids, recent : SUBSET Ids, past : SUBSET Ids]

NoPrompt == [summary |-> {}, upto |-> 0, recent |-> {}, past |-> {}]

Attaching  == {"rewrite", "context", "recent", "ask", "asking"}
Shielded   == {"generate", "answering", "cite"}
InProgress == Attaching \cup Shielded
Over       == {"done", "error", "gone", "lost"}
Stages     == {"new"} \cup InProgress \cup Over

\* A task that has saved is "done"; history tells apart the one that has set upto
\* back, having chosen its fold before a longer one was saved.
TaskStages == {"none", "load", "read", "fold", "done", "undid", "failed", "lost"}
Tasks == [at : TaskStages, summary : SUBSET Ids, upto : Ids,
          folded : SUBSET Ids, newUpto : Ids]

TaskAt(stage) ==
    [at |-> stage, summary |-> {}, upto |-> 0, folded |-> {}, newUpto |-> 0]

\* The client still reads the stream: its BackgroundTask is not scheduled yet.
Attached(r) == task[r].at = "none"

\* r has executed an INSERT into messages and not committed it.
Inserting(r) == pc[r] \in {"asking", "answering"}

PendingId(r) == IF pc[r] = "asking" THEN qid[r] ELSE aid[r]

-----------------------------------------------------------------------------
(* Turns: _group_turns starts one at every user message, and at the first  *)
(* message whatever its role                                               *)

Starts(M) == {m \in M : m \in users \/ \A k \in M : m <= k}

TurnCount(M) == Cardinality(Starts(M))

TurnsAfter(M, m) == Cardinality({s \in Starts(M) : s > m})

\* The messages of the last n turns: turns[-n:], all of them when n is 0.
LastTurns(M, n) == {m \in M : n = 0 \/ TurnsAfter(M, m) < n}

\* A fault for the checks: the comparison lets the last folded message back in.
Unsummarized_Inclusive(upto) == {m \in Committed : m >= upto}

\* _unsummarized_msgs
Unsummarized(upto) == {m \in Committed : m > upto}

-----------------------------------------------------------------------------
Init ==
    /\ conv = NewConversation
    /\ users = {2 * k - 1 : k \in 1..Earlier} /\ answers = {2 * k : k \in 1..Earlier}
    /\ late = {}
    /\ nextId = 2 * Earlier + 1
    /\ pc = [r \in Req |-> "new"]
    /\ prompt = [r \in Req |-> NoPrompt]
    /\ qid = [r \in Req |-> 0]
    /\ aid = [r \in Req |-> 0]
    /\ task = [r \in Req |-> TaskAt("none")]

-----------------------------------------------------------------------------
(* The request: _chat_stream and the shielded _generate_and_save           *)

Goto(r, stage) == pc' = [pc EXCEPT ![r] = stage]

\* A fault for the checks: only a finished stream schedules its BackgroundTask.
Finish_TaskOnlyWhenDone(r, outcome) ==
    /\ Goto(r, outcome)
    /\ prompt' = [prompt EXCEPT ![r] = NoPrompt]
    /\ task' = IF Attached(r) /\ outcome = "done"
               THEN [task EXCEPT ![r] = TaskAt("load")] ELSE task

\* The stream of r is over; if a client was attached, Starlette now runs the
\* BackgroundTask, otherwise it already has been started by the disconnect.
Finish(r, outcome) ==
    /\ Goto(r, outcome)
    /\ prompt' = [prompt EXCEPT ![r] = NoPrompt]
    /\ task' = IF Attached(r) THEN [task EXCEPT ![r] = TaskAt("load")] ELSE task

\* chat(): the conversation exists and is the caller's, else 404.
Start(r) ==
    /\ pc[r] = "new"
    /\ conv.live
    /\ Goto(r, "rewrite")
    /\ UNCHANGED <<conv, users, answers, late, nextId, prompt, qid, aid, task>>

\* build_rewrite_input, the rewriting call, the search, the sources event.
Rewrite(r) ==
    /\ pc[r] = "rewrite"
    /\ conv.live
    /\ Goto(r, "context")
    /\ UNCHANGED <<conv, users, answers, late, nextId, prompt, qid, aid, task>>

\* build_answer_context, first connection: the conversation row.
LoadContext(r) ==
    /\ pc[r] = "context"
    /\ conv.live
    /\ prompt' = [prompt EXCEPT ![r] = [NoPrompt EXCEPT !.summary = conv.summary,
                                                        !.upto = conv.upto]]
    /\ Goto(r, "recent")
    /\ UNCHANGED <<conv, users, answers, late, nextId, qid, aid, task>>

\* A fault for the checks: the second read uses the upto the row has by then.
LoadRecent_FreshUpto(r) ==
    /\ pc[r] = "recent"
    /\ prompt' = [prompt EXCEPT
            ![r].recent = LastTurns(Unsummarized(conv.upto), RecentTurns),
            ![r].past = Committed]
    /\ Goto(r, "ask")
    /\ UNCHANGED <<conv, users, answers, late, nextId, qid, aid, task>>

\* build_answer_context, second connection: the messages after that upto.
LoadRecent(r) ==
    /\ pc[r] = "recent"
    /\ prompt' = [prompt EXCEPT
            ![r].recent = LastTurns(Unsummarized(prompt[r].upto), RecentTurns),
            ![r].past = Committed]
    /\ Goto(r, "ask")
    /\ UNCHANGED <<conv, users, answers, late, nextId, qid, aid, task>>

\* An INSERT takes its id when it executes; the foreign key needs the row of
\* the conversation, and locks it against deletion until the commit.
InsertQuestion(r) ==
    /\ pc[r] = "ask"
    /\ conv.live
    /\ qid' = [qid EXCEPT ![r] = nextId]
    /\ nextId' = nextId + 1
    /\ Goto(r, "asking")
    /\ UNCHANGED <<conv, users, answers, late, prompt, aid, task>>

\* What becomes visible behind a newer message is late.
Arrives(m) == late' = IF \E k \in Committed : m < k THEN late \cup {m} ELSE late

CommitQuestion(r) ==
    /\ pc[r] = "asking"
    /\ users' = users \cup {qid[r]}
    /\ Arrives(qid[r])
    /\ Goto(r, "generate")
    /\ UNCHANGED <<conv, answers, nextId, prompt, qid, aid, task>>

\* llm.stream has returned the whole answer at once.
InsertAnswer(r) ==
    /\ pc[r] = "generate"
    /\ conv.live
    /\ aid' = [aid EXCEPT ![r] = nextId]
    /\ nextId' = nextId + 1
    /\ Goto(r, "answering")
    /\ UNCHANGED <<conv, users, answers, late, prompt, qid, task>>

CommitAnswer(r) ==
    /\ pc[r] = "answering"
    /\ answers' = answers \cup {aid[r]}
    /\ Arrives(aid[r])
    /\ Goto(r, "cite")
    /\ UNCHANGED <<conv, users, nextId, prompt, qid, aid, task>>

\* _save_citations, then the answer, title and done events.
Cite(r) ==
    /\ pc[r] = "cite"
    /\ Finish(r, "done")
    /\ UNCHANGED <<conv, users, answers, late, nextId, qid, aid>>

\* A fault for the checks: a rolled back INSERT gives its id back.
Fail_ReturnsId(r) ==
    /\ pc[r] \in InProgress
    /\ Finish(r, "error")
    /\ nextId' = IF Inserting(r) THEN nextId - 1 ELSE nextId
    /\ UNCHANGED <<conv, users, answers, late, qid, aid>>

\* An exception (LLM, database, conversation gone): the error event ends the
\* stream; an open INSERT is rolled back, its id is not used again.
Fail(r) ==
    /\ pc[r] \in InProgress
    /\ Finish(r, "error")
    /\ UNCHANGED <<conv, users, answers, late, nextId, qid, aid>>

\* A fault for the checks: the generation is awaited without a shield.
Disconnect_Unshielded(r) ==
    /\ pc[r] \in InProgress /\ Attached(r)
    /\ Finish(r, "gone")
    /\ UNCHANGED <<conv, users, answers, late, nextId, qid, aid>>

\* The client goes away: the generator is cancelled at its await.  Before the
\* shield the request is gone, and its question too unless the COMMIT was
\* already on its way; under the shield the answer is still generated and saved.
Disconnect(r) ==
    /\ pc[r] \in InProgress /\ Attached(r)
    /\ \/ /\ pc[r] \in Attaching
          /\ Finish(r, "gone")
          /\ UNCHANGED <<users, late>>
       \/ /\ pc[r] = "asking"
          /\ Finish(r, "gone")
          /\ users' = users \cup {qid[r]}
          /\ Arrives(qid[r])
       \/ /\ pc[r] \in Shielded
          /\ task' = [task EXCEPT ![r] = TaskAt("load")]
          /\ UNCHANGED <<users, late, pc, prompt>>
    /\ UNCHANGED <<conv, answers, nextId, qid, aid>>

-----------------------------------------------------------------------------
(* The background task: maybe_update_summary                               *)

SetTask(r, t) == task' = [task EXCEPT ![r] = t]

\* _load_conv; a deleted conversation raises ValueError.
LoadSummary(r) ==
    /\ task[r].at = "load"
    /\ SetTask(r, IF conv.live
                  THEN [TaskAt("read") EXCEPT !.summary = conv.summary, !.upto = conv.upto]
                  ELSE TaskAt("failed"))
    /\ UNCHANGED <<conv, users, answers, late, nextId, pc, prompt, qid, aid>>

\* Faults for the checks: messages are counted instead of turns; the newest turns
\* are folded instead of the oldest.
Folded_ByMessage(M) == {m \in M : Cardinality({k \in M : k > m}) >= FoldTo}

Folded_Newest(M) == LastTurns(M, FoldTo)

\* turns[:-FOLD_TO_TURNS]
Folded(M) == M \ LastTurns(M, FoldTo)

\* A fault for the checks: a window is folded only FoldTo turns later.
ToFold_Late(M) == IF TurnCount(M) <= Trigger + FoldTo THEN {} ELSE Folded(M)

\* The oldest turns of a window longer than the trigger, nothing otherwise.
ToFold(M) == IF TurnCount(M) <= Trigger THEN {} ELSE Folded(M)

\* _unsummarized_msgs and the choice of the turns to fold.
ChooseFold(r) ==
    /\ task[r].at = "read"
    /\ LET fold == ToFold(Unsummarized(task[r].upto))
       IN  IF fold = {}
           THEN SetTask(r, TaskAt("done"))
           ELSE \E last \in fold :
                  /\ \A m \in fold : m <= last
                  /\ SetTask(r, [task[r] EXCEPT !.at = "fold", !.folded = fold,
                                                !.newUpto = last])
    /\ UNCHANGED <<conv, users, answers, late, nextId, pc, prompt, qid, aid>>

\* A fault for the checks: the folded turns are merged into the summary that is
\* found when saving.
SaveSummary_Merging(r) ==
    /\ task[r].at = "fold"
    /\ conv' = IF conv.live
               THEN [conv EXCEPT !.summary = conv.summary \cup task[r].folded,
                                 !.upto = task[r].newUpto]
               ELSE conv
    /\ SetTask(r, TaskAt("done"))
    /\ UNCHANGED <<users, answers, late, nextId, pc, prompt, qid, aid>>

\* The summarizer has answered: one UPDATE of both columns, of no row if the
\* conversation is gone by now.
SaveSummary(r) ==
    /\ task[r].at = "fold"
    /\ conv' = IF conv.live
               THEN [conv EXCEPT !.summary = task[r].summary \cup task[r].folded,
                                 !.upto = task[r].newUpto]
               ELSE conv
    /\ SetTask(r, TaskAt(IF conv.live /\ task[r].newUpto < conv.upto
                         THEN "undid" ELSE "done"))
    /\ UNCHANGED <<users, answers, late, nextId, pc, prompt, qid, aid>>

\* The summarizer, or the database, fails: the exception ends the task.
FailTask(r) ==
    /\ task[r].at \in {"load", "read", "fold"}
    /\ SetTask(r, TaskAt("failed"))
    /\ UNCHANGED <<conv, users, answers, late, nextId, pc, prompt, qid, aid>>

-----------------------------------------------------------------------------
(* The conversation and the process                                        *)

\* delete_conversation: the messages go with the row (ON DELETE CASCADE); the
\* DELETE waits for the open INSERTs that lock it.
Delete ==
    /\ conv.live
    /\ \A r \in Req : ~Inserting(r)
    /\ conv' = [live |-> FALSE, summary |-> {}, upto |-> 0]
    /\ users' = {} /\ answers' = {} /\ late' = {}
    /\ UNCHANGED <<nextId, pc, prompt, qid, aid, task>>

\* The process stops and is started again: requests and tasks are gone, open
\* transactions are rolled back, the tables stay.
Crash ==
    /\ \E r \in Req : pc[r] \in InProgress \/ task[r].at \in {"load", "read", "fold"}
    /\ pc' = [r \in Req |-> IF pc[r] \in InProgress THEN "lost" ELSE pc[r]]
    /\ prompt' = [r \in Req |-> NoPrompt]
    /\ task' = [r \in Req |-> IF pc[r] = "new" \/ task[r].at \in {"done", "undid", "failed"}
                              THEN task[r] ELSE TaskAt("lost")]
    /\ UNCHANGED <<conv, users, answers, late, nextId, qid, aid>>

Serve(r) ==
    \/ Rewrite(r) \/ LoadContext(r) \/ LoadRecent(r)
    \/ InsertQuestion(r) \/ CommitQuestion(r)
    \/ InsertAnswer(r) \/ CommitAnswer(r) \/ Cite(r)
    \/ Fail(r)

Summarize(r) == LoadSummary(r) \/ ChooseFold(r) \/ SaveSummary(r) \/ FailTask(r)

Next ==
    \/ \E r \in Req : Start(r) \/ Serve(r) \/ Disconnect(r) \/ Summarize(r)
    \/ Delete
    \/ Crash

Spec == Init /\ [][Next]_vars

\* An LLM call ends by its timeout and a statement by its result, so a request
\* or a task that can take a step does; clients and crashes owe nothing.
Fairness == \A r \in Req : WF_vars(Serve(r)) /\ WF_vars(Summarize(r))

FairSpec == Spec /\ Fairness

-----------------------------------------------------------------------------
(* Properties                                                              *)

\* Every variable has its type, and every id in use has left the sequence.
TypeOK ==
    /\ nextId \in Nat \ {0}
    /\ conv \in Conversations
    /\ users \subseteq Ids /\ answers \subseteq Ids /\ late \subseteq Committed
    /\ pc \in [Req -> Stages]
    /\ prompt \in [Req -> Prompts]
    /\ qid \in [Req -> Ids] /\ aid \in [Req -> Ids]
    /\ task \in [Req -> Tasks]

\* "Fold before you drop": the summary covers nothing that is still in the window,
\* and what the window no longer shows it covers, except for messages that were
\* committed behind newer ones, however folds, inserts, deletions and crashes
\* interleave (memory.py:6-7, the invariant of maybe_update_summary).
FoldedExactly ==
    LET dropped == {m \in Committed : m <= conv.upto}
    IN  conv.live => conv.summary \subseteq dropped /\ dropped \ conv.summary \subseteq late

\* A summarizer call never gets a message that the summary it is told to extend
\* covers already (what lies behind upto is excluded, memory.py:89).
NothingFoldedTwice ==
    \A r \in Req : task[r].summary \cap task[r].folded = {}

\* r's answer was committed behind its question with nothing else between them.
Pair(r) ==
    /\ qid[r] \in users /\ aid[r] \in answers \ late /\ qid[r] < aid[r]
    /\ ~\E m \in Committed : qid[r] < m /\ m < aid[r]

\* A question and the answer next to it are on the same side of upto: folding
\* takes whole turns (turns[:-FOLD_TO_TURNS] of _group_turns), also by a fold that
\* was chosen while the answer was still generated.
TurnsFoldWhole ==
    \A r \in Req : conv.live /\ Pair(r) => (qid[r] <= conv.upto <=> aid[r] <= conv.upto)

\* The requests that have read what their prompt carries.
Prompted == {"ask", "asking"} \cup Shielded

\* What a prompt leaves out lies between its summary and its last turns: a message
\* in neither has at least RecentTurns newer turns, or it is one that came late,
\* also when a fold commits between the two reads of build_answer_context.
NewestTurnsInPrompt ==
    \A r \in Req : conv.live /\ pc[r] \in Prompted =>
        \A m \in prompt[r].past \ (prompt[r].summary \cup prompt[r].recent) :
            \/ TurnsAfter(prompt[r].past, m) >= RecentTurns
            \/ m <= prompt[r].upto /\ m \in late

\* Every answer that is being generated is saved in the end, whether or not the
\* client stays, unless the call or the database fails, the conversation is
\* deleted or the process dies (the shield of _generate_and_save).
ShieldedAnswerIsSaved ==
    \A r \in Req : pc[r] = "generate"
        ~> aid[r] \in answers \/ pc[r] \in {"error", "lost"} \/ ~conv.live

\* Every request comes to an end, and its background task after it.
RequestsEnd ==
    \A r \in Req : pc[r] \in InProgress
        ~> pc[r] \in Over /\ task[r].at \in {"done", "undid", "failed", "lost"}

\* The questions of the window, and the most it may keep: each request brings a
\* task that folds a window over the trigger, unless the task fails or is lost.
Questions == Cardinality({q \in users : q > conv.upto})

Unserved == {r \in Req : task[r].at \in {"failed", "lost"}}

\* A window over the trigger is folded back, but for one question of each task
\* that failed, if the conversation stays and no task sets upto back.
LongWindowIsFolded ==
    Questions > Trigger + Cardinality(Unserved)
        ~> \/ Questions <= Trigger + Cardinality(Unserved)
           \/ ~conv.live
           \/ \E r \in Req : task[r].at = "undid"

(* The inductive strengthening of FoldedExactly                            *)

\* upto is a message, so a message committed below it later is late; the summary
\* stands for all others up to there.
Covers(summary, upto) ==
    /\ summary \subseteq {m \in Committed : m <= upto}
    /\ {m \in Committed : m <= upto} \ summary \subseteq late
    /\ upto = 0 \/ upto \in Committed

\* The id of an open INSERT belongs to no message yet.
PendingIsNew == \A r \in Req : Inserting(r) => PendingId(r) \notin Committed

\* And to no other INSERT.
PendingDiffers ==
    \A r, s \in Req : Inserting(r) /\ Inserting(s) /\ r # s => PendingId(r) # PendingId(s)

TasksCover ==
    \A r \in Req :
        /\ task[r].at \in {"read", "fold"} => Covers(task[r].summary, task[r].upto)
        /\ task[r].at = "fold" =>
               Covers(task[r].summary \cup task[r].folded, task[r].newUpto)

\* Nothing is ever written to a deleted conversation, although requests and
\* background tasks that started before the deletion go on running.
DeletedStaysEmpty ==
    ~conv.live => Committed = {} /\ conv.summary = {} /\ \A r \in Req : ~Inserting(r)

\* What every task holds is as exact as the row: whichever task saves next, and
\* however old what it read is, the row stays exact.
FoldInvariant ==
    /\ PendingIsNew /\ PendingDiffers
    /\ DeletedStaysEmpty
    /\ conv.live => Covers(conv.summary, conv.upto) /\ TasksCover

(* Claims of the documentation that the code does not keep                 *)

\* No message leaves the window before the summary covers it.
NoHole ==
    conv.live => {m \in Committed : m <= conv.upto} \subseteq conv.summary

\* Every past turn is in the summary of a prompt or among its recent turns.
PromptWhole ==
    \A r \in Req : pc[r] \in Prompted =>
        prompt[r].past \subseteq prompt[r].summary \cup prompt[r].recent

-----------------------------------------------------------------------------
(* What the two representations of the past promise together               *)

Recall == INSTANCE Recall WITH past <- Committed, folded <- conv.summary,
                               open <- conv.live

RecallSpec == Recall!Spec

=============================================================================
