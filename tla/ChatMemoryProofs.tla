-------------------------- MODULE ChatMemoryProofs --------------------------
(***************************************************************************)
(* Theorems about ChatMemory for any set of requests and any parameters.   *)
(***************************************************************************)
EXTENDS ChatMemory, FiniteSetTheorems, TLAPS

-----------------------------------------------------------------------------
(* Type correctness                                                        *)

\* What a window is cut into consists of messages of the window.
LEMMA LastTurnsSubset == \A M, n : LastTurns(M, n) \subseteq M
  BY DEF LastTurns

\* Ids only ever grow, and the types with them.
LEMMA IdsGrow ==
  ASSUME nextId \in Nat \ {0}, nextId' \in {nextId, nextId + 1}
  PROVE  /\ nextId' \in Nat \ {0}
         /\ 0 \in Ids /\ Ids \subseteq Ids'
         /\ Conversations \subseteq Conversations'
         /\ Prompts \subseteq Prompts'
         /\ Tasks \subseteq Tasks'
  <1>1. nextId' \in Nat \ {0} /\ 0 \in Ids /\ Ids \subseteq Ids'
    <2>1. nextId' \in Nat \ {0} /\ nextId <= nextId'
      OBVIOUS
    <2>2. Ids' = 0..(nextId' - 1)
      BY DEF Ids
    <2>3. 0 \in Ids
      BY DEF Ids
    <2>4. \A n, k \in Nat : n <= k => 0..(n - 1) \subseteq 0..(k - 1)
      OBVIOUS
    <2>5. Ids \subseteq Ids'
      BY <2>1, <2>2, <2>4 DEF Ids
    <2> QED
      BY <2>1, <2>3, <2>5
  <1>2. Conversations \subseteq Conversations'
    BY <1>1 DEF Conversations
  <1>3. Prompts \subseteq Prompts'
    BY <1>1 DEF Prompts
  <1>4. Tasks \subseteq Tasks'
    BY <1>1 DEF Tasks
  <1> QED
    BY <1>1, <1>2, <1>3, <1>4

\* The empty state of a task is one, whatever its stage.
LEMMA TaskAtType ==
  ASSUME nextId \in Nat \ {0}, NEW stage \in TaskStages
  PROVE  TaskAt(stage) \in Tasks
  BY DEF TaskAt, Tasks, Ids

\* And so is the prompt nothing has been read for.
LEMMA NoPromptType == nextId \in Nat \ {0} => NoPrompt \in Prompts
  BY DEF NoPrompt, Prompts, Ids

\* Ending a stream keeps the types of what it writes.
LEMMA FinishType ==
  ASSUME TypeOK, NEW r \in Req, NEW outcome \in Over, Finish(r, outcome)
  PROVE  /\ pc' \in [Req -> Stages]
         /\ prompt' \in [Req -> Prompts]
         /\ task' \in [Req -> Tasks]
  <1>1. TaskAt("load") \in Tasks
    BY TaskAtType DEF TaskStages, TypeOK
  <1>2. task' \in [Req -> Tasks]
    BY <1>1 DEF Finish, TypeOK
  <1>3. prompt' \in [Req -> Prompts]
    BY NoPromptType DEF Finish, TypeOK
  <1>4. pc' \in [Req -> Stages]
    BY DEF Finish, Goto, TypeOK, Stages
  <1> QED
    BY <1>2, <1>3, <1>4

\* Initially every variable has its type.
LEMMA InitType == Init => TypeOK
  <1> SUFFICES ASSUME Init PROVE TypeOK
    OBVIOUS
  <1>1. nextId \in Nat \ {0}
    BY ParametersAssumption DEF Init, ParametersAssumption
  <1>2. conv \in Conversations
    BY <1>1 DEF Init, NewConversation, Conversations, Ids
  <1>3. TaskAt("none") \in Tasks
    BY <1>1, TaskAtType DEF TaskStages
  <1>4. NoPrompt \in Prompts
    BY <1>1, NoPromptType
  <1>5. users \subseteq Ids /\ answers \subseteq Ids
    BY ParametersAssumption DEF Init, Ids, ParametersAssumption
  <1> QED
    BY <1>1, <1>2, <1>3, <1>4, <1>5 DEF Init, TypeOK, Stages, Ids

\* What a task or a stream is given at its end keeps the type of tasks.
LEMMA TaskType ==
  ASSUME TypeOK, NEW r \in Req, NEW t \in Tasks, SetTask(r, t)
  PROVE  task' \in [Req -> Tasks]
  BY DEF SetTask, TypeOK

\* Every step keeps the types.
LEMMA NextType == TypeOK /\ [Next]_vars => TypeOK'
  <1> SUFFICES ASSUME TypeOK, [Next]_vars PROVE TypeOK'
    OBVIOUS
  <1> USE DEF TypeOK
  <1>0. ASSUME nextId' = nextId
        PROVE  /\ Ids' = Ids /\ Conversations' = Conversations
               /\ Prompts' = Prompts /\ Tasks' = Tasks
    BY <1>0 DEF Ids, Conversations, Prompts, Tasks
  <1>a. ASSUME UNCHANGED <<users, answers, late>> PROVE (late \subseteq Committed)'
    BY <1>a DEF Committed
  <1>b. ASSUME NEW m \in Ids, Arrives(m), m \in Committed', Committed \subseteq Committed'
        PROVE  (late \subseteq Committed)'
    BY <1>b DEF Arrives
  <1>1. ASSUME NEW r \in Req, Start(r) PROVE TypeOK'
    BY <1>0, <1>a, <1>1 DEF Start, Goto, Stages, InProgress, Attaching
  <1>2. ASSUME NEW r \in Req, Rewrite(r) PROVE TypeOK'
    BY <1>0, <1>a, <1>2 DEF Rewrite, Goto, Stages, InProgress, Attaching
  <1>3. ASSUME NEW r \in Req, LoadContext(r) PROVE TypeOK'
    <2>1. [NoPrompt EXCEPT !.summary = conv.summary, !.upto = conv.upto] \in Prompts
      BY DEF NoPrompt, Prompts, Conversations, Ids
    <2>2. prompt' \in [Req -> Prompts]
      BY <1>3, <2>1 DEF LoadContext
    <2> QED
      BY <1>0, <1>a, <1>3, <2>2 DEF LoadContext, Goto, Stages, InProgress, Attaching
  <1>4. ASSUME NEW r \in Req, LoadRecent(r) PROVE TypeOK'
    <2>1. Committed \subseteq Ids
      BY DEF Committed
    <2>2. LastTurns(Unsummarized(prompt[r].upto), RecentTurns) \subseteq Ids
      BY <2>1, LastTurnsSubset DEF Unsummarized
    <2>3. [prompt[r] EXCEPT !.recent = LastTurns(Unsummarized(prompt[r].upto), RecentTurns),
                            !.past = Committed] \in Prompts
      BY <2>1, <2>2 DEF Prompts
    <2>4. prompt' = [prompt EXCEPT ![r] =
                       [prompt[r] EXCEPT !.recent = LastTurns(Unsummarized(prompt[r].upto), RecentTurns),
                                         !.past = Committed]]
      BY <1>4 DEF LoadRecent
    <2>5. prompt' \in [Req -> Prompts]
      BY <2>3, <2>4
    <2> QED
      BY <1>0, <1>a, <1>4, <2>5 DEF LoadRecent, Goto, Stages, InProgress, Attaching
  <1>5. ASSUME NEW r \in Req, InsertQuestion(r) PROVE TypeOK'
    <2>1. nextId' = nextId + 1
      BY <1>5 DEF InsertQuestion
    <2>2. nextId \in Ids' /\ qid' \in [Req -> Ids']
      BY <1>5, <2>1, IdsGrow DEF InsertQuestion, Ids
    <2> QED
      BY <1>a, <1>5, <2>1, <2>2, IdsGrow DEF InsertQuestion, Goto, Stages, InProgress, Attaching
  <1>6. ASSUME NEW r \in Req, CommitQuestion(r) PROVE TypeOK'
    <2>1. (late \subseteq Committed)'
      BY <1>6, <1>b DEF CommitQuestion, Committed
    <2> QED
      BY <1>0, <1>6, <2>1 DEF CommitQuestion, Goto, Stages, InProgress, Shielded
  <1>7. ASSUME NEW r \in Req, InsertAnswer(r) PROVE TypeOK'
    <2>1. nextId' = nextId + 1
      BY <1>7 DEF InsertAnswer
    <2>2. nextId \in Ids' /\ aid' \in [Req -> Ids']
      BY <1>7, <2>1, IdsGrow DEF InsertAnswer, Ids
    <2> QED
      BY <1>a, <1>7, <2>1, <2>2, IdsGrow DEF InsertAnswer, Goto, Stages, InProgress, Shielded
  <1>8. ASSUME NEW r \in Req, CommitAnswer(r) PROVE TypeOK'
    <2>1. (late \subseteq Committed)'
      BY <1>8, <1>b DEF CommitAnswer, Committed
    <2> QED
      BY <1>0, <1>8, <2>1 DEF CommitAnswer, Goto, Stages, InProgress, Shielded
  <1>9. ASSUME NEW r \in Req, Cite(r) PROVE TypeOK'
    BY <1>0, <1>a, <1>9, FinishType DEF Cite, Over
  <1>10. ASSUME NEW r \in Req, Fail(r) PROVE TypeOK'
    BY <1>0, <1>a, <1>10, FinishType DEF Fail, Over
  <1>11. ASSUME NEW r \in Req, Disconnect(r) PROVE TypeOK'
    <2>1. CASE Finish(r, "gone")
      <3>1. (late \subseteq Committed)'
        BY <1>11, <1>a, <1>b DEF Disconnect, Committed
      <3> QED
        BY <1>0, <1>11, <2>1, <3>1, FinishType DEF Disconnect, Over
    <2>2. CASE /\ task' = [task EXCEPT ![r] = TaskAt("load")]
               /\ UNCHANGED <<users, late, pc, prompt>>
      <3>1. TaskAt("load") \in Tasks
        BY TaskAtType DEF TaskStages
      <3> QED
        BY <1>0, <1>a, <1>11, <2>2, <3>1 DEF Disconnect
    <2> QED
      BY <1>11, <2>1, <2>2 DEF Disconnect
  <1>12. ASSUME NEW r \in Req, LoadSummary(r) PROVE TypeOK'
    <2>1. TaskAt("failed") \in Tasks /\ TaskAt("read") \in Tasks
      BY TaskAtType DEF TaskStages
    <2>2. [TaskAt("read") EXCEPT !.summary = conv.summary, !.upto = conv.upto] \in Tasks
      BY <2>1 DEF Tasks, Conversations
    <2> QED
      BY <1>0, <1>a, <1>12, <2>1, <2>2, TaskType DEF LoadSummary
  <1>13. ASSUME NEW r \in Req, ChooseFold(r) PROVE TypeOK'
    <2> DEFINE fold == ToFold(Unsummarized(task[r].upto))
    <2>1. fold \subseteq Ids
      BY DEF ToFold, Folded, Unsummarized, Committed
    <2>2. TaskAt("done") \in Tasks
      BY TaskAtType DEF TaskStages
    <2>3. \A last \in fold :
            [task[r] EXCEPT !.at = "fold", !.folded = fold, !.newUpto = last] \in Tasks
      BY <2>1 DEF Tasks, TaskStages
    <2>4. \E t \in Tasks : SetTask(r, t)
      BY <1>13, <2>2, <2>3 DEF ChooseFold
    <2>5. task' \in [Req -> Tasks]
      BY <2>4, TaskType
    <2> QED
      BY <1>0, <1>a, <1>13, <2>5 DEF ChooseFold
  <1>14. ASSUME NEW r \in Req, SaveSummary(r) PROVE TypeOK'
    <2>1. TaskAt("done") \in Tasks /\ TaskAt("undid") \in Tasks
      BY TaskAtType DEF TaskStages
    <2>2. conv' \in Conversations
      BY <1>14 DEF SaveSummary, Conversations, Tasks
    <2> QED
      BY <1>0, <1>a, <1>14, <2>1, <2>2, TaskType DEF SaveSummary
  <1>15. ASSUME NEW r \in Req, FailTask(r) PROVE TypeOK'
    <2>1. TaskAt("failed") \in Tasks
      BY TaskAtType DEF TaskStages
    <2> QED
      BY <1>0, <1>a, <1>15, <2>1, TaskType DEF FailTask
  <1>16. ASSUME Delete PROVE TypeOK'
    <2>1. conv' \in Conversations
      BY <1>16 DEF Delete, Conversations, Ids
    <2> QED
      BY <1>0, <1>a, <1>16, <2>1 DEF Delete
  <1>17. ASSUME Crash PROVE TypeOK'
    <2>1. TaskAt("lost") \in Tasks
      BY TaskAtType DEF TaskStages
    <2>2. task' \in [Req -> Tasks] /\ prompt' \in [Req -> Prompts]
      BY <1>17, <2>1, NoPromptType DEF Crash
    <2>3. pc' \in [Req -> Stages]
      BY <1>17 DEF Crash, Stages, Over
    <2> QED
      BY <1>0, <1>a, <1>17, <2>2, <2>3 DEF Crash
  <1>18. CASE UNCHANGED vars
    BY <1>0, <1>a, <1>18 DEF vars
  <1> QED
    BY <1>1, <1>2, <1>3, <1>4, <1>5, <1>6, <1>7, <1>8, <1>9, <1>10, <1>11,
       <1>12, <1>13, <1>14, <1>15, <1>16, <1>17, <1>18 DEF Next, Serve, Summarize

\* Every variable of the pipeline always has its type, and no id is used that
\* the sequence has not given out.
THEOREM TypeCorrect == Spec => []TypeOK
  BY InitType, NextType, PTL DEF Spec

-----------------------------------------------------------------------------
(* A fold takes an initial segment of the window                           *)

\* The committed messages are finitely many.
LEMMA IdsFinite ==
  ASSUME nextId \in Nat \ {0}, NEW M \in SUBSET Ids
  PROVE  IsFiniteSet(M)
  <1>1. IsFiniteSet(0..(nextId - 1))
    BY FS_Interval
  <1> QED
    BY <1>1, FS_Subset DEF Ids

\* An older message has at least as many turns after it.
LEMMA TurnsAfterMonotonic ==
  ASSUME nextId \in Nat \ {0}, NEW M \in SUBSET Ids,
         NEW m \in Ids, NEW n \in Ids, m <= n
  PROVE  /\ TurnsAfter(M, n) <= TurnsAfter(M, m)
         /\ TurnsAfter(M, n) \in Nat /\ TurnsAfter(M, m) \in Nat
  <1> DEFINE Behind(k) == {s \in Starts(M) : s > k}
  <1>1. Behind(m) \subseteq Ids /\ Behind(n) \subseteq Ids
    BY DEF Starts
  <1>2. Behind(n) \subseteq Behind(m)
    BY <1>1 DEF Ids
  <1>3. IsFiniteSet(Behind(m)) /\ IsFiniteSet(Behind(n))
    BY <1>1, IdsFinite
  <1>4. Cardinality(Behind(n)) <= Cardinality(Behind(m))
    BY <1>2, <1>3, FS_Subset
  <1>5. Cardinality(Behind(m)) \in Nat /\ Cardinality(Behind(n)) \in Nat
    BY <1>3, FS_CardinalityType
  <1> QED
    BY <1>4, <1>5 DEF TurnsAfter

\* What is not newer than a folded message is folded with it.
LEMMA FoldIsInitial ==
  ASSUME nextId \in Nat \ {0}, NEW M \in SUBSET Ids,
         NEW last \in ToFold(M), NEW m \in M, m <= last
  PROVE  m \in ToFold(M)
  <1>1. ToFold(M) = M \ LastTurns(M, FoldTo)
    BY DEF ToFold, Folded
  <1>2. /\ last \in M /\ FoldTo # 0
        /\ ~(TurnsAfter(M, last) < FoldTo)
    BY <1>1 DEF LastTurns
  <1>3. /\ TurnsAfter(M, last) <= TurnsAfter(M, m)
        /\ TurnsAfter(M, last) \in Nat /\ TurnsAfter(M, m) \in Nat
    BY <1>2, TurnsAfterMonotonic
  <1>4. ~(TurnsAfter(M, m) < FoldTo)
    BY <1>2, <1>3, ParametersAssumption DEF ParametersAssumption
  <1> QED
    BY <1>1, <1>2, <1>4 DEF LastTurns

-----------------------------------------------------------------------------
(* What ids there are                                                      *)

Unasked == {"new", "rewrite", "context", "recent", "ask"}

Unanswered == Unasked \cup {"asking", "generate"}

\* An id is 0 until its INSERT, and belongs to one message.
Numbers ==
    /\ 0 \notin Committed
    /\ \A r \in Req :
          /\ pc[r] \in Unasked => qid[r] = 0
          /\ pc[r] \in Unanswered => aid[r] = 0
          /\ Inserting(r) => PendingId(r) # 0
    /\ \A r, s \in Req :
          /\ qid[r] = qid[s] => r = s \/ qid[r] = 0
          /\ aid[r] = aid[s] => r = s \/ aid[r] = 0

\* Initially no request has an id, and the earlier turns have theirs from 1 on.
LEMMA NumbersInit == Init => Numbers
  <1> SUFFICES ASSUME Init PROVE Numbers
    OBVIOUS
  <1>1. 0 \notin Committed
    BY ParametersAssumption DEF Init, Committed, ParametersAssumption
  <1> QED
    BY <1>1 DEF Init, Numbers, Inserting

\* A step that gives no id and moves requests on, or ends them.
LEMMA NumbersMove ==
  ASSUME TypeOK, Numbers, qid' = qid, aid' = aid, 0 \notin Committed',
         \A r \in Req : /\ pc'[r] \in Unasked => pc[r] \in Unasked
                        /\ pc'[r] \in Unanswered => pc[r] \in Unanswered
                        /\ pc'[r] \in {"asking", "answering"} => pc'[r] = pc[r]
  PROVE  Numbers'
  BY DEF Numbers, Inserting, PendingId

\* Every step keeps the numbering.
LEMMA NumbersStep ==
  ASSUME TypeOK, Numbers, [Next]_vars
  PROVE  Numbers'
  <1> USE DEF Unasked, Unanswered
  <1>1. 0 \notin Committed
    BY DEF Numbers
  <1>2. ASSUME NEW r \in Req, Start(r) \/ Rewrite(r) \/ LoadContext(r) \/ LoadRecent(r)
        PROVE  Numbers'
    <2>1. /\ qid' = qid /\ aid' = aid /\ Committed' = Committed
          /\ pc[r] \in Unasked /\ \E stage \in Unasked : Goto(r, stage)
      BY <1>2 DEF Start, Rewrite, LoadContext, LoadRecent, Committed
    <2> QED
      BY <1>1, <2>1, NumbersMove DEF Goto, TypeOK
  <1>3. ASSUME NEW r \in Req, InsertQuestion(r) PROVE Numbers'
    <2>1. /\ qid' = [qid EXCEPT ![r] = nextId] /\ aid' = aid /\ Committed' = Committed
          /\ pc[r] = "ask" /\ pc' = [pc EXCEPT ![r] = "asking"]
      BY <1>3 DEF InsertQuestion, Goto, Committed
    <2>2. nextId # 0 /\ \A s \in Req : qid[s] # nextId
      BY DEF TypeOK, Ids
    <2> QED
      BY <1>1, <2>1, <2>2 DEF Numbers, Inserting, PendingId, TypeOK
  <1>4. ASSUME NEW r \in Req, InsertAnswer(r) PROVE Numbers'
    <2>1. /\ aid' = [aid EXCEPT ![r] = nextId] /\ qid' = qid /\ Committed' = Committed
          /\ pc[r] = "generate" /\ pc' = [pc EXCEPT ![r] = "answering"]
      BY <1>4 DEF InsertAnswer, Goto, Committed
    <2>2. nextId # 0 /\ \A s \in Req : aid[s] # nextId
      BY DEF TypeOK, Ids
    <2> QED
      BY <1>1, <2>1, <2>2 DEF Numbers, Inserting, PendingId, TypeOK
  <1>5. ASSUME NEW r \in Req, CommitQuestion(r) \/ CommitAnswer(r) PROVE Numbers'
    <2>1. /\ qid' = qid /\ aid' = aid /\ Committed' = Committed \cup {PendingId(r)}
          /\ Inserting(r) /\ \/ pc[r] = "asking" /\ Goto(r, "generate")
                             \/ pc[r] = "answering" /\ Goto(r, "cite")
      BY <1>5 DEF CommitQuestion, CommitAnswer, Committed, Inserting, PendingId
    <2>2. 0 \notin Committed'
      BY <1>1, <2>1 DEF Numbers
    <2> QED
      BY <2>1, <2>2, NumbersMove DEF Goto, TypeOK
  <1>6. ASSUME NEW r \in Req, Cite(r) \/ Fail(r) \/ Disconnect(r) PROVE Numbers'
    <2>1. /\ qid' = qid /\ aid' = aid
          /\ pc' = pc \/ \E outcome \in Over : Goto(r, outcome)
          /\ Committed' = Committed
                \/ (Inserting(r) /\ Committed' = Committed \cup {PendingId(r)})
      <3>1. CASE Cite(r) \/ Fail(r)
        <4>1. PICK outcome \in {"done", "error"} : Finish(r, outcome)
          BY <3>1 DEF Cite, Fail
        <4>2. qid' = qid /\ aid' = aid /\ Committed' = Committed
          BY <3>1 DEF Cite, Fail, Committed
        <4> QED
          <5>1. outcome \in Over /\ Goto(r, outcome)
            BY <4>1 DEF Finish, Over
          <5> QED
            BY <4>2, <5>1
      <3>2. CASE Disconnect(r)
        <4>1. /\ qid' = qid /\ aid' = aid
              /\ Committed' = Committed
                    \/ (Inserting(r) /\ Committed' = Committed \cup {PendingId(r)})
          <5>1. /\ qid' = qid /\ aid' = aid /\ answers' = answers
                /\ users' = users \/ (pc[r] = "asking" /\ users' = users \cup {qid[r]})
            BY <3>2 DEF Disconnect
          <5>2. pc[r] = "asking" => Inserting(r) /\ PendingId(r) = qid[r]
            BY DEF Inserting, PendingId
          <5> QED
            BY <5>1, <5>2 DEF Committed
        <4>2. pc' = pc \/ Goto(r, "gone")
          BY <3>2 DEF Disconnect, Finish
        <4> QED
          BY <4>1, <4>2 DEF Over
      <3> QED
        BY <1>6, <3>1, <3>2
    <2>2. 0 \notin Committed'
      BY <1>1, <2>1 DEF Numbers
    <2> QED
      BY <2>1, <2>2, NumbersMove DEF Goto, Over, TypeOK
  <1>7. ASSUME NEW r \in Req, Summarize(r) PROVE Numbers'
    <2>1. UNCHANGED <<pc, qid, aid, users, answers>>
      BY <1>7 DEF Summarize, LoadSummary, ChooseFold, SaveSummary, FailTask
    <2> QED
      BY <1>1, <2>1, NumbersMove DEF Committed
  <1>8. ASSUME Delete PROVE Numbers'
    BY <1>8, NumbersMove DEF Delete, Committed
  <1>9. ASSUME Crash PROVE Numbers'
    <2>1. /\ qid' = qid /\ aid' = aid /\ Committed' = Committed
          /\ \A r \in Req : pc'[r] = pc[r] \/ pc'[r] = "lost"
      BY <1>9 DEF Crash, Committed
    <2> QED
      BY <1>1, <2>1, NumbersMove
  <1>10. CASE UNCHANGED vars
    BY <1>1, <1>10, NumbersMove DEF vars, Committed
  <1> QED
    BY <1>2, <1>3, <1>4, <1>5, <1>6, <1>7, <1>8, <1>9, <1>10 DEF Next, Serve

\* Ids are given once, for any number of requests.
LEMMA NumbersHold == Spec => []Numbers
  <1>1. TypeOK /\ Numbers /\ [Next]_vars => Numbers'
    BY NumbersStep
  <1> QED
    BY <1>1, NumbersInit, TypeCorrect, PTL DEF Spec

-----------------------------------------------------------------------------
(* How steps move the messages                                             *)

\* The INSERTs of all but one request stay as they are, or end.
OthersInsert(r) ==
    \A s \in Req : Inserting(s)' /\ s # r => Inserting(s) /\ PendingId(s)' = PendingId(s)

\* No message is committed and no INSERT is opened.
Quiet ==
    /\ UNCHANGED <<users, answers, late>>
    /\ \A s \in Req : Inserting(s)' => Inserting(s) /\ PendingId(s)' = PendingId(s)

\* r opens an INSERT.
Opens(r) ==
    /\ conv.live /\ conv' = conv
    /\ UNCHANGED <<users, answers, late>>
    /\ PendingId(r)' = nextId
    /\ OthersInsert(r)

\* The INSERT of r is committed, as a question or as an answer.
Closes(r) ==
    /\ Inserting(r) /\ ~Inserting(r)'
    /\ conv' = conv
    /\ Arrives(PendingId(r))
    /\ \/ /\ users' = users \cup {PendingId(r)} /\ answers' = answers
          /\ pc[r] = "asking" /\ PendingId(r) = qid[r]
       \/ users' = users /\ answers' = answers \cup {PendingId(r)}
    /\ OthersInsert(r)

\* Ending a stream opens no INSERT.
LEMMA FinishInserts ==
  ASSUME TypeOK, NEW r \in Req, NEW outcome \in Over, Finish(r, outcome),
         qid' = qid, aid' = aid
  PROVE  /\ ~Inserting(r)' /\ OthersInsert(r)
         /\ \A s \in Req : Inserting(s)' => Inserting(s) /\ PendingId(s)' = PendingId(s)
  BY DEF Finish, Goto, Inserting, PendingId, OthersInsert, Over, TypeOK

\* Every step that does not delete moves the messages in one of these ways.
LEMMA StepKinds ==
  ASSUME TypeOK, [Next]_vars
  PROVE  Quiet \/ Delete \/ \E r \in Req : Opens(r) \/ Closes(r)
  <1>1. ASSUME NEW r \in Req, Start(r) \/ Rewrite(r) \/ LoadContext(r) \/ LoadRecent(r)
        PROVE  Quiet
    BY <1>1 DEF Start, Rewrite, LoadContext, LoadRecent, Goto, Quiet, Inserting,
                PendingId, TypeOK
  <1>2. ASSUME NEW r \in Req, InsertQuestion(r) \/ InsertAnswer(r) PROVE Opens(r)
    <2>1. PendingId(r)' = nextId
      BY <1>2 DEF InsertQuestion, InsertAnswer, Goto, PendingId, TypeOK
    <2>2. OthersInsert(r)
      BY <1>2 DEF InsertQuestion, InsertAnswer, Goto, OthersInsert, Inserting, PendingId, TypeOK
    <2> QED
      BY <1>2, <2>1, <2>2 DEF InsertQuestion, InsertAnswer, Opens
  <1>3. ASSUME NEW r \in Req, CommitQuestion(r) \/ CommitAnswer(r) PROVE Closes(r)
    <2>1. Inserting(r) /\ ~Inserting(r)' /\ OthersInsert(r)
      BY <1>3 DEF CommitQuestion, CommitAnswer, Goto, OthersInsert, Inserting, PendingId, TypeOK
    <2>2. /\ pc[r] = "asking" => PendingId(r) = qid[r]
          /\ pc[r] = "answering" => PendingId(r) = aid[r]
      BY DEF PendingId
    <2> QED
      BY <1>3, <2>1, <2>2 DEF CommitQuestion, CommitAnswer, Closes
  <1>4. ASSUME NEW r \in Req, Cite(r) \/ Fail(r) PROVE Quiet
    <2>1. PICK outcome \in Over : Finish(r, outcome)
      BY <1>4 DEF Cite, Fail, Over
    <2> QED
      BY <1>4, <2>1, FinishInserts DEF Cite, Fail, Quiet
  <1>5. ASSUME NEW r \in Req, Disconnect(r) PROVE Quiet \/ Closes(r)
    <2> USE <1>5 DEF Disconnect
    <2>1. CASE Finish(r, "gone") /\ UNCHANGED <<users, late>>
      BY <2>1, FinishInserts DEF Quiet, Over
    <2>2. CASE /\ Finish(r, "gone") /\ pc[r] = "asking" /\ users' = users \cup {qid[r]}
               /\ Arrives(qid[r])
      <3>1. Inserting(r) /\ PendingId(r) = qid[r]
        BY <2>2 DEF Inserting, PendingId
      <3> QED
        BY <2>2, <3>1, FinishInserts DEF Closes, Over
    <2>3. CASE UNCHANGED <<users, late, pc, prompt>>
      BY <2>3 DEF Quiet, Inserting, PendingId
    <2> QED
      BY <2>1, <2>2, <2>3
  <1>6. ASSUME NEW r \in Req, Summarize(r) PROVE Quiet
    BY <1>6 DEF Summarize, LoadSummary, ChooseFold, SaveSummary, FailTask, Quiet,
                Inserting, PendingId
  <1>7. ASSUME Crash PROVE Quiet
    BY <1>7 DEF Crash, Quiet, Inserting, PendingId, InProgress, Attaching, Shielded, TypeOK
  <1>8. CASE UNCHANGED vars
    BY <1>8 DEF vars, Quiet, Inserting, PendingId
  <1> QED
    BY <1>1, <1>2, <1>3, <1>4, <1>5, <1>6, <1>7, <1>8 DEF Next, Serve

\* And writes the row of the conversation in one of these.
LEMMA RowKinds ==
  ASSUME [Next]_vars
  PROVE  conv' = conv \/ Delete \/ \E r \in Req : SaveSummary(r)
  BY DEF Next, Serve, Summarize, Start, Rewrite, LoadContext, LoadRecent, InsertQuestion,
         CommitQuestion, InsertAnswer, CommitAnswer, Cite, Fail, Disconnect, LoadSummary,
         ChooseFold, FailTask, Crash, vars

\* A task that holds something of the row got it from one of these.
LEMMA TaskKinds ==
  ASSUME TypeOK, [Next]_vars, NEW r \in Req, task'[r].at \in {"read", "fold"}
  PROVE  task'[r] = task[r] \/ LoadSummary(r) \/ ChooseFold(r)
  <1>1. \A stage \in {"load", "done", "undid", "failed", "lost"} :
          TaskAt(stage).at \notin {"read", "fold"}
    BY DEF TaskAt
  <1>2. ASSUME NEW s \in Req,
               \/ Start(s) \/ Rewrite(s) \/ LoadContext(s) \/ LoadRecent(s)
               \/ InsertQuestion(s) \/ CommitQuestion(s)
               \/ InsertAnswer(s) \/ CommitAnswer(s)
        PROVE  task' = task
    BY <1>2 DEF Start, Rewrite, LoadContext, LoadRecent, InsertQuestion,
       CommitQuestion, InsertAnswer, CommitAnswer
  <1>3. ASSUME NEW s \in Req, Cite(s) \/ Fail(s) \/ Disconnect(s)
        PROVE  task' = task \/ task' = [task EXCEPT ![s] = TaskAt("load")]
    BY <1>3 DEF Cite, Fail, Disconnect, Finish
  <1>4. ASSUME NEW s \in Req, SaveSummary(s) \/ FailTask(s)
        PROVE  \E stage \in {"done", "undid", "failed"} :
                  task' = [task EXCEPT ![s] = TaskAt(stage)]
    BY <1>4 DEF SaveSummary, FailTask, SetTask
  <1>5. ASSUME NEW s \in Req, s # r, LoadSummary(s) \/ ChooseFold(s)
        PROVE  task'[r] = task[r]
    BY <1>5 DEF LoadSummary, ChooseFold, SetTask, TypeOK
  <1>6. ASSUME Crash PROVE task'[r] = task[r] \/ task'[r] = TaskAt("lost")
    BY <1>6 DEF Crash
  <1>7. CASE Delete \/ UNCHANGED vars
    BY <1>7 DEF Delete, vars
  <1> QED
    BY <1>1, <1>2, <1>3, <1>4, <1>5, <1>6, <1>7 DEF Next, Serve, Summarize, TypeOK

\* A deleted conversation never comes back.
LEMMA StaysDeleted ==
  ASSUME TypeOK, [Next]_vars, conv'.live
  PROVE  conv.live /\ ~Delete
  <1>1. ~Delete
    BY DEF Delete
  <1>2. ASSUME NEW r \in Req, SaveSummary(r) PROVE conv.live
    BY <1>2 DEF SaveSummary
  <1> QED
    BY <1>1, <1>2, RowKinds

\* Messages are added to those that are there, whose roles stay; what is added
\* below another message is late.
Grows ==
    /\ users \subseteq users' /\ answers \subseteq answers' /\ late \subseteq late'
    /\ \A m \in Committed : m \in users' <=> m \in users
    /\ \A m \in Committed' \ Committed, k \in Committed : m < k => m \in late'

\* The ids of open INSERTs are new and differ, as long as the conversation is there.
Pending == PendingIsNew /\ PendingDiffers

\* As long as the conversation is there, every step lets the past grow.
LEMMA StepGrows ==
  ASSUME TypeOK, Pending, [Next]_vars, ~Delete
  PROVE  Grows /\ Pending'
  <1>1. ASSUME NEW r \in Req, Inserting(r)
        PROVE  PendingId(r) \in Ids
    BY DEF PendingId, TypeOK
  <1>2. nextId \notin Ids /\ Committed \subseteq Ids
    BY DEF TypeOK, Ids, Committed
  <1>3. CASE Quiet
    <2>1. Pending'
      BY <1>3 DEF Quiet, Pending, PendingIsNew, PendingDiffers, Committed
    <2> QED
      BY <1>3, <2>1 DEF Quiet, Grows, Committed
  <1>4. ASSUME NEW r \in Req, Opens(r) PROVE Grows /\ Pending'
    <2>1. Committed' = Committed
      BY <1>4 DEF Opens, Committed
    <2>2. \A s \in Req : Inserting(s)' =>
            \/ s = r /\ PendingId(s)' = nextId
            \/ s # r /\ Inserting(s) /\ PendingId(s)' = PendingId(s) /\ PendingId(s)' \in Ids
      BY <1>1, <1>4 DEF Opens, OthersInsert
    <2>3. PendingIsNew'
      BY <1>2, <2>1, <2>2 DEF PendingIsNew, Pending
    <2>4. PendingDiffers'
      BY <1>2, <2>2 DEF PendingDiffers, Pending
    <2> QED
      BY <1>4, <2>1, <2>3, <2>4 DEF Opens, Grows, Pending
  <1>5. ASSUME NEW r \in Req, Closes(r) PROVE Grows /\ Pending'
    <2> DEFINE m == PendingId(r)
    <2>1. Committed' = Committed \cup {m} /\ m \notin Committed
      BY <1>5 DEF Closes, Committed, Pending, PendingIsNew
    <2>2. \A s \in Req : Inserting(s)' =>
            s # r /\ Inserting(s) /\ PendingId(s)' = PendingId(s)
      BY <1>5 DEF Closes, OthersInsert
    <2>3. Pending'
      BY <1>5, <2>1, <2>2 DEF Closes, Pending, PendingIsNew, PendingDiffers
    <2>4. Grows
      BY <1>5, <2>1 DEF Closes, Arrives, Grows, Committed
    <2> QED
      BY <2>3, <2>4
  <1> QED
    BY <1>3, <1>4, <1>5, StepKinds

\* What a summary covers it still covers when the past has grown.
LEMMA CoversKept ==
  ASSUME TypeOK, TypeOK', Numbers', Grows, NEW s, NEW u \in Ids, Covers(s, u)
  PROVE  Covers(s, u)'
  <1>1. Committed \subseteq Committed'
    BY DEF Grows, Committed
  <1>2. ASSUME NEW m \in Committed', m <= u, m \notin s PROVE m \in late'
    <2>1. CASE m \in Committed
      BY <1>2, <2>1 DEF Covers, Grows
    <2>2. CASE m \notin Committed
      <3>1. m \in Nat /\ u \in Nat /\ m # 0
        <4>1. m # 0
          BY <1>2 DEF Numbers
        <4>2. m \in Ids'
          BY <1>2 DEF TypeOK, Committed
        <4> QED
          BY <4>1, <4>2 DEF Ids, TypeOK
      <3>2. u \in Committed
        BY <1>2, <3>1 DEF Covers
      <3>3. m < u
        BY <1>2, <2>2, <3>1, <3>2
      <3> QED
        BY <2>2, <3>2, <3>3 DEF Grows
    <2> QED
      BY <2>1, <2>2
  <1> QED
    BY <1>1, <1>2 DEF Covers

-----------------------------------------------------------------------------
(* The summary is exact                                                    *)

\* Extending an exact summary by a fold of the window behind it is exact again.
LEMMA FoldCovers ==
  ASSUME TypeOK, NEW s, NEW u \in Ids, Covers(s, u),
         NEW last \in ToFold(Unsummarized(u)),
         \A m \in ToFold(Unsummarized(u)) : m <= last
  PROVE  Covers(s \cup ToFold(Unsummarized(u)), last)
  <1> DEFINE W == Unsummarized(u)
             fold == ToFold(W)
  <1>1. W \subseteq Committed /\ Committed \subseteq Ids
    BY DEF Unsummarized, Committed, TypeOK
  <1>2. fold \subseteq W
    BY DEF ToFold, Folded
  <1>3. last \in Committed /\ u < last
    BY <1>2 DEF Unsummarized
  <1>4. \A m \in W : m <= last => m \in fold
    BY <1>1, FoldIsInitial DEF TypeOK
  <1>5. ASSUME NEW m \in Committed, m <= last, m \notin s \cup fold PROVE m \in late
    <2>1. m <= u
      BY <1>1, <1>4, <1>5 DEF Unsummarized, Ids, TypeOK
    <2> QED
      BY <1>5, <2>1 DEF Covers
  <1>6. ASSUME NEW m \in s PROVE m \in Committed /\ m <= last
    <2>1. m \in Committed /\ m <= u
      BY <1>6 DEF Covers
    <2> QED
      BY <1>1, <1>3, <2>1 DEF Ids, TypeOK
  <1>7. \A m \in fold : m \in Committed /\ m <= last
    BY <1>1, <1>2
  <1> QED
    BY <1>3, <1>5, <1>6, <1>7 DEF Covers

\* What the row and a task hold is in the types.
LEMMA UptosAreIds ==
  ASSUME TypeOK
  PROVE  /\ conv.upto \in Ids
         /\ \A r \in Req : task[r].upto \in Ids /\ task[r].newUpto \in Ids
  BY DEF TypeOK, Conversations, Tasks

\* What a task reads, or chooses to save, covers as much as what it is made from.
LEMMA TaskCovers ==
  ASSUME TypeOK, TypeOK', Numbers', Grows, FoldInvariant, conv.live, [Next]_vars,
         NEW r \in Req
  PROVE  /\ task'[r].at \in {"read", "fold"} => Covers(task[r].summary, task[r].upto)'
         /\ task'[r].at = "fold" =>
                Covers(task[r].summary \cup task[r].folded, task[r].newUpto)'
  <1> SUFFICES ASSUME task'[r].at \in {"read", "fold"}
               PROVE  /\ Covers(task[r].summary, task[r].upto)'
                      /\ task'[r].at = "fold" =>
                           Covers(task[r].summary \cup task[r].folded, task[r].newUpto)'
    OBVIOUS
  <1> DEFINE Held(t) == /\ Covers(t.summary, t.upto) /\ t.upto \in Ids
                        /\ t.at = "fold" =>
                             Covers(t.summary \cup t.folded, t.newUpto) /\ t.newUpto \in Ids
  <1>1. Held(task'[r])
    <2>1. CASE task'[r] = task[r]
      BY <2>1, UptosAreIds DEF FoldInvariant, TasksCover
    <2>2. CASE LoadSummary(r)
      <3>1. /\ task'[r].at = "read"
            /\ task'[r].summary = conv.summary /\ task'[r].upto = conv.upto
        BY <2>2 DEF LoadSummary, SetTask, TaskAt, TypeOK
      <3> QED
        BY <3>1, UptosAreIds DEF FoldInvariant
    <2>3. CASE ChooseFold(r)
      <3> DEFINE fold == ToFold(Unsummarized(task[r].upto))
      <3>1. task[r].at = "read" /\ task[r].upto \in Ids
            /\ Covers(task[r].summary, task[r].upto)
        BY <2>3, UptosAreIds DEF ChooseFold, FoldInvariant, TasksCover
      <3>2. CASE fold = {}
        <4>1. task'[r] = TaskAt("done")
          BY <2>3, <3>2 DEF ChooseFold, SetTask, TypeOK
        <4> QED
          BY <4>1 DEF TaskAt
      <3>3. CASE fold # {}
        <4>1. PICK last \in fold :
                /\ \A m \in fold : m <= last
                /\ SetTask(r, [task[r] EXCEPT !.at = "fold", !.folded = fold,
                                              !.newUpto = last])
          BY <2>3, <3>3 DEF ChooseFold
        <4>2. /\ task'[r].at = "fold" /\ task'[r].folded = fold /\ task'[r].newUpto = last
              /\ task'[r].summary = task[r].summary /\ task'[r].upto = task[r].upto
          BY <4>1 DEF SetTask, TypeOK, Tasks
        <4>3. Covers(task[r].summary \cup fold, last)
          BY <3>1, <4>1, FoldCovers
        <4>4. last \in Ids
          BY DEF ToFold, Folded, Unsummarized, Committed, TypeOK
        <4> QED
          BY <3>1, <4>2, <4>3, <4>4
      <3> QED
        BY <3>2, <3>3
    <2> QED
      BY <2>1, <2>2, <2>3, TaskKinds
  <1> DEFINE s == task'[r].summary
             f == task'[r].folded
             u == task'[r].upto
             n == task'[r].newUpto
  <1>2. Covers(s, u) /\ u \in Ids /\ (task'[r].at = "fold" => Covers(s \cup f, n) /\ n \in Ids)
    BY <1>1
  <1>3. \A S, k : Covers(S, k) /\ k \in Ids => Covers(S, k)'
    BY CoversKept
  <1>4. \A S, k : Covers(S, k)' <=>
                    /\ S \subseteq {m \in Committed' : m <= k}
                    /\ {m \in Committed' : m <= k} \ S \subseteq late'
                    /\ k = 0 \/ k \in Committed'
    BY DEF Covers
  <1>5. Covers(task[r].summary, task[r].upto)'
    <2>1. /\ s \subseteq {m \in Committed' : m <= u}
          /\ {m \in Committed' : m <= u} \ s \subseteq late'
          /\ u = 0 \/ u \in Committed'
      BY <1>2, <1>3, <1>4
    <2> QED
      BY <2>1 DEF Covers
  <1>6. ASSUME task'[r].at = "fold"
        PROVE  Covers(task[r].summary \cup task[r].folded, task[r].newUpto)'
    <2>1. Covers(s \cup f, n) /\ n \in Ids
      BY <1>2, <1>6
    <2>2. /\ (s \cup f) \subseteq {m \in Committed' : m <= n}
          /\ {m \in Committed' : m <= n} \ (s \cup f) \subseteq late'
          /\ n = 0 \/ n \in Committed'
      BY <2>1, <1>3, <1>4
    <2> QED
      BY <2>2 DEF Covers
  <1> QED
    BY <1>5, <1>6

\* So does the row.
LEMMA RowCovers ==
  ASSUME TypeOK, TypeOK', Numbers', Grows, FoldInvariant, conv.live, conv'.live, [Next]_vars
  PROVE  Covers(conv.summary, conv.upto)'
  <1>1. \A S, k : Covers(S, k) /\ k \in Ids => Covers(S, k)'
    BY CoversKept
  <1>2. \E S, k : Covers(S, k) /\ k \in Ids /\ conv'.summary = S /\ conv'.upto = k
    <2>1. CASE conv' = conv
      BY <2>1, UptosAreIds DEF FoldInvariant
    <2>2. ASSUME NEW r \in Req, SaveSummary(r)
          PROVE  /\ Covers(task[r].summary \cup task[r].folded, task[r].newUpto)
                 /\ task[r].newUpto \in Ids
                 /\ conv'.summary = task[r].summary \cup task[r].folded
                 /\ conv'.upto = task[r].newUpto
      <3>1. task[r].at = "fold"
        BY <2>2 DEF SaveSummary
      <3>2. /\ conv'.summary = task[r].summary \cup task[r].folded
            /\ conv'.upto = task[r].newUpto
        BY <2>2 DEF SaveSummary, TypeOK, Conversations
      <3> QED
        BY <3>1, <3>2, UptosAreIds DEF FoldInvariant, TasksCover
    <2> QED
      BY <2>1, <2>2, RowKinds, StaysDeleted
  <1>3. \A S, k : Covers(S, k)' <=>
                    /\ S \subseteq {m \in Committed' : m <= k}
                    /\ {m \in Committed' : m <= k} \ S \subseteq late'
                    /\ k = 0 \/ k \in Committed'
    BY DEF Covers
  <1> QED
    BY <1>1, <1>2, <1>3 DEF Covers

\* A deleted conversation stays empty.
LEMMA EmptyStep ==
  ASSUME TypeOK, DeletedStaysEmpty, [Next]_vars
  PROVE  DeletedStaysEmpty'
  <1> SUFFICES ASSUME ~conv'.live
               PROVE  Committed' = {} /\ conv'.summary = {} /\ \A r \in Req : ~Inserting(r)'
    BY DEF DeletedStaysEmpty
  <1>1. CASE Delete
    BY <1>1 DEF Delete, Committed, Inserting
  <1>2. CASE ~Delete
    <2>1. ~conv.live /\ conv' = conv
      <3>1. ASSUME NEW r \in Req, SaveSummary(r) PROVE ~conv.live /\ conv' = conv
        BY <3>1 DEF SaveSummary, TypeOK, Conversations
      <3> QED
        BY <1>2, <3>1, RowKinds
    <2>2. Committed = {} /\ conv.summary = {} /\ \A r \in Req : ~Inserting(r)
      BY <2>1 DEF DeletedStaysEmpty
    <2>3. Quiet
      BY <1>2, <2>1, <2>2, StepKinds DEF Opens, Closes
    <2> QED
      BY <2>1, <2>2, <2>3 DEF Quiet, Committed
  <1> QED
    BY <1>1, <1>2

\* The exactness of the summary is inductive.
LEMMA FoldStep ==
  ASSUME TypeOK, TypeOK', Numbers', FoldInvariant, [Next]_vars
  PROVE  FoldInvariant'
  <1>1. DeletedStaysEmpty'
    BY EmptyStep DEF FoldInvariant
  <1>2. CASE Delete
    <2>1. \A r \in Req : ~Inserting(r)'
      BY <1>2 DEF Delete, Inserting
    <2>2. ~conv'.live
      BY <1>2 DEF Delete
    <2> QED
      BY <1>1, <2>1, <2>2 DEF FoldInvariant, PendingIsNew, PendingDiffers
  <1>3. CASE ~Delete
    <2>1. Grows /\ Pending'
      BY <1>3, StepGrows DEF FoldInvariant, Pending
    <2>2. ASSUME conv'.live
          PROVE  Covers(conv.summary, conv.upto)' /\ TasksCover'
      <3>1. conv.live
        BY <2>2, StaysDeleted
      <3>2. Covers(conv.summary, conv.upto)'
        BY <2>1, <2>2, <3>1, RowCovers
      <3>3. TasksCover'
        BY <2>1, <3>1, TaskCovers DEF TasksCover, Covers
      <3> QED
        BY <3>2, <3>3
    <2> QED
      BY <1>1, <2>1, <2>2 DEF FoldInvariant, Pending, Covers
  <1> QED
    BY <1>2, <1>3

\* FoldInvariant holds initially.
LEMMA FoldInit == Init => FoldInvariant
  <1> SUFFICES ASSUME Init PROVE FoldInvariant
    OBVIOUS
  <1>1. conv.live /\ conv.summary = {} /\ conv.upto = 0
    BY DEF Init, NewConversation
  <1>2. \A r \in Req : ~Inserting(r) /\ task[r].at = "none"
    BY DEF Init, Inserting, TaskAt
  <1>3. \A m \in Committed : ~(m <= 0)
    BY ParametersAssumption DEF Init, Committed, ParametersAssumption
  <1> QED
    BY <1>1, <1>2, <1>3 DEF FoldInvariant, PendingIsNew, PendingDiffers,
       DeletedStaysEmpty, Covers, TasksCover

\* However requests, overlapping INSERTs, background tasks, disconnects, failures,
\* deletions and crashes interleave, the row and everything the tasks hold cover
\* all messages up to their upto but late ones.
THEOREM FoldInvariantHolds == Spec => []FoldInvariant
  <1>1. TypeOK /\ TypeOK' /\ Numbers' /\ FoldInvariant /\ [Next]_vars => FoldInvariant'
    BY FoldStep
  <1> QED
    BY <1>1, FoldInit, TypeCorrect, NumbersHold, PTL DEF Spec

\* Summary and window partition the past, for any number of requests at once: no
\* message is in both, and only one that was committed behind a newer one can be
\* in neither.
THEOREM SummaryExact == Spec => []FoldedExactly
  <1>1. FoldInvariant => FoldedExactly
    BY DEF FoldInvariant, FoldedExactly, Covers
  <1> QED
    BY <1>1, FoldInvariantHolds, PTL

-----------------------------------------------------------------------------
(* The pipeline implements Recall                                          *)

\* What a summary covers is an initial segment but for late messages.
LEMMA CoversIsInitial ==
  ASSUME TypeOK, NEW s, NEW u \in Ids, Covers(s, u)
  PROVE  Recall!InitialSegment(s, Committed)
  <1>1. Committed \subseteq Nat /\ u \in Nat
    BY DEF Committed, Ids, TypeOK
  <1>2. \A p \in Committed \ (s \cup late) : u < p
    BY <1>1 DEF Covers
  <1>3. \A f \in s : f \in Committed /\ f <= u
    BY DEF Covers
  <1>4. ASSUME NEW f \in s, NEW p \in Committed \ (s \cup late) PROVE f < p
    <2>1. f \in Nat /\ p \in Nat /\ f <= u /\ u < p
      BY <1>1, <1>2, <1>3
    <2> QED
      BY <1>1, <2>1
  <1> QED
    BY <1>3, <1>4 DEF Recall!InitialSegment

\* Every step of the pipeline is a step of Recall or leaves it unchanged.
LEMMA StepRefines ==
  ASSUME TypeOK, FoldInvariant, [Next]_vars
  PROVE  [Recall!Next]_(Recall!vars)
  <1> DEFINE SameMessages == Committed' = Committed /\ late' = late
  <1>1. CASE Delete
    BY <1>1 DEF Delete, Committed, Recall!Forget, Recall!Next
  <1>2. ASSUME NEW r \in Req, Closes(r) PROVE Recall!Remember
    <2>1. conv.live
      BY <1>2 DEF Closes, FoldInvariant, DeletedStaysEmpty
    <2>2. /\ Committed' = Committed \cup {PendingId(r)} /\ PendingId(r) \notin Committed
          /\ late' = IF \E k \in Committed : PendingId(r) < k
                     THEN late \cup {PendingId(r)} ELSE late
      BY <1>2 DEF Closes, Arrives, Committed, FoldInvariant, PendingIsNew
    <2>3. conv' = conv
      BY <1>2 DEF Closes
    <2> QED
      BY <2>1, <2>2, <2>3 DEF Recall!Remember
  <1>3. ASSUME SameMessages, ~Delete PROVE Recall!Fold \/ UNCHANGED Recall!vars
    <2>1. CASE conv' = conv
      BY <1>3, <2>1 DEF Recall!vars
    <2>2. ASSUME NEW r \in Req, SaveSummary(r), conv.live PROVE Recall!Fold
      <3>1. /\ Covers(task[r].summary \cup task[r].folded, task[r].newUpto)
            /\ task[r].newUpto \in Ids
        BY <2>2, UptosAreIds DEF SaveSummary, FoldInvariant, TasksCover
      <3>2. /\ conv'.summary = task[r].summary \cup task[r].folded
            /\ conv'.live = conv.live
        BY <2>2 DEF SaveSummary, TypeOK, Conversations
      <3>3. Recall!InitialSegment(conv'.summary, Committed)
        BY <3>1, <3>2, CoversIsInitial
      <3> QED
        BY <1>3, <2>2, <3>2, <3>3 DEF Recall!Fold
    <2>3. ASSUME NEW r \in Req, SaveSummary(r), ~conv.live PROVE conv' = conv
      BY <2>3 DEF SaveSummary
    <2> QED
      BY <1>3, <2>1, <2>2, <2>3, RowKinds
  <1>4. ASSUME Quiet \/ \E r \in Req : Opens(r) PROVE SameMessages
    BY <1>4 DEF Quiet, Opens, Committed
  <1> QED
    BY <1>1, <1>2, <1>3, <1>4, StepKinds DEF Recall!Next

\* Every behaviour of the pipeline is a behaviour of Recall: messages are added,
\* the summary always stands for what the past begins with, but for messages that
\* came late, and the two go together.
THEOREM ImplementsRecall == Spec => RecallSpec
  <1>1. Init => Recall!Init
    BY DEF Init, NewConversation, Recall!Init
  <1>2. TypeOK /\ FoldInvariant /\ [Next]_vars => [Recall!Next]_(Recall!vars)
    BY StepRefines
  <1> QED
    BY <1>1, <1>2, TypeCorrect, FoldInvariantHolds, PTL
    DEF Spec, RecallSpec, Recall!Spec

-----------------------------------------------------------------------------
(* No message is summarized twice                                          *)

\* No summary, of the row or of a task, holds a message behind its upto, and a
\* fold holds only messages behind the upto it was read with.
NothingBehindUpto ==
    /\ \A m \in conv.summary : m <= conv.upto
    /\ \A r \in Req :
         /\ \A m \in task[r].summary : m <= task[r].upto
         /\ \A m \in task[r].folded :
              task[r].upto < m /\ m <= task[r].newUpto
         /\ task[r].at = "fold" => task[r].folded # {}

\* The part of it that is about one task.
TaskBehind(t) ==
    /\ \A m \in t.summary : m <= t.upto
    /\ \A m \in t.folded : t.upto < m /\ m <= t.newUpto
    /\ t.at = "fold" => t.folded # {}

\* A task that holds nothing satisfies it, unless it claims to have a fold.
LEMMA EmptyTaskBehind == \A stage \in TaskStages \ {"fold"} : TaskBehind(TaskAt(stage))
  BY DEF TaskBehind, TaskAt

\* Every step keeps NothingBehindUpto.
LEMMA BehindStep ==
  ASSUME TypeOK, NothingBehindUpto, [Next]_vars
  PROVE  NothingBehindUpto'
  <1> SUFFICES /\ \A m \in conv'.summary : m <= conv'.upto
               /\ \A r \in Req : TaskBehind(task'[r])
    BY DEF NothingBehindUpto, TaskBehind
  <1>1. /\ \A m \in conv.summary : m <= conv.upto
        /\ \A r \in Req : TaskBehind(task[r])
    BY DEF NothingBehindUpto, TaskBehind
  <1>2. ASSUME conv' = conv, NEW r \in Req, NEW t, TaskBehind(t),
               task' = [task EXCEPT ![r] = t]
        PROVE  /\ \A m \in conv'.summary : m <= conv'.upto
               /\ \A s \in Req : TaskBehind(task'[s])
    BY <1>1, <1>2 DEF TypeOK
  <1>3. ASSUME conv' = conv, task' = task
        PROVE  /\ \A m \in conv'.summary : m <= conv'.upto
               /\ \A s \in Req : TaskBehind(task'[s])
    BY <1>1, <1>3
  <1>4. \A stage \in {"load", "done", "undid", "failed", "lost"} : TaskBehind(TaskAt(stage))
    BY EmptyTaskBehind DEF TaskStages
  <1>5. ASSUME NEW r \in Req,
               \/ Start(r) \/ Rewrite(r) \/ LoadContext(r) \/ LoadRecent(r)
               \/ InsertQuestion(r) \/ CommitQuestion(r)
               \/ InsertAnswer(r) \/ CommitAnswer(r)
        PROVE  conv' = conv /\ task' = task
    BY <1>5 DEF Start, Rewrite, LoadContext, LoadRecent, InsertQuestion,
       CommitQuestion, InsertAnswer, CommitAnswer
  <1>6. ASSUME NEW r \in Req, Cite(r) \/ Fail(r) \/ Disconnect(r)
        PROVE  /\ conv' = conv
               /\ task' = task \/ task' = [task EXCEPT ![r] = TaskAt("load")]
    BY <1>6 DEF Cite, Fail, Disconnect, Finish
  <1>7. ASSUME NEW r \in Req, LoadSummary(r)
        PROVE  conv' = conv /\ \E t : TaskBehind(t) /\ task' = [task EXCEPT ![r] = t]
    <2> DEFINE read == [TaskAt("read") EXCEPT !.summary = conv.summary, !.upto = conv.upto]
    <2>1. TaskBehind(read)
      BY <1>1 DEF TaskBehind, TaskAt
    <2> QED
      BY <1>4, <1>7, <2>1 DEF LoadSummary, SetTask
  <1>8. ASSUME NEW r \in Req, ChooseFold(r)
        PROVE  conv' = conv /\ \E t : TaskBehind(t) /\ task' = [task EXCEPT ![r] = t]
    <2> DEFINE fold == ToFold(Unsummarized(task[r].upto))
               choice(last) == [task[r] EXCEPT !.at = "fold", !.folded = fold,
                                               !.newUpto = last]
    <2>1. \A m \in fold : task[r].upto < m
      BY DEF ToFold, Folded, Unsummarized
    <2>2. ASSUME NEW last \in fold, \A m \in fold : m <= last
          PROVE  TaskBehind(choice(last))
      <3>1. /\ choice(last).at = "fold" /\ choice(last).folded = fold
            /\ choice(last).newUpto = last
            /\ choice(last).summary = task[r].summary
            /\ choice(last).upto = task[r].upto
        BY DEF TypeOK, Tasks
      <3> QED
        BY <1>1, <2>1, <2>2, <3>1 DEF TaskBehind
    <2> QED
      BY <1>4, <1>8, <2>2 DEF ChooseFold, SetTask
  <1>9. ASSUME NEW r \in Req, SaveSummary(r)
        PROVE  /\ \A m \in conv'.summary : m <= conv'.upto
               /\ \A s \in Req : TaskBehind(task'[s])
    <2>1. \A s \in Req : TaskBehind(task'[s])
      BY <1>1, <1>4, <1>9 DEF SaveSummary, SetTask, TypeOK
    <2>2. CASE ~conv.live
      BY <1>1, <1>9, <2>1, <2>2 DEF SaveSummary
    <2>3. CASE conv.live
      <3>1. /\ conv'.summary = task[r].summary \cup task[r].folded
            /\ conv'.upto = task[r].newUpto
        BY <1>9, <2>3 DEF SaveSummary, TypeOK, Conversations
      <3>2. /\ \A m \in task[r].summary : m <= task[r].upto
            /\ \A m \in task[r].folded : task[r].upto < m /\ m <= task[r].newUpto
            /\ task[r].folded # {}
        BY <1>1, <1>9 DEF SaveSummary, TaskBehind
      <3>3. task[r] \in Tasks
        BY DEF TypeOK
      <3>4. /\ task[r].upto \in Nat /\ task[r].newUpto \in Nat
            /\ task[r].summary \subseteq Nat /\ task[r].folded \subseteq Nat
        BY <3>3 DEF Tasks, Ids
      <3>5. task[r].upto <= task[r].newUpto
        BY <3>2, <3>4
      <3>6. \A m \in task[r].summary : m <= task[r].newUpto
        BY <3>2, <3>4, <3>5
      <3> QED
        BY <2>1, <3>1, <3>2, <3>6
    <2> QED
      BY <2>2, <2>3
  <1>10. ASSUME NEW r \in Req, FailTask(r)
         PROVE  conv' = conv /\ task' = [task EXCEPT ![r] = TaskAt("failed")]
    BY <1>10 DEF FailTask, SetTask
  <1>11. ASSUME Delete
         PROVE  /\ \A m \in conv'.summary : m <= conv'.upto
                /\ \A s \in Req : TaskBehind(task'[s])
    BY <1>1, <1>11 DEF Delete
  <1>12. ASSUME Crash
         PROVE  /\ \A m \in conv'.summary : m <= conv'.upto
                /\ \A s \in Req : TaskBehind(task'[s])
    BY <1>1, <1>4, <1>12 DEF Crash
  <1>13. CASE UNCHANGED vars
    BY <1>3, <1>13 DEF vars
  <1>14. ASSUME NEW r \in Req, Start(r) \/ Serve(r) \/ Disconnect(r)
         PROVE  /\ \A m \in conv'.summary : m <= conv'.upto
                /\ \A s \in Req : TaskBehind(task'[s])
    BY <1>2, <1>3, <1>4, <1>5, <1>6, <1>14 DEF Serve
  <1>15. ASSUME NEW r \in Req, Summarize(r)
         PROVE  /\ \A m \in conv'.summary : m <= conv'.upto
                /\ \A s \in Req : TaskBehind(task'[s])
    BY <1>2, <1>4, <1>7, <1>8, <1>9, <1>10, <1>15 DEF Summarize
  <1> QED
    BY <1>11, <1>12, <1>13, <1>14, <1>15 DEF Next

\* NothingBehindUpto holds initially.
LEMMA BehindInit == Init => NothingBehindUpto
  BY DEF Init, NewConversation, TaskAt, NothingBehindUpto

\* However INSERTs and folds overlap, no summarizer call is given a message that the
\* summary it extends covers already.
THEOREM FoldedOnce == Spec => []NothingFoldedTwice
  <1>1. TypeOK /\ NothingBehindUpto => NothingFoldedTwice
    <2> SUFFICES ASSUME TypeOK, NothingBehindUpto, NEW r \in Req,
                        NEW m \in task[r].summary, m \in task[r].folded
                 PROVE  FALSE
      BY DEF NothingFoldedTwice
    <2>1. m \in Nat /\ task[r].upto \in Nat
      BY DEF TypeOK, Tasks, Ids
    <2> QED
      BY <2>1 DEF NothingBehindUpto
  <1>2. TypeOK /\ NothingBehindUpto /\ [Next]_vars => NothingBehindUpto'
    BY BehindStep
  <1> QED
    BY <1>1, <1>2, BehindInit, TypeCorrect, PTL DEF Spec

-----------------------------------------------------------------------------
(* What a prompt carries                                                   *)

\* A message of the past that a prompt leaves out, unless it lies between summary
\* and recent turns, came late.
LeavesOut(r, m) ==
    \/ TurnsAfter(prompt[r].past, m) >= RecentTurns
    \/ m <= prompt[r].upto /\ m \in late

\* What a request has read of the row is exact until it reads the messages.
PromptOK(r) ==
    /\ pc[r] = "recent" => Covers(prompt[r].summary, prompt[r].upto)
    /\ pc[r] \in Prompted =>
          /\ prompt[r].past \subseteq Committed
          /\ \A m \in prompt[r].past \ (prompt[r].summary \cup prompt[r].recent) :
                LeavesOut(r, m)

PromptsOK == conv.live => \A r \in Req : PromptOK(r)

\* Where turns start does not change for messages whose roles stay.
LEMMA SameTurns ==
  ASSUME Grows, NEW M \in SUBSET Committed
  PROVE  {m \in M : m \in users' \/ \A k \in M : m <= k} = Starts(M)
  BY DEF Grows, Starts

\* A request that does not read anything new keeps what it has.
LEMMA PromptKept ==
  ASSUME TypeOK, TypeOK', Numbers', Grows, NEW r \in Req, PromptOK(r),
         \/ pc'[r] \notin {"recent"} \cup Prompted
         \/ /\ prompt'[r] = prompt[r]
            /\ pc'[r] = "recent" => pc[r] = "recent"
            /\ pc'[r] \in Prompted => pc[r] \in Prompted
  PROVE  PromptOK(r)'
  <1>1. "recent" \notin Prompted
    BY DEF Prompted, Shielded
  <1>2. ASSUME pc'[r] = "recent" PROVE Covers(prompt[r].summary, prompt[r].upto)'
    <2>1. prompt'[r] = prompt[r] /\ Covers(prompt[r].summary, prompt[r].upto)
      BY <1>2 DEF PromptOK
    <2>2. prompt[r].upto \in Ids
      BY DEF TypeOK, Prompts
    <2>3. \A S, k : Covers(S, k) /\ k \in Ids => Covers(S, k)'
      BY CoversKept
    <2> QED
      BY <2>1, <2>2, <2>3 DEF Covers
  <1>3. ASSUME pc'[r] \in Prompted
        PROVE  /\ prompt'[r].past \subseteq Committed'
               /\ \A m \in prompt'[r].past \ (prompt'[r].summary \cup prompt'[r].recent) :
                     LeavesOut(r, m)'
    <2>1. /\ prompt'[r] = prompt[r] /\ prompt[r].past \subseteq Committed
          /\ \A m \in prompt[r].past \ (prompt[r].summary \cup prompt[r].recent) :
                LeavesOut(r, m)
      BY <1>1, <1>3 DEF PromptOK
    <2> DEFINE M == prompt[r].past
    <2>2. {m \in M : m \in users' \/ \A k \in M : m <= k} = Starts(M)
      BY <2>1, SameTurns
    <2>3. M' = M
      BY <2>1
    <2>4. Starts(M)' = Starts(M)
      BY <2>2, <2>3 DEF Starts
    <2>5. \A m : TurnsAfter(M, m)' = TurnsAfter(M, m)
      BY <2>4 DEF TurnsAfter
    <2> QED
      BY <2>1, <2>5 DEF Grows, LeavesOut, Committed
  <1> QED
    BY <1>2, <1>3 DEF PromptOK

\* The last turns of a window are as new in the whole past.
LEMMA WindowTurns ==
  ASSUME TypeOK, NEW u \in Ids, NEW m \in Unsummarized(u),
         m \notin LastTurns(Unsummarized(u), RecentTurns)
  PROVE  TurnsAfter(Committed, m) >= RecentTurns
  <1> DEFINE W == Unsummarized(u)
             inWindow == {s \in Starts(W) : s > m}
             inPast == {s \in Starts(Committed) : s > m}
  <1>1. Committed \subseteq Ids /\ W \subseteq Committed /\ Ids \subseteq Nat
    BY DEF Unsummarized, Committed, TypeOK, Ids
  <1>2. ASSUME NEW s \in inWindow PROVE s \in inPast
    <2>1. s \in W /\ s \in Nat /\ m \in Nat /\ s > m
      BY <1>1 DEF Starts
    <2>2. ~(s <= m)
      BY <2>1
    <2>3. s \in users
      BY <2>2 DEF Starts
    <2> QED
      BY <1>1, <2>1, <2>3 DEF Starts
  <1>3. IsFiniteSet(inPast) /\ IsFiniteSet(inWindow)
    BY <1>1, IdsFinite DEF Starts, TypeOK
  <1>4. /\ Cardinality(inWindow) <= Cardinality(inPast)
        /\ Cardinality(inWindow) \in Nat /\ Cardinality(inPast) \in Nat
    BY <1>2, <1>3, FS_Subset, FS_CardinalityType
  <1>5. ~(Cardinality(inWindow) < RecentTurns)
    BY DEF LastTurns, TurnsAfter
  <1> QED
    BY <1>4, <1>5, ParametersAssumption DEF TurnsAfter, ParametersAssumption

\* Every step keeps what the prompts carry.
LEMMA PromptStep ==
  ASSUME TypeOK, TypeOK', Numbers', FoldInvariant, PromptsOK, [Next]_vars
  PROVE  PromptsOK'
  <1> SUFFICES ASSUME conv'.live, NEW r \in Req PROVE PromptOK(r)'
    BY DEF PromptsOK
  <1>1. Grows /\ conv.live
    BY StaysDeleted, StepGrows DEF FoldInvariant, Pending
  <1>2. PromptOK(r)
    BY <1>1 DEF PromptsOK
  <1>3. ASSUME NEW s \in Req, LoadContext(s) PROVE PromptOK(r)'
    <2>1. CASE s = r
      <3>1. /\ pc'[r] = "recent" /\ prompt'[r].summary = conv.summary
            /\ prompt'[r].upto = conv.upto
        BY <1>3, <2>1 DEF LoadContext, Goto, NoPrompt, TypeOK
      <3>2. Covers(conv.summary, conv.upto)
        BY <1>1 DEF FoldInvariant
      <3>3. UNCHANGED <<users, answers, late>>
        BY <1>3 DEF LoadContext
      <3>4. Covers(prompt[r].summary, prompt[r].upto)'
        BY <3>1, <3>2, <3>3 DEF Covers, Committed
      <3> QED
        BY <3>1, <3>4 DEF PromptOK, Prompted, Shielded
    <2>2. CASE s # r
      BY <1>1, <1>2, <1>3, <2>2, PromptKept DEF LoadContext, Goto, TypeOK
    <2> QED
      BY <2>1, <2>2
  <1>4. ASSUME NEW s \in Req, LoadRecent(s) PROVE PromptOK(r)'
    <2>1. CASE s = r
      <3>1. /\ pc'[r] = "ask" /\ prompt'[r].summary = prompt[r].summary
            /\ prompt'[r].upto = prompt[r].upto
            /\ prompt'[r].recent = LastTurns(Unsummarized(prompt[r].upto), RecentTurns)
            /\ prompt'[r].past = Committed
        BY <1>4, <2>1 DEF LoadRecent, Goto, TypeOK, Prompts
      <3>2. Covers(prompt[r].summary, prompt[r].upto)
        BY <1>2, <1>4, <2>1 DEF LoadRecent, PromptOK
      <3>3. prompt[r].upto \in Ids /\ prompt[r].upto \in Nat /\ Committed \subseteq Nat
        BY DEF TypeOK, Prompts, Ids, Committed
      <3>4. ASSUME NEW m \in Committed,
                   m \notin prompt[r].summary,
                   m \notin LastTurns(Unsummarized(prompt[r].upto), RecentTurns)
            PROVE  \/ TurnsAfter(Committed, m) >= RecentTurns
                   \/ m <= prompt[r].upto /\ m \in late
        <4>1. CASE m <= prompt[r].upto
          BY <3>2, <3>4, <4>1 DEF Covers
        <4>2. CASE ~(m <= prompt[r].upto)
          <5>1. m \in Unsummarized(prompt[r].upto)
            BY <3>3, <4>2 DEF Unsummarized
          <5> QED
            BY <3>3, <3>4, <5>1, WindowTurns
        <4> QED
          BY <4>1, <4>2
      <3>5. UNCHANGED <<users, answers, late>>
        BY <1>4 DEF LoadRecent
      <3>6. \A M, m : TurnsAfter(M, m)' = TurnsAfter(M, m)
        BY <3>5 DEF TurnsAfter, Starts
      <3>7. \A m \in prompt'[r].past \ (prompt'[r].summary \cup prompt'[r].recent) :
              LeavesOut(r, m)'
        BY <3>1, <3>4, <3>5, <3>6 DEF LeavesOut
      <3> QED
        BY <3>1, <3>5, <3>7 DEF PromptOK, Committed
    <2>2. CASE s # r
      BY <1>1, <1>2, <1>4, <2>2, PromptKept DEF LoadRecent, Goto, TypeOK
    <2> QED
      BY <2>1, <2>2
  <1>5. ASSUME NEW s \in Req,
               \/ Start(s) \/ Rewrite(s) \/ InsertQuestion(s) \/ CommitQuestion(s)
               \/ InsertAnswer(s) \/ CommitAnswer(s)
        PROVE  PromptOK(r)'
    <2>1. /\ prompt' = prompt
          /\ pc'[r] = pc[r] \/ (pc'[r] \in Prompted /\ pc[r] \in Prompted)
                \/ pc'[r] \notin {"recent"} \cup Prompted
      BY <1>5 DEF Start, Rewrite, InsertQuestion, CommitQuestion, InsertAnswer,
                  CommitAnswer, Goto, Prompted, Shielded, TypeOK
    <2>2. "recent" \notin Prompted
      BY DEF Prompted, Shielded
    <2> QED
      BY <1>1, <1>2, <2>1, <2>2, PromptKept
  <1>6. ASSUME NEW s \in Req, Cite(s) \/ Fail(s) \/ Disconnect(s) PROVE PromptOK(r)'
    <2>1. \/ pc' = pc /\ prompt' = prompt
          \/ \E outcome \in Over : Finish(s, outcome)
      BY <1>6 DEF Cite, Fail, Disconnect, Over
    <2>2. \/ pc'[r] = pc[r] /\ prompt'[r] = prompt[r]
          \/ pc'[r] \in Over
      BY <2>1 DEF Finish, Goto, TypeOK
    <2>3. \A outcome \in Over : outcome \notin {"recent"} \cup Prompted
      BY DEF Over, Prompted, Shielded
    <2> QED
      BY <1>1, <1>2, <2>2, <2>3, PromptKept
  <1>7. ASSUME NEW s \in Req, Summarize(s) PROVE PromptOK(r)'
    <2>1. pc' = pc /\ prompt' = prompt
      BY <1>7 DEF Summarize, LoadSummary, ChooseFold, SaveSummary, FailTask
    <2> QED
      BY <1>1, <1>2, <2>1, PromptKept
  <1>8. ~Delete
    BY DEF Delete
  <1>9. ASSUME Crash PROVE PromptOK(r)'
    <2>1. pc'[r] \notin {"recent"} \cup Prompted
      BY <1>9 DEF Crash, InProgress, Attaching, Shielded, Prompted
    <2> QED
      BY <1>1, <1>2, <2>1, PromptKept
  <1>10. CASE UNCHANGED vars
    <2>1. pc' = pc /\ prompt' = prompt
      BY <1>10 DEF vars
    <2> QED
      BY <1>1, <1>2, <2>1, PromptKept
  <1> QED
    BY <1>3, <1>4, <1>5, <1>6, <1>7, <1>8, <1>9, <1>10 DEF Next, Serve

\* A prompt misses nothing newer than its RecentTurns newest turns, and of what is
\* older only what lies between its summary and those, or came late: for any number
\* of requests and any three parameters, also when folds are saved between the two
\* reads.
THEOREM PromptKeepsNewest == Spec => []NewestTurnsInPrompt
  <1>1. Init => PromptsOK
    BY DEF Init, PromptsOK, PromptOK, Prompted, Shielded
  <1>2. TypeOK /\ TypeOK' /\ Numbers' /\ FoldInvariant /\ PromptsOK /\ [Next]_vars
        => PromptsOK'
    BY PromptStep
  <1>3. PromptsOK => NewestTurnsInPrompt
    BY DEF PromptsOK, PromptOK, NewestTurnsInPrompt, LeavesOut
  <1> QED
    BY <1>1, <1>2, <1>3, TypeCorrect, NumbersHold, FoldInvariantHolds, PTL DEF Spec

-----------------------------------------------------------------------------
(* Turns are folded whole                                                  *)

\* No message is a question and an answer.
Roles == users \cap answers = {}

\* u is not the newest message, and parts no question from the answer next to it.
Parts(u) ==
    /\ u = 0 \/ \E m \in Committed : u < m
    /\ \A r \in Req : Pair(r) => (qid[r] <= u <=> aid[r] <= u)

\* Every place a fold was or will be made up to is such a one.
TurnsInv ==
    /\ Roles
    /\ conv.live =>
         /\ Parts(conv.upto)
         /\ \A r \in Req :
              /\ task[r].at \in {"read", "fold"} => Parts(task[r].upto)
              /\ task[r].at = "fold" => Parts(task[r].newUpto)

\* The type facts the arithmetic of these proofs needs.
LEMMA IdsAreNumbers ==
  ASSUME TypeOK
  PROVE  /\ Ids \subseteq Nat /\ users \subseteq Nat /\ answers \subseteq Nat
         /\ Committed \subseteq Nat
         /\ \A r \in Req : qid[r] \in Nat /\ aid[r] \in Nat
  BY DEF TypeOK, Ids, Committed

\* A pair is new only by the commit of its answer behind everything else.
LEMMA NewPair ==
  ASSUME TypeOK, TypeOK', Numbers, Numbers', Pending, Roles, ~Delete, [Next]_vars,
         NEW r \in Req, Pair(r)'
  PROVE  \/ Pair(r) /\ qid'[r] = qid[r] /\ aid'[r] = aid[r]
         \/ /\ qid'[r] \in Committed
            /\ \A k \in Committed : k < aid'[r]
  <1>1. /\ qid'[r] \in users' /\ aid'[r] \in answers' /\ aid'[r] \notin late'
        /\ qid'[r] < aid'[r]
        /\ ~\E m \in Committed' : qid'[r] < m /\ m < aid'[r]
    BY DEF Pair
  <1>2. Grows
    BY StepGrows
  <1>3. Committed \subseteq Committed'
    BY <1>2 DEF Grows, Committed
  <1>4. ASSUME qid'[r] = qid[r], aid'[r] = aid[r], qid[r] \in users, aid[r] \in answers
        PROVE  Pair(r)
    BY <1>1, <1>2, <1>3, <1>4 DEF Pair, Grows
  <1>5. CASE UNCHANGED <<users, answers>>
    <2>1. /\ qid'[r] \in users /\ aid'[r] \in answers
      BY <1>1, <1>5
    <2>2. nextId \notin Ids
      BY DEF TypeOK, Ids
    <2>3. (qid'[r] = qid[r] \/ qid'[r] = nextId) /\ (aid'[r] = aid[r] \/ aid'[r] = nextId)
      BY DEF Next, Serve, Summarize, Start, Rewrite, LoadContext, LoadRecent,
         InsertQuestion, CommitQuestion, InsertAnswer, CommitAnswer, Cite, Fail,
         Disconnect, LoadSummary, ChooseFold, SaveSummary, FailTask, Delete, Crash,
         vars, TypeOK
    <2> QED
      BY <1>4, <2>1, <2>2, <2>3 DEF TypeOK
  <1>6. ASSUME NEW s \in Req, Closes(s), qid' = qid, aid' = aid
        PROVE  \/ Pair(r)
               \/ qid[r] \in Committed /\ \A k \in Committed : k < aid[r]
    <2> DEFINE m == PendingId(s)
    <2>1. m \notin Committed
      BY <1>6 DEF Closes, Pending, PendingIsNew
    <2>2. CASE users' = users /\ answers' = answers \cup {m}
      <3>1. qid[r] \in users /\ qid[r] \in Committed
        BY <1>1, <1>6, <2>2 DEF Committed
      <3>2. CASE aid[r] \in answers
        BY <1>4, <1>6, <3>1, <3>2
      <3>3. CASE aid[r] = m
        <4>1. \A k \in Committed : ~(m < k)
          BY <1>1, <1>6, <3>3 DEF Closes, Arrives
        <4>2. \A k \in Committed : k \in Nat /\ k # m
          BY <2>1, IdsAreNumbers
        <4>3. m \in Nat
          BY <3>3, IdsAreNumbers
        <4> QED
          BY <3>1, <3>3, <4>1, <4>2, <4>3
      <3> QED
        BY <1>1, <1>6, <2>2, <3>2, <3>3
    <2>3. CASE users' = users \cup {m} /\ answers' = answers /\ pc[s] = "asking" /\ m = qid[s]
      <3>1. aid[r] \in answers
        BY <1>1, <1>6, <2>3
      <3>2. CASE qid[r] \in users
        BY <1>4, <1>6, <3>1, <3>2
      <3>3. CASE qid[r] = m
        <4>1. aid[s] = 0 /\ m # 0
          BY <1>6, <2>3 DEF Numbers, Unanswered, Closes
        <4>2. r = s
          BY <2>3, <3>3, <4>1 DEF Numbers
        <4>3. 0 \in answers
          BY <3>1, <4>1, <4>2
        <4> QED
          BY <4>3 DEF Numbers, Committed
      <3> QED
        BY <1>1, <1>6, <2>3, <3>2, <3>3
    <2> QED
      BY <1>6, <2>2, <2>3 DEF Closes
  <1>7. ASSUME NEW s \in Req, Closes(s) PROVE qid' = qid /\ aid' = aid
    <2>1. Committed' # Committed
      BY <1>7 DEF Closes, Committed, Pending, PendingIsNew
    <2>2. UNCHANGED <<qid, aid>> \/ UNCHANGED <<users, answers>>
      BY DEF Next, Serve, Summarize, Start, Rewrite, LoadContext, LoadRecent,
         InsertQuestion, CommitQuestion, InsertAnswer, CommitAnswer, Cite, Fail,
         Disconnect, LoadSummary, ChooseFold, SaveSummary, FailTask, Crash, vars
    <2> QED
      BY <2>1, <2>2 DEF Committed
  <1>8. ASSUME Quiet \/ \E s \in Req : Opens(s) PROVE UNCHANGED <<users, answers>>
    BY <1>8 DEF Quiet, Opens
  <1> QED
    BY <1>5, <1>6, <1>7, <1>8, StepKinds

\* Whatever parts no pair parts none that comes later.
LEMMA PartsKept ==
  ASSUME TypeOK, TypeOK', Numbers, Numbers', Pending, Roles, ~Delete, [Next]_vars,
         NEW u \in Ids, u = 0 \/ u \in Committed, Parts(u)
  PROVE  Parts(u)'
  <1>1. Grows
    BY StepGrows
  <1>2. u = 0 \/ \E m \in Committed' : u < m
    BY <1>1 DEF Parts, Grows, Committed
  <1>3. ASSUME NEW r \in Req, Pair(r)' PROVE qid'[r] <= u <=> aid'[r] <= u
    <2>1. CASE Pair(r) /\ qid'[r] = qid[r] /\ aid'[r] = aid[r]
      BY <2>1 DEF Parts
    <2>2. CASE qid'[r] \in Committed /\ \A k \in Committed : k < aid'[r]
      <3>1. /\ qid'[r] \in Nat /\ aid'[r] \in Nat /\ u \in Nat /\ Committed \subseteq Nat
        BY IdsAreNumbers DEF TypeOK, Ids
      <3>2. qid'[r] # 0
        BY <2>2 DEF Numbers
      <3>3. ~(aid'[r] <= u)
        BY <2>2, <3>1, <3>2
      <3>4. ASSUME qid'[r] <= u PROVE FALSE
        <4>1. PICK k \in Committed : u < k
          BY <3>1, <3>2, <3>4 DEF Parts
        <4>2. qid'[r] < k /\ k < aid'[r]
          BY <2>2, <3>1, <3>4, <4>1
        <4>3. k \in Committed'
          BY <1>1 DEF Grows, Committed
        <4> QED
          BY <1>3, <4>2, <4>3 DEF Pair
      <3> QED
        BY <3>3, <3>4
    <2> QED
      BY <1>3, <2>1, <2>2, NewPair
  <1> QED
    BY <1>2, <1>3 DEF Parts

\* A fold of a window that parts no pair ends where no pair is parted.
LEMMA FoldParts ==
  ASSUME TypeOK, Roles, NEW u \in Ids, Parts(u),
         NEW last \in ToFold(Unsummarized(u)),
         \A m \in ToFold(Unsummarized(u)) : m <= last
  PROVE  Parts(last)
  <1> DEFINE W == Unsummarized(u)
             fold == ToFold(W)
             after(m) == {s \in Starts(W) : s > m}
  <1>1. /\ u \in Nat /\ W \subseteq Committed /\ W \subseteq Ids /\ W \subseteq Nat
        /\ Committed \subseteq Nat
    BY IdsAreNumbers DEF Unsummarized, Committed, TypeOK
  <1>2. fold = W \ LastTurns(W, FoldTo) /\ last \in W /\ last > u
    BY DEF ToFold, Folded, Unsummarized
  <1>3. FoldTo \in Nat \ {0} /\ ~(Cardinality(after(last)) < FoldTo)
    BY <1>2, ParametersAssumption DEF LastTurns, TurnsAfter, ParametersAssumption
  <1>4. \E m \in Committed : last < m
    <2>1. after(last) # {}
      BY <1>3, FS_EmptySet
    <2>2. PICK s \in after(last) : TRUE
      BY <2>1
    <2> QED
      BY <1>1, <1>2, <2>2 DEF Starts
  <1>5. ASSUME NEW r \in Req, Pair(r) PROVE qid[r] <= last <=> aid[r] <= last
    <2>1. /\ qid[r] \in Nat /\ aid[r] \in Nat /\ last \in Nat
          /\ qid[r] < aid[r] /\ qid[r] \in users /\ aid[r] \in answers
          /\ qid[r] \in Committed /\ aid[r] \in Committed
          /\ \A m \in Committed : ~(qid[r] < m /\ m < aid[r])
      BY <1>1, <1>2, <1>5, IdsAreNumbers DEF Pair, Committed
    <2>2. ASSUME qid[r] <= last, ~(aid[r] <= last) PROVE FALSE
      <3>1. last = qid[r]
        BY <1>1, <1>2, <2>1, <2>2
      <3>2. aid[r] \in W /\ qid[r] \in W
        BY <1>1, <1>2, <2>1, <2>2, <3>1 DEF Unsummarized
      <3>3. aid[r] \notin Starts(W)
        BY <2>1, <3>2 DEF Starts, Roles
      <3>4. after(aid[r]) = after(last)
        <4>1. \A s \in Starts(W) : s \in Nat /\ s \in Committed
          BY <1>1 DEF Starts
        <4>2. \A s \in Starts(W) : s > last <=> s > aid[r]
          BY <2>1, <3>1, <3>3, <4>1
        <4> QED
          BY <4>2
      <3>5. aid[r] \in fold
        BY <1>2, <1>3, <3>2, <3>4 DEF LastTurns, TurnsAfter
      <3> QED
        BY <2>2, <3>5
    <2> QED
      BY <2>1, <2>2
  <1> QED
    BY <1>4, <1>5 DEF Parts

\* Every step keeps the turns whole.
LEMMA TurnsStep ==
  ASSUME TypeOK, TypeOK', Numbers, Numbers', FoldInvariant, TurnsInv, [Next]_vars
  PROVE  TurnsInv'
  <1>1. Pending
    BY DEF FoldInvariant, Pending
  <1>2. Roles'
    <2>1. ASSUME NEW r \in Req, Closes(r) PROVE Roles'
      <3>1. PendingId(r) \notin users /\ PendingId(r) \notin answers
        BY <1>1, <2>1 DEF Closes, Pending, PendingIsNew, Committed
      <3> QED
        BY <2>1, <3>1 DEF Closes, TurnsInv, Roles
    <2>2. CASE Delete
      BY <2>2 DEF Delete, Roles
    <2>3. ASSUME Quiet \/ \E r \in Req : Opens(r) PROVE Roles'
      BY <2>3 DEF Quiet, Opens, TurnsInv, Roles
    <2> QED
      BY <2>1, <2>2, <2>3, StepKinds
  <1> SUFFICES ASSUME conv'.live
               PROVE  /\ Parts(conv.upto)'
                      /\ \A r \in Req :
                           /\ task'[r].at \in {"read", "fold"} => Parts(task[r].upto)'
                           /\ task'[r].at = "fold" => Parts(task[r].newUpto)'
    BY <1>2 DEF TurnsInv
  <1>3. conv.live /\ ~Delete
    BY StaysDeleted
  <1> DEFINE Good(u) == u \in Ids /\ (u = 0 \/ u \in Committed) /\ Parts(u)
  <1>4. ASSUME NEW u, Good(u) PROVE Parts(u)'
    BY <1>1, <1>3, <1>4, PartsKept DEF TurnsInv
  <1>5. Good(conv.upto)
    BY <1>3, UptosAreIds DEF TurnsInv, FoldInvariant, Covers
  <1>6. ASSUME NEW r \in Req
        PROVE  /\ task[r].at \in {"read", "fold"} => Good(task[r].upto)
               /\ task[r].at = "fold" => Good(task[r].newUpto)
    BY <1>3, UptosAreIds DEF TurnsInv, FoldInvariant, TasksCover, Covers
  <1>7. Good(conv'.upto)
    <2>1. ASSUME NEW r \in Req, SaveSummary(r) PROVE Good(conv'.upto)
      <3>1. task[r].at = "fold" /\ conv'.upto = task[r].newUpto
        BY <1>3, <2>1 DEF SaveSummary, TypeOK, Conversations
      <3> QED
        BY <1>6, <3>1
    <2> QED
      BY <1>3, <1>5, <2>1, RowKinds
  <1>8. ASSUME NEW r \in Req, task'[r].at \in {"read", "fold"}
        PROVE  /\ Good(task'[r].upto)
               /\ task'[r].at = "fold" => Good(task'[r].newUpto)
    <2>1. CASE task'[r] = task[r]
      BY <1>6, <1>8, <2>1
    <2>2. CASE LoadSummary(r)
      <3>1. task'[r].at = "read" /\ task'[r].upto = conv.upto
        BY <1>3, <2>2 DEF LoadSummary, SetTask, TaskAt, TypeOK
      <3> QED
        BY <1>5, <3>1
    <2>3. CASE ChooseFold(r)
      <3> DEFINE fold == ToFold(Unsummarized(task[r].upto))
      <3>1. Good(task[r].upto)
        BY <1>6, <2>3 DEF ChooseFold
      <3>2. CASE fold = {}
        <4>1. task'[r] = TaskAt("done")
          BY <2>3, <3>2 DEF ChooseFold, SetTask, TypeOK
        <4> QED
          BY <1>8, <4>1 DEF TaskAt
      <3>3. CASE fold # {}
        <4>1. PICK last \in fold :
                /\ \A m \in fold : m <= last
                /\ SetTask(r, [task[r] EXCEPT !.at = "fold", !.folded = fold,
                                              !.newUpto = last])
          BY <2>3, <3>3 DEF ChooseFold
        <4>2. task'[r].upto = task[r].upto /\ task'[r].newUpto = last
          BY <4>1 DEF SetTask, TypeOK, Tasks
        <4>3. Parts(last)
          BY <3>1, <4>1, FoldParts DEF TurnsInv
        <4>4. last \in Committed /\ last \in Ids
          BY DEF ToFold, Folded, Unsummarized, Committed, TypeOK
        <4> QED
          BY <3>1, <4>2, <4>3, <4>4
      <3> QED
        BY <3>2, <3>3
    <2> QED
      BY <1>8, <2>1, <2>2, <2>3, TaskKinds
  <1>9. Parts(conv.upto)'
    BY <1>4, <1>7 DEF Parts
  <1>10. ASSUME NEW r \in Req, task'[r].at \in {"read", "fold"} PROVE Parts(task[r].upto)'
    BY <1>4, <1>8, <1>10 DEF Parts
  <1>11. ASSUME NEW r \in Req, task'[r].at = "fold" PROVE Parts(task[r].newUpto)'
    BY <1>4, <1>8, <1>11 DEF Parts
  <1> QED
    BY <1>9, <1>10, <1>11

\* A question and the answer that follows it are folded together, or not at all,
\* for any parameters and any number of requests at once: also while the answer is
\* still generated, and by folds that were chosen before it came.
THEOREM TurnsAreFoldedWhole == Spec => []TurnsFoldWhole
  <1>1. Init => TurnsInv
    <2> SUFFICES ASSUME Init PROVE TurnsInv
      OBVIOUS
    <2>1. Roles
      BY ParametersAssumption DEF Init, Roles, ParametersAssumption
    <2>2. \A r \in Req : ~Pair(r) /\ task[r].at = "none"
      BY ParametersAssumption DEF Init, Pair, TaskAt, ParametersAssumption
    <2> QED
      BY <2>1, <2>2 DEF Init, NewConversation, TurnsInv, Parts
  <1>2. TypeOK /\ TypeOK' /\ Numbers /\ Numbers' /\ FoldInvariant /\ TurnsInv /\ [Next]_vars
        => TurnsInv'
    BY TurnsStep
  <1>3. TurnsInv => TurnsFoldWhole
    BY DEF TurnsInv, Parts, TurnsFoldWhole
  <1> QED
    BY <1>1, <1>2, <1>3, TypeCorrect, NumbersHold, FoldInvariantHolds, PTL DEF Spec

=============================================================================
