------------------------------ MODULE Answering ------------------------------
(***************************************************************************)
(* Searching the notes and answering with them: the hybrid search          *)
(* (app/search.py), the sources of a chat answer and their citations       *)
(* (app/routes/chat.py), and the ungated search of the MCP tools           *)
(* (app/mcp_tools.py).                                                     *)
(*                                                                         *)
(* A search is a row of statements at READ COMMITTED: notes are saved and  *)
(* deleted between the vector list, the text list, the neighbours, the     *)
(* nearest chunk of each and the rows of the chunks that were picked.  A   *)
(* saved note is reindexed in one commit, with new chunk rows (NoteIndex). *)
(***************************************************************************)
EXTENDS Integers, FiniteSets, Sequences, SequencesExt

CONSTANTS
    Search,   \* searches, each used once
    Changes,  \* how often notes are saved or deleted
    Note,
    Body, NoBody, \* what a note can hold, and what an absent one does
    Text,     \* the chunks that bodies are split into
    Chunks,   \* split_into_chunks: the chunks of a body
    Links,    \* the notes that the links of a body lead to
    Dist,     \* distance of a chunk to the question
    Sim,      \* its text similarity to the question
    Literal,  \* the chunks that contain the question
    VecDist, BigmKeep, \* vec_dist_threshold and BIGM_KEEP
    BigmLimit,  \* BIGM_SIMILARITY_LIMIT
    RrfK,       \* RRF_K
    Scale,      \* scores are fractions over it
    Candidates, \* CANDIDATES, PER_LIST_K
    TopK,       \* TOP_K
    DefaultLimit, McpTopKLimit, \* limits of search_notes
    Limits      \* the limits its clients ask for, 0 when they give none

ASSUME SearchAssumption ==
    /\ NoBody \notin Body /\ IsFiniteSet(Note)
    /\ Chunks \in [Body -> Seq(Text)] /\ Links \in [Body -> SUBSET Note]
    /\ Dist \in [Text -> Nat] /\ Sim \in [Text -> Nat] /\ Literal \subseteq Text
    /\ VecDist \in Int /\ BigmLimit \in Int /\ BigmKeep \in Int /\ BigmLimit <= BigmKeep
    /\ {RrfK, Scale, Changes} \subseteq Nat /\ Limits \subseteq Int
    /\ {Candidates, TopK, DefaultLimit, McpTopKLimit} \subseteq Nat \ {0}

\* The scores are exact.
ASSUME ScaleAssumption == \A i \in 1..Candidates : Scale % (RrfK + i) = 0

VARIABLES
    body,    \* notes: the body of each note
    version, \* how often each note has been indexed
    changes, \* how often any has
    run,     \* the state of each search
    stored,  \* the searches whose answer is in messages
    cited,   \* message_citations: the notes cited by each answer
    view     \* what get_conversation has read of each answer

vars == <<body, version, changes, run, stored, cited, view>>

-----------------------------------------------------------------------------
(* Order                                                                   *)

\* The members of S in order.
Arranged(S, Before(_, _)) ==
    LET rank == [x \in S |-> Cardinality({y \in S : Before(y, x)})]
    IN [i \in 1..Cardinality(S) |-> CHOOSE x \in S : rank[x] = i - 1]

\* The entries of a list at the indices I.
Entries(list, I) ==
    LET index == Arranged(I, <) IN [i \in DOMAIN index |-> list[index[i]]]

\* By descending score; equals keep their order.
Descending(list) ==
    LET Before(i, j) == \/ list[i].score > list[j].score
                        \/ list[i].score = list[j].score /\ i < j
        index == Arranged(DOMAIN list, Before)
    IN [i \in DOMAIN index |-> list[index[i]]]

Top(list, k) == SubSeq(list, 1, IF Len(list) < k THEN Len(list) ELSE k)

-----------------------------------------------------------------------------
(* The index                                                               *)

\* Rows of chunks; note, version and ord make the id.
Rows(n) ==
    IF body[n] = NoBody THEN {}
    ELSE {[note |-> n, version |-> version[n], ord |-> i, text |-> Chunks[body[n]][i]] :
             i \in DOMAIN Chunks[body[n]]}

Index == UNION {Rows(n) : n \in Note}

\* The rows lie in any order of their notes.
Scans == {scan \in [Note -> 1..Cardinality(Note)] : IsInjective(scan)}

Lies(scan, c, d) == scan[c.note] < scan[d.note] \/ (c.note = d.note /\ c.ord < d.ord)

\* ORDER BY distance LIMIT k.
ByDistance(S, k) ==
    {LET Before(c, d) == \/ Dist[c.text] < Dist[d.text]
                         \/ Dist[c.text] = Dist[d.text] /\ Lies(scan, c, d)
     IN Top(Arranged(S, Before), k) : scan \in Scans}

\* WHERE text LIKE likequery(question) OR similarity >= limit.
Similar(S) == {c \in S : c.text \in Literal \/ Sim[c.text] >= BigmLimit}

\* ORDER BY similarity DESC LIMIT k.
BySimilarity(S, k) ==
    {LET Before(c, d) == \/ Sim[c.text] > Sim[d.text]
                         \/ Sim[c.text] = Sim[d.text] /\ Lies(scan, c, d)
     IN Top(Arranged(S, Before), k) : scan \in Scans}

-----------------------------------------------------------------------------
(* Rank fusion                                                             *)

Bonus == Scale \div (RrfK + 1)

Place(list, c) == CHOOSE i \in DOMAIN list : list[i] = c

Share(list, c) == IF c \in ToSet(list) THEN Scale \div (RrfK + Place(list, c)) ELSE 0

\* When a chunk came up first.
Came(vec, big, c) == IF c \in ToSet(vec) THEN Place(vec, c) ELSE Len(vec) + Place(big, c)

\* The chunks of both lists by their scores; equals stay in the order they came up.
Fused(vec, big, score) ==
    LET Before(c, d) == \/ score[c] > score[d]
                        \/ score[c] = score[d] /\ Came(vec, big, c) < Came(vec, big, d)
        fused == Arranged(ToSet(vec) \cup ToSet(big), Before)
    IN [i \in DOMAIN fused |-> [chunk |-> fused[i], score |-> score[fused[i]]]]

\* A fault: the score of the second list instead of the sum.
Rrf_Last(vec, big) ==
    Fused(vec, big, [c \in ToSet(vec) \cup ToSet(big) |->
        IF c \in ToSet(big) THEN Share(big, c) ELSE Share(vec, c)])

\* rrf: the sum over the two lists.
Rrf(vec, big) ==
    Fused(vec, big,
          [c \in ToSet(vec) \cup ToSet(big) |-> Share(vec, c) + Share(big, c)])

ChunksOf(list) == {x.chunk : x \in ToSet(list)}

\* Adding the bonus to a chunk, which may be scored already.
Raised(scores, c) ==
    IF c \in ChunksOf(scores)
    THEN [i \in DOMAIN scores |-> IF scores[i].chunk = c
                                  THEN [scores[i] EXCEPT !.score = @ + Bonus] ELSE scores[i]]
    ELSE Append(scores, [chunk |-> c, score |-> Bonus])

\* top_k: a limit of 0 is no limit given.
Clamp(limit) == LET k == IF limit = 0 THEN DefaultLimit ELSE limit
                IN IF k < 1 THEN 1 ELSE IF k > McpTopKLimit THEN McpTopKLimit ELSE k

-----------------------------------------------------------------------------
(* Searches                                                                *)

Stages == {"vector", "bigm", "expand", "nearest", "meta", "found", "answer", "cite"}

Over == {"answered", "results", "failed"}

Chunk == [note : Note, version : 0..Changes, ord : Nat \ {0}, text : Text]

Scored == [chunk : Chunk, score : Nat]

Runs == [at : {"idle"} \cup Stages \cup Over,
         gate : BOOLEAN, topK : Nat,         \* apply_gate and top_k
         vec : Seq(Chunk), big : Seq(Chunk), \* the two lists
         scores : Seq(Scored),               \* in the order of insertion
         near : SUBSET Note,                 \* neighbours still to be looked at
         graph : SUBSET Chunk,               \* graph_chunks
         top : Seq(Scored), hits : Seq(Scored),
         shown : SUBSET [note : Note, score : Nat], \* what the client was sent
         citing : SUBSET Note,               \* citations not committed yet
         steady : SUBSET Chunk]              \* in the index since it began (history)

Idle == [at |-> "idle", gate |-> TRUE, topK |-> 0, vec |-> <<>>, big |-> <<>>,
         scores |-> <<>>, near |-> {}, graph |-> {}, top |-> <<>>, hits |-> <<>>,
         shown |-> {}, citing |-> {}, steady |-> {}]

NotRead == [at |-> "none", whole |-> FALSE, sources |-> {}]

Init ==
    /\ body \in [Note -> Body \cup {NoBody}]
    /\ version = [n \in Note |-> 0] /\ changes = 0
    /\ run = [s \in Search |-> Idle]
    /\ stored = {} /\ cited = [s \in Search |-> {}]
    /\ view = [s \in Search |-> NotRead]

Set(s, r) == run' = [run EXCEPT ![s] = r]

Goto(s, stage) == Set(s, [run[s] EXCEPT !.at = stage])

\* Only what the client was sent is left of a stream.
End(s, outcome) == Set(s, [Idle EXCEPT !.at = outcome, !.shown = run[s].shown])

\* A question of the chat, or a call of search_notes.
Ask(s) ==
    /\ run[s].at = "idle"
    /\ \/ Set(s, [Idle EXCEPT !.at = "vector", !.topK = TopK, !.steady = Index])
       \/ \E limit \in Limits :
             Set(s, [Idle EXCEPT !.at = "vector", !.gate = FALSE, !.topK = Clamp(limit),
                                 !.steady = Index])
    /\ UNCHANGED <<body, version, changes, stored, cited, view>>

\* _vector_search.
VectorSearch(s) ==
    /\ run[s].at = "vector"
    /\ \E vec \in ByDistance(Index, Candidates) :
          Set(s, [run[s] EXCEPT !.at = "bigm", !.vec = vec])
    /\ UNCHANGED <<body, version, changes, stored, cited, view>>

\* _bigm_search, and the fusion.
BigmSearch(s) ==
    /\ run[s].at = "bigm"
    /\ \E big \in BySimilarity(Similar(Index), Candidates) :
          Set(s, [run[s] EXCEPT !.big = big,
                    !.scores = Top(Rrf(run[s].vec, big), Candidates),
                    !.at = IF run[s].vec = <<>> /\ big = <<>> THEN "found" ELSE "expand"])
    /\ UNCHANGED <<body, version, changes, stored, cited, view>>

\* Notes that the given ones link to, without these.
LinkedFrom(S) ==
    {m \in Note \ S : body[m] # NoBody /\ \E n \in S : body[n] # NoBody /\ m \in Links[body[n]]}

\* _graph_expand, the neighbours of the candidates' notes.
Neighbours(s) ==
    /\ run[s].at = "expand"
    /\ Set(s, [run[s] EXCEPT !.at = "nearest",
                 !.near = LinkedFrom({c.note : c \in ChunksOf(run[s].scores)})])
    /\ UNCHANGED <<body, version, changes, stored, cited, view>>

\* Its rows by distance, LIMIT 1.
NearestOf(n) == {c \in Rows(n) : \A d \in Rows(n) : Dist[c.text] <= Dist[d.text]}

\* _graph_expand, the nearest chunk of one neighbour, if it still has any.
Nearest(s) ==
    /\ run[s].at = "nearest"
    /\ \E n \in run[s].near :
          \/ /\ Rows(n) = {}
             /\ Set(s, [run[s] EXCEPT !.near = @ \ {n}])
          \/ \E c \in NearestOf(n) :
                Set(s, [run[s] EXCEPT !.near = @ \ {n},
                          !.graph = @ \cup {c}, !.scores = Raised(@, c)])
    /\ UNCHANGED <<body, version, changes, stored, cited, view>>

\* What makes a chunk relevant in its own right.
Matches(r, c) ==
    \/ c \in ToSet(r.vec) /\ Dist[c.text] <= VecDist
    \/ c \in ToSet(r.big) /\ Sim[c.text] >= BigmKeep

\* The gate.
Passes(r, c) == ~r.gate \/ c \in r.graph \/ Matches(r, c)

Relevant(r, list) == Entries(list, {i \in DOMAIN list : Passes(r, list[i].chunk)})

\* A fault: the cut before the gate.
Chosen_CutFirst(r) == Relevant(r, Top(Descending(r.scores), r.topK))

\* A fault: no cut.
Chosen_All(r) == Relevant(r, Descending(r.scores))

\* The gate and the cut.
Chosen(r) == Top(Relevant(r, Descending(r.scores)), r.topK)

Pick(s) ==
    /\ run[s].at = "nearest" /\ run[s].near = {}
    /\ LET top == Chosen(run[s])
       IN Set(s, [run[s] EXCEPT !.top = top, !.scores = <<>>,
                    !.at = IF top = <<>> THEN "found" ELSE "meta"])
    /\ UNCHANGED <<body, version, changes, stored, cited, view>>

Present(list) == Entries(list, {i \in DOMAIN list : list[i].chunk \in Index})

\* The rows of the picked chunks; a chunk that is gone is left out.
LoadMeta(s) ==
    /\ run[s].at = "meta"
    /\ Set(s, [run[s] EXCEPT !.at = "found",
                 !.hits = Present(run[s].top)])
    /\ UNCHANGED <<body, version, changes, stored, cited, view>>

\* _dedupe_sources: the best score of each note.
Deduped(hits) ==
    LET scores(n) == {x.score : x \in {y \in ToSet(hits) : y.chunk.note = n}}
    IN {[note |-> n, score |-> Max(scores(n))] : n \in {x.chunk.note : x \in ToSet(hits)}}

\* The sources event of the chat, or the result of search_notes.  The hits stay
\* until they are cited, the rest of the search is over.
Sources(s) ==
    /\ run[s].at = "found"
    /\ Set(s, [Idle EXCEPT !.at = IF run[s].gate THEN "answer" ELSE "results",
                           !.hits = run[s].hits, !.shown = Deduped(run[s].hits)])
    /\ UNCHANGED <<body, version, changes, stored, cited, view>>

\* The answer is there and in messages; its citations are not.
SaveAnswer(s) ==
    /\ run[s].at = "answer"
    /\ stored' = stored \cup {s}
    /\ Goto(s, "cite")
    /\ UNCHANGED <<body, version, changes, cited, view>>

\* The hits whose notes are not in seen.
Uncited(s) == {i \in DOMAIN run[s].hits : run[s].hits[i].chunk.note \notin run[s].citing}

\* The note of the first of them.
NextCited(s, n) ==
    \E i \in Uncited(s) : /\ n = run[s].hits[i].chunk.note
                          /\ \A j \in Uncited(s) : i <= j

\* A fault: each INSERT is committed by itself.
Cite_EachAlone(s) ==
    /\ run[s].at = "cite"
    /\ \E n \in Note :
          /\ NextCited(s, n)
          /\ IF body[n] # NoBody
             THEN /\ Set(s, [run[s] EXCEPT !.citing = @ \cup {n}])
                  /\ cited' = [cited EXCEPT ![s] = @ \cup {n}]
             ELSE End(s, "failed") /\ UNCHANGED cited
    /\ UNCHANGED <<body, version, changes, stored, view>>

\* _save_citations, one INSERT: it refers to a note and fails without it, and
\* the transaction with it.
Cite(s) ==
    /\ run[s].at = "cite"
    /\ \E n \in Note :
          /\ NextCited(s, n)
          /\ IF body[n] # NoBody
             THEN Set(s, [run[s] EXCEPT !.citing = @ \cup {n}])
             ELSE End(s, "failed")
    /\ UNCHANGED <<body, version, changes, stored, cited, view>>

CommitCitations(s) ==
    /\ run[s].at = "cite" /\ Uncited(s) = {}
    /\ cited' = [cited EXCEPT ![s] = run[s].citing]
    /\ End(s, "answered")
    /\ UNCHANGED <<body, version, changes, stored, view>>

\* A statement, the embedding or the LLM raises, or the process stops.
Fail(s) ==
    /\ run[s].at \in Stages
    /\ End(s, "failed")
    /\ UNCHANGED <<body, version, changes, stored, cited, view>>

-----------------------------------------------------------------------------
(* Reading a conversation                                                  *)

\* get_conversation, the messages.  whole tells whether the answer had its
\* citations by then (history).  One reload of each answer.
ReadMessages(s) ==
    /\ view[s].at = "none" /\ s \in stored
    /\ view' = [view EXCEPT ![s].at = "messages", ![s].whole = run[s].at = "answered"]
    /\ UNCHANGED <<body, version, changes, run, stored, cited>>

\* get_conversation, the citations.
ReadCitations(s) ==
    /\ view[s].at = "messages"
    /\ view' = [view EXCEPT ![s].at = "both", ![s].sources = cited[s]]
    /\ UNCHANGED <<body, version, changes, run, stored, cited>>

-----------------------------------------------------------------------------
(* Changes of notes                                                        *)

\* What is left of the chunks that searches have started with.
Forget(gone) ==
    run' = [s \in Search |-> [run[s] EXCEPT !.steady = @ \ gone]]

MayChange == changes < Changes /\ changes' = changes + 1

\* A note that was deleted does not come back: a new one has an id of its own.
SaveNote(n, b) ==
    /\ MayChange
    /\ body[n] # NoBody \/ version[n] = 0
    /\ body' = [body EXCEPT ![n] = b]
    /\ version' = [version EXCEPT ![n] = @ + 1]
    /\ Forget(Rows(n))
    /\ UNCHANGED <<stored, cited, view>>

\* It waits for citations that are not committed, and is refused once they are:
\* SET NULL cannot empty a column of the primary key.
DeleteNote(n) ==
    /\ MayChange
    /\ body[n] # NoBody
    /\ \A s \in Search : n \notin run[s].citing \cup cited[s]
    /\ body' = [body EXCEPT ![n] = NoBody]
    /\ version' = [version EXCEPT ![n] = @ + 1]
    /\ Forget(Rows(n))
    /\ UNCHANGED <<stored, cited, view>>

Find(s) ==
    \/ Ask(s) \/ VectorSearch(s) \/ BigmSearch(s) \/ Neighbours(s) \/ Nearest(s)
    \/ Pick(s) \/ LoadMeta(s) \/ Sources(s)

Next ==
    \/ \E s \in Search : Find(s) \/ SaveAnswer(s) \/ Cite(s) \/ CommitCitations(s) \/ Fail(s)
    \/ \E s \in Search : ReadMessages(s) \/ ReadCitations(s)
    \/ \E n \in Note : DeleteNote(n) \/ \E b \in Body : SaveNote(n, b)

Spec == Init /\ [][Next]_vars

-----------------------------------------------------------------------------
(* Properties                                                              *)

\* Types; lists without repetition, at most topK hits.
TypeOK ==
    /\ body \in [Note -> Body \cup {NoBody}]
    /\ version \in [Note -> 0..Changes] /\ changes \in 0..Changes
    /\ run \in [Search -> Runs]
    /\ stored \in SUBSET Search
    /\ cited \in [Search -> SUBSET Note]
    /\ view \in [Search -> [at : {"none", "messages", "both"}, whole : BOOLEAN,
                             sources : SUBSET Note]]
    /\ \A s \in Search :
          /\ IsInjective(run[s].vec) /\ IsInjective(run[s].big)
          /\ Cardinality(ChunksOf(run[s].top)) = Len(run[s].top)
          /\ Len(run[s].top) <= run[s].topK

\* c is ahead of d in a list, or d is not in it.
Ahead(list, c, d) ==
    d \in ToSet(list) => \E i, j \in DOMAIN list : list[i] = c /\ list[j] = d /\ i < j

\* Fusion respects agreement: when both lists have a chunk ahead of a hit, and
\* the gate lets it pass, it is a hit too and ahead of it, unless a link has
\* lifted the other.  What is picked counts, not what is still there.
AgreementKept ==
    \A s \in Search :
        LET r == run[s] IN
        \A j \in DOMAIN r.top :
            LET d == r.top[j].chunk IN
            d \notin r.graph =>
                \A c \in (ToSet(r.vec) \cup ToSet(r.big)) \ {d} :
                    ( /\ Ahead(r.vec, c, d) /\ Ahead(r.big, c, d)
                      /\ ~r.gate \/ Matches(r, c) )
                    => \E i \in 1..(j - 1) : r.top[i].chunk = c

\* c is close enough by distance or by text, and the list that shows it had
\* room for it.
Wanted(r, c) ==
    \/ Dist[c.text] <= VecDist /\ (Len(r.vec) < Candidates \/ c \in ToSet(r.vec))
    \/ Sim[c.text] >= BigmKeep /\ (Len(r.big) < Candidates \/ c \in ToSet(r.big))

\* Nothing that answers the question is left out: a chunk that was in the index
\* all the time and is wanted is a hit, unless the hits were cut at topK or the
\* pool at Candidates.  What other notes go through meanwhile does not matter.
NothingRelevantDropped ==
    \A s \in Search :
        LET r == run[s] IN
        ( /\ r.at = "found"
          /\ Len(r.top) < r.topK
          /\ Cardinality(ToSet(r.vec) \cup ToSet(r.big)) <= Candidates )
        => {c \in r.steady : Wanted(r, c)} \subseteq ChunksOf(r.hits)

\* The sources that come back with a stored answer are those that were shown
\* with it: all of them when the answer had ended before the conversation was
\* read, all or none when it had not or when it failed.
ReloadAgrees ==
    \A s \in Search :
        LET shown == {x.note : x \in run[s].shown} IN
        view[s].at = "both" =>
            view[s].sources = shown \/ (view[s].sources = {} /\ ~view[s].whole)

\* A note that answers have cited can be deleted (ON DELETE SET NULL): only
\* citations that are not committed yet can make a deletion wait.
CitedNoteCanGo ==
    \A n \in Note :
        ( /\ body[n] # NoBody /\ changes < Changes
          /\ \A s \in Search : n \notin run[s].citing )
        => ENABLED DeleteNote(n)

=============================================================================
