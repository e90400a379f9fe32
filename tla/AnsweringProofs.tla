-------------------------- MODULE AnsweringProofs --------------------------
(***************************************************************************)
(* The theorem about Answering: what comes back with a stored answer, for  *)
(* any searches, notes, bodies and distances, and whatever a search finds. *)
(***************************************************************************)
EXTENDS Answering, TLAPS

-----------------------------------------------------------------------------
(* The invariant                                                           *)

\* What a search finds is data here: of a search only its fields are known.
FieldNames == {"at", "gate", "topK", "vec", "big", "scores", "near", "graph", "top",
               "hits", "shown", "citing", "steady"}

Fields(r) == r = [f \in FieldNames |-> r[f]]

ViewFields(v) == v = [f \in {"at", "whole", "sources"} |-> v[f]]

Shapes ==
    /\ run = [s \in Search |-> run[s]] /\ \A s \in Search : Fields(run[s])
    /\ view = [s \in Search |-> view[s]] /\ \A s \in Search : ViewFields(view[s])
    /\ cited = [s \in Search |-> cited[s]]
    /\ body = [n \in Note |-> body[n]]

NotesOf(hits) == {x.chunk.note : x \in ToSet(hits)}

ShownBy(r) == {x.note : x \in r.shown}

\* An answer is in messages from SaveAnswer on; its citations are of notes that
\* were shown, they are committed together and after it, and keep their notes.
Citing(s, r, c, kept, b) ==
    /\ r.at \in {"answer", "cite"} => NotesOf(r.hits) = ShownBy(r)
    /\ r.at # "cite" => r.citing = {}
    /\ r.citing \subseteq ShownBy(r)
    /\ IF r.at = "answered" THEN c = ShownBy(r) ELSE c = {}
    /\ s \in kept => r.at \in {"cite", "answered", "failed"}
    /\ \A n \in r.citing \cup c : b[n] # NoBody

\* What was read of an answer that is stored are its citations, by then or now.
Viewed(s, r, c, v, kept) ==
    /\ v.at \in {"messages", "both"} => s \in kept
    /\ v.at = "messages" /\ v.whole => r.at = "answered"
    /\ v.at = "both" => /\ v.sources = ShownBy(r) \/ (v.sources = {} /\ ~v.whole)
                        /\ v.sources \subseteq c

IInv ==
    /\ Shapes
    /\ \A s \in Search : /\ Citing(s, run[s], cited[s], stored, body)
                         /\ Viewed(s, run[s], cited[s], view[s], stored)

\* Initially there are no answers.
LEMMA InitIInv == Init => IInv
  <1> SUFFICES ASSUME Init PROVE IInv
    OBVIOUS
  <1>1. Fields(Idle) /\ ViewFields(NotRead)
    BY DEF Fields, FieldNames, Idle, ViewFields, NotRead
  <1>2. Shapes
    BY <1>1 DEF Init, Shapes
  <1>3. ASSUME NEW s \in Search
        PROVE  /\ Citing(s, run[s], cited[s], stored, body)
               /\ Viewed(s, run[s], cited[s], view[s], stored)
    <2>1. run[s] = Idle /\ cited[s] = {} /\ stored = {} /\ view[s] = NotRead
      BY <1>3 DEF Init
    <2> QED
      BY <2>1 DEF Citing, Viewed, Idle, NotRead
  <1> QED
    BY <1>2, <1>3 DEF IInv

-----------------------------------------------------------------------------
(* Steps of one search                                                     *)

\* A step that changes one search only.
LEMMA OneSearch ==
  ASSUME IInv, NEW s \in Search, NEW r, Set(s, r), Fields(r),
         UNCHANGED <<body, view>>, stored \subseteq stored',
         cited' = [s2 \in Search |-> cited'[s2]],
         \A t \in Search : t # s => /\ cited'[t] = cited[t]
                                    /\ t \in stored' <=> t \in stored,
         Citing(s, r, cited'[s], stored', body),
         Viewed(s, r, cited'[s], view[s], stored')
  PROVE  IInv'
  <1>1. /\ run' = [t \in Search |-> run'[t]]
        /\ run'[s] = r /\ \A t \in Search : t # s => run'[t] = run[t]
    BY DEF IInv, Shapes, Set
  <1>2. Shapes'
    BY <1>1 DEF IInv, Shapes
  <1>3. ASSUME NEW t \in Search
        PROVE  /\ Citing(t, run'[t], cited'[t], stored', body')
               /\ Viewed(t, run'[t], cited'[t], view'[t], stored')
    <2>1. CASE t = s
      BY <1>1, <2>1
    <2>2. CASE t # s
      <3>1. /\ run'[t] = run[t] /\ cited'[t] = cited[t] /\ view'[t] = view[t]
            /\ body' = body /\ t \in stored' <=> t \in stored
        BY <1>1, <1>3, <2>2
      <3>2. /\ Citing(t, run[t], cited[t], stored, body)
            /\ Viewed(t, run[t], cited[t], view[t], stored)
        BY <1>3 DEF IInv
      <3> QED
        BY <3>1, <3>2 DEF Citing, Viewed
    <2> QED
      BY <2>1, <2>2
  <1> QED
    BY <1>2, <1>3 DEF IInv

\* Stages before there is an answer.
Looking == {"idle", "vector", "bigm", "expand", "nearest", "meta", "found"}

\* Up to the sources, a search has nothing to do with stored answers.
LEMMA StillLooking ==
  ASSUME IInv, NEW s \in Search, run[s].at \in Looking, NEW r, Set(s, r), Fields(r),
         r.at \in Looking \cup {"answer", "results", "failed"}, r.citing = {},
         r.at = "answer" => NotesOf(r.hits) = ShownBy(r),
         UNCHANGED <<body, stored, cited, view>>
  PROVE  IInv'
  <1>1. cited[s] = {} /\ s \notin stored
    BY DEF IInv, Citing, Looking
  <1>2. Citing(s, r, cited'[s], stored', body)
    BY <1>1 DEF Citing, Looking
  <1>3. Viewed(s, r, cited'[s], view[s], stored')
    BY <1>1 DEF IInv, Viewed
  <1>4. cited' = [t \in Search |-> cited'[t]]
    BY DEF IInv, Shapes
  <1> QED
    BY <1>2, <1>3, <1>4, OneSearch

\* The sources are of the notes of the hits, once each.
LEMMA NotesDeduped ==
  ASSUME NEW hits
  PROVE  {x.note : x \in Deduped(hits)} = NotesOf(hits)
  <1> DEFINE best(n) == Max({x.score : x \in {y \in ToSet(hits) : y.chunk.note = n}})
             entry(n) == [note |-> n, score |-> best(n)]
  <1>1. Deduped(hits) = {entry(n) : n \in NotesOf(hits)}
    BY DEF Deduped, NotesOf
  <1>2. \A n : entry(n).note = n
    OBVIOUS
  <1> HIDE DEF entry
  <1> QED
    BY <1>1, <1>2

\* The steps of a search up to its hits.
LEMMA FindStep ==
  ASSUME IInv, NEW s \in Search, Find(s)
  PROVE  IInv'
  <1> DEFINE r == run[s]
  <1>1. Fields(r)
    BY DEF IInv, Shapes
  <1>2. r.at # "cite" => r.citing = {}
    BY DEF IInv, Citing
  <1>3. CASE Ask(s)
    <2>1. PICK r2 : /\ Set(s, r2) /\ Fields(r2) /\ r2.at = "vector" /\ r2.citing = {}
                    /\ UNCHANGED <<body, version, stored, cited, view>>
      <3>1. CASE Set(s, [Idle EXCEPT !.at = "vector", !.topK = TopK, !.steady = Index])
        BY <1>3, <3>1 DEF Ask, Idle, Fields, FieldNames
      <3>2. ASSUME NEW limit \in Limits,
                   Set(s, [Idle EXCEPT !.at = "vector", !.gate = FALSE,
                                       !.topK = Clamp(limit), !.steady = Index])
            PROVE  \E r2 : /\ Set(s, r2) /\ Fields(r2) /\ r2.at = "vector"
                           /\ r2.citing = {}
                           /\ UNCHANGED <<body, version, stored, cited, view>>
        BY <1>3, <3>2 DEF Ask, Idle, Fields, FieldNames
      <3> QED
        BY <1>3, <3>1, <3>2 DEF Ask
    <2> QED
      BY <1>3, <2>1, StillLooking DEF Ask, Looking
  <1>4. CASE VectorSearch(s)
    <2>1. PICK vec \in ByDistance(Index, Candidates) :
              Set(s, [r EXCEPT !.at = "bigm", !.vec = vec])
      BY <1>4 DEF VectorSearch
    <2> DEFINE r2 == [r EXCEPT !.at = "bigm", !.vec = vec]
    <2>2. r2.at = "bigm" /\ r2.citing = r.citing /\ Fields(r2)
      BY <1>1 DEF Fields, FieldNames
    <2> QED
      BY <1>2, <1>4, <2>1, <2>2, StillLooking DEF VectorSearch, Looking
  <1>5. CASE BigmSearch(s)
    <2>1. PICK big \in BySimilarity(Similar(Index), Candidates) :
              Set(s, [r EXCEPT !.big = big,
                        !.scores = Top(Rrf(r.vec, big), Candidates),
                        !.at = IF r.vec = <<>> /\ big = <<>> THEN "found" ELSE "expand"])
      BY <1>5 DEF BigmSearch
    <2> DEFINE r2 == [r EXCEPT !.big = big, !.scores = Top(Rrf(r.vec, big), Candidates),
                        !.at = IF r.vec = <<>> /\ big = <<>> THEN "found" ELSE "expand"]
    <2>2. r2.at \in {"found", "expand"} /\ r2.citing = r.citing /\ Fields(r2)
      BY <1>1 DEF Fields, FieldNames
    <2> QED
      BY <1>2, <1>5, <2>1, <2>2, StillLooking DEF BigmSearch, Looking
  <1>6. CASE Neighbours(s)
    <2> DEFINE near == LinkedFrom({c.note : c \in ChunksOf(r.scores)})
               r2 == [r EXCEPT !.at = "nearest", !.near = near]
    <2>1. Set(s, r2)
      BY <1>6 DEF Neighbours
    <2>2. r2.at = "nearest" /\ r2.citing = r.citing /\ Fields(r2)
      BY <1>1 DEF Fields, FieldNames
    <2> QED
      BY <1>2, <1>6, <2>1, <2>2, StillLooking DEF Neighbours, Looking
  <1>7. CASE Nearest(s)
    <2> DEFINE r1(n) == [r EXCEPT !.near = @ \ {n}]
               r2(n, c) == [r EXCEPT !.near = @ \ {n}, !.graph = @ \cup {c},
                                     !.scores = Raised(@, c)]
    <2>1. \E n, c : Set(s, r1(n)) \/ Set(s, r2(n, c))
      BY <1>7 DEF Nearest
    <2>2. ASSUME NEW n, NEW c
          PROVE  /\ r1(n).at = r.at /\ r1(n).citing = r.citing /\ Fields(r1(n))
                 /\ r2(n, c).at = r.at /\ r2(n, c).citing = r.citing /\ Fields(r2(n, c))
      BY <1>1 DEF Fields, FieldNames
    <2> HIDE DEF r1, r2
    <2> QED
      BY <1>2, <1>7, <2>1, <2>2, StillLooking DEF Nearest, Looking
  <1>8. CASE Pick(s)
    <2> DEFINE top == Chosen(r)
               r2 == [r EXCEPT !.top = top, !.scores = <<>>,
                               !.at = IF top = <<>> THEN "found" ELSE "meta"]
    <2>1. Set(s, r2)
      BY <1>8 DEF Pick
    <2>2. r2.at \in {"found", "meta"} /\ r2.citing = r.citing /\ Fields(r2)
      BY <1>1 DEF Fields, FieldNames
    <2> QED
      BY <1>2, <1>8, <2>1, <2>2, StillLooking DEF Pick, Looking
  <1>9. CASE LoadMeta(s)
    <2> DEFINE hits == Present(r.top)
               r2 == [r EXCEPT !.at = "found", !.hits = hits]
    <2>1. Set(s, r2)
      BY <1>9 DEF LoadMeta
    <2> HIDE DEF hits
    <2>2. r2.at = "found" /\ r2.citing = r.citing /\ Fields(r2)
      BY <1>1 DEF Fields, FieldNames
    <2> QED
      BY <1>2, <1>9, <2>1, <2>2, StillLooking DEF LoadMeta, Looking
  <1>10. CASE Sources(s)
    <2> DEFINE r2 == [Idle EXCEPT !.at = IF r.gate THEN "answer" ELSE "results",
                                  !.hits = r.hits, !.shown = Deduped(r.hits)]
    <2>1. Set(s, r2)
      BY <1>10 DEF Sources
    <2>2. /\ r2.at \in {"answer", "results"} /\ r2.citing = {} /\ Fields(r2)
          /\ r2.hits = r.hits /\ r2.shown = Deduped(r.hits)
      BY DEF Idle, Fields, FieldNames
    <2>3. {x.note : x \in Deduped(r.hits)} = NotesOf(r.hits)
      BY NotesDeduped
    <2> QED
      BY <1>10, <2>1, <2>2, <2>3, StillLooking DEF Sources, Looking, ShownBy
  <1> QED
    BY <1>3, <1>4, <1>5, <1>6, <1>7, <1>8, <1>9, <1>10 DEF Find

\* What End leaves of a search.
LEMMA EndFields ==
  ASSUME NEW s, NEW outcome, End(s, outcome)
  PROVE  \E r : /\ Set(s, r) /\ Fields(r) /\ r.at = outcome /\ r.shown = run[s].shown
                /\ r.citing = {}
  <1> DEFINE r == [Idle EXCEPT !.at = outcome, !.shown = run[s].shown]
  <1>1. Set(s, r)
    BY DEF End
  <1>2. Fields(r) /\ r.at = outcome /\ r.shown = run[s].shown /\ r.citing = {}
    BY DEF Idle, Fields, FieldNames
  <1> HIDE DEF r
  <1> QED
    BY <1>1, <1>2

\* Saving an answer and its citations, and failing.
LEMMA AnswerStep ==
  ASSUME IInv, NEW s \in Search, SaveAnswer(s) \/ Cite(s) \/ CommitCitations(s) \/ Fail(s)
  PROVE  IInv'
  <1> DEFINE r == run[s]
             shown == ShownBy(r)
  <1>1. Fields(r) /\ cited = [t \in Search |-> cited[t]]
    BY DEF IInv, Shapes
  <1>2. Citing(s, r, cited[s], stored, body) /\ Viewed(s, r, cited[s], view[s], stored)
    BY DEF IInv
  <1>3. CASE SaveAnswer(s)
    <2> DEFINE r2 == [r EXCEPT !.at = "cite"]
    <2>1. /\ Set(s, r2) /\ r.at = "answer" /\ stored' = stored \cup {s}
          /\ UNCHANGED <<body, version, cited, view>>
      BY <1>3 DEF SaveAnswer, Goto
    <2>2. /\ r2.at = "cite" /\ r2.citing = r.citing /\ r2.hits = r.hits
          /\ r2.shown = r.shown /\ Fields(r2)
      BY <1>1 DEF Fields, FieldNames
    <2> HIDE DEF r2
    <2>3. Citing(s, r2, cited'[s], stored', body)
      BY <1>2, <2>1, <2>2 DEF Citing, ShownBy
    <2>4. Viewed(s, r2, cited'[s], view[s], stored')
      BY <1>2, <2>1, <2>2 DEF Viewed, Citing
    <2> QED
      BY <1>1, <2>1, <2>2, <2>3, <2>4, OneSearch
  <1>4. ASSUME NEW outcome, End(s, outcome), outcome = "failed", r.at # "answered",
               UNCHANGED <<body, version, stored, cited, view>>,
               s \in stored => r.at = "cite"
        PROVE  IInv'
    <2>1. PICK r2 : /\ Set(s, r2) /\ Fields(r2) /\ r2.at = "failed"
                    /\ r2.shown = r.shown /\ r2.citing = {}
      BY <1>4, EndFields
    <2>2. Citing(s, r2, cited'[s], stored', body)
      BY <1>2, <1>4, <2>1 DEF Citing
    <2>3. Viewed(s, r2, cited'[s], view[s], stored')
      BY <1>2, <1>4, <2>1 DEF Viewed, ShownBy
    <2> QED
      BY <1>1, <1>4, <2>1, <2>2, <2>3, OneSearch
  <1>5. CASE Cite(s)
    <2>1. PICK n \in Note :
              /\ NextCited(s, n)
              /\ IF body[n] # NoBody THEN Set(s, [r EXCEPT !.citing = @ \cup {n}])
                 ELSE End(s, "failed")
      BY <1>5 DEF Cite
    <2>2. r.at = "cite" /\ UNCHANGED <<body, version, stored, cited, view>>
      BY <1>5 DEF Cite
    <2>3. CASE body[n] # NoBody
      <3> DEFINE r2 == [r EXCEPT !.citing = @ \cup {n}]
      <3>1. n \in NotesOf(r.hits)
        BY <2>1 DEF NextCited, Uncited, NotesOf, ToSet
      <3>2. /\ r2.at = "cite" /\ r2.citing = r.citing \cup {n} /\ r2.hits = r.hits
            /\ r2.shown = r.shown /\ Fields(r2) /\ Set(s, r2)
        BY <1>1, <2>1, <2>2, <2>3 DEF Fields, FieldNames
      <3> HIDE DEF r2
      <3>3. Citing(s, r2, cited'[s], stored', body)
        BY <1>2, <2>2, <2>3, <3>1, <3>2 DEF Citing, ShownBy
      <3>4. Viewed(s, r2, cited'[s], view[s], stored')
        BY <1>2, <2>2, <3>2 DEF Viewed, ShownBy
      <3> QED
        BY <1>1, <2>2, <3>2, <3>3, <3>4, OneSearch
    <2>4. CASE body[n] = NoBody
      BY <1>4, <2>1, <2>2, <2>4
    <2> QED
      BY <2>3, <2>4
  <1>6. CASE CommitCitations(s)
    <2>1. /\ r.at = "cite" /\ Uncited(s) = {} /\ UNCHANGED <<body, version, stored, view>>
          /\ cited' = [cited EXCEPT ![s] = r.citing] /\ End(s, "answered")
      BY <1>6 DEF CommitCitations
    <2>2. r.citing = shown /\ NotesOf(r.hits) = shown
      <3>1. \A i \in DOMAIN r.hits : r.hits[i].chunk.note \in r.citing
        BY <2>1 DEF Uncited
      <3>2. NotesOf(r.hits) \subseteq r.citing
        BY <3>1 DEF NotesOf, ToSet
      <3>3. r.citing \subseteq shown /\ NotesOf(r.hits) = shown
        BY <1>2, <2>1 DEF Citing
      <3> QED
        BY <3>2, <3>3
    <2>3. PICK r2 : /\ Set(s, r2) /\ Fields(r2) /\ r2.at = "answered"
                    /\ r2.shown = r.shown /\ r2.citing = {}
      BY <2>1, EndFields
    <2>4. /\ cited'[s] = shown /\ \A t \in Search : t # s => cited'[t] = cited[t]
          /\ cited' = [t \in Search |-> cited'[t]]
      BY <1>1, <2>1, <2>2
    <2>5. Citing(s, r2, cited'[s], stored', body)
      BY <1>2, <2>1, <2>2, <2>3, <2>4 DEF Citing, ShownBy
    <2>6. Viewed(s, r2, cited'[s], view[s], stored')
      BY <1>2, <2>1, <2>3, <2>4 DEF Viewed, Citing, ShownBy
    <2> QED
      BY <2>1, <2>3, <2>4, <2>5, <2>6, OneSearch
  <1>7. CASE Fail(s)
    <2>1. s \in stored => r.at = "cite"
      BY <1>2, <1>7 DEF Fail, Stages, Citing
    <2>2. r.at # "answered"
      BY <1>7 DEF Fail, Stages
    <2> QED
      BY <1>4, <1>7, <2>1, <2>2 DEF Fail
  <1> QED
    BY <1>3, <1>5, <1>6, <1>7

-----------------------------------------------------------------------------
(* Reading, and changes of notes                                           *)

\* Reading changes what was viewed of one answer only.
LEMMA OneView ==
  ASSUME IInv, NEW s \in Search, NEW v, view' = [view EXCEPT ![s] = v], ViewFields(v),
         UNCHANGED <<body, run, stored, cited>>,
         Viewed(s, run[s], cited[s], v, stored)
  PROVE  IInv'
  <1>1. /\ view' = [t \in Search |-> view'[t]]
        /\ view'[s] = v /\ \A t \in Search : t # s => view'[t] = view[t]
    BY DEF IInv, Shapes
  <1>2. Shapes'
    BY <1>1 DEF IInv, Shapes
  <1>3. ASSUME NEW t \in Search
        PROVE  /\ Citing(t, run'[t], cited'[t], stored', body')
               /\ Viewed(t, run'[t], cited'[t], view'[t], stored')
    <2>1. CASE t = s
      BY <1>1, <2>1 DEF IInv
    <2>2. CASE t # s
      BY <1>1, <1>3, <2>2 DEF IInv
    <2> QED
      BY <2>1, <2>2
  <1> QED
    BY <1>2, <1>3 DEF IInv

\* Reading a conversation.
LEMMA ReadStep ==
  ASSUME IInv, NEW s \in Search, ReadMessages(s) \/ ReadCitations(s)
  PROVE  IInv'
  <1> DEFINE v == view[s]
  <1>1. ViewFields(v) /\ view = [t \in Search |-> view[t]]
    BY DEF IInv, Shapes
  <1>2. /\ Citing(s, run[s], cited[s], stored, body)
        /\ Viewed(s, run[s], cited[s], v, stored)
    BY DEF IInv
  <1>3. CASE ReadMessages(s)
    <2> DEFINE v2 == [v EXCEPT !.at = "messages", !.whole = run[s].at = "answered"]
    <2>1. view' = [view EXCEPT ![s] = v2] /\ UNCHANGED <<body, run, stored, cited>>
      BY <1>1, <1>3 DEF ReadMessages
    <2>2. ViewFields(v2) /\ v2.at = "messages" /\ (v2.whole <=> run[s].at = "answered")
      BY <1>1 DEF ViewFields
    <2>3. s \in stored
      BY <1>3 DEF ReadMessages
    <2> HIDE DEF v2
    <2>4. Viewed(s, run[s], cited[s], v2, stored)
      BY <2>2, <2>3 DEF Viewed
    <2> QED
      BY <2>1, <2>2, <2>4, OneView
  <1>4. CASE ReadCitations(s)
    <2> DEFINE v2 == [v EXCEPT !.at = "both", !.sources = cited[s]]
    <2>1. view' = [view EXCEPT ![s] = v2] /\ UNCHANGED <<body, run, stored, cited>>
      BY <1>1, <1>4 DEF ReadCitations
    <2>2. /\ ViewFields(v2) /\ v2.at = "both" /\ v2.whole = v.whole
          /\ v2.sources = cited[s]
      BY <1>1 DEF ViewFields
    <2>3. v.at = "messages"
      BY <1>4 DEF ReadCitations
    <2> HIDE DEF v2
    <2>4. Viewed(s, run[s], cited[s], v2, stored)
      BY <1>2, <2>2, <2>3 DEF Viewed, Citing
    <2> QED
      BY <2>1, <2>2, <2>4, OneView
  <1> QED
    BY <1>3, <1>4

\* A note that is changed or deleted: searches forget chunks, nothing else, and
\* a note that is cited is not deleted.
LEMMA ChangeStep ==
  ASSUME IInv, NEW n \in Note, DeleteNote(n) \/ \E b \in Body : SaveNote(n, b)
  PROVE  IInv'
  <1>1. /\ Forget(Rows(n)) /\ UNCHANGED <<stored, cited, view>>
        /\ \E b : body' = [body EXCEPT ![n] = b]
    BY DEF DeleteNote, SaveNote
  <1>2. /\ body' = [m \in Note |-> body'[m]]
        /\ \A m \in Note : m # n => body'[m] = body[m]
    BY <1>1 DEF IInv, Shapes
  <1>3. \/ body'[n] # NoBody
        \/ \A s \in Search : n \notin run[s].citing \cup cited[s]
    BY SearchAssumption DEF DeleteNote, SaveNote, IInv, Shapes, SearchAssumption
  <1>4. run' = [s \in Search |-> run'[s]]
    BY <1>1 DEF Forget
  <1>5. ASSUME NEW s \in Search
        PROVE  /\ Fields(run'[s]) /\ run'[s].at = run[s].at /\ run'[s].hits = run[s].hits
               /\ run'[s].shown = run[s].shown /\ run'[s].citing = run[s].citing
    <2>1. Fields(run[s])
      BY DEF IInv, Shapes
    <2>2. run'[s] = [run[s] EXCEPT !.steady = @ \ Rows(n)]
      BY <1>1 DEF Forget
    <2> QED
      BY <2>1, <2>2 DEF Fields, FieldNames
  <1>6. Shapes'
    BY <1>1, <1>2, <1>4, <1>5 DEF IInv, Shapes
  <1>7. ASSUME NEW s \in Search
        PROVE  /\ Citing(s, run'[s], cited'[s], stored', body')
               /\ Viewed(s, run'[s], cited'[s], view'[s], stored')
    <2>1. /\ Citing(s, run[s], cited[s], stored, body)
          /\ Viewed(s, run[s], cited[s], view[s], stored)
      BY <1>7 DEF IInv
    <2>2. \A m \in run[s].citing \cup cited[s] : body'[m] # NoBody
      <3> SUFFICES ASSUME NEW m \in run[s].citing \cup cited[s] PROVE body'[m] # NoBody
        OBVIOUS
      <3>1. CASE m = n
        BY <1>3, <3>1
      <3>2. CASE m # n
        BY <1>1, <2>1, <3>2 DEF Citing, IInv, Shapes
      <3> QED
        BY <3>1, <3>2
    <2>3. Citing(s, run'[s], cited'[s], stored', body')
      BY <1>1, <1>5, <2>1, <2>2 DEF Citing, ShownBy
    <2>4. Viewed(s, run'[s], cited'[s], view'[s], stored')
      BY <1>1, <1>5, <2>1 DEF Viewed, ShownBy
    <2> QED
      BY <2>3, <2>4
  <1> QED
    BY <1>6, <1>7 DEF IInv

-----------------------------------------------------------------------------
(* Theorems                                                                *)

\* Every step keeps the invariant.
THEOREM Inductive == Spec => []IInv
  <1>1. IInv /\ [Next]_vars => IInv'
    <2> SUFFICES ASSUME IInv, [Next]_vars PROVE IInv'
      OBVIOUS
    <2>1. CASE UNCHANGED vars
      BY <2>1 DEF vars, IInv, Shapes
    <2> QED
      BY <2>1, FindStep, AnswerStep, ReadStep, ChangeStep DEF Next
  <1> QED
    BY <1>1, InitIInv, PTL DEF Spec

\* The sources that come back with a stored answer are those that were shown
\* with it, all or none, and their notes are there, whatever is saved, deleted or
\* lost in between and whatever the search has found.
THEOREM ReloadAgreesHolds == Spec => []ReloadAgrees
  <1>1. IInv => ReloadAgrees
    BY DEF IInv, Citing, Viewed, ShownBy, ReloadAgrees
  <1> QED
    BY <1>1, Inductive, PTL

=============================================================================
