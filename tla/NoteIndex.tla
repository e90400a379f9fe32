------------------------------ MODULE NoteIndex ------------------------------
(***************************************************************************)
(* The notes of one user and what is derived from them: saving a note      *)
(* (app/ingest.py, update_note of app/mcp_tools.py), indexing it           *)
(* (app/indexing.py) and deleting it (app/routes/notes.py), on PostgreSQL  *)
(* at READ COMMITTED.                                                      *)
(*                                                                         *)
(* A save is one transaction and its indexing another; a statement sees    *)
(* what was committed when it was issued, waits for rows that open         *)
(* transactions hold, and its effects are visible at the commit.  A job is *)
(* one save or deletion.  The body of a note stands for its chunks too:    *)
(* one chunk row per indexing, named by the job that stored it, and none   *)
(* for a body that is blank.                                               *)
(***************************************************************************)
EXTENDS Naturals, FiniteSets

CONSTANTS
    Job,         \* saves and deletions, each used once
    Title,       \* titles of notes
    Body,        \* bodies of notes
    Links,       \* extract_links: the titles a body links to
    Blank,       \* bodies that split_into_chunks makes nothing of
    Concurrent   \* how many jobs run at once

ASSUME LinksAssumption ==
    /\ Title # {} /\ Body # {} /\ Links \in [Body -> SUBSET Title]
    /\ Blank \subseteq Body /\ \A b \in Blank : Links[b] = {}
    /\ Concurrent \in Nat \ {0}

VARIABLES
    notes,    \* rows of notes
    nextNote, \* the identity sequence of notes.id
    chunks,   \* rows of chunks
    edges,    \* rows of edges
    cited,    \* notes with rows in message_citations
    job,      \* the state of each job
    met       \* history: the jobs whose transactions overlapped

vars == <<notes, nextNote, chunks, edges, cited, job, met>>

-----------------------------------------------------------------------------
(* Rows                                                                    *)

\* writer wrote the body and creator inserted the row; no column holds them.
Notes == [id : Nat \ {0}, title : Title, body : Body, creator : Job, writer : Job]

Chunks == [note : Nat \ {0}, body : Body, by : Job]

\* dst 0 is NULL: an unresolved link.  by tells a row from a later one that has
\* the same primary key.
Edges == [src : Nat \ {0}, title : Title, dst : Nat, by : Job]

Key(e) == [src |-> e.src, title |-> e.title, by |-> e.by]

Exists(n) == \E x \in notes : x.id = n

Row(n) == CHOOSE x \in notes : x.id = n

\* SELECT id FROM notes WHERE user_id = .. AND title = .., 0 when there is none.
IdOf(title) == IF \E x \in notes : x.title = title
               THEN (CHOOSE x \in notes : x.title = title).id ELSE 0

-----------------------------------------------------------------------------
(* Jobs and the locks of their transactions                                *)

Storing  == {"unlink", "unlinking", "link", "resolving"}
Saving   == {"write", "read", "clear", "clearing", "embed"} \cup Storing
Deleting == {"unresolve", "unresolving", "drop"}
Running  == Saving \cup Deleting
Ended    == {"done", "dropped", "failed", "refused", "lost"}

\* The transaction is open and has read what it works from.
Indexing  == {"clear", "clearing", "embed"} \cup Storing
Detaching == {"unresolving", "drop"}

Jobs == [at : {"idle"} \cup Running \cup Ended,
         title : Title, note : Nat, body : Body,
         fresh : BOOLEAN,                     \* is_new
         oldChunks : SUBSET Chunks,           \* what its DELETE FROM chunks found
         oldEdges : SUBSET [src : Nat \ {0}, title : Title, by : Job],
                                             \* DELETE FROM edges, or unresolve_links_to
         todo : SUBSET Title,                 \* links still to be written
         links : SUBSET [title : Title, dst : Nat],
         inbound : SUBSET [src : Nat \ {0}, title : Title, by : Job]]

Idle == [at |-> "idle", title |-> CHOOSE x \in Title : TRUE, note |-> 0,
         body |-> CHOOSE x \in Body : TRUE, fresh |-> FALSE,
         oldChunks |-> {}, oldEdges |-> {}, todo |-> {}, links |-> {}, inbound |-> {}]

SetJob(j, to) == job' = [job EXCEPT ![j] = to]

Goto(j, stage) == SetJob(j, [job[j] EXCEPT !.at = stage])

\* The outcome is all that is left of a job, with the note it was about.
End(j, outcome) ==
    SetJob(j, [Idle EXCEPT !.at = outcome, !.note = job[j].note, !.title = job[j].title])

\* Chunk rows the open transaction of j has deleted.
HeldChunks(j) ==
    IF job[j].at \in {"embed"} \cup Storing THEN job[j].oldChunks ELSE {}

\* Edge rows the open transaction of j has deleted, updated or about to replace.
HeldEdges(j) ==
    IF job[j].at \in {"link", "resolving", "drop"}
    THEN {Key(e) : e \in {x \in edges :
             \/ Key(x) \in job[j].oldEdges
             \/ x.src = job[j].note /\ \E l \in job[j].links : l.title = x.title}}
    ELSE {}

FreeEdges(j, keys) == \A k \in Job \ {j} : HeldEdges(k) \cap keys = {}

\* j has updated the row of note n, or rows it has inserted reference n, so that
\* the row cannot be deleted.
References(j, n) ==
    /\ job[j].at \in Storing
    /\ \/ job[j].note = n /\ (job[j].body \notin Blank \/ job[j].at = "resolving")
       \/ \E l \in job[j].links : l.dst = n

\* No other transaction has updated the row of note n (updated_at).
FreeRow(j, n) == \A k \in Job \ {j} : ~(job[k].at = "resolving" /\ job[k].note = n)

\* The transaction of j overlaps those of the other jobs that are at these stages.
Meet(j, stages) ==
    LET W == {k \in Job \ {j} : job[k].at \in stages}
    IN met' = met \cup ({j} \X W) \cup (W \X {j})

-----------------------------------------------------------------------------
Init ==
    /\ notes = {} /\ nextNote = 1
    /\ chunks = {} /\ edges = {} /\ cited = {}
    /\ job = [j \in Job |-> Idle]
    /\ met = {}

MayStart(j) ==
    /\ job[j].at = "idle"
    /\ Cardinality({k \in Job : job[k].at \in Running}) < Concurrent

-----------------------------------------------------------------------------
(* Faults                                                                  *)

InsertNote_Unchecked(j) ==
    /\ job[j].at = "write" /\ job[j].note = 0
    /\ notes' = notes \cup {[id |-> nextNote, title |-> job[j].title,
                             body |-> job[j].body, creator |-> j, writer |-> j]}
    /\ nextNote' = nextNote + 1
    /\ SetJob(j, [job[j] EXCEPT !.at = "read", !.note = nextNote, !.fresh = TRUE])
    /\ UNCHANGED <<chunks, edges, cited, met>>

\* No DELETE FROM chunks before the new ones.
ClearChunks_None(j) ==
    /\ job[j].at = "clear"
    /\ Goto(j, "clearing")
    /\ UNCHANGED <<notes, nextNote, chunks, edges, cited, met>>

\* No DELETE FROM edges before the new ones.
ClearEdges_None(j) ==
    /\ job[j].at = "unlink"
    /\ Goto(j, "unlinking")
    /\ UNCHANGED <<notes, nextNote, chunks, edges, cited, met>>

\* The DELETE is committed on its own, before the embeddings are there.
ChunksCleared_Alone(j) ==
    /\ job[j].at = "clearing"
    /\ \A k \in Job \ {j} : HeldChunks(k) \cap job[j].oldChunks = {}
    /\ chunks' = chunks \ job[j].oldChunks
    /\ Goto(j, "embed")
    /\ UNCHANGED <<notes, nextNote, edges, cited, met>>

\* index_after_save without resolve_inbound_links.
Linked_NoInbound(j) ==
    /\ job[j].at = "link" /\ job[j].todo = {} /\ FreeRow(j, job[j].note)
    /\ Goto(j, "resolving")
    /\ UNCHANGED <<notes, nextNote, chunks, edges, cited, met>>

\* resolve_inbound_links without its condition on the title.
Linked_AnyTitle(j) ==
    /\ job[j].at = "link" /\ job[j].todo = {} /\ FreeRow(j, job[j].note)
    /\ SetJob(j, [job[j] EXCEPT !.at = "resolving",
                    !.inbound = {Key(e) : e \in {x \in edges : job[j].fresh /\ x.dst = 0}}])
    /\ UNCHANGED <<notes, nextNote, chunks, edges, cited, met>>

\* The DELETE without unresolve_links_to.
Unresolve_None(j) ==
    /\ job[j].at = "unresolve"
    /\ Goto(j, "unresolving")
    /\ UNCHANGED <<notes, nextNote, chunks, edges, cited, met>>

-----------------------------------------------------------------------------
(* Saving: _write_note, or update_note and a merge for an existing note    *)

Save(j, title, body) ==
    /\ MayStart(j)
    /\ SetJob(j, [Idle EXCEPT !.at = "write", !.title = title, !.body = body,
                              !.note = IdOf(title)])
    /\ UNCHANGED <<notes, nextNote, chunks, edges, cited, met>>

\* INSERT and commit; the title may have been taken since it was looked up.
InsertNote(j) ==
    /\ job[j].at = "write" /\ job[j].note = 0
    /\ IF IdOf(job[j].title) # 0
       THEN /\ End(j, "failed")
            /\ UNCHANGED <<notes, nextNote>>
       ELSE /\ notes' = notes \cup {[id |-> nextNote, title |-> job[j].title,
                                     body |-> job[j].body, creator |-> j, writer |-> j]}
            /\ nextNote' = nextNote + 1
            /\ SetJob(j, [job[j] EXCEPT !.at = "read", !.note = nextNote, !.fresh = TRUE])
    /\ UNCHANGED <<chunks, edges, cited, met>>

\* UPDATE .. SET body and commit: of no row if the note has been deleted.
UpdateNote(j) ==
    /\ job[j].at = "write" /\ job[j].note # 0 /\ FreeRow(j, job[j].note)
    /\ notes' = {IF x.id = job[j].note
                 THEN [x EXCEPT !.body = job[j].body, !.writer = j] ELSE x : x \in notes}
    /\ Goto(j, "read")
    /\ UNCHANGED <<nextNote, chunks, edges, cited, met>>

-----------------------------------------------------------------------------
(* Indexing, in a transaction of its own: index_after_save, reindex_note   *)

\* The body is read here, and is the one the note has by now.
ReadNote(j) ==
    /\ job[j].at = "read"
    /\ IF Exists(job[j].note)
       THEN /\ SetJob(j, [job[j] EXCEPT !.at = "clear", !.body = Row(job[j].note).body,
                                        !.todo = Links[Row(job[j].note).body]])
            /\ Meet(j, Indexing \cup Detaching)
       ELSE End(j, "failed") /\ UNCHANGED met
    /\ UNCHANGED <<notes, nextNote, chunks, edges, cited>>

\* DELETE FROM chunks: issued, then done when no other transaction holds a row.
ClearChunks(j) ==
    /\ job[j].at = "clear"
    /\ SetJob(j, [job[j] EXCEPT !.at = "clearing",
                                !.oldChunks = {c \in chunks : c.note = job[j].note}])
    /\ UNCHANGED <<notes, nextNote, chunks, edges, cited, met>>

ChunksCleared(j) ==
    /\ job[j].at = "clearing"
    /\ \A k \in Job \ {j} : HeldChunks(k) \cap job[j].oldChunks = {}
    /\ Goto(j, "embed")
    /\ UNCHANGED <<notes, nextNote, chunks, edges, cited, met>>

\* The embeddings are there; the INSERTs, if there are any chunks, need the note
\* and keep it from deletion.
StoreChunks(j) ==
    /\ job[j].at = "embed"
    /\ IF job[j].body \in Blank \/ Exists(job[j].note)
       THEN Goto(j, "unlink") ELSE End(j, "failed")
    /\ UNCHANGED <<notes, nextNote, chunks, edges, cited, met>>

\* DELETE FROM edges of this source: issued, then done.
ClearEdges(j) ==
    /\ job[j].at = "unlink"
    /\ SetJob(j, [job[j] EXCEPT !.at = "unlinking",
                    !.oldEdges = {Key(e) : e \in {x \in edges : x.src = job[j].note}}])
    /\ UNCHANGED <<notes, nextNote, chunks, edges, cited, met>>

EdgesCleared(j) ==
    /\ job[j].at = "unlinking"
    /\ FreeEdges(j, job[j].oldEdges)
    /\ Goto(j, "link")
    /\ UNCHANGED <<notes, nextNote, chunks, edges, cited, met>>

\* One link: look its title up, INSERT .. ON CONFLICT DO UPDATE.  An uncommitted
\* row of the same primary key, or a conflicting row that is held, is waited for.
Link(j, title) ==
    /\ job[j].at = "link" /\ title \in job[j].todo
    /\ \A k \in Job \ {j} :
         ~(/\ References(k, job[j].note) /\ job[k].note = job[j].note
           /\ \E l \in job[k].links : l.title = title)
    /\ FreeEdges(j, {Key(e) : e \in {x \in edges : x.src = job[j].note /\ x.title = title}})
    /\ SetJob(j, [job[j] EXCEPT !.todo = @ \ {title},
                                !.links = @ \cup {[title |-> title, dst |-> IdOf(title)]}])
    /\ UNCHANGED <<notes, nextNote, chunks, edges, cited, met>>

\* UPDATE .. SET updated_at, of no row if the note has been deleted.  Only after a
\* creation the title is read, of a row that has to be there, and
\* resolve_inbound_links is issued.
Linked(j) ==
    /\ job[j].at = "link" /\ job[j].todo = {} /\ FreeRow(j, job[j].note)
    /\ IF job[j].fresh /\ ~Exists(job[j].note)
       THEN End(j, "failed")
       ELSE SetJob(j, [job[j] EXCEPT !.at = "resolving",
                    !.inbound = {Key(e) : e \in {x \in edges :
                        job[j].fresh /\ x.title = job[j].title /\ x.dst = 0}}])
    /\ UNCHANGED <<notes, nextNote, chunks, edges, cited, met>>

\* What the transaction does to the rows that are left when it commits.
Relinked(j, e) ==
    IF e.src = job[j].note /\ \E l \in job[j].links : l.title = e.title
    THEN [e EXCEPT !.dst = (CHOOSE l \in job[j].links : l.title = e.title).dst]
    ELSE IF Key(e) \in job[j].inbound /\ e.dst = 0 THEN [e EXCEPT !.dst = job[j].note]
    ELSE e

Commit(j) ==
    /\ job[j].at = "resolving"
    /\ FreeEdges(j, job[j].inbound)
    /\ chunks' = (chunks \ job[j].oldChunks)
                   \cup {[note |-> job[j].note, body |-> b, by |-> j]
                            : b \in {job[j].body} \ Blank}
    /\ LET kept == {e \in edges : Key(e) \notin job[j].oldEdges}
           new  == {l \in job[j].links :
                      ~\E e \in kept : e.src = job[j].note /\ e.title = l.title}
       IN edges' = {Relinked(j, e) : e \in kept}
                     \cup {[src |-> job[j].note, title |-> l.title, dst |-> l.dst, by |-> j]
                             : l \in new}
    /\ End(j, "done")
    /\ UNCHANGED <<notes, nextNote, cited, met>>

-----------------------------------------------------------------------------
(* Deleting: delete_page and delete_note, one transaction after a lookup   *)

\* The lookup; nothing changes when there is no such note.
Delete(j, title) ==
    /\ MayStart(j) /\ IdOf(title) # 0
    /\ SetJob(j, [Idle EXCEPT !.at = "unresolve", !.title = title, !.note = IdOf(title)])
    /\ UNCHANGED <<notes, nextNote, chunks, edges, cited, met>>

\* unresolve_links_to: issued, then done.
Unresolve(j) ==
    /\ job[j].at = "unresolve"
    /\ SetJob(j, [job[j] EXCEPT !.at = "unresolving",
                    !.oldEdges = {Key(e) : e \in {x \in edges : x.dst = job[j].note}}])
    /\ Meet(j, Indexing)
    /\ UNCHANGED <<notes, nextNote, chunks, edges, cited>>

Unresolved(j) ==
    /\ job[j].at = "unresolving"
    /\ FreeEdges(j, job[j].oldEdges)
    /\ Goto(j, "drop")
    /\ UNCHANGED <<notes, nextNote, chunks, edges, cited, met>>

\* DELETE FROM notes, its cascades, and commit.  A citation would be SET NULL,
\* and note_id is in the primary key of message_citations: the DELETE fails.
DropNote(j) ==
    LET n == job[j].note
        cascaded == {e \in edges : e.src = n \/ (e.dst = n /\ Key(e) \notin job[j].oldEdges)}
    IN /\ job[j].at = "drop"
       /\ \A k \in Job \ {j} : /\ ~References(k, n)
                               /\ \A c \in HeldChunks(k) : c.note # n
       /\ FreeEdges(j, {Key(e) : e \in cascaded})
       /\ IF n \in cited
          THEN End(j, "refused") /\ UNCHANGED <<notes, chunks, edges>>
          ELSE /\ notes' = {x \in notes : x.id # n}
               /\ chunks' = {c \in chunks : c.note # n}
               /\ edges' = {IF e.dst = n THEN [e EXCEPT !.dst = 0] ELSE e
                              : e \in edges \ cascaded}
               /\ End(j, "dropped")
       /\ UNCHANGED <<nextNote, cited, met>>

-----------------------------------------------------------------------------
(* Around the jobs                                                         *)

\* An answer of the chat cites the note; its conversation is deleted.
Cite(n)   == Exists(n) /\ cited' = cited \cup {n}
               /\ UNCHANGED <<notes, nextNote, chunks, edges, job, met>>
Uncite(n) == n \in cited /\ cited' = cited \ {n}
               /\ UNCHANGED <<notes, nextNote, chunks, edges, job, met>>

\* A failed statement, a failed embedding, or a deadlock PostgreSQL has broken:
\* the open transaction is rolled back.
Fail(j) ==
    /\ job[j].at \in Running
    /\ End(j, "failed")
    /\ UNCHANGED <<notes, nextNote, chunks, edges, cited, met>>

\* The process stops; indexing that waits as a background task is forgotten.
Crash ==
    /\ \E j \in Job : job[j].at \in Running
    /\ job' = [j \in Job |-> IF job[j].at \in Running
                             THEN [Idle EXCEPT !.at = "lost", !.note = job[j].note,
                                               !.title = job[j].title]
                             ELSE job[j]]
    /\ UNCHANGED <<notes, nextNote, chunks, edges, cited, met>>

Next ==
    \/ \E j \in Job :
        \/ \E title \in Title, body \in Body : Save(j, title, body)
        \/ InsertNote(j) \/ UpdateNote(j)
        \/ ReadNote(j) \/ ClearChunks(j) \/ ChunksCleared(j) \/ StoreChunks(j)
        \/ ClearEdges(j) \/ EdgesCleared(j)
        \/ \E title \in Title : Link(j, title)
        \/ Linked(j) \/ Commit(j)
        \/ \E title \in Title : Delete(j, title)
        \/ Unresolve(j) \/ Unresolved(j) \/ DropNote(j)
        \/ Fail(j)
    \/ \E n \in 1..(nextNote - 1) : Cite(n) \/ Uncite(n)
    \/ Crash

Spec == Init /\ [][Next]_vars

-----------------------------------------------------------------------------
(* Properties                                                              *)

\* Rows have their columns' types and the keys of their tables are unique, the
\* title of a note included (notes_user_title_key).
TypeOK ==
    /\ notes \subseteq Notes /\ nextNote \in Nat \ {0}
    /\ chunks \subseteq Chunks /\ edges \subseteq Edges
    /\ cited \subseteq {x.id : x \in notes}
    /\ job \in [Job -> Jobs] /\ met \subseteq Job \X Job
    /\ \A x, y \in notes : (x.id = y.id \/ x.title = y.title) => x = y
    /\ \A e, f \in edges : e.src = f.src /\ e.title = f.title => e = f

Settled == {x \in notes : job[x.writer].at = "done"}

\* The indexing of note n by a save overlapped the transaction of job j.
Overlapped(n, j) ==
    \E k \in Job : job[k].at = "done" /\ job[k].note = n /\ <<k, j>> \in met

\* Once the save that wrote a note's body has ended well, the chunks of the note
\* are those of that body and no save's chunks lie beside another's, unless the
\* indexing of the note overlapped that of another save of it: reindex_note
\* deletes the chunks its statement sees, and takes no lock on the note.
ChunksCurrent ==
    /\ \A c, d \in chunks : c.note = d.note => c = d \/ <<c.by, d.by>> \in met
    /\ \A x \in Settled :
         /\ \A c \in {d \in chunks : d.note = x.id} :
               c.body = x.body \/ <<c.by, x.writer>> \in met
         /\ x.body \notin Blank =>
               \/ \E c \in chunks : c.note = x.id
               \/ Overlapped(x.id, x.writer)

\* By then its outgoing edges are the links of that body, unless another save of
\* the note was being indexed at the same time, or the target's deletion ran
\* while this note, or the target, was being indexed.
LinksCurrent ==
    \A x \in Settled :
        /\ \A e \in edges : e.src = x.id =>
              e.title \in Links[x.body] \/ <<e.by, x.writer>> \in met
        /\ \A t \in Links[x.body] :
              \/ \E e \in edges : e.src = x.id /\ e.title = t
              \/ Overlapped(x.id, x.writer)
              \/ \E d \in Job : /\ job[d].at = "dropped" /\ job[d].title = t
                                /\ Overlapped(x.id, d) \/ Overlapped(job[d].note, d)

\* A link stays unresolved only while no note of its title has been created and
\* indexed (reindex_note, resolve_inbound_links), unless the note with the link
\* was being indexed while the other one's creation was.
LinksResolved ==
    \A e \in edges, x \in notes :
        e.title = x.title /\ job[x.creator].at = "done" =>
            e.dst = x.id \/ Overlapped(e.src, x.creator)

\* The same, once any save of the note has ended well: a save repeated after its
\* indexing failed is not a creation any more.
ResolvedOnceSaved ==
    \A e \in edges, x \in Settled : e.title = x.title => e.dst = x.id

\* What the graph and the search read exists, and a resolved link leads to the
\* note of its title, whatever is saved and deleted at the same time.
EdgesPointRight ==
    /\ \A c \in chunks : Exists(c.note)
    /\ \A e \in edges : /\ Exists(e.src)
                        /\ e.dst # 0 => Exists(e.dst) /\ Row(e.dst).title = e.title

\* A note that the search can find stays so while it exists: its chunks are
\* replaced in the transaction that removes them.  Only the end of an indexing
\* that read a blank body takes it out of the search (split_into_chunks).
StaysSearchable ==
    [][\A c \in chunks : Exists(c.note)' =>
          \/ \E d \in chunks' : d.note = c.note
          \/ \E j \in Job : /\ job[j].at = "resolving" /\ job'[j].at = "done"
                            /\ job[j].note = c.note /\ job[j].body \in Blank]_vars

\* A deletion keeps the links of other notes to the deleted one, unless the note
\* with the link, or the deleted one, was indexed while the deletion ran: such a
\* link is not among those that unresolve_links_to saw, and goes with the note.
InboundKept ==
    [][\A e \in edges : Exists(e.src)' /\ e.dst # 0 /\ ~Exists(e.dst)' =>
          \/ \E f \in edges' : f.src = e.src /\ f.title = e.title
          \/ \E d \in Job : /\ job[d].at = "drop" /\ job[d].note = e.dst
                            /\ Overlapped(e.src, d) \/ Overlapped(e.dst, d)]_vars

=============================================================================
