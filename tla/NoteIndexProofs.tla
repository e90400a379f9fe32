-------------------------- MODULE NoteIndexProofs ---------------------------
(***************************************************************************)
(* Theorems about NoteIndex for any jobs, titles and bodies.               *)
(***************************************************************************)
EXTENDS NoteIndex, TLAPS

\* What a job holds agrees with the rows: what it has inserted refers to notes
\* that are there, and what it will resolve has the title of its note.
Sound(rows, next, x) ==
    /\ x.note < next
    /\ x.at \in Storing /\ (x.body \notin Blank \/ (x.fresh /\ x.at = "resolving")) =>
          \E y \in rows : y.id = x.note
    /\ x.at \in Indexing => x.todo \subseteq Links[x.body]
    /\ \A l \in x.links :
          /\ x.at \in Storing /\ l.title \notin x.todo /\ l.title \in Links[x.body]
          /\ l.dst # 0 => \E y \in rows : y.id = l.dst /\ y.title = l.title
          /\ \A m \in x.links : m.title = l.title => m = l
    /\ x.fresh => \A y \in rows : y.id = x.note => y.title = x.title
    /\ \A e \in x.inbound : x.fresh /\ x.at = "resolving" /\ e.title = x.title
    /\ \A c \in x.oldChunks : x.at \in {"clearing", "embed"} \cup Storing /\ c.note = x.note

Held == \A j \in Job : Sound(notes, nextNote, job[j])

Numbered == \A x \in notes : x.id < nextNote

IInv == TypeOK /\ Numbered /\ Held /\ EdgesPointRight

-----------------------------------------------------------------------------
(* Rows                                                                    *)

\* The lookup by title finds the note that has it.
LEMMA IdOfTitle ==
  ASSUME TypeOK, NEW t
  PROVE  /\ IdOf(t) \in Nat
         /\ IdOf(t) = 0 <=> \A x \in notes : x.title # t
         /\ IdOf(t) # 0 => \E x \in notes : x.title = t /\ x.id = IdOf(t)
         /\ \A x \in notes : x.title = t => IdOf(t) = x.id
  <1>1. CASE \E x \in notes : x.title = t
    <2>1. PICK y \in notes : y = (CHOOSE x \in notes : x.title = t) /\ y.title = t
      BY <1>1
    <2>2. IdOf(t) = y.id
      BY <1>1, <2>1 DEF IdOf
    <2> QED
      BY <2>1, <2>2 DEF TypeOK, Notes
  <1>2. CASE ~ \E x \in notes : x.title = t
    BY <1>2 DEF IdOf
  <1> QED
    BY <1>1, <1>2

\* A note that exists is its row.
LEMMA RowOfNote ==
  ASSUME TypeOK, NEW n, Exists(n)
  PROVE  Row(n) \in notes /\ Row(n).id = n /\ \A x \in notes : x.id = n => x = Row(n)
  <1>1. PICK y \in notes : y = (CHOOSE x \in notes : x.id = n) /\ y.id = n
    BY DEF Exists
  <1> QED
    BY <1>1 DEF Row, TypeOK

\* The titles and bodies of an idle job are some title and some body.
LEMMA IdleType == Idle \in Jobs
  <1>1. Idle.title \in Title /\ Idle.body \in Body
    BY LinksAssumption DEF Idle
  <1> QED
    BY <1>1 DEF Idle, Jobs

\* The key of an edge is typed.
LEMMA KeyType == \A e \in Edges : Key(e) \in [src : Nat \ {0}, title : Title, by : Job]
  BY DEF Edges, Key

\* A job that is set to a sound state, the rows and the other jobs as they are.
LEMMA SetJobSound ==
  ASSUME TypeOK, Held, NEW j \in Job, NEW x \in Jobs, SetJob(j, x),
         Sound(notes, nextNote, x), UNCHANGED <<notes, nextNote>>
  PROVE  /\ job' \in [Job -> Jobs] /\ Held'
         /\ job'[j] = x /\ \A k \in Job \ {j} : job'[k] = job[k]
  <1>1. /\ job' \in [Job -> Jobs]
        /\ job'[j] = x /\ \A k \in Job \ {j} : job'[k] = job[k]
    BY DEF SetJob, TypeOK
  <1> QED
    BY <1>1 DEF Held

\* A job that has ended holds nothing.
LEMMA EndedSound ==
  ASSUME TypeOK, Held, NEW j \in Job, NEW outcome \in Ended, NEW rows, NEW next \in Nat,
         nextNote <= next
  PROVE  /\ [Idle EXCEPT !.at = outcome, !.note = job[j].note, !.title = job[j].title] \in Jobs
         /\ Sound(rows, next,
                  [Idle EXCEPT !.at = outcome, !.note = job[j].note, !.title = job[j].title])
  <1> DEFINE x == [Idle EXCEPT !.at = outcome, !.note = job[j].note, !.title = job[j].title]
  <1>1. job[j] \in Jobs /\ job[j].note < nextNote /\ nextNote \in Nat
    BY DEF TypeOK, Held, Sound
  <1>2. x \in Jobs
    BY <1>1, IdleType DEF Jobs
  <1>3. /\ x.note = job[j].note /\ x.at \notin Storing /\ x.at \notin Indexing
        /\ x.links = {} /\ x.fresh = FALSE
        /\ x.inbound = {} /\ x.oldChunks = {}
    BY DEF Idle, Ended, Storing, Indexing
  <1>4. x.note < next
    BY <1>1, <1>3 DEF Jobs
  <1> QED
    BY <1>2, <1>3, <1>4 DEF Sound

\* What EdgesPointRight says of the rows themselves.
LEMMA PointsRight ==
  ASSUME IInv
  PROVE  /\ \A c \in chunks : \E y \in notes : y.id = c.note
         /\ \A e \in edges : \E y \in notes : y.id = e.src
         /\ \A e \in edges : e.dst # 0 => \E y \in notes : y.id = e.dst /\ y.title = e.title
  <1>1. TypeOK /\ EdgesPointRight
    BY DEF IInv
  <1>2. ASSUME NEW e \in edges, e.dst # 0
        PROVE  \E y \in notes : y.id = e.dst /\ y.title = e.title
    <2>1. Exists(e.dst) /\ Row(e.dst).title = e.title
      BY <1>1, <1>2 DEF EdgesPointRight
    <2> QED
      BY <1>1, <2>1, RowOfNote
  <1> QED
    BY <1>1, <1>2 DEF EdgesPointRight, Exists

\* The converse, after a step.
LEMMA PointRightAfter ==
  ASSUME TypeOK',
         \A c \in chunks' : \E y \in notes' : y.id = c.note,
         \A e \in edges' : \E y \in notes' : y.id = e.src,
         \A e \in edges' : e.dst # 0 => \E y \in notes' : y.id = e.dst /\ y.title = e.title
  PROVE  EdgesPointRight'
  <1>1. ASSUME NEW e \in edges', e.dst # 0
        PROVE  Exists(e.dst)' /\ Row(e.dst)'.title = e.title
    <2>1. PICK y \in notes' : y.id = e.dst /\ y.title = e.title
      BY <1>1
    <2>2. PICK z \in notes' : z = (CHOOSE x \in notes' : x.id = e.dst) /\ z.id = e.dst
      BY <2>1
    <2>3. z = y
      BY <2>1, <2>2 DEF TypeOK
    <2> QED
      BY <2>1, <2>2, <2>3 DEF Exists, Row
  <1>2. (\A c \in chunks : Exists(c.note))'
    BY DEF Exists
  <1>3. (\A e \in edges : Exists(e.src))'
    BY DEF Exists
  <1> QED
    BY <1>1, <1>2, <1>3 DEF EdgesPointRight

-----------------------------------------------------------------------------
(* The invariant                                                           *)

\* Initially there are no rows and no job has started.
LEMMA InitInv == Init => IInv
  <1> SUFFICES ASSUME Init PROVE IInv
    OBVIOUS
  <1>1. TypeOK
    BY IdleType DEF Init, TypeOK
  <1>2. Sound(notes, nextNote, Idle)
    BY DEF Init, Sound, Idle, Storing
  <1>3. Numbered /\ Held /\ EdgesPointRight
    BY <1>2 DEF Init, Numbered, Held, EdgesPointRight
  <1> QED
    BY <1>1, <1>3 DEF IInv

\* A step that changes no row.
LEMMA QuietStep ==
  ASSUME IInv, UNCHANGED <<notes, nextNote, chunks, edges, cited>>,
         met' \subseteq Job \X Job, job' \in [Job -> Jobs], Held'
  PROVE  IInv'
  BY DEF IInv, TypeOK, Numbered, EdgesPointRight, Exists, Row

\* A step of one job that changes no row.
LEMMA QuietJob ==
  ASSUME IInv, UNCHANGED <<notes, nextNote, chunks, edges, cited>>,
         met' \subseteq Job \X Job, NEW j \in Job, NEW x \in Jobs, SetJob(j, x), Sound(notes, nextNote, x)
  PROVE  IInv'
  <1>1. job' \in [Job -> Jobs] /\ Held'
    BY SetJobSound DEF IInv
  <1> QED
    BY <1>1, QuietStep

\* A job that ends without a change of rows.
LEMMA QuietEnd ==
  ASSUME IInv, UNCHANGED <<notes, nextNote, chunks, edges, cited>>,
         met' \subseteq Job \X Job, NEW j \in Job, NEW outcome \in Ended, End(j, outcome)
  PROVE  IInv'
  <1>1. nextNote \in Nat /\ nextNote <= nextNote
    BY DEF IInv, TypeOK
  <1> QED
    BY <1>1, EndedSound, QuietJob DEF End, IInv

\* The overlaps that a step records are of jobs.
LEMMA MeetType ==
  ASSUME TypeOK, NEW j \in Job, NEW stages, Meet(j, stages)
  PROVE  met' \subseteq Job \X Job
  BY DEF TypeOK, Meet

\* The steps of a save that change no row.
LEMMA SavingKeeps ==
  ASSUME IInv, NEW j \in Job,
         \/ \E title \in Title, body \in Body : Save(j, title, body)
         \/ ReadNote(j) \/ ClearChunks(j) \/ ChunksCleared(j) \/ StoreChunks(j)
         \/ ClearEdges(j) \/ EdgesCleared(j)
         \/ \E title \in Title : Link(j, title)
         \/ Linked(j)
  PROVE  IInv'
  <1>0. TypeOK /\ job[j] \in Jobs /\ Sound(notes, nextNote, job[j]) /\ nextNote \in Nat \ {0}
    BY DEF IInv, TypeOK, Held
  <1>a. met' \subseteq Job \X Job
    BY <1>0, MeetType DEF Save, ReadNote, ClearChunks, ChunksCleared, StoreChunks, ClearEdges,
       EdgesCleared, Link, Linked, TypeOK
  <1>1. ASSUME NEW title \in Title, NEW body \in Body, Save(j, title, body) PROVE IInv'
    <2> DEFINE x == [Idle EXCEPT !.at = "write", !.title = title, !.body = body,
                                 !.note = IdOf(title)]
    <2>1. IdOf(title) \in Nat /\ IdOf(title) < nextNote
      BY <1>0, IdOfTitle DEF IInv, Numbered
    <2>2. x \in Jobs
      BY <2>1, IdleType DEF Jobs, Running, Saving
    <2>3. Sound(notes, nextNote, x)
      BY <2>1 DEF Sound, Idle, Storing, Indexing
    <2> QED
      BY <1>1, <2>2, <2>3, <1>a, QuietJob DEF Save
  <1>2. CASE ReadNote(j)
    <2>1. CASE Exists(job[j].note)
      <3> DEFINE x == [job[j] EXCEPT !.at = "clear", !.body = Row(job[j].note).body,
                                     !.todo = Links[Row(job[j].note).body]]
      <3>1. Row(job[j].note).body \in Body
        BY <1>0, <2>1, RowOfNote DEF TypeOK, Notes
      <3>2. x \in Jobs
        BY <1>0, <3>1, LinksAssumption DEF Jobs, Running, Saving
      <3>3. Sound(notes, nextNote, x)
        BY <1>0, <1>2 DEF Sound, Jobs, Storing, Indexing, ReadNote
      <3> QED
        BY <1>2, <2>1, <3>2, <3>3, <1>a, QuietJob DEF ReadNote
    <2>2. CASE ~Exists(job[j].note)
      BY <1>2, <2>2, <1>a, QuietEnd DEF ReadNote, Ended
    <2> QED
      BY <2>1, <2>2
  <1>3. CASE ClearChunks(j)
    <2> DEFINE x == [job[j] EXCEPT !.at = "clearing",
                                   !.oldChunks = {c \in chunks : c.note = job[j].note}]
    <2>1. x \in Jobs
      BY <1>0 DEF Jobs, Running, Saving, TypeOK
    <2>2. Sound(notes, nextNote, x)
      BY <1>0, <1>3 DEF Sound, Jobs, Storing, Indexing, ClearChunks
    <2> QED
      BY <1>3, <2>1, <2>2, <1>a, QuietJob DEF ClearChunks
  <1>4. CASE ChunksCleared(j)
    <2> DEFINE x == [job[j] EXCEPT !.at = "embed"]
    <2>1. x \in Jobs
      BY <1>0 DEF Jobs, Running, Saving
    <2>2. Sound(notes, nextNote, x)
      BY <1>0, <1>4 DEF Sound, Jobs, Storing, Indexing, ChunksCleared
    <2> QED
      BY <1>4, <2>1, <2>2, <1>a, QuietJob DEF ChunksCleared, Goto
  <1>5. CASE StoreChunks(j)
    <2>1. CASE job[j].body \in Blank \/ Exists(job[j].note)
      <3> DEFINE x == [job[j] EXCEPT !.at = "unlink"]
      <3>1. x \in Jobs
        BY <1>0 DEF Jobs, Running, Saving, Storing
      <3>2. Sound(notes, nextNote, x)
        BY <1>0, <1>5, <2>1 DEF Sound, Jobs, Storing, Indexing, StoreChunks, Exists
      <3> QED
        BY <1>5, <2>1, <3>1, <3>2, <1>a, QuietJob DEF StoreChunks, Goto
    <2>2. CASE ~(job[j].body \in Blank \/ Exists(job[j].note))
      BY <1>5, <2>2, <1>a, QuietEnd DEF StoreChunks, Ended
    <2> QED
      BY <2>1, <2>2
  <1>6. CASE ClearEdges(j)
    <2> DEFINE x == [job[j] EXCEPT !.at = "unlinking",
                       !.oldEdges = {Key(e) : e \in {y \in edges : y.src = job[j].note}}]
    <2>a. {Key(e) : e \in {y \in edges : y.src = job[j].note}}
              \in SUBSET [src : Nat \ {0}, title : Title, by : Job]
      BY <1>0, KeyType DEF TypeOK
    <2>1. x \in Jobs
      BY <1>0, <2>a DEF Jobs, Running, Saving, Storing
    <2>2. Sound(notes, nextNote, x)
      BY <1>0, <1>6 DEF Sound, Jobs, Storing, Indexing, ClearEdges
    <2> QED
      BY <1>6, <2>1, <2>2, <1>a, QuietJob DEF ClearEdges
  <1>7. CASE EdgesCleared(j)
    <2> DEFINE x == [job[j] EXCEPT !.at = "link"]
    <2>1. x \in Jobs
      BY <1>0 DEF Jobs, Running, Saving, Storing
    <2>2. Sound(notes, nextNote, x)
      BY <1>0, <1>7 DEF Sound, Jobs, Storing, Indexing, EdgesCleared
    <2> QED
      BY <1>7, <2>1, <2>2, <1>a, QuietJob DEF EdgesCleared, Goto
  <1>8. ASSUME NEW title \in Title, Link(j, title) PROVE IInv'
    <2> DEFINE new == [title |-> title, dst |-> IdOf(title)]
               x == [job[j] EXCEPT !.todo = @ \ {title}, !.links = @ \cup {new}]
    <2>0. IdOf(title) \in Nat /\ title \in job[j].todo /\ job[j].at = "link"
      BY <1>0, <1>8, IdOfTitle DEF Link
    <2>a. job[j].links \cup {new} \in SUBSET [title : Title, dst : Nat]
      BY <1>0, <2>0 DEF Jobs
    <2>1. x \in Jobs
      BY <1>0, <2>a DEF Jobs
    <2>2. new.dst # 0 => \E y \in notes : y.id = new.dst /\ y.title = new.title
      BY <1>0, IdOfTitle
    <2>3. /\ x.note = job[j].note /\ x.at = job[j].at /\ x.fresh = job[j].fresh
          /\ x.inbound = job[j].inbound /\ x.oldChunks = job[j].oldChunks /\ x.title = job[j].title
          /\ x.links = job[j].links \cup {new} /\ x.todo = job[j].todo \ {title}
          /\ x.body = job[j].body
      BY <1>0 DEF Jobs
    <2>b. title \in Links[job[j].body]
      BY <1>0, <2>0 DEF Sound, Indexing, Storing
    <2>4. \A l \in job[j].links : l.title # title
      BY <1>0, <2>0 DEF Sound
    <2>5. Sound(notes, nextNote, x)
      BY <1>0, <2>0, <2>2, <2>3, <2>4, <2>b DEF Sound, Storing, Indexing
    <2> QED
      BY <1>8, <2>1, <2>5, <1>a, QuietJob DEF Link
  <1>9. CASE Linked(j)
    <2> DEFINE found == {y \in edges : job[j].fresh /\ y.title = job[j].title /\ y.dst = 0}
               x == [job[j] EXCEPT !.at = "resolving", !.inbound = {Key(e) : e \in found}]
    <2>a. {Key(e) : e \in found} \in SUBSET [src : Nat \ {0}, title : Title, by : Job]
      BY <1>0, KeyType DEF TypeOK
    <2>1. x \in Jobs
      BY <1>0, <2>a DEF Jobs, Running, Saving, Storing
    <2>2. \A k \in x.inbound : x.fresh /\ k.title = x.title
      BY <1>0 DEF Jobs, Key
    <2>3. CASE job[j].fresh /\ ~Exists(job[j].note)
      BY <1>9, <1>a, <2>3, QuietEnd DEF Linked, Ended
    <2>4. CASE ~(job[j].fresh /\ ~Exists(job[j].note))
      <3>1. Sound(notes, nextNote, x)
        BY <1>0, <1>9, <2>2, <2>4 DEF Sound, Jobs, Storing, Indexing, Linked, Exists
      <3> QED
        BY <1>9, <1>a, <2>1, <2>4, <3>1, QuietJob DEF Linked
    <2> QED
      BY <2>3, <2>4
  <1> QED
    BY <1>1, <1>2, <1>3, <1>4, <1>5, <1>6, <1>7, <1>8, <1>9

\* The steps of a deletion before its DELETE.
LEMMA DeletingKeeps ==
  ASSUME IInv, NEW j \in Job,
         (\E title \in Title : Delete(j, title)) \/ Unresolve(j) \/ Unresolved(j)
  PROVE  IInv'
  <1>0. TypeOK /\ job[j] \in Jobs /\ Sound(notes, nextNote, job[j]) /\ nextNote \in Nat \ {0}
    BY DEF IInv, TypeOK, Held
  <1>a. met' \subseteq Job \X Job
    BY <1>0, MeetType DEF Delete, Unresolve, Unresolved, TypeOK
  <1>1. ASSUME NEW title \in Title, Delete(j, title) PROVE IInv'
    <2> DEFINE x == [Idle EXCEPT !.at = "unresolve", !.title = title, !.note = IdOf(title)]
    <2>1. IdOf(title) \in Nat /\ IdOf(title) < nextNote
      BY <1>0, IdOfTitle DEF IInv, Numbered
    <2>2. x \in Jobs
      BY <2>1, IdleType DEF Jobs, Running, Deleting
    <2>3. Sound(notes, nextNote, x)
      BY <2>1 DEF Sound, Idle, Storing, Indexing
    <2> QED
      BY <1>1, <2>2, <2>3, <1>a, QuietJob DEF Delete
  <1>2. CASE Unresolve(j)
    <2> DEFINE x == [job[j] EXCEPT !.at = "unresolving",
                       !.oldEdges = {Key(e) : e \in {y \in edges : y.dst = job[j].note}}]
    <2>a. {Key(e) : e \in {y \in edges : y.dst = job[j].note}}
              \in SUBSET [src : Nat \ {0}, title : Title, by : Job]
      BY <1>0, KeyType DEF TypeOK
    <2>1. x \in Jobs
      BY <1>0, <2>a DEF Jobs, Running, Deleting
    <2>2. Sound(notes, nextNote, x)
      BY <1>0, <1>2 DEF Sound, Jobs, Storing, Indexing, Unresolve
    <2> QED
      BY <1>2, <2>1, <2>2, <1>a, QuietJob DEF Unresolve
  <1>3. CASE Unresolved(j)
    <2> DEFINE x == [job[j] EXCEPT !.at = "drop"]
    <2>1. x \in Jobs
      BY <1>0 DEF Jobs, Running, Deleting
    <2>2. Sound(notes, nextNote, x)
      BY <1>0, <1>3 DEF Sound, Jobs, Storing, Indexing, Unresolved
    <2> QED
      BY <1>3, <2>1, <2>2, <1>a, QuietJob DEF Unresolved, Goto
  <1> QED
    BY <1>1, <1>2, <1>3

\* What a job holds stays sound while the notes it refers to keep their titles.
LEMMA SoundStays ==
  ASSUME IInv, NEW x \in Jobs, Sound(notes, nextNote, x), NEW rows, NEW next \in Nat,
         nextNote <= next,
         \A y \in notes :
             (/\ x.at \in Storing
              /\ \/ x.note = y.id /\ (x.body \notin Blank \/ x.at = "resolving")
                 \/ \E l \in x.links : l.dst = y.id)
             => \E z \in rows : z.id = y.id /\ z.title = y.title,
         \A z \in rows : z.id < nextNote => \E y \in notes : y.id = z.id /\ y.title = z.title
  PROVE  Sound(rows, next, x)
  <1>0. nextNote \in Nat /\ x.note \in Nat /\ x.note < nextNote
    BY DEF IInv, TypeOK, Jobs, Sound
  <1>1. x.note < next
    BY <1>0
  <1>2. x.at \in Storing /\ (x.body \notin Blank \/ (x.fresh /\ x.at = "resolving")) =>
           \E y \in rows : y.id = x.note
    BY DEF Sound
  <1>3. ASSUME NEW l \in x.links, l.dst # 0
        PROVE  \E y \in rows : y.id = l.dst /\ y.title = l.title
    <2>1. PICK y \in notes : y.id = l.dst /\ y.title = l.title
      BY <1>3 DEF Sound
    <2>2. x.at \in Storing
      BY DEF Sound
    <2> QED
      BY <2>1, <2>2
  <1>4. x.fresh => \A y \in rows : y.id = x.note => y.title = x.title
    BY <1>0 DEF Sound
  <1> QED
    BY <1>1, <1>2, <1>3, <1>4 DEF Sound

\* A new note has a new id and a new title.
LEMMA InsertKeeps == ASSUME IInv, NEW j \in Job, InsertNote(j) PROVE IInv'
  <1>0. TypeOK /\ job[j] \in Jobs /\ Sound(notes, nextNote, job[j]) /\ nextNote \in Nat \ {0}
    BY DEF IInv, TypeOK, Held
  <1>1. CASE IdOf(job[j].title) # 0
    BY <1>0, <1>1, QuietEnd DEF InsertNote, Ended, TypeOK
  <1>2. CASE IdOf(job[j].title) = 0
    <2> DEFINE row == [id |-> nextNote, title |-> job[j].title,
                       body |-> job[j].body, creator |-> j, writer |-> j]
               x == [job[j] EXCEPT !.at = "read", !.note = nextNote, !.fresh = TRUE]
    <2>1. /\ notes' = notes \cup {row} /\ nextNote' = nextNote + 1 /\ SetJob(j, x)
          /\ job[j].at = "write" /\ UNCHANGED <<chunks, edges, cited, met>>
      BY <1>2 DEF InsertNote
    <2>2. row \in Notes /\ \A y \in notes : y.title # row.title /\ y.id # row.id
      BY <1>0, <1>2, IdOfTitle DEF Notes, Jobs, IInv, Numbered
    <2>3. x \in Jobs
      BY <1>0 DEF Jobs, Running, Saving
    <2>4. job' \in [Job -> Jobs] /\ job'[j] = x /\ \A k \in Job \ {j} : job'[k] = job[k]
      BY <1>0, <2>1, <2>3 DEF SetJob, TypeOK
    <2>5. Numbered'
      <3>1. \A y \in notes : y.id \in Nat /\ y.id < nextNote
        BY <1>0 DEF IInv, Numbered, TypeOK, Notes
      <3> QED
        BY <1>0, <2>1, <3>1 DEF Numbered
    <2>6. TypeOK'
      BY <1>0, <2>1, <2>2, <2>4 DEF TypeOK
    <2>7. Sound(notes', nextNote', x)
      <3>1. /\ x.note = nextNote /\ x.at \notin Storing /\ x.title = row.title
            /\ x.at \notin Indexing
            /\ x.links = job[j].links /\ x.inbound = job[j].inbound /\ x.fresh
            /\ x.oldChunks = job[j].oldChunks
        BY <1>0 DEF Jobs, Storing, Indexing
      <3>2. job[j].links = {} /\ job[j].inbound = {}
        BY <1>0, <2>1 DEF Sound, Storing
      <3>3. \A y \in notes' : y.id = x.note => y.title = x.title
        BY <2>1, <2>2, <3>1
      <3>4. x.oldChunks = {}
        BY <1>0, <2>1, <3>1 DEF Sound, Storing
      <3> QED
        BY <1>0, <2>1, <3>1, <3>2, <3>3, <3>4 DEF Sound
    <2>8. ASSUME NEW k \in Job, k # j PROVE Sound(notes', nextNote', job[k])
      <3>1. job[k] \in Jobs /\ Sound(notes, nextNote, job[k])
        BY DEF IInv, Held, TypeOK
      <3>2. nextNote' \in Nat /\ nextNote <= nextNote'
        BY <1>0, <2>1
      <3>3. \A z \in notes' : z.id < nextNote => z \in notes
        BY <1>0, <2>1
      <3> QED
        BY <2>1, <3>1, <3>2, <3>3, SoundStays
    <2>9. Held'
      BY <2>4, <2>7, <2>8 DEF Held
    <2>10. EdgesPointRight'
      BY <2>1, <2>6, PointsRight, PointRightAfter
    <2> QED
      BY <2>5, <2>6, <2>9, <2>10 DEF IInv
  <1> QED
    BY <1>1, <1>2

\* An update keeps ids and titles.
LEMMA UpdateKeeps == ASSUME IInv, NEW j \in Job, UpdateNote(j) PROVE IInv'
  <1>0. TypeOK /\ job[j] \in Jobs /\ Sound(notes, nextNote, job[j]) /\ nextNote \in Nat \ {0}
    BY DEF IInv, TypeOK, Held
  <1> DEFINE New(y) == IF y.id = job[j].note
                       THEN [y EXCEPT !.body = job[j].body, !.writer = j] ELSE y
             x == [job[j] EXCEPT !.at = "read"]
  <1>1. /\ notes' = {New(y) : y \in notes} /\ SetJob(j, x) /\ job[j].at = "write"
        /\ UNCHANGED <<nextNote, chunks, edges, cited, met>>
    BY DEF UpdateNote, Goto
  <1>2. ASSUME NEW y \in notes
        PROVE  New(y) \in Notes /\ New(y).id = y.id /\ New(y).title = y.title
    <2>1. y \in Notes /\ job[j].body \in Body
      BY <1>0 DEF TypeOK, Jobs
    <2>2. [y EXCEPT !.body = job[j].body, !.writer = j] \in Notes
      BY <2>1 DEF Notes
    <2> QED
      BY <2>1, <2>2 DEF Notes
  <1> HIDE DEF New
  <1>3. \A z \in notes' : \E y \in notes : z = New(y) /\ y.id = z.id /\ y.title = z.title
    BY <1>1, <1>2
  <1>4. \A y \in notes : \E z \in notes' : z.id = y.id /\ z.title = y.title
    BY <1>1, <1>2
  <1>5. x \in Jobs
    BY <1>0 DEF Jobs, Running, Saving
  <1>6. job' \in [Job -> Jobs] /\ job'[j] = x /\ \A k \in Job \ {j} : job'[k] = job[k]
    BY <1>0, <1>1, <1>5 DEF SetJob, TypeOK
  <1>7. TypeOK'
    <2>1. notes' \subseteq Notes
      BY <1>1, <1>2
    <2>2. \A y, z \in notes' : (y.id = z.id \/ y.title = z.title) => y = z
      BY <1>0, <1>3 DEF TypeOK
    <2>3. cited' \subseteq {z.id : z \in notes'}
      BY <1>0, <1>1, <1>4 DEF TypeOK
    <2> QED
      BY <1>0, <1>1, <1>6, <2>1, <2>2, <2>3 DEF TypeOK
  <1>8. Numbered'
    BY <1>1, <1>3 DEF IInv, Numbered
  <1>9. \A k \in Job : Sound(notes', nextNote', job[k])
    <2>1. ASSUME NEW k \in Job PROVE Sound(notes', nextNote', job[k])
      <3>1. job[k] \in Jobs /\ Sound(notes, nextNote, job[k])
        BY DEF IInv, Held, TypeOK
      <3>2. nextNote' \in Nat /\ nextNote <= nextNote'
        BY <1>0, <1>1
      <3>3. \A z \in notes' : \E y \in notes : y.id = z.id /\ y.title = z.title
        BY <1>3
      <3> QED
        BY <1>4, <3>1, <3>2, <3>3, SoundStays
    <2> QED
      BY <2>1
  <1>10. Sound(notes', nextNote', x)
    BY <1>0, <1>1, <1>9 DEF Sound, Jobs, Storing, Indexing
  <1>11. Held'
    BY <1>6, <1>9, <1>10 DEF Held
  <1>12. EdgesPointRight'
    <2>1. \A c \in chunks' : \E y \in notes' : y.id = c.note
      BY <1>1, <1>4, PointsRight
    <2>2. \A e \in edges' : \E y \in notes' : y.id = e.src
      BY <1>1, <1>4, PointsRight
    <2>3. ASSUME NEW e \in edges', e.dst # 0
          PROVE  \E z \in notes' : z.id = e.dst /\ z.title = e.title
      <3>1. PICK y \in notes : y.id = e.dst /\ y.title = e.title
        BY <1>1, <2>3, PointsRight
      <3> QED
        BY <1>4, <3>1
    <2> QED
      BY <1>7, <2>1, <2>2, <2>3, PointRightAfter
  <1> QED
    BY <1>7, <1>8, <1>11, <1>12 DEF IInv

\* A committed link keeps its key; it leads where it led, where the job has
\* looked it up, or to the note of the job.
LEMMA RelinkedIs ==
  ASSUME IInv, NEW j \in Job, NEW e \in edges, job[j].at = "resolving"
  PROVE  /\ Relinked(j, e) \in Edges /\ Key(Relinked(j, e)) = Key(e)
         /\ Relinked(j, e).src = e.src /\ Relinked(j, e).title = e.title
         /\ \/ Relinked(j, e).dst = e.dst
            \/ \E l \in job[j].links : l.title = e.title /\ Relinked(j, e).dst = l.dst
            \/ Key(e) \in job[j].inbound /\ Relinked(j, e).dst = job[j].note
  <1>0. e \in Edges /\ job[j] \in Jobs
    BY DEF IInv, TypeOK
  <1>1. ASSUME NEW d \in Nat, NEW f, f = [e EXCEPT !.dst = d]
        PROVE  f \in Edges /\ Key(f) = Key(e) /\ f.src = e.src /\ f.title = e.title /\ f.dst = d
    BY <1>0, <1>1 DEF Edges, Key
  <1>2. CASE e.src = job[j].note /\ \E l \in job[j].links : l.title = e.title
    <2>1. PICK l \in job[j].links :
             l = (CHOOSE m \in job[j].links : m.title = e.title) /\ l.title = e.title
      BY <1>2
    <2>2. l.dst \in Nat
      BY <1>0 DEF Jobs
    <2>3. Relinked(j, e) = [e EXCEPT !.dst = l.dst]
      BY <1>2, <2>1 DEF Relinked
    <2>4. /\ Relinked(j, e) \in Edges /\ Key(Relinked(j, e)) = Key(e)
          /\ Relinked(j, e).src = e.src /\ Relinked(j, e).title = e.title
          /\ Relinked(j, e).dst = l.dst
      BY <1>1, <2>2, <2>3
    <2> QED
      BY <2>1, <2>4
  <1>3. CASE ~(e.src = job[j].note /\ \E l \in job[j].links : l.title = e.title)
    <2>1. CASE Key(e) \in job[j].inbound /\ e.dst = 0
      <3>1. Relinked(j, e) = [e EXCEPT !.dst = job[j].note]
        BY <1>3, <2>1 DEF Relinked
      <3>2. job[j].note \in Nat
        BY <1>0 DEF Jobs
      <3> QED
        BY <1>1, <2>1, <3>1, <3>2
    <2>2. CASE ~(Key(e) \in job[j].inbound /\ e.dst = 0)
      <3>1. Relinked(j, e) = e
        BY <1>3, <2>2 DEF Relinked
      <3> QED
        BY <1>0, <3>1
    <2> QED
      BY <2>1, <2>2
  <1> QED
    BY <1>2, <1>3

\* The rows after the commit of an indexing: those that are kept, and one for
\* each link that had none.
LEMMA Committed ==
  ASSUME IInv, NEW j \in Job, Commit(j), NEW f \in edges'
  PROVE  \/ \E e \in edges : Key(e) \notin job[j].oldEdges /\ f = Relinked(j, e)
         \/ \E l \in job[j].links :
               /\ f = [src |-> job[j].note, title |-> l.title, dst |-> l.dst, by |-> j]
               /\ \A e \in edges : Key(e) \notin job[j].oldEdges =>
                                     ~(e.src = job[j].note /\ e.title = l.title)
  BY DEF Commit

\* A commit stores rows whose notes are there.
LEMMA CommitKeeps == ASSUME IInv, NEW j \in Job, Commit(j) PROVE IInv'
  <1>0. TypeOK /\ job[j] \in Jobs /\ Sound(notes, nextNote, job[j]) /\ nextNote \in Nat \ {0}
    BY DEF IInv, TypeOK, Held
  <1> DEFINE n == job[j].note
             x == [Idle EXCEPT !.at = "done", !.note = n, !.title = job[j].title]
             new == {[note |-> n, body |-> b, by |-> j] : b \in {job[j].body} \ Blank}
  <1>1. /\ job[j].at = "resolving" /\ SetJob(j, x) /\ UNCHANGED <<notes, nextNote, cited, met>>
        /\ chunks' = (chunks \ job[j].oldChunks) \cup new
    BY DEF Commit, End
  <1>2. job[j].links # {} \/ job[j].inbound # {} \/ job[j].body \notin Blank =>
           \E y \in notes : y.id = n
    BY <1>0, <1>1, LinksAssumption DEF Sound, Storing
  <1>3. \A c \in new : c \in Chunks /\ \E y \in notes : y.id = c.note
    <2>1. SUFFICES ASSUME job[j].body \notin Blank
                   PROVE  /\ [note |-> n, body |-> job[j].body, by |-> j] \in Chunks
                          /\ \E y \in notes : y.id = n
      OBVIOUS
    <2>2. PICK y \in notes : y.id = n
      BY <1>2, <2>1
    <2> QED
      BY <1>0, <2>2 DEF TypeOK, Notes, Chunks, Jobs
  <1> HIDE DEF new
  <1>4. job' \in [Job -> Jobs] /\ Held'
    <2>1. nextNote \in Nat /\ nextNote <= nextNote /\ Held /\ "done" \in Ended
      BY <1>0 DEF IInv, Ended
    <2>2. x \in Jobs /\ Sound(notes, nextNote, x)
      BY <1>0, <2>1, EndedSound
    <2> QED
      BY <1>0, <1>1, <2>2, SetJobSound DEF IInv
  <1>5. ASSUME NEW f \in edges'
        PROVE  /\ f \in Edges
               /\ \E z \in notes : z.id = f.src
               /\ f.dst # 0 => \E z \in notes : z.id = f.dst /\ z.title = f.title
    <2>1. CASE \E e \in edges : f = Relinked(j, e)
      <3>1. PICK e \in edges : f = Relinked(j, e)
        BY <2>1
      <3>2. /\ f \in Edges /\ f.src = e.src /\ f.title = e.title
            /\ \/ f.dst = e.dst
               \/ \E l \in job[j].links : l.title = e.title /\ f.dst = l.dst
               \/ Key(e) \in job[j].inbound /\ f.dst = n
        BY <1>1, <3>1, RelinkedIs
      <3>3. \E z \in notes : z.id = f.src
        BY <3>2, PointsRight
      <3>4. CASE f.dst = e.dst
        BY <3>2, <3>3, <3>4, PointsRight
      <3>5. CASE \E l \in job[j].links : l.title = e.title /\ f.dst = l.dst
        BY <1>0, <3>2, <3>3, <3>5 DEF Sound
      <3>6. CASE Key(e) \in job[j].inbound /\ f.dst = n
        <4>1. job[j].fresh /\ e.title = job[j].title
          BY <1>0, <3>6 DEF Sound, Key
        <4>2. PICK y \in notes : y.id = n
          BY <1>2, <3>6
        <4>3. y.title = f.title
          BY <1>0, <3>2, <4>1, <4>2 DEF Sound
        <4> QED
          BY <3>2, <3>3, <3>6, <4>2, <4>3
      <3> QED
        BY <3>2, <3>4, <3>5, <3>6
    <2>2. CASE \E l \in job[j].links : f = [src |-> n, title |-> l.title, dst |-> l.dst, by |-> j]
      <3>1. PICK l \in job[j].links : f = [src |-> n, title |-> l.title, dst |-> l.dst, by |-> j]
        BY <2>2
      <3>2. l \in [title : Title, dst : Nat]
        BY <1>0 DEF Jobs
      <3>a. PICK y \in notes : y.id = n
        BY <1>2
      <3>b. n \in Nat \ {0}
        BY <1>0, <3>a DEF TypeOK, Notes
      <3>3. f \in Edges /\ f.src = n /\ f.title = l.title /\ f.dst = l.dst
        BY <3>1, <3>2, <3>b DEF Edges
      <3>4. l.dst # 0 => \E z \in notes : z.id = l.dst /\ z.title = l.title
        BY <1>0 DEF Sound
      <3> QED
        BY <3>a, <3>3, <3>4
    <2> QED
      BY <2>1, <2>2, Committed
  <1>6. ASSUME NEW f \in edges', NEW g \in edges', f.src = g.src, f.title = g.title
        PROVE  f = g
    <2>1. ASSUME NEW h \in edges', NEW e \in edges, h = Relinked(j, e)
          PROVE  h.src = e.src /\ h.title = e.title
      BY <1>1, <2>1, RelinkedIs
    <2>2. CASE \E e \in edges : Key(e) \notin job[j].oldEdges /\ f = Relinked(j, e)
      <3>1. PICK e \in edges : Key(e) \notin job[j].oldEdges /\ f = Relinked(j, e)
        BY <2>2
      <3>2. CASE \E d \in edges : Key(d) \notin job[j].oldEdges /\ g = Relinked(j, d)
        <4>1. PICK d \in edges : g = Relinked(j, d)
          BY <3>2
        <4>2. d.src = e.src /\ d.title = e.title
          BY <1>6, <2>1, <3>1, <4>1
        <4>3. d = e
          BY <1>0, <4>2 DEF TypeOK
        <4> QED
          BY <3>1, <4>1, <4>3
      <3>3. CASE \E l \in job[j].links :
                   /\ g = [src |-> n, title |-> l.title, dst |-> l.dst, by |-> j]
                   /\ \A d \in edges : Key(d) \notin job[j].oldEdges => ~(d.src = n /\ d.title = l.title)
        BY <1>6, <2>1, <3>1, <3>3
      <3> QED
        BY <3>2, <3>3, Committed
    <2>3. CASE \E l \in job[j].links :
                 /\ f = [src |-> n, title |-> l.title, dst |-> l.dst, by |-> j]
                 /\ \A d \in edges : Key(d) \notin job[j].oldEdges => ~(d.src = n /\ d.title = l.title)
      <3>1. PICK l \in job[j].links :
                 /\ f = [src |-> n, title |-> l.title, dst |-> l.dst, by |-> j]
                 /\ \A d \in edges : Key(d) \notin job[j].oldEdges => ~(d.src = n /\ d.title = l.title)
        BY <2>3
      <3>2. CASE \E d \in edges : Key(d) \notin job[j].oldEdges /\ g = Relinked(j, d)
        BY <1>6, <2>1, <3>1, <3>2
      <3>3. CASE \E m \in job[j].links : g = [src |-> n, title |-> m.title, dst |-> m.dst, by |-> j]
        <4>1. PICK m \in job[j].links : g = [src |-> n, title |-> m.title, dst |-> m.dst, by |-> j]
          BY <3>3
        <4>2. m = l
          BY <1>0, <1>6, <3>1, <4>1 DEF Sound
        <4> QED
          BY <3>1, <4>1, <4>2
      <3> QED
        BY <3>2, <3>3, Committed
    <2> QED
      BY <2>2, <2>3, Committed
  <1>7. TypeOK'
    <2>1. chunks' \subseteq Chunks
      BY <1>0, <1>1, <1>3 DEF TypeOK
    <2>2. edges' \subseteq Edges
      BY <1>5
    <2> QED
      BY <1>0, <1>1, <1>4, <1>6, <2>1, <2>2 DEF TypeOK
  <1>8. EdgesPointRight'
    <2>1. \A c \in chunks' : \E z \in notes' : z.id = c.note
      BY <1>1, <1>3, PointsRight
    <2>2. \A f \in edges' : \E z \in notes' : z.id = f.src
      BY <1>1, <1>5
    <2>3. \A f \in edges' : f.dst # 0 => \E z \in notes' : z.id = f.dst /\ z.title = f.title
      BY <1>1, <1>5
    <2> QED
      BY <1>7, <2>1, <2>2, <2>3, PointRightAfter
  <1> QED
    BY <1>1, <1>4, <1>7, <1>8 DEF IInv, Numbered

\* A deletion leaves no row that leads to the note.
LEMMA DropKeeps == ASSUME IInv, NEW j \in Job, DropNote(j) PROVE IInv'
  <1>0. TypeOK /\ job[j] \in Jobs /\ Sound(notes, nextNote, job[j]) /\ nextNote \in Nat \ {0}
    BY DEF IInv, TypeOK, Held
  <1> DEFINE n == job[j].note
             x == [Idle EXCEPT !.at = "dropped", !.note = n, !.title = job[j].title]
             Null(e) == IF e.dst = n THEN [e EXCEPT !.dst = 0] ELSE e
  <1>1. CASE n \in cited
    BY <1>0, <1>1, QuietEnd DEF DropNote, Ended, TypeOK
  <1>2. CASE n \notin cited
    <2>1. PICK cascaded :
             /\ edges' = {Null(e) : e \in edges \ cascaded}
             /\ \A e \in edges : e.src = n => e \in cascaded
      BY <1>2, Zenon DEF DropNote
    <2>2. /\ SetJob(j, x) /\ UNCHANGED <<nextNote, cited, met>>
          /\ notes' = {y \in notes : y.id # n} /\ chunks' = {c \in chunks : c.note # n}
          /\ \A k \in Job \ {j} : ~References(k, n)
      BY <1>2 DEF DropNote, End
    <2>3. ASSUME NEW e \in edges
          PROVE  /\ Null(e) \in Edges /\ Null(e).src = e.src /\ Null(e).title = e.title
                 /\ Null(e).dst # 0 => Null(e).dst = e.dst /\ e.dst # n
      <3>1. e \in Edges
        BY <1>0 DEF TypeOK
      <3>2. CASE e.dst = n
        <4>1. [e EXCEPT !.dst = 0] \in Edges /\ [e EXCEPT !.dst = 0].dst = 0
              /\ [e EXCEPT !.dst = 0].src = e.src /\ [e EXCEPT !.dst = 0].title = e.title
          BY <3>1 DEF Edges
        <4> QED
          BY <3>2, <4>1
      <3> QED
        BY <3>1, <3>2
    <2> HIDE DEF Null
    <2>4. \A f \in edges' : \E e \in edges : f = Null(e) /\ e.src # n
      BY <2>1
    <2>5. x \in Jobs /\ Sound(notes', nextNote', x)
      <3>1. nextNote' \in Nat /\ nextNote <= nextNote' /\ Held /\ "dropped" \in Ended
        BY <1>0, <2>2 DEF IInv, Ended
      <3> QED
        BY <1>0, <3>1, EndedSound
    <2>6. job' \in [Job -> Jobs] /\ job'[j] = x /\ \A k \in Job \ {j} : job'[k] = job[k]
      BY <1>0, <2>2, <2>5 DEF SetJob, TypeOK
    <2>7. TypeOK'
      <3>1. edges' \subseteq Edges
        BY <2>3, <2>4
      <3>2. \A f, g \in edges' : f.src = g.src /\ f.title = g.title => f = g
        BY <1>0, <2>3, <2>4 DEF TypeOK
      <3>3. cited' \subseteq {y.id : y \in notes'}
        BY <1>0, <1>2, <2>2 DEF TypeOK
      <3> QED
        BY <1>0, <2>2, <2>6, <3>1, <3>2, <3>3 DEF TypeOK
    <2>8. ASSUME NEW k \in Job, k # j PROVE Sound(notes', nextNote', job[k])
      <3>1. job[k] \in Jobs /\ Sound(notes, nextNote, job[k])
        BY DEF IInv, Held, TypeOK
      <3>2. nextNote' \in Nat /\ nextNote <= nextNote'
        BY <1>0, <2>2
      <3>3. ~References(k, n)
        BY <2>2, <2>8
      <3>4. \A y \in notes :
               (/\ job[k].at \in Storing
                /\ \/ job[k].note = y.id /\ (job[k].body \notin Blank \/ job[k].at = "resolving")
                   \/ \E l \in job[k].links : l.dst = y.id)
               => y \in notes'
        BY <2>2, <3>3 DEF References
      <3> QED
        BY <2>2, <3>1, <3>2, <3>4, SoundStays
    <2>9. Held'
      BY <2>5, <2>6, <2>8 DEF Held
    <2>10. EdgesPointRight'
      <3>1. \A c \in chunks' : \E z \in notes' : z.id = c.note
        BY <2>2, PointsRight
      <3>2. ASSUME NEW f \in edges' PROVE \E z \in notes' : z.id = f.src
        <4>1. PICK e \in edges : f = Null(e) /\ e.src # n
          BY <2>4
        <4>2. PICK z \in notes : z.id = e.src
          BY PointsRight
        <4> QED
          BY <2>2, <2>3, <4>1, <4>2
      <3>3. ASSUME NEW f \in edges', f.dst # 0
            PROVE  \E z \in notes' : z.id = f.dst /\ z.title = f.title
        <4>1. PICK e \in edges : f = Null(e)
          BY <2>4
        <4>2. f.dst = e.dst /\ e.dst # n /\ f.title = e.title
          BY <2>3, <3>3, <4>1
        <4>3. PICK z \in notes : z.id = e.dst /\ z.title = e.title
          BY <3>3, <4>2, PointsRight
        <4> QED
          BY <2>2, <4>2, <4>3
      <3> QED
        BY <2>7, <3>1, <3>2, <3>3, PointRightAfter
    <2> QED
      BY <2>2, <2>7, <2>9, <2>10 DEF IInv, Numbered
  <1> QED
    BY <1>1, <1>2

\* Failing, crashing and citing change no note and no index.
LEMMA OthersKeep ==
  ASSUME IInv, (\E j \in Job : Fail(j)) \/ Crash \/ (\E n \in Nat : Cite(n) \/ Uncite(n))
  PROVE  IInv'
  <1>1. ASSUME NEW j \in Job, Fail(j) PROVE IInv'
    BY <1>1, QuietEnd DEF Fail, Ended, IInv, TypeOK
  <1>2. CASE Crash
    <2>1. TypeOK /\ Held /\ nextNote \in Nat /\ nextNote <= nextNote /\ "lost" \in Ended
      BY DEF IInv, TypeOK, Ended
    <2>2. ASSUME NEW k \in Job
          PROVE  job'[k] \in Jobs /\ Sound(notes, nextNote, job'[k])
      <3>1. job'[k] = IF job[k].at \in Running
                      THEN [Idle EXCEPT !.at = "lost", !.note = job[k].note, !.title = job[k].title]
                      ELSE job[k]
        BY <1>2 DEF Crash
      <3>2. CASE job[k].at \in Running
        <4> DEFINE x == [Idle EXCEPT !.at = "lost", !.note = job[k].note, !.title = job[k].title]
        <4>1. x \in Jobs /\ Sound(notes, nextNote, x)
          BY <2>1, EndedSound
        <4>2. job'[k] = x
          BY <3>1, <3>2
        <4> HIDE DEF x
        <4> QED
          BY <4>1, <4>2
      <3>3. CASE job[k].at \notin Running
        BY <2>1, <3>1, <3>3 DEF TypeOK, Held
      <3> QED
        BY <3>2, <3>3
    <2>3. DOMAIN job' = Job /\ job' = [k \in Job |-> job'[k]]
      BY <1>2 DEF Crash
    <2>4. job' \in [Job -> Jobs]
      BY <2>2, <2>3
    <2>5. Held'
      BY <1>2, <2>2 DEF Crash, Held
    <2> QED
      BY <1>2, <2>1, <2>4, <2>5, QuietStep DEF Crash, TypeOK
  <1>3. ASSUME NEW n \in Nat, Cite(n) \/ Uncite(n) PROVE IInv'
    <2>1. UNCHANGED <<notes, nextNote, chunks, edges, job, met>>
      BY <1>3 DEF Cite, Uncite
    <2>2. cited' \subseteq {x.id : x \in notes}
      BY <1>3 DEF Cite, Uncite, Exists, IInv, TypeOK
    <2>3. TypeOK'
      BY <2>1, <2>2 DEF IInv, TypeOK
    <2> QED
      BY <2>1, <2>3 DEF IInv, Numbered, Held, EdgesPointRight, Exists, Row
  <1> QED
    BY <1>1, <1>2, <1>3

\* The actions, in the groups of the lemmas.
LEMMA Actions ==
  ASSUME Next, nextNote \in Nat
  PROVE  \/ \E j \in Job :
              \/ \/ \E title \in Title, body \in Body : Save(j, title, body)
                 \/ ReadNote(j) \/ ClearChunks(j) \/ ChunksCleared(j) \/ StoreChunks(j)
                 \/ ClearEdges(j) \/ EdgesCleared(j)
                 \/ \E title \in Title : Link(j, title)
                 \/ Linked(j)
              \/ (\E title \in Title : Delete(j, title)) \/ Unresolve(j) \/ Unresolved(j)
              \/ InsertNote(j) \/ UpdateNote(j) \/ Commit(j) \/ DropNote(j)
         \/ (\E j \in Job : Fail(j)) \/ Crash \/ (\E n \in Nat : Cite(n) \/ Uncite(n))
  <1>1. \A n \in 1..(nextNote - 1) : n \in Nat
    OBVIOUS
  <1> QED
    BY <1>1, Zenon DEF Next

\* Every step keeps the invariant.
LEMMA NextInv == IInv /\ [Next]_vars => IInv'
  <1> SUFFICES ASSUME IInv, [Next]_vars PROVE IInv'
    OBVIOUS
  <1>1. CASE UNCHANGED vars
    BY <1>1 DEF vars, IInv, TypeOK, Numbered, Held, EdgesPointRight, Exists, Row
  <1>2. CASE Next
    <2>1. nextNote \in Nat
      BY DEF IInv, TypeOK
    <2> QED
      BY <1>2, <2>1, Actions, SavingKeeps, DeletingKeeps, InsertKeeps, UpdateKeeps, CommitKeeps,
         DropKeeps, OthersKeep
  <1> QED
    BY <1>1, <1>2

\* The invariant holds in every behaviour: what the jobs hold agrees with the
\* rows, however many run at once.
THEOREM Inductive == Spec => []IInv
  <1> QED
    BY InitInv, NextInv, PTL DEF Spec

-----------------------------------------------------------------------------
(* What follows for any number of jobs at once                             *)

\* Rows have their types and their tables' unique keys (notes, chunks, edges).
THEOREM TypeCorrect == Spec => []TypeOK
  <1>1. IInv => TypeOK
    BY DEF IInv
  <1> QED
    BY <1>1, Inductive, PTL

\* Nothing dangles, and a resolved link leads to the note of its title, in every
\* interleaving of saves, indexings and deletions.
THEOREM EdgesPointRightHolds == Spec => []EdgesPointRight
  <1>1. IInv => EdgesPointRight
    BY DEF IInv
  <1> QED
    BY <1>1, Inductive, PTL

\* A note that the search can find stays so while it exists, unless a save that
\* read a blank body ends its indexing: reindex_note replaces the chunks in one
\* transaction, whatever runs at the same time.
THEOREM StaysSearchableHolds == Spec => StaysSearchable
  <1> DEFINE Kept(c) == Exists(c.note)' =>
               \/ \E d \in chunks' : d.note = c.note
               \/ \E j \in Job : /\ job[j].at = "resolving" /\ job'[j].at = "done"
                                 /\ job[j].note = c.note /\ job[j].body \in Blank
  <1>1. ASSUME IInv, Next, NEW c \in chunks PROVE Kept(c)
    <2> SUFFICES ASSUME Exists(c.note)'
                 PROVE  \/ \E d \in chunks' : d.note = c.note
                        \/ \E j \in Job : /\ job[j].at = "resolving" /\ job'[j].at = "done"
                                          /\ job[j].note = c.note /\ job[j].body \in Blank
      OBVIOUS
    <2>1. ASSUME NEW j \in Job, Commit(j)
          PROVE  \/ \E d \in chunks' : d.note = c.note
                 \/ /\ job[j].at = "resolving" /\ job'[j].at = "done"
                    /\ job[j].note = c.note /\ job[j].body \in Blank
      <3>1. \A d \in job[j].oldChunks : d.note = job[j].note
        BY <1>1 DEF IInv, Held, Sound
      <3>2. /\ job[j].at = "resolving"
            /\ chunks' = (chunks \ job[j].oldChunks)
                         \cup {[note |-> job[j].note, body |-> b, by |-> j]
                                 : b \in {job[j].body} \ Blank}
        BY <2>1 DEF Commit
      <3>3. job'[j].at = "done"
        BY <1>1, <2>1 DEF Commit, End, SetJob, Idle, IInv, TypeOK
      <3>4. CASE c \in job[j].oldChunks /\ job[j].body \notin Blank
        <4> DEFINE row == [note |-> job[j].note, body |-> job[j].body, by |-> j]
        <4>1. row \in chunks' /\ row.note = c.note
          BY <3>1, <3>2, <3>4
        <4> QED
          BY <4>1
      <3>5. CASE c \in job[j].oldChunks /\ job[j].body \in Blank
        BY <3>1, <3>2, <3>3, <3>5
      <3>6. CASE c \notin job[j].oldChunks
        BY <3>2, <3>6
      <3> QED
        BY <3>4, <3>5, <3>6
    <2>2. ASSUME NEW j \in Job, DropNote(j) PROVE \E d \in chunks' : d.note = c.note
      <3>1. CASE job[j].note \in cited
        BY <2>2, <3>1 DEF DropNote
      <3>2. CASE job[j].note \notin cited
        <4>1. /\ chunks' = {d \in chunks : d.note # job[j].note}
              /\ notes' = {y \in notes : y.id # job[j].note}
          BY <2>2, <3>2 DEF DropNote
        <4> QED
          BY <4>1 DEF Exists
      <3> QED
        BY <3>1, <3>2
    <2>3. CASE ~ \E j \in Job : Commit(j) \/ DropNote(j)
      <3>1. nextNote \in Nat
        BY <1>1 DEF IInv, TypeOK
      <3>2. chunks' = chunks
        BY <1>1, <2>3, <3>1, Actions DEF Save, ReadNote, ClearChunks, ChunksCleared, StoreChunks, ClearEdges,
           EdgesCleared, Link, Linked, Delete, Unresolve, Unresolved, InsertNote, UpdateNote,
           Fail, Crash, Cite, Uncite
      <3> QED
        BY <3>2
    <2> QED
      BY <2>1, <2>2, <2>3
  <1>2. IInv /\ [Next]_vars => [\A c \in chunks : Kept(c)]_vars
    BY <1>1 DEF vars
  <1> QED
    BY <1>2, Inductive, PTL DEF Spec, StaysSearchable

-----------------------------------------------------------------------------
(* The steps, by what they do                                              *)

\* The other jobs are as they were.
Rest(j) == \A k \in Job \ {j} : job'[k] = job[k]

\* What a job is about.
Same(j) == /\ job'[j].note = job[j].note /\ job'[j].title = job[j].title
           /\ job'[j].body = job[j].body /\ job'[j].fresh = job[j].fresh

Begins(j) ==
    /\ Rest(j) /\ UNCHANGED <<notes, chunks, edges, met>>
    /\ job[j].at = "idle" /\ job'[j].at \in {"write", "unresolve"} /\ job'[j].links = {}
    /\ job'[j].at = "unresolve" =>
          job'[j].note # 0 /\ \A x \in notes : x.id = job'[j].note => x.title = job'[j].title

Inserts(j) ==
    /\ Rest(j) /\ UNCHANGED <<chunks, edges, met>>
    /\ job[j].at = "write" /\ job'[j].at = "read"
    /\ job'[j].note = nextNote /\ job'[j].fresh /\ job'[j].links = {}
    /\ job'[j].title = job[j].title
    /\ notes \subseteq notes'
    /\ \A z \in notes' : z \in notes \/ /\ z.id = nextNote /\ z.title = job[j].title
                                        /\ z.creator = j /\ z.writer = j

Updates(j) ==
    /\ Rest(j) /\ UNCHANGED <<chunks, edges, met>>
    /\ job[j].at = "write" /\ job'[j].at = "read" /\ Same(j) /\ job'[j].links = {}
    /\ \A z \in notes' : \E y \in notes :
          /\ z.id = y.id /\ z.title = y.title /\ z.creator = y.creator
          /\ IF y.id = job[j].note THEN z.writer = j ELSE z = y
    /\ \A y \in notes : \E z \in notes' : z.id = y.id

Reads(j) ==
    /\ Rest(j) /\ UNCHANGED <<notes, chunks, edges>> /\ Meet(j, Indexing \cup Detaching)
    /\ job[j].at = "read" /\ job'[j].at = "clear"
    /\ job'[j].note = job[j].note /\ job'[j].title = job[j].title
    /\ job'[j].fresh = job[j].fresh /\ job'[j].links = {}
    /\ \A x \in notes : x.id = job[j].note => job'[j].body = x.body
    /\ job'[j].todo = Links[job'[j].body]

Clears(j) ==
    /\ Rest(j) /\ UNCHANGED <<notes, chunks, edges, met>>
    /\ job[j].at = "clear" /\ job'[j].at = "clearing" /\ Same(j)
    /\ job'[j].links = job[j].links /\ job'[j].todo = job[j].todo
    /\ job'[j].oldChunks = {c \in chunks : c.note = job[j].note}

Advances(j) ==
    /\ Rest(j) /\ UNCHANGED <<notes, chunks, edges, met>>
    /\ \/ job[j].at = "clearing" /\ job'[j].at = "embed"
       \/ job[j].at = "embed" /\ job'[j].at = "unlink"
       \/ job[j].at = "unlinking" /\ job'[j].at = "link"
       \/ job[j].at = "unresolving" /\ job'[j].at = "drop"
    /\ Same(j) /\ job'[j].links = job[j].links /\ job'[j].todo = job[j].todo
    /\ job'[j].oldChunks = job[j].oldChunks /\ job'[j].oldEdges = job[j].oldEdges

Unlinks(j) ==
    /\ Rest(j) /\ UNCHANGED <<notes, chunks, edges, met>>
    /\ job[j].at = "unlink" /\ job'[j].at = "unlinking" /\ Same(j)
    /\ job'[j].links = job[j].links /\ job'[j].todo = job[j].todo
    /\ job'[j].oldChunks = job[j].oldChunks
    /\ job'[j].oldEdges = {Key(e) : e \in {x \in edges : x.src = job[j].note}}

Looks(j) ==
    /\ Rest(j) /\ UNCHANGED <<notes, chunks, edges, met>>
    /\ job[j].at = "link" /\ job'[j].at = "link" /\ Same(j)
    /\ job'[j].oldChunks = job[j].oldChunks /\ job'[j].oldEdges = job[j].oldEdges
    /\ \E t \in Title : \E new :
          /\ job'[j].todo = job[j].todo \ {t} /\ job'[j].links = job[j].links \cup {new}
          /\ new.title = t /\ \A x \in notes : x.title = t => new.dst = x.id

Resolves(j) ==
    /\ Rest(j) /\ UNCHANGED <<notes, chunks, edges, met>>
    /\ job[j].at = "link" /\ job'[j].at = "resolving" /\ Same(j) /\ job[j].todo = {}
    /\ job'[j].links = job[j].links /\ job'[j].todo = job[j].todo
    /\ job'[j].oldChunks = job[j].oldChunks /\ job'[j].oldEdges = job[j].oldEdges
    /\ job[j].fresh =>
          job'[j].inbound = {Key(e) : e \in {x \in edges : x.title = job[j].title /\ x.dst = 0}}

Commits(j) ==
    /\ Rest(j) /\ UNCHANGED <<notes, met>> /\ Commit(j)
    /\ job[j].at = "resolving" /\ job'[j].at = "done"
    /\ job'[j].note = job[j].note /\ job'[j].title = job[j].title /\ job'[j].links = {}

Detaches(j) ==
    /\ Rest(j) /\ UNCHANGED <<notes, chunks, edges>> /\ Meet(j, Indexing)
    /\ job[j].at = "unresolve" /\ job'[j].at = "unresolving" /\ Same(j)
    /\ job'[j].links = job[j].links
    /\ job'[j].oldEdges = {Key(e) : e \in {x \in edges : x.dst = job[j].note}}

Drops(j) ==
    /\ Rest(j) /\ UNCHANGED met /\ job[j].at = "drop" /\ job'[j].at = "dropped"
    /\ job'[j].note = job[j].note /\ job'[j].title = job[j].title /\ job'[j].links = {}
    /\ notes' = {x \in notes : x.id # job[j].note}
    /\ chunks' = {c \in chunks : c.note # job[j].note}
    /\ \A f \in edges' : \E e \in edges :
          /\ Key(f) = Key(e) /\ f.src = e.src /\ f.title = e.title /\ f.by = e.by
          /\ e.src # job[j].note
          /\ f.dst = IF e.dst = job[j].note THEN 0 ELSE e.dst
    /\ \A e \in edges :
          \/ e.src = job[j].note
          \/ e.dst = job[j].note /\ Key(e) \notin job[j].oldEdges
          \/ \E f \in edges' : f.src = e.src /\ f.title = e.title

\* Jobs end without success; the rows are as they were.
Stopped(k) ==
    /\ \/ job[k].at \in Running /\ job'[k].at \in {"failed", "lost"}
       \/ job[k].at = "drop" /\ job'[k].at = "refused"
    /\ job'[k].note = job[k].note /\ job'[k].title = job[k].title /\ job'[k].links = {}

Stops ==
    /\ UNCHANGED <<notes, chunks, edges, met>>
    /\ \A k \in Job : job'[k] = job[k] \/ Stopped(k)

\* A job that ends is at its outcome, with its note and title.
LEMMA EndIs ==
  ASSUME TypeOK, NEW j \in Job, NEW outcome, End(j, outcome)
  PROVE  /\ Rest(j) /\ job'[j].at = outcome /\ job'[j].note = job[j].note
         /\ job'[j].title = job[j].title /\ job'[j].links = {}
  BY DEF End, SetJob, Rest, TypeOK, Idle

\* A job that ends unsuccessfully stops.
LEMMA EndStops ==
  ASSUME TypeOK, NEW j \in Job, NEW outcome, End(j, outcome),
         \/ outcome = "failed" /\ job[j].at \in Running
         \/ outcome = "refused" /\ job[j].at = "drop",
         UNCHANGED <<notes, chunks, edges, met>>
  PROVE  Stops
  <1>1. /\ Rest(j) /\ job'[j].at = outcome /\ job'[j].note = job[j].note
        /\ job'[j].title = job[j].title /\ job'[j].links = {}
    BY EndIs
  <1> QED
    BY <1>1 DEF Stops, Stopped, Rest

\* A job that is set is what it is set to.
LEMMA SetIs ==
  ASSUME TypeOK, NEW j \in Job, NEW x, SetJob(j, x)
  PROVE  Rest(j) /\ job'[j] = x
  BY DEF SetJob, Rest, TypeOK

\* What the quiet steps of a save are.
LEMMA SavingIs ==
  ASSUME IInv, NEW j \in Job,
         \/ \E title \in Title, body \in Body : Save(j, title, body)
         \/ ReadNote(j) \/ ClearChunks(j) \/ ChunksCleared(j) \/ StoreChunks(j)
         \/ ClearEdges(j) \/ EdgesCleared(j)
         \/ \E title \in Title : Link(j, title)
         \/ Linked(j)
  PROVE  \/ Begins(j) \/ Reads(j) \/ Clears(j) \/ Advances(j) \/ Unlinks(j) \/ Looks(j)
         \/ Resolves(j) \/ Stops
  <1>0. TypeOK /\ job[j] \in Jobs /\ Sound(notes, nextNote, job[j])
    BY DEF IInv, TypeOK, Held
  <1>1. ASSUME NEW title \in Title, NEW body \in Body, Save(j, title, body) PROVE Begins(j)
    BY <1>0, <1>1 DEF Save, MayStart, SetJob, Idle, Begins, Rest, TypeOK
  <1>2. CASE ReadNote(j)
    <2>1. CASE Exists(job[j].note)
      <3>1. job[j].links = {}
        BY <1>0, <1>2 DEF Sound, ReadNote, Storing
      <3>2. \A x \in notes : x.id = job[j].note => x = Row(job[j].note)
        BY <1>0, <2>1, RowOfNote
      <3> QED
        <4> DEFINE x == [job[j] EXCEPT !.at = "clear", !.body = Row(job[j].note).body,
                                       !.todo = Links[Row(job[j].note).body]]
        <4>1. /\ Rest(j) /\ job'[j] = x /\ Meet(j, Indexing \cup Detaching)
              /\ UNCHANGED <<notes, chunks, edges>> /\ job[j].at = "read"
          BY <1>0, <1>2, <2>1, SetIs DEF ReadNote
        <4>2. /\ x.at = "clear" /\ x.note = job[j].note /\ x.title = job[j].title
              /\ x.fresh = job[j].fresh /\ x.links = job[j].links
              /\ x.body = Row(job[j].note).body /\ x.todo = Links[x.body]
          BY <1>0 DEF Jobs
        <4> HIDE DEF x
        <4> QED
          BY <3>1, <3>2, <4>1, <4>2 DEF Reads
    <2>2. CASE ~Exists(job[j].note)
      BY <1>0, <1>2, <2>2, EndStops DEF ReadNote, Running, Saving
    <2> QED
      BY <2>1, <2>2
  <1>3. CASE ClearChunks(j)
    BY <1>0, <1>3 DEF ClearChunks, SetJob, Clears, Rest, Same, TypeOK, Jobs
  <1>4. CASE ChunksCleared(j)
    BY <1>0, <1>4 DEF ChunksCleared, Goto, SetJob, Advances, Rest, Same, TypeOK, Jobs
  <1>5. CASE StoreChunks(j)
    <2>1. CASE job[j].body \in Blank \/ Exists(job[j].note)
      BY <1>0, <1>5, <2>1 DEF StoreChunks, Goto, SetJob, Advances, Rest, Same, TypeOK, Jobs
    <2>2. CASE ~(job[j].body \in Blank \/ Exists(job[j].note))
      BY <1>0, <1>5, <2>2, EndStops DEF StoreChunks, Running, Saving
    <2> QED
      BY <2>1, <2>2
  <1>6. CASE ClearEdges(j)
    BY <1>0, <1>6 DEF ClearEdges, SetJob, Unlinks, Rest, Same, TypeOK, Jobs
  <1>7. CASE EdgesCleared(j)
    BY <1>0, <1>7 DEF EdgesCleared, Goto, SetJob, Advances, Rest, Same, TypeOK, Jobs
  <1>8. ASSUME NEW title \in Title, Link(j, title) PROVE Looks(j)
    <2> DEFINE new == [title |-> title, dst |-> IdOf(title)]
    <2>1. new.title = title /\ \A x \in notes : x.title = title => new.dst = x.id
      BY <1>0, IdOfTitle
    <2>2. /\ Rest(j) /\ UNCHANGED <<notes, chunks, edges, met>>
          /\ job[j].at = "link" /\ job'[j].at = "link" /\ Same(j)
          /\ job'[j].oldChunks = job[j].oldChunks /\ job'[j].oldEdges = job[j].oldEdges
          /\ job'[j].todo = job[j].todo \ {title} /\ job'[j].links = job[j].links \cup {new}
      BY <1>0, <1>8 DEF Link, SetJob, Rest, Same, TypeOK, Jobs
    <2> HIDE DEF new
    <2> QED
      BY <2>1, <2>2 DEF Looks
  <1>9. CASE Linked(j)
    <2>1. CASE job[j].fresh /\ ~Exists(job[j].note)
      BY <1>0, <1>9, <2>1, EndStops DEF Linked, Running, Saving, Storing
    <2>2. CASE ~(job[j].fresh /\ ~Exists(job[j].note))
      <3>1. job[j].fresh => {x \in edges : job[j].fresh /\ x.title = job[j].title /\ x.dst = 0}
                             = {x \in edges : x.title = job[j].title /\ x.dst = 0}
        OBVIOUS
      <3> QED
        <4> DEFINE found == {Key(e) : e \in {y \in edges :
                               job[j].fresh /\ y.title = job[j].title /\ y.dst = 0}}
                   x == [job[j] EXCEPT !.at = "resolving", !.inbound = found]
        <4>1. /\ Rest(j) /\ job'[j] = x /\ UNCHANGED <<notes, chunks, edges, met>>
              /\ job[j].at = "link" /\ job[j].todo = {}
          BY <1>0, <1>9, <2>2, SetIs DEF Linked
        <4>2. job[j].fresh => found = {Key(e) : e \in {y \in edges : y.title = job[j].title /\ y.dst = 0}}
          BY <3>1
        <4> HIDE DEF found
        <4>3. /\ x.at = "resolving" /\ x.note = job[j].note /\ x.title = job[j].title
              /\ x.body = job[j].body /\ x.fresh = job[j].fresh /\ x.links = job[j].links
              /\ x.todo = job[j].todo /\ x.oldChunks = job[j].oldChunks
              /\ x.oldEdges = job[j].oldEdges /\ x.inbound = found
          BY <1>0 DEF Jobs
        <4> HIDE DEF x
        <4> QED
          BY <4>1, <4>2, <4>3 DEF Resolves, Same
    <2> QED
      BY <2>1, <2>2
  <1> QED
    BY <1>1, <1>2, <1>3, <1>4, <1>5, <1>6, <1>7, <1>8, <1>9

\* What the steps of a deletion are.
LEMMA DeletingIs ==
  ASSUME IInv, NEW j \in Job,
         (\E title \in Title : Delete(j, title)) \/ Unresolve(j) \/ Unresolved(j) \/ DropNote(j)
  PROVE  Begins(j) \/ Detaches(j) \/ Advances(j) \/ Drops(j) \/ Stops
  <1>0. TypeOK /\ job[j] \in Jobs
    BY DEF IInv, TypeOK
  <1>1. ASSUME NEW title \in Title, Delete(j, title) PROVE Begins(j)
    <2>0. IdOf(title) # 0
      BY <1>1 DEF Delete
    <2>a. PICK y \in notes : y.title = title /\ y.id = IdOf(title)
      BY <1>0, <2>0, IdOfTitle
    <2>1. \A x \in notes : x.id = IdOf(title) => x.title = title
      BY <1>0, <2>a DEF TypeOK
    <2> QED
      BY <1>0, <1>1, <2>0, <2>1 DEF Delete, MayStart, SetJob, Idle, Begins, Rest, TypeOK
  <1>2. CASE Unresolve(j)
    BY <1>0, <1>2 DEF Unresolve, SetJob, Detaches, Rest, Same, TypeOK, Jobs
  <1>3. CASE Unresolved(j)
    BY <1>0, <1>3 DEF Unresolved, Goto, SetJob, Advances, Rest, Same, TypeOK, Jobs
  <1>4. CASE DropNote(j)
    <2> DEFINE n == job[j].note
               Null(e) == IF e.dst = n THEN [e EXCEPT !.dst = 0] ELSE e
               Lost(e) == e.src = n \/ (e.dst = n /\ Key(e) \notin job[j].oldEdges)
    <2>1. CASE n \in cited
      BY <1>0, <1>4, <2>1, EndStops DEF DropNote
    <2>2. CASE n \notin cited
      <3>1. /\ job[j].at = "drop" /\ End(j, "dropped") /\ UNCHANGED met
            /\ notes' = {x \in notes : x.id # n} /\ chunks' = {c \in chunks : c.note # n}
        BY <1>4, <2>2 DEF DropNote
      <3>2. edges' = {Null(e) : e \in edges \ {e \in edges : Lost(e)}}
        BY <1>4, <2>2, Zenon DEF DropNote
      <3>3. ASSUME NEW e \in edges
            PROVE  /\ Key(Null(e)) = Key(e) /\ Null(e).src = e.src /\ Null(e).title = e.title
                   /\ Null(e).by = e.by /\ Null(e).dst = IF e.dst = n THEN 0 ELSE e.dst
        <4>1. e \in Edges
          BY <1>0 DEF TypeOK
        <4>2. CASE e.dst = n
          BY <4>1, <4>2 DEF Edges, Key
        <4> QED
          BY <4>2
      <3> HIDE DEF Null
      <3>4. \A f \in edges' : \E e \in edges : f = Null(e) /\ e.src # n
        BY <3>2
      <3>5. \A e \in edges : ~Lost(e) => Null(e) \in edges'
        BY <3>2
      <3>6. Rest(j) /\ job'[j].at = "dropped" /\ job'[j].note = n
            /\ job'[j].title = job[j].title /\ job'[j].links = {}
        BY <1>0, <3>1, EndIs
      <3> QED
        BY <3>1, <3>3, <3>4, <3>5, <3>6 DEF Drops
    <2> QED
      BY <2>1, <2>2
  <1> QED
    BY <1>1, <1>2, <1>3, <1>4

\* What the writes of a save are.
LEMMA WritingIs ==
  ASSUME IInv, NEW j \in Job, InsertNote(j) \/ UpdateNote(j) \/ Commit(j)
  PROVE  Inserts(j) \/ Updates(j) \/ Commits(j) \/ Stops
  <1>0. TypeOK /\ job[j] \in Jobs /\ Sound(notes, nextNote, job[j])
    BY DEF IInv, TypeOK, Held
  <1>1. CASE InsertNote(j)
    <2>1. CASE IdOf(job[j].title) # 0
      BY <1>0, <1>1, <2>1, EndStops DEF InsertNote, Running, Saving
    <2>2. CASE IdOf(job[j].title) = 0
      <3> DEFINE row == [id |-> nextNote, title |-> job[j].title,
                         body |-> job[j].body, creator |-> j, writer |-> j]
      <3>1. job[j].links = {}
        BY <1>0, <1>1 DEF Sound, InsertNote, Storing
      <3>2. \A z \in notes' : z \in notes \/ z = row
        BY <1>1, <2>2 DEF InsertNote
      <3>3. \A z \in notes' : z \in notes \/ /\ z.id = nextNote /\ z.title = job[j].title
                                             /\ z.creator = j /\ z.writer = j
        BY <3>2
      <3> QED
        <4> DEFINE x == [job[j] EXCEPT !.at = "read", !.note = nextNote, !.fresh = TRUE]
        <4>1. /\ Rest(j) /\ job'[j] = x /\ UNCHANGED <<chunks, edges, met>> /\ job[j].at = "write"
              /\ notes \subseteq notes'
          BY <1>0, <1>1, <2>2, SetIs DEF InsertNote
        <4>2. /\ x.at = "read" /\ x.note = nextNote /\ x.fresh /\ x.links = job[j].links
              /\ x.title = job[j].title
          BY <1>0 DEF Jobs
        <4> HIDE DEF x
        <4> QED
          BY <3>1, <3>3, <4>1, <4>2 DEF Inserts
    <2> QED
      BY <2>1, <2>2
  <1>2. CASE UpdateNote(j)
    <2>1. job[j].links = {}
      BY <1>0, <1>2 DEF Sound, UpdateNote, Storing
    <2>2. ASSUME NEW y \in notes
          PROVE  LET z == [y EXCEPT !.body = job[j].body, !.writer = j]
                 IN z.id = y.id /\ z.title = y.title /\ z.creator = y.creator /\ z.writer = j
      BY <1>0 DEF TypeOK, Notes
    <2>3. \A z \in notes' : \E y \in notes :
             /\ z.id = y.id /\ z.title = y.title /\ z.creator = y.creator
             /\ IF y.id = job[j].note THEN z.writer = j ELSE z = y
      <3> DEFINE New(y) == IF y.id = job[j].note
                           THEN [y EXCEPT !.body = job[j].body, !.writer = j] ELSE y
      <3>1. notes' = {New(y) : y \in notes}
        BY <1>2 DEF UpdateNote
      <3>2. ASSUME NEW y \in notes
            PROVE  /\ New(y).id = y.id /\ New(y).title = y.title /\ New(y).creator = y.creator
                   /\ IF y.id = job[j].note THEN New(y).writer = j ELSE New(y) = y
        BY <2>2
      <3> HIDE DEF New
      <3> QED
        BY <3>1, <3>2
    <2>4. \A y \in notes : \E z \in notes' : z.id = y.id
      <3> DEFINE New(y) == IF y.id = job[j].note
                           THEN [y EXCEPT !.body = job[j].body, !.writer = j] ELSE y
      <3>1. \A y \in notes : New(y) \in notes' /\ New(y).id = y.id
        BY <1>2, <2>2 DEF UpdateNote
      <3> QED
        BY <3>1
    <2> QED
      BY <1>0, <1>2, <2>1, <2>3, <2>4 DEF UpdateNote, Goto, SetJob, Updates, Rest, Same, TypeOK, Jobs
  <1>3. CASE Commit(j)
    BY <1>0, <1>3, EndIs DEF Commit, Commits
  <1> QED
    BY <1>1, <1>2, <1>3

\* Every step is one of these.
LEMMA Steps ==
  ASSUME IInv, [Next]_vars
  PROVE  \/ Stops
         \/ \E j \in Job : \/ Begins(j) \/ Inserts(j) \/ Updates(j) \/ Reads(j) \/ Clears(j)
                           \/ Advances(j) \/ Unlinks(j) \/ Looks(j) \/ Resolves(j) \/ Commits(j)
                           \/ Detaches(j) \/ Drops(j)
  <1>0. TypeOK /\ nextNote \in Nat
    BY DEF IInv, TypeOK
  <1>1. CASE UNCHANGED vars
    BY <1>1 DEF vars, Stops
  <1>2. ASSUME NEW j \in Job, Fail(j) PROVE Stops
    BY <1>0, <1>2, EndStops DEF Fail
  <1>3. CASE Crash
    BY <1>3 DEF Crash, Stops, Stopped, Idle
  <1>4. ASSUME NEW n \in Nat, Cite(n) \/ Uncite(n) PROVE Stops
    BY <1>4 DEF Cite, Uncite, Stops
  <1>5. CASE Next
    BY <1>0, <1>2, <1>3, <1>4, <1>5, Actions, SavingIs, DeletingIs, WritingIs
  <1> QED
    BY <1>1, <1>5

-----------------------------------------------------------------------------
(* What the overlaps are                                                   *)

\* Two transactions that are open at once have met, and meeting is mutual.
OverlapsKnown ==
    /\ \A j, k \in Job : <<j, k>> \in met => <<k, j>> \in met
    /\ \A j, k \in Job :
          j # k /\ job[j].at \in Indexing /\ job[k].at \in Indexing \cup Detaching =>
             <<j, k>> \in met

\* What has met stays so, and what has ended well stays as it is.
LEMMA Grows ==
  ASSUME IInv, [Next]_vars
  PROVE  /\ met \subseteq met'
         /\ \A k \in Job : job[k].at \in {"done", "dropped"} => job'[k] = job[k]
  <1>1. CASE Stops
    BY <1>1 DEF Stops, Stopped, Running, Saving, Deleting, Storing
  <1>2. ASSUME NEW j \in Job,
               \/ Begins(j) \/ Inserts(j) \/ Updates(j) \/ Reads(j) \/ Clears(j)
               \/ Advances(j) \/ Unlinks(j) \/ Looks(j) \/ Resolves(j) \/ Commits(j)
               \/ Detaches(j) \/ Drops(j)
        PROVE  /\ met \subseteq met'
               /\ \A k \in Job : job[k].at \in {"done", "dropped"} => job'[k] = job[k]
    <2>1. Rest(j) /\ job[j].at \notin {"done", "dropped"}
      BY <1>2 DEF Begins, Inserts, Updates, Reads, Clears, Advances, Unlinks, Looks, Resolves,
         Commits, Detaches, Drops
    <2>2. met \subseteq met'
      BY <1>2 DEF Begins, Inserts, Updates, Reads, Clears, Advances, Unlinks, Looks, Resolves,
         Commits, Detaches, Drops, Meet
    <2> QED
      BY <2>1, <2>2 DEF Rest
  <1> QED
    BY <1>1, <1>2, Steps

\* So an overlap with a save that has ended well stays one.
LEMMA OverlappedStays ==
  ASSUME IInv, [Next]_vars, NEW n, NEW j \in Job, Overlapped(n, j)
  PROVE  Overlapped(n, j)'
  <1>1. PICK k \in Job : job[k].at = "done" /\ job[k].note = n /\ <<k, j>> \in met
    BY DEF Overlapped
  <1>2. job'[k] = job[k] /\ <<k, j>> \in met'
    BY <1>1, Grows
  <1> QED
    BY <1>1, <1>2 DEF Overlapped

\* A job that stops is at no open transaction any more.
LEMMA OverlapsKeep == ASSUME IInv, [Next]_vars, OverlapsKnown PROVE OverlapsKnown'
  <1>1. CASE Stops
    BY <1>1 DEF Stops, Stopped, OverlapsKnown, Indexing, Storing, Detaching
  <1>2. ASSUME NEW j \in Job, Reads(j) PROVE OverlapsKnown'
    BY <1>2 DEF Reads, Rest, Meet, OverlapsKnown, Indexing, Storing, Detaching
  <1>3. ASSUME NEW j \in Job, Detaches(j) PROVE OverlapsKnown'
    BY <1>3 DEF Detaches, Rest, Meet, OverlapsKnown, Indexing, Storing, Detaching
  <1>4. ASSUME NEW j \in Job,
               \/ Begins(j) \/ Inserts(j) \/ Updates(j) \/ Clears(j) \/ Advances(j) \/ Unlinks(j)
               \/ Looks(j) \/ Resolves(j) \/ Commits(j) \/ Drops(j)
        PROVE  OverlapsKnown'
    <2>1. /\ Rest(j) /\ UNCHANGED met
          /\ job'[j].at \in Indexing => job[j].at \in Indexing
          /\ job'[j].at \in Detaching => job[j].at \in Detaching
      BY <1>4 DEF Begins, Inserts, Updates, Clears, Advances, Unlinks, Looks, Resolves, Commits,
         Drops, Indexing, Storing, Detaching
    <2> QED
      BY <2>1 DEF Rest, OverlapsKnown
  <1> QED
    BY <1>1, <1>2, <1>3, <1>4, Steps

\* The save that wrote a note's body has got that far with this note, and reads
\* its own body.
WritersKnown ==
    \A x \in notes :
        /\ job[x.writer].note = x.id
        /\ job[x.writer].at \in {"read"} \cup Indexing \cup {"done", "failed", "lost"}
        /\ job[x.writer].at \in Indexing => job[x.writer].body = x.body

\* A step of a job moves its own stage on; an update makes its job the writer.
LEMMA WritersKeep == ASSUME IInv, [Next]_vars, WritersKnown PROVE WritersKnown'
  <1>0. \A x \in notes : x.writer \in Job
    BY DEF IInv, TypeOK, Notes
  <1>1. CASE Stops
    BY <1>0, <1>1 DEF Stops, Stopped, WritersKnown, Indexing, Storing
  <1>2. ASSUME NEW j \in Job, Inserts(j) PROVE WritersKnown'
    BY <1>0, <1>2 DEF Inserts, Rest, WritersKnown, Indexing, Storing
  <1>3. ASSUME NEW j \in Job, Updates(j) PROVE WritersKnown'
    <2> SUFFICES ASSUME NEW z \in notes'
                 PROVE  /\ job'[z.writer].note = z.id
                        /\ job'[z.writer].at \in {"read"} \cup Indexing \cup {"done", "failed", "lost"}
                        /\ job'[z.writer].at \in Indexing => job'[z.writer].body = z.body
      BY DEF WritersKnown
    <2>1. PICK y \in notes : /\ z.id = y.id
                             /\ IF y.id = job[j].note THEN z.writer = j ELSE z = y
      BY <1>3 DEF Updates
    <2>2. job'[j].at = "read" /\ job'[j].note = job[j].note /\ job[j].at = "write"
      BY <1>3 DEF Updates, Same
    <2>3. CASE y.id = job[j].note
      BY <2>1, <2>2, <2>3 DEF Indexing, Storing
    <2>4. CASE y.id # job[j].note
      BY <1>0, <1>3, <2>1, <2>2, <2>4 DEF Updates, Rest, WritersKnown, Indexing, Storing
    <2> QED
      BY <2>3, <2>4
  <1>4. ASSUME NEW j \in Job, Reads(j) PROVE WritersKnown'
    BY <1>0, <1>4 DEF Reads, Rest, WritersKnown, Indexing, Storing
  <1>5. ASSUME NEW j \in Job,
               \/ Begins(j) \/ Clears(j) \/ Advances(j) \/ Unlinks(j) \/ Looks(j) \/ Resolves(j)
               \/ Detaches(j)
        PROVE  WritersKnown'
    <2>1. /\ Rest(j) /\ UNCHANGED notes
          /\ \/ job[j].at \in {"idle", "unresolve", "unresolving"}
             \/ job[j].at \in Indexing /\ job'[j].at \in Indexing /\ Same(j)
      BY <1>5 DEF Begins, Clears, Advances, Unlinks, Looks, Resolves, Detaches, Indexing, Storing
    <2> QED
      BY <1>0, <2>1 DEF Rest, Same, WritersKnown, Indexing, Storing
  <1>6. ASSUME NEW j \in Job, Commits(j) PROVE WritersKnown'
    BY <1>0, <1>6 DEF Commits, Rest, WritersKnown, Indexing, Storing
  <1>7. ASSUME NEW j \in Job, Drops(j) PROVE WritersKnown'
    BY <1>0, <1>7 DEF Drops, Rest, WritersKnown, Indexing, Storing
  <1> QED
    BY <1>1, <1>2, <1>3, <1>4, <1>5, <1>6, <1>7, Steps

\* The save that inserted a note knows it for new while it indexes it.
CreatorsKnown ==
    \A x \in notes :
        /\ job[x.creator].at \in {"read"} \cup Indexing \cup {"done", "failed", "lost"}
        /\ job[x.creator].at \in {"read"} \cup Indexing =>
              /\ job[x.creator].fresh /\ job[x.creator].note = x.id
              /\ job[x.creator].title = x.title

\* The job of an INSERT is the creator of its row and of no other.
LEMMA CreatorsKeep == ASSUME IInv, [Next]_vars, CreatorsKnown PROVE CreatorsKnown'
  <1>0. \A x \in notes : x.creator \in Job
    BY DEF IInv, TypeOK, Notes
  <1>1. CASE Stops
    BY <1>0, <1>1 DEF Stops, Stopped, CreatorsKnown, Indexing, Storing
  <1>2. ASSUME NEW j \in Job, Inserts(j) PROVE CreatorsKnown'
    BY <1>0, <1>2 DEF Inserts, Rest, CreatorsKnown, Indexing, Storing
  <1>3. ASSUME NEW j \in Job, Updates(j) PROVE CreatorsKnown'
    <2> SUFFICES ASSUME NEW z \in notes'
                 PROVE  /\ job'[z.creator].at \in {"read"} \cup Indexing \cup {"done", "failed", "lost"}
                        /\ job'[z.creator].at \in {"read"} \cup Indexing =>
                              /\ job'[z.creator].fresh /\ job'[z.creator].note = z.id
                              /\ job'[z.creator].title = z.title
      BY DEF CreatorsKnown
    <2>1. PICK y \in notes : z.id = y.id /\ z.title = y.title /\ z.creator = y.creator
      BY <1>3 DEF Updates
    <2>2. job[j].at = "write" /\ Rest(j)
      BY <1>3 DEF Updates
    <2> QED
      BY <1>0, <2>1, <2>2 DEF Rest, CreatorsKnown, Indexing, Storing
  <1>4. ASSUME NEW j \in Job,
               \/ Begins(j) \/ Reads(j) \/ Clears(j) \/ Advances(j) \/ Unlinks(j) \/ Looks(j)
               \/ Resolves(j) \/ Detaches(j)
        PROVE  CreatorsKnown'
    <2>1. /\ Rest(j) /\ UNCHANGED notes
          /\ \/ job[j].at \in {"idle", "unresolve", "unresolving"}
             \/ /\ job[j].at \in {"read"} \cup Indexing /\ job'[j].at \in Indexing
                /\ job'[j].note = job[j].note /\ job'[j].title = job[j].title
                /\ job'[j].fresh = job[j].fresh
      BY <1>4 DEF Begins, Reads, Clears, Advances, Unlinks, Looks, Resolves, Detaches, Same,
         Indexing, Storing
    <2> QED
      BY <1>0, <2>1 DEF Rest, CreatorsKnown, Indexing, Storing
  <1>5. ASSUME NEW j \in Job, Commits(j) PROVE CreatorsKnown'
    BY <1>0, <1>5 DEF Commits, Rest, CreatorsKnown, Indexing, Storing
  <1>6. ASSUME NEW j \in Job, Drops(j) PROVE CreatorsKnown'
    BY <1>0, <1>6 DEF Drops, Rest, CreatorsKnown, Indexing, Storing
  <1> QED
    BY <1>1, <1>2, <1>3, <1>4, <1>5, <1>6, Steps

\* A deletion is of a note, and knows its title.
TargetsKnown ==
    \A d \in Job : job[d].at \in Deleting =>
        /\ job[d].note # 0
        /\ \A x \in notes : job[d].note = x.id => job[d].title = x.title

\* A deletion looks its note up by the title; no step changes a title.
LEMMA TargetsKeep == ASSUME IInv, [Next]_vars, TargetsKnown PROVE TargetsKnown'
  <1>1. CASE Stops
    BY <1>1 DEF Stops, Stopped, TargetsKnown, Deleting
  <1>2. ASSUME NEW j \in Job, Inserts(j) PROVE TargetsKnown'
    <2>1. \A d \in Job : job[d].note # nextNote
      BY DEF IInv, Held, Sound, TypeOK
    <2> QED
      BY <1>2, <2>1 DEF Inserts, Rest, TargetsKnown, Deleting
  <1>3. ASSUME NEW j \in Job, Updates(j) PROVE TargetsKnown'
    <2>1. /\ \A z \in notes' : \E y \in notes : z.id = y.id /\ z.title = y.title
          /\ Rest(j) /\ job'[j].at \notin Deleting
      BY <1>3 DEF Updates, Deleting
    <2> QED
      BY <2>1 DEF Rest, TargetsKnown
  <1>4. ASSUME NEW j \in Job,
               \/ Begins(j) \/ Reads(j) \/ Clears(j) \/ Advances(j) \/ Unlinks(j) \/ Looks(j)
               \/ Resolves(j) \/ Detaches(j) \/ Commits(j)
        PROVE  TargetsKnown'
    <2>1. /\ Rest(j) /\ UNCHANGED notes
          /\ \/ job'[j].at \notin Deleting
             \/ job[j].at \in Deleting /\ Same(j)
             \/ /\ job'[j].note # 0
                /\ \A x \in notes : x.id = job'[j].note => x.title = job'[j].title
      BY <1>4 DEF Begins, Reads, Clears, Advances, Unlinks, Looks, Resolves, Detaches, Commits, Deleting
    <2> QED
      BY <2>1 DEF Rest, Same, TargetsKnown
  <1>5. ASSUME NEW j \in Job, Drops(j) PROVE TargetsKnown'
    BY <1>5 DEF Drops, Rest, TargetsKnown, Deleting
  <1> QED
    BY <1>1, <1>2, <1>3, <1>4, <1>5, Steps

-----------------------------------------------------------------------------
(* Chunks                                                                  *)

\* An indexing works from the body of the note, unless the save that wrote the
\* body has not begun to index it, never will, or overlaps.
BodiesSeen ==
    \A k \in Job, x \in notes :
        job[k].at \in Indexing /\ job[k].note = x.id =>
            \/ job[k].body = x.body
            \/ job[x.writer].at \in {"read", "failed", "lost"}
            \/ <<k, x.writer>> \in met

\* A body changes only by a save that then reads it in its turn, and meets those
\* that are open.
LEMMA BodiesKeep ==
  ASSUME IInv, [Next]_vars, OverlapsKnown, WritersKnown, BodiesSeen
  PROVE  BodiesSeen'
  <1>0. \A x \in notes : x.writer \in Job
    BY DEF IInv, TypeOK, Notes
  <1>1. CASE Stops
    BY <1>0, <1>1 DEF Stops, Stopped, WritersKnown, BodiesSeen, Indexing, Storing
  <1>2. ASSUME NEW j \in Job, Inserts(j) PROVE BodiesSeen'
    BY <1>0, <1>2 DEF Inserts, Rest, WritersKnown, BodiesSeen, Indexing, Storing
  <1>3. ASSUME NEW j \in Job, Updates(j) PROVE BodiesSeen'
    <2> SUFFICES ASSUME NEW k \in Job, NEW z \in notes',
                        job'[k].at \in Indexing, job'[k].note = z.id
                 PROVE  \/ job'[k].body = z.body
                        \/ job'[z.writer].at \in {"read", "failed", "lost"}
                        \/ <<k, z.writer>> \in met'
      BY DEF BodiesSeen
    <2>1. PICK y \in notes : /\ z.id = y.id
                             /\ IF y.id = job[j].note THEN z.writer = j ELSE z = y
      BY <1>3 DEF Updates
    <2>2. job'[j].at = "read" /\ job[j].at = "write" /\ Rest(j) /\ UNCHANGED met
      BY <1>3 DEF Updates
    <2>3. CASE y.id = job[j].note
      BY <2>1, <2>2, <2>3
    <2>4. CASE y.id # job[j].note
      BY <1>0, <2>1, <2>2, <2>4 DEF Rest, WritersKnown, BodiesSeen, Indexing, Storing
    <2> QED
      BY <2>3, <2>4
  <1>4. ASSUME NEW j \in Job, Reads(j) PROVE BodiesSeen'
    <2> SUFFICES ASSUME NEW k \in Job, NEW x \in notes,
                        job'[k].at \in Indexing, job'[k].note = x.id
                 PROVE  \/ job'[k].body = x.body
                        \/ job'[x.writer].at \in {"read", "failed", "lost"}
                        \/ <<k, x.writer>> \in met'
      BY <1>4 DEF BodiesSeen, Reads
    <2>1. CASE k = j
      BY <1>4, <2>1 DEF Reads
    <2>2. CASE k # j /\ x.writer = j
      BY <1>4, <2>2 DEF Reads, Rest, Meet
    <2>3. CASE k # j /\ x.writer # j
      BY <1>0, <1>4, <2>3 DEF Reads, Rest, Meet, BodiesSeen
    <2> QED
      BY <2>1, <2>2, <2>3
  <1>5. ASSUME NEW j \in Job,
               \/ Begins(j) \/ Clears(j) \/ Advances(j) \/ Unlinks(j) \/ Looks(j) \/ Resolves(j)
               \/ Detaches(j)
        PROVE  BodiesSeen'
    <2>1. /\ Rest(j) /\ UNCHANGED notes /\ met \subseteq met'
          /\ \/ job[j].at \in {"idle", "unresolve", "unresolving"} /\ job'[j].at \notin Indexing
             \/ job[j].at \in Indexing /\ job'[j].at \in Indexing /\ Same(j)
      BY <1>5 DEF Begins, Clears, Advances, Unlinks, Looks, Resolves, Detaches, Meet, Indexing, Storing
    <2> QED
      BY <1>0, <2>1 DEF Rest, Same, WritersKnown, BodiesSeen, Indexing, Storing
  <1>6. ASSUME NEW j \in Job, Commits(j) PROVE BodiesSeen'
    BY <1>0, <1>6 DEF Commits, Rest, BodiesSeen, Indexing, Storing
  <1>7. ASSUME NEW j \in Job, Drops(j) PROVE BodiesSeen'
    BY <1>0, <1>7 DEF Drops, Rest, WritersKnown, BodiesSeen, Indexing, Storing
  <1> QED
    BY <1>1, <1>2, <1>3, <1>4, <1>5, <1>6, <1>7, Steps

\* The chunks of a note that an indexing will not delete were stored by one that
\* overlaps it.
ChunksSeen ==
    \A k \in Job, c \in chunks :
        job[k].at \in Indexing \ {"clear"} /\ c.note = job[k].note =>
            c \in job[k].oldChunks \/ <<c.by, k>> \in met

\* The chunks that a commit leaves.
LEMMA ChunksAfter ==
  ASSUME NEW j \in Job, Commits(j), NEW c \in chunks'
  PROVE  \/ c \in chunks /\ c \notin job[j].oldChunks
         \/ /\ c.note = job[j].note /\ c.body = job[j].body /\ c.by = j
            /\ c = [note |-> job[j].note, body |-> job[j].body, by |-> j]
  <1>1. chunks' = (chunks \ job[j].oldChunks)
                     \cup {[note |-> job[j].note, body |-> b, by |-> j] : b \in {job[j].body} \ Blank}
    BY DEF Commits, Commit
  <1> QED
    BY <1>1

\* A chunk that appears after the DELETE was stored by a job that was open with it.
LEMMA ChunksSeenKeep ==
  ASSUME IInv, [Next]_vars, OverlapsKnown, ChunksSeen
  PROVE  ChunksSeen'
  <1>1. CASE Stops
    BY <1>1 DEF Stops, Stopped, ChunksSeen, Indexing, Storing
  <1>2. ASSUME NEW j \in Job, Clears(j) PROVE ChunksSeen'
    BY <1>2 DEF Clears, Rest, Same, ChunksSeen
  <1>3. ASSUME NEW j \in Job,
               \/ Begins(j) \/ Inserts(j) \/ Updates(j) \/ Reads(j) \/ Advances(j) \/ Unlinks(j)
               \/ Looks(j) \/ Resolves(j) \/ Detaches(j)
        PROVE  ChunksSeen'
    <2>1. /\ Rest(j) /\ UNCHANGED chunks /\ met \subseteq met'
          /\ \/ job'[j].at \notin Indexing \ {"clear"}
             \/ /\ job[j].at \in Indexing \ {"clear"} /\ job'[j].note = job[j].note
                /\ job'[j].oldChunks = job[j].oldChunks
      BY <1>3 DEF Begins, Inserts, Updates, Reads, Advances, Unlinks, Looks, Resolves, Detaches,
         Meet, Same, Indexing, Storing
    <2> QED
      BY <2>1 DEF Rest, ChunksSeen
  <1>4. ASSUME NEW j \in Job, Commits(j) PROVE ChunksSeen'
    <2> SUFFICES ASSUME NEW k \in Job, NEW c \in chunks',
                        job'[k].at \in Indexing \ {"clear"}, c.note = job'[k].note
                 PROVE  c \in job'[k].oldChunks \/ <<c.by, k>> \in met'
      BY DEF ChunksSeen
    <2>1. /\ k # j /\ job'[k] = job[k] /\ UNCHANGED met /\ job[j].at \in Indexing
      BY <1>4 DEF Commits, Rest, Indexing, Storing
    <2>2. CASE c \in chunks
      BY <2>1, <2>2 DEF ChunksSeen
    <2>3. CASE c.by = j
      BY <2>1, <2>3 DEF OverlapsKnown
    <2> QED
      BY <1>4, <2>2, <2>3, ChunksAfter
  <1>5. ASSUME NEW j \in Job, Drops(j) PROVE ChunksSeen'
    BY <1>5 DEF Drops, Rest, ChunksSeen, Indexing, Storing
  <1> QED
    BY <1>1, <1>2, <1>3, <1>4, <1>5, Steps

\* What ChunksCurrent says of a note whose writer has ended well.
ChunksFit(x) ==
    /\ \A c \in {d \in chunks : d.note = x.id} : c.body = x.body \/ <<c.by, x.writer>> \in met
    /\ x.body \notin Blank => (\E c \in chunks : c.note = x.id) \/ Overlapped(x.id, x.writer)

\* A note that has been saved and indexed at the end of a step was so before,
\* or the step is the commit of its writer.
LEMMA SettledBefore ==
  ASSUME IInv, [Next]_vars, WritersKnown, NEW x \in Settled'
  PROVE  \/ x \in Settled
         \/ \E j \in Job : Commits(j) /\ x \in notes /\ x.writer = j
  <1>0. \A y \in notes : y.writer \in Job
    BY DEF IInv, TypeOK, Notes
  <1>a. x \in notes' /\ job'[x.writer].at = "done"
    BY DEF Settled
  <1>1. CASE Stops
    BY <1>0, <1>a, <1>1 DEF Stops, Stopped, Settled
  <1>2. ASSUME NEW j \in Job, Inserts(j) PROVE x \in Settled
    BY <1>0, <1>a, <1>2 DEF Inserts, Rest, Settled
  <1>3. ASSUME NEW j \in Job, Updates(j) PROVE x \in Settled
    <2>1. PICK y \in notes : IF y.id = job[j].note THEN x.writer = j ELSE x = y
      BY <1>a, <1>3 DEF Updates
    <2>2. x.writer # j
      BY <1>a, <1>3 DEF Updates
    <2> QED
      BY <1>0, <1>a, <1>3, <2>1, <2>2 DEF Updates, Rest, Settled
  <1>4. ASSUME NEW j \in Job,
               \/ Begins(j) \/ Reads(j) \/ Clears(j) \/ Advances(j) \/ Unlinks(j) \/ Looks(j)
               \/ Resolves(j) \/ Detaches(j) \/ Drops(j)
        PROVE  x \in Settled
    <2>1. Rest(j) /\ notes' \subseteq notes /\ job'[j].at # "done"
      BY <1>4 DEF Begins, Reads, Clears, Advances, Unlinks, Looks, Resolves, Detaches, Drops
    <2> QED
      BY <1>0, <1>a, <2>1 DEF Rest, Settled
  <1>5. ASSUME NEW j \in Job, Commits(j)
        PROVE  x \in Settled \/ (x \in notes /\ x.writer = j)
    BY <1>0, <1>a, <1>5 DEF Commits, Rest, Settled
  <1> QED
    BY <1>1, <1>2, <1>3, <1>4, <1>5, Steps

\* The commit of an indexing replaces what its DELETE saw.
LEMMA ChunksKeep ==
  ASSUME IInv, [Next]_vars, OverlapsKnown, WritersKnown, BodiesSeen, ChunksSeen, ChunksCurrent
  PROVE  ChunksCurrent'
  <1>0. /\ \A x \in notes : x.writer \in Job
        /\ \A x, y \in notes : x.id = y.id => x = y
    BY DEF IInv, TypeOK, Notes
  <1>a. /\ \A c, d \in chunks : c.note = d.note => c = d \/ <<c.by, d.by>> \in met
        /\ \A x \in Settled : ChunksFit(x)
    BY DEF ChunksCurrent, ChunksFit
  <1> SUFFICES /\ \A c, d \in chunks' : c.note = d.note => c = d \/ <<c.by, d.by>> \in met'
               /\ \A x \in Settled' : ChunksFit(x)'
    BY DEF ChunksCurrent, ChunksFit
  <1>1. met \subseteq met'
    BY Grows
  <1>2. ASSUME chunks' = chunks, \A x \in Settled' : x \in Settled
        PROVE  /\ \A c, d \in chunks' : c.note = d.note => c = d \/ <<c.by, d.by>> \in met'
               /\ \A x \in Settled' : ChunksFit(x)'
    <2>1. ASSUME NEW x \in Settled' PROVE ChunksFit(x)'
      <3>1. x \in Settled /\ x.writer \in Job
        BY <1>0, <1>2, <2>1 DEF Settled
      <3>2. Overlapped(x.id, x.writer) => Overlapped(x.id, x.writer)'
        BY <3>1, OverlappedStays
      <3> QED
        BY <1>1, <1>2, <1>a, <3>1, <3>2 DEF ChunksFit
    <2> QED
      BY <1>1, <1>2, <1>a, <2>1
  <1>3. ASSUME NEW j \in Job, Drops(j)
        PROVE  /\ \A c, d \in chunks' : c.note = d.note => c = d \/ <<c.by, d.by>> \in met'
               /\ \A x \in Settled' : ChunksFit(x)'
    <2>0. /\ notes' = {x \in notes : x.id # job[j].note}
          /\ chunks' = {c \in chunks : c.note # job[j].note}
          /\ job'[j].at # "done" /\ Rest(j)
      BY <1>3 DEF Drops
    <2>1. ASSUME NEW x \in Settled' PROVE ChunksFit(x)'
      <3>1. x \in Settled /\ x.writer \in Job /\ x.id # job[j].note
        BY <1>0, <2>0, <2>1 DEF Settled, Rest
      <3>2. Overlapped(x.id, x.writer) => Overlapped(x.id, x.writer)'
        BY <3>1, OverlappedStays
      <3> QED
        BY <1>1, <1>a, <2>0, <3>1, <3>2 DEF ChunksFit
    <2> QED
      BY <1>1, <1>a, <2>0, <2>1
  <1>4. ASSUME NEW j \in Job, Commits(j)
        PROVE  /\ \A c, d \in chunks' : c.note = d.note => c = d \/ <<c.by, d.by>> \in met'
               /\ \A x \in Settled' : ChunksFit(x)'
    <2> DEFINE n == job[j].note
    <2>0. /\ job[j].at \in Indexing \ {"clear"} /\ job'[j].at = "done" /\ job'[j].note = n
          /\ notes' = notes /\ met' = met /\ Rest(j) /\ job[j].at = "resolving"
      BY <1>4 DEF Commits, Indexing, Storing
    <2>a. \A c \in job[j].oldChunks : c.note = n
      BY DEF IInv, Held, Sound
    <2>b. /\ \A c \in chunks : c \notin job[j].oldChunks => c \in chunks'
          /\ job[j].body \notin Blank => \E c \in chunks' : c.note = n
      <3>1. chunks' = (chunks \ job[j].oldChunks)
                         \cup {[note |-> n, body |-> b, by |-> j] : b \in {job[j].body} \ Blank}
        BY <1>4 DEF Commits, Commit
      <3>2. job[j].body \notin Blank => [note |-> n, body |-> job[j].body, by |-> j] \in chunks'
        BY <3>1
      <3> HIDE DEF n
      <3> QED
        BY <3>1, <3>2
    <2>1. ASSUME NEW c \in chunks', NEW d \in chunks', c.note = d.note
          PROVE  c = d \/ <<c.by, d.by>> \in met'
      <3>1. ASSUME NEW e \in chunks, e \notin job[j].oldChunks, e.note = n
            PROVE  <<e.by, j>> \in met /\ <<j, e.by>> \in met
        <4>1. <<e.by, j>> \in met /\ e.by \in Job
          BY <2>0, <3>1 DEF ChunksSeen, IInv, TypeOK, Chunks
        <4> QED
          BY <4>1 DEF OverlapsKnown
      <3> QED
        <4> DEFINE row == [note |-> job[j].note, body |-> job[j].body, by |-> j]
        <4>1. /\ (c \in chunks /\ c \notin job[j].oldChunks) \/ (c = row /\ c.note = n /\ c.by = j)
              /\ (d \in chunks /\ d \notin job[j].oldChunks) \/ (d = row /\ d.note = n /\ d.by = j)
          BY <1>4, <2>1, ChunksAfter
        <4> HIDE DEF row, n
        <4>2. CASE c \in chunks /\ d \in chunks
          BY <1>a, <2>0, <2>1, <4>2
        <4>3. CASE c \in chunks /\ d = row /\ d.note = n /\ d.by = j
          BY <2>0, <2>1, <3>1, <4>1, <4>3
        <4>4. CASE d \in chunks /\ c = row /\ c.note = n /\ c.by = j
          BY <2>0, <2>1, <3>1, <4>1, <4>4
        <4> QED
          BY <4>1, <4>2, <4>3, <4>4
    <2>2. ASSUME NEW x \in Settled' PROVE ChunksFit(x)'
      <3>1. x \in notes /\ x.writer \in Job /\ (x \in Settled \/ x.writer = j)
        BY <1>0, <2>0, <2>2 DEF Settled, Rest
      <3>2. CASE x.id # n
        <4>1. x \in Settled
          BY <2>0, <3>1, <3>2 DEF WritersKnown
        <4>2. Overlapped(x.id, x.writer) => Overlapped(x.id, x.writer)'
          BY <3>1, OverlappedStays
        <4>3. \A c \in chunks' : c.note = x.id => c \in chunks
          BY <1>4, <3>2, ChunksAfter
        <4>4. \A c \in chunks : c.note = x.id => c \in chunks'
          BY <2>a, <2>b, <3>2
        <4> QED
          BY <1>a, <2>0, <4>1, <4>2, <4>3, <4>4 DEF ChunksFit
      <3>3. CASE x.id = n /\ x.writer = j
        <4>1. job[j].body = x.body
          BY <2>0, <3>1, <3>3 DEF WritersKnown
        <4>2. ASSUME NEW c \in chunks', c.note = n PROVE c.body = x.body \/ <<c.by, j>> \in met'
          BY <1>4, <2>0, <4>1, <4>2, ChunksAfter DEF ChunksSeen
        <4> QED
          BY <2>b, <3>3, <4>1, <4>2 DEF ChunksFit
      <3>4. CASE x.id = n /\ x.writer # j
        <4>1. x \in Settled /\ job[x.writer].at = "done"
          BY <3>1, <3>4 DEF Settled
        <4>2. job[j].body = x.body \/ <<j, x.writer>> \in met
          BY <2>0, <3>1, <3>4, <4>1 DEF BodiesSeen
        <4>3. <<j, x.writer>> \in met => Overlapped(x.id, x.writer)'
          BY <2>0, <3>4 DEF Overlapped
        <4>4. ASSUME NEW c \in chunks', c.note = n
              PROVE  c.body = x.body \/ <<c.by, x.writer>> \in met'
          BY <1>4, <1>a, <2>0, <3>4, <4>1, <4>2, <4>4, ChunksAfter DEF ChunksFit
        <4> QED
          BY <2>b, <3>4, <4>2, <4>3, <4>4 DEF ChunksFit
      <3> QED
        BY <3>1, <3>2, <3>3, <3>4
    <2> QED
      BY <2>1, <2>2
  <1>5. CASE chunks' = chunks /\ ~ \E j \in Job : Commits(j)
    BY <1>2, <1>5, SettledBefore
  <1>6. chunks' = chunks \/ \E j \in Job : Commits(j) \/ Drops(j)
    BY Steps DEF Stops, Begins, Inserts, Updates, Reads, Clears, Advances, Unlinks, Looks, Resolves,
       Detaches
  <1> QED
    BY <1>3, <1>4, <1>5, <1>6

-----------------------------------------------------------------------------
(* Links                                                                   *)

\* The edges that a commit leaves: those it does not delete, which lead where
\* they led, where the job has looked them up, or to the note of the job; and
\* those it inserts.
LEMMA EdgesAfter ==
  ASSUME IInv, NEW j \in Job, Commits(j), NEW f \in edges'
  PROVE  \/ \E e \in edges :
              /\ Key(e) \notin job[j].oldEdges
              /\ Key(f) = Key(e) /\ f.src = e.src /\ f.title = e.title /\ f.by = e.by
              /\ \/ f.dst = e.dst /\ ~(Key(e) \in job[j].inbound /\ e.dst = 0)
                 \/ \E l \in job[j].links :
                       l.title = e.title /\ e.src = job[j].note /\ f.dst = l.dst
                 \/ Key(e) \in job[j].inbound /\ e.dst = 0 /\ f.dst = job[j].note
         \/ \E l \in job[j].links :
              f.src = job[j].note /\ f.title = l.title /\ f.dst = l.dst /\ f.by = j
  <1>0. Commit(j) /\ job[j].at = "resolving" /\ edges \subseteq Edges
    BY DEF Commits, IInv, TypeOK
  <1>1. CASE \E e \in edges : Key(e) \notin job[j].oldEdges /\ f = Relinked(j, e)
    <2>1. PICK e \in edges : Key(e) \notin job[j].oldEdges /\ f = Relinked(j, e)
      BY <1>1
    <2>2. Key(f) = Key(e) /\ f.src = e.src /\ f.title = e.title
      BY <1>0, <2>1, RelinkedIs
    <2>3. f.by = e.by
      BY <2>2 DEF Key
    <2>4. CASE e.src = job[j].note /\ \E l \in job[j].links : l.title = e.title
      <3>1. PICK l \in job[j].links :
               l = (CHOOSE m \in job[j].links : m.title = e.title) /\ l.title = e.title
        BY <2>4
      <3>2. f = [e EXCEPT !.dst = l.dst]
        BY <2>1, <2>4, <3>1 DEF Relinked
      <3>3. f.dst = l.dst
        BY <1>0, <3>2 DEF Edges
      <3> QED
        BY <2>1, <2>2, <2>3, <2>4, <3>1, <3>3
    <2>5. CASE /\ ~(e.src = job[j].note /\ \E l \in job[j].links : l.title = e.title)
               /\ Key(e) \in job[j].inbound /\ e.dst = 0
      <3>1. f = [e EXCEPT !.dst = job[j].note]
        BY <2>1, <2>5 DEF Relinked
      <3>2. f.dst = job[j].note
        BY <1>0, <3>1 DEF Edges
      <3> QED
        BY <2>1, <2>2, <2>3, <2>5, <3>2
    <2>6. CASE /\ ~(e.src = job[j].note /\ \E l \in job[j].links : l.title = e.title)
               /\ ~(Key(e) \in job[j].inbound /\ e.dst = 0)
      <3>1. f = e
        BY <2>1, <2>6 DEF Relinked
      <3> QED
        BY <2>1, <2>6, <3>1
    <2> QED
      BY <2>4, <2>5, <2>6
  <1>2. CASE \E l \in job[j].links :
                f = [src |-> job[j].note, title |-> l.title, dst |-> l.dst, by |-> j]
    BY <1>2
  <1> QED
    BY <1>0, <1>1, <1>2, Committed

\* Every edge that the commit does not delete is left, and every link has one.
LEMMA EdgesLeft ==
  ASSUME IInv, NEW j \in Job, Commits(j)
  PROVE  /\ \A e \in edges : Key(e) \notin job[j].oldEdges =>
               \E f \in edges' : f.src = e.src /\ f.title = e.title
         /\ \A l \in job[j].links : \E f \in edges' : f.src = job[j].note /\ f.title = l.title
  <1> DEFINE kept == {e \in edges : Key(e) \notin job[j].oldEdges}
             new  == {l \in job[j].links :
                        ~\E e \in kept : e.src = job[j].note /\ e.title = l.title}
             Row1(l) == [src |-> job[j].note, title |-> l.title, dst |-> l.dst, by |-> j]
  <1>0. /\ edges' = {Relinked(j, e) : e \in kept} \cup {Row1(l) : l \in new}
        /\ job[j].at = "resolving"
    BY DEF Commits, Commit
  <1>1. ASSUME NEW e \in kept
        PROVE  \E f \in edges' : f.src = e.src /\ f.title = e.title
    <2>1. Relinked(j, e) \in edges'
      BY <1>0
    <2>2. Relinked(j, e).src = e.src /\ Relinked(j, e).title = e.title
      BY <1>0, RelinkedIs
    <2> QED
      BY <2>1, <2>2
  <1>2. ASSUME NEW l \in job[j].links
        PROVE  \E f \in edges' : f.src = job[j].note /\ f.title = l.title
    <2>1. CASE l \in new
      <3>1. Row1(l) \in edges' /\ Row1(l).src = job[j].note /\ Row1(l).title = l.title
        BY <1>0, <2>1
      <3> QED
        BY <3>1
    <2>2. CASE l \notin new
      <3>1. PICK e \in kept : e.src = job[j].note /\ e.title = l.title
        BY <2>2
      <3>2. PICK f \in edges' : f.src = e.src /\ f.title = e.title
        BY <1>1
      <3> QED
        BY <3>1, <3>2
    <2> QED
      BY <2>1, <2>2
  <1> QED
    BY <1>1, <1>2

\* The edges of a note that an indexing will not delete were inserted by one that
\* overlaps it, and it deletes no others.
EdgesSeen ==
    \A k \in Job : job[k].at \in {"unlinking", "link", "resolving"} =>
        /\ \A e \in edges : e.src = job[k].note =>
              Key(e) \in job[k].oldEdges \/ <<e.by, k>> \in met
        /\ \A q \in job[k].oldEdges : q.src = job[k].note

\* An edge that appears after the DELETE was inserted by a job that was open with it.
LEMMA EdgesSeenKeep ==
  ASSUME IInv, [Next]_vars, OverlapsKnown, EdgesSeen
  PROVE  EdgesSeen'
  <1>1. CASE Stops
    BY <1>1 DEF Stops, Stopped, EdgesSeen
  <1>2. ASSUME NEW j \in Job, Unlinks(j) PROVE EdgesSeen'
    BY <1>2 DEF Unlinks, Rest, Same, EdgesSeen, Key
  <1>3. ASSUME NEW j \in Job,
               \/ Begins(j) \/ Inserts(j) \/ Updates(j) \/ Reads(j) \/ Clears(j) \/ Advances(j)
               \/ Looks(j) \/ Resolves(j) \/ Detaches(j)
        PROVE  EdgesSeen'
    <2>1. /\ Rest(j) /\ UNCHANGED edges /\ met \subseteq met'
          /\ \/ job'[j].at \notin {"unlinking", "link", "resolving"}
             \/ /\ job[j].at \in {"unlinking", "link", "resolving"} /\ job'[j].note = job[j].note
                /\ job'[j].oldEdges = job[j].oldEdges
      BY <1>3 DEF Begins, Inserts, Updates, Reads, Clears, Advances, Looks, Resolves, Detaches,
         Meet, Same
    <2> QED
      BY <2>1 DEF Rest, EdgesSeen
  <1>4. ASSUME NEW j \in Job, Commits(j) PROVE EdgesSeen'
    <2> SUFFICES ASSUME NEW k \in Job, job'[k].at \in {"unlinking", "link", "resolving"}
                 PROVE  /\ \A f \in edges' : f.src = job'[k].note =>
                              Key(f) \in job'[k].oldEdges \/ <<f.by, k>> \in met'
                        /\ \A q \in job'[k].oldEdges : q.src = job'[k].note
      BY DEF EdgesSeen
    <2>1. /\ k # j /\ job'[k] = job[k] /\ UNCHANGED met
          /\ job[j].at \in Indexing /\ job[k].at \in Indexing
      BY <1>4 DEF Commits, Rest, Indexing, Storing
    <2>2. <<j, k>> \in met
      BY <2>1 DEF OverlapsKnown
    <2>3. ASSUME NEW f \in edges', f.src = job[k].note
          PROVE  Key(f) \in job[k].oldEdges \/ <<f.by, k>> \in met
      <3>1. \/ \E e \in edges : Key(f) = Key(e) /\ f.src = e.src /\ f.by = e.by
            \/ f.by = j
        BY <1>4, EdgesAfter
      <3> QED
        BY <2>1, <2>2, <2>3, <3>1 DEF EdgesSeen
    <2> QED
      BY <2>1, <2>3 DEF EdgesSeen
  <1>5. ASSUME NEW j \in Job, Drops(j) PROVE EdgesSeen'
    <2>1. /\ Rest(j) /\ UNCHANGED met /\ job'[j].at = "dropped"
          /\ \A f \in edges' : \E e \in edges : Key(f) = Key(e) /\ f.src = e.src /\ f.by = e.by
      BY <1>5 DEF Drops
    <2> QED
      BY <2>1 DEF Rest, EdgesSeen
  <1> QED
    BY <1>1, <1>2, <1>3, <1>4, <1>5, Steps

\* An indexing looks up every link of its body.
LinksAll ==
    \A k \in Job :
        /\ job[k].at \in Indexing =>
              \A t \in Links[job[k].body] :
                  t \in job[k].todo \/ \E l \in job[k].links : l.title = t
        /\ job[k].at = "resolving" => job[k].todo = {}

\* A link leaves what is to be done when it has been looked up.
LEMMA LinksAllKeep == ASSUME IInv, [Next]_vars, LinksAll PROVE LinksAll'
  <1>1. CASE Stops
    BY <1>1 DEF Stops, Stopped, LinksAll, Indexing, Storing
  <1>2. ASSUME NEW j \in Job, Reads(j) PROVE LinksAll'
    BY <1>2 DEF Reads, Rest, LinksAll
  <1>3. ASSUME NEW j \in Job, Looks(j) PROVE LinksAll'
    <2>0. PICK t \in Title : \E new :
             /\ job'[j].todo = job[j].todo \ {t} /\ job'[j].links = job[j].links \cup {new}
             /\ new.title = t
      BY <1>3 DEF Looks
    <2>1. PICK new : /\ job'[j].todo = job[j].todo \ {t}
                     /\ job'[j].links = job[j].links \cup {new} /\ new.title = t
      BY <2>0
    <2>2. Rest(j) /\ Same(j) /\ job[j].at \in Indexing /\ job'[j].at = "link"
      BY <1>3 DEF Looks, Indexing, Storing
    <2> QED
      BY <2>1, <2>2 DEF Rest, Same, LinksAll
  <1>4. ASSUME NEW j \in Job,
               \/ Begins(j) \/ Inserts(j) \/ Updates(j) \/ Clears(j) \/ Advances(j) \/ Unlinks(j)
               \/ Resolves(j) \/ Commits(j) \/ Detaches(j) \/ Drops(j)
        PROVE  LinksAll'
    <2>1. /\ Rest(j)
          /\ \/ job'[j].at \notin Indexing
             \/ /\ job[j].at \in Indexing /\ Same(j)
                /\ job'[j].links = job[j].links /\ job'[j].todo = job[j].todo
          /\ job'[j].at = "resolving" => job'[j].todo = {}
      BY <1>4 DEF Begins, Inserts, Updates, Clears, Advances, Unlinks, Resolves, Commits, Detaches,
         Drops, Indexing, Storing
    <2> QED
      BY <2>1 DEF Rest, Same, LinksAll
  <1> QED
    BY <1>1, <1>2, <1>3, <1>4, Steps

\* An edge to a note that is being deleted is among those that the deletion keeps,
\* or the note it comes from or goes to was indexed while the deletion ran.
LinksLeft ==
    \A d \in Job, e \in edges :
        job[d].at \in Detaching /\ e.dst = job[d].note =>
            Key(e) \in job[d].oldEdges \/ Overlapped(e.src, d) \/ Overlapped(e.dst, d)

\* An edge to the note that appears after the UPDATE of the deletion was committed
\* by a job that was open with it.
LEMMA LinksLeftKeep ==
  ASSUME IInv, [Next]_vars, OverlapsKnown, TargetsKnown, LinksLeft
  PROVE  LinksLeft'
  <1>0. \A n : \A d \in Job : Overlapped(n, d) => Overlapped(n, d)'
    BY OverlappedStays
  <1>1. CASE Stops
    BY <1>0, <1>1 DEF Stops, Stopped, LinksLeft, Detaching
  <1>2. ASSUME NEW j \in Job, Detaches(j) PROVE LinksLeft'
    <2>1. /\ Rest(j) /\ UNCHANGED edges /\ job'[j].note = job[j].note
          /\ job'[j].oldEdges = {Key(e) : e \in {x \in edges : x.dst = job[j].note}}
      BY <1>2 DEF Detaches, Same
    <2> QED
      BY <1>0, <2>1 DEF Rest, LinksLeft
  <1>3. ASSUME NEW j \in Job,
               \/ Begins(j) \/ Inserts(j) \/ Updates(j) \/ Reads(j) \/ Clears(j) \/ Advances(j)
               \/ Unlinks(j) \/ Looks(j) \/ Resolves(j)
        PROVE  LinksLeft'
    <2>1. /\ Rest(j) /\ UNCHANGED edges
          /\ \/ job'[j].at \notin Detaching
             \/ /\ job[j].at \in Detaching /\ job'[j].note = job[j].note
                /\ job'[j].oldEdges = job[j].oldEdges
      BY <1>3 DEF Begins, Inserts, Updates, Reads, Clears, Advances, Unlinks, Looks, Resolves, Same,
         Detaching
    <2> QED
      BY <1>0, <2>1 DEF Rest, LinksLeft
  <1>4. ASSUME NEW j \in Job, Commits(j) PROVE LinksLeft'
    <2> SUFFICES ASSUME NEW d \in Job, NEW f \in edges',
                        job'[d].at \in Detaching, f.dst = job'[d].note
                 PROVE  \/ Key(f) \in job'[d].oldEdges
                        \/ Overlapped(f.src, d)' \/ Overlapped(f.dst, d)'
      BY DEF LinksLeft
    <2>1. /\ d # j /\ job'[d] = job[d] /\ UNCHANGED met
          /\ job[j].at \in Indexing /\ job'[j].at = "done" /\ job'[j].note = job[j].note
      BY <1>4 DEF Commits, Rest, Indexing, Storing, Detaching
    <2>2. <<j, d>> \in met'
      BY <2>1 DEF OverlapsKnown
    <2>3. \A n : n = job[j].note => Overlapped(n, d)'
      BY <2>1, <2>2 DEF Overlapped
    <2>4. CASE \E e \in edges : Key(f) = Key(e) /\ f.src = e.src /\ f.dst = e.dst
      BY <1>0, <2>1, <2>4 DEF LinksLeft
    <2>5. CASE f.src = job[j].note \/ f.dst = job[j].note
      BY <2>3, <2>5
    <2> QED
      BY <1>4, <2>4, <2>5, EdgesAfter
  <1>5. ASSUME NEW j \in Job, Drops(j) PROVE LinksLeft'
    <2> SUFFICES ASSUME NEW d \in Job, NEW f \in edges',
                        job'[d].at \in Detaching, f.dst = job'[d].note
                 PROVE  \/ Key(f) \in job'[d].oldEdges
                        \/ Overlapped(f.src, d)' \/ Overlapped(f.dst, d)'
      BY DEF LinksLeft
    <2>1. d # j /\ job'[d] = job[d] /\ job[d].at \in Detaching
      BY <1>5 DEF Drops, Rest, Detaching
    <2>2. PICK e \in edges : /\ Key(f) = Key(e) /\ f.src = e.src
                             /\ f.dst = IF e.dst = job[j].note THEN 0 ELSE e.dst
      BY <1>5 DEF Drops
    <2>3. job[d].note # 0
      BY <2>1 DEF TargetsKnown, Deleting, Detaching
    <2> QED
      BY <1>0, <2>1, <2>2, <2>3 DEF LinksLeft
  <1> QED
    BY <1>1, <1>2, <1>3, <1>4, <1>5, Steps

\* A link that a save has looked up leads to the note of its title, unless the
\* note has been created since, by a save that has not begun to index it, never
\* will, or overlaps.
LinksLooked ==
    \A k \in Job, x \in notes : \A l \in job[k].links : l.title = x.title =>
        \/ l.dst = x.id
        \/ /\ x.creator # k
           /\ job[x.creator].at \in {"read", "failed", "lost"} \/ <<k, x.creator>> \in met

\* A note that is inserted after the lookup has a creator that is yet to index it.
LEMMA LinksLookedKeep ==
  ASSUME IInv, [Next]_vars, OverlapsKnown, CreatorsKnown, LinksLooked
  PROVE  LinksLooked'
  <1>0. \A x \in notes : x.creator \in Job
    BY DEF IInv, TypeOK, Notes
  <1>1. CASE Stops
    BY <1>0, <1>1 DEF Stops, Stopped, CreatorsKnown, LinksLooked, Indexing, Storing
  <1>2. ASSUME NEW j \in Job, Inserts(j) PROVE LinksLooked'
    BY <1>0, <1>2 DEF Inserts, Rest, CreatorsKnown, LinksLooked, Indexing, Storing
  <1>3. ASSUME NEW j \in Job, Updates(j) PROVE LinksLooked'
    <2>1. /\ \A z \in notes' : \E y \in notes :
                z.id = y.id /\ z.title = y.title /\ z.creator = y.creator
          /\ Rest(j) /\ UNCHANGED met /\ job'[j].links = {} /\ job[j].at = "write"
      BY <1>3 DEF Updates
    <2> QED
      BY <1>0, <2>1 DEF Rest, CreatorsKnown, LinksLooked, Indexing, Storing
  <1>4. ASSUME NEW j \in Job, Reads(j) PROVE LinksLooked'
    <2> SUFFICES ASSUME NEW k \in Job, NEW x \in notes, NEW l \in job'[k].links,
                        l.title = x.title, l.dst # x.id
                 PROVE  /\ x.creator # k
                        /\ \/ job'[x.creator].at \in {"read", "failed", "lost"}
                           \/ <<k, x.creator>> \in met'
      BY <1>4 DEF LinksLooked, Reads
    <2>1. k # j /\ job'[k] = job[k]
      BY <1>4 DEF Reads, Rest
    <2>2. job[k].at \in Indexing
      BY <2>1 DEF IInv, Held, Sound, Indexing
    <2>3. CASE x.creator = j
      BY <1>4, <2>1, <2>2, <2>3 DEF Reads, Meet
    <2>4. CASE x.creator # j
      BY <1>0, <1>4, <2>1, <2>4 DEF Reads, Rest, Meet, LinksLooked
    <2> QED
      BY <2>3, <2>4
  <1>5. ASSUME NEW j \in Job, Looks(j) PROVE LinksLooked'
    <2>0. PICK t \in Title : \E new :
             /\ job'[j].links = job[j].links \cup {new}
             /\ new.title = t /\ \A x \in notes : x.title = t => new.dst = x.id
      BY <1>5 DEF Looks
    <2>1. PICK new : /\ job'[j].links = job[j].links \cup {new}
                     /\ new.title = t /\ \A x \in notes : x.title = t => new.dst = x.id
      BY <2>0
    <2>2. Rest(j) /\ UNCHANGED <<notes, met>> /\ job'[j].at = job[j].at
      BY <1>5 DEF Looks
    <2> QED
      BY <1>0, <2>1, <2>2 DEF Rest, LinksLooked
  <1>6. ASSUME NEW j \in Job,
               \/ Begins(j) \/ Clears(j) \/ Advances(j) \/ Unlinks(j) \/ Resolves(j) \/ Commits(j)
               \/ Detaches(j) \/ Drops(j)
        PROVE  LinksLooked'
    <2>1. /\ Rest(j) /\ notes' \subseteq notes /\ met \subseteq met'
          /\ job'[j].links \subseteq job[j].links
          /\ job[j].at \in {"read", "failed", "lost"} => job'[j].at = job[j].at
      BY <1>6 DEF Begins, Clears, Advances, Unlinks, Resolves, Commits, Detaches, Drops, Meet
    <2> QED
      BY <1>0, <2>1 DEF Rest, LinksLooked
  <1> QED
    BY <1>1, <1>2, <1>3, <1>4, <1>5, <1>6, Steps

\* A link to a note's title leads to the note, or the save that created it has
\* not come to resolve such links, never will, or is about to resolve this one;
\* or the note with the link was indexed while that save was.
LinksWaiting ==
    \A e \in edges, x \in notes : e.title = x.title =>
        \/ e.dst = x.id
        \/ job[x.creator].at \in {"read", "failed", "lost"} \cup (Indexing \ {"resolving"})
        \/ /\ job[x.creator].at = "resolving" /\ e.dst = 0
           /\ Key(e) \in job[x.creator].inbound
        \/ Overlapped(e.src, x.creator)

\* Only the creator's commit ends the wait, and only a job that is open with it can
\* commit an unresolved edge after that.
LEMMA LinksWaitingKeep ==
  ASSUME IInv, [Next]_vars, OverlapsKnown, CreatorsKnown, LinksLooked, LinksWaiting
  PROVE  LinksWaiting'
  <1>0. /\ \A x \in notes : x.creator \in Job
        /\ \A x, y \in notes : x.title = y.title \/ x.id = y.id => x = y
    BY DEF IInv, TypeOK, Notes
  <1>a. \A n : \A d \in Job : Overlapped(n, d) => Overlapped(n, d)'
    BY OverlappedStays
  <1>1. CASE Stops
    BY <1>0, <1>a, <1>1 DEF Stops, Stopped, CreatorsKnown, LinksWaiting, Indexing, Storing
  <1>2. ASSUME NEW j \in Job, Inserts(j) PROVE LinksWaiting'
    BY <1>0, <1>a, <1>2 DEF Inserts, Rest, CreatorsKnown, LinksWaiting, Indexing, Storing
  <1>3. ASSUME NEW j \in Job, Updates(j) PROVE LinksWaiting'
    <2>1. /\ \A z \in notes' : \E y \in notes :
                z.id = y.id /\ z.title = y.title /\ z.creator = y.creator
          /\ Rest(j) /\ UNCHANGED <<edges, met>> /\ job[j].at = "write"
      BY <1>3 DEF Updates
    <2>2. \A x \in notes : x.creator # j
      BY <2>1 DEF CreatorsKnown, Indexing, Storing
    <2>3. ASSUME NEW e \in edges, NEW z \in notes', e.title = z.title
          PROVE  \/ e.dst = z.id
                 \/ job'[z.creator].at \in {"read", "failed", "lost"} \cup (Indexing \ {"resolving"})
                 \/ /\ job'[z.creator].at = "resolving" /\ e.dst = 0
                    /\ Key(e) \in job'[z.creator].inbound
                 \/ Overlapped(e.src, z.creator)'
      <3>1. PICK y \in notes : z.id = y.id /\ z.title = y.title /\ z.creator = y.creator
        BY <2>1, <2>3
      <3>2. job'[y.creator] = job[y.creator]
        BY <1>0, <2>1, <2>2 DEF Rest
      <3> QED
        BY <1>0, <1>a, <2>3, <3>1, <3>2 DEF LinksWaiting
    <2> QED
      BY <2>1, <2>3 DEF LinksWaiting, Key
  <1>4. ASSUME NEW j \in Job, Resolves(j) PROVE LinksWaiting'
    <2> SUFFICES ASSUME NEW e \in edges, NEW x \in notes, e.title = x.title, e.dst # x.id
                 PROVE  \/ job'[x.creator].at \in {"read", "failed", "lost"} \cup (Indexing \ {"resolving"})
                        \/ /\ job'[x.creator].at = "resolving" /\ e.dst = 0
                           /\ Key(e) \in job'[x.creator].inbound
                        \/ Overlapped(e.src, x.creator)'
      BY <1>4 DEF LinksWaiting, Resolves, Key
    <2>1. CASE x.creator # j
      BY <1>0, <1>a, <1>4, <2>1 DEF Resolves, Rest, LinksWaiting
    <2>2. CASE x.creator = j
      <3>1. /\ job[j].fresh /\ job[j].title = x.title /\ job'[j].at = "resolving"
            /\ job'[j].inbound = {Key(f) : f \in {y \in edges : y.title = job[j].title /\ y.dst = 0}}
        BY <1>4, <2>2 DEF Resolves, CreatorsKnown, Indexing, Storing
      <3>2. e.dst = 0
        BY <1>0, PointsRight
      <3> QED
        BY <2>2, <3>1, <3>2
    <2> QED
      BY <2>1, <2>2
  <1>5. ASSUME NEW j \in Job,
               \/ Begins(j) \/ Reads(j) \/ Clears(j) \/ Advances(j) \/ Unlinks(j) \/ Looks(j)
               \/ Detaches(j)
        PROVE  LinksWaiting'
    <2>1. /\ Rest(j) /\ UNCHANGED <<notes, edges>>
          /\ \/ job[j].at \in {"idle", "unresolve", "unresolving"}
             \/ job[j].at # "resolving" /\ job'[j].at \in Indexing \ {"resolving"}
      BY <1>5 DEF Begins, Reads, Clears, Advances, Unlinks, Looks, Detaches, Indexing, Storing
    <2> QED
      BY <1>0, <1>a, <2>1 DEF Rest, CreatorsKnown, LinksWaiting, Indexing, Storing, Key
  <1>6. ASSUME NEW j \in Job, Commits(j) PROVE LinksWaiting'
    <2> SUFFICES ASSUME NEW f \in edges', NEW x \in notes, f.title = x.title, f.dst # x.id
                 PROVE  \/ job'[x.creator].at \in {"read", "failed", "lost"} \cup (Indexing \ {"resolving"})
                        \/ /\ job'[x.creator].at = "resolving" /\ f.dst = 0
                           /\ Key(f) \in job'[x.creator].inbound
                        \/ Overlapped(f.src, x.creator)'
      BY <1>6 DEF LinksWaiting, Commits, Key
    <2>0. /\ Rest(j) /\ UNCHANGED met /\ job[j].at = "resolving" /\ job'[j].at = "done"
          /\ job'[j].note = job[j].note
      BY <1>6 DEF Commits
    <2>1. ASSUME NEW l \in job[j].links, f.title = l.title, f.dst = l.dst, f.src = job[j].note
          PROVE  \/ job'[x.creator].at \in {"read", "failed", "lost"}
                 \/ Overlapped(f.src, x.creator)'
      <3>1. /\ x.creator # j
            /\ job[x.creator].at \in {"read", "failed", "lost"} \/ <<j, x.creator>> \in met
        BY <2>1 DEF LinksLooked
      <3>2. job'[x.creator] = job[x.creator]
        BY <1>0, <2>0, <3>1 DEF Rest
      <3> QED
        BY <2>0, <2>1, <3>1, <3>2 DEF Overlapped
    <2>2. ASSUME NEW e \in edges, Key(f) = Key(e), f.title = e.title, f.src = e.src,
                 Key(e) \in job[j].inbound, f.dst = job[j].note
          PROVE  FALSE
      <3>1. /\ job[j].fresh /\ e.title = job[j].title
            /\ \A y \in notes : y.id = job[j].note => y.title = job[j].title
            /\ \E y \in notes : y.id = job[j].note
        BY <2>0, <2>2 DEF IInv, Held, Sound, Key, Storing
      <3> QED
        BY <1>0, <2>2, <3>1
    <2>3. ASSUME NEW e \in edges, Key(f) = Key(e), f.title = e.title, f.src = e.src, f.dst = e.dst,
                 ~(Key(e) \in job[j].inbound /\ e.dst = 0)
          PROVE  \/ job'[x.creator].at \in {"read", "failed", "lost"} \cup (Indexing \ {"resolving"})
                 \/ /\ job'[x.creator].at = "resolving" /\ f.dst = 0
                    /\ Key(f) \in job'[x.creator].inbound
                 \/ Overlapped(f.src, x.creator)'
      <3>1. \/ job[x.creator].at \in {"read", "failed", "lost"} \cup (Indexing \ {"resolving"})
            \/ /\ job[x.creator].at = "resolving" /\ e.dst = 0
               /\ Key(e) \in job[x.creator].inbound
            \/ Overlapped(e.src, x.creator)
        BY <2>3 DEF LinksWaiting
      <3>2. CASE Overlapped(e.src, x.creator)
        BY <1>0, <1>a, <2>3, <3>2
      <3>3. CASE ~Overlapped(e.src, x.creator)
        <4>1. x.creator # j
          BY <2>0, <2>3, <3>1, <3>3
        <4>2. job'[x.creator] = job[x.creator]
          BY <1>0, <2>0, <4>1 DEF Rest
        <4> QED
          BY <2>3, <3>1, <3>3, <4>2
      <3> QED
        BY <3>2, <3>3
    <2> QED
      BY <1>6, <2>1, <2>2, <2>3, EdgesAfter
  <1>7. ASSUME NEW j \in Job, Drops(j) PROVE LinksWaiting'
    <2> SUFFICES ASSUME NEW f \in edges', NEW x \in notes', f.title = x.title, f.dst # x.id
                 PROVE  \/ job'[x.creator].at \in {"read", "failed", "lost"} \cup (Indexing \ {"resolving"})
                        \/ /\ job'[x.creator].at = "resolving" /\ f.dst = 0
                           /\ Key(f) \in job'[x.creator].inbound
                        \/ Overlapped(f.src, x.creator)'
      BY DEF LinksWaiting, Key
    <2>1. x \in notes /\ x.id # job[j].note /\ Rest(j) /\ job[j].at = "drop"
      BY <1>7 DEF Drops
    <2>2. PICK e \in edges :
             /\ Key(f) = Key(e) /\ f.src = e.src /\ f.title = e.title
             /\ f.dst = IF e.dst = job[j].note THEN 0 ELSE e.dst
      BY <1>7 DEF Drops
    <2>3. x.creator # j
      BY <2>1 DEF CreatorsKnown, Indexing, Storing
    <2>4. job'[x.creator] = job[x.creator]
      BY <1>0, <2>1, <2>3 DEF Rest
    <2>5. e.dst # x.id
      BY <2>1, <2>2
    <2>6. e.dst = 0 => f.dst = 0
      BY <2>2
    <2> QED
      BY <1>0, <1>a, <2>1, <2>2, <2>4, <2>5, <2>6 DEF LinksWaiting
  <1> QED
    BY <1>1, <1>2, <1>3, <1>4, <1>5, <1>6, <1>7, Steps

\* What LinksCurrent says of a note whose writer has ended well.
Excused(n, t) ==
    \E d \in Job : /\ job[d].at = "dropped" /\ job[d].title = t
                   /\ Overlapped(n, d) \/ Overlapped(job[d].note, d)

LinksFit(x) ==
    /\ \A e \in edges : e.src = x.id =>
          e.title \in Links[x.body] \/ <<e.by, x.writer>> \in met
    /\ \A t \in Links[x.body] :
          \/ \E e \in edges : e.src = x.id /\ e.title = t
          \/ Overlapped(x.id, x.writer)
          \/ Excused(x.id, t)

\* A deletion that is done stays so, and so do its overlaps.
LEMMA ExcusedStays ==
  ASSUME IInv, [Next]_vars, NEW n, NEW t, Excused(n, t)
  PROVE  Excused(n, t)'
  <1>1. PICK d \in Job : /\ job[d].at = "dropped" /\ job[d].title = t
                         /\ Overlapped(n, d) \/ Overlapped(job[d].note, d)
    BY DEF Excused
  <1>2. job'[d] = job[d]
    BY <1>1, Grows
  <1>3. PICK m : m = job[d].note
    OBVIOUS
  <1>4. Overlapped(n, d)' \/ Overlapped(m, d)'
    BY <1>1, <1>3, OverlappedStays
  <1>5. job'[d].at = "dropped" /\ job'[d].title = t /\ job'[d].note = m
    BY <1>1, <1>2, <1>3
  <1> QED
    BY <1>4, <1>5 DEF Excused

\* A commit writes the links of the body it read; a deletion drops an edge only
\* after an overlap.
LEMMA LinksKeep ==
  ASSUME IInv, [Next]_vars, OverlapsKnown, WritersKnown, TargetsKnown, BodiesSeen, EdgesSeen,
         LinksAll, LinksLeft, LinksCurrent
  PROVE  LinksCurrent'
  <1>0. /\ \A x \in notes : x.writer \in Job
        /\ \A x, y \in notes : x.id = y.id => x = y
    BY DEF IInv, TypeOK, Notes
  <1>a. \A x \in Settled : LinksFit(x)
    BY DEF LinksCurrent, LinksFit, Excused
  <1>b. /\ \A n : \A d \in Job : Overlapped(n, d) => Overlapped(n, d)'
        /\ \A n, t : Excused(n, t) => Excused(n, t)'
        /\ met \subseteq met'
    BY OverlappedStays, ExcusedStays, Grows
  <1> SUFFICES ASSUME NEW x \in Settled' PROVE LinksFit(x)'
    BY DEF LinksCurrent, LinksFit, Excused
  <1>1. CASE edges' = edges /\ x \in Settled
    <2>1. x.writer \in Job
      BY <1>0, <1>1 DEF Settled
    <2> QED
      BY <1>1, <1>a, <1>b, <2>1 DEF LinksFit
  <1>2. ASSUME NEW j \in Job, Drops(j) PROVE LinksFit(x)'
    <2> DEFINE n == job[j].note
    <2>0. /\ x \in Settled /\ x.writer \in Job /\ x.id # n /\ job[j].at = "drop"
      BY <1>0, <1>2 DEF Drops, Rest, Settled
    <2>1. ASSUME NEW f \in edges', f.src = x.id
          PROVE  f.title \in Links[x.body] \/ <<f.by, x.writer>> \in met'
      BY <1>2, <1>a, <1>b, <2>0, <2>1 DEF Drops, LinksFit
    <2>2. ASSUME NEW t \in Links[x.body]
          PROVE  \/ \E f \in edges' : f.src = x.id /\ f.title = t
                 \/ Overlapped(x.id, x.writer)' \/ Excused(x.id, t)'
      <3>1. CASE Overlapped(x.id, x.writer) \/ Excused(x.id, t)
        BY <1>b, <2>0, <3>1
      <3>2. CASE \E e \in edges : e.src = x.id /\ e.title = t
        <4>1. PICK e \in edges : e.src = x.id /\ e.title = t
          BY <3>2
        <4>2. CASE \E f \in edges' : f.src = e.src /\ f.title = e.title
          BY <4>1, <4>2
        <4>3. CASE e.dst = n /\ Key(e) \notin job[j].oldEdges
          <5>1. Overlapped(x.id, j)' \/ Overlapped(e.dst, j)'
            BY <1>b, <2>0, <4>1, <4>3 DEF LinksLeft, Detaching
          <5>2. n # 0 /\ \A y \in notes : n = y.id => job[j].title = y.title
            BY <2>0 DEF TargetsKnown, Deleting
          <5>3. job[j].title = t
            BY <4>1, <4>3, <5>2, PointsRight
          <5>4. job'[j].at = "dropped" /\ job'[j].title = t /\ job'[j].note = e.dst
            BY <1>2, <4>3, <5>3 DEF Drops
          <5> QED
            BY <5>1, <5>4 DEF Excused
        <4> QED
          BY <1>2, <2>0, <4>1, <4>2, <4>3 DEF Drops
      <3> QED
        BY <1>a, <2>0, <3>1, <3>2 DEF LinksFit
    <2> QED
      BY <2>1, <2>2 DEF LinksFit
  <1>3. ASSUME NEW j \in Job, Commits(j) PROVE LinksFit(x)'
    <2> DEFINE n == job[j].note
    <2>0. /\ job[j].at = "resolving" /\ job'[j].at = "done" /\ job'[j].note = n
          /\ notes' = notes /\ met' = met /\ Rest(j) /\ job[j].at \in Indexing
      BY <1>3 DEF Commits, Indexing, Storing
    <2>a. x \in notes /\ x.writer \in Job /\ (x \in Settled \/ x.writer = j)
      BY <1>0, <2>0 DEF Settled, Rest
    <2>b. \A f \in edges' :
             \/ \E e \in edges : /\ Key(e) \notin job[j].oldEdges
                                 /\ f.src = e.src /\ f.title = e.title /\ f.by = e.by
             \/ f.src = n /\ f.by = j /\ f.title \in Links[job[j].body]
      <3>1. \A l \in job[j].links : l.title \in Links[job[j].body]
        BY DEF IInv, Held, Sound
      <3> QED
        BY <1>3, <3>1, EdgesAfter
    <2>1. CASE x.id # n
      <3>1. x \in Settled
        BY <2>0, <2>a, <2>1 DEF WritersKnown
      <3>2. ASSUME NEW f \in edges', f.src = x.id
            PROVE  f.title \in Links[x.body] \/ <<f.by, x.writer>> \in met'
        BY <1>a, <2>0, <2>b, <2>1, <3>1, <3>2 DEF LinksFit
      <3>3. ASSUME NEW t \in Links[x.body]
            PROVE  \/ \E f \in edges' : f.src = x.id /\ f.title = t
                   \/ Overlapped(x.id, x.writer)' \/ Excused(x.id, t)'
        <4>1. \A e \in edges : e.src = x.id => Key(e) \notin job[j].oldEdges
          BY <2>0, <2>1 DEF EdgesSeen, Key
        <4> QED
          BY <1>3, <1>a, <1>b, <2>a, <3>1, <4>1, EdgesLeft DEF LinksFit
      <3> QED
        BY <3>2, <3>3 DEF LinksFit
    <2>2. CASE x.id = n /\ job[j].body = x.body /\ x.writer = j
      <3>1. ASSUME NEW f \in edges', f.src = x.id
            PROVE  f.title \in Links[x.body] \/ <<f.by, x.writer>> \in met'
        BY <2>0, <2>2, <2>b, <3>1 DEF EdgesSeen
      <3>2. ASSUME NEW t \in Links[x.body]
            PROVE  \E f \in edges' : f.src = x.id /\ f.title = t
        <4>1. PICK l \in job[j].links : l.title = t
          BY <1>3, <2>0, <2>2 DEF LinksAll
        <4> QED
          BY <1>3, <2>2, <4>1, EdgesLeft
      <3> QED
        BY <3>1, <3>2 DEF LinksFit
    <2>3. CASE x.id = n /\ x.writer # j /\ job[j].body = x.body
      <3>1. x \in Settled
        BY <2>a, <2>3
      <3>2. ASSUME NEW f \in edges', f.src = x.id
            PROVE  f.title \in Links[x.body] \/ <<f.by, x.writer>> \in met'
        BY <1>a, <2>0, <2>b, <2>3, <3>1, <3>2 DEF LinksFit
      <3>3. ASSUME NEW t \in Links[x.body]
            PROVE  \E f \in edges' : f.src = x.id /\ f.title = t
        <4>1. PICK l \in job[j].links : l.title = t
          BY <1>3, <2>0, <2>3 DEF LinksAll
        <4> QED
          BY <1>3, <2>3, <4>1, EdgesLeft
      <3> QED
        BY <3>2, <3>3 DEF LinksFit
    <2>4. CASE x.id = n /\ x.writer # j /\ <<j, x.writer>> \in met
      <3>1. x \in Settled
        BY <2>a, <2>4
      <3>2. Overlapped(x.id, x.writer)'
        BY <2>0, <2>4 DEF Overlapped
      <3>3. ASSUME NEW f \in edges', f.src = x.id
            PROVE  f.title \in Links[x.body] \/ <<f.by, x.writer>> \in met'
        BY <1>a, <2>0, <2>b, <2>4, <3>1, <3>3 DEF LinksFit
      <3> QED
        BY <3>2, <3>3 DEF LinksFit
    <2>5. x.id = n /\ x.writer = j => job[j].body = x.body
      BY <2>0, <2>a DEF WritersKnown
    <2>6. x.id = n /\ x.writer # j => job[j].body = x.body \/ <<j, x.writer>> \in met
      <3> SUFFICES ASSUME x.id = n, x.writer # j
                   PROVE  job[j].body = x.body \/ <<j, x.writer>> \in met
        OBVIOUS
      <3>1. job[x.writer].at = "done"
        BY <2>a DEF Settled
      <3> QED
        BY <2>0, <2>a, <3>1 DEF BodiesSeen
    <2> QED
      BY <2>1, <2>2, <2>3, <2>4, <2>5, <2>6
  <1>4. edges' = edges \/ \E j \in Job : Commits(j) \/ Drops(j)
    BY Steps DEF Stops, Begins, Inserts, Updates, Reads, Clears, Advances, Unlinks, Looks, Resolves,
       Detaches
  <1> QED
    BY <1>1, <1>2, <1>3, <1>4, SettledBefore

-----------------------------------------------------------------------------
(* What follows of chunks and links                                        *)

\* All of it together.
Full ==
    /\ IInv /\ OverlapsKnown /\ WritersKnown /\ CreatorsKnown /\ TargetsKnown /\ BodiesSeen
    /\ ChunksSeen /\ EdgesSeen /\ LinksAll /\ LinksLeft /\ LinksLooked /\ LinksWaiting
    /\ ChunksCurrent /\ LinksCurrent

\* Initially there is nothing to relate.
LEMMA InitFull == Init => Full
  <1> SUFFICES ASSUME Init PROVE Full
    OBVIOUS
  <1>1. \A k \in Job : job[k].at = "idle" /\ job[k].links = {}
    BY DEF Init, Idle
  <1>2. OverlapsKnown /\ TargetsKnown /\ LinksAll
    BY <1>1 DEF Init, OverlapsKnown, TargetsKnown, LinksAll, Indexing, Storing, Deleting
  <1>3. EdgesSeen /\ LinksLooked
    BY <1>1 DEF Init, EdgesSeen, LinksLooked
  <1>4. /\ WritersKnown /\ CreatorsKnown /\ BodiesSeen /\ ChunksSeen /\ LinksLeft /\ LinksWaiting
        /\ ChunksCurrent /\ LinksCurrent
    BY DEF Init, WritersKnown, CreatorsKnown, BodiesSeen, ChunksSeen, LinksLeft, LinksWaiting,
       ChunksCurrent, LinksCurrent, Settled
  <1> QED
    BY <1>2, <1>3, <1>4, InitInv DEF Full

\* Every step keeps all of it.
LEMMA NextFull == Full /\ [Next]_vars => Full'
  <1> SUFFICES ASSUME Full, [Next]_vars PROVE Full'
    OBVIOUS
  <1> USE DEF Full
  <1>1. IInv'
    BY NextInv
  <1>2. OverlapsKnown' /\ WritersKnown' /\ CreatorsKnown' /\ TargetsKnown'
    BY OverlapsKeep, WritersKeep, CreatorsKeep, TargetsKeep
  <1>3. BodiesSeen' /\ ChunksSeen' /\ ChunksCurrent'
    BY BodiesKeep, ChunksSeenKeep, ChunksKeep
  <1>4. EdgesSeen' /\ LinksAll' /\ LinksLeft'
    BY EdgesSeenKeep, LinksAllKeep, LinksLeftKeep
  <1>5. LinksLooked' /\ LinksWaiting' /\ LinksCurrent'
    BY LinksLookedKeep, LinksWaitingKeep, LinksKeep
  <1> QED
    BY <1>1, <1>2, <1>3, <1>4, <1>5

\* The invariant with the overlaps holds in every behaviour.
THEOREM FullInductive == Spec => []Full
  <1> QED
    BY InitFull, NextFull, PTL DEF Spec

\* A note whose save has been indexed has the chunks of its body and no others,
\* unless the indexing overlapped that of another save of the note, however many
\* saves and deletions run and whatever becomes of them.
THEOREM ChunksCurrentHolds == Spec => []ChunksCurrent
  <1>1. Full => ChunksCurrent
    BY DEF Full
  <1> QED
    BY <1>1, FullInductive, PTL

\* It has the links of its body and no others, unless the indexing overlapped
\* that of another save of the note, or the deletion of a target ran beside an
\* indexing of either end.
THEOREM LinksCurrentHolds == Spec => []LinksCurrent
  <1>1. Full => LinksCurrent
    BY DEF Full
  <1> QED
    BY <1>1, FullInductive, PTL

\* A link to a note that has been created and indexed leads to it, unless the note
\* with the link was indexed while the other one's creation was.
THEOREM LinksResolvedHolds == Spec => []LinksResolved
  <1>1. Full => LinksResolved
    BY DEF Full, LinksWaiting, LinksResolved, Indexing, Storing
  <1> QED
    BY <1>1, FullInductive, PTL

\* A deletion keeps the links to the deleted note, but those of an indexing of
\* either end that ran beside it.
THEOREM InboundKeptHolds == Spec => InboundKept
  <1> DEFINE Kept(e) == Exists(e.src)' /\ e.dst # 0 /\ ~Exists(e.dst)' =>
          \/ \E f \in edges' : f.src = e.src /\ f.title = e.title
          \/ \E d \in Job : /\ job[d].at = "drop" /\ job[d].note = e.dst
                            /\ Overlapped(e.src, d) \/ Overlapped(e.dst, d)
  <1>1. ASSUME Full, [Next]_vars, NEW e \in edges PROVE Kept(e)
    <2> SUFFICES ASSUME Exists(e.src)', e.dst # 0, ~Exists(e.dst)'
                 PROVE  \/ \E f \in edges' : f.src = e.src /\ f.title = e.title
                        \/ \E d \in Job : /\ job[d].at = "drop" /\ job[d].note = e.dst
                                          /\ Overlapped(e.src, d) \/ Overlapped(e.dst, d)
      OBVIOUS
    <2>0. IInv /\ LinksLeft
      BY <1>1 DEF Full
    <2>1. \E y \in notes : y.id = e.dst
      BY <2>0, PointsRight
    <2>2. ASSUME NEW j \in Job, Drops(j)
          PROVE  \/ \E f \in edges' : f.src = e.src /\ f.title = e.title
                 \/ /\ job[j].at = "drop" /\ job[j].note = e.dst
                    /\ Overlapped(e.src, j) \/ Overlapped(e.dst, j)
      <3>1. e.src # job[j].note /\ job[j].at = "drop"
        BY <2>2 DEF Drops, Exists
      <3>2. \/ e.dst = job[j].note /\ Key(e) \notin job[j].oldEdges
            \/ \E f \in edges' : f.src = e.src /\ f.title = e.title
        BY <2>2, <3>1 DEF Drops
      <3> QED
        BY <2>0, <3>1, <3>2 DEF LinksLeft, Detaching
    <2>3. CASE ~ \E j \in Job : Drops(j)
      <3>1. \A y \in notes : \E z \in notes' : z.id = y.id
        <4>1. \/ Stops
              \/ \E j \in Job : \/ Begins(j) \/ Inserts(j) \/ Updates(j) \/ Reads(j) \/ Clears(j)
                                \/ Advances(j) \/ Unlinks(j) \/ Looks(j) \/ Resolves(j)
                                \/ Commits(j) \/ Detaches(j)
          BY <1>1, <2>0, <2>3, Steps
        <4> QED
          BY <4>1 DEF Stops, Begins, Inserts, Updates, Reads, Clears, Advances, Unlinks, Looks,
             Resolves, Commits, Detaches
      <3> QED
        BY <2>1, <3>1 DEF Exists
    <2> QED
      BY <2>2, <2>3
  <1>2. Full /\ [Next]_vars => [\A e \in edges : Kept(e)]_vars
    BY <1>1
  <1> QED
    BY <1>2, FullInductive, PTL DEF Spec, InboundKept

=============================================================================
