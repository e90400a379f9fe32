----------------------------- MODULE Distilling -----------------------------
(***************************************************************************)
(* Turning a conversation into notes: the candidates the LLM extracts and  *)
(* the note each is matched with (app/routes/distill.py,                   *)
(* app/distill_match.py), the dialog in which the user decides for each    *)
(* whether it becomes a new note or is merged (static/app.js), the preview *)
(* of a merge, and the saves (app/ingest.py).                              *)
(*                                                                         *)
(* A body is the set of the facts in it, one chunk for each; two chunks    *)
(* are close when they state the same fact.  Notes are changed by others   *)
(* between any two statements, calls of the LLM and clicks.  A save is one *)
(* step with its indexing here: NoteIndex has what is between.             *)
(***************************************************************************)
EXTENDS Naturals, FiniteSets, FiniteSetsExt

CONSTANTS
    Rows,     \* how many candidates the LLM can find
    Previews, \* how many previews the user can ask for in each row
    Changes,  \* how often others save or delete a note
    Note, NoNote,
    Title,
    Norm,     \* _norm: what is compared of a title
    Fact, Undefined, \* Undefined: the body "undefined"
    Offers,   \* the candidates that the LLM can find
    Edits,    \* the bodies that others save
    Ratio     \* CONCENTRATION_RATIO, in percent

ASSUME DistillAssumption ==
    /\ {Rows, Previews, Changes, Ratio} \subseteq Nat
    /\ NoNote \notin Note /\ Undefined \in Fact
    /\ Norm \in [Title -> Title]
    /\ Offers \subseteq [title : Title, facts : SUBSET Fact]
    /\ Title # {} /\ \A offer \in Offers : IsFiniteSet(offer.facts)
    /\ Edits \subseteq SUBSET Fact

Row == 1..Rows

VARIABLES
    status,  \* notes: which ids are there, were deleted or have not been given yet
    title,   \* notes: the title of each
    facts,   \* notes: the body of each
    dialog,  \* what the user sees
    cand,    \* distillCands: the candidate of each row
    match,   \* the search for its merge target
    row,     \* what the row shows
    preview, \* the merge previews of each row
    post,    \* the save of a row that is under way
    saved,   \* what the save of each row has done (history)
    writes,  \* how often the body of each note has been written (history)
    changes  \* how often others have changed a note

table == <<status, title, facts>>
screen == <<dialog, cand, row>>
vars == <<table, screen, match, preview, post, saved, writes, changes>>

-----------------------------------------------------------------------------
notes == {n \in Note : status[n] = "there"}

None == [title |-> CHOOSE t \in Title : TRUE, facts |-> {}]

NoMatch == [at |-> "none", left |-> {}, votes |-> [n \in Note |-> 0], target |-> NoNote,
            ever |-> [n \in Note |-> {}]] \* the facts n has had meanwhile (history)

\* text is the textarea. History: whether it is the candidate's own, a merged
\* body or what an error left, which write of the note the preview in it had
\* read, and whether a preview has arrived that was not chosen any more.
NoRow == [choice |-> "none", text |-> {}, shown |-> "own", read |-> 0, late |-> FALSE]

NoPreview == [at |-> "none", sent |-> {}, old |-> {}, read |-> 0]

NoPost == [row |-> 0, into |-> NoNote, text |-> {}]

NotSaved == [how |-> "no", before |-> {}, after |-> {}, writes |-> 0, row |-> NoRow]

Init ==
    /\ status \in [Note -> {"never", "there"}]
    /\ title \in [Note -> Title] /\ facts \in [Note -> Edits \cup {{}}]
    /\ \A m, n \in notes : m # n => title[m] # title[n]
    /\ \A n \in Note \ notes : title[n] = None.title /\ facts[n] = {}
    /\ dialog = "closed"
    /\ cand = [i \in Row |-> None]
    /\ match = [i \in Row |-> NoMatch]
    /\ row = [i \in Row |-> NoRow]
    /\ preview = [i \in Row |-> [p \in 1..Previews |-> NoPreview]]
    /\ post = NoPost
    /\ saved = [i \in Row |-> NotSaved]
    /\ writes = [n \in Note |-> 0]
    /\ changes = 0

-----------------------------------------------------------------------------
(* Candidates and their targets                                            *)

\* distill: the LLM's answer, of which what is no candidate has been dropped; an
\* answer without an array is one without candidates.
Distill ==
    /\ dialog = "closed"
    /\ \E k \in 0..Rows : \E found \in [1..k -> Offers] :
          /\ cand' = [i \in Row |-> IF i <= k THEN found[i] ELSE None]
          /\ match' = [i \in Row |-> [NoMatch EXCEPT !.at = IF i <= k THEN "titles" ELSE "none"]]
          /\ dialog' = IF k = 0 THEN "empty" ELSE "matching"
    /\ UNCHANGED <<table, row, preview, post, saved, writes, changes>>

\* Candidates are matched one after the other.
Turn(i) == dialog = "matching" /\ \A j \in 1..(i - 1) : match[j].at = "done"

\* find_merge_target, the title signal.
CompareTitles(i) ==
    /\ Turn(i) /\ match[i].at = "titles"
    /\ LET same == {n \in notes : Norm[title[n]] = Norm[cand[i].title]}
       IN IF same # {}
          THEN \E n \in same :
                  match' = [match EXCEPT ![i] = [NoMatch EXCEPT !.at = "done", !.target = n]]
          ELSE match' = [match EXCEPT ![i] =
                            [NoMatch EXCEPT !.at = "votes", !.left = cand[i].facts,
                               !.ever = [n \in Note |-> facts[n]]]]
    /\ UNCHANGED <<table, screen, preview, post, saved, writes, changes>>

\* The nearest chunk to one of the candidate's votes for its note, if it is
\* close.
Vote(i) ==
    /\ Turn(i) /\ match[i].at = "votes"
    /\ \E f \in match[i].left :
          LET close == {n \in notes : f \in facts[n]}
              searched == [match[i] EXCEPT !.left = @ \ {f}]
          IN IF close = {} THEN match' = [match EXCEPT ![i] = searched]
             ELSE \E n \in close :
                     match' = [match EXCEPT ![i] = [searched EXCEPT !.votes[n] = @ + 1]]
    /\ UNCHANGED <<table, screen, preview, post, saved, writes, changes>>

\* A fault: the share of the votes, not of the chunks.
Favourites_OfVotes(i) ==
    LET votes == match[i].votes
    IN {n \in Note : /\ votes[n] > 0 /\ \A m \in Note : votes[m] <= votes[n]
                     /\ 100 * votes[n] >= Ratio * SumSet({votes[m] : m \in Note})}

\* The notes with most votes, if these are enough.
Favourites(i) ==
    LET votes == match[i].votes
    IN {n \in Note : /\ votes[n] > 0 /\ \A m \in Note : votes[m] <= votes[n]
                     /\ 100 * votes[n] >= Ratio * Cardinality(cand[i].facts)}

Judge(i) ==
    /\ Turn(i) /\ match[i].at = "votes" /\ match[i].left = {}
    /\ \E n \in IF Favourites(i) = {} THEN {NoNote} ELSE Favourites(i) :
          match' = [match EXCEPT ![i].at = "done", ![i].target = n,
                                 ![i].votes = NoMatch.votes]
    /\ UNCHANGED <<table, screen, preview, post, saved, writes, changes>>

\* The answer reaches the client: every row stands at "new".
Show ==
    /\ dialog = "matching" /\ \A i \in Row : match[i].at \in {"done", "none"}
    /\ row' = [i \in Row |-> IF match[i].at = "none" THEN NoRow
                             ELSE [NoRow EXCEPT !.choice = "new", !.text = cand[i].facts]]
    /\ match' = [i \in Row |-> [NoMatch EXCEPT !.at = match[i].at, !.target = match[i].target]]
    /\ dialog' = "open"
    /\ UNCHANGED <<table, cand, preview, post, saved, writes, changes>>

\* The LLM or the database fails: no candidates.
Fail ==
    /\ dialog = "matching"
    /\ dialog' = "empty"
    /\ UNCHANGED <<table, cand, match, row, preview, post, saved, writes, changes>>

-----------------------------------------------------------------------------
(* Choosing                                                                *)

\* What happens in a row after it was sent has no effect and is left out.
InUse(i) == dialog \in {"open", "saving"} /\ saved[i].how = "no"

\* "merge": a preview is asked for with the text of the row.
ChooseMerge(i, p) ==
    /\ InUse(i) /\ row[i].choice = "new" /\ match[i].target # NoNote
    /\ preview[i][p].at = "none"
    /\ row' = [row EXCEPT ![i].choice = "merge", ![i].late = FALSE]
    /\ preview' = [preview EXCEPT ![i][p] = [NoPreview EXCEPT !.at = "read", !.sent = row[i].text]]
    /\ UNCHANGED <<table, dialog, cand, match, post, saved, writes, changes>>

\* A fault: the text stays as it is.
ChooseNew_Keeps(i) ==
    /\ InUse(i) /\ row[i].choice = "merge"
    /\ row' = [row EXCEPT ![i] = [NoRow EXCEPT !.choice = "new", !.text = row[i].text]]
    /\ UNCHANGED <<table, dialog, cand, match, preview, post, saved, writes, changes>>

\* "new": the candidate's own body is back.
ChooseNew(i) ==
    /\ InUse(i) /\ row[i].choice = "merge"
    /\ row' = [row EXCEPT ![i] = [NoRow EXCEPT !.choice = "new", !.text = cand[i].facts]]
    /\ UNCHANGED <<table, dialog, cand, match, preview, post, saved, writes, changes>>

\* merge_preview reads the note.
ReadTarget(i, p) ==
    /\ InUse(i) /\ preview[i][p].at = "read"
    /\ LET n == match[i].target
       IN preview' = [preview EXCEPT ![i][p].at = IF n \in notes THEN "ask" ELSE "bare",
                                     ![i][p].old = facts[n], ![i][p].read = writes[n]]
    /\ UNCHANGED <<table, screen, match, post, saved, writes, changes>>

\* require_user finds no session any more. Its answer is an error that the
\* client can parse, and has no merged_body, like that for a note that is gone.
Refuse(i, p) ==
    /\ InUse(i) /\ preview[i][p].at = "read"
    /\ preview' = [preview EXCEPT ![i][p].at = "bare"]
    /\ UNCHANGED <<table, screen, match, post, saved, writes, changes>>

\* The first of the two attempts of _ask fails or takes too long.
Retry(i, p) ==
    /\ InUse(i) /\ preview[i][p].at = "ask"
    /\ preview' = [preview EXCEPT ![i][p].at = "askagain"]
    /\ UNCHANGED <<table, screen, match, post, saved, writes, changes>>

\* The second fails, the answer is empty, or a statement fails: what the client
\* gets is no JSON, or nothing; it says so and leaves the text.
FailPreview(i, p) ==
    /\ InUse(i) /\ preview[i][p].at \in {"read", "ask", "askagain"}
    /\ preview' = [preview EXCEPT ![i][p] = [NoPreview EXCEPT !.at = "failed"]]
    /\ UNCHANGED <<table, screen, match, post, saved, writes, changes>>

\* A fault: an answer of the preview is added to nothing.
Arrive_Replaces(i, p) ==
    /\ InUse(i) /\ preview[i][p].at \in {"ask", "askagain", "bare"}
    /\ LET bare == preview[i][p].at = "bare"
       IN row' = [row EXCEPT
             ![i].text = IF bare THEN {Undefined} ELSE preview[i][p].sent,
             ![i].shown = IF bare THEN "error" ELSE "merged",
             ![i].read = preview[i][p].read,
             ![i].late = @ \/ row[i].choice = "new"]
    /\ preview' = [preview EXCEPT ![i][p] = [NoPreview EXCEPT !.at = "over"]]
    /\ UNCHANGED <<table, dialog, cand, match, post, saved, writes, changes>>

\* The merged body, in which the prompt has the LLM keep everything, is put into
\* the row, whatever is chosen there by now; of any JSON without merged_body
\* undefined is, since nobody looks at the status of the answer.
Arrive(i, p) ==
    /\ InUse(i) /\ preview[i][p].at \in {"ask", "askagain", "bare"}
    /\ LET bare == preview[i][p].at = "bare"
       IN row' = [row EXCEPT
             ![i].text = IF bare THEN {Undefined} ELSE preview[i][p].old \cup preview[i][p].sent,
             ![i].shown = IF bare THEN "error" ELSE "merged",
             ![i].read = preview[i][p].read,
             ![i].late = @ \/ row[i].choice = "new"]
    /\ preview' = [preview EXCEPT ![i][p] = [NoPreview EXCEPT !.at = "over"]]
    /\ UNCHANGED <<table, dialog, cand, match, post, saved, writes, changes>>

-----------------------------------------------------------------------------
(* Saving                                                                  *)

Save ==
    /\ dialog = "open" /\ dialog' = "saving"
    /\ UNCHANGED <<table, cand, match, row, preview, post, saved, writes, changes>>

\* The rows are saved in order; one that is not ticked is passed over.
Due(i) ==
    /\ dialog = "saving" /\ post = NoPost
    /\ row[i].choice # "none" /\ saved[i].how = "no"
    /\ \A j \in 1..(i - 1) : saved[j].how # "no"

Forget(i) ==
    /\ row' = [row EXCEPT ![i] = NoRow]
    /\ preview' = [preview EXCEPT ![i] = [p \in 1..Previews |-> NoPreview]]

\* What the row shows now is sent.
Post(i) ==
    /\ Due(i)
    /\ post' = [row |-> i, text |-> row[i].text,
                into |-> IF row[i].choice = "merge" THEN match[i].target ELSE NoNote]
    /\ saved' = [saved EXCEPT ![i] = [NotSaved EXCEPT !.how = "posted", !.row = row[i]]]
    /\ Forget(i)
    /\ UNCHANGED <<table, dialog, cand, match, writes, changes>>

Skip(i) ==
    /\ Due(i)
    /\ saved' = [saved EXCEPT ![i].how = "skipped"]
    /\ Forget(i)
    /\ UNCHANGED <<table, dialog, cand, match, post, writes, changes>>

\* The save has done this. The client does not look at the answer, a failure is
\* passed over; but if the connection is lost the rows that are left stay unsaved.
Done(how, n, before, after) ==
    /\ saved' = [saved EXCEPT ![post.row].how = how, ![post.row].before = before,
                              ![post.row].after = after,
                              ![post.row].writes = IF n \in Note THEN writes[n] ELSE 0]
    /\ writes' = IF n \in Note THEN [writes EXCEPT ![n] = @ + 1] ELSE writes
    /\ post' = NoPost
    /\ dialog' \in {"saving", "stuck"}
    /\ UNCHANGED <<cand, row, match, preview, changes>>

\* _write_note with merge_into: the body is replaced.
MergeInto ==
    /\ post.into \in notes
    /\ facts' = [facts EXCEPT ![post.into] = post.text]
    /\ Done("merged", post.into, facts[post.into], post.text)
    /\ UNCHANGED <<status, title>>

\* The note with the candidate's title, if there is one already.
Namesakes == {n \in notes : title[n] = cand[post.row].title}

\* _write_note without merge_into.
UpdateNote ==
    /\ post # NoPost /\ post.into = NoNote
    /\ \E n \in Namesakes :
          /\ facts' = [facts EXCEPT ![n] = post.text]
          /\ Done("updated", n, facts[n], post.text)
    /\ UNCHANGED <<status, title>>

\* A fault: nobody looks for a note with this title.
CreateNote_Blind ==
    /\ post # NoPost /\ post.into = NoNote
    /\ \E n \in Note :
          /\ status[n] = "never" /\ status' = [status EXCEPT ![n] = "there"]
          /\ title' = [title EXCEPT ![n] = cand[post.row].title]
          /\ facts' = [facts EXCEPT ![n] = post.text]
          /\ Done("created", n, {}, post.text)

CreateNote ==
    /\ post # NoPost /\ post.into = NoNote /\ Namesakes = {}
    /\ \E n \in Note :
          /\ status[n] = "never" /\ status' = [status EXCEPT ![n] = "there"]
          /\ title' = [title EXCEPT ![n] = cand[post.row].title]
          /\ facts' = [facts EXCEPT ![n] = post.text]
          /\ Done("created", n, {}, post.text)

\* The target is gone, or a statement fails.
FailSave ==
    /\ post # NoPost
    /\ Done("failed", NoNote, {}, {})
    /\ UNCHANGED table

Hide ==
    /\ dialog = "saving"
    /\ post = NoPost /\ \A i \in Row : row[i].choice = "none"
    /\ dialog' = "hidden"
    /\ UNCHANGED <<table, cand, row, match, preview, post, saved, writes, changes>>

-----------------------------------------------------------------------------
(* Others                                                                  *)

Ever(now) == match' = [i \in Row |-> [match[i] EXCEPT !.ever =
    [n \in Note |-> IF match[i].at = "votes" THEN @[n] \cup now[n] ELSE @[n]]]]

Change ==
    /\ changes < Changes /\ changes' = changes + 1
    /\ UNCHANGED <<screen, preview, post, saved>>

Rewrite(n, b) ==
    /\ Change
    /\ n \in notes
    /\ facts' = [facts EXCEPT ![n] = b] /\ Ever(facts')
    /\ writes' = [writes EXCEPT ![n] = @ + 1]
    /\ UNCHANGED <<status, title>>

Delete(n) ==
    /\ Change
    /\ n \in notes
    /\ status' = [status EXCEPT ![n] = "gone"]
    /\ title' = [title EXCEPT ![n] = None.title] /\ facts' = [facts EXCEPT ![n] = {}]
    /\ UNCHANGED <<match, writes>>

Decide(i) == ChooseNew(i) \/ \E p \in 1..Previews : ChooseMerge(i, p)

Integrate(i) ==
    \E p \in 1..Previews : \/ ReadTarget(i, p) \/ Refuse(i, p)
                          \/ Retry(i, p) \/ FailPreview(i, p) \/ Arrive(i, p)

Next ==
    \/ Distill \/ Show \/ Fail \/ Save
    \/ \E i \in Row : CompareTitles(i) \/ Vote(i) \/ Judge(i)
    \/ \E i \in Row : Decide(i) \/ Integrate(i) \/ Post(i) \/ Skip(i)
    \/ MergeInto \/ UpdateNote \/ CreateNote \/ FailSave \/ Hide
    \/ \E n \in Note : Delete(n) \/ \E b \in Edits : Rewrite(n, b)

Spec == Init /\ [][Next]_vars

-----------------------------------------------------------------------------
(* Properties                                                              *)

Body == SUBSET Fact

Shown == [choice : {"none", "new", "merge"}, text : Body,
          shown : {"own", "merged", "error"}, read : Nat, late : BOOLEAN]

\* Types, and that no user has two notes of one title.
TypeOK ==
    /\ status \in [Note -> {"never", "there", "gone"}]
    /\ title \in [Note -> Title] /\ facts \in [Note -> Body]
    /\ \A m, n \in notes : m # n => title[m] # title[n]
    /\ dialog \in {"closed", "matching", "empty", "open", "saving", "stuck", "hidden"}
    /\ cand \in [Row -> Offers \cup {None}]
    /\ match \in [Row -> [at : {"none", "titles", "votes", "done"}, left : Body,
                          votes : [Note -> Nat], target : Note \cup {NoNote},
                          ever : [Note -> Body]]]
    /\ row \in [Row -> Shown]
    /\ preview \in [Row -> [1..Previews ->
          [at : {"none", "read", "ask", "askagain", "bare", "failed", "over"},
           sent : Body, old : Body, read : Nat]]]
    /\ post \in [row : Row \cup {0}, into : Note \cup {NoNote}, text : Body]
    /\ saved \in [Row -> [how : {"no", "skipped", "posted", "merged", "updated", "created",
                                 "failed"}, before : Body, after : Body, writes : Nat, row : Shown]]
    /\ writes \in [Note -> Nat]
    /\ changes \in 0..Changes

\* A wrong merge is worse than a duplicate: the note that is offered has the
\* title of the candidate, or has had enough of its facts while they were looked
\* up one by one, whatever others did to the notes meanwhile.
TargetJustified ==
    \A i \in Row :
        LET n == match[i].target IN
        (dialog = "matching" /\ n # NoNote) =>
            \/ n \in notes => Norm[title[n]] = Norm[cand[i].title]
            \/ 100 * Cardinality(match[i].ever[n] \cap cand[i].facts)
                  >= Ratio * Cardinality(cand[i].facts)

\* A merge whose text is a merged body loses something of the note only if the
\* note was written to between the preview's read and the save, by others or by
\* another row of the same dialog; and no merge leaves the candidate out, unless
\* an answer without merged_body has got into a text. (What is exempted does
\* lose: a merge without a preview, or after an error, replaces the note.)
MergeLosesOnlyUnseen ==
    \A i \in Row : saved[i].how = "merged" =>
        /\ (saved[i].row.shown = "merged" /\ saved[i].row.read = saved[i].writes) =>
              saved[i].before \subseteq saved[i].after
        /\ cand[i].facts \subseteq saved[i].after \/ Undefined \in saved[i].after

\* What is saved as a note of its own is the candidate: nothing of a merge that
\* was tried and given up, unless its preview arrived after that.
NewIsCandidate ==
    \A i \in Row :
        (saved[i].how \in {"created", "updated"} /\ ~saved[i].row.late) =>
            saved[i].after = cand[i].facts

=============================================================================
