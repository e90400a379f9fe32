-------------------------- MODULE DistillingProofs --------------------------
(***************************************************************************)
(* Theorems about Distilling for any notes, candidates and previews.       *)
(***************************************************************************)
EXTENDS Distilling, FiniteSetTheorems, TLAPS

Matches == [at : {"none", "titles", "votes", "done"}, left : Body, votes : [Note -> Nat],
            target : Note \cup {NoNote}, ever : [Note -> Body]]

Asked == [at : {"none", "read", "ask", "askagain", "bare", "failed", "over"},
          sent : Body, old : Body, read : Nat]

Saves == [how : {"no", "skipped", "posted", "merged", "updated", "created", "failed"},
          before : Body, after : Body, writes : Nat, row : Shown]

Posts == [row : Row \cup {0}, into : Note \cup {NoNote}, text : Body]

Dialogs == {"closed", "matching", "empty", "open", "saving", "stuck", "hidden"}

Distinct == \A m, n \in notes : m # n => title[m] # title[n]

Bounded == \A i \in Row : IsFiniteSet(cand[i].facts)

-----------------------------------------------------------------------------
(* Types                                                                   *)

\* TypeOK, a table, a dialog and the rest.
Tables == /\ status \in [Note -> {"never", "there", "gone"}]
          /\ title \in [Note -> Title] /\ facts \in [Note -> Body] /\ Distinct

Rest == /\ dialog \in Dialogs /\ cand \in [Row -> Offers \cup {None}]
        /\ match \in [Row -> Matches] /\ row \in [Row -> Shown]
        /\ preview \in [Row -> [1..Previews -> Asked]]
        /\ post \in Posts /\ saved \in [Row -> Saves] /\ changes \in 0..Changes
        /\ writes \in [Note -> Nat]

\* The names stand for what TypeOK says, before and after a step.
LEMMA TypeParts == (TypeOK <=> Tables /\ Rest) /\ (TypeOK' <=> Tables' /\ Rest')
  BY DEF TypeOK, Tables, Rest, Distinct, Matches, Asked, Saves, Posts, Dialogs

\* The empty values have their types.
LEMMA Blanks ==
  /\ None \in [title : Title, facts : Body] /\ NoMatch \in Matches /\ NoRow \in Shown
  /\ NoPreview \in Asked /\ NoPost \in Posts /\ NotSaved \in Saves
  <1>1. None \in [title : Title, facts : Body]
    BY DistillAssumption DEF None, Body
  <1>2. NoMatch \in Matches
    BY DEF NoMatch, Matches, Body
  <1>3. NoRow \in Shown
    BY DEF NoRow, Shown, Body
  <1>4. NoPreview \in Asked
    BY DEF NoPreview, Asked, Body
  <1>5. NoPost \in Posts
    BY DEF NoPost, Posts, Body
  <1>6. NotSaved \in Saves
    BY <1>3 DEF NotSaved, Saves, Body
  <1> QED
    BY <1>1, <1>2, <1>3, <1>4, <1>5, <1>6

\* A candidate is one that was offered or none, and has finitely many facts.
LEMMA CandType ==
  ASSUME TypeOK, NEW i \in Row
  PROVE  cand[i].title \in Title /\ cand[i].facts \in Body /\ IsFiniteSet(cand[i].facts)
  <1>1. cand[i] \in Offers \/ cand[i] = None
    BY DEF TypeOK
  <1>2. CASE cand[i] \in Offers
    BY <1>2, DistillAssumption DEF Body
  <1>3. CASE cand[i] = None
    <2>1. None.facts = {}
      BY DEF None
    <2> QED
      BY <1>3, <2>1, Blanks, FS_EmptySet
  <1> QED
    BY <1>1, <1>2, <1>3

\* Initially the table is any with distinct titles and everything else is blank.
LEMMA InitType == Init => TypeOK
  <1> SUFFICES ASSUME Init PROVE Tables /\ Rest
    BY TypeParts
  <1>1. Tables
    BY DistillAssumption DEF Init, Tables, Distinct, Body
  <1>2. 0 \in 0..Changes
    BY DistillAssumption
  <1> QED
    BY <1>1, <1>2, Blanks DEF Init, Rest, Dialogs
\* The search for a target keeps the types.
LEMMA MatchingTypes ==
  ASSUME TypeOK,
         \/ Distill \/ Show \/ Fail
         \/ \E i \in Row : CompareTitles(i) \/ Vote(i) \/ Judge(i)
  PROVE  TypeOK'
  <1>0. Tables /\ Rest
    BY TypeParts
  <1>1. CASE Distill
    <2>1. PICK k \in 0..Rows : \E found \in [1..k -> Offers] :
            /\ cand' = [i \in Row |-> IF i <= k THEN found[i] ELSE None]
            /\ match' = [i \in Row |-> [NoMatch EXCEPT !.at = IF i <= k THEN "titles" ELSE "none"]]
            /\ dialog' = IF k = 0 THEN "empty" ELSE "matching"
      BY <1>1 DEF Distill
    <2>2. PICK found \in [1..k -> Offers] :
            /\ cand' = [i \in Row |-> IF i <= k THEN found[i] ELSE None]
            /\ match' = [i \in Row |-> [NoMatch EXCEPT !.at = IF i <= k THEN "titles" ELSE "none"]]
            /\ dialog' = IF k = 0 THEN "empty" ELSE "matching"
      BY <2>1
    <2>3. cand' \in [Row -> Offers \cup {None}]
      <3>1. \A i \in Row : i <= k => i \in 1..k
        BY DistillAssumption DEF Row
      <3> QED
        BY <2>2, <3>1
    <2>4. match' \in [Row -> Matches]
      <3>1. \A a \in {"titles", "none"} : [NoMatch EXCEPT !.at = a] \in Matches
        BY Blanks DEF Matches
      <3> QED
        BY <2>2, <3>1
    <2>5. Tables'
      BY <1>0, <1>1 DEF Distill, Tables, table, Distinct, notes
    <2>6. Rest'
      BY <1>0, <1>1, <2>2, <2>3, <2>4 DEF Distill, Rest, Dialogs
    <2> QED
      BY <2>5, <2>6, TypeParts
  <1>2. CASE Show
    <2>1. row' \in [Row -> Shown]
      <3>1. \A i \in Row : cand[i].facts \in Body
        BY CandType
      <3>2. \A i \in Row : [NoRow EXCEPT !.choice = "new", !.text = cand[i].facts] \in Shown
        BY <3>1, Blanks DEF Shown
      <3> QED
        BY <1>2, <3>2, Blanks DEF Show
    <2>2. match' \in [Row -> Matches]
      <3>1. \A i \in Row : match[i] \in Matches
        BY <1>0 DEF Rest
      <3>2. \A i \in Row : [NoMatch EXCEPT !.at = match[i].at, !.target = match[i].target] \in Matches
        BY <3>1, Blanks DEF Matches
      <3> QED
        BY <1>2, <3>2 DEF Show
    <2>3. Tables'
      BY <1>0, <1>2 DEF Show, Tables, table, Distinct, notes
    <2>4. Rest'
      BY <1>0, <1>2, <2>1, <2>2 DEF Show, Rest, Dialogs
    <2> QED
      BY <2>3, <2>4, TypeParts
  <1>3. CASE Fail
    <2>1. Tables'
      BY <1>0, <1>3 DEF Fail, Tables, table, Distinct, notes
    <2>2. Rest'
      BY <1>0, <1>3 DEF Fail, Rest, Dialogs
    <2> QED
      BY <2>1, <2>2, TypeParts
  <1>4. ASSUME NEW i \in Row, CompareTitles(i) \/ Vote(i) \/ Judge(i) PROVE TypeOK'
    <2>1. match[i] \in Matches /\ cand[i].facts \in Body
      BY <1>0, CandType DEF Rest
    <2>2. \E x \in Matches : match' = [match EXCEPT ![i] = x]
      <3>1. CASE CompareTitles(i)
        <4>1. CASE {n \in notes : Norm[title[n]] = Norm[cand[i].title]} # {}
          <5>1. PICK n \in notes :
                   match' = [match EXCEPT ![i] = [NoMatch EXCEPT !.at = "done", !.target = n]]
            BY <3>1, <4>1 DEF CompareTitles
          <5>2. [NoMatch EXCEPT !.at = "done", !.target = n] \in Matches
            BY Blanks DEF Matches, notes
          <5> QED
            BY <5>1, <5>2
        <4>2. CASE {n \in notes : Norm[title[n]] = Norm[cand[i].title]} = {}
          <5>1. match' = [match EXCEPT ![i] = [NoMatch EXCEPT !.at = "votes",
                             !.left = cand[i].facts, !.ever = [n \in Note |-> facts[n]]]]
            BY <3>1, <4>2 DEF CompareTitles
          <5>2. [n \in Note |-> facts[n]] \in [Note -> Body]
            BY <1>0 DEF Tables
          <5>3. [NoMatch EXCEPT !.at = "votes", !.left = cand[i].facts,
                                !.ever = [n \in Note |-> facts[n]]] \in Matches
            BY <2>1, <5>2, Blanks DEF Matches
          <5> QED
            BY <5>1, <5>3
        <4> QED
          BY <4>1, <4>2
      <3>2. CASE Vote(i)
        <4>1. PICK f \in match[i].left :
                LET searched == [match[i] EXCEPT !.left = @ \ {f}]
                IN \/ match' = [match EXCEPT ![i] = searched]
                   \/ \E n \in notes :
                         match' = [match EXCEPT ![i] = [searched EXCEPT !.votes[n] = @ + 1]]
          BY <3>2 DEF Vote
        <4> DEFINE searched == [match[i] EXCEPT !.left = @ \ {f}]
        <4>2. searched \in Matches
          BY <2>1 DEF Matches, Body
        <4>3. ASSUME NEW n \in Note PROVE [searched EXCEPT !.votes[n] = @ + 1] \in Matches
          <5> HIDE DEF searched
          <5>1. searched.votes \in [Note -> Nat]
            BY <4>2 DEF Matches
          <5>2. [searched.votes EXCEPT ![n] = @ + 1] \in [Note -> Nat]
            BY <5>1
          <5>3. [searched EXCEPT !.votes[n] = @ + 1]
                  = [searched EXCEPT !.votes = [searched.votes EXCEPT ![n] = @ + 1]]
            BY <4>2 DEF Matches
          <5> QED
            BY <4>2, <5>2, <5>3 DEF Matches
        <4> QED
          BY <4>1, <4>2, <4>3 DEF notes
      <3>3. CASE Judge(i)
        <4>1. PICK n \in Note \cup {NoNote} :
                match' = [match EXCEPT ![i].at = "done", ![i].target = n, ![i].votes = NoMatch.votes]
          BY <3>3 DEF Judge, Favourites
        <4>2. match' = [match EXCEPT ![i] =
                          [match[i] EXCEPT !.at = "done", !.target = n, !.votes = NoMatch.votes]]
          BY <1>0, <4>1 DEF Rest
        <4>3. [match[i] EXCEPT !.at = "done", !.target = n, !.votes = NoMatch.votes] \in Matches
          BY <2>1, Blanks DEF Matches
        <4> QED
          BY <4>2, <4>3
      <3> QED
        BY <1>4, <3>1, <3>2, <3>3
    <2>3. match' \in [Row -> Matches]
      BY <1>0, <2>2 DEF Rest
    <2>4. UNCHANGED <<status, title, facts, dialog, cand, row, preview, post, saved, writes, changes>>
      BY <1>4 DEF CompareTitles, Vote, Judge, table, screen
    <2>5. Tables'
      BY <1>0, <2>4 DEF Tables, Distinct, notes
    <2>6. Rest'
      BY <1>0, <2>3, <2>4 DEF Rest
    <2> QED
      BY <2>5, <2>6, TypeParts
  <1> QED
    BY <1>1, <1>2, <1>3, <1>4

-----------------------------------------------------------------------------
(* The rows of the dialog                                                  *)

\* Who has votes or is a target has been a note.
Known(i) ==
    /\ \A n \in Note : match[i].votes[n] > 0 => status[n] # "never"
    /\ match[i].target \in Note => status[match[i].target] # "never"

\* Of a body made from what write v of the target has left: if nobody has
\* written since, it has everything that the target has.
Fresh(i, v, text) ==
    match[i].target \in Note =>
        LET n == match[i].target IN
        /\ v \in Nat /\ writes[n] \in Nat /\ v <= writes[n]
        /\ n \in notes /\ v = writes[n] => facts[n] \subseteq text

\* The candidate is not lost before an error has got into the text.
Whole(i, text) == cand[i].facts \subseteq text \/ Undefined \in text

\* A row has the facts of its candidate and those of the preview in it; at "new"
\* it is the candidate, but for late previews.
RowOK(i, r) ==
    r.choice # "none" =>
        /\ Whole(i, r.text)
        /\ r.shown = "merged" => Fresh(i, r.read, r.text)
        /\ r.choice = "new" /\ ~r.late => r.text = cand[i].facts
        /\ r.choice = "merge" => match[i].target \in Note

\* So has what was sent with a preview, and the preview knows what it has read.
PreviewOK(i, q) ==
    /\ q.at \in {"read", "ask", "askagain", "bare"} => match[i].target \in Note /\ Whole(i, q.sent)
    /\ q.at \in {"ask", "askagain"} => Fresh(i, q.read, q.old)

RowInv(i, r, ps) == RowOK(i, r) /\ \A p \in 1..Previews : PreviewOK(i, ps[p])

\* A step in one row of the dialog.
RowStep(i, r, ps) ==
    /\ r \in Shown /\ ps \in [1..Previews -> Asked]
    /\ row' = [row EXCEPT ![i] = r] /\ preview' = [preview EXCEPT ![i] = ps]
    /\ UNCHANGED <<status, title, facts, dialog, cand, match, post, saved, writes, changes>>

\* One preview of a row is replaced.
SetPreview(i, p, q) == preview' = [preview EXCEPT ![i][p] = q]

Replaced(i, p, q, ps) ==
    /\ ps \in [1..Previews -> Asked] /\ preview' = [preview EXCEPT ![i] = ps]
    /\ ps[p] = q /\ \A k \in (1..Previews) \ {p} : ps[k] = preview[i][k]

\* That gives the row a function of its previews.
LEMMA PreviewSet ==
  ASSUME TypeOK, NEW i \in Row, NEW p \in 1..Previews, NEW q \in Asked, SetPreview(i, p, q)
  PROVE  \E ps : Replaced(i, p, q, ps)
  <1>1. preview[i] \in [1..Previews -> Asked] /\ preview \in [Row -> [1..Previews -> Asked]]
    BY TypeParts DEF Rest
  <1> DEFINE ps == [preview[i] EXCEPT ![p] = q]
  <1>2. ps \in [1..Previews -> Asked] /\ ps[p] = q
        /\ \A k \in (1..Previews) \ {p} : ps[k] = preview[i][k]
    BY <1>1
  <1>3. preview' = [preview EXCEPT ![i] = ps]
    BY <1>1 DEF SetPreview
  <1> QED
    BY <1>2, <1>3 DEF Replaced

\* What the user and the previews do to a row is such a step, and keeps it right.
LEMMA RowSteps ==
  ASSUME TypeOK, NEW i \in Row, Known(i), RowInv(i, row[i], preview[i]),
         Decide(i) \/ Integrate(i)
  PROVE  /\ dialog \in {"open", "saving"}
         /\ \E r, ps : RowStep(i, r, ps) /\ RowInv(i, r, ps)
  <1>0. /\ Tables /\ Rest /\ row[i] \in Shown /\ preview[i] \in [1..Previews -> Asked]
        /\ row \in [Row -> Shown] /\ preview \in [Row -> [1..Previews -> Asked]]
        /\ cand[i].facts \in Body /\ match[i] \in Matches
    BY TypeParts, CandType DEF Rest
  <1>1. CASE ChooseNew(i)
    <2> DEFINE r == [NoRow EXCEPT !.choice = "new", !.text = cand[i].facts]
    <2>1. r \in Shown
      BY <1>0, Blanks DEF Shown
    <2>2. r.choice = "new" /\ r.text = cand[i].facts /\ r.shown = "own"
      BY DEF NoRow
    <2>3. RowInv(i, r, preview[i])
      BY <2>2 DEF RowInv, RowOK, Whole
    <2>4. RowStep(i, r, preview[i])
      BY <1>0, <1>1, <2>1 DEF ChooseNew, RowStep, table
    <2>5. dialog \in {"open", "saving"}
      BY <1>1 DEF ChooseNew, InUse
    <2> HIDE DEF r
    <2> QED
      BY <2>3, <2>4, <2>5
  <1>2. ASSUME NEW p \in 1..Previews, ChooseMerge(i, p)
        PROVE  dialog \in {"open", "saving"} /\ \E r, ps : RowStep(i, r, ps) /\ RowInv(i, r, ps)
    <2> DEFINE r == [row[i] EXCEPT !.choice = "merge", !.late = FALSE]
               q == [NoPreview EXCEPT !.at = "read", !.sent = row[i].text]
    <2>1. /\ r \in Shown /\ r.choice = "merge" /\ r.text = row[i].text /\ r.shown = row[i].shown
          /\ r.read = row[i].read
      BY <1>0 DEF Shown
    <2>2. q \in Asked /\ q.at = "read" /\ q.sent = row[i].text
      <3>1. row[i].text \in Body
        BY <1>0 DEF Shown
      <3> QED
        BY <3>1, Blanks DEF Asked
    <2>3. /\ row' = [row EXCEPT ![i] = r] /\ row[i].choice = "new" /\ match[i].target \in Note
          /\ dialog \in {"open", "saving"} /\ SetPreview(i, p, q)
          /\ UNCHANGED <<status, title, facts, dialog, cand, match, post, saved, writes, changes>>
      BY <1>0, <1>2 DEF ChooseMerge, InUse, table, Matches, SetPreview
    <2> HIDE DEF r, q
    <2>4. PICK ps : Replaced(i, p, q, ps)
      BY <2>2, <2>3, PreviewSet
    <2>5. RowOK(i, r) /\ PreviewOK(i, q)
      BY <2>1, <2>2, <2>3 DEF RowInv, RowOK, PreviewOK
    <2>6. RowInv(i, r, ps)
      BY <2>4, <2>5 DEF RowInv, Replaced
    <2> QED
      BY <2>1, <2>3, <2>4, <2>6 DEF RowStep, Replaced
  <1>3. ASSUME NEW p \in 1..Previews,
               \/ ReadTarget(i, p) \/ Refuse(i, p)
               \/ Retry(i, p) \/ FailPreview(i, p) \/ Arrive(i, p)
        PROVE  dialog \in {"open", "saving"} /\ \E r, ps : RowStep(i, r, ps) /\ RowInv(i, r, ps)
    <2>0. preview[i][p] \in Asked /\ PreviewOK(i, preview[i][p]) /\ RowOK(i, row[i])
      BY <1>0 DEF RowInv
    <2>1. ASSUME NEW q \in Asked, NEW r \in Shown, PreviewOK(i, q), RowOK(i, r),
                 dialog \in {"open", "saving"},
                 row' = [row EXCEPT ![i] = r], SetPreview(i, p, q),
                 UNCHANGED <<status, title, facts, dialog, cand, match, post, saved, writes, changes>>
          PROVE  dialog \in {"open", "saving"} /\ \E s, ps : RowStep(i, s, ps) /\ RowInv(i, s, ps)
      <3>1. PICK ps : Replaced(i, p, q, ps)
        BY <2>1, PreviewSet
      <3>2. RowInv(i, r, ps)
        BY <2>0, <2>1, <3>1 DEF RowInv, Replaced
      <3> QED
        BY <2>1, <3>1, <3>2 DEF RowStep, Replaced
    <2>2. CASE ReadTarget(i, p)
      <3> DEFINE n == match[i].target
                 q == [preview[i][p] EXCEPT !.at = IF n \in notes THEN "ask" ELSE "bare",
                                            !.old = facts[n], !.read = writes[n]]
      <3>1. /\ preview[i][p].at = "read" /\ dialog \in {"open", "saving"}
            /\ row' = row
            /\ UNCHANGED <<status, title, facts, dialog, cand, match, post, saved, writes, changes>>
        BY <2>2 DEF ReadTarget, InUse, table, screen
      <3>2. n \in Note /\ status[n] # "never"
        BY <2>0, <3>1 DEF PreviewOK, Known
      <3>3. facts[n] \in Body /\ writes[n] \in Nat
        BY <1>0, <3>2 DEF Tables, Rest
      <3>4. /\ q \in Asked /\ q.sent = preview[i][p].sent /\ q.old = facts[n] /\ q.read = writes[n]
            /\ q.at = IF n \in notes THEN "ask" ELSE "bare"
        BY <2>0, <3>3 DEF Asked
      <3>5. PreviewOK(i, q)
        BY <2>0, <3>1, <3>2, <3>3, <3>4 DEF PreviewOK, Fresh
      <3>6. SetPreview(i, p, q)
        BY <1>0, <2>0, <2>2 DEF ReadTarget, Asked, SetPreview
      <3>7. row' = [row EXCEPT ![i] = row[i]]
        BY <1>0, <3>1
      <3> HIDE DEF q
      <3> QED
        BY <1>0, <2>0, <2>1, <3>1, <3>4, <3>5, <3>6, <3>7
    <2>3. CASE Retry(i, p)
      <3> DEFINE q == [preview[i][p] EXCEPT !.at = "askagain"]
      <3>1. /\ preview[i][p].at = "ask" /\ dialog \in {"open", "saving"} /\ row' = row
            /\ UNCHANGED <<status, title, facts, dialog, cand, match, post, saved, writes, changes>>
        BY <2>3 DEF Retry, InUse, table, screen
      <3>2. /\ q \in Asked /\ q.sent = preview[i][p].sent /\ q.at = "askagain"
            /\ q.read = preview[i][p].read /\ q.old = preview[i][p].old
        BY <2>0 DEF Asked
      <3>3. PreviewOK(i, q)
        BY <2>0, <3>1, <3>2 DEF PreviewOK
      <3>4. SetPreview(i, p, q)
        BY <1>0, <2>0, <2>3 DEF Retry, Asked, SetPreview
      <3>5. row' = [row EXCEPT ![i] = row[i]]
        BY <1>0, <3>1
      <3> HIDE DEF q
      <3> QED
        BY <1>0, <2>0, <2>1, <3>1, <3>2, <3>3, <3>4, <3>5
    <2>4. CASE FailPreview(i, p)
      <3> DEFINE q == [NoPreview EXCEPT !.at = "failed"]
      <3>1. /\ dialog \in {"open", "saving"} /\ row' = row
            /\ SetPreview(i, p, q)
            /\ UNCHANGED <<status, title, facts, dialog, cand, match, post, saved, writes, changes>>
        BY <2>4 DEF FailPreview, InUse, table, screen, SetPreview
      <3>2. q \in Asked /\ q.at = "failed"
        BY Blanks DEF Asked
      <3> HIDE DEF q
      <3>3. PreviewOK(i, q)
        BY <3>2 DEF PreviewOK
      <3>4. row' = [row EXCEPT ![i] = row[i]]
        BY <1>0, <3>1
      <3> QED
        BY <1>0, <2>0, <2>1, <3>1, <3>2, <3>3, <3>4
    <2>5. CASE Arrive(i, p)
      <3> DEFINE bare == preview[i][p].at = "bare"
                 text == IF bare THEN {Undefined} ELSE preview[i][p].old \cup preview[i][p].sent
                 shown == IF bare THEN "error" ELSE "merged"
                 late == row[i].late \/ row[i].choice = "new"
                 r == [row[i] EXCEPT !.text = text, !.shown = shown,
                                     !.read = preview[i][p].read, !.late = late]
                 q == [NoPreview EXCEPT !.at = "over"]
      <3>1. /\ preview[i][p].at \in {"ask", "askagain", "bare"}
            /\ dialog \in {"open", "saving"} /\ SetPreview(i, p, q)
            /\ UNCHANGED <<status, title, facts, dialog, cand, match, post, saved, writes, changes>>
        BY <2>5 DEF Arrive, InUse, table, SetPreview
      <3>2. text \in Body
        BY <2>0, DistillAssumption DEF Asked, Body
      <3>3. late \in BOOLEAN /\ preview[i][p].read \in Nat
        BY <1>0, <2>0 DEF Shown, Asked
      <3>4. /\ r \in Shown /\ r.choice = row[i].choice /\ r.text = text /\ r.shown = shown
            /\ r.read = preview[i][p].read /\ r.late = late
        BY <1>0, <3>2, <3>3 DEF Shown
      <3>5. row' = [row EXCEPT ![i] = r]
        BY <1>0, <2>5 DEF Arrive, Shown
      <3>6. q \in Asked /\ q.at = "over"
        BY Blanks DEF Asked
      <3>7. PreviewOK(i, q)
        BY <3>6 DEF PreviewOK
      <3>8. Whole(i, text) /\ (shown = "merged" => Fresh(i, preview[i][p].read, text))
        BY <2>0, <3>1 DEF PreviewOK, Whole, Fresh
      <3> HIDE DEF r, q, text, shown
      <3>9. RowOK(i, r)
        BY <2>0, <3>4, <3>8 DEF RowOK
      <3> QED
        BY <2>1, <3>1, <3>4, <3>5, <3>6, <3>7, <3>9
    <2>6. CASE Refuse(i, p)
      <3> DEFINE q == [preview[i][p] EXCEPT !.at = "bare"]
      <3>1. /\ preview[i][p].at = "read" /\ dialog \in {"open", "saving"} /\ row' = row
            /\ UNCHANGED <<status, title, facts, dialog, cand, match, post, saved, writes, changes>>
        BY <2>6 DEF Refuse, InUse, table, screen
      <3>2. q \in Asked /\ q.sent = preview[i][p].sent /\ q.at = "bare"
        BY <2>0 DEF Asked
      <3>3. PreviewOK(i, q)
        BY <2>0, <3>1, <3>2 DEF PreviewOK
      <3>4. SetPreview(i, p, q)
        BY <1>0, <2>0, <2>6 DEF Refuse, Asked, SetPreview
      <3>5. row' = [row EXCEPT ![i] = row[i]]
        BY <1>0, <3>1
      <3> HIDE DEF q
      <3> QED
        BY <1>0, <2>0, <2>1, <3>1, <3>2, <3>3, <3>4, <3>5
    <2> QED
      BY <1>3, <2>2, <2>3, <2>4, <2>5, <2>6
  <1> QED
    BY <1>1, <1>2, <1>3 DEF Decide, Integrate

-----------------------------------------------------------------------------
(* The invariant                                                           *)

\* Before the dialog opens nothing is chosen, asked for or saved.
Blank ==
    dialog \in {"closed", "matching", "empty"} =>
        /\ post = NoPost
        /\ \A i \in Row : /\ row[i] = NoRow /\ saved[i] = NotSaved
                          /\ \A p \in 1..Previews : preview[i][p] = NoPreview

Carried == \A i \in Row : Known(i) /\ RowInv(i, row[i], preview[i])

\* The save that is under way sends what its row has shown.
PostOK ==
    post # NoPost =>
        LET r == saved[post.row].row IN
        /\ post.row \in Row /\ r.choice \in {"new", "merge"} /\ RowOK(post.row, r)
        /\ post.text = r.text
        /\ post.into = IF r.choice = "merge" THEN match[post.row].target ELSE NoNote

Voted(i) ==
    match[i].at = "votes" =>
        /\ match[i].left \subseteq cand[i].facts
        /\ \A n \in Note : match[i].votes[n]
              <= Cardinality(match[i].ever[n] \cap (cand[i].facts \ match[i].left))
        /\ \A n \in notes : facts[n] \subseteq match[i].ever[n]

Chosen(i) ==
    LET n == match[i].target IN
    n # NoNote =>
        /\ match[i].at = "done"
        /\ \/ n \in notes => Norm[title[n]] = Norm[cand[i].title]
           \/ 100 * Cardinality(match[i].ever[n] \cap cand[i].facts)
                 >= Ratio * Cardinality(cand[i].facts)

\* While targets are looked for, votes are for facts that a note has had.
Counted == dialog = "matching" => \A i \in Row : Voted(i) /\ Chosen(i)

IInv == /\ TypeOK /\ Blank /\ Carried /\ PostOK /\ Counted
        /\ MergeLosesOnlyUnseen /\ NewIsCandidate

\* Candidates and targets stay as they are, and who writes a body counts it.
Onward ==
    /\ cand' = cand /\ \A i \in Row : match'[i].target = match[i].target
    /\ \A n \in Note :
          \/ writes'[n] = writes[n] + 1
          \/ writes'[n] = writes[n] /\ (n \in notes' => n \in notes /\ facts'[n] = facts[n])

\* Then what a body was made from stays known.
LEMMA FreshStays ==
  ASSUME Onward, NEW i \in Row, NEW v, NEW text, Fresh(i, v, text)
  PROVE  Fresh(i, v, text)'
  <1> SUFFICES ASSUME match[i].target \in Note
               PROVE  LET n == match[i].target IN
                      /\ v \in Nat /\ writes'[n] \in Nat /\ v <= writes'[n]
                      /\ n \in notes' /\ v = writes'[n] => facts'[n] \subseteq text
    BY DEF Onward, Fresh
  <1> DEFINE n == match[i].target
  <1>1. /\ v \in Nat /\ writes[n] \in Nat /\ v <= writes[n]
        /\ n \in notes /\ v = writes[n] => facts[n] \subseteq text
    BY DEF Fresh
  <1>2. CASE writes'[n] = writes[n] + 1
    BY <1>1, <1>2
  <1>3. CASE writes'[n] = writes[n] /\ (n \in notes' => n \in notes /\ facts'[n] = facts[n])
    BY <1>1, <1>3
  <1> QED
    BY <1>2, <1>3 DEF Onward

\* So what is right for a row stays right.
LEMMA RowStays ==
  ASSUME Onward, NEW i \in Row, NEW r, NEW ps, RowInv(i, r, ps), row'[i] = r, preview'[i] = ps
  PROVE  RowInv(i, row[i], preview[i])'
  <1>1. \A text : Whole(i, text) => Whole(i, text)'
    BY DEF Onward, Whole
  <1>2. RowOK(i, row[i])'
    <2>1. r.shown = "merged" /\ Fresh(i, r.read, r.text) => Fresh(i, r.read, r.text)'
      BY FreshStays
    <2> QED
      BY <1>1, <2>1 DEF Onward, RowInv, RowOK
  <1>3. ASSUME NEW p \in 1..Previews PROVE PreviewOK(i, preview[i][p])'
    <2>1. PreviewOK(i, ps[p])
      BY DEF RowInv
    <2>2. Fresh(i, ps[p].read, ps[p].old) => Fresh(i, ps[p].read, ps[p].old)'
      BY FreshStays
    <2> QED
      BY <1>1, <2>1, <2>2 DEF Onward, PreviewOK
  <1> QED
    BY <1>2, <1>3 DEF RowInv

\* So does what is right for the row that is being saved.
LEMMA PostStays == ASSUME Onward, PostOK, UNCHANGED <<post, saved>> PROVE PostOK'
  <1> SUFFICES ASSUME post # NoPost
               PROVE  LET r == saved[post.row].row IN
                      /\ post.row \in Row /\ r.choice \in {"new", "merge"} /\ RowOK(post.row, r)'
                      /\ post.text = r.text
                      /\ post.into = IF r.choice = "merge" THEN match'[post.row].target ELSE NoNote
    BY DEF PostOK
  <1> DEFINE i == post.row
             r == saved[i].row
  <1>1. /\ i \in Row /\ r.choice \in {"new", "merge"} /\ RowOK(i, r) /\ post.text = r.text
        /\ post.into = IF r.choice = "merge" THEN match[i].target ELSE NoNote
    BY DEF PostOK
  <1>2. Fresh(i, r.read, r.text) => Fresh(i, r.read, r.text)'
    BY <1>1, FreshStays
  <1>3. RowOK(i, r)'
    BY <1>1, <1>2 DEF Onward, RowOK, Whole
  <1> QED
    BY <1>1, <1>3 DEF Onward

\* Initially nothing is matched, chosen or saved.
LEMMA InitInv == Init => IInv
  <1> SUFFICES ASSUME Init PROVE IInv
    OBVIOUS
  <1>1. TypeOK
    BY InitType
  <1>2. Blank
    BY DEF Init, Blank
  <1>3. Carried
    <2>1. /\ \A n \in Note : NoMatch.votes[n] = 0
          /\ NoMatch.target = NoNote /\ NoRow.choice = "none" /\ NoPreview.at = "none"
      BY DEF NoMatch, NoRow, NoPreview
    <2>2. \A i \in Row : /\ match[i] = NoMatch /\ row[i] = NoRow
                         /\ \A p \in 1..Previews : preview[i][p] = NoPreview
      BY DEF Init
    <2> QED
      BY <2>1, <2>2, DistillAssumption DEF Carried, Known, RowInv, RowOK, PreviewOK
  <1>4. PostOK /\ Counted
    BY DEF Init, PostOK, Counted
  <1>5. MergeLosesOnlyUnseen /\ NewIsCandidate
    BY DEF Init, MergeLosesOnlyUnseen, NewIsCandidate, NotSaved
  <1> QED
    BY <1>1, <1>2, <1>3, <1>4, <1>5 DEF IInv

\* Choices and previews concern one row.
LEMMA RowKeeps == ASSUME IInv, NEW i \in Row, Decide(i) \/ Integrate(i) PROVE IInv'
  <1>0. TypeOK /\ Tables /\ Rest /\ Carried /\ Known(i) /\ RowInv(i, row[i], preview[i])
    BY TypeParts DEF IInv, Carried
  <1>1. PICK r, ps : RowStep(i, r, ps) /\ RowInv(i, r, ps)
    BY <1>0, RowSteps
  <1>2. dialog \in {"open", "saving"}
    BY <1>0, RowSteps
  <1>3. /\ r \in Shown /\ ps \in [1..Previews -> Asked]
        /\ row' = [row EXCEPT ![i] = r] /\ preview' = [preview EXCEPT ![i] = ps]
        /\ UNCHANGED <<status, title, facts, dialog, cand, match, post, saved, writes, changes>>
    BY <1>1 DEF RowStep
  <1>4. row \in [Row -> Shown] /\ preview \in [Row -> [1..Previews -> Asked]]
    BY <1>0 DEF Rest
  <1>5. TypeOK'
    <2>1. Tables'
      BY <1>0, <1>3 DEF Tables, Distinct, notes
    <2>2. row' \in [Row -> Shown] /\ preview' \in [Row -> [1..Previews -> Asked]]
      BY <1>3, <1>4
    <2>3. Rest'
      BY <1>0, <1>3, <2>2 DEF Rest
    <2> QED
      BY <2>1, <2>3, TypeParts
  <1>6. Blank' /\ Counted'
    BY <1>2, <1>3 DEF Blank, Counted
  <1>7. Onward
    BY <1>3 DEF Onward, notes
  <1>8. Carried'
    <2> SUFFICES ASSUME NEW k \in Row
                 PROVE  Known(k)' /\ RowInv(k, row[k], preview[k])'
      BY DEF Carried
    <2>1. Known(k)'
      BY <1>0, <1>3 DEF Carried, Known
    <2>2. \E s, qs : RowInv(k, s, qs) /\ row'[k] = s /\ preview'[k] = qs
      <3>1. CASE k = i
        BY <1>1, <1>3, <1>4, <3>1
      <3>2. CASE k # i
        BY <1>0, <1>3, <1>4, <3>2 DEF Carried
      <3> QED
        BY <3>1, <3>2
    <2> QED
      BY <1>7, <2>1, <2>2, RowStays
  <1>9. PostOK'
    BY <1>3, <1>7, PostStays DEF IInv
  <1>10. MergeLosesOnlyUnseen' /\ NewIsCandidate'
    BY <1>3 DEF IInv, MergeLosesOnlyUnseen, NewIsCandidate
  <1> QED
    BY <1>5, <1>6, <1>8, <1>9, <1>10 DEF IInv

\* Sending a row empties it; what was sent is what it showed.
LEMMA PostKeeps ==
  ASSUME IInv, (\E i \in Row : Post(i) \/ Skip(i)) \/ Save \/ Hide
  PROVE  IInv'
  <1>0. TypeOK /\ Tables /\ Rest /\ Carried /\ row \in [Row -> Shown] /\ saved \in [Row -> Saves]
        /\ preview \in [Row -> [1..Previews -> Asked]]
    BY TypeParts DEF IInv, Rest
  <1>1. ASSUME NEW i \in Row, Post(i) \/ Skip(i) PROVE IInv'
    <2> DEFINE none == [p \in 1..Previews |-> NoPreview]
    <2>1. /\ dialog = "saving" /\ row[i].choice # "none" /\ saved[i].how = "no" /\ post = NoPost
          /\ row' = [row EXCEPT ![i] = NoRow] /\ preview' = [preview EXCEPT ![i] = none]
          /\ UNCHANGED <<status, title, facts, dialog, cand, match, writes, changes>>
      BY <1>1 DEF Post, Skip, Due, Forget, table
    <2>2. PICK s \in Saves :
            /\ saved' = [saved EXCEPT ![i] = s] /\ s.how \in {"posted", "skipped"}
            /\ \/ post' = post
               \/ /\ s.row = row[i]
                  /\ post' = [row |-> i, text |-> row[i].text,
                              into |-> IF row[i].choice = "merge" THEN match[i].target ELSE NoNote]
      <3>1. saved[i] \in Saves /\ row[i] \in Shown
        BY <1>0
      <3>2. CASE Post(i)
        <4> DEFINE s == [NotSaved EXCEPT !.how = "posted", !.row = row[i]]
        <4>1. s \in Saves /\ s.how = "posted" /\ s.row = row[i]
          BY <3>1, Blanks DEF Saves
        <4>2. saved' = [saved EXCEPT ![i] = s]
          BY <3>2 DEF Post
        <4>3. post' = [row |-> i, text |-> row[i].text,
                       into |-> IF row[i].choice = "merge" THEN match[i].target ELSE NoNote]
          BY <3>2 DEF Post
        <4> HIDE DEF s
        <4> QED
          BY <4>1, <4>2, <4>3
      <3>3. CASE Skip(i)
        <4> DEFINE s == [saved[i] EXCEPT !.how = "skipped"]
        <4>1. s \in Saves /\ s.how = "skipped"
          BY <3>1 DEF Saves
        <4>2. saved' = [saved EXCEPT ![i] = s] /\ post' = post
          BY <1>0, <3>3 DEF Skip
        <4> HIDE DEF s
        <4> QED
          BY <4>1, <4>2
      <3> QED
        BY <1>1, <3>2, <3>3
    <2>3. none \in [1..Previews -> Asked]
      BY Blanks
    <2> HIDE DEF none
    <2>4. TypeOK'
      <3>1. post' \in Posts
        <4>1. row[i].text \in Body /\ match[i].target \in Note \cup {NoNote} /\ post \in Posts
          BY <1>0 DEF Rest, Shown, Matches
        <4> QED
          BY <2>2, <4>1 DEF Posts
      <3>2. /\ row' \in [Row -> Shown] /\ preview' \in [Row -> [1..Previews -> Asked]]
            /\ saved' \in [Row -> Saves]
        BY <1>0, <2>1, <2>2, <2>3, Blanks
      <3>3. Tables' /\ Rest'
        BY <1>0, <2>1, <3>1, <3>2 DEF Tables, Distinct, notes, Rest
      <3> QED
        BY <3>3, TypeParts
    <2>5. Blank' /\ Counted'
      BY <2>1 DEF Blank, Counted
    <2>6. Onward
      BY <2>1 DEF Onward, notes
    <2>7. Carried'
      <3> SUFFICES ASSUME NEW k \in Row
                   PROVE  Known(k)' /\ RowInv(k, row[k], preview[k])'
        BY DEF Carried
      <3>1. Known(k)'
        BY <1>0, <2>1 DEF Carried, Known
      <3>2. \E r, ps : RowInv(k, r, ps) /\ row'[k] = r /\ preview'[k] = ps
        <4>1. CASE k = i
          <5>1. RowOK(i, NoRow)
            BY DEF RowOK, NoRow
          <5>2. PreviewOK(i, NoPreview)
            BY DEF PreviewOK, NoPreview
          <5>3. RowInv(i, NoRow, none)
            BY <5>1, <5>2 DEF RowInv, none
          <5> QED
            BY <1>0, <2>1, <4>1, <5>3
        <4>2. CASE k # i
          BY <1>0, <2>1, <4>2 DEF Carried
        <4> QED
          BY <4>1, <4>2
      <3> QED
        BY <2>6, <3>1, <3>2, RowStays
    <2>8. PostOK'
      <3>1. CASE post' = post
        BY <2>1, <3>1 DEF PostOK
      <3>2. CASE /\ s.row = row[i]
                 /\ post' = [row |-> i, text |-> row[i].text,
                             into |-> IF row[i].choice = "merge" THEN match[i].target ELSE NoNote]
        <4>1. /\ post'.row = i /\ post'.text = row[i].text
              /\ post'.into = IF row[i].choice = "merge" THEN match[i].target ELSE NoNote
          BY <3>2
        <4>2. saved'[i].row = row[i]
          BY <1>0, <2>2, <3>2
        <4>3. row[i].choice \in {"new", "merge"}
          BY <1>0, <2>1 DEF Shown
        <4>4. RowOK(i, row[i])
          BY <1>0 DEF Carried, RowInv
        <4> DEFINE t == saved[i].row
        <4>5. RowOK(i, t)'
          BY <2>1, <4>2, <4>4 DEF RowOK, Whole, Fresh, notes
        <4> QED
          BY <2>1, <4>1, <4>2, <4>3, <4>5 DEF PostOK
      <3> QED
        BY <2>2, <3>1, <3>2
    <2>9. MergeLosesOnlyUnseen' /\ NewIsCandidate'
      BY <1>0, <2>1, <2>2 DEF IInv, MergeLosesOnlyUnseen, NewIsCandidate
    <2> QED
      BY <2>4, <2>5, <2>7, <2>8, <2>9 DEF IInv
  <1>2. CASE Save \/ Hide
    <2>1. /\ dialog \in {"open", "saving"} /\ dialog' \in {"saving", "hidden"}
          /\ UNCHANGED <<status, title, facts, cand, row, match, preview, post, saved, writes, changes>>
      BY <1>2 DEF Save, Hide, table
    <2>2. TypeOK'
      <3>1. Tables' /\ Rest'
        BY <1>0, <2>1 DEF Tables, Distinct, notes, Rest, Dialogs
      <3> QED
        BY <3>1, TypeParts
    <2>3. Blank' /\ Counted'
      BY <2>1 DEF Blank, Counted
    <2>4. Onward
      BY <2>1 DEF Onward, notes
    <2>5. Carried'
      <3> SUFFICES ASSUME NEW k \in Row
                   PROVE  Known(k)' /\ RowInv(k, row[k], preview[k])'
        BY DEF Carried
      <3>1. Known(k)'
        BY <1>0, <2>1 DEF Carried, Known
      <3>2. \E r, ps : RowInv(k, r, ps) /\ row'[k] = r /\ preview'[k] = ps
        BY <1>0, <2>1 DEF Carried
      <3> QED
        BY <2>4, <3>1, <3>2, RowStays
    <2>6. PostOK'
      BY <2>1, <2>4, PostStays DEF IInv
    <2>7. MergeLosesOnlyUnseen' /\ NewIsCandidate'
      BY <2>1 DEF IInv, MergeLosesOnlyUnseen, NewIsCandidate
    <2> QED
      BY <2>2, <2>3, <2>5, <2>6, <2>7 DEF IInv
  <1> QED
    BY <1>1, <1>2

\* A save puts down what was sent; what was sent has what it should have.
LEMMA SavedKeeps ==
  ASSUME IInv, post # NoPost, Tables', Onward, UNCHANGED changes,
         \A n \in Note : status[n] # "never" => status'[n] # "never",
         NEW how \in {"merged", "updated", "created", "failed"},
         NEW before \in Body, NEW after \in Body, NEW n \in Note \cup {NoNote},
         Done(how, n, before, after),
         how = "merged" => after = post.text /\ post.into = n /\ n \in notes /\ before = facts[n],
         how \in {"updated", "created"} => after = post.text /\ post.into = NoNote
  PROVE  IInv'
  <1> DEFINE i == post.row
             r == saved[i].row
             w == IF n \in Note THEN writes[n] ELSE 0
             s == [saved[i] EXCEPT !.how = how, !.before = before, !.after = after, !.writes = w]
  <1>0. /\ TypeOK /\ Tables /\ Rest /\ Carried /\ saved \in [Row -> Saves] /\ i \in Row
        /\ r.choice \in {"new", "merge"} /\ RowOK(i, r) /\ post.text = r.text
        /\ post.into = IF r.choice = "merge" THEN match[i].target ELSE NoNote
    BY TypeParts DEF IInv, Rest, PostOK
  <1>1. /\ dialog' \in {"saving", "stuck"} /\ post' = NoPost
        /\ UNCHANGED <<cand, row, match, preview>> /\ w \in Nat /\ writes' \in [Note -> Nat]
    BY <1>0 DEF Done, Rest
  <1>2. saved' = [saved EXCEPT ![i] = s]
    BY <1>0 DEF Done
  <1>3. /\ s \in Saves /\ s.how = how /\ s.before = before /\ s.after = after /\ s.row = r
        /\ s.writes = w
    BY <1>0, <1>1 DEF Saves
  <1> HIDE DEF s
  <1>4. saved' \in [Row -> Saves] /\ saved'[i] = s /\ \A k \in Row \ {i} : saved'[k] = saved[k]
    BY <1>0, <1>2, <1>3
  <1>5. TypeOK'
    <2>1. Rest'
      BY <1>0, <1>1, <1>4, Blanks DEF Rest, Dialogs
    <2> QED
      BY <2>1, TypeParts
  <1>6. Blank' /\ Counted' /\ PostOK'
    BY <1>1 DEF Blank, Counted, PostOK
  <1>7. Carried'
    <2> SUFFICES ASSUME NEW k \in Row
                 PROVE  Known(k)' /\ RowInv(k, row[k], preview[k])'
      BY DEF Carried
    <2>1. Known(k)'
      BY <1>0, <1>1 DEF Carried, Known
    <2>2. \E x, ps : RowInv(k, x, ps) /\ row'[k] = x /\ preview'[k] = ps
      BY <1>0, <1>1 DEF Carried
    <2> QED
      BY <2>1, <2>2, RowStays
  <1>8. MergeLosesOnlyUnseen'
    <2> SUFFICES ASSUME NEW k \in Row, saved'[k].how = "merged"
                 PROVE  LET t == saved'[k] IN
                        /\ t.row.shown = "merged" /\ t.row.read = t.writes => t.before \subseteq t.after
                        /\ cand[k].facts \subseteq t.after \/ Undefined \in t.after
      BY <1>1 DEF MergeLosesOnlyUnseen
    <2>1. CASE k = i
      <3>1. /\ how = "merged" /\ saved'[k].row = r /\ saved'[k].after = after
            /\ saved'[k].before = before /\ saved'[k].writes = w
        BY <1>3, <1>4, <2>1
      <3>2. after = r.text /\ n \in notes /\ n \in Note /\ post.into = n /\ before = facts[n]
        BY <1>0, <3>1 DEF notes
      <3>3. match[i].target = n
        BY <1>0, <3>2, DistillAssumption
      <3>4. Whole(i, r.text) /\ (r.shown = "merged" => Fresh(i, r.read, r.text))
        BY <1>0 DEF RowOK
      <3> QED
        BY <2>1, <3>1, <3>2, <3>3, <3>4 DEF Whole, Fresh
    <2>2. CASE k # i
      BY <1>4, <2>2 DEF IInv, MergeLosesOnlyUnseen
    <2> QED
      BY <2>1, <2>2
  <1>9. NewIsCandidate'
    <2> SUFFICES ASSUME NEW k \in Row, saved'[k].how \in {"created", "updated"},
                        ~saved'[k].row.late
                 PROVE  saved'[k].after = cand[k].facts
      BY <1>1 DEF NewIsCandidate
    <2>1. CASE k = i
      <3>1. how \in {"created", "updated"} /\ ~r.late /\ saved'[k].after = after
        BY <1>3, <1>4, <2>1
      <3>2. after = r.text /\ r.choice = "new"
        <4>1. post.into = NoNote /\ after = r.text
          BY <1>0, <3>1
        <4> QED
          BY <1>0, <4>1, DistillAssumption DEF RowOK
      <3> QED
        BY <1>0, <2>1, <3>1, <3>2 DEF RowOK
    <2>2. CASE k # i
      BY <1>4, <2>2 DEF IInv, NewIsCandidate
    <2> QED
      BY <2>1, <2>2
  <1> QED
    BY <1>5, <1>6, <1>7, <1>8, <1>9 DEF IInv

\* Each of the four ways a save can end is such a step.
LEMMA SaveKeeps ==
  ASSUME IInv, MergeInto \/ UpdateNote \/ CreateNote \/ FailSave PROVE IInv'
  <1>0. /\ TypeOK /\ Tables /\ Rest /\ status \in [Note -> {"never", "there", "gone"}]
        /\ title \in [Note -> Title] /\ facts \in [Note -> Body] /\ Distinct
        /\ post \in Posts /\ post.text \in Body /\ {} \in Body
        /\ notes = {n \in Note : status[n] = "there"}
    BY TypeParts DEF IInv, Tables, Rest, Posts, Body, notes
  <1>1. CASE MergeInto
    <2>1. /\ post.into \in notes /\ facts' = [facts EXCEPT ![post.into] = post.text]
          /\ Done("merged", post.into, facts[post.into], post.text) /\ UNCHANGED <<status, title>>
      BY <1>1 DEF MergeInto
    <2>2. post # NoPost /\ post.into # NoNote /\ facts[post.into] \in Body /\ post.into \in Note
      BY <1>0, <2>1, DistillAssumption DEF NoPost
    <2>4. Tables'
      BY <1>0, <2>1 DEF Tables, Distinct, notes
    <2>5. Onward /\ UNCHANGED changes
      BY <1>0, <2>1 DEF Onward, Done, notes, Namesakes, Rest
    <2> QED
      BY <1>0, <2>1, <2>2, <2>4, <2>5, SavedKeeps
  <1>2. CASE UpdateNote
    <2>1. PICK n \in Namesakes : /\ post # NoPost /\ post.into = NoNote
                                 /\ facts' = [facts EXCEPT ![n] = post.text]
                                 /\ Done("updated", n, facts[n], post.text)
                                 /\ UNCHANGED <<status, title>>
      BY <1>2 DEF UpdateNote
    <2>2. facts[n] \in Body /\ n \in Note
      BY <1>0, <2>1 DEF Namesakes
    <2>3. Tables'
      BY <1>0, <2>1 DEF Tables, Distinct, notes
    <2>4. Onward /\ UNCHANGED changes
      BY <1>0, <2>1 DEF Onward, Done, notes, Namesakes, Rest
    <2> QED
      BY <1>0, <2>1, <2>2, <2>3, <2>4, SavedKeeps
  <1>3. CASE CreateNote
    <2>1. PICK n \in Note : /\ status[n] = "never" /\ status' = [status EXCEPT ![n] = "there"]
                            /\ title' = [title EXCEPT ![n] = cand[post.row].title]
                            /\ facts' = [facts EXCEPT ![n] = post.text]
                            /\ Done("created", n, {}, post.text)
      BY <1>3 DEF CreateNote
    <2>2. /\ post # NoPost /\ post.into = NoNote /\ Namesakes = {}
      BY <1>3 DEF CreateNote
    <2>3. cand[post.row].title \in Title
      <3>1. post.row \in Row
        BY <2>2 DEF IInv, PostOK
      <3> QED
        BY <1>0, <3>1, CandType
    <2>4. Distinct'
      <3>1. \A m \in notes' : m = n \/ m \in notes
        BY <1>0, <2>1 DEF notes
      <3>2. \A m \in notes : title[m] # cand[post.row].title
        BY <2>2 DEF Namesakes
      <3>3. n \notin notes
        BY <1>0, <2>1
      <3> QED
        BY <1>0, <2>1, <3>1, <3>2, <3>3 DEF Distinct
    <2>5. Tables'
      BY <1>0, <2>1, <2>3, <2>4 DEF Tables
    <2>6. Onward /\ UNCHANGED changes
      BY <1>0, <2>1, <2>2 DEF Onward, Done, notes, Rest
    <2>7. \A m \in Note : status[m] # "never" => status'[m] # "never"
      BY <1>0, <2>1
    <2> QED
      BY <1>0, <2>1, <2>2, <2>5, <2>6, <2>7, SavedKeeps
  <1>4. CASE FailSave
    <2>1. post # NoPost /\ Done("failed", NoNote, {}, {}) /\ UNCHANGED <<status, title, facts>>
      BY <1>4 DEF FailSave, table
    <2>2. Tables'
      BY <1>0, <2>1 DEF Tables, Distinct, notes
    <2>3. Onward /\ UNCHANGED changes
      BY <1>0, <2>1 DEF Onward, Done, notes, Namesakes, Rest
    <2> QED
      BY <1>0, <2>1, <2>2, <2>3, SavedKeeps
  <1> QED
    BY <1>1, <1>2, <1>3, <1>4

\* More facts are at least as many.
LEMMA AtLeast ==
  ASSUME NEW A, NEW B, IsFiniteSet(B), A \subseteq B
  PROVE  Cardinality(A) \in Nat /\ Cardinality(B) \in Nat /\ Cardinality(A) <= Cardinality(B)
  BY FS_Subset, FS_CardinalityType

\* What a change of a note leaves as it was.
Moved ==
    /\ match' \in [Row -> Matches] /\ Tables' /\ writes' \in [Note -> Nat]
    /\ \A m \in Note : \/ writes'[m] = writes[m] + 1
                       \/ writes'[m] = writes[m] /\ (m \in notes' => facts'[m] = facts[m])
    /\ \A m \in Note : /\ status[m] = "gone" => status'[m] = "gone"
                       /\ status[m] # "never" => status'[m] # "never"
    /\ \A m \in notes' : m \in notes /\ title'[m] = title[m]
    /\ \A i \in Row :
         /\ match'[i].target = match[i].target /\ match'[i].at = match[i].at
         /\ match'[i].votes = match[i].votes /\ match'[i].left = match[i].left
         /\ match[i].at # "votes" => match'[i].ever = match[i].ever
         /\ match[i].at = "votes" =>
               /\ \A m \in Note : match[i].ever[m] \subseteq match'[i].ever[m]
               /\ \A m \in notes' : facts'[m] = facts[m] \/ facts'[m] \subseteq match'[i].ever[m]

\* Others change a note or delete it; none comes back.
LEMMA OthersKeep ==
  ASSUME IInv, NEW n \in Note, Delete(n) \/ \E b \in Edits : Rewrite(n, b)
  PROVE  IInv'
  <1>0. /\ TypeOK /\ Tables /\ Rest /\ Carried /\ Counted
        /\ status \in [Note -> {"never", "there", "gone"}]
        /\ title \in [Note -> Title] /\ facts \in [Note -> Body] /\ Distinct
        /\ match \in [Row -> Matches] /\ changes \in 0..Changes /\ Changes \in Nat
        /\ writes \in [Note -> Nat]
    BY TypeParts, DistillAssumption DEF IInv, Tables, Rest
  <1>1. /\ changes < Changes /\ changes' = changes + 1 /\ n \in notes
        /\ UNCHANGED <<dialog, cand, row, preview, post, saved>>
    BY DEF Delete, Rewrite, Change, screen
  <1>2. changes' \in 0..Changes
    BY <1>0, <1>1
  <1>3. Moved
    <2>1. CASE Delete(n)
      <3>1. /\ status' = [status EXCEPT ![n] = "gone"]
            /\ title' = [title EXCEPT ![n] = None.title] /\ facts' = [facts EXCEPT ![n] = {}]
            /\ match' = match /\ writes' = writes
        BY <2>1 DEF Delete
      <3>2. None.title \in Title /\ {} \in Body
        BY Blanks DEF Body
      <3>3. \A m \in notes' : m \in notes /\ m # n /\ title'[m] = title[m] /\ facts'[m] = facts[m]
        BY <1>0, <3>1 DEF notes
      <3>4. Tables'
        BY <1>0, <3>1, <3>2, <3>3 DEF Tables, Distinct
      <3> QED
        BY <1>0, <1>1, <3>1, <3>3, <3>4 DEF Moved, notes
    <2>2. ASSUME NEW b \in Edits, Rewrite(n, b) PROVE Moved
      <3> DEFINE x(i) == [match[i] EXCEPT !.ever =
                    [m \in Note |-> IF match[i].at = "votes" THEN match[i].ever[m] \cup facts'[m]
                                    ELSE match[i].ever[m]]]
      <3>1. /\ facts' = [facts EXCEPT ![n] = b] /\ status' = status /\ title' = title
            /\ match' = [i \in Row |-> x(i)] /\ writes' = [writes EXCEPT ![n] = @ + 1]
        BY <2>2 DEF Rewrite, Ever
      <3>2. b \in Body
        BY DistillAssumption DEF Body
      <3>3. facts' \in [Note -> Body]
        BY <1>0, <3>1, <3>2
      <3>4. Tables'
        BY <1>0, <3>1, <3>3 DEF Tables, Distinct, notes
      <3>5. ASSUME NEW i \in Row
            PROVE  /\ x(i) \in Matches /\ x(i).target = match[i].target /\ x(i).at = match[i].at
                   /\ x(i).votes = match[i].votes /\ x(i).left = match[i].left
                   /\ match[i].at # "votes" => x(i).ever = match[i].ever
                   /\ match[i].at = "votes" =>
                        \A m \in Note : x(i).ever[m] = match[i].ever[m] \cup facts'[m]
        <4> DEFINE e == [m \in Note |-> IF match[i].at = "votes" THEN match[i].ever[m] \cup facts'[m]
                                        ELSE match[i].ever[m]]
        <4>1. match[i] \in Matches /\ match[i].ever \in [Note -> Body]
          BY <1>0 DEF Matches
        <4>2. e \in [Note -> Body]
          BY <3>3, <4>1 DEF Body
        <4>3. match[i].at # "votes" => e = match[i].ever
          BY <4>1
        <4>4. match[i].at = "votes" => \A m \in Note : e[m] = match[i].ever[m] \cup facts'[m]
          OBVIOUS
        <4>5. x(i) = [match[i] EXCEPT !.ever = e]
          OBVIOUS
        <4> HIDE DEF e, x
        <4> QED
          BY <4>1, <4>2, <4>3, <4>4, <4>5 DEF Matches
      <3> HIDE DEF x
      <3>6. notes' = notes /\ notes \subseteq Note
        BY <3>1 DEF notes
      <3>7. /\ writes' \in [Note -> Nat]
            /\ \A m \in Note : \/ writes'[m] = writes[m] + 1
                               \/ writes'[m] = writes[m] /\ facts'[m] = facts[m]
        BY <1>0, <3>1
      <3> QED
        BY <3>1, <3>4, <3>5, <3>6, <3>7 DEF Moved
    <2> QED
      BY <2>1, <2>2
  <1>4. TypeOK'
    <2>1. Rest'
      BY <1>0, <1>1, <1>2, <1>3 DEF Rest, Moved
    <2> QED
      BY <1>3, <2>1, TypeParts DEF Moved
  <1>5. Onward
    BY <1>1, <1>3 DEF Onward, Moved
  <1>6. Blank' /\ PostOK'
    BY <1>1, <1>5, PostStays DEF IInv, Blank
  <1>7. Carried'
    <2> SUFFICES ASSUME NEW k \in Row
                 PROVE  Known(k)' /\ RowInv(k, row[k], preview[k])'
      BY DEF Carried
    <2>1. Known(k)'
      BY <1>0, <1>3 DEF Carried, Known, Moved
    <2>2. \E x, ps : RowInv(k, x, ps) /\ row'[k] = x /\ preview'[k] = ps
      BY <1>0, <1>1 DEF Carried
    <2> QED
      BY <1>5, <2>1, <2>2, RowStays
  <1>8. Counted'
    <2> SUFFICES ASSUME dialog = "matching", NEW i \in Row PROVE Voted(i)' /\ Chosen(i)'
      BY <1>1 DEF Counted
    <2>1. /\ Voted(i) /\ Chosen(i) /\ IsFiniteSet(cand[i].facts) /\ match[i] \in Matches
          /\ match'[i] \in Matches
      BY <1>0, <1>3, CandType DEF Counted, Moved
    <2>2. Voted(i)'
      <3> SUFFICES ASSUME match[i].at = "votes"
                   PROVE  /\ \A m \in Note : match[i].votes[m]
                               <= Cardinality(match'[i].ever[m] \cap (cand[i].facts \ match[i].left))
                          /\ \A m \in notes' : facts'[m] \subseteq match'[i].ever[m]
        BY <1>1, <1>3, <2>1 DEF Voted, Moved
      <3>1. ASSUME NEW m \in Note
            PROVE  match[i].votes[m]
                     <= Cardinality(match'[i].ever[m] \cap (cand[i].facts \ match[i].left))
        <4> DEFINE A == match[i].ever[m] \cap (cand[i].facts \ match[i].left)
                   B == match'[i].ever[m] \cap (cand[i].facts \ match[i].left)
        <4>1. A \subseteq B
          BY <1>3 DEF Moved
        <4>2. IsFiniteSet(B)
          BY <2>1, FS_Subset
        <4>3. match[i].votes[m] \in Nat /\ match[i].votes[m] <= Cardinality(A)
          BY <2>1 DEF Voted, Matches
        <4>4. Cardinality(A) \in Nat /\ Cardinality(B) \in Nat /\ Cardinality(A) <= Cardinality(B)
          BY <4>1, <4>2, AtLeast
        <4> HIDE DEF A, B
        <4>5. match[i].votes[m] <= Cardinality(B)
          BY <4>3, <4>4
        <4> QED
          BY <4>5 DEF B
      <3>2. \A m \in notes' : facts'[m] \subseteq match'[i].ever[m]
        <4>1. \A m \in notes' : m \in notes /\ m \in Note
          BY <1>3 DEF notes, Moved
        <4> QED
          BY <1>3, <2>1, <4>1 DEF Voted, Moved
      <3> QED
        BY <3>1, <3>2
    <2>3. Chosen(i)'
      <3>1. /\ match'[i].target = match[i].target /\ match'[i].at = match[i].at
            /\ match[i].at # "votes" => match'[i].ever = match[i].ever
            /\ \A m \in notes' : m \in notes /\ title'[m] = title[m]
        BY <1>3 DEF Moved
      <3>2. cand' = cand /\ ("done" # "votes")
        BY <1>1
      <3> QED
        BY <2>1, <3>1, <3>2 DEF Chosen
    <2> QED
      BY <2>2, <2>3
  <1>9. MergeLosesOnlyUnseen' /\ NewIsCandidate'
    BY <1>1 DEF IInv, MergeLosesOnlyUnseen, NewIsCandidate
  <1> QED
    BY <1>4, <1>6, <1>7, <1>8, <1>9 DEF IInv

\* A step of the search disturbs nothing of the dialog, which is blank.
LEMMA SearchKeeps ==
  ASSUME IInv, TypeOK', dialog \in {"closed", "matching"}, dialog' \in {"matching", "empty"},
         UNCHANGED <<row, preview, post, saved>>, Counted', \A i \in Row : Known(i)'
  PROVE  IInv'
  <1>1. /\ post = NoPost
        /\ \A i \in Row : /\ row[i] = NoRow /\ saved[i] = NotSaved
                          /\ \A p \in 1..Previews : preview[i][p] = NoPreview
    BY DEF IInv, Blank
  <1>2. Blank' /\ PostOK'
    BY <1>1 DEF Blank, PostOK
  <1>3. NoRow.choice = "none" /\ NoPreview.at = "none" /\ NotSaved.how = "no"
    BY DEF NoRow, NoPreview, NotSaved
  <1>4. Carried'
    BY <1>1, <1>3 DEF Carried, RowInv, RowOK, PreviewOK
  <1>5. MergeLosesOnlyUnseen' /\ NewIsCandidate'
    BY <1>1, <1>3 DEF MergeLosesOnlyUnseen, NewIsCandidate
  <1> QED
    BY <1>2, <1>4, <1>5 DEF IInv

\* One candidate is looked at; the others are as they were.
LEMMA SearchOne ==
  ASSUME IInv, TypeOK', NEW i \in Row, dialog = "matching", NEW x, match' = [match EXCEPT ![i] = x],
         UNCHANGED <<status, title, facts, dialog, cand, row, preview, post, saved>>,
         Known(i)', Voted(i)', Chosen(i)'
  PROVE  IInv'
  <1>1. match \in [Row -> Matches] /\ Counted /\ Carried
    BY TypeParts DEF IInv, Rest
  <1>2. match'[i] = x /\ \A k \in Row \ {i} : match'[k] = match[k]
    BY <1>1
  <1>3. ASSUME NEW k \in Row PROVE Known(k)' /\ Voted(k)' /\ Chosen(k)'
    <2>1. CASE k = i
      BY <2>1
    <2>2. CASE k # i
      BY <1>1, <1>2, <2>2 DEF Carried, Counted, Known, Voted, Chosen, notes
    <2> QED
      BY <2>1, <2>2
  <1>4. Counted'
    BY <1>3 DEF Counted
  <1> QED
    BY <1>3, <1>4, SearchKeeps

\* The title decides, or the facts of the notes now are what votes can be for.
LEMMA CompareKeeps == ASSUME IInv, NEW i \in Row, CompareTitles(i) PROVE IInv'
  <1>0. TypeOK /\ TypeOK' /\ Tables /\ Rest /\ match \in [Row -> Matches]
    BY TypeParts, MatchingTypes DEF IInv, Rest
  <1>1. /\ dialog = "matching"
        /\ UNCHANGED <<status, title, facts, dialog, cand, row, preview, post, saved>>
    BY DEF CompareTitles, Turn, table, screen
  <1>2. NoMatch.target = NoNote /\ \A n \in Note : NoMatch.votes[n] = 0
    BY DEF NoMatch
  <1>3. CASE {n \in notes : Norm[title[n]] = Norm[cand[i].title]} # {}
    <2>1. PICK n \in notes : /\ Norm[title[n]] = Norm[cand[i].title]
                             /\ match' = [match EXCEPT ![i] = [NoMatch EXCEPT !.at = "done", !.target = n]]
      BY <1>3 DEF CompareTitles
    <2> DEFINE x == [NoMatch EXCEPT !.at = "done", !.target = n]
    <2>2. x.at = "done" /\ x.target = n /\ x.votes = NoMatch.votes
      BY DEF NoMatch
    <2>3. match' = [match EXCEPT ![i] = x]
      BY <2>1
    <2> HIDE DEF x
    <2>4. match'[i] = x
      BY <1>0, <2>3
    <2>5. Known(i)' /\ Voted(i)'
      BY <1>1, <1>2, <2>1, <2>2, <2>4 DEF Known, Voted, notes
    <2>6. Chosen(i)'
      BY <1>1, <2>1, <2>2, <2>4 DEF Chosen
    <2> QED
      BY <1>0, <1>1, <2>3, <2>5, <2>6, SearchOne
  <1>4. CASE {n \in notes : Norm[title[n]] = Norm[cand[i].title]} = {}
    <2> DEFINE x == [NoMatch EXCEPT !.at = "votes", !.left = cand[i].facts,
                                    !.ever = [n \in Note |-> facts[n]]]
    <2>1. match' = [match EXCEPT ![i] = x]
      BY <1>4 DEF CompareTitles
    <2>2. /\ x.at = "votes" /\ x.left = cand[i].facts /\ x.ever = [n \in Note |-> facts[n]]
          /\ x.votes = NoMatch.votes /\ x.target = NoMatch.target
      BY DEF NoMatch
    <2> HIDE DEF x
    <2>3. match'[i] = x
      BY <1>0, <2>1
    <2>4. Known(i)' /\ Chosen(i)'
      BY <1>1, <1>2, <2>2, <2>3, DistillAssumption DEF Known, Chosen
    <2>5. Voted(i)'
      <3>1. \A n \in Note : x.ever[n] \cap (cand[i].facts \ x.left) = {}
        BY <2>2
      <3>2. \A n \in Note : x.votes[n] <= Cardinality(x.ever[n] \cap (cand[i].facts \ x.left))
        BY <1>2, <2>2, <3>1, FS_EmptySet
      <3> QED
        BY <1>1, <2>2, <2>3, <3>2 DEF Voted, notes
    <2> QED
      BY <1>0, <1>1, <2>1, <2>4, <2>5, SearchOne
  <1> QED
    BY <1>3, <1>4

\* What a vote does to a search: one fact less, at most one vote more.
VotedFor(i, f, x) ==
    /\ match' = [match EXCEPT ![i] = x]
    /\ x.at = "votes" /\ x.left = match[i].left \ {f} /\ x.ever = match[i].ever
    /\ x.target = match[i].target
    /\ \A n \in Note :
          \/ x.votes[n] = match[i].votes[n]
          \/ n \in notes /\ f \in facts[n] /\ x.votes[n] = match[i].votes[n] + 1

OneVote(i, f) == \E x : VotedFor(i, f, x)

\* A vote is for a fact that the note has now.
LEMMA VoteKeeps == ASSUME IInv, NEW i \in Row, Vote(i) PROVE IInv'
  <1>0. /\ TypeOK /\ TypeOK' /\ Tables /\ Rest /\ match \in [Row -> Matches] /\ match[i] \in Matches
        /\ IsFiniteSet(cand[i].facts)
    BY TypeParts, MatchingTypes, CandType DEF IInv, Rest
  <1>1. /\ dialog = "matching" /\ match[i].at = "votes"
        /\ UNCHANGED <<status, title, facts, dialog, cand, row, preview, post, saved>>
    BY DEF Vote, Turn, table, screen
  <1>2. Voted(i) /\ Chosen(i) /\ Known(i)
    BY <1>1 DEF IInv, Counted, Carried
  <1>3. PICK f \in match[i].left :
          LET searched == [match[i] EXCEPT !.left = @ \ {f}]
          IN \/ match' = [match EXCEPT ![i] = searched]
             \/ \E n \in {m \in notes : f \in facts[m]} :
                   match' = [match EXCEPT ![i] = [searched EXCEPT !.votes[n] = @ + 1]]
    BY DEF Vote
  <1> DEFINE left == match[i].left \ {f}
             A(n) == match[i].ever[n] \cap (cand[i].facts \ match[i].left)
             B(n) == match[i].ever[n] \cap (cand[i].facts \ left)
  <1>4. \A n \in Note : match[i].votes[n] \in Nat /\ match[i].votes[n] <= Cardinality(A(n))
    BY <1>0, <1>1, <1>2 DEF Voted, Matches
  <1>5. ASSUME NEW n \in Note
        PROVE  /\ Cardinality(A(n)) \in Nat /\ Cardinality(B(n)) \in Nat
               /\ Cardinality(A(n)) <= Cardinality(B(n))
               /\ f \in match[i].ever[n] => Cardinality(B(n)) = Cardinality(A(n)) + 1
    <2>1. A(n) \subseteq B(n) /\ f \notin A(n)
      BY <1>3
    <2>2. IsFiniteSet(B(n)) /\ IsFiniteSet(A(n))
      BY <1>0, FS_Subset
    <2>3. f \in match[i].ever[n] => B(n) = A(n) \cup {f}
      <3>1. f \in cand[i].facts
        BY <1>1, <1>2, <1>3 DEF Voted
      <3> QED
        BY <3>1
    <2> HIDE DEF A, B
    <2>4. f \in match[i].ever[n] => Cardinality(B(n)) = Cardinality(A(n)) + 1
      BY <2>1, <2>2, <2>3, FS_AddElement
    <2> QED
      BY <2>1, <2>2, <2>4, AtLeast
  <1>6. OneVote(i, f)
    <2> DEFINE searched == [match[i] EXCEPT !.left = @ \ {f}]
    <2>1. /\ searched.at = "votes" /\ searched.left = left /\ searched.ever = match[i].ever
          /\ searched.target = match[i].target /\ searched.votes = match[i].votes
          /\ searched \in Matches
      BY <1>0, <1>1 DEF Matches, Body
    <2>2. CASE match' = [match EXCEPT ![i] = searched]
      BY <2>1, <2>2 DEF OneVote, VotedFor
    <2>3. ASSUME NEW n \in notes, f \in facts[n],
                 match' = [match EXCEPT ![i] = [searched EXCEPT !.votes[n] = @ + 1]]
          PROVE  OneVote(i, f)
      <3> DEFINE v == [searched.votes EXCEPT ![n] = @ + 1]
                 x == [searched EXCEPT !.votes = v]
      <3> HIDE DEF searched
      <3>1. x = [searched EXCEPT !.votes[n] = @ + 1]
        BY <2>1 DEF Matches
      <3>2. /\ x.at = "votes" /\ x.left = left /\ x.ever = match[i].ever
            /\ x.target = match[i].target /\ x.votes = v
        BY <2>1 DEF Matches
      <3>3. \A m \in Note : v[m] = IF m = n THEN match[i].votes[m] + 1 ELSE match[i].votes[m]
        BY <2>1 DEF Matches
      <3>4. match' = [match EXCEPT ![i] = x]
        BY <2>3, <3>1, Zenon
      <3> HIDE DEF x, v
      <3>5. VotedFor(i, f, x)
        BY <2>3, <3>2, <3>3, <3>4 DEF VotedFor
      <3> QED
        BY <3>5 DEF OneVote
    <2> QED
      BY <1>3, <2>2, <2>3
  <1>7. PICK x : VotedFor(i, f, x)
    BY <1>6 DEF OneVote
  <1>8. match'[i] = x
    BY <1>0, <1>7 DEF VotedFor
  <1>9. Known(i)'
    BY <1>1, <1>2, <1>7, <1>8 DEF Known, notes, VotedFor
  <1>10. Chosen(i)'
    BY <1>1, <1>2, <1>7, <1>8 DEF Chosen, VotedFor
  <1>11. Voted(i)'
    <2>1. \A n \in Note : f \in facts[n] /\ n \in notes => f \in match[i].ever[n]
      BY <1>1, <1>2 DEF Voted
    <2>2. \A n \in Note : x.votes[n] <= Cardinality(B(n))
      <3> HIDE DEF A, B
      <3> QED
        BY <1>4, <1>5, <1>7, <2>1 DEF VotedFor
    <2>3. left \subseteq cand[i].facts /\ \A n \in notes : facts[n] \subseteq match[i].ever[n]
      BY <1>1, <1>2 DEF Voted
    <2> QED
      BY <1>1, <1>7, <1>8, <2>2, <2>3 DEF Voted, notes, VotedFor
  <1> QED
    BY <1>0, <1>1, <1>7, <1>9, <1>10, <1>11, SearchOne DEF VotedFor

\* A favourite has had a fact for each of its votes.
LEMMA JudgeKeeps == ASSUME IInv, NEW i \in Row, Judge(i) PROVE IInv'
  <1>0. /\ TypeOK /\ TypeOK' /\ Tables /\ Rest /\ match \in [Row -> Matches] /\ match[i] \in Matches
        /\ IsFiniteSet(cand[i].facts)
    BY TypeParts, MatchingTypes, CandType DEF IInv, Rest
  <1>1. /\ dialog = "matching" /\ match[i].at = "votes" /\ match[i].left = {}
        /\ UNCHANGED <<status, title, facts, dialog, cand, row, preview, post, saved>>
    BY DEF Judge, Turn, table, screen
  <1>2. Voted(i) /\ Known(i)
    BY <1>1 DEF IInv, Counted, Carried
  <1>3. PICK n \in IF Favourites(i) = {} THEN {NoNote} ELSE Favourites(i) :
          match' = [match EXCEPT ![i].at = "done", ![i].target = n, ![i].votes = NoMatch.votes]
    BY DEF Judge
  <1>4. n = NoNote \/ n \in Favourites(i)
    BY <1>3
  <1> DEFINE x == [match[i] EXCEPT !.at = "done", !.target = n, !.votes = NoMatch.votes]
  <1>5. match' = [match EXCEPT ![i] = x]
    BY <1>0, <1>3
  <1>6. /\ x.at = "done" /\ x.target = n /\ x.votes = NoMatch.votes /\ x.ever = match[i].ever
        /\ \A m \in Note : NoMatch.votes[m] = 0
    BY <1>0 DEF Matches, NoMatch
  <1> HIDE DEF x
  <1>7. match'[i] = x
    BY <1>0, <1>5
  <1>8. Voted(i)'
    BY <1>6, <1>7 DEF Voted
  <1>9. n \in Favourites(i) =>
          /\ n \in Note /\ match[i].votes[n] > 0
          /\ 100 * match[i].votes[n] >= Ratio * Cardinality(cand[i].facts)
    BY DEF Favourites
  <1>10. Known(i)'
    BY <1>1, <1>2, <1>4, <1>6, <1>7, <1>9, DistillAssumption DEF Known
  <1>11. Chosen(i)'
    <2> SUFFICES ASSUME n # NoNote
                 PROVE  100 * Cardinality(match[i].ever[n] \cap cand[i].facts)
                           >= Ratio * Cardinality(cand[i].facts)
      BY <1>1, <1>6, <1>7 DEF Chosen
    <2> DEFINE had == Cardinality(match[i].ever[n] \cap cand[i].facts)
               enough == Ratio * Cardinality(cand[i].facts)
    <2>1. n \in Note /\ 100 * match[i].votes[n] >= enough
      BY <1>4, <1>9
    <2>2. match[i].ever[n] \cap (cand[i].facts \ match[i].left) = match[i].ever[n] \cap cand[i].facts
      BY <1>1
    <2>3. match[i].votes[n] <= had
      BY <1>1, <1>2, <2>1, <2>2 DEF Voted
    <2>4. match[i].votes[n] \in Nat /\ had \in Nat /\ enough \in Nat
      <3>1. IsFiniteSet(match[i].ever[n] \cap cand[i].facts)
        BY <1>0, FS_Subset
      <3>2. had \in Nat
        BY <3>1, FS_CardinalityType
      <3>3. Cardinality(cand[i].facts) \in Nat /\ Ratio \in Nat
        BY <1>0, FS_CardinalityType, DistillAssumption
      <3>4. match[i].votes[n] \in Nat
        BY <1>0, <2>1 DEF Matches
      <3> HIDE DEF had
      <3> QED
        BY <3>2, <3>3, <3>4
    <2> HIDE DEF had, enough
    <2>5. 100 * had >= enough
      BY <2>1, <2>3, <2>4
    <2> QED
      BY <2>5 DEF had, enough
  <1> QED
    BY <1>0, <1>1, <1>5, <1>8, <1>10, <1>11, SearchOne

\* An extraction begins with nothing matched; a failure ends with nothing shown.
LEMMA BeginKeeps == ASSUME IInv, Distill \/ Fail PROVE IInv'
  <1>0. TypeOK /\ TypeOK'
    BY MatchingTypes DEF IInv
  <1>1. CASE Distill
    <2>1. PICK k \in 0..Rows :
            /\ match' = [i \in Row |-> [NoMatch EXCEPT !.at = IF i <= k THEN "titles" ELSE "none"]]
            /\ dialog' = IF k = 0 THEN "empty" ELSE "matching"
      BY <1>1 DEF Distill
    <2>2. \A a : /\ [NoMatch EXCEPT !.at = a].at = a
                 /\ [NoMatch EXCEPT !.at = a].target = NoNote
                 /\ [NoMatch EXCEPT !.at = a].votes = NoMatch.votes
      BY DEF NoMatch
    <2>3. \A n \in Note : NoMatch.votes[n] = 0
      BY DEF NoMatch
    <2>4. \A i \in Row : /\ match'[i].at \in {"titles", "none"} /\ match'[i].target = NoNote
                         /\ match'[i].votes = NoMatch.votes
      BY <2>1, <2>2
    <2>5. Counted' /\ \A i \in Row : Known(i)'
      BY <2>3, <2>4, DistillAssumption DEF Counted, Voted, Chosen, Known
    <2>6. /\ dialog = "closed" /\ dialog' \in {"matching", "empty"}
          /\ UNCHANGED <<row, preview, post, saved>>
      BY <1>1, <2>1 DEF Distill
    <2> QED
      BY <1>0, <2>5, <2>6, SearchKeeps
  <1>2. CASE Fail
    <2>1. /\ dialog = "matching" /\ dialog' = "empty"
          /\ UNCHANGED <<status, match, row, preview, post, saved>>
      BY <1>2 DEF Fail, table
    <2>2. Counted' /\ \A i \in Row : Known(i)'
      BY <2>1 DEF IInv, Carried, Known, Counted
    <2> QED
      BY <1>0, <2>1, <2>2, SearchKeeps
  <1> QED
    BY <1>1, <1>2

\* The dialog opens with every row at its candidate.
LEMMA ShowKeeps == ASSUME IInv, Show PROVE IInv'
  <1>0. TypeOK' /\ Carried
    BY MatchingTypes DEF IInv
  <1>1. /\ dialog = "matching" /\ dialog' = "open"
        /\ UNCHANGED <<status, cand, preview, post, saved>>
        /\ row' = [i \in Row |-> IF match[i].at = "none" THEN NoRow
                             ELSE [NoRow EXCEPT !.choice = "new", !.text = cand[i].facts]]
        /\ match' = [i \in Row |-> [NoMatch EXCEPT !.at = match[i].at, !.target = match[i].target]]
    BY DEF Show, table
  <1>2. /\ post = NoPost
        /\ \A i \in Row : /\ saved[i] = NotSaved
                          /\ \A p \in 1..Previews : preview[i][p] = NoPreview
    BY <1>1 DEF IInv, Blank
  <1>3. Blank' /\ PostOK' /\ Counted'
    BY <1>1, <1>2 DEF Blank, PostOK, Counted
  <1>4. Carried'
    <2> SUFFICES ASSUME NEW i \in Row
                 PROVE  Known(i)' /\ RowInv(i, row[i], preview[i])'
      BY DEF Carried
    <2> DEFINE x == [NoMatch EXCEPT !.at = match[i].at, !.target = match[i].target]
    <2>1. x.target = match[i].target /\ x.votes = NoMatch.votes /\ \A n \in Note : NoMatch.votes[n] = 0
      BY DEF NoMatch
    <2>2. match'[i] = x
      BY <1>1
    <2> HIDE DEF x
    <2>3. Known(i)'
      <3>1. Known(i)
        BY <1>0 DEF Carried
      <3>2. match'[i].target = match[i].target /\ \A n \in Note : match'[i].votes[n] = 0
        BY <2>1, <2>2
      <3>3. status' = status
        BY <1>1
      <3> QED
        BY <3>1, <3>2, <3>3 DEF Known
    <2>4. \/ row'[i].choice = "none"
          \/ row'[i].choice = "new" /\ row'[i].text = cand[i].facts /\ row'[i].shown = "own"
      BY <1>1 DEF NoRow
    <2>5. RowOK(i, row[i])'
      BY <1>1, <2>4 DEF RowOK, Whole
    <2>6. \A p \in 1..Previews : PreviewOK(i, preview[i][p])'
      <3>1. NoPreview.at = "none"
        BY DEF NoPreview
      <3>2. \A p \in 1..Previews : preview'[i][p] = NoPreview
        BY <1>1, <1>2
      <3> QED
        BY <3>1, <3>2 DEF PreviewOK
    <2> QED
      BY <2>3, <2>5, <2>6 DEF RowInv
  <1>5. MergeLosesOnlyUnseen' /\ NewIsCandidate'
    BY <1>1 DEF IInv, MergeLosesOnlyUnseen, NewIsCandidate
  <1> QED
    BY <1>0, <1>3, <1>4, <1>5 DEF IInv

\* Every step keeps the invariant.
LEMMA NextInv == IInv /\ [Next]_vars => IInv'
  <1> SUFFICES ASSUME IInv, [Next]_vars PROVE IInv'
    OBVIOUS
  <1>1. CASE Next
    BY <1>1, ShowKeeps, BeginKeeps, CompareKeeps, VoteKeeps, JudgeKeeps, RowKeeps, PostKeeps, SaveKeeps,
       OthersKeep, Zenon DEF Next
  <1>2. CASE UNCHANGED vars
    <2>1. UNCHANGED <<status, title, facts, dialog, cand, row, match, preview, post, saved, writes, changes>>
      BY <1>2 DEF vars, table, screen
    <2>2. TypeOK'
      BY <2>1 DEF IInv, TypeOK, notes
    <2>3. Blank' /\ PostOK'
      BY <2>1 DEF IInv, Blank, PostOK, RowOK, Whole, Fresh, notes
    <2>4. Carried'
      BY <2>1 DEF IInv, Carried, Known, RowInv, RowOK, PreviewOK, Whole, Fresh, notes
    <2>5. Counted'
      BY <2>1 DEF IInv, Counted, Voted, Chosen, notes
    <2>6. MergeLosesOnlyUnseen' /\ NewIsCandidate'
      BY <2>1 DEF IInv, MergeLosesOnlyUnseen, NewIsCandidate
    <2> QED
      BY <2>2, <2>3, <2>4, <2>5, <2>6 DEF IInv
  <1> QED
    BY <1>1, <1>2

\* The invariant holds in every behaviour.
THEOREM Inductive == Spec => []IInv
  <1> QED
    BY InitInv, NextInv, PTL DEF Spec

-----------------------------------------------------------------------------
(* What follows from it                                                    *)

\* Types, and no two notes of a user have one title (_write_note, distill).
THEOREM TypeCorrect == Spec => []TypeOK
  <1>1. IInv => TypeOK
    BY DEF IInv
  <1> QED
    BY <1>1, Inductive, PTL

\* The note that find_merge_target offers has the candidate's title or has had
\* enough of its facts, whatever happens to the notes during the search.
THEOREM TargetJustifiedHolds == Spec => []TargetJustified
  <1>1. IInv => TargetJustified
    BY DEF IInv, Counted, Chosen, TargetJustified
  <1> QED
    BY <1>1, Inductive, PTL

\* A merge of a merged body loses nothing of the note unless somebody has
\* written to it since the preview read it, whatever order previews, errors,
\* clicks and the saves of other rows come in; and no candidate is lost but to
\* an answer without merged_body.
THEOREM MergeLosesOnlyUnseenHolds == Spec => []MergeLosesOnlyUnseen
  <1>1. IInv => MergeLosesOnlyUnseen
    BY DEF IInv
  <1> QED
    BY <1>1, Inductive, PTL

\* What is saved as a note of its own is the candidate, unless a preview has
\* arrived after the merge was given up.
THEOREM NewIsCandidateHolds == Spec => []NewIsCandidate
  <1>1. IInv => NewIsCandidate
    BY DEF IInv
  <1> QED
    BY <1>1, Inductive, PTL

=============================================================================
