------------------------------- MODULE Recall -------------------------------
(***************************************************************************)
(* What the memory of a conversation promises, without requests, tasks or  *)
(* row versions: the past messages are ordered by id, and at any time an   *)
(* initial segment of them is folded into the summary while the rest is    *)
(* still there verbatim.  No message is in both parts, and only one that   *)
(* came behind a newer one can be in none.  A fold replaces the summary as *)
(* a whole; the segment it covers may grow or shrink, since a slower fold  *)
(* may land after a newer one.                                             *)
(***************************************************************************)
EXTENDS Naturals

VARIABLES
    past,    \* the messages of the conversation
    folded,  \* the ones its summary covers
    late,    \* the ones that came behind a newer one
    open     \* has it not been deleted?

vars == <<past, folded, late, open>>

\* F is what P begins with, where late messages do not count.
InitialSegment(F, P) ==
    /\ F \subseteq P
    /\ \A f \in F, p \in P \ (F \cup late) : f < p

\* Nothing is folded of whatever has been said before.
Init ==
    /\ folded = {} /\ late = {}
    /\ open = TRUE

\* A message is added, and is late unless it is behind all others.
Remember ==
    /\ open
    /\ \E m \in past' \ past :
         /\ past' = past \cup {m}
         /\ late' = IF \E k \in past : m < k THEN late \cup {m} ELSE late
    /\ UNCHANGED <<folded, open>>

\* Another initial segment is summarized.
Fold ==
    /\ open
    /\ InitialSegment(folded', past)
    /\ UNCHANGED <<past, late, open>>

Forget ==
    /\ open
    /\ open' = FALSE
    /\ past' = {} /\ folded' = {} /\ late' = {}

Next == Remember \/ Fold \/ Forget

Spec == Init /\ [][Next]_vars

=============================================================================
