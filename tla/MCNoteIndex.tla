----------------------------- MODULE MCNoteIndex -----------------------------
(* NoteIndex on small instances.                                           *)
EXTENDS NoteIndex, TLC

CONSTANTS t1, t2, plain, linking, blank

\* A body without links, one that links to the second title, and an empty one.
MCLinks == (plain :> {}) @@ (linking :> {t2}) @@ (blank :> {})

Interchangeable == Permutations(Job)
=============================================================================
