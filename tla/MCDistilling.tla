---------------------------- MODULE MCDistilling ----------------------------
(* Distilling on two candidates, three ids and three titles, two of them alike.                 *)
EXTENDS Distilling, TLC

CONSTANTS salary, Salary, job, f1, f2, f3

\* One candidate for each title; the facts of the first are in three chunks.
MCOffers == {[title |-> salary, facts |-> {f1, f2, f3}], [title |-> job, facts |-> {f2}]}

MCEdits == {{f1}, {f2, f3}}

Symmetry == Permutations(Note)

MCNorm == [t \in Title |-> IF t = Salary THEN salary ELSE t]

=============================================================================
