----------------------------- MODULE MCAccounts -----------------------------
(* Small instances of Accounts: two identities that report one address, which *)
(* a user from before the identities has too; the address of one of them is   *)
(* withheld in the second round trip.                                         *)
EXTENDS Accounts, TLC

CONSTANTS r1, r2, github, kakao, mail, t1, n1

MCMailOf == [r \in Req |-> [i \in Identity |-> IF r = r2 /\ i = github THEN NoMail ELSE mail]]

MCLegacy == <<mail>>

MCNoLegacy == <<>>

=============================================================================
