----------------------------- MODULE Delegation -----------------------------
(***************************************************************************)
(* What the OAuth server promises: a client acts for a user only through a *)
(* token, and has a token for a user only after that user has signed in    *)
(* for a request of this client.  Tokens may vanish at any time; a call    *)
(* that has begun is carried on.                                           *)
(***************************************************************************)
CONSTANTS Client, User

VARIABLES
    consented, \* the pairs of a client and a user who has signed in for it
    live,      \* the pairs that some valid access token stands for
    acting     \* the pairs in whose name calls are being served

Pairs == Client \X User

Init == consented = {} /\ live = {} /\ acting = {}

Consent(p) ==
    /\ consented' = consented \cup {p}
    /\ UNCHANGED <<live, acting>>

Issue(p) ==
    /\ p \in consented
    /\ live' = live \cup {p}
    /\ UNCHANGED <<consented, acting>>

Call(p) ==
    /\ p \in live
    /\ acting' = acting \cup {p}
    /\ UNCHANGED <<consented, live>>

\* Tokens expire or are lost, calls end.
Vanish ==
    /\ live' \in SUBSET live
    /\ acting' \in SUBSET acting
    /\ UNCHANGED consented

Next == Vanish \/ \E p \in Pairs : Consent(p) \/ Issue(p) \/ Call(p)

Spec == Init /\ [][Next]_<<consented, live, acting>>

=============================================================================
