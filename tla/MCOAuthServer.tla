--------------------------- MODULE MCOAuthServer ----------------------------
(* Small instances of OAuthServer.                                           *)
EXTENDS OAuthServer, TLC

Symmetry == Permutations(Client) \cup Permutations(User)

=============================================================================
