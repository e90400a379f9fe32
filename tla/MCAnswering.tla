----------------------------- MODULE MCAnswering -----------------------------
(* Answering on three notes and three bodies.                              *)
EXTENDS Answering

CONSTANTS n1, n2, n3, b1, b2, b3

\* near: close in meaning; quote: the words match; vague: a weak match of words;
\* far: neither.
MCText == {"near", "vague", "far", "quote"}

MCDist == ("near" :> 1) @@ ("vague" :> 3) @@ ("far" :> 4) @@ ("quote" :> 5)

MCSim == ("near" :> 0) @@ ("vague" :> 2) @@ ("far" :> 0) @@ ("quote" :> 4)

\* far has the words of the question, among many others.
MCLiteral == {"far"}

MCChunks == (b1 :> <<"near", "vague">>) @@ (b2 :> <<"vague", "quote">>) @@ (b3 :> <<"far">>)

MCLinks == (b1 :> {n2, n3}) @@ (b2 :> {n1}) @@ (b3 :> {})

==============================================================================
