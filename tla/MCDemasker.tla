----------------------------- MODULE MCDemasker -----------------------------
(* Responses put together from pieces: exact, drifted and unknown           *)
(* placeholders, broken ones, escapes and text.  One original contains      *)
(* quotes, one a token of the client's own, so it is not minted.            *)
EXTENDS Demasker

Secrets == 1 :> <<"\"", "a", "\\">> @@ 3 :> <<"<", "K", "_", "2", ">", "z1", "z2">>

Drifted(name) == <<"<", " ">> \o name \o <<" ", "0", "1", " ", ">">>

Heads == {<<"<", "K", "_">>, <<"z1", "z2", "a">>, Drifted(<<"k">>), Format(1)}
Middles == {<<"1", ">">>, Format(2), Format(3), Drifted(<<"k">>)}
Tails == {<<"<", "K", "3", ">">>, <<"1", ">", "z1", "z2">>, <<"a", "\\", "\"">>}

Answers == {a \o b \o c : a \in Heads, b \in Middles, c \in Tails}

\* The hypotheses of the theorems LosslessCorrect and StreamMatchesWholeCorrect.
ASSUME TheoremsApply == InertOriginals /\ NoKelvinSign

=============================================================================
