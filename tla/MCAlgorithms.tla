----------------------------- MODULE MCAlgorithms -----------------------------
\* Inputs that make the interesting cases happen: more passages than are shown, forms of
\* every type, four strata, rows before, between and after two runs.
EXTENDS Algorithms

MCTexts == {<<>>, <<"a">>, <<"a", " ", "b">>}
MCWrappedTexts == {<<"a">>, <<"a", "nl", "b">>}
MCTypedTexts == {<<>>, <<" ">>, <<" ", "a">>}
MCTypedAreas == MCTypedTexts \cup {<<"a", "crlf", " ", "b">>}

\* No rows, a blank one that was not filled in, or one that was removed from between two.
MCRowIndices == {{}, {0}, {0, 2}}

MCLower == [c \in {"w", "W", "."} |-> IF c = "W" THEN "w" ELSE c]

\* The other fields have the type of one of these.
MCFields == {"title", "vendor_org", "summary", "title_source", "affected", "trigger",
             "mechanism", "contributing_factors", "change_at", "blast_radius", "mitigations"}
===============================================================================
