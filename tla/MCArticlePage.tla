----------------------------- MODULE MCArticlePage -----------------------------
(* Two pages of the source, one of them written with a space, and one elsewhere; *)
(* articles that agree and disagree about them, alone, side by side and inside  *)
(* each other, with every kind of data that ArticleItem refuses; lists at and   *)
(* above each of the two limits.                                                *)
EXTENDS ArticlePage

CONSTANTS p, q, other, newsP, newsQ, artP, artElse, silent, unfinished, credited, odd,
          scalar, graph, twice, full, tooMany, high, tooHigh

MC_Urls == {p, q, other}
MC_Approved == {p, q}
MC_Padded == {q}

\* An article with this headline and time that gives nothing else.
Said(kind, main, url, headline, time) ==
    [kind |-> kind, main |-> main, url |-> url, headline |-> headline, time |-> time,
     description |-> "none", authors |-> "none", modified |-> "none", section |-> "none",
     image |-> "none"]

MC_Article ==
    (newsP      :> Said("news", p, q, "good", "good")) @@
    (newsQ      :> Said("news", EmptyUrl, q, "none", "good")) @@
    (artP       :> [Said("article", NoUrl, p, "good", "good") EXCEPT
                        !.description = "good", !.authors = "good", !.image = "good"]) @@
    (artElse    :> Said("article", other, p, "good", "good")) @@
    (silent     :> [Said("article", NoUrl, NoUrl, "good", "none") EXCEPT
                        !.section = "refused", !.modified = "good"]) @@
    (unfinished :> [Said("article", EmptyUrl, EmptyUrl, "refused", "good") EXCEPT
                        !.image = "refused", !.description = "refused"]) @@
    (credited   :> [Said("article", p, NoUrl, "good", "none") EXCEPT !.authors = "refused"]) @@
    (odd        :> [Said("article", q, NoUrl, "good", "out_of_range") EXCEPT
                        !.modified = "out_of_range"])

MC_Children ==
    (newsP :> <<>>) @@ (newsQ :> <<scalar, artP>>) @@ (artP :> <<scalar>>) @@ (artElse :> <<>>) @@
    (silent :> <<>>) @@ (unfinished :> <<>>) @@ (credited :> <<>>) @@ (odd :> <<>>) @@ (scalar :> <<>>) @@
    (graph :> <<artElse, newsP>>) @@
    (twice :> <<artP, artP>>) @@
    (full :> <<scalar, scalar, scalar, artP>>) @@
    (tooMany :> <<scalar, scalar, scalar, scalar, artP>>) @@
    (high :> <<graph, scalar>>) @@
    (tooHigh :> <<high>>)

MC_Values == DOMAIN MC_Children
===============================================================================
