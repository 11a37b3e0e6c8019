---------------------------- MODULE MCArticleCrawl ----------------------------
(* Three sources with an origin each, the second with an adapter, the last    *)
(* disabled; two pages of the first, and one whose URL carries credentials,   *)
(* so that robots rules know it and the registry does not; and a host         *)
(* without any page.                                                          *)
EXTENDS ArticleCrawl

CONSTANTS a1, a2, a3, b1, d1, oA, oB, oD, hA, hA2, hB, hD

MC_Pages == {a1, a2, a3, b1, d1}
MC_Secure == {a1, a2, b1, d1}
MC_Origins == {oA, oB, oD}
MC_OriginOf == [p \in MC_Pages |-> CASE p \in {a1, a2, a3} -> oA
                                     [] p = b1 -> oB
                                     [] p = d1 -> oD]
MC_Hosts == {hA, hA2, hB, hD}
MC_HostOf == [p \in MC_Pages |-> CASE p \in {a1, a2, a3} -> hA
                                   [] p = b1 -> hB
                                   [] p = d1 -> hD]
MC_Profiles == << [source |-> "a", domains |-> {hA2, hA}, enabled |-> TRUE, adapter |-> FALSE],
                  [source |-> "b", domains |-> {hB}, enabled |-> TRUE, adapter |-> TRUE],
                  [source |-> "d", domains |-> {hD}, enabled |-> FALSE, adapter |-> FALSE] >>
===============================================================================
