----------------------------- MODULE MCSqliteSink -----------------------------
(* Two processes and two URLs, and enough saves for two of one URL to overlap *)
(* after and before others of either URL.                                     *)
EXTENDS SqliteSink

CONSTANTS p1, p2

MC_Processes == {p1, p2}
MC_Urls == {"u1", "u2"}
===============================================================================
