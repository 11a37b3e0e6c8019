----------------------------- MODULE MCHttpClient -----------------------------
(* HttpClient on two hosts with a backoff below, above and capped at the     *)
(* politeness interval.                                                      *)
EXTENDS HttpClient

MC_Durations == {2}
MC_Pauses == {0, 5}
MC_Methods == {"GET", "POST"}
===============================================================================
