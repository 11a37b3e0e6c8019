---------------------------- MODULE MCJsonLinesSink ---------------------------
(* Records of both sizes; a process that starts after another one died is the *)
(* same writer.                                                               *)
EXTENDS JsonLinesSink

MC_Sizes == {"small", "large"}
===============================================================================
