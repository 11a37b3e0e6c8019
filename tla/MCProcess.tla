------------------------------- MODULE MCProcess -------------------------------
(* All four modes, with lists of two URLs, up to two counted passes, and    *)
(* three passes of a schedule without --max-runs; before them one startup   *)
(* by an embedding program, with sources that agree, differ, hide one       *)
(* another's invalid values, and are refused for each of the reasons.       *)
EXTENDS Process

MC_RunLimits == {1, 2}

Silent == [f \in {} |-> "on"]
Says(field, value) == [f \in {field} |-> value]
FileOnly == [f \in {"console_enabled", "file_enabled"} |->
                IF f = "file_enabled" THEN "on" ELSE "off"]

MC_Overrides == {Silent, Says("file_enabled", "on"), FileOnly,
                 Says("unknown", "on")}
MC_Dotenvs == {Silent, Says("file_enabled", "on"),
               Says("console_enabled", "invalid"), Says("unknown", "on")}
MC_Environments == {Silent, Says("file_enabled", "on"), FileOnly,
                    Says("console_enabled", "off"), Says("console_enabled", "invalid"),
                    Says("paths", "escapes"), Says("unknown", "on")}
===============================================================================
