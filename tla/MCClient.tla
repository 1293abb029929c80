------------------------------ MODULE MCClient ------------------------------
(* Client with one run that clears its target before scp, one that does so *)
(* with rsync and has no time-out, and one that does not wait.  The target *)
(* holds a file of an earlier fetch, which may only look like the new one, *)
(* and two others; a build leaves all its files, a dotfile only, or none.  *)
EXTENDS Client

CONSTANTS c1, c2, c3

MCNames == {"bin", "lib/a", "lib/old", "notes", ".env"}
MCDirOf == [f \in MCNames |-> IF f \in {"lib/a", "lib/old"} THEN "lib" ELSE "."]
MCOutputs == {{}, {".env"}, {"bin", "lib/a", ".env"}}
MCOldFiles == {"lib/a", "lib/old", "notes"}

=============================================================================
