---------------------------- MODULE TileArchive -----------------------------
(***************************************************************************)
(* What an output format promises: tiles are written one at a time, each   *)
(* with the content that was computed for it, and the archive is closed    *)
(* when all of them are in it.                                             *)
(***************************************************************************)
VARIABLES
  content,   \* content[t]: what is to be written for tile t
  archive,   \* archive[t]: what the archive holds for t
  closed

vars == <<content, archive, closed>>

Init == closed = FALSE /\ DOMAIN archive = DOMAIN content

Write(t) ==
  /\ ~closed
  /\ archive' = [archive EXCEPT ![t] = content[t]]
  /\ UNCHANGED <<content, closed>>

Close ==
  /\ archive = content
  /\ closed' = TRUE
  /\ UNCHANGED <<content, archive>>

Next == Close \/ \E t \in DOMAIN content : Write(t)

Spec == Init /\ [][Next]_vars
=============================================================================
