--------------------------- MODULE MCLookupExecution ---------------------------
(***************************************************************************)
(* LookupExecution for TLC.  Three lookups and up to two workers: a worker *)
(* is free for the third lookup while an abandoned executor still runs.    *)
(***************************************************************************)
EXTENDS LookupExecution
================================================================================
