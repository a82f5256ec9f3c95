---------------------------- MODULE MCRecordFeed -----------------------------
(***************************************************************************)
(* Small instances of RecordFeed.                                          *)
(***************************************************************************)
EXTENDS RecordFeed, TLC
==============================================================================
