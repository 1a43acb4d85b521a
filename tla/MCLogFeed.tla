----------------------------- MODULE MCLogFeed ------------------------------
(* LogFeed for TLC: a buffer of two entries, four entries in each of three  *)
(* streams, so that a poll may find its cursor evicted or its stream gone.  *)
EXTENDS LogFeed
=============================================================================
