--------------------------- MODULE MCPushFailover ---------------------------
(* PushFailover with the push thread and the thread of the WAL replay.     *)
EXTENDS PushFailoverLive

CONSTANTS push, wal
=============================================================================
