--------------------------- MODULE MCDailyRefresh ---------------------------
(* DailyRefresh for TLC: a writer is a process and a dataset. *)
EXTENDS DailyRefresh, TLC

MCWriters == (Procs \cup Tools) \X Datasets
MCToolRuns == {w \in MCWriters : w[1] # CHOOSE p \in Procs : TRUE}
MCParts == Dates \X Datasets
=============================================================================
