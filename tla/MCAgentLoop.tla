---------------------------- MODULE MCAgentLoop -----------------------------
EXTENDS AgentLoop, TLC

CONSTANTS read, search, status

MCCall == {read, search, status}
MCStatusCall == {status}
\* A search finds up to two files to open.
MCOpens == (read :> {1}) @@ (search :> 0..2) @@ (status :> {0})
\* Single calls, a pair, and a batch that repeats a call within itself.
MCBatch == {<<read>>, <<search>>, <<status>>, <<read, search>>, <<read, read, status>>}
=============================================================================
