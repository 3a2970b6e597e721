---------------------------- MODULE MCPgraphIntr ----------------------------
(* Instances of PgraphIntr for TLC: two channels, so that a context switch  *)
(* can be needed in both directions.                                        *)
EXTENDS PgraphIntr

MCChannels == {0, 1}
=============================================================================
