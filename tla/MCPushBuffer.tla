----------------------------- MODULE MCPushBuffer -----------------------------
(* PushBuffer for TLC: four methods, of which 1 and 2 are the range of one *)
(* increasing-batch handler and 3 has a non-increasing-batch handler.      *)
EXTENDS PushBuffer

Word(op, to, method, count, inc) ==
    [op |-> op, to |-> to, method |-> method, count |-> count, inc |-> inc]

Inc3 == Word("method", 0, 1, 3, TRUE)
Junk == Word("return", 0, 0, 0, FALSE)
MCWords == {Inc3, Word("method", 0, 3, 2, FALSE), Word("jump", 0, 0, 0, FALSE),
            Word("call", 3, 0, 0, FALSE), Junk}
MCPrograms == {m \in [0 .. 4 -> MCWords] : m[4].op # "call" /\ m[4].method # 3}
MCRewrites == {Inc3}
MCBatch == [m \in 0 .. 3 |-> IF m \in {1, 2} THEN "inc" ELSE IF m = 3 THEN "non_inc"
                             ELSE "single"]
MCHandler == [m \in 0 .. 3 |-> IF m = 2 THEN 1 ELSE m]
MCRangeEnd == [m \in 0 .. 3 |-> IF m \in {1, 2} THEN 3 ELSE m + 1]
===============================================================================
