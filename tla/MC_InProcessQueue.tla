------------------------- MODULE MC_InProcessQueue -------------------------
(* InProcessQueue on four messages in three batches and two consumers.      *)
EXTENDS InProcessQueue, TLC

CONSTANTS m1, m2, m3, m4

MCMsgs == {m1, m2, m3, m4}
MCBatches == {<<m1, m2>>, <<m3>>, <<m4>>}
=============================================================================
