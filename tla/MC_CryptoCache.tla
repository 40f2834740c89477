--------------------------- MODULE MC_CryptoCache ---------------------------
(* Two goroutines, two messages, two signatures, one batch, capacity 2.    *)
EXTENDS CryptoCache

CONSTANTS t1, t2, m1, m2, b1, b2, s1, s2

MCThreads == {t1, t2}
MCMsgs == {m1, m2}
MCBatches == {b1, b2}
MCSigs == {s1, s2}
\* each message has exactly one accepted signature; b1 is accepted under s1 only
MCValid == {<<m1, s1>>, <<m2, s2>>}
MCBatchValid == {<<b1, s1>>}
=============================================================================
