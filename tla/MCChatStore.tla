---------------------------- MODULE MCChatStore ----------------------------
EXTENDS ChatStore, TLC
CONSTANTS w1, w2

\* Two pairs whose user ids have the same sum, and so one relation id.
SameSum == {<<1, 4>>, <<2, 3>>}
\* One chat.
OneChat == {<<1, 2>>}
WorkerSymmetry == Permutations(Worker)
=============================================================================
