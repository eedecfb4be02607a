--------------------------- MODULE MCCoRoutineEx ---------------------------
\* Two coroutines and the main one, one TCP socket, one UDP socket and one FD. Nothing
\* tells two coroutines apart, so that the runs, which check invariants, may exchange them.
EXTENDS CoRoutineEx, TLC

CONSTANTS c1, c2

MCCo == {c1, c2}
MCTcp == {"tcp"}
MCUdp == {"udp"}
MCCofd == {"fd"}

Exchanges == Permutations(MCCo)
=============================================================================
