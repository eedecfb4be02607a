---------------------------- MODULE MCRecvBuffer ----------------------------
\* The sizes of the code; a peer that fills the buffer at once or in two pieces, or
\* sends a byte.
EXTENDS RecvBuffer
=============================================================================
