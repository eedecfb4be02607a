---------------------------- MODULE MCIoService ----------------------------
\* One UDP socket and one FD, so that a slot is used again as soon as it is free, two
\* datagrams that wait, and batches in which both objects have an event.
EXTENDS IoService

CONSTANTS b1, b2
=============================================================================
