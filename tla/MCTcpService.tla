---------------------------- MODULE MCTcpService ----------------------------
\* Two slots and one descriptor more than slots: the pool fills up, and a slot is used
\* again while events and calls for its former connection are outstanding. Where there
\* is room to spare (MCTcpClose.cfg) two descriptors do.
EXTENDS TcpService
=============================================================================
