------------------------------ MODULE MCUartTx ------------------------------
(* Gateway and file server.  The threads that send are interchangeable, and *)
(* so are the two connections that ask for the log; one of them can have it *)
(* open.                                                                    *)
EXTENDS LogServer, TLC

Alike == Permutations(Threads) \cup Permutations(Conns)
=============================================================================
