--------------------------- MODULE MCTcpipThread ----------------------------
(* TcpipThread for TLC: the lwIP thread and two Nabto threads.             *)
EXTENDS TcpipThread

CONSTANTS tcpip, app1, app2, lo, tap

MCThreads == {tcpip, app1, app2}

MCLwipOnly == {tcpip}

MCNetifs == {lo, tap}
=============================================================================
