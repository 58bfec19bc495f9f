---------------------------- MODULE MCUdpSocket -----------------------------
(* UdpSocket for TLC: two senders, two completion events.                  *)
EXTENDS UdpSocket

CONSTANTS p1, p2, e1, e2

MCPeers == {p1, p2}
MCEvents == {e1, e2}
=============================================================================
