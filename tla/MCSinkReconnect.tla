--------------------------- MODULE MCSinkReconnect ---------------------------
(* Instances of SinkReconnect for TLC: two phones, two retries.            *)
EXTENDS SinkReconnect

CONSTANTS p1, p2

const_Peers == {p1, p2}

=============================================================================
