------------------------------ MODULE MCRxFramer ------------------------------
(* An instance of RxFramer for TLC: bytes of two bits, and payloads of each length that
   hold sync bytes, sync pairs and what looks like a frame's beginning. *)
EXTENDS RxFramer

const_Payloads == {<<0>>, <<3>>, <<3, 1>>, <<1, 3>>, <<3, 1, 1>>, <<1, 3, 3>>}

=============================================================================
