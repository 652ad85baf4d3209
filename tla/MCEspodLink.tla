----------------------------- MODULE MCEspodLink -----------------------------
(* Instances of EspodLink for TLC: two phones, short timers.               *)
EXTENDS EspodLink

CONSTANTS p1, p2

const_Peers == {p1, p2}

=============================================================================
