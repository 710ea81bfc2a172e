---------------------------- MODULE MCTtWindInfo ----------------------------
(* Instances of TtWindInfo for TLC.                                          *)
EXTENDS TtWindInfo

CONSTANTS alice, bob, nobody, w1, w2, nowindow

MCClients == {alice, bob}
MCWindows == {w1, w2}

=============================================================================
