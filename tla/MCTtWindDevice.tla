--------------------------- MODULE MCTtWindDevice ---------------------------
(* TtWindDevice for TLC: the handles are interchangeable, the platform       *)
(* leaves parity reporting off, so that resets are recovered from, and a     *)
(* behaviour is followed as long as the reset is orderly.                    *)
EXTENDS TtWindDevice, TLC

FileSymmetry == Permutations(Files)

MCInit == Init /\ ~platformParity

MCSpec == MCInit /\ [][Next]_vars

OrderlyReset == ~outrun

=============================================================================
