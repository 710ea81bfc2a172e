--------------------------- MODULE MCTlbRegisters ---------------------------
(* Samples for TLC: the extreme bits of each field, those just outside what  *)
(* CONFIGURE_TLB accepts among them, between fields that are all 0 and       *)
(* between fields that are all 1.                                            *)
EXTENDS TlbRegisters

CONSTANTS user, kernel

MCUserWindows == {user}

Edges(f) ==
    IF f = "Addr" THEN {{}, {21}, {63}, {27, 60}, 21 .. 63, {20}}
    ELSE {{}, {0}, {1}, {5}, 0 .. 5, {6}, {0, 7}}

MCSamples ==
    UNION {{[rest EXCEPT ![f] = bits] : bits \in Edges(f), rest \in {ZeroConfig, AcceptedBits}} :
              f \in Fields}

=============================================================================
