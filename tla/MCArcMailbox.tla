---------------------------- MODULE MCArcMailbox ----------------------------
(* Instances of ArcMailbox for TLC: the two threads that send messages.      *)
EXTENDS ArcMailbox

CONSTANTS queue, pnp, nobody

MCCallers == {queue, pnp}
MCQueueOnly == {queue}

=============================================================================
