------------------------------ MODULE MCSysmem ------------------------------
(* Instances of Sysmem for TLC: sizes are pages, 16 stands for 2^64, and 4   *)
(* pages for the 64 KiB of TTWIND_VIEW_ALIGN.                                *)
EXTENDS Sysmem, TLC

CONSTANTS a1, a2

\* A buffer that begins on the granularity, and one that misses it.
MCPlaces == {16, 34}
AlignedPlace == {16}
UnalignedPlace == {34}
OneAddress == {a1}
MCAddresses == {a1, a2}
MCTiers == {4, 8}

\* The whole buffer, its end, past its end, and lengths and offsets that wrap.
MCMapRequests == {<<0, 4>>, <<4, 4>>, <<3, 1>>, <<15, 1>>, <<15, 3>>, <<4, 15>>, <<2, 0>>}

Symmetry == Permutations(MCAddresses)

=============================================================================
