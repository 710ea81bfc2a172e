----------------------------- MODULE WindowLease -----------------------------
(***************************************************************************)
(* What the TLB window allocator promises its clients: a window has at     *)
(* most one holder, a window with a user mapping is neither given back nor *)
(* lent to somebody else, and only the holder's mappings are attached to   *)
(* it.  The only way a holder loses a window it still uses is a            *)
(* reclamation, which takes the attached mappings away with it.            *)
(***************************************************************************)
CONSTANTS
    Windows,    \* the windows that can be lent
    Holders,    \* the handles
    Nobody      \* the holder of a free window; not in Holders

VARIABLES
    holder,     \* who a window is lent to
    attached    \* per window, the handles with a mapping of it

vars == <<holder, attached>>

Init == /\ holder = [w \in Windows |-> Nobody]
        /\ attached = [w \in Windows |-> {}]

Lend(w, h) ==
    /\ holder[w] = Nobody
    /\ holder' = [holder EXCEPT ![w] = h]
    /\ UNCHANGED attached

Return(w) ==
    /\ holder[w] # Nobody /\ attached[w] = {}
    /\ holder' = [holder EXCEPT ![w] = Nobody]
    /\ UNCHANGED attached

Attach(w) ==
    /\ holder[w] # Nobody
    /\ attached' = [attached EXCEPT ![w] = {holder[w]}]
    /\ UNCHANGED holder

Detach(w) ==
    /\ attached' = [attached EXCEPT ![w] = {}]
    /\ UNCHANGED holder

\* A handle goes away, or the device does: windows and mappings together.
Reclaim(ws) ==
    /\ holder' = [w \in Windows |-> IF w \in ws THEN Nobody ELSE holder[w]]
    /\ attached' = [w \in Windows |-> IF w \in ws THEN {} ELSE attached[w]]

Next ==
    \/ \E w \in Windows : \/ Return(w) \/ Attach(w) \/ Detach(w)
                          \/ \E h \in Holders : Lend(w, h)
    \/ \E ws \in SUBSET Windows : Reclaim(ws)

Spec == Init /\ [][Next]_vars

=============================================================================
