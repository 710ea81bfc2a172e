---------------------------- MODULE Sysmem_proofs ----------------------------
(***************************************************************************)
(* Proofs about Sysmem for any number of places, buffer sizes, addresses   *)
(* and map requests, and any width of the machine word.                    *)
(***************************************************************************)
EXTENDS Sysmem, TLAPS

\* The PnP thread is somewhere between the start of the queue and its stop.
QueueRuns == pc[pnp] \in {"arm", "idle", "invalidate", "stop"} \cup ArmLabels

\* ArcLock is held exactly during an arm, and the queue has a request in
\* flight only while it runs.
LockDiscipline ==
    /\ pc[queue] \in {"idle", "map", "arm"} \cup ArmLabels
    /\ pc[pnp] \in {"idle", "arm"} \cup ArmLabels \cup PnpLabels
    /\ \A t \in Threads : arcLock = t <=> pc[t] \in ArmLabels
    /\ ~At(queue, "idle") => QueueRuns

\* The context describes one buffer or none, and ReleaseHardware takes the
\* mappings away before the bus interface.
BufferState ==
    /\ buffer = nowhere <=> size = 0
    /\ At(pnp, "unmapped") => pointers \subseteq BusIf \cup {"TlbRegs"}

\* Past its first check an arm has a buffer and registers that stay, and
\* advertises nothing; a loopback that has passed has seen the last page.
WindowReaches == enabled /\ target = buffer /\ limit >= size - 1

ArmState ==
    \A t \in Threads :
        /\ pc[t] \in ArmLabels =>
              /\ ~needsHwInit /\ ~verified /\ buffer # nowhere
              /\ Required \cup {"Bar2Iatu"} \subseteq pointers
        /\ pc[t] \in ArmLabels \ {"tile"} => tileFound /\ "NocIdRegs" \in pointers
        /\ At(t, "rezero") /\ passed => WindowReaches

\* Where the magic can be while a loopback runs.
MagicState ==
    /\ (\A t \in Threads : pc[t] \notin {"magic", "readback", "rezero"}) =>
          \A i \in Cells : cells[i] # "magic"
    /\ \A t \in Threads, i \in Cells :
          At(t, "rezero") /\ i < probe => cells[i] # "magic"

\* From the revocation to the next start no view is linked.
RevokedState ==
    pc[pnp] \in {"revoked", "unmapped", "stopped", "failed"} => views \subseteq cleaning

IInv == /\ TypeOK
        /\ LockDiscipline
        /\ ResourcesAccounted
        /\ BufferState
        /\ ArmState
        /\ MagicState
        /\ RevokedState
        /\ AdvertisedWindowReaches
        /\ ViewsInsideBuffer

-----------------------------------------------------------------------------
\* A buffer has a last page.
LEMMA TierFacts == ASSUME NEW n \in Tiers PROVE n \in Nat /\ n - 1 \in Nat
<1>1. n \in Nat /\ 2 < n
  BY TiersAssumption
<1>. QED BY <1>1

\* A size counts pages.
LEMMA SizeFacts == ASSUME size \in Sizes PROVE size \in Nat
BY TiersAssumption DEF Sizes

\* Rounding down to the granularity keeps the order of pages.
LEMMA DivMonotone ==
    ASSUME NEW a \in Nat, NEW b \in Nat, NEW n \in Nat \ {0}, a <= b
    PROVE  a \div n \in Nat /\ (a \div n) * n <= (b \div n) * n
<1>1. a \div n \in Nat /\ b \div n \in Nat
  OBVIOUS
<1>2. a \div n <= b \div n
  OBVIOUS
<1>. QED BY <1>1, <1>2

LEMMA AlignedDownMonotone ==
    ASSUME NEW a \in Nat, NEW b \in Nat, a <= b
    PROVE  AlignedDown(a) \in Nat /\ AlignedDown(a) <= AlignedDown(b)
BY DivMonotone, AlignAssumption DEF AlignedDown

\* Every step keeps the critical sections apart.
LEMMA LockStep == ASSUME IInv, [Next]_vars PROVE LockDiscipline'
<1> USE ThreadsAssumption DEF IInv, TypeOK, LockDiscipline, QueueRuns, ArmLabels,
    PnpLabels, Threads, At, Goto
<1>1. CASE PrepareFails
  BY <1>1 DEF PrepareFails, Preparing, Acquires, Queried, resources, armState,
     userVars, chipVars
<1>2. CASE PrepareFailsHalfway
  BY <1>2 DEF PrepareFailsHalfway, Preparing, Acquires, Queried, Kept, resources,
     armState, userVars, chipVars
<1>3. CASE PrepareHardware
  BY <1>3 DEF PrepareHardware, Preparing, Acquires, Queried, Allocates, resources,
     armState, userVars, chipVars
<1>4. CASE RevokeAllMappings
  BY <1>4 DEF RevokeAllMappings, Revoked, resources, armState, userVars, chipVars
<1>5. CASE ReleaseMappings
  BY <1>5 DEF ReleaseMappings, Unmaps, LockFree, resources, armState, userVars,
     chipVars
<1>6. CASE SysmemFree
  BY <1>6 DEF SysmemFree, Unmaps, resources, armState, userVars, chipVars
<1>7. ASSUME NEW t \in Threads, SysmemArm(t) PROVE LockDiscipline'
  BY <1>7 DEF SysmemArm, LockFree, resources, armState, userVars, chipVars
<1>8. ASSUME NEW t \in Threads, DetectPcieTile(t) PROVE LockDiscipline'
  BY <1>8 DEF DetectPcieTile, Unavailable, resources, armState, userVars, chipVars
<1>9. ASSUME NEW t \in Threads, IatuProgram(t) PROVE LockDiscipline'
  BY <1>9 DEF IatuProgram, resources, armState, userVars, chipVars
<1>10. ASSUME NEW t \in Threads, WriteMagic(t) PROVE LockDiscipline'
  BY <1>10 DEF WriteMagic, resources, armState, userVars, chipVars
<1>11. ASSUME NEW t \in Threads, ReadBack(t) PROVE LockDiscipline'
  BY <1>11 DEF ReadBack, Matches, Reaches, Offset, LastProbe, resources, armState,
     userVars, chipVars
<1>12. ASSUME NEW t \in Threads, Rezero(t) PROVE LockDiscipline'
  BY <1>12 DEF Rezero, Rezeroed, resources, armState, userVars, chipVars
<1>13. CASE Suspend
  BY <1>13 DEF Suspend, resources, armState, userVars, chipVars
<1>14. CASE SysmemInvalidate
  BY <1>14 DEF SysmemInvalidate, LockFree, resources, armState, userVars, chipVars
<1>15. CASE LeaveD0
  BY <1>15 DEF LeaveD0, ClearWindow, resources, armState, userVars, chipVars
<1>16. CASE EnterD0
  BY <1>16 DEF EnterD0, resources, armState, userVars, chipVars
<1>17. CASE RestrictDevice
  BY <1>17 DEF RestrictDevice, Dispatching, LockFree, resources, armState, userVars,
     chipVars
<1>18. CASE ChipResets
  BY <1>18 DEF ChipResets, ClearWindow, resources, armState, userVars, chipVars
<1>19. CASE PostReset
  BY <1>19 DEF PostReset, Dispatching, LockFree, resources, armState, userVars,
     chipVars
<1>20. CASE MapSysmem
  BY <1>20 DEF MapSysmem, Dispatching, LockFree, resources, armState, userVars,
     chipVars
<1>21. CASE MapView
  BY <1>21 DEF MapView, InBounds, NewView, resources, armState, userVars, chipVars
<1>22. CASE UnmapView
  BY <1>22 DEF UnmapView, Dispatching, resources, armState, userVars, chipVars
<1>23. CASE UserWrites
  BY <1>23 DEF UserWrites, resources, armState, userVars, chipVars
<1>24. CASE FileCleanup
  BY <1>24 DEF FileCleanup, resources, armState, userVars, chipVars
<1>25. CASE FileCleanupDestroy
  BY <1>25 DEF FileCleanupDestroy, resources, armState, userVars, chipVars
<1>26. CASE UNCHANGED vars
  BY <1>26 DEF vars
<1>. QED BY <1>1, <1>2, <1>3, <1>4, <1>5, <1>6, <1>7, <1>8, <1>9, <1>10, <1>11,
  <1>12, <1>13, <1>14, <1>15, <1>16, <1>17, <1>18, <1>19, <1>20, <1>21, <1>22,
  <1>23, <1>24, <1>25, <1>26 DEF Next, Arm

\* Whatever is acquired is behind one pointer.
LEMMA ResourceStep == ASSUME IInv, [Next]_vars PROVE ResourcesAccounted'
<1> USE ThreadsAssumption DEF IInv, TypeOK, ResourcesAccounted, BufferState,
    Pointers, BusIf, Required, BestEffort, At, Goto, Threads
<1>1. CASE PrepareFails
  <2>1. PICK new \in {{}, Queried} : pointers' = pointers \cup new /\ Acquires(new)
    BY <1>1 DEF PrepareFails
  <2>2. pointers \subseteq BusIf /\ heap = {}
    BY <1>1 DEF PrepareFails, Preparing
  <2>3. \A p \in Pointers : held'[p] = IF p \in pointers' THEN 1 ELSE 0
    BY <2>1, <2>2 DEF Acquires, Queried
  <2>. QED BY <1>1, <2>1, <2>2, <2>3 DEF PrepareFails, Preparing, Acquires, Queried,
     resources, armState, userVars, chipVars
<1>2. CASE PrepareFailsHalfway
  BY <1>2 DEF PrepareFailsHalfway, Preparing, Acquires, Queried, Kept, resources,
     armState, userVars, chipVars
<1>3. CASE PrepareHardware
  <2>1. PICK got \in SUBSET BestEffort :
           /\ pointers' = BusIf \cup Required \cup got
           /\ Acquires(Queried \cup Required \cup got)
    BY <1>3 DEF PrepareHardware
  <2>2. pointers \subseteq BusIf /\ heap = {} /\ buffer = nowhere
    BY <1>3 DEF PrepareHardware, Preparing
  <2>3. \A p \in Pointers : held'[p] = IF p \in pointers' THEN 1 ELSE 0
    BY <2>1, <2>2 DEF Acquires, Queried
  <2>4. heap' = {buffer'} \ {nowhere}
    BY <1>3, <2>2, PlacesAssumption DEF PrepareHardware, Allocates
  <2>. QED BY <1>3, <2>1, <2>2, <2>3, <2>4 DEF PrepareHardware, Preparing, Acquires,
     Queried, Allocates, resources, armState, userVars, chipVars
<1>4. CASE RevokeAllMappings
  BY <1>4 DEF RevokeAllMappings, Revoked, resources, armState, userVars, chipVars
<1>5. CASE ReleaseMappings
  BY <1>5 DEF ReleaseMappings, Unmaps, LockFree, resources, armState, userVars,
     chipVars
<1>6. CASE SysmemFree
  BY <1>6 DEF SysmemFree, Unmaps, resources, armState, userVars, chipVars
<1>7. ASSUME NEW t \in Threads, SysmemArm(t) PROVE ResourcesAccounted'
  BY <1>7 DEF SysmemArm, LockFree, resources, armState, userVars, chipVars
<1>8. ASSUME NEW t \in Threads, DetectPcieTile(t) PROVE ResourcesAccounted'
  BY <1>8 DEF DetectPcieTile, Unavailable, resources, armState, userVars, chipVars
<1>9. ASSUME NEW t \in Threads, IatuProgram(t) PROVE ResourcesAccounted'
  BY <1>9 DEF IatuProgram, resources, armState, userVars, chipVars
<1>10. ASSUME NEW t \in Threads, WriteMagic(t) PROVE ResourcesAccounted'
  BY <1>10 DEF WriteMagic, resources, armState, userVars, chipVars
<1>11. ASSUME NEW t \in Threads, ReadBack(t) PROVE ResourcesAccounted'
  BY <1>11 DEF ReadBack, Matches, Reaches, Offset, LastProbe, resources, armState,
     userVars, chipVars
<1>12. ASSUME NEW t \in Threads, Rezero(t) PROVE ResourcesAccounted'
  BY <1>12 DEF Rezero, Rezeroed, resources, armState, userVars, chipVars
<1>13. CASE Suspend
  BY <1>13 DEF Suspend, resources, armState, userVars, chipVars
<1>14. CASE SysmemInvalidate
  BY <1>14 DEF SysmemInvalidate, LockFree, resources, armState, userVars, chipVars
<1>15. CASE LeaveD0
  BY <1>15 DEF LeaveD0, ClearWindow, resources, armState, userVars, chipVars
<1>16. CASE EnterD0
  BY <1>16 DEF EnterD0, resources, armState, userVars, chipVars
<1>17. CASE RestrictDevice
  BY <1>17 DEF RestrictDevice, Dispatching, LockFree, resources, armState, userVars,
     chipVars
<1>18. CASE ChipResets
  BY <1>18 DEF ChipResets, ClearWindow, resources, armState, userVars, chipVars
<1>19. CASE PostReset
  BY <1>19 DEF PostReset, Dispatching, LockFree, resources, armState, userVars,
     chipVars
<1>20. CASE MapSysmem
  BY <1>20 DEF MapSysmem, Dispatching, LockFree, resources, armState, userVars,
     chipVars
<1>21. CASE MapView
  BY <1>21 DEF MapView, InBounds, NewView, resources, armState, userVars, chipVars
<1>22. CASE UnmapView
  BY <1>22 DEF UnmapView, Dispatching, resources, armState, userVars, chipVars
<1>23. CASE UserWrites
  BY <1>23 DEF UserWrites, resources, armState, userVars, chipVars
<1>24. CASE FileCleanup
  BY <1>24 DEF FileCleanup, resources, armState, userVars, chipVars
<1>25. CASE FileCleanupDestroy
  BY <1>25 DEF FileCleanupDestroy, resources, armState, userVars, chipVars
<1>26. CASE UNCHANGED vars
  BY <1>26 DEF vars
<1>. QED BY <1>1, <1>2, <1>3, <1>4, <1>5, <1>6, <1>7, <1>8, <1>9, <1>10, <1>11,
  <1>12, <1>13, <1>14, <1>15, <1>16, <1>17, <1>18, <1>19, <1>20, <1>21, <1>22,
  <1>23, <1>24, <1>25, <1>26 DEF Next, Arm

\* The context describes one buffer or none.
LEMMA BufferStep == ASSUME IInv, [Next]_vars PROVE BufferState'
<1> USE ThreadsAssumption, PlacesAssumption, TiersAssumption DEF IInv, TypeOK,
    BufferState, ResourcesAccounted, Pointers, BusIf, Required, BestEffort, At,
    Goto, Threads
<1>1. CASE PrepareFails
  BY <1>1 DEF PrepareFails, Preparing, Acquires, Queried, resources, armState,
     userVars, chipVars
<1>2. CASE PrepareFailsHalfway
  BY <1>2 DEF PrepareFailsHalfway, Preparing, Acquires, Queried, Kept, resources,
     armState, userVars, chipVars
<1>3. CASE PrepareHardware
  BY <1>3 DEF PrepareHardware, Preparing, Acquires, Queried, Allocates, resources,
     armState, userVars, chipVars
<1>4. CASE RevokeAllMappings
  BY <1>4 DEF RevokeAllMappings, Revoked, resources, armState, userVars, chipVars
<1>5. CASE ReleaseMappings
  BY <1>5 DEF ReleaseMappings, Unmaps, LockFree, resources, armState, userVars,
     chipVars
<1>6. CASE SysmemFree
  BY <1>6 DEF SysmemFree, Unmaps, resources, armState, userVars, chipVars
<1>7. ASSUME NEW t \in Threads, SysmemArm(t) PROVE BufferState'
  BY <1>7 DEF SysmemArm, LockFree, resources, armState, userVars, chipVars
<1>8. ASSUME NEW t \in Threads, DetectPcieTile(t) PROVE BufferState'
  BY <1>8 DEF DetectPcieTile, Unavailable, resources, armState, userVars, chipVars
<1>9. ASSUME NEW t \in Threads, IatuProgram(t) PROVE BufferState'
  BY <1>9 DEF IatuProgram, resources, armState, userVars, chipVars
<1>10. ASSUME NEW t \in Threads, WriteMagic(t) PROVE BufferState'
  BY <1>10 DEF WriteMagic, resources, armState, userVars, chipVars
<1>11. ASSUME NEW t \in Threads, ReadBack(t) PROVE BufferState'
  BY <1>11 DEF ReadBack, Matches, Reaches, Offset, LastProbe, resources, armState,
     userVars, chipVars
<1>12. ASSUME NEW t \in Threads, Rezero(t) PROVE BufferState'
  BY <1>12 DEF Rezero, Rezeroed, resources, armState, userVars, chipVars
<1>13. CASE Suspend
  BY <1>13 DEF Suspend, resources, armState, userVars, chipVars
<1>14. CASE SysmemInvalidate
  BY <1>14 DEF SysmemInvalidate, LockFree, resources, armState, userVars, chipVars
<1>15. CASE LeaveD0
  BY <1>15 DEF LeaveD0, ClearWindow, resources, armState, userVars, chipVars
<1>16. CASE EnterD0
  BY <1>16 DEF EnterD0, resources, armState, userVars, chipVars
<1>17. CASE RestrictDevice
  BY <1>17 DEF RestrictDevice, Dispatching, LockFree, resources, armState, userVars,
     chipVars
<1>18. CASE ChipResets
  BY <1>18 DEF ChipResets, ClearWindow, resources, armState, userVars, chipVars
<1>19. CASE PostReset
  BY <1>19 DEF PostReset, Dispatching, LockFree, resources, armState, userVars,
     chipVars
<1>20. CASE MapSysmem
  BY <1>20 DEF MapSysmem, Dispatching, LockFree, resources, armState, userVars,
     chipVars
<1>21. CASE MapView
  BY <1>21 DEF MapView, InBounds, NewView, resources, armState, userVars, chipVars
<1>22. CASE UnmapView
  BY <1>22 DEF UnmapView, Dispatching, resources, armState, userVars, chipVars
<1>23. CASE UserWrites
  BY <1>23 DEF UserWrites, resources, armState, userVars, chipVars
<1>24. CASE FileCleanup
  BY <1>24 DEF FileCleanup, resources, armState, userVars, chipVars
<1>25. CASE FileCleanupDestroy
  BY <1>25 DEF FileCleanupDestroy, resources, armState, userVars, chipVars
<1>26. CASE UNCHANGED vars
  BY <1>26 DEF vars
<1>. QED BY <1>1, <1>2, <1>3, <1>4, <1>5, <1>6, <1>7, <1>8, <1>9, <1>10, <1>11,
  <1>12, <1>13, <1>14, <1>15, <1>16, <1>17, <1>18, <1>19, <1>20, <1>21, <1>22,
  <1>23, <1>24, <1>25, <1>26 DEF Next, Arm

\* What an arm found when it began is there until it ends.
LEMMA ArmStep == ASSUME IInv, [Next]_vars PROVE ArmState'
<1> USE ThreadsAssumption DEF IInv, TypeOK, LockDiscipline, QueueRuns, ArmLabels,
    PnpLabels, Threads, At, Goto, ArmState, WindowReaches, Required, BusIf
<1>1. CASE PrepareFails
  BY <1>1 DEF PrepareFails, Preparing, Acquires, Queried, resources, armState,
     userVars, chipVars
<1>2. CASE PrepareFailsHalfway
  BY <1>2 DEF PrepareFailsHalfway, Preparing, Acquires, Queried, Kept, resources,
     armState, userVars, chipVars
<1>3. CASE PrepareHardware
  BY <1>3 DEF PrepareHardware, Preparing, Acquires, Queried, Allocates, resources,
     armState, userVars, chipVars
<1>4. CASE RevokeAllMappings
  BY <1>4 DEF RevokeAllMappings, Revoked, resources, armState, userVars, chipVars
<1>5. CASE ReleaseMappings
  BY <1>5 DEF ReleaseMappings, Unmaps, LockFree, resources, armState, userVars,
     chipVars
<1>6. CASE SysmemFree
  BY <1>6 DEF SysmemFree, Unmaps, resources, armState, userVars, chipVars
<1>7. ASSUME NEW t \in Threads, SysmemArm(t) PROVE ArmState'
  BY <1>7 DEF SysmemArm, LockFree, resources, armState, userVars, chipVars
<1>8. ASSUME NEW t \in Threads, DetectPcieTile(t) PROVE ArmState'
  BY <1>8 DEF DetectPcieTile, Unavailable, resources, armState, userVars, chipVars
<1>9. ASSUME NEW t \in Threads, IatuProgram(t) PROVE ArmState'
  BY <1>9 DEF IatuProgram, resources, armState, userVars, chipVars
<1>10. ASSUME NEW t \in Threads, WriteMagic(t) PROVE ArmState'
  BY <1>10 DEF WriteMagic, resources, armState, userVars, chipVars
<1>11. ASSUME NEW t \in Threads, ReadBack(t) PROVE ArmState'
  <2>1. ASSUME Matches, ~(probe < LastProbe) PROVE WindowReaches
    <3>1. Offset(3) = size - 1
      BY DEF Offset
    <3>2. probe = 3
      BY <2>1 DEF LastProbe, Cells
    <3>. QED BY <2>1, <3>1, <3>2 DEF Matches, Reaches
  <2>. QED BY <1>11, <2>1 DEF ReadBack, resources, userVars, chipVars
<1>12. ASSUME NEW t \in Threads, Rezero(t) PROVE ArmState'
  BY <1>12 DEF Rezero, Rezeroed, resources, armState, userVars, chipVars
<1>13. CASE Suspend
  BY <1>13 DEF Suspend, resources, armState, userVars, chipVars
<1>14. CASE SysmemInvalidate
  BY <1>14 DEF SysmemInvalidate, LockFree, resources, armState, userVars, chipVars
<1>15. CASE LeaveD0
  BY <1>15 DEF LeaveD0, ClearWindow, resources, armState, userVars, chipVars
<1>16. CASE EnterD0
  BY <1>16 DEF EnterD0, resources, armState, userVars, chipVars
<1>17. CASE RestrictDevice
  BY <1>17 DEF RestrictDevice, Dispatching, LockFree, resources, armState, userVars,
     chipVars
<1>18. CASE ChipResets
  BY <1>18 DEF ChipResets, ClearWindow, resources, armState, userVars, chipVars
<1>19. CASE PostReset
  BY <1>19 DEF PostReset, Dispatching, LockFree, resources, armState, userVars,
     chipVars
<1>20. CASE MapSysmem
  BY <1>20 DEF MapSysmem, Dispatching, LockFree, resources, armState, userVars,
     chipVars
<1>21. CASE MapView
  BY <1>21 DEF MapView, InBounds, NewView, resources, armState, userVars, chipVars
<1>22. CASE UnmapView
  BY <1>22 DEF UnmapView, Dispatching, resources, armState, userVars, chipVars
<1>23. CASE UserWrites
  BY <1>23 DEF UserWrites, resources, armState, userVars, chipVars
<1>24. CASE FileCleanup
  BY <1>24 DEF FileCleanup, resources, armState, userVars, chipVars
<1>25. CASE FileCleanupDestroy
  BY <1>25 DEF FileCleanupDestroy, resources, armState, userVars, chipVars
<1>26. CASE UNCHANGED vars
  BY <1>26 DEF vars
<1>. QED BY <1>1, <1>2, <1>3, <1>4, <1>5, <1>6, <1>7, <1>8, <1>9, <1>10, <1>11,
  <1>12, <1>13, <1>14, <1>15, <1>16, <1>17, <1>18, <1>19, <1>20, <1>21, <1>22,
  <1>23, <1>24, <1>25, <1>26 DEF Next, Arm

\* The magic is zeroed before the lock is dropped.
LEMMA MagicStep == ASSUME IInv, [Next]_vars PROVE MagicState'
<1> USE ThreadsAssumption DEF IInv, TypeOK, LockDiscipline, QueueRuns, ArmLabels,
    PnpLabels, Threads, At, Goto, MagicState, Cells
<1>1. CASE PrepareFails
  BY <1>1 DEF PrepareFails, Preparing, Acquires, Queried, resources, armState,
     userVars, chipVars
<1>2. CASE PrepareFailsHalfway
  BY <1>2 DEF PrepareFailsHalfway, Preparing, Acquires, Queried, Kept, resources,
     armState, userVars, chipVars
<1>3. CASE PrepareHardware
  BY <1>3 DEF PrepareHardware, Preparing, Acquires, Queried, Allocates, resources,
     armState, userVars, chipVars
<1>4. CASE RevokeAllMappings
  BY <1>4 DEF RevokeAllMappings, Revoked, resources, armState, userVars, chipVars
<1>5. CASE ReleaseMappings
  BY <1>5 DEF ReleaseMappings, Unmaps, LockFree, resources, armState, userVars,
     chipVars
<1>6. CASE SysmemFree
  BY <1>6 DEF SysmemFree, Unmaps, resources, armState, userVars, chipVars
<1>7. ASSUME NEW t \in Threads, SysmemArm(t) PROVE MagicState'
  BY <1>7 DEF SysmemArm, LockFree, resources, armState, userVars, chipVars
<1>8. ASSUME NEW t \in Threads, DetectPcieTile(t) PROVE MagicState'
  BY <1>8 DEF DetectPcieTile, Unavailable, resources, armState, userVars, chipVars
<1>9. ASSUME NEW t \in Threads, IatuProgram(t) PROVE MagicState'
  BY <1>9 DEF IatuProgram, resources, armState, userVars, chipVars
<1>10. ASSUME NEW t \in Threads, WriteMagic(t) PROVE MagicState'
  BY <1>10 DEF WriteMagic, resources, armState, userVars, chipVars
<1>11. ASSUME NEW t \in Threads, ReadBack(t) PROVE MagicState'
  BY <1>11 DEF ReadBack, Matches, Reaches, Offset, LastProbe, resources, armState,
     userVars, chipVars
<1>12. ASSUME NEW t \in Threads, Rezero(t) PROVE MagicState'
  BY <1>12 DEF Rezero, Rezeroed, resources, armState, userVars, chipVars
<1>13. CASE Suspend
  BY <1>13 DEF Suspend, resources, armState, userVars, chipVars
<1>14. CASE SysmemInvalidate
  BY <1>14 DEF SysmemInvalidate, LockFree, resources, armState, userVars, chipVars
<1>15. CASE LeaveD0
  BY <1>15 DEF LeaveD0, ClearWindow, resources, armState, userVars, chipVars
<1>16. CASE EnterD0
  BY <1>16 DEF EnterD0, resources, armState, userVars, chipVars
<1>17. CASE RestrictDevice
  BY <1>17 DEF RestrictDevice, Dispatching, LockFree, resources, armState, userVars,
     chipVars
<1>18. CASE ChipResets
  BY <1>18 DEF ChipResets, ClearWindow, resources, armState, userVars, chipVars
<1>19. CASE PostReset
  BY <1>19 DEF PostReset, Dispatching, LockFree, resources, armState, userVars,
     chipVars
<1>20. CASE MapSysmem
  BY <1>20 DEF MapSysmem, Dispatching, LockFree, resources, armState, userVars,
     chipVars
<1>21. CASE MapView
  BY <1>21 DEF MapView, InBounds, NewView, resources, armState, userVars, chipVars
<1>22. CASE UnmapView
  BY <1>22 DEF UnmapView, Dispatching, resources, armState, userVars, chipVars
<1>23. CASE UserWrites
  BY <1>23 DEF UserWrites, resources, armState, userVars, chipVars
<1>24. CASE FileCleanup
  BY <1>24 DEF FileCleanup, resources, armState, userVars, chipVars
<1>25. CASE FileCleanupDestroy
  BY <1>25 DEF FileCleanupDestroy, resources, armState, userVars, chipVars
<1>26. CASE UNCHANGED vars
  BY <1>26 DEF vars
<1>. QED BY <1>1, <1>2, <1>3, <1>4, <1>5, <1>6, <1>7, <1>8, <1>9, <1>10, <1>11,
  <1>12, <1>13, <1>14, <1>15, <1>16, <1>17, <1>18, <1>19, <1>20, <1>21, <1>22,
  <1>23, <1>24, <1>25, <1>26 DEF Next, Arm

\* Nothing links a view between the revocation and the next start.
LEMMA RevokedStep == ASSUME IInv, [Next]_vars PROVE RevokedState'
<1> USE ThreadsAssumption DEF IInv, TypeOK, LockDiscipline, QueueRuns, ArmLabels,
    PnpLabels, Threads, At, Goto, RevokedState
<1>1. CASE PrepareFails
  BY <1>1 DEF PrepareFails, Preparing, Acquires, Queried, resources, armState,
     userVars, chipVars
<1>2. CASE PrepareFailsHalfway
  BY <1>2 DEF PrepareFailsHalfway, Preparing, Acquires, Queried, Kept, resources,
     armState, userVars, chipVars
<1>3. CASE PrepareHardware
  BY <1>3 DEF PrepareHardware, Preparing, Acquires, Queried, Allocates, resources,
     armState, userVars, chipVars
<1>4. CASE RevokeAllMappings
  BY <1>4 DEF RevokeAllMappings, Revoked, resources, armState, userVars, chipVars
<1>5. CASE ReleaseMappings
  BY <1>5 DEF ReleaseMappings, Unmaps, LockFree, resources, armState, userVars,
     chipVars
<1>6. CASE SysmemFree
  BY <1>6 DEF SysmemFree, Unmaps, resources, armState, userVars, chipVars
<1>7. ASSUME NEW t \in Threads, SysmemArm(t) PROVE RevokedState'
  BY <1>7 DEF SysmemArm, LockFree, resources, armState, userVars, chipVars
<1>8. ASSUME NEW t \in Threads, DetectPcieTile(t) PROVE RevokedState'
  BY <1>8 DEF DetectPcieTile, Unavailable, resources, armState, userVars, chipVars
<1>9. ASSUME NEW t \in Threads, IatuProgram(t) PROVE RevokedState'
  BY <1>9 DEF IatuProgram, resources, armState, userVars, chipVars
<1>10. ASSUME NEW t \in Threads, WriteMagic(t) PROVE RevokedState'
  BY <1>10 DEF WriteMagic, resources, armState, userVars, chipVars
<1>11. ASSUME NEW t \in Threads, ReadBack(t) PROVE RevokedState'
  BY <1>11 DEF ReadBack, Matches, Reaches, Offset, LastProbe, resources, armState,
     userVars, chipVars
<1>12. ASSUME NEW t \in Threads, Rezero(t) PROVE RevokedState'
  BY <1>12 DEF Rezero, Rezeroed, resources, armState, userVars, chipVars
<1>13. CASE Suspend
  BY <1>13 DEF Suspend, resources, armState, userVars, chipVars
<1>14. CASE SysmemInvalidate
  BY <1>14 DEF SysmemInvalidate, LockFree, resources, armState, userVars, chipVars
<1>15. CASE LeaveD0
  BY <1>15 DEF LeaveD0, ClearWindow, resources, armState, userVars, chipVars
<1>16. CASE EnterD0
  BY <1>16 DEF EnterD0, resources, armState, userVars, chipVars
<1>17. CASE RestrictDevice
  BY <1>17 DEF RestrictDevice, Dispatching, LockFree, resources, armState, userVars,
     chipVars
<1>18. CASE ChipResets
  BY <1>18 DEF ChipResets, ClearWindow, resources, armState, userVars, chipVars
<1>19. CASE PostReset
  BY <1>19 DEF PostReset, Dispatching, LockFree, resources, armState, userVars,
     chipVars
<1>20. CASE MapSysmem
  BY <1>20 DEF MapSysmem, Dispatching, LockFree, resources, armState, userVars,
     chipVars
<1>21. CASE MapView
  BY <1>21 DEF MapView, InBounds, NewView, resources, armState, userVars, chipVars
<1>22. CASE UnmapView
  BY <1>22 DEF UnmapView, Dispatching, resources, armState, userVars, chipVars
<1>23. CASE UserWrites
  BY <1>23 DEF UserWrites, resources, armState, userVars, chipVars
<1>24. CASE FileCleanup
  BY <1>24 DEF FileCleanup, resources, armState, userVars, chipVars
<1>25. CASE FileCleanupDestroy
  BY <1>25 DEF FileCleanupDestroy, resources, armState, userVars, chipVars
<1>26. CASE UNCHANGED vars
  BY <1>26 DEF vars
<1>. QED BY <1>1, <1>2, <1>3, <1>4, <1>5, <1>6, <1>7, <1>8, <1>9, <1>10, <1>11,
  <1>12, <1>13, <1>14, <1>15, <1>16, <1>17, <1>18, <1>19, <1>20, <1>21, <1>22,
  <1>23, <1>24, <1>25, <1>26 DEF Next, Arm

\* What is advertised stays reachable.
LEMMA AdvertisedStep == ASSUME IInv, [Next]_vars PROVE AdvertisedWindowReaches'
<1> USE ThreadsAssumption, PlacesAssumption DEF IInv, TypeOK, LockDiscipline,
    QueueRuns, ArmLabels, PnpLabels, Threads, At, Goto, ArmState, WindowReaches,
    AdvertisedWindowReaches, PoweredDown, ResourcesAccounted, BufferState, Required, BusIf
<1>1. CASE PrepareFails
  BY <1>1 DEF PrepareFails, Preparing, Acquires, Queried, resources, armState,
     userVars, chipVars
<1>2. CASE PrepareFailsHalfway
  BY <1>2 DEF PrepareFailsHalfway, Preparing, Acquires, Queried, Kept, resources,
     armState, userVars, chipVars
<1>3. CASE PrepareHardware
  BY <1>3 DEF PrepareHardware, Preparing, Acquires, Queried, Allocates, resources,
     armState, userVars, chipVars
<1>4. CASE RevokeAllMappings
  BY <1>4 DEF RevokeAllMappings, Revoked, resources, armState, userVars, chipVars
<1>5. CASE ReleaseMappings
  BY <1>5 DEF ReleaseMappings, Unmaps, LockFree, resources, armState, userVars,
     chipVars
<1>6. CASE SysmemFree
  BY <1>6 DEF SysmemFree, Unmaps, resources, armState, userVars, chipVars
<1>7. ASSUME NEW t \in Threads, SysmemArm(t) PROVE AdvertisedWindowReaches'
  BY <1>7 DEF SysmemArm, LockFree, resources, armState, userVars, chipVars
<1>8. ASSUME NEW t \in Threads, DetectPcieTile(t) PROVE AdvertisedWindowReaches'
  BY <1>8 DEF DetectPcieTile, Unavailable, resources, armState, userVars, chipVars
<1>9. ASSUME NEW t \in Threads, IatuProgram(t) PROVE AdvertisedWindowReaches'
  BY <1>9 DEF IatuProgram, resources, armState, userVars, chipVars
<1>10. ASSUME NEW t \in Threads, WriteMagic(t) PROVE AdvertisedWindowReaches'
  BY <1>10 DEF WriteMagic, resources, armState, userVars, chipVars
<1>11. ASSUME NEW t \in Threads, ReadBack(t) PROVE AdvertisedWindowReaches'
  BY <1>11 DEF ReadBack, Matches, Reaches, Offset, LastProbe, resources, armState,
     userVars, chipVars
<1>12. ASSUME NEW t \in Threads, Rezero(t) PROVE AdvertisedWindowReaches'
  BY <1>12 DEF Rezero, Rezeroed, resources, armState, userVars, chipVars
<1>13. CASE Suspend
  BY <1>13 DEF Suspend, resources, armState, userVars, chipVars
<1>14. CASE SysmemInvalidate
  BY <1>14 DEF SysmemInvalidate, LockFree, resources, armState, userVars, chipVars
<1>15. CASE LeaveD0
  BY <1>15 DEF LeaveD0, ClearWindow, resources, armState, userVars, chipVars
<1>16. CASE EnterD0
  BY <1>16 DEF EnterD0, resources, armState, userVars, chipVars
<1>17. CASE RestrictDevice
  BY <1>17 DEF RestrictDevice, Dispatching, LockFree, resources, armState, userVars,
     chipVars
<1>18. CASE ChipResets
  BY <1>18 DEF ChipResets, ClearWindow, resources, armState, userVars, chipVars
<1>19. CASE PostReset
  BY <1>19 DEF PostReset, Dispatching, LockFree, resources, armState, userVars,
     chipVars
<1>20. CASE MapSysmem
  BY <1>20 DEF MapSysmem, Dispatching, LockFree, resources, armState, userVars,
     chipVars
<1>21. CASE MapView
  BY <1>21 DEF MapView, InBounds, NewView, resources, armState, userVars, chipVars
<1>22. CASE UnmapView
  BY <1>22 DEF UnmapView, Dispatching, resources, armState, userVars, chipVars
<1>23. CASE UserWrites
  BY <1>23 DEF UserWrites, resources, armState, userVars, chipVars
<1>24. CASE FileCleanup
  BY <1>24 DEF FileCleanup, resources, armState, userVars, chipVars
<1>25. CASE FileCleanupDestroy
  BY <1>25 DEF FileCleanupDestroy, resources, armState, userVars, chipVars
<1>26. CASE UNCHANGED vars
  BY <1>26 DEF vars
<1>. QED BY <1>1, <1>2, <1>3, <1>4, <1>5, <1>6, <1>7, <1>8, <1>9, <1>10, <1>11,
  <1>12, <1>13, <1>14, <1>15, <1>16, <1>17, <1>18, <1>19, <1>20, <1>21, <1>22,
  <1>23, <1>24, <1>25, <1>26 DEF Next, Arm

\* Linked views stay inside the buffer.
LEMMA ViewsStep == ASSUME IInv, [Next]_vars PROVE ViewsInsideBuffer'
<1> USE ThreadsAssumption, PlacesAssumption DEF IInv, TypeOK, LockDiscipline,
    QueueRuns, ArmLabels, PnpLabels, Threads, At, Goto, ViewsInsideBuffer,
    RevokedState, ResourcesAccounted, BufferState
<1>1. CASE PrepareFails
  BY <1>1 DEF PrepareFails, Preparing, Acquires, Queried, resources, armState,
     userVars, chipVars
<1>2. CASE PrepareFailsHalfway
  BY <1>2 DEF PrepareFailsHalfway, Preparing, Acquires, Queried, Kept, resources,
     armState, userVars, chipVars
<1>3. CASE PrepareHardware
  BY <1>3 DEF PrepareHardware, Preparing, Acquires, Queried, Allocates, resources,
     armState, userVars, chipVars
<1>4. CASE RevokeAllMappings
  BY <1>4 DEF RevokeAllMappings, Revoked, resources, armState, userVars, chipVars
<1>5. CASE ReleaseMappings
  BY <1>5 DEF ReleaseMappings, Unmaps, LockFree, resources, armState, userVars,
     chipVars
<1>6. CASE SysmemFree
  BY <1>6 DEF SysmemFree, Unmaps, resources, armState, userVars, chipVars
<1>7. ASSUME NEW t \in Threads, SysmemArm(t) PROVE ViewsInsideBuffer'
  BY <1>7 DEF SysmemArm, LockFree, resources, armState, userVars, chipVars
<1>8. ASSUME NEW t \in Threads, DetectPcieTile(t) PROVE ViewsInsideBuffer'
  BY <1>8 DEF DetectPcieTile, Unavailable, resources, armState, userVars, chipVars
<1>9. ASSUME NEW t \in Threads, IatuProgram(t) PROVE ViewsInsideBuffer'
  BY <1>9 DEF IatuProgram, resources, armState, userVars, chipVars
<1>10. ASSUME NEW t \in Threads, WriteMagic(t) PROVE ViewsInsideBuffer'
  BY <1>10 DEF WriteMagic, resources, armState, userVars, chipVars
<1>11. ASSUME NEW t \in Threads, ReadBack(t) PROVE ViewsInsideBuffer'
  BY <1>11 DEF ReadBack, Matches, Reaches, Offset, LastProbe, resources, armState,
     userVars, chipVars
<1>12. ASSUME NEW t \in Threads, Rezero(t) PROVE ViewsInsideBuffer'
  BY <1>12 DEF Rezero, Rezeroed, resources, armState, userVars, chipVars
<1>13. CASE Suspend
  BY <1>13 DEF Suspend, resources, armState, userVars, chipVars
<1>14. CASE SysmemInvalidate
  BY <1>14 DEF SysmemInvalidate, LockFree, resources, armState, userVars, chipVars
<1>15. CASE LeaveD0
  BY <1>15 DEF LeaveD0, ClearWindow, resources, armState, userVars, chipVars
<1>16. CASE EnterD0
  BY <1>16 DEF EnterD0, resources, armState, userVars, chipVars
<1>17. CASE RestrictDevice
  BY <1>17 DEF RestrictDevice, Dispatching, LockFree, resources, armState, userVars,
     chipVars
<1>18. CASE ChipResets
  BY <1>18 DEF ChipResets, ClearWindow, resources, armState, userVars, chipVars
<1>19. CASE PostReset
  BY <1>19 DEF PostReset, Dispatching, LockFree, resources, armState, userVars,
     chipVars
<1>20. CASE MapSysmem
  BY <1>20 DEF MapSysmem, Dispatching, LockFree, resources, armState, userVars,
     chipVars
<1>21. CASE MapView
  <2>1. ASSUME NEW r \in MapRequests, NEW a \in Addresses, r[2] # 0,
               InBounds(r[1], r[2])
        PROVE  LET v == NewView(a, r[1], r[2])
               IN  /\ buffer \in heap
                   /\ AlignedDown(buffer) <= v.first /\ v.end <= buffer + size
    <3>1. r[1] \in Nat /\ r[2] \in Nat
      BY RequestsAssumption
    <3>2. size \in Nat
      BY SizeFacts
    <3>3. buffer # nowhere
      BY <2>1, <3>1, <3>2 DEF InBounds
    <3>4. buffer \in heap /\ buffer \in Nat
      BY <3>3
    <3>5. AlignedDown(buffer) <= AlignedDown(buffer + r[1])
      BY <3>1, <3>4, AlignedDownMonotone
    <3>6. buffer + r[1] + r[2] <= buffer + size
      BY <2>1, <3>1, <3>2, <3>4 DEF InBounds
    <3>. QED BY <3>4, <3>5, <3>6 DEF NewView
  <2>. QED BY <1>21, <2>1 DEF MapView, InBounds, NewView, resources, armState,
     userVars, chipVars
<1>22. CASE UnmapView
  BY <1>22 DEF UnmapView, Dispatching, resources, armState, userVars, chipVars
<1>23. CASE UserWrites
  BY <1>23 DEF UserWrites, resources, armState, userVars, chipVars
<1>24. CASE FileCleanup
  BY <1>24 DEF FileCleanup, resources, armState, userVars, chipVars
<1>25. CASE FileCleanupDestroy
  BY <1>25 DEF FileCleanupDestroy, resources, armState, userVars, chipVars
<1>26. CASE UNCHANGED vars
  BY <1>26 DEF vars
<1>. QED BY <1>1, <1>2, <1>3, <1>4, <1>5, <1>6, <1>7, <1>8, <1>9, <1>10, <1>11,
  <1>12, <1>13, <1>14, <1>15, <1>16, <1>17, <1>18, <1>19, <1>20, <1>21, <1>22,
  <1>23, <1>24, <1>25, <1>26 DEF Next, Arm

\* Every step keeps the types.
LEMMA TypeStep == ASSUME IInv, [Next]_vars PROVE TypeOK'
<1> USE ThreadsAssumption DEF IInv, TypeOK, LockDiscipline, QueueRuns, ArmLabels,
    PnpLabels, Threads, At, Goto, Sizes, Stages, Cells
<1>1. CASE PrepareFails
  <2>1. held' = [p \in Pointers |-> held'[p]] /\ pointers' \subseteq Pointers
    BY <1>1 DEF PrepareFails, Acquires, Queried, Pointers
  <2>2. held' \in [Pointers -> 0 .. 1]
    BY <2>1, ResourceStep DEF ResourcesAccounted
  <2>. QED BY <1>1, <2>1, <2>2 DEF PrepareFails, Preparing, Acquires, Queried,
     resources, armState, userVars, chipVars
<1>2. CASE PrepareFailsHalfway
  <2>1. held' = [p \in Pointers |-> held'[p]] /\ pointers' \subseteq Pointers
    BY <1>2 DEF PrepareFailsHalfway, Acquires, Kept, Pointers
  <2>2. held' \in [Pointers -> 0 .. 1]
    BY <2>1, ResourceStep DEF ResourcesAccounted
  <2>. QED BY <1>2, <2>1, <2>2 DEF PrepareFailsHalfway, Preparing, Acquires,
     Queried, Kept, resources, armState, userVars, chipVars
<1>3. CASE PrepareHardware
  <2>1. held' = [p \in Pointers |-> held'[p]] /\ pointers' \subseteq Pointers
    BY <1>3 DEF PrepareHardware, Acquires, Pointers
  <2>2. held' \in [Pointers -> 0 .. 1]
    BY <2>1, ResourceStep DEF ResourcesAccounted
  <2>. QED BY <1>3, <2>1, <2>2 DEF PrepareHardware, Preparing, Acquires, Queried,
     Allocates, resources, armState, userVars, chipVars
<1>4. CASE RevokeAllMappings
  BY <1>4 DEF RevokeAllMappings, Revoked, resources, armState, userVars, chipVars
<1>5. CASE ReleaseMappings
  <2>1. held' = [p \in Pointers |-> held'[p]] /\ pointers' \subseteq Pointers
    BY <1>5 DEF ReleaseMappings, Unmaps
  <2>2. held' \in [Pointers -> 0 .. 1]
    BY <2>1, ResourceStep DEF ResourcesAccounted
  <2>. QED BY <1>5, <2>1, <2>2 DEF ReleaseMappings, Unmaps, LockFree, resources,
     armState, userVars, chipVars
<1>6. CASE SysmemFree
  <2>1. held' = [p \in Pointers |-> held'[p]] /\ pointers' \subseteq Pointers
    BY <1>6 DEF SysmemFree, Unmaps
  <2>2. held' \in [Pointers -> 0 .. 1]
    BY <2>1, ResourceStep DEF ResourcesAccounted
  <2>. QED BY <1>6, <2>1, <2>2 DEF SysmemFree, Unmaps, resources, armState,
     userVars, chipVars
<1>7. ASSUME NEW t \in Threads, SysmemArm(t) PROVE TypeOK'
  <2>1. /\ verified' = FALSE
        /\ UNCHANGED <<needsHwInit, resources, tileFound, probe, passed, cells, userVars,
                       chipVars>>
    BY <1>7 DEF SysmemArm
  <2>2. CASE /\ Goto(t, "idle") /\ UNCHANGED arcLock
             /\ stage' \in {stage, "no_alloc", "no_regs"}
    BY <2>1, <2>2 DEF resources, userVars, chipVars
  <2>3. CASE Goto(t, "tile") /\ arcLock' = t /\ stage' = "tile_detect"
    BY <2>1, <2>3 DEF resources, userVars, chipVars
  <2>. QED BY <1>7, <2>2, <2>3 DEF SysmemArm
<1>8. ASSUME NEW t \in Threads, DetectPcieTile(t) PROVE TypeOK'
  <2>1. UNCHANGED <<needsHwInit, resources, verified, probe, passed, cells, userVars,
                    chipVars>>
    BY <1>8 DEF DetectPcieTile
  <2>2. CASE /\ tileFound' = TRUE /\ stage' = "iatu"
             /\ Goto(t, "iatu") /\ UNCHANGED arcLock
    BY <2>1, <2>2 DEF resources, userVars, chipVars
  <2>3. CASE Unavailable(t) /\ UNCHANGED <<tileFound, stage>>
    BY <2>1, <2>3 DEF Unavailable, resources, userVars, chipVars
  <2>. QED BY <1>8, <2>2, <2>3 DEF DetectPcieTile
<1>9. ASSUME NEW t \in Threads, IatuProgram(t) PROVE TypeOK'
  <2>1. size - 1 \in Nat
    <3>1. buffer # nowhere
      BY <1>9 DEF IatuProgram, ArmState
    <3>2. size \in Tiers
      BY <3>1 DEF BufferState, Sizes
    <3>. QED BY <3>2, TierFacts
  <2>2. limit' \in Nat
    BY <1>9, <2>1 DEF IatuProgram
  <2>3. target' \in Places \cup {nowhere}
    BY <1>9 DEF IatuProgram
  <2>4. enabled' \in BOOLEAN
    BY <1>9 DEF IatuProgram
  <2>5. /\ pc' = [pc EXCEPT ![t] = "magic"]
        /\ stage' \in Stages /\ probe' \in Cells /\ passed' \in BOOLEAN
    BY <1>9 DEF IatuProgram
  <2>. QED BY <1>9, <2>2, <2>3, <2>4, <2>5 DEF IatuProgram, resources, userVars
<1>10. ASSUME NEW t \in Threads, WriteMagic(t) PROVE TypeOK'
  BY <1>10 DEF WriteMagic, resources, armState, userVars, chipVars
<1>11. ASSUME NEW t \in Threads, ReadBack(t) PROVE TypeOK'
  <2>1. probe' \in Cells
    BY <1>11 DEF ReadBack, LastProbe, Cells
  <2>2. pc' = [pc EXCEPT ![t] = "rezero"] \/ pc' = pc
    BY <1>11 DEF ReadBack
  <2>3. passed' \in BOOLEAN
    BY <1>11 DEF ReadBack
  <2>. QED BY <1>11, <2>1, <2>2, <2>3 DEF ReadBack, resources, userVars, chipVars
<1>12. ASSUME NEW t \in Threads, Rezero(t) PROVE TypeOK'
  BY <1>12 DEF Rezero, Rezeroed, resources, armState, userVars, chipVars
<1>13. CASE Suspend
  BY <1>13 DEF Suspend, resources, armState, userVars, chipVars
<1>14. CASE SysmemInvalidate
  BY <1>14 DEF SysmemInvalidate, LockFree, resources, armState, userVars, chipVars
<1>15. CASE LeaveD0
  <2>1. CASE ClearWindow
    BY <1>15, <2>1 DEF LeaveD0, ClearWindow, resources, armState, userVars
  <2>2. CASE UNCHANGED chipVars
    BY <1>15, <2>2 DEF LeaveD0, chipVars, resources, armState, userVars
  <2>. QED BY <1>15, <2>1, <2>2 DEF LeaveD0
<1>16. CASE EnterD0
  BY <1>16 DEF EnterD0, resources, armState, userVars, chipVars
<1>17. CASE RestrictDevice
  BY <1>17 DEF RestrictDevice, Dispatching, LockFree, resources, armState, userVars,
     chipVars
<1>18. CASE ChipResets
  BY <1>18 DEF ChipResets, ClearWindow, resources, armState, userVars, chipVars
<1>19. CASE PostReset
  BY <1>19 DEF PostReset, Dispatching, LockFree, resources, armState, userVars,
     chipVars
<1>20. CASE MapSysmem
  BY <1>20 DEF MapSysmem, Dispatching, LockFree, resources, armState, userVars,
     chipVars
<1>21. CASE MapView
  <2>1. views' \subseteq Views /\ views \subseteq views'
    <3>1. ASSUME NEW r \in MapRequests, NEW a \in Addresses, r[2] # 0,
                 InBounds(r[1], r[2])
          PROVE  NewView(a, r[1], r[2]) \in Views
      <4>1. /\ r[1] \in 0 .. WordModulus - 1 /\ r[2] \in 0 .. WordModulus - 1
        BY RequestsAssumption
      <4>2. buffer \in Nat
        BY <3>1, <4>1, PlacesAssumption DEF InBounds, BufferState
      <4>3. AlignedDown(buffer + r[1]) \in Nat
        BY <4>1, <4>2, AlignedDownMonotone, RequestsAssumption
      <4>. QED BY <4>1, <4>2, <4>3, RequestsAssumption DEF NewView, Views
    <3>. QED BY <1>21, <3>1 DEF MapView
  <2>. QED BY <1>21, <2>1 DEF MapView, InBounds, NewView, resources, armState,
     userVars, chipVars
<1>22. CASE UnmapView
  BY <1>22 DEF UnmapView, Dispatching, resources, armState, userVars, chipVars
<1>23. CASE UserWrites
  BY <1>23 DEF UserWrites, resources, armState, userVars, chipVars
<1>24. CASE FileCleanup
  BY <1>24 DEF FileCleanup, resources, armState, userVars, chipVars
<1>25. CASE FileCleanupDestroy
  BY <1>25 DEF FileCleanupDestroy, resources, armState, userVars, chipVars
<1>26. CASE UNCHANGED vars
  BY <1>26 DEF vars
<1>. QED BY <1>1, <1>2, <1>3, <1>4, <1>5, <1>6, <1>7, <1>8, <1>9, <1>10, <1>11,
  <1>12, <1>13, <1>14, <1>15, <1>16, <1>17, <1>18, <1>19, <1>20, <1>21, <1>22,
  <1>23, <1>24, <1>25, <1>26 DEF Next, Arm

-----------------------------------------------------------------------------
\* The inductive invariant: what is acquired, what an arm has checked, where the
\* probe pattern is, and what of the buffer is lent.
THEOREM Invariance == Spec => []IInv
<1>1. Init => IInv
  <2> SUFFICES ASSUME Init PROVE IInv
    OBVIOUS
  <2>1. TypeOK
    <3>1. held \in [Pointers -> 0 .. 1] /\ limit \in Nat
      BY DEF Init
    <3>2. pc \in [Threads -> {"idle", "map", "arm"} \cup ArmLabels \cup PnpLabels]
      BY DEF Init, PnpLabels
    <3>3. probe \in Cells /\ cells \in [Cells -> {"zero", "magic", "data"}]
      BY DEF Init, Cells
    <3>. QED BY <3>1, <3>2, <3>3 DEF Init, TypeOK, Sizes, Stages
  <2>2. LockDiscipline
    BY ThreadsAssumption
    DEF Init, LockDiscipline, QueueRuns, ArmLabels, PnpLabels, Threads, At
  <2>3. ResourcesAccounted /\ BufferState
    BY ThreadsAssumption DEF Init, ResourcesAccounted, BufferState, Threads, At
  <2>4. ArmState /\ MagicState /\ RevokedState
    BY ThreadsAssumption
    DEF Init, ArmState, MagicState, RevokedState, ArmLabels, Threads, At
  <2>5. AdvertisedWindowReaches /\ ViewsInsideBuffer
    BY DEF Init, AdvertisedWindowReaches, ViewsInsideBuffer
  <2>. QED BY <2>1, <2>2, <2>3, <2>4, <2>5 DEF IInv
<1>2. IInv /\ [Next]_vars => IInv'
  BY TypeStep, LockStep, ResourceStep, BufferStep, ArmStep, MagicStep, RevokedStep,
     AdvertisedStep, ViewsStep DEF IInv
<1>. QED BY <1>1, <1>2, PTL DEF Spec

\* Every variable keeps to its type.
THEOREM TypeCorrect == Spec => []TypeOK
<1>1. IInv => TypeOK
  BY DEF IInv
<1>. QED BY <1>1, Invariance, PTL

\* Kernel mappings, the bus reference and the buffer are given back exactly
\* once, also after starts that failed half-way (device.c:237-262, 365-419).
THEOREM ResourcesBalance == Spec => []ResourcesAccounted
<1>1. IInv => ResourcesAccounted
  BY DEF IInv
<1>. QED BY <1>1, Invariance, PTL

\* The window of verified sysmem opens on the live buffer, from its first page
\* to its last, except between D0 exit and the next arm or the release of the
\* hardware (sysmem.c:24-32).
THEOREM AdvertisedReaches == Spec => []AdvertisedWindowReaches
<1>1. IInv => AdvertisedWindowReaches
  BY DEF IInv
<1>. QED BY <1>1, Invariance, PTL

\* The loopback leaves no pattern behind, whatever its outcome and whoever
\* writes meanwhile (sysmem.c:294-295).
THEOREM MagicCleared == Spec => []NoMagicLeft
<1>1. IInv => NoMagicLeft
  <2> SUFFICES ASSUME IInv, LockFree PROVE \A i \in Cells : cells[i] # "magic"
    BY DEF NoMagicLeft
  <2>1. \A t \in Threads : pc[t] \notin ArmLabels
    BY ThreadsAssumption DEF IInv, LockDiscipline, LockFree, Threads
  <2>. QED BY <2>1 DEF IInv, MagicState, ArmLabels
<1>. QED BY <1>1, Invariance, PTL

\* No program is handed pages beyond the end of the buffer, or more before it
\* than the buffer misses the granularity by, or keeps linked pages of one that
\* was freed (sysmem.c:52-58, 142-160, 616-622).
THEOREM ViewsBounded == Spec => []ViewsInsideBuffer
<1>1. IInv => ViewsInsideBuffer
  BY DEF IInv
<1>. QED BY <1>1, Invariance, PTL

=============================================================================
