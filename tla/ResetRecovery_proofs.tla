------------------------ MODULE ResetRecovery_proofs ------------------------
(***************************************************************************)
(* Proofs about ResetRecovery for any number of power-up tries, power      *)
(* transitions, rebalances and link losses, on every platform.  What rests *)
(* on the link is proved until the reset is no longer Orderly.             *)
(***************************************************************************)
EXTENDS ResetRecovery, TLAPS

\* The labels at which a thread is inside a critical section of ArcLock.
CallbackMmio == {"power_mmio", "setting_mmio", "arm_mmio", "down_mmio", "state3_mmio"}
LockLabels == ResetLabels \cup PostLabels \cup CallbackMmio

\* Each thread runs its own code, holds ArcLock exactly inside its critical
\* sections, and the queue is empty while the device is out of D0.
LockDiscipline ==
    /\ pc[queue] \in {"idle", "io_mmio", "r_lock", "p_lock"} \cup ResetLabels
                        \cup PostLabels \cup PowerLabels
    /\ pc[pnp] \in {"idle"} \cup PowerLabels \cup DownLabels
    /\ \A t \in Threads : arcLock = t <=> pc[t] \in LockLabels
    /\ At(pnp, "dx") => At(queue, "idle")

\* What a thread found when it was let past a check of NeedsHwInit still
\* holds: the flag changes on the queue and under ArcLock only.
RestrictionState ==
    /\ At(queue, "io_mmio") => ~needsHwInit
    /\ \A t \in Threads : pc[t] \in CallbackMmio => ~needsHwInit
    /\ At(queue, "r_arm") => needsHwInit
    /\ pc[queue] \in PostLabels \ {"p_pending"} => needsHwInit /\ saved # NoImage

\* As long as the reset is orderly, RESET_DEVICE arms a chip that is marked,
\* and POST_RESET writes COMMAND only once no timer runs.
MarkerState ==
    /\ PendingIsMarked
    /\ Orderly =>
        /\ pc[queue] \in {"r_restrict", "r_arm"} /\ link => marker
        /\ pc[queue] \in {"p_restore", "p_resave", "gate_mmio"} => ~armed

\* As long as the reset is orderly: past its checks POST_RESET has a device on
\* the bus, and the image in use is that of one that worked.
ImageState ==
    Orderly =>
        /\ pc[queue] \in {"p_restore", "p_resave", "gate_mmio"} => link
        /\ pc[queue] \in {"r_mark", "r_restrict"} => saved \in Assignments
        /\ At(queue, "p_resave") => config \in Assignments

IInv == /\ TypeOK
        /\ LockDiscipline
        /\ RestrictionState
        /\ MarkerState
        /\ ImageState
        /\ UnrestrictedIsWhole
        /\ SavedImageGood
        /\ DarkWhileRestricted

-----------------------------------------------------------------------------
\* Every step keeps the types.
LEMMA TypeStep == ASSUME IInv, [Next]_vars PROVE TypeOK'
<1> USE DEF IInv, TypeOK, Threads, At, Goto, Assignments, ResetLabels,
    PostLabels, PowerLabels, DownLabels
<1>1. CASE DeviceIoctl
  BY <1>1 DEF DeviceIoctl, Dispatching, driverVars, chipVars, bounds
<1>2. CASE DeviceIoctlDone
  BY <1>2 DEF DeviceIoctlDone, driverVars, chipVars, bounds
<1>3. CASE StartReset
  BY <1>3 DEF StartReset, Dispatching, driverVars, chipVars, bounds
<1>4. CASE StartPostReset
  BY <1>4 DEF StartPostReset, Dispatching, driverVars, chipVars, bounds
<1>5. CASE ResetLock
  BY <1>5 DEF ResetLock, Lock, LockFree, driverVars, chipVars, bounds
<1>6. CASE ResetPresent
  BY <1>6 DEF ResetPresent, GiveUp, Release, driverVars, chipVars, bounds
<1>7. CASE ResetSave
  BY <1>7 DEF ResetSave, SaveNeeded, LiveImage, GiveUp, Release, driverVars,
     chipVars, bounds
<1>8. CASE ResetMark
  <2>1. marker' \in BOOLEAN
    BY <1>8 DEF ResetMark, Marked
  <2>2. CASE Goto(queue, "r_restrict") /\ UNCHANGED arcLock
    BY <1>8, <2>1, <2>2 DEF ResetMark, driverVars, bounds
  <2>3. CASE GiveUp
    BY <1>8, <2>1, <2>3 DEF ResetMark, GiveUp, Release, driverVars, bounds
  <2>. QED BY <1>8, <2>2, <2>3 DEF ResetMark
<1>9. CASE ResetRestrict
  BY <1>9 DEF ResetRestrict, Dark, driverVars, chipVars, bounds
<1>10. CASE ResetArm
  BY <1>10 DEF ResetArm, Release, driverVars, chipVars, bounds
<1>11. CASE PostLock
  BY <1>11 DEF PostLock, Lock, LockFree, driverVars, chipVars, bounds
<1>12. CASE PostPending
  BY <1>12 DEF PostPending, GiveUp, Release, driverVars, chipVars, bounds
<1>13. CASE PostPresent
  BY <1>13 DEF PostPresent, GiveUp, Release, driverVars, chipVars, bounds
<1>14. CASE PostMarker
  BY <1>14 DEF PostMarker, ResetPending, GiveUp, Release, driverVars, chipVars,
     bounds
<1>15. CASE PostRestore
  BY <1>15 DEF PostRestore, driverVars, chipVars, bounds, RestrictionState
<1>16. CASE PostRestoreFails
  BY <1>16 DEF PostRestoreFails, GiveUp, Release, driverVars, chipVars, bounds
<1>17. CASE PostResave
  BY <1>17 DEF PostResave, LiveImage, driverVars, chipVars, bounds
<1>18. CASE PostGatePass
  <2>1. 1 \in 1 .. MaxTries
    BY BoundsAssumption
  <2>. QED BY <1>18, <2>1 DEF PostGatePass, Release, driverVars, chipVars,
     bounds
<1>19. CASE PostGateFails
  BY <1>19 DEF PostGateFails, GiveUp, Release, driverVars, chipVars, bounds
<1>20. ASSUME NEW t \in Threads, PowerUp(t) PROVE TypeOK'
  BY <1>20 DEF PowerUp, LockFree, Refused, driverVars, chipVars, bounds
<1>21. ASSUME NEW t \in Threads, PowerUpDone(t) PROVE TypeOK'
  BY <1>21, BoundsAssumption DEF PowerUpDone, TriesLeft, Release, driverVars,
     chipVars, bounds
<1>22. ASSUME NEW t \in Threads, SysmemArm(t) PROVE TypeOK'
  <2>1. verified' = FALSE
        /\ UNCHANGED <<attempt, needsHwInit, saved, mapped, chipVars, bounds>>
    BY <1>22 DEF SysmemArm
  <2>2. CASE arcLock' = t /\ Goto(t, "arm_mmio")
    BY <2>1, <2>2 DEF chipVars, bounds
  <2>3. CASE Goto(t, "idle") /\ UNCHANGED arcLock
    BY <2>1, <2>3 DEF chipVars, bounds
  <2>. QED BY <1>22, <2>2, <2>3 DEF SysmemArm
<1>23. ASSUME NEW t \in Threads, SysmemArmed(t) PROVE TypeOK'
  BY <1>23 DEF SysmemArmed, Release, driverVars, chipVars, bounds
<1>24. CASE Suspend
  BY <1>24, BoundsAssumption DEF Suspend, driverVars, chipVars, bounds
<1>25. CASE SysmemInvalidate
  BY <1>25 DEF SysmemInvalidate, LockFree, driverVars, chipVars, bounds
<1>26. CASE PowerDown
  BY <1>26 DEF PowerDown, LockFree, Refused, AfterDown, driverVars, chipVars,
     bounds
<1>27. CASE PowerDownDone
  BY <1>27 DEF PowerDownDone, AfterDown, Release, driverVars, chipVars, bounds
<1>28. CASE LeaveD0
  BY <1>28 DEF LeaveD0, driverVars, chipVars, bounds
<1>29. CASE Rebalance
  <2>1. mapped + 1 \in Assignments
    BY <1>29, BoundsAssumption DEF Rebalance
  <2>. QED BY <1>29, <2>1 DEF Rebalance, driverVars, chipVars, bounds
<1>30. CASE EnterD0
  BY <1>30 DEF EnterD0, driverVars, chipVars, bounds
<1>31. CASE ChipResets
  BY <1>31 DEF ChipResets, driverVars, chipVars, bounds
<1>32. CASE ChipReturns
  BY <1>32 DEF ChipReturns, driverVars, chipVars, bounds
<1>33. CASE LinkFlaps
  <2>1. flaps + 1 \in 0 .. MaxFlaps
    BY <1>33, BoundsAssumption DEF LinkFlaps
  <2>. QED BY <1>33, <2>1 DEF LinkFlaps, driverVars, chipVars, bounds
<1>34. CASE UNCHANGED vars
  BY <1>34 DEF vars
<1>. QED BY <1>1, <1>2, <1>3, <1>4, <1>5, <1>6, <1>7, <1>8, <1>9, <1>10, <1>11,
  <1>12, <1>13, <1>14, <1>15, <1>16, <1>17, <1>18, <1>19, <1>20, <1>21, <1>22,
  <1>23, <1>24, <1>25, <1>26, <1>27, <1>28, <1>29, <1>30, <1>31, <1>32, <1>33,
  <1>34 DEF Next, Handler, PowerTail, PowerCallback, Chip

\* Every step keeps the critical sections apart.
LEMMA LockStep == ASSUME IInv, [Next]_vars PROVE LockDiscipline'
<1> USE DEF IInv, TypeOK, LockDiscipline, LockLabels, CallbackMmio, ResetLabels,
    PostLabels, PowerLabels, DownLabels, Threads, At, Goto
<1>1. CASE DeviceIoctl
  BY <1>1, ThreadsAssumption DEF DeviceIoctl, Dispatching, driverVars, chipVars,
     bounds
<1>2. CASE DeviceIoctlDone
  BY <1>2, ThreadsAssumption DEF DeviceIoctlDone, driverVars, chipVars, bounds
<1>3. CASE StartReset
  BY <1>3, ThreadsAssumption DEF StartReset, Dispatching, driverVars, chipVars,
     bounds
<1>4. CASE StartPostReset
  BY <1>4, ThreadsAssumption DEF StartPostReset, Dispatching, driverVars,
     chipVars, bounds
<1>5. CASE ResetLock
  BY <1>5, ThreadsAssumption DEF ResetLock, Lock, LockFree, driverVars,
     chipVars, bounds
<1>6. CASE ResetPresent
  BY <1>6, ThreadsAssumption DEF ResetPresent, GiveUp, Release, driverVars,
     chipVars, bounds
<1>7. CASE ResetSave
  BY <1>7, ThreadsAssumption DEF ResetSave, SaveNeeded, LiveImage, GiveUp,
     Release, driverVars, chipVars, bounds
<1>8. CASE ResetMark
  BY <1>8, ThreadsAssumption DEF ResetMark, Marked, GiveUp, Release, driverVars,
     chipVars, bounds
<1>9. CASE ResetRestrict
  BY <1>9, ThreadsAssumption DEF ResetRestrict, Dark, driverVars, chipVars,
     bounds
<1>10. CASE ResetArm
  BY <1>10, ThreadsAssumption DEF ResetArm, Release, driverVars, chipVars,
     bounds
<1>11. CASE PostLock
  BY <1>11, ThreadsAssumption DEF PostLock, Lock, LockFree, driverVars,
     chipVars, bounds
<1>12. CASE PostPending
  BY <1>12, ThreadsAssumption DEF PostPending, GiveUp, Release, driverVars,
     chipVars, bounds
<1>13. CASE PostPresent
  BY <1>13, ThreadsAssumption DEF PostPresent, GiveUp, Release, driverVars,
     chipVars, bounds
<1>14. CASE PostMarker
  BY <1>14, ThreadsAssumption DEF PostMarker, ResetPending, GiveUp, Release,
     driverVars, chipVars, bounds
<1>15. CASE PostRestore
  BY <1>15, ThreadsAssumption DEF PostRestore, driverVars, chipVars, bounds
<1>16. CASE PostRestoreFails
  BY <1>16, ThreadsAssumption DEF PostRestoreFails, GiveUp, Release, driverVars,
     chipVars, bounds
<1>17. CASE PostResave
  BY <1>17, ThreadsAssumption DEF PostResave, LiveImage, driverVars, chipVars,
     bounds
<1>18. CASE PostGatePass
  BY <1>18, ThreadsAssumption DEF PostGatePass, Release, driverVars, chipVars,
     bounds
<1>19. CASE PostGateFails
  BY <1>19, ThreadsAssumption DEF PostGateFails, GiveUp, Release, driverVars,
     chipVars, bounds
<1>20. ASSUME NEW t \in Threads, PowerUp(t) PROVE LockDiscipline'
  BY <1>20, ThreadsAssumption DEF PowerUp, LockFree, Refused, driverVars,
     chipVars, bounds
<1>21. ASSUME NEW t \in Threads, PowerUpDone(t) PROVE LockDiscipline'
  BY <1>21, ThreadsAssumption DEF PowerUpDone, TriesLeft, Release, driverVars,
     chipVars, bounds
<1>22. ASSUME NEW t \in Threads, SysmemArm(t) PROVE LockDiscipline'
  BY <1>22, ThreadsAssumption DEF SysmemArm, LockFree, Refused, driverVars,
     chipVars, bounds
<1>23. ASSUME NEW t \in Threads, SysmemArmed(t) PROVE LockDiscipline'
  BY <1>23, ThreadsAssumption DEF SysmemArmed, Release, driverVars, chipVars,
     bounds
<1>24. CASE Suspend
  BY <1>24, ThreadsAssumption DEF Suspend, driverVars, chipVars, bounds
<1>25. CASE SysmemInvalidate
  BY <1>25, ThreadsAssumption DEF SysmemInvalidate, LockFree, driverVars,
     chipVars, bounds
<1>26. CASE PowerDown
  BY <1>26, ThreadsAssumption DEF PowerDown, LockFree, Refused, AfterDown,
     driverVars, chipVars, bounds
<1>27. CASE PowerDownDone
  BY <1>27, ThreadsAssumption DEF PowerDownDone, AfterDown, Release, driverVars,
     chipVars, bounds
<1>28. CASE LeaveD0
  BY <1>28, ThreadsAssumption DEF LeaveD0, driverVars, chipVars, bounds
<1>29. CASE Rebalance
  BY <1>29, ThreadsAssumption DEF Rebalance, driverVars, chipVars, bounds
<1>30. CASE EnterD0
  BY <1>30, ThreadsAssumption DEF EnterD0, driverVars, chipVars, bounds
<1>31. CASE ChipResets
  BY <1>31, ThreadsAssumption DEF ChipResets, driverVars, chipVars, bounds
<1>32. CASE ChipReturns
  BY <1>32, ThreadsAssumption DEF ChipReturns, driverVars, chipVars, bounds
<1>33. CASE LinkFlaps
  BY <1>33, ThreadsAssumption DEF LinkFlaps, driverVars, chipVars, bounds
<1>34. CASE UNCHANGED vars
  BY <1>34 DEF vars
<1>. QED BY <1>1, <1>2, <1>3, <1>4, <1>5, <1>6, <1>7, <1>8, <1>9, <1>10, <1>11,
  <1>12, <1>13, <1>14, <1>15, <1>16, <1>17, <1>18, <1>19, <1>20, <1>21, <1>22,
  <1>23, <1>24, <1>25, <1>26, <1>27, <1>28, <1>29, <1>30, <1>31, <1>32, <1>33,
  <1>34 DEF Next, Handler, PowerTail, PowerCallback, Chip

\* What was found in NeedsHwInit stays true for as long as it is relied on.
LEMMA RestrictionStep == ASSUME IInv, [Next]_vars PROVE RestrictionState'
<1> USE DEF IInv, TypeOK, LockDiscipline, LockLabels, CallbackMmio, ResetLabels,
    PostLabels, PowerLabels, DownLabels, Threads, At, Goto, RestrictionState,
    NoImage, Junk, Assignments
<1>1. CASE DeviceIoctl \/ DeviceIoctlDone \/ StartReset \/ StartPostReset
  BY <1>1, ThreadsAssumption DEF DeviceIoctl, Dispatching, DeviceIoctlDone,
     StartReset, StartPostReset, driverVars, chipVars, bounds
<1>2. CASE ResetLock \/ ResetPresent
  BY <1>2, ThreadsAssumption DEF ResetLock, Lock, LockFree, ResetPresent,
     GiveUp, Release, driverVars, chipVars, bounds
<1>3. CASE ResetSave
  BY <1>3, ThreadsAssumption DEF ResetSave, SaveNeeded, LiveImage, GiveUp,
     Release, driverVars, chipVars, bounds
<1>4. CASE ResetMark
  BY <1>4, ThreadsAssumption DEF ResetMark, Marked, GiveUp, Release, driverVars,
     chipVars, bounds
<1>5. CASE ResetRestrict
  BY <1>5, ThreadsAssumption DEF ResetRestrict, Dark, driverVars, chipVars,
     bounds
<1>6. CASE ResetArm
  BY <1>6, ThreadsAssumption DEF ResetArm, Release, driverVars, chipVars, bounds
<1>7. CASE PostLock \/ PostPending \/ PostPresent
  BY <1>7, ThreadsAssumption DEF PostLock, Lock, LockFree, PostPending, GiveUp,
     Release, PostPresent, driverVars, chipVars, bounds
<1>8. CASE PostMarker
  BY <1>8, ThreadsAssumption DEF PostMarker, ResetPending, GiveUp, Release,
     driverVars, chipVars, bounds
<1>9. CASE PostRestore
  BY <1>9, ThreadsAssumption DEF PostRestore, driverVars, chipVars, bounds
<1>10. CASE PostRestoreFails
  BY <1>10, ThreadsAssumption DEF PostRestoreFails, GiveUp, Release, driverVars,
     chipVars, bounds
<1>11. CASE PostResave
  BY <1>11, ThreadsAssumption DEF PostResave, LiveImage, driverVars, chipVars,
     bounds
<1>12. CASE PostGatePass
  BY <1>12, ThreadsAssumption DEF PostGatePass, Release, driverVars, chipVars,
     bounds
<1>13. CASE PostGateFails
  BY <1>13, ThreadsAssumption DEF PostGateFails, GiveUp, Release, driverVars,
     chipVars, bounds
<1>14. ASSUME NEW t \in Threads, PowerUp(t) PROVE RestrictionState'
  BY <1>14, ThreadsAssumption DEF PowerUp, LockFree, Refused, driverVars,
     chipVars, bounds
<1>15. ASSUME NEW t \in Threads, PowerUpDone(t) PROVE RestrictionState'
  BY <1>15, ThreadsAssumption DEF PowerUpDone, TriesLeft, Release, driverVars,
     chipVars, bounds
<1>16. ASSUME NEW t \in Threads, SysmemArm(t) PROVE RestrictionState'
  BY <1>16, ThreadsAssumption DEF SysmemArm, LockFree, Refused, driverVars,
     chipVars, bounds
<1>17. ASSUME NEW t \in Threads, SysmemArmed(t) PROVE RestrictionState'
  BY <1>17, ThreadsAssumption DEF SysmemArmed, Release, driverVars, chipVars,
     bounds
<1>18. CASE Suspend \/ SysmemInvalidate \/ PowerDown \/ PowerDownDone
  BY <1>18, ThreadsAssumption DEF Suspend, SysmemInvalidate, LockFree,
     PowerDown, Refused, AfterDown, PowerDownDone, Release, driverVars,
     chipVars, bounds
<1>19. CASE LeaveD0 \/ Rebalance \/ EnterD0
  BY <1>19, ThreadsAssumption DEF LeaveD0, Rebalance, EnterD0, driverVars,
     chipVars, bounds
<1>20. CASE ChipResets
  BY <1>20, ThreadsAssumption DEF ChipResets, driverVars, chipVars, bounds
<1>21. CASE ChipReturns
  BY <1>21, ThreadsAssumption DEF ChipReturns, driverVars, chipVars, bounds
<1>22. CASE LinkFlaps
  BY <1>22, ThreadsAssumption DEF LinkFlaps, driverVars, chipVars, bounds
<1>23. CASE UNCHANGED vars
  BY <1>23 DEF vars
<1>. QED BY <1>1, <1>2, <1>3, <1>4, <1>5, <1>6, <1>7, <1>8, <1>9, <1>10, <1>11,
  <1>12, <1>13, <1>14, <1>15, <1>16, <1>17, <1>18, <1>19, <1>20, <1>21, <1>22,
  <1>23 DEF Next, Handler, PowerTail, PowerCallback, Chip

\* A pending timer stays marked.
LEMMA MarkerStep == ASSUME IInv, [Next]_vars PROVE MarkerState'
<1> USE DEF IInv, TypeOK, LockDiscipline, LockLabels, CallbackMmio, ResetLabels,
    PostLabels, PowerLabels, DownLabels, Threads, At, Goto, MarkerState,
    PendingIsMarked, Orderly
<1>1. CASE DeviceIoctl \/ DeviceIoctlDone \/ StartReset \/ StartPostReset
  BY <1>1, ThreadsAssumption DEF DeviceIoctl, Dispatching, DeviceIoctlDone,
     StartReset, StartPostReset, driverVars, chipVars, bounds
<1>2. CASE ResetLock \/ ResetPresent
  BY <1>2, ThreadsAssumption DEF ResetLock, Lock, LockFree, ResetPresent,
     GiveUp, Release, driverVars, chipVars, bounds
<1>3. CASE ResetSave
  BY <1>3, ThreadsAssumption DEF ResetSave, SaveNeeded, LiveImage, GiveUp,
     Release, driverVars, chipVars, bounds
<1>4. CASE ResetMark
  BY <1>4, ThreadsAssumption DEF ResetMark, Marked, GiveUp, Release, driverVars,
     chipVars, bounds
<1>5. CASE ResetRestrict
  BY <1>5, ThreadsAssumption DEF ResetRestrict, Dark, driverVars, chipVars,
     bounds
<1>6. CASE ResetArm
  BY <1>6, ThreadsAssumption DEF ResetArm, Release, driverVars, chipVars, bounds
<1>7. CASE PostLock \/ PostPending \/ PostPresent
  BY <1>7, ThreadsAssumption DEF PostLock, Lock, LockFree, PostPending, GiveUp,
     Release, PostPresent, driverVars, chipVars, bounds
<1>8. CASE PostMarker
  BY <1>8, ThreadsAssumption DEF PostMarker, ResetPending, GiveUp, Release,
     driverVars, chipVars, bounds
<1>9. CASE PostRestore
  BY <1>9, ThreadsAssumption DEF PostRestore, driverVars, chipVars, bounds
<1>10. CASE PostRestoreFails
  BY <1>10, ThreadsAssumption DEF PostRestoreFails, GiveUp, Release, driverVars,
     chipVars, bounds
<1>11. CASE PostResave
  BY <1>11, ThreadsAssumption DEF PostResave, LiveImage, driverVars, chipVars,
     bounds
<1>12. CASE PostGatePass
  BY <1>12, ThreadsAssumption DEF PostGatePass, Release, driverVars, chipVars,
     bounds
<1>13. CASE PostGateFails
  BY <1>13, ThreadsAssumption DEF PostGateFails, GiveUp, Release, driverVars,
     chipVars, bounds
<1>14. ASSUME NEW t \in Threads, PowerUp(t) PROVE MarkerState'
  BY <1>14, ThreadsAssumption DEF PowerUp, LockFree, Refused, driverVars,
     chipVars, bounds
<1>15. ASSUME NEW t \in Threads, PowerUpDone(t) PROVE MarkerState'
  BY <1>15, ThreadsAssumption DEF PowerUpDone, TriesLeft, Release, driverVars,
     chipVars, bounds
<1>16. ASSUME NEW t \in Threads, SysmemArm(t) PROVE MarkerState'
  BY <1>16, ThreadsAssumption DEF SysmemArm, LockFree, Refused, driverVars,
     chipVars, bounds
<1>17. ASSUME NEW t \in Threads, SysmemArmed(t) PROVE MarkerState'
  BY <1>17, ThreadsAssumption DEF SysmemArmed, Release, driverVars, chipVars,
     bounds
<1>18. CASE Suspend \/ SysmemInvalidate \/ PowerDown \/ PowerDownDone
  BY <1>18, ThreadsAssumption DEF Suspend, SysmemInvalidate, LockFree,
     PowerDown, Refused, AfterDown, PowerDownDone, Release, driverVars,
     chipVars, bounds
<1>19. CASE LeaveD0 \/ Rebalance \/ EnterD0
  BY <1>19, ThreadsAssumption DEF LeaveD0, Rebalance, EnterD0, driverVars,
     chipVars, bounds
<1>20. CASE ChipResets
  BY <1>20, ThreadsAssumption DEF ChipResets, driverVars, chipVars, bounds
<1>21. CASE ChipReturns
  BY <1>21, ThreadsAssumption DEF ChipReturns, driverVars, chipVars, bounds
<1>22. CASE LinkFlaps
  BY <1>22, ThreadsAssumption DEF LinkFlaps, driverVars, chipVars, bounds
<1>23. CASE UNCHANGED vars
  BY <1>23 DEF vars
<1>. QED BY <1>1, <1>2, <1>3, <1>4, <1>5, <1>6, <1>7, <1>8, <1>9, <1>10, <1>11,
  <1>12, <1>13, <1>14, <1>15, <1>16, <1>17, <1>18, <1>19, <1>20, <1>21, <1>22,
  <1>23 DEF Next, Handler, PowerTail, PowerCallback, Chip

\* Up to the gate and up to the restriction, the device and the image are
\* what the checks found.
LEMMA ImageStep == ASSUME IInv, [Next]_vars PROVE ImageState'
<1> USE DEF IInv, TypeOK, LockDiscipline, LockLabels, CallbackMmio, ResetLabels,
    PostLabels, PowerLabels, DownLabels, Threads, At, Goto, RestrictionState,
    MarkerState, ImageState, UnrestrictedIsWhole, SavedImageGood,
    PendingIsMarked, Orderly
<1>1. CASE DeviceIoctl \/ DeviceIoctlDone \/ StartReset \/ StartPostReset
  BY <1>1, ThreadsAssumption DEF DeviceIoctl, Dispatching, DeviceIoctlDone,
     StartReset, StartPostReset, driverVars, chipVars, bounds
<1>2. CASE ResetLock \/ ResetPresent
  BY <1>2, ThreadsAssumption DEF ResetLock, Lock, LockFree, ResetPresent,
     GiveUp, Release, driverVars, chipVars, bounds
<1>3. CASE ResetSave
  BY <1>3, ThreadsAssumption DEF ResetSave, SaveNeeded, LiveImage, GiveUp,
     Release, driverVars, chipVars, bounds
<1>4. CASE ResetMark
  BY <1>4, ThreadsAssumption DEF ResetMark, Marked, GiveUp, Release, driverVars,
     chipVars, bounds
<1>5. CASE ResetRestrict
  BY <1>5, ThreadsAssumption DEF ResetRestrict, Dark, driverVars, chipVars,
     bounds
<1>6. CASE ResetArm
  BY <1>6, ThreadsAssumption DEF ResetArm, Release, driverVars, chipVars, bounds
<1>7. CASE PostLock \/ PostPending \/ PostPresent
  BY <1>7, ThreadsAssumption DEF PostLock, Lock, LockFree, PostPending, GiveUp,
     Release, PostPresent, driverVars, chipVars, bounds
<1>8. CASE PostMarker
  BY <1>8, ThreadsAssumption DEF PostMarker, ResetPending, GiveUp, Release,
     driverVars, chipVars, bounds
<1>9. CASE PostRestore
  BY <1>9, ThreadsAssumption DEF PostRestore, driverVars, chipVars, bounds
<1>10. CASE PostRestoreFails
  BY <1>10, ThreadsAssumption DEF PostRestoreFails, GiveUp, Release, driverVars,
     chipVars, bounds
<1>11. CASE PostResave
  BY <1>11, ThreadsAssumption DEF PostResave, LiveImage, driverVars, chipVars,
     bounds
<1>12. CASE PostGatePass
  BY <1>12, ThreadsAssumption DEF PostGatePass, Release, driverVars, chipVars,
     bounds
<1>13. CASE PostGateFails
  BY <1>13, ThreadsAssumption DEF PostGateFails, GiveUp, Release, driverVars,
     chipVars, bounds
<1>14. ASSUME NEW t \in Threads, PowerUp(t) PROVE ImageState'
  BY <1>14, ThreadsAssumption DEF PowerUp, LockFree, Refused, driverVars,
     chipVars, bounds
<1>15. ASSUME NEW t \in Threads, PowerUpDone(t) PROVE ImageState'
  BY <1>15, ThreadsAssumption DEF PowerUpDone, TriesLeft, Release, driverVars,
     chipVars, bounds
<1>16. ASSUME NEW t \in Threads, SysmemArm(t) PROVE ImageState'
  BY <1>16, ThreadsAssumption DEF SysmemArm, LockFree, Refused, driverVars,
     chipVars, bounds
<1>17. ASSUME NEW t \in Threads, SysmemArmed(t) PROVE ImageState'
  BY <1>17, ThreadsAssumption DEF SysmemArmed, Release, driverVars, chipVars,
     bounds
<1>18. CASE Suspend \/ SysmemInvalidate \/ PowerDown \/ PowerDownDone
  BY <1>18, ThreadsAssumption DEF Suspend, SysmemInvalidate, LockFree,
     PowerDown, Refused, AfterDown, PowerDownDone, Release, driverVars,
     chipVars, bounds
<1>19. CASE LeaveD0 \/ Rebalance \/ EnterD0
  BY <1>19, ThreadsAssumption DEF LeaveD0, Rebalance, EnterD0, driverVars,
     chipVars, bounds
<1>20. CASE ChipResets
  BY <1>20, ThreadsAssumption DEF ChipResets, driverVars, chipVars, bounds
<1>21. CASE ChipReturns
  BY <1>21, ThreadsAssumption DEF ChipReturns, driverVars, chipVars, bounds
<1>22. CASE LinkFlaps
  BY <1>22, ThreadsAssumption DEF LinkFlaps, driverVars, chipVars, bounds
<1>23. CASE UNCHANGED vars
  BY <1>23 DEF vars
<1>. QED BY <1>1, <1>2, <1>3, <1>4, <1>5, <1>6, <1>7, <1>8, <1>9, <1>10, <1>11,
  <1>12, <1>13, <1>14, <1>15, <1>16, <1>17, <1>18, <1>19, <1>20, <1>21, <1>22,
  <1>23 DEF Next, Handler, PowerTail, PowerCallback, Chip

\* The restricted state is left only with a device that is whole.
LEMMA WholeStep == ASSUME IInv, [Next]_vars PROVE UnrestrictedIsWhole'
<1> USE DEF IInv, TypeOK, LockDiscipline, LockLabels, CallbackMmio, ResetLabels,
    PostLabels, PowerLabels, DownLabels, Threads, At, Goto, RestrictionState,
    MarkerState, ImageState, UnrestrictedIsWhole, Orderly
<1>1. CASE DeviceIoctl \/ DeviceIoctlDone \/ StartReset \/ StartPostReset
  BY <1>1, ThreadsAssumption DEF DeviceIoctl, Dispatching, DeviceIoctlDone,
     StartReset, StartPostReset, driverVars, chipVars, bounds
<1>2. CASE ResetLock \/ ResetPresent
  BY <1>2, ThreadsAssumption DEF ResetLock, Lock, LockFree, ResetPresent,
     GiveUp, Release, driverVars, chipVars, bounds
<1>3. CASE ResetSave
  BY <1>3, ThreadsAssumption DEF ResetSave, SaveNeeded, LiveImage, GiveUp,
     Release, driverVars, chipVars, bounds
<1>4. CASE ResetMark
  BY <1>4, ThreadsAssumption DEF ResetMark, Marked, GiveUp, Release, driverVars,
     chipVars, bounds
<1>5. CASE ResetRestrict
  BY <1>5, ThreadsAssumption DEF ResetRestrict, Dark, driverVars, chipVars,
     bounds
<1>6. CASE ResetArm
  BY <1>6, ThreadsAssumption DEF ResetArm, Release, driverVars, chipVars, bounds
<1>7. CASE PostLock \/ PostPending \/ PostPresent
  BY <1>7, ThreadsAssumption DEF PostLock, Lock, LockFree, PostPending, GiveUp,
     Release, PostPresent, driverVars, chipVars, bounds
<1>8. CASE PostMarker
  BY <1>8, ThreadsAssumption DEF PostMarker, ResetPending, GiveUp, Release,
     driverVars, chipVars, bounds
<1>9. CASE PostRestore
  BY <1>9, ThreadsAssumption DEF PostRestore, driverVars, chipVars, bounds
<1>10. CASE PostRestoreFails
  BY <1>10, ThreadsAssumption DEF PostRestoreFails, GiveUp, Release, driverVars,
     chipVars, bounds
<1>11. CASE PostResave
  BY <1>11, ThreadsAssumption DEF PostResave, LiveImage, driverVars, chipVars,
     bounds
<1>12. CASE PostGatePass
  BY <1>12, ThreadsAssumption DEF PostGatePass, Release, driverVars, chipVars,
     bounds
<1>13. CASE PostGateFails
  BY <1>13, ThreadsAssumption DEF PostGateFails, GiveUp, Release, driverVars,
     chipVars, bounds
<1>14. ASSUME NEW t \in Threads, PowerUp(t) PROVE UnrestrictedIsWhole'
  BY <1>14, ThreadsAssumption DEF PowerUp, LockFree, Refused, driverVars,
     chipVars, bounds
<1>15. ASSUME NEW t \in Threads, PowerUpDone(t) PROVE UnrestrictedIsWhole'
  BY <1>15, ThreadsAssumption DEF PowerUpDone, TriesLeft, Release, driverVars,
     chipVars, bounds
<1>16. ASSUME NEW t \in Threads, SysmemArm(t) PROVE UnrestrictedIsWhole'
  BY <1>16, ThreadsAssumption DEF SysmemArm, LockFree, Refused, driverVars,
     chipVars, bounds
<1>17. ASSUME NEW t \in Threads, SysmemArmed(t) PROVE UnrestrictedIsWhole'
  BY <1>17, ThreadsAssumption DEF SysmemArmed, Release, driverVars, chipVars,
     bounds
<1>18. CASE Suspend \/ SysmemInvalidate \/ PowerDown \/ PowerDownDone
  BY <1>18, ThreadsAssumption DEF Suspend, SysmemInvalidate, LockFree,
     PowerDown, Refused, AfterDown, PowerDownDone, Release, driverVars,
     chipVars, bounds
<1>19. CASE LeaveD0 \/ Rebalance \/ EnterD0
  BY <1>19, ThreadsAssumption DEF LeaveD0, Rebalance, EnterD0, driverVars,
     chipVars, bounds
<1>20. CASE ChipResets
  BY <1>20, ThreadsAssumption DEF ChipResets, driverVars, chipVars, bounds
<1>21. CASE ChipReturns
  BY <1>21, ThreadsAssumption DEF ChipReturns, driverVars, chipVars, bounds
<1>22. CASE LinkFlaps
  BY <1>22, ThreadsAssumption DEF LinkFlaps, driverVars, chipVars, bounds
<1>23. CASE UNCHANGED vars
  BY <1>23 DEF vars
<1>. QED BY <1>1, <1>2, <1>3, <1>4, <1>5, <1>6, <1>7, <1>8, <1>9, <1>10, <1>11,
  <1>12, <1>13, <1>14, <1>15, <1>16, <1>17, <1>18, <1>19, <1>20, <1>21, <1>22,
  <1>23 DEF Next, Handler, PowerTail, PowerCallback, Chip

\* The restricted state is entered only with a good image.
LEMMA SavedStep == ASSUME IInv, [Next]_vars PROVE SavedImageGood'
<1> USE DEF IInv, TypeOK, LockDiscipline, LockLabels, CallbackMmio, ResetLabels,
    PostLabels, PowerLabels, DownLabels, Threads, At, Goto, RestrictionState,
    MarkerState, ImageState, UnrestrictedIsWhole, SavedImageGood,
    Orderly
<1>1. CASE DeviceIoctl \/ DeviceIoctlDone \/ StartReset \/ StartPostReset
  BY <1>1, ThreadsAssumption DEF DeviceIoctl, Dispatching, DeviceIoctlDone,
     StartReset, StartPostReset, driverVars, chipVars, bounds
<1>2. CASE ResetLock \/ ResetPresent
  BY <1>2, ThreadsAssumption DEF ResetLock, Lock, LockFree, ResetPresent,
     GiveUp, Release, driverVars, chipVars, bounds
<1>3. CASE ResetSave
  BY <1>3, ThreadsAssumption DEF ResetSave, SaveNeeded, LiveImage, GiveUp,
     Release, driverVars, chipVars, bounds
<1>4. CASE ResetMark
  BY <1>4, ThreadsAssumption DEF ResetMark, Marked, GiveUp, Release, driverVars,
     chipVars, bounds
<1>5. CASE ResetRestrict
  BY <1>5, ThreadsAssumption DEF ResetRestrict, Dark, driverVars, chipVars,
     bounds
<1>6. CASE ResetArm
  BY <1>6, ThreadsAssumption DEF ResetArm, Release, driverVars, chipVars, bounds
<1>7. CASE PostLock \/ PostPending \/ PostPresent
  BY <1>7, ThreadsAssumption DEF PostLock, Lock, LockFree, PostPending, GiveUp,
     Release, PostPresent, driverVars, chipVars, bounds
<1>8. CASE PostMarker
  BY <1>8, ThreadsAssumption DEF PostMarker, ResetPending, GiveUp, Release,
     driverVars, chipVars, bounds
<1>9. CASE PostRestore
  BY <1>9, ThreadsAssumption DEF PostRestore, driverVars, chipVars, bounds
<1>10. CASE PostRestoreFails
  BY <1>10, ThreadsAssumption DEF PostRestoreFails, GiveUp, Release, driverVars,
     chipVars, bounds
<1>11. CASE PostResave
  BY <1>11, ThreadsAssumption DEF PostResave, LiveImage, driverVars, chipVars,
     bounds
<1>12. CASE PostGatePass
  BY <1>12, ThreadsAssumption DEF PostGatePass, Release, driverVars, chipVars,
     bounds
<1>13. CASE PostGateFails
  BY <1>13, ThreadsAssumption DEF PostGateFails, GiveUp, Release, driverVars,
     chipVars, bounds
<1>14. ASSUME NEW t \in Threads, PowerUp(t) PROVE SavedImageGood'
  BY <1>14, ThreadsAssumption DEF PowerUp, LockFree, Refused, driverVars,
     chipVars, bounds
<1>15. ASSUME NEW t \in Threads, PowerUpDone(t) PROVE SavedImageGood'
  BY <1>15, ThreadsAssumption DEF PowerUpDone, TriesLeft, Release, driverVars,
     chipVars, bounds
<1>16. ASSUME NEW t \in Threads, SysmemArm(t) PROVE SavedImageGood'
  BY <1>16, ThreadsAssumption DEF SysmemArm, LockFree, Refused, driverVars,
     chipVars, bounds
<1>17. ASSUME NEW t \in Threads, SysmemArmed(t) PROVE SavedImageGood'
  BY <1>17, ThreadsAssumption DEF SysmemArmed, Release, driverVars, chipVars,
     bounds
<1>18. CASE Suspend \/ SysmemInvalidate \/ PowerDown \/ PowerDownDone
  BY <1>18, ThreadsAssumption DEF Suspend, SysmemInvalidate, LockFree,
     PowerDown, Refused, AfterDown, PowerDownDone, Release, driverVars,
     chipVars, bounds
<1>19. CASE LeaveD0 \/ Rebalance \/ EnterD0
  BY <1>19, ThreadsAssumption DEF LeaveD0, Rebalance, EnterD0, driverVars,
     chipVars, bounds
<1>20. CASE ChipResets
  BY <1>20, ThreadsAssumption DEF ChipResets, driverVars, chipVars, bounds
<1>21. CASE ChipReturns
  BY <1>21, ThreadsAssumption DEF ChipReturns, driverVars, chipVars, bounds
<1>22. CASE LinkFlaps
  BY <1>22, ThreadsAssumption DEF LinkFlaps, driverVars, chipVars, bounds
<1>23. CASE UNCHANGED vars
  BY <1>23 DEF vars
<1>. QED BY <1>1, <1>2, <1>3, <1>4, <1>5, <1>6, <1>7, <1>8, <1>9, <1>10, <1>11,
  <1>12, <1>13, <1>14, <1>15, <1>16, <1>17, <1>18, <1>19, <1>20, <1>21, <1>22,
  <1>23 DEF Next, Handler, PowerTail, PowerCallback, Chip

\* Nothing arms sysmem in the restricted state.
LEMMA DarkStep == ASSUME IInv, [Next]_vars PROVE DarkWhileRestricted'
<1> USE DEF IInv, TypeOK, LockDiscipline, LockLabels, CallbackMmio, ResetLabels,
    PostLabels, PowerLabels, DownLabels, Threads, At, Goto, RestrictionState,
    DarkWhileRestricted
<1>1. CASE DeviceIoctl \/ DeviceIoctlDone \/ StartReset \/ StartPostReset
  BY <1>1, ThreadsAssumption DEF DeviceIoctl, Dispatching, DeviceIoctlDone,
     StartReset, StartPostReset, driverVars, chipVars, bounds
<1>2. CASE ResetLock \/ ResetPresent
  BY <1>2, ThreadsAssumption DEF ResetLock, Lock, LockFree, ResetPresent,
     GiveUp, Release, driverVars, chipVars, bounds
<1>3. CASE ResetSave
  BY <1>3, ThreadsAssumption DEF ResetSave, SaveNeeded, LiveImage, GiveUp,
     Release, driverVars, chipVars, bounds
<1>4. CASE ResetMark
  BY <1>4, ThreadsAssumption DEF ResetMark, Marked, GiveUp, Release, driverVars,
     chipVars, bounds
<1>5. CASE ResetRestrict
  BY <1>5, ThreadsAssumption DEF ResetRestrict, Dark, driverVars, chipVars,
     bounds
<1>6. CASE ResetArm
  BY <1>6, ThreadsAssumption DEF ResetArm, Release, driverVars, chipVars, bounds
<1>7. CASE PostLock \/ PostPending \/ PostPresent
  BY <1>7, ThreadsAssumption DEF PostLock, Lock, LockFree, PostPending, GiveUp,
     Release, PostPresent, driverVars, chipVars, bounds
<1>8. CASE PostMarker
  BY <1>8, ThreadsAssumption DEF PostMarker, ResetPending, GiveUp, Release,
     driverVars, chipVars, bounds
<1>9. CASE PostRestore
  BY <1>9, ThreadsAssumption DEF PostRestore, driverVars, chipVars, bounds
<1>10. CASE PostRestoreFails
  BY <1>10, ThreadsAssumption DEF PostRestoreFails, GiveUp, Release, driverVars,
     chipVars, bounds
<1>11. CASE PostResave
  BY <1>11, ThreadsAssumption DEF PostResave, LiveImage, driverVars, chipVars,
     bounds
<1>12. CASE PostGatePass
  BY <1>12, ThreadsAssumption DEF PostGatePass, Release, driverVars, chipVars,
     bounds
<1>13. CASE PostGateFails
  BY <1>13, ThreadsAssumption DEF PostGateFails, GiveUp, Release, driverVars,
     chipVars, bounds
<1>14. ASSUME NEW t \in Threads, PowerUp(t) PROVE DarkWhileRestricted'
  BY <1>14, ThreadsAssumption DEF PowerUp, LockFree, Refused, driverVars,
     chipVars, bounds
<1>15. ASSUME NEW t \in Threads, PowerUpDone(t) PROVE DarkWhileRestricted'
  BY <1>15, ThreadsAssumption DEF PowerUpDone, TriesLeft, Release, driverVars,
     chipVars, bounds
<1>16. ASSUME NEW t \in Threads, SysmemArm(t) PROVE DarkWhileRestricted'
  BY <1>16, ThreadsAssumption DEF SysmemArm, LockFree, Refused, driverVars,
     chipVars, bounds
<1>17. ASSUME NEW t \in Threads, SysmemArmed(t) PROVE DarkWhileRestricted'
  BY <1>17, ThreadsAssumption DEF SysmemArmed, Release, driverVars, chipVars,
     bounds
<1>18. CASE Suspend \/ SysmemInvalidate \/ PowerDown \/ PowerDownDone
  BY <1>18, ThreadsAssumption DEF Suspend, SysmemInvalidate, LockFree,
     PowerDown, Refused, AfterDown, PowerDownDone, Release, driverVars,
     chipVars, bounds
<1>19. CASE LeaveD0 \/ Rebalance \/ EnterD0
  BY <1>19, ThreadsAssumption DEF LeaveD0, Rebalance, EnterD0, driverVars,
     chipVars, bounds
<1>20. CASE ChipResets
  BY <1>20, ThreadsAssumption DEF ChipResets, driverVars, chipVars, bounds
<1>21. CASE ChipReturns
  BY <1>21, ThreadsAssumption DEF ChipReturns, driverVars, chipVars, bounds
<1>22. CASE LinkFlaps
  BY <1>22, ThreadsAssumption DEF LinkFlaps, driverVars, chipVars, bounds
<1>23. CASE UNCHANGED vars
  BY <1>23 DEF vars
<1>. QED BY <1>1, <1>2, <1>3, <1>4, <1>5, <1>6, <1>7, <1>8, <1>9, <1>10, <1>11,
  <1>12, <1>13, <1>14, <1>15, <1>16, <1>17, <1>18, <1>19, <1>20, <1>21, <1>22,
  <1>23 DEF Next, Handler, PowerTail, PowerCallback, Chip

-----------------------------------------------------------------------------
\* The inductive invariant: who is in which critical section, what its checks
\* have established, and what the chip can have done since.
THEOREM Invariance == Spec => []IInv
<1>1. Init => IInv
  <2> SUFFICES ASSUME Init PROVE IInv
    OBVIOUS
  <2>1. TypeOK
    <3>1. /\ MaxTries \in 1 .. MaxTries /\ 1 \in Assignments
          /\ 0 \in 0 .. MaxSuspends /\ 0 \in 0 .. MaxFlaps
      BY BoundsAssumption DEF Assignments
    <3>. QED BY <3>1 DEF Init, TypeOK, PowerLabels
  <2>2. LockDiscipline
    BY ThreadsAssumption
    DEF Init, LockDiscipline, LockLabels, CallbackMmio, ResetLabels, PostLabels,
        PowerLabels, DownLabels, Threads, At
  <2>3. RestrictionState /\ MarkerState
    BY ThreadsAssumption
    DEF Init, RestrictionState, MarkerState, PendingIsMarked, CallbackMmio, ResetLabels,
        PostLabels, Threads, At
  <2>4. ImageState /\ UnrestrictedIsWhole /\ SavedImageGood /\ DarkWhileRestricted
    BY ThreadsAssumption
    DEF Init, ImageState, UnrestrictedIsWhole, SavedImageGood, DarkWhileRestricted,
        Threads, At
  <2>. QED BY <2>1, <2>2, <2>3, <2>4 DEF IInv
<1>2. IInv /\ [Next]_vars => IInv'
  BY TypeStep, LockStep, RestrictionStep, MarkerStep, ImageStep, WholeStep, SavedStep,
     DarkStep DEF IInv
<1>. QED BY <1>1, <1>2, PTL DEF Spec

\* Every variable keeps to its type, the bounded counters to their bounds.
THEOREM TypeCorrect == Spec => []TypeOK
<1>1. IInv => TypeOK
  BY DEF IInv
<1>. QED BY <1>1, Invariance, PTL

\* As long as the reset is orderly no thread gets to a BAR access while a timer
\* runs or the link is down (reset.c:30-58, the freeze of 2026-08-30).
THEOREM NoFreeze == Spec => []NoMmioOffTheBus
<1>1. ASSUME IInv, Orderly, NEW t \in Threads, pc[t] \in MmioLabels
      PROVE  link /\ ~armed
  <2>1. CASE At(queue, "gate_mmio")
    \* The restricted device is touched by the gate alone, which follows the
    \* checks of POST_RESET; and then nobody else has the lock.
    <3>1. t = queue
      BY <1>1, <2>1, ThreadsAssumption
      DEF IInv, TypeOK, LockDiscipline, RestrictionState, LockLabels, CallbackMmio,
          MmioLabels, PostLabels, ResetLabels, PowerLabels, DownLabels, Threads, At
    <3>. QED BY <1>1, <2>1 DEF IInv, MarkerState, ImageState, At
  <2>2. CASE ~At(queue, "gate_mmio")
    <3>1. ~needsHwInit
      BY <1>1, <2>2, ThreadsAssumption
      DEF IInv, LockDiscipline, RestrictionState, CallbackMmio, MmioLabels, PowerLabels,
          DownLabels, Threads, At
    <3>. QED BY <1>1, <3>1 DEF IInv, UnrestrictedIsWhole
  <2>. QED BY <2>1, <2>2
<1>2. IInv => NoMmioOffTheBus
  BY <1>1 DEF NoMmioOffTheBus
<1>. QED BY <1>2, Invariance, PTL

\* A pending reset is visible to POST_RESET, as long as the reset is orderly
\* (reset.c:311-317).
THEOREM PendingMarked == Spec => []PendingIsMarked
<1>1. IInv => PendingIsMarked
  BY DEF IInv, MarkerState
<1>. QED BY <1>1, Invariance, PTL

\* The device leaves the restricted state only with its BARs where the kernel
\* mapped them and no timer running (reset.c:469-531), as long as the reset is
\* orderly.
THEOREM DeviceWhole == Spec => []UnrestrictedIsWhole
<1>1. IInv => UnrestrictedIsWhole
  BY DEF IInv
<1>. QED BY <1>1, Invariance, PTL

\* POST_RESET never restores junk, however often the reset was armed
\* (ttwind.h:339-346), as long as the reset is orderly.
THEOREM ImageGood == Spec => []SavedImageGood
<1>1. IInv => SavedImageGood
  BY DEF IInv
<1>. QED BY <1>1, Invariance, PTL

\* Sysmem is not advertised in the restricted state, whatever arming was in
\* flight when it began (ttwind_ioctl.h:436-438).
THEOREM RestrictedIsDark == Spec => []DarkWhileRestricted
<1>1. IInv => DarkWhileRestricted
  BY DEF IInv
<1>. QED BY <1>1, Invariance, PTL

=============================================================================
