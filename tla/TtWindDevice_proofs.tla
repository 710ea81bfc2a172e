------------------------- MODULE TtWindDevice_proofs -------------------------
(***************************************************************************)
(* Proofs about TtWindDevice: the whole implements both halves, so that    *)
(* whatever is proved of one holds of the driver, and what needs both.     *)
(***************************************************************************)
EXTENDS TtWindDevice, TLAPS

\* The halves with their proofs.
MP == INSTANCE TtWindMapping_proofs
RP == INSTANCE ResetRecovery_proofs WITH pc <- thread, MaxFlaps <- 0

-----------------------------------------------------------------------------
\* Every step is one of ResetRecovery or none of its business.
LEMMA RecoveryStep == ASSUME [Next]_vars PROVE [R!Next]_(R!vars)
<1>1. CASE FileEvents
  BY <1>1 DEF FileEvents, Alone, recoveryVars, R!vars
<1>2. CASE DispatchMapping
  BY <1>2 DEF DispatchMapping, Alone, recoveryVars, R!vars
<1>3. CASE MappingHandler
  BY <1>3 DEF MappingHandler, Alone, recoveryVars, R!vars
<1>4. CASE OtherDeviceIoctl \/ OtherDeviceIoctlDone
  BY <1>4 DEF OtherDeviceIoctl, OtherDeviceIoctlDone, Elsewhere, R!Next, R!Handler
<1>5. CASE DispatchConfigureTlb
  BY <1>5 DEF DispatchConfigureTlb, R!Next
<1>6. CASE IoctlConfigureTlb
  BY <1>6 DEF IoctlConfigureTlb, R!Next, R!Handler
<1>7. CASE IoctlResetDevice
  BY <1>7 DEF IoctlResetDevice, M!IoctlResetDevice, M!fenceVars, recoveryVars,
     R!vars, R!Next
<1>8. CASE ResetTriage
  BY <1>8 DEF ResetTriage, R!Next, R!Handler
<1>9. CASE ResetFence
  BY <1>9 DEF ResetFence, Alone, recoveryVars, R!vars
<1>10. CASE ResetRestrict
  BY <1>10 DEF ResetRestrict, R!Next, R!Handler
<1>11. CASE ResetArm
  BY <1>11 DEF ResetArm, Elsewhere, R!Next, R!Handler
<1>12. CASE DispatchPostReset
  BY <1>12 DEF DispatchPostReset, R!Next
<1>13. CASE IoctlPostReset
  BY <1>13 DEF IoctlPostReset, R!Next, R!Handler
<1>14. CASE PowerTail
  BY <1>14 DEF PowerTail, Elsewhere, R!Next, R!Threads
<1>15. CASE Suspend
  BY <1>15 DEF Suspend, Elsewhere, R!Next, R!PowerCallback
<1>16. CASE LeaveD0
  BY <1>16 DEF LeaveD0, Elsewhere, R!Next, R!PowerCallback
<1>17. CASE Stop \/ Revoke \/ ReleaseDone
  BY <1>17 DEF Stop, Revoke, ReleaseDone, Alone, recoveryVars, R!vars
<1>18. CASE Restarted
  BY <1>18 DEF Restarted, R!Next
<1>19. CASE EnterD0
  BY <1>19 DEF EnterD0, Elsewhere, R!Next, R!PowerCallback
<1>20. CASE Chip
  BY <1>20 DEF Chip, Elsewhere, R!Next
<1>21. CASE UNCHANGED vars
  BY <1>21 DEF vars, recoveryVars, R!vars
<1>. QED
  BY <1>1, <1>2, <1>3, <1>4, <1>5, <1>6, <1>7, <1>8, <1>9, <1>10, <1>11, <1>12, <1>13,
     <1>14, <1>15, <1>16, <1>17, <1>18, <1>19, <1>20, <1>21
     DEF Next

\* The two instances of ResetRecovery say the same.
LEMMA RecoverySame ==
    /\ R!Init <=> RP!Init
    /\ R!Next <=> RP!Next
    /\ R!TypeOK <=> RP!TypeOK
BY DEF R!Init, RP!Init, R!Next, RP!Next, R!TypeOK, RP!TypeOK, R!NoImage, RP!NoImage,
     R!Threads, RP!Threads, R!Chip, RP!Chip, R!DeviceIoctl, RP!DeviceIoctl, R!Handler,
     RP!Handler, R!LinkFlaps, RP!LinkFlaps, R!PowerCallback, RP!PowerCallback,
     R!PowerTail, RP!PowerTail, R!Rebalance, RP!Rebalance, R!StartPostReset,
     RP!StartPostReset, R!StartReset, RP!StartReset, R!Suspend, RP!Suspend,
     R!Assignments, RP!Assignments, R!DownLabels, RP!DownLabels, R!Junk, RP!Junk,
     R!PostLabels, RP!PostLabels, R!PowerLabels, RP!PowerLabels, R!ResetLabels,
     RP!ResetLabels, R!ChipResets, RP!ChipResets, R!ChipReturns, RP!ChipReturns,
     R!Dispatching, RP!Dispatching, R!Goto, RP!Goto, R!bounds, RP!bounds, R!chipVars,
     RP!chipVars, R!driverVars, RP!driverVars, R!DeviceIoctlDone, RP!DeviceIoctlDone,
     R!PostGateFails, RP!PostGateFails, R!PostGatePass, RP!PostGatePass, R!PostLock,
     RP!PostLock, R!PostMarker, RP!PostMarker, R!PostPending, RP!PostPending,
     R!PostPresent, RP!PostPresent, R!PostResave, RP!PostResave, R!PostRestore,
     RP!PostRestore, R!PostRestoreFails, RP!PostRestoreFails, R!ResetArm, RP!ResetArm,
     R!ResetLock, RP!ResetLock, R!ResetMark, RP!ResetMark, R!ResetPresent,
     RP!ResetPresent, R!ResetRestrict, RP!ResetRestrict, R!ResetSave, RP!ResetSave,
     R!EnterD0, RP!EnterD0, R!LeaveD0, RP!LeaveD0, R!PowerDown, RP!PowerDown,
     R!PowerDownDone, RP!PowerDownDone, R!SysmemInvalidate, RP!SysmemInvalidate,
     R!PowerUp, RP!PowerUp, R!PowerUpDone, RP!PowerUpDone, R!SysmemArm, RP!SysmemArm,
     R!SysmemArmed, RP!SysmemArmed, R!At, RP!At, R!GiveUp, RP!GiveUp, R!Release,
     RP!Release, R!Lock, RP!Lock, R!ResetPending, RP!ResetPending, R!LiveImage,
     RP!LiveImage, R!Marked, RP!Marked, R!Dark, RP!Dark, R!SaveNeeded, RP!SaveNeeded,
     R!AfterDown, RP!AfterDown, R!LockFree, RP!LockFree, R!Refused, RP!Refused,
     R!TriesLeft, RP!TriesLeft

\* What the driver does to the reset, the link and the power state is what
\* ResetRecovery says, with the other ioctls among the steps that leave it alone.
THEOREM ImplementsRecovery == Spec => R!Spec
<1>1. Init => R!Init
  BY DEF Init
<1>2. [Next]_vars => [R!Next]_(R!vars)
  BY RecoveryStep
<1>. QED BY <1>1, <1>2, PTL DEF Spec, R!Spec

LEMMA RecoveryBehaviour == Spec => RP!Spec
<1>1. Init => RP!Init
  BY RecoverySame DEF Init
<1>2. [Next]_vars => [RP!Next]_(RP!vars)
  BY RecoveryStep, RecoverySame DEF R!vars, RP!vars
<1>. QED BY <1>1, <1>2, PTL DEF Spec, RP!Spec

\* So the invariant of ResetRecovery holds of the whole driver.
THEOREM RecoveryInvariance == Spec => []RP!IInv
<1>1. RP!Spec => []RP!IInv
  BY RP!Invariance, RecoveryAssumption
<1>. QED BY <1>1, RecoveryBehaviour, PTL

\* And no thread of the whole driver touches a BAR of a device that may be off
\* the bus, as long as the chip never returns between two steps of RESET_DEVICE:
\* no other link loss is among the steps of the whole.
THEOREM DriverNeverFreezes ==
    Spec => [](~outrun =>
                  \A t \in {queue, pnp} : thread[t] \in R!MmioLabels => link /\ ~armed)
<1>1. RP!Spec => []RP!NoMmioOffTheBus
  BY RP!NoFreeze, RecoveryAssumption
<1>2. RP!IInv /\ RP!NoMmioOffTheBus =>
          (~outrun =>
              \A t \in {queue, pnp} : thread[t] \in R!MmioLabels => link /\ ~armed)
  <2> SUFFICES ASSUME RP!IInv, RP!NoMmioOffTheBus, ~outrun
               PROVE  \A t \in {queue, pnp} : thread[t] \in R!MmioLabels => link /\ ~armed
    OBVIOUS
  <2>1. flaps = 0
    BY DEF RP!IInv, RP!TypeOK
  <2>. QED BY <2>1 DEF RP!NoMmioOffTheBus, RP!Orderly, RP!Threads, RP!MmioLabels,
     R!MmioLabels
<1>. QED BY <1>1, <1>2, RecoveryBehaviour, RecoveryInvariance, PTL

\* It has the types of ResetRecovery.
LEMMA RecoveryTypes == RP!IInv => R!TypeOK
BY RecoverySame DEF RP!IInv

\* Every step is one of TtWindMapping or none of its business.
LEMMA MappingStep == ASSUME R!TypeOK, [Next]_vars PROVE [M!Next]_(M!vars)
<1>1. CASE FileEvents
  BY <1>1 DEF FileEvents, Alone, M!Next
<1>2. CASE DispatchMapping
  BY <1>2 DEF DispatchMapping, Alone, M!Next
<1>3. CASE MappingHandler
  BY <1>3 DEF MappingHandler, Alone, M!Next, M!Handler
<1>4. CASE OtherDeviceIoctl \/ OtherDeviceIoctlDone
  BY <1>4 DEF OtherDeviceIoctl, OtherDeviceIoctlDone, Elsewhere, mappingVars, M!vars
<1>5. CASE DispatchConfigureTlb
  BY <1>5 DEF DispatchConfigureTlb, M!Next, M!Ops
<1>6. CASE IoctlConfigureTlb
  BY <1>6 DEF IoctlConfigureTlb, M!Next, M!Handler
<1>7. CASE IoctlResetDevice
  BY <1>7 DEF IoctlResetDevice, M!Next, M!Handler
<1>8. CASE ResetTriage
  <2>1. needsHwInit' = needsHwInit
    BY <1>8 DEF ResetTriage, R!ResetLock, R!ResetPresent, R!ResetSave, R!ResetMark,
       R!driverVars
  <2>. QED BY <1>8, <2>1 DEF ResetTriage, mappingVars, M!vars, M!Next, M!Handler
<1>9. CASE ResetFence
  BY <1>9 DEF ResetFence, Alone, M!Next, M!Handler
<1>10. CASE ResetRestrict
  BY <1>10 DEF ResetRestrict, M!Next, M!Handler
<1>11. CASE ResetArm
  BY <1>11 DEF ResetArm, Elsewhere, mappingVars, M!vars
<1>12. CASE DispatchPostReset
  BY <1>12 DEF DispatchPostReset, M!Next, M!Ops
<1>13. CASE IoctlPostReset
  <2>1. CASE M!IoctlPostReset
    BY <2>1 DEF M!Next, M!Handler
  <2>2. CASE thread'[queue] \notin {"idle", "power"} /\ UNCHANGED mappingVars
    <3>1. CASE R!PostGatePass
      BY <2>2, <3>1 DEF R!PostGatePass, R!Goto, R!TypeOK, R!Threads
    <3>2. CASE ~R!PostGatePass
      <4>1. needsHwInit' = needsHwInit
        BY <1>13, <3>2 DEF IoctlPostReset, R!PostLock, R!PostPending, R!PostPresent,
           R!PostMarker,
           R!PostRestore, R!PostRestoreFails, R!PostResave, R!PostGateFails, R!driverVars
      <4>. QED BY <2>2, <4>1 DEF mappingVars, M!vars
    <3>. QED BY <3>1, <3>2
  <2>. QED BY <1>13, <2>1, <2>2 DEF IoctlPostReset
<1>14. CASE PowerTail
  BY <1>14 DEF PowerTail, Elsewhere, mappingVars, M!vars
<1>15. CASE Suspend
  BY <1>15 DEF Suspend, Elsewhere, mappingVars, M!vars
<1>16. CASE LeaveD0
  BY <1>16 DEF LeaveD0, Elsewhere, mappingVars, M!vars
<1>17. CASE Stop
  BY <1>17 DEF Stop, Alone, M!Next, M!Pnp
<1>18. CASE Revoke \/ ReleaseDone
  BY <1>18 DEF Revoke, ReleaseDone, Alone, M!Next, M!Pnp
<1>19. CASE Restarted
  BY <1>19 DEF Restarted, M!Next, M!Pnp
<1>20. CASE EnterD0
  BY <1>20 DEF EnterD0, Elsewhere, mappingVars, M!vars
<1>21. CASE Chip
  BY <1>21 DEF Chip, Elsewhere, mappingVars, M!vars
<1>22. CASE UNCHANGED vars
  BY <1>22 DEF vars, mappingVars, M!vars
<1>. QED
  BY <1>1, <1>2, <1>3, <1>4, <1>5, <1>6, <1>7, <1>8, <1>9, <1>10, <1>11, <1>12, <1>13,
     <1>14, <1>15, <1>16, <1>17, <1>18, <1>19, <1>20, <1>21, <1>22
     DEF Next

\* The two instances of TtWindMapping say the same.
LEMMA MappingSame ==
    /\ M!Init <=> MP!Init
    /\ M!Next <=> MP!Next
BY DEF M!Init, MP!Init, M!Next, MP!Next, M!KernelTlb, MP!KernelTlb, M!NoRequest,
     MP!NoRequest, M!TlbIds, MP!TlbIds, M!Dispatch, MP!Dispatch, M!FileEvent,
     MP!FileEvent, M!Handler, MP!Handler, M!Ops, MP!Ops, M!Pnp, MP!Pnp,
     M!GenerationFence, MP!GenerationFence, M!RequestsOf, MP!RequestsOf, M!RestrictedOps,
     MP!RestrictedOps, M!fenceVars, MP!fenceVars, M!fileVars, MP!fileVars, M!lockVars,
     MP!lockVars, M!pnpVars, MP!pnpVars, M!FileCleanup, MP!FileCleanup,
     M!FileCleanupDestroy, MP!FileCleanupDestroy, M!FileClose, MP!FileClose,
     M!FileCreate, MP!FileCreate, M!CreateView, MP!CreateView, M!DestroyMine,
     MP!DestroyMine, M!InsertMapping, MP!InsertMapping, M!IoctlAllocateTlb,
     MP!IoctlAllocateTlb, M!IoctlConfigureTlb, MP!IoctlConfigureTlb, M!IoctlFreeTlb,
     MP!IoctlFreeTlb, M!IoctlMapBar, MP!IoctlMapBar, M!IoctlMapSysmem, MP!IoctlMapSysmem,
     M!IoctlMapTlb, MP!IoctlMapTlb, M!IoctlPostReset, MP!IoctlPostReset,
     M!IoctlResetDevice, MP!IoctlResetDevice, M!IoctlUnmapBar, MP!IoctlUnmapBar,
     M!ResetArm, MP!ResetArm, M!ResetFence, MP!ResetFence, M!PrepareHardware,
     MP!PrepareHardware, M!ReleaseDone, MP!ReleaseDone, M!ReleaseHardware,
     MP!ReleaseHardware, M!RevokeDestroy, MP!RevokeDestroy, M!WindowsOf, MP!WindowsOf,
     M!reqVars, MP!reqVars, M!DestroyMapping, MP!DestroyMapping, M!Backing, MP!Backing,
     M!Complete, MP!Complete, M!Revalidated, MP!Revalidated, M!ClearBits, MP!ClearBits,
     M!Handling, MP!Handling, M!CheckTlbOwner, MP!CheckTlbOwner, M!TlbHasMappings,
     MP!TlbHasMappings, M!CheckArguments, MP!CheckArguments, M!Unlink, MP!Unlink,
     M!ReclaimAllWindows, MP!ReclaimAllWindows, M!QueuePurged, MP!QueuePurged

-----------------------------------------------------------------------------
\* What the driver does to the handles, the windows and the views is what
\* TtWindMapping says, with the steps of a reset it only names spelled out.
THEOREM ImplementsMapping == Spec => M!Spec
<1>1. Init => M!Init
  BY DEF Init
<1>2. RP!IInv /\ [Next]_vars => [M!Next]_(M!vars)
  BY RecoveryTypes, MappingStep
<1>. QED BY <1>1, <1>2, RecoveryInvariance, PTL DEF Spec, M!Spec

\* So the invariant of TtWindMapping holds of the whole driver.
THEOREM MappingInvariance == Spec => []MP!IInv
<1>1. MP!Spec => []MP!IInv
  BY MP!Invariance, MappingAssumption
<1>2. Init => MP!Init
  BY MappingSame DEF Init
<1>3. RP!IInv /\ [Next]_vars => [MP!Next]_(MP!vars)
  BY RecoveryTypes, MappingStep, MappingSame DEF M!vars, MP!vars
<1>. QED BY <1>1, <1>2, <1>3, RecoveryInvariance, PTL DEF Spec, MP!Spec

-----------------------------------------------------------------------------
\* What ties the halves together: while the device is restricted no view is in
\* a handler's hands or on its way out with the hardware, and the hardware is
\* released only out of D0, where the queue is empty.
HalvesMeet ==
    /\ needsHwInit => pc # "destroy" /\ toRevoke = {}
    /\ device # "started" => thread[pnp] = "dx"

\* What they get from the mapping half.
LEMMA FromMapping ==
    ASSUME MP!IInv
    PROVE  /\ needsHwInit => pc \notin {"map", "insert"} /\ mappingList = {}
           /\ needsHwInit /\ pc = "body" => req.op \in {"RESET_DEVICE", "POST_RESET"}
           /\ pc \notin {"insert", "destroy"} => mine = {}
           /\ device # "revoking" => toRevoke = {}
           /\ device # "started" => pc = "idle"
           /\ views = mappingList \cup mine \cup toRevoke \cup BeingClosed
BY DEF MP!IInv, MP!RequestState, MP!PrivateRecords, MP!RestrictedNoMappings,
       MP!RestrictedOps, MP!OneRecordPerView, MP!Doomed, BeingClosed

\* What they get from the recovery half.
LEMMA FromRecovery ==
    ASSUME RP!IInv
    PROVE  /\ thread[pnp] = "dx" => thread[queue] = "idle"
           /\ DOMAIN thread = {queue, pnp} /\ thread = [t \in {queue, pnp} |-> thread[t]]
           /\ ~needsHwInit /\ ~outrun => ~armed /\ link
<1>1. flaps = 0 /\ link \in BOOLEAN /\ armed \in BOOLEAN /\ needsHwInit \in BOOLEAN
  BY DEF RP!IInv, RP!TypeOK
<1>2. DOMAIN thread = {queue, pnp} /\ thread = [t \in {queue, pnp} |-> thread[t]]
  BY DEF RP!IInv, RP!TypeOK, RP!Threads
<1>3. ~needsHwInit /\ ~outrun => ~armed /\ link
  BY <1>1 DEF RP!IInv, RP!UnrestrictedIsWhole, RP!Orderly
<1>4. thread[pnp] = "dx" => thread[queue] = "idle"
  BY DEF RP!IInv, RP!LockDiscipline, RP!At
<1>. QED BY <1>2, <1>3, <1>4

\* Every step keeps the halves together.
LEMMA HalvesStep == ASSUME MP!IInv, RP!IInv, HalvesMeet, [Next]_vars PROVE HalvesMeet'
<1> USE FromMapping, FromRecovery, RecoveryAssumption DEF HalvesMeet
<1>1. CASE FileEvents
  <2>1. PICK f \in Files : M!FileEvent(f) /\ UNCHANGED recoveryVars /\ UNCHANGED needsHwInit
    BY <1>1 DEF FileEvents, Alone
  <2>. QED BY <2>1 DEF recoveryVars, M!FileEvent, M!FileCreate, M!FileCleanup,
     M!FileCleanupDestroy,
     M!FileClose, M!pnpVars, M!reqVars
<1>2. CASE DispatchMapping
  BY <1>2 DEF DispatchMapping, Alone, recoveryVars, M!Dispatch, M!pnpVars
<1>3. CASE MappingHandler
  <2>1. UNCHANGED <<needsHwInit, thread, device, toRevoke>>
    BY <1>3 DEF MappingHandler, Alone, recoveryVars, M!IoctlAllocateTlb, M!IoctlFreeTlb,
       M!IoctlMapTlb, M!IoctlMapBar, M!IoctlMapSysmem, M!IoctlUnmapBar, M!CreateView,
       M!InsertMapping, M!DestroyMine, M!CheckArguments, M!pnpVars
  <2>2. pc' = "destroy" => pc = "insert" \/ (pc = "body" /\ req.op = "UNMAP_BAR")
    BY <1>3 DEF MappingHandler, Alone, M!IoctlAllocateTlb, M!IoctlFreeTlb, M!IoctlMapTlb,
       M!IoctlMapBar, M!IoctlMapSysmem, M!IoctlUnmapBar, M!CreateView, M!InsertMapping,
       M!DestroyMine, M!CheckArguments, M!Complete, M!Handling
  <2>. QED BY <2>1, <2>2
<1>4. CASE OtherDeviceIoctl
  BY <1>4 DEF OtherDeviceIoctl, Elsewhere, mappingVars, R!DeviceIoctl,
     R!Dispatching, R!At, R!Goto
<1>5. CASE OtherDeviceIoctlDone
  BY <1>5 DEF OtherDeviceIoctlDone, Elsewhere, mappingVars, R!DeviceIoctlDone, R!At,
     R!Goto
<1>6. CASE DispatchConfigureTlb
  BY <1>6 DEF DispatchConfigureTlb, R!DeviceIoctl, R!Dispatching, R!At, R!Goto,
     R!driverVars, M!Dispatch, M!pnpVars
<1>7. CASE IoctlConfigureTlb
  BY <1>7 DEF IoctlConfigureTlb, M!IoctlConfigureTlb, M!Complete, M!pnpVars,
     R!DeviceIoctlDone, R!At, R!Goto, R!driverVars
<1>8. CASE IoctlResetDevice
  BY <1>8 DEF IoctlResetDevice, M!IoctlResetDevice, M!Complete, M!fenceVars,
     M!pnpVars, R!StartReset, R!Dispatching, R!At, R!Goto, R!driverVars,
     recoveryVars
<1>9. CASE ResetTriage
  <2>1. UNCHANGED needsHwInit /\ thread'[pnp] = thread[pnp]
    BY <1>9 DEF ResetTriage, R!ResetLock, R!ResetPresent, R!ResetSave, R!ResetMark,
       R!GiveUp, R!Goto,
       R!driverVars
  <2>2. UNCHANGED <<device, toRevoke>> /\ (pc' = pc \/ pc' = "idle")
    BY <1>9 DEF ResetTriage, M!ResetFence, M!pnpVars, mappingVars
  <2>. QED BY <2>1, <2>2
<1>10. CASE ResetFence
  BY <1>10 DEF ResetFence, Alone, recoveryVars, M!ResetFence, M!pnpVars
<1>11. CASE ResetRestrict
  <2>1. thread[queue] = "r_restrict" /\ thread'[pnp] = thread[pnp]
    BY <1>11 DEF ResetRestrict, R!ResetRestrict, R!At, R!Goto
  <2>2. pc' = "idle" /\ UNCHANGED <<device, toRevoke>>
    BY <1>11 DEF ResetRestrict, M!ResetArm, M!Complete, M!pnpVars
  <2>. QED BY <2>1, <2>2
<1>12. CASE ResetArm
  BY <1>12 DEF ResetArm, Elsewhere, mappingVars, R!ResetArm, R!At, R!Goto
<1>13. CASE DispatchPostReset
  BY <1>13 DEF DispatchPostReset, R!StartPostReset, R!Dispatching, R!At, R!Goto,
     R!driverVars, M!Dispatch, M!pnpVars
<1>14. CASE IoctlPostReset
  <2>1. (needsHwInit' => needsHwInit) /\ thread'[pnp] = thread[pnp]
    BY <1>14 DEF IoctlPostReset, R!PostLock, R!PostPending, R!PostPresent, R!PostMarker,
       R!PostRestore, R!PostRestoreFails, R!PostResave, R!PostGatePass, R!PostGateFails,
       R!GiveUp, R!Goto, R!driverVars
  <2>2. UNCHANGED <<device, toRevoke>> /\ (pc' = pc \/ pc' = "idle")
    BY <1>14 DEF IoctlPostReset, M!IoctlPostReset, M!Complete, M!pnpVars, mappingVars
  <2>. QED BY <2>1, <2>2
<1>15. CASE PowerTail
  <2>1. thread[pnp] = "dx" => thread'[pnp] = "dx"
    BY <1>15 DEF PowerTail, Elsewhere, R!PowerTail, R!PowerUp, R!PowerUpDone,
       R!SysmemArm, R!SysmemArmed,
       R!At, R!Goto
  <2>. QED BY <1>15, <2>1 DEF PowerTail, Elsewhere, mappingVars
<1>16. CASE Suspend
  <2>1. thread[pnp] # "dx"
    BY <1>16 DEF Suspend, Elsewhere, R!Suspend, R!SysmemInvalidate, R!PowerDown,
       R!PowerDownDone,
       R!At
  <2>. QED BY <1>16, <2>1 DEF Suspend, Elsewhere, mappingVars
<1>17. CASE LeaveD0
  BY <1>17 DEF LeaveD0, Elsewhere, mappingVars, R!LeaveD0, R!At, R!Goto
<1>18. CASE Stop
  BY <1>18 DEF Stop, Alone, recoveryVars, R!At, M!ReleaseHardware, M!reqVars
<1>19. CASE Revoke
  BY <1>19 DEF Revoke, Alone, recoveryVars, M!RevokeDestroy, M!reqVars
<1>20. CASE ReleaseDone
  BY <1>20 DEF ReleaseDone, Alone, recoveryVars, M!ReleaseDone, M!reqVars
<1>21. CASE Restarted
  BY <1>21 DEF Restarted, R!Rebalance, M!PrepareHardware, M!fenceVars, M!reqVars
<1>22. CASE EnterD0
  BY <1>22 DEF EnterD0, Elsewhere, mappingVars
<1>23. CASE Chip
  BY <1>23 DEF Chip, Elsewhere, mappingVars, R!Chip, R!ChipResets, R!ChipReturns
<1>24. CASE UNCHANGED vars
  BY <1>24 DEF vars, HalvesMeet, mappingVars, recoveryVars
<1>. QED
  BY <1>1, <1>2, <1>3, <1>4, <1>5, <1>6, <1>7, <1>8, <1>9, <1>10, <1>11, <1>12, <1>13,
     <1>14, <1>15, <1>16, <1>17, <1>18, <1>19, <1>20, <1>21, <1>22, <1>23, <1>24
     DEF Next

\* Only the fence of RESET_DEVICE moves the generation, and what follows it is
\* the restriction, which no step of another thread can keep the queue from.
LEMMA FenceStep == ASSUME StaleOnlyByReset, [Next]_vars PROVE StaleOnlyByReset'
<1> USE DEF StaleOnlyByReset
<1>1. CASE FileEvents
  BY <1>1 DEF FileEvents, Alone, M!FileEvent, M!FileCreate, M!FileCleanup,
     M!FileCleanupDestroy, M!FileClose, M!fenceVars, M!reqVars
<1>2. CASE DispatchMapping
  BY <1>2 DEF DispatchMapping, Alone, QueueIdle, M!Dispatch, M!fenceVars
<1>3. CASE MappingHandler
  BY <1>3 DEF MappingHandler, Alone, M!IoctlAllocateTlb, M!IoctlFreeTlb,
     M!IoctlMapTlb, M!IoctlMapBar, M!IoctlMapSysmem, M!IoctlUnmapBar, M!CreateView,
     M!InsertMapping, M!DestroyMine, M!CheckArguments, M!fenceVars, M!Handling
<1>4. CASE OtherDeviceIoctl \/ OtherDeviceIoctlDone
  BY <1>4 DEF OtherDeviceIoctl, OtherDeviceIoctlDone, Elsewhere, mappingVars
<1>5. CASE DispatchConfigureTlb
  BY <1>5 DEF DispatchConfigureTlb, QueueIdle, M!Dispatch, M!fenceVars
<1>6. CASE IoctlConfigureTlb
  BY <1>6 DEF IoctlConfigureTlb, M!IoctlConfigureTlb, M!fenceVars, M!Handling
<1>7. CASE IoctlResetDevice
  BY <1>7 DEF IoctlResetDevice, M!IoctlResetDevice, M!fenceVars, M!Handling
<1>8. CASE ResetTriage
  BY <1>8 DEF ResetTriage, M!ResetFence, mappingVars
<1>9. CASE ResetFence
  BY <1>9 DEF ResetFence, Alone
<1>10. CASE ResetRestrict
  BY <1>10 DEF ResetRestrict, M!ResetArm
<1>11. CASE ResetArm
  BY <1>11 DEF ResetArm, Elsewhere, mappingVars
<1>12. CASE DispatchPostReset
  BY <1>12 DEF DispatchPostReset, QueueIdle, M!Dispatch, M!fenceVars
<1>13. CASE IoctlPostReset
  BY <1>13 DEF IoctlPostReset, M!IoctlPostReset, mappingVars, M!Handling
<1>14. CASE PowerTail
  BY <1>14 DEF PowerTail, Elsewhere, mappingVars
<1>15. CASE Suspend
  BY <1>15 DEF Suspend, Elsewhere, mappingVars
<1>16. CASE LeaveD0
  BY <1>16 DEF LeaveD0, Elsewhere, mappingVars
<1>17. CASE Stop
  BY <1>17 DEF Stop, Alone, M!ReleaseHardware, M!fenceVars, M!reqVars
<1>18. CASE Revoke \/ ReleaseDone
  BY <1>18 DEF Revoke, ReleaseDone, Alone, M!RevokeDestroy, M!ReleaseDone,
     M!fenceVars, M!reqVars
<1>19. CASE Restarted
  BY <1>19 DEF Restarted, M!PrepareHardware, M!fenceVars, M!reqVars
<1>20. CASE EnterD0
  BY <1>20 DEF EnterD0, Elsewhere, mappingVars
<1>21. CASE Chip
  BY <1>21 DEF Chip, Elsewhere, mappingVars
<1>22. CASE UNCHANGED vars
  BY <1>22 DEF vars, mappingVars
<1>. QED
  BY <1>1, <1>2, <1>3, <1>4, <1>5, <1>6, <1>7, <1>8, <1>9, <1>10, <1>11, <1>12, <1>13,
     <1>14, <1>15, <1>16, <1>17, <1>18, <1>19, <1>20, <1>21, <1>22
     DEF Next

\* The halves meet in every state.
LEMMA HalvesInvariance == Spec => []HalvesMeet
<1>1. Init => HalvesMeet
  BY DEF Init, M!Init, HalvesMeet
<1>2. MP!IInv /\ RP!IInv /\ HalvesMeet /\ [Next]_vars => HalvesMeet'
  BY HalvesStep
<1>. QED BY <1>1, <1>2, MappingInvariance, RecoveryInvariance, PTL DEF Spec

\* From the arm until the link is back no user can load from the device: the
\* busy check of RESET_DEVICE found no mapping and nothing has made one since,
\* as long as the chip never returned between two steps of RESET_DEVICE.
THEOREM NoViewOffTheBus == Spec => []UserViewsOffTheBus
<1>1. MP!IInv /\ RP!IInv /\ HalvesMeet => UserViewsOffTheBus
  <2> SUFFICES ASSUME MP!IInv, RP!IInv, HalvesMeet, ~outrun, armed \/ ~link
               PROVE  views \subseteq BeingClosed
    BY DEF UserViewsOffTheBus
  <2>1. needsHwInit
    BY FromRecovery
  <2>2. mappingList = {} /\ mine = {} /\ toRevoke = {}
    BY <2>1, FromMapping DEF HalvesMeet
  <2>. QED BY <2>2, FromMapping
<1>. QED BY <1>1, MappingInvariance, RecoveryInvariance, HalvesInvariance, PTL

\* A handle is stale only because a later reset restricted the device: one that
\* fails on the way leaves every handle as it was, and whatever the other thread,
\* the cleanups and the chip do meanwhile, the generation is left alone.
THEOREM StaleByResetOnly == Spec => []StaleOnlyByReset
<1>1. Init => StaleOnlyByReset
  BY DEF Init, M!Init, StaleOnlyByReset
<1>2. StaleOnlyByReset /\ [Next]_vars => StaleOnlyByReset'
  BY FenceStep
<1>. QED BY <1>1, <1>2, PTL DEF Spec

=============================================================================
