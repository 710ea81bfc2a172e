---------------------------- MODULE TtWindDevice ----------------------------
(***************************************************************************)
(* TtWindMapping and ResetRecovery put together: one queue, one PnP thread *)
(* and one NeedsHwInit.  Each module abstracts the other's part of reset.c *)
(* and device.c; here a step of one is tied to the step of the other that  *)
(* the same code makes, so that user views and handles meet the link.      *)
(***************************************************************************)
EXTENDS Naturals

CONSTANTS
    Files, NoFile, NumTlb, Vas, Bar, Sysmem, NoVa, MaxGen,      \* TtWindMapping
    queue, pnp, nobody,                                         \* ResetRecovery
    MaxTries, MaxSuspends, MaxRebalances

\* What the two modules assume of them.
ASSUME MappingAssumption ==
    /\ NoFile \notin Files /\ NumTlb \in Nat \ {0}
    /\ Bar \notin Nat /\ Sysmem \notin Nat /\ Bar # Sysmem
    /\ NoVa \notin Vas /\ MaxGen \in Nat
ASSUME RecoveryAssumption ==
    /\ queue # pnp /\ nobody \notin {queue, pnp}
    /\ MaxTries \in Nat \ {0} /\ MaxSuspends \in Nat /\ MaxRebalances \in Nat

VARIABLES
    mappingList, views, tlbBitmap, tlbOwner, tlbTarget, resetGeneration,
    fileGeneration, handle, toDestroy, device, toRevoke, pc, req, mine, raced,
    needsHwInit,        \* shared
    arcLock,
    thread,             \* ResetRecovery's pc
    attempt, saved, verified, mapped, link, config, marker, armed, window,
    platformParity, suspends, flaps, outrun,
    restrictedAt        \* history: resetGeneration when the device was last restricted

M == INSTANCE TtWindMapping
R == INSTANCE ResetRecovery WITH pc <- thread, MaxFlaps <- 0

mappingVars == <<mappingList, views, tlbBitmap, tlbOwner, tlbTarget, resetGeneration,
                 fileGeneration, handle, toDestroy, device, toRevoke, pc, req, mine, raced>>
recoveryVars == <<arcLock, thread, attempt, saved, verified, mapped, link, config, marker,
                  armed, window, platformParity, suspends, flaps, outrun>>
vars == <<mappingVars, needsHwInit, recoveryVars, restrictedAt>>

Init == M!Init /\ R!Init /\ restrictedAt = 0

-----------------------------------------------------------------------------
(* The steps that only one half takes.                                     *)

Alone(step) == step /\ UNCHANGED <<needsHwInit, recoveryVars, restrictedAt>>
Elsewhere(step) == step /\ UNCHANGED <<needsHwInit, mappingVars, restrictedAt>>

QueueIdle == pc = "idle" /\ R!Dispatching

\* File objects come and go on any thread.
FileEvents == \E f \in Files : Alone(M!FileEvent(f))

\* The queue hands over the next request once the last is complete, the tail
\* of POST_RESET included.
DispatchMapping ==
    /\ QueueIdle
    /\ \E f \in Files, op \in M!Ops \ {"CONFIGURE_TLB", "POST_RESET"} :
          Alone(M!Dispatch(f, op))

MappingHandler ==
    \/ Alone(M!IoctlAllocateTlb) \/ Alone(M!IoctlFreeTlb) \/ Alone(M!IoctlMapTlb)
    \/ Alone(M!IoctlMapBar) \/ Alone(M!IoctlMapSysmem) \/ Alone(M!IoctlUnmapBar)
    \/ Alone(M!CreateView) \/ Alone(M!InsertMapping) \/ Alone(M!DestroyMine)

\* SMC_MSG and ARC_STATUS.
OtherDeviceIoctl ==
    /\ QueueIdle /\ device = "started"
    /\ \E f \in Files : handle[f] = "open" /\ M!GenerationFence(f)
    /\ Elsewhere(R!DeviceIoctl)

OtherDeviceIoctlDone == pc = "idle" /\ Elsewhere(R!DeviceIoctlDone)

-----------------------------------------------------------------------------
(* CONFIGURE_TLB writes BAR 0.                                             *)

DispatchConfigureTlb ==
    /\ QueueIdle
    /\ \E f \in Files : M!Dispatch(f, "CONFIGURE_TLB")
    /\ R!DeviceIoctl /\ UNCHANGED restrictedAt

IoctlConfigureTlb ==
    M!IoctlConfigureTlb /\ R!DeviceIoctlDone /\ UNCHANGED restrictedAt

-----------------------------------------------------------------------------
(* RESET_DEVICE.                                                           *)

\* The busy check, and on to ArcLock.
IoctlResetDevice ==
    /\ M!IoctlResetDevice
    /\ \/ pc' = "fence" /\ R!StartReset
       \/ pc' = "idle" /\ UNCHANGED recoveryVars
    /\ UNCHANGED restrictedAt

\* Up to the reset marker.  A step that gives up completes the request; the
\* mutant has made the fence before it.
ResetTriageMutant ==
    /\ R!ResetLock \/ R!ResetPresent \/ R!ResetSave \/ R!ResetMark
    /\ IF thread'[queue] = "idle"
         THEN /\ resetGeneration' = resetGeneration + 1
              /\ M!Complete /\ M!ReclaimAllWindows
              /\ UNCHANGED <<mappingList, views, tlbTarget, fileGeneration,
                             handle, toDestroy, device, toRevoke, mine, raced>>
         ELSE UNCHANGED mappingVars
    /\ UNCHANGED restrictedAt
ResetTriage ==
    /\ R!ResetLock \/ R!ResetPresent \/ R!ResetSave \/ R!ResetMark
    /\ IF thread'[queue] = "idle"
         THEN M!ResetFence /\ pc' = "idle"
         ELSE UNCHANGED mappingVars
    /\ UNCHANGED restrictedAt

\* The fence is the last thing before the device is restricted.
ResetFence ==
    /\ thread[queue] = "r_restrict"
    /\ Alone(M!ResetFence) /\ pc' = "carry"

ResetRestrict == M!ResetArm /\ R!ResetRestrict /\ restrictedAt' = resetGeneration

ResetArm == Elsewhere(R!ResetArm)

-----------------------------------------------------------------------------
(* POST_RESET.                                                             *)

DispatchPostReset ==
    /\ QueueIdle
    /\ \E f \in Files : M!Dispatch(f, "POST_RESET")
    /\ R!StartPostReset /\ UNCHANGED restrictedAt

\* What it leaves of TtWindMapping's state is settled when it gives up or the
\* gate passes.
IoctlPostReset ==
    /\ \/ R!PostLock \/ R!PostPending \/ R!PostPresent \/ R!PostMarker
       \/ R!PostRestore \/ R!PostRestoreFails \/ R!PostResave
       \/ R!PostGatePass \/ R!PostGateFails
    /\ IF thread'[queue] \in {"idle", "power"}
         THEN M!IoctlPostReset
         ELSE UNCHANGED mappingVars
    /\ UNCHANGED restrictedAt

PowerTail == \E t \in {queue, pnp} : Elsewhere(R!PowerTail(t))

-----------------------------------------------------------------------------
(* The PnP thread.                                                         *)

Suspend ==
    Elsewhere(R!Suspend) \/ Elsewhere(R!SysmemInvalidate)
    \/ Elsewhere(R!PowerDown) \/ Elsewhere(R!PowerDownDone)

\* The queue stops when its last request is complete.
LeaveD0 == M!QueuePurged /\ Elsewhere(R!LeaveD0)

\* A stop goes on to release the hardware and comes back with the BARs moved.
Stop ==
    /\ R!At(pnp, "dx") /\ mapped <= MaxRebalances
    /\ Alone(M!ReleaseHardware)

Revoke == Alone(M!RevokeDestroy)
ReleaseDone == Alone(M!ReleaseDone)

Restarted == M!PrepareHardware /\ R!Rebalance /\ UNCHANGED restrictedAt

EnterD0 == device = "started" /\ Elsewhere(R!EnterD0)

Chip == Elsewhere(R!Chip)

-----------------------------------------------------------------------------
Next ==
    \/ FileEvents
    \/ DispatchMapping \/ MappingHandler
    \/ OtherDeviceIoctl \/ OtherDeviceIoctlDone
    \/ DispatchConfigureTlb \/ IoctlConfigureTlb
    \/ IoctlResetDevice \/ ResetTriage \/ ResetFence \/ ResetRestrict \/ ResetArm
    \/ DispatchPostReset \/ IoctlPostReset \/ PowerTail
    \/ Suspend \/ LeaveD0 \/ Stop \/ Revoke \/ ReleaseDone \/ Restarted \/ EnterD0
    \/ Chip

Spec == Init /\ [][Next]_vars

-----------------------------------------------------------------------------
(* Properties.                                                             *)

\* Views a file cleanup has unlinked and not yet destroyed.
BeingClosed == UNION {toDestroy[f] : f \in Files}

\* From the arm on no user can load from the device while it is off the bus,
\* which would freeze the machine as a kernel access does: every view is gone,
\* except those whose last handle is being closed (reset.c:257-266), as long as
\* the chip never returns between two steps of RESET_DEVICE.
UserViewsOffTheBus ==
    ~outrun => (armed \/ ~link => views \subseteq BeingClosed)

\* Handles go stale only with a reset that restricts the device: a RESET_DEVICE
\* that fails, at whatever access, leaves every handle as it was, and nothing
\* else moves the generation (reset.c:275-343). ttwind_ioctl.h:417-421 and
\* reset.c:212-215 put the fence before the save and the marker, which can fail.
StaleOnlyByReset == pc # "carry" => restrictedAt = resetGeneration

=============================================================================
