--------------------------- MODULE ResetRecovery ---------------------------
(***************************************************************************)
(* The split reset of reset.c: RESET_DEVICE saves the config space, marks  *)
(* it, restricts the device and arms the chip's reset timer; POST_RESET,   *)
(* polled by the caller, brings the device back.  Two threads run driver   *)
(* code: the sequential ioctl queue, and PnP with the SelfManagedIo power  *)
(* callbacks of arc.c and the sysmem arming of sysmem.c.  The chip is the  *)
(* third actor: its timer fires whenever it likes after the arm.           *)
(*                                                                         *)
(* A step is what happens between two points where the chip or the other   *)
(* thread can interfere; a label ending in _mmio is a thread about to      *)
(* touch a BAR, which must not happen while the link is down.              *)
(***************************************************************************)
EXTENDS Integers

CONSTANTS
    queue, pnp, nobody,     \* the two threads, and ArcLock's free value
    MaxTries,               \* TTWIND_RESET_POWERUP_TRIES
    MaxSuspends,            \* bound: power transitions in a behaviour
    MaxRebalances,          \* bound: of these, stops that move the BARs
    MaxFlaps                \* bound: link losses no reset timer caused

ASSUME ThreadsAssumption == queue # pnp /\ nobody \notin {queue, pnp}
ASSUME BoundsAssumption == /\ MaxTries \in Nat \ {0} /\ MaxSuspends \in Nat
                           /\ MaxRebalances \in Nat /\ MaxFlaps \in Nat

Threads == {queue, pnp}

\* A config space image: the BAR assignment it holds, numbered from 1, or
\* junk: reset defaults, or the all-1s read of a missing device.
Junk == 0
NoImage == -1
Assignments == 1 .. MaxRebalances + 1

VARIABLES
    arcLock,        \* who holds ArcLock
    pc,             \* where each thread is
    attempt,        \* power-up attempts of POST_RESET
    needsHwInit,    \* ctx->NeedsHwInit
    saved,          \* ctx->SavedConfig, NoImage until SavedConfigValid
    verified,       \* ctx->SysmemVerified
    mapped,         \* the BAR assignment the kernel mappings were made for
    link,           \* the device answers on the bus
    config,         \* its live config space
    marker,         \* the live COMMAND parity bit
    armed,          \* the reset timer runs
    window,         \* outbound iATU region 0 is programmed
    platformParity, \* the COMMAND parity bit this platform boots with
    suspends, flaps,\* bounds
    outrun          \* history: the chip came back while RESET_DEVICE ran

driverVars == <<needsHwInit, saved, verified, mapped>>
chipVars == <<link, config, marker, armed, window>>
bounds == <<suspends, flaps, platformParity, outrun>>
vars == <<arcLock, pc, attempt, needsHwInit, saved, verified, mapped, link,
          config, marker, armed, window, platformParity, suspends, flaps, outrun>>

ResetLabels == {"r_present", "r_save", "r_mark", "r_restrict", "r_arm"}
PostLabels == {"p_pending", "p_present", "p_marker", "p_restore", "p_resave", "gate_mmio"}
PowerLabels == {"power", "power_mmio", "setting", "setting_mmio", "arm", "arm_mmio"}
DownLabels == {"inval", "down", "down_mmio", "state3", "state3_mmio", "stop", "dx"}
MmioLabels == {"io_mmio", "gate_mmio", "power_mmio", "setting_mmio", "arm_mmio",
               "down_mmio", "state3_mmio"}

TypeOK ==
    /\ arcLock \in Threads \cup {nobody}
    /\ pc \in [Threads -> {"idle", "io_mmio", "r_lock", "p_lock"} \cup ResetLabels
                          \cup PostLabels \cup PowerLabels \cup DownLabels]
    /\ attempt \in 1 .. MaxTries
    /\ {needsHwInit, verified, link, marker, armed, window, platformParity, outrun}
          \subseteq BOOLEAN
    /\ saved \in Assignments \cup {Junk, NoImage}
    /\ mapped \in Assignments /\ config \in Assignments \cup {Junk}
    /\ suspends \in 0 .. MaxSuspends /\ flaps \in 0 .. MaxFlaps

At(t, label) == pc[t] = label
Goto(t, label) == pc' = [pc EXCEPT ![t] = label]

LockFreeMutant == TRUE
LockFree == arcLock = nobody

Lock(t) == LockFree /\ arcLock' = t
Release == arcLock' = nobody

\* A path that does not go through dispatch asks under ArcLock.
RefusedMutant == FALSE
Refused == needsHwInit

Init ==
    /\ arcLock = nobody
    /\ pc = [t \in Threads |-> IF t = pnp THEN "power" ELSE "idle"]
    /\ attempt = MaxTries
    /\ needsHwInit = FALSE /\ saved = NoImage /\ verified = FALSE /\ mapped = 1
    /\ platformParity \in BOOLEAN
    /\ link = TRUE /\ config = 1 /\ marker = platformParity
    /\ armed = FALSE /\ window = FALSE
    /\ suspends = 0 /\ flaps = 0 /\ outrun = FALSE

-----------------------------------------------------------------------------
(* Dispatch.  The queue is power managed: it delivers nothing once it is   *)
(* stopped for a power transition, and again from D0 on.                   *)

Dispatching == At(queue, "idle") /\ ~At(pnp, "dx")

\* An ioctl that accesses a BAR, CONFIGURE_TLB for one.
DeviceIoctl ==
    /\ Dispatching /\ ~needsHwInit
    /\ Goto(queue, "io_mmio")
    /\ UNCHANGED <<arcLock, attempt, driverVars, chipVars, bounds>>

DeviceIoctlDone ==
    /\ At(queue, "io_mmio") /\ Goto(queue, "idle")
    /\ UNCHANGED <<arcLock, attempt, driverVars, chipVars, bounds>>

StartReset ==
    /\ Dispatching /\ Goto(queue, "r_lock")
    /\ UNCHANGED <<arcLock, attempt, driverVars, chipVars, bounds>>

StartPostReset ==
    /\ Dispatching /\ Goto(queue, "p_lock")
    /\ UNCHANGED <<arcLock, attempt, driverVars, chipVars, bounds>>

-----------------------------------------------------------------------------
(* RESET_DEVICE, up to the arm.  TtWindMapping has its checks and reclaim. *)

\* An early return that changes nothing.
GiveUp == Goto(queue, "idle") /\ Release

ResetLock ==
    /\ At(queue, "r_lock") /\ Lock(queue) /\ Goto(queue, "r_present")
    /\ UNCHANGED <<attempt, driverVars, chipVars, bounds>>

ResetPresent ==
    /\ At(queue, "r_present")
    /\ IF link THEN Goto(queue, "r_save") /\ UNCHANGED arcLock ELSE GiveUp
    /\ UNCHANGED <<attempt, driverVars, chipVars, bounds>>

\* What a read of the whole config space returns.
LiveImage == IF link THEN config ELSE Junk

SaveNeededMutant == TRUE
SaveNeeded == ~needsHwInit

ResetSave ==
    /\ At(queue, "r_save")
    /\ \/ /\ saved' = IF SaveNeeded THEN LiveImage ELSE saved
          /\ Goto(queue, "r_mark") /\ UNCHANGED arcLock
       \/ SaveNeeded /\ GiveUp /\ UNCHANGED saved
    /\ UNCHANGED <<attempt, needsHwInit, verified, mapped, chipVars, bounds>>

\* The read-modify-write of COMMAND; lost if the device is.
MarkedMutant == IF needsHwInit THEN marker ELSE TRUE
Marked == TRUE

ResetMark ==
    /\ At(queue, "r_mark")
    /\ \/ /\ marker' = IF link THEN Marked ELSE marker
          /\ Goto(queue, "r_restrict") /\ UNCHANGED arcLock
       \/ GiveUp /\ UNCHANGED marker
    /\ UNCHANGED <<attempt, driverVars, link, config, armed, window, bounds>>

DarkMutant == verified
Dark == FALSE

ResetRestrict ==
    /\ At(queue, "r_restrict")
    /\ needsHwInit' = TRUE /\ verified' = Dark
    /\ Goto(queue, "r_arm")
    /\ UNCHANGED <<arcLock, attempt, saved, mapped, chipVars, bounds>>

ResetArm ==
    /\ At(queue, "r_arm")
    /\ armed' = (armed \/ link)
    /\ Goto(queue, "idle") /\ Release
    /\ UNCHANGED <<attempt, driverVars, link, config, marker, window, bounds>>

-----------------------------------------------------------------------------
(* POST_RESET.                                                             *)

PostLock ==
    /\ At(queue, "p_lock") /\ Lock(queue) /\ Goto(queue, "p_pending")
    /\ UNCHANGED <<attempt, driverVars, chipVars, bounds>>

PostPending ==
    /\ At(queue, "p_pending")
    /\ IF needsHwInit /\ saved # NoImage
         THEN Goto(queue, "p_present") /\ UNCHANGED arcLock
         ELSE GiveUp
    /\ UNCHANGED <<attempt, driverVars, chipVars, bounds>>

PostPresent ==
    /\ At(queue, "p_present")
    /\ IF link THEN Goto(queue, "p_marker") /\ UNCHANGED arcLock ELSE GiveUp
    /\ UNCHANGED <<attempt, driverVars, chipVars, bounds>>

\* An all-1s COMMAND has the bit set too.
ResetPendingMutant == ~link
ResetPending == marker \/ ~link

PostMarker ==
    /\ At(queue, "p_marker")
    /\ IF ResetPending THEN GiveUp
       ELSE Goto(queue, "p_restore") /\ UNCHANGED arcLock
    /\ UNCHANGED <<attempt, driverVars, chipVars, bounds>>

\* TtWindResetRestoreConfig writes COMMAND last, even after an earlier dword
\* failed.
PostRestore ==
    /\ At(queue, "p_restore")
    /\ config' = IF link THEN saved ELSE config
    /\ marker' = IF link THEN platformParity ELSE marker
    /\ Goto(queue, "p_resave")
    /\ UNCHANGED <<arcLock, attempt, driverVars, link, armed, window, bounds>>

PostRestoreFails ==
    /\ At(queue, "p_restore")
    /\ marker' \in IF link THEN {marker, platformParity} ELSE {marker}
    /\ GiveUp
    /\ UNCHANGED <<attempt, driverVars, link, config, armed, window, bounds>>

\* A short read keeps the old image; an all-1s read is not short.
PostResave ==
    /\ At(queue, "p_resave")
    /\ saved' \in {saved, LiveImage}
    /\ Goto(queue, "gate_mmio")
    /\ UNCHANGED <<arcLock, attempt, needsHwInit, verified, mapped, chipVars, bounds>>

\* TtWindKernelTlbSanityCheck reads back what it wrote only if the BARs are
\* where the kernel mapped them.
PostGatePass ==
    /\ At(queue, "gate_mmio") /\ link /\ config = mapped
    /\ needsHwInit' = FALSE
    /\ attempt' = 1
    /\ Goto(queue, "power") /\ Release
    /\ UNCHANGED <<saved, verified, mapped, chipVars, bounds>>

PostGateFails ==
    /\ At(queue, "gate_mmio") /\ GiveUp
    /\ UNCHANGED <<attempt, driverVars, chipVars, bounds>>

-----------------------------------------------------------------------------
(* Power-up and sysmem arming: the tail of POST_RESET, and SelfManagedIo-  *)
(* Init and Restart.                                                       *)

\* POST_RESET makes MaxTries attempts, the power callbacks one.
TriesLeftMutant(t) == t = queue /\ attempt <= MaxTries
TriesLeft(t) == t = queue /\ attempt < MaxTries

\* TtWindArcPowerUp sends two messages and takes the lock for each.
PowerUp(t) ==
    /\ pc[t] \in {"power", "setting"} /\ LockFree
    /\ \/ ~Refused /\ arcLock' = t
          /\ Goto(t, IF At(t, "power") THEN "power_mmio" ELSE "setting_mmio")
       \/ Refused /\ Goto(t, "arm") /\ UNCHANGED arcLock
    /\ UNCHANGED <<attempt, driverVars, chipVars, bounds>>

\* On to the second message; both answered, or no try left; another try.
PowerUpDone(t) ==
    /\ pc[t] \in {"power_mmio", "setting_mmio"} /\ Release
    /\ \/ At(t, "power_mmio") /\ Goto(t, "setting") /\ UNCHANGED attempt
       \/ /\ At(t, "setting_mmio") \/ ~TriesLeft(t)
          /\ Goto(t, "arm") /\ UNCHANGED attempt
       \/ /\ TriesLeft(t)
          /\ attempt' = attempt + 1 /\ Goto(t, "power")
    /\ UNCHANGED <<driverVars, chipVars, bounds>>

\* TtWindSysmemArm.
SysmemArm(t) ==
    /\ At(t, "arm") /\ LockFree
    /\ verified' = FALSE
    /\ \/ ~Refused /\ arcLock' = t /\ Goto(t, "arm_mmio")
       \/ Refused /\ Goto(t, "idle") /\ UNCHANGED arcLock
    /\ UNCHANGED <<attempt, needsHwInit, saved, mapped, chipVars, bounds>>

SysmemArmed(t) ==
    /\ At(t, "arm_mmio")
    /\ \/ window' = link /\ verified' \in {FALSE, link}
       \/ UNCHANGED <<window, verified>>
    /\ Goto(t, "idle") /\ Release
    /\ UNCHANGED <<attempt, needsHwInit, saved, mapped, link, config, marker, armed,
                   bounds>>

-----------------------------------------------------------------------------
(* SelfManagedIoSuspend, the low power state, and the way back.            *)

Suspend ==
    /\ At(pnp, "idle") /\ suspends < MaxSuspends
    /\ suspends' = suspends + 1
    /\ Goto(pnp, "inval")
    /\ UNCHANGED <<arcLock, attempt, driverVars, chipVars, flaps, platformParity,
                   outrun>>

SysmemInvalidate ==
    /\ At(pnp, "inval") /\ LockFree
    /\ verified' = FALSE /\ Goto(pnp, "down")
    /\ UNCHANGED <<arcLock, attempt, needsHwInit, saved, mapped, chipVars, bounds>>

\* TtWindArcPowerDown sends its two messages whatever becomes of them.
AfterDown == IF At(pnp, "down") \/ At(pnp, "down_mmio") THEN "state3" ELSE "stop"

PowerDown ==
    /\ pc[pnp] \in {"down", "state3"} /\ LockFree
    /\ \/ ~Refused /\ arcLock' = pnp
          /\ Goto(pnp, IF At(pnp, "down") THEN "down_mmio" ELSE "state3_mmio")
       \/ Refused /\ Goto(pnp, AfterDown) /\ UNCHANGED arcLock
    /\ UNCHANGED <<attempt, driverVars, chipVars, bounds>>

PowerDownDone ==
    /\ pc[pnp] \in {"down_mmio", "state3_mmio"} /\ Release
    /\ Goto(pnp, AfterDown)
    /\ UNCHANGED <<attempt, driverVars, chipVars, bounds>>

\* The framework stops the queue after the callback, waits for the handler
\* that still runs, and takes the device out of D0, which clears the iATU.
LeaveD0 ==
    /\ At(pnp, "stop") /\ At(queue, "idle")
    /\ window' = FALSE /\ Goto(pnp, "dx")
    /\ UNCHANGED <<arcLock, attempt, driverVars, link, config, marker, armed, bounds>>

\* A stop releases and prepares the hardware: the bus driver moves the BARs
\* of a device that answers, and the kernel mappings follow.
Rebalance ==
    /\ At(pnp, "dx") /\ link /\ mapped <= MaxRebalances
    /\ mapped' = mapped + 1 /\ config' = mapped + 1
    /\ verified' = FALSE
    /\ UNCHANGED <<arcLock, pc, attempt, needsHwInit, saved, link, marker, armed,
                   window, bounds>>

EnterD0 ==
    /\ At(pnp, "dx") /\ Goto(pnp, "power")
    /\ UNCHANGED <<arcLock, attempt, driverVars, chipVars, bounds>>

-----------------------------------------------------------------------------
(* The chip.                                                               *)

\* The timer fires, also behind a dead link: off the bus, registers at their
\* defaults.
ChipResets ==
    /\ armed
    /\ link' = FALSE /\ armed' = FALSE /\ config' = Junk /\ marker' = FALSE
    /\ window' = FALSE
    /\ UNCHANGED <<arcLock, pc, attempt, driverVars, bounds>>

\* Nothing bounds how long RESET_DEVICE runs, so the chip may be back before
\* the handler is done with it.
ChipReturns ==
    /\ ~link
    /\ link' = TRUE
    /\ outrun' = (outrun \/ pc[queue] \in ResetLabels)
    /\ UNCHANGED <<arcLock, pc, attempt, driverVars, config, marker, armed, window,
                   suspends, flaps, platformParity>>

LinkFlaps ==
    /\ link /\ flaps < MaxFlaps
    /\ flaps' = flaps + 1
    /\ link' = FALSE
    /\ UNCHANGED <<arcLock, pc, attempt, driverVars, config, marker, armed, window,
                   suspends, platformParity, outrun>>

-----------------------------------------------------------------------------
Handler ==
    \/ DeviceIoctlDone
    \/ ResetLock \/ ResetPresent \/ ResetSave \/ ResetMark \/ ResetRestrict \/ ResetArm
    \/ PostLock \/ PostPending \/ PostPresent \/ PostMarker \/ PostRestore
    \/ PostRestoreFails \/ PostResave \/ PostGatePass \/ PostGateFails

PowerTail(t) == PowerUp(t) \/ PowerUpDone(t) \/ SysmemArm(t) \/ SysmemArmed(t)

PowerCallback ==
    SysmemInvalidate \/ PowerDown \/ PowerDownDone \/ LeaveD0 \/ EnterD0

Chip == ChipResets \/ ChipReturns

Next ==
    \/ DeviceIoctl \/ StartReset \/ StartPostReset
    \/ Handler
    \/ \E t \in Threads : PowerTail(t)
    \/ Suspend \/ PowerCallback \/ Rebalance
    \/ Chip \/ LinkFlaps

Spec == Init /\ [][Next]_vars

\* The handler and the callbacks run, also when the other thread takes the
\* lock again and again; the caller polls POST_RESET as ttwind-info does; the
\* chip obeys the trigger and comes back; and neither the config writes nor
\* the readback of a working device fail for ever.
Fairness ==
    /\ SF_vars(Handler) /\ SF_vars(PowerCallback)
    /\ \A t \in Threads : SF_vars(PowerTail(t))
    /\ SF_vars(StartPostReset)
    /\ SF_vars(PostRestore) /\ SF_vars(PostGatePass)
    /\ WF_vars(Chip)

FairSpec == Spec /\ Fairness

-----------------------------------------------------------------------------
(* Safety.  No driver can foresee that a device leaves the bus unasked, and  *)
(* this one does not notice that the device came back between two steps of   *)
(* RESET_DEVICE: what depends on either is claimed until it happens.         *)

Orderly == flaps = 0 /\ ~outrun

\* No thread touches a BAR while the device may be off the bus
\* (reset.c:30-58, the freeze of 2026-08-30), as long as the reset is orderly.
NoMmioOffTheBus ==
    Orderly => \A t \in Threads : pc[t] \in MmioLabels => link /\ ~armed

\* An armed timer that has not fired shows in COMMAND, so that POST_RESET can
\* tell "chip reset" from "not yet" (reset.c:311-317), re-arms and failed
\* restores included, as long as the reset is orderly.
PendingIsMarked == Orderly => (armed => marker)

\* Outside the restricted state the chip is whole: no timer runs, it is on
\* the bus, and its BARs are where the kernel mapped them (reset.c:469-531).
UnrestrictedIsWhole ==
    Orderly /\ ~needsHwInit => ~armed /\ link /\ config = mapped

\* However often the reset is armed, the image POST_RESET restores is one the
\* device worked with, never post-reset junk (ttwind.h:339-346).
SavedImageGood == Orderly /\ needsHwInit => saved \in Assignments

\* QUERY_SYSMEM advertises nothing while the device is restricted, whatever
\* arming was in flight (ttwind_ioctl.h:436-438).
DarkWhileRestricted == needsHwInit => ~verified

-----------------------------------------------------------------------------
(* Liveness.                                                               *)

\* Once callers stop arming resets and only poll, the device leaves the
\* restricted state again and again, whatever failed on the way: on a platform
\* that leaves parity reporting off, with BARs that stay and an orderly reset
\* (reset.c:451-536).
OnlyPolling == <>[](pc[queue] \notin ResetLabels)
Recoverable == ~platformParity /\ Orderly /\ mapped = 1

Recovers == OnlyPolling /\ []Recoverable => []<>(~needsHwInit)

-----------------------------------------------------------------------------
(* What the comments say.                                                  *)

\* "The restricted state is never permanent: POST_RESET can always be
\* retried" (ttwind_ioctl.h:485-487), on every platform.
PollingRecovers == OnlyPolling /\ [](mapped = 1 /\ Orderly) => []<>(~needsHwInit)

\* "NOTHING in the driver can touch MMIO while the link may be down"
\* (reset.c:54-57), with re-arms "permitted and idempotent" (ttwind_ioctl.h:432)
\* and no link lost but by the reset.
NothingTouchesMmio == \A t \in Threads : pc[t] \in MmioLabels => link /\ ~armed

=============================================================================
