------------------------------- MODULE Sysmem -------------------------------
(***************************************************************************)
(* The buffer of host memory lent to the device (sysmem.c) and the kernel  *)
(* resources of device.c it depends on: PrepareHardware and Release-       *)
(* Hardware with their failure paths, the arming of the on-chip window     *)
(* with its loopback, MAP_SYSMEM, and what resets and power transitions do *)
(* to all of this.                                                         *)
(*                                                                         *)
(* The unit is the page, and a buffer is named by the physical page it     *)
(* begins at.  A register write to the chip may be lost and a read may     *)
(* fail: that is what the loopback is there to notice.  User programs      *)
(* write into the buffer whenever they have a view of it.                  *)
(***************************************************************************)
EXTENDS Integers

CONSTANTS
    queue, pnp, nobody,     \* the two threads, and ArcLock's free value
    Places,                 \* physical pages at which a buffer may begin
    nowhere,                \* a NULL buffer, a cleared window target
    Tiers,                  \* TtWindSysmemTiers
    WordModulus,            \* UINT64 arithmetic wraps here (2^64 bytes)
    ViewAlign,              \* TTWIND_VIEW_ALIGN
    MapRequests,            \* <<Offset, Length>> of the map requests
    Addresses               \* user addresses at which a view can lie

ASSUME ThreadsAssumption == queue # pnp /\ nobody \notin {queue, pnp}
ASSUME PlacesAssumption == Places \subseteq Nat /\ nowhere \notin Places
ASSUME AlignAssumption == ViewAlign \in Nat \ {0}
ASSUME TiersAssumption == Tiers \subseteq Nat /\ \A n \in Tiers : 2 < n /\ n < WordModulus
ASSUME RequestsAssumption ==
    WordModulus \in Nat /\ MapRequests \subseteq (0 .. WordModulus - 1) \X (0 .. WordModulus - 1)

Threads == {queue, pnp}

\* What PrepareHardware acquires: the bus interface, two mappings that it needs
\* and three best-effort ones.
BusIf == {"BusIf"}
Required == {"TlbRegs", "KernelTlb"}
BestEffort == {"ArcApbAxi", "NocIdRegs", "Bar2Iatu"}
Pointers == BusIf \cup Required \cup BestEffort

Cells == 1 .. 3     \* the loopback's probes, TTWIND_SYSMEM_LOOPBACK_PROBES

VARIABLES
    arcLock,        \* who holds ArcLock
    pc,             \* where each thread is
    needsHwInit,    \* ctx->NeedsHwInit
    pointers,       \* of these, the ones the context knows (not NULL, BusIfValid)
    held,           \* how many of each are mapped or referenced
    buffer, size,   \* ctx->SysmemVa (with SysmemPhys) and ctx->SysmemSize
    heap,           \* the places allocated to the driver
    verified,       \* ctx->SysmemVerified
    stage,          \* ctx->SysmemStage
    tileFound,      \* ctx->PcieTileX is set
    probe, passed,  \* locals of the loopback: loop counter, status so far
    cells,          \* what the buffer holds at the probe offsets
    views,          \* user views of sysmem
    cleaning,       \* of these, the ones a file cleanup has unlinked
    target, limit, enabled      \* outbound iATU region 0 of the chip

resources == <<pointers, held, buffer, size, heap>>
armState == <<verified, stage, tileFound, probe, passed>>
userVars == <<views, cleaning>>
chipVars == <<target, limit, enabled>>
vars == <<arcLock, pc, needsHwInit, pointers, held, buffer, size, heap, verified,
          stage, tileFound, probe, passed, cells, views, cleaning, target, limit,
          enabled>>

Sizes == Tiers \cup {0}
PnpLabels == {"stopped", "failed", "invalidate", "stop", "dx", "revoked", "unmapped"}
ArmLabels == {"tile", "iatu", "magic", "readback", "rezero"}
Stages == {"not_started", "no_alloc", "no_regs", "tile_detect", "iatu", "loopback",
           "verified"}
Views == [va : Addresses, first : Nat, end : Nat]   \* the physical pages below end

TypeOK ==
    /\ arcLock \in Threads \cup {nobody}
    /\ pc \in [Threads -> {"idle", "map", "arm"} \cup ArmLabels \cup PnpLabels]
    /\ {needsHwInit, verified, tileFound, passed, enabled} \subseteq BOOLEAN
    /\ pointers \subseteq Pointers /\ held \in [Pointers -> 0 .. 1]
    /\ buffer \in Places \cup {nowhere} /\ size \in Sizes /\ heap \subseteq Places
    /\ stage \in Stages /\ probe \in Cells
    /\ cells \in [Cells -> {"zero", "magic", "data"}]
    /\ views \subseteq Views /\ cleaning \subseteq views
    /\ target \in Places \cup {nowhere} /\ limit \in Nat

At(t, label) == pc[t] = label
Goto(t, label) == pc' = [pc EXCEPT ![t] = label]
LockFree == arcLock = nobody

\* The page of a probe: 0, SysmemSize / 2, SysmemSize - 4096.
Offset(i) == <<0, size \div 2, size - 1>>[i]

Init ==
    /\ arcLock = nobody /\ needsHwInit = FALSE
    /\ pc = [t \in Threads |-> IF t = pnp THEN "stopped" ELSE "idle"]
    /\ pointers = {} /\ held = [p \in Pointers |-> 0]
    /\ buffer = nowhere /\ size = 0 /\ heap = {}
    /\ verified = FALSE /\ stage = "not_started" /\ tileFound = FALSE
    /\ probe = 1 /\ passed = FALSE
    /\ cells = [i \in Cells |-> "zero"]
    /\ views = {} /\ cleaning = {}
    /\ target = nowhere /\ limit = 0 /\ enabled = FALSE

-----------------------------------------------------------------------------
(* PrepareHardware.                                                        *)

Preparing == pc[pnp] \in {"stopped", "failed"}

Acquires(new) ==
    held' = [p \in Pointers |-> IF p \in new THEN held[p] + 1 ELSE held[p]]

\* TtWindReadPciIdentity keeps a bus interface that an earlier start left behind.
QueriedMutant == BusIf
Queried == BusIf \ pointers

\* The bus interface, the identity, BAR0 or the first mapping.
PrepareFails ==
    /\ Preparing /\ Goto(pnp, "failed")
    /\ \E new \in {{}, Queried} : pointers' = pointers \cup new /\ Acquires(new)
    /\ UNCHANGED <<arcLock, needsHwInit, buffer, size, heap, armState, cells, userVars,
                   chipVars>>

\* The second mapping fails after the first was made.
KeptMutant == {"TlbRegs"}
Kept == {}

PrepareFailsHalfway ==
    /\ Preparing /\ Goto(pnp, "failed")
    /\ pointers' = BusIf \cup Kept /\ Acquires(Queried)
    /\ UNCHANGED <<arcLock, needsHwInit, buffer, size, heap, armState, cells, userVars,
                   chipVars>>

\* TtWindSysmemAllocate: the first tier that can be had, zeroed, or none.
Allocates ==
    \/ \E place \in Places \ heap, n \in Tiers :
          /\ buffer' = place /\ size' = n /\ heap' = heap \cup {place}
          /\ cells' = [i \in Cells |-> "zero"]
    \/ buffer' = nowhere /\ size' = 0 /\ UNCHANGED <<heap, cells>>

PrepareHardware ==
    /\ Preparing /\ Goto(pnp, "arm")
    /\ \E got \in SUBSET BestEffort :
          /\ pointers' = BusIf \cup Required \cup got
          /\ Acquires(Queried \cup Required \cup got)
    /\ Allocates
    /\ UNCHANGED <<arcLock, needsHwInit, armState, userVars, chipVars>>

-----------------------------------------------------------------------------
(* ReleaseHardware, which the framework also calls when Prepare failed.    *)

\* TtWindRevokeAllMappings finds the views whose records are linked.
RevokedMutant == {}
Revoked == views \ cleaning

RevokeAllMappings ==
    /\ pc[pnp] \in {"dx", "failed"}
    /\ views' = views \ Revoked
    /\ Goto(pnp, "revoked")
    /\ UNCHANGED <<arcLock, needsHwInit, resources, armState, cells, cleaning, chipVars>>

\* Every pointer that is not NULL is unmapped, and becomes NULL.
Unmaps(gone) ==
    /\ pointers' = pointers \ gone
    /\ held' = [p \in Pointers |-> IF p \in pointers \cap gone THEN held[p] - 1 ELSE held[p]]

ReleaseMappings ==
    /\ At(pnp, "revoked") /\ LockFree
    /\ Unmaps(Pointers \ (BusIf \cup {"TlbRegs"}))
    /\ verified' = FALSE
    /\ Goto(pnp, "unmapped")
    /\ UNCHANGED <<arcLock, needsHwInit, buffer, size, heap, stage, tileFound, probe,
                   passed, cells, userVars, chipVars>>

\* TtWindSysmemFree, and at last the TLB registers and the bus interface.
SysmemFree ==
    /\ At(pnp, "unmapped")
    /\ Unmaps(BusIf \cup {"TlbRegs"})
    /\ heap' = heap \ {buffer} /\ buffer' = nowhere /\ size' = 0
    /\ verified' = FALSE /\ tileFound' = FALSE
    /\ Goto(pnp, "stopped")
    /\ UNCHANGED <<arcLock, needsHwInit, stage, probe, passed, cells, userVars, chipVars>>

-----------------------------------------------------------------------------
(* TtWindSysmemArm, on either thread, under ArcLock from begin to end.     *)

\* The early ends: an attempt that is none leaves the recorded stage alone.
SysmemArm(t) ==
    /\ At(t, "arm") /\ LockFree
    /\ verified' = FALSE
    /\ \/ needsHwInit /\ Goto(t, "idle") /\ UNCHANGED <<arcLock, stage>>
       \/ /\ ~needsHwInit /\ buffer = nowhere
          /\ stage' = "no_alloc" /\ Goto(t, "idle") /\ UNCHANGED arcLock
       \/ /\ ~needsHwInit /\ buffer # nowhere
          /\ ~(Required \cup {"Bar2Iatu"} \subseteq pointers)
          /\ stage' = "no_regs" /\ Goto(t, "idle") /\ UNCHANGED arcLock
       \/ /\ ~needsHwInit /\ buffer # nowhere
          /\ Required \cup {"Bar2Iatu"} \subseteq pointers
          /\ stage' = "tile_detect" /\ Goto(t, "tile") /\ arcLock' = t
    /\ UNCHANGED <<needsHwInit, resources, tileFound, probe, passed, cells, userVars,
                   chipVars>>

\* An arm ends without sysmem.
Unavailable(t) == Goto(t, "idle") /\ arcLock' = nobody

\* The NOC_ID register may be unmapped, read all-1s or make no sense.
DetectPcieTile(t) ==
    /\ At(t, "tile")
    /\ \/ /\ "NocIdRegs" \in pointers
          /\ tileFound' = TRUE /\ stage' = "iatu"
          /\ Goto(t, "iatu") /\ UNCHANGED arcLock
       \/ Unavailable(t) /\ UNCHANGED <<tileFound, stage>>
    /\ UNCHANGED <<needsHwInit, resources, verified, probe, passed, cells, userVars,
                   chipVars>>

\* TtWindIatuProgramOutbound: each register write lands or is lost.
IatuProgram(t) ==
    /\ At(t, "iatu")
    /\ target' \in {target, buffer}
    /\ limit' \in {limit, size - 1}
    /\ enabled' \in {enabled, TRUE}
    /\ stage' = "loopback" /\ probe' = 1 /\ passed' = TRUE
    /\ Goto(t, "magic")
    /\ UNCHANGED <<arcLock, needsHwInit, resources, verified, tileFound, cells, userVars>>

\* The loops over the probes, from one loop to the next.
LastProbeMutant == 1
LastProbe == 3

WriteMagic(t) ==
    /\ At(t, "magic")
    /\ cells' = [cells EXCEPT ![probe] = "magic"]
    /\ IF probe < 3 THEN probe' = probe + 1 /\ UNCHANGED pc
       ELSE probe' = 1 /\ Goto(t, "readback")
    /\ UNCHANGED <<arcLock, needsHwInit, resources, verified, stage, tileFound, passed,
                   userVars, chipVars>>

\* What the device reads through its window is the buffer.
Reaches(i) == enabled /\ target = buffer /\ Offset(i) <= limit

Matches == Reaches(probe) /\ cells[probe] = "magic"

\* A mismatch or an all-1s read ends the loop.
ReadBack(t) ==
    /\ At(t, "readback")
    /\ \/ /\ Matches
          /\ IF probe < LastProbe THEN probe' = probe + 1 /\ UNCHANGED pc
             ELSE probe' = 1 /\ Goto(t, "rezero")
          /\ UNCHANGED passed
       \/ passed' = FALSE /\ probe' = 1 /\ Goto(t, "rezero")
    /\ UNCHANGED <<arcLock, needsHwInit, resources, verified, stage, tileFound, cells,
                   userVars, chipVars>>

\* "The probe locations are re-zeroed afterwards", whatever the outcome.
RezeroedMutant(i) == IF passed THEN "zero" ELSE cells[i]
Rezeroed(i) == "zero"

Rezero(t) ==
    /\ At(t, "rezero")
    /\ cells' = [cells EXCEPT ![probe] = Rezeroed(probe)]
    /\ IF probe < 3
         THEN probe' = probe + 1 /\ UNCHANGED <<pc, arcLock, stage, verified>>
         ELSE /\ probe' = 1 /\ Goto(t, "idle") /\ arcLock' = nobody
              /\ verified' = passed
              /\ stage' = IF passed THEN "verified" ELSE stage
    /\ UNCHANGED <<needsHwInit, resources, tileFound, passed, userVars, chipVars>>

-----------------------------------------------------------------------------
(* Power transitions.  The queue delivers requests in D0 only.             *)

Suspend ==
    /\ At(pnp, "idle") /\ Goto(pnp, "invalidate")
    /\ UNCHANGED <<arcLock, needsHwInit, resources, armState, cells, userVars, chipVars>>

SysmemInvalidate ==
    /\ At(pnp, "invalidate") /\ LockFree
    /\ verified' = FALSE /\ Goto(pnp, "stop")
    /\ UNCHANGED <<arcLock, needsHwInit, resources, stage, tileFound, probe, passed,
                   cells, userVars, chipVars>>

\* The chip loses its window.
ClearWindow == target' = nowhere /\ limit' = 0 /\ enabled' = FALSE

\* "A Dx transition may clear the iATU" (arc.c:868).
LeaveD0 ==
    /\ At(pnp, "stop") /\ At(queue, "idle") /\ Goto(pnp, "dx")
    /\ ClearWindow \/ UNCHANGED chipVars
    /\ UNCHANGED <<arcLock, needsHwInit, resources, armState, cells, userVars>>

EnterD0 ==
    /\ At(pnp, "dx") /\ Goto(pnp, "arm")
    /\ UNCHANGED <<arcLock, needsHwInit, resources, armState, cells, userVars, chipVars>>

-----------------------------------------------------------------------------
(* The queue.                                                              *)

Dispatching ==
    At(queue, "idle") /\ pc[pnp] \in {"arm", "idle", "invalidate", "stop"} \cup ArmLabels

\* RESET_DEVICE past its busy check: no record of a view is linked.
RestrictDevice ==
    /\ Dispatching /\ LockFree /\ views \subseteq cleaning
    /\ needsHwInit' = TRUE /\ verified' = FALSE
    /\ UNCHANGED <<arcLock, pc, resources, stage, tileFound, probe, passed, cells,
                   userVars, chipVars>>

\* The timer it armed.
ChipResets ==
    /\ needsHwInit /\ ClearWindow
    /\ UNCHANGED <<arcLock, pc, needsHwInit, resources, armState, cells, userVars>>

\* POST_RESET past its gate arms sysmem at its end.
PostReset ==
    /\ Dispatching /\ LockFree /\ needsHwInit
    /\ needsHwInit' = FALSE /\ Goto(queue, "arm")
    /\ UNCHANGED <<arcLock, resources, armState, cells, userVars, chipVars>>

\* MAP_SYSMEM asks for SysmemVerified under ArcLock and drops the lock.
MapSysmem ==
    /\ Dispatching /\ LockFree /\ verified /\ Goto(queue, "map")
    /\ UNCHANGED <<arcLock, needsHwInit, resources, armState, cells, userVars, chipVars>>

InBoundsMutant(off, len) == (off + len) % WordModulus <= size
InBounds(off, len) == len <= size /\ off <= size - len

\* A section view begins on the allocation granularity, at or before the page
\* asked for.
AlignedDown(page) == (page \div ViewAlign) * ViewAlign

NewView(a, off, len) ==
    [va |-> a, first |-> AlignedDown(buffer + off), end |-> buffer + off + len]

MapView ==
    /\ At(queue, "map") /\ Goto(queue, "idle")
    /\ \/ \E r \in MapRequests, a \in Addresses :
             /\ r[2] # 0 /\ InBounds(r[1], r[2])
             /\ \A v \in views : v.va # a
             /\ views' = views \cup {NewView(a, r[1], r[2])}
       \/ UNCHANGED views
    /\ UNCHANGED <<arcLock, needsHwInit, resources, armState, cells, cleaning, chipVars>>

UnmapView ==
    /\ Dispatching
    /\ \E v \in views \ cleaning : views' = views \ {v}
    /\ UNCHANGED <<arcLock, pc, needsHwInit, resources, armState, cells, cleaning, chipVars>>

-----------------------------------------------------------------------------
(* User programs and file cleanups, on threads of their own.               *)

UserWrites ==
    /\ \E v \in views, i \in Cells :
          /\ buffer # nowhere /\ buffer + Offset(i) \in v.first .. v.end - 1
          /\ cells' = [cells EXCEPT ![i] = "data"]
    /\ UNCHANGED <<arcLock, pc, needsHwInit, resources, armState, userVars, chipVars>>

FileCleanup ==
    /\ \E v \in views \ cleaning : cleaning' = cleaning \cup {v}
    /\ UNCHANGED <<arcLock, pc, needsHwInit, resources, armState, cells, views, chipVars>>

FileCleanupDestroy ==
    /\ \E v \in cleaning : views' = views \ {v} /\ cleaning' = cleaning \ {v}
    /\ UNCHANGED <<arcLock, pc, needsHwInit, resources, armState, cells, chipVars>>

-----------------------------------------------------------------------------
Arm(t) ==
    \/ SysmemArm(t) \/ DetectPcieTile(t) \/ IatuProgram(t)
    \/ WriteMagic(t) \/ ReadBack(t) \/ Rezero(t)

Next ==
    \/ PrepareFails \/ PrepareFailsHalfway \/ PrepareHardware
    \/ RevokeAllMappings \/ ReleaseMappings \/ SysmemFree
    \/ \E t \in Threads : Arm(t)
    \/ Suspend \/ SysmemInvalidate \/ LeaveD0 \/ EnterD0
    \/ RestrictDevice \/ ChipResets \/ PostReset
    \/ MapSysmem \/ MapView \/ UnmapView
    \/ UserWrites \/ FileCleanup \/ FileCleanupDestroy

Spec == Init /\ [][Next]_vars

-----------------------------------------------------------------------------
(* Safety.                                                                 *)

\* Every kernel mapping, bus reference and buffer is behind exactly one pointer,
\* so it is given back once; a start that failed keeps no mapping and no buffer,
\* and a stopped device nothing, however often starts fail (device.c:79-91,
\* 237-262, 365-419).
ResourcesAccounted ==
    /\ \A p \in Pointers : held[p] = IF p \in pointers THEN 1 ELSE 0
    /\ heap = {buffer} \ {nowhere}
    /\ pc[pnp] = "failed" => pointers \subseteq BusIf /\ heap = {}
    /\ pc[pnp] = "stopped" => pointers = {} /\ heap = {}

\* What QUERY_SYSMEM advertises is there: an unrestricted device with a
\* buffer, and a window that opens on this buffer and on all of it, whatever
\* writes were lost on the way (sysmem.c:24-32); the window may be gone from
\* the moment the device left D0 until the power callbacks arm it again or the
\* hardware is released.
PoweredDown == pc[pnp] \in {"dx", "revoked", "arm"}

AdvertisedWindowReaches ==
    verified =>
        /\ ~needsHwInit /\ buffer \in heap /\ tileFound /\ stage = "verified"
        /\ Required \cup {"Bar2Iatu", "NocIdRegs"} \subseteq pointers
        /\ PoweredDown \/ (enabled /\ target = buffer /\ limit >= size - 1)

\* Outside an arm no probe pattern is in the buffer (sysmem.c:294-295).
NoMagicLeft == LockFree => \A i \in Cells : cells[i] # "magic"

\* A view that is linked lies in the buffer that is allocated now, but for the
\* pages by which the buffer itself misses the allocation granularity: no length
\* or offset reaches past its end, and the buffer is not freed or replaced under
\* it (sysmem.c:52-58, 142-160, 616-622).
ViewsInsideBuffer ==
    \A v \in views \ cleaning :
        buffer \in heap /\ AlignedDown(buffer) <= v.first /\ v.end <= buffer + size

-----------------------------------------------------------------------------
(* What the comments say.                                                  *)

\* "The buffer contents and any user views survive all of that - only the
\* on-chip window needs re-arming" (sysmem.c:63-64): while the buffer stays,
\* what a program wrote stays.
ContentsSurvive ==
    [][buffer' = buffer =>
         \A i \in Cells : cells[i] = "data" => cells'[i] = "data"]_vars

\* "a Dx transition may clear the iATU, so stop advertising sysmem until Restart
\* re-arms it" (arc.c:868-869).
SuspendedIsDark == pc[pnp] \in {"stop", "dx"} => ~verified

\* "[0, size-1] -> host physical [SysmemPhys, +size-1]", and "the driver proves
\* the whole path with a loopback" (sysmem.c:17-18, 24-25).
WindowEndsWithBuffer == verified /\ ~PoweredDown => limit = size - 1

\* "The driver alone computes the physical range (bounds-checked against its own
\* buffer ...)" (sysmem.c:52-54).
ViewsBeginInBuffer == \A v \in views \ cleaning : buffer <= v.first

=============================================================================
