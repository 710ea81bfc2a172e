--------------------------- MODULE TtWindMapping ---------------------------
(***************************************************************************)
(* The state behind StateLock: user mappings (mapping.c), the 2 MiB TLB    *)
(* window allocator (tlb.c), the dispatcher's fences (queue.c) and the     *)
(* part of reset.c, sysmem.c and device.c that reads or writes it.         *)
(*                                                                         *)
(* Threads: the sequential ioctl queue (one request in flight, program     *)
(* counter pc), EvtDeviceFileCreate and EvtFileCleanup on any thread, and  *)
(* the PnP thread in Release/PrepareHardware.  A step is one critical      *)
(* section of StateLock or one effect between two of them; whatever a      *)
(* thread does on its private data is merged with the next such step.      *)
(***************************************************************************)
EXTENDS Naturals, FiniteSets

CONSTANTS
    Files,      \* addresses of WDFFILEOBJECTs; an address is reused after close
    NoFile,     \* TlbOwner[i] == NULL
    NumTlb,     \* TTWIND_BH_TLB_2M_COUNT; windows are 0 .. NumTlb-1
    Vas,        \* user virtual addresses a view can get
    Bar,        \* backing of a MAP_BAR view (TlbId -1, MDL)
    Sysmem,     \* backing of a MAP_SYSMEM view (TlbId -1, SECTION)
    NoVa,       \* the request names no address
    MaxGen      \* bound: resets armed in one behaviour

ASSUME FilesAssumption == NoFile \notin Files
ASSUME NumTlbAssumption == NumTlb \in Nat \ {0}
ASSUME BackingAssumption == /\ Bar \notin Nat /\ Sysmem \notin Nat
                            /\ Bar # Sysmem
ASSUME VasAssumption == NoVa \notin Vas
ASSUME MaxGenAssumption == MaxGen \in Nat

TlbIds == 0 .. NumTlb - 1
KernelTlb == NumTlb - 1          \* TTWIND_BH_KERNEL_TLB_INDEX

Records == [va : Vas, file : Files, backing : TlbIds \cup {Bar, Sysmem}]

Ops == {"MAP_BAR", "UNMAP_BAR", "ALLOCATE_TLB", "FREE_TLB", "CONFIGURE_TLB",
        "MAP_TLB", "MAP_SYSMEM", "RESET_DEVICE", "POST_RESET"}

\* Operators named ...Mutant are the mutated forms the properties are tested
\* against; nothing in the specification uses them.
RestrictedOpsMutant == {"RESET_DEVICE", "POST_RESET", "MAP_BAR"}

\* The dispatcher's allow-list while NeedsHwInit; GET_DEVICE_INFO and
\* QUERY_SYSMEM are on it too and leave all of this state alone.
RestrictedOps == {"RESET_DEVICE", "POST_RESET"}

VARIABLES
    mappingList,        \* ctx->MappingList: the linked records
    views,              \* records whose user view is mapped (live PTEs)
    tlbBitmap,          \* ctx->TlbBitmap: the set bits
    tlbOwner,           \* ctx->TlbOwner
    tlbTarget,          \* the handle whose CONFIGURE_TLB the window holds
    resetGeneration,    \* ctx->ResetGeneration
    needsHwInit,        \* ctx->NeedsHwInit
    fileGeneration,     \* TTWIND_FILE_CONTEXT.ResetGeneration
    handle,             \* life of each file object
    toDestroy,          \* EvtFileCleanup's private list, per file object
    device,             \* PnP state of the device
    toRevoke,           \* TtWindRevokeAllMappings's private list
    pc,                 \* where the request in flight is
    req,                \* the request in flight
    mine,               \* the record its handler holds privately, if any
    raced               \* history: cleanup ran under a request of the handle

lockVars == <<mappingList, tlbBitmap, tlbOwner>>
fenceVars == <<resetGeneration, needsHwInit, fileGeneration>>
fileVars == <<handle, toDestroy, raced>>
pnpVars == <<device, toRevoke>>
reqVars == <<pc, req, mine>>
vars == <<mappingList, views, tlbBitmap, tlbOwner, tlbTarget, resetGeneration,
          needsHwInit, fileGeneration, handle, toDestroy, device, toRevoke,
          pc, req, mine, raced>>

Requests == [op : Ops, file : Files, tlb : TlbIds, va : Vas \cup {NoVa}]
NoRequest == [op |-> "NONE", file |-> NoFile, tlb |-> 0, va |-> NoVa]

TypeOK ==
    /\ mappingList \subseteq Records
    /\ views \subseteq Records
    /\ tlbBitmap \subseteq TlbIds
    /\ tlbOwner \in [TlbIds -> Files \cup {NoFile}]
    /\ tlbTarget \in [TlbIds -> Files \cup {NoFile}]
    /\ resetGeneration \in Nat
    /\ needsHwInit \in BOOLEAN
    /\ fileGeneration \in [Files -> Nat]
    /\ handle \in [Files -> {"closed", "open", "cleanup"}]
    /\ toDestroy \in [Files -> SUBSET Records]
    /\ device \in {"started", "revoking", "released"}
    /\ toRevoke \subseteq Records
    /\ pc \in {"idle", "body", "map", "insert", "destroy", "fence", "carry"}
    /\ req \in Requests \cup {NoRequest}
    /\ mine \subseteq Records
    /\ raced \in [Files -> BOOLEAN]

-----------------------------------------------------------------------------
(* Helpers of mapping.c and tlb.c; the caller holds StateLock.             *)

TlbHasMappingsMutant(w) == FALSE
TlbHasMappings(w) == \E m \in mappingList : m.backing = w

CheckTlbOwnerMutant(f, w) == tlbOwner[w] # NoFile
CheckTlbOwner(f, w) == tlbOwner[w] = f

\* RtlFindClearBitsAndSet searches the bits of the bitmap, no others.
ClearBitsMutant == 0 .. NumTlb \ tlbBitmap
ClearBits == TlbIds \ tlbBitmap

\* The windows and the list after a handle or a mapping is gone from them.
WindowsOfMutant(f) == {w \in TlbIds : tlbOwner[w] = f /\ ~TlbHasMappings(w)}
WindowsOf(f) == {w \in TlbIds : tlbOwner[w] = f}

UnlinkMutant(m) == mappingList
Unlink(m) == mappingList \ {m}

ReclaimAllWindowsMutant ==
    tlbOwner' = [w \in TlbIds |-> NoFile] /\ tlbBitmap' = {}

\* What RESET_DEVICE and TtWindRevokeAllMappings leave of the allocator.
ReclaimAllWindows ==
    /\ tlbOwner' = [w \in TlbIds |-> NoFile]
    /\ tlbBitmap' = {KernelTlb}

\* TtWindDestroyMapping: the record is off every list; its view goes.
DestroyMapping(m) == views' = views \ {m}

\* WdfRequestComplete: the queue may dispatch the next request.
Complete == pc' = "idle" /\ req' = NoRequest

-----------------------------------------------------------------------------
Init ==
    /\ mappingList = {} /\ views = {}
    /\ tlbBitmap = {KernelTlb}
    /\ tlbOwner = [w \in TlbIds |-> NoFile]
    /\ tlbTarget = [w \in TlbIds |-> NoFile]
    /\ resetGeneration = 0 /\ needsHwInit = FALSE
    /\ fileGeneration = [f \in Files |-> 0]
    /\ handle = [f \in Files |-> "closed"]
    /\ toDestroy = [f \in Files |-> {}]
    /\ raced = [f \in Files |-> FALSE]
    /\ device = "started" /\ toRevoke = {}
    /\ pc = "idle" /\ req = NoRequest /\ mine = {}

-----------------------------------------------------------------------------
(* File objects.                                                           *)

\* TtWindEvtDeviceFileCreate.  The address of a file object is not reused
\* while a request still references it.
FileCreate(f) ==
    /\ handle[f] = "closed"
    /\ req.file # f
    /\ handle' = [handle EXCEPT ![f] = "open"]
    /\ fileGeneration' = [fileGeneration EXCEPT ![f] = resetGeneration]
    /\ raced' = [raced EXCEPT ![f] = FALSE]
    /\ UNCHANGED <<lockVars, views, tlbTarget, resetGeneration, needsHwInit,
                   toDestroy, pnpVars, reqVars>>

\* TtWindEvtFileCleanup, the section under StateLock: the handle's records
\* go to a private list and its windows are released.
FileCleanup(f) ==
    /\ handle[f] = "open"
    /\ handle' = [handle EXCEPT ![f] = "cleanup"]
    /\ toDestroy' = [toDestroy EXCEPT ![f] = {m \in mappingList : m.file = f}]
    /\ mappingList' = {m \in mappingList : m.file # f}
    /\ tlbOwner' = [w \in TlbIds |->
                      IF w \in WindowsOf(f) THEN NoFile ELSE tlbOwner[w]]
    /\ tlbBitmap' = tlbBitmap \ WindowsOf(f)
    /\ raced' = [raced EXCEPT ![f] = req.file = f]
    /\ UNCHANGED <<views, tlbTarget, fenceVars, pnpVars, reqVars>>

\* One iteration of its loop after the lock is dropped.
FileCleanupDestroy(f) ==
    \E m \in toDestroy[f] :
        /\ DestroyMapping(m)
        /\ toDestroy' = [toDestroy EXCEPT ![f] = @ \ {m}]
        /\ UNCHANGED <<lockVars, tlbTarget, fenceVars, handle, raced, pnpVars,
                       reqVars>>

FileClose(f) ==
    /\ handle[f] = "cleanup" /\ toDestroy[f] = {}
    /\ handle' = [handle EXCEPT ![f] = "closed"]
    /\ UNCHANGED <<lockVars, views, tlbTarget, fenceVars, toDestroy, raced,
                   pnpVars, reqVars>>

-----------------------------------------------------------------------------
(* TtWindEvtIoDeviceControl.  A request of a stale handle (DEVICE_REMOVED) *)
(* and one off the allow-list while restricted (REINITIALIZATION_NEEDED)   *)
(* are completed here without a step: they leave every variable alone.     *)

\* What a caller can pass; fields an ioctl does not have are fixed.
RequestsOf(f, op) ==
    [op : {op}, file : {f},
     tlb : IF op \in {"FREE_TLB", "CONFIGURE_TLB", "MAP_TLB"} THEN TlbIds ELSE {0},
     va : IF op = "UNMAP_BAR" THEN Vas ELSE {NoVa}]

GenerationFenceMutant(f) == TRUE
GenerationFence(f) == fileGeneration[f] = resetGeneration

Dispatch(f, op) ==
    /\ pc = "idle" /\ device = "started" /\ handle[f] = "open"
    /\ GenerationFence(f)
    /\ needsHwInit => op \in RestrictedOps
    /\ op = "RESET_DEVICE" => resetGeneration < MaxGen
    /\ req' \in RequestsOf(f, op)
    /\ pc' = "body"
    /\ UNCHANGED <<lockVars, views, tlbTarget, fenceVars, fileVars, pnpVars,
                   mine>>

Handling(op) == pc = "body" /\ req.op = op

-----------------------------------------------------------------------------
(* tlb.c                                                                   *)

\* RtlFindClearBitsAndSet(.., 1, 0): the lowest clear bit, if there is one.
IoctlAllocateTlb ==
    /\ Handling("ALLOCATE_TLB")
    /\ \/ \E id \in ClearBits :
             /\ \A w \in ClearBits : id <= w
             /\ tlbBitmap' = tlbBitmap \cup {id}
             /\ tlbOwner' = [tlbOwner EXCEPT ![id] = req.file]
       \/ ClearBits = {} /\ UNCHANGED <<tlbBitmap, tlbOwner>>
    /\ Complete
    /\ UNCHANGED <<mappingList, views, tlbTarget, fenceVars, fileVars, pnpVars,
                   mine>>

IoctlFreeTlb ==
    /\ Handling("FREE_TLB")
    /\ IF CheckTlbOwner(req.file, req.tlb) /\ ~TlbHasMappings(req.tlb)
         THEN /\ tlbOwner' = [tlbOwner EXCEPT ![req.tlb] = NoFile]
              /\ tlbBitmap' = tlbBitmap \ {req.tlb}
         ELSE UNCHANGED <<tlbBitmap, tlbOwner>>
    /\ Complete
    /\ UNCHANGED <<mappingList, views, tlbTarget, fenceVars, fileVars, pnpVars,
                   mine>>

\* The register write stays under StateLock with the ownership check.
IoctlConfigureTlb ==
    /\ Handling("CONFIGURE_TLB")
    /\ IF CheckTlbOwner(req.file, req.tlb)
         THEN tlbTarget' = [tlbTarget EXCEPT ![req.tlb] = req.file]
         ELSE UNCHANGED tlbTarget
    /\ Complete
    /\ UNCHANGED <<lockVars, views, fenceVars, fileVars, pnpVars, mine>>

\* Ownership is checked here and again when the record is linked; the
\* input or BAR 0 bounds check may also refuse.
IoctlMapTlb ==
    /\ Handling("MAP_TLB")
    /\ \/ CheckTlbOwner(req.file, req.tlb) /\ pc' = "map" /\ UNCHANGED req
       \/ Complete
    /\ UNCHANGED <<lockVars, views, tlbTarget, fenceVars, fileVars, pnpVars,
                   mine>>

-----------------------------------------------------------------------------
(* mapping.c and sysmem.c: creating and destroying a user mapping.         *)

\* The argument checks of a map request, MAP_SYSMEM's SysmemVerified test
\* included, touch nothing else here.
CheckArguments ==
    /\ (pc' = "map" /\ UNCHANGED req) \/ Complete
    /\ UNCHANGED <<lockVars, views, tlbTarget, fenceVars, fileVars, pnpVars,
                   mine>>

IoctlMapBar == Handling("MAP_BAR") /\ CheckArguments
IoctlMapSysmem == Handling("MAP_SYSMEM") /\ CheckArguments

Backing == IF req.op = "MAP_TLB" THEN req.tlb
           ELSE IF req.op = "MAP_BAR" THEN Bar ELSE Sysmem

\* TtWindMapIoToUser / TtWindMapSysmemToUser: the view appears at an
\* address no live view has, or an allocation fails and nothing is left.
CreateView ==
    /\ pc = "map"
    /\ \/ \E va \in Vas \ {m.va : m \in views} :
             LET m == [va |-> va, file |-> req.file, backing |-> Backing]
             IN  /\ views' = views \cup {m}
                 /\ mine' = {m}
                 /\ pc' = "insert" /\ UNCHANGED req
       \/ Complete /\ UNCHANGED <<views, mine>>
    /\ UNCHANGED <<lockVars, tlbTarget, fenceVars, fileVars, pnpVars>>

\* Ownership is revalidated for a window only, not for BAR or sysmem views.
RevalidatedMutant(m) == TRUE
Revalidated(m) == m.backing \in TlbIds => tlbOwner[m.backing] = m.file

InsertMapping ==
    /\ pc = "insert"
    /\ \E m \in mine :
          \/ /\ Revalidated(m)
             /\ mappingList' = mappingList \cup {m}
             /\ mine' = {}
             /\ Complete
          \/ /\ ~Revalidated(m)
             /\ pc' = "destroy"
             /\ UNCHANGED <<mappingList, mine, req>>
    /\ UNCHANGED <<views, tlbBitmap, tlbOwner, tlbTarget, fenceVars, fileVars,
                   pnpVars>>

\* UNMAP_BAR unlinks under the lock and destroys after it.
IoctlUnmapBar ==
    /\ Handling("UNMAP_BAR")
    /\ \/ \E m \in mappingList :
             /\ m.file = req.file /\ m.va = req.va
             /\ mappingList' = Unlink(m)
             /\ mine' = {m}
             /\ pc' = "destroy" /\ UNCHANGED req
       \/ /\ \A m \in mappingList : m.file # req.file \/ m.va # req.va
          /\ Complete /\ UNCHANGED <<mappingList, mine>>
    /\ UNCHANGED <<views, tlbBitmap, tlbOwner, tlbTarget, fenceVars, fileVars,
                   pnpVars>>

\* The handler's own TtWindDestroyMapping: UNMAP_BAR, or a mapping backed
\* out of because its window went away.
DestroyMine ==
    /\ pc = "destroy"
    /\ \E m \in mine : DestroyMapping(m)
    /\ mine' = {}
    /\ Complete
    /\ UNCHANGED <<lockVars, tlbTarget, fenceVars, fileVars, pnpVars>>

-----------------------------------------------------------------------------
(* reset.c, as far as it touches this state (see ResetRecovery).           *)

\* The busy check; the lock is dropped before anything is armed.
IoctlResetDevice ==
    /\ Handling("RESET_DEVICE")
    /\ \/ mappingList = {} /\ pc' = "fence" /\ UNCHANGED req
       \/ mappingList # {} /\ Complete
    /\ UNCHANGED <<lockVars, views, tlbTarget, fenceVars, fileVars, pnpVars,
                   mine>>

\* Device gone or a config access failed, or the fence under StateLock.
ResetFence ==
    /\ pc = "fence"
    /\ \/ /\ resetGeneration' = resetGeneration + 1
          /\ ReclaimAllWindows
          /\ pc' = "carry" /\ UNCHANGED req
       \/ Complete /\ UNCHANGED <<resetGeneration, tlbBitmap, tlbOwner>>
    /\ UNCHANGED <<mappingList, views, tlbTarget, needsHwInit, fileGeneration,
                   fileVars, pnpVars, mine>>

\* The resetting handle moves to the new generation, NeedsHwInit goes up
\* and the timer is armed.
ResetArm ==
    /\ pc = "carry"
    /\ fileGeneration' = [fileGeneration EXCEPT ![req.file] = resetGeneration]
    /\ needsHwInit' = TRUE
    /\ Complete
    /\ UNCHANGED <<lockVars, views, tlbTarget, resetGeneration, fileVars,
                   pnpVars, mine>>

\* POST_RESET: not back yet, or recovered.
IoctlPostReset ==
    /\ Handling("POST_RESET")
    /\ needsHwInit' \in {needsHwInit, FALSE}
    /\ Complete
    /\ UNCHANGED <<lockVars, views, tlbTarget, resetGeneration, fileGeneration,
                   fileVars, pnpVars, mine>>

-----------------------------------------------------------------------------
(* device.c: the PnP thread.  The framework purges the power-managed queue *)
(* first; file cleanups go on.                                             *)

QueuePurgedMutant == TRUE
QueuePurged == pc = "idle"

\* TtWindRevokeAllMappings under StateLock.
ReleaseHardware ==
    /\ device = "started" /\ QueuePurged
    /\ device' = "revoking"
    /\ toRevoke' = mappingList
    /\ mappingList' = {}
    /\ ReclaimAllWindows
    /\ UNCHANGED <<views, tlbTarget, fenceVars, fileVars, reqVars>>

RevokeDestroy ==
    /\ \E m \in toRevoke : DestroyMapping(m) /\ toRevoke' = toRevoke \ {m}
    /\ UNCHANGED <<lockVars, tlbTarget, fenceVars, fileVars, device, reqVars>>

\* The rest of ReleaseHardware: the BARs are unmapped and forgotten, the
\* sysmem buffer is freed.
ReleaseDone ==
    /\ device = "revoking" /\ toRevoke = {}
    /\ device' = "released"
    /\ UNCHANGED <<lockVars, views, tlbTarget, fenceVars, fileVars, toRevoke,
                   reqVars>>

\* A rebalance starts the same device context again.
PrepareHardware ==
    /\ device = "released"
    /\ device' = "started"
    /\ UNCHANGED <<lockVars, views, tlbTarget, fenceVars, fileVars, toRevoke,
                   reqVars>>

-----------------------------------------------------------------------------
Handler ==
    \/ IoctlAllocateTlb \/ IoctlFreeTlb \/ IoctlConfigureTlb \/ IoctlMapTlb
    \/ IoctlMapBar \/ IoctlMapSysmem \/ CreateView \/ InsertMapping
    \/ IoctlUnmapBar \/ DestroyMine
    \/ IoctlResetDevice \/ ResetFence \/ ResetArm \/ IoctlPostReset

FileEvent(f) == FileCreate(f) \/ FileCleanup(f) \/ FileCleanupDestroy(f)
                \/ FileClose(f)

Pnp == ReleaseHardware \/ RevokeDestroy \/ ReleaseDone \/ PrepareHardware

Next ==
    \/ \E f \in Files, op \in Ops : Dispatch(f, op)
    \/ Handler
    \/ \E f \in Files : FileEvent(f)
    \/ Pnp

Spec == Init /\ [][Next]_vars

-----------------------------------------------------------------------------
(* Properties.                                                             *)

\* Records some thread has taken off the list and will destroy.
Doomed == toRevoke \cup UNION {toDestroy[f] : f \in Files}

\* Every linked TLB mapping belongs to the handle that owns its window now:
\* the revalidation of TtWindCreateUserMapping, FREE_TLB's refusal and the
\* order of the two loops of EvtFileCleanup leave no other possibility.
ListedMappingsOwned ==
    \A m \in mappingList : m.backing \in TlbIds => tlbOwner[m.backing] = m.file

\* The bitmap and the owner table agree (the NT_ASSERT of ALLOCATE_TLB), and
\* the kernel window is always taken and never has an owner.
BitmapMatchesOwners ==
    /\ tlbBitmap = {KernelTlb} \cup {w \in TlbIds : tlbOwner[w] # NoFile}
    /\ tlbOwner[KernelTlb] = NoFile

\* From RESET_DEVICE's busy check until recovery no mapping is linked: the
\* NT_ASSERT of reset.c, although the check drops StateLock before the fence.
RestrictedNoMappings ==
    needsHwInit \/ pc \in {"fence", "carry"} => mappingList = {}

\* Whatever a handle still holds, it holds under the current generation: a
\* reset leaves nothing with a stale handle, and a stale one gets nothing.
HoldersCurrent ==
    /\ \A w \in TlbIds : tlbOwner[w] \in Files
                        => fileGeneration[tlbOwner[w]] = resetGeneration
    /\ \A m \in mappingList : fileGeneration[m.file] = resetGeneration

\* A live view has exactly one record, in exactly one place: no view is
\* forgotten and none is destroyed twice by UNMAP_BAR, a file cleanup and
\* TtWindRevokeAllMappings racing each other.
OneRecordPerView ==
    /\ views = mappingList \cup mine \cup Doomed
    /\ mappingList \cap mine = {} /\ (mappingList \cup mine) \cap Doomed = {}
    /\ \A f, g \in Files : f # g => toDestroy[f] \cap toDestroy[g] = {}
    /\ \A f \in Files : toDestroy[f] \cap toRevoke = {}
    /\ \A m, n \in views : m.va = n.va => m = n

\* A handle that was cleaned up with none of its requests in flight left
\* nothing behind: no window, no linked mapping.
QuietCleanupComplete ==
    \A f \in Files :
        handle[f] # "open" /\ ~raced[f] =>
            /\ \A w \in TlbIds : tlbOwner[w] # f
            /\ \A m \in mappingList : m.file # f

\* While the device has no resources nothing is linked or allocated, and the
\* views that still exist are those a file cleanup is about to destroy.
ReleasedDeviceUnmapped ==
    device = "released" =>
        /\ mappingList = {} /\ tlbBitmap = {KernelTlb}
        /\ views \subseteq UNION {toDestroy[f] : f \in Files}

\* CONFIGURE_TLB never retargets a window under another handle's mapping.
ConfigureOwnWindowOnly ==
    [][\A w \in TlbIds : tlbTarget'[w] # tlbTarget[w] =>
          \A m \in mappingList : m.backing = w => m.file = tlbTarget'[w]]_vars

\* The allocator and the linked mappings implement WindowLease.
Lease == INSTANCE WindowLease WITH
    Windows <- TlbIds, Holders <- Files, Nobody <- NoFile,
    holder <- tlbOwner,
    attached <- [w \in TlbIds |->
                   {m.file : m \in {n \in mappingList : n.backing = w}}]

ImplementsLease == Lease!Spec

-----------------------------------------------------------------------------
(* What comments of the code claim and the model refutes.                  *)

\* reset.c: no user view exists in the link-down window.
NoUserViewWhileRestricted == needsHwInit => views = {}

\* mapping.c: "No mapping survives its handle."
NoMappingSurvivesHandle ==
    \A f \in Files : handle[f] = "closed" /\ req.file # f =>
        \A m \in mappingList : m.file # f

=============================================================================
