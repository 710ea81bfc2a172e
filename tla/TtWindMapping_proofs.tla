------------------------ MODULE TtWindMapping_proofs ------------------------
(***************************************************************************)
(* Proofs about TtWindMapping for any number of handles, windows,          *)
(* addresses and resets.                                                   *)
(***************************************************************************)
EXTENDS TtWindMapping, TLAPS

\* What the sequential queue guarantees of the request in flight.  Only an
\* ioctl dispatched unrestricted gets as far as creating or linking a
\* mapping, and NeedsHwInit cannot have changed since, because it is changed
\* on the queue.  Its handle is current until it arms a reset itself, and a
\* cleanup of the handle in the meantime is one that raced it.
RequestState ==
    /\ pc = "idle" <=> req = NoRequest
    /\ pc \in {"fence", "carry"} => req.op = "RESET_DEVICE"
    /\ pc \in {"map", "insert"} => ~needsHwInit
    /\ pc = "body" /\ req.op \notin RestrictedOps => ~needsHwInit
    /\ pc \notin {"idle", "carry"} => fileGeneration[req.file] = resetGeneration
    /\ pc # "idle" => handle[req.file] = "open" \/ raced[req.file]
    /\ pc = "insert" => \A m \in mine : m.file = req.file

\* Where records can be besides the list: with the one handler that creates
\* or destroys one, with a running cleanup, with a running ReleaseHardware,
\* for which the queue has been purged.
PrivateRecords ==
    /\ pc \in {"insert", "destroy"} => \E m \in Records : mine = {m}
    /\ pc \notin {"insert", "destroy"} => mine = {}
    /\ \A f \in Files : handle[f] # "cleanup" => toDestroy[f] = {}
    /\ device # "revoking" => toRevoke = {}
    /\ device # "started" => /\ pc = "idle" /\ mappingList = {}
                            /\ \A w \in TlbIds : tlbOwner[w] = NoFile

IInv == /\ TypeOK
        /\ RequestState
        /\ PrivateRecords
        /\ BitmapMatchesOwners
        /\ RestrictedNoMappings
        /\ ListedMappingsOwned
        /\ HoldersCurrent
        /\ QuietCleanupComplete
        /\ OneRecordPerView

-----------------------------------------------------------------------------
\* A request in flight is a well-formed one.
LEMMA InFlightRequest ==
    ASSUME TypeOK, RequestState, pc # "idle"
    PROVE  /\ req \in Requests /\ req.op \in Ops /\ req.file \in Files
           /\ req.tlb \in TlbIds /\ req.va \in Vas \cup {NoVa}
BY DEF TypeOK, RequestState, Requests

\* The kernel window is a window.
LEMMA KernelTlbIsWindow == KernelTlb \in TlbIds
BY NumTlbAssumption DEF KernelTlb, TlbIds

\* The record that stands for "no request" is no request of any handle.
LEMMA NoRequestFacts == NoRequest.op = "NONE" /\ NoRequest.file = NoFile
                        /\ NoRequest \notin Requests
BY FilesAssumption DEF NoRequest, Requests, Ops

-----------------------------------------------------------------------------
\* Membership in the records about to be destroyed, before and after a step.
LEMMA DoomedMember ==
    /\ \A m : m \in Doomed <=>
               m \in toRevoke \/ \E f \in Files : m \in toDestroy[f]
    /\ \A m : m \in Doomed' <=>
               m \in toRevoke' \/ \E f \in Files : m \in toDestroy'[f]
<1>1. \A m : m \in UNION {toDestroy[f] : f \in Files} <=>
               \E f \in Files : m \in toDestroy[f]
  BY Zenon
<1>2. \A m : m \in UNION {toDestroy'[f] : f \in Files} <=>
               \E f \in Files : m \in toDestroy'[f]
  BY Zenon
<1>. QED
  BY <1>1, <1>2 DEF Doomed

\* Every step keeps the types.
LEMMA TypeStep == ASSUME IInv, [Next]_vars PROVE TypeOK'
<1>1. ASSUME NEW f \in Files, NEW op \in Ops, Dispatch(f, op)
      PROVE  TypeOK'
  BY <1>1, NumTlbAssumption
    DEF IInv, TypeOK, TlbIds, Dispatch, RequestsOf, Requests, lockVars,
        fenceVars, fileVars, pnpVars
<1>2. ASSUME NEW f \in Files, FileCreate(f) PROVE TypeOK'
  BY <1>2 DEF IInv, TypeOK, FileCreate, lockVars, pnpVars, reqVars
<1>3. ASSUME NEW f \in Files, FileCleanup(f) PROVE TypeOK'
  BY <1>3
    DEF IInv, TypeOK, FileCleanup, WindowsOf, fenceVars, pnpVars, reqVars
<1>4. ASSUME NEW f \in Files, FileCleanupDestroy(f) PROVE TypeOK'
  BY <1>4
    DEF IInv, TypeOK, FileCleanupDestroy, DestroyMapping, lockVars, fenceVars,
        pnpVars, reqVars
<1>5. ASSUME NEW f \in Files, FileClose(f) PROVE TypeOK'
  BY <1>5 DEF IInv, TypeOK, FileClose, lockVars, fenceVars, pnpVars, reqVars
<1>6. CASE IoctlAllocateTlb
  BY <1>6, InFlightRequest
    DEF IInv, TypeOK, IoctlAllocateTlb, ClearBits, Handling, Complete,
        fenceVars, fileVars, pnpVars
<1>7. CASE IoctlFreeTlb
  BY <1>7, InFlightRequest
    DEF IInv, TypeOK, IoctlFreeTlb, Handling, Complete, CheckTlbOwner,
        TlbHasMappings, fenceVars, fileVars, pnpVars
<1>8. CASE IoctlConfigureTlb
  BY <1>8, InFlightRequest
    DEF IInv, TypeOK, IoctlConfigureTlb, Handling, Complete, CheckTlbOwner,
        lockVars, fenceVars, fileVars, pnpVars
<1>9. CASE IoctlMapTlb
  BY <1>9, InFlightRequest
    DEF IInv, TypeOK, IoctlMapTlb, Handling, Complete, CheckTlbOwner,
        lockVars, fenceVars, fileVars, pnpVars
<1>10. CASE IoctlMapBar \/ IoctlMapSysmem
  BY <1>10, InFlightRequest
    DEF IInv, TypeOK, IoctlMapBar, IoctlMapSysmem, CheckArguments, Handling,
        Complete, lockVars, fenceVars,
        fileVars, pnpVars
<1>11. CASE CreateView
  BY <1>11, InFlightRequest
    DEF IInv, TypeOK, CreateView, Complete, Backing, lockVars, fenceVars,
        fileVars, pnpVars, Records
<1>12. CASE InsertMapping
  BY <1>12, InFlightRequest
    DEF IInv, TypeOK, InsertMapping, Complete, Revalidated, fenceVars,
        fileVars, pnpVars
<1>13. CASE IoctlUnmapBar
  BY <1>13, InFlightRequest
    DEF IInv, TypeOK, IoctlUnmapBar, Unlink, Handling, Complete, fenceVars,
        fileVars, pnpVars
<1>14. CASE DestroyMine
  BY <1>14, InFlightRequest
    DEF IInv, TypeOK, DestroyMine, Complete, DestroyMapping, lockVars,
        fenceVars, fileVars, pnpVars
<1>15. CASE IoctlResetDevice
  BY <1>15, InFlightRequest
    DEF IInv, TypeOK, IoctlResetDevice, Handling, Complete, lockVars,
        fenceVars, fileVars, pnpVars
<1>16. CASE ResetFence
  BY <1>16, InFlightRequest, KernelTlbIsWindow
    DEF IInv, TypeOK, ResetFence, Complete, ReclaimAllWindows, fileVars,
        pnpVars
<1>17. CASE ResetArm
  BY <1>17, InFlightRequest
    DEF IInv, TypeOK, ResetArm, Complete, lockVars, fileVars, pnpVars
<1>18. CASE IoctlPostReset
  BY <1>18, InFlightRequest
    DEF IInv, TypeOK, IoctlPostReset, Handling, Complete, lockVars, fileVars,
        pnpVars
<1>19. CASE ReleaseHardware
  BY <1>19, KernelTlbIsWindow
    DEF IInv, TypeOK, ReleaseHardware, QueuePurged, ReclaimAllWindows,
        fenceVars, fileVars, reqVars
<1>20. CASE RevokeDestroy
  BY <1>20
    DEF IInv, TypeOK, RevokeDestroy, DestroyMapping, lockVars, fenceVars,
        fileVars, reqVars
<1>21. CASE ReleaseDone
  BY <1>21
    DEF IInv, TypeOK, ReleaseDone, lockVars, fenceVars, fileVars, reqVars
<1>22. CASE PrepareHardware
  BY <1>22
    DEF IInv, TypeOK, PrepareHardware, lockVars, fenceVars, fileVars, reqVars
<1>23. CASE UNCHANGED vars
  BY <1>23 DEF IInv, TypeOK, vars
<1>. QED
  BY <1>1, <1>2, <1>3, <1>4, <1>5, <1>6, <1>7, <1>8, <1>9, <1>10, <1>11,
     <1>12, <1>13, <1>14, <1>15, <1>16, <1>17, <1>18, <1>19, <1>20, <1>21,
     <1>22, <1>23 DEF Next, Handler, FileEvent, Pnp

\* Every step keeps what the queue knows of its request.
LEMMA RequestStateStep == ASSUME IInv, [Next]_vars PROVE RequestState'
<1>1. ASSUME NEW f \in Files, NEW op \in Ops, Dispatch(f, op)
      PROVE  RequestState'
  <2>1. req'.op = op /\ req'.file = f
    BY <1>1 DEF Dispatch, RequestsOf
  <2>2. req' # NoRequest
    BY <2>1, NoRequestFacts DEF Ops
  <2>. QED
    BY <1>1, <2>1, <2>2
      DEF IInv, TypeOK, RequestState, Dispatch, GenerationFence, fenceVars,
          fileVars
<1>2. ASSUME NEW f \in Files, FileCreate(f) PROVE RequestState'
  BY <1>2, NoRequestFacts
    DEF IInv, TypeOK, RequestState, RestrictedOps, FileCreate, lockVars,
        pnpVars, reqVars
<1>3. ASSUME NEW f \in Files, FileCleanup(f) PROVE RequestState'
  BY <1>3, NoRequestFacts, InFlightRequest
    DEF IInv, TypeOK, RequestState, RestrictedOps, FileCleanup, WindowsOf,
        fenceVars, pnpVars, reqVars
<1>4. ASSUME NEW f \in Files, FileClose(f) PROVE RequestState'
  BY <1>4, NoRequestFacts
    DEF IInv, TypeOK, RequestState, RestrictedOps, FileClose, lockVars,
        fenceVars, pnpVars, reqVars
<1>5. CASE IoctlAllocateTlb
  BY <1>5, NoRequestFacts, InFlightRequest
    DEF IInv, TypeOK, RequestState, RestrictedOps, IoctlAllocateTlb,
        ClearBits, Handling, Complete, fenceVars, fileVars, pnpVars
<1>6. CASE IoctlFreeTlb
  BY <1>6, NoRequestFacts, InFlightRequest
    DEF IInv, TypeOK, RequestState, RestrictedOps, IoctlFreeTlb, Handling,
        Complete, CheckTlbOwner, TlbHasMappings, fenceVars, fileVars, pnpVars
<1>7. CASE IoctlConfigureTlb
  BY <1>7, NoRequestFacts, InFlightRequest
    DEF IInv, TypeOK, RequestState, RestrictedOps, IoctlConfigureTlb,
        Handling, Complete, CheckTlbOwner, lockVars, fenceVars, fileVars,
        pnpVars
<1>8. CASE IoctlMapTlb
  BY <1>8, NoRequestFacts, InFlightRequest
    DEF IInv, TypeOK, RequestState, RestrictedOps, IoctlMapTlb, Handling,
        Complete, CheckTlbOwner, lockVars, fenceVars, fileVars, pnpVars
<1>9. CASE IoctlMapBar \/ IoctlMapSysmem
  BY <1>9, NoRequestFacts, InFlightRequest
    DEF IInv, TypeOK, RequestState, RestrictedOps, IoctlMapBar,
        IoctlMapSysmem, CheckArguments, Handling,
        Complete, lockVars, fenceVars, fileVars, pnpVars
<1>10. CASE CreateView
  BY <1>10, NoRequestFacts, InFlightRequest
    DEF IInv, TypeOK, RequestState, RestrictedOps, CreateView, Complete,
        Backing, lockVars, fenceVars, fileVars, pnpVars, Records
<1>11. CASE InsertMapping
  BY <1>11, NoRequestFacts, InFlightRequest
    DEF IInv, TypeOK, RequestState, RestrictedOps, InsertMapping, Complete,
        Revalidated, fenceVars, fileVars, pnpVars
<1>12. CASE IoctlUnmapBar
  BY <1>12, NoRequestFacts, InFlightRequest
    DEF IInv, TypeOK, RequestState, RestrictedOps, IoctlUnmapBar, Unlink,
        Handling, Complete, fenceVars, fileVars, pnpVars
<1>13. CASE DestroyMine
  BY <1>13, NoRequestFacts, InFlightRequest
    DEF IInv, TypeOK, RequestState, RestrictedOps, DestroyMine, Complete,
        DestroyMapping, lockVars, fenceVars, fileVars, pnpVars
<1>14. CASE IoctlResetDevice
  BY <1>14, NoRequestFacts, InFlightRequest
    DEF IInv, TypeOK, RequestState, RestrictedOps, IoctlResetDevice, Handling,
        Complete, lockVars, fenceVars, fileVars, pnpVars
<1>15. CASE ResetFence
  BY <1>15, NoRequestFacts, InFlightRequest
    DEF IInv, TypeOK, RequestState, RestrictedOps, ResetFence, Complete,
        ReclaimAllWindows, fileVars, pnpVars
<1>16. CASE ResetArm
  BY <1>16, NoRequestFacts, InFlightRequest
    DEF IInv, TypeOK, RequestState, RestrictedOps, ResetArm, Complete,
        lockVars, fileVars, pnpVars
<1>17. CASE IoctlPostReset
  BY <1>17, NoRequestFacts, InFlightRequest
    DEF IInv, TypeOK, RequestState, RestrictedOps, IoctlPostReset, Handling,
        Complete, lockVars, fileVars, pnpVars
<1>18. ASSUME NEW f \in Files, FileCleanupDestroy(f)
      PROVE  RequestState'
  BY <1>18
    DEF IInv, RequestState, FileCleanupDestroy, fenceVars, fileVars, reqVars
<1>19. CASE ReleaseHardware \/ RevokeDestroy \/ ReleaseDone \/ PrepareHardware
  BY <1>19
    DEF IInv, RequestState, ReleaseHardware, RevokeDestroy, ReleaseDone,
        PrepareHardware, fenceVars, fileVars, reqVars
<1>20. CASE UNCHANGED vars
  BY <1>20 DEF IInv, TypeOK, RequestState, RestrictedOps, vars
<1>. QED
  BY <1>1, <1>2, <1>3, <1>4, <1>5, <1>6, <1>7, <1>8, <1>9, <1>10, <1>11,
     <1>12, <1>13, <1>14, <1>15, <1>16, <1>17, <1>18, <1>19, <1>20
    DEF Next, Handler, FileEvent, Pnp

\* Every step keeps the bitmap and the owners together.
LEMMA BitmapStep == ASSUME IInv, [Next]_vars PROVE BitmapMatchesOwners'
<1>1. ASSUME NEW f \in Files, NEW op \in Ops, Dispatch(f, op)
      PROVE  BitmapMatchesOwners'
  BY <1>1, FilesAssumption, KernelTlbIsWindow
    DEF IInv, TypeOK, BitmapMatchesOwners, Dispatch, GenerationFence,
        RequestsOf, lockVars, fenceVars, fileVars, pnpVars
<1>2. ASSUME NEW f \in Files, FileCleanup(f) PROVE BitmapMatchesOwners'
  BY <1>2, FilesAssumption, KernelTlbIsWindow
    DEF IInv, TypeOK, BitmapMatchesOwners, FileCleanup, WindowsOf, fenceVars,
        pnpVars, reqVars
<1>3. CASE IoctlAllocateTlb
  BY <1>3, FilesAssumption, KernelTlbIsWindow, InFlightRequest
    DEF IInv, TypeOK, BitmapMatchesOwners, IoctlAllocateTlb, ClearBits,
        Handling, Complete, fenceVars, fileVars, pnpVars
<1>4. CASE IoctlFreeTlb
  BY <1>4, FilesAssumption, KernelTlbIsWindow, InFlightRequest
    DEF IInv, TypeOK, BitmapMatchesOwners, IoctlFreeTlb, Handling, Complete,
        CheckTlbOwner, TlbHasMappings, fenceVars, fileVars, pnpVars
<1>5. CASE ResetFence
  BY <1>5, FilesAssumption, KernelTlbIsWindow, InFlightRequest
    DEF IInv, TypeOK, BitmapMatchesOwners, ResetFence, Complete,
        ReclaimAllWindows, fileVars, pnpVars
<1>6. CASE ReleaseHardware
  BY <1>6, FilesAssumption, KernelTlbIsWindow
    DEF IInv, TypeOK, BitmapMatchesOwners, ReleaseHardware, QueuePurged,
        ReclaimAllWindows, fenceVars, fileVars, reqVars
<1>7. ASSUME NEW f \in Files, FileCreate(f) \/ FileCleanupDestroy(f) \/ FileClose(f)
      PROVE  BitmapMatchesOwners'
  BY <1>7
    DEF IInv, BitmapMatchesOwners, FileCreate, FileCleanupDestroy, FileClose,
        lockVars
<1>8. CASE IoctlConfigureTlb \/ IoctlMapTlb \/ IoctlMapBar \/
           IoctlMapSysmem \/ CreateView \/
           InsertMapping \/ IoctlUnmapBar \/ DestroyMine \/ IoctlResetDevice
           \/ ResetArm \/ IoctlPostReset \/ RevokeDestroy \/ ReleaseDone \/
           PrepareHardware
  BY <1>8
    DEF IInv, BitmapMatchesOwners, IoctlConfigureTlb, IoctlMapTlb,
        IoctlMapBar, IoctlMapSysmem, CheckArguments, CreateView,
        InsertMapping, IoctlUnmapBar, DestroyMine,
        IoctlResetDevice, ResetArm, IoctlPostReset, RevokeDestroy,
        ReleaseDone, PrepareHardware, lockVars
<1>9. CASE UNCHANGED vars
  BY <1>9 DEF IInv, TypeOK, BitmapMatchesOwners, vars
<1>. QED
  BY <1>1, <1>2, <1>3, <1>4, <1>5, <1>6, <1>7, <1>8, <1>9
    DEF Next, Handler, FileEvent, Pnp

\* Every step keeps the list empty while a reset is under way.
LEMMA RestrictedStep == ASSUME IInv, [Next]_vars PROVE RestrictedNoMappings'
<1>1. ASSUME NEW f \in Files, NEW op \in Ops, Dispatch(f, op)
      PROVE  RestrictedNoMappings'
  BY <1>1
    DEF IInv, TypeOK, RequestState, RestrictedNoMappings, RestrictedOps,
        Dispatch, GenerationFence, RequestsOf, lockVars, fenceVars, fileVars,
        pnpVars
<1>2. ASSUME NEW f \in Files, FileCleanup(f) PROVE RestrictedNoMappings'
  BY <1>2
    DEF IInv, TypeOK, RequestState, RestrictedNoMappings, RestrictedOps,
        FileCleanup, WindowsOf, fenceVars, pnpVars, reqVars
<1>3. CASE IoctlAllocateTlb
  BY <1>3, InFlightRequest
    DEF IInv, TypeOK, RequestState, RestrictedNoMappings, RestrictedOps,
        IoctlAllocateTlb, ClearBits, Handling, Complete, fenceVars, fileVars,
        pnpVars
<1>4. CASE IoctlFreeTlb
  BY <1>4, InFlightRequest
    DEF IInv, TypeOK, RequestState, RestrictedNoMappings, RestrictedOps,
        IoctlFreeTlb, Handling, Complete, CheckTlbOwner, TlbHasMappings,
        fenceVars, fileVars, pnpVars
<1>5. CASE IoctlConfigureTlb
  BY <1>5, InFlightRequest
    DEF IInv, TypeOK, RequestState, RestrictedNoMappings, RestrictedOps,
        IoctlConfigureTlb, Handling, Complete, CheckTlbOwner, lockVars,
        fenceVars, fileVars, pnpVars
<1>6. CASE IoctlMapTlb
  BY <1>6, InFlightRequest
    DEF IInv, TypeOK, RequestState, RestrictedNoMappings, RestrictedOps,
        IoctlMapTlb, Handling, Complete, CheckTlbOwner, lockVars, fenceVars,
        fileVars, pnpVars
<1>7. CASE IoctlMapBar \/ IoctlMapSysmem
  BY <1>7, InFlightRequest
    DEF IInv, TypeOK, RequestState, RestrictedNoMappings, RestrictedOps,
        IoctlMapBar, IoctlMapSysmem, CheckArguments, Handling, Complete,
        lockVars, fenceVars, fileVars,
        pnpVars
<1>8. CASE CreateView
  BY <1>8, InFlightRequest
    DEF IInv, TypeOK, RequestState, RestrictedNoMappings, RestrictedOps,
        CreateView, Complete, Backing, lockVars, fenceVars, fileVars, pnpVars
<1>9. CASE InsertMapping
  BY <1>9, InFlightRequest
    DEF IInv, TypeOK, RequestState, RestrictedNoMappings, RestrictedOps,
        InsertMapping, Complete, Revalidated, fenceVars, fileVars, pnpVars
<1>10. CASE IoctlUnmapBar
  BY <1>10, InFlightRequest
    DEF IInv, TypeOK, RequestState, RestrictedNoMappings, RestrictedOps,
        IoctlUnmapBar, Unlink, Handling, Complete, fenceVars, fileVars,
        pnpVars
<1>11. CASE DestroyMine
  BY <1>11, InFlightRequest
    DEF IInv, TypeOK, RequestState, RestrictedNoMappings, RestrictedOps,
        DestroyMine, Complete, DestroyMapping, lockVars, fenceVars, fileVars,
        pnpVars
<1>12. CASE IoctlResetDevice
  BY <1>12, InFlightRequest
    DEF IInv, TypeOK, RequestState, RestrictedNoMappings, RestrictedOps,
        IoctlResetDevice, Handling, Complete, lockVars, fenceVars, fileVars,
        pnpVars
<1>13. CASE ResetFence
  BY <1>13, InFlightRequest
    DEF IInv, TypeOK, RequestState, RestrictedNoMappings, RestrictedOps,
        ResetFence, Complete, ReclaimAllWindows, fileVars, pnpVars
<1>14. CASE ResetArm
  BY <1>14, InFlightRequest
    DEF IInv, TypeOK, RequestState, RestrictedNoMappings, RestrictedOps,
        ResetArm, Complete, lockVars, fileVars, pnpVars
<1>15. CASE IoctlPostReset
  BY <1>15, InFlightRequest
    DEF IInv, TypeOK, RequestState, RestrictedNoMappings, RestrictedOps,
        IoctlPostReset, Handling, Complete, lockVars, fileVars, pnpVars
<1>16. CASE ReleaseHardware
  BY <1>16
    DEF IInv, TypeOK, RequestState, RestrictedNoMappings, RestrictedOps,
        ReleaseHardware, QueuePurged, ReclaimAllWindows, fenceVars, fileVars,
        reqVars
<1>17. ASSUME NEW f \in Files, FileCreate(f) \/ FileCleanupDestroy(f) \/ FileClose(f)
      PROVE  RestrictedNoMappings'
  BY <1>17
    DEF IInv, RequestState, RestrictedNoMappings, FileCreate,
        FileCleanupDestroy, FileClose, lockVars, fenceVars, reqVars
<1>18. CASE RevokeDestroy \/ ReleaseDone \/ PrepareHardware
  BY <1>18
    DEF IInv, RequestState, RestrictedNoMappings, RevokeDestroy, ReleaseDone,
        PrepareHardware, lockVars, fenceVars, reqVars
<1>19. CASE UNCHANGED vars
  BY <1>19
    DEF IInv, TypeOK, RequestState, RestrictedNoMappings, RestrictedOps, vars
<1>. QED
  BY <1>1, <1>2, <1>3, <1>4, <1>5, <1>6, <1>7, <1>8, <1>9, <1>10, <1>11,
     <1>12, <1>13, <1>14, <1>15, <1>16, <1>17, <1>18, <1>19
    DEF Next, Handler, FileEvent, Pnp

\* Every step keeps linked TLB mappings with the owner of their window.
LEMMA ListedStep == ASSUME IInv, [Next]_vars PROVE ListedMappingsOwned'
<1>1. ASSUME NEW f \in Files, NEW op \in Ops, Dispatch(f, op)
      PROVE  ListedMappingsOwned'
  BY <1>1, FilesAssumption
    DEF IInv, TypeOK, Records, BitmapMatchesOwners, RestrictedNoMappings,
        ListedMappingsOwned, Dispatch, GenerationFence, RequestsOf, lockVars,
        fenceVars, fileVars, pnpVars
<1>2. ASSUME NEW f \in Files, FileCleanup(f) PROVE ListedMappingsOwned'
  BY <1>2, FilesAssumption
    DEF IInv, TypeOK, Records, BitmapMatchesOwners, RestrictedNoMappings,
        ListedMappingsOwned, FileCleanup, WindowsOf, fenceVars, pnpVars,
        reqVars
<1>3. CASE IoctlAllocateTlb
  BY <1>3, FilesAssumption, InFlightRequest
    DEF IInv, TypeOK, Records, BitmapMatchesOwners, RestrictedNoMappings,
        ListedMappingsOwned, IoctlAllocateTlb, ClearBits, Handling, Complete,
        fenceVars, fileVars, pnpVars
<1>4. CASE IoctlFreeTlb
  BY <1>4, FilesAssumption, InFlightRequest
    DEF IInv, TypeOK, Records, BitmapMatchesOwners, RestrictedNoMappings,
        ListedMappingsOwned, IoctlFreeTlb, Handling, Complete, CheckTlbOwner,
        TlbHasMappings, fenceVars, fileVars, pnpVars
<1>5. CASE InsertMapping
  BY <1>5, FilesAssumption, InFlightRequest
    DEF IInv, TypeOK, Records, BitmapMatchesOwners, RestrictedNoMappings,
        ListedMappingsOwned, InsertMapping, Complete, Revalidated, fenceVars,
        fileVars, pnpVars
<1>6. CASE IoctlUnmapBar
  BY <1>6, FilesAssumption, InFlightRequest
    DEF IInv, TypeOK, Records, BitmapMatchesOwners, RestrictedNoMappings,
        ListedMappingsOwned, IoctlUnmapBar, Unlink, Handling, Complete,
        fenceVars, fileVars, pnpVars
<1>7. CASE ResetFence
  BY <1>7, FilesAssumption, InFlightRequest
    DEF IInv, TypeOK, Records, BitmapMatchesOwners, RestrictedNoMappings,
        ListedMappingsOwned, ResetFence, Complete, ReclaimAllWindows,
        fileVars, pnpVars
<1>8. CASE ReleaseHardware
  BY <1>8, FilesAssumption
    DEF IInv, TypeOK, Records, BitmapMatchesOwners, RestrictedNoMappings,
        ListedMappingsOwned, ReleaseHardware, QueuePurged, ReclaimAllWindows,
        fenceVars, fileVars, reqVars
<1>9. ASSUME NEW f \in Files, FileCreate(f) \/ FileCleanupDestroy(f) \/ FileClose(f)
      PROVE  ListedMappingsOwned'
  BY <1>9
    DEF IInv, BitmapMatchesOwners, RestrictedNoMappings, ListedMappingsOwned,
        FileCreate, FileCleanupDestroy, FileClose, lockVars
<1>10. CASE IoctlConfigureTlb \/ IoctlMapTlb \/ IoctlMapBar \/
            IoctlMapSysmem \/ CreateView \/
           DestroyMine \/ IoctlResetDevice \/ ResetArm \/ IoctlPostReset \/
           RevokeDestroy \/ ReleaseDone \/ PrepareHardware
  BY <1>10
    DEF IInv, BitmapMatchesOwners, RestrictedNoMappings, ListedMappingsOwned,
        IoctlConfigureTlb, IoctlMapTlb, IoctlMapBar, IoctlMapSysmem,
        CheckArguments, CreateView, DestroyMine,
        IoctlResetDevice, ResetArm, IoctlPostReset, RevokeDestroy,
        ReleaseDone, PrepareHardware, lockVars
<1>11. CASE UNCHANGED vars
  BY <1>11
    DEF IInv, TypeOK, Records, BitmapMatchesOwners, RestrictedNoMappings,
        ListedMappingsOwned, vars
<1>. QED
  BY <1>1, <1>2, <1>3, <1>4, <1>5, <1>6, <1>7, <1>8, <1>9, <1>10, <1>11
    DEF Next, Handler, FileEvent, Pnp

\* Every step leaves windows and mappings with current handles only.
LEMMA HoldersStep == ASSUME IInv, [Next]_vars PROVE HoldersCurrent'
<1>1. ASSUME NEW f \in Files, NEW op \in Ops, Dispatch(f, op)
      PROVE  HoldersCurrent'
  BY <1>1, FilesAssumption
    DEF IInv, TypeOK, Records, RequestState, RestrictedNoMappings,
        HoldersCurrent, Dispatch, GenerationFence, RequestsOf, lockVars,
        fenceVars, fileVars, pnpVars
<1>2. ASSUME NEW f \in Files, FileCreate(f) PROVE HoldersCurrent'
  BY <1>2, FilesAssumption
    DEF IInv, TypeOK, Records, RequestState, RestrictedNoMappings,
        HoldersCurrent, FileCreate, lockVars, pnpVars, reqVars
<1>3. ASSUME NEW f \in Files, FileCleanup(f) PROVE HoldersCurrent'
  BY <1>3, FilesAssumption
    DEF IInv, TypeOK, Records, RequestState, RestrictedNoMappings,
        HoldersCurrent, FileCleanup, WindowsOf, fenceVars, pnpVars, reqVars
<1>4. CASE IoctlAllocateTlb
  BY <1>4, FilesAssumption, InFlightRequest
    DEF IInv, TypeOK, Records, RequestState, RestrictedNoMappings,
        HoldersCurrent, IoctlAllocateTlb, ClearBits, Handling, Complete,
        fenceVars, fileVars, pnpVars
<1>5. CASE IoctlFreeTlb
  BY <1>5, FilesAssumption, InFlightRequest
    DEF IInv, TypeOK, Records, RequestState, RestrictedNoMappings,
        HoldersCurrent, IoctlFreeTlb, Handling, Complete, CheckTlbOwner,
        TlbHasMappings, fenceVars, fileVars, pnpVars
<1>6. CASE InsertMapping
  BY <1>6, FilesAssumption, InFlightRequest
    DEF IInv, TypeOK, Records, RequestState, RestrictedNoMappings,
        HoldersCurrent, InsertMapping, Complete, Revalidated, fenceVars,
        fileVars, pnpVars
<1>7. CASE IoctlUnmapBar
  BY <1>7, FilesAssumption, InFlightRequest
    DEF IInv, TypeOK, Records, RequestState, RestrictedNoMappings,
        HoldersCurrent, IoctlUnmapBar, Unlink, Handling, Complete, fenceVars,
        fileVars, pnpVars
<1>8. CASE ResetFence
  BY <1>8, FilesAssumption, InFlightRequest
    DEF IInv, TypeOK, Records, RequestState, RestrictedNoMappings,
        HoldersCurrent, ResetFence, Complete, ReclaimAllWindows, fileVars,
        pnpVars
<1>9. CASE ResetArm
  BY <1>9, FilesAssumption, InFlightRequest
    DEF IInv, TypeOK, Records, RequestState, RestrictedNoMappings,
        HoldersCurrent, ResetArm, Complete, lockVars, fileVars, pnpVars
<1>10. CASE ReleaseHardware
  BY <1>10, FilesAssumption
    DEF IInv, TypeOK, Records, RequestState, RestrictedNoMappings,
        HoldersCurrent, ReleaseHardware, QueuePurged, ReclaimAllWindows,
        fenceVars, fileVars, reqVars
<1>11. ASSUME NEW f \in Files, FileCleanupDestroy(f) \/ FileClose(f)
      PROVE  HoldersCurrent'
  BY <1>11
    DEF IInv, RequestState, RestrictedNoMappings, HoldersCurrent,
        FileCleanupDestroy, FileClose, lockVars, fenceVars
<1>12. CASE IoctlConfigureTlb \/ IoctlMapTlb \/ IoctlMapBar \/
            IoctlMapSysmem \/ CreateView \/
           DestroyMine \/ IoctlResetDevice \/ IoctlPostReset \/ RevokeDestroy
           \/ ReleaseDone \/ PrepareHardware
  BY <1>12
    DEF IInv, RequestState, RestrictedNoMappings, HoldersCurrent,
        IoctlConfigureTlb, IoctlMapTlb, IoctlMapBar, IoctlMapSysmem,
        CheckArguments, CreateView, DestroyMine,
        IoctlResetDevice, IoctlPostReset, RevokeDestroy, ReleaseDone,
        PrepareHardware, lockVars, fenceVars
<1>13. CASE UNCHANGED vars
  BY <1>13
    DEF IInv, TypeOK, Records, RequestState, RestrictedNoMappings,
        HoldersCurrent, vars
<1>. QED
  BY <1>1, <1>2, <1>3, <1>4, <1>5, <1>6, <1>7, <1>8, <1>9, <1>10, <1>11,
     <1>12, <1>13 DEF Next, Handler, FileEvent, Pnp

\* Every step keeps an unraced cleanup complete.
LEMMA QuietStep == ASSUME IInv, [Next]_vars PROVE QuietCleanupComplete'
<1>1. ASSUME NEW f \in Files, NEW op \in Ops, Dispatch(f, op)
      PROVE  QuietCleanupComplete'
  BY <1>1, FilesAssumption
    DEF IInv, TypeOK, Records, RequestState, QuietCleanupComplete, Dispatch,
        GenerationFence, RequestsOf, lockVars, fenceVars, fileVars, pnpVars
<1>2. ASSUME NEW f \in Files, FileCreate(f) PROVE QuietCleanupComplete'
  BY <1>2, FilesAssumption
    DEF IInv, TypeOK, Records, RequestState, QuietCleanupComplete, FileCreate,
        lockVars, pnpVars, reqVars
<1>3. ASSUME NEW f \in Files, FileCleanup(f) PROVE QuietCleanupComplete'
  BY <1>3, FilesAssumption
    DEF IInv, TypeOK, Records, RequestState, QuietCleanupComplete,
        FileCleanup, WindowsOf, fenceVars, pnpVars, reqVars
<1>4. ASSUME NEW f \in Files, FileClose(f) PROVE QuietCleanupComplete'
  BY <1>4, FilesAssumption
    DEF IInv, TypeOK, Records, RequestState, QuietCleanupComplete, FileClose,
        lockVars, fenceVars, pnpVars, reqVars
<1>5. CASE IoctlAllocateTlb
  BY <1>5, FilesAssumption, InFlightRequest
    DEF IInv, TypeOK, Records, RequestState, QuietCleanupComplete,
        IoctlAllocateTlb, ClearBits, Handling, Complete, fenceVars, fileVars,
        pnpVars
<1>6. CASE IoctlFreeTlb
  BY <1>6, FilesAssumption, InFlightRequest
    DEF IInv, TypeOK, Records, RequestState, QuietCleanupComplete,
        IoctlFreeTlb, Handling, Complete, CheckTlbOwner, TlbHasMappings,
        fenceVars, fileVars, pnpVars
<1>7. CASE InsertMapping
  BY <1>7, FilesAssumption, InFlightRequest
    DEF IInv, TypeOK, Records, RequestState, QuietCleanupComplete,
        InsertMapping, Complete, Revalidated, fenceVars, fileVars, pnpVars
<1>8. CASE IoctlUnmapBar
  BY <1>8, FilesAssumption, InFlightRequest
    DEF IInv, TypeOK, Records, RequestState, QuietCleanupComplete,
        IoctlUnmapBar, Unlink, Handling, Complete, fenceVars, fileVars,
        pnpVars
<1>9. CASE ResetFence
  BY <1>9, FilesAssumption, InFlightRequest
    DEF IInv, TypeOK, Records, RequestState, QuietCleanupComplete, ResetFence,
        Complete, ReclaimAllWindows, fileVars, pnpVars
<1>10. CASE ReleaseHardware
  BY <1>10, FilesAssumption
    DEF IInv, TypeOK, Records, RequestState, QuietCleanupComplete,
        ReleaseHardware, QueuePurged, ReclaimAllWindows, fenceVars, fileVars,
        reqVars
<1>11. ASSUME NEW f \in Files, FileCleanupDestroy(f)
      PROVE  QuietCleanupComplete'
  BY <1>11
    DEF IInv, RequestState, QuietCleanupComplete, FileCleanupDestroy,
        lockVars, fileVars
<1>12. CASE IoctlConfigureTlb \/ IoctlMapTlb \/ IoctlMapBar \/
            IoctlMapSysmem \/ CreateView \/
           DestroyMine \/ IoctlResetDevice \/ ResetArm \/ IoctlPostReset \/
           RevokeDestroy \/ ReleaseDone \/ PrepareHardware
  BY <1>12
    DEF IInv, RequestState, QuietCleanupComplete, IoctlConfigureTlb,
        IoctlMapTlb, IoctlMapBar, IoctlMapSysmem, CheckArguments, CreateView,
        DestroyMine, IoctlResetDevice,
        ResetArm, IoctlPostReset, RevokeDestroy, ReleaseDone, PrepareHardware,
        lockVars, fileVars
<1>13. CASE UNCHANGED vars
  BY <1>13 DEF IInv, TypeOK, Records, RequestState, QuietCleanupComplete, vars
<1>. QED
  BY <1>1, <1>2, <1>3, <1>4, <1>5, <1>6, <1>7, <1>8, <1>9, <1>10, <1>11,
     <1>12, <1>13 DEF Next, Handler, FileEvent, Pnp

\* Every step keeps private records where their thread is.
LEMMA PrivateStep == ASSUME IInv, [Next]_vars PROVE PrivateRecords'
<1>1. ASSUME NEW f \in Files, NEW op \in Ops, Dispatch(f, op)
      PROVE  PrivateRecords'
  BY <1>1, NoRequestFacts
    DEF IInv, TypeOK, RequestState, PrivateRecords, Dispatch, GenerationFence,
        RequestsOf, lockVars, fenceVars, fileVars, pnpVars
<1>2. ASSUME NEW f \in Files, FileCreate(f) PROVE PrivateRecords'
  BY <1>2, NoRequestFacts
    DEF IInv, TypeOK, RequestState, PrivateRecords, FileCreate, lockVars,
        pnpVars, reqVars
<1>3. ASSUME NEW f \in Files, FileCleanup(f) PROVE PrivateRecords'
  BY <1>3, NoRequestFacts
    DEF IInv, TypeOK, RequestState, PrivateRecords, FileCleanup, WindowsOf,
        fenceVars, pnpVars, reqVars
<1>4. ASSUME NEW f \in Files, FileCleanupDestroy(f) PROVE PrivateRecords'
  BY <1>4, NoRequestFacts
    DEF IInv, TypeOK, RequestState, PrivateRecords, FileCleanupDestroy,
        DestroyMapping, lockVars, fenceVars, pnpVars, reqVars
<1>5. ASSUME NEW f \in Files, FileClose(f) PROVE PrivateRecords'
  BY <1>5, NoRequestFacts
    DEF IInv, TypeOK, RequestState, PrivateRecords, FileClose, lockVars,
        fenceVars, pnpVars, reqVars
<1>6. CASE IoctlAllocateTlb
  BY <1>6, NoRequestFacts, InFlightRequest
    DEF IInv, TypeOK, RequestState, PrivateRecords, IoctlAllocateTlb,
        ClearBits, Handling, Complete, fenceVars, fileVars, pnpVars
<1>7. CASE IoctlFreeTlb
  BY <1>7, NoRequestFacts, InFlightRequest
    DEF IInv, TypeOK, RequestState, PrivateRecords, IoctlFreeTlb, Handling,
        Complete, CheckTlbOwner, TlbHasMappings, fenceVars, fileVars, pnpVars
<1>8. CASE IoctlConfigureTlb
  BY <1>8, NoRequestFacts, InFlightRequest
    DEF IInv, TypeOK, RequestState, PrivateRecords, IoctlConfigureTlb,
        Handling, Complete, CheckTlbOwner, lockVars, fenceVars, fileVars,
        pnpVars
<1>9. CASE IoctlMapTlb
  BY <1>9, NoRequestFacts, InFlightRequest
    DEF IInv, TypeOK, RequestState, PrivateRecords, IoctlMapTlb, Handling,
        Complete, CheckTlbOwner, lockVars, fenceVars, fileVars, pnpVars
<1>10. CASE IoctlMapBar \/ IoctlMapSysmem
  BY <1>10, NoRequestFacts, InFlightRequest
    DEF IInv, TypeOK, RequestState, PrivateRecords, IoctlMapBar,
        IoctlMapSysmem, CheckArguments, Handling,
        Complete, lockVars, fenceVars, fileVars, pnpVars
<1>11. CASE CreateView
  BY <1>11, NoRequestFacts, InFlightRequest
    DEF IInv, TypeOK, RequestState, PrivateRecords, CreateView, Complete,
        Backing, lockVars, fenceVars, fileVars, pnpVars, Records
<1>12. CASE InsertMapping
  BY <1>12, NoRequestFacts, InFlightRequest
    DEF IInv, TypeOK, RequestState, PrivateRecords, InsertMapping, Complete,
        Revalidated, fenceVars, fileVars, pnpVars
<1>13. CASE IoctlUnmapBar
  BY <1>13, NoRequestFacts, InFlightRequest
    DEF IInv, TypeOK, RequestState, PrivateRecords, IoctlUnmapBar, Unlink,
        Handling, Complete, fenceVars, fileVars, pnpVars
<1>14. CASE DestroyMine
  BY <1>14, NoRequestFacts, InFlightRequest
    DEF IInv, TypeOK, RequestState, PrivateRecords, DestroyMine, Complete,
        DestroyMapping, lockVars, fenceVars, fileVars, pnpVars
<1>15. CASE IoctlResetDevice
  BY <1>15, NoRequestFacts, InFlightRequest
    DEF IInv, TypeOK, RequestState, PrivateRecords, IoctlResetDevice,
        Handling, Complete, lockVars, fenceVars, fileVars, pnpVars
<1>16. CASE ResetFence
  BY <1>16, NoRequestFacts, InFlightRequest
    DEF IInv, TypeOK, RequestState, PrivateRecords, ResetFence, Complete,
        ReclaimAllWindows, fileVars, pnpVars
<1>17. CASE ResetArm
  BY <1>17, NoRequestFacts, InFlightRequest
    DEF IInv, TypeOK, RequestState, PrivateRecords, ResetArm, Complete,
        lockVars, fileVars, pnpVars
<1>18. CASE IoctlPostReset
  BY <1>18, NoRequestFacts, InFlightRequest
    DEF IInv, TypeOK, RequestState, PrivateRecords, IoctlPostReset, Handling,
        Complete, lockVars, fileVars, pnpVars
<1>19. CASE ReleaseHardware
  BY <1>19, NoRequestFacts
    DEF IInv, TypeOK, RequestState, PrivateRecords, ReleaseHardware,
        QueuePurged, ReclaimAllWindows, fenceVars, fileVars, reqVars
<1>20. CASE RevokeDestroy
  BY <1>20, NoRequestFacts
    DEF IInv, TypeOK, RequestState, PrivateRecords, RevokeDestroy,
        DestroyMapping, lockVars, fenceVars, fileVars, reqVars
<1>21. CASE ReleaseDone
  BY <1>21, NoRequestFacts
    DEF IInv, TypeOK, RequestState, PrivateRecords, ReleaseDone, lockVars,
        fenceVars, fileVars, reqVars
<1>22. CASE PrepareHardware
  BY <1>22, NoRequestFacts
    DEF IInv, TypeOK, RequestState, PrivateRecords, PrepareHardware, lockVars,
        fenceVars, fileVars, reqVars
<1>23. CASE UNCHANGED vars
  BY <1>23 DEF IInv, TypeOK, RequestState, PrivateRecords, vars
<1>. QED
  BY <1>1, <1>2, <1>3, <1>4, <1>5, <1>6, <1>7, <1>8, <1>9, <1>10, <1>11,
     <1>12, <1>13, <1>14, <1>15, <1>16, <1>17, <1>18, <1>19, <1>20, <1>21,
     <1>22, <1>23 DEF Next, Handler, FileEvent, Pnp

\* Every step keeps one record per view: records move between the list, a
\* handler and the lists of those about to be destroyed, and are never copied.
LEMMA OneRecordStep == ASSUME IInv, [Next]_vars PROVE OneRecordPerView'
<1>1. ASSUME NEW f \in Files, NEW op \in Ops, Dispatch(f, op)
      PROVE  OneRecordPerView'
  BY <1>1
    DEF IInv, TypeOK, Records, RequestState, PrivateRecords, OneRecordPerView,
        Doomed, Dispatch, GenerationFence, RequestsOf, lockVars, fenceVars,
        fileVars, pnpVars
<1>2. ASSUME NEW f \in Files, FileCleanup(f) PROVE OneRecordPerView'
  BY <1>2
    DEF IInv, TypeOK, Records, RequestState, PrivateRecords, OneRecordPerView,
        Doomed, FileCleanup, WindowsOf, fenceVars, pnpVars, reqVars
<1>3. ASSUME NEW f \in Files, FileCleanupDestroy(f) PROVE OneRecordPerView'
  <2>1. PICK m \in toDestroy[f] :
           /\ views' = views \ {m}
           /\ toDestroy' = [toDestroy EXCEPT ![f] = toDestroy[f] \ {m}]
      BY <1>3 DEF FileCleanupDestroy, DestroyMapping
  <2>2. UNCHANGED <<mappingList, mine, toRevoke>>
    BY <1>3 DEF FileCleanupDestroy, lockVars, pnpVars, reqVars
  <2>3. /\ toDestroy'[f] = toDestroy[f] \ {m}
        /\ \A g \in Files : g # f => toDestroy'[g] = toDestroy[g]
    BY <2>1 DEF IInv, TypeOK
  <2>4. /\ m \notin mappingList /\ m \notin mine /\ m \notin toRevoke
        /\ \A g \in Files : g # f => m \notin toDestroy[g]
    BY <2>1, DoomedMember DEF IInv, OneRecordPerView
  <2>5. Doomed' = Doomed \ {m}
    BY <2>1, <2>2, <2>3, <2>4, DoomedMember
  <2>. QED
    BY <2>1, <2>2, <2>3, <2>4, <2>5 DEF IInv, OneRecordPerView
<1>4. CASE CreateView
  BY <1>4, InFlightRequest
    DEF IInv, TypeOK, Records, RequestState, PrivateRecords, OneRecordPerView,
        Doomed, CreateView, Complete, Backing, lockVars, fenceVars, fileVars,
        pnpVars
<1>5. CASE InsertMapping
  BY <1>5, InFlightRequest
    DEF IInv, TypeOK, Records, RequestState, PrivateRecords, OneRecordPerView,
        Doomed, InsertMapping, Complete, Revalidated, fenceVars, fileVars,
        pnpVars
<1>6. CASE IoctlUnmapBar
  BY <1>6, InFlightRequest
    DEF IInv, TypeOK, Records, RequestState, PrivateRecords, OneRecordPerView,
        Doomed, IoctlUnmapBar, Unlink, Handling, Complete, fenceVars,
        fileVars, pnpVars
<1>7. CASE DestroyMine
  BY <1>7, InFlightRequest
    DEF IInv, TypeOK, Records, RequestState, PrivateRecords, OneRecordPerView,
        Doomed, DestroyMine, Complete, DestroyMapping, lockVars, fenceVars,
        fileVars, pnpVars
<1>8. CASE ReleaseHardware
  <2>1. /\ toRevoke = {} /\ mine = {}
        /\ toRevoke' = mappingList /\ mappingList' = {}
        /\ UNCHANGED <<views, toDestroy, mine>>
    BY <1>8
      DEF ReleaseHardware, QueuePurged, IInv, PrivateRecords, fileVars, reqVars
  <2>2. Doomed' = Doomed \cup mappingList
    BY <2>1, DoomedMember
  <2>3. \A g \in Files : toDestroy[g] \cap mappingList = {}
    BY DoomedMember DEF IInv, OneRecordPerView
  <2>. QED
    BY <2>1, <2>2, <2>3 DEF IInv, OneRecordPerView
<1>9. CASE RevokeDestroy
  <2>1. PICK m \in toRevoke : views' = views \ {m} /\ toRevoke' = toRevoke \ {m}
    BY <1>9 DEF RevokeDestroy, DestroyMapping
  <2>2. UNCHANGED <<mappingList, mine, toDestroy>>
    BY <1>9 DEF RevokeDestroy, lockVars, fileVars, reqVars
  <2>3. /\ m \notin mappingList /\ m \notin mine
        /\ \A g \in Files : m \notin toDestroy[g]
    BY <2>1, DoomedMember DEF IInv, OneRecordPerView
  <2>4. Doomed' = Doomed \ {m}
    BY <2>1, <2>2, <2>3, DoomedMember
  <2>. QED
    BY <2>1, <2>2, <2>3, <2>4 DEF IInv, OneRecordPerView
<1>10. ASSUME NEW f \in Files, FileCreate(f) \/ FileClose(f)
      PROVE  OneRecordPerView'
  BY <1>10
    DEF IInv, RequestState, PrivateRecords, OneRecordPerView, Doomed,
        FileCreate, FileClose, lockVars, fileVars, pnpVars, reqVars
<1>11. CASE IoctlAllocateTlb \/ IoctlFreeTlb \/ IoctlConfigureTlb \/
           IoctlMapTlb \/ IoctlMapBar \/ IoctlMapSysmem \/ IoctlResetDevice \/ ResetFence \/
           ResetArm \/ IoctlPostReset \/ ReleaseDone \/ PrepareHardware
  <2>1. UNCHANGED <<views, mappingList, mine, toDestroy, toRevoke>>
    BY <1>11
      DEF IoctlAllocateTlb, IoctlFreeTlb, IoctlConfigureTlb, IoctlMapTlb,
          IoctlMapBar, IoctlMapSysmem, CheckArguments, IoctlResetDevice,
          ResetFence, ResetArm, IoctlPostReset,
          ReleaseDone, PrepareHardware, lockVars, fileVars, pnpVars, reqVars
  <2>. QED
    BY <2>1 DEF IInv, OneRecordPerView, Doomed
<1>12. CASE UNCHANGED vars
  BY <1>12
    DEF IInv, TypeOK, Records, RequestState, PrivateRecords, OneRecordPerView,
        Doomed, vars
<1>. QED
  BY <1>1, <1>2, <1>3, <1>4, <1>5, <1>6, <1>7, <1>8, <1>9, <1>10, <1>11, <1>12
    DEF Next, Handler, FileEvent, Pnp

-----------------------------------------------------------------------------
\* A device that was just added satisfies the inductive invariant.
LEMMA InitIInv == Init => IInv
<1>. SUFFICES ASSUME Init PROVE IInv
  OBVIOUS
<1>1. TypeOK
  BY KernelTlbIsWindow DEF Init, TypeOK
<1>2. OneRecordPerView
  BY DoomedMember DEF Init, OneRecordPerView
<1>3. RequestState /\ PrivateRecords
  BY DEF Init, RequestState, PrivateRecords
<1>4. BitmapMatchesOwners
  BY KernelTlbIsWindow DEF Init, BitmapMatchesOwners
<1>5. RestrictedNoMappings /\ ListedMappingsOwned
  BY DEF Init, RestrictedNoMappings, ListedMappingsOwned
<1>6. HoldersCurrent /\ QuietCleanupComplete
  BY FilesAssumption DEF Init, HoldersCurrent, QuietCleanupComplete
<1>. QED
  BY <1>1, <1>2, <1>3, <1>4, <1>5, <1>6 DEF IInv

\* No step of any thread breaks it.
LEMMA NextIInv == IInv /\ [Next]_vars => IInv'
BY TypeStep, RequestStateStep, BitmapStep, RestrictedStep, ListedStep,
   HoldersStep, QuietStep, PrivateStep, OneRecordStep DEF IInv

\* The inductive invariant holds in every reachable state.
THEOREM Invariance == Spec => []IInv
BY InitIInv, NextIInv, PTL DEF Spec

\* The variables of the mapping and allocator state keep their types.
THEOREM TypeCorrect == Spec => []TypeOK
BY Invariance, PTL DEF IInv

\* A linked TLB mapping always belongs to the current owner of its window:
\* the revalidation in TtWindCreateUserMapping is enough against every race
\* of MAP_TLB with cleanups, FREE_TLB, resets and ReleaseHardware.
THEOREM MappingsOwned == Spec => []ListedMappingsOwned
BY Invariance, PTL DEF IInv

\* The allocator's bitmap and owner table agree between critical sections,
\* so the NT_ASSERT of ALLOCATE_TLB never fires, and nobody gets the kernel's
\* window.
THEOREM AllocatorConsistent == Spec => []BitmapMatchesOwners
BY Invariance, PTL DEF IInv

\* No mapping is linked from RESET_DEVICE's busy check to recovery: the
\* NT_ASSERT under the fence never fires although the lock was dropped.
THEOREM NothingLinkedInReset == Spec => []RestrictedNoMappings
BY Invariance, PTL DEF IInv

\* Stale handles hold nothing (dispatch fence of queue.c, fence of reset.c).
THEOREM StaleHandlesHoldNothing == Spec => []HoldersCurrent
BY Invariance, PTL DEF IInv

\* A cleanup no request of the handle raced leaves nothing behind.
THEOREM CleanupComplete == Spec => []QuietCleanupComplete
BY Invariance, PTL DEF IInv

\* Views and records correspond one to one, whoever tears them down.
THEOREM ViewsAccounted == Spec => []OneRecordPerView
BY Invariance, PTL DEF IInv

\* A released device has no allocation and no linked mapping; the views left
\* are in the hands of file cleanups.
THEOREM ReleasedUnmapped == Spec => []ReleasedDeviceUnmapped
<1>1. IInv => ReleasedDeviceUnmapped
  <2>. SUFFICES ASSUME IInv, device = "released"
                PROVE  /\ mappingList = {} /\ tlbBitmap = {KernelTlb}
                       /\ views \subseteq UNION {toDestroy[f] : f \in Files}
    BY DEF ReleasedDeviceUnmapped
  <2>1. mappingList = {} /\ toRevoke = {} /\ mine = {}
    BY DEF IInv, PrivateRecords
  <2>2. tlbBitmap = {KernelTlb}
    BY DEF IInv, PrivateRecords, BitmapMatchesOwners
  <2>. QED
    BY <2>1, <2>2 DEF IInv, OneRecordPerView, Doomed
<1>. QED
  BY <1>1, Invariance, PTL

\* CONFIGURE_TLB, checked and written under one hold of StateLock, never
\* retargets a window under another handle's linked mapping.
THEOREM ConfigureOwnWindow == Spec => ConfigureOwnWindowOnly
<1>1. ASSUME IInv, Next, NEW w \in TlbIds, tlbTarget'[w] # tlbTarget[w]
      PROVE  /\ IoctlConfigureTlb
             /\ w = req.tlb /\ CheckTlbOwner(req.file, req.tlb)
             /\ tlbTarget'[w] = req.file
  BY <1>1 DEF Next, Handler, FileEvent, Pnp, IInv, TypeOK, Dispatch,
       IoctlAllocateTlb, IoctlFreeTlb, IoctlConfigureTlb, IoctlMapTlb,
       IoctlMapBar, IoctlMapSysmem, CheckArguments, CreateView, InsertMapping,
       IoctlUnmapBar, DestroyMine,
       IoctlResetDevice, ResetFence, ResetArm, IoctlPostReset, FileCreate,
       FileCleanup, FileCleanupDestroy, FileClose, ReleaseHardware,
       RevokeDestroy, ReleaseDone, PrepareHardware
<1>2. ASSUME IInv, [Next]_vars
      PROVE  [\A w \in TlbIds : tlbTarget'[w] # tlbTarget[w] =>
                \A m \in mappingList : m.backing = w => m.file = tlbTarget'[w]]_vars
  BY <1>1, <1>2 DEF IInv, ListedMappingsOwned, CheckTlbOwner
<1>. QED
  BY <1>2, Invariance, PTL DEF Spec, ConfigureOwnWindowOnly

-----------------------------------------------------------------------------
(* TtWindMapping implements WindowLease.                                   *)

Attached == [w \in TlbIds |->
               {m.file : m \in {n \in mappingList : n.backing = w}}]

\* While every linked mapping belongs to the owner of its window, the handles
\* attached to a window are its owner or nobody.
LEMMA AttachedIsOwner ==
    ASSUME ListedMappingsOwned, NEW w \in TlbIds
    PROVE  Attached[w] = IF TlbHasMappings(w) THEN {tlbOwner[w]} ELSE {}
BY DEF ListedMappingsOwned, Attached, TlbHasMappings

\* The same of the state a step leads to.
LEMMA AttachedIsOwnerNext ==
    ASSUME ListedMappingsOwned', NEW w \in TlbIds
    PROVE  Attached'[w] = IF TlbHasMappings(w)' THEN {tlbOwner'[w]} ELSE {}
BY DEF ListedMappingsOwned, Attached, TlbHasMappings

\* Initial states map to initial states.
LEMMA LeaseInit == Init => Lease!Init
BY DEF Init, Lease!Init

\* Every step maps to a step of WindowLease or a stutter.
LEMMA LeaseStep ==
    ASSUME IInv, IInv', [Next]_vars
    PROVE  [Lease!Next]_(Lease!vars)
<1>. DEFINE LeaseStutter == UNCHANGED <<tlbOwner, Attached>>
            LReclaim(ws) == /\ tlbOwner' = [w \in TlbIds |-> IF w \in ws THEN NoFile ELSE tlbOwner[w]]
                            /\ Attached' = [w \in TlbIds |-> IF w \in ws THEN {} ELSE Attached[w]]
<1>0. /\ Attached = [w \in TlbIds |-> Attached[w]]
      /\ Attached' = [w \in TlbIds |-> Attached'[w]]
      /\ \A w \in TlbIds : Attached[w] = IF TlbHasMappings(w) THEN {tlbOwner[w]} ELSE {}
      /\ \A w \in TlbIds : Attached'[w] = IF TlbHasMappings(w)' THEN {tlbOwner'[w]} ELSE {}
      /\ tlbOwner = [w \in TlbIds |-> tlbOwner[w]]
      /\ tlbOwner' = [w \in TlbIds |-> tlbOwner'[w]]
  BY AttachedIsOwner, AttachedIsOwnerNext DEF IInv, TypeOK, Attached
<1>1. LeaseStutter => [Lease!Next]_(Lease!vars)
  BY DEF Lease!vars, Attached
<1>2. ASSUME NEW ws \in SUBSET TlbIds, LReclaim(ws)
      PROVE  Lease!Next
  BY <1>2 DEF Lease!Next, Lease!Reclaim, Attached
<1>3. ASSUME NEW f \in Files, FileCleanup(f)
      PROVE  LReclaim({w \in TlbIds : tlbOwner[w] = f})
  <2>1. \A w \in TlbIds : tlbOwner'[w] = IF tlbOwner[w] = f THEN NoFile ELSE tlbOwner[w]
    BY <1>3 DEF FileCleanup, WindowsOf
  <2>2. \A w \in TlbIds : tlbOwner[w] = f => ~TlbHasMappings(w)'
    BY <1>3 DEF FileCleanup, WindowsOf, TlbHasMappings, IInv, ListedMappingsOwned
  <2>3. \A w \in TlbIds : tlbOwner[w] # f => (TlbHasMappings(w)' <=> TlbHasMappings(w))
    BY <1>3 DEF FileCleanup, WindowsOf, TlbHasMappings, IInv, ListedMappingsOwned
  <2>. QED
    BY <1>0, <2>1, <2>2, <2>3
<1>4. ASSUME ResetFence PROVE LReclaim(TlbIds) \/ LeaseStutter
  BY <1>4, <1>0 DEF ResetFence, ReclaimAllWindows, TlbHasMappings, IInv,
     RestrictedNoMappings, ListedMappingsOwned
<1>5. ASSUME ReleaseHardware PROVE LReclaim(TlbIds)
  BY <1>5, <1>0 DEF ReleaseHardware, ReclaimAllWindows, TlbHasMappings
<1>6. CASE IoctlAllocateTlb
  <2>1. UNCHANGED mappingList /\ req.file \in Files
    BY <1>6, InFlightRequest DEF IoctlAllocateTlb, Handling, IInv
  <2>2. CASE UNCHANGED tlbOwner
    BY <1>1, <2>1, <2>2 DEF Attached
  <2>3. ASSUME NEW id \in TlbIds \ tlbBitmap,
               tlbOwner' = [tlbOwner EXCEPT ![id] = req.file]
        PROVE  Lease!Lend(id, req.file)
    BY <2>1, <2>3 DEF Lease!Lend, IInv, BitmapMatchesOwners
  <2>. QED
    BY <1>6, <2>1, <2>2, <2>3 DEF IoctlAllocateTlb, ClearBits, Lease!Next
<1>7. CASE IoctlFreeTlb
  <2>1. UNCHANGED mappingList /\ req.file \in Files /\ req.tlb \in TlbIds
    BY <1>7, InFlightRequest DEF IoctlFreeTlb, Handling, IInv
  <2>2. CASE UNCHANGED tlbOwner
    BY <1>1, <2>1, <2>2 DEF Attached
  <2>3. CASE /\ CheckTlbOwner(req.file, req.tlb) /\ ~TlbHasMappings(req.tlb)
             /\ tlbOwner' = [tlbOwner EXCEPT ![req.tlb] = NoFile]
    <3>1. Attached[req.tlb] = {} /\ tlbOwner[req.tlb] # NoFile
      BY <1>0, <2>1, <2>3, FilesAssumption DEF CheckTlbOwner
    <3>2. Lease!Return(req.tlb)
      BY <2>1, <2>3, <3>1 DEF Lease!Return, Attached
    <3>. QED
      BY <2>1, <3>2 DEF Lease!Next
  <2>. QED
    BY <1>7, <2>2, <2>3 DEF IoctlFreeTlb
<1>8. CASE InsertMapping
  <2>1. UNCHANGED tlbOwner
    BY <1>8 DEF InsertMapping
  <2>2. CASE UNCHANGED mappingList
    BY <1>1, <2>1, <2>2 DEF Attached
  <2>3. ASSUME NEW m \in mine, mappingList' = mappingList \cup {m}
        PROVE  [Lease!Next]_(Lease!vars)
    <3>1. CASE m.backing \in TlbIds
      <4>1. \A w \in TlbIds : TlbHasMappings(w)' <=> TlbHasMappings(w) \/ w = m.backing
        BY <2>3 DEF TlbHasMappings
      <4>2. tlbOwner[m.backing] # NoFile
        BY <2>1, <2>3, <3>1, FilesAssumption
          DEF IInv, TypeOK, Records, ListedMappingsOwned
      <4>3. Attached' = [Attached EXCEPT ![m.backing] = {tlbOwner[m.backing]}]
        BY <1>0, <2>1, <3>1, <4>1
      <4>4. Lease!Attach(m.backing)
        BY <2>1, <4>2, <4>3 DEF Lease!Attach, Attached
      <4>. QED
        BY <3>1, <4>4 DEF Lease!Next
    <3>2. CASE m.backing \notin TlbIds
      <4>1. \A w \in TlbIds : TlbHasMappings(w)' <=> TlbHasMappings(w)
        BY <2>3, <3>2 DEF TlbHasMappings
      <4>2. Attached' = Attached
        BY <1>0, <2>1, <4>1
      <4>. QED
        BY <1>1, <2>1, <4>2
    <3>. QED
      BY <3>1, <3>2
  <2>. QED
    BY <1>8, <2>2, <2>3 DEF InsertMapping
<1>9. CASE IoctlUnmapBar
  <2>1. UNCHANGED tlbOwner
    BY <1>9 DEF IoctlUnmapBar
  <2>2. CASE UNCHANGED mappingList
    BY <1>1, <2>1, <2>2 DEF Attached
  <2>3. ASSUME NEW m \in mappingList, mappingList' = mappingList \ {m}
        PROVE  [Lease!Next]_(Lease!vars)
    <3>1. \A w \in TlbIds : w # m.backing => (TlbHasMappings(w)' <=> TlbHasMappings(w))
      BY <2>3 DEF TlbHasMappings
    <3>2. CASE m.backing \in TlbIds /\ ~TlbHasMappings(m.backing)'
      <4>0. /\ Attached'[m.backing] = {}
            /\ \A w \in TlbIds : w # m.backing => Attached'[w] = Attached[w]
        BY <1>0, <2>1, <3>1, <3>2
      <4>1. Attached' = [Attached EXCEPT ![m.backing] = {}]
        BY <1>0, <3>2, <4>0
      <4>2. Lease!Detach(m.backing)
        BY <2>1, <4>1 DEF Lease!Detach, Attached
      <4>. QED
        BY <3>2, <4>2 DEF Lease!Next
    <3>3. CASE m.backing \notin TlbIds \/ TlbHasMappings(m.backing)'
      <4>1. \A w \in TlbIds : TlbHasMappings(w)' <=> TlbHasMappings(w)
        BY <2>3, <3>1, <3>3 DEF TlbHasMappings
      <4>2. Attached' = Attached
        BY <1>0, <2>1, <4>1
      <4>. QED
        BY <1>1, <2>1, <4>2
    <3>. QED
      BY <3>2, <3>3
  <2>. QED
    BY <1>9, <2>2, <2>3 DEF IoctlUnmapBar, Unlink
<1>10. ASSUME NEW f \in Files, NEW op \in Ops,
              Dispatch(f, op) \/ FileCreate(f) \/ FileCleanupDestroy(f) \/ FileClose(f)
       PROVE  LeaseStutter
  BY <1>10 DEF Dispatch, FileCreate, FileCleanupDestroy, FileClose, lockVars, Attached
<1>11. ASSUME \/ IoctlConfigureTlb \/ IoctlMapTlb \/ IoctlMapBar \/ IoctlMapSysmem \/ CreateView
              \/ DestroyMine \/ IoctlResetDevice \/ ResetArm \/ IoctlPostReset
              \/ RevokeDestroy \/ ReleaseDone \/ PrepareHardware \/ UNCHANGED vars
       PROVE  LeaseStutter
  BY <1>11
    DEF IoctlConfigureTlb, IoctlMapTlb, IoctlMapBar, IoctlMapSysmem,
        CheckArguments, CreateView, DestroyMine,
        IoctlResetDevice, ResetArm, IoctlPostReset, RevokeDestroy, ReleaseDone,
        PrepareHardware, vars, lockVars, Attached
<1>12. \A f \in Files : {w \in TlbIds : tlbOwner[w] = f} \in SUBSET TlbIds
  OBVIOUS
<1>. HIDE DEF LeaseStutter, LReclaim
<1>. QED
  BY <1>1, <1>2, <1>3, <1>4, <1>5, <1>6, <1>7, <1>8, <1>9, <1>10, <1>11, <1>12
    DEF Next, Handler, FileEvent, Pnp, Ops

\* The allocator with its linked mappings implements the abstract lease: every
\* step of every thread is a lend, a return, an attach, a detach, a
\* reclamation, or nothing at all to a client of the windows.
THEOREM Refinement == Spec => ImplementsLease
<1>. QED
  BY LeaseInit, LeaseStep, Invariance, PTL DEF Spec, ImplementsLease, Lease!Spec

=============================================================================
