# Formal models of the tt-wind driver

tt-wind is a Windows KMDF driver for Tenstorrent Blackhole PCIe cards. It lets
user programs map BAR space and 2 MiB NOC (TLB) windows, passes messages to the
card's ARC firmware, lends it a buffer of host memory ("sysmem"), and resets the
card without a reboot. This directory holds TLA+ models of that driver, the TLC
configurations that check them on small instances, and TLAPS proofs. References
such as `mapping.c:336` are to `src/driver/` unless another path is given.

## Running

    tlc -workers 2 -config mapping_safety.cfg MCTtWindMapping.tla
    tlapm TtWindMapping_proofs.tla      # and the other *_proofs.tla

`PROJECT.json` pairs every `.cfg` with its module, maps every definition to the
source lines it stands for, and lists the mutants, findings, hazards and theorems.

## Inventory

### Components, state, operations

| Component | Source | State it keeps | Operations | What makes it correct |
|---|---|---|---|---|
| User mappings | `mapping.c` | `MappingList` and the user views (PTEs) behind its records | MAP_BAR, the tail of MAP_TLB and MAP_SYSMEM, UNMAP_BAR, file cleanup, `TtWindRevokeAllMappings` | every view has one record in one place; a record's owner may use what it maps; nothing outlives its handle or the device |
| TLB window allocator | `tlb.c` | `TlbBitmap`, `TlbOwner`, the window registers | ALLOCATE_TLB, FREE_TLB, CONFIGURE_TLB, MAP_TLB, and the reclamations of `reset.c` and `mapping.c` | bitmap and owners agree, the kernel's window is never lent, a window in use is not taken away or retargeted |
| TLB register packing | `tlb.c` | the three registers of a window | `TtWindPutField`, `TtWindPackTlb2M`, `TtWindProgramTlb2M` | what is accepted reaches the chip entire |
| Ioctl dispatcher | `queue.c` | none of its own; reads `ResetGeneration` and `NeedsHwInit` | `TtWindEvtIoDeviceControl` | a stale handle and a restricted device get nothing but what is allowed |
| File objects | `driver.c`, `mapping.c` | the generation stamp of a handle | create, cleanup, close | a handle belongs to one generation |
| PnP and resources | `device.c` | bus interface, BARs, five kernel mappings, PnP state | Prepare/ReleaseHardware | what is acquired is given back once, on every failure path; nothing refers to resources that are gone |
| ARC mailbox | `arc.c` | `ArcRoute`, `ArcLock`; two rings in the firmware's SRAM | `TtWindArcMsgSendSync`, SMC_MSG, ARC_STATUS | one exchange at a time, bounded; requests reach the firmware once and in order; an answer belongs to its request |
| Power sequencing | `arc.c` | - | SelfManagedIoInit/Restart/Suspend | no access to a device that is off the bus |
| Reset and recovery | `reset.c` | `NeedsHwInit`, `ResetGeneration`, `SavedConfig`, the marker in the chip's COMMAND register | RESET_DEVICE, POST_RESET | no MMIO while the chip may be off the bus; the device comes back, whole |
| Sysmem | `sysmem.c` | the buffer, `SysmemVerified`, iATU region 0 | allocation, arm, loopback, invalidate, QUERY_SYSMEM, MAP_SYSMEM, free | advertised only while the window works; views stay inside a live buffer; its contents are the user's |
| Wire format | `ttwind_ioctl.h` | - | structures and the contract with user mode | - |
| ttwind-info | `src/tools/ttwind-info` | a handle, a window, up to two views, an exit code | nine commands, each a ladder of ioctls | everything is given back on every path; no load from a device that may be gone; a true verdict |

### How they interact

* All ioctls go through one **sequential, power-managed queue**: one request runs
  at a time, and none while the device is out of D0.
* `EvtDeviceFileCreate` and `EvtFileCleanup` run on **any thread**, also under a
  request of the same handle. The **PnP thread** runs Prepare/ReleaseHardware and
  the SelfManagedIo callbacks.
* **`StateLock`** guards the list, the bitmap, the owners and the generation. It
  is dropped between a check and the mapping it was for.
* **`ArcLock`** guards the mailbox, the one kernel TLB window, the sysmem arming
  and the MMIO part of POST_RESET. RESET_DEVICE holds it from the presence check
  to the arm; paths that do not come through dispatch look at `NeedsHwInit` only
  after they have it.
* The **firmware** and the **reset timer of the chip** run on their own, and so do
  the **user programs**, whose loads and stores through a view no driver code sees.

### What is hard here

Requests racing file cleanup and release; a check whose lock is dropped before its
result is used; the moments between the arm of a reset and its firing; power
callbacks that waited for `ArcLock` while a reset was armed; a firmware that
answers late; a restore that fails half-way; ring and bit arithmetic at its edges.
`PROJECT.json` lists each hazard at its line with the properties that watch it.

## Modules

| Module | Models | Runs / proofs |
|---|---|---|
| `TtWindMapping` | mappings, allocator, dispatcher fences, file objects, release and prepare, and what `reset.c` and `sysmem.c` do to them | `mapping_*`; `TtWindMapping_proofs` |
| `WindowLease` | what the allocator promises: the abstract specification | refined by `TtWindMapping` (checked and proved) |
| `ArcMailbox` | the exchange with the firmware, route discovery, the rings, every thread that sends, release and prepare of the mappings it uses | `arc`, `arc_late_answer`; `ArcMailbox_proofs` |
| `ResetRecovery` | RESET_DEVICE, POST_RESET, power callbacks, sysmem arming, the chip | `reset`, `reset_parity_stuck`; `ResetRecovery_proofs` |
| `TtWindDevice` | `TtWindMapping` and `ResetRecovery` composed | `device`; `TtWindDevice_proofs` |
| `Sysmem` | PrepareHardware and ReleaseHardware with their failures, the buffer, its on-chip window, the loopback, MAP_SYSMEM | `sysmem`, `sysmem_contents`; `Sysmem_proofs` |
| `TlbRegisters` | the packing of a TLB configuration, and who programs which window | `tlb_registers`; `TlbRegisters_proofs` |
| `TtWindInfo` | the commands of ttwind-info, by several users | `tool`; `TtWindInfo_proofs` |
| `MC...` | values for TLC | - |

The state machines of the driver share `NeedsHwInit`. Each shows the others' effect
on its own state as a nondeterministic action (`ResetFence` and `ResetArm` in
`TtWindMapping`; `RestrictDevice`, `ChipReset` and `Unrestrict` in `ArcMailbox`;
`power_mmio`, a whole exchange, in `ResetRecovery`), with guards weak enough that
every step of the detailed module is allowed there. `TtWindDevice` puts the two
largest together.

### TtWindMapping

| Code | Model |
|---|---|
| `ctx->MappingList` | `mappingList`, a set of records (address, handle, backing); list order never matters |
| live user PTEs | `views` |
| `TlbBitmap`, `TlbOwner` | `tlbBitmap` (the set bits), `tlbOwner` |
| the registers of a window | `tlbTarget`: whose CONFIGURE_TLB they hold |
| `ResetGeneration`, `NeedsHwInit`, the file context | `resetGeneration`, `needsHwInit`, `fileGeneration` |
| the private list of a file cleanup, of `TtWindRevokeAllMappings` | `toDestroy[f]`, `toRevoke` |
| the handler in flight and its local record | `pc`, `req`, `mine` |

A step is one critical section of `StateLock`, or one effect between two of them.
MAP_TLB is `IoctlMapTlb` (check, lock dropped), `CreateView` (the view exists, no
record is linked), `InsertMapping` (revalidated and linked), or `DestroyMine` when
the window went away. `raced` is history: a cleanup ran under a request of its
handle. Requests that dispatch completes at once (stale handle, restricted device)
change nothing and are not steps. Reads that only choose between success and an
error (an address out of range, an allocation that fails) are nondeterministic.

### ArcMailbox

A message is its number; slots and pointers keep the code's arithmetic, the UINT32
wrap included (`Occupancy`, `Slot`, `Advance`). Each group of register accesses the
firmware can run between is a step: probe of one route, control block, one drained
response, slot words, write pointer, doorbell, response pointers, response slot,
read pointer. The firmware (`FwTake`, `FwAnswer`, `FwSleep`, `FwBoot`) is external,
modelled from the layout comment of `arc.c` and from what the code expects of it;
it owes the driver nothing. `gone` makes every read return all-1s; the chip reset
empties the rings. ARC_STATUS is a call without a message.

### ResetRecovery

The labels of `pc` are the points of RESET_DEVICE and POST_RESET where the chip or
the other thread can come in between; every config access that the code checks may
fail. A label that ends in `_mmio` is a thread about to touch a BAR. The config
space is the BAR assignment it holds, or junk (reset defaults, or all-1s). The
COMMAND parity bit is the code's marker and starts with the value the platform
left in it. `TtWindArcPowerUp` and `TtWindArcPowerDown` take `ArcLock` once per
message, so a reset can come between their two messages.

`mapped` and `config` are the BAR assignment the kernel mappings were made for and
the one the chip has; a rebalance moves both. `platformParity` is the parity bit
the platform boots with, a choice of `Init`. `ChipReturns` may come between any two
steps, those of RESET_DEVICE included; `outrun` is history and says that it did come
there. A reset is **orderly** (`Orderly`) while neither that nor a link loss of
another origin (`flaps`) has happened: the driver tests for the device once, at the
start of a handler, and cannot notice either. What holds only while the reset is
orderly says so in its statement; `NothingTouchesMmio` says it of all resets, and
does not hold (see "What the models found").

### TtWindDevice

Both modules are instantiated; `thread` is ResetRecovery's `pc`. A step is a step of
one half with the other standing still (`Alone`, `Elsewhere`), or of both where one
piece of code does both things: CONFIGURE_TLB checks ownership and writes BAR 0; the
busy check starts the triage of RESET_DEVICE; the fence comes when the marker is
set, as in the code (`reset.c:338`; two comments say otherwise, see "What the
models found"); the restriction and the carried generation are one step;
POST_RESET ends when a step of ResetRecovery gives up or passes the gate; the queue
dispatches when both halves are idle, that is not before the tail of POST_RESET is
through; ReleaseHardware runs when power is down and PrepareHardware brings the
rebalance. Every step of the composition is by construction a step, or a stutter, of
each half; what is checked is what only the two together can say.

### Sysmem

| Code | Model |
|---|---|
| the pointers of the device context, `BusIfValid` | `pointers`: those that are not NULL |
| the mappings and references themselves | `held`: how many there are of each |
| `SysmemVa`, `SysmemPhys`, `SysmemSize` | `buffer`, `size`: a physical page number and a number of pages |
| `TTWIND_VIEW_ALIGN` | `ViewAlign`, in pages |
| memory the driver has allocated | `heap` |
| `SysmemVerified`, `SysmemStage`, `PcieTileX` | `verified`, `stage`, `tileFound` |
| the dwords at the three probe offsets | `cells`: zero, magic or a program's data |
| user views and the private list of a cleanup | `views`, `cleaning` |
| outbound iATU region 0 | `target`, `limit`, `enabled` |

PrepareHardware fails with nothing but the bus interface (`PrepareFails`), half-way
between its two mandatory mappings, or succeeds with any subset of the three
best-effort ones and with any tier or none. KMDF may call ReleaseHardware after a
failed start, and the model lets it. The nine iATU writes land or are lost in three
groups; a read over the NOC gives the buffer's page if the window leads there, and
may fail anyway. The loopback goes probe by probe, because programs write meanwhile.
The offset and the length of a map request are any of the pages near 0, near the
size and near the end of the arithmetic. A buffer begins on any page, and a view on
the multiple of `ViewAlign` at or before the page asked for (`AlignedDown`), as
`sysmem.c:616-622` maps it; it ends where the request ends. QUERY_SYSMEM and
SYSMEM_STATUS only report. The rest of POST_RESET and of the power callbacks is in
`ResetRecovery`.

### TtWindInfo

`Script` is the table of the commands: each ioctl with the step that its failure
goes to, as the `goto` ladders of `ttwind-info.c` have it. `tlbreadx` has the script
of `tlbread`. The driver is what its ioctls show to programs: fence, allow-list,
owners, views. An ioctl that makes something may always fail; one that gives
something back fails only if the fence, the restriction or the ownership refuses it,
as in the driver. A program may be killed anywhere, and the driver's cleanup follows.

### TlbRegisters

A word is the set of its 1 bits, so all widths are the real ones (UINT64 and
UINT32, shifts that drop bits, casts that cut). `ChipSeesConfig` decodes the three
registers by the table in the header of `tlb.c` and compares them with what was
accepted.

## Runs

| Run | Shows | Instance |
|---|---|---|
| `mapping_safety` | types; a linked TLB mapping belongs to the window's owner; bitmap = owners; nothing linked from the busy check to recovery; holders are current; one record per view; a quiet cleanup is complete; a released device holds nothing; the allocator implements `WindowLease`; CONFIGURE_TLB retargets nobody else's mapping | 2 handles, 3 windows (one the kernel's), 2 addresses, 2 resets; symmetry of handles and addresses (all the properties are safety properties that do not name one); 1.19 million states |
| `mapping_reset_live_view`, `mapping_survives_handle` | two sentences of the comments that a racing cleanup breaks | 2 handles, 2 windows, 1 address |
| `arc` | one exchange at a time; no access once restricted, nor through a mapping that is gone; only an answering route is used; requests arrive once, whole and in order; the ring is never overrun; answers are the caller's own until a timeout, and never invented after one; every call returns | 2 threads, ring of 2, 2 routes, 3 messages; 1.45 million states |
| `arc_late_answer` | a comment about timeouts that does not hold | ring of 2, 3 messages |
| `reset` | sysmem is dark while restricted, whatever happens; while the reset is orderly a pending timer is marked, no MMIO while the timer runs or the link is down, an unrestricted device is whole, the saved image is good; once callers only poll, the device leaves the restricted state again and again, on a platform without parity reporting, with BARs that stay and an orderly reset | 2 suspends, 1 rebalance, 2 link losses, 2 power-up tries, both platforms; 655,000 states |
| `reset_parity_stuck` | on the other platforms it may not | 2 tries |
| `sysmem` | what is acquired is behind one pointer and given back once; an advertised window opens on all of the live buffer, but for the time without power; no loopback pattern stays; linked views end inside the live buffer and begin no earlier than its granule | 2 places (aligned and not), sizes 4 and 8 pages, a granularity of 4, words of 16, 2 addresses; 7.1 million states |
| `sysmem_contents` | a re-arm changes what a program wrote into the buffer | 1 place, sizes 4 and 8 pages, 1 address |
| `device` | no user view of a device that is off the bus, except in a file cleanup; a RESET_DEVICE that fails makes no handle stale | 2 handles, 2 windows, 1 address, 2 resets, 1 suspend, 1 rebalance, no parity reporting, followed while the reset is orderly; 4.3 million states |
| `tool` | nothing is left when a ladder ends; loads go to live views of a device that is not in a reset; "Reset complete." is true; every command ends | 2 users, 2 windows, 2 polls, 2 resets; 250,000 states |
| `tlb_registers` | `ChipSeesConfig` | the extreme bits of every field between all-0 and all-1 neighbours, accepted and not; 715 states |

Every property of a passing run has a mutant in `PROJECT.json`: a plausible bug
under which TLC finds that property violated.

### Why the bounds are enough

* *Handles, windows, addresses*: ownership concerns two handles and one window; a
  third window lets one be free, one lent and one the kernel's. Two addresses let
  two views exist at once. The proofs remove these bounds.
* *Resets* (`MaxGen`): two generations make a handle stale, and a second reset
  meets handles that the first one carried forward.
* *Ring of two, pointers modulo four, word of 16*: the pointers wrap, the ring is
  full with one and with two requests waiting, and three messages allow a timeout,
  a late answer and a call after it. 16 stands for 2^32: what matters is whether
  2n divides it, as it does for rings of two; `RingSound` is the condition.
* *Two routes, two rounds*: the order of the routes and a firmware that boots
  during or between rounds.
* *Suspends, rebalances, flaps*: each occurs at every point of a reset; the second
  suspend meets what the first one left. Callers may arm as often as they like:
  the reset model has no bound on resets, nor on polls.
* *Two tries*: the first may fail and the last may; the code makes more.
* *Two places, two sizes*: a window left over from an earlier buffer may point
  elsewhere or be too short or too long for the new one; a granularity of four pages
  lets one buffer begin on it and one miss it. The word of 16 pages is twice the
  largest buffer: sums at its end wrap into the buffer.
* *Two users, two polls, two resets* in `tool`: one arms while the other polls, the
  last poll differs from the first, and the second reset fences off the first user.

### Fairness

No safety property depends on any. For `EveryCallReturns`, `arc` assumes that a
thread inside an exchange keeps running, its clock included (weak fairness: every
loop has a deadline or a counter), and that a wait lock released again and again is
obtained (strong fairness: KMDF wait locks are granted to waiters); nothing of the
firmware. `Recovers` also assumes that the caller keeps polling POST_RESET, as
`src/tools/ttwind-info/ttwind-info.c:684-712` does; that a chip that was armed
resets and comes back; that the config writes of a restore and the register
read-back of a device that is present with the right BARs do not fail for ever.
`tool` assumes that a program that is not killed goes on (weak fairness); the chip
need not obey.

## What is proved

Every invariant and every action property that a passing run checks is also a
theorem, for every value of the constants that the named `ASSUME`s of the module
allow: any number of handles, windows, threads, messages, programs, resets, power
transitions and link losses. Where a theorem holds under a condition (`Orderly`,
`~outrun`, `RingSound`), the condition is part of the property, so that TLC checks
the same formula. The assumptions say that names of nobody are not names
of somebody and that bounds are numbers; two say more. `RingAssumption` makes the
machine word at least as large as two rings (with 2^32 any real ring), and
`TiersAssumption` makes a buffer at least three pages and smaller than the word.
No property is inductive alone; what each module adds, and why:

### TtWindMapping_proofs

`Invariance`, the eight invariants of `mapping_safety`, `ConfigureOwnWindow` (its
action property) and `Refinement` (every step is a step of `WindowLease` or changes
none of its variables).

`RequestState` adds what the sequential queue guarantees: a request past dispatch
is of a current handle and was let in unrestricted, and neither can change under it
except in RESET_DEVICE itself, because the only code that changes them runs on the
queue. That is why nothing can be linked between the busy check and the fence
although the lock is dropped. `PrivateRecords` says where records are while they are
on no list: with the one handler that makes or destroys one, with a cleanup in
progress, with a ReleaseHardware for which the queue was purged. `HoldersCurrent`
needs `RestrictedNoMappings`, since the reset carries only its own handle forward
and mappings of other handles would be left behind. The refinement maps `holder` to
`tlbOwner` and `attached` to the handles with a linked mapping;
`ListedMappingsOwned` turns each set into at most the one holder.

### ArcMailbox_proofs

`Invariance` has two halves. The first is about `ArcLock`: `LockState` says which
labels hold it, and from it follow `ExchangesApart`, `RestrictedUntouched`,
`MappedAccess` and `RouteLive`, because RESET_DEVICE and ReleaseHardware need the
same lock for what they take away. The second is about answers. `RequestSlots` and
`ResponseSlots` say that what lies in the rings was put there by a call, and
`OneOutstanding` counts: until some call has timed out there is at most one message
between a call, the request ring, the firmware and the response ring together, so
what is taken is the caller's own (`AnswersOwn`); after a timeout it was at least
asked for by somebody (`AnswersAsked`).

The request ring is proved apart, as `RingSound => RingCounts`. `RingSound` is how
far the UINT32 arithmetic of the code reaches, for every ring it accepts: the
occupancy it computes is the true one as long as the write pointer has not come
round to 0 (`OccupancyAhead`), and for ever if 2n divides the modulus of the word
(`OccupancyIsTrue`; the lemmas `ModQuotient` to `ModWrap` replace what the prover
does not know about `%`). `RingInvariance`, `RequestsBounded` and `RequestsOrdered`
have no other hypothesis. Beyond `RingSound` the ring is overrun (see "What the
models found").

### ResetRecovery_proofs

`LockDiscipline` has the labels at which each thread holds `ArcLock`.
`RestrictionState` is the reason why the checks of `NeedsHwInit` work: it changes on
the queue and under `ArcLock` only, so what a thread read under the lock stays true
until it drops it. `MarkerState` follows the parity marker through a reset: the chip
is marked before the timer is armed, and POST_RESET writes COMMAND only when no
timer runs. `ImageState` follows the saved image: taken only from a device that is
on the bus and has its BARs. The theorems are `PendingMarked`, `DeviceWhole`,
`ImageGood`, `RestrictedIsDark` and `NoFreeze`, the one that matters most: no
thread touches a BAR while the timer runs or the link is down. All but
`RestrictedIsDark` are about orderly resets; nothing is assumed of when the chip
returns.

### TtWindDevice_proofs

`ImplementsRecovery` and `ImplementsMapping`: the composed driver implements each of
its halves, so all their theorems hold of it; `DriverNeverFreezes` is `NoFreeze` for
the driver as a whole, where only resets take the link down, until the chip outruns
RESET_DEVICE. The halves meet in `HalvesMeet` (while the device is restricted no
view is in a handler's hands or on its way out with the hardware, and the hardware
is released only out of D0), from which `NoViewOffTheBus` (from
`RestrictedNoMappings` of one half and `DeviceWhole` of the other) follows.
`StaleByResetOnly` says that the generation moves only on the way into the
restriction: the fence is the last thing that happens before it (`FenceStep`).

### Sysmem_proofs

`ArmState` says what an arm may rely on between its steps (a buffer, registers, and
that nothing is advertised), `MagicState` where the loopback's pattern can be,
`RevokedState` that no view is linked from the revocation to the next start, and
`BufferState` in which order ReleaseHardware takes things away. From them
`ResourcesBalance`, `AdvertisedReaches`, `MagicCleared` and `ViewsBounded`, for any
buffer size, granularity and word width: an offset and a length whose sum wraps map
nothing. `ViewsBounded` bounds the beginning of a view by the granule in which the
buffer begins, which is all the code ensures.

### TtWindInfo_proofs

The scripts are data, so their properties are read off step by step: `LadderFacts`
checks for each of the 34 steps that its success and its failure lead to a place
with the right holdings. `ViewState` and `WindowState` then say that a program holds
exactly what its place in the ladder says, and only under a current handle; this is
an invariant because what gives something back that is there cannot fail, and a
reset, which takes windows away, refuses while there is a view. `AimState` and
`ResetState` do the same for the aim of a window and for the chip's timer. From them
`NothingLeft`, `LiveViews` and `CompleteTrue`, for any number of programs.

### TlbRegisters_proofs

`PutFieldBits` is the specification of `TtWindPutField`, straddling fields and
fields above bit 63 included (the bug its comment tells of). With it `PackedBits`
says which bits the ten calls set, `SeenBits` that the split in three registers
loses none, and `NothingTruncates` that the chip decodes every configuration that
passes the range checks to exactly what was asked for. The configurations of the
run are a sample; the theorem is about all of them.

## Only model-checked

Liveness is outside the prover's reach: `EveryCallReturns`, `Recovers` and
`EveryCommandEnds` are checked by TLC under the fairness above. That the violation
runs fail is shown by their counterexamples.

## What the models found

Each of these is a violation run with a counterexample; `PROJECT.json` quotes the
sentences they contradict.

* The busy check of RESET_DEVICE sees the list, not the views a file cleanup has
  unlinked but not yet unmapped (`mapping_reset_live_view`).
* A MAP_BAR or MAP_SYSMEM in flight while its handle is cleaned up leaves a
  mapping that nobody owns; only TLB mappings are revalidated
  (`mapping_survives_handle`).
* After a timeout the late answer goes to the next caller (`arc_late_answer`).
* On a platform that enables parity reporting, a restore that fails late leaves the
  marker set, and POST_RESET answers busy for ever (`reset_parity_stuck`); a new
  RESET_DEVICE is the way out.
* Re-arming sysmem zeroes eight bytes at each of three offsets of a buffer that
  programs may be using (`sysmem_contents`).

Five more sentences are stated as invariants, under "What the comments say" at the
end of their modules. No run of the project is spent on them; TLC finds each
violated with the given change of a cfg (the new `INVARIANT` in place of the
properties of the cfg).

| Definition | Sentence | Instance | What happens |
|---|---|---|---|
| `NothingTouchesMmio` (`ResetRecovery`) | `reset.c:54-57`, `ttwind_ioctl.h:432-433` | `reset.cfg`, `MaxTries = 1`, no suspends, rebalances or flaps | a timer fires inside a re-arm, after the marker is set, and the chip is back before the handler goes on (`reset.c:318-372`; the link stays up, `reset.c:88-89`): the second timer is armed unmarked, and POST_RESET touches BAR 0 while it runs |
| `SuspendedIsDark` (`Sysmem`) | `arc.c:868-869` | `sysmem_contents.cfg` | the arming at the end of POST_RESET follows the invalidation of Suspend: `SysmemVerified` stays TRUE over the Dx transition until Restart arms again |
| `WindowEndsWithBuffer` (`Sysmem`) | `sysmem.c:17-18`, `24-25` | `sysmem_contents.cfg` | the loopback cannot see a window that is too long: with the limit of an earlier, larger buffer it passes, and the device reaches past the buffer |
| `ViewsBeginInBuffer` (`Sysmem`) | `sysmem.c:52-54` | `sysmem_contents.cfg`, `Places <- UnalignedPlace` | a view of a buffer that is not 64 KiB aligned begins before it, by up to 15 pages (`sysmem.c:616-622`) |
| `RingNeverOverrun` (`ArcMailbox`) | `arc.c:23-24` | `arc_late_answer.cfg`, `Callers <- MCQueueOnly`, `NumEntries = 3`, `MaxMsgs = 7` | any number of entries is accepted (`arc.c:473-483`); if it is not a power of two, the wrap at 2^32 makes a full ring look as if it had room |

One sentence is about the order of the code and needs no run. `ttwind_ioctl.h:417-421`
and the header of RESET_DEVICE (`reset.c:212-215`) list the fence (generation,
reclaimed windows) before the save of the config space and the marker; the code
saves and marks first and makes the fence when both have succeeded
(`reset.c:301-343`). The code's order is the one that leaves handles valid when a
reset fails: `StaleOnlyByReset`, whose mutant has the fence behind it also when the
save or the marker fails, as in the documented order.

The models also show what no sentence of the repository contradicts:

* A program that writes to a probe offset during the loopback of a Restart makes
  the loopback fail and sysmem unavailable until the next arm.
* ReleaseHardware does not disable outbound iATU region 0 (`device.c:365-400`): the
  chip's window leads to freed memory until the next arm or power loss.
* A failed or refused arm leaves the probe records and the stage of an earlier one,
  also of an earlier buffer (`sysmem.c:387-393`).
* Two runs of `sysmemtest` at once use the same sixteen bytes and can fail each other.
* ttwind-info says that the chip "ignored the reset trigger" if the last poll found
  the marker, whatever the others found (`ttwind-info.c:697-706`).

The conditions in some properties are there because the code needs them:

* `raced` in `QuietCleanupComplete`: an ALLOCATE_TLB in flight over a cleanup keeps
  its window until a reset or a release (`tlb.c:255`).
* The exception in `ReleasedDeviceUnmapped`: a file cleanup may still hold mapped
  views when ReleaseHardware is done (`mapping.c:557` splices the list only).
* `Orderly`, its half about link losses (`flaps`): a device that drops off the bus
  after the presence check answers a full read of all-1s, which becomes the saved
  image (`reset.c:302`, `reset.c:509`); a loss that swallows the write of the marker
  and ends before the arm leaves a timer unmarked (`reset.c:324`). The half about
  `outrun` is there because of the race under `NothingTouchesMmio` above.
* `PoweredDown` in `AdvertisedWindowReaches`: from the moment the device leaves D0
  until the power callbacks arm it again or the hardware is released, an advertised
  window may be gone, as under `SuspendedIsDark` above. The queue
  may dispatch QUERY_SYSMEM in the last part of that time, between D0 entry and the
  arm. The limit is only bounded from below: see
  `WindowEndsWithBuffer`.
* `AlignedDown` in `ViewsInsideBuffer`: see `ViewsBeginInBuffer`.
* No rebalance in `Recoverable`: BARs that PnP moves while restricted are restored
  to where they were, and the gate fails for ever.
* `RingSound` in `RequestsInOrder` and `RequestRingBounded`: see `RingNeverOverrun`.
* `BeingClosed` in `UserViewsOffTheBus`: the same cleanup that
  `mapping_reset_live_view` is about.
* `views \ cleaning` in `ViewsInsideBuffer`: a file cleanup may still hold a view of
  a buffer that ReleaseHardware frees (`mapping.c:530`, `device.c:397`).
* `RouteAnswered` does not say that the route stays: a firmware that boots between
  the reads of two routes makes the cache change its mind (`arc.c:407`).

## Assumptions about the environment

* A request is dispatched only while its handle is open; the address of a file
  object is not used again while a request refers to it.
* ReleaseHardware starts with no request in flight: the queue is power managed. It
  is stopped after SelfManagedIoSuspend and runs again from D0 on.
* A register write to the iATU is lost or lands whole; nobody but the driver
  programs region 0.
* Config space the driver did not write, the marker included, survives a rebalance
  and a Dx transition; the bus driver moves the BARs of a device that answers.

## Not modelled, and why

* The process of a mapping: `TtWindDestroyMapping` removes the view whether the
  driver or the memory manager does it, and its test for a process that is exiting
  is Windows' own business. Views have distinct addresses, as in one process.
* The paths for a BAR that is missing or too small (`KernelTlb`, `TlbRegs` NULL),
  which only refuse requests.
* The values of the resource list and of the identity, and the test whether a BAR
  is large enough: each is a choice between the outcomes.
* The record of a sysmem view and the race of its insertion with a file cleanup are
  in `TtWindMapping`, not in `Sysmem`.
* Link losses of another origin in `TtWindDevice` (`MaxFlaps <- 0`).
* In `TlbRegisters`, the zeroed strided registers and reserved fields.
* GET_DEVICE_INFO, DriverEntry, the INF, the structure layouts, and the argument
  parsing and output of ttwind-info: no state evolves.

## Plan

Left to prove: that `ArcMailbox` implements a mailbox of whole calls (an abstract
specification without rings). Left to model: link losses in `TtWindDevice`, and the
process exit that `TtWindDestroyMapping` tests for.
