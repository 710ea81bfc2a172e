----------------------------- MODULE ArcMailbox -----------------------------
(***************************************************************************)
(* TtWindArcMsgSendSync (arc.c): the synchronous exchange with the ARC     *)
(* firmware over two rings in its SRAM, serialised by ArcLock.             *)
(*                                                                         *)
(* The callers are the ioctl queue (SMC_MSG, the power-up of POST_RESET)   *)
(* and the PnP thread (SelfManagedIo power callbacks).  A step is one      *)
(* group of register accesses the firmware can run between.  The firmware  *)
(* is external: it takes requests when the doorbell rang, takes its time,  *)
(* and answers if the response ring has room.  A message is its number.    *)
(***************************************************************************)
EXTENDS Naturals, Sequences, SequencesExt

CONSTANTS
    Callers,        \* threads that send messages
    QueueThread,    \* the one that is the ioctl queue
    NoCaller,       \* ArcLock is free
    NumEntries,     \* ring size, read from the queue control block
    WordModulus,    \* UINT32 arithmetic wraps here (2^32 in the code)
    NumRoutes,      \* routes to the APB block, numbered in probe order
    MaxRounds,      \* bound: probe rounds that fit before the 500 ms deadline
    MaxMsgs         \* bound: messages sent in one behaviour

ASSUME CallersAssumption == QueueThread \in Callers /\ NoCaller \notin Callers
ASSUME RingAssumption == /\ NumEntries \in Nat \ {0}
                         /\ WordModulus \in Nat /\ WordModulus > 2 * NumEntries
ASSUME RoutesAssumption == NumRoutes \in Nat \ {0}
ASSUME BoundsAssumption == MaxRounds \in Nat \ {0} /\ MaxMsgs \in Nat

Msgs == 1 .. MaxMsgs
NoMsg == 0                  \* an empty slot, an idle firmware, an ARC_STATUS call
AllOnes == MaxMsgs + 1      \* what a read of a missing device returns
NoRoute == 0                \* TTWIND_ARC_ROUTE_NONE
Routes == 1 .. NumRoutes
Slots == 0 .. NumEntries - 1
Pointers == 0 .. 2 * NumEntries - 1

VARIABLES
    arcLock,        \* who holds ArcLock
    needsHwInit,    \* ctx->NeedsHwInit
    arcRoute,       \* ctx->ArcRoute
    mapped,         \* routes the kernel mappings of the BARs provide, {} if none
    pc,             \* where each caller is in its exchange
    msg,            \* the message it sends, NoMsg for ARC_STATUS
    probe, round,   \* loop counters of the route probe
    drained,        \* loop counter of the drain
    answer,         \* the response the last exchange returned, NoMsg if none
    reqWptr, reqRptr, resWptr, resRptr,     \* the queue header
    reqSlots, resSlots,                     \* the two rings
    doorbell,       \* the firmware's queue processor has been triggered
    working,        \* the request the firmware is busy with
    decodes,        \* routes that reach the APB block on this board
    booted,         \* the boot status has the ready bit
    gone,           \* every read returns all-1s
    sent,           \* number of messages so far
    pushed, taken,  \* history: requests published, requests taken
    timedOut        \* history: messages whose exchange timed out since the chip reset

ctxVars == <<needsHwInit, arcRoute, mapped>>
locals == <<msg, probe, round, drained, answer>>
reqRing == <<reqWptr, reqRptr, reqSlots>>
resRing == <<resWptr, resRptr, resSlots>>
fwVars == <<doorbell, working, decodes, booted, gone>>
history == <<sent, pushed, taken, timedOut>>
vars == <<arcLock, needsHwInit, arcRoute, mapped, pc, msg, probe, round, drained, answer,
          reqWptr, reqRptr, resWptr, resRptr, reqSlots, resSlots, doorbell,
          working, decodes, booted, gone, sent, pushed, taken, timedOut>>

TypeOK ==
    /\ arcLock \in Callers \cup {NoCaller}
    /\ needsHwInit \in BOOLEAN
    /\ arcRoute \in Routes \cup {NoRoute} /\ mapped \subseteq Routes
    /\ pc \in [Callers -> {"idle", "want", "probe", "qcb", "drain", "push",
                           "publish", "ring", "poll", "read", "ack"}]
    /\ msg \in [Callers -> Msgs \cup {NoMsg}]
    /\ probe \in [Callers -> Routes] /\ round \in [Callers -> 1 .. MaxRounds]
    /\ drained \in [Callers -> 0 .. NumEntries]
    /\ answer \in [Callers -> Msgs \cup {NoMsg, AllOnes}]
    /\ {reqWptr, reqRptr, resWptr, resRptr} \subseteq Pointers
    /\ reqSlots \in [Slots -> Msgs \cup {NoMsg}]
    /\ resSlots \in [Slots -> Msgs \cup {NoMsg}]
    /\ doorbell \in BOOLEAN /\ working \in Msgs \cup {NoMsg}
    /\ decodes \subseteq Routes /\ booted \in BOOLEAN /\ gone \in BOOLEAN
    /\ sent \in 0 .. MaxMsgs
    /\ pushed \in Seq(Msgs) /\ taken \in Seq(Msgs)
    /\ timedOut \subseteq Msgs

-----------------------------------------------------------------------------
\* The ring arithmetic of TtWindArcTryPush and TtWindArcTryPop: the UINT32
\* difference wraps before it is reduced modulo 2n.
Occupancy(wptr, rptr) == ((WordModulus + wptr - rptr) % WordModulus) % (2 * NumEntries)

SlotMutant(ptr) == (ptr + 1) % NumEntries
Slot(ptr) == ptr % NumEntries

AdvanceMutant(ptr) == (ptr + 1) % NumEntries
Advance(ptr) == (ptr + 1) % (2 * NumEntries)

RingFullMutant == Occupancy(reqWptr, reqRptr) > NumEntries
RingFull == Occupancy(reqWptr, reqRptr) >= NumEntries

\* What the pointers mean (arc.c:24-25), and what the firmware computes.
TrueOccupancy(wptr, rptr) == (2 * NumEntries + wptr - rptr) % (2 * NumEntries)

ResponseReady == Occupancy(resWptr, resRptr) # 0

Goto(c, label) == pc' = [pc EXCEPT ![c] = label]

\* The out: label.
Finish(c) == Goto(c, "idle") /\ arcLock' = NoCaller

Holds(c, label) == pc[c] = label

\* The locals of a new call; requests and power callbacks need a started device.
Begin(c, m) ==
    /\ mapped # {}
    /\ Goto(c, "want")
    /\ msg' = [msg EXCEPT ![c] = m]
    /\ probe' = [probe EXCEPT ![c] = 1] /\ round' = [round EXCEPT ![c] = 1]
    /\ drained' = [drained EXCEPT ![c] = 0]
    /\ answer' = [answer EXCEPT ![c] = NoMsg]

\* What PrepareHardware maps: the kernel window, which serves the routes over
\* the NOC, and if it can the AXI aperture of the last route.
StartedRoutes == {Routes, Routes \ {NumRoutes}} \ {{}}

-----------------------------------------------------------------------------
Init ==
    /\ arcLock = NoCaller /\ needsHwInit = FALSE /\ arcRoute = NoRoute
    /\ mapped \in StartedRoutes
    /\ pc = [c \in Callers |-> "idle"]
    /\ msg = [c \in Callers |-> NoMsg]
    /\ probe = [c \in Callers |-> 1] /\ round = [c \in Callers |-> 1]
    /\ drained = [c \in Callers |-> 0]
    /\ answer = [c \in Callers |-> NoMsg]
    /\ reqWptr = 0 /\ reqRptr = 0 /\ resWptr = 0 /\ resRptr = 0
    /\ reqSlots = [s \in Slots |-> NoMsg]
    /\ resSlots = [s \in Slots |-> NoMsg]
    /\ doorbell = FALSE /\ working = NoMsg
    /\ decodes \in SUBSET Routes /\ booted = FALSE /\ gone = FALSE
    /\ sent = 0 /\ pushed = <<>> /\ taken = <<>> /\ timedOut = {}

-----------------------------------------------------------------------------
(* The exchange.                                                           *)

\* A thread of Callers sends a message.
Call(c) ==
    /\ Holds(c, "idle") /\ sent < MaxMsgs
    /\ Begin(c, sent + 1)
    /\ sent' = sent + 1
    /\ UNCHANGED <<arcLock, ctxVars, reqRing, resRing, fwVars,
                   pushed, taken, timedOut>>

\* ARC_STATUS: the same discovery under the same lock, and no message.
ArcStatus ==
    /\ Holds(QueueThread, "idle") /\ sent < MaxMsgs
    /\ Begin(QueueThread, NoMsg)
    /\ UNCHANGED <<arcLock, ctxVars, reqRing, resRing, fwVars,
                   history>>

\* NeedsHwInit and the kernel mappings are tested once the lock is held.
RefusedMutant == mapped = {}
Refused == needsHwInit \/ mapped = {}

LockFreeMutant == TRUE
LockFree == arcLock = NoCaller

Acquire(c) ==
    /\ Holds(c, "want") /\ LockFree
    /\ \/ Refused /\ Finish(c)
       \/ ~Refused /\ Goto(c, "probe") /\ arcLock' = c
    /\ UNCHANGED <<ctxVars, locals, reqRing, resRing, fwVars, history>>

\* TtWindArcLocateQueue reads the boot status through one route after the
\* other, cached or not, and takes the first that has the ready bit.
Alive == IF gone THEN {} ELSE decodes \cap mapped
Ready == IF booted THEN Alive ELSE {}

AnswersMutant(r) == IF arcRoute # NoRoute THEN r = arcRoute ELSE r \in Ready
Answers(r) == r \in Ready

ProbeRoute(c) ==
    /\ Holds(c, "probe") /\ Answers(probe[c])
    /\ arcRoute' = probe[c] /\ Goto(c, "qcb")
    /\ UNCHANGED <<arcLock, needsHwInit, mapped, locals, reqRing, resRing, fwVars, history>>

BeforeDeadlineMutant(c) == round[c] <= MaxRounds
BeforeDeadline(c) == round[c] < MaxRounds

\* The next route, the next round, or the end: all-1s or 500 ms are over.
ProbeFails(c) ==
    /\ Holds(c, "probe") /\ ~Answers(probe[c])
    /\ \/ /\ probe[c] < NumRoutes
          /\ probe' = [probe EXCEPT ![c] = @ + 1]
          /\ UNCHANGED <<arcLock, pc, round>>
       \/ /\ probe[c] = NumRoutes /\ Alive # {} /\ BeforeDeadline(c)
          /\ probe' = [probe EXCEPT ![c] = 1]
          /\ round' = [round EXCEPT ![c] = @ + 1]
          /\ UNCHANGED <<arcLock, pc>>
       \/ probe[c] = NumRoutes /\ Finish(c) /\ UNCHANGED <<probe, round>>
    /\ UNCHANGED <<ctxVars, msg, drained, answer, reqRing, resRing,
                   fwVars, history>>

\* The control block and its checks: a bad pointer ends the call, and
\* ARC_STATUS ends here anyway.
ReadControlBlock(c) ==
    /\ Holds(c, "qcb")
    /\ \/ ~gone /\ msg[c] # NoMsg /\ Goto(c, "drain") /\ UNCHANGED arcLock
       \/ Finish(c)
    /\ UNCHANGED <<ctxVars, locals, reqRing, resRing, fwVars, history>>

\* One stale response popped, or the end of the drain loop.
Drain(c) ==
    /\ Holds(c, "drain")
    /\ IF ~gone /\ ResponseReady /\ drained[c] < NumEntries
         THEN /\ resRptr' = Advance(resRptr)
              /\ drained' = [drained EXCEPT ![c] = @ + 1]
              /\ UNCHANGED pc
         ELSE Goto(c, "push") /\ UNCHANGED <<resRptr, drained>>
    /\ UNCHANGED <<arcLock, ctxVars, msg, probe, round, answer,
                   reqRing, resWptr, resSlots, fwVars, history>>

\* TtWindArcTryPush up to the eight slot words.
Push(c) ==
    /\ Holds(c, "push")
    /\ IF gone \/ RingFull
         THEN Finish(c) /\ UNCHANGED reqSlots
         ELSE /\ reqSlots' = [reqSlots EXCEPT ![Slot(reqWptr)] = msg[c]]
              /\ Goto(c, "publish") /\ UNCHANGED arcLock
    /\ UNCHANGED <<ctxVars, locals, reqWptr, reqRptr, resRing, fwVars,
                   history>>

\* Its last write makes the slot the firmware's; a write to a missing
\* device is lost.
Publish(c) ==
    /\ Holds(c, "publish")
    /\ IF gone THEN UNCHANGED <<reqWptr, pushed>>
       ELSE reqWptr' = Advance(reqWptr) /\ pushed' = Append(pushed, msg[c])
    /\ Goto(c, "ring")
    /\ UNCHANGED <<arcLock, ctxVars, locals, reqRptr, reqSlots, resRing,
                   fwVars, sent, taken, timedOut>>

RingDoorbell(c) ==
    /\ Holds(c, "ring")
    /\ doorbell' = (doorbell \/ arcRoute \in Ready)
    /\ Goto(c, "poll")
    /\ UNCHANGED <<arcLock, ctxVars, locals, reqRing, resRing, working,
                   decodes, booted, gone, history>>

\* TtWindArcTryPop in three accesses: the pointers, the slot, the pointer.
PollPointers(c) ==
    /\ Holds(c, "poll")
    /\ \/ gone /\ Finish(c)
       \/ ~gone /\ ResponseReady /\ Goto(c, "read") /\ UNCHANGED arcLock
    /\ UNCHANGED <<ctxVars, locals, reqRing, resRing, fwVars, history>>

PollRead(c) ==
    /\ Holds(c, "read")
    /\ answer' = [answer EXCEPT ![c] = IF gone THEN AllOnes
                                       ELSE resSlots[Slot(resRptr)]]
    /\ Goto(c, "ack")
    /\ UNCHANGED <<arcLock, ctxVars, msg, probe, round, drained, reqRing,
                   resRing, fwVars, history>>

PollAck(c) ==
    /\ Holds(c, "ack")
    /\ resRptr' = IF gone THEN resRptr ELSE Advance(resRptr)
    /\ Finish(c)
    /\ UNCHANGED <<ctxVars, locals, reqRing, resWptr, resSlots, fwVars,
                   history>>

\* The poll that finds nothing once 1000 ms have passed is the last.
GivesUpMutant == FALSE
GivesUp == ~gone /\ ~ResponseReady

PollTimeout(c) ==
    /\ Holds(c, "poll") /\ GivesUp
    /\ timedOut' = timedOut \cup {msg[c]}
    /\ Finish(c)
    /\ UNCHANGED <<ctxVars, locals, reqRing, resRing, fwVars, sent,
                   pushed, taken>>

-----------------------------------------------------------------------------
(* PnP: the resources are taken away and given back.                       *)

\* The framework has stopped the queue and runs no power callback on this
\* thread, and the handler takes ArcLock for the pointers and the route.
ReleaseSafeMutant == TRUE
ReleaseSafe == LockFree /\ \A c \in Callers : Holds(c, "idle")

ReleaseHardware ==
    /\ mapped # {} /\ ReleaseSafe
    /\ mapped' = {} /\ arcRoute' = NoRoute
    /\ UNCHANGED <<arcLock, needsHwInit, pc, locals, reqRing, resRing, fwVars, history>>

PrepareHardware ==
    /\ mapped = {} /\ mapped' \in StartedRoutes
    /\ UNCHANGED <<arcLock, needsHwInit, arcRoute, pc, locals, reqRing, resRing, fwVars,
                   history>>

-----------------------------------------------------------------------------
(* The firmware and the chip.                                              *)

FwTake ==
    /\ ~gone /\ doorbell /\ working = NoMsg /\ reqWptr # reqRptr
    /\ working' = reqSlots[reqRptr % NumEntries]
    /\ taken' = Append(taken, working')
    /\ reqRptr' = (reqRptr + 1) % (2 * NumEntries)
    /\ UNCHANGED <<arcLock, ctxVars, pc, locals, reqWptr, reqSlots,
                   resRing, doorbell, decodes, booted, gone, sent, pushed, timedOut>>

FwAnswer ==
    /\ ~gone /\ working # NoMsg
    /\ TrueOccupancy(resWptr, resRptr) < NumEntries
    /\ resSlots' = [resSlots EXCEPT ![resWptr % NumEntries] = working]
    /\ resWptr' = (resWptr + 1) % (2 * NumEntries)
    /\ working' = NoMsg
    /\ UNCHANGED <<arcLock, ctxVars, pc, locals, reqRing, resRptr,
                   doorbell, decodes, booted, gone, history>>

\* It has looked at the ring and waits for the next doorbell.
FwSleep ==
    /\ doorbell /\ working = NoMsg /\ reqWptr = reqRptr
    /\ doorbell' = FALSE
    /\ UNCHANGED <<arcLock, ctxVars, pc, locals, reqRing, resRing,
                   working, decodes, booted, gone, history>>

FwBoot ==
    /\ ~gone /\ ~booted /\ booted' = TRUE
    /\ UNCHANGED <<arcLock, ctxVars, pc, locals, reqRing, resRing,
                   doorbell, working, decodes, gone, history>>

Vanish ==
    /\ ~gone /\ gone' = TRUE
    /\ UNCHANGED <<arcLock, ctxVars, pc, locals, reqRing, resRing,
                   doorbell, working, decodes, booted, history>>

\* RESET_DEVICE takes ArcLock on the queue thread and restricts.
RestrictDevice ==
    /\ ~needsHwInit /\ mapped # {} /\ LockFree /\ Holds(QueueThread, "idle")
    /\ needsHwInit' = TRUE
    /\ UNCHANGED <<arcLock, arcRoute, mapped, pc, locals, reqRing, resRing, fwVars, history>>

\* The armed timer fires: the SRAM and the firmware start over.
ChipReset ==
    /\ needsHwInit
    /\ reqWptr' = 0 /\ reqRptr' = 0 /\ resWptr' = 0 /\ resRptr' = 0
    /\ reqSlots' = [s \in Slots |-> NoMsg]
    /\ resSlots' = [s \in Slots |-> NoMsg]
    /\ doorbell' = FALSE /\ working' = NoMsg /\ booted' = FALSE /\ gone' = FALSE
    /\ pushed' = <<>> /\ taken' = <<>> /\ timedOut' = {}
    /\ UNCHANGED <<arcLock, ctxVars, pc, locals, decodes, sent>>

\* POST_RESET, on the queue thread, finds the device back.
Unrestrict ==
    /\ needsHwInit /\ mapped # {} /\ ~gone /\ LockFree /\ Holds(QueueThread, "idle")
    /\ needsHwInit' = FALSE
    /\ UNCHANGED <<arcLock, arcRoute, mapped, pc, locals, reqRing, resRing, fwVars, history>>

-----------------------------------------------------------------------------
Exchange(c) ==
    \/ ProbeRoute(c) \/ ProbeFails(c) \/ ReadControlBlock(c)
    \/ Drain(c) \/ Push(c) \/ Publish(c) \/ RingDoorbell(c)
    \/ PollPointers(c) \/ PollRead(c) \/ PollAck(c) \/ PollTimeout(c)

Firmware == FwTake \/ FwAnswer \/ FwSleep \/ FwBoot

Next ==
    \/ \E c \in Callers : Call(c) \/ Acquire(c) \/ Exchange(c)
    \/ ArcStatus
    \/ Firmware
    \/ ReleaseHardware \/ PrepareHardware
    \/ Vanish \/ RestrictDevice \/ ChipReset \/ Unrestrict

Spec == Init /\ [][Next]_vars

\* A thread inside the exchange goes on running, the clock included, and a
\* wait lock that is free again and again is obtained.  Nothing is assumed
\* of the firmware.
Fairness == \A c \in Callers : WF_vars(Exchange(c)) /\ SF_vars(Acquire(c))

FairSpec == Spec /\ Fairness

-----------------------------------------------------------------------------
(* Safety.                                                                 *)

InExchange(c) == pc[c] \notin {"idle", "want"}

\* The kernel TLB window and the rings have one user: the holder of ArcLock
\* (arc.c:78-79).
OneExchange == \A c \in Callers : InExchange(c) => arcLock = c

\* A restricted device is not touched: whoever gets past the lock after
\* RESET_DEVICE restricted it leaves without a register access (arc.c:644-661).
NoAccessWhileRestricted == needsHwInit => \A c \in Callers : ~InExchange(c)

\* No exchange uses a kernel mapping that ReleaseHardware has taken away
\* (device.c:368-391).
NoUnmappedAccess == \A c \in Callers : InExchange(c) => mapped # {}

\* The rings are never driven through a route that has not answered since the
\* chip last booted, whatever the cache says (arc.c:70-73).
RouteAnswered ==
    \A c \in Callers : InExchange(c) /\ pc[c] # "probe" /\ ~gone
                           => arcRoute \in Ready

\* The driver's occupancy is the true one (arc.c:24) whenever 2n divides 2^32,
\* and for any other ring until the write pointer comes round to 0.
RingDivides == \E k \in 1 .. WordModulus : WordModulus = (2 * NumEntries) * k
RingSound == RingDivides \/ Len(pushed) < 2 * NumEntries

\* As long as the ring is sound, the firmware gets each published request once
\* and in order, and never a slot that still holds something else.
RequestsInOrder ==
    RingSound => taken = SubSeq(pushed, 1, Len(taken)) /\ NoMsg \notin ToSet(taken)

\* As long as the ring is sound, no request overwrites one the firmware has not
\* taken, and the request pointers say exactly how many wait.
RequestRingBounded ==
    RingSound => /\ Len(pushed) - Len(taken) <= NumEntries
                 /\ Len(pushed) - Len(taken) = TrueOccupancy(reqWptr, reqRptr)

\* Until an exchange times out, every answer handed to a caller is the answer
\* to its own request.
AnswerOwnUntilTimeout ==
    \A c \in Callers : pc[c] = "ack" /\ timedOut = {}
                           => answer[c] = msg[c] \/ (gone /\ answer[c] = AllOnes)

\* After a timeout an answer may be late, but it is never invented and never
\* an answer from before the chip reset: the firmware took that very request.
AnswerWasAsked ==
    \A c \in Callers : pc[c] = "ack" /\ ~gone => answer[c] \in ToSet(taken)

-----------------------------------------------------------------------------
(* Liveness.                                                               *)

\* Every call returns, even if the firmware never answers: "the mailbox path can
\* never ... wait unboundedly" (arc.c:80-81).
EveryCallReturns == \A c \in Callers : pc[c] = "want" ~> pc[c] = "idle"

-----------------------------------------------------------------------------
(* What the comments say.                                                  *)

\* arc.c:626-628: on timeout "nothing is left in-flight that a later call
\* cannot drain", so a caller never gets another exchange's answer.
AnswerIsOwn ==
    \A c \in Callers : pc[c] = "ack" /\ ~gone => answer[c] = msg[c]

\* arc.c:23-24: "Pointers run 0..2*num_entries-1 so occupancy is (wptr - rptr)
\* mod 2n", so TtWindArcTryPush finds a full ring full (arc.c:534-536), with
\* every number of entries arc.c:473-483 lets through.
RingNeverOverrun == Len(pushed) - Len(taken) <= NumEntries

=============================================================================
