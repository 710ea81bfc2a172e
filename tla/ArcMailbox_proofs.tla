-------------------------- MODULE ArcMailbox_proofs --------------------------
(***************************************************************************)
(* Proofs about ArcMailbox for any number of callers, routes, probe rounds *)
(* and messages, and any size of the rings.                                *)
(***************************************************************************)
EXTENDS ArcMailbox, Integers, SequenceTheorems, TLAPS

\* ArcLock is held exactly during an exchange.
LockState == \A c \in Callers : arcLock = c <=> InExchange(c)

\* Only a call with a message gets past the control block.
MessageState ==
    \A c \in Callers :
        pc[c] \in {"drain", "push", "publish", "ring", "poll", "read", "ack"}
            => msg[c] \in Msgs

\* The pointers have been round the request ring once, or the empty slots are
\* the ones from the write pointer on.
RequestSlots ==
    /\ \A s \in Slots : reqSlots[s] = NoMsg => reqRptr <= reqWptr /\ reqWptr <= s
    /\ \A c \in Callers : pc[c] = "publish" => reqSlots[Slot(reqWptr)] = msg[c]

\* The same of the response ring, whose filled slots hold answers to requests
\* that were taken; a caller reads from a ring that is not empty.
ResponseSlots ==
    /\ \A s \in Slots : resSlots[s] = NoMsg => resRptr <= resWptr /\ resWptr <= s
    /\ \A s \in Slots : resSlots[s] \in ToSet(taken) \cup {NoMsg}
    /\ working \in ToSet(taken) \cup {NoMsg}
    /\ \A c \in Callers : pc[c] \in {"read", "ack"} => resWptr # resRptr

\* Where the one request of an exchange is.
ResponsesEmpty == resWptr = resRptr
RequestsEmpty == reqWptr = reqRptr

Waiting(m) ==
    /\ reqWptr = Advance(reqRptr) /\ reqSlots[Slot(reqRptr)] = m
    /\ working = NoMsg /\ ResponsesEmpty
Worked(m) == RequestsEmpty /\ working = m /\ ResponsesEmpty
Answered(m) ==
    /\ RequestsEmpty /\ working = NoMsg
    /\ resWptr = Advance(resRptr) /\ resSlots[Slot(resRptr)] = m

Published(c) == pc[c] \in {"ring", "poll", "read", "ack"}

\* Before the first timeout nothing is in the rings but the request of the
\* caller that published one.
OneOutstanding ==
    timedOut = {} /\ ~gone =>
        /\ (\A c \in Callers : ~Published(c)) =>
              RequestsEmpty /\ working = NoMsg /\ ResponsesEmpty
        /\ \A c \in Callers : Published(c) =>
              \/ pc[c] \in {"ring", "poll"} /\ (Waiting(msg[c]) \/ Worked(msg[c]))
              \/ Answered(msg[c])

IInv == /\ TypeOK
        /\ LockState
        /\ NoAccessWhileRestricted
        /\ NoUnmappedAccess
        /\ RouteAnswered
        /\ MessageState
        /\ RequestSlots
        /\ ResponseSlots
        /\ AnswerWasAsked
        /\ OneOutstanding
        /\ AnswerOwnUntilTimeout

\* The pointers count the requests published and taken, and the slots between
\* them hold the ones that wait.
RingCounts ==
    /\ reqWptr = Len(pushed) % (2 * NumEntries)
    /\ reqRptr = Len(taken) % (2 * NumEntries)
    /\ Len(taken) <= Len(pushed) /\ Len(pushed) <= Len(taken) + NumEntries
    /\ \A c \in Callers : pc[c] = "publish" => Len(pushed) < Len(taken) + NumEntries
    /\ \A i \in 1 .. Len(taken) : taken[i] = pushed[i]
    /\ \A i \in Len(taken) + 1 .. Len(pushed) :
          reqSlots[(i - 1) % NumEntries] = pushed[i]

\* They do as long as the occupancy is the true one.
RingState == RingSound => RingCounts

-----------------------------------------------------------------------------
(* The arithmetic of the rings.                                            *)

\* A pointer names a slot, and advances to another pointer.
LEMMA PointerFacts ==
    ASSUME NEW p \in Pointers
    PROVE  /\ Slot(p) \in Slots /\ Slot(p) <= p
           /\ p < NumEntries => Slot(p) = p
           /\ Advance(p) \in Pointers /\ Advance(p) # p
           /\ p + 1 < 2 * NumEntries => Advance(p) = p + 1
<1>1. p \in Nat /\ p < 2 * NumEntries /\ NumEntries \in Nat \ {0}
  BY RingAssumption DEF Pointers
<1>2. p < NumEntries => Slot(p) = p
  BY <1>1 DEF Slot
<1>3. Slot(p) \in Slots
  BY <1>1 DEF Slot, Slots
<1>4. Slot(p) <= p
  BY <1>1, <1>2, <1>3 DEF Slots
<1>5. p + 1 < 2 * NumEntries => Advance(p) = p + 1
  BY <1>1 DEF Advance
<1>6. p + 1 = 2 * NumEntries => Advance(p) = 0
  BY <1>1 DEF Advance
<1>. QED BY <1>1, <1>2, <1>3, <1>4, <1>5, <1>6 DEF Pointers

\* A ring that is not full does not come round to its reader.
LEMMA NotFull ==
    ASSUME NEW w \in Pointers, NEW r \in Pointers, TrueOccupancy(w, r) < NumEntries
    PROVE  Advance(w) # r
<1>1. /\ w \in Nat /\ w < 2 * NumEntries /\ NumEntries \in Nat \ {0}
      /\ r \in Nat /\ r < 2 * NumEntries
  BY RingAssumption DEF Pointers
<1>2. SUFFICES ASSUME Advance(w) = r PROVE FALSE
  OBVIOUS
<1>3. 2 * NumEntries + w - r = 2 * NumEntries - 1 \/ 2 * NumEntries + w - r = 4 * NumEntries - 1
  <2>1. w + 1 = r \/ (w + 1 = 2 * NumEntries /\ r = 0)
    <3>1. w + 1 < 2 * NumEntries => Advance(w) = w + 1
      BY PointerFacts
    <3>2. w + 1 = 2 * NumEntries => Advance(w) = 0
      BY <1>1 DEF Advance
    <3>. QED BY <1>1, <1>2, <3>1, <3>2
  <2>. QED BY <1>1, <2>1
<1>4. TrueOccupancy(w, r) = 2 * NumEntries - 1
  BY <1>1, <1>3 DEF TrueOccupancy
<1>. QED BY <1>1, <1>4

\* The driver finds nothing in an empty ring.
LEMMA ReadyDiffers ==
    ASSUME NEW w \in Pointers, NEW r \in Pointers, Occupancy(w, r) # 0
    PROVE  w # r
<1>1. /\ w \in Nat /\ NumEntries \in Nat \ {0}
      /\ WordModulus \in Nat \ {0}
  BY RingAssumption DEF Pointers
<1>2. SUFFICES ASSUME w = r PROVE FALSE
  OBVIOUS
<1>3. WordModulus + w - r = WordModulus
  BY <1>1, <1>2
<1>4. WordModulus % WordModulus = 0 /\ 0 % (2 * NumEntries) = 0
  BY <1>1
<1>. QED BY <1>3, <1>4 DEF Occupancy

-----------------------------------------------------------------------------
\* One more message on record.
LEMMA ToSetAppend ==
    ASSUME NEW s \in Seq(Msgs), NEW m \in Msgs
    PROVE  /\ Append(s, m) \in Seq(Msgs) /\ m \in ToSet(Append(s, m))
           /\ ToSet(s) \subseteq ToSet(Append(s, m))
<1>1. /\ Append(s, m) \in Seq(Msgs) /\ Len(Append(s, m)) = Len(s) + 1
      /\ Append(s, m)[Len(s) + 1] = m
      /\ \A i \in 1 .. Len(s) : Append(s, m)[i] = s[i]
  OBVIOUS
<1>2. /\ DOMAIN s = 1 .. Len(s) /\ Len(s) \in Nat
      /\ DOMAIN Append(s, m) = 1 .. Len(s) + 1
  BY <1>1
<1>. QED BY <1>1, <1>2 DEF ToSet

\* A call starts its counters where they may start.
LEMMA StartFacts ==
    /\ 1 \in Routes /\ 1 \in 1 .. MaxRounds /\ 0 \in 0 .. NumEntries
    /\ 0 \in Pointers /\ 0 \in 0 .. MaxMsgs
BY RoutesAssumption, BoundsAssumption, RingAssumption DEF Routes, Pointers

\* What the firmware takes is a message.
LEMMA TakeFacts ==
    ASSUME IInv, FwTake
    PROVE  /\ reqRptr # reqWptr /\ working = NoMsg
           /\ reqRptr' = Advance(reqRptr) /\ working' = reqSlots[Slot(reqRptr)]
           /\ working' \in Msgs /\ taken' = Append(taken, working')
<1>1. /\ reqRptr # reqWptr /\ working = NoMsg /\ taken' = Append(taken, working')
      /\ reqRptr' = Advance(reqRptr) /\ working' = reqSlots[Slot(reqRptr)]
  BY DEF FwTake, Advance, Slot
<1>2. /\ reqRptr \in Pointers /\ reqWptr \in Pointers
      /\ reqSlots \in [Slots -> Msgs \cup {NoMsg}]
  BY DEF IInv, TypeOK
<1>3. Slot(reqRptr) \in Slots /\ Slot(reqRptr) <= reqRptr /\ Slot(reqRptr) \in Nat
  BY <1>2, PointerFacts DEF Slots
<1>4. reqSlots[Slot(reqRptr)] # NoMsg
  BY <1>1, <1>2, <1>3, RingAssumption DEF IInv, RequestSlots, Pointers
<1>. QED BY <1>1, <1>2, <1>3, <1>4

\* What the firmware answers is a message, and the ring stays apart from empty.
LEMMA AnswerFacts ==
    ASSUME IInv, FwAnswer
    PROVE  /\ working \in Msgs /\ working' = NoMsg
           /\ resWptr' = Advance(resWptr) /\ resWptr' # resRptr
           /\ resSlots' = [resSlots EXCEPT ![Slot(resWptr)] = working]
<1>1. resRptr \in Pointers /\ resWptr \in Pointers
  BY DEF IInv, TypeOK
<1>2. /\ resWptr' = Advance(resWptr) /\ working' = NoMsg
      /\ resSlots' = [resSlots EXCEPT ![Slot(resWptr)] = working]
      /\ working \in Msgs
      /\ TrueOccupancy(resWptr, resRptr) < NumEntries
  BY DEF IInv, TypeOK, FwAnswer, Advance, Slot
<1>. QED BY <1>1, <1>2, NotFull

\* A caller that finds a response finds a ring that is not empty.
LEMMA ReadyFacts == ASSUME TypeOK, ResponseReady PROVE resWptr # resRptr
BY ReadyDiffers DEF TypeOK, ResponseReady

\* Every step keeps the types.
LEMMA TypeStep == ASSUME IInv, [Next]_vars PROVE TypeOK'
<1> USE DEF IInv, TypeOK, Goto
<1>1. ASSUME NEW c \in Callers, Call(c) PROVE TypeOK'
  <2>1. sent + 1 \in Msgs /\ sent + 1 \in 0 .. MaxMsgs
    BY <1>1, BoundsAssumption DEF Call, Msgs
  <2>. QED BY <1>1, <2>1, StartFacts DEF Call, Begin, ctxVars, reqRing, resRing, fwVars
<1>2. CASE ArcStatus
  <2>. QED BY <1>2, StartFacts, CallersAssumption DEF ArcStatus, Begin, ctxVars,
     reqRing, resRing, fwVars,
     history
<1>3. ASSUME NEW c \in Callers, Acquire(c) PROVE TypeOK'
  BY <1>3 DEF Acquire, Holds, Refused, LockFree, Finish, ctxVars, locals, reqRing,
     resRing, fwVars, history
<1>4. ASSUME NEW c \in Callers, ProbeRoute(c) PROVE TypeOK'
  BY <1>4 DEF ProbeRoute, Holds, ctxVars, locals, reqRing, resRing, fwVars, history
<1>5. ASSUME NEW c \in Callers, ProbeFails(c) PROVE TypeOK'
  <2>1. probe' \in [Callers -> Routes]
    <3>1. probe[c] < NumRoutes => probe[c] + 1 \in Routes
      BY RoutesAssumption DEF Routes
    <3>. QED BY <1>5, <3>1, StartFacts DEF ProbeFails
  <2>2. round' \in [Callers -> 1 .. MaxRounds]
    <3>1. BeforeDeadline(c) => round[c] + 1 \in 1 .. MaxRounds
      BY BoundsAssumption DEF BeforeDeadline
    <3>. QED BY <1>5, <3>1 DEF ProbeFails
  <2>3. (pc' = pc /\ arcLock' = arcLock) \/ Finish(c)
    BY <1>5 DEF ProbeFails
  <2>. QED BY <1>5, <2>1, <2>2, <2>3 DEF ProbeFails, Finish, ctxVars, reqRing, resRing,
     fwVars, history
<1>6. ASSUME NEW c \in Callers, ReadControlBlock(c) PROVE TypeOK'
  BY <1>6 DEF ReadControlBlock, Holds, Finish, ctxVars, locals, reqRing, resRing,
     fwVars, history
<1>7. ASSUME NEW c \in Callers, Drain(c) PROVE TypeOK'
  <2>1. Advance(resRptr) \in Pointers
    BY PointerFacts
  <2>2. drained' \in [Callers -> 0 .. NumEntries]
    <3>1. drained[c] < NumEntries => drained[c] + 1 \in 0 .. NumEntries
      BY RingAssumption
    <3>. QED BY <1>7, <3>1 DEF Drain
  <2>3. /\ resRptr' \in {resRptr, Advance(resRptr)}
        /\ pc' = pc \/ pc' = [pc EXCEPT ![c] = "push"]
    BY <1>7 DEF Drain
  <2>. QED BY <1>7, <2>1, <2>2, <2>3 DEF Drain, ctxVars, reqRing, fwVars, history
<1>8. ASSUME NEW c \in Callers, Push(c) PROVE TypeOK'
  BY <1>8, PointerFacts DEF Push, Holds, Finish, ctxVars, locals, reqRing, resRing,
     fwVars, history, MessageState
<1>9. ASSUME NEW c \in Callers, Publish(c) PROVE TypeOK'
  <2>1. Advance(reqWptr) \in Pointers /\ Append(pushed, msg[c]) \in Seq(Msgs)
    BY <1>9, PointerFacts, ToSetAppend DEF Publish, Holds, MessageState
  <2>. QED BY <1>9, <2>1 DEF Publish, ctxVars, locals, resRing, fwVars
<1>10. ASSUME NEW c \in Callers, RingDoorbell(c) PROVE TypeOK'
  BY <1>10 DEF RingDoorbell, Holds, ctxVars, locals, reqRing, resRing, fwVars,
     history
<1>11. ASSUME NEW c \in Callers, PollPointers(c) PROVE TypeOK'
  BY <1>11 DEF PollPointers, Holds, Finish, ctxVars, locals, reqRing, resRing,
     fwVars, history
<1>12. ASSUME NEW c \in Callers, PollRead(c) PROVE TypeOK'
  BY <1>12, PointerFacts DEF PollRead, Holds, ctxVars, locals, reqRing, resRing,
     fwVars, history
<1>13. ASSUME NEW c \in Callers, PollAck(c) PROVE TypeOK'
  BY <1>13, PointerFacts DEF PollAck, Holds, Finish, ctxVars, locals, reqRing,
     resRing, fwVars, history
<1>14. ASSUME NEW c \in Callers, PollTimeout(c) PROVE TypeOK'
  BY <1>14 DEF PollTimeout, Holds, Finish, ctxVars, locals, reqRing, resRing,
     fwVars, history, MessageState
<1>15. CASE ReleaseHardware
  BY <1>15 DEF ReleaseHardware, ReleaseSafe, LockFree, ctxVars, locals, reqRing,
     resRing, fwVars, history, NoRoute
<1>16. CASE PrepareHardware
  BY <1>16 DEF PrepareHardware, ctxVars, locals, reqRing, resRing, fwVars, history,
     StartedRoutes
<1>17. CASE FwTake
  <2>1. reqRptr \in Pointers /\ working' \in Msgs /\ taken' \in Seq(Msgs)
    BY <1>17, TakeFacts, ToSetAppend
  <2>2. reqRptr' \in Pointers
    BY <1>17, <2>1, TakeFacts, PointerFacts
  <2>. QED BY <1>17, <2>1, <2>2 DEF FwTake, ctxVars, locals, resRing
<1>18. CASE FwAnswer
  <2>1. resWptr \in Pointers
    OBVIOUS
  <2>2. resWptr' \in Pointers /\ Slot(resWptr) \in Slots
    BY <1>18, <2>1, AnswerFacts, PointerFacts
  <2>. QED BY <1>18, <2>2, AnswerFacts DEF FwAnswer, ctxVars, locals, reqRing, history
<1>19. CASE FwSleep
  BY <1>19 DEF FwSleep, ctxVars, locals, reqRing, resRing, fwVars, history
<1>20. CASE FwBoot
  BY <1>20 DEF FwBoot, ctxVars, locals, reqRing, resRing, fwVars, history
<1>21. CASE Vanish
  BY <1>21 DEF Vanish, ctxVars, locals, reqRing, resRing, fwVars, history
<1>22. CASE RestrictDevice
  BY <1>22 DEF RestrictDevice, LockFree, ctxVars, locals, reqRing, resRing, fwVars,
     history
<1>23. CASE ChipReset
  <2>1. <<>> \in Seq(Msgs)
    OBVIOUS
  <2>. QED BY <1>23, <2>1, StartFacts DEF ChipReset, ctxVars, locals
<1>24. CASE Unrestrict
  BY <1>24 DEF Unrestrict, LockFree, ctxVars, locals, reqRing, resRing, fwVars,
     history
<1>25. CASE UNCHANGED vars
  BY <1>25 DEF vars
<1>. QED BY <1>1, <1>2, <1>3, <1>4, <1>5, <1>6, <1>7, <1>8, <1>9, <1>10, <1>11,
  <1>12, <1>13, <1>14, <1>15, <1>16, <1>17, <1>18, <1>19, <1>20, <1>21, <1>22,
  <1>23, <1>24, <1>25 DEF Next, Exchange, Firmware

\* Every step keeps the exchanges apart.
LEMMA LockStep == ASSUME IInv, [Next]_vars PROVE LockState'
<1> USE CallersAssumption DEF IInv, TypeOK, LockState, InExchange, Goto
<1>1. ASSUME NEW c \in Callers, Call(c) PROVE LockState'
  BY <1>1 DEF Call, Begin, Holds, ctxVars, locals, reqRing, resRing, fwVars, history
<1>2. CASE ArcStatus
  BY <1>2 DEF ArcStatus, Begin, Holds, ctxVars, locals, reqRing, resRing, fwVars,
     history
<1>3. ASSUME NEW c \in Callers, Acquire(c) PROVE LockState'
  BY <1>3 DEF Acquire, Holds, Refused, LockFree, Finish, ctxVars, locals, reqRing,
     resRing, fwVars, history
<1>4. ASSUME NEW c \in Callers, ProbeRoute(c) PROVE LockState'
  BY <1>4 DEF ProbeRoute, Holds, ctxVars, locals, reqRing, resRing, fwVars, history
<1>5. ASSUME NEW c \in Callers, ProbeFails(c) PROVE LockState'
  BY <1>5 DEF ProbeFails, Holds, Finish, ctxVars, locals, reqRing, resRing, fwVars,
     history
<1>6. ASSUME NEW c \in Callers, ReadControlBlock(c) PROVE LockState'
  <2>1. pc[c] = "qcb"
    BY <1>6 DEF ReadControlBlock, Holds
  <2>2. CASE Goto(c, "drain") /\ UNCHANGED arcLock
    BY <2>1, <2>2
  <2>3. CASE Finish(c)
    BY <2>1, <2>3 DEF Finish
  <2>. QED BY <1>6, <2>2, <2>3 DEF ReadControlBlock
<1>7. ASSUME NEW c \in Callers, Drain(c) PROVE LockState'
  BY <1>7 DEF Drain, Holds, ctxVars, locals, reqRing, resRing, fwVars, history
<1>8. ASSUME NEW c \in Callers, Push(c) PROVE LockState'
  <2>1. pc[c] = "push"
    BY <1>8 DEF Push, Holds
  <2>2. CASE Finish(c)
    BY <2>1, <2>2 DEF Finish
  <2>3. CASE Goto(c, "publish") /\ UNCHANGED arcLock
    BY <2>1, <2>3
  <2>. QED BY <1>8, <2>2, <2>3 DEF Push
<1>9. ASSUME NEW c \in Callers, Publish(c) PROVE LockState'
  BY <1>9 DEF Publish, Holds, ctxVars, locals, reqRing, resRing, fwVars, history
<1>10. ASSUME NEW c \in Callers, RingDoorbell(c) PROVE LockState'
  BY <1>10 DEF RingDoorbell, Holds, ctxVars, locals, reqRing, resRing, fwVars,
     history
<1>11. ASSUME NEW c \in Callers, PollPointers(c) PROVE LockState'
  <2>1. pc[c] = "poll"
    BY <1>11 DEF PollPointers, Holds
  <2>2. CASE Finish(c)
    BY <2>1, <2>2 DEF Finish
  <2>3. CASE Goto(c, "read") /\ UNCHANGED arcLock
    BY <2>1, <2>3
  <2>. QED BY <1>11, <2>2, <2>3 DEF PollPointers
<1>12. ASSUME NEW c \in Callers, PollRead(c) PROVE LockState'
  BY <1>12 DEF PollRead, Holds, ctxVars, locals, reqRing, resRing, fwVars, history
<1>13. ASSUME NEW c \in Callers, PollAck(c) PROVE LockState'
  BY <1>13 DEF PollAck, Holds, Finish, ctxVars, locals, reqRing, resRing, fwVars,
     history
<1>14. ASSUME NEW c \in Callers, PollTimeout(c) PROVE LockState'
  BY <1>14 DEF PollTimeout, Holds, Finish, ctxVars, locals, reqRing, resRing,
     fwVars, history
<1>15. CASE ReleaseHardware
  BY <1>15 DEF ReleaseHardware, ReleaseSafe, LockFree, ctxVars, locals, reqRing,
     resRing, fwVars, history
<1>16. CASE PrepareHardware
  BY <1>16 DEF PrepareHardware, ctxVars, locals, reqRing, resRing, fwVars, history
<1>17. CASE FwTake
  BY <1>17 DEF FwTake, ctxVars, locals, reqRing, resRing, fwVars, history
<1>18. CASE FwAnswer
  BY <1>18 DEF FwAnswer, ctxVars, locals, reqRing, resRing, fwVars, history
<1>19. CASE FwSleep
  BY <1>19 DEF FwSleep, ctxVars, locals, reqRing, resRing, fwVars, history
<1>20. CASE FwBoot
  BY <1>20 DEF FwBoot, ctxVars, locals, reqRing, resRing, fwVars, history
<1>21. CASE Vanish
  BY <1>21 DEF Vanish, ctxVars, locals, reqRing, resRing, fwVars, history
<1>22. CASE RestrictDevice
  BY <1>22 DEF RestrictDevice, LockFree, ctxVars, locals, reqRing, resRing, fwVars,
     history
<1>23. CASE ChipReset
  BY <1>23 DEF ChipReset, ctxVars, locals, reqRing, resRing, fwVars, history
<1>24. CASE Unrestrict
  BY <1>24 DEF Unrestrict, LockFree, ctxVars, locals, reqRing, resRing, fwVars,
     history
<1>25. CASE UNCHANGED vars
  BY <1>25 DEF vars
<1>. QED BY <1>1, <1>2, <1>3, <1>4, <1>5, <1>6, <1>7, <1>8, <1>9, <1>10, <1>11,
  <1>12, <1>13, <1>14, <1>15, <1>16, <1>17, <1>18, <1>19, <1>20, <1>21, <1>22,
  <1>23, <1>24, <1>25 DEF Next, Exchange, Firmware

\* A device that is restricted or released is left alone, and the rings are
\* used through a route that answers.
LEMMA AccessStep == ASSUME IInv, [Next]_vars PROVE (NoAccessWhileRestricted /\ NoUnmappedAccess /\ RouteAnswered)'
<1> USE CallersAssumption DEF IInv, TypeOK, LockState, InExchange, Goto,
    NoAccessWhileRestricted, NoUnmappedAccess, RouteAnswered, Ready, Alive
<1>1. ASSUME NEW c \in Callers, Call(c)
      PROVE  (NoAccessWhileRestricted /\ NoUnmappedAccess /\ RouteAnswered)'
  BY <1>1 DEF Call, Begin, Holds, ctxVars, locals, reqRing, resRing, fwVars, history
<1>2. CASE ArcStatus
  BY <1>2 DEF ArcStatus, Begin, Holds, ctxVars, locals, reqRing, resRing, fwVars,
     history
<1>3. ASSUME NEW c \in Callers, Acquire(c)
      PROVE  (NoAccessWhileRestricted /\ NoUnmappedAccess /\ RouteAnswered)'
  BY <1>3 DEF Acquire, Holds, Refused, LockFree, Finish, ctxVars, locals, reqRing,
     resRing, fwVars, history
<1>4. ASSUME NEW c \in Callers, ProbeRoute(c)
      PROVE  (NoAccessWhileRestricted /\ NoUnmappedAccess /\ RouteAnswered)'
  BY <1>4 DEF ProbeRoute, Holds, ctxVars, locals, reqRing, resRing, fwVars, history,
     Answers
<1>5. ASSUME NEW c \in Callers, ProbeFails(c)
      PROVE  (NoAccessWhileRestricted /\ NoUnmappedAccess /\ RouteAnswered)'
  BY <1>5 DEF ProbeFails, Holds, Finish, ctxVars, locals, reqRing, resRing, fwVars,
     history
<1>6. ASSUME NEW c \in Callers, ReadControlBlock(c)
      PROVE  (NoAccessWhileRestricted /\ NoUnmappedAccess /\ RouteAnswered)'
  BY <1>6 DEF ReadControlBlock, Holds, Finish, ctxVars, locals, reqRing, resRing,
     fwVars, history
<1>7. ASSUME NEW c \in Callers, Drain(c)
      PROVE  (NoAccessWhileRestricted /\ NoUnmappedAccess /\ RouteAnswered)'
  BY <1>7 DEF Drain, Holds, ctxVars, locals, reqRing, resRing, fwVars, history
<1>8. ASSUME NEW c \in Callers, Push(c)
      PROVE  (NoAccessWhileRestricted /\ NoUnmappedAccess /\ RouteAnswered)'
  BY <1>8 DEF Push, Holds, Finish, ctxVars, locals, reqRing, resRing, fwVars,
     history
<1>9. ASSUME NEW c \in Callers, Publish(c)
      PROVE  (NoAccessWhileRestricted /\ NoUnmappedAccess /\ RouteAnswered)'
  BY <1>9 DEF Publish, Holds, ctxVars, locals, reqRing, resRing, fwVars, history
<1>10. ASSUME NEW c \in Callers, RingDoorbell(c)
      PROVE  (NoAccessWhileRestricted /\ NoUnmappedAccess /\ RouteAnswered)'
  BY <1>10 DEF RingDoorbell, Holds, ctxVars, locals, reqRing, resRing, fwVars,
     history
<1>11. ASSUME NEW c \in Callers, PollPointers(c)
      PROVE  (NoAccessWhileRestricted /\ NoUnmappedAccess /\ RouteAnswered)'
  BY <1>11 DEF PollPointers, Holds, Finish, ctxVars, locals, reqRing, resRing,
     fwVars, history
<1>12. ASSUME NEW c \in Callers, PollRead(c)
      PROVE  (NoAccessWhileRestricted /\ NoUnmappedAccess /\ RouteAnswered)'
  BY <1>12 DEF PollRead, Holds, ctxVars, locals, reqRing, resRing, fwVars, history
<1>13. ASSUME NEW c \in Callers, PollAck(c)
      PROVE  (NoAccessWhileRestricted /\ NoUnmappedAccess /\ RouteAnswered)'
  BY <1>13 DEF PollAck, Holds, Finish, ctxVars, locals, reqRing, resRing, fwVars,
     history
<1>14. ASSUME NEW c \in Callers, PollTimeout(c)
      PROVE  (NoAccessWhileRestricted /\ NoUnmappedAccess /\ RouteAnswered)'
  BY <1>14 DEF PollTimeout, Holds, Finish, ctxVars, locals, reqRing, resRing,
     fwVars, history
<1>15. CASE ReleaseHardware
  BY <1>15 DEF ReleaseHardware, ReleaseSafe, LockFree, ctxVars, locals, reqRing,
     resRing, fwVars, history
<1>16. CASE PrepareHardware
  BY <1>16 DEF PrepareHardware, ctxVars, locals, reqRing, resRing, fwVars, history
<1>17. CASE FwTake
  BY <1>17 DEF FwTake, ctxVars, locals, reqRing, resRing, fwVars, history
<1>18. CASE FwAnswer
  BY <1>18 DEF FwAnswer, ctxVars, locals, reqRing, resRing, fwVars, history
<1>19. CASE FwSleep
  BY <1>19 DEF FwSleep, ctxVars, locals, reqRing, resRing, fwVars, history
<1>20. CASE FwBoot
  BY <1>20 DEF FwBoot, ctxVars, locals, reqRing, resRing, fwVars, history
<1>21. CASE Vanish
  BY <1>21 DEF Vanish, ctxVars, locals, reqRing, resRing, fwVars, history
<1>22. CASE RestrictDevice
  BY <1>22 DEF RestrictDevice, LockFree, ctxVars, locals, reqRing, resRing, fwVars,
     history
<1>23. CASE ChipReset
  BY <1>23 DEF ChipReset, ctxVars, locals, reqRing, resRing, fwVars, history
<1>24. CASE Unrestrict
  BY <1>24 DEF Unrestrict, LockFree, ctxVars, locals, reqRing, resRing, fwVars,
     history
<1>25. CASE UNCHANGED vars
  BY <1>25 DEF vars
<1>. QED BY <1>1, <1>2, <1>3, <1>4, <1>5, <1>6, <1>7, <1>8, <1>9, <1>10, <1>11,
  <1>12, <1>13, <1>14, <1>15, <1>16, <1>17, <1>18, <1>19, <1>20, <1>21, <1>22,
  <1>23, <1>24, <1>25 DEF Next, Exchange, Firmware

\* A call without a message ends at the control block.
LEMMA MessageStep == ASSUME IInv, [Next]_vars PROVE MessageState'
<1> USE DEF IInv, TypeOK, LockState, InExchange, Goto, MessageState
<1>1. ASSUME NEW c \in Callers, Call(c) PROVE MessageState'
  BY <1>1 DEF Call, Begin, Holds, ctxVars, locals, reqRing, resRing, fwVars,
     history, Msgs
<1>2. CASE ArcStatus
  BY <1>2 DEF ArcStatus, Begin, Holds, ctxVars, locals, reqRing, resRing, fwVars,
     history
<1>3. ASSUME NEW c \in Callers, Acquire(c) PROVE MessageState'
  BY <1>3 DEF Acquire, Holds, Refused, LockFree, Finish, ctxVars, locals, reqRing,
     resRing, fwVars, history
<1>4. ASSUME NEW c \in Callers, ProbeRoute(c) PROVE MessageState'
  BY <1>4 DEF ProbeRoute, Holds, ctxVars, locals, reqRing, resRing, fwVars, history
<1>5. ASSUME NEW c \in Callers, ProbeFails(c) PROVE MessageState'
  BY <1>5 DEF ProbeFails, Holds, Finish, ctxVars, locals, reqRing, resRing, fwVars,
     history
<1>6. ASSUME NEW c \in Callers, ReadControlBlock(c) PROVE MessageState'
  BY <1>6 DEF ReadControlBlock, Holds, Finish, ctxVars, locals, reqRing, resRing,
     fwVars, history
<1>7. ASSUME NEW c \in Callers, Drain(c) PROVE MessageState'
  BY <1>7 DEF Drain, Holds, ctxVars, locals, reqRing, resRing, fwVars, history
<1>8. ASSUME NEW c \in Callers, Push(c) PROVE MessageState'
  BY <1>8 DEF Push, Holds, Finish, ctxVars, locals, reqRing, resRing, fwVars,
     history
<1>9. ASSUME NEW c \in Callers, Publish(c) PROVE MessageState'
  BY <1>9 DEF Publish, Holds, ctxVars, locals, reqRing, resRing, fwVars, history
<1>10. ASSUME NEW c \in Callers, RingDoorbell(c) PROVE MessageState'
  BY <1>10 DEF RingDoorbell, Holds, ctxVars, locals, reqRing, resRing, fwVars,
     history
<1>11. ASSUME NEW c \in Callers, PollPointers(c) PROVE MessageState'
  BY <1>11 DEF PollPointers, Holds, Finish, ctxVars, locals, reqRing, resRing,
     fwVars, history
<1>12. ASSUME NEW c \in Callers, PollRead(c) PROVE MessageState'
  BY <1>12 DEF PollRead, Holds, ctxVars, locals, reqRing, resRing, fwVars, history
<1>13. ASSUME NEW c \in Callers, PollAck(c) PROVE MessageState'
  BY <1>13 DEF PollAck, Holds, Finish, ctxVars, locals, reqRing, resRing, fwVars,
     history
<1>14. ASSUME NEW c \in Callers, PollTimeout(c) PROVE MessageState'
  BY <1>14 DEF PollTimeout, Holds, Finish, ctxVars, locals, reqRing, resRing,
     fwVars, history
<1>15. CASE ReleaseHardware
  BY <1>15 DEF ReleaseHardware, ReleaseSafe, LockFree, ctxVars, locals, reqRing,
     resRing, fwVars, history
<1>16. CASE PrepareHardware
  BY <1>16 DEF PrepareHardware, ctxVars, locals, reqRing, resRing, fwVars, history
<1>17. CASE FwTake
  BY <1>17 DEF FwTake, ctxVars, locals, reqRing, resRing, fwVars, history
<1>18. CASE FwAnswer
  BY <1>18 DEF FwAnswer, ctxVars, locals, reqRing, resRing, fwVars, history
<1>19. CASE FwSleep
  BY <1>19 DEF FwSleep, ctxVars, locals, reqRing, resRing, fwVars, history
<1>20. CASE FwBoot
  BY <1>20 DEF FwBoot, ctxVars, locals, reqRing, resRing, fwVars, history
<1>21. CASE Vanish
  BY <1>21 DEF Vanish, ctxVars, locals, reqRing, resRing, fwVars, history
<1>22. CASE RestrictDevice
  BY <1>22 DEF RestrictDevice, LockFree, ctxVars, locals, reqRing, resRing, fwVars,
     history
<1>23. CASE ChipReset
  BY <1>23 DEF ChipReset, ctxVars, locals, reqRing, resRing, fwVars, history
<1>24. CASE Unrestrict
  BY <1>24 DEF Unrestrict, LockFree, ctxVars, locals, reqRing, resRing, fwVars,
     history
<1>25. CASE UNCHANGED vars
  BY <1>25 DEF vars
<1>. QED BY <1>1, <1>2, <1>3, <1>4, <1>5, <1>6, <1>7, <1>8, <1>9, <1>10, <1>11,
  <1>12, <1>13, <1>14, <1>15, <1>16, <1>17, <1>18, <1>19, <1>20, <1>21, <1>22,
  <1>23, <1>24, <1>25 DEF Next, Exchange, Firmware

\* The empty slots of the request ring are in front of the write pointer.
LEMMA RequestSlotsStep == ASSUME IInv, [Next]_vars PROVE RequestSlots'
<1> USE DEF IInv, TypeOK, LockState, InExchange, Goto, RequestSlots
<1>1. ASSUME NEW c \in Callers, Call(c) PROVE RequestSlots'
  BY <1>1 DEF Call, Begin, Holds, ctxVars, locals, reqRing, resRing, fwVars, history
<1>2. CASE ArcStatus
  BY <1>2 DEF ArcStatus, Begin, Holds, ctxVars, locals, reqRing, resRing, fwVars,
     history
<1>3. ASSUME NEW c \in Callers, Acquire(c) PROVE RequestSlots'
  BY <1>3 DEF Acquire, Holds, Refused, LockFree, Finish, ctxVars, locals, reqRing,
     resRing, fwVars, history
<1>4. ASSUME NEW c \in Callers, ProbeRoute(c) PROVE RequestSlots'
  BY <1>4 DEF ProbeRoute, Holds, ctxVars, locals, reqRing, resRing, fwVars, history
<1>5. ASSUME NEW c \in Callers, ProbeFails(c) PROVE RequestSlots'
  BY <1>5 DEF ProbeFails, Holds, Finish, ctxVars, locals, reqRing, resRing, fwVars,
     history
<1>6. ASSUME NEW c \in Callers, ReadControlBlock(c) PROVE RequestSlots'
  BY <1>6 DEF ReadControlBlock, Holds, Finish, ctxVars, locals, reqRing, resRing,
     fwVars, history
<1>7. ASSUME NEW c \in Callers, Drain(c) PROVE RequestSlots'
  BY <1>7 DEF Drain, Holds, ctxVars, locals, reqRing, resRing, fwVars, history
<1>8. ASSUME NEW c \in Callers, Push(c) PROVE RequestSlots'
  <2>1. CASE Finish(c) /\ UNCHANGED reqSlots
    BY <1>8, <2>1 DEF Push, Finish, locals
  <2>2. CASE /\ reqSlots' = [reqSlots EXCEPT ![Slot(reqWptr)] = msg[c]]
             /\ Goto(c, "publish") /\ UNCHANGED arcLock
    <3>1. pc[c] = "push" /\ msg[c] \in Msgs /\ NoMsg \notin Msgs
      BY <1>8 DEF Push, Holds, MessageState, Msgs, NoMsg
    <3>2. Slot(reqWptr) \in Slots
      BY PointerFacts
    <3>. QED BY <1>8, <2>2, <3>1, <3>2 DEF Push, locals
  <2>. QED BY <1>8, <2>1, <2>2 DEF Push
<1>9. ASSUME NEW c \in Callers, Publish(c) PROVE RequestSlots'
  <2>1. reqRptr \in Pointers /\ reqWptr \in Pointers /\ Slot(reqWptr) \in Slots
    BY PointerFacts
  <2>2. reqSlots[Slot(reqWptr)] # NoMsg
    BY <1>9 DEF Publish, Holds, MessageState, Msgs, NoMsg
  <2>3. reqWptr < NumEntries => Slot(reqWptr) = reqWptr /\ Advance(reqWptr) = reqWptr + 1
    BY <2>1, PointerFacts, RingAssumption DEF Pointers
  <2>4. ASSUME NEW s \in Slots, reqSlots[s] = NoMsg
        PROVE  reqRptr <= reqWptr' /\ reqWptr' <= s
    BY <1>9, <2>1, <2>2, <2>3, <2>4, RingAssumption DEF Publish, Pointers, Slots
  <2>. QED BY <1>9, <2>4 DEF Publish, Holds, locals
<1>10. ASSUME NEW c \in Callers, RingDoorbell(c) PROVE RequestSlots'
  BY <1>10 DEF RingDoorbell, Holds, ctxVars, locals, reqRing, resRing, fwVars,
     history
<1>11. ASSUME NEW c \in Callers, PollPointers(c) PROVE RequestSlots'
  BY <1>11 DEF PollPointers, Holds, Finish, ctxVars, locals, reqRing, resRing,
     fwVars, history
<1>12. ASSUME NEW c \in Callers, PollRead(c) PROVE RequestSlots'
  BY <1>12 DEF PollRead, Holds, ctxVars, locals, reqRing, resRing, fwVars, history
<1>13. ASSUME NEW c \in Callers, PollAck(c) PROVE RequestSlots'
  BY <1>13 DEF PollAck, Holds, Finish, ctxVars, locals, reqRing, resRing, fwVars,
     history
<1>14. ASSUME NEW c \in Callers, PollTimeout(c) PROVE RequestSlots'
  BY <1>14 DEF PollTimeout, Holds, Finish, ctxVars, locals, reqRing, resRing,
     fwVars, history
<1>15. CASE ReleaseHardware
  BY <1>15 DEF ReleaseHardware, ReleaseSafe, LockFree, ctxVars, locals, reqRing,
     resRing, fwVars, history
<1>16. CASE PrepareHardware
  BY <1>16 DEF PrepareHardware, ctxVars, locals, reqRing, resRing, fwVars, history
<1>17. CASE FwTake
  <2>1. reqRptr \in Pointers /\ reqWptr \in Pointers /\ reqWptr < 2 * NumEntries
    BY RingAssumption DEF Pointers
  <2>2. reqRptr < reqWptr /\ reqWptr < NumEntries => reqRptr' = reqRptr + 1
    <3>1. reqRptr + 1 < 2 * NumEntries => Advance(reqRptr) = reqRptr + 1
      BY <2>1, PointerFacts
    <3>2. reqRptr' = Advance(reqRptr)
      BY <1>17, TakeFacts
    <3>. QED BY <2>1, <3>1, <3>2, RingAssumption DEF Pointers
  <2>3. ASSUME NEW s \in Slots, reqSlots[s] = NoMsg
        PROVE  reqRptr' <= reqWptr /\ reqWptr <= s
    BY <1>17, <2>1, <2>2, <2>3, TakeFacts, RingAssumption DEF Pointers, Slots
  <2>. QED BY <1>17, <2>3 DEF FwTake, locals
<1>18. CASE FwAnswer
  BY <1>18 DEF FwAnswer, ctxVars, locals, reqRing, resRing, fwVars, history
<1>19. CASE FwSleep
  BY <1>19 DEF FwSleep, ctxVars, locals, reqRing, resRing, fwVars, history
<1>20. CASE FwBoot
  BY <1>20 DEF FwBoot, ctxVars, locals, reqRing, resRing, fwVars, history
<1>21. CASE Vanish
  BY <1>21 DEF Vanish, ctxVars, locals, reqRing, resRing, fwVars, history
<1>22. CASE RestrictDevice
  BY <1>22 DEF RestrictDevice, LockFree, ctxVars, locals, reqRing, resRing, fwVars,
     history
<1>23. CASE ChipReset
  <2>1. \A d \in Callers : pc'[d] \in {"idle", "want"}
    BY <1>23 DEF ChipReset, ctxVars, NoAccessWhileRestricted
  <2>2. \A s \in Slots : 0 <= s
    BY RingAssumption DEF Slots
  <2>3. reqRptr' <= reqWptr' /\ \A s \in Slots : reqWptr' <= s
    BY <1>23, <2>2 DEF ChipReset
  <2>. QED BY <2>1, <2>3
<1>24. CASE Unrestrict
  BY <1>24 DEF Unrestrict, LockFree, ctxVars, locals, reqRing, resRing, fwVars,
     history
<1>25. CASE UNCHANGED vars
  BY <1>25 DEF vars
<1>. QED BY <1>1, <1>2, <1>3, <1>4, <1>5, <1>6, <1>7, <1>8, <1>9, <1>10, <1>11,
  <1>12, <1>13, <1>14, <1>15, <1>16, <1>17, <1>18, <1>19, <1>20, <1>21, <1>22,
  <1>23, <1>24, <1>25 DEF Next, Exchange, Firmware

\* The same of the response ring.
LEMMA ResponseSlotsStep == ASSUME IInv, [Next]_vars PROVE ResponseSlots'
<1> USE DEF IInv, TypeOK, LockState, InExchange, Goto, ResponseSlots
<1>1. ASSUME NEW c \in Callers, Call(c) PROVE ResponseSlots'
  BY <1>1 DEF Call, Begin, Holds, ctxVars, locals, reqRing, resRing, fwVars, history
<1>2. CASE ArcStatus
  BY <1>2 DEF ArcStatus, Begin, Holds, ctxVars, locals, reqRing, resRing, fwVars,
     history
<1>3. ASSUME NEW c \in Callers, Acquire(c) PROVE ResponseSlots'
  BY <1>3 DEF Acquire, Holds, Refused, LockFree, Finish, ctxVars, locals, reqRing,
     resRing, fwVars, history
<1>4. ASSUME NEW c \in Callers, ProbeRoute(c) PROVE ResponseSlots'
  BY <1>4 DEF ProbeRoute, Holds, ctxVars, locals, reqRing, resRing, fwVars, history
<1>5. ASSUME NEW c \in Callers, ProbeFails(c) PROVE ResponseSlots'
  BY <1>5 DEF ProbeFails, Holds, Finish, ctxVars, locals, reqRing, resRing, fwVars,
     history
<1>6. ASSUME NEW c \in Callers, ReadControlBlock(c) PROVE ResponseSlots'
  BY <1>6 DEF ReadControlBlock, Holds, Finish, ctxVars, locals, reqRing, resRing,
     fwVars, history
<1>7. ASSUME NEW c \in Callers, Drain(c) PROVE ResponseSlots'
  <2>1. resRptr \in Pointers /\ resWptr \in Pointers
    OBVIOUS
  <2>2. resRptr < NumEntries => Advance(resRptr) = resRptr + 1
    BY <2>1, PointerFacts, RingAssumption DEF Pointers
  <2>3. ResponseReady => resWptr # resRptr
    BY ReadyFacts
  <2>4. ASSUME NEW s \in Slots, resSlots[s] = NoMsg
        PROVE  resRptr' <= resWptr /\ resWptr <= s
    BY <1>7, <2>1, <2>2, <2>3, <2>4, RingAssumption DEF Drain, Pointers, Slots
  <2>5. pc[c] = "drain" /\ \A d \in Callers : pc[d] \notin {"read", "ack"}
    BY <1>7 DEF Drain, Holds
  <2>. QED BY <1>7, <2>4, <2>5 DEF Drain, fwVars, history
<1>8. ASSUME NEW c \in Callers, Push(c) PROVE ResponseSlots'
  BY <1>8 DEF Push, Holds, Finish, ctxVars, locals, reqRing, resRing, fwVars,
     history
<1>9. ASSUME NEW c \in Callers, Publish(c) PROVE ResponseSlots'
  BY <1>9 DEF Publish, Holds, ctxVars, locals, reqRing, resRing, fwVars, history
<1>10. ASSUME NEW c \in Callers, RingDoorbell(c) PROVE ResponseSlots'
  BY <1>10 DEF RingDoorbell, Holds, ctxVars, locals, reqRing, resRing, fwVars,
     history
<1>11. ASSUME NEW c \in Callers, PollPointers(c) PROVE ResponseSlots'
  <2>1. CASE Finish(c)
    BY <1>11, <2>1 DEF PollPointers, Finish, resRing, fwVars, history
  <2>2. CASE ResponseReady /\ Goto(c, "read")
    BY <1>11, <2>2, ReadyFacts DEF PollPointers, resRing, fwVars, history
  <2>. QED BY <1>11, <2>1, <2>2 DEF PollPointers
<1>12. ASSUME NEW c \in Callers, PollRead(c) PROVE ResponseSlots'
  BY <1>12 DEF PollRead, Holds, ctxVars, locals, reqRing, resRing, fwVars, history
<1>13. ASSUME NEW c \in Callers, PollAck(c) PROVE ResponseSlots'
  <2>1. resRptr \in Pointers /\ resWptr \in Pointers
    OBVIOUS
  <2>2. resRptr < NumEntries => Advance(resRptr) = resRptr + 1
    BY <2>1, PointerFacts, RingAssumption DEF Pointers
  <2>3. pc[c] = "ack" /\ resWptr # resRptr
    BY <1>13 DEF PollAck, Holds
  <2>4. ASSUME NEW s \in Slots, resSlots[s] = NoMsg
        PROVE  resRptr' <= resWptr /\ resWptr <= s
    BY <1>13, <2>1, <2>2, <2>3, <2>4, RingAssumption DEF PollAck, Pointers, Slots
  <2>5. \A d \in Callers : pc'[d] \notin {"read", "ack"}
    BY <1>13, <2>3 DEF PollAck, Finish
  <2>. QED BY <1>13, <2>4, <2>5 DEF PollAck, fwVars, history
<1>14. ASSUME NEW c \in Callers, PollTimeout(c) PROVE ResponseSlots'
  BY <1>14 DEF PollTimeout, Holds, Finish, ctxVars, locals, reqRing, resRing,
     fwVars, history
<1>15. CASE ReleaseHardware
  BY <1>15 DEF ReleaseHardware, ReleaseSafe, LockFree, ctxVars, locals, reqRing,
     resRing, fwVars, history
<1>16. CASE PrepareHardware
  BY <1>16 DEF PrepareHardware, ctxVars, locals, reqRing, resRing, fwVars, history
<1>17. CASE FwTake
  <2>1. working' \in ToSet(taken') /\ ToSet(taken) \subseteq ToSet(taken')
    BY <1>17, TakeFacts, ToSetAppend
  <2>. QED BY <1>17, <2>1 DEF FwTake, locals, resRing
<1>18. CASE FwAnswer
  <2>1. Slot(resWptr) \in Slots /\ resRptr \in Pointers /\ resWptr \in Pointers
    BY PointerFacts
  <2>2. resWptr < NumEntries => Slot(resWptr) = resWptr /\ resWptr' = resWptr + 1
    <3>1. /\ resWptr < NumEntries => Slot(resWptr) = resWptr
          /\ resWptr + 1 < 2 * NumEntries => Advance(resWptr) = resWptr + 1
      BY <2>1, PointerFacts
    <3>2. resWptr' = Advance(resWptr)
      BY <1>18, AnswerFacts
    <3>. QED BY <2>1, <3>1, <3>2, RingAssumption DEF Pointers
  <2>3. ASSUME NEW s \in Slots, resSlots'[s] = NoMsg
        PROVE  resRptr <= resWptr' /\ resWptr' <= s
    <3>1. s # Slot(resWptr) /\ resSlots[s] = NoMsg
      BY <1>18, <2>1, <2>3, AnswerFacts DEF Msgs, NoMsg
    <3>. QED BY <2>1, <2>2, <3>1, RingAssumption DEF Pointers, Slots
  <2>4. working' = NoMsg /\ resRptr' = resRptr /\ taken' = taken
    BY <1>18 DEF FwAnswer, history
  <2>5. \A s \in Slots : resSlots'[s] \in ToSet(taken') \cup {NoMsg}
    BY <1>18, <2>1, <2>4, AnswerFacts
  <2>. QED BY <1>18, <2>3, <2>4, <2>5, AnswerFacts DEF FwAnswer
<1>19. CASE FwSleep
  BY <1>19 DEF FwSleep, ctxVars, locals, reqRing, resRing, fwVars, history
<1>20. CASE FwBoot
  BY <1>20 DEF FwBoot, ctxVars, locals, reqRing, resRing, fwVars, history
<1>21. CASE Vanish
  BY <1>21 DEF Vanish, ctxVars, locals, reqRing, resRing, fwVars, history
<1>22. CASE RestrictDevice
  BY <1>22 DEF RestrictDevice, LockFree, ctxVars, locals, reqRing, resRing, fwVars,
     history
<1>23. CASE ChipReset
  <2>1. \A d \in Callers : pc'[d] \in {"idle", "want"}
    BY <1>23 DEF ChipReset, ctxVars, NoAccessWhileRestricted
  <2>2. \A s \in Slots : 0 <= s
    BY RingAssumption DEF Slots
  <2>3. resRptr' <= resWptr' /\ \A s \in Slots : resWptr' <= s
    BY <1>23, <2>2 DEF ChipReset
  <2>4. working' = NoMsg /\ \A s \in Slots : resSlots'[s] = NoMsg
    BY <1>23 DEF ChipReset
  <2>. QED BY <2>1, <2>3, <2>4
<1>24. CASE Unrestrict
  BY <1>24 DEF Unrestrict, LockFree, ctxVars, locals, reqRing, resRing, fwVars,
     history
<1>25. CASE UNCHANGED vars
  BY <1>25 DEF vars
<1>. QED BY <1>1, <1>2, <1>3, <1>4, <1>5, <1>6, <1>7, <1>8, <1>9, <1>10, <1>11,
  <1>12, <1>13, <1>14, <1>15, <1>16, <1>17, <1>18, <1>19, <1>20, <1>21, <1>22,
  <1>23, <1>24, <1>25 DEF Next, Exchange, Firmware

\* Whatever a caller reads was asked.
LEMMA AskedStep == ASSUME IInv, [Next]_vars PROVE AnswerWasAsked'
<1> USE DEF IInv, TypeOK, LockState, InExchange, Goto, AnswerWasAsked
<1>1. ASSUME NEW c \in Callers, Call(c) PROVE AnswerWasAsked'
  BY <1>1 DEF Call, Begin, Holds, ctxVars, locals, reqRing, resRing, fwVars, history
<1>2. CASE ArcStatus
  BY <1>2 DEF ArcStatus, Begin, Holds, ctxVars, locals, reqRing, resRing, fwVars,
     history
<1>3. ASSUME NEW c \in Callers, Acquire(c) PROVE AnswerWasAsked'
  BY <1>3 DEF Acquire, Holds, Refused, LockFree, Finish, ctxVars, locals, reqRing,
     resRing, fwVars, history
<1>4. ASSUME NEW c \in Callers, ProbeRoute(c) PROVE AnswerWasAsked'
  BY <1>4 DEF ProbeRoute, Holds, ctxVars, locals, reqRing, resRing, fwVars, history
<1>5. ASSUME NEW c \in Callers, ProbeFails(c) PROVE AnswerWasAsked'
  BY <1>5 DEF ProbeFails, Holds, Finish, ctxVars, locals, reqRing, resRing, fwVars,
     history
<1>6. ASSUME NEW c \in Callers, ReadControlBlock(c) PROVE AnswerWasAsked'
  BY <1>6 DEF ReadControlBlock, Holds, Finish, ctxVars, locals, reqRing, resRing,
     fwVars, history
<1>7. ASSUME NEW c \in Callers, Drain(c) PROVE AnswerWasAsked'
  BY <1>7 DEF Drain, Holds, ctxVars, locals, reqRing, resRing, fwVars, history
<1>8. ASSUME NEW c \in Callers, Push(c) PROVE AnswerWasAsked'
  BY <1>8 DEF Push, Holds, Finish, ctxVars, locals, reqRing, resRing, fwVars,
     history
<1>9. ASSUME NEW c \in Callers, Publish(c) PROVE AnswerWasAsked'
  BY <1>9 DEF Publish, Holds, ctxVars, locals, reqRing, resRing, fwVars, history
<1>10. ASSUME NEW c \in Callers, RingDoorbell(c) PROVE AnswerWasAsked'
  BY <1>10 DEF RingDoorbell, Holds, ctxVars, locals, reqRing, resRing, fwVars,
     history
<1>11. ASSUME NEW c \in Callers, PollPointers(c) PROVE AnswerWasAsked'
  BY <1>11 DEF PollPointers, Holds, Finish, ctxVars, locals, reqRing, resRing,
     fwVars, history
<1>12. ASSUME NEW c \in Callers, PollRead(c) PROVE AnswerWasAsked'
  <2>1. resWptr # resRptr /\ resRptr \in Pointers /\ resWptr \in Pointers
    BY <1>12 DEF PollRead, Holds, ResponseSlots
  <2>2. Slot(resRptr) \in Slots /\ Slot(resRptr) <= resRptr
    BY <2>1, PointerFacts
  <2>3. resSlots[Slot(resRptr)] \in ToSet(taken)
    BY <2>1, <2>2, RingAssumption DEF ResponseSlots, Pointers, Slots
  <2>. QED BY <1>12, <2>3 DEF PollRead, Holds, fwVars, history
<1>13. ASSUME NEW c \in Callers, PollAck(c) PROVE AnswerWasAsked'
  BY <1>13 DEF PollAck, Holds, Finish, ctxVars, locals, reqRing, resRing, fwVars,
     history
<1>14. ASSUME NEW c \in Callers, PollTimeout(c) PROVE AnswerWasAsked'
  BY <1>14 DEF PollTimeout, Holds, Finish, ctxVars, locals, reqRing, resRing,
     fwVars, history
<1>15. CASE ReleaseHardware
  BY <1>15 DEF ReleaseHardware, ReleaseSafe, LockFree, ctxVars, locals, reqRing,
     resRing, fwVars, history
<1>16. CASE PrepareHardware
  BY <1>16 DEF PrepareHardware, ctxVars, locals, reqRing, resRing, fwVars, history
<1>17. CASE FwTake
  <2>1. ToSet(taken) \subseteq ToSet(taken')
    BY <1>17, TakeFacts, ToSetAppend
  <2>. QED BY <1>17, <2>1 DEF FwTake, locals
<1>18. CASE FwAnswer
  BY <1>18 DEF FwAnswer, ctxVars, locals, reqRing, resRing, fwVars, history
<1>19. CASE FwSleep
  BY <1>19 DEF FwSleep, ctxVars, locals, reqRing, resRing, fwVars, history
<1>20. CASE FwBoot
  BY <1>20 DEF FwBoot, ctxVars, locals, reqRing, resRing, fwVars, history
<1>21. CASE Vanish
  BY <1>21 DEF Vanish, ctxVars, locals, reqRing, resRing, fwVars, history
<1>22. CASE RestrictDevice
  BY <1>22 DEF RestrictDevice, LockFree, ctxVars, locals, reqRing, resRing, fwVars,
     history
<1>23. CASE ChipReset
  <2>. QED BY <1>23 DEF ChipReset, ctxVars, NoAccessWhileRestricted
<1>24. CASE Unrestrict
  BY <1>24 DEF Unrestrict, LockFree, ctxVars, locals, reqRing, resRing, fwVars,
     history
<1>25. CASE UNCHANGED vars
  BY <1>25 DEF vars
<1>. QED BY <1>1, <1>2, <1>3, <1>4, <1>5, <1>6, <1>7, <1>8, <1>9, <1>10, <1>11,
  <1>12, <1>13, <1>14, <1>15, <1>16, <1>17, <1>18, <1>19, <1>20, <1>21, <1>22,
  <1>23, <1>24, <1>25 DEF Next, Exchange, Firmware

\* Until a timeout the rings hold one request at most, that of the caller inside.
LEMMA OutstandingStep == ASSUME IInv, [Next]_vars PROVE OneOutstanding'
<1> USE DEF IInv, TypeOK, LockState, InExchange, Goto, OneOutstanding, Published,
    Waiting, Worked, Answered, RequestsEmpty, ResponsesEmpty
<1>1. ASSUME NEW c \in Callers, Call(c) PROVE OneOutstanding'
  BY <1>1 DEF Call, Begin, Holds, ctxVars, locals, reqRing, resRing, fwVars, history
<1>2. CASE ArcStatus
  BY <1>2 DEF ArcStatus, Begin, Holds, ctxVars, locals, reqRing, resRing, fwVars,
     history
<1>3. ASSUME NEW c \in Callers, Acquire(c) PROVE OneOutstanding'
  BY <1>3 DEF Acquire, Holds, Refused, LockFree, Finish, ctxVars, locals, reqRing,
     resRing, fwVars, history
<1>4. ASSUME NEW c \in Callers, ProbeRoute(c) PROVE OneOutstanding'
  BY <1>4 DEF ProbeRoute, Holds, ctxVars, locals, reqRing, resRing, fwVars, history
<1>5. ASSUME NEW c \in Callers, ProbeFails(c) PROVE OneOutstanding'
  BY <1>5 DEF ProbeFails, Holds, Finish, ctxVars, locals, reqRing, resRing, fwVars,
     history
<1>6. ASSUME NEW c \in Callers, ReadControlBlock(c) PROVE OneOutstanding'
  BY <1>6 DEF ReadControlBlock, Holds, Finish, ctxVars, locals, reqRing, resRing,
     fwVars, history
<1>7. ASSUME NEW c \in Callers, Drain(c) PROVE OneOutstanding'
  <2>1. /\ pc[c] = "drain" /\ UNCHANGED <<gone, timedOut, working, reqWptr, reqRptr,
                                          resWptr>>
        /\ pc' = pc \/ pc' = [pc EXCEPT ![c] = "push"]
    BY <1>7 DEF Drain, Holds, fwVars, history, reqRing
  <2>2. \A d \in Callers : ~Published(d) /\ ~Published(d)'
    BY <2>1
  <2>3. timedOut = {} /\ ~gone => resWptr = resRptr
    BY <2>2
  <2>4. timedOut = {} /\ ~gone => resRptr' = resRptr
    BY <1>7, <2>3, ReadyFacts DEF Drain
  <2>. QED BY <2>1, <2>2, <2>3, <2>4
<1>8. ASSUME NEW c \in Callers, Push(c) PROVE OneOutstanding'
  <2>1. /\ pc[c] = "push"
        /\ UNCHANGED <<msg, reqWptr, reqRptr, resWptr, resRptr, resSlots, working, gone,
                       timedOut>>
    BY <1>8 DEF Push, Holds, locals, resRing, fwVars, history
  <2>2. pc' = [pc EXCEPT ![c] = "idle"] \/ pc' = [pc EXCEPT ![c] = "publish"]
    BY <1>8 DEF Push, Finish
  <2>3. /\ \A d \in Callers : ~Published(d) /\ ~Published(d)'
    BY <2>1, <2>2
  <2>. QED BY <2>1, <2>3
<1>9. ASSUME NEW c \in Callers, Publish(c) PROVE OneOutstanding'
  <2>1. /\ pc[c] = "publish" /\ reqSlots[Slot(reqWptr)] = msg[c]
        /\ pc' = [pc EXCEPT ![c] = "ring"]
        /\ UNCHANGED <<msg, reqRptr, reqSlots, resWptr, resRptr, resSlots, working, gone,
                       timedOut>>
        /\ ~gone => reqWptr' = Advance(reqWptr)
    BY <1>9 DEF Publish, Holds, locals, resRing, fwVars, RequestSlots
  <2>2. \A d \in Callers : ~Published(d) /\ (Published(d)' => d = c)
    BY <2>1
  <2>. QED BY <2>1, <2>2
<1>10. ASSUME NEW c \in Callers, RingDoorbell(c) PROVE OneOutstanding'
  BY <1>10 DEF RingDoorbell, Holds, ctxVars, locals, reqRing, resRing, fwVars,
     history
<1>11. ASSUME NEW c \in Callers, PollPointers(c) PROVE OneOutstanding'
  <2>1. /\ pc[c] = "poll"
        /\ UNCHANGED <<msg, reqWptr, reqRptr, reqSlots, resWptr, resRptr, resSlots, working,
                       gone, timedOut>>
    BY <1>11 DEF PollPointers, Holds, locals, reqRing, resRing, fwVars, history
  <2>2. ~gone => resWptr # resRptr /\ pc' = [pc EXCEPT ![c] = "read"]
    BY <1>11, ReadyFacts DEF PollPointers
  <2>. QED BY <2>1, <2>2
<1>12. ASSUME NEW c \in Callers, PollRead(c) PROVE OneOutstanding'
  BY <1>12 DEF PollRead, Holds, ctxVars, locals, reqRing, resRing, fwVars, history
<1>13. ASSUME NEW c \in Callers, PollAck(c) PROVE OneOutstanding'
  <2>1. /\ pc[c] = "ack" /\ pc' = [pc EXCEPT ![c] = "idle"]
        /\ UNCHANGED <<msg, reqWptr, reqRptr, reqSlots, resWptr, resSlots, working, gone,
                       timedOut>>
        /\ ~gone => resRptr' = Advance(resRptr)
    BY <1>13 DEF PollAck, Holds, Finish, locals, reqRing, fwVars, history
  <2>2. \A d \in Callers : (Published(d) => d = c) /\ ~Published(d)'
    BY <2>1
  <2>. QED BY <2>1, <2>2
<1>14. ASSUME NEW c \in Callers, PollTimeout(c) PROVE OneOutstanding'
  <2>. QED BY <1>14 DEF PollTimeout
<1>15. CASE ReleaseHardware
  BY <1>15 DEF ReleaseHardware, ReleaseSafe, LockFree, ctxVars, locals, reqRing,
     resRing, fwVars, history
<1>16. CASE PrepareHardware
  BY <1>16 DEF PrepareHardware, ctxVars, locals, reqRing, resRing, fwVars, history
<1>17. CASE FwTake
  <2>1. /\ reqRptr # reqWptr /\ working = NoMsg /\ reqRptr' = Advance(reqRptr)
        /\ working' = reqSlots[Slot(reqRptr)]
    BY <1>17, TakeFacts
  <2>2. UNCHANGED <<pc, msg, reqWptr, reqSlots, resWptr, resRptr, resSlots, gone, timedOut>>
    BY <1>17 DEF FwTake, locals, resRing
  <2>. QED BY <2>1, <2>2
<1>18. CASE FwAnswer
  <2>1. /\ working \in Msgs /\ working' = NoMsg /\ resWptr' = Advance(resWptr)
        /\ resSlots' = [resSlots EXCEPT ![Slot(resWptr)] = working]
        /\ resWptr \in Pointers /\ Slot(resWptr) \in Slots
    BY <1>18, AnswerFacts, PointerFacts
  <2>2. UNCHANGED <<pc, msg, reqWptr, reqRptr, reqSlots, resRptr, gone, timedOut>>
    BY <1>18 DEF FwAnswer, locals, reqRing, history
  <2>3. working # NoMsg
    BY <2>1 DEF Msgs, NoMsg
  <2>4. resWptr = resRptr => resSlots'[Slot(resRptr)] = working
    BY <2>1
  <2>. QED BY <2>1, <2>2, <2>3, <2>4
<1>19. CASE FwSleep
  BY <1>19 DEF FwSleep, ctxVars, locals, reqRing, resRing, fwVars, history
<1>20. CASE FwBoot
  BY <1>20 DEF FwBoot, ctxVars, locals, reqRing, resRing, fwVars, history
<1>21. CASE Vanish
  <2>. QED BY <1>21 DEF Vanish
<1>22. CASE RestrictDevice
  BY <1>22 DEF RestrictDevice, LockFree, ctxVars, locals, reqRing, resRing, fwVars,
     history
<1>23. CASE ChipReset
  <2>1. \A d \in Callers : pc'[d] \in {"idle", "want"}
    BY <1>23 DEF ChipReset, ctxVars, NoAccessWhileRestricted
  <2>. QED BY <1>23, <2>1 DEF ChipReset
<1>24. CASE Unrestrict
  BY <1>24 DEF Unrestrict, LockFree, ctxVars, locals, reqRing, resRing, fwVars,
     history
<1>25. CASE UNCHANGED vars
  BY <1>25 DEF vars
<1>. QED BY <1>1, <1>2, <1>3, <1>4, <1>5, <1>6, <1>7, <1>8, <1>9, <1>10, <1>11,
  <1>12, <1>13, <1>14, <1>15, <1>16, <1>17, <1>18, <1>19, <1>20, <1>21, <1>22,
  <1>23, <1>24, <1>25 DEF Next, Exchange, Firmware

\* Until a timeout a caller reads the answer to its request.
LEMMA OwnStep == ASSUME IInv, [Next]_vars PROVE AnswerOwnUntilTimeout'
<1> USE DEF IInv, TypeOK, LockState, InExchange, Goto, AnswerOwnUntilTimeout
<1>1. ASSUME NEW c \in Callers, Call(c) PROVE AnswerOwnUntilTimeout'
  BY <1>1 DEF Call, Begin, Holds, ctxVars, locals, reqRing, resRing, fwVars, history
<1>2. CASE ArcStatus
  BY <1>2 DEF ArcStatus, Begin, Holds, ctxVars, locals, reqRing, resRing, fwVars,
     history
<1>3. ASSUME NEW c \in Callers, Acquire(c) PROVE AnswerOwnUntilTimeout'
  BY <1>3 DEF Acquire, Holds, Refused, LockFree, Finish, ctxVars, locals, reqRing,
     resRing, fwVars, history
<1>4. ASSUME NEW c \in Callers, ProbeRoute(c) PROVE AnswerOwnUntilTimeout'
  BY <1>4 DEF ProbeRoute, Holds, ctxVars, locals, reqRing, resRing, fwVars, history
<1>5. ASSUME NEW c \in Callers, ProbeFails(c) PROVE AnswerOwnUntilTimeout'
  BY <1>5 DEF ProbeFails, Holds, Finish, ctxVars, locals, reqRing, resRing, fwVars,
     history
<1>6. ASSUME NEW c \in Callers, ReadControlBlock(c) PROVE AnswerOwnUntilTimeout'
  BY <1>6 DEF ReadControlBlock, Holds, Finish, ctxVars, locals, reqRing, resRing,
     fwVars, history
<1>7. ASSUME NEW c \in Callers, Drain(c) PROVE AnswerOwnUntilTimeout'
  BY <1>7 DEF Drain, Holds, ctxVars, locals, reqRing, resRing, fwVars, history
<1>8. ASSUME NEW c \in Callers, Push(c) PROVE AnswerOwnUntilTimeout'
  BY <1>8 DEF Push, Holds, Finish, ctxVars, locals, reqRing, resRing, fwVars,
     history
<1>9. ASSUME NEW c \in Callers, Publish(c) PROVE AnswerOwnUntilTimeout'
  BY <1>9 DEF Publish, Holds, ctxVars, locals, reqRing, resRing, fwVars, history
<1>10. ASSUME NEW c \in Callers, RingDoorbell(c) PROVE AnswerOwnUntilTimeout'
  BY <1>10 DEF RingDoorbell, Holds, ctxVars, locals, reqRing, resRing, fwVars,
     history
<1>11. ASSUME NEW c \in Callers, PollPointers(c) PROVE AnswerOwnUntilTimeout'
  BY <1>11 DEF PollPointers, Holds, Finish, ctxVars, locals, reqRing, resRing,
     fwVars, history
<1>12. ASSUME NEW c \in Callers, PollRead(c) PROVE AnswerOwnUntilTimeout'
  <2>1. pc[c] = "read" /\ UNCHANGED <<gone, timedOut, msg>>
    BY <1>12 DEF PollRead, Holds, fwVars, history
  <2>2. timedOut = {} /\ ~gone => resSlots[Slot(resRptr)] = msg[c]
    BY <2>1 DEF OneOutstanding, Published, Answered
  <2>. QED BY <1>12, <2>1, <2>2 DEF PollRead
<1>13. ASSUME NEW c \in Callers, PollAck(c) PROVE AnswerOwnUntilTimeout'
  BY <1>13 DEF PollAck, Holds, Finish, ctxVars, locals, reqRing, resRing, fwVars,
     history
<1>14. ASSUME NEW c \in Callers, PollTimeout(c) PROVE AnswerOwnUntilTimeout'
  <2>. QED BY <1>14 DEF PollTimeout
<1>15. CASE ReleaseHardware
  BY <1>15 DEF ReleaseHardware, ReleaseSafe, LockFree, ctxVars, locals, reqRing,
     resRing, fwVars, history
<1>16. CASE PrepareHardware
  BY <1>16 DEF PrepareHardware, ctxVars, locals, reqRing, resRing, fwVars, history
<1>17. CASE FwTake
  BY <1>17 DEF FwTake, ctxVars, locals, reqRing, resRing, fwVars, history
<1>18. CASE FwAnswer
  BY <1>18 DEF FwAnswer, ctxVars, locals, reqRing, resRing, fwVars, history
<1>19. CASE FwSleep
  BY <1>19 DEF FwSleep, ctxVars, locals, reqRing, resRing, fwVars, history
<1>20. CASE FwBoot
  BY <1>20 DEF FwBoot, ctxVars, locals, reqRing, resRing, fwVars, history
<1>21. CASE Vanish
  BY <1>21 DEF Vanish, ctxVars, locals, reqRing, resRing, fwVars, history
<1>22. CASE RestrictDevice
  BY <1>22 DEF RestrictDevice, LockFree, ctxVars, locals, reqRing, resRing, fwVars,
     history
<1>23. CASE ChipReset
  <2>1. \A d \in Callers : pc'[d] \in {"idle", "want"}
    BY <1>23 DEF ChipReset, ctxVars, NoAccessWhileRestricted
  <2>. QED BY <2>1
<1>24. CASE Unrestrict
  BY <1>24 DEF Unrestrict, LockFree, ctxVars, locals, reqRing, resRing, fwVars,
     history
<1>25. CASE UNCHANGED vars
  BY <1>25 DEF vars
<1>. QED BY <1>1, <1>2, <1>3, <1>4, <1>5, <1>6, <1>7, <1>8, <1>9, <1>10, <1>11,
  <1>12, <1>13, <1>14, <1>15, <1>16, <1>17, <1>18, <1>19, <1>20, <1>21, <1>22,
  <1>23, <1>24, <1>25 DEF Next, Exchange, Firmware

-----------------------------------------------------------------------------
\* The initial states satisfy the invariant.
LEMMA InitIInv == Init => IInv
<1> SUFFICES ASSUME Init PROVE IInv
  OBVIOUS
<1> USE DEF Init
<1>1. TypeOK
  <2>1. {reqWptr, reqRptr, resWptr, resRptr} \subseteq Pointers
    BY StartFacts
  <2>2. <<>> \in Seq(Msgs) /\ mapped \subseteq Routes
    BY DEF StartedRoutes
  <2>. QED BY <2>1, <2>2, StartFacts DEF TypeOK
<1>2. \A c \in Callers : ~InExchange(c) /\ ~Published(c) /\ pc[c] = "idle"
  BY DEF InExchange, Published
<1>3. LockState /\ NoAccessWhileRestricted /\ NoUnmappedAccess /\ RouteAnswered
  BY <1>2, CallersAssumption
     DEF LockState, NoAccessWhileRestricted, NoUnmappedAccess, RouteAnswered
<1>4. MessageState /\ AnswerWasAsked /\ AnswerOwnUntilTimeout
  BY <1>2 DEF MessageState, AnswerWasAsked, AnswerOwnUntilTimeout
<1>5. RequestSlots /\ ResponseSlots
  <2>1. \A s \in Slots : 0 <= s
    BY RingAssumption DEF Slots
  <2>. QED BY <1>2, <2>1 DEF RequestSlots, ResponseSlots
<1>6. OneOutstanding
  BY <1>2 DEF OneOutstanding, RequestsEmpty, ResponsesEmpty
<1>. QED BY <1>1, <1>3, <1>4, <1>5, <1>6 DEF IInv

\* The strengthened invariant holds in every state of every behaviour.
THEOREM Invariance == Spec => []IInv
<1>1. Init => IInv
  BY InitIInv
<1>2. IInv /\ [Next]_vars => IInv'
  BY TypeStep, LockStep, AccessStep, MessageStep, RequestSlotsStep, ResponseSlotsStep,
     AskedStep, OutstandingStep, OwnStep DEF IInv
<1>. QED BY <1>1, <1>2, PTL DEF Spec

\* Pointers, loop counters and messages stay in their ranges.
THEOREM TypeCorrect == Spec => []TypeOK
<1>1. IInv => TypeOK
  BY DEF IInv
<1>. QED BY <1>1, Invariance, PTL

\* The kernel window and the rings have one user at a time: TtWindArcMsgSendSync
\* and ARC_STATUS take ArcLock before the first register access.
THEOREM ExchangesApart == Spec => []OneExchange
<1>1. IInv => OneExchange
  BY DEF IInv, LockState, OneExchange
<1>. QED BY <1>1, Invariance, PTL

\* NeedsHwInit is tested under ArcLock, so nothing gets through to a device that
\* was restricted while a caller waited for the lock.
THEOREM RestrictedUntouched == Spec => []NoAccessWhileRestricted
<1>1. IInv => NoAccessWhileRestricted
  BY DEF IInv
<1>. QED BY <1>1, Invariance, PTL

\* So are the kernel mappings: none is used after ReleaseHardware unmapped it.
THEOREM MappedAccess == Spec => []NoUnmappedAccess
<1>1. IInv => NoUnmappedAccess
  BY DEF IInv
<1>. QED BY <1>1, Invariance, PTL

\* A cached route is probed again, and the rings are driven only through one that
\* has answered since the chip last booted.
THEOREM RouteLive == Spec => []RouteAnswered
<1>1. IInv => RouteAnswered
  BY DEF IInv
<1>. QED BY <1>1, Invariance, PTL

\* Whatever is read from the response ring answers a request the firmware took
\* since the chip reset, never an empty or a half-written slot.
THEOREM AnswersAsked == Spec => []AnswerWasAsked
<1>1. IInv => AnswerWasAsked
  BY DEF IInv
<1>. QED BY <1>1, Invariance, PTL

\* As long as no exchange has timed out the answer is the one to this request.
THEOREM AnswersOwn == Spec => []AnswerOwnUntilTimeout
<1>1. IInv => AnswerOwnUntilTimeout
  BY DEF IInv
<1>. QED BY <1>1, Invariance, PTL

-----------------------------------------------------------------------------
(* The request ring as a queue.                                            *)

\* Quotient and remainder.
LEMMA ModQuotient ==
    ASSUME NEW m \in Nat \ {0}, NEW x \in Nat
    PROVE  /\ x \div m \in Nat /\ x % m \in 0 .. m - 1
           /\ x = m * (x \div m) + (x % m)
<1>1. x \div m \in Nat
  OBVIOUS
<1>2. x % m \in 0 .. m - 1
  OBVIOUS
<1>3. x = m * (x \div m) + (x % m)
  OBVIOUS
<1>. QED BY <1>1, <1>2, <1>3

\* The remainder is the only one.
LEMMA ModUnique ==
    ASSUME NEW m \in Nat \ {0}, NEW q \in Nat, NEW r \in 0 .. m - 1
    PROVE  (m * q + r) % m = r
OBVIOUS

\* A remainder is its own remainder.
LEMMA ModSmall ==
    ASSUME NEW m \in Nat \ {0}, NEW r \in 0 .. m - 1
    PROVE  r % m = r /\ (m + r) % m = r
OBVIOUS

\* Adding one commutes with reducing.
LEMMA ModAdd ==
    ASSUME NEW m \in Nat \ {0}, NEW x \in Nat
    PROVE  ((x % m) + 1) % m = (x + 1) % m
<1> DEFINE q == x \div m
           r == x % m
<1>1. q \in Nat /\ r \in 0 .. m - 1 /\ x = m * q + r
  BY ModQuotient
<1> HIDE DEF q, r
<1>2. CASE r + 1 < m
  <2>1. x + 1 = m * q + (r + 1)
    BY <1>1
  <2>2. (x + 1) % m = r + 1
    BY <1>1, <1>2, <2>1, ModUnique
  <2>3. r + 1 \in 0 .. m - 1
    BY <1>1, <1>2
  <2>4. (r + 1) % m = r + 1
    BY <2>3, ModSmall
  <2>. QED BY <2>2, <2>4 DEF r
<1>3. CASE r + 1 = m
  <2>1. x + 1 = m * (q + 1) + 0
    BY <1>1, <1>3
  <2>2. (x + 1) % m = 0
    <3>1. q + 1 \in Nat /\ 0 \in 0 .. m - 1
      BY <1>1
    <3>. QED BY <2>1, <3>1, ModUnique
  <2>3. (m + 0) % m = 0
    BY ModSmall
  <2>. QED BY <1>1, <1>3, <2>2, <2>3 DEF r
<1>. QED BY <1>1, <1>2, <1>3

\* Reducing modulo 2n first does not change the slot.
LEMMA ModMod ==
    ASSUME NEW n \in Nat \ {0}, NEW x \in Nat
    PROVE  (x % (2 * n)) % n = x % n
<1> DEFINE q == x \div (2 * n)
           r == x % (2 * n)
           p == r \div n
<1>1. q \in Nat /\ r \in Nat /\ x = (2 * n) * q + r
  <2>1. 2 * n \in Nat \ {0}
    OBVIOUS
  <2>2. q \in Nat /\ r \in 0 .. (2 * n) - 1
    BY <2>1, ModQuotient
  <2>3. x = (2 * n) * q + r
    BY <2>1, ModQuotient
  <2>. QED BY <2>1, <2>2, <2>3
<1> HIDE DEF q, r
<1>2. p \in Nat /\ r % n \in 0 .. n - 1 /\ r = n * p + (r % n)
  BY <1>1, ModQuotient
<1> HIDE DEF p
<1>3. x = n * (2 * q + p) + (r % n)
  <2>1. n * (2 * q + p) = 2 * n * q + n * p
    BY <1>1, <1>2
  <2>. QED BY <1>1, <1>2, <2>1
<1>4. x % n = r % n
  <2>1. 2 * q + p \in Nat
    BY <1>1, <1>2
  <2>2. (n * (2 * q + p) + (r % n)) % n = r % n
    BY <1>2, <2>1, ModUnique
  <2>. QED BY <1>3, <2>2
<1>. QED BY <1>4 DEF r

\* Positions less than a ring apart are in different slots.
LEMMA ModDistinct ==
    ASSUME NEW n \in Nat \ {0}, NEW x \in Nat, NEW y \in Nat, x < y, y < x + n
    PROVE  (x % n) # (y % n)
<1> SUFFICES ASSUME x % n = y % n PROVE FALSE
  OBVIOUS
<1> DEFINE a == x \div n
           b == y \div n
           r == x % n
<1>1. a \in Nat /\ b \in Nat /\ r \in 0 .. n - 1 /\ x = n * a + r /\ y = n * b + r
  BY ModQuotient
<1> HIDE DEF a, b, r
<1>2. CASE a < b
  <2>1. n * a + n <= n * b
    BY <1>1, <1>2
  <2>. QED BY <1>1, <2>1
<1>3. CASE b <= a
  <2>1. n * b <= n * a
    BY <1>1, <1>3
  <2>. QED BY <1>1, <2>1
<1>. QED BY <1>1, <1>2, <1>3

\* The distance of two positions is that of their pointers.
LEMMA ModDistance ==
    ASSUME NEW m \in Nat \ {0}, NEW x \in Nat, NEW d \in 0 .. m - 1
    PROVE  (m + ((x + d) % m) - (x % m)) % m = d
<1> DEFINE q == x \div m
           r == x % m
<1>1. q \in Nat /\ r \in 0 .. m - 1 /\ x = m * q + r
  BY ModQuotient
<1>2. x % m = r
  OBVIOUS
<1> HIDE DEF q, r
<1>3. CASE r + d < m
  <2>1. x + d = m * q + (r + d) /\ r + d \in 0 .. m - 1
    BY <1>1, <1>3
  <2>2. (x + d) % m = r + d
    BY <1>1, <2>1, ModUnique
  <2>3. m + (r + d) - r = m + d
    BY <1>1
  <2>4. (m + d) % m = d
    BY ModSmall
  <2>. QED BY <1>2, <2>2, <2>3, <2>4
<1>4. CASE r + d >= m
  <2>1. x + d = m * (q + 1) + (r + d - m) /\ r + d - m \in 0 .. m - 1 /\ q + 1 \in Nat
    BY <1>1, <1>4
  <2>2. (x + d) % m = r + d - m
    BY <2>1, ModUnique
  <2>3. m + (r + d - m) - r = d
    BY <1>1
  <2>4. d % m = d
    BY ModSmall
  <2>. QED BY <1>2, <2>2, <2>3, <2>4
<1>. QED BY <1>1, <1>3, <1>4

\* A difference that wraps at a multiple of m is right modulo m.
LEMMA ModWrap ==
    ASSUME NEW m \in Nat \ {0}, NEW k \in Nat \ {0},
           NEW w \in 0 .. m - 1, NEW r \in 0 .. m - 1
    PROVE  ((m * k + w - r) % (m * k)) % m = (m + w - r) % m
<1>1. m * k \in Nat \ {0} /\ m <= m * k /\ m * k = m * (k - 1) + m
  OBVIOUS
<1>2. CASE w >= r
  <2>1. w - r \in 0 .. m - 1 /\ w - r \in 0 .. m * k - 1
    BY <1>1, <1>2
  <2>2. (m * k + (w - r)) % (m * k) = w - r
    BY <1>1, <2>1, ModSmall
  <2>3. m * k + w - r = m * k + (w - r) /\ m + w - r = m + (w - r)
    BY <1>1
  <2>. QED BY <2>1, <2>2, <2>3, ModSmall
<1>3. CASE w < r
  <2>1. m + w - r \in 0 .. m - 1 /\ m * k + w - r \in 0 .. m * k - 1
    BY <1>1, <1>3
  <2>2. (m * k + w - r) % (m * k) = m * k + w - r
    BY <1>1, <2>1, ModSmall
  <2>3. m * k + w - r = m * (k - 1) + (m + w - r)
    BY <1>1
  <2>4. (m * (k - 1) + (m + w - r)) % m = m + w - r
    BY <2>1, ModUnique, k - 1 \in Nat
  <2>. QED BY <2>1, <2>2, <2>3, <2>4, ModSmall
<1>. QED BY <1>2, <1>3

\* A pointer that counts a length counts the next one.
LEMMA AdvanceLen == \A n \in Nat : Advance(n % (2 * NumEntries)) = (n + 1) % (2 * NumEntries)
<1>1. 2 * NumEntries \in Nat \ {0}
  BY RingAssumption
<1>. QED BY <1>1, ModAdd DEF Advance

\* The lengths are numbers.
LEMMA RingFacts ==
    TypeOK => Len(pushed) \in Nat /\ Len(taken) \in Nat /\ NumEntries \in Nat \ {0}
BY RingAssumption DEF TypeOK

\* The occupancy the driver computes is the one the pointers mean when 2n
\* divides 2^32.
LEMMA OccupancyIsTrue ==
    ASSUME RingDivides, NEW w \in Pointers, NEW r \in Pointers
    PROVE  Occupancy(w, r) = TrueOccupancy(w, r)
<1>1. PICK k \in 1 .. WordModulus : WordModulus = (2 * NumEntries) * k
  BY DEF RingDivides
<1>2. 2 * NumEntries \in Nat \ {0} /\ k \in Nat \ {0}
  BY RingAssumption
<1> DEFINE m == 2 * NumEntries
<1>3. m \in Nat \ {0} /\ w \in 0 .. m - 1 /\ r \in 0 .. m - 1
  BY <1>2 DEF Pointers
<1>4. WordModulus = m * k
  BY <1>1
<1>5. Occupancy(w, r) = ((m * k + w - r) % (m * k)) % m
  BY <1>4 DEF Occupancy
<1>6. TrueOccupancy(w, r) = (m + w - r) % m
  BY DEF TrueOccupancy
<1> HIDE DEF m
<1>. QED BY <1>2, <1>3, <1>5, <1>6, ModWrap

\* And with any ring while the write pointer is ahead of the read pointer.
LEMMA OccupancyAhead ==
    ASSUME NEW w \in Pointers, NEW r \in Pointers, r <= w
    PROVE  Occupancy(w, r) = TrueOccupancy(w, r)
<1>1. /\ 2 * NumEntries \in Nat \ {0} /\ WordModulus \in Nat \ {0}
      /\ 2 * NumEntries < WordModulus
  BY RingAssumption
<1>2. w - r \in 0 .. 2 * NumEntries - 1 /\ w - r \in 0 .. WordModulus - 1
  BY <1>1 DEF Pointers
<1>3. /\ WordModulus + w - r = WordModulus + (w - r)
      /\ 2 * NumEntries + w - r = 2 * NumEntries + (w - r)
  BY <1>1 DEF Pointers
<1>4. (WordModulus + (w - r)) % WordModulus = w - r
  BY <1>1, <1>2, ModSmall
<1>5. (2 * NumEntries + (w - r)) % (2 * NumEntries) = w - r
  BY <1>1, <1>2, ModSmall
<1>6. (w - r) % (2 * NumEntries) = w - r
  BY <1>1, <1>2, ModSmall
<1>. QED BY <1>3, <1>4, <1>5, <1>6 DEF Occupancy, TrueOccupancy

\* It is the number of requests that wait.
LEMMA RingCount ==
    ASSUME TypeOK, RingSound, RingCounts
    PROVE  /\ Occupancy(reqWptr, reqRptr) = Len(pushed) - Len(taken)
           /\ TrueOccupancy(reqWptr, reqRptr) = Len(pushed) - Len(taken)
<1> DEFINE d == Len(pushed) - Len(taken)
           m == 2 * NumEntries
<1>1. /\ m \in Nat \ {0} /\ d \in 0 .. m - 1 /\ Len(taken) \in Nat
      /\ Len(pushed) = Len(taken) + d
  <2>1. /\ NumEntries \in Nat \ {0} /\ Len(pushed) \in Nat /\ Len(taken) \in Nat
        /\ Len(taken) <= Len(pushed) /\ Len(pushed) <= Len(taken) + NumEntries
    BY RingFacts DEF RingCounts
  <2>. QED BY <2>1
<1>2. reqWptr = (Len(taken) + d) % m /\ reqRptr = Len(taken) % m
  BY <1>1 DEF RingCounts
<1> HIDE DEF d, m
<1>3. (m + ((Len(taken) + d) % m) - (Len(taken) % m)) % m = d
  BY <1>1, ModDistance
<1>4. TrueOccupancy(reqWptr, reqRptr) = d
  BY <1>2, <1>3 DEF TrueOccupancy, m
<1>5. CASE RingDivides
  BY <1>4, <1>5, OccupancyIsTrue DEF TypeOK, d
<1>6. CASE Len(pushed) < 2 * NumEntries
  <2>1. Len(pushed) \in 0 .. m - 1 /\ Len(taken) \in 0 .. m - 1
    BY <1>1, <1>6 DEF m
  <2>2. reqWptr = Len(pushed) /\ reqRptr = Len(taken)
    BY <1>1, <1>2, <2>1, ModSmall
  <2>3. reqRptr <= reqWptr
    BY <1>1, <2>2
  <2>. QED BY <1>4, <2>3, OccupancyAhead DEF TypeOK, d
<1>. QED BY <1>5, <1>6 DEF RingSound

\* The write pointer's slot is that of the next request, and no waiting request's.
LEMMA WriteSlot ==
    ASSUME TypeOK, RingCounts
    PROVE  /\ Slot(reqWptr) = Len(pushed) % NumEntries /\ Slot(reqWptr) \in Slots
           /\ Len(pushed) < Len(taken) + NumEntries =>
                 \A i \in Len(taken) + 1 .. Len(pushed) :
                     (i - 1) % NumEntries \in Slots /\ (i - 1) % NumEntries # Slot(reqWptr)
<1>1. Slot(reqWptr) = Len(pushed) % NumEntries
  BY ModMod, RingFacts DEF RingCounts, Slot
<1>2. Slot(reqWptr) \in Slots
  BY PointerFacts DEF TypeOK
<1>3. ASSUME Len(pushed) < Len(taken) + NumEntries,
             NEW i \in Len(taken) + 1 .. Len(pushed)
      PROVE  (i - 1) % NumEntries \in Slots /\ (i - 1) % NumEntries # Slot(reqWptr)
  <2>1. i - 1 \in Nat /\ i - 1 < Len(pushed) /\ Len(pushed) < (i - 1) + NumEntries
    BY <1>3, RingFacts
  <2>2. (i - 1) % NumEntries # Len(pushed) % NumEntries
    BY <2>1, ModDistinct, RingFacts
  <2>3. (i - 1) % NumEntries \in Slots
    BY <2>1, RingFacts DEF Slots
  <2>. QED BY <1>1, <2>2, <2>3
<1>. QED BY <1>1, <1>2, <1>3

\* The read pointer's slot holds the first request that waits.
LEMMA ReadSlot ==
    ASSUME TypeOK, RingCounts, Len(taken) + 1 <= Len(pushed)
    PROVE  reqSlots[Slot(reqRptr)] = pushed[Len(taken) + 1]
<1>1. Slot(reqRptr) = Len(taken) % NumEntries
  BY ModMod, RingFacts DEF RingCounts, Slot
<1>2. (Len(taken) + 1) - 1 = Len(taken) /\ Len(taken) + 1 \in Len(taken) + 1 .. Len(pushed)
  BY RingFacts
<1>. QED BY <1>1, <1>2 DEF RingCounts

\* Every step keeps the count.
LEMMA RingStep == ASSUME IInv, RingState, [Next]_vars PROVE RingState'
<1>t. TypeOK /\ Len(pushed) \in Nat /\ Len(taken) \in Nat /\ NumEntries \in Nat \ {0}
  BY RingFacts DEF IInv
<1> USE <1>t DEF TypeOK, Goto
<1>1. ASSUME NEW c \in Callers, Call(c) PROVE RingState'
  BY <1>1 DEF Call, Begin, Holds, ctxVars, locals, reqRing, resRing, fwVars,
     history, RingState, RingSound, RingCounts
<1>2. CASE ArcStatus
  BY <1>2 DEF ArcStatus, Begin, Holds, ctxVars, locals, reqRing, resRing, fwVars,
     history, RingState, RingSound, RingCounts
<1>3. ASSUME NEW c \in Callers, Acquire(c) PROVE RingState'
  BY <1>3 DEF Acquire, Holds, Refused, LockFree, Finish, ctxVars, locals, reqRing,
     resRing, fwVars, history, RingState, RingSound, RingCounts
<1>4. ASSUME NEW c \in Callers, ProbeRoute(c) PROVE RingState'
  BY <1>4 DEF ProbeRoute, Holds, ctxVars, locals, reqRing, resRing, fwVars, history,
     RingState, RingSound, RingCounts
<1>5. ASSUME NEW c \in Callers, ProbeFails(c) PROVE RingState'
  BY <1>5 DEF ProbeFails, Holds, Finish, ctxVars, locals, reqRing, resRing, fwVars,
     history, RingState, RingSound, RingCounts
<1>6. ASSUME NEW c \in Callers, ReadControlBlock(c) PROVE RingState'
  BY <1>6 DEF ReadControlBlock, Holds, Finish, ctxVars, locals, reqRing, resRing,
     fwVars, history, RingState, RingSound, RingCounts
<1>7. ASSUME NEW c \in Callers, Drain(c) PROVE RingState'
  BY <1>7 DEF Drain, Holds, ctxVars, locals, reqRing, resRing, fwVars, history,
     RingState, RingSound, RingCounts
<1>8. ASSUME NEW c \in Callers, Push(c) PROVE RingState'
  <2> SUFFICES ASSUME RingSound' PROVE RingCounts'
    BY DEF RingState
  <2>1. pc[c] = "push" /\ UNCHANGED <<reqWptr, reqRptr, pushed, taken>>
    BY <1>8 DEF Push, Holds, history
  <2>s. RingSound /\ RingCounts
    BY <2>1 DEF RingState, RingSound
  <2>2. CASE Finish(c) /\ UNCHANGED reqSlots
    BY <2>1, <2>2, <2>s DEF Finish, RingCounts
  <2>3. CASE /\ reqSlots' = [reqSlots EXCEPT ![Slot(reqWptr)] = msg[c]]
             /\ pc' = [pc EXCEPT ![c] = "publish"] /\ ~RingFull
    <3>1. Len(pushed) < Len(taken) + NumEntries
      BY <2>3, <2>s, RingCount DEF RingFull
    <3>2. ASSUME NEW i \in Len(taken) + 1 .. Len(pushed)
          PROVE  reqSlots'[(i - 1) % NumEntries] = pushed[i]
      <4>1. (i - 1) % NumEntries \in Slots /\ (i - 1) % NumEntries # Slot(reqWptr)
        BY <2>s, <3>1, WriteSlot
      <4>2. reqSlots[(i - 1) % NumEntries] = pushed[i]
        BY <2>s DEF RingCounts
      <4>. QED BY <2>3, <4>1, <4>2
    <3>. QED BY <2>1, <2>3, <2>s, <3>1, <3>2 DEF RingCounts
  <2>. QED BY <1>8, <2>2, <2>3 DEF Push
<1>9. ASSUME NEW c \in Callers, Publish(c) PROVE RingState'
  <2> SUFFICES ASSUME RingSound' PROVE RingCounts'
    BY DEF RingState
  <2>1. /\ pc[c] = "publish" /\ reqSlots[Slot(reqWptr)] = msg[c] /\ msg[c] \in Msgs
        /\ pc' = [pc EXCEPT ![c] = "ring"] /\ UNCHANGED <<reqRptr, reqSlots, taken>>
    BY <1>9 DEF Publish, Holds, IInv, RequestSlots, MessageState
  <2>2. \A d \in Callers : pc'[d] # "publish"
    BY <2>1 DEF IInv, LockState, InExchange
  <2>s. RingSound /\ RingCounts
    <3>1. pushed' = pushed \/ Len(pushed') = Len(pushed) + 1
      BY <1>9, <2>1 DEF Publish
    <3>. QED BY <3>1 DEF RingState, RingSound
  <2>3. CASE UNCHANGED <<reqWptr, pushed>>
    BY <2>1, <2>2, <2>3, <2>s DEF RingCounts
  <2>4. CASE reqWptr' = Advance(reqWptr) /\ pushed' = Append(pushed, msg[c])
    <3>1. reqWptr' = Len(pushed') % (2 * NumEntries) /\ Len(pushed') = Len(pushed) + 1
      BY <2>1, <2>4, <2>s, AdvanceLen DEF RingCounts
    <3>2. /\ \A i \in 1 .. Len(pushed) : pushed'[i] = pushed[i]
          /\ pushed'[Len(pushed) + 1] = msg[c]
      BY <2>1, <2>4
    <3>3. Len(pushed) < Len(taken) + NumEntries
      BY <2>1, <2>s DEF RingCounts
    <3>4. ASSUME NEW i \in Len(taken) + 1 .. Len(pushed')
          PROVE  reqSlots'[(i - 1) % NumEntries] = pushed'[i]
      <4>1. CASE i \in Len(taken) + 1 .. Len(pushed)
        BY <2>1, <2>s, <3>2, <4>1 DEF RingCounts
      <4>2. CASE i = Len(pushed) + 1
        <5>1. i - 1 = Len(pushed) /\ Slot(reqWptr) = Len(pushed) % NumEntries
          BY <2>s, <4>2, WriteSlot
        <5>. QED BY <2>1, <3>2, <4>2, <5>1
      <4>. QED BY <3>1, <4>1, <4>2
    <3>5. reqRptr' = Len(taken') % (2 * NumEntries)
      BY <2>1, <2>s DEF RingCounts
    <3>6. /\ Len(taken) \in Nat /\ Len(pushed) \in Nat /\ NumEntries \in Nat
          /\ Len(taken) <= Len(pushed)
      BY <2>s DEF RingCounts
    <3>7. Len(taken) <= Len(pushed') /\ Len(pushed') <= Len(taken) + NumEntries
      <4> HIDE <1>t DEF TypeOK, Goto
      <4>. QED BY <3>1, <3>3, <3>6
    <3>8. \A i \in 1 .. Len(taken) : taken[i] = pushed'[i]
      <4>1. \A i \in 1 .. Len(taken) : taken[i] = pushed[i] /\ i \in 1 .. Len(pushed)
        BY <2>s, <3>6 DEF RingCounts
      <4>. QED BY <3>2, <4>1
    <3>9. UNCHANGED taken
      BY <2>1
    <3>. QED BY <2>2, <3>1, <3>4, <3>5, <3>7, <3>8, <3>9 DEF RingCounts
  <2>. QED BY <1>9, <2>3, <2>4 DEF Publish
<1>10. ASSUME NEW c \in Callers, RingDoorbell(c) PROVE RingState'
  BY <1>10 DEF RingDoorbell, Holds, ctxVars, locals, reqRing, resRing, fwVars,
     history, RingState, RingSound, RingCounts
<1>11. ASSUME NEW c \in Callers, PollPointers(c) PROVE RingState'
  BY <1>11 DEF PollPointers, Holds, Finish, ctxVars, locals, reqRing, resRing,
     fwVars, history, RingState, RingSound, RingCounts
<1>12. ASSUME NEW c \in Callers, PollRead(c) PROVE RingState'
  BY <1>12 DEF PollRead, Holds, ctxVars, locals, reqRing, resRing, fwVars, history,
     RingState, RingSound, RingCounts
<1>13. ASSUME NEW c \in Callers, PollAck(c) PROVE RingState'
  BY <1>13 DEF PollAck, Holds, Finish, ctxVars, locals, reqRing, resRing, fwVars,
     history, RingState, RingSound, RingCounts
<1>14. ASSUME NEW c \in Callers, PollTimeout(c) PROVE RingState'
  BY <1>14 DEF PollTimeout, Holds, Finish, ctxVars, locals, reqRing, resRing,
     fwVars, history, RingState, RingSound, RingCounts
<1>15. CASE ReleaseHardware
  BY <1>15 DEF ReleaseHardware, ReleaseSafe, LockFree, ctxVars, locals, reqRing,
     resRing, fwVars, history, RingState, RingSound, RingCounts
<1>16. CASE PrepareHardware
  BY <1>16 DEF PrepareHardware, ctxVars, locals, reqRing, resRing, fwVars, history,
     RingState, RingSound, RingCounts
<1>17. CASE FwTake
  <2> SUFFICES ASSUME RingSound' PROVE RingCounts'
    BY DEF RingState
  <2>1. /\ reqRptr # reqWptr /\ reqRptr' = Advance(reqRptr)
        /\ working' = reqSlots[Slot(reqRptr)]
        /\ working' \in Msgs /\ taken' = Append(taken, working')
    BY <1>17, TakeFacts
  <2>2. UNCHANGED <<pc, reqWptr, reqSlots, pushed>>
    BY <1>17 DEF FwTake
  <2>s. RingSound /\ RingCounts
    BY <2>2 DEF RingState, RingSound
  <2>3. Len(taken) + 1 <= Len(pushed)
    BY <2>1, <2>s DEF RingCounts
  <2>4. working' = pushed[Len(taken) + 1]
    BY <2>1, <2>3, <2>s, ReadSlot
  <2>5. /\ Len(taken') = Len(taken) + 1 /\ taken'[Len(taken) + 1] = working'
        /\ \A i \in 1 .. Len(taken) : taken'[i] = taken[i]
    BY <2>1
  <2>6. reqRptr' = Len(taken') % (2 * NumEntries)
    BY <2>1, <2>5, AdvanceLen, <2>s DEF RingCounts
  <2>7. ASSUME NEW i \in 1 .. Len(taken') PROVE taken'[i] = pushed'[i]
    <3>1. CASE i \in 1 .. Len(taken)
      BY <2>2, <2>5, <2>s, <3>1 DEF RingCounts
    <3>2. CASE i = Len(taken) + 1
      BY <2>2, <2>4, <2>5, <3>2
    <3>. QED BY <2>5, <3>1, <3>2
  <2>8. /\ Len(taken') <= Len(pushed) /\ Len(pushed) <= Len(taken') + NumEntries
        /\ \A d \in Callers : pc[d] = "publish" => Len(pushed) < Len(taken') + NumEntries
    BY <2>3, <2>5, <2>s DEF RingCounts
  <2>9. \A i \in Len(taken') + 1 .. Len(pushed) : reqSlots[(i - 1) % NumEntries] = pushed[i]
    <3>1. Len(taken') + 1 .. Len(pushed) \subseteq Len(taken) + 1 .. Len(pushed)
      BY <2>5
    <3>. QED BY <3>1, <2>s DEF RingCounts
  <2>10. reqWptr = Len(pushed) % (2 * NumEntries)
    BY <2>s DEF RingCounts
  <2>. QED BY <2>2, <2>6, <2>7, <2>8, <2>9, <2>10, <2>s DEF RingCounts
<1>18. CASE FwAnswer
  BY <1>18 DEF FwAnswer, ctxVars, locals, reqRing, resRing, fwVars, history,
     RingState, RingSound, RingCounts
<1>19. CASE FwSleep
  BY <1>19 DEF FwSleep, ctxVars, locals, reqRing, resRing, fwVars, history,
     RingState, RingSound, RingCounts
<1>20. CASE FwBoot
  BY <1>20 DEF FwBoot, ctxVars, locals, reqRing, resRing, fwVars, history,
     RingState, RingSound, RingCounts
<1>21. CASE Vanish
  BY <1>21 DEF Vanish, ctxVars, locals, reqRing, resRing, fwVars, history,
     RingState, RingSound, RingCounts
<1>22. CASE RestrictDevice
  BY <1>22 DEF RestrictDevice, LockFree, ctxVars, locals, reqRing, resRing, fwVars,
     history, RingState, RingSound, RingCounts
<1>23. CASE ChipReset
  <2>1. \A d \in Callers : pc'[d] \in {"idle", "want"}
    BY <1>23 DEF ChipReset, ctxVars, IInv, NoAccessWhileRestricted, InExchange
  <2>2. 0 % (2 * NumEntries) = 0 /\ NumEntries \in Nat
    BY RingAssumption
  <2>. QED BY <1>23, <2>1, <2>2 DEF ChipReset, RingState, RingCounts
<1>24. CASE Unrestrict
  BY <1>24 DEF Unrestrict, LockFree, ctxVars, locals, reqRing, resRing, fwVars,
     history, RingState, RingSound, RingCounts
<1>25. CASE UNCHANGED vars
  BY <1>25 DEF vars, RingState, RingSound, RingCounts
<1>. QED BY <1>1, <1>2, <1>3, <1>4, <1>5, <1>6, <1>7, <1>8, <1>9, <1>10, <1>11,
  <1>12, <1>13, <1>14, <1>15, <1>16, <1>17, <1>18, <1>19, <1>20, <1>21, <1>22,
  <1>23, <1>24, <1>25 DEF Next, Exchange, Firmware

\* It holds in every state.
THEOREM RingInvariance == Spec => []RingState
<1>1. Init => RingState
  <2>1. NumEntries \in Nat \ {0} /\ 0 % (2 * NumEntries) = 0
    BY RingAssumption
  <2>. QED BY <2>1 DEF Init, RingState, RingCounts
<1>2. IInv /\ RingState /\ [Next]_vars => RingState'
  BY RingStep
<1>. QED BY <1>1, <1>2, Invariance, PTL DEF Spec

\* TtWindArcTryPush refuses a full ring, so no request is overwritten before the
\* firmware took it, and the pointers tell how many wait.
THEOREM RequestsBounded == Spec => []RequestRingBounded
<1>1. IInv /\ RingState => RequestRingBounded
  <2> SUFFICES ASSUME TypeOK, RingSound, RingCounts PROVE RequestRingBounded
    BY DEF IInv, RingState, RequestRingBounded
  <2>1. TrueOccupancy(reqWptr, reqRptr) = Len(pushed) - Len(taken)
    BY RingCount
  <2>2. Len(pushed) - Len(taken) <= NumEntries
    BY RingFacts DEF RingCounts
  <2>. QED BY <2>1, <2>2 DEF RequestRingBounded
<1>. QED BY <1>1, Invariance, RingInvariance, PTL

\* The firmware gets every published request once, in order, and whole: the write
\* pointer moves after the slot is filled.
THEOREM RequestsOrdered == Spec => []RequestsInOrder
<1>1. IInv /\ RingState => RequestsInOrder
  <2> SUFFICES ASSUME TypeOK, RingSound, RingCounts PROVE RequestsInOrder
    BY DEF IInv, RingState, RequestsInOrder
  <2>1. /\ taken \in Seq(Msgs) /\ pushed \in Seq(Msgs)
        /\ Len(taken) \in Nat /\ Len(taken) <= Len(pushed) /\ Len(pushed) \in Nat
    BY RingFacts DEF TypeOK, RingCounts
  <2>2. taken = SubSeq(pushed, 1, Len(taken))
    <3> DEFINE p == SubSeq(pushed, 1, Len(taken))
    <3>1. p \in Seq(Msgs) /\ Len(p) = Len(taken) /\ \A i \in 1 .. Len(taken) : p[i] = pushed[i]
      BY <2>1
    <3>2. \A i \in 1 .. Len(taken) : p[i] = taken[i]
      BY <3>1 DEF RingCounts
    <3> HIDE DEF p
    <3>3. p = taken
      BY <2>1, <3>1, <3>2
    <3>. QED BY <3>3 DEF p
  <2>3. NoMsg \notin ToSet(taken)
    <3>1. DOMAIN taken = 1 .. Len(taken) /\ \A i \in 1 .. Len(taken) : taken[i] \in Msgs
      BY <2>1
    <3>. QED BY <3>1 DEF ToSet, Msgs, NoMsg
  <2>. QED BY <2>2, <2>3 DEF RequestsInOrder
<1>. QED BY <1>1, Invariance, RingInvariance, PTL

=============================================================================
