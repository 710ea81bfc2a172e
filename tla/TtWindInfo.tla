----------------------------- MODULE TtWindInfo -----------------------------
(***************************************************************************)
(* The command line client, src/tools/ttwind-info, run by several users at *)
(* once.  A command is a script of ioctls: each step names the step that   *)
(* its failure jumps to, as the goto ladders of the source do, and the     *)
(* last step closes the handle.  RESET is the poll loop.                   *)
(*                                                                         *)
(* The driver is seen through its ioctls only, which its sequential queue  *)
(* makes atomic here: the generation fence, the restricted state, who owns *)
(* a window and who has a view.  TtWindMapping and ResetRecovery have the  *)
(* steps behind them.  The device stays started.                           *)
(***************************************************************************)
EXTENDS Naturals, Sequences

CONSTANTS
    Clients,        \* running programs, one handle each
    Windows,        \* TLB windows user programs can get
    NoClient,       \* a free window
    NoWindow,       \* a client that was given none
    MaxPolls,       \* polls in the budget of 15 s (151 in the code)
    MaxGeneration   \* bound: resets in a behaviour

ASSUME NamesAssumption == NoClient \notin Clients /\ NoWindow \notin Windows
ASSUME BoundsAssumption == MaxPolls \in Nat \ {0} /\ MaxGeneration \in Nat

\* One ioctl, or one use of a view, and the step after its failure.
Step(op, fail) == [op |-> op, fail |-> fail]

Close == Step("CLOSE", 0)
OneQuery(op) == <<Step(op, 2), Close>>

\* tlbread and tlbreadx from ALLOCATE_TLB to FREE_TLB; the part of a larger
\* script that starts after step n.
ReadThroughWindow(n) ==
    <<Step("ALLOCATE_TLB", n + 7), Step("CONFIGURE_TLB", n + 6), Step("MAP_TLB", n + 6),
      Step("READ_TLB", 0), Step("UNMAP_TLB", n + 6), Step("FREE_TLB", n + 7)>>

ScriptMutant ==
    [list |-> OneQuery("GET_DEVICE_INFO"),
     arcmsg |-> OneQuery("SMC_MSG"),
     arcstatus |-> OneQuery("ARC_STATUS"),
     sysmem |-> <<Step("QUERY_SYSMEM", 3), Step("SYSMEM_STATUS", 3), Close>>,
     bar0read |-> <<Step("MAP_BAR", 4), Step("READ_BAR", 0), Step("UNMAP_BAR", 4), Close>>,
     tlbread |-> Append(ReadThroughWindow(0), Close),
     sysmemtest |-> <<Step("QUERY_SYSMEM", 11), Step("MAP_SYSMEM", 11),
                      Step("WRITE_SYSMEM", 0)>>
                    \o <<Step("ALLOCATE_TLB", 11), Step("CONFIGURE_TLB", 9),
                         Step("MAP_TLB", 9), Step("READ_TLB", 0), Step("UNMAP_TLB", 9),
                         Step("FREE_TLB", 10)>>
                    \o <<Step("UNMAP_SYSMEM", 11), Close>>,
     reset |-> <<Step("RESET_DEVICE", 3), Step("POST_RESET", 3), Close>>]

Script ==
    [list |-> OneQuery("GET_DEVICE_INFO"),
     arcmsg |-> OneQuery("SMC_MSG"),
     arcstatus |-> OneQuery("ARC_STATUS"),
     sysmem |-> <<Step("QUERY_SYSMEM", 3), Step("SYSMEM_STATUS", 3), Close>>,
     bar0read |-> <<Step("MAP_BAR", 4), Step("READ_BAR", 0), Step("UNMAP_BAR", 4), Close>>,
     tlbread |-> Append(ReadThroughWindow(0), Close),
     sysmemtest |-> <<Step("QUERY_SYSMEM", 11), Step("MAP_SYSMEM", 11),
                      Step("WRITE_SYSMEM", 0)>>
                    \o ReadThroughWindow(3)
                    \o <<Step("UNMAP_SYSMEM", 11), Close>>,
     reset |-> <<Step("RESET_DEVICE", 3), Step("POST_RESET", 3), Close>>]

Commands == DOMAIN Script
Idle == "none"      \* no program runs

\* The view an operation makes, uses or removes.
ViewOf == [MAP_BAR |-> "bar", READ_BAR |-> "bar", UNMAP_BAR |-> "bar",
           MAP_TLB |-> "tlb", READ_TLB |-> "tlb", UNMAP_TLB |-> "tlb",
           MAP_SYSMEM |-> "sysmem", WRITE_SYSMEM |-> "sysmem", UNMAP_SYSMEM |-> "sysmem"]

\* The ioctls that change nothing.
Queries == {"GET_DEVICE_INFO", "SMC_MSG", "ARC_STATUS", "QUERY_SYSMEM", "SYSMEM_STATUS"}
Maps == {"MAP_BAR", "MAP_TLB", "MAP_SYSMEM"}
Unmaps == {"UNMAP_BAR", "UNMAP_TLB", "UNMAP_SYSMEM"}
Uses == {"READ_BAR", "READ_TLB", "WRITE_SYSMEM"}

VARIABLES
    command,        \* what each client runs
    at,             \* the step it is at
    rc,             \* its exit code so far
    window,         \* the TlbId it was given
    polls,          \* failed POST_RESETs so far
    handleGeneration,   \* the generation its handle belongs to
    generation,     \* ctx->ResetGeneration
    needsHwInit,    \* ctx->NeedsHwInit
    owner,          \* TlbOwner
    target,         \* whose CONFIGURE_TLB a window holds
    views,          \* <<client, kind>> of the live views
    armed,          \* the chip's reset timer runs
    marker,         \* the reset marker in its COMMAND register
    fired           \* history: the chip was reset since this client armed it

clientVars == <<command, at, rc, window, polls, handleGeneration>>
chipVars == <<armed, marker, fired>>
vars == <<command, at, rc, window, polls, handleGeneration, generation, needsHwInit,
          owner, target, views, armed, marker, fired>>

Kinds == {"bar", "tlb", "sysmem"}

TypeOK ==
    /\ command \in [Clients -> Commands \cup {Idle}]
    /\ at \in [Clients -> Nat] /\ rc \in [Clients -> 0 .. 2]
    /\ \A c \in Clients : command[c] # Idle => at[c] \in 1 .. Len(Script[command[c]])
    /\ window \in [Clients -> Windows \cup {NoWindow}]
    /\ polls \in [Clients -> 0 .. MaxPolls - 1]
    /\ generation \in 0 .. MaxGeneration
    /\ handleGeneration \in [Clients -> 0 .. MaxGeneration]
    /\ owner \in [Windows -> Clients \cup {NoClient}]
    /\ target \in [Windows -> Clients \cup {NoClient}]
    /\ views \subseteq Clients \X Kinds
    /\ {needsHwInit, armed, marker} \subseteq BOOLEAN /\ fired \in [Clients -> BOOLEAN]

Init ==
    /\ command = [c \in Clients |-> Idle] /\ at = [c \in Clients |-> 1]
    /\ rc = [c \in Clients |-> 2] /\ window = [c \in Clients |-> NoWindow]
    /\ polls = [c \in Clients |-> 0] /\ handleGeneration = [c \in Clients |-> 0]
    /\ generation = 0 /\ needsHwInit = FALSE
    /\ owner = [w \in Windows |-> NoClient] /\ target = [w \in Windows |-> NoClient]
    /\ views = {} /\ armed = FALSE /\ marker = FALSE
    /\ fired = [c \in Clients |-> FALSE]

Running(c) == command[c] # Idle
Op(c) == Script[command[c]][at[c]].op
IsAt(c, op) == Running(c) /\ Op(c) = op

-----------------------------------------------------------------------------
(* The ladder.                                                             *)

Succeeds(c) ==
    /\ at' = [at EXCEPT ![c] = @ + 1]
    /\ UNCHANGED <<command, handleGeneration>>

\* print_win32_error and the goto; the exit code of the diagnostic stays.
Fails(c) ==
    /\ at' = [at EXCEPT ![c] = Script[command[c]][@].fail]
    /\ rc' = [rc EXCEPT ![c] = IF Op(c) = "SYSMEM_STATUS" THEN @ ELSE 2]
    /\ UNCHANGED <<command, window, polls, handleGeneration>>

\* The driver's dispatch: the fence and the allow-list.
AllowedMutant == Queries \cup Maps \cup {"RESET_DEVICE", "POST_RESET"}
Allowed == {"GET_DEVICE_INFO", "QUERY_SYSMEM", "RESET_DEVICE", "POST_RESET"}

Admitted(c) ==
    /\ handleGeneration[c] = generation
    /\ needsHwInit => Op(c) \in Allowed

-----------------------------------------------------------------------------
(* Programs come and go.                                                   *)

\* main and open_first_device: a handle of the current generation.
Open(c, cmd) ==
    /\ ~Running(c)
    /\ command' = [command EXCEPT ![c] = cmd]
    /\ handleGeneration' = [handleGeneration EXCEPT ![c] = generation]
    /\ UNCHANGED <<at, rc, window, polls, generation, needsHwInit, owner, target, views,
                   chipVars>>

\* The driver's file cleanup.
Reclaims(c) ==
    /\ views' = {v \in views : v[1] # c}
    /\ owner' = [w \in Windows |-> IF owner[w] = c THEN NoClient ELSE owner[w]]

\* The locals go back to what the next program starts with.
Ends(c) ==
    /\ command' = [command EXCEPT ![c] = Idle] /\ at' = [at EXCEPT ![c] = 1]
    /\ rc' = [rc EXCEPT ![c] = 2] /\ window' = [window EXCEPT ![c] = NoWindow]
    /\ polls' = [polls EXCEPT ![c] = 0]
    /\ handleGeneration' = [handleGeneration EXCEPT ![c] = 0]
    /\ fired' = [fired EXCEPT ![c] = FALSE]
    /\ Reclaims(c)
    /\ UNCHANGED <<generation, needsHwInit, target, armed, marker>>

CloseHandle(c) == IsAt(c, "CLOSE") /\ Ends(c)

\* A user interrupts the program; the system closes its handle.
Killed(c) == Running(c) /\ Ends(c)

-----------------------------------------------------------------------------
(* The ioctls and the uses of views, one action per outcome.               *)

\* The driver refuses, or the operation fails for a reason of its own.  What
\* removes a view or a window that is there cannot fail.
CanFail(c) ==
    \/ ~Admitted(c)
    \/ Op(c) \in Queries \cup Maps \cup {"ALLOCATE_TLB", "CONFIGURE_TLB", "RESET_DEVICE"}
    \/ Op(c) \in Unmaps /\ <<c, ViewOf[Op(c)]>> \notin views
    \/ Op(c) = "FREE_TLB" /\ (owner[window[c]] # c \/ <<c, "tlb">> \in views)

IoctlFails(c) ==
    /\ Running(c) /\ Op(c) \notin Uses \cup {"POST_RESET", "CLOSE"}
    /\ CanFail(c) /\ Fails(c)
    /\ UNCHANGED <<generation, needsHwInit, owner, target, views, chipVars>>

\* ARC_STATUS and QUERY_SYSMEM can also report that there is nothing.
Query(c) ==
    /\ Running(c) /\ Op(c) \in Queries /\ Admitted(c) /\ Succeeds(c)
    /\ rc' \in {[rc EXCEPT ![c] = code] :
                   code \in IF Op(c) = "SYSMEM_STATUS" \/ command[c] = "sysmemtest" THEN {rc[c]}
                            ELSE IF Op(c) \in {"ARC_STATUS", "QUERY_SYSMEM"} THEN {0, 1}
                            ELSE {0}}
    /\ UNCHANGED <<window, polls, generation, needsHwInit, owner, target, views, chipVars>>

AllocateTlb(c) ==
    /\ IsAt(c, "ALLOCATE_TLB") /\ Admitted(c) /\ Succeeds(c)
    /\ \E w \in Windows :
          /\ owner[w] = NoClient
          /\ owner' = [owner EXCEPT ![w] = c] /\ window' = [window EXCEPT ![c] = w]
    /\ UNCHANGED <<rc, polls, generation, needsHwInit, target, views, chipVars>>

ConfigureTlb(c) ==
    /\ IsAt(c, "CONFIGURE_TLB") /\ Admitted(c) /\ owner[window[c]] = c /\ Succeeds(c)
    /\ target' = [target EXCEPT ![window[c]] = c]
    /\ UNCHANGED <<rc, window, polls, generation, needsHwInit, owner, views, chipVars>>

Map(c) ==
    /\ Running(c) /\ Op(c) \in Maps /\ Admitted(c)
    /\ Op(c) = "MAP_TLB" => owner[window[c]] = c
    /\ views' = views \cup {<<c, ViewOf[Op(c)]>>}
    /\ Succeeds(c)
    /\ UNCHANGED <<rc, window, polls, generation, needsHwInit, owner, target, chipVars>>

\* A load or store through a view: no driver, no error.  sysmemtest compares.
Use(c) ==
    /\ Running(c) /\ Op(c) \in Uses /\ Succeeds(c)
    /\ rc' \in {[rc EXCEPT ![c] = code] :
                   code \in IF Op(c) = "WRITE_SYSMEM" THEN {rc[c]}
                            ELSE IF command[c] = "sysmemtest" THEN {0, 1} ELSE {0}}
    /\ UNCHANGED <<window, polls, generation, needsHwInit, owner, target, views, chipVars>>

Unmap(c) ==
    /\ Running(c) /\ Op(c) \in Unmaps /\ Admitted(c)
    /\ <<c, ViewOf[Op(c)]>> \in views
    /\ views' = views \ {<<c, ViewOf[Op(c)]>>}
    /\ Succeeds(c)
    /\ UNCHANGED <<rc, window, polls, generation, needsHwInit, owner, target, chipVars>>

FreeTlb(c) ==
    /\ IsAt(c, "FREE_TLB") /\ Admitted(c)
    /\ owner[window[c]] = c /\ <<c, "tlb">> \notin views
    /\ owner' = [owner EXCEPT ![window[c]] = NoClient]
    /\ Succeeds(c)
    /\ UNCHANGED <<rc, window, polls, generation, needsHwInit, target, views, chipVars>>

-----------------------------------------------------------------------------
(* reset: arm, then poll.                                                  *)

BusyMutant == FALSE
Busy == views # {}

ResetDevice(c) ==
    /\ IsAt(c, "RESET_DEVICE") /\ Admitted(c) /\ ~Busy
    /\ generation < MaxGeneration
    /\ generation' = generation + 1
    /\ handleGeneration' = [handleGeneration EXCEPT ![c] = generation + 1]
    /\ needsHwInit' = TRUE /\ armed' = TRUE /\ marker' = TRUE
    /\ owner' = [w \in Windows |-> NoClient]
    /\ fired' = [fired EXCEPT ![c] = FALSE]
    /\ at' = [at EXCEPT ![c] = @ + 1]
    /\ UNCHANGED <<command, rc, window, polls, target, views>>

\* POST_RESET: nothing pending, or the marker is gone and the restore and the
\* gate go well.
PendingMutant == FALSE
Pending == marker

Recovers == ~needsHwInit \/ ~Pending

PostReset(c) ==
    /\ IsAt(c, "POST_RESET") /\ Admitted(c) /\ Recovers
    /\ needsHwInit' = FALSE
    /\ rc' = [rc EXCEPT ![c] = 0]
    /\ Succeeds(c)
    /\ UNCHANGED <<window, polls, generation, owner, target, views, chipVars>>

PollsLeftMutant(c) == TRUE
PollsLeft(c) == polls[c] < MaxPolls - 1

WaitedMutant(c) == polls[c]
Waited(c) == polls[c] + 1

\* ERROR_BUSY is the marker; another error is the fence, a device that is off
\* the bus, a restore or a gate that failed.  Only the last poll's error counts.
PollFails(c) ==
    /\ IsAt(c, "POST_RESET")
    /\ Admitted(c) => needsHwInit
    /\ \/ /\ PollsLeft(c)
          /\ polls' = [polls EXCEPT ![c] = Waited(c)]
          /\ UNCHANGED <<at, rc>>
       \/ /\ ~PollsLeft(c)
          /\ at' = [at EXCEPT ![c] = @ + 1]
          /\ \E code \in {2} \cup (IF Admitted(c) /\ Pending THEN {1} ELSE {}) :
                 rc' = [rc EXCEPT ![c] = code]
          /\ UNCHANGED polls
    /\ UNCHANGED <<command, window, handleGeneration, generation, needsHwInit, owner,
                   target, views, chipVars>>

ChipResets ==
    /\ armed /\ armed' = FALSE /\ marker' = FALSE
    /\ fired' = [c \in Clients |-> command[c] = "reset"]
    /\ target' = [w \in Windows |-> NoClient]
    /\ UNCHANGED <<clientVars, generation, needsHwInit, owner, views>>

-----------------------------------------------------------------------------
Proceeds(c) ==
    \/ CloseHandle(c) \/ IoctlFails(c) \/ Query(c)
    \/ AllocateTlb(c) \/ ConfigureTlb(c) \/ Map(c) \/ Use(c) \/ Unmap(c) \/ FreeTlb(c)
    \/ ResetDevice(c) \/ PostReset(c) \/ PollFails(c)

Next ==
    \/ \E c \in Clients : (\E cmd \in Commands : Open(c, cmd)) \/ Killed(c) \/ Proceeds(c)
    \/ ChipResets

Spec == Init /\ [][Next]_vars

\* A program goes on; the chip need not obey, and nobody must interrupt it.
FairSpec == Spec /\ \A c \in Clients : WF_vars(Proceeds(c))

-----------------------------------------------------------------------------
(* Safety.                                                                 *)

\* A program leaves through its ladder with everything unmapped and freed,
\* whichever step failed and whoever reset the device under it
\* (ttwind-info.c:847).
NothingLeftAtClose ==
    \A c \in Clients : IsAt(c, "CLOSE") =>
        /\ \A k \in Kinds : <<c, k>> \notin views
        /\ \A w \in Windows : owner[w] # c

\* A program dereferences a view only while it has it, on a device that is not
\* in a reset, and through a window that is still its own and aimed by itself:
\* a load from a missing device would freeze the machine (reset.c:259-263).
UsesLiveViews ==
    \A c \in Clients : Running(c) /\ Op(c) \in Uses =>
        /\ <<c, ViewOf[Op(c)]>> \in views
        /\ ~needsHwInit /\ ~armed
        /\ Op(c) = "READ_TLB" => owner[window[c]] = c /\ target[window[c]] = c

\* "Reset complete." is the truth: since this program armed it the chip was
\* reset, by its own timer, and until somebody resets it again it stays brought
\* back, by this program or by another one's polls (ttwind-info.c:684-691).
CompleteIsTrue ==
    \A c \in Clients : command[c] = "reset" /\ IsAt(c, "CLOSE") /\ rc[c] = 0
        => fired[c] /\ (handleGeneration[c] = generation => ~armed /\ ~needsHwInit)

-----------------------------------------------------------------------------
(* Liveness.                                                               *)

\* Every command ends, also on a chip that ignores the trigger and when other
\* programs reset the device again and again (ttwind-info.c:694-712).
EveryCommandEnds == \A c \in Clients : Running(c) ~> ~Running(c)

=============================================================================
