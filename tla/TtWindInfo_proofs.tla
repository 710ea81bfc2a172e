-------------------------- MODULE TtWindInfo_proofs --------------------------
(***************************************************************************)
(* Proofs about TtWindInfo for any number of programs, windows, polls and  *)
(* resets.                                                                 *)
(***************************************************************************)
EXTENDS TtWindInfo, SequenceTheorems, TLAPS

\* The views a program holds before step n of its script, and whether it holds
\* a window, and one it has aimed.
Mapped(cmd, n) ==
    (IF cmd = "bar0read" /\ n \in 2 .. 3 THEN {"bar"} ELSE {})
    \cup (IF (cmd = "tlbread" /\ n \in 4 .. 5) \/ (cmd = "sysmemtest" /\ n \in 7 .. 8)
          THEN {"tlb"} ELSE {})
    \cup (IF cmd = "sysmemtest" /\ n \in 3 .. 10 THEN {"sysmem"} ELSE {})

Granted(cmd, n) == (cmd = "tlbread" /\ n \in 2 .. 6) \/ (cmd = "sysmemtest" /\ n \in 5 .. 9)
Aimed(cmd, n) == (cmd = "tlbread" /\ n \in 3 .. 5) \/ (cmd = "sysmemtest" /\ n \in 6 .. 8)

\* A program holds exactly the views its place in the ladder says, and only
\* under the current generation and on a device that is not restricted.
ViewState ==
    /\ \A c \in Clients, k \in Kinds :
          <<c, k>> \in views <=> Running(c) /\ k \in Mapped(command[c], at[c])
    /\ \A c \in Clients, k \in Kinds :
          <<c, k>> \in views => handleGeneration[c] = generation
    /\ needsHwInit => views = {}

\* So with its window; a reset leaves it a window it no longer owns.
WindowState ==
    /\ \A w \in Windows, c \in Clients :
          owner[w] = c => /\ Running(c) /\ Granted(command[c], at[c]) /\ window[c] = w
                          /\ handleGeneration[c] = generation
    /\ \A c \in Clients :
          Running(c) /\ Granted(command[c], at[c]) /\ handleGeneration[c] = generation
              => window[c] \in Windows /\ owner[window[c]] = c
    /\ needsHwInit => \A w \in Windows : owner[w] = NoClient

\* A window its holder has configured stays aimed by it.
AimState ==
    \A c \in Clients :
        Running(c) /\ Aimed(command[c], at[c]) /\ handleGeneration[c] = generation
            => target[window[c]] = c

\* No handle is ahead of the device; a running timer is marked and the device
\* restricted; and the program whose reset is the last waits for the chip.
ResetState ==
    /\ \A c \in Clients : handleGeneration[c] <= generation
    /\ armed => marker /\ needsHwInit
    /\ \A c \in Clients :
          command[c] = "reset" /\ at[c] = 2 /\ handleGeneration[c] = generation
              => fired[c] \/ armed

\* A program starts at the first step.
IdleState == \A c \in Clients : ~Running(c) => at[c] = 1

IInv == /\ TypeOK
        /\ IdleState
        /\ ViewState
        /\ WindowState
        /\ AimState
        /\ ResetState
        /\ CompleteIsTrue

-----------------------------------------------------------------------------
(* The scripts, step by step.                                              *)

\* Where a step may lead.
InLadder(cmd, n) ==
    LET op == Script[cmd][n].op
        fail == Script[cmd][n].fail
    IN  /\ op # "CLOSE" => n + 1 \in 1 .. Len(Script[cmd])
        /\ op \notin Uses \cup {"POST_RESET", "CLOSE"} => fail \in 1 .. Len(Script[cmd])
        /\ op \in {"RESET_DEVICE", "POST_RESET"} => cmd = "reset"
        /\ op = "RESET_DEVICE" => n = 1
        /\ op = "POST_RESET" => n = 2
        /\ cmd = "reset" => \/ n = 1 /\ op = "RESET_DEVICE" /\ fail = 3
                            \/ n = 2 /\ op = "POST_RESET"
                            \/ n = 3 /\ op = "CLOSE"

\* What a step does to the views the program has.
ViewsInLadder(cmd, n) ==
    LET op == Script[cmd][n].op
        fail == Script[cmd][n].fail
    IN  /\ op = "CLOSE" => Mapped(cmd, n) = {}
        /\ op \in Maps => /\ Mapped(cmd, n + 1) = Mapped(cmd, n) \cup {ViewOf[op]}
                          /\ ViewOf[op] \in Kinds
        /\ op \in Unmaps => /\ ViewOf[op] \in Mapped(cmd, n)
                            /\ Mapped(cmd, n + 1) = Mapped(cmd, n) \ {ViewOf[op]}
        /\ op \in Uses => ViewOf[op] \in Mapped(cmd, n)
        /\ op \notin Maps \cup Unmaps \cup {"CLOSE"} => Mapped(cmd, n + 1) = Mapped(cmd, n)
        /\ op \notin Unmaps \cup Uses \cup {"POST_RESET", "CLOSE"}
              => Mapped(cmd, fail) = Mapped(cmd, n)

\* What it does to the window.
WindowInLadder(cmd, n) ==
    LET op == Script[cmd][n].op
        fail == Script[cmd][n].fail
    IN  /\ op = "CLOSE" => ~Granted(cmd, n)
        /\ op = "ALLOCATE_TLB" => /\ ~Granted(cmd, n) /\ Granted(cmd, n + 1)
                                  /\ ~Aimed(cmd, n + 1) /\ ~Granted(cmd, fail)
        /\ op = "FREE_TLB" => /\ Granted(cmd, n) /\ "tlb" \notin Mapped(cmd, n)
                              /\ ~Granted(cmd, n + 1) /\ ~Granted(cmd, fail)
        /\ op \notin {"ALLOCATE_TLB", "FREE_TLB", "CLOSE"} =>
              Granted(cmd, n + 1) = Granted(cmd, n)
        /\ op \notin Uses \cup {"ALLOCATE_TLB", "FREE_TLB", "POST_RESET", "CLOSE"} =>
              Granted(cmd, fail) = Granted(cmd, n)
        /\ Aimed(cmd, n) => Granted(cmd, n)
        /\ op \notin {"CONFIGURE_TLB", "CLOSE"} /\ Aimed(cmd, n + 1) => Aimed(cmd, n)
        /\ op \notin Uses \cup {"POST_RESET", "CLOSE"} => ~Aimed(cmd, fail)
        /\ op = "READ_TLB" => Aimed(cmd, n)

LEMMA ListScript ==
    LET s == Script["list"]
    IN  /\ Len(s) = 2
        /\ s[1].op = "GET_DEVICE_INFO" /\ s[1].fail = 2
        /\ s[2].op = "CLOSE" /\ s[2].fail = 0
BY DEF Script, Step, Close, OneQuery

LEMMA ArcMsgScript ==
    LET s == Script["arcmsg"]
    IN  /\ Len(s) = 2
        /\ s[1].op = "SMC_MSG" /\ s[1].fail = 2
        /\ s[2].op = "CLOSE" /\ s[2].fail = 0
BY DEF Script, Step, Close, OneQuery

LEMMA ArcStatusScript ==
    LET s == Script["arcstatus"]
    IN  /\ Len(s) = 2
        /\ s[1].op = "ARC_STATUS" /\ s[1].fail = 2
        /\ s[2].op = "CLOSE" /\ s[2].fail = 0
BY DEF Script, Step, Close, OneQuery

LEMMA SysmemScript ==
    LET s == Script["sysmem"]
    IN  /\ Len(s) = 3
        /\ s[1].op = "QUERY_SYSMEM" /\ s[1].fail = 3
        /\ s[2].op = "SYSMEM_STATUS" /\ s[2].fail = 3
        /\ s[3].op = "CLOSE" /\ s[3].fail = 0
BY DEF Script, Step, Close

LEMMA Bar0ReadScript ==
    LET s == Script["bar0read"]
    IN  /\ Len(s) = 4
        /\ s[1].op = "MAP_BAR" /\ s[1].fail = 4
        /\ s[2].op = "READ_BAR" /\ s[2].fail = 0
        /\ s[3].op = "UNMAP_BAR" /\ s[3].fail = 4
        /\ s[4].op = "CLOSE" /\ s[4].fail = 0
BY DEF Script, Step, Close

LEMMA TlbReadScript ==
    LET s == Script["tlbread"]
    IN  /\ Len(s) = 7
        /\ s[1].op = "ALLOCATE_TLB" /\ s[1].fail = 7
        /\ s[2].op = "CONFIGURE_TLB" /\ s[2].fail = 6
        /\ s[3].op = "MAP_TLB" /\ s[3].fail = 6
        /\ s[4].op = "READ_TLB" /\ s[4].fail = 0
        /\ s[5].op = "UNMAP_TLB" /\ s[5].fail = 6
        /\ s[6].op = "FREE_TLB" /\ s[6].fail = 7
        /\ s[7].op = "CLOSE" /\ s[7].fail = 0
BY DEF Script, Step, Close, ReadThroughWindow

LEMMA SysmemTestScript ==
    LET s == Script["sysmemtest"]
    IN  /\ Len(s) = 11
        /\ s[1].op = "QUERY_SYSMEM" /\ s[1].fail = 11
        /\ s[2].op = "MAP_SYSMEM" /\ s[2].fail = 11
        /\ s[3].op = "WRITE_SYSMEM" /\ s[3].fail = 0
        /\ s[4].op = "ALLOCATE_TLB" /\ s[4].fail = 10
        /\ s[5].op = "CONFIGURE_TLB" /\ s[5].fail = 9
        /\ s[6].op = "MAP_TLB" /\ s[6].fail = 9
        /\ s[7].op = "READ_TLB" /\ s[7].fail = 0
        /\ s[8].op = "UNMAP_TLB" /\ s[8].fail = 9
        /\ s[9].op = "FREE_TLB" /\ s[9].fail = 10
        /\ s[10].op = "UNMAP_SYSMEM" /\ s[10].fail = 11
        /\ s[11].op = "CLOSE" /\ s[11].fail = 0
BY DEF Script, Step, Close, ReadThroughWindow

LEMMA ResetScript ==
    LET s == Script["reset"]
    IN  /\ Len(s) = 3
        /\ s[1].op = "RESET_DEVICE" /\ s[1].fail = 3
        /\ s[2].op = "POST_RESET" /\ s[2].fail = 3
        /\ s[3].op = "CLOSE" /\ s[3].fail = 0
BY DEF Script, Step, Close

\* Every step of every script keeps to the ladder.
LEMMA LadderFacts ==
    ASSUME NEW cmd \in Commands, NEW n \in 1 .. Len(Script[cmd])
    PROVE  InLadder(cmd, n) /\ ViewsInLadder(cmd, n) /\ WindowInLadder(cmd, n)
<1> USE DEF InLadder, ViewsInLadder, WindowInLadder, Mapped, Granted, Aimed, ViewOf, Kinds,
      Queries, Maps, Unmaps, Uses
<1>1. CASE cmd = "list"
  <2>1. CASE n = 1
    BY <1>1, <2>1, ListScript
  <2>2. CASE n = 2
    BY <1>1, <2>2, ListScript
  <2>3. n \in {1, 2}
    BY <1>1, ListScript
  <2>. QED BY <2>1, <2>2, <2>3
<1>2. CASE cmd = "arcmsg"
  <2>1. CASE n = 1
    BY <1>2, <2>1, ArcMsgScript
  <2>2. CASE n = 2
    BY <1>2, <2>2, ArcMsgScript
  <2>3. n \in {1, 2}
    BY <1>2, ArcMsgScript
  <2>. QED BY <2>1, <2>2, <2>3
<1>3. CASE cmd = "arcstatus"
  <2>1. CASE n = 1
    BY <1>3, <2>1, ArcStatusScript
  <2>2. CASE n = 2
    BY <1>3, <2>2, ArcStatusScript
  <2>3. n \in {1, 2}
    BY <1>3, ArcStatusScript
  <2>. QED BY <2>1, <2>2, <2>3
<1>4. CASE cmd = "sysmem"
  <2>1. CASE n = 1
    BY <1>4, <2>1, SysmemScript
  <2>2. CASE n = 2
    BY <1>4, <2>2, SysmemScript
  <2>3. CASE n = 3
    BY <1>4, <2>3, SysmemScript
  <2>4. n \in {1, 2, 3}
    BY <1>4, SysmemScript
  <2>. QED BY <2>1, <2>2, <2>3, <2>4
<1>5. CASE cmd = "bar0read"
  <2>1. CASE n = 1
    BY <1>5, <2>1, Bar0ReadScript
  <2>2. CASE n = 2
    BY <1>5, <2>2, Bar0ReadScript
  <2>3. CASE n = 3
    BY <1>5, <2>3, Bar0ReadScript
  <2>4. CASE n = 4
    BY <1>5, <2>4, Bar0ReadScript
  <2>5. n \in {1, 2, 3, 4}
    BY <1>5, Bar0ReadScript
  <2>. QED BY <2>1, <2>2, <2>3, <2>4, <2>5
<1>6. CASE cmd = "tlbread"
  <2>1. CASE n = 1
    BY <1>6, <2>1, TlbReadScript
  <2>2. CASE n = 2
    BY <1>6, <2>2, TlbReadScript
  <2>3. CASE n = 3
    BY <1>6, <2>3, TlbReadScript
  <2>4. CASE n = 4
    BY <1>6, <2>4, TlbReadScript
  <2>5. CASE n = 5
    BY <1>6, <2>5, TlbReadScript
  <2>6. CASE n = 6
    BY <1>6, <2>6, TlbReadScript
  <2>7. CASE n = 7
    BY <1>6, <2>7, TlbReadScript
  <2>8. n \in {1, 2, 3, 4, 5, 6, 7}
    BY <1>6, TlbReadScript
  <2>. QED BY <2>1, <2>2, <2>3, <2>4, <2>5, <2>6, <2>7, <2>8
<1>7. CASE cmd = "sysmemtest"
  <2>1. CASE n = 1
    BY <1>7, <2>1, SysmemTestScript
  <2>2. CASE n = 2
    BY <1>7, <2>2, SysmemTestScript
  <2>3. CASE n = 3
    BY <1>7, <2>3, SysmemTestScript
  <2>4. CASE n = 4
    BY <1>7, <2>4, SysmemTestScript
  <2>5. CASE n = 5
    BY <1>7, <2>5, SysmemTestScript
  <2>6. CASE n = 6
    BY <1>7, <2>6, SysmemTestScript
  <2>7. CASE n = 7
    BY <1>7, <2>7, SysmemTestScript
  <2>8. CASE n = 8
    BY <1>7, <2>8, SysmemTestScript
  <2>9. CASE n = 9
    BY <1>7, <2>9, SysmemTestScript
  <2>10. CASE n = 10
    BY <1>7, <2>10, SysmemTestScript
  <2>11. CASE n = 11
    BY <1>7, <2>11, SysmemTestScript
  <2>12. n \in {1, 2, 3, 4, 5, 6, 7, 8, 9, 10, 11}
    BY <1>7, SysmemTestScript
  <2>. QED BY <2>1, <2>2, <2>3, <2>4, <2>5, <2>6, <2>7, <2>8, <2>9, <2>10, <2>11, <2>12
<1>8. CASE cmd = "reset"
  <2>1. CASE n = 1
    BY <1>8, <2>1, ResetScript
  <2>2. CASE n = 2
    BY <1>8, <2>2, ResetScript
  <2>3. CASE n = 3
    BY <1>8, <2>3, ResetScript
  <2>4. n \in {1, 2, 3}
    BY <1>8, ResetScript
  <2>. QED BY <2>1, <2>2, <2>3, <2>4
<1>9. cmd \in {"list", "arcmsg", "arcstatus", "sysmem", "bar0read", "tlbread", "sysmemtest", "reset"}
  BY DEF Commands, Script
<1>. QED BY <1>1, <1>2, <1>3, <1>4, <1>5, <1>6, <1>7, <1>8, <1>9

-----------------------------------------------------------------------------
(* What the steps of a program share.                                      *)

\* A running program is at a step of its script.
LEMMA Place ==
    ASSUME TypeOK, NEW c \in Clients, Running(c)
    PROVE  /\ command[c] \in Commands /\ at[c] \in 1 .. Len(Script[command[c]])
           /\ InLadder(command[c], at[c]) /\ ViewsInLadder(command[c], at[c])
           /\ WindowInLadder(command[c], at[c])
<1>1. command[c] \in Commands /\ at[c] \in 1 .. Len(Script[command[c]])
  BY DEF TypeOK, Running
<1>. QED BY <1>1, LadderFacts

\* A program starts at a step, with nothing.
LEMMA StartOfLadder ==
    ASSUME NEW cmd \in Commands
    PROVE  /\ Len(Script[cmd]) \in Nat /\ 1 \in 1 .. Len(Script[cmd])
           /\ Mapped(cmd, 1) = {} /\ ~Granted(cmd, 1) /\ ~Aimed(cmd, 1)
<1>1. cmd \in {"list", "arcmsg", "arcstatus", "sysmem", "bar0read", "tlbread", "sysmemtest",
               "reset"}
  BY DEF Commands, Script
<1>2. Len(Script[cmd]) \in {2, 3, 4, 7, 11}
  BY <1>1, ListScript, ArcMsgScript, ArcStatusScript, SysmemScript, Bar0ReadScript,
     TlbReadScript, SysmemTestScript, ResetScript
<1>3. \A m \in {2, 3, 4, 7, 11} : m \in Nat /\ 1 \in 1 .. m
  OBVIOUS
<1>4. Mapped(cmd, 1) = {} /\ ~Granted(cmd, 1) /\ ~Aimed(cmd, 1)
  BY DEF Mapped, Granted, Aimed
<1>. QED BY <1>2, <1>3, <1>4

\* A step to a place with the same views, and no window but the one it has.
LEMMA Moves ==
    ASSUME TypeOK, IdleState, ViewState, WindowState, AimState,
           NEW c \in Clients, Running(c), NEW n, at' = [at EXCEPT ![c] = n],
           Mapped(command[c], n) = Mapped(command[c], at[c]),
           Granted(command[c], n) => Granted(command[c], at[c]),
           \A w \in Windows : owner[w] = c => Granted(command[c], n),
           Aimed(command[c], n) => Aimed(command[c], at[c]),
           UNCHANGED <<command, window, handleGeneration, generation, owner, target, views>>,
           needsHwInit' => needsHwInit
    PROVE  IdleState' /\ ViewState' /\ WindowState' /\ AimState'
<1>1. at'[c] = n /\ \A d \in Clients : d # c => at'[d] = at[d]
  BY DEF TypeOK
<1>2. IdleState'
  BY <1>1 DEF IdleState, Running
<1>3. ViewState'
  BY <1>1 DEF ViewState, Running
<1>4. WindowState'
  BY <1>1 DEF WindowState, Running
<1>5. AimState'
  BY <1>1 DEF AimState, Running
<1>. QED BY <1>2, <1>3, <1>4, <1>5

\* A step of a program other than reset leaves the resets alone.
LEMMA OtherCommands ==
    ASSUME TypeOK, ResetState, CompleteIsTrue, NEW c \in Clients, command[c] # "reset",
           \A d \in Clients : d # c => at'[d] = at[d] /\ rc'[d] = rc[d],
           UNCHANGED <<command, handleGeneration, generation, needsHwInit, armed, marker,
                       fired>>
    PROVE  ResetState' /\ CompleteIsTrue'
<1>1. ResetState'
  BY DEF ResetState
<1>2. CompleteIsTrue'
  BY DEF CompleteIsTrue, IsAt, Running, Op
<1>. QED BY <1>1, <1>2

\* A step that only goes on keeps the types.
LEMMA AdvanceTypes ==
    ASSUME TypeOK, NEW c \in Clients, Running(c), Op(c) # "CLOSE", Succeeds(c)
    PROVE  /\ at' \in [Clients -> Nat]
           /\ \A d \in Clients :
                 command'[d] # Idle => at'[d] \in 1 .. Len(Script[command'[d]])
<1>1. at[c] + 1 \in 1 .. Len(Script[command[c]])
  BY Place DEF InLadder, Op
<1>2. at \in [Clients -> Nat] /\ command' = command /\ at' = [at EXCEPT ![c] = at[c] + 1]
  BY DEF TypeOK, Succeeds
<1>3. \A d \in Clients : command[d] # Idle => at[d] \in 1 .. Len(Script[command[d]])
  BY DEF TypeOK
<1>. QED BY <1>1, <1>2, <1>3

-----------------------------------------------------------------------------
(* Programs come and go.                                                   *)

\* A program opens.
LEMMA OpenKeeps ==
    ASSUME IInv, NEW c \in Clients, NEW cmd \in Commands, Open(c, cmd)
    PROVE  IInv'
<1> USE DEF IInv
<1>1. /\ command' = [command EXCEPT ![c] = cmd] /\ cmd # Idle
      /\ handleGeneration' = [handleGeneration EXCEPT ![c] = generation]
      /\ ~Running(c)
      /\ UNCHANGED <<at, rc, window, polls, generation, needsHwInit, owner, target, views,
                     armed, marker, fired>>
  BY DEF Open, chipVars, Commands, Script, Idle
<1>2. at[c] = 1 /\ 1 \in 1 .. Len(Script[cmd])
  BY <1>1, StartOfLadder DEF IdleState
<1>3. Mapped(cmd, 1) = {} /\ ~Granted(cmd, 1) /\ ~Aimed(cmd, 1)
  BY StartOfLadder
<1>4. /\ command'[c] = cmd /\ handleGeneration'[c] = generation
      /\ \A d \in Clients : d # c => /\ command'[d] = command[d]
                                     /\ handleGeneration'[d] = handleGeneration[d]
  BY <1>1 DEF TypeOK
<1>5. TypeOK'
  <2>1. /\ command' \in [Clients -> Commands \cup {Idle}]
        /\ handleGeneration' \in [Clients -> 0 .. MaxGeneration]
    BY <1>1 DEF TypeOK
  <2>2. \A d \in Clients : command'[d] # Idle => at'[d] \in 1 .. Len(Script[command'[d]])
    BY <1>1, <1>2, <1>4 DEF TypeOK
  <2>. QED BY <1>1, <2>1, <2>2 DEF TypeOK
<1>6. IdleState'
  BY <1>1, <1>4 DEF IdleState, Running
<1>7. ViewState'
  BY <1>1, <1>2, <1>3, <1>4 DEF ViewState, Running
<1>8. WindowState'
  BY <1>1, <1>2, <1>3, <1>4 DEF WindowState, Running
<1>9. AimState'
  BY <1>1, <1>2, <1>3, <1>4 DEF AimState, Running
<1>10. ResetState'
  <2>1. generation <= generation
    BY DEF TypeOK
  <2>. QED BY <1>1, <1>2, <1>4, <2>1 DEF ResetState
<1>11. CompleteIsTrue'
  <2>1. cmd = "reset" => Script[cmd][1].op # "CLOSE"
    BY ResetScript
  <2>. QED BY <1>1, <1>2, <1>4, <2>1 DEF CompleteIsTrue, IsAt, Running, Op
<1>. QED BY <1>5, <1>6, <1>7, <1>8, <1>9, <1>10, <1>11

\* A program ends, by itself or not, and its handle is reclaimed.
LEMMA EndsKeeps ==
    ASSUME IInv, NEW c \in Clients, Ends(c)
    PROVE  IInv'
<1> USE DEF IInv
<1>1. /\ command' = [command EXCEPT ![c] = Idle] /\ at' = [at EXCEPT ![c] = 1]
      /\ rc' = [rc EXCEPT ![c] = 2] /\ window' = [window EXCEPT ![c] = NoWindow]
      /\ polls' = [polls EXCEPT ![c] = 0]
      /\ handleGeneration' = [handleGeneration EXCEPT ![c] = 0]
      /\ fired' = [fired EXCEPT ![c] = FALSE]
      /\ views' = {v \in views : v[1] # c}
      /\ owner' = [w \in Windows |-> IF owner[w] = c THEN NoClient ELSE owner[w]]
      /\ UNCHANGED <<generation, needsHwInit, target, armed, marker>>
  BY DEF Ends, Reclaims
<1>2. /\ command'[c] = Idle /\ at'[c] = 1
      /\ \A d \in Clients : d # c =>
            /\ command'[d] = command[d] /\ at'[d] = at[d] /\ rc'[d] = rc[d]
            /\ window'[d] = window[d] /\ handleGeneration'[d] = handleGeneration[d]
            /\ fired'[d] = fired[d]
  BY <1>1 DEF TypeOK
<1>3. \A d \in Clients, k \in Kinds : <<d, k>> \in views' <=> d # c /\ <<d, k>> \in views
  BY <1>1
<1>4. \A w \in Windows : owner'[w] = IF owner[w] = c THEN NoClient ELSE owner[w]
  BY <1>1
<1>5. TypeOK'
  <2>1. /\ command' \in [Clients -> Commands \cup {Idle}] /\ at' \in [Clients -> Nat]
        /\ rc' \in [Clients -> 0 .. 2] /\ window' \in [Clients -> Windows \cup {NoWindow}]
        /\ fired' \in [Clients -> BOOLEAN]
    BY <1>1 DEF TypeOK
  <2>2. \A d \in Clients : command'[d] # Idle => at'[d] \in 1 .. Len(Script[command'[d]])
    BY <1>2 DEF TypeOK
  <2>3. polls' \in [Clients -> 0 .. MaxPolls - 1]
    <3>1. 0 \in 0 .. MaxPolls - 1
      BY BoundsAssumption
    <3>. QED BY <1>1, <3>1 DEF TypeOK
  <2>4. handleGeneration' \in [Clients -> 0 .. MaxGeneration]
    <3>1. 0 \in 0 .. MaxGeneration
      BY BoundsAssumption
    <3>. QED BY <1>1, <3>1 DEF TypeOK
  <2>5. owner' \in [Windows -> Clients \cup {NoClient}] /\ views' \subseteq Clients \X Kinds
    BY <1>1 DEF TypeOK
  <2>. QED BY <1>1, <2>1, <2>2, <2>3, <2>4, <2>5 DEF TypeOK
<1>6. IdleState'
  BY <1>2 DEF IdleState, Running
<1>7. ViewState'
  <2>1. needsHwInit' => views' = {}
    BY <1>1 DEF ViewState
  <2>. QED BY <1>1, <1>2, <1>3, <2>1 DEF ViewState, Running
<1>8. WindowState'
  BY <1>1, <1>2, <1>4, NamesAssumption DEF WindowState, Running
<1>9. AimState'
  BY <1>1, <1>2 DEF AimState, Running
<1>10. ResetState'
  <2>1. \A d \in Clients : handleGeneration'[d] <= generation
    <3>1. handleGeneration'[c] = 0 /\ 0 <= generation
      BY <1>1 DEF TypeOK
    <3>. QED BY <1>2, <3>1 DEF ResetState
  <2>. QED BY <1>1, <1>2, <2>1 DEF ResetState, Idle
<1>11. CompleteIsTrue'
  BY <1>1, <1>2 DEF CompleteIsTrue, IsAt, Running, Op
<1>. QED BY <1>5, <1>6, <1>7, <1>8, <1>9, <1>10, <1>11

-----------------------------------------------------------------------------
(* The ioctls and the uses of views.                                       *)

\* An ioctl fails: the ladder still undoes what the program holds, because what
\* removes something that is there does not fail.
LEMMA IoctlFailsKeeps ==
    ASSUME IInv, NEW c \in Clients, IoctlFails(c)
    PROVE  IInv'
<1> DEFINE n == Script[command[c]][at[c]].fail
<1>1. /\ Running(c) /\ Op(c) \notin Uses \cup {"POST_RESET", "CLOSE"} /\ CanFail(c)
      /\ at' = [at EXCEPT ![c] = n]
      /\ rc' = [rc EXCEPT ![c] = IF Op(c) = "SYSMEM_STATUS" THEN @ ELSE 2]
      /\ UNCHANGED <<command, window, polls, handleGeneration, generation, needsHwInit,
                     owner,
                     target, views, armed, marker, fired>>
  BY DEF IoctlFails, Fails, chipVars
<1>2. /\ command[c] \in Commands /\ InLadder(command[c], at[c])
      /\ ViewsInLadder(command[c], at[c]) /\ WindowInLadder(command[c], at[c])
  BY <1>1, Place DEF IInv
<1>3. n \in 1 .. Len(Script[command[c]])
  BY <1>1, <1>2 DEF InLadder, Op
<1>4. /\ at'[c] = n
      /\ \A d \in Clients : d # c => at'[d] = at[d] /\ rc'[d] = rc[d]
      /\ Op(c) # "SYSMEM_STATUS" => rc'[c] = 2
  BY <1>1 DEF IInv, TypeOK
<1>5. Op(c) \notin Unmaps
  <2>1. SUFFICES ASSUME Op(c) \in Unmaps PROVE FALSE
    OBVIOUS
  <2>2. ViewOf[Op(c)] \in Mapped(command[c], at[c]) /\ ViewOf[Op(c)] \in Kinds
    <3>1. ViewOf[Op(c)] \in Mapped(command[c], at[c])
      BY <1>2, <2>1 DEF ViewsInLadder, Op
    <3>2. ViewOf[Op(c)] \in Kinds
      BY <2>1 DEF Unmaps, ViewOf, Kinds
    <3>. QED BY <3>1, <3>2
  <2>3. <<c, ViewOf[Op(c)]>> \in views
    BY <1>1, <2>2 DEF IInv, ViewState
  <2>4. handleGeneration[c] = generation /\ ~needsHwInit
    BY <2>2, <2>3 DEF IInv, ViewState
  <2>. QED BY <1>1, <2>1, <2>3, <2>4 DEF CanFail, Admitted, Queries, Maps, Unmaps
<1>6. Op(c) = "FREE_TLB" => \A w \in Windows : owner[w] # c
  <2>1. SUFFICES ASSUME Op(c) = "FREE_TLB", NEW w \in Windows, owner[w] = c PROVE FALSE
    OBVIOUS
  <2>2. window[c] = w /\ handleGeneration[c] = generation
    BY <2>1 DEF IInv, WindowState
  <2>3. ~needsHwInit
    BY <2>1, NamesAssumption DEF IInv, WindowState
  <2>4. <<c, "tlb">> \notin views
    BY <1>1, <1>2, <2>1 DEF WindowInLadder, Op, IInv, ViewState, Kinds
  <2>. QED BY <1>1, <2>1, <2>2, <2>3, <2>4 DEF CanFail, Admitted, Queries, Maps, Unmaps
<1>7. Mapped(command[c], n) = Mapped(command[c], at[c])
  BY <1>1, <1>2, <1>5 DEF ViewsInLadder, Op
<1>8. /\ Granted(command[c], n) => Granted(command[c], at[c])
      /\ \A w \in Windows : owner[w] = c => Granted(command[c], n)
      /\ ~Aimed(command[c], n)
  <2>1. CASE Op(c) = "FREE_TLB"
    BY <1>1, <1>2, <1>6, <2>1 DEF WindowInLadder, Op
  <2>2. CASE Op(c) = "ALLOCATE_TLB"
    <3>1. ~Granted(command[c], n) /\ ~Granted(command[c], at[c]) /\ ~Aimed(command[c], n)
      BY <1>1, <1>2, <2>2 DEF WindowInLadder, Op
    <3>. QED BY <3>1 DEF IInv, WindowState
  <2>3. CASE Op(c) \notin {"FREE_TLB", "ALLOCATE_TLB"}
    <3>1. Granted(command[c], n) = Granted(command[c], at[c]) /\ ~Aimed(command[c], n)
      BY <1>1, <1>2, <2>3 DEF WindowInLadder, Op
    <3>. QED BY <3>1 DEF IInv, WindowState
  <2>. QED BY <2>1, <2>2, <2>3
<1>9. TypeOK'
  <2>1. at' \in [Clients -> Nat] /\ rc' \in [Clients -> 0 .. 2]
    <3>1. n \in Nat
      BY <1>2, <1>3, StartOfLadder
    <3>. QED BY <1>1, <3>1 DEF IInv, TypeOK
  <2>2. \A d \in Clients : command'[d] # Idle => at'[d] \in 1 .. Len(Script[command'[d]])
    BY <1>1, <1>3, <1>4 DEF IInv, TypeOK
  <2>. QED BY <1>1, <2>1, <2>2 DEF IInv, TypeOK
<1>10. IdleState' /\ ViewState' /\ WindowState' /\ AimState'
  BY <1>1, <1>7, <1>8, Moves DEF IInv
<1>11. ResetState' /\ CompleteIsTrue'
  <2>1. CASE command[c] # "reset"
    BY <1>1, <1>4, <2>1, OtherCommands DEF IInv
  <2>2. CASE command[c] = "reset"
    <3>1. at'[c] = 3 /\ rc'[c] = 2
      BY <1>1, <1>2, <1>4, <2>2 DEF InLadder, Op
    <3>2. ResetState'
      BY <1>1, <1>4, <3>1 DEF IInv, ResetState
    <3>3. CompleteIsTrue'
      BY <1>1, <1>4, <3>1 DEF IInv, CompleteIsTrue, IsAt, Running, Op
    <3>. QED BY <3>2, <3>3
  <2>. QED BY <2>1, <2>2
<1>. QED BY <1>9, <1>10, <1>11 DEF IInv

\* A query answers, or a program reads or writes through a view.
LEMMA QueryOrUseKeeps ==
    ASSUME IInv, NEW c \in Clients, Query(c) \/ Use(c)
    PROVE  IInv'
<1>1. /\ Running(c) /\ Op(c) \in Queries \cup Uses /\ Succeeds(c)
      /\ \E code \in {0, 1, rc[c]} : rc' = [rc EXCEPT ![c] = code]
      /\ UNCHANGED <<command, window, polls, handleGeneration, generation, needsHwInit,
                     owner,
                     target, views, armed, marker, fired>>
      /\ at' = [at EXCEPT ![c] = at[c] + 1]
  BY DEF Query, Use, Succeeds, chipVars
<1>2. /\ InLadder(command[c], at[c]) /\ ViewsInLadder(command[c], at[c])
      /\ WindowInLadder(command[c], at[c])
  BY <1>1, Place DEF IInv
<1>3. Op(c) \notin Maps \cup Unmaps
                   \cup {"ALLOCATE_TLB", "CONFIGURE_TLB", "FREE_TLB", "RESET_DEVICE",
                         "POST_RESET", "CLOSE"}
  BY <1>1 DEF Queries, Maps, Unmaps, Uses
<1>4. command[c] # "reset"
  BY <1>2, <1>3 DEF InLadder, Op
<1>5. Mapped(command[c], at[c] + 1) = Mapped(command[c], at[c])
  BY <1>2, <1>3 DEF ViewsInLadder, Op
<1>6. /\ Granted(command[c], at[c] + 1) = Granted(command[c], at[c])
      /\ Aimed(command[c], at[c] + 1) => Aimed(command[c], at[c])
  BY <1>2, <1>3 DEF WindowInLadder, Op
<1>7. \A w \in Windows : owner[w] = c => Granted(command[c], at[c] + 1)
  BY <1>6 DEF IInv, WindowState
<1>8. \A d \in Clients : d # c => at'[d] = at[d] /\ rc'[d] = rc[d]
  BY <1>1 DEF IInv, TypeOK
<1>9. TypeOK'
  <2>1. PICK code \in {0, 1, rc[c]} : rc' = [rc EXCEPT ![c] = code]
    BY <1>1
  <2>2. code \in 0 .. 2
    <3>1. 0 \in 0 .. 2 /\ 1 \in 0 .. 2
      OBVIOUS
    <3>2. rc[c] \in 0 .. 2
      BY DEF IInv, TypeOK
    <3>. QED BY <2>1, <3>1, <3>2
  <2>3. rc' \in [Clients -> 0 .. 2]
    BY <2>1, <2>2 DEF IInv, TypeOK
  <2>. QED BY <1>1, <1>3, <2>3, AdvanceTypes DEF IInv, TypeOK
<1>10. IdleState' /\ ViewState' /\ WindowState' /\ AimState'
  BY <1>1, <1>5, <1>6, <1>7, Moves DEF IInv
<1>11. ResetState' /\ CompleteIsTrue'
  BY <1>1, <1>4, <1>8, OtherCommands DEF IInv
<1>. QED BY <1>9, <1>10, <1>11 DEF IInv

\* A program gets a window nobody owns.
LEMMA AllocateTlbKeeps ==
    ASSUME IInv, NEW c \in Clients, AllocateTlb(c)
    PROVE  IInv'
<1>1. PICK w \in Windows :
         /\ owner[w] = NoClient
         /\ owner' = [owner EXCEPT ![w] = c] /\ window' = [window EXCEPT ![c] = w]
  BY DEF AllocateTlb
<1>2. /\ Running(c) /\ Op(c) = "ALLOCATE_TLB" /\ Admitted(c) /\ Succeeds(c)
      /\ at' = [at EXCEPT ![c] = at[c] + 1]
      /\ UNCHANGED <<command, rc, polls, handleGeneration, generation, needsHwInit, target,
                     views, armed, marker, fired>>
  BY DEF AllocateTlb, IsAt, Succeeds, chipVars
<1>3. /\ InLadder(command[c], at[c]) /\ ViewsInLadder(command[c], at[c])
      /\ WindowInLadder(command[c], at[c])
  BY <1>2, Place DEF IInv
<1>4. command[c] # "reset"
  BY <1>2, <1>3 DEF InLadder, Op
<1>5. Mapped(command[c], at[c] + 1) = Mapped(command[c], at[c])
  BY <1>2, <1>3 DEF ViewsInLadder, Op, Maps, Unmaps
<1>6. /\ ~Granted(command[c], at[c]) /\ Granted(command[c], at[c] + 1)
      /\ ~Aimed(command[c], at[c] + 1)
  BY <1>2, <1>3 DEF WindowInLadder, Op
<1>7. handleGeneration[c] = generation /\ ~needsHwInit
  BY <1>2 DEF Admitted, Allowed
<1>8. /\ at'[c] = at[c] + 1 /\ window'[c] = w /\ owner'[w] = c
      /\ \A d \in Clients : d # c => /\ at'[d] = at[d] /\ window'[d] = window[d]
      /\ \A u \in Windows : u # w => owner'[u] = owner[u]
  BY <1>1, <1>2 DEF IInv, TypeOK
<1>9. \A u \in Windows : owner[u] # c
  BY <1>6 DEF IInv, WindowState
<1>10. TypeOK'
  <2>1. /\ owner' \in [Windows -> Clients \cup {NoClient}]
        /\ window' \in [Clients -> Windows \cup {NoWindow}]
    BY <1>1 DEF IInv, TypeOK
  <2>. QED BY <1>2, <2>1, AdvanceTypes DEF IInv, TypeOK
<1>11. IdleState' /\ ViewState'
  BY <1>2, <1>5, <1>8 DEF IInv, IdleState, ViewState, Running
<1>12. WindowState'
  <2>1. \A u \in Windows, d \in Clients :
           owner'[u] = d => /\ Running(d)' /\ Granted(command'[d], at'[d]) /\ window'[d] = u
                            /\ handleGeneration'[d] = generation'
    BY <1>2, <1>6, <1>7, <1>8, <1>9 DEF IInv, WindowState, Running
  <2>2. \A d \in Clients :
           Running(d)' /\ Granted(command'[d], at'[d]) /\ handleGeneration'[d] = generation'
              => window'[d] \in Windows /\ owner'[window'[d]] = d
    BY <1>1, <1>2, <1>8, NamesAssumption DEF IInv, WindowState, Running
  <2>. QED BY <1>2, <1>7, <2>1, <2>2 DEF WindowState
<1>13. AimState'
  BY <1>2, <1>6, <1>8 DEF IInv, AimState, Running
<1>14. ResetState' /\ CompleteIsTrue'
  BY <1>2, <1>4, <1>8, OtherCommands DEF IInv
<1>. QED BY <1>10, <1>11, <1>12, <1>13, <1>14 DEF IInv

\* A program aims its window.
LEMMA ConfigureTlbKeeps ==
    ASSUME IInv, NEW c \in Clients, ConfigureTlb(c)
    PROVE  IInv'
<1>1. /\ Running(c) /\ Op(c) = "CONFIGURE_TLB" /\ Admitted(c) /\ Succeeds(c)
      /\ owner[window[c]] = c /\ target' = [target EXCEPT ![window[c]] = c]
      /\ at' = [at EXCEPT ![c] = at[c] + 1]
      /\ UNCHANGED <<command, rc, window, polls, handleGeneration, generation, needsHwInit,
                     owner, views, armed, marker, fired>>
  BY DEF ConfigureTlb, IsAt, Succeeds, chipVars
<1>2. /\ InLadder(command[c], at[c]) /\ ViewsInLadder(command[c], at[c])
      /\ WindowInLadder(command[c], at[c])
  BY <1>1, Place DEF IInv
<1>3. command[c] # "reset"
  BY <1>1, <1>2 DEF InLadder, Op
<1>4. Mapped(command[c], at[c] + 1) = Mapped(command[c], at[c])
  BY <1>1, <1>2 DEF ViewsInLadder, Op, Maps, Unmaps
<1>5. /\ Granted(command[c], at[c] + 1) = Granted(command[c], at[c])
      /\ \A d \in Clients : Running(d) /\ Aimed(command[d], at[d]) => Granted(command[d], at[d])
  <2>1. \A d \in Clients : Running(d) /\ Aimed(command[d], at[d]) => Granted(command[d], at[d])
    BY Place DEF IInv, WindowInLadder
  <2>. QED BY <1>1, <1>2, <2>1 DEF WindowInLadder, Op
<1>6. /\ at'[c] = at[c] + 1 /\ \A d \in Clients : d # c => at'[d] = at[d]
      /\ \A w \in Windows : target'[w] = IF w = window[c] THEN c ELSE target[w]
  BY <1>1 DEF IInv, TypeOK
<1>7. TypeOK'
  <2>1. target' \in [Windows -> Clients \cup {NoClient}]
    BY <1>1 DEF IInv, TypeOK
  <2>. QED BY <1>1, <2>1, AdvanceTypes DEF IInv, TypeOK
<1>8. IdleState' /\ ViewState' /\ WindowState'
  BY <1>1, <1>4, <1>5, <1>6 DEF IInv, IdleState, ViewState, WindowState, Running
<1>9. AimState'
  <2>1. SUFFICES ASSUME NEW d \in Clients, Running(d), Aimed(command[d], at'[d]),
                        handleGeneration[d] = generation
                 PROVE  target'[window[d]] = d
    BY <1>1 DEF AimState, Running
  <2>2. CASE d = c
    <3>1. Granted(command[c], at[c] + 1)
      BY <1>1, <1>6, <2>1, <2>2 DEF Aimed, Granted
    <3>2. window[c] \in Windows
      BY <1>1, <1>5, <2>1, <2>2, <3>1 DEF IInv, WindowState
    <3>. QED BY <1>6, <2>2, <3>2
  <2>3. CASE d # c
    <3>1. window[d] \in Windows /\ owner[window[d]] = d /\ target[window[d]] = d
      BY <1>5, <1>6, <2>1, <2>3 DEF IInv, WindowState, AimState
    <3>2. window[d] # window[c]
      BY <1>1, <2>3, <3>1
    <3>. QED BY <1>6, <3>1, <3>2
  <2>. QED BY <2>2, <2>3
<1>10. ResetState' /\ CompleteIsTrue'
  BY <1>1, <1>3, <1>6, OtherCommands DEF IInv
<1>. QED BY <1>7, <1>8, <1>9, <1>10 DEF IInv

\* A program gets a view.
LEMMA MapKeeps ==
    ASSUME IInv, NEW c \in Clients, Map(c)
    PROVE  IInv'
<1> DEFINE kind == ViewOf[Op(c)]
<1>1. /\ Running(c) /\ Op(c) \in Maps /\ Admitted(c) /\ Succeeds(c)
      /\ views' = views \cup {<<c, kind>>}
      /\ at' = [at EXCEPT ![c] = at[c] + 1]
      /\ UNCHANGED <<command, rc, window, polls, handleGeneration, generation, needsHwInit,
                     owner, target, armed, marker, fired>>
  BY DEF Map, Succeeds, chipVars
<1>2. /\ InLadder(command[c], at[c]) /\ ViewsInLadder(command[c], at[c])
      /\ WindowInLadder(command[c], at[c])
  BY <1>1, Place DEF IInv
<1>3. Op(c) \notin Uses \cup {"ALLOCATE_TLB", "CONFIGURE_TLB", "FREE_TLB", "RESET_DEVICE",
                              "POST_RESET", "CLOSE"}
  BY <1>1 DEF Maps, Uses
<1>4. command[c] # "reset"
  BY <1>2, <1>3, <1>1 DEF InLadder, Op, Maps
<1>5. /\ Mapped(command[c], at[c] + 1) = Mapped(command[c], at[c]) \cup {kind}
      /\ kind \in Kinds
  BY <1>1, <1>2 DEF ViewsInLadder, Op
<1>6. /\ Granted(command[c], at[c] + 1) = Granted(command[c], at[c])
      /\ Aimed(command[c], at[c] + 1) => Aimed(command[c], at[c])
  BY <1>2, <1>3 DEF WindowInLadder, Op
<1>7. handleGeneration[c] = generation /\ ~needsHwInit
  BY <1>1 DEF Admitted, Allowed, Maps
<1>8. at'[c] = at[c] + 1 /\ \A d \in Clients : d # c => at'[d] = at[d]
  BY <1>1 DEF IInv, TypeOK
<1>9. TypeOK'
  <2>1. views' \subseteq Clients \X Kinds
    BY <1>1, <1>5 DEF IInv, TypeOK
  <2>. QED BY <1>1, <1>3, <2>1, AdvanceTypes DEF IInv, TypeOK
<1>10. ViewState'
  <2>1. \A d \in Clients, k \in Kinds :
           <<d, k>> \in views' <=> (d = c /\ k = kind) \/ <<d, k>> \in views
    BY <1>1
  <2>2. \A d \in Clients, k \in Kinds :
           <<d, k>> \in views' <=> Running(d)' /\ k \in Mapped(command[d], at'[d])
    BY <1>1, <1>5, <1>8, <2>1 DEF IInv, ViewState, Running
  <2>3. \A d \in Clients, k \in Kinds : <<d, k>> \in views' => handleGeneration[d] = generation
    BY <1>7, <2>1 DEF IInv, ViewState
  <2>. QED BY <1>1, <1>7, <2>2, <2>3 DEF ViewState
<1>11. IdleState' /\ WindowState' /\ AimState'
  BY <1>1, <1>6, <1>8 DEF IInv, IdleState, WindowState, AimState, Running
<1>12. ResetState' /\ CompleteIsTrue'
  BY <1>1, <1>4, <1>8, OtherCommands DEF IInv
<1>. QED BY <1>9, <1>10, <1>11, <1>12 DEF IInv

\* A program gives a view back.
LEMMA UnmapKeeps ==
    ASSUME IInv, NEW c \in Clients, Unmap(c)
    PROVE  IInv'
<1> DEFINE kind == ViewOf[Op(c)]
<1>1. /\ Running(c) /\ Op(c) \in Unmaps /\ Succeeds(c)
      /\ views' = views \ {<<c, kind>>}
      /\ at' = [at EXCEPT ![c] = at[c] + 1]
      /\ UNCHANGED <<command, rc, window, polls, handleGeneration, generation, needsHwInit,
                     owner, target, armed, marker, fired>>
  BY DEF Unmap, Succeeds, chipVars
<1>2. /\ InLadder(command[c], at[c]) /\ ViewsInLadder(command[c], at[c])
      /\ WindowInLadder(command[c], at[c])
  BY <1>1, Place DEF IInv
<1>3. Op(c) \notin {"ALLOCATE_TLB", "CONFIGURE_TLB", "FREE_TLB", "RESET_DEVICE", "POST_RESET",
                    "CLOSE"}
  BY <1>1 DEF Unmaps
<1>4. command[c] # "reset"
  BY <1>1, <1>2, <1>3 DEF InLadder, Op, Unmaps
<1>5. Mapped(command[c], at[c] + 1) = Mapped(command[c], at[c]) \ {kind}
  BY <1>1, <1>2 DEF ViewsInLadder, Op
<1>6. /\ Granted(command[c], at[c] + 1) = Granted(command[c], at[c])
      /\ Aimed(command[c], at[c] + 1) => Aimed(command[c], at[c])
  BY <1>2, <1>3 DEF WindowInLadder, Op
<1>7. at'[c] = at[c] + 1 /\ \A d \in Clients : d # c => at'[d] = at[d]
  BY <1>1 DEF IInv, TypeOK
<1>8. TypeOK'
  BY <1>1, <1>3, AdvanceTypes DEF IInv, TypeOK
<1>9. ViewState'
  <2>1. \A d \in Clients, k \in Kinds :
           <<d, k>> \in views' <=> ~(d = c /\ k = kind) /\ <<d, k>> \in views
    BY <1>1
  <2>2. \A d \in Clients, k \in Kinds :
           <<d, k>> \in views' <=> Running(d)' /\ k \in Mapped(command[d], at'[d])
    BY <1>1, <1>5, <1>7, <2>1 DEF IInv, ViewState, Running
  <2>. QED BY <1>1, <2>1, <2>2 DEF IInv, ViewState
<1>10. IdleState' /\ WindowState' /\ AimState'
  BY <1>1, <1>6, <1>7 DEF IInv, IdleState, WindowState, AimState, Running
<1>11. ResetState' /\ CompleteIsTrue'
  BY <1>1, <1>4, <1>7, OtherCommands DEF IInv
<1>. QED BY <1>8, <1>9, <1>10, <1>11 DEF IInv

\* A program gives its window back.
LEMMA FreeTlbKeeps ==
    ASSUME IInv, NEW c \in Clients, FreeTlb(c)
    PROVE  IInv'
<1>1. /\ Running(c) /\ Op(c) = "FREE_TLB" /\ Succeeds(c)
      /\ owner[window[c]] = c /\ owner' = [owner EXCEPT ![window[c]] = NoClient]
      /\ at' = [at EXCEPT ![c] = at[c] + 1]
      /\ UNCHANGED <<command, rc, window, polls, handleGeneration, generation, needsHwInit,
                     target, views, armed, marker, fired>>
  BY DEF FreeTlb, IsAt, Succeeds, chipVars
<1>2. /\ InLadder(command[c], at[c]) /\ ViewsInLadder(command[c], at[c])
      /\ WindowInLadder(command[c], at[c])
  BY <1>1, Place DEF IInv
<1>3. command[c] # "reset"
  BY <1>1, <1>2 DEF InLadder, Op
<1>4. Mapped(command[c], at[c] + 1) = Mapped(command[c], at[c])
  BY <1>1, <1>2 DEF ViewsInLadder, Op, Maps, Unmaps
<1>5. ~Granted(command[c], at[c] + 1) /\ ~Aimed(command[c], at[c] + 1)
  <2>1. ~Granted(command[c], at[c] + 1)
    BY <1>1, <1>2 DEF WindowInLadder, Op
  <2>. QED BY <2>1 DEF Granted, Aimed
<1>6. /\ at'[c] = at[c] + 1 /\ \A d \in Clients : d # c => at'[d] = at[d]
      /\ \A w \in Windows : owner'[w] = IF w = window[c] THEN NoClient ELSE owner[w]
  BY <1>1 DEF IInv, TypeOK
<1>7. TypeOK'
  <2>1. owner' \in [Windows -> Clients \cup {NoClient}]
    BY <1>1 DEF IInv, TypeOK
  <2>. QED BY <1>1, <2>1, AdvanceTypes DEF IInv, TypeOK
<1>8. IdleState' /\ ViewState'
  BY <1>1, <1>4, <1>6 DEF IInv, IdleState, ViewState, Running
<1>9. WindowState'
  <2>1. \A w \in Windows, d \in Clients :
           owner'[w] = d => /\ Running(d)' /\ Granted(command[d], at'[d]) /\ window[d] = w
                            /\ handleGeneration[d] = generation
    BY <1>1, <1>6, NamesAssumption DEF IInv, WindowState, Running
  <2>2. \A d \in Clients :
           Running(d)' /\ Granted(command[d], at'[d]) /\ handleGeneration[d] = generation
              => window[d] \in Windows /\ owner'[window[d]] = d
    BY <1>1, <1>5, <1>6 DEF IInv, WindowState, Running
  <2>3. needsHwInit => \A w \in Windows : owner'[w] = NoClient
    BY <1>6 DEF IInv, WindowState
  <2>. QED BY <1>1, <2>1, <2>2, <2>3 DEF WindowState
<1>10. AimState'
  BY <1>1, <1>5, <1>6 DEF IInv, AimState, Running
<1>11. ResetState' /\ CompleteIsTrue'
  BY <1>1, <1>3, <1>6, OtherCommands DEF IInv
<1>. QED BY <1>7, <1>8, <1>9, <1>10, <1>11 DEF IInv

-----------------------------------------------------------------------------
(* The reset.                                                              *)

\* A program arms the reset: nobody has a view, and every other handle is stale
\* from here on.
LEMMA ResetDeviceKeeps ==
    ASSUME IInv, NEW c \in Clients, ResetDevice(c)
    PROVE  IInv'
<1>1. /\ Running(c) /\ Op(c) = "RESET_DEVICE" /\ views = {} /\ generation < MaxGeneration
      /\ generation' = generation + 1
      /\ handleGeneration' = [handleGeneration EXCEPT ![c] = generation + 1]
      /\ needsHwInit' = TRUE /\ armed' = TRUE /\ marker' = TRUE
      /\ owner' = [w \in Windows |-> NoClient]
      /\ fired' = [fired EXCEPT ![c] = FALSE]
      /\ at' = [at EXCEPT ![c] = at[c] + 1]
      /\ UNCHANGED <<command, rc, window, polls, target, views>>
  BY DEF ResetDevice, IsAt, Busy
<1>2. command[c] = "reset" /\ at[c] = 1
  BY <1>1, Place DEF IInv, InLadder, Op
<1>3. /\ at'[c] = 2 /\ handleGeneration'[c] = generation'
      /\ \A d \in Clients : d # c => /\ at'[d] = at[d] /\ fired'[d] = fired[d]
                                     /\ handleGeneration'[d] = handleGeneration[d]
  BY <1>1, <1>2 DEF IInv, TypeOK
<1>4. /\ generation \in Nat /\ generation' \in Nat
      /\ \A d \in Clients : d # c => /\ handleGeneration'[d] <= generation'
                                     /\ handleGeneration'[d] # generation'
  <2>1. generation \in 0 .. MaxGeneration
    BY DEF IInv, TypeOK
  <2>2. \A d \in Clients : handleGeneration[d] \in Nat /\ handleGeneration[d] <= generation
    <3>1. handleGeneration \in [Clients -> 0 .. MaxGeneration]
      BY DEF IInv, TypeOK
    <3>. QED BY <3>1, BoundsAssumption DEF IInv, ResetState
  <2>. QED BY <1>1, <1>3, <2>1, <2>2, BoundsAssumption
<1>5. Mapped("reset", 2) = {} /\ ~Granted("reset", 2) /\ ~Aimed("reset", 2)
  BY DEF Mapped, Granted, Aimed
<1>6. TypeOK'
  <2>1. generation + 1 \in 0 .. MaxGeneration
    BY <1>1, BoundsAssumption DEF IInv, TypeOK
  <2>2. generation' \in 0 .. MaxGeneration /\ handleGeneration' \in [Clients -> 0 .. MaxGeneration]
    BY <1>1, <2>1 DEF IInv, TypeOK
  <2>3. 2 \in 1 .. Len(Script["reset"])
    BY ResetScript
  <2>4. \A d \in Clients : command'[d] # Idle => at'[d] \in 1 .. Len(Script[command'[d]])
    BY <1>1, <1>2, <1>3, <2>3 DEF IInv, TypeOK
  <2>5. /\ at' \in [Clients -> Nat] /\ owner' \in [Windows -> Clients \cup {NoClient}]
        /\ fired' \in [Clients -> BOOLEAN]
    BY <1>1, <1>2 DEF IInv, TypeOK
  <2>. QED BY <1>1, <2>2, <2>4, <2>5 DEF IInv, TypeOK
<1>7. IdleState'
  BY <1>1, <1>3 DEF IInv, IdleState, Running
<1>8. ViewState'
  BY <1>1, <1>2, <1>3, <1>5 DEF IInv, ViewState, Running
<1>9. WindowState'
  BY <1>1, <1>2, <1>3, <1>4, <1>5, NamesAssumption DEF WindowState, Running
<1>10. AimState'
  BY <1>1, <1>2, <1>3, <1>4, <1>5 DEF AimState, Running
<1>11. ResetState'
  <2>1. generation' <= generation'
    BY <1>4
  <2>. QED BY <1>1, <1>3, <1>4, <2>1 DEF ResetState
<1>12. CompleteIsTrue'
  <2>1. Script["reset"][2].op # "CLOSE"
    BY ResetScript
  <2>. QED BY <1>1, <1>2, <1>3, <1>4, <2>1 DEF IInv, CompleteIsTrue, IsAt, Running, Op
<1>. QED BY <1>6, <1>7, <1>8, <1>9, <1>10, <1>11, <1>12 DEF IInv

\* A poll succeeds: the marker is gone or nothing was pending, so the timer has
\* run out since this program armed it.
LEMMA PostResetKeeps ==
    ASSUME IInv, NEW c \in Clients, PostReset(c)
    PROVE  IInv'
<1>1. /\ Running(c) /\ Op(c) = "POST_RESET" /\ handleGeneration[c] = generation
      /\ (~needsHwInit \/ ~marker) /\ Succeeds(c)
      /\ needsHwInit' = FALSE /\ rc' = [rc EXCEPT ![c] = 0]
      /\ at' = [at EXCEPT ![c] = at[c] + 1]
      /\ UNCHANGED <<command, window, polls, handleGeneration, generation, owner, target,
                     views, armed, marker, fired>>
  BY DEF PostReset, IsAt, Admitted, Recovers, Pending, Succeeds, chipVars
<1>2. command[c] = "reset" /\ at[c] = 2
  BY <1>1, Place DEF IInv, InLadder, Op
<1>3. ~armed /\ fired[c]
  BY <1>1, <1>2 DEF IInv, ResetState
<1>4. /\ at'[c] = 3 /\ rc'[c] = 0
      /\ \A d \in Clients : d # c => at'[d] = at[d] /\ rc'[d] = rc[d]
  BY <1>1, <1>2 DEF IInv, TypeOK
<1>5. TypeOK'
  <2>1. rc' \in [Clients -> 0 .. 2]
    <3>1. 0 \in 0 .. 2
      OBVIOUS
    <3>. QED BY <1>1, <3>1 DEF IInv, TypeOK
  <2>. QED BY <1>1, <2>1, AdvanceTypes DEF IInv, TypeOK
<1>6. IdleState' /\ ViewState' /\ WindowState' /\ AimState'
  <2>1. \A n \in {2, 3} : Mapped("reset", n) = {} /\ ~Granted("reset", n) /\ ~Aimed("reset", n)
    BY DEF Mapped, Granted, Aimed
  <2>2. at' = [at EXCEPT ![c] = 3]
    BY <1>1, <1>2
  <2>3. \A w \in Windows : owner[w] # c
    BY <1>2, <2>1 DEF IInv, WindowState
  <2>4. /\ Mapped(command[c], 3) = Mapped(command[c], at[c])
        /\ ~Granted(command[c], 3) /\ ~Aimed(command[c], 3)
    BY <1>2, <2>1
  <2>5. needsHwInit' => needsHwInit
    BY <1>1
  <2>. QED BY <1>1, <2>2, <2>3, <2>4, <2>5, Moves DEF IInv
<1>7. ResetState'
  BY <1>1, <1>3, <1>4 DEF IInv, ResetState
<1>8. CompleteIsTrue'
  BY <1>1, <1>3, <1>4 DEF IInv, CompleteIsTrue, IsAt, Running, Op
<1>. QED BY <1>5, <1>6, <1>7, <1>8 DEF IInv

\* A poll fails, and the program polls again or gives up with an error.
LEMMA PollFailsKeeps ==
    ASSUME IInv, NEW c \in Clients, PollFails(c)
    PROVE  IInv'
<1>1. /\ Running(c) /\ Op(c) = "POST_RESET"
      /\ UNCHANGED <<command, window, handleGeneration, generation, needsHwInit, owner,
                     target, views, armed, marker, fired>>
  BY DEF PollFails, IsAt, chipVars
<1>2. command[c] = "reset" /\ at[c] = 2
  BY <1>1, Place DEF IInv, InLadder, Op
<1>3. CASE /\ PollsLeft(c) /\ polls' = [polls EXCEPT ![c] = Waited(c)]
           /\ UNCHANGED <<at, rc>>
  <2>1. polls' \in [Clients -> 0 .. MaxPolls - 1]
    <3>1. polls \in [Clients -> 0 .. MaxPolls - 1]
      BY DEF IInv, TypeOK
    <3>2. polls[c] + 1 \in 0 .. MaxPolls - 1
      BY <1>3, <3>1, BoundsAssumption DEF PollsLeft
    <3>. QED BY <1>3, <3>1, <3>2 DEF Waited
  <2>2. TypeOK'
    BY <1>1, <1>3, <2>1 DEF IInv, TypeOK
  <2>3. IdleState' /\ ViewState' /\ WindowState' /\ AimState'
    BY <1>1, <1>3 DEF IInv, IdleState, ViewState, WindowState, AimState, Running
  <2>4. ResetState' /\ CompleteIsTrue'
    BY <1>1, <1>3 DEF IInv, ResetState, CompleteIsTrue, IsAt, Running, Op
  <2>. QED BY <2>2, <2>3, <2>4 DEF IInv
<1>4. CASE /\ at' = [at EXCEPT ![c] = at[c] + 1]
           /\ \E code \in {1, 2} : rc' = [rc EXCEPT ![c] = code]
           /\ UNCHANGED polls
  <2>1. PICK code \in {1, 2} : rc' = [rc EXCEPT ![c] = code]
    BY <1>4
  <2>2. /\ at'[c] = 3 /\ rc'[c] # 0
        /\ \A d \in Clients : d # c => at'[d] = at[d] /\ rc'[d] = rc[d]
    BY <1>2, <1>4, <2>1 DEF IInv, TypeOK
  <2>3. TypeOK'
    <3>1. rc' \in [Clients -> 0 .. 2]
      <4>1. 1 \in 0 .. 2 /\ 2 \in 0 .. 2
        OBVIOUS
      <4>. QED BY <2>1, <4>1 DEF IInv, TypeOK
    <3>2. Succeeds(c)
      BY <1>1, <1>4 DEF Succeeds
    <3>. QED BY <1>1, <1>4, <3>1, <3>2, AdvanceTypes DEF IInv, TypeOK
  <2>4. IdleState' /\ ViewState' /\ WindowState' /\ AimState'
    <3>1. \A n \in {2, 3} :
             Mapped("reset", n) = {} /\ ~Granted("reset", n) /\ ~Aimed("reset", n)
      BY DEF Mapped, Granted, Aimed
    <3>2. at' = [at EXCEPT ![c] = 3]
      BY <1>2, <1>4
    <3>3. \A w \in Windows : owner[w] # c
      BY <1>2, <3>1 DEF IInv, WindowState
    <3>4. /\ Mapped(command[c], 3) = Mapped(command[c], at[c])
          /\ ~Granted(command[c], 3) /\ ~Aimed(command[c], 3)
      BY <1>2, <3>1
    <3>5. needsHwInit' => needsHwInit
      BY <1>1
    <3>. QED BY <1>1, <3>2, <3>3, <3>4, <3>5, Moves DEF IInv
  <2>5. ResetState'
    BY <1>1, <2>2 DEF IInv, ResetState
  <2>6. CompleteIsTrue'
    BY <1>1, <2>2 DEF IInv, CompleteIsTrue, IsAt, Running, Op
  <2>. QED BY <2>3, <2>4, <2>5, <2>6 DEF IInv
<1>. QED BY <1>3, <1>4 DEF PollFails

\* The chip's timer runs out: nobody owns a window whose aim that takes away.
LEMMA ChipResetsKeeps ==
    ASSUME IInv, ChipResets
    PROVE  IInv'
<1>1. /\ armed /\ armed' = FALSE /\ marker' = FALSE
      /\ fired' = [c \in Clients |-> command[c] = "reset"]
      /\ target' = [w \in Windows |-> NoClient]
      /\ UNCHANGED <<command, at, rc, window, polls, handleGeneration, generation,
                     needsHwInit,
                     owner, views>>
  BY DEF ChipResets, clientVars
<1>2. needsHwInit /\ \A w \in Windows : owner[w] = NoClient
  BY <1>1 DEF IInv, ResetState, WindowState
<1>3. TypeOK'
  BY <1>1 DEF IInv, TypeOK
<1>4. IdleState' /\ ViewState' /\ WindowState'
  BY <1>1 DEF IInv, IdleState, ViewState, WindowState, Running
<1>5. AimState'
  <2>1. \A c \in Clients : Running(c) /\ Aimed(command[c], at[c]) => Granted(command[c], at[c])
    BY Place DEF IInv, WindowInLadder
  <2>2. \A c \in Clients :
           Running(c) /\ Aimed(command[c], at[c]) => handleGeneration[c] # generation
    BY <1>2, <2>1, NamesAssumption DEF IInv, WindowState
  <2>. QED BY <1>1, <2>2 DEF AimState, Running
<1>6. ResetState'
  BY <1>1 DEF IInv, ResetState
<1>7. CompleteIsTrue'
  BY <1>1 DEF IInv, CompleteIsTrue, IsAt, Running, Op
<1>. QED BY <1>3, <1>4, <1>5, <1>6, <1>7 DEF IInv

-----------------------------------------------------------------------------
(* The invariant of every behaviour.                                       *)

\* It holds before anybody runs.
LEMMA InitHolds == Init => IInv
<1> SUFFICES ASSUME Init PROVE IInv
  OBVIOUS
<1>1. 0 \in 0 .. MaxPolls - 1 /\ 0 \in 0 .. MaxGeneration /\ 2 \in 0 .. 2
  BY BoundsAssumption
<1>2. TypeOK
  BY <1>1 DEF Init, TypeOK
<1>3. IdleState /\ ViewState /\ AimState /\ CompleteIsTrue
  BY DEF Init, IdleState, ViewState, AimState, CompleteIsTrue, IsAt, Running, Idle
<1>4. WindowState
  BY NamesAssumption DEF Init, WindowState, Running
<1>5. ResetState
  BY DEF Init, ResetState, Idle
<1>. QED BY <1>2, <1>3, <1>4, <1>5 DEF IInv

\* Every step keeps it.
LEMMA NextHolds == IInv /\ [Next]_vars => IInv'
<1> SUFFICES ASSUME IInv, [Next]_vars PROVE IInv'
  OBVIOUS
<1>1. ASSUME NEW c \in Clients, NEW cmd \in Commands, Open(c, cmd) PROVE IInv'
  BY <1>1, OpenKeeps
<1>2. ASSUME NEW c \in Clients, Killed(c) PROVE IInv'
  BY <1>2, EndsKeeps DEF Killed
<1>3. ASSUME NEW c \in Clients, Proceeds(c) PROVE IInv'
  <2>1. CASE CloseHandle(c)
    BY <2>1, EndsKeeps DEF CloseHandle
  <2>2. CASE IoctlFails(c)
    BY <2>2, IoctlFailsKeeps
  <2>3. CASE Query(c) \/ Use(c)
    BY <2>3, QueryOrUseKeeps
  <2>4. CASE AllocateTlb(c)
    BY <2>4, AllocateTlbKeeps
  <2>5. CASE ConfigureTlb(c)
    BY <2>5, ConfigureTlbKeeps
  <2>6. CASE Map(c)
    BY <2>6, MapKeeps
  <2>7. CASE Unmap(c)
    BY <2>7, UnmapKeeps
  <2>8. CASE FreeTlb(c)
    BY <2>8, FreeTlbKeeps
  <2>9. CASE ResetDevice(c)
    BY <2>9, ResetDeviceKeeps
  <2>10. CASE PostReset(c)
    BY <2>10, PostResetKeeps
  <2>11. CASE PollFails(c)
    BY <2>11, PollFailsKeeps
  <2>. QED BY <1>3, <2>1, <2>2, <2>3, <2>4, <2>5, <2>6, <2>7, <2>8, <2>9, <2>10, <2>11
           DEF Proceeds
<1>4. CASE ChipResets
  BY <1>4, ChipResetsKeeps
<1>5. CASE UNCHANGED vars
  BY <1>5 DEF vars, IInv, TypeOK, IdleState, ViewState, WindowState, AimState, ResetState,
              CompleteIsTrue, IsAt, Running, Op
<1>. QED BY <1>1, <1>2, <1>3, <1>4, <1>5 DEF Next

\* The invariant holds whatever the programs, the users who interrupt them and
\* the chip do.
THEOREM Invariance == Spec => []IInv
BY InitHolds, NextHolds, PTL DEF Spec

\* The variables keep their types; no program runs off its script.
THEOREM TypeCorrect == Spec => []TypeOK
<1>1. IInv => TypeOK
  BY DEF IInv
<1>. QED BY <1>1, Invariance, PTL

\* What a program holds follows from where it is.
LEMMA NothingHeldAtClose == IInv => NothingLeftAtClose
<1> SUFFICES ASSUME IInv, NEW c \in Clients, IsAt(c, "CLOSE")
             PROVE  /\ \A k \in Kinds : <<c, k>> \notin views
                    /\ \A w \in Windows : owner[w] # c
  BY DEF NothingLeftAtClose
<1>1. Mapped(command[c], at[c]) = {} /\ ~Granted(command[c], at[c])
  BY Place DEF IInv, IsAt, ViewsInLadder, WindowInLadder, Op
<1>. QED BY <1>1 DEF IInv, ViewState, WindowState

\* A program that closes its handle has nothing mapped and owns no window,
\* whichever step of its ladder failed (ttwind-info.c:847).
THEOREM NothingLeft == Spec => []NothingLeftAtClose
BY NothingHeldAtClose, Invariance, PTL

LEMMA UsesWhatItHolds == IInv => UsesLiveViews
<1> SUFFICES ASSUME IInv, NEW c \in Clients, Running(c), Op(c) \in Uses
             PROVE  /\ <<c, ViewOf[Op(c)]>> \in views
                    /\ ~needsHwInit /\ ~armed
                    /\ Op(c) = "READ_TLB" => owner[window[c]] = c /\ target[window[c]] = c
  BY DEF UsesLiveViews
<1>1. /\ ViewOf[Op(c)] \in Mapped(command[c], at[c]) /\ ViewOf[Op(c)] \in Kinds
      /\ Op(c) = "READ_TLB" => /\ Aimed(command[c], at[c]) /\ Granted(command[c], at[c])
  <2>1. ViewsInLadder(command[c], at[c]) /\ WindowInLadder(command[c], at[c])
    BY Place DEF IInv
  <2>2. ViewOf[Op(c)] \in Mapped(command[c], at[c])
    BY <2>1 DEF ViewsInLadder, Op
  <2>3. ViewOf[Op(c)] \in Kinds
    BY DEF Uses, ViewOf, Kinds
  <2>4. Op(c) = "READ_TLB" => Aimed(command[c], at[c]) /\ Granted(command[c], at[c])
    BY <2>1 DEF WindowInLadder, Op
  <2>. QED BY <2>2, <2>3, <2>4
<1>2. <<c, ViewOf[Op(c)]>> \in views
  BY <1>1 DEF IInv, ViewState
<1>3. handleGeneration[c] = generation /\ ~needsHwInit
  BY <1>1, <1>2 DEF IInv, ViewState
<1>4. ~armed
  BY <1>3 DEF IInv, ResetState
<1>5. Op(c) = "READ_TLB" => owner[window[c]] = c /\ target[window[c]] = c
  BY <1>1, <1>3 DEF IInv, WindowState, AimState
<1>. QED BY <1>2, <1>3, <1>4, <1>5

\* A program dereferences only views it has, on a device no reset holds, and
\* through a window that is its own and aimed by itself, however many programs
\* reset the device meanwhile.
THEOREM LiveViews == Spec => []UsesLiveViews
BY UsesWhatItHolds, Invariance, PTL

\* "Reset complete." is the truth, for any number of programs that reset, poll
\* and give up at once.
THEOREM CompleteTrue == Spec => []CompleteIsTrue
<1>1. IInv => CompleteIsTrue
  BY DEF IInv
<1>. QED BY <1>1, Invariance, PTL

=============================================================================
