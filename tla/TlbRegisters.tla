---------------------------- MODULE TlbRegisters ----------------------------
(***************************************************************************)
(* The packing of a NOC TLB configuration into the 96-bit register image   *)
(* of a 2 MiB window (tlb.c), and who writes which window: CONFIGURE_TLB   *)
(* the windows of user mode, the ARC and sysmem paths the kernel window.   *)
(*                                                                         *)
(* A word is the set of the positions of its 1 bits, so the widths are the *)
(* real ones: UINT64 Lo for the bits 0..63 and UINT32 Hi for 64..95.       *)
(***************************************************************************)
EXTENDS Naturals

CONSTANTS
    UserWindows,    \* windows CONFIGURE_TLB may be asked for
    KernelWindow,   \* TTWIND_BH_KERNEL_TLB_INDEX
    Samples         \* the configurations user mode asks for

ASSUME WindowsAssumption == KernelWindow \notin UserWindows

Windows == UserWindows \cup {KernelWindow}

Word64 == 0 .. 63
Word32 == 0 .. 31

Fields == {"Addr", "XEnd", "YEnd", "XStart", "YStart", "Noc", "Mcast",
           "Ordering", "Linked", "StaticVc"}

\* TTWIND_NOC_TLB_CONFIG: the C type of a field bounds the bits it can have.
TypeWidth == [Addr |-> 64, XEnd |-> 16, YEnd |-> 16, XStart |-> 16, YStart |-> 16,
              Noc |-> 8, Mcast |-> 8, Ordering |-> 8, Linked |-> 8, StaticVc |-> 8]

ZeroConfig == [f \in Fields |-> {}]

ASSUME SamplesAssumption ==
    \A cfg \in Samples : \A f \in Fields : cfg[f] \subseteq 0 .. TypeWidth[f] - 1

VARIABLES
    registers,  \* per window, the image in its three registers
    accepted    \* per window, the configuration last accepted for it

vars == <<registers, accepted>>

-----------------------------------------------------------------------------
\* x << n and x >> n of a UINT64, and the cast to UINT32.
ShiftLeft(x, n) == {b + n : b \in {a \in x : a + n \in Word64}}
ShiftRight(x, n) == {b - n : b \in {a \in x : a >= n}}
Cast32(x) == x \cap Word32

\* TtWindPutField: a field may straddle the boundary, or lie above it.
PutFieldMutant(image, pos, width, value) ==
    LET masked == value \cap (0 .. width - 1)
    IN  [lo |-> image.lo \cup ShiftLeft(masked, pos % 64),
         hi |-> image.hi \cup IF pos < 64 /\ pos + width > 64
                              THEN Cast32(ShiftRight(masked, 64 - pos)) ELSE {}]

PutField(image, pos, width, value) ==
    LET masked == value \cap (0 .. width - 1)
    IN  IF pos < 64
          THEN [lo |-> image.lo \cup ShiftLeft(masked, pos),
                hi |-> image.hi \cup IF pos + width > 64
                                     THEN Cast32(ShiftRight(masked, 64 - pos))
                                     ELSE {}]
          ELSE [lo |-> image.lo,
                hi |-> image.hi \cup Cast32(ShiftLeft(masked, pos - 64))]

\* The calls of TtWindPackTlb2M.
Position == [Addr |-> 0, XEnd |-> 43, YEnd |-> 49, XStart |-> 55, YStart |-> 61,
             Noc |-> 67, Mcast |-> 69, Ordering |-> 70, Linked |-> 72, StaticVc |-> 73]

Width == [Addr |-> 43, XEnd |-> 6, YEnd |-> 6, XStart |-> 6, YStart |-> 6,
          Noc |-> 2, Mcast |-> 1, Ordering |-> 2, Linked |-> 1, StaticVc |-> 1]

\* What is packed for a field: the address without its 21 offset bits.
Operand(cfg, f) == IF f = "Addr" THEN ShiftRight(cfg[f], 21) ELSE cfg[f]

PutConfig(cfg, f, image) == PutField(image, Position[f], Width[f], Operand(cfg, f))

Packed(cfg) ==
    LET none   == [lo |-> {}, hi |-> {}]
        ends   == PutConfig(cfg, "YEnd",
                            PutConfig(cfg, "XEnd", PutConfig(cfg, "Addr", none)))
        starts == PutConfig(cfg, "YStart", PutConfig(cfg, "XStart", ends))
        modes  == PutConfig(cfg, "Ordering",
                            PutConfig(cfg, "Mcast", PutConfig(cfg, "Noc", starts)))
    IN  PutConfig(cfg, "StaticVc", PutConfig(cfg, "Linked", modes))

\* TtWindProgramTlb2M writes Lo in two registers and Hi in the third.
ThreeWords(image) == <<Cast32(image.lo), Cast32(ShiftRight(image.lo, 32)), image.hi>>

-----------------------------------------------------------------------------
\* The range checks of CONFIGURE_TLB.
AcceptedBits == [Addr |-> 21 .. 63, XEnd |-> 0 .. 5, YEnd |-> 0 .. 5, XStart |-> 0 .. 5,
                 YStart |-> 0 .. 5, Noc |-> {0}, Mcast |-> {0}, Ordering |-> {0, 1},
                 Linked |-> {0}, StaticVc |-> {0}]

Valid(cfg) == \A f \in Fields : cfg[f] \subseteq AcceptedBits[f]

Program(w, cfg) ==
    /\ registers' = [registers EXCEPT ![w] = ThreeWords(Packed(cfg))]
    /\ accepted' = [accepted EXCEPT ![w] = cfg]

ConfigureTlb(w, cfg) == Valid(cfg) /\ Program(w, cfg)

\* The unicast, strictly ordered window of TtWindArcNocPtr and
\* TtWindSysmemNocRead32: x is 8 for the ARC tile, 2 or 11 for the PCIe tile,
\* and addr is rounded down to 2 MiB.
KernelAccess(x, addr) ==
    Program(KernelWindow,
            [ZeroConfig EXCEPT !["Addr"] = addr \cap (21 .. 63), !["XEnd"] = x,
                               !["Ordering"] = {0}])

\* 8, 2 and 11; CSM, the low and high APB windows, the PCIe tile at 4 << 58.
KernelTiles == {{3}, {1}, {0, 1, 3}}
KernelAddresses == {{28}, {31, 16, 10}, {31, 35}, {60, 12}}

Init == /\ registers = [w \in Windows |-> <<{}, {}, {}>>]
        /\ accepted = [w \in Windows |-> ZeroConfig]

Next ==
    \/ \E w \in UserWindows, cfg \in Samples : ConfigureTlb(w, cfg)
    \/ \E x \in KernelTiles, addr \in KernelAddresses : KernelAccess(x, addr)

Spec == Init /\ [][Next]_vars

-----------------------------------------------------------------------------
\* The 96 bits the chip sees, and what it takes the bits of one field for:
\* the layout table of the file header (tlb.c:11-23).
Seen(w) == registers[w][1] \cup {b + 32 : b \in registers[w][2]}
                           \cup {b + 64 : b \in registers[w][3]}

Table ==
    [Addr |-> 0 .. 42, XEnd |-> 43 .. 48, YEnd |-> 49 .. 54, XStart |-> 55 .. 60,
     YStart |-> 61 .. 66, Noc |-> 67 .. 68, Mcast |-> 69 .. 69,
     Ordering |-> 70 .. 71, Linked |-> 72 .. 72, StaticVc |-> 73 .. 73]

Lowest(f) == CHOOSE b \in Table[f] : \A c \in Table[f] : b <= c
Decoded(w, f) == {b - Lowest(f) : b \in Seen(w) \cap Table[f]}

\* Every field of an accepted configuration reaches the chip in its own bits
\* and entire ("nothing truncates silently", tlb.c:375), the address at its
\* 2 MiB block, and the bits outside the table stay 0.
ChipSeesConfig ==
    \A w \in Windows :
        /\ \A f \in Fields :
               accepted[w][f] = IF f = "Addr" THEN {b + 21 : b \in Decoded(w, f)}
                                ELSE Decoded(w, f)
        /\ Seen(w) \subseteq UNION {Table[f] : f \in Fields}

=============================================================================
