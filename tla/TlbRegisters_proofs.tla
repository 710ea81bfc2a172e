------------------------ MODULE TlbRegisters_proofs ------------------------
(***************************************************************************)
(* Proofs about TlbRegisters for any windows and any configurations user   *)
(* mode may ask for.                                                       *)
(***************************************************************************)
EXTENDS TlbRegisters, TLAPS

\* An image of the two words the code has, and one of its 96 bits.
IsImage(image) == image.lo \subseteq Word64 /\ image.hi \subseteq Word32
Bit(image, i) == IF i < 64 THEN i \in image.lo ELSE i - 64 \in image.hi

\* The bits a field puts.
Puts(pos, width, value, i) == i >= pos /\ i - pos < width /\ i - pos \in value

InField(cfg, f, i) == Puts(Position[f], Width[f], Operand(cfg, f), i)

\* What one call of TtWindPackTlb2M makes of an image.
Adds(cfg, f, old, new) ==
    /\ IsImage(new)
    /\ \A i \in 0 .. 95 : Bit(new, i) <=> Bit(old, i) \/ InField(cfg, f, i)

\* The registers hold the configurations accepted last, all of them in range.
IInv == /\ DOMAIN registers = Windows /\ DOMAIN accepted = Windows
        /\ \A w \in Windows : /\ Valid(accepted[w])
                              /\ registers[w] = ThreeWords(Packed(accepted[w]))

-----------------------------------------------------------------------------
(* One field.                                                              *)

\* The shifts of a word, bit by bit.
LEMMA ShiftLeftBits ==
    ASSUME NEW x, x \subseteq Word64, NEW n \in Nat, NEW i \in Nat
    PROVE  i \in ShiftLeft(x, n) <=> i < 64 /\ i >= n /\ i - n \in x
<1>1. ASSUME i \in ShiftLeft(x, n) PROVE i < 64 /\ i >= n /\ i - n \in x
  <2>1. PICK b \in x : b + n \in Word64 /\ i = b + n
    BY <1>1 DEF ShiftLeft
  <2>. QED BY <2>1 DEF Word64
<1>2. ASSUME i < 64, i >= n, i - n \in x PROVE i \in ShiftLeft(x, n)
  <2>1. i - n \in x /\ (i - n) + n \in Word64 /\ i = (i - n) + n
    BY <1>2 DEF Word64
  <2>. QED BY <2>1 DEF ShiftLeft
<1>. QED BY <1>1, <1>2

LEMMA ShiftRightBits ==
    ASSUME NEW x, x \subseteq Word64, NEW n \in Nat, NEW i
    PROVE  i \in ShiftRight(x, n) <=> i \in Nat /\ i + n \in x
<1>1. ASSUME i \in ShiftRight(x, n) PROVE i \in Nat /\ i + n \in x
  <2>1. PICK b \in x : b >= n /\ i = b - n
    BY <1>1 DEF ShiftRight
  <2>2. b \in Nat /\ b - n \in Nat /\ (b - n) + n = b
    BY <2>1 DEF Word64
  <2>. QED BY <2>1, <2>2
<1>2. ASSUME i \in Nat, i + n \in x PROVE i \in ShiftRight(x, n)
  <2>1. i + n >= n /\ i = (i + n) - n
    BY <1>2
  <2>. QED BY <1>2, <2>1 DEF ShiftRight
<1>. QED BY <1>1, <1>2

\* TtWindPutField puts the masked value at Pos of the 96 bits, across the
\* boundary of the words or above it, and touches no other bit.
LEMMA PutFieldBits ==
    ASSUME NEW image, IsImage(image), NEW pos \in Nat, NEW width \in Nat,
           pos + width <= 96, width <= 64, NEW value, value \subseteq Word64
    PROVE  LET new == PutField(image, pos, width, value)
           IN  /\ IsImage(new)
               /\ \A i \in 0 .. 95 :
                     Bit(new, i) <=> Bit(image, i) \/ Puts(pos, width, value, i)
<1> DEFINE masked == value \cap (0 .. width - 1)
           new == PutField(image, pos, width, value)
<1>1. masked \subseteq Word64 /\ \A b \in Nat : b \in masked <=> b \in value /\ b < width
  OBVIOUS
<1>2. CASE pos >= 64
  <2>1. ~(pos < 64) /\ pos - 64 \in Nat
    BY <1>2
  <2> HIDE DEF masked
  <2>2. new = [lo |-> image.lo, hi |-> image.hi \cup Cast32(ShiftLeft(masked, pos - 64))]
    BY <2>1, Zenon DEF PutField, masked
  <2> HIDE DEF new
  <2>3. IsImage(new)
    BY <2>2 DEF IsImage, Cast32
  <2>4. ASSUME NEW i \in 0 .. 95, i < 64
        PROVE  Bit(new, i) <=> Bit(image, i) \/ Puts(pos, width, value, i)
    BY <1>2, <2>2, <2>4 DEF Bit, Puts
  <2>5. ASSUME NEW i \in 0 .. 95, i >= 64
        PROVE  Bit(new, i) <=> Bit(image, i) \/ Puts(pos, width, value, i)
    <3>1. i - 64 \in Word32 /\ i - 64 \in Nat /\ ~(i < 64)
      BY <2>5 DEF Word32
    <3>2. i - 64 \in ShiftLeft(masked, pos - 64)
            <=> i - 64 < 64 /\ i - 64 >= pos - 64 /\ (i - 64) - (pos - 64) \in masked
      BY <1>1, <2>1, <3>1, ShiftLeftBits
    <3>3. i - 64 < 64 /\ (i - 64 >= pos - 64 <=> i >= pos) /\ (i - 64) - (pos - 64) = i - pos
      BY <2>5
    <3>4. i >= pos => (i - pos \in masked <=> i - pos \in value /\ i - pos < width)
      <4>1. i >= pos => i - pos \in Nat
        OBVIOUS
      <4>. QED BY <1>1, <4>1
    <3>5. i - 64 \in new.hi <=> i - 64 \in image.hi \/ i - 64 \in ShiftLeft(masked, pos - 64)
      BY <2>2, <3>1 DEF Cast32
    <3>. QED BY <3>1, <3>2, <3>3, <3>4, <3>5 DEF Bit, Puts
  <2>. QED BY <2>3, <2>4, <2>5 DEF new
<1>3. CASE pos < 64
  <2> DEFINE straddles == pos + width > 64
  <2>1. 64 - pos \in Nat
    BY <1>3
  <2> HIDE DEF masked, straddles
  <2>2. new = [lo |-> image.lo \cup ShiftLeft(masked, pos),
               hi |-> image.hi \cup IF straddles THEN Cast32(ShiftRight(masked, 64 - pos))
                                    ELSE {}]
    BY <1>3, Zenon DEF PutField, masked, straddles
  <2> HIDE DEF new
  <2>3. \A i \in Nat : i \in ShiftLeft(masked, pos) <=> i < 64 /\ i >= pos /\ i - pos \in masked
    BY <1>1, ShiftLeftBits
  <2>4. IsImage(new)
    <3>1. ShiftLeft(masked, pos) \subseteq Word64
      BY DEF ShiftLeft
    <3>2. new.hi \subseteq Word32
      BY <2>2 DEF IsImage, Cast32
    <3>. QED BY <2>2, <3>1, <3>2 DEF IsImage
  <2>5. ASSUME NEW i \in 0 .. 95, i < 64
        PROVE  Bit(new, i) <=> Bit(image, i) \/ Puts(pos, width, value, i)
    <3>1. i >= pos => (i - pos \in masked <=> i - pos \in value /\ i - pos < width)
      <4>1. i >= pos => i - pos \in Nat
        OBVIOUS
      <4>. QED BY <1>1, <4>1
    <3>2. i \in Nat /\ (i \in new.lo <=> i \in image.lo \/ i \in ShiftLeft(masked, pos))
      BY <2>2
    <3>3. i \in ShiftLeft(masked, pos) <=> Puts(pos, width, value, i)
      BY <2>3, <2>5, <3>1, <3>2 DEF Puts
    <3>. QED BY <2>5, <3>2, <3>3 DEF Bit
  <2>6. ASSUME NEW i \in 0 .. 95, i >= 64
        PROVE  Bit(new, i) <=> Bit(image, i) \/ Puts(pos, width, value, i)
    <3>1. /\ i - 64 \in Word32 /\ i - 64 \in Nat /\ ~(i < 64) /\ i >= pos /\ i - pos \in Nat
          /\ (i - 64) + (64 - pos) = i - pos
      BY <1>3, <2>6 DEF Word32
    <3>2. i - 64 \in ShiftRight(masked, 64 - pos) <=> i - pos \in masked
      BY <1>1, <2>1, <3>1, ShiftRightBits
    <3>3. i - pos \in masked <=> i - pos \in value /\ i - pos < width
      BY <1>1, <3>1
    <3>4. CASE straddles
      <4>1. i - 64 \in new.hi
              <=> i - 64 \in image.hi \/ i - 64 \in ShiftRight(masked, 64 - pos)
        BY <2>2, <3>1, <3>4 DEF Cast32
      <4>. QED BY <3>1, <3>2, <3>3, <4>1 DEF Bit, Puts
    <3>5. CASE ~straddles
      <4>1. new.hi = image.hi
        BY <2>2, <3>5
      <4>2. ~(i - pos < width)
        BY <2>6, <3>5, <1>3 DEF straddles
      <4>. QED BY <3>1, <4>1, <4>2 DEF Bit, Puts
    <3>. QED BY <3>4, <3>5
  <2>. QED BY <2>4, <2>5, <2>6 DEF new
<1>. QED BY <1>2, <1>3

-----------------------------------------------------------------------------
(* The layout.                                                             *)

\* The calls of TtWindPackTlb2M put every field where the table has it.
LEMMA Layout ==
    \A f \in Fields : /\ Position[f] \in Nat /\ Width[f] \in Nat
                      /\ Position[f] + Width[f] <= 96 /\ Width[f] <= 64 /\ Width[f] > 0
                      /\ Table[f] = Position[f] .. Position[f] + Width[f] - 1
<1> SUFFICES ASSUME NEW f \in Fields
             PROVE  /\ Position[f] \in Nat /\ Width[f] \in Nat
                    /\ Position[f] + Width[f] <= 96 /\ Width[f] <= 64 /\ Width[f] > 0
                    /\ Table[f] = Position[f] .. Position[f] + Width[f] - 1
  OBVIOUS
<1> USE DEF Position, Width, Table
<1>1. CASE f = "Addr"
  BY <1>1
<1>2. CASE f = "XEnd"
  BY <1>2
<1>3. CASE f = "YEnd"
  BY <1>3
<1>4. CASE f = "XStart"
  BY <1>4
<1>5. CASE f = "YStart"
  BY <1>5
<1>6. CASE f = "Noc"
  BY <1>6
<1>7. CASE f = "Mcast"
  BY <1>7
<1>8. CASE f = "Ordering"
  BY <1>8
<1>9. CASE f = "Linked"
  BY <1>9
<1>10. CASE f = "StaticVc"
  BY <1>10
<1>. QED BY <1>1, <1>2, <1>3, <1>4, <1>5, <1>6, <1>7, <1>8, <1>9, <1>10 DEF Fields

\* No two fields share a bit.
LEMMA Disjoint ==
    ASSUME NEW f \in Fields, NEW g \in Fields, NEW i \in Table[f], i \in Table[g]
    PROVE  f = g
BY DEF Fields, Table

LEMMA LowestBit == \A f \in Fields : Lowest(f) = Position[f]
<1> SUFFICES ASSUME NEW f \in Fields PROVE Lowest(f) = Position[f]
  OBVIOUS
<1>1. /\ Position[f] \in Table[f] /\ \A c \in Table[f] : Position[f] <= c
      /\ \A c \in Table[f] : c \in Nat
  <2> DEFINE p == Position[f]
             n == Width[f]
  <2>1. p \in Nat /\ n \in Nat /\ n > 0 /\ Table[f] = p .. p + n - 1
    BY Layout
  <2> HIDE DEF p, n
  <2>2. p \in Table[f] /\ \A c \in Table[f] : p <= c /\ c \in Nat
    BY <2>1
  <2>. QED BY <2>2 DEF p
<1>2. Lowest(f) \in Table[f] /\ \A c \in Table[f] : Lowest(f) <= c
  BY <1>1, Zenon DEF Lowest
<1>3. Lowest(f) <= Position[f] /\ Position[f] <= Lowest(f) /\ Lowest(f) \in Nat
  BY <1>1, <1>2
<1>4. Position[f] \in Nat
  BY Layout
<1>. QED BY <1>3, <1>4

\* A configuration in range loses nothing to the masks of TtWindPutField.
LEMMA OperandFits ==
    ASSUME NEW cfg, Valid(cfg), NEW f \in Fields
    PROVE  Operand(cfg, f) \subseteq Word64 /\ Operand(cfg, f) \subseteq 0 .. Width[f] - 1
<1>1. CASE f = "Addr"
  <2>1. cfg["Addr"] \subseteq 21 .. 63
    BY <1>1 DEF Valid, Fields, AcceptedBits
  <2>2. cfg["Addr"] \subseteq Word64
    BY <2>1 DEF Word64
  <2>3. \A b \in ShiftRight(cfg["Addr"], 21) : b \in Nat /\ b + 21 \in 21 .. 63
    BY <2>1, <2>2, ShiftRightBits
  <2>4. ShiftRight(cfg["Addr"], 21) \subseteq 0 .. 42
    BY <2>3
  <2>5. 0 .. 42 \subseteq Word64 /\ Width[f] - 1 = 42
    BY <1>1 DEF Word64, Width
  <2>. QED BY <1>1, <2>4, <2>5 DEF Operand
<1>2. CASE f # "Addr"
  <2>1. cfg[f] \subseteq AcceptedBits[f] /\ Operand(cfg, f) = cfg[f]
    BY <1>2 DEF Valid, Operand
  <2>2. AcceptedBits[f] \subseteq 0 .. Width[f] - 1
    BY <1>2 DEF AcceptedBits, Width, Fields
  <2>3. 0 .. Width[f] - 1 \subseteq Word64
    <3> DEFINE n == Width[f]
    <3>1. n \in Nat /\ n <= 64
      BY Layout
    <3> HIDE DEF n
    <3>2. 0 .. n - 1 \subseteq Word64
      BY <3>1 DEF Word64
    <3>. QED BY <3>2 DEF n
  <2>. QED BY <2>1, <2>2, <2>3
<1>. QED BY <1>1, <1>2

-----------------------------------------------------------------------------
(* The image.                                                              *)

\* One call.
LEMMA PutConfigBits ==
    ASSUME NEW cfg, Valid(cfg), NEW f \in Fields, NEW image, IsImage(image)
    PROVE  Adds(cfg, f, image, PutConfig(cfg, f, image))
BY PutFieldBits, Layout, OperandFits DEF PutConfig, InField, Adds

\* A bit of the packed image is a bit of a field.
LEMMA PackedBits ==
    ASSUME NEW cfg, Valid(cfg)
    PROVE  /\ IsImage(Packed(cfg))
           /\ \A i \in 0 .. 95 :
                 Bit(Packed(cfg), i) <=> \E f \in Fields : InField(cfg, f, i)
<1> DEFINE none == [lo |-> {}, hi |-> {}]
           i1 == PutConfig(cfg, "Addr", none)
           i2 == PutConfig(cfg, "XEnd", i1)
           i3 == PutConfig(cfg, "YEnd", i2)
           i4 == PutConfig(cfg, "XStart", i3)
           i5 == PutConfig(cfg, "YStart", i4)
           i6 == PutConfig(cfg, "Noc", i5)
           i7 == PutConfig(cfg, "Mcast", i6)
           i8 == PutConfig(cfg, "Ordering", i7)
           i9 == PutConfig(cfg, "Linked", i8)
           i10 == PutConfig(cfg, "StaticVc", i9)
<1>1. Packed(cfg) = i10
  BY DEF Packed
<1>2. IsImage(none) /\ \A i \in 0 .. 95 : ~Bit(none, i)
  BY DEF IsImage, Bit
<1> HIDE DEF none
<1>3. \A f \in {"Addr", "XEnd", "YEnd", "XStart", "YStart", "Noc",
              "Mcast", "Ordering", "Linked", "StaticVc"} : f \in Fields
  BY DEF Fields
<1>4. Adds(cfg, "Addr", none, i1)
  BY <1>2, <1>3, PutConfigBits
<1> HIDE DEF i1
<1>5. Adds(cfg, "XEnd", i1, i2)
  BY <1>4, <1>3, PutConfigBits DEF Adds
<1> HIDE DEF i2
<1>6. Adds(cfg, "YEnd", i2, i3)
  BY <1>5, <1>3, PutConfigBits DEF Adds
<1> HIDE DEF i3
<1>7. Adds(cfg, "XStart", i3, i4)
  BY <1>6, <1>3, PutConfigBits DEF Adds
<1> HIDE DEF i4
<1>8. Adds(cfg, "YStart", i4, i5)
  BY <1>7, <1>3, PutConfigBits DEF Adds
<1> HIDE DEF i5
<1>9. Adds(cfg, "Noc", i5, i6)
  BY <1>8, <1>3, PutConfigBits DEF Adds
<1> HIDE DEF i6
<1>10. Adds(cfg, "Mcast", i6, i7)
  BY <1>9, <1>3, PutConfigBits DEF Adds
<1> HIDE DEF i7
<1>11. Adds(cfg, "Ordering", i7, i8)
  BY <1>10, <1>3, PutConfigBits DEF Adds
<1> HIDE DEF i8
<1>12. Adds(cfg, "Linked", i8, i9)
  BY <1>11, <1>3, PutConfigBits DEF Adds
<1> HIDE DEF i9
<1>13. Adds(cfg, "StaticVc", i9, i10)
  BY <1>12, <1>3, PutConfigBits DEF Adds
<1> HIDE DEF i10
<1>. QED BY <1>1, <1>2, <1>4, <1>5, <1>6, <1>7, <1>8, <1>9, <1>10, <1>11, <1>12, <1>13
   DEF Adds, Fields

\* The chip sees the image, bit for bit.
LEMMA SeenBits ==
    ASSUME NEW w \in Windows, NEW image, IsImage(image), registers[w] = ThreeWords(image)
    PROVE  \A i : i \in Seen(w) <=> i \in 0 .. 95 /\ Bit(image, i)
<1> DEFINE low == Cast32(image.lo)
           middle == Cast32(ShiftRight(image.lo, 32))
<1>1. Seen(w) = low \cup {b + 32 : b \in middle} \cup {b + 64 : b \in image.hi}
  BY DEF Seen, ThreeWords
<1>2. \A b \in Nat : b \in low <=> b \in image.lo /\ b < 32
  BY DEF Cast32, Word32
<1>3. \A b \in Nat : b \in middle <=> b + 32 \in image.lo /\ b < 32
  BY ShiftRightBits DEF Cast32, Word32, IsImage
<1>4. low \subseteq Word32 /\ middle \subseteq Word32
  BY DEF Cast32
<1> HIDE DEF low, middle
<1>5. ASSUME NEW i, i \in Seen(w) PROVE i \in 0 .. 95 /\ Bit(image, i)
  <2>1. CASE i \in low
    <3>1. i \in 0 .. 31
      BY <1>4, <2>1 DEF Word32
    <3>2. i \in Nat /\ i < 64 /\ i \in 0 .. 95
      BY <3>1
    <3>. QED BY <1>2, <2>1, <3>2 DEF Bit
  <2>2. CASE i \in {b + 32 : b \in middle}
    <3>1. PICK b \in middle : i = b + 32
      BY <2>2
    <3>2. b \in Nat /\ b < 32
      BY <1>4 DEF Word32
    <3>. QED BY <1>3, <3>1, <3>2 DEF Bit
  <2>3. CASE i \in {b + 64 : b \in image.hi}
    <3>1. PICK b \in image.hi : i = b + 64
      BY <2>3
    <3>2. b \in 0 .. 31 /\ i - 64 = b
      BY <3>1 DEF IsImage, Word32
    <3>. QED BY <3>1, <3>2 DEF Bit
  <2>. QED BY <1>1, <1>5, <2>1, <2>2, <2>3
<1>6. ASSUME NEW i \in 0 .. 95, Bit(image, i) PROVE i \in Seen(w)
  <2>1. CASE i < 32
    BY <1>1, <1>2, <1>6, <2>1 DEF Bit
  <2>2. CASE i >= 32 /\ i < 64
    <3>1. i - 32 \in Nat /\ i - 32 < 32 /\ (i - 32) + 32 = i
      BY <2>2
    <3>2. i - 32 \in middle
      BY <1>3, <1>6, <2>2, <3>1 DEF Bit
    <3>. QED BY <1>1, <3>1, <3>2
  <2>3. CASE i >= 64
    <3>1. i - 64 \in image.hi /\ (i - 64) + 64 = i
      BY <1>6, <2>3 DEF Bit
    <3>. QED BY <1>1, <3>1
  <2>. QED BY <2>1, <2>2, <2>3
<1>. QED BY <1>5, <1>6

\* Within the bits of a field the chip sees that field, and elsewhere nothing.
LEMMA SeenField ==
    ASSUME IInv, NEW w \in Windows
    PROVE  /\ \A f \in Fields : \A i \in Table[f] :
                 i \in Seen(w) <=> i - Position[f] \in Operand(accepted[w], f)
           /\ \A i \in Seen(w) : \E f \in Fields : i \in Table[f]
<1> DEFINE cfg == accepted[w]
<1>1. Valid(cfg) /\ registers[w] = ThreeWords(Packed(cfg))
  BY DEF IInv
<1> HIDE DEF cfg
<1>2. \A i : i \in Seen(w) <=> i \in 0 .. 95 /\ \E f \in Fields : InField(cfg, f, i)
  <2>1. IsImage(Packed(cfg))
    BY <1>1, PackedBits
  <2>2. \A i : i \in Seen(w) <=> i \in 0 .. 95 /\ Bit(Packed(cfg), i)
    BY <1>1, <2>1, SeenBits
  <2>3. \A i \in 0 .. 95 : Bit(Packed(cfg), i) <=> \E f \in Fields : InField(cfg, f, i)
    BY <1>1, PackedBits
  <2>. QED BY <2>2, <2>3
<1>3. ASSUME NEW f \in Fields
      PROVE  /\ Table[f] \subseteq 0 .. 95
             /\ \A i \in 0 .. 95 : InField(cfg, f, i) <=>
                                     i \in Table[f] /\ i - Position[f] \in Operand(cfg, f)
  <2> DEFINE p == Position[f]
             n == Width[f]
             x == Operand(cfg, f)
  <2>1. /\ p \in Nat /\ n \in Nat /\ p + n <= 96 /\ Table[f] = p .. p + n - 1
        /\ \A i : InField(cfg, f, i) <=> i >= p /\ i - p < n /\ i - p \in x
    BY Layout DEF InField, Puts
  <2> HIDE DEF p, n, x
  <2>2. p .. p + n - 1 \subseteq 0 .. 95
    BY <2>1
  <2>3. \A i \in 0 .. 95 : i >= p /\ i - p < n <=> i \in p .. p + n - 1
    BY <2>1
  <2>. QED BY <2>1, <2>2, <2>3 DEF p, x
<1>4. \A f \in Fields : Table[f] \subseteq 0 .. 95
  BY <1>3
<1>5. ASSUME NEW f \in Fields, NEW i \in Table[f]
      PROVE  i \in Seen(w) <=> i - Position[f] \in Operand(cfg, f)
  <2>1. i \in 0 .. 95
    BY <1>4
  <2>2. \A g \in Fields : InField(cfg, g, i) => g = f
    BY <1>3, <2>1, Disjoint
  <2>. QED BY <1>2, <1>3, <2>1, <2>2
<1>6. \A i \in Seen(w) : \E f \in Fields : i \in Table[f]
  BY <1>2, <1>3
<1>. QED BY <1>5, <1>6 DEF cfg

-----------------------------------------------------------------------------
(* The registers of every behaviour.                                       *)

\* Accepted configurations, and those of the kernel paths, are in range.
LEMMA Programs ==
    ASSUME IInv, NEW w \in Windows, NEW cfg, Valid(cfg), Program(w, cfg)
    PROVE  IInv'
BY DEF IInv, Program

LEMMA KernelConfigValid ==
    ASSUME NEW x \in KernelTiles, NEW addr
    PROVE  Valid([ZeroConfig EXCEPT !["Addr"] = addr \cap (21 .. 63), !["XEnd"] = x,
                                    !["Ordering"] = {0}])
<1>1. x \subseteq 0 .. 5
  BY DEF KernelTiles
<1> DEFINE cfg == [ZeroConfig EXCEPT !["Addr"] = addr \cap (21 .. 63), !["XEnd"] = x,
                                     !["Ordering"] = {0}]
<1>2. /\ cfg["Addr"] = addr \cap (21 .. 63) /\ cfg["XEnd"] = x /\ cfg["Ordering"] = {0}
      /\ \A f \in Fields \ {"Addr", "XEnd", "Ordering"} : cfg[f] = {}
  BY DEF ZeroConfig, Fields
<1> HIDE DEF cfg
<1>3. ASSUME NEW f \in Fields PROVE cfg[f] \subseteq AcceptedBits[f]
  <2>1. CASE f = "Addr"
    BY <1>2, <2>1 DEF AcceptedBits
  <2>2. CASE f = "XEnd"
    BY <1>1, <1>2, <2>2 DEF AcceptedBits
  <2>3. CASE f = "Ordering"
    BY <1>2, <2>3 DEF AcceptedBits
  <2>. QED BY <1>2, <2>1, <2>2, <2>3
<1>. QED BY <1>3 DEF Valid, cfg

\* Before any window is programmed all registers are 0.
LEMMA ZeroPacked ==
    Valid(ZeroConfig) /\ ThreeWords(Packed(ZeroConfig)) = <<{}, {}, {}>>
<1>1. Valid(ZeroConfig)
  BY DEF Valid, ZeroConfig
<1>2. \A f \in Fields : Operand(ZeroConfig, f) = {}
  BY DEF Operand, ZeroConfig, ShiftRight
<1> DEFINE image == Packed(ZeroConfig)
<1>3. IsImage(image) /\ \A i \in 0 .. 95 : ~Bit(image, i)
  BY <1>1, <1>2, PackedBits DEF InField, Puts
<1> HIDE DEF image
<1>4. image.lo = {}
  <2>1. \A i \in 0 .. 63 : i \in 0 .. 95 /\ i < 64
    OBVIOUS
  <2>. QED BY <1>3, <2>1 DEF IsImage, Word64, Bit
<1>5. image.hi = {}
  <2>1. \A b \in 0 .. 31 : b + 64 \in 0 .. 95 /\ ~(b + 64 < 64) /\ (b + 64) - 64 = b
    OBVIOUS
  <2>. QED BY <1>3, <2>1 DEF IsImage, Word32, Bit
<1>6. ThreeWords(image) = <<{}, {}, {}>>
  BY <1>4, <1>5 DEF ThreeWords, Cast32, ShiftRight
<1>. QED BY <1>1, <1>6 DEF image

\* Whatever user mode asks for, every window holds the packed form of a
\* configuration in range.
THEOREM Invariance == Spec => []IInv
<1>1. Init => IInv
  BY ZeroPacked DEF Init, IInv
<1>2. IInv /\ [Next]_vars => IInv'
  <2> SUFFICES ASSUME IInv, [Next]_vars PROVE IInv'
    OBVIOUS
  <2>1. ASSUME NEW w \in UserWindows, NEW cfg \in Samples, ConfigureTlb(w, cfg) PROVE IInv'
    BY <2>1, Programs DEF ConfigureTlb, Windows
  <2>2. ASSUME NEW x \in KernelTiles, NEW addr \in KernelAddresses, KernelAccess(x, addr)
        PROVE  IInv'
    BY <2>2, Programs, KernelConfigValid DEF KernelAccess, Windows
  <2>3. CASE UNCHANGED vars
    BY <2>3 DEF vars, IInv
  <2>. QED BY <2>1, <2>2, <2>3 DEF Next
<1>. QED BY <1>1, <1>2, PTL DEF Spec

LEMMA EveryFieldArrives == IInv => ChipSeesConfig
<1> SUFFICES ASSUME IInv, NEW w \in Windows
             PROVE  /\ \A f \in Fields :
                          accepted[w][f] = IF f = "Addr" THEN {b + 21 : b \in Decoded(w, f)}
                                           ELSE Decoded(w, f)
                    /\ Seen(w) \subseteq UNION {Table[f] : f \in Fields}
  BY DEF ChipSeesConfig
<1>1. Valid(accepted[w])
  BY DEF IInv
<1>2. ASSUME NEW f \in Fields PROVE Decoded(w, f) = Operand(accepted[w], f)
  <2> DEFINE operand == Operand(accepted[w], f)
  <2>1. \A b \in operand : b \in 0 .. Width[f] - 1
    BY <1>1, OperandFits
  <2>2. \A i \in Table[f] : i \in Seen(w) <=> i - Position[f] \in operand
    BY SeenField
  <2>3. Decoded(w, f) = {i - Position[f] : i \in Seen(w) \cap Table[f]}
    BY LowestBit DEF Decoded
  <2> HIDE DEF operand
  <2>4. ASSUME NEW b \in operand PROVE b \in Decoded(w, f)
    <3>1. b + Position[f] \in Table[f] /\ (b + Position[f]) - Position[f] = b
      BY <2>1, Layout
    <3>. QED BY <2>2, <2>3, <3>1
  <2>5. Decoded(w, f) \subseteq operand
    BY <2>2, <2>3
  <2>. QED BY <2>4, <2>5 DEF operand
<1>3. accepted[w]["Addr"] = {b + 21 : b \in Operand(accepted[w], "Addr")}
  <2> DEFINE addr == accepted[w]["Addr"]
  <2>1. addr \subseteq 21 .. 63
    BY <1>1 DEF Valid, Fields, AcceptedBits
  <2>2. Operand(accepted[w], "Addr") = {b - 21 : b \in {a \in addr : a >= 21}}
    BY DEF Operand, ShiftRight
  <2> HIDE DEF addr
  <2>3. {a \in addr : a >= 21} = addr /\ \A a \in addr : (a - 21) + 21 = a
    <3>1. \A a \in addr : a \in 21 .. 63
      BY <2>1
    <3>2. \A a \in addr : a >= 21 /\ (a - 21) + 21 = a
      BY <3>1
    <3>. QED BY <3>2
  <2>4. addr = {b + 21 : b \in {a - 21 : a \in addr}}
    BY <2>3
  <2>. QED BY <2>2, <2>3, <2>4 DEF addr
<1>4. \A f \in Fields : f # "Addr" => Operand(accepted[w], f) = accepted[w][f]
  BY DEF Operand
<1>5. Seen(w) \subseteq UNION {Table[f] : f \in Fields}
  BY SeenField
<1>. QED BY <1>2, <1>3, <1>4, <1>5

\* Every field of every accepted configuration reaches the chip in its own bits
\* and entire, and the other bits stay 0 (tlb.c:11-23, 375).
THEOREM NothingTruncates == Spec => []ChipSeesConfig
BY EveryFieldArrives, Invariance, PTL

=============================================================================
