-------------------------------- MODULE Bus ---------------------------------
(***************************************************************************)
(* The memories behind the bus (memory/bus.c): every region repeats itself *)
(* through its 16MB, VRAM in a pattern of its own, and each region takes   *)
(* bytes, halfwords and words in its own way.  On top of it the BIOS calls *)
(* CpuSet and CpuFastSet (cpu/bios_hle.c), one action for each element     *)
(* they move.  The I/O region is module IoRegs, the save memory Cartridge. *)
(*                                                                         *)
(* An address is a region and an offset into its 16MB.                     *)
(***************************************************************************)
EXTENDS Naturals, Sequences

CONSTANTS Unit,       \* a third of VRAM (32KB), a multiple of 4
          FastBlock,  \* CpuFastSet moves multiples of this many words (8)
          Counts,     \* elements the program asks to be moved
          Sources,    \* addresses the program copies from
          Targets     \* and to

VARIABLES mem,            \* the bytes of every region
          last_bios_read, \* the word of the BIOS read last, as four bytes
          in_bios,        \* whether the program counter is in the BIOS
          call,           \* the running CpuSet or CpuFastSet
          op,             \* history: the last operation
          before          \* history: mem before it

busvars == <<mem, last_bios_read, in_bios, call, op, before>>

(* EWRAM and IWRAM are alike; palette and OAM only differ in bytes.        *)
Size == [bios |-> Unit, ram |-> 2 * Unit, palette |-> Unit, vram |-> 3 * Unit,
         oam |-> Unit, rom |-> 2 * Unit, none |-> 1]
Regions == DOMAIN Size

(* Offsets the program uses: each region twice over. *)
Address == UNION {{r} \X (0 .. 2 * (IF r = "vram" THEN 4 * Unit ELSE Size[r]) - 1) : r \in Regions}

Plus(a, n)    == <<a[1], a[2] + n>>
Aligned(a, n) == <<a[1], n * (a[2] \div n)>>

-----------------------------------------------------------------------------
(* 96KB in 128KB: the last quarter shows the one before. *)
vram_offset(o) == LET off == o % (4 * Unit) IN IF off >= 3 * Unit THEN off - Unit ELSE off

(* Where a byte is in the array of its region. *)
Cell(a) == IF a[1] = "vram" THEN vram_offset(a[2]) ELSE a[2] % Size[a[1]]

(* bus_read8.  The BIOS shows itself to itself only; the BIOS and the ROM  *)
(* do not repeat, and nothing is where there is no region.                 *)
bus_read8(m, a) ==
  IF a[1] = "none" \/ (a[1] \in {"bios", "rom"} /\ a[2] >= Size[a[1]]) THEN 0
  ELSE IF a[1] = "bios" /\ ~in_bios THEN last_bios_read[1 + (a[2] % 4)]
  ELSE m[a[1]][Cell(a)]

(* bus_read16, bus_read32: n bytes, from the address forced to alignment.  *)
bus_read(m, a, n) == [i \in 1..n |-> bus_read8(m, Plus(Aligned(a, n), i - 1))]

(* bus_write8: palette and VRAM take a byte for both halves of a halfword, *)
(* OAM does not take it.                                                   *)
bus_write8(m, a, v) ==
  LET half == 2 * (Cell(a) \div 2) IN
  IF a[1] = "ram" THEN [m EXCEPT !.ram = [@ EXCEPT ![Cell(a)] = v]]
  ELSE IF a[1] \in {"palette", "vram"}
  THEN [m EXCEPT ![a[1]] = [@ EXCEPT ![half] = v, ![half + 1] = v]]
  ELSE m

Video == {"palette", "vram", "oam"}

\* Mutant: a halfword is stored as two bytes everywhere.
bus_write16_bytes(m, a, v) ==
  LET b == Aligned(a, 2) IN bus_write8(bus_write8(m, b, v[1]), Plus(b, 1), v[2])

bus_write16(m, a, v) ==
  LET b == Aligned(a, 2) IN
  IF a[1] \in Video
  THEN [m EXCEPT ![a[1]] = [@ EXCEPT ![Cell(b)] = v[1], ![Cell(b) + 1] = v[2]]]
  ELSE bus_write8(bus_write8(m, b, v[1]), Plus(b, 1), v[2])

bus_write32(m, a, v) ==
  LET b == Aligned(a, 4) IN
  IF a[1] \in Video
  THEN [m EXCEPT ![a[1]] = [@ EXCEPT ![Cell(b)] = v[1], ![Cell(Plus(b, 1))] = v[2],
                                     ![Cell(Plus(b, 2))] = v[3], ![Cell(Plus(b, 3))] = v[4]]]
  ELSE bus_write8(bus_write8(bus_write8(bus_write8(m, b, v[1]),
                    Plus(b, 1), v[2]), Plus(b, 2), v[3]), Plus(b, 3), v[4])

bus_write(m, a, v) == IF Len(v) = 1 THEN bus_write8(m, a, v[1])
                      ELSE IF Len(v) = 2 THEN bus_write16(m, a, v) ELSE bus_write32(m, a, v)

-----------------------------------------------------------------------------
Idle == [kind |-> "idle", left |-> 0]

(* Each byte of memory has a content of its own. *)
Content ==
  LET first == [bios |-> 10, ram |-> 30, palette |-> 50, vram |-> 70, oam |-> 100, rom |-> 120,
                none |-> 0]
  IN  [r \in Regions |-> [o \in 0 .. Size[r] - 1 |-> first[r] + o]]

BusInit ==
  /\ mem = Content
  /\ last_bios_read = <<0, 0, 0, 0>>
  /\ in_bios = TRUE
  /\ call = Idle /\ op = Idle /\ before = mem

(* Interrupts, calls and returns take the program counter in and out.      *)
Jump == /\ call = Idle /\ op = Idle
        /\ in_bios' = ~in_bios
        /\ UNCHANGED <<mem, last_bios_read, call, op, before>>

(* A load from the BIOS, whose word is remembered when it is let through.  *)
LoadBios(a) ==
  /\ call = Idle /\ op = Idle /\ in_bios
  /\ last_bios_read' = bus_read(mem, a, 4)
  /\ UNCHANGED <<mem, in_bios, call, op, before>>

(* The program stores 1, 2 or 4 bytes. *)
Store(a, n) ==
  LET v == [i \in 1..n |-> 200 + i] IN
  /\ call = Idle /\ op = Idle
  /\ mem' = bus_write(mem, a, v)
  /\ op' = [kind |-> "store", to |-> a, bytes |-> v]
  /\ before' = mem
  /\ UNCHANGED <<last_bios_read, in_bios, call>>

(* swi_cpu_set and swi_cpu_fast_set up to their loops: width 2 or 4.  The  *)
(* emulator runs them for programs without a BIOS file, outside the BIOS.  *)
RoundUp(count) == FastBlock * ((count + FastBlock - 1) \div FastBlock)
CpuSet(s, d, width, fill, fast, count) ==
  /\ call = Idle /\ op = Idle /\ ~in_bios
  /\ call' = [kind |-> "set", src |-> Aligned(s, width), dst |-> Aligned(d, width), width |-> width,
              fill |-> fill, val |-> bus_read(mem, Aligned(s, width), width),
              left |-> IF fast THEN RoundUp(count) ELSE count]
  /\ op' = [kind |-> "set", from |-> s, to |-> d, width |-> width, fill |-> fill,
            least |-> count, block |-> IF fast THEN FastBlock ELSE 1]
  /\ before' = mem
  /\ UNCHANGED <<mem, last_bios_read, in_bios>>

\* Mutant: the source is stepped in a fill as well.
TransferSteps ==
  /\ call.left > 0
  /\ mem' = bus_write(mem, call.dst, bus_read(mem, call.src, call.width))
  /\ call' = [call EXCEPT !.src = Plus(@, call.width), !.dst = Plus(@, call.width), !.left = @ - 1]
  /\ UNCHANGED <<last_bios_read, in_bios, op, before>>

(* One round of the loops. *)
Transfer ==
  /\ call.left > 0
  /\ mem' = bus_write(mem, call.dst,
                      IF call.fill THEN call.val ELSE bus_read(mem, call.src, call.width))
  /\ call' = [call EXCEPT !.src = IF call.fill THEN @ ELSE Plus(@, call.width),
                          !.dst = Plus(@, call.width), !.left = @ - 1]
  /\ UNCHANGED <<last_bios_read, in_bios, op, before>>

(* The program looks at the result and sets its memory up again.          *)
SetUp ==
  /\ op # Idle /\ call.left = 0
  /\ call' = Idle /\ op' = Idle /\ mem' = Content /\ before' = Content
  /\ UNCHANGED <<last_bios_read, in_bios>>

BusNext ==
  \/ Jump \/ Transfer \/ SetUp
  \/ \E a \in {"bios"} \X (0 .. Unit - 1) : LoadBios(a)
  \/ \E a \in Address, n \in {1, 2, 4} : Store(a, n)
  \/ \E s \in Sources, d \in Targets, fill \in BOOLEAN, count \in Counts :
       \/ \E width \in {2, 4} : CpuSet(s, d, width, fill, FALSE, count)
       \/ CpuSet(s, d, 4, fill, TRUE, count)

-----------------------------------------------------------------------------
(* Two addresses of the same byte: equal up to a multiple of the region's  *)
(* size; in VRAM up to 128KB, or in the two last quarters up to 32KB too.  *)
SameByte(a, b) ==
  /\ a[1] = b[1]
  /\ LET differ(n) == a[2] % n = b[2] % n
         upper(x)  == (x[2] \div Unit) % 4 \in {2, 3}
     IN  IF a[1] = "vram" THEN differ(4 * Unit) \/ (upper(a) /\ upper(b) /\ differ(Unit))
         ELSE differ(Size[a[1]])

Writable == Video \cup {"ram"}

(* Memory reads as m2 where the bytes v went to a, and else as m1.         *)
Arrived(m1, m2, a, v) ==
  \A x \in Address :
    LET hit == {i \in 1 .. Len(v) : a[1] \in Writable /\ SameByte(x, Plus(a, i - 1))}
    IN  IF hit = {} THEN bus_read8(m2, x) = bus_read8(m1, x)
        ELSE \E i \in hit : bus_read8(m2, x) = v[i]

(* A store is seen at every mirror of its address, in the fold of VRAM     *)
(* too, and nowhere else; bytes come out double in palette and VRAM and    *)
(* not at all in OAM, halfwords and words as they are.                     *)
StoresSeenEverywhere ==
  op.kind = "store" =>
    LET n == Len(op.bytes) IN
    IF n = 1 /\ op.to[1] \in {"palette", "vram"}
    THEN Arrived(before, mem, Aligned(op.to, 2), <<op.bytes[1], op.bytes[1]>>)
    ELSE IF n = 1 /\ op.to[1] = "oam" THEN mem = before
    ELSE Arrived(before, mem, Aligned(op.to, n), op.bytes)

(* CpuSet and CpuFastSet bring what was at the source, or its first        *)
(* element over and over, to the destination and to nothing else: as many  *)
(* elements as asked for, up to the next whole block - whenever the two    *)
(* do not overlap, and through whichever mirrors they run.                 *)
CopyArrives ==
  call # Idle /\ call.left = 0 =>
    \E n \in op.least .. op.least + op.block - 1 :
      LET w   == op.width
          to  == Aligned(op.to, w)
          from(i) == Plus(Aligned(op.from, w), IF op.fill THEN i % w ELSE i)
          apart == \A i, j \in 0 .. n * w - 1 : ~SameByte(Plus(to, i), from(j))
      IN  /\ n % op.block = 0
          /\ apart => Arrived(before, mem, to, [i \in 1 .. n * w |-> bus_read8(before, from(i - 1))])
=============================================================================
