----------------------------- MODULE FlashProofs ----------------------------
(***************************************************************************)
(* For chips of any size, pages and sectors of any size that divide them,  *)
(* any layout of the sectors of the FMC, any data and any number of calls, *)
(* resets and losses of power: what a write wrote is read back when it has *)
(* returned, and no call, completed or cut short, touches what it does not *)
(* erase.                                                                  *)
(***************************************************************************)
EXTENDS Flash, WellFoundedInduction, TLAPS

SpiOps == {"spi_erase", "spi_write"}
FmcOps == {"fmc_erase", "fmc_write"}

(* A call names a sector, or an address with room for its data. *)
CallOK ==
  /\ call \in [op : {"none"} \cup SpiOps \cup FmcOps, addr : Nat, data : Seq(Values)]
  /\ call.op \in SpiOps => call.addr \in SpiAddr
  /\ call.op = "spi_write" => call.data # << >>
  /\ call.op = "fmc_erase" => call.addr \in Starts
  /\ call.op = "fmc_write" => call.data # << >> /\ EndAddr(call) <= FmcCells

(* The program is in the driver that was called. *)
PcOK ==
  /\ pc \in {"erase_enable", "erase_busy", "erase", "erase_done"} => call.op \in SpiOps
  /\ pc \in {"write_enable", "write_busy", "write", "write_done"} => call.op = "spi_write"
  /\ pc \in {"fmc_erase", "fmc_erased"} => call.op \in FmcOps
  /\ pc \in {"fmc_word", "fmc_worded"} => call.op = "fmc_write"
  /\ complete => pc = "idle"

(* A chip is busy with turning cells into cells. *)
JobsOK ==
  /\ \A c \in DOMAIN spi_job : spi_job[c] \in SUBSET Bits
  /\ \A c \in DOMAIN fmc_job : fmc_job[c] \in SUBSET Bits

-----------------------------------------------------------------------------
(* What the erase of GD25Q32_write leaves, and what its program command      *)
(* makes of that.                                                            *)
SpiErased == \A c \in SpiSector(call.addr) : spi[c] = Erased
Bytes == Latch(call.addr, call.data)
SpiWritten == \A c \in DOMAIN Bytes : spi[c] = Bytes[c]

(* A chip that was idle when the call began is busy for this call only, and  *)
(* never when a command is sent to it.                                       *)
SpiBusyInv ==
  /\ DOMAIN spi_job \subseteq SpiSector(call.addr)
  /\ pc \in {"erase_enable", "erase_busy", "erase", "write_enable", "write_busy", "write"}
       => spi_job = NoJob
  /\ pc \in {"erase_busy", "erase", "write_busy", "write"} => wel

(* The sector is erased, then the bytes are programmed. *)
SpiDataInv ==
  /\ pc = "erase_done" => \/ spi_job = SectorOf(call.addr)
                          \/ spi_job = NoJob /\ SpiErased
  /\ pc \in {"write_enable", "write_busy", "write"} => SpiErased
  /\ pc = "write_done" => spi_job = Bytes \/ (spi_job = NoJob /\ SpiWritten)
  /\ call.op = "spi_write" /\ complete => spi_job = NoJob /\ SpiWritten

SpiInv == ~stale => SpiBusyInv /\ SpiDataInv

-----------------------------------------------------------------------------
(* The cells that a call of the FMC driver may change: FmcOthersKept. *)
Reach == {c \in FmcAddr :
            \/ fmc_sector_get(c) = call.addr
            \/ \E i \in DOMAIN call.data : fmc_sector_get(c) = fmc_sector_get(call.addr + i - 1)
            \/ fmc_sector_get(c) = EndAddr(call)}

(* The FMC is busy only while the driver waits for it, or has given up. *)
FmcBusyInv ==
  /\ fmc_job # NoJob => pc \in {"fmc_erased", "fmc_worded", "hang"}
  /\ DOMAIN fmc_job \subseteq Reach

(* The sectors below s, from that of the first word on, are erased. *)
ErasedBelow(s) ==
  \A c \in FmcAddr : fmc_sector_get(call.addr) <= fmc_sector_get(c) /\ fmc_sector_get(c) < s
                       => fmc[c] = Erased

EraseInv ==
  /\ pc \in {"fmc_erase", "fmc_erased"} =>
       IF call.op = "fmc_erase" THEN idx = call.addr
       ELSE /\ idx \in Starts /\ fmc_sector_get(call.addr) <= idx /\ idx <= EndSector
            /\ ErasedBelow(idx)
  /\ pc = "fmc_erased" =>
       \/ fmc_job = EraseJob(FmcSector(idx))
       \/ fmc_job = NoJob /\ \A c \in FmcSector(idx) : fmc[c] = Erased

(* Word j of the data is written, or still erased. *)
WordIs(j) == fmc[call.addr + j - 1] = call.data[j]
WordErased(j) == fmc[call.addr + j - 1] = Erased

WordInv ==
  /\ pc \in {"fmc_word", "fmc_worded"} =>
       /\ idx \in DOMAIN call.data
       /\ \A j \in DOMAIN call.data : (j < idx => WordIs(j)) /\ (j > idx => WordErased(j))
  /\ pc = "fmc_word" => WordErased(idx)
  /\ pc = "fmc_worded" => \/ fmc_job = [x \in {call.addr + idx - 1} |-> call.data[idx]]
                          \/ fmc_job = NoJob /\ WordIs(idx)
  /\ call.op = "fmc_write" /\ complete => \A j \in DOMAIN call.data : WordIs(j)

(* The inductive invariant. *)
IInv ==
  /\ TypeOK /\ CallOK /\ PcOK /\ JobsOK
  /\ SpiInv /\ FmcBusyInv /\ EraseInv /\ WordInv

-----------------------------------------------------------------------------
(* Least and greatest elements. *)
LEMMA LeastIs ==
  ASSUME NEW S \in SUBSET Nat, S # {}
  PROVE  Min(S) \in S /\ \A y \in S : Min(S) <= y
<1>1. PICK x \in S : \A y \in S : ~ (<<y, x>> \in OpToRel(<, Nat))
  BY NatLessThanWellFounded, WFMin
<1>2. \A y, z \in Nat : y < z => <<y, z>> \in OpToRel(<, Nat)
  BY ZenonT(20) DEF OpToRel
<1>3. \A y \in S : ~ (y < x)
  BY <1>1, <1>2
<1>4. \A y \in S : x <= y
  BY <1>3
<1> QED BY <1>4 DEF Min

(* A bounded set of numbers has a greatest one. *)
LEMMA GreatestIs ==
  ASSUME NEW n \in Nat, NEW S \in SUBSET (0 .. n), S # {}
  PROVE  Max(S) \in S /\ \A y \in S : Max(S) >= y
<1> DEFINE T == {m \in Nat : n - m \in S}
<1>1. T # {} /\ T \subseteq Nat
  <2>1. PICK x \in S : TRUE
    OBVIOUS
  <2>2. n - x \in Nat /\ n - (n - x) = x
    OBVIOUS
  <2> QED BY <2>1, <2>2
<1>2. Min(T) \in T /\ \A y \in T : Min(T) <= y
  BY <1>1, LeastIs
<1> DEFINE x == n - Min(T)
<1>3. x \in S
  BY <1>2
<1>4. ASSUME NEW y \in S PROVE x >= y
  <2>1. n - y \in Nat /\ n - (n - y) = y
    OBVIOUS
  <2> QED BY <1>2, <2>1
<1> HIDE DEF x
<1> QED BY <1>3, <1>4 DEF Max

(* Division: a number is its quotient times the divisor, and its remainder. *)
LEMMA Division ==
  ASSUME NEW n \in Nat \ {0}, NEW a \in Nat
  PROVE  /\ a \div n \in Nat /\ a % n \in 0 .. n - 1
         /\ a = n * (a \div n) + (a % n)
BY SMT

(* They are the only ones. *)
LEMMA DivisionUnique ==
  ASSUME NEW n \in Nat \ {0}, NEW q \in Nat, NEW r \in 0 .. n - 1
  PROVE  (n * q + r) \div n = q /\ (n * q + r) % n = r
<1> DEFINE a == n * q + r
           p == a \div n
           s == a % n
<1>1. a \in Nat
  OBVIOUS
<1>2. p \in Nat /\ s \in 0 .. n - 1 /\ n * q + r = n * p + s
  BY <1>1, Division
<1> HIDE DEF a, p, s
<1>3. n * (q - p) = s - r
  BY <1>2
<1>4. q - p = 0
  <2>1. ASSUME q - p >= 1 PROVE FALSE
    <3>1. n * (q - p) >= n
      BY <1>2, <2>1
    <3> QED BY <1>2, <1>3, <3>1
  <2>2. ASSUME p - q >= 1 PROVE FALSE
    <3>1. n * (p - q) >= n
      BY <1>2, <2>2
    <3>2. n * (p - q) = r - s
      BY <1>2
    <3> QED BY <1>2, <3>1, <3>2
  <2> QED BY <1>2, <2>1, <2>2
<1> QED BY <1>2, <1>4 DEF a, p, s

(* The block of n numbers that a is in: what lies in it, and that it ends    *)
(* where every multiple of n does.                                           *)
LEMMA SameBlock ==
  ASSUME NEW n \in Nat \ {0}, NEW a \in Nat, NEW r \in 0 .. n - 1
  PROVE  /\ (a - (a % n)) + r \in Nat
         /\ ((a - (a % n)) + r) \div n = a \div n
<1>1. a - (a % n) = n * (a \div n) /\ a \div n \in Nat
  <2>1. a \div n \in Nat /\ a = n * (a \div n) + (a % n) /\ a % n \in 0 .. n - 1
    BY Division
  <2> QED BY <2>1
<1>2. n * (a \div n) \in Nat
  BY <1>1
<1>3. (n * (a \div n) + r) \div n = a \div n
  BY <1>1, DivisionUnique
<1> QED BY <1>1, <1>2, <1>3

LEMMA BlockEnds ==
  ASSUME NEW n \in Nat \ {0}, NEW k \in Nat, NEW a \in Nat, a < n * k, NEW c \in Nat,
         c \div n = a \div n
  PROVE  c < n * k
<1>1. a \div n \in Nat /\ a = n * (a \div n) + (a % n) /\ a % n \in 0 .. n - 1
      /\ c = n * (a \div n) + (c % n) /\ c % n \in 0 .. n - 1
  BY Division
<1> DEFINE q == a \div n
<1> HIDE DEF q
<1>2. q < k
  <2>1. ASSUME q >= k PROVE FALSE
    <3>1. n * q >= n * k
      BY <1>1, <2>1 DEF q
    <3> QED BY <1>1, <3>1 DEF q
  <2> QED BY <1>1, <2>1 DEF q
<1>3. n * q + n <= n * k
  BY <1>1, <1>2 DEF q
<1> QED BY <1>1, <1>3 DEF q

(* Blocks of n lie within the blocks of m, if n divides m. *)
LEMMA BlocksNest ==
  ASSUME NEW n \in Nat \ {0}, NEW m \in Nat \ {0}, m % n = 0,
         NEW a \in Nat, NEW c \in Nat, c \div n = a \div n
  PROVE  c \div m = a \div m
<1> DEFINE k == m \div n
           q == a \div m
<1>1. k \in Nat /\ m = n * k
  BY Division
<1>2. q \in Nat /\ a = m * q + (a % m) /\ a % m \in 0 .. m - 1
  BY Division
<1> HIDE DEF k, q
<1>3. ASSUME NEW x \in Nat, NEW y \in Nat, x \div n = y \div n, NEW j \in Nat, y < m * j
      PROVE  x < m * j
  <2>1. m * j = n * (k * j) /\ k * j \in Nat
    BY <1>1
  <2> QED BY <1>3, <2>1, BlockEnds
<1> DEFINE p == m * q
<1>4. p \in Nat /\ m * (q + 1) = p + m
  BY <1>2
<1>5. c < p + m
  <2>1. a < m * (q + 1) /\ q + 1 \in Nat
    BY <1>2, <1>4
  <2> QED BY <1>3, <1>4, <2>1
<1>6. c >= p
  <2>1. ~(a < m * q)
    BY <1>2, <1>4
  <2>2. ~(c < m * q)
    BY <1>2, <1>3, <2>1
  <2> QED BY <1>4, <2>2
<1>7. c = m * q + (c - p) /\ c - p \in 0 .. m - 1
  BY <1>4, <1>5, <1>6
<1>8. (m * q + (c - p)) \div m = q
  BY <1>2, <1>7, DivisionUnique
<1> QED BY <1>7, <1>8 DEF q

(* Between two numbers of a block there are only numbers of the block. *)
LEMMA BlockConvex ==
  ASSUME NEW n \in Nat \ {0}, NEW a \in Nat, NEW b \in Nat, NEW c \in Nat,
         a <= c, c <= b, a \div n = b \div n
  PROVE  c \div n = a \div n
<1> DEFINE q == a \div n
<1>1. q \in Nat /\ a = n * q + (a % n) /\ a % n \in 0 .. n - 1
      /\ b = n * q + (b % n) /\ b % n \in 0 .. n - 1
  BY Division
<1> HIDE DEF q
<1> DEFINE p == n * q
<1>2. p \in Nat /\ a >= p /\ b < p + n
  BY <1>1
<1>3. c = n * q + (c - p) /\ c - p \in 0 .. n - 1
  BY <1>1, <1>2
<1>4. (n * q + (c - p)) \div n = q
  BY <1>1, <1>3, DivisionUnique
<1> QED BY <1>3, <1>4 DEF q

-----------------------------------------------------------------------------
(* The constants. *)
LEMMA Sizes ==
  /\ SpiCells \in Nat \ {0} /\ SectorSize \in Nat \ {0} /\ PageSize \in Nat \ {0}
  /\ FmcCells \in Nat \ {0} /\ MaxData \in Nat /\ MaxCalls \in Nat /\ MaxResets \in Nat
  /\ \A v \in Values : v \subseteq Bits
  /\ Starts \subseteq FmcAddr /\ Starts \subseteq Nat
  /\ SpiAddr \subseteq Nat /\ FmcAddr \subseteq Nat
BY FlashAssumption DEF FmcAddr, SpiAddr

(* A chip without a job has no cells to change. *)
LEMMA NoJobIs == DOMAIN NoJob = {} /\ \A c \in DOMAIN NoJob : NoJob[c] \in SUBSET Bits
BY DEF NoJob

(* fmc_sector_get: the last sector that begins at or below the address. *)
LEMMA SectorGet ==
  ASSUME NEW a \in Nat
  PROVE  /\ fmc_sector_get(a) \in Starts /\ fmc_sector_get(a) \in Nat /\ fmc_sector_get(a) <= a
         /\ \A s \in Starts : s <= a => s <= fmc_sector_get(a)
<1> DEFINE S == {s \in Starts : s <= a}
<1>1. 0 \in S /\ S \subseteq 0 .. a
  <2>1. 0 \in Starts /\ Starts \subseteq Nat /\ 0 <= a
    BY FlashAssumption, Sizes
  <2>2. ASSUME NEW s \in S PROVE s \in 0 .. a
    BY <2>1
  <2> QED BY <2>1, <2>2
<1>2. Max(S) \in S /\ \A y \in S : Max(S) >= y
  BY <1>1, GreatestIs
<1> QED BY <1>1, <1>2, Sizes DEF fmc_sector_get

(* Later addresses are in later sectors; a sector begins in itself. *)
LEMMA SectorOrder ==
  /\ \A a, b \in Nat : a <= b => fmc_sector_get(a) <= fmc_sector_get(b)
  /\ \A s \in Starts : fmc_sector_get(s) = s
<1>1. ASSUME NEW a \in Nat, NEW b \in Nat, a <= b
      PROVE  fmc_sector_get(a) <= fmc_sector_get(b)
  BY <1>1, SectorGet, Sizes
<1>2. ASSUME NEW s \in Starts PROVE fmc_sector_get(s) = s
  BY SectorGet, Sizes
<1> QED BY <1>1, <1>2

(* The sector after s, and nothing between the two. *)
LEMMA NextSector ==
  ASSUME NEW s \in Starts, NEW e \in Starts, s < e
  PROVE  LET n == Min({x \in Starts : x > s})
         IN  n \in Starts /\ s < n /\ n <= e /\ \A x \in Starts : x < n => x <= s
<1> DEFINE S == {x \in Starts : x > s}
<1>1. e \in S /\ S \subseteq Nat
  BY Sizes
<1>2. Min(S) \in S /\ \A y \in S : Min(S) <= y
  BY <1>1, LeastIs
<1>3. s \in Nat /\ e \in Nat /\ Min(S) \in Nat /\ Starts \subseteq Nat
  BY <1>1, <1>2, Sizes
<1>4. ASSUME NEW x \in Starts, x < Min(S) PROVE x <= s
  BY <1>2, <1>3, <1>4
<1> QED BY <1>1, <1>2, <1>4

(* What a call is about. *)
LEMMA CallFacts ==
  ASSUME CallOK
  PROVE  /\ call.addr \in Nat /\ call.data \in Seq(Values) /\ Len(call.data) \in Nat
         /\ DOMAIN call.data = 1 .. Len(call.data)
         /\ \A i \in DOMAIN call.data : call.data[i] \in SUBSET Bits
         /\ EndAddr(call) = call.addr + Len(call.data) /\ EndAddr(call) \in Nat
         /\ EndSector \in Starts /\ fmc_sector_get(call.addr) \in Starts
         /\ fmc_sector_get(call.addr) <= EndSector
         /\ call.data # << >> => Len(call.data) > 0
<1>1. call.addr \in Nat /\ call.data \in Seq(Values)
  BY DEF CallOK
<1>2. /\ Len(call.data) \in Nat /\ DOMAIN call.data = 1 .. Len(call.data)
      /\ call.data # << >> => Len(call.data) > 0
  BY <1>1
<1>3. \A i \in DOMAIN call.data : call.data[i] \in SUBSET Bits
  <2>1. \A i \in DOMAIN call.data : call.data[i] \in Values
    BY <1>1
  <2> QED BY <2>1, Sizes
<1>4. EndAddr(call) = call.addr + Len(call.data) /\ EndAddr(call) \in Nat
      /\ call.addr <= EndAddr(call)
  BY <1>1, <1>2 DEF EndAddr
<1>5. EndSector \in Starts /\ fmc_sector_get(call.addr) \in Starts
      /\ fmc_sector_get(call.addr) <= EndSector
  BY <1>1, <1>4, SectorGet, SectorOrder DEF EndSector
<1> QED BY <1>1, <1>2, <1>3, <1>4, <1>5

(* The sector that is erased is the one of the address. *)
LEMMA ErasedSector ==
  ASSUME CallOK, call.op \in SpiOps
  PROVE  SectorOf(call.addr) = EraseJob(SpiSector(call.addr))
<1>1. call.addr \in Nat /\ SectorSize \in Nat \ {0}
  BY Sizes DEF CallOK
<1> DEFINE q == call.addr \div SectorSize
<1>2. q \in Nat /\ 0 \in 0 .. SectorSize - 1
  BY <1>1, Division
<1>3. (SectorSize * q + 0) \div SectorSize = q
  BY <1>1, <1>2, DivisionUnique
<1>4. q * SectorSize = SectorSize * q + 0
  BY <1>1, <1>2
<1>5. (q * SectorSize) \div SectorSize = q
  BY <1>3, <1>4
<1>6. SpiSector(q * SectorSize) = SpiSector(call.addr)
  BY <1>5 DEF SpiSector
<1> QED BY <1>6 DEF SectorOf

(* An erase job. *)
LEMMA EraseJobIs ==
  ASSUME NEW S
  PROVE  DOMAIN EraseJob(S) = S /\ \A c \in S : EraseJob(S)[c] = Bits
BY DEF EraseJob, Erased

-----------------------------------------------------------------------------
(* The cell that byte i of a program command at addr lands in. *)
Cell(addr, i) == (addr - (addr % PageSize)) + ((addr + i - 1) % PageSize)

(* It lies in the page, and so in the sector, of the address; and it is the  *)
(* cell that was meant, if that one lies in the page.                        *)
LEMMA CellFacts ==
  ASSUME NEW addr \in SpiAddr, NEW i \in Nat \ {0}
  PROVE  /\ Cell(addr, i) \in SpiSector(addr)
         /\ (addr + i - 1) \div PageSize = addr \div PageSize => Cell(addr, i) = addr + i - 1
<1> DEFINE b == addr + i - 1
<1>1. addr \in Nat /\ b \in Nat /\ PageSize \in Nat \ {0} /\ SectorSize \in Nat \ {0}
  BY Sizes
<1>2. Cell(addr, i) \in Nat /\ Cell(addr, i) \div PageSize = addr \div PageSize
  <2> HIDE DEF b
  <2>1. b % PageSize \in 0 .. PageSize - 1
    BY <1>1, Division
  <2>2. Cell(addr, i) = (addr - (addr % PageSize)) + (b % PageSize)
    BY DEF Cell, b
  <2> QED BY <1>1, <2>1, <2>2, SameBlock
<1>3. Cell(addr, i) \div SectorSize = addr \div SectorSize
  <2>1. SectorSize % PageSize = 0
    BY FlashAssumption
  <2> QED BY <1>1, <1>2, <2>1, BlocksNest
<1>4. Cell(addr, i) < SpiCells
  <2>1. SpiCells % SectorSize = 0 /\ SpiCells \in Nat
    BY FlashAssumption, Sizes
  <2> DEFINE k == SpiCells \div SectorSize
  <2>2. k \in Nat /\ SpiCells = SectorSize * k + (SpiCells % SectorSize)
    BY <1>1, <2>1, Division
  <2> HIDE DEF k
  <2>3. SectorSize * k \in Nat /\ SpiCells = SectorSize * k
    BY <1>1, <2>1, <2>2
  <2>4. addr < SectorSize * k
    BY <2>1, <2>3 DEF SpiAddr
  <2> QED BY <1>1, <1>2, <1>3, <2>2, <2>3, <2>4, BlockEnds
<1>5. Cell(addr, i) \in SpiSector(addr)
  <2>1. Cell(addr, i) \in SpiAddr
    BY <1>2, <1>4, Sizes DEF SpiAddr
  <2> QED BY <1>3, <2>1 DEF SpiSector
<1>6. ASSUME b \div PageSize = addr \div PageSize
      PROVE  Cell(addr, i) = b
  <2>1. Cell(addr, i) = (addr - (addr % PageSize)) + (b % PageSize)
    BY DEF Cell, b
  <2> DEFINE q == addr \div PageSize
  <2>2. q \in Nat /\ addr % PageSize \in 0 .. PageSize - 1
        /\ addr = PageSize * q + (addr % PageSize)
    BY <1>1, Division
  <2> HIDE DEF b
  <2>3. /\ b % PageSize \in 0 .. PageSize - 1
        /\ b = PageSize * (b \div PageSize) + (b % PageSize)
    BY <1>1, Division
  <2>5. b \div PageSize = q
    BY <1>6 DEF b
  <2> HIDE DEF b, q
  <2>4. PageSize * q \in Nat
    BY <1>1, <2>2
  <2> QED BY <1>1, <2>1, <2>2, <2>3, <2>4, <2>5
<1> QED BY <1>5, <1>6

(* The data latched for a program command: one of its bytes for each cell. *)
LEMMA LatchIs ==
  ASSUME NEW addr \in SpiAddr, NEW data \in Seq(Values)
  PROVE  /\ DOMAIN Latch(addr, data) = {Cell(addr, i) : i \in DOMAIN data}
         /\ Latch(addr, data) =
              [c \in DOMAIN Latch(addr, data) |-> Latch(addr, data)[c]]
         /\ \A c \in DOMAIN Latch(addr, data) :
              \E i \in DOMAIN data : Cell(addr, i) = c /\ Latch(addr, data)[c] = data[i]
<1> DEFINE At(c) == {i \in DOMAIN data : Cell(addr, i) = c}
<1>1. Latch(addr, data) =
        [c \in {Cell(addr, i) : i \in DOMAIN data} |-> data[Max(At(c))]]
  BY DEF Latch, Cell
<1>2. ASSUME NEW c \in {Cell(addr, i) : i \in DOMAIN data} PROVE Max(At(c)) \in At(c)
  <2>1. At(c) # {} /\ At(c) \subseteq 0 .. Len(data) /\ Len(data) \in Nat
    OBVIOUS
  <2> HIDE DEF At
  <2> QED BY <2>1, GreatestIs
<1> QED BY <1>1, <1>2

(* Of the last call: its bytes lie in its sector, and in place if the data   *)
(* lie in one page.                                                          *)
LEMMA BytesFacts ==
  ASSUME CallOK, call.op = "spi_write"
  PROVE  /\ Bytes = [c \in DOMAIN Bytes |-> Bytes[c]]
         /\ DOMAIN Bytes \subseteq SpiSector(call.addr)
         /\ \A c \in DOMAIN Bytes : Bytes[c] \in SUBSET Bits
         /\ InPage(call.addr, call.data) => \A i \in DOMAIN call.data :
              call.addr + i - 1 \in DOMAIN Bytes /\ Bytes[call.addr + i - 1] = call.data[i]
<1> DEFINE a == call.addr
           d == call.data
<1>1. a \in SpiAddr /\ a \in Nat /\ d \in Seq(Values) /\ Len(d) \in Nat /\ DOMAIN d = 1 .. Len(d)
      /\ \A i \in DOMAIN d : d[i] \in SUBSET Bits
  BY CallFacts DEF CallOK, SpiOps
<1>2. Bytes = Latch(a, d)
  BY DEF Bytes
<1> HIDE DEF a, d
<1>3. /\ DOMAIN Bytes = {Cell(a, i) : i \in DOMAIN d}
      /\ Bytes = [c \in DOMAIN Bytes |-> Bytes[c]]
      /\ \A c \in DOMAIN Bytes : \E i \in DOMAIN d : Cell(a, i) = c /\ Bytes[c] = d[i]
  BY <1>1, <1>2, LatchIs
<1>4. \A i \in DOMAIN d : i \in Nat \ {0}
  BY <1>1
<1>5. DOMAIN Bytes \subseteq SpiSector(a)
  BY <1>1, <1>3, <1>4, CellFacts
<1>6. \A c \in DOMAIN Bytes : Bytes[c] \in SUBSET Bits
  BY <1>1, <1>3
<1>7. ASSUME InPage(a, d), NEW i \in DOMAIN d
      PROVE  a + i - 1 \in DOMAIN Bytes /\ Bytes[a + i - 1] = d[i]
  <2>1. ASSUME NEW j \in DOMAIN d PROVE Cell(a, j) = a + j - 1
    <3> DEFINE c == a + j - 1
               e == a + Len(d) - 1
    <3>1. a <= c /\ c <= e /\ c \in Nat /\ e \in Nat /\ PageSize \in Nat \ {0}
      BY <1>1, Sizes
    <3>2. a \div PageSize = e \div PageSize
      BY <1>7 DEF InPage
    <3>3. c \div PageSize = a \div PageSize
      <4> HIDE DEF c, e
      <4> QED BY <1>1, <3>1, <3>2, BlockConvex
    <3> QED BY <1>1, <1>4, <3>3, CellFacts
  <2>2. a + i - 1 \in DOMAIN Bytes
    BY <1>3, <2>1
  <2>3. PICK j \in DOMAIN d : Cell(a, j) = a + i - 1 /\ Bytes[a + i - 1] = d[j]
    BY <1>3, <2>2
  <2>4. j = i
    <3>1. a + j - 1 = a + i - 1 /\ i \in Nat /\ j \in Nat
      BY <1>4, <2>1, <2>3
    <3> QED BY <1>1, <3>1
  <2> QED BY <2>2, <2>3, <2>4
<1> QED BY <1>3, <1>5, <1>6, <1>7 DEF a, d

-----------------------------------------------------------------------------
(* The operation a chip ends with, or a part of it, is applied to its cells. *)
LEMMA ApplyFacts ==
  ASSUME NEW S, NEW m \in [S -> SUBSET Bits], NEW job,
         \A c \in DOMAIN job : job[c] \in SUBSET Bits
  PROVE  /\ Apply(job, m) \in [S -> SUBSET Bits]
         /\ \A c \in S : Apply(job, m)[c] = IF c \in DOMAIN job THEN job[c] ELSE m[c]
BY DEF Apply

LEMMA PartFacts ==
  ASSUME NEW job, NEW p \in Part(job)
  PROVE  DOMAIN p \subseteq DOMAIN job /\ \A c \in DOMAIN p : p[c] = job[c]
BY DEF Part

(* The definitions that depend on the call alone. *)
LEMMA SameCall ==
  ASSUME UNCHANGED call
  PROVE  /\ Bytes' = Bytes /\ Reach' = Reach /\ EndSector' = EndSector
         /\ SpiSector(call.addr)' = SpiSector(call.addr)
         /\ SectorOf(call.addr)' = SectorOf(call.addr)
         /\ CallOK <=> CallOK'
BY DEF Bytes, Reach, EndSector, EndAddr, CallOK

SpiPcs == {"erase_enable", "erase_busy", "erase", "erase_done",
           "write_enable", "write_busy", "write", "write_done"}
FmcPcs == {"fmc_erase", "fmc_erased", "fmc_word", "fmc_worded"}

(* In a step of the driver of the GD25Q32 it remains to show what happens to *)
(* the GD25Q32.                                                              *)
LEMMA SpiStep ==
  ASSUME IInv, pc \in SpiPcs, pc' \in SpiPcs \cup {"idle"},
         UNCHANGED <<call, idx, spi, fmc, fmc_job, calls, resets, stale>>,
         complete' = (pc' = "idle"),
         pc' \in {"write_enable", "write_busy", "write", "write_done"} => call.op = "spi_write",
         DOMAIN spi_job' \subseteq SpiAddr, \A c \in DOMAIN spi_job' : spi_job'[c] \in SUBSET Bits,
         SpiInv'
  PROVE  IInv'
<1>1. TypeOK /\ CallOK /\ PcOK /\ JobsOK /\ FmcBusyInv
  BY DEF IInv
<1>2. call.op \in SpiOps
  BY <1>1 DEF PcOK, SpiPcs, SpiOps
<1>3. TypeOK'
  BY <1>1 DEF TypeOK, SpiPcs
<1>4. CallOK'
  BY <1>1, SameCall
<1>5. PcOK'
  BY <1>2 DEF PcOK, SpiPcs
<1>6. JobsOK'
  BY <1>1 DEF JobsOK
<1>7. FmcBusyInv'
  <2>1. fmc_job' = NoJob
    BY <1>1 DEF FmcBusyInv, SpiPcs
  <2> QED BY <2>1, NoJobIs DEF FmcBusyInv
<1>8. EraseInv'
  BY DEF EraseInv, SpiPcs
<1>9. WordInv'
  BY <1>2 DEF WordInv, SpiPcs, SpiOps
<1> QED BY <1>3, <1>4, <1>5, <1>6, <1>7, <1>8, <1>9 DEF IInv

(* In a step of the driver of the FMC, what happens to the FMC. *)
LEMMA FmcStep ==
  ASSUME IInv, pc \in FmcPcs, pc' \in FmcPcs \cup {"idle", "hang"},
         UNCHANGED <<call, spi, fmc, spi_job, wel, calls, resets, stale>>,
         complete' = (pc' = "idle"), idx' \in 0 .. FmcCells,
         pc' \in {"fmc_word", "fmc_worded"} => call.op = "fmc_write",
         DOMAIN fmc_job' \subseteq FmcAddr, \A c \in DOMAIN fmc_job' : fmc_job'[c] \in SUBSET Bits,
         FmcBusyInv', EraseInv', WordInv'
  PROVE  IInv'
<1>1. TypeOK /\ CallOK /\ PcOK /\ JobsOK /\ SpiInv
  BY DEF IInv
<1>2. call.op \in FmcOps
  BY <1>1 DEF PcOK, FmcPcs, FmcOps
<1>3. TypeOK'
  BY <1>1 DEF TypeOK, FmcPcs
<1>4. CallOK'
  BY <1>1, SameCall
<1>5. PcOK'
  BY <1>2 DEF PcOK, FmcPcs
<1>6. JobsOK'
  BY <1>1 DEF JobsOK
<1>7. SpiInv'
  <2> SUFFICES ASSUME ~stale PROVE SpiBusyInv' /\ SpiDataInv'
    BY DEF SpiInv
  <2>1. SpiBusyInv'
    BY <1>1, SameCall DEF SpiInv, SpiBusyInv, FmcPcs
  <2>2. SpiDataInv'
    BY <1>2 DEF SpiDataInv, FmcPcs, FmcOps
  <2> QED BY <2>1, <2>2
<1> QED BY <1>3, <1>4, <1>5, <1>6, <1>7 DEF IInv

(* A step that changes nothing but the GD25Q32 leaves the rest as it is. *)
LEMMA FmcSame ==
  ASSUME FmcBusyInv, EraseInv, WordInv, PcOK, CallOK,
         UNCHANGED <<pc, call, idx, fmc, fmc_job, complete>>
  PROVE  FmcBusyInv' /\ EraseInv' /\ WordInv' /\ PcOK' /\ CallOK'
<1>1. CallOK' /\ PcOK'
  BY SameCall DEF PcOK
<1>2. FmcBusyInv'
  BY SameCall DEF FmcBusyInv
<1>3. EraseInv'
  BY SameCall DEF EraseInv, ErasedBelow
<1>4. WordInv'
  BY DEF WordInv, WordIs, WordErased
<1> QED BY <1>1, <1>2, <1>3, <1>4

(* And one that changes nothing but the FMC. *)
LEMMA SpiSame ==
  ASSUME SpiInv, UNCHANGED <<pc, call, spi, spi_job, wel, complete, stale>>
  PROVE  SpiInv'
<1> SUFFICES ASSUME ~stale PROVE SpiBusyInv' /\ SpiDataInv'
  BY DEF SpiInv
<1>1. SpiBusyInv'
  BY SameCall DEF SpiInv, SpiBusyInv
<1>2. SpiDataInv'
  BY SameCall DEF SpiInv, SpiDataInv, SpiErased, SpiWritten
<1> QED BY <1>1, <1>2

-----------------------------------------------------------------------------
(* The driver of the GD25Q32: GD25Q32_write_enable ... *)
LEMMA EnableStep ==
  ASSUME IInv, erase_enable \/ write_enable
  PROVE  IInv'
<1>0. \/ pc = "erase_enable" /\ pc' = "erase_busy"
      \/ pc = "write_enable" /\ pc' = "write_busy"
  BY DEF erase_enable, write_enable, Step
<1>1. /\ UNCHANGED <<call, idx, spi, fmc, spi_job, fmc_job, calls, resets, stale>>
      /\ complete' = (pc' = "idle") /\ wel' = (wel \/ spi_job = NoJob)
  <2>1. CASE erase_enable
    BY <2>1 DEF erase_enable, Step, GD25Q32_write_enable
  <2>2. CASE write_enable
    BY <2>2 DEF write_enable, Step, GD25Q32_write_enable
  <2> QED BY <2>1, <2>2
<1>2. TypeOK /\ PcOK /\ JobsOK /\ SpiInv
  BY DEF IInv
<1>3. SpiInv'
  <2> SUFFICES ASSUME ~stale PROVE SpiBusyInv' /\ SpiDataInv'
    BY <1>0, <1>1 DEF SpiInv
  <2>1. SpiBusyInv'
    BY <1>0, <1>1, <1>2, SameCall DEF SpiInv, SpiBusyInv
  <2>2. SpiDataInv'
    BY <1>0, <1>1, <1>2, SameCall DEF SpiInv, SpiDataInv, SpiErased
  <2> QED BY <2>1, <2>2
<1>4. pc \in SpiPcs /\ pc' \in SpiPcs
  BY <1>0, <1>1 DEF SpiPcs
<1>5. pc' \in {"write_enable", "write_busy", "write", "write_done"} => call.op = "spi_write"
  BY <1>0, <1>1, <1>2 DEF PcOK
<1>6. DOMAIN spi_job' \subseteq SpiAddr /\ \A c \in DOMAIN spi_job' : spi_job'[c] \in SUBSET Bits
  BY <1>0, <1>1, <1>2 DEF TypeOK, JobsOK
<1> QED BY <1>0, <1>1, <1>3, <1>4, <1>5, <1>6, SpiStep

(* ... the wait before a command, for as long as the chip is busy ... *)
LEMMA BusyStep ==
  ASSUME IInv, erase_busy \/ write_busy
  PROVE  IInv'
<1>0. \/ pc = "erase_busy" /\ pc' = "erase"
      \/ pc = "write_busy" /\ pc' = "write"
  BY DEF erase_busy, write_busy, Step
<1>1. /\ UNCHANGED <<call, idx, spi, fmc, spi_job, fmc_job, wel, calls, resets, stale>>
      /\ complete' = (pc' = "idle") /\ spi_job = NoJob
  <2>1. CASE erase_busy
    BY <2>1 DEF erase_busy, Step, GD25Q32_wait_busy, chips
  <2>2. CASE write_busy
    BY <2>2 DEF write_busy, Step, GD25Q32_wait_busy, chips
  <2> QED BY <2>1, <2>2
<1>2. TypeOK /\ PcOK /\ JobsOK /\ SpiInv
  BY DEF IInv
<1>3. SpiInv'
  <2> SUFFICES ASSUME ~stale PROVE SpiBusyInv' /\ SpiDataInv'
    BY <1>0, <1>1 DEF SpiInv
  <2>1. SpiBusyInv'
    BY <1>0, <1>1, <1>2, SameCall DEF SpiInv, SpiBusyInv
  <2>2. SpiDataInv'
    BY <1>0, <1>1, <1>2, SameCall DEF SpiInv, SpiDataInv, SpiErased
  <2> QED BY <2>1, <2>2
<1>4. pc \in SpiPcs /\ pc' \in SpiPcs
  BY <1>0, <1>1 DEF SpiPcs
<1>5. pc' \in {"write_enable", "write_busy", "write", "write_done"} => call.op = "spi_write"
  BY <1>0, <1>1, <1>2 DEF PcOK
<1>6. DOMAIN spi_job' \subseteq SpiAddr /\ \A c \in DOMAIN spi_job' : spi_job'[c] \in SUBSET Bits
  BY <1>0, <1>1, <1>2 DEF TypeOK, JobsOK
<1> QED BY <1>0, <1>1, <1>3, <1>4, <1>5, <1>6, SpiStep

(* ... the sector erase command, which a chip that is idle and enabled obeys ... *)
LEMMA EraseStep ==
  ASSUME IInv, erase_command
  PROVE  IInv'
<1>1. /\ pc = "erase" /\ pc' = "erase_done"
      /\ UNCHANGED <<call, idx, spi, fmc, fmc_job, wel, calls, resets, stale>>
      /\ complete' = (pc' = "idle")
      /\ spi_job' = IF wel /\ spi_job = NoJob THEN SectorOf(call.addr) ELSE spi_job
  BY DEF erase_command, Step, SpiCommand
<1>2. TypeOK /\ CallOK /\ PcOK /\ JobsOK /\ SpiInv
  BY DEF IInv
<1>3. call.op \in SpiOps
  BY <1>1, <1>2 DEF PcOK
<1>4. /\ DOMAIN SectorOf(call.addr) = SpiSector(call.addr)
      /\ \A c \in SpiSector(call.addr) : SectorOf(call.addr)[c] = Bits
      /\ SpiSector(call.addr) \subseteq SpiAddr
  BY <1>2, <1>3, ErasedSector, EraseJobIs DEF SpiSector
<1>5. SpiInv'
  <2> SUFFICES ASSUME ~stale PROVE SpiBusyInv' /\ SpiDataInv'
    BY <1>1 DEF SpiInv
  <2>1. spi_job' = SectorOf(call.addr)
    BY <1>1, <1>2 DEF SpiInv, SpiBusyInv
  <2>2. SpiBusyInv'
    BY <1>1, <1>4, <2>1, SameCall DEF SpiBusyInv
  <2>3. SpiDataInv'
    BY <1>1, <2>1, SameCall DEF SpiDataInv
  <2> QED BY <2>2, <2>3
<1>6. DOMAIN spi_job' \subseteq SpiAddr /\ \A c \in DOMAIN spi_job' : spi_job'[c] \in SUBSET Bits
  BY <1>1, <1>2, <1>4 DEF TypeOK, JobsOK
<1>7. pc \in SpiPcs /\ pc' \in SpiPcs
  BY <1>1 DEF SpiPcs
<1> QED BY <1>1, <1>5, <1>6, <1>7, SpiStep

(* ... and the wait for the end of the erase: the sector is erased. *)
LEMMA EraseDoneStep ==
  ASSUME IInv, erase_done
  PROVE  IInv'
<1>1. /\ pc = "erase_done"
      /\ pc' = IF call.op = "spi_write" THEN "write_enable" ELSE "idle"
      /\ UNCHANGED <<call, idx, spi, fmc, spi_job, fmc_job, wel, calls, resets, stale>>
      /\ complete' = (pc' = "idle") /\ spi_job = NoJob
  BY DEF erase_done, Step, GD25Q32_wait_busy, chips
<1>2. TypeOK /\ CallOK /\ PcOK /\ JobsOK /\ SpiInv
  BY DEF IInv
<1>3. SpiInv'
  <2> SUFFICES ASSUME ~stale PROVE SpiBusyInv' /\ SpiDataInv'
    BY <1>1 DEF SpiInv
  <2>1. SpiErased
    <3>1. CASE spi_job = SectorOf(call.addr)
      <4>1. DOMAIN SectorOf(call.addr) = SpiSector(call.addr)
        BY <1>1, <1>2, ErasedSector, EraseJobIs DEF PcOK
      <4> QED BY <1>1, <3>1, <4>1, NoJobIs DEF SpiErased
    <3>2. CASE SpiErased
      BY <3>2
    <3> QED BY <1>1, <1>2, <3>1, <3>2 DEF SpiInv, SpiDataInv
  <2>2. SpiBusyInv'
    BY <1>1, <1>2, SameCall DEF SpiInv, SpiBusyInv
  <2>3. SpiDataInv'
    BY <1>1, <2>1, SameCall DEF SpiDataInv, SpiErased
  <2> QED BY <2>2, <2>3
<1>4. pc \in SpiPcs /\ pc' \in SpiPcs \cup {"idle"}
  BY <1>1 DEF SpiPcs
<1>5. pc' \in {"write_enable", "write_busy", "write", "write_done"} => call.op = "spi_write"
  BY <1>1
<1>6. DOMAIN spi_job' \subseteq SpiAddr /\ \A c \in DOMAIN spi_job' : spi_job'[c] \in SUBSET Bits
  BY <1>1, <1>2 DEF TypeOK, JobsOK
<1> QED BY <1>1, <1>3, <1>4, <1>5, <1>6, SpiStep

(* The program command makes the bytes of the sector what was written: an    *)
(* erased byte has the bits that programming leaves.                         *)
LEMMA WriteStep ==
  ASSUME IInv, write_command
  PROVE  IInv'
<1>1. /\ pc = "write" /\ pc' = "write_done"
      /\ UNCHANGED <<call, idx, spi, fmc, fmc_job, wel, calls, resets, stale>>
      /\ complete' = (pc' = "idle")
      /\ spi_job' = IF wel /\ spi_job = NoJob THEN ProgramJob(spi, Bytes) ELSE spi_job
  BY DEF write_command, Step, SpiCommand, Bytes
<1>2. TypeOK /\ CallOK /\ PcOK /\ JobsOK /\ SpiInv
  BY DEF IInv
<1>3. call.op = "spi_write"
  BY <1>1, <1>2 DEF PcOK
<1>4. /\ Bytes = [c \in DOMAIN Bytes |-> Bytes[c]]
      /\ DOMAIN Bytes \subseteq SpiSector(call.addr)
      /\ \A c \in DOMAIN Bytes : Bytes[c] \in SUBSET Bits
      /\ SpiSector(call.addr) \subseteq SpiAddr
  BY <1>2, <1>3, BytesFacts DEF SpiSector
<1>5. /\ DOMAIN ProgramJob(spi, Bytes) = DOMAIN Bytes
      /\ \A c \in DOMAIN Bytes : ProgramJob(spi, Bytes)[c] = spi[c] \cap Bytes[c]
  BY DEF ProgramJob
<1>6. SpiInv'
  <2> SUFFICES ASSUME ~stale PROVE SpiBusyInv' /\ SpiDataInv'
    BY <1>1 DEF SpiInv
  <2>1. SpiErased /\ spi_job' = ProgramJob(spi, Bytes)
    BY <1>1, <1>2 DEF SpiInv, SpiBusyInv, SpiDataInv
  <2>2. \A c \in DOMAIN Bytes : spi[c] \cap Bytes[c] = Bytes[c]
    BY <1>4, <2>1 DEF SpiErased, Erased
  <2>3. ProgramJob(spi, Bytes) = Bytes
    BY <1>4, <2>2 DEF ProgramJob
  <2>4. SpiBusyInv'
    BY <1>1, <1>4, <2>1, <2>3, SameCall DEF SpiBusyInv
  <2>5. SpiDataInv'
    BY <1>1, <2>1, <2>3, SameCall DEF SpiDataInv
  <2> QED BY <2>4, <2>5
<1>7. DOMAIN spi_job' \subseteq SpiAddr /\ \A c \in DOMAIN spi_job' : spi_job'[c] \in SUBSET Bits
  <2>1. CASE spi_job' = ProgramJob(spi, Bytes)
    <3>1. \A c \in DOMAIN Bytes : spi[c] \cap Bytes[c] \in SUBSET Bits
      BY <1>4
    <3> QED BY <1>4, <1>5, <2>1, <3>1
  <2>2. CASE spi_job' = spi_job
    BY <1>2, <2>2 DEF TypeOK, JobsOK
  <2> QED BY <1>1, <2>1, <2>2
<1>8. pc \in SpiPcs /\ pc' \in SpiPcs
  BY <1>1 DEF SpiPcs
<1> QED BY <1>1, <1>3, <1>6, <1>7, <1>8, SpiStep

(* GD25Q32_write returns when the chip is idle again. *)
LEMMA WriteDoneStep ==
  ASSUME IInv, write_done
  PROVE  IInv'
<1>1. /\ pc = "write_done" /\ pc' = "idle"
      /\ UNCHANGED <<call, idx, spi, fmc, spi_job, fmc_job, wel, calls, resets, stale>>
      /\ complete' = (pc' = "idle") /\ spi_job = NoJob
  BY DEF write_done, Step, GD25Q32_wait_busy, chips
<1>2. TypeOK /\ CallOK /\ PcOK /\ JobsOK /\ SpiInv
  BY DEF IInv
<1>3. SpiInv'
  <2> SUFFICES ASSUME ~stale PROVE SpiBusyInv' /\ SpiDataInv'
    BY <1>1 DEF SpiInv
  <2>1. SpiWritten
    <3>1. CASE spi_job = Bytes
      <4>1. DOMAIN Bytes = {}
        BY <1>1, <3>1, NoJobIs
      <4> QED BY <4>1 DEF SpiWritten
    <3>2. CASE SpiWritten
      BY <3>2
    <3> QED BY <1>1, <1>2, <3>1, <3>2 DEF SpiInv, SpiDataInv
  <2>2. SpiBusyInv'
    BY <1>1, <1>2, SameCall DEF SpiInv, SpiBusyInv
  <2>3. SpiDataInv'
    BY <1>1, <2>1, SameCall DEF SpiDataInv, SpiWritten
  <2> QED BY <2>2, <2>3
<1>4. pc \in SpiPcs /\ pc' \in SpiPcs \cup {"idle"}
  BY <1>1 DEF SpiPcs
<1>5. DOMAIN spi_job' \subseteq SpiAddr /\ \A c \in DOMAIN spi_job' : spi_job'[c] \in SUBSET Bits
  BY <1>1, <1>2 DEF TypeOK, JobsOK
<1> QED BY <1>1, <1>3, <1>4, <1>5, SpiStep

(* The chip ends its operation: an erase leaves the sector erased, a program *)
(* of an erased sector leaves the bytes.                                     *)
LEMMA SpiDoneStep ==
  ASSUME IInv, spi_done
  PROVE  IInv'
<1>1. /\ spi_job # NoJob /\ spi' = Apply(spi_job, spi) /\ spi_job' = NoJob /\ wel' = FALSE
      /\ UNCHANGED <<pc, call, idx, fmc, fmc_job, calls, resets, complete, stale>>
  BY DEF spi_done
<1>2. TypeOK /\ CallOK /\ PcOK /\ JobsOK /\ SpiInv /\ FmcBusyInv /\ EraseInv /\ WordInv
  BY DEF IInv
<1>3. /\ spi' \in [SpiAddr -> SUBSET Bits]
      /\ \A c \in SpiAddr : spi'[c] = IF c \in DOMAIN spi_job THEN spi_job[c] ELSE spi[c]
  <2>1. spi \in [SpiAddr -> SUBSET Bits] /\ \A c \in DOMAIN spi_job : spi_job[c] \in SUBSET Bits
    BY <1>2 DEF TypeOK, JobsOK
  <2>2. /\ Apply(spi_job, spi) \in [SpiAddr -> SUBSET Bits]
        /\ \A c \in SpiAddr :
             Apply(spi_job, spi)[c] = IF c \in DOMAIN spi_job THEN spi_job[c] ELSE spi[c]
    BY <2>1, ApplyFacts
  <2> QED BY <1>1, <2>2
<1>4. TypeOK'
  BY <1>1, <1>2, <1>3, NoJobIs DEF TypeOK
<1>5. JobsOK'
  BY <1>1, <1>2, NoJobIs DEF JobsOK
<1>6. FmcBusyInv' /\ EraseInv' /\ WordInv' /\ PcOK' /\ CallOK'
  BY <1>1, <1>2, FmcSame
<1>7. SpiInv'
  <2> SUFFICES ASSUME ~stale PROVE SpiBusyInv' /\ SpiDataInv'
    BY <1>1 DEF SpiInv
  <2>1. SpiBusyInv /\ SpiDataInv
    BY <1>2 DEF SpiInv
  <2>2. SpiBusyInv'
    BY <1>1, <2>1, NoJobIs, SameCall DEF SpiBusyInv
  <2>3. pc = "erase_done" => SpiErased'
    <3> SUFFICES ASSUME pc = "erase_done" PROVE SpiErased'
      OBVIOUS
    <3>1. spi_job = EraseJob(SpiSector(call.addr))
      BY <1>1, <1>2, <2>1, ErasedSector DEF SpiDataInv, PcOK
    <3>2. \A c \in SpiSector(call.addr) : c \in SpiAddr /\ spi'[c] = Bits
      BY <1>3, <3>1, EraseJobIs DEF SpiSector
    <3> QED BY <1>1, <3>2, SameCall DEF SpiErased, Erased
  <2>4. pc = "write_done" => SpiWritten'
    <3> SUFFICES ASSUME pc = "write_done" PROVE SpiWritten'
      OBVIOUS
    <3>1. spi_job = Bytes /\ DOMAIN Bytes \subseteq SpiAddr
      BY <1>1, <1>2, <2>1, BytesFacts DEF SpiDataInv, PcOK, SpiSector
    <3>2. \A c \in DOMAIN Bytes : spi'[c] = Bytes[c]
      BY <1>3, <3>1
    <3> QED BY <1>1, <3>2, SameCall DEF SpiWritten
  <2>5. SpiDataInv'
    BY <1>1, <2>1, <2>3, <2>4 DEF SpiDataInv, SpiBusyInv
  <2> QED BY <2>2, <2>5
<1> QED BY <1>4, <1>5, <1>6, <1>7 DEF IInv

-----------------------------------------------------------------------------
(* The driver of the FMC.  The sectors that fmc_write_32bit_data erases are  *)
(* within its reach: each but the first begins at one of its words or at the *)
(* first address after them.                                                 *)
LEMMA SectorsInReach ==
  ASSUME CallOK, NEW s \in Starts, fmc_sector_get(call.addr) <= s, s <= EndSector
  PROVE  call.op = "fmc_write" => FmcSector(s) \subseteq Reach
<1> SUFFICES ASSUME call.op = "fmc_write", NEW c \in FmcSector(s) PROVE c \in Reach
  OBVIOUS
<1> DEFINE a == call.addr
           n == Len(call.data)
<1>1. a \in Nat /\ n \in Nat /\ n > 0 /\ DOMAIN call.data = 1 .. n /\ EndAddr(call) = a + n
  BY CallFacts DEF CallOK
<1>2. c \in FmcAddr /\ fmc_sector_get(c) = s /\ s \in Nat
  BY Sizes DEF FmcSector
<1>3. fmc_sector_get(a) \in Nat /\ EndSector \in Nat /\ EndSector <= a + n
  BY <1>1, SectorGet DEF EndSector
<1> HIDE DEF a, n
<1>4. CASE s = fmc_sector_get(a)
  <2>1. 1 \in DOMAIN call.data /\ a + 1 - 1 = a
    BY <1>1
  <2> QED BY <1>2, <1>4, <2>1 DEF Reach, a
<1>5. CASE s = a + n
  BY <1>1, <1>2, <1>5 DEF Reach
<1>6. CASE s # fmc_sector_get(a) /\ s # a + n
  <2>1. a < s
    <3>1. s <= a => s <= fmc_sector_get(a)
      BY <1>1, SectorGet
    <3> QED BY <1>1, <1>2, <1>3, <1>6, <3>1 DEF a
  <2>2. s < a + n
    BY <1>1, <1>2, <1>3, <1>6
  <2> DEFINE i == s - a + 1
  <2>3. i \in DOMAIN call.data /\ a + i - 1 = s
    BY <1>1, <1>2, <2>1, <2>2
  <2>4. fmc_sector_get(s) = s
    BY SectorOrder
  <2> HIDE DEF i
  <2> QED BY <1>2, <2>3, <2>4 DEF Reach, a
<1> QED BY <1>4, <1>5, <1>6

(* The words of a write lie in the chip, in the sectors that were erased.    *)
LEMMA WordFacts ==
  ASSUME CallOK, call.op = "fmc_write", NEW j \in DOMAIN call.data
  PROVE  /\ j \in Nat /\ call.addr + j - 1 \in FmcAddr
         /\ j \in 0 .. FmcCells
         /\ fmc_sector_get(call.addr) <= fmc_sector_get(call.addr + j - 1)
         /\ fmc_sector_get(call.addr + j - 1) <= EndSector
         /\ fmc_sector_get(call.addr + j - 1) \in Starts
<1> DEFINE a == call.addr
           n == Len(call.data)
           b == a + j - 1
<1>1. a \in Nat /\ n \in Nat /\ DOMAIN call.data = 1 .. n /\ EndAddr(call) = a + n
      /\ a + n <= FmcCells /\ FmcCells \in Nat
  BY CallFacts, Sizes DEF CallOK
<1>2. j \in Nat /\ b \in FmcAddr /\ b \in Nat /\ a <= b /\ b <= a + n /\ a + n \in Nat
      /\ j \in 0 .. FmcCells
  BY <1>1 DEF FmcAddr
<1> HIDE DEF b
<1>3. fmc_sector_get(a) <= fmc_sector_get(b) /\ fmc_sector_get(b) <= fmc_sector_get(a + n)
      /\ fmc_sector_get(b) \in Starts
  BY <1>1, <1>2, SectorOrder, SectorGet
<1> QED BY <1>1, <1>2, <1>3 DEF EndSector, b

(* A step of Start: the operation begins, or the program stops. *)
LEMMA StartStep ==
  ASSUME IInv, NEW sector, NEW job, NEW next, Start(sector, job, next),
         pc \in {"fmc_erase", "fmc_word"}, next \in {"fmc_erased", "fmc_worded"},
         next = "fmc_worded" => call.op = "fmc_write",
         DOMAIN job \subseteq Reach, \A c \in DOMAIN job : job[c] \in SUBSET Bits,
         pc' = next /\ fmc_job' = job => EraseInv' /\ WordInv'
  PROVE  IInv'
<1>1. TypeOK /\ CallOK /\ PcOK /\ JobsOK /\ FmcBusyInv
  BY DEF IInv
<1>2. fmc_job = NoJob
  BY <1>1 DEF FmcBusyInv
<1>3. /\ UNCHANGED <<call, idx, spi, fmc, spi_job, wel, calls, resets, stale>>
      /\ \/ pc' = next /\ fmc_job' = job
         \/ pc' = "hang" /\ fmc_job' = NoJob
  BY <1>2 DEF Start, Step
<1>4. complete' = (pc' = "idle")
  BY DEF Start, Step
<1>5. pc \in FmcPcs /\ pc' \in FmcPcs \cup {"idle", "hang"}
  BY <1>3 DEF FmcPcs
<1>6. pc' \in {"fmc_word", "fmc_worded"} => call.op = "fmc_write"
  BY <1>3
<1>7. DOMAIN fmc_job' \subseteq Reach /\ \A c \in DOMAIN fmc_job' : fmc_job'[c] \in SUBSET Bits
  BY <1>3, NoJobIs
<1>8. Reach \subseteq FmcAddr
  BY DEF Reach
<1>9. FmcBusyInv'
  BY <1>3, <1>7, SameCall DEF FmcBusyInv
<1>10. pc' = "hang" => EraseInv' /\ WordInv'
  <2>1. pc' = "hang" => ~complete'
    BY <1>4
  <2> QED BY <2>1 DEF EraseInv, WordInv
<1>11. idx' \in 0 .. FmcCells
  BY <1>1, <1>3 DEF TypeOK
<1>12. EraseInv' /\ WordInv'
  BY <1>3, <1>10
<1> QED BY <1>3, <1>4, <1>5, <1>6, <1>7, <1>8, <1>9, <1>11, <1>12, FmcStep

(* The erase of the next sector of the call. *)
LEMMA SectorEraseStep ==
  ASSUME IInv, fmc_sector_erase
  PROVE  IInv'
<1>1. pc = "fmc_erase" /\ Start(idx, EraseJob(FmcSector(idx)), "fmc_erased")
  BY DEF fmc_sector_erase
<1>2. UNCHANGED <<call, idx, fmc>>
  BY <1>1 DEF Start, Step
<1>3. CallOK /\ PcOK /\ EraseInv
  BY DEF IInv
<1>4. /\ DOMAIN EraseJob(FmcSector(idx)) = FmcSector(idx)
      /\ \A c \in FmcSector(idx) : EraseJob(FmcSector(idx))[c] \in SUBSET Bits
  BY EraseJobIs
<1>5. FmcSector(idx) \subseteq Reach
  <2>1. CASE call.op = "fmc_erase"
    BY <1>1, <1>3, <2>1 DEF EraseInv, FmcSector, Reach
  <2>2. CASE call.op = "fmc_write"
    BY <1>1, <1>3, <2>2, SectorsInReach DEF EraseInv
  <2> QED BY <1>1, <1>3, <2>1, <2>2 DEF PcOK, FmcOps
<1>6. ASSUME pc' = "fmc_erased", fmc_job' = EraseJob(FmcSector(idx))
      PROVE  EraseInv' /\ WordInv'
  <2>1. EraseInv'
    BY <1>1, <1>2, <1>3, <1>6, SameCall DEF EraseInv, ErasedBelow
  <2>2. ~complete'
    BY <1>1, <1>6 DEF Start, Step
  <2> QED BY <1>6, <2>1, <2>2 DEF WordInv
<1> QED BY <1>1, <1>4, <1>5, <1>6, StartStep

(* The end of an erase: the sector is erased, and the driver goes on to the  *)
(* next one, or to the first word when it was the last.                      *)
LEMMA ErasedStep ==
  ASSUME IInv, fmc_erased
  PROVE  IInv'
<1>1. /\ fmc_job = NoJob /\ pc = "fmc_erased"
      /\ UNCHANGED <<call, spi, fmc, spi_job, fmc_job, wel, calls, resets, stale>>
  BY DEF fmc_erased, Step, chips
<1>2. complete' = (pc' = "idle")
  BY DEF fmc_erased, Step
<1>3. TypeOK /\ CallOK /\ PcOK /\ JobsOK /\ FmcBusyInv /\ EraseInv
  BY DEF IInv
<1>4. \A c \in FmcSector(idx) : fmc[c] = Erased
  <2>1. CASE fmc_job = EraseJob(FmcSector(idx))
    <3>1. FmcSector(idx) = {}
      BY <1>1, <2>1, EraseJobIs, NoJobIs
    <3> QED BY <3>1
  <2> QED BY <1>1, <1>3, <2>1 DEF EraseInv
<1>5. FmcBusyInv'
  BY <1>1, NoJobIs DEF FmcBusyInv
<1>6. DOMAIN fmc_job' \subseteq FmcAddr /\ \A c \in DOMAIN fmc_job' : fmc_job'[c] \in SUBSET Bits
  BY <1>1, NoJobIs
<1>7. pc \in FmcPcs
  BY <1>1 DEF FmcPcs
<1>8. CASE call.op = "fmc_erase" /\ pc' = "idle" /\ UNCHANGED idx
  <2>1. EraseInv'
    BY <1>8 DEF EraseInv
  <2>2. WordInv'
    BY <1>1, <1>8 DEF WordInv
  <2>3. idx' \in 0 .. FmcCells
    BY <1>3, <1>8 DEF TypeOK
  <2> QED BY <1>1, <1>2, <1>5, <1>6, <1>7, <1>8, <2>1, <2>2, <2>3, FmcStep
<1>9. CASE /\ call.op = "fmc_write" /\ idx < EndSector
           /\ pc' = "fmc_erase" /\ idx' = Min({s \in Starts : s > idx})
  <2>1. /\ idx \in Starts /\ fmc_sector_get(call.addr) <= idx /\ ErasedBelow(idx)
        /\ EndSector \in Starts /\ fmc_sector_get(call.addr) \in Starts
    BY <1>1, <1>3, <1>9, CallFacts DEF EraseInv
  <2>2. idx' \in Starts /\ idx < idx' /\ idx' <= EndSector /\ \A x \in Starts : x < idx' => x <= idx
    BY <1>9, <2>1, NextSector
  <2>3. /\ fmc_sector_get(call.addr) \in Nat /\ idx \in Nat /\ idx' \in Nat
        /\ fmc_sector_get(call.addr) <= idx'
    <3>1. fmc_sector_get(call.addr) \in Nat /\ idx \in Nat /\ idx' \in Nat
      BY <2>1, <2>2, Sizes
    <3> QED BY <2>1, <2>2, <3>1
  <2>4. ASSUME NEW c \in FmcAddr, fmc_sector_get(call.addr) <= fmc_sector_get(c),
               fmc_sector_get(c) < idx'
        PROVE  fmc[c] = Erased
    <3>1. fmc_sector_get(c) \in Nat /\ fmc_sector_get(c) <= idx
      BY <2>2, <2>4, SectorGet, Sizes
    <3>2. CASE fmc_sector_get(c) = idx
      BY <1>4, <3>2 DEF FmcSector
    <3>3. CASE fmc_sector_get(c) < idx
      BY <2>1, <2>4, <3>3 DEF ErasedBelow
    <3> QED BY <2>3, <3>1, <3>2, <3>3
  <2>5. EraseInv'
    <3>1. ErasedBelow(idx)'
      BY <1>1, <2>4 DEF ErasedBelow
    <3> QED BY <1>1, <1>9, <2>2, <2>3, <3>1, SameCall DEF EraseInv
  <2>6. WordInv'
    BY <1>2, <1>9 DEF WordInv
  <2>7. idx' \in 0 .. FmcCells
    BY <2>2, Sizes DEF FmcAddr
  <2>8. pc' \in FmcPcs
    BY <1>9 DEF FmcPcs
  <2> QED BY <1>1, <1>2, <1>5, <1>6, <1>7, <1>9, <2>5, <2>6, <2>7, <2>8, FmcStep
<1>10. CASE call.op = "fmc_write" /\ idx >= EndSector /\ pc' = "fmc_word" /\ idx' = 1
  <2>1. /\ idx \in Starts /\ fmc_sector_get(call.addr) <= idx /\ idx = EndSector
        /\ ErasedBelow(idx)
    <3>1. /\ idx \in Starts /\ fmc_sector_get(call.addr) <= idx /\ idx <= EndSector
          /\ ErasedBelow(idx) /\ EndSector \in Starts
      BY <1>1, <1>3, <1>10, CallFacts DEF EraseInv
    <3>2. idx \in Nat /\ EndSector \in Nat
      BY <3>1, Sizes
    <3>3. idx = EndSector
      BY <1>10, <3>1, <3>2
    <3> QED BY <3>1, <3>3
  <2>2. ASSUME NEW j \in DOMAIN call.data PROVE WordErased(j)
    <3>1. PICK c \in FmcAddr : c = call.addr + j - 1
      BY <1>3, <1>10, WordFacts
    <3>2. /\ fmc_sector_get(call.addr) <= fmc_sector_get(c)
          /\ fmc_sector_get(c) <= idx /\ fmc_sector_get(c) \in Starts
      BY <1>3, <1>10, <2>1, <3>1, WordFacts
    <3>3. fmc_sector_get(c) \in Nat /\ idx \in Nat
      BY <2>1, <3>2, Sizes
    <3>4. fmc[c] = Erased
      <4>1. CASE fmc_sector_get(c) = idx
        BY <1>4, <4>1 DEF FmcSector
      <4>2. CASE fmc_sector_get(c) < idx
        BY <2>1, <3>2, <4>2 DEF ErasedBelow
      <4> QED BY <3>2, <3>3, <4>1, <4>2
    <3> QED BY <3>1, <3>4 DEF WordErased
  <2>3. 1 \in DOMAIN call.data /\ DOMAIN call.data \subseteq Nat \ {0}
    BY <1>3, <1>10, CallFacts DEF CallOK
  <2>4. WordInv'
    <3>1. \A j \in DOMAIN call.data : ~(j < 1) /\ WordErased(j)'
      BY <1>1, <2>2, <2>3 DEF WordErased
    <3> QED BY <1>1, <1>2, <1>10, <2>3, <3>1 DEF WordInv
  <2>5. EraseInv'
    BY <1>10 DEF EraseInv
  <2>6. idx' \in 0 .. FmcCells
    BY <1>10, Sizes
  <2>7. pc' \in FmcPcs
    BY <1>10 DEF FmcPcs
  <2> QED BY <1>1, <1>2, <1>5, <1>6, <1>7, <1>10, <2>4, <2>5, <2>6, <2>7, FmcStep
<1> QED BY <1>8, <1>9, <1>10 DEF fmc_erased, Step

(* A word is programmed: the erased word becomes what was written. *)
LEMMA WordProgramStep ==
  ASSUME IInv, fmc_word_program
  PROVE  IInv'
<1> DEFINE b == call.addr + idx - 1
           job == [x \in {b} |-> fmc[b] \cap call.data[idx]]
<1>1. pc = "fmc_word" /\ Start(fmc_sector_get(b), job, "fmc_worded")
  BY DEF fmc_word_program
<1>2. UNCHANGED <<call, idx, fmc>>
  BY <1>1 DEF Start, Step
<1>3. CallOK /\ PcOK /\ WordInv
  BY DEF IInv
<1>4. call.op = "fmc_write" /\ idx \in DOMAIN call.data
  BY <1>1, <1>3 DEF PcOK, WordInv
<1>5. b \in FmcAddr /\ call.data[idx] \in SUBSET Bits
  BY <1>3, <1>4, WordFacts, CallFacts
<1>6. fmc[b] = Bits
  BY <1>1, <1>3 DEF WordInv, WordErased, Erased
<1>7. job = [x \in {b} |-> call.data[idx]]
  BY <1>5, <1>6
<1>8. DOMAIN job = {b} /\ \A c \in DOMAIN job : job[c] \in SUBSET Bits
  BY <1>5, <1>7
<1>9. DOMAIN job \subseteq Reach
  BY <1>4, <1>5, <1>8 DEF Reach
<1>10. ASSUME pc' = "fmc_worded", fmc_job' = job
       PROVE  EraseInv' /\ WordInv'
  <2>1. EraseInv'
    BY <1>10 DEF EraseInv
  <2>2. ~complete'
    BY <1>1, <1>10 DEF Start, Step
  <2>3. WordInv'
    BY <1>1, <1>2, <1>3, <1>7, <1>10, <2>2 DEF WordInv, WordIs, WordErased
  <2> QED BY <2>1, <2>3
<1> HIDE DEF job, b
<1> QED BY <1>1, <1>4, <1>8, <1>9, <1>10, StartStep

(* The end of a word: the driver goes on to the next one, or returns. *)
LEMMA WordedStep ==
  ASSUME IInv, fmc_worded
  PROVE  IInv'
<1>1. /\ fmc_job = NoJob /\ pc = "fmc_worded"
      /\ UNCHANGED <<call, spi, fmc, spi_job, fmc_job, wel, calls, resets, stale>>
      /\ pc' = IF idx < Len(call.data) THEN "fmc_word" ELSE "idle"
      /\ idx' = IF idx < Len(call.data) THEN idx + 1 ELSE 0
  BY DEF fmc_worded, Step, chips
<1>2. complete' = (pc' = "idle")
  BY DEF fmc_worded, Step
<1>3. TypeOK /\ CallOK /\ PcOK /\ JobsOK /\ WordInv
  BY DEF IInv
<1>4. call.op = "fmc_write" /\ idx \in DOMAIN call.data
      /\ \A j \in DOMAIN call.data : (j < idx => WordIs(j)) /\ (j > idx => WordErased(j))
  BY <1>1, <1>3 DEF PcOK, WordInv
<1>5. WordIs(idx)
  <2>1. fmc_job # [x \in {call.addr + idx - 1} |-> call.data[idx]]
    <3> DEFINE b == call.addr + idx - 1
    <3>1. DOMAIN [x \in {b} |-> call.data[idx]] = {b}
      OBVIOUS
    <3>2. DOMAIN fmc_job = {}
      BY <1>1, NoJobIs
    <3> HIDE DEF b
    <3> QED BY <3>1, <3>2 DEF b
  <2> QED BY <1>1, <1>3, <2>1 DEF WordInv
<1>6. /\ Len(call.data) \in Nat /\ DOMAIN call.data = 1 .. Len(call.data)
      /\ idx \in Nat /\ 1 <= idx /\ idx <= Len(call.data)
  <2>1. Len(call.data) \in Nat /\ DOMAIN call.data = 1 .. Len(call.data)
    BY <1>3, CallFacts
  <2> QED BY <1>4, <2>1
<1>7. FmcBusyInv'
  BY <1>1, NoJobIs DEF FmcBusyInv
<1>8. DOMAIN fmc_job' \subseteq FmcAddr /\ \A c \in DOMAIN fmc_job' : fmc_job'[c] \in SUBSET Bits
  BY <1>1, NoJobIs
<1>9. EraseInv'
  BY <1>1 DEF EraseInv
<1>10. pc \in FmcPcs /\ pc' \in FmcPcs \cup {"idle", "hang"}
  BY <1>1 DEF FmcPcs
<1>11. CASE idx < Len(call.data)
  <2>1. pc' = "fmc_word" /\ idx' = idx + 1 /\ idx' \in DOMAIN call.data
    BY <1>1, <1>6, <1>11
  <2>2. idx' \in 0 .. FmcCells
    <3>1. PICK k \in DOMAIN call.data : k = idx'
      BY <2>1
    <3> QED BY <1>3, <1>4, <3>1, WordFacts
  <2>3. ASSUME NEW j \in DOMAIN call.data
        PROVE  (j < idx' => WordIs(j)) /\ (j >= idx' => WordErased(j))
    <3>1. j \in Nat /\ (j < idx' => j < idx \/ j = idx) /\ (j >= idx' => j > idx)
      BY <1>6, <2>1
    <3> QED BY <1>4, <1>5, <3>1
  <2>4. \A j \in DOMAIN call.data : (WordIs(j) <=> WordIs(j)') /\ (WordErased(j) <=> WordErased(j)')
    BY <1>1 DEF WordIs, WordErased
  <2>5. WordErased(idx)'
    <3>1. PICK k \in DOMAIN call.data : k = idx'
      BY <2>1
    <3>2. WordErased(k)
      BY <1>6, <2>1, <2>3, <3>1
    <3> QED BY <1>1, <3>1, <3>2 DEF WordErased
  <2>6. WordInv'
    <3>1. ~complete'
      BY <1>2, <2>1
    <3>2. \A j \in DOMAIN call.data : j > idx' => j >= idx'
      BY <1>6, <2>1
    <3> QED BY <1>1, <2>1, <2>3, <2>4, <2>5, <3>1, <3>2 DEF WordInv
  <2> QED BY <1>1, <1>2, <1>4, <1>7, <1>8, <1>9, <1>10, <2>2, <2>6, FmcStep
<1>12. CASE ~(idx < Len(call.data))
  <2>1. pc' = "idle" /\ idx' = 0 /\ idx = Len(call.data)
    BY <1>1, <1>6, <1>12
  <2>2. \A j \in DOMAIN call.data : WordIs(j)
    <3>1. ASSUME NEW j \in DOMAIN call.data PROVE j < idx \/ j = idx
      BY <1>6, <2>1
    <3> QED BY <1>4, <1>5, <3>1
  <2>3. WordInv'
    BY <1>1, <2>1, <2>2 DEF WordInv, WordIs
  <2>4. idx' \in 0 .. FmcCells
    BY <2>1, Sizes
  <2> QED BY <1>1, <1>2, <1>4, <1>7, <1>8, <1>9, <1>10, <2>3, <2>4, FmcStep
<1> QED BY <1>11, <1>12

(* FMC_TOERR: the program stops, and the FMC goes on. *)
LEMMA TimeoutStep ==
  ASSUME IInv, fmc_timeout
  PROVE  IInv'
<1>1. /\ pc \in {"fmc_erased", "fmc_worded"} /\ pc' = "hang"
      /\ UNCHANGED <<call, idx, spi, fmc, spi_job, fmc_job, wel, calls, resets, stale>>
  BY DEF fmc_timeout, Step, chips
<1>2. complete' = (pc' = "idle")
  BY DEF fmc_timeout, Step
<1>3. TypeOK /\ CallOK /\ PcOK /\ JobsOK /\ FmcBusyInv
  BY DEF IInv
<1>4. FmcBusyInv'
  BY <1>1, <1>3, SameCall DEF FmcBusyInv
<1>5. EraseInv'
  BY <1>1 DEF EraseInv
<1>6. WordInv'
  <2>1. ~complete'
    BY <1>1, <1>2
  <2> QED BY <1>1, <2>1 DEF WordInv
<1>7. /\ DOMAIN fmc_job' \subseteq FmcAddr /\ \A c \in DOMAIN fmc_job' : fmc_job'[c] \in SUBSET Bits
      /\ idx' \in 0 .. FmcCells
  BY <1>1, <1>3 DEF TypeOK, JobsOK
<1>8. pc \in FmcPcs /\ pc' \in FmcPcs \cup {"idle", "hang"}
  BY <1>1 DEF FmcPcs
<1> QED BY <1>1, <1>2, <1>4, <1>5, <1>6, <1>7, <1>8, FmcStep

(* The FMC ends its operation: the sector is erased, or the word is written. *)
LEMMA FmcDoneStep ==
  ASSUME IInv, fmc_done
  PROVE  IInv'
<1>1. /\ fmc_job # NoJob /\ fmc' = Apply(fmc_job, fmc) /\ fmc_job' = NoJob
      /\ UNCHANGED <<pc, call, idx, spi, spi_job, wel, calls, resets, complete, stale>>
  BY DEF fmc_done
<1>2. TypeOK /\ CallOK /\ PcOK /\ JobsOK /\ SpiInv /\ FmcBusyInv /\ EraseInv /\ WordInv
  BY DEF IInv
<1>3. /\ fmc' \in [FmcAddr -> SUBSET Bits]
      /\ \A c \in FmcAddr : fmc'[c] = IF c \in DOMAIN fmc_job THEN fmc_job[c] ELSE fmc[c]
  <2>1. fmc \in [FmcAddr -> SUBSET Bits] /\ \A c \in DOMAIN fmc_job : fmc_job[c] \in SUBSET Bits
    BY <1>2 DEF TypeOK, JobsOK
  <2>2. /\ Apply(fmc_job, fmc) \in [FmcAddr -> SUBSET Bits]
        /\ \A c \in FmcAddr :
             Apply(fmc_job, fmc)[c] = IF c \in DOMAIN fmc_job THEN fmc_job[c] ELSE fmc[c]
    BY <2>1, ApplyFacts
  <2> QED BY <1>1, <2>2
<1>4. TypeOK'
  BY <1>1, <1>2, <1>3, NoJobIs DEF TypeOK
<1>5. JobsOK'
  BY <1>1, <1>2, NoJobIs DEF JobsOK
<1>6. CallOK' /\ PcOK'
  BY <1>1, <1>2, SameCall DEF PcOK
<1>7. SpiInv'
  BY <1>1, <1>2, SpiSame
<1>8. FmcBusyInv'
  BY <1>1, NoJobIs DEF FmcBusyInv
<1>9. pc \in {"fmc_erased", "fmc_worded", "hang"}
  BY <1>1, <1>2 DEF FmcBusyInv
<1>10. EraseInv'
  <2> SUFFICES ASSUME pc = "fmc_erased" PROVE EraseInv'
    BY <1>1, <1>9 DEF EraseInv
  <2>1. fmc_job = EraseJob(FmcSector(idx))
    BY <1>1, <1>2 DEF EraseInv
  <2>2. \A c \in FmcAddr : fmc'[c] = IF c \in FmcSector(idx) THEN Erased ELSE fmc[c]
    BY <1>3, <2>1, EraseJobIs DEF Erased
  <2>3. \A c \in FmcSector(idx) : fmc'[c] = Erased
    BY <2>2 DEF FmcSector
  <2>4. ErasedBelow(idx) => ErasedBelow(idx)'
    BY <1>1, <2>2 DEF ErasedBelow
  <2> QED BY <1>1, <1>2, <2>3, <2>4, SameCall DEF EraseInv
<1>11. WordInv'
  <2>1. ~(call.op = "fmc_write" /\ complete)
    BY <1>2, <1>9 DEF PcOK
  <2> SUFFICES ASSUME pc = "fmc_worded" PROVE WordInv'
    BY <1>1, <1>9, <2>1 DEF WordInv
  <2>2. /\ call.op = "fmc_write" /\ idx \in DOMAIN call.data
        /\ \A j \in DOMAIN call.data : (j < idx => WordIs(j)) /\ (j > idx => WordErased(j))
        /\ fmc_job = [x \in {call.addr + idx - 1} |-> call.data[idx]]
    BY <1>1, <1>2 DEF WordInv, PcOK
  <2>3. PICK k \in DOMAIN call.data : k = idx
    BY <2>2
  <2>4. PICK b \in FmcAddr : b = call.addr + k - 1
    BY <1>2, <2>2, WordFacts
  <2>5. fmc'[b] = call.data[k] /\ \A c \in FmcAddr : c # b => fmc'[c] = fmc[c]
    BY <1>3, <2>2, <2>3, <2>4
  <2>6. WordIs(idx)'
    BY <1>1, <2>3, <2>4, <2>5 DEF WordIs
  <2>7. ASSUME NEW j \in DOMAIN call.data, j # k
        PROVE  /\ call.addr + j - 1 \in FmcAddr
               /\ fmc'[call.addr + j - 1] = fmc[call.addr + j - 1]
    <3>1. PICK c \in FmcAddr : c = call.addr + j - 1
      BY <1>2, <2>2, WordFacts
    <3>2. c # b
      <4>1. j \in Nat /\ k \in Nat /\ call.addr \in Nat
        BY <1>2, <2>2, WordFacts, CallFacts
      <4> QED BY <2>4, <2>7, <3>1, <4>1
    <3> QED BY <2>5, <3>1, <3>2
  <2>8. \A j \in DOMAIN call.data : (j < idx => WordIs(j)') /\ (j > idx => WordErased(j)')
    <3> SUFFICES ASSUME NEW j \in DOMAIN call.data
                 PROVE  (j < idx => WordIs(j)') /\ (j > idx => WordErased(j)')
      OBVIOUS
    <3>1. j \in Nat /\ k \in Nat
      BY <1>2, <2>2, WordFacts
    <3>2. j < idx \/ j > idx => j # k
      BY <2>3, <3>1
    <3> QED BY <1>1, <2>2, <2>7, <3>2 DEF WordIs, WordErased
  <2> QED BY <1>1, <2>1, <2>2, <2>6, <2>8, NoJobIs DEF WordInv
<1> QED BY <1>4, <1>5, <1>6, <1>7, <1>8, <1>10, <1>11 DEF IInv

-----------------------------------------------------------------------------
(* Initially both chips are idle and nothing was called. *)
LEMMA InitInv == Init => IInv
<1> SUFFICES ASSUME Init PROVE IInv
  OBVIOUS
<1>1. /\ pc = "idle" /\ call = Call("none", 0, << >>) /\ idx = 0
      /\ spi = [c \in SpiAddr |-> {}] /\ fmc = [c \in FmcAddr |-> {}]
      /\ spi_job = NoJob /\ fmc_job = NoJob
      /\ calls = 0 /\ resets = 0 /\ ~complete /\ ~stale
  BY DEF Init
<1>2. TypeOK
  <2>1. spi \in [SpiAddr -> SUBSET Bits] /\ fmc \in [FmcAddr -> SUBSET Bits]
    BY <1>1
  <2> QED BY <1>1, <2>1, Sizes, NoJobIs DEF TypeOK
<1>3. call.op = "none" /\ CallOK
  BY <1>1 DEF CallOK, Call, SpiOps, FmcOps
<1>4. PcOK /\ JobsOK
  BY <1>1, NoJobIs DEF PcOK, JobsOK
<1>5. SpiInv
  BY <1>1, NoJobIs DEF SpiInv, SpiBusyInv, SpiDataInv
<1>6. FmcBusyInv /\ EraseInv /\ WordInv
  BY <1>1, NoJobIs DEF FmcBusyInv, EraseInv, WordInv
<1> QED BY <1>2, <1>3, <1>4, <1>5, <1>6 DEF IInv

(* A buffer is a sequence of data, and not empty. *)
LEMMA BufferFacts ==
  ASSUME NEW d \in Buffers
  PROVE  d \in Seq(Values) /\ d # << >> /\ Len(d) \in Nat
<1>1. PICK n \in 1 .. MaxData : d \in [1 .. n -> Values]
  BY DEF Buffers
<1>2. n \in Nat /\ n > 0
  BY <1>1, Sizes
<1>3. d \in Seq(Values) /\ Len(d) = n
  BY <1>1, <1>2
<1> QED BY <1>2, <1>3

(* A call of the driver of the GD25Q32: the chip may still be busy with what *)
(* a reset left behind, and the call is stale then.                          *)
LEMMA CallSpi ==
  ASSUME IInv, NEW c, Begin(c, "erase_enable"), UNCHANGED idx,
         c \in [op : SpiOps, addr : Nat, data : Seq(Values)], c.addr \in SpiAddr,
         c.op = "spi_write" => c.data # << >>
  PROVE  IInv'
<1>1. /\ pc = "idle" /\ calls < MaxCalls
      /\ pc' = "erase_enable" /\ call' = c /\ calls' = calls + 1
      /\ UNCHANGED <<idx, spi, fmc, spi_job, fmc_job, wel, resets>>
  BY DEF Begin, chips
<1>2. ~complete' /\ (~stale' => spi_job = NoJob)
  BY DEF Begin
<1>3. TypeOK /\ JobsOK /\ FmcBusyInv
  BY DEF IInv
<1>4. TypeOK'
  <2>1. calls' \in 0 .. MaxCalls
    BY <1>1, <1>3, Sizes DEF TypeOK
  <2> QED BY <1>1, <1>3, <2>1 DEF TypeOK
<1>5. CallOK'
  BY <1>1 DEF CallOK, SpiOps, FmcOps
<1>6. PcOK' /\ JobsOK'
  BY <1>1, <1>2, <1>3 DEF PcOK, JobsOK
<1>7. SpiInv'
  <2> SUFFICES ASSUME ~stale' PROVE SpiBusyInv' /\ SpiDataInv'
    BY DEF SpiInv
  <2>1. spi_job' = NoJob
    BY <1>1, <1>2
  <2> QED BY <1>1, <1>2, <2>1, NoJobIs DEF SpiBusyInv, SpiDataInv
<1>8. FmcBusyInv'
  <2>1. fmc_job' = NoJob
    BY <1>1, <1>3 DEF FmcBusyInv
  <2> QED BY <2>1, NoJobIs DEF FmcBusyInv
<1>9. EraseInv' /\ WordInv'
  BY <1>1, <1>2 DEF EraseInv, WordInv
<1> QED BY <1>4, <1>5, <1>6, <1>7, <1>8, <1>9 DEF IInv

(* A call of the driver of the FMC begins with the sector of its address. *)
LEMMA CallFmc ==
  ASSUME IInv, NEW c, Begin(c, "fmc_erase"), NEW s \in Starts, idx' = s,
         c \in [op : FmcOps, addr : Nat, data : Seq(Values)],
         c.op = "fmc_erase" => c.addr = s,
         c.op = "fmc_write" =>
           c.data # << >> /\ EndAddr(c) <= FmcCells /\ s = fmc_sector_get(c.addr)
  PROVE  IInv'
<1>1. /\ pc = "idle" /\ calls < MaxCalls
      /\ pc' = "fmc_erase" /\ call' = c /\ calls' = calls + 1
      /\ UNCHANGED <<spi, fmc, spi_job, fmc_job, wel, resets>>
  BY DEF Begin, chips
<1>2. ~complete' /\ (~stale' => spi_job = NoJob)
  BY DEF Begin
<1>3. TypeOK /\ JobsOK /\ FmcBusyInv
  BY DEF IInv
<1>4. TypeOK'
  <2>1. calls' \in 0 .. MaxCalls
    BY <1>1, <1>3, Sizes DEF TypeOK
  <2>2. idx' \in 0 .. FmcCells
    BY Sizes DEF FmcAddr
  <2> QED BY <1>1, <1>3, <2>1, <2>2 DEF TypeOK
<1>5. CallOK'
  BY <1>1 DEF CallOK, SpiOps, FmcOps
<1>6. PcOK' /\ JobsOK'
  BY <1>1, <1>2, <1>3 DEF PcOK, JobsOK
<1>7. SpiInv'
  <2> SUFFICES ASSUME ~stale' PROVE SpiBusyInv' /\ SpiDataInv'
    BY DEF SpiInv
  <2>1. spi_job' = NoJob
    BY <1>1, <1>2
  <2> QED BY <1>1, <1>2, <2>1, NoJobIs DEF SpiBusyInv, SpiDataInv
<1>8. FmcBusyInv'
  <2>1. fmc_job' = NoJob
    BY <1>1, <1>3 DEF FmcBusyInv
  <2> QED BY <2>1, NoJobIs DEF FmcBusyInv
<1>9. EraseInv'
  <2>1. c.op = "fmc_erase" => (pc' = "fmc_erase" /\ idx' = c.addr)
    BY <1>1
  <2>2. c.op = "fmc_write" =>
          s <= EndSector' /\ s \in Nat /\ s = fmc_sector_get(c.addr)
    <3> SUFFICES ASSUME c.op = "fmc_write"
                 PROVE  s <= EndSector' /\ s \in Nat /\ s = fmc_sector_get(c.addr)
      OBVIOUS
    <3>1. EndSector' \in Starts /\ fmc_sector_get(c.addr) <= EndSector'
      <4>1. c.addr \in Nat /\ EndAddr(c) \in Nat /\ c.addr <= EndAddr(c)
        BY DEF EndAddr
      <4>2. EndSector' = fmc_sector_get(EndAddr(c))
        BY <1>1 DEF EndSector
      <4> QED BY <4>1, <4>2, SectorGet, SectorOrder
    <3> QED BY <3>1, Sizes
  <2>3. ASSUME c.op = "fmc_write", NEW x \in FmcAddr, s <= fmc_sector_get(x),
               fmc_sector_get(x) < s
        PROVE  FALSE
    BY <2>2, <2>3, SectorGet, Sizes
  <2>4. c.op = "fmc_write" => ErasedBelow(idx)'
    BY <1>1, <2>2, <2>3 DEF ErasedBelow
  <2> QED BY <1>1, <2>1, <2>2, <2>4, Sizes DEF EraseInv, FmcOps
<1>10. WordInv'
  BY <1>1, <1>2 DEF WordInv
<1> QED BY <1>4, <1>5, <1>6, <1>7, <1>8, <1>9, <1>10 DEF IInv

(* The program calls one of the drivers. *)
LEMMA CallerStep ==
  ASSUME IInv, Caller
  PROVE  IInv'
<1>1. ASSUME NEW s \in 0 .. SpiCells \div SectorSize - 1, call_erase_sector(s)
      PROVE  IInv'
  <2> DEFINE k == SpiCells \div SectorSize
             a == s * SectorSize
             c == Call("spi_erase", a, << >>)
  <2>1. k \in Nat /\ SpiCells = SectorSize * k
    <3>1. /\ k \in Nat /\ SpiCells % SectorSize = 0 /\ SpiCells \in Nat /\ SectorSize \in Nat \ {0}
          /\ SpiCells = SectorSize * k + (SpiCells % SectorSize)
      BY FlashAssumption, Sizes, Division
    <3> HIDE DEF k
    <3>2. SectorSize * k \in Nat
      BY <3>1
    <3> QED BY <3>1, <3>2
  <2>2. s \in Nat /\ s < k
    BY <2>1
  <2>3. a \in SpiAddr /\ a \in Nat
    <3> HIDE DEF k
    <3>1. a \in Nat /\ SectorSize * k = a + SectorSize * (k - s)
      BY <2>1, <2>2, Sizes
    <3>2. SectorSize * (k - s) > 0 /\ SectorSize * (k - s) \in Nat
      BY <2>1, <2>2, Sizes
    <3> HIDE DEF a
    <3> QED BY <2>1, <3>1, <3>2, Sizes DEF SpiAddr
  <2>4. Begin(c, "erase_enable") /\ UNCHANGED idx
    BY <1>1 DEF call_erase_sector
  <2>5. /\ c \in [op : SpiOps, addr : Nat, data : Seq(Values)] /\ c.addr \in SpiAddr
        /\ c.op = "spi_write" => c.data # << >>
    <3> HIDE DEF a
    <3> QED BY <2>3 DEF Call, SpiOps
  <2> HIDE DEF a, c
  <2> QED BY <2>4, <2>5, CallSpi
<1>2. ASSUME NEW a \in SpiAddr, NEW d \in Buffers, call_write(a, d)
      PROVE  IInv'
  <2> DEFINE c == Call("spi_write", a, d)
  <2>1. Begin(c, "erase_enable") /\ UNCHANGED idx
    BY <1>2 DEF call_write
  <2>2. /\ c \in [op : SpiOps, addr : Nat, data : Seq(Values)] /\ c.addr \in SpiAddr
        /\ c.op = "spi_write" => c.data # << >>
    BY BufferFacts, Sizes DEF Call, SpiOps
  <2> HIDE DEF c
  <2> QED BY <2>1, <2>2, CallSpi
<1>3. ASSUME NEW a \in FmcAddr, NEW d \in Buffers, a + Len(d) <= FmcCells, call_fmc_write(a, d)
      PROVE  IInv'
  <2> DEFINE c == Call("fmc_write", a, d)
             s == fmc_sector_get(a)
  <2>1. Begin(c, "fmc_erase") /\ idx' = s
    BY <1>3 DEF call_fmc_write
  <2>2. s \in Starts
    BY SectorGet, Sizes
  <2>3. /\ c \in [op : FmcOps, addr : Nat, data : Seq(Values)]
        /\ c.op = "fmc_write" /\ c.addr = a /\ c.data # << >> /\ EndAddr(c) <= FmcCells
    BY <1>3, BufferFacts, Sizes DEF Call, FmcOps, EndAddr
  <2> HIDE DEF c
  <2> QED BY <2>1, <2>2, <2>3, CallFmc
<1>4. ASSUME NEW s \in Starts, call_fmc_erase(s)
      PROVE  IInv'
  <2> DEFINE c == Call("fmc_erase", s, << >>)
  <2>1. Begin(c, "fmc_erase") /\ idx' = s
    BY <1>4 DEF call_fmc_erase
  <2>2. /\ c \in [op : FmcOps, addr : Nat, data : Seq(Values)]
        /\ c.op = "fmc_erase" /\ c.addr = s
    BY Sizes DEF Call, FmcOps
  <2> HIDE DEF c
  <2> QED BY <2>1, <2>2, CallFmc
<1> QED BY <1>1, <1>2, <1>3, <1>4 DEF Caller

(* A reset or a loss of power in the middle of everything: what was said of  *)
(* the FMC ends with the call, and so does what was said of the GD25Q32,     *)
(* but for the sector it is busy in.                                         *)
LEMMA RestartStep ==
  ASSUME IInv, cpu_reset \/ power_loss
  PROVE  IInv'
<1>1. /\ resets < MaxResets /\ pc' = "idle" /\ idx' = 0
      /\ \E p \in Part(fmc_job) : fmc' = Apply(p, fmc)
      /\ fmc_job' = NoJob /\ resets' = resets + 1 /\ UNCHANGED <<call, calls, stale>>
  BY DEF cpu_reset, power_loss, Restart
<1>2. ~complete'
  BY DEF cpu_reset, power_loss, Restart
<1>3. TypeOK /\ CallOK /\ JobsOK /\ SpiInv
  BY DEF IInv
<1>4. fmc' \in [FmcAddr -> SUBSET Bits]
  <2>1. PICK p \in Part(fmc_job) : fmc' = Apply(p, fmc)
    BY <1>1
  <2>2. fmc \in [FmcAddr -> SUBSET Bits] /\ \A c \in DOMAIN p : p[c] \in SUBSET Bits
    BY <1>3, PartFacts DEF TypeOK, JobsOK
  <2>3. Apply(p, fmc) \in [FmcAddr -> SUBSET Bits]
    BY <2>2, ApplyFacts
  <2> QED BY <2>1, <2>3
<1>5. /\ spi' \in [SpiAddr -> SUBSET Bits]
      /\ spi_job' = spi_job \/ spi_job' = NoJob
  <2>1. CASE cpu_reset
    BY <1>3, <2>1 DEF cpu_reset, TypeOK
  <2>2. CASE power_loss
    <3>1. spi_job' = NoJob
      BY <2>2 DEF power_loss
    <3>2. PICK p \in Part(spi_job) : spi' = Apply(p, spi)
      BY <2>2 DEF power_loss
    <3>3. spi \in [SpiAddr -> SUBSET Bits] /\ \A c \in DOMAIN p : p[c] \in SUBSET Bits
      BY <1>3, PartFacts DEF TypeOK, JobsOK
    <3>4. Apply(p, spi) \in [SpiAddr -> SUBSET Bits]
      BY <3>3, ApplyFacts
    <3> QED BY <3>1, <3>2, <3>4
  <2> QED BY <2>1, <2>2
<1>6. TypeOK'
  <2>1. resets' \in 0 .. MaxResets
    BY <1>1, <1>3, Sizes DEF TypeOK
  <2>2. DOMAIN spi_job' \subseteq SpiAddr /\ DOMAIN fmc_job' \subseteq FmcAddr
    BY <1>1, <1>3, <1>5, NoJobIs DEF TypeOK
  <2>3. idx' \in 0 .. FmcCells
    BY <1>1, Sizes
  <2> QED BY <1>1, <1>3, <1>4, <1>5, <2>1, <2>2, <2>3 DEF TypeOK
<1>7. CallOK' /\ PcOK' /\ JobsOK'
  BY <1>1, <1>2, <1>3, <1>5, SameCall, NoJobIs DEF PcOK, JobsOK
<1>8. SpiInv'
  <2> SUFFICES ASSUME ~stale' PROVE SpiBusyInv' /\ SpiDataInv'
    BY DEF SpiInv
  <2>1. DOMAIN spi_job \subseteq SpiSector(call.addr)
    BY <1>1, <1>3 DEF SpiInv, SpiBusyInv
  <2>2. SpiBusyInv'
    BY <1>1, <1>5, <2>1, NoJobIs, SameCall DEF SpiBusyInv
  <2>3. SpiDataInv'
    BY <1>1, <1>2 DEF SpiDataInv
  <2> QED BY <2>2, <2>3
<1>9. FmcBusyInv' /\ EraseInv' /\ WordInv'
  BY <1>1, <1>2, NoJobIs DEF FmcBusyInv, EraseInv, WordInv
<1> QED BY <1>6, <1>7, <1>8, <1>9 DEF IInv

(* A step that changes nothing. *)
LEMMA Stutter ==
  ASSUME IInv, UNCHANGED vars
  PROVE  IInv'
<1>1. UNCHANGED <<pc, call, idx, spi, fmc, spi_job, fmc_job, wel, calls, resets, complete, stale>>
  BY DEF vars, chips
<1>2. TypeOK /\ CallOK /\ PcOK /\ JobsOK /\ SpiInv /\ FmcBusyInv /\ EraseInv /\ WordInv
  BY DEF IInv
<1>3. TypeOK' /\ JobsOK'
  BY <1>1, <1>2 DEF TypeOK, JobsOK
<1>4. SpiInv' /\ FmcBusyInv' /\ EraseInv' /\ WordInv' /\ PcOK' /\ CallOK'
  BY <1>1, <1>2, SpiSame, FmcSame
<1> QED BY <1>3, <1>4 DEF IInv

(* Every step of the program, of the chips and of fate. *)
LEMMA InvStep ==
  ASSUME IInv, [Next]_vars
  PROVE  IInv'
<1>1. CASE Caller
  BY <1>1, CallerStep
<1>2. CASE GD25Q32_erase_sector
  BY <1>2, EnableStep, BusyStep, EraseStep, EraseDoneStep DEF GD25Q32_erase_sector
<1>3. CASE GD25Q32_write
  BY <1>3, EnableStep, BusyStep, WriteStep, WriteDoneStep DEF GD25Q32_write
<1>4. CASE fmc_write_32bit_data
  BY <1>4, SectorEraseStep, ErasedStep, WordProgramStep, WordedStep, TimeoutStep
  DEF fmc_write_32bit_data
<1>5. CASE spi_done
  BY <1>5, SpiDoneStep
<1>6. CASE fmc_done
  BY <1>6, FmcDoneStep
<1>7. CASE cpu_reset \/ power_loss
  BY <1>7, RestartStep
<1>8. CASE UNCHANGED vars
  BY <1>8, Stutter
<1> QED BY <1>1, <1>2, <1>3, <1>4, <1>5, <1>6, <1>7, <1>8 DEF Next, Driver

(* The inductive invariant holds of all behaviours: where the program is in  *)
(* a driver, what the chips hold and what they are busy with.                *)
THEOREM Invariant == Spec => []IInv
<1>1. Init => IInv
  BY InitInv
<1>2. IInv /\ [Next]_vars => IInv'
  BY InvStep
<1> QED BY <1>1, <1>2, PTL DEF Spec

(* What was written to the GD25Q32 is read: the bytes lie in one page.       *)
LEMMA SpiRead ==
  ASSUME IInv
  PROVE  SpiReadsBack
<1> SUFFICES ASSUME call.op = "spi_write", complete, ~stale, InPage(call.addr, call.data)
             PROVE  GD25Q32_read(call.addr, Len(call.data)) = call.data
  BY DEF SpiReadsBack
<1>1. CallOK /\ spi_job = NoJob /\ SpiWritten
  BY DEF IInv, SpiInv, SpiDataInv
<1>2. \A i \in DOMAIN call.data : spi[call.addr + i - 1] = call.data[i]
  BY <1>1, BytesFacts DEF SpiWritten
<1>3. /\ DOMAIN call.data = 1 .. Len(call.data)
      /\ call.data = [i \in 1 .. Len(call.data) |-> call.data[i]]
  BY <1>1, CallFacts
<1>4. GD25Q32_read(call.addr, Len(call.data))
        = [i \in 1 .. Len(call.data) |-> spi[call.addr + i - 1]]
  BY <1>1 DEF GD25Q32_read
<1> QED BY <1>2, <1>3, <1>4

(* What was written to the FMC is there, and what its read can count is read. *)
LEMMA FmcRead ==
  ASSUME IInv
  PROVE  FmcReadsBack
<1> SUFFICES ASSUME call.op = "fmc_write", complete
             PROVE  /\ \A i \in DOMAIN call.data : fmc[call.addr + i - 1] = call.data[i]
                    /\ Len(call.data) < ReadMod
                         => fmc_read_32bit_data(call.addr, Len(call.data)) = call.data
  BY DEF FmcReadsBack
<1>1. CallOK /\ \A i \in DOMAIN call.data : fmc[call.addr + i - 1] = call.data[i]
  BY DEF IInv, WordInv, WordIs
<1>2. /\ DOMAIN call.data = 1 .. Len(call.data)
      /\ call.data = [i \in 1 .. Len(call.data) |-> call.data[i]]
  BY <1>1, CallFacts
<1>3. ASSUME Len(call.data) < ReadMod
      PROVE  fmc_read_32bit_data(call.addr, Len(call.data)) = call.data
  BY <1>1, <1>2, <1>3 DEF fmc_read_32bit_data
<1> QED BY <1>1, <1>3

(* What GD25Q32_write and fmc_write_32bit_data wrote is read back when they  *)
(* have returned, whatever resets and losses of power came before: of the    *)
(* GD25Q32 if the bytes lie in one page and the chip was idle when the call  *)
(* began, of the FMC if they are less words than the counter of its read     *)
(* takes, 255 at most (more are in the flash, but the read does not return). *)
THEOREM WritesReadBack == Spec => []ReadsBack
<1>1. IInv => ReadsBack
  BY SpiRead, FmcRead DEF ReadsBack, IInv
<1> QED BY <1>1, Invariant, PTL

-----------------------------------------------------------------------------
(* A cell changes only when the operation of its chip ends, or is cut short. *)
LEMMA SpiChange ==
  ASSUME IInv, [Next]_vars
  PROVE  Changed(spi, spi') \subseteq DOMAIN spi_job
<1> SUFFICES ASSUME NEW c \in DOMAIN spi, spi'[c] # spi[c] PROVE c \in DOMAIN spi_job
  BY DEF Changed
<1>1. UNCHANGED spi \/ spi' = Apply(spi_job, spi) \/ \E p \in Part(spi_job) : spi' = Apply(p, spi)
  BY DEF Next, Caller, Driver, GD25Q32_erase_sector, GD25Q32_write, fmc_write_32bit_data,
     call_erase_sector, call_write, call_fmc_write, call_fmc_erase, Begin, erase_enable,
     erase_busy, erase_command, erase_done, write_enable, write_busy, write_command,
     write_done, GD25Q32_write_enable, SpiCommand, fmc_sector_erase, fmc_erased,
     fmc_word_program, fmc_worded, fmc_timeout, Start, spi_done, fmc_done, cpu_reset,
     power_loss, vars, chips
<1>2. ASSUME NEW job, DOMAIN job \subseteq DOMAIN spi_job, spi' = Apply(job, spi)
      PROVE  c \in DOMAIN spi_job
  BY <1>2 DEF Apply
<1> QED BY <1>1, <1>2, PartFacts

LEMMA FmcChange ==
  ASSUME IInv, [Next]_vars
  PROVE  Changed(fmc, fmc') \subseteq DOMAIN fmc_job
<1> SUFFICES ASSUME NEW c \in DOMAIN fmc, fmc'[c] # fmc[c] PROVE c \in DOMAIN fmc_job
  BY DEF Changed
<1>1. UNCHANGED fmc \/ fmc' = Apply(fmc_job, fmc) \/ \E p \in Part(fmc_job) : fmc' = Apply(p, fmc)
  BY DEF Next, Caller, Driver, GD25Q32_erase_sector, GD25Q32_write, fmc_write_32bit_data,
     call_erase_sector, call_write, call_fmc_write, call_fmc_erase, Begin, erase_enable,
     erase_busy, erase_command, erase_done, write_enable, write_busy, write_command,
     write_done, GD25Q32_write_enable, SpiCommand, fmc_sector_erase, fmc_erased,
     fmc_word_program, fmc_worded, fmc_timeout, Start, spi_done, fmc_done, cpu_reset,
     power_loss, Restart, vars, chips
<1>2. ASSUME NEW job, DOMAIN job \subseteq DOMAIN fmc_job, fmc' = Apply(job, fmc)
      PROVE  c \in DOMAIN fmc_job
  BY <1>2 DEF Apply
<1> QED BY <1>1, <1>2, PartFacts

(* No call, completed or cut short by a reset or a loss of power, changes a  *)
(* cell that it does not erase: on the GD25Q32 none outside the sector of    *)
(* its address, on the FMC none outside the sectors of its words and of the  *)
(* first address after them.                                                 *)
THEOREM OthersAreKept == Spec => OthersKept
<1>1. IInv /\ [Next]_vars =>
        [~stale => Changed(spi, spi') \subseteq SpiSector(call.addr)]_vars
  <2> SUFFICES ASSUME IInv, [Next]_vars, ~stale
               PROVE  Changed(spi, spi') \subseteq SpiSector(call.addr)
    OBVIOUS
  <2>1. DOMAIN spi_job \subseteq SpiSector(call.addr)
    BY DEF IInv, SpiInv, SpiBusyInv
  <2> QED BY <2>1, SpiChange
<1> DEFINE Near(c) ==
       \/ fmc_sector_get(c) = call.addr
       \/ \E i \in DOMAIN call.data : fmc_sector_get(c) = fmc_sector_get(call.addr + i - 1)
       \/ fmc_sector_get(c) = EndAddr(call)
<1>2. IInv /\ [Next]_vars => [\A c \in Changed(fmc, fmc') : Near(c)]_vars
  <2> SUFFICES ASSUME IInv, [Next]_vars, NEW c \in Changed(fmc, fmc')
               PROVE  Near(c)
    OBVIOUS
  <2>1. c \in Reach
    BY FmcChange DEF IInv, FmcBusyInv
  <2> QED BY <2>1 DEF Reach
<1>3. Spec => SpiOthersKept
  BY <1>1, Invariant, PTL DEF Spec, SpiOthersKept
<1>4. Spec => FmcOthersKept
  BY <1>2, Invariant, PTL DEF Spec, FmcOthersKept
<1> QED BY <1>3, <1>4 DEF OthersKept
=============================================================================
