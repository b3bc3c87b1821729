------------------------------- MODULE Flash --------------------------------
(***************************************************************************)
(* The two flash drivers: the GD25Q32 on the SPI bus (user/bsp/spi_flash.c)*)
(* and the flash of the microcontroller (user/bsp/bsp_fmc.c), with the     *)
(* chips they drive.  Both erase before they program, neither keeps what   *)
(* else is in the sector, and neither looks at the state that a reset or a *)
(* loss of power left behind.                                              *)
(*                                                                         *)
(* A cell (a byte of the GD25Q32, a word of the microcontroller's flash)   *)
(* is the set of its bits that are 1: erasing sets all of them, programming*)
(* only clears some.  One program calls the drivers, one call at a time.   *)
(***************************************************************************)
EXTENDS Naturals, Sequences, FiniteSetsExt

CONSTANTS
  Bits,         \* the bits of a cell
  Values,       \* what is written into a cell
  MaxData,      \* cells of the longest write
  SpiCells, SectorSize, PageSize,   \* GD25Q32: 4 MiB, 4096 and 256 bytes
  FmcCells,     \* words of the microcontroller's flash
  Starts,       \* ADDR_FMC_SECTOR_n: where the sectors begin, in words
  Protected,    \* sectors with their write protection on
  ReadMod,      \* range of the loop counter of fmc_read_32bit_data, a uint8_t: 256
  MaxCalls,     \* bound on the calls
  MaxResets     \* bound on the resets and losses of power

ASSUME FlashAssumption ==
  /\ {SpiCells, SectorSize, PageSize, FmcCells} \subseteq Nat \ {0}
  /\ SpiCells % SectorSize = 0 /\ SectorSize % PageSize = 0
  /\ 0 \in Starts /\ Starts \subseteq 0 .. FmcCells - 1 /\ Protected \subseteq Starts
  /\ Values \subseteq SUBSET Bits
  /\ {MaxData, MaxCalls, MaxResets, ReadMod} \subseteq Nat

VARIABLES
  pc,        \* position of the program in the driver
  call,      \* the call, or the last one when pc is "idle"
  idx,       \* loop counter of fmc_write_32bit_data: a sector, then a word
  spi, fmc,          \* contents of the two chips
  spi_job, fmc_job,  \* the operation a chip is busy with: what its cells become
  wel,       \* write enable latch of the GD25Q32
  calls, resets,     \* counters for the bounds
  complete,  \* history: the last call returned
  stale      \* history: the GD25Q32 was busy when the last call began

chips == <<spi, fmc, spi_job, fmc_job, wel>>
vars == <<pc, call, idx, chips, calls, resets, complete, stale>>

Erased == Bits
SpiAddr == 0 .. SpiCells - 1
FmcAddr == 0 .. FmcCells - 1
Buffers == UNION {[1 .. n -> Values] : n \in 1 .. MaxData}
NoJob == << >>
Apply(job, m) == [c \in DOMAIN m |-> IF c \in DOMAIN job THEN job[c] ELSE m[c]]

(* Power fails in the middle: some cells have their new value, some not. *)
Part(job) == {[c \in S |-> job[c]] : S \in SUBSET DOMAIN job}

Call(op, addr, data) == [op |-> op, addr |-> addr, data |-> data]
EndAddr(c) == c.addr + Len(c.data)

(* Both chips are full of old data, with every bit programmed. *)
Init ==
  /\ pc = "idle" /\ call = Call("none", 0, << >>) /\ idx = 0
  /\ spi = [c \in SpiAddr |-> {}] /\ fmc = [c \in FmcAddr |-> {}]
  /\ spi_job = NoJob /\ fmc_job = NoJob /\ wel = FALSE
  /\ calls = 0 /\ resets = 0 /\ complete = FALSE /\ stale = FALSE

Begin(c, first) ==
  /\ pc = "idle" /\ calls < MaxCalls
  /\ pc' = first /\ call' = c
  /\ calls' = calls + 1
  /\ complete' = FALSE
  /\ stale' = (spi_job # NoJob)
  /\ UNCHANGED <<chips, resets>>

Step(from, to) ==
  /\ pc = from /\ pc' = to
  /\ complete' = (to = "idle")
  /\ UNCHANGED <<call, calls, resets, stale>>

-----------------------------------------------------------------------------
(* GD25Q32, the chip as its driver uses it (external).  A busy chip ignores  *)
(* every command but the read of its status, an erase or a program without   *)
(* the latch is ignored, and the latch falls when the operation is done.     *)
SpiSector(a) == {c \in SpiAddr : c \div SectorSize = a \div SectorSize}
EraseJob(cells) == [c \in cells |-> Erased]

(* The bytes of a program command wrap within their page; of two bytes for   *)
(* one cell the later counts.                                                *)
Latch(addr, data) ==
  LET at(i) == (addr - (addr % PageSize)) + ((addr + i - 1) % PageSize)
  IN  [c \in {at(i) : i \in DOMAIN data} |-> data[Max({i \in DOMAIN data : at(i) = c})]]

ProgramJob(m, bytes) == [c \in DOMAIN bytes |-> m[c] \cap bytes[c]]

SpiCommand(job) ==
  /\ spi_job' = IF wel /\ spi_job = NoJob THEN job ELSE spi_job
  /\ UNCHANGED <<spi, fmc, fmc_job, wel>>

spi_done ==
  /\ spi_job # NoJob
  /\ spi' = Apply(spi_job, spi) /\ spi_job' = NoJob /\ wel' = FALSE
  /\ UNCHANGED <<pc, call, idx, fmc, fmc_job, calls, resets, complete, stale>>

-----------------------------------------------------------------------------
(* The driver of the GD25Q32. *)
GD25Q32_write_enable ==
  /\ wel' = (wel \/ spi_job = NoJob)
  /\ UNCHANGED <<spi, fmc, spi_job, fmc_job>>

(* mutant: the status is read and not looked at *)
NoWait == TRUE

(* mutant: the busy bit with the wrong sense *)
WaitWhileIdle == spi_job # NoJob

GD25Q32_wait_busy == spi_job = NoJob

(* The sector that GD25Q32_erase_sector(addr/4096) names, addr *= 4096. *)
SectorOf(addr) == EraseJob(SpiSector((addr \div SectorSize) * SectorSize))

(* GD25Q32_erase_sector is called on its own, and first by GD25Q32_write. *)
call_erase_sector(s) ==
  /\ Begin(Call("spi_erase", s * SectorSize, << >>), "erase_enable") /\ UNCHANGED idx
call_write(a, data) ==
  /\ Begin(Call("spi_write", a, data), "erase_enable") /\ UNCHANGED idx

erase_enable ==
  /\ Step("erase_enable", "erase_busy") /\ GD25Q32_write_enable /\ UNCHANGED idx
erase_busy ==
  /\ Step("erase_busy", "erase") /\ GD25Q32_wait_busy /\ UNCHANGED <<idx, chips>>
erase_command ==
  /\ Step("erase", "erase_done") /\ SpiCommand(SectorOf(call.addr)) /\ UNCHANGED idx
erase_done ==
  /\ Step("erase_done", IF call.op = "spi_write" THEN "write_enable" ELSE "idle")
  /\ GD25Q32_wait_busy /\ UNCHANGED <<idx, chips>>

GD25Q32_erase_sector == erase_enable \/ erase_busy \/ erase_command \/ erase_done

write_enable ==
  /\ Step("write_enable", "write_busy") /\ GD25Q32_write_enable /\ UNCHANGED idx
write_busy ==
  /\ Step("write_busy", "write") /\ GD25Q32_wait_busy /\ UNCHANGED <<idx, chips>>
write_command ==
  /\ Step("write", "write_done")
  /\ SpiCommand(ProgramJob(spi, Latch(call.addr, call.data)))
  /\ UNCHANGED idx
write_done ==
  /\ Step("write_done", "idle") /\ GD25Q32_wait_busy /\ UNCHANGED <<idx, chips>>

GD25Q32_write == write_enable \/ write_busy \/ write_command \/ write_done

(* GD25Q32_read does not wait: a busy chip does not answer. *)
GD25Q32_read(addr, n) ==
  IF spi_job = NoJob THEN [i \in 1 .. n |-> spi[addr + i - 1]] ELSE << >>

-----------------------------------------------------------------------------
(* The driver of the microcontroller's flash.  A sector is named by the      *)
(* address at which it begins.                                               *)
fmc_sector_get(a) == Max({s \in Starts : s <= a})
FmcSector(s) == {c \in FmcAddr : fmc_sector_get(c) = s}

(* mutant: one sector more than the data reach *)
OneTooFar ==
  LET e == fmc_sector_get(EndAddr(call))
      above == {s \in Starts : s > e}
  IN  IF above = {} THEN e ELSE Min(above)

EndSector == fmc_sector_get(EndAddr(call))

call_fmc_write(a, data) ==
  Begin(Call("fmc_write", a, data), "fmc_erase") /\ idx' = fmc_sector_get(a)
call_fmc_erase(s) ==
  Begin(Call("fmc_erase", s, << >>), "fmc_erase") /\ idx' = s

(* fmc_sector_erase and fmc_word_program start the operation, unless the     *)
(* sector is protected; the driver stops for ever at any error.              *)
Start(sector, job, next) ==
  /\ Step(pc, IF sector \in Protected THEN "hang" ELSE next)
  /\ fmc_job' = IF sector \in Protected THEN fmc_job ELSE job
  /\ UNCHANGED <<idx, spi, fmc, spi_job, wel>>

fmc_sector_erase ==
  /\ pc = "fmc_erase"
  /\ Start(idx, EraseJob(FmcSector(idx)), "fmc_erased")

(* fmc_ready_wait at the end of fmc_sector_erase; then the next sector of    *)
(* fmc_write_32bit_data, or its first word.                                  *)
fmc_erased ==
  /\ fmc_job = NoJob
  /\ \/ call.op = "fmc_erase" /\ Step("fmc_erased", "idle") /\ UNCHANGED idx
     \/ /\ call.op = "fmc_write" /\ idx < EndSector
        /\ Step("fmc_erased", "fmc_erase")
        /\ idx' = Min({s \in Starts : s > idx})
     \/ /\ call.op = "fmc_write" /\ idx >= EndSector
        /\ Step("fmc_erased", "fmc_word") /\ idx' = 1
  /\ UNCHANGED chips

fmc_word_program ==
  /\ pc = "fmc_word"
  /\ LET c == call.addr + idx - 1
     IN  Start(fmc_sector_get(c), [x \in {c} |-> fmc[c] \cap call.data[idx]], "fmc_worded")

fmc_worded ==
  /\ fmc_job = NoJob
  /\ Step("fmc_worded", IF idx < Len(call.data) THEN "fmc_word" ELSE "idle")
  /\ idx' = IF idx < Len(call.data) THEN idx + 1 ELSE 0
  /\ UNCHANGED chips

(* FMC_TOERR of fmc_ready_wait *)
fmc_timeout ==
  /\ fmc_job # NoJob
  /\ pc \in {"fmc_erased", "fmc_worded"} /\ Step(pc, "hang")
  /\ UNCHANGED <<idx, chips>>

fmc_write_32bit_data ==
  fmc_sector_erase \/ fmc_erased \/ fmc_word_program \/ fmc_worded \/ fmc_timeout

(* Its counter wraps at ReadMod: with a length that it cannot reach the loop *)
(* never ends, and there is no result.                                       *)
fmc_read_32bit_data(addr, n) ==
  IF n < ReadMod THEN [i \in 1 .. n |-> fmc[addr + i - 1]] ELSE << >>

fmc_done ==
  /\ fmc_job # NoJob
  /\ fmc' = Apply(fmc_job, fmc) /\ fmc_job' = NoJob
  /\ UNCHANGED <<pc, call, idx, spi, spi_job, wel, calls, resets, complete, stale>>

-----------------------------------------------------------------------------
(* A reset of the microcontroller ends its own flash operation somewhere in  *)
(* the middle, and the GD25Q32 goes on; a loss of power ends both.           *)
Restart ==
  /\ resets < MaxResets
  /\ pc' = "idle" /\ idx' = 0
  /\ \E p \in Part(fmc_job) : fmc' = Apply(p, fmc)
  /\ fmc_job' = NoJob
  /\ resets' = resets + 1 /\ complete' = FALSE
  /\ UNCHANGED <<call, calls, stale>>

cpu_reset == pc # "idle" /\ Restart /\ UNCHANGED <<spi, spi_job, wel>>

power_loss ==
  /\ Restart
  /\ \E p \in Part(spi_job) : spi' = Apply(p, spi)
  /\ spi_job' = NoJob /\ wel' = FALSE

Caller ==
  \/ \E s \in 0 .. SpiCells \div SectorSize - 1 : call_erase_sector(s)
  \/ \E a \in SpiAddr, d \in Buffers : a + Len(d) <= SpiCells /\ call_write(a, d)
  \/ \E a \in FmcAddr, d \in Buffers : a + Len(d) <= FmcCells /\ call_fmc_write(a, d)
  \/ \E s \in Starts : call_fmc_erase(s)

Driver == GD25Q32_erase_sector \/ GD25Q32_write \/ fmc_write_32bit_data

Next == Caller \/ Driver \/ spi_done \/ fmc_done \/ cpu_reset \/ power_loss

(* The driver runs on, and a chip ends the operation it is busy with. *)
Spec ==
  Init /\ [][Next]_vars /\ WF_vars(Driver) /\ WF_vars(spi_done) /\ WF_vars(fmc_done)

-----------------------------------------------------------------------------
(* Contents, operations and positions have their types. *)
TypeOK ==
  /\ pc \in {"idle", "hang", "erase_enable", "erase_busy", "erase", "erase_done",
             "write_enable", "write_busy", "write", "write_done",
             "fmc_erase", "fmc_erased", "fmc_word", "fmc_worded"}
  /\ spi \in [SpiAddr -> SUBSET Bits] /\ fmc \in [FmcAddr -> SUBSET Bits]
  /\ DOMAIN spi_job \subseteq SpiAddr /\ DOMAIN fmc_job \subseteq FmcAddr
  /\ idx \in 0 .. FmcCells
  /\ calls \in 0 .. MaxCalls /\ resets \in 0 .. MaxResets

InPage(a, d) == a \div PageSize = (a + Len(d) - 1) \div PageSize

(* What GD25Q32_write wrote is read back when it has returned, whatever      *)
(* resets and losses of power came before, if the bytes lie in one page and  *)
(* the chip was not still busy with an operation from before a reset: the    *)
(* write enable, sent before the wait, is then ignored, and so is the erase. *)
SpiReadsBack ==
  call.op = "spi_write" /\ complete /\ ~stale /\ InPage(call.addr, call.data)
    => GD25Q32_read(call.addr, Len(call.data)) = call.data

(* What fmc_write_32bit_data wrote is in the flash when it has returned,     *)
(* whatever resets came before (every sector it writes to was erased), and   *)
(* fmc_read_32bit_data reads it back if it is less than ReadMod words: of    *)
(* 256 words and more the read does not return.                              *)
FmcReadsBack ==
  call.op = "fmc_write" /\ complete =>
    /\ \A i \in DOMAIN call.data : fmc[call.addr + i - 1] = call.data[i]
    /\ Len(call.data) < ReadMod
         => fmc_read_32bit_data(call.addr, Len(call.data)) = call.data

(* Both chips hold what the last completed write put there, and positions    *)
(* and operations of the drivers have their types.                           *)
ReadsBack == TypeOK /\ SpiReadsBack /\ FmcReadsBack

Changed(m, n) == {c \in DOMAIN m : n[c] # m[c]}

(* No call, completed or cut short, changes a byte outside the sector of its *)
(* address: not even a program command that wraps.                           *)
SpiOthersKept ==
  [][~stale => Changed(spi, spi') \subseteq SpiSector(call.addr)]_vars

(* fmc_write_32bit_data and fmc_erase_sector change words of the sectors     *)
(* their words lie in and, because the last sector is that of the first      *)
(* address after the data, of the next sector when the data end at the end   *)
(* of one.                                                                   *)
FmcOthersKept ==
  [][\A c \in Changed(fmc, fmc') :
       \/ fmc_sector_get(c) = call.addr
       \/ \E i \in DOMAIN call.data : fmc_sector_get(c) = fmc_sector_get(call.addr + i - 1)
       \/ fmc_sector_get(c) = EndAddr(call)]_vars

(* Neither driver touches what it does not erase, whatever cuts it short. *)
OthersKept == SpiOthersKept /\ FmcOthersKept

(* A call returns, unless a reset cuts it short or an error of the           *)
(* microcontroller's flash stops the program.                                *)
CallReturns == pc # "idle" ~> pc \in {"idle", "hang"}
=============================================================================
