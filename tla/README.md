# Verification of the GD32F4xx firmware

TLA+ modules, TLC configurations and TLAPS proofs for the firmware in this
repository: a bare-metal application for the GD32F4xx (Cortex-M4) with software
timers, a ring buffer, a buzzer, lwIP over the on-chip Ethernet, an SD card with
FatFs, USB CDC, and SPI and internal flash. There is no operating system in the
build: one main loop (`app/main.c`) and the interrupts of `app/gd32f4xx_it.c`
share memory. Which parts are compiled in is chosen in `app/inc/config.h`; the
models treat every part as if it were enabled.

`PROJECT.json` lists the components, runs, mutants, source map, findings,
hazards and theorems in machine-readable form.

## 1. Inventory

| Component | State it keeps | Operations | Interacts with | What is hard |
|---|---|---|---|---|
| `module/soft_timer` | per timer: counter, timeout, `is_repeat`, `is_timeout` | single and repeat init, stop, reset, poll, tick | SysTick calls the tick, the main loop everything else | the tick between the load and the store of a poll; widths; leftovers of an earlier period |
| `module/ringbuffer` | buffer, two indices, `mirror` | init, write, read, available, reset | interrupt writer, main-loop reader | unprotected read-modify-write of `mirror` by both; overrun; reset in three stores |
| `module/buzzer` | array of tones, positions, flag, end times | queue a tone, alarm, poll | system tick, PWM hardware | alarm against tones; array positions; wrap of the tick |
| `user/sys/tcpecho_raw.c` | echo state, chain of pbufs | accept, recv, sent, poll, error, send, close, free | lwIP's callbacks from two contexts | out of memory in mid-chain; FIN with data pending; reset; reference counts; preemption |
| Ethernet reception | ring of receive descriptors, current descriptor | `ENET_IRQHandler`, `ethernetif_input`, library receive functions | ENET DMA, lwIP | frame stored while the handler drains; full ring |
| Ethernet transmission | ring of transmit descriptors, current descriptor | `low_level_output`, `enet_frame_transmit` | ENET DMA, lwIP from two contexts | full ring; suspended DMA; preemption |
| Ethernet start-up, periodic tasks (`bsp_enet.c`) | address and flags of the interface, last-run times | MAC and PHY start-up, DHCP with fallback, timers of lwIP | tick, lwIP | the bounded wait for DHCP, tick wrap |
| `user/sys/sdcard.c` | `transend`, `transerror`, `stopcondition`, mode | block and multi-block read and write, interrupt, start-up, erase, lock | SDIO, DMA, card, FatFs | events of an earlier call; time-outs that leave the DMA on; failures of card and bus |
| FatFs port (`diskio.c`) | none | `disk_read`, `disk_write`, `disk_ioctl` | SD card driver | 32-bit byte addresses |
| USB CDC demo with CherryUSB's device core and DWC2 port | `ep_tx_busy_flag`, `dtr_enable`, endpoint registers and transfer records, configuration | send, bus reset, set configuration and interface, halt, FIFO empty, transfer complete in both directions | USB interrupt, main loop, host | resets and requests between any two accesses of the sender, who waits for a flag |
| `spi_flash.c` | contents, write enable latch and busy bit of the GD25Q32 | erase sector, write, read | SPI chip, power supply | loss of power and resets in mid-operation; a busy chip ignores commands; page wrap |
| `bsp_fmc.c` | contents and lock of the on-chip flash | erase sector, write, read | FMC, power supply | sector arithmetic at a boundary; write protection, time-out; power |
| main loop, SysTick, delays | tick counter | tick, `delay_us` | all of the above | wrap; a slow round |
| LED, UART | registers only | set, put character | | |
| vendored code | | lwIP, FatFs, FreeRTOS, CherryUSB, xprintf, GD32 library | | third party |

What makes each component correct: timers expire exactly once per period and
each expiry is reported once; the queue loses and repeats nothing; a queued tone
sounds in its turn and the buzzer stops; every byte received is echoed once, in
order, without leak, and the connection closes; every frame that reached the
ring is delivered or accounted for, and every frame handed to the driver goes
out whole; `SD_OK` means that the transfer is over and intact; a USB transfer
is never put over another one, and the host can always send; what a flash write
wrote is read back, and nothing outside the erased sectors changes; lwIP's
timers keep their intervals over the wrap of the tick; nothing waits for ever.

## 2. Modules

**SoftTimer** models every function of `soft_timer.c`. Variables are the fields
of the timer structure, `primask`, and `call`, the timer for which a poll stands
between the load (`is_timeout_load`) and the store (`is_timeout_clear`) of
`is_timeout`; calls of the main program are otherwise atomic against SysTick,
because they run with interrupts masked. `Handles` contains an invalid handle
for the range checks. The counter has `CounterMod` values (2^32 in the code).
**SoftTimerHistory** adds what happened since a timer was last started (ticks,
expiries, reports, expiries not yet reported) without constraining the program;
**MCSoftTimer** adds the symmetry of the timers.

**RingBuffer** models `ringbuffer.c` access by access: every load and store of a
volatile field in a reader call is a step, and the writer, an interrupt, may run
between any two of them. A byte is its serial number. **BoundedFifo** is the
abstract queue; `ImplementsFifo` is the refinement, with the readable bytes as
the queue.

**Buzzer** models `buzzer.c`: `buzzer_beep_tone`, `buzzer_beep_immediate` (the
alarm), `buzzer_poll` with both its halves, and the tick.

**TcpEcho** models every callback of `tcpecho_raw.c` and, as external behaviour,
what they rely on in lwIP: pbuf reference counts and chaining, receive window,
send buffer, refused writes, FIN, errors, and which callback lwIP makes from
which context. `tcpecho_raw_send` is split where another context could see it.
`TwoContexts` says whether the interrupt may preempt the main loop inside lwIP.

**EnetRx** and **EnetTx** model the receive interrupt and `low_level_output`
with the descriptor rings of the GD32 library against a DMA that acts between
any two steps. **Enet** composes them: the answer to a received frame is sent
inside `ethernetif_input`, in the context of the interrupt, so the handler stops
draining the receive ring while `low_level_output` waits for a transmit
descriptor; `lwip_periodic_handle` sends from the main loop. `TwoContexts` says
whether the interrupt may preempt the main loop inside `low_level_output`.

**MainLoop** extends **SoftTimer** with what shares its SysTick: `lwip_comm_init`
from `netif_add` to `netif_set_up` with the wait for DHCP, the rounds of the loop
(`get_system_tick`, `lwip_periodic_handle` with one last-run time per interval),
and `SysTick_Handler` as a whole, `g_system_tick` and `soft_timer_tick` in one
step. The tick has `TickMod` values (2^32 in the code).

**UsbCdc** models `cdc_acm_data_send_with_dtr_test` and `usbd_ep_start_write`
with one action per access that the interrupt can see, `DIEPCTL |= EPENA` as a
load and a store, and each cause of `USBD_IRQHandler` that touches the two bulk
endpoints as one action: bus reset, SET_CONFIGURATION with `usbd_ep_open` and the
CONFIGURED event, configuration 0, SET_CONTROL_LINE_STATE, halting and releasing
the endpoint, SET_INTERFACE, TXFE (`dwc2_tx_fifo_empty_procecss`), and the two
transfer-complete interrupts with their callbacks. `unplug` is the cable.

**Flash** models both flash drivers. A cell is the set of its bits that are 1, so
an erase fills it and a program intersects. The GD25Q32 (busy bit, write enable
latch, commands ignored while busy, wrap within a page) and the FMC (protected
sectors, time-out) are external. `cpu_reset` restarts the program alone and
leaves the SPI chip busy; `power_loss` leaves each cell of the operation under
way old or new. `ReadMod` is the range of the counter of `fmc_read_32bit_data`
(256, a `uint8_t`), whose loop does not end for more words than it can count.

**SdCard** models the four transfer functions of `sdcard.c` in polling and DMA
mode: the reset at entry, the command sequence with `r1_error_check` (which flags
it clears and in which order it tests them), the start of the data path, the
waits for FTF and for `transend`/`transerror`, CMD12, the wait for programming,
and `sd_interrupts_process`, which preempts the caller as soon as one of its
flags is set and enabled. The entry is two steps because `transend` is reset
before the data path is switched off. The SDIO's request (`request`, DMAEN of
`SDIO_DATACTL`) and the DMA channel (`channel`, at the buffer of this call or still
at that of an earlier one, with its direction) are apart, because the entry switches
off the first alone: `sd_block_read` and the two multi-block functions enable the
request (`sdio_dma_enable`) and then configure the channel (`dma_config`),
`sd_block_write` the other way round, and the DMA may move words in between. The card
(its states, commands it does not accept, the ILLEGAL_COMMAND bit), the data state
machine, the DMA and their failures are external. `IntEnable` keeps the difference
between `sd_block_read` and the other three functions.

**RingBufferProofs**, **BuzzerProofs**, **TcpEchoProofs**, **EnetProofs**,
**UsbCdcProofs**, **SdCardProofs** and **FlashProofs** extend the modules they are
named after, and **TickProofs** both SoftTimerHistory and MainLoop, with the
inductive invariants, lemmas and theorems of section 5.

## 3. Runs

| Run | Bounds | States | What it shows |
|---|---|---|---|
| `soft_timer_timing` | 2 timers, timeouts 0, 2, 3, 4-valued counter, 7 ticks | 79,386 | `NoDrift`, `OnTime`, `DistinctReports`, `ExpiryIsReported` |
| `main_loop` | 1 timer and a bad handle, timeouts 1 and 3, 4-valued counter, tick mod 8, intervals 2 and 3, 3 waits for DHCP, 2 ticks per round, no bound on time | 23,913 | `LoopInv` (`UpWithAddress`, `NeverLate`), `NeverEarly`, `StartsUp`, `RepeatKeepsReporting` |
| `ring_buffer` | size 5, indices mod 8, 3 bytes per call, 11 bytes | 717,955 | `QueueInv` (`NewestBytes`), `KeepsUnread`, `AnnouncedIsReadable`, `ImplementsFifo` |
| `ring_buffer_overwrite` | size 3 | violation | finding 1 |
| `buzzer` | array of 2, 3 tones, 1 alarm, 30 ticks | 487,389 | `BuzzerInv` (`QuietIsQuiet`), `PlayedInTurn`, `StopsOnTime`, `EventuallyEmptied` |
| `tcp_echo_one_context` | 4 pbufs, window 3, send buffer 2, any number of connections | 1,915 | `EchoInv` (`NoLeak`), `MemorySafe`, `EchoesInOrder`, `GracefulClose`, `EventuallyEchoed`, `EventuallyClosed` |
| `tcp_echo_two_contexts` | 3 pbufs | violation | finding 2 |
| `enet` | 2 receive descriptors, 4 frames in, 2 transmit descriptors, 3 frames out, one context at a time | 131,003 | `RxInv` (`InStep`, `Accounted`), `NoneStranded`, `AlwaysRefilled`, `TxInv` (`WireInOrder`, `OkMeansSent`), `EventuallySent` |
| `usb_cdc` | packets of 2 bytes, 1 byte sent, no bound on time | 97,678 | `PortInv` (`WaitsForTransfer`, `HostCanSend`), `OneTransferAtATime`, `ReturnMeansTaken`, `InterruptReturns`, `MainLoopRuns` |
| `flash` | GD25Q32 of 2 sectors of 2 pages of 2 bytes, FMC of 5 words in 4 sectors, the last protected, up to 3 cells per write, reads of fewer than 3 words, 2 calls, 1 reset or loss of power | 460,488 | `ReadsBack` (`SpiReadsBack`, `FmcReadsBack`), `OthersKept` (`SpiOthersKept`, `FmcOthersKept`), `CallReturns` |
| `sd_card` | 3 blocks, 2 failures, any number of calls | 134,348 | `CardInv` (`OkMeansMoved`, `OldBuffer`), `OkMeansDone`, `NoCollision`, `CallsReturn` |
| `sd_read_crc` | 2 blocks, 1 failure | violation | finding 3 |

The module's type invariant is checked in every passing run, as a conjunct of the
invariant named `...Inv` or `ReadsBack`, with the parts given in brackets (as
`TypeOK` in `soft_timer_timing`). Every property is broken by a mutant of the model
(the definitions marked "mutant").

Why the bounds suffice. Timers: a timeout matters only through its distance to
the wrap of the counter, and 7 ticks go past it. Ring buffer: 11 bytes take the
indices twice round a buffer of 5, so every combination of wrap and inversion
occurs, and 3 bytes per call reach an overrun from any fill level. Buzzer: an
array of 2 has a first and a last slot, durations 0 and 1 both edges. Echo
server: the chain is longer than the send buffer, so it is cut in the middle,
and longer than the window, so it closes. Ethernet: twice as many frames come in
as there are receive descriptors, so the ring fills and wraps, and one more goes
out than there are transmit descriptors, so a sender waits and the ring wraps.
Main loop: the tick wraps any number of times, at every phase of both intervals,
and the interval plus two rounds stays below it, as in the code; a second timer
adds states and no behaviour here, and `soft_timer_timing` has two. USB: the
packet is one byte shorter than the endpoint's size, as in the code; everything
else is unbounded. Flash: sectors of unequal size, a write that ends at a sector
boundary, one over two sectors and one into a protected sector; pages smaller
than the longest write; the second call starts from whatever a reset in the first
left. SD card: 3 blocks have a first, a middle and a last one, and the
state does not grow with the number of calls; 2 failures allow one to hit the
recovery from another.

`CHECK_DEADLOCK FALSE` is given where the system may stop: `Enet` and `Flash` when
the bounded number of frames or calls has passed, `SdCard`, in which a busy wait
whose flag never comes is a state without a step (`CallsReturn` says which waits
end), and `Flash` after an FMC error, where the code has `while(1)`.

### Fairness

- `MainLoop!LoopSpec`: a SysTick that is masked stays pending and is taken as
  soon as the mask is cleared, hence strong fairness of the tick; what the program
  does with the software timers in a round is finite, hence strong fairness of the
  main program; critical sections and polls end; over the rounds the program
  polls every timer. `Round` bounds the ticks of a round (1.5 s of delays in the
  code).
- `TcpEcho!FairSpec`: the main loop goes on calling `lwip_periodic_handle`, the
  peer goes on acknowledging, and `tcp_write` does not fail for ever.
- `Buzzer!FairSpec`: time goes on and the main loop polls (`MaxGap` bounds the
  ticks between two polls).
- `Enet!Spec`: the interrupt, of priority 0, runs when it is pending, the main loop
  goes on when the handler does not run, and the DMA goes on sending.
- `UsbCdc!Spec`: the main program goes on, a pending FIFO interrupt is taken, and
  a host that has configured the device polls its IN endpoint. `MainLoopRuns`
  names the rest as its hypothesis: a host that stays, has not halted the
  endpoint or selected the interface again.
- `Flash!Spec`: the driver goes on and a chip that is busy comes to an end.
- `SdCard`: the function called goes on unless it is preempted, the interrupt is
  taken, and the card answers (or the SDIO reports a time-out), programs, and
  sends or takes its blocks. The wait for FTF may give up at any moment, because
  its count is not related to the speed of the card.

## 4. Findings

1. `ringbuffer.c:60`: the test for a full buffer also compares a bit of `mirror`
   with a bit of `write_index` that says nothing about the fill level. In half of
   the cases a byte too many does not discard the oldest byte (`ringbuffer.c:46`)
   but makes the whole content unreadable.
2. `tcpecho_raw.c:145`: lwIP runs in the ENET interrupt and in the main loop
   without protection; the interrupt can free the echo state a poll is using.
   With one context at a time everything holds.
3. `sdcard.c:546`: `sd_block_read` in DMA mode enables the interrupt for a CRC
   error of the *command* (CCRCERR) where the other functions enable the one for
   *data* (DTCRCERR), and does not wait for the end: a corrupt block is returned
   as `SD_OK`.

Further behaviour the models follow and the properties except, without a run of
its own:

- Timers: a single-shot timer is not stopped by its expiry and latches again on
  every tick; a stopped timer is still counted, with timeout 0; interrupts are
  enabled unconditionally at the end of each call, also in a caller's critical
  section.
- Buzzer: `buzzer_poll` does not compare its read position with the write
  position. It passes over tones accepted behind it and may play slots left from
  an earlier round; an alarm during a tone or a rest does not sound at once; end
  times are compared without regard to the wrap of the tick. The run stays before
  the wrap and starts at tick 1.
- Transmission: `low_level_output` ignores the result of `enet_frame_transmit`.
  With `TwoContexts = TRUE` in `Enet.cfg` the two contexts can overwrite each
  other's frame (`TxInv`), and an interrupt that preempts the main loop after
  DAV is set and before the DMA is resumed waits for ever for the descriptor
  (`EventuallySent`).
- Start-up: `lwip_comm_init` calls `dhcp_start` before `netif_set_up`; lwIP refuses
  an interface that is not up (`dhcp.c:749`) and the result is not looked at. The
  30 s of waiting are in vain and the static address is always taken, although
  `bsp_enet.h:7` offers DHCP. With `USE_DHCP` set to 0, `#ifdef USE_DHCP`
  (`bsp_enet.c:419`) is still true and the address would stay 0. SysTick comes every
  10 ms (`gd32f4xx_it.c:184`, commented 1000 Hz) and the intervals of
  `lwip_periodic_handle` are in milliseconds: its tasks run ten times more rarely
  than lwIP expects.
- USB: a bus reset between the check of MPSIZ and the store of `xfer_len`, or
  between the load and the store of DIEPCTL, leaves a transfer with a packet size
  of 0, and the loop of `dwc2_tx_fifo_empty_procecss` never ends (`raced`, `spins`).
  A stale DIEPCTL stored after a reset and a new configuration closes the endpoint
  (`clobbered`). SET_INTERFACE with alternate setting 0 closes the endpoints and
  opens none (`selected`). The CONFIGURED event clears the busy flag with a transfer
  still on (`touched`). While the cable is out, or the host does not read or halts
  the endpoint, the main loop waits.
- SPI flash: a write that crosses a page of 256 bytes wraps to its beginning, and
  one that crosses a sector programs cells it has not erased; `SpiReadsBack` is
  about writes within a page. After a reset of the microcontroller alone the write
  enable is sent to a busy chip, which ignores it, and with it the erase
  (`stale`).
- Internal flash: a write that ends at a sector boundary erases the next sector too
  (`FmcOthersKept` says: up to the sector of the first address after the data). An
  error stops the program in `while(1)` with the flash unlocked.
  `fmc_read_32bit_data` counts in 8 bits and does not end for more than 255 words
  (`FmcReadsBack` speaks of what it returns only below that).
- SD card: after a single-block DMA read CCRCERR stays enabled, and
  `sd_interrupts_process` neither clears nor disables it, so the next garbled
  answer interrupts without end (`Storm`). An interrupt of an earlier call
  between `transend = 0` and `sdio_dsm_disable` ends the wait of the new call
  early (`late`): the call may return before the data are through, its CMD12 may
  hit another command, and it may hang. When the wait for FTF has given up
  (`sdcard.c:550-554`, 1091-1095), the next entry switches off the SDIO's request and
  not the channel, which still points at the old buffer. `sd_block_read`,
  `sd_multiblocks_read` and `sd_multiblocks_write` enable the request before they
  configure the channel (547-548, 700-701, 1087-1088): in between, the data of the new
  call may pass through the old buffer, and the call still returns `SD_OK` (`astray`);
  if the last block passes there, `dma_config` clears the FTF it gave and the call ends
  with an error although everything was moved. `sd_block_write` configures the channel
  first (877-878) and is free of it. `OkMeansMoved` excepts a call after a failed one,
  and `OldBuffer` says that there is no other window. In polling mode the successful
  `r1_error_check` of a read command wipes out a data error raised before it, and
  the loop waits for ever. A failed multi-block call sends no CMD12 and leaves
  the card in its data state, so later calls fail until something stops it.
  `disk_read` and `disk_write` compute a byte address in 32 bits, which wraps on
  cards of more than 4 GiB.

## 5. Proofs

The runs of section 3 check small instances; the theorems hold for every value of
the constants that the named assumptions allow (TLC evaluates those in the runs).
Each proof module states an inductive invariant `IInv`, proves that `Init` gives it
and that every action keeps it (one lemma per action or group of actions,
combined in `InvStep`), and derives the properties. The invariants were checked by
TLC before they were proved.

| Module | Theorems (property) | For every | Hypothesis |
|---|---|---|---|
| TickProofs (soft timers) | `TypeCorrect` (`TypeOK`), `RepeatNeverDrifts` (`NoDrift`), `FirstExpiryOnTime` (`OnTime`), `ReportsAreDistinct` (`DistinctReports`), `EveryExpiryReported` (`ExpiryIsReported`) | set of timers and timeouts, width of the counter | |
| TickProofs (main loop) | `LoopSafe` (`LoopInv`), `TasksNeverEarly` (`NeverEarly`) | width of the tick, intervals, length of a round, waits for DHCP | |
| RingBufferProofs | `NewestReadable` (`QueueInv`), `NothingLost` (`KeepsUnread`), `AnnouncesTruly` (`AnnouncedIsReadable`), `IsFifo` (`ImplementsFifo`) | size below the range of the indices, chunk, number of bytes | |
| BuzzerProofs | `FlagIsTrue` (`BuzzerInv`) | size of the array, pitches, durations, width of the tick | |
| | `TonesInTurn` (`PlayedInTurn`), `SilentOnTime` (`StopsOnTime`) | same | `NoWrap` |
| TcpEchoProofs | `NoUseAfterFree` (`MemorySafe`), `BooksBalance` (`EchoInv`), `EchoIsStream` (`EchoesInOrder`), `ClosesByFin` (`GracefulClose`) | window, send buffer, number of pbufs | `~TwoContexts` |
| EnetProofs | `ReceptionSafe` (`RxInv`), `NoFrameStranded` (`NoneStranded`) | number of descriptors and frames, one or two contexts | |
| | `TransmissionSafe` (`TxInv`) | number of descriptors and frames | `~TwoContexts` |
| UsbCdcProofs | `PortSafe` (`PortInv`), `FlagIsLock` (`OneTransferAtATime`), `FifoLoopEnds` (`InterruptReturns`), `WaitEndsWhenTaken` (`ReturnMeansTaken`) | packet size, length of a message | |
| SdCardProofs | `OkGivesBuffer` (`CardInv`), `OkIsTruth` (`OkMeansDone`), `CommandsApart` (`NoCollision`) | number of blocks, number of failures | |
| FlashProofs | `WritesReadBack` (`ReadsBack`), `OthersAreKept` (`OthersKept`) | sizes of chips, pages and sectors, layout of the FMC's sectors and which are protected, data, number of calls, resets and losses of power | |

Where the properties except a case of the code (section 4: a raced USB reset, a
late SD interrupt, and so on), so do the theorems: they are about the same
definitions.

**Assumptions.** `TimersAssumption`, `CounterAssumption`: timers are handles, the
timeouts fit the counter. `MaxAgeAssumption`, and `MaxTicks`, `MaxFaults`, `MaxRx`,
`MaxWrites` and the like: the bounds of the histories are numbers; they are
arbitrary, so the theorems hold for any stretch of time. `LoopAssumption`: an
interval and two rounds together are shorter than the range of the tick.
`SizeAssumption`: the indices can hold the size. `UsbAssumption`: a message is
shorter than a packet, which is what the code sends (`CDC_MAX_MPS - 1`); with a
whole packet the branch of `usbd_cdc_acm_bulk_in` that appends an empty one runs
also for a transfer of an earlier configuration and clears the new one's length,
so `PortInv` would not hold. `SdAssumption`: a multi-block call has at least two
blocks. `FlashAssumption`: the pages divide the sectors and the sectors the GD25Q32,
the FMC's sectors begin within it and the first at its first word; that is the layout
of the GD25Q32 and of the `ADDR_FMC_SECTOR_n`. It asks nothing of `ReadMod`: the bound
is in `FmcReadsBack` itself, which says of a completed write of any length that the
words are in the flash, and of one of fewer than `ReadMod` words that
`fmc_read_32bit_data` returns them. `~TwoContexts` says that lwIP is
entered from one context at a time: without it the properties are false (finding 2, and the transmission entry in section 4).
`NoWrap` says that the tick starts above 0 and no end time reaches its range: an end
time of exactly 2^32 is stored as 0, which `buzzer_poll` takes for "no alarm", and
one that wraps ends a tone at once; both properties are false then.

**Arguments.** Why each invariant is not the property itself:

- *Soft timers.* `NoDrift` ties age, expiries and counter of repeat timers only; for
  the others `FirstPeriod` says that until the first expiry the counter is the age,
  which makes that expiry come on time. `DistinctReports` speaks of the flag and of
  the poll between load and store. `RestartStep` treats init, stop and reset
  together, `TickStep` the tick.
- *Main loop.* `NeverEarly` and `NeverLate` are about a history of true distances; the
  code has only differences modulo the tick. `ClockInv` says that a stored time is
  the present one less its distance, or that plus one turn of the tick (`Ago`), and
  bounds the distance below one turn; `TickArithmetic` shows that the unsigned
  subtraction is the distance. `StartInv` orders the start-up.
- *Ring buffer.* `Dist` and `Nth` replace the remainders by two cases, and the lemmas
  about them (`DistWrite`, `DistRead`, `NthSucc`, ...) say how the distance of the
  indices moves when one of them passes the end and `mirror` is inverted. `LoadedInv`
  keeps true what a reader call has loaded while the interrupt writes, `ResetInv` the
  two stores of a reset, `RoomInv` is the abstraction of section 6, and `UnreadInv`
  ties the code's count to the ideal one. For the refinement each step is shown to be
  one of four changes of the readable bytes, `SameView`, `PutView`, `GetView` and
  `OverView`, and `ContentsIs` turns them into the steps of `BoundedFifo`.
- *Buzzer.* `SoundHasReason` and `TimedInv` tie the hardware to the times in hand, and
  `UnwrittenInv` keeps slots beyond the write position free of tones, without which a
  poll could pass over one. `AnyTimeInv` is the part that needs no `NoWrap`.
- *Echo server.* `Chain(h, chopped)` says at once what the chain is (consecutive pbufs
  from `h` to the last received), which reference counts it has, that the closed part
  of the window is its length, and where `es->p` points; `Oldest` and `Chopped` say
  how it is shifted between `tcp_write`, the moving of `es->p` and `pbuf_free`.
  `DownInv` is the empty state. One lemma (`SendKeeps`) covers the loop of
  `tcpecho_raw_send`, and the callbacks reduce to it or to freeing all.
- *Ethernet.* `RxRing(k)` says that exactly the `k` descriptors from the current one on
  belong to the CPU and the DMA is `k` further; `TxRing(k)` that the `k` from the DMA's
  on hold the `k` frames after those on the wire. `RxOrder` and `RxPlace` follow a
  frame through buffer, hand and delivery; `RxNotified` extends `NoneStranded` to the
  positions between the last look at the ring and the return. Every step changes `k` by
  at most one (`PastAfter`). Reception does not depend on the contexts.
- *USB.* `Arming` is `WaitsForTransfer` carried through each access of
  `usbd_ep_start_write`, and `Lock` the busy flag's meaning at each of them;
  `ClearMeansTaken` and `DueIsFull` connect the flag to the host's taking the bytes;
  `Unraced` finds the one order of steps after which the FIFO loop does not end.
- *SD card.* `OkMeansDone` depends on the whole call: `CommandInv` says after each
  command where the card is or why the answer will not be `SD_OK`; `Moving` what the
  data phase may look like when DTEND or DTBLKEND is set; `Stopping` the same for CMD12,
  from the polling loop and from the interrupt; `EndInv` that `transend` is set only
  after all of it. `SignalInv` (DTEND stays enabled while a DMA transfer left over from
  an earlier call is on) together with the switching off of the data path at entry keeps
  its interrupt out of the commands of the next call, which is `NoCollision`;
  `StrayInv` bounds what a stale answer can be. `CardInv` rests on `ChannelInv`, which
  says for each position of a call whose buffer the channel may be at (an old one only
  after a call that failed) and where the request is off, `Armed` naming the position
  that only `sd_block_write` has, and on `FtfInv`: FTF, which `dma_config` clears, is
  set only with the last block moved and the channel through.
- *Flash.* `ReadsBack` speaks of the end of a call; the invariant follows it. For the
  GD25Q32, `SpiBusyInv` says that a chip that was idle when the call began has its latch
  set and is idle whenever a command is sent, so that none is ignored, and `SpiDataInv`
  that after the erase all of the sector is erased, which is why programming, which only
  clears bits, leaves exactly the bytes (`WriteStep`). Both hold only while the call is
  not `stale`: of a chip still busy from before a reset nothing is claimed but types. For
  the FMC, `EraseInv` carries the erased sectors from that of the first word up to the
  one in hand, and `WordInv` the words written below `idx` and still erased above it.
  `Reach` are the cells that `FmcOthersKept` allows; every job's cells lie in it, also
  the one that a reset cuts short. The lemmas under it: `Division` and `DivisionUnique`,
  from which `SameBlock`, `BlockEnds`, `BlocksNest` and `BlockConvex` say what blocks of a
  variable size do; hence a program command that wraps stays in its page and so in its
  sector (`CellFacts`, `LatchIs`), and hits the addresses meant if the data do not cross
  a page (`BytesFacts`). `SectorGet`, `SectorOrder` and `NextSector` are about
  `fmc_sector_get` and the loop over sectors; `SectorsInReach` shows that the loop erases
  only sectors of words of the data, or the one that begins just after them.

**Only model-checked.** The liveness properties (`StartsUp`, `RepeatKeepsReporting`,
`EventuallyEmptied`, `EventuallyEchoed`, `EventuallyClosed`, `AlwaysRefilled`,
`EventuallySent`, `MainLoopRuns`, `CallReturns`, `CallsReturn`): fairness and ENABLED
are out of the prover's reach. Every safety and every action property of the passing
runs, and the refinement, is proved. The three findings are counterexamples and belong
to TLC.

## 6. Abstractions and what is not modelled

- RingBuffer: an interrupt writer that overruns in the middle of a reader call
  (both then move `read_index` without protection).
- TcpEcho: failed allocation of the echo state, `recv` with an error code, the
  branch for an unknown state, and the fields for retries and priorities, which
  nothing reads. One connection at a time; connections share no state.
- EnetRx: after a frame found no descriptor the DMA looks again at the next one,
  so its suspension is not visible. Undersized frames are dropped by the MAC.
- EnetTx: length and DAV are one step; the DMA finds no descriptor and sets TBU
  in one step. The ERROR of `enet_frame_transmit` for a frame longer than
  `ENET_MAX_FRAME_SIZE` (`gd32f4xx_enet.c:970`) is left out: the interface has an MTU
  of 1500, for which lwIP makes no such frame.
- MainLoop: `delay_us` is time that passes; the tasks of lwIP that fall due do
  nothing here; the set-up of MAC, PHY and pins writes registers once.
- UsbCdc: the control endpoint's own transfers (a request is handled when its SETUP
  packet comes) and the data toggles. The interrupt has priority 0 and runs to its
  end. The branch of `usbd_cdc_acm_bulk_in` that ends whole packets by an empty one
  is in the model and is not taken with the length the program sends.
- Flash: the SPI bus itself; a call is one of the driver's functions, one at a time.
- SdCard: addresses and contents; card start-up, erase, lock, status, and MMC
  cards; invalid arguments. An answer whose CRC is right belongs to the command
  that was sent, and the data state machine stops at an error without DTEND. The
  SDIO is the flow controller of its channel, so FTF comes with the last word. Data
  are counted in whole blocks; a part of a block matters only where it goes through an
  old buffer, and there it is a step (`dma_astray`).
- Memory ordering: single core, no caches; a store is visible at once.
- Not modelled: LED and UART (register access without state), the pin set-up of
  every driver, and the vendored libraries beyond the functions the firmware runs:
  FatFs, FreeRTOS (not in the build), most of lwIP, CherryUSB's host stack, other
  classes and other ports, the GD32 peripheral library, CMSIS. They are almost all
  of the 350,000 lines of the repository; the firmware's own code is about one
  hundredth of them, so the share of the source that the map covers stays small
  although the firmware's own control is modelled.

## 7. Plan

Everything modelled is checked and, but for liveness, proved. Next to model: `sd_init`,
`sd_power_on` and `sd_erase`, and the byte addresses of `disk_read` and `disk_write`
(the hazards of section 4 and of PROJECT.json that have no property).
