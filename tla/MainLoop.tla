------------------------------ MODULE MainLoop ------------------------------
(***************************************************************************)
(* The main program with the network switched on: lwip_comm_init (start-up *)
(* of the interface with its wait for DHCP), then the loop of main.c that  *)
(* runs the timers of lwIP, lwip_periodic_handle; and SysTick_Handler,     *)
(* which counts g_system_tick and drives the software timers.  The         *)
(* program polls the software timers between two rounds of the loop.       *)
(*                                                                         *)
(* No DHCP answer can come: dhcp_start refuses an interface that is not up *)
(* (lwip-2.1.3/src/core/ipv4/dhcp.c:749), lwip_comm_init calls it before   *)
(* netif_set_up and does not look at the result, so there is no client.    *)
(***************************************************************************)
EXTENDS SoftTimer

CONSTANTS
  TickMod,    \* 2^32: g_system_tick and the timers of lwIP are uint32_t
  Intervals,  \* TCP_TMR_INTERVAL and the like; a periodic task is named by its interval
  MaxTries,   \* the 3000 rounds of the wait for DHCP
  Round,      \* bound on the ticks of one round of the loop: delay_ms(1000), delay_ms(500)
  Never       \* a periodic task that has not run

ASSUME LoopAssumption ==
  /\ TickMod \in Nat \ {0} /\ MaxTries \in Nat \ {0} /\ Round \in Nat
  /\ \A i \in Intervals : i \in Nat \ {0} /\ i + 2 * Round < TickMod
  /\ Never \notin Nat

VARIABLES
  tick,       \* g_system_tick
  pc,         \* position of the main program
  tries,      \* jj, the rounds of the wait
  address,    \* lwip_netif.ip_addr
  up,         \* NETIF_FLAG_UP of lwip_netif
  dhcp,       \* lwIP has a DHCP client for the interface
  localtime,  \* the argument of lwip_periodic_handle
  timer,      \* tcp_timer, arp_timer, dhcp_fine_timer, dhcp_coarse_timer
  lag,        \* ticks since the clock was last looked at
  since       \* history: ticks since the look at the clock for which a task last ran

netif == <<address, up, dhcp>>
loop_vars == <<tick, pc, tries, netif, localtime, timer, lag, since>>
all_vars == <<vars, loop_vars>>

(* After board_init: the static variables are 0. *)
LoopInit ==
  /\ Init
  /\ tick = 0 /\ pc = "netif_add" /\ tries = 0
  /\ address = "zero" /\ up = FALSE /\ dhcp = FALSE
  /\ localtime = 0 /\ timer = [i \in Intervals |-> 0]
  /\ lag = 0 /\ since = [i \in Intervals |-> Never]

At(from, to) == pc = from /\ pc' = to

-----------------------------------------------------------------------------
(* lwip_comm_init *)

(* netif_add gives the interface the address 0, netif_set_default. *)
netif_add ==
  /\ At("netif_add", "dhcp_start")
  /\ address' = "zero" /\ up' = FALSE
  /\ UNCHANGED <<vars, tick, tries, dhcp, localtime, timer, lag, since>>

dhcp_start ==
  /\ At("dhcp_start", "wait")
  /\ dhcp' = up
  /\ lag' = 0
  /\ UNCHANGED <<vars, tick, tries, address, up, localtime, timer, since>>

(* mutant: the wait without a bound, as in the branch that is compiled out *)
WaitForEver ==
  /\ pc = "wait" /\ lag > 0
  /\ pc' = IF address # "zero" THEN "address" ELSE "wait"
  /\ lag' = 0
  /\ UNCHANGED <<vars, tick, tries, netif, localtime, timer, since>>

(* delay_ms(10), a tick, and a look at the address, at most 3000 times. *)
dhcp_wait ==
  /\ pc = "wait" /\ lag > 0
  /\ tries' = tries + 1
  /\ pc' = IF address # "zero" \/ tries' = MaxTries THEN "address" ELSE "wait"
  /\ lag' = 0
  /\ UNCHANGED <<vars, tick, netif, localtime, timer, since>>

(* The address of DHCP is kept, in its absence the static one is taken. *)
Fallback == address' = IF address = "zero" THEN "static" ELSE address

assign_address ==
  /\ At("address", "set_up")
  /\ Fallback
  /\ UNCHANGED <<vars, tick, tries, up, dhcp, localtime, timer, lag, since>>

netif_set_up ==
  /\ At("set_up", "rest")
  /\ up' = TRUE
  /\ UNCHANGED <<vars, tick, tries, address, dhcp, localtime, timer, lag, since>>

lwip_comm_init == netif_add \/ dhcp_start \/ dhcp_wait \/ assign_address \/ netif_set_up

-----------------------------------------------------------------------------
(* The loop.  A round begins outside the calls and critical sections of the  *)
(* program's use of the software timers.                                     *)
get_system_tick ==
  /\ call = NoCall /\ primask = 0
  /\ At("rest", "handle")
  /\ localtime' = tick
  /\ lag' = 0
  /\ UNCHANGED <<vars, tick, tries, netif, timer, since>>

(* mutant: the end of the interval is computed, and may have wrapped *)
DueByDeadline(i) == localtime >= (timer[i] + i) % TickMod

(* mutant: > for >= , and a task is a round late *)
DueOneLate(i) == (localtime - timer[i]) % TickMod > i

Due(i) == (localtime - timer[i]) % TickMod >= i

(* tcp_tmr, etharp_tmr, dhcp_fine_tmr and dhcp_coarse_tmr run (external). *)
lwip_periodic_handle ==
  /\ At("handle", "rest")
  /\ timer' = [i \in Intervals |-> IF Due(i) THEN localtime ELSE timer[i]]
  /\ since' = [i \in Intervals |-> IF Due(i) THEN lag ELSE since[i]]
  /\ UNCHANGED <<vars, tick, tries, netif, localtime, lag>>

Main == lwip_comm_init \/ get_system_tick \/ lwip_periodic_handle

(* The program's use of the software timers. *)
Application ==
  /\ pc = "rest"
  /\ MainCall \/ is_timeout_clear \/ caller_disable_irq \/ caller_enable_irq
  /\ UNCHANGED loop_vars

-----------------------------------------------------------------------------

NextTick == (tick + 1) % TickMod

(* The main program is never slower than Round. *)
SysTick_Handler ==
  /\ lag < Round
  /\ tick' = NextTick
  /\ soft_timer_tick
  /\ lag' = lag + 1
  /\ since' = [i \in Intervals |-> IF since[i] = Never THEN Never ELSE since[i] + 1]
  /\ UNCHANGED <<pc, tries, netif, localtime, timer>>

LoopNext == Main \/ Application \/ SysTick_Handler

(* The main program runs, and what it does in a round of its loop is finite, *)
(* hence strong fairness; a masked SysTick stays pending; a critical section *)
(* and a poll end; over the rounds the program polls every timer.            *)
LoopSpec ==
  /\ LoopInit /\ [][LoopNext]_all_vars
  /\ SF_all_vars(Main)
  /\ SF_all_vars(SysTick_Handler)
  /\ WF_all_vars(Application /\ (is_timeout_clear \/ caller_enable_irq))
  /\ \A t \in Timers : SF_all_vars(Application /\ is_timeout_load(t))

-----------------------------------------------------------------------------
(* The software timers and the variables of the loop have their types. *)
LoopTypeOK ==
  /\ TypeOK
  /\ tick \in 0 .. TickMod - 1 /\ localtime \in 0 .. TickMod - 1
  /\ timer \in [Intervals -> 0 .. TickMod - 1]
  /\ pc \in {"netif_add", "dhcp_start", "wait", "address", "set_up", "rest", "handle"}
  /\ tries \in 0 .. MaxTries /\ lag \in 0 .. Round
  /\ address \in {"zero", "static"} /\ up \in BOOLEAN /\ dhcp \in BOOLEAN
  /\ since \in [Intervals -> Nat \cup {Never}]

(* The interface is never up without an address, whether or not the wait for *)
(* DHCP came to anything.                                                    *)
UpWithAddress == up => address # "zero"

(* The timers of lwIP keep their intervals over the wrap of the tick: the    *)
(* clock is never looked at for the same task twice within its interval ...  *)
NeverEarly ==
  [][\A i \in Intervals :
       lwip_periodic_handle /\ timer'[i] # timer[i] /\ since[i] # Never
         => since[i] - lag >= i]_all_vars

(* ... and a task that has run runs again when its interval has passed, at   *)
(* most one round of the loop later.                                         *)
NeverLate == \A i \in Intervals : since[i] # Never => since[i] < i + 2 * Round

(* The loop is sound: its variables have their types, the interface has an   *)
(* address when it is up, and no periodic task is late.                      *)
LoopInv == LoopTypeOK /\ UpWithAddress /\ NeverLate

(* Start-up comes to its end and the loop goes on for ever, whatever the     *)
(* value of the tick: the wait for DHCP is bounded.                          *)
StartsUp == <>(up /\ []<>(pc = "handle"))
=============================================================================
