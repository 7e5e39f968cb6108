-------------------------- MODULE SleepAccounting --------------------------
(***************************************************************************)
(* The energy of sleeping: the interval that WFI opens and that the next   *)
(* question whether the CPU has work closes.                               *)
(*                                                                         *)
(*   qemu-variability.c      start_sleep_cycle_count,                      *)
(*                           stop_sleep_cycle_count, update_sleep_energy   *)
(*   first-power-model.c     sleep_stop_event                              *)
(*   target-arm/op_helper.c  helper_wfi                                    *)
(*   target-arm/cpu.h        cpu_has_work, which closes the interval       *)
(*   cpus.c, cpu-exec.c      the two places that ask                       *)
(*                                                                         *)
(* One vCPU, a board with a power model, no separate I/O thread.  Time is  *)
(* vm_clock, which stands still while the machine is stopped; one unit of  *)
(* it asleep is one unit of energy, as in the power model.                 *)
(***************************************************************************)
EXTENDS Naturals

CONSTANT MaxTime  \* bound: how far vm_clock runs

ASSUME MaxTimeAssumption == MaxTime \in Nat

VARIABLES
  now,      \* qemu_get_clock_ns(vm_clock)
  at,       \* "code": executing the guest, "idle": all_cpu_threads_idle,
            \* "wait": main_loop_wait and requests, "enter": entering cpu_exec
  halted,   \* env->halted
  irq,      \* env->interrupt_request
  running,  \* vm_running
  started,  \* started_sleep_count
  start,    \* sleep_start_time
  energy,   \* sleep_energy
  slept     \* history: how long the CPU has been halted

timer == <<started, start, energy>>
vars == <<now, at, halted, irq, running, started, start, energy, slept>>

Init ==
  /\ now = 0
  /\ at = "enter"
  /\ halted = FALSE /\ irq = FALSE /\ running = TRUE
  /\ started = FALSE /\ start = 0 /\ energy = 0
  /\ slept = 0

\* Time passes for a running machine, wherever the emulator is
Tick ==
  /\ running
  /\ now < MaxTime
  /\ now' = now + 1
  /\ slept' = IF halted THEN slept + 1 ELSE slept
  /\ UNCHANGED <<at, halted, irq, running, timer>>

-----------------------------------------------------------------------------
\* Mutant: an interval that is open stays as it is
StartSleepOnce ==
  /\ started' = TRUE
  /\ start' = IF started THEN start ELSE now
  /\ UNCHANGED energy

\* start_sleep_cycle_count
StartSleep ==
  /\ started' = TRUE
  /\ start' = now
  /\ UNCHANGED energy

\* stop_sleep_cycle_count; the power model adds the interval to sleep_energy
StopSleep ==
  IF started
  THEN started' = FALSE /\ start' = 0 /\ energy' = energy + (now - start)
  ELSE UNCHANGED timer

\* helper_wfi
Wfi ==
  /\ at = "code"
  /\ StartSleep
  /\ halted' = TRUE
  /\ at' = "idle"
  /\ UNCHANGED <<now, irq, running, slept>>

\* cpu_exec returns because of exit_request
LeaveExec ==
  /\ at = "code"
  /\ at' = "idle"
  /\ UNCHANGED <<now, halted, irq, running, timer, slept>>

\* The guest's register accesses raise and lower interrupts
DeviceIrq ==
  /\ at = "code"
  /\ irq' \in BOOLEAN
  /\ UNCHANGED <<now, at, halted, running, timer, slept>>

\* One makes a disk fail at once, with werror=stop: vm_stop, while cpu_exec goes on
DeviceStops ==
  /\ at = "code"
  /\ running' = FALSE
  /\ UNCHANGED <<now, at, halted, irq, timer, slept>>

\* all_cpu_threads_idle: a stopped or an unhalted CPU is not asked
IdlePoll ==
  /\ at = "idle"
  /\ IF running /\ halted THEN StopSleep ELSE UNCHANGED timer
  /\ at' = "wait"
  /\ UNCHANGED <<now, halted, irq, running, slept>>

\* main_loop_wait: devices raise interrupts, the monitor stops or continues the
\* machine; vm_running may change while the monitor runs
MainLoopWait ==
  /\ at = "wait"
  /\ irq' \in BOOLEAN
  /\ running' \in BOOLEAN
  /\ at' = "enter"
  /\ UNCHANGED <<now, halted, timer, slept>>

\* A reset request is served after it: cpu_reset knows nothing of the interval
MainLoopReset ==
  /\ at = "wait"
  /\ halted' = FALSE
  /\ irq' = FALSE
  /\ running' \in BOOLEAN
  /\ at' = "enter"
  /\ UNCHANGED <<now, timer, slept>>

\* cpu_can_run fails, or cpu_exec finds the CPU halted without work
EnterNot ==
  /\ at = "enter"
  /\ running => halted /\ ~irq
  /\ IF running THEN StopSleep ELSE UNCHANGED timer
  /\ at' = "idle"
  /\ UNCHANGED <<now, halted, irq, running, slept>>

\* cpu_exec, waking a halted CPU that has work
EnterExec ==
  /\ at = "enter"
  /\ running
  /\ halted => irq
  /\ IF halted THEN StopSleep ELSE UNCHANGED timer
  /\ halted' = FALSE
  /\ at' = "code"
  /\ UNCHANGED <<now, irq, running, slept>>

Next ==
  \/ Tick
  \/ Wfi
  \/ LeaveExec
  \/ DeviceIrq
  \/ DeviceStops
  \/ IdlePoll
  \/ MainLoopWait
  \/ MainLoopReset
  \/ EnterNot
  \/ EnterExec

Spec == Init /\ [][Next]_vars

-----------------------------------------------------------------------------
\* Times are natural numbers, an open interval began in the past, and
\* sleep_start_time is cleared with started_sleep_count.
TypeOK ==
  /\ now \in Nat /\ slept \in Nat /\ energy \in Nat /\ start \in Nat
  /\ start <= now
  /\ at \in {"code", "idle", "wait", "enter"}
  /\ halted \in BOOLEAN /\ irq \in BOOLEAN /\ running \in BOOLEAN
  /\ started \in BOOLEAN
  /\ ~started => start = 0

\* No time awake is charged as sleep, whatever stops, resets and wake-ups come
\* between WFI and the question that closes its interval: an interval that a
\* reset left open is overwritten before it is closed.
SleepNotOvercounted == energy <= slept

\* Why: an open interval of a halted CPU lies within its sleep.
OpenIntervalIsSleep == started /\ halted => energy + (now - start) <= slept
=============================================================================
