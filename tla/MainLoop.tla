------------------------------ MODULE MainLoop ------------------------------
(***************************************************************************)
(* The thread that runs everything when the emulator is built without a    *)
(* separate I/O thread (the default): it alternates between executing the  *)
(* guest (cpu_exec_all, cpu_exec) and serving events (main_loop_wait), and *)
(* the host's alarm signal interrupts it anywhere to make it change over.  *)
(*                                                                         *)
(*   cpus.c        cpu_exec_all, qemu_notify_event, cpu_thread_is_idle     *)
(*   cpu-exec.c    cpu_exec: the tests of exit_request around a TB         *)
(*   exec.c        cpu_exit, cpu_unlink_tb, tcg_handle_interrupt           *)
(*   vl.c          main_loop, main_loop_wait, the qemu_system_ requests    *)
(*   qemu-timer.c  host_alarm_handler, qemu_run_all_timers                 *)
(*                                                                         *)
(* One vCPU, instruction counting off, the "dynticks" alarm timer: one     *)
(* shot, set again only by qemu_run_all_timers and qemu_mod_timer; some    *)
(* timer is always active (the display's refresh timer is).  The           *)
(* signal handler runs on the same thread, so it is atomic; the main       *)
(* thread's steps are cut wherever the handler and they touch one datum.   *)
(* The guest's code is abstracted to whether the TB about to run is in a   *)
(* closed chain of direct jumps, which it leaves only if it is unlinked.   *)
(***************************************************************************)
EXTENDS Naturals

CONSTANTS
  Requests,  \* the qemu_system_..._request kinds that are made
  MaxKicks   \* bound: alarm signals and monitor requests in a run

RequestKinds == {"reset", "powerdown", "vmstop"}

ASSUME RequestsAssumption == Requests \subseteq RequestKinds
ASSUME MaxKicksAssumption == MaxKicks \in Nat

VARIABLES
  at,           \* where the main thread is
  armed,        \* the host timer is set
  kicks,        \* alarm signals and monitor requests so far
  expired,      \* alarm_timer->expired
  pending,      \* alarm_timer->pending
  event,        \* the notify pipe (io_thread_fd) is readable
  exitRequest,  \* exit_request
  envExit,      \* env->exit_request
  single,       \* cpu_single_env is set
  nextCpu,      \* next_cpu is not NULL
  currentTb,    \* env->current_tb is not NULL
  saved,        \* saved_tb of tb_invalidate_phys_page_range
  chained,      \* the TB at pc is in a closed chain of direct jumps
  linked,       \* the lists that start at current_tb lead to that chain
  missed,       \* history: an unlinking did not reach the chain that runs
  irq,          \* env->interrupt_request
  halted,       \* env->halted
  running,      \* vm_running
  requests,     \* the pending ..._requested flags
  nonblocking   \* main_loop's nonblocking

alarm == <<armed, kicks, expired, pending>>
kick == <<event, exitRequest, envExit>>
where == <<single, nextCpu>>
code == <<currentTb, saved, chained, linked, missed>>
machine == <<irq, halted, running, requests>>
vars == <<at, armed, kicks, expired, pending, event, exitRequest, envExit,
          single, nextCpu, currentTb, saved, chained, linked, missed, irq,
          halted, running, requests, nonblocking>>

InCode == {"code", "smc"}
Places == {"top", "for", "alarm", "enter", "single", "transfer", "irq", "exit",
           "find", "current", "start", "leave", "return", "clear", "idle",
           "select", "iopoll", "timers", "rearm", "requests"} \cup InCode

Init ==
  /\ at = "top"
  /\ armed = TRUE /\ kicks = 0 /\ expired = FALSE /\ pending = FALSE
  /\ event = FALSE /\ exitRequest = FALSE /\ envExit = FALSE
  /\ single = FALSE /\ nextCpu = FALSE
  /\ currentTb = FALSE /\ saved = FALSE /\ chained = FALSE
  /\ linked = TRUE /\ missed = FALSE
  /\ irq = FALSE /\ halted = FALSE /\ running = TRUE
  /\ requests = {}
  /\ nonblocking = FALSE

-----------------------------------------------------------------------------
\* Mutant: the jumps of the chain are left in place
UnlinkTbKeepsJumps ==
  /\ currentTb' = FALSE
  /\ missed' = (missed \/ (chained /\ (saved \/ ~linked)))
  /\ UNCHANGED <<saved, chained, linked>>

\* cpu_unlink_tb: the lists are followed from current_tb, if it is not hidden
UnlinkTb ==
  /\ chained' = (chained /\ ~(currentTb /\ linked))
  /\ currentTb' = FALSE
  /\ missed' = (missed \/ (chained /\ (saved \/ ~linked)))
  /\ UNCHANGED <<saved, linked>>

\* Mutant: the pipe is not written
NotifyEventNoPipe ==
  /\ exitRequest' = TRUE
  /\ UNCHANGED event
  /\ IF single \/ nextCpu THEN envExit' = TRUE /\ UnlinkTb ELSE UNCHANGED <<envExit, code>>

\* qemu_notify_event: cpu_exit for the CPU that runs or is about to run
NotifyEvent ==
  /\ event' = TRUE
  /\ exitRequest' = TRUE
  /\ IF single \/ nextCpu THEN envExit' = TRUE /\ UnlinkTb ELSE UNCHANGED <<envExit, code>>

\* host_alarm_handler: the signal arrives at any point of the main thread
HostAlarmHandler ==
  /\ armed
  /\ kicks < MaxKicks
  /\ kicks' = kicks + 1
  /\ armed' = FALSE /\ expired' = TRUE /\ pending' = TRUE
  /\ NotifyEvent
  /\ UNCHANGED <<at, where, machine, nonblocking>>

-----------------------------------------------------------------------------
\* cpu_exec_all
ExecAll ==
  /\ at = "top"
  /\ nextCpu' = TRUE
  /\ at' = "for"
  /\ UNCHANGED <<alarm, kick, single, code, machine, nonblocking>>

\* The condition of its loop
For ==
  /\ at = "for"
  /\ at' = IF exitRequest THEN "clear" ELSE "alarm"
  /\ UNCHANGED <<alarm, kick, where, code, machine, nonblocking>>

\* qemu_alarm_pending, then cpu_can_run
CanRun ==
  /\ at = "alarm"
  /\ at' = IF pending THEN "clear" ELSE IF running THEN "enter" ELSE "return"
  /\ UNCHANGED <<alarm, kick, where, code, machine, nonblocking>>

\* cpu_exec: a halted CPU without work returns EXCP_HALTED
EnterExec ==
  /\ at = "enter"
  /\ at' = IF halted /\ ~irq THEN "return" ELSE "single"
  /\ halted' = (halted /\ ~irq)
  /\ UNCHANGED <<alarm, kick, where, code, irq, running, requests, nonblocking>>

SetSingle ==
  /\ at = "single"
  /\ single' = TRUE
  /\ at' = "transfer"
  /\ UNCHANGED <<alarm, kick, nextCpu, code, machine, nonblocking>>

\* "if (unlikely(exit_request)) env->exit_request = 1"
TransferExit ==
  /\ at = "transfer"
  /\ envExit' = (envExit \/ exitRequest)
  /\ at' = "irq"
  /\ UNCHANGED <<alarm, event, exitRequest, where, code, machine, nonblocking>>

\* An exception or an interrupt is delivered to the guest, or is masked
TakeInterrupt ==
  /\ at = "irq"
  /\ at' = "exit"
  /\ UNCHANGED <<alarm, kick, where, code, machine, nonblocking>>

TestExit ==
  /\ at = "exit"
  /\ envExit' = FALSE
  /\ at' = IF envExit THEN "leave" ELSE "find"
  /\ UNCHANGED <<alarm, event, exitRequest, where, code, machine, nonblocking>>

\* tb_find_fast and tb_add_jump: the TB found may be, or may now become, part
\* of a closed chain; looking for it may fault and restart the loop
FindTb ==
  /\ at = "find"
  /\ chained' \in BOOLEAN
  /\ at' \in {"current", "irq"}
  /\ UNCHANGED <<alarm, kick, where, currentTb, saved, linked, missed, machine, nonblocking>>

SetCurrent ==
  /\ at = "current"
  /\ currentTb' = TRUE
  /\ at' = "start"
  /\ UNCHANGED <<alarm, kick, where, saved, chained, linked, missed, machine, nonblocking>>

\* Mutant: exit_request is not tested again once current_tb is set
StartTbUnchecked ==
  /\ at = "start"
  /\ at' = "code"
  /\ UNCHANGED <<alarm, kick, where, code, machine, nonblocking>>

\* "Avoid starting execution if there is a pending interrupt"
StartTb ==
  /\ at = "start"
  /\ at' = IF envExit THEN "irq" ELSE "code"
  /\ currentTb' = (currentTb /\ ~envExit)
  /\ UNCHANGED <<alarm, kick, where, saved, chained, linked, missed, machine, nonblocking>>

-----------------------------------------------------------------------------

\* Generated code returns to the loop, or longjmps there with an exception
CodeExit ==
  /\ at = "code"
  /\ currentTb' = FALSE /\ linked' = TRUE /\ missed' = FALSE
  /\ at' = "irq"
  /\ UNCHANGED <<alarm, kick, where, saved, chained, machine, nonblocking>>

\* helper_wfi: EXCP_HLT ends cpu_exec
Wfi ==
  /\ at = "code"
  /\ halted' = TRUE
  /\ currentTb' = FALSE /\ linked' = TRUE /\ missed' = FALSE
  /\ at' = "leave"
  /\ UNCHANGED <<alarm, kick, where, saved, chained, irq, running, requests, nonblocking>>

\* A device register access of the guest: the device raises or lowers its
\* interrupt line, makes a request, or sets a timer
DeviceRaisesIrq ==
  /\ at = "code"
  /\ irq' = TRUE
  /\ UnlinkTb
  /\ UNCHANGED <<at, alarm, kick, where, halted, running, requests, nonblocking>>

DeviceLowersIrq ==
  /\ at = "code"
  /\ irq' = FALSE
  /\ UNCHANGED <<at, alarm, kick, where, code, halted, running, requests, nonblocking>>

DeviceRequests(r) ==
  /\ at = "code"
  /\ requests' = requests \cup {r}
  /\ NotifyEvent
  /\ UNCHANGED <<at, alarm, where, irq, halted, running, nonblocking>>

\* qemu_mod_timer, leaving the alarm alone while one is pending
DeviceModTimer ==
  /\ at = "code"
  /\ armed' = (armed \/ ~pending)
  /\ UNCHANGED <<at, kicks, expired, pending, kick, where, code, machine, nonblocking>>

\* tb_invalidate_phys_page_range hides current_tb while it takes TBs apart.  The
\* chain may be broken by that, or else only cut off from current_tb: a TB that
\* is invalidated leaves the lists, a running one does not stop ...
InvalidateBegin ==
  /\ at = "code"
  /\ saved' = currentTb
  /\ currentTb' = FALSE
  /\ chained' \in {chained, FALSE}
  /\ linked' \in {linked, FALSE}
  /\ at' = "smc"
  /\ UNCHANGED <<alarm, kick, where, missed, machine, nonblocking>>

\* ... and makes up for an interrupt, and only that, raised meanwhile
InvalidateEnd ==
  /\ at = "smc"
  /\ currentTb' = (saved /\ ~irq)
  /\ chained' = (chained /\ ~(saved /\ irq /\ linked))
  /\ missed' = (missed \/ (chained /\ saved /\ irq /\ ~linked))
  /\ saved' = FALSE
  /\ at' = "code"
  /\ UNCHANGED <<alarm, kick, where, linked, machine, nonblocking>>

-----------------------------------------------------------------------------
LeaveExec ==
  /\ at = "leave"
  /\ single' = FALSE
  /\ at' = "return"
  /\ UNCHANGED <<alarm, kick, nextCpu, code, machine, nonblocking>>

\* The loop of cpu_exec_all steps past its only CPU
NextCpu ==
  /\ at = "return"
  /\ nextCpu' = FALSE
  /\ at' = "clear"
  /\ UNCHANGED <<alarm, kick, single, code, machine, nonblocking>>

ClearExit ==
  /\ at = "clear"
  /\ exitRequest' = FALSE
  /\ at' = "idle"
  /\ UNCHANGED <<alarm, event, envExit, where, code, machine, nonblocking>>

CpuIsIdle == ~running \/ (halted /\ ~irq)

\* all_cpu_threads_idle and vm_request_pending
DecideBlocking ==
  /\ at = "idle"
  /\ nonblocking' = (~CpuIsIdle \/ requests # {})
  /\ at' = "select"
  /\ UNCHANGED <<alarm, kick, where, code, machine>>

\* select returns at once, because of the pipe, or after its timeout
Select ==
  /\ at = "select"
  /\ at' = "iopoll"
  /\ UNCHANGED <<alarm, kick, where, code, machine, nonblocking>>

\* qemu_iohandler_poll: the pipe is drained, devices and the monitor act.  A
\* request's own write to the pipe may come before or after that.
IoPoll ==
  /\ at = "iopoll"
  /\ at' = "timers"
  /\ \/ /\ irq' \in BOOLEAN /\ running' \in BOOLEAN
        /\ event' = FALSE
        /\ UNCHANGED <<kicks, exitRequest, envExit, requests>>
     \/ \E r \in Requests :
          /\ kicks < MaxKicks
          /\ kicks' = kicks + 1
          /\ requests' = requests \cup {r}
          /\ event' \in BOOLEAN
          /\ exitRequest' = TRUE
          /\ envExit' = (envExit \/ nextCpu)
          /\ UNCHANGED <<irq, running>>
  /\ UNCHANGED <<armed, expired, pending, where, code, halted, nonblocking>>

\* qemu_run_all_timers, up to and from its test of alarm_timer->expired; the
\* timers that run may set others and raise interrupts
RunTimers ==
  /\ at = "timers"
  /\ pending' = FALSE
  /\ at' = "rearm"
  /\ UNCHANGED <<armed, kicks, expired, kick, where, code, machine, nonblocking>>

\* Mutant: the alarm is set again only if none came since pending was cleared
RearmUnlessPending ==
  /\ at = "rearm"
  /\ expired' = FALSE
  /\ armed' = (armed \/ (expired /\ ~pending))
  /\ irq' \in BOOLEAN
  /\ at' = "requests"
  /\ UNCHANGED <<kicks, pending, kick, where, code, halted, running, requests, nonblocking>>

Rearm ==
  /\ at = "rearm"
  /\ expired' = FALSE
  /\ armed' \in {armed \/ expired, armed \/ expired \/ ~pending}
  /\ irq' \in BOOLEAN
  /\ at' = "requests"
  /\ UNCHANGED <<kicks, pending, kick, where, code, halted, running, requests, nonblocking>>

\* Mutant: a stopped machine keeps its reset request for later
ServeRequestsRunningOnly ==
  /\ at = "requests"
  /\ requests' = IF running THEN {} ELSE requests
  /\ at' = "top"
  /\ UNCHANGED <<alarm, kick, where, code, irq, halted, running, nonblocking>>

\* main_loop: qemu_system_reset clears the CPU up to its breakpoints, the
\* power-down line may interrupt, vm_stop clears vm_running
ServeRequests ==
  /\ at = "requests"
  /\ requests' = {}
  /\ halted' = (halted /\ "reset" \notin requests)
  /\ envExit' = (envExit /\ "reset" \notin requests)
  /\ \/ irq' = (irq /\ "reset" \notin requests)
     \/ "powerdown" \in requests /\ irq' = TRUE
  /\ running' = (running /\ "vmstop" \notin requests)
  /\ at' = "top"
  /\ UNCHANGED <<alarm, event, exitRequest, where, code, nonblocking>>

\* The steps the main thread takes whatever the guest does
MainStep ==
  \/ ExecAll \/ For \/ CanRun \/ EnterExec \/ SetSingle \/ TransferExit
  \/ TakeInterrupt \/ TestExit \/ FindTb \/ SetCurrent \/ StartTb
  \/ InvalidateEnd \/ LeaveExec \/ NextCpu \/ ClearExit \/ DecideBlocking
  \/ Select \/ IoPoll \/ RunTimers \/ Rearm \/ ServeRequests

\* What the guest's code may do
GuestStep ==
  \/ CodeExit
  \/ Wfi
  \/ DeviceRaisesIrq
  \/ DeviceLowersIrq
  \/ \E r \in Requests : DeviceRequests(r)
  \/ DeviceModTimer
  \/ InvalidateBegin

Next == MainStep \/ GuestStep \/ HostAlarmHandler

\* A TB that is not in a closed chain reaches an exit that returns to the loop
CodeReturns == ~chained /\ CodeExit

\* The host schedules the thread; a TB is finite.  No fairness for the guest's
\* choices nor for the alarm.
Fairness == WF_vars(MainStep) /\ SF_vars(CodeReturns)

Spec == Init /\ [][Next]_vars /\ Fairness

-----------------------------------------------------------------------------

\* The flags are flags, and the CPU's own state is in use only inside cpu_exec.
TypeOK ==
  /\ at \in Places
  /\ kicks \in 0 .. MaxKicks
  /\ \A f \in {armed, expired, pending, event, exitRequest, envExit, single,
               nextCpu, currentTb, saved, chained, linked, missed, irq,
               halted, running, nonblocking} : f \in BOOLEAN
  /\ requests \subseteq Requests
  /\ currentTb \/ saved => at \in InCode \cup {"start"}

\* Wherever the alarm or a request strikes between the loop's tests of
\* exit_request and generated code, or in it, the CPU is not left running in a
\* closed chain with env->exit_request set; the exceptions are the window in
\* which tb_invalidate_phys_page_range hides current_tb and a chain it cut off.
KickBreaksChain == at = "code" /\ envExit /\ ~missed => ~chained

\* main_loop_wait never blocks over work: not with an alarm or a request
\* pending, nor with a CPU that can run, although cpu_exec_all clears
\* exit_request after it last tested it.
NoSleepOverWork ==
  at = "select" /\ (pending \/ requests # {} \/ ~CpuIsIdle) => nonblocking \/ event

\* The one-shot host timer is never lost between host_alarm_handler,
\* qemu_run_all_timers and qemu_mod_timer: it is set, or due to be set again.
AlarmAlive == armed \/ expired

\* An alarm that has struck is served by qemu_run_all_timers, also when the
\* guest spins in a closed chain for ever, unless unlinking
\* could not reach that chain because of tb_invalidate_phys_page_range.
AlarmServed == pending ~> ~pending \/ missed

\* A request made by a device or the monitor is carried out by main_loop, with
\* the same proviso.
RequestServed == \A r \in Requests : r \in requests ~> r \notin requests \/ missed

=============================================================================
