------------------------------- MODULE IoThread -------------------------------
(***************************************************************************)
(* The emulator built with an I/O thread (CONFIG_IOTHREAD): one thread     *)
(* runs every virtual CPU under TCG, the other runs the main loop, and     *)
(* qemu_global_mutex is held by the TCG thread all the time it executes    *)
(* guest code.  The I/O thread gets it by announcing that it wants it and  *)
(* kicking the TCG thread with SIG_IPI; it stops, resumes and queues work  *)
(* on the CPUs through flags of the CPUs and condition variables.          *)
(*                                                                         *)
(*   cpus.c      the two threads, the kick, pause/resume, run_on_cpu       *)
(*   cpu-exec.c  the entry and the exit of cpu_exec                        *)
(*   exec.c      tcg_handle_interrupt, cpu_exit                            *)
(*   vl.c        main_loop, main_loop_wait, vm_start, the requests         *)
(*                                                                         *)
(* A thread is where its program counter says.  A counter "wait_x" is a    *)
(* thread inside qemu_cond_wait on x; a broadcast, or a wakeup without     *)
(* one, moves it to "wake_x", where it needs the mutex again before it     *)
(* repeats the test of its loop.                                           *)
(***************************************************************************)
EXTENDS Naturals, FiniteSets

CONSTANTS N,            \* CPUs, in the order of their list
          MaxEvents     \* requests, interrupts, commands and spurious wakeups

ASSUME NAssumption == N \in Nat \ {0} /\ MaxEvents \in Nat

VARIABLES owner,        \* who holds qemu_global_mutex
          io, tcg,      \* where the two threads are
          then,         \* where the I/O thread goes when pause_all_vcpus ends
          cpu,          \* the CPUStates
          next_cpu,     \* where cpu_exec_all goes on, 0 for NULL
          cpu_single_env,  \* the CPU inside cpu_exec, 0 for NULL
          exit_request, \* the global of cpu-exec.c
          sigIpi,       \* SIG_IPI is pending for the TCG thread
          iothread_requesting_mutex,
          vm_running, qemu_system_ready,
          requested,    \* the requests main_loop looks for
          workDone,     \* wi.done of the item run_on_cpu waits for
          missed,       \* the last unlinking did not reach the chain that runs
          left          \* what remains of MaxEvents

vars == <<owner, io, tcg, then, cpu, next_cpu, cpu_single_env, exit_request,
          sigIpi, iothread_requesting_mutex, vm_running, qemu_system_ready,
          requested, workDone, missed, left>>
machine == <<vm_running, qemu_system_ready, requested, left>>
exec == <<next_cpu, cpu_single_env, missed>>

Cpus == 1 .. N
Requests == {"debug", "shutdown", "reset", "vmstop"}
IoWaits == {"wait_cpu", "wait_pause", "wait_work"}
TcgWaits == {"wait_system", "wait_halt", "wait_proceeded"}
InWake(w) == CASE w = "wait_cpu" -> "wake_cpu"
               [] w = "wait_pause" -> "wake_pause"
               [] w = "wait_work" -> "wake_work"
               [] w = "wait_system" -> "wake_system"
               [] w = "wait_halt" -> "wake_halt"
               [] w = "wait_proceeded" -> "wake_proceeded"
               [] OTHER -> w

\* A thread at pc after qemu_cond_signal or _broadcast of the condition w.
Signalled(pc, w) == IF pc = w THEN InWake(w) ELSE pc

NewCpu == [stop |-> FALSE, stopped |-> FALSE, halted |-> FALSE, irq |-> FALSE,
           work |-> FALSE, thread_kicked |-> FALSE, exit_request |-> FALSE]

\* qemu_tcg_init_vcpu has created the thread and waits for it.
Init == /\ owner = "none"
        /\ io = "wait_cpu" /\ tcg = "start"
        /\ then = "select"
        /\ cpu = [c \in Cpus |-> NewCpu]
        /\ next_cpu = 0 /\ cpu_single_env = 0
        /\ exit_request = FALSE /\ sigIpi = FALSE
        /\ iothread_requesting_mutex = FALSE
        /\ vm_running = FALSE /\ qemu_system_ready = FALSE
        /\ requested = {}
        /\ workDone = TRUE
        /\ missed = FALSE
        /\ left = MaxEvents

-----------------------------------------------------------------------------
\* Tests on the flags of a CPU.

\* Mutant: a CPU that is not stopped runs, whether the machine does or not.
CanRunAnyway(c) == ~cpu[c].stop /\ ~cpu[c].stopped

cpu_can_run(c) == ~cpu[c].stop /\ ~cpu[c].stopped /\ vm_running

cpu_thread_is_idle(c) ==
  /\ ~cpu[c].stop /\ ~cpu[c].work
  /\ cpu[c].stopped \/ ~vm_running \/ (cpu[c].halted /\ ~cpu[c].irq)

all_cpu_threads_idle == \A c \in Cpus : cpu_thread_is_idle(c)

all_vcpus_paused == \A c \in Cpus : cpu[c].stopped

Succ(c) == IF c = N THEN 0 ELSE c + 1

\* qemu_cpu_kick for each CPU of kicked, the CPUs being new by then: whoever
\* sleeps on the halt condition wakes, and a CPU that was not kicked yet
\* costs the thread a SIG_IPI.
Kick(new, kicked) ==
  /\ cpu' = [c \in Cpus |-> IF c \in kicked
                              THEN [new[c] EXCEPT !.thread_kicked = TRUE]
                              ELSE new[c]]
  /\ sigIpi' = (sigIpi \/ \E c \in kicked : ~new[c].thread_kicked)
  /\ tcg' = Signalled(tcg, "wait_halt")

-----------------------------------------------------------------------------
\* The TCG thread: qemu_tcg_cpu_thread_fn, cpu_exec_all, cpu_exec.

\* What only the TCG thread's own steps leave alone.
TcgOnly == UNCHANGED <<io, then, iothread_requesting_mutex, sigIpi, workDone>>

\* The thread takes the mutex for the first time and reports the CPUs created.
TcgStart ==
  /\ tcg = "start" /\ owner = "none"
  /\ owner' = "tcg" /\ tcg' = "system"
  /\ io' = Signalled(io, "wait_cpu")
  /\ UNCHANGED <<then, cpu, exec, exit_request, sigIpi,
                 iothread_requesting_mutex, machine, workDone>>

\* qemu_cond_wait returns with the mutex, and the loop around it tests again.
TcgAcquire ==
  /\ owner = "none"
  /\ tcg \in {"wake_system", "wake_halt", "wake_proceeded"}
  /\ owner' = "tcg"
  /\ tcg' = CASE tcg = "wake_system" -> "system"
              [] tcg = "wake_halt" -> "idle"
              [] tcg = "wake_proceeded" -> "proceed"
  /\ TcgOnly /\ UNCHANGED <<cpu, exec, exit_request, machine>>

TcgWait(cond) ==
  /\ tcg' = cond /\ owner' = "none"
  /\ TcgOnly /\ UNCHANGED <<cpu, exec, exit_request, machine>>

TcgGoes(pc) ==
  /\ tcg' = pc
  /\ TcgOnly /\ UNCHANGED <<owner, cpu, exec, exit_request, machine>>

SystemReady == /\ tcg = "system"
               /\ IF qemu_system_ready THEN TcgGoes("begin")
                                       ELSE TcgWait("wait_system")

\* Mutant: every round starts with the first CPU.
BeginWithFirst ==
  /\ tcg = "begin"
  /\ next_cpu' = 1 /\ tcg' = "round"
  /\ TcgOnly /\ UNCHANGED <<owner, cpu, cpu_single_env, missed, exit_request, machine>>

\* cpu_exec_all goes on with the CPU after the last one.
BeginRound ==
  /\ tcg = "begin"
  /\ next_cpu' = IF next_cpu = 0 THEN 1 ELSE next_cpu
  /\ tcg' = "round"
  /\ TcgOnly /\ UNCHANGED <<owner, cpu, cpu_single_env, missed, exit_request, machine>>

\* One turn of the loop over the CPUs: the loop's test, then a CPU that can
\* run enters cpu_exec unless it is halted without work; a stopped one ends
\* the loop, and one that only the machine holds back is passed over.
NextCpu ==
  /\ tcg = "round"
  /\ TcgOnly /\ UNCHANGED <<owner, exit_request, machine>>
  /\ \/ /\ next_cpu = 0 \/ exit_request
        /\ tcg' = "ended"
        /\ UNCHANGED <<cpu, exec>>
     \/ /\ next_cpu # 0 /\ ~exit_request
        /\ IF cpu_can_run(next_cpu)
             THEN IF cpu[next_cpu].halted /\ ~cpu[next_cpu].irq
                    THEN /\ next_cpu' = Succ(next_cpu)
                         /\ UNCHANGED <<tcg, cpu, cpu_single_env, missed>>
                    ELSE /\ cpu' = [cpu EXCEPT ![next_cpu].halted = FALSE]
                         /\ cpu_single_env' = next_cpu
                         /\ tcg' = "exec"
                         /\ UNCHANGED <<next_cpu, missed>>
             ELSE IF cpu[next_cpu].stop \/ cpu[next_cpu].stopped
                    THEN tcg' = "ended" /\ UNCHANGED <<cpu, exec>>
                    ELSE /\ next_cpu' = Succ(next_cpu)
                         /\ UNCHANGED <<tcg, cpu, cpu_single_env, missed>>

\* cpu_exec takes over an exit request that came before it set cpu_single_env,
\* and the pending interrupt before it executes anything (the guest has its
\* interrupts enabled).
EnterGuest ==
  /\ tcg = "exec"
  /\ cpu' = [cpu EXCEPT ![cpu_single_env] =
               [@ EXCEPT !.exit_request = @ \/ exit_request, !.irq = FALSE]]
  /\ tcg' = "guest"
  /\ TcgOnly /\ UNCHANGED <<owner, exec, exit_request, machine>>

\* cpu_unlink_tb on the CPU inside cpu_exec.  It breaks the closed chain of
\* direct jumps the guest may spin in, unless tb_invalidate_phys_page_range
\* hides current_tb at that time or has cut the chain off from current_tb (the
\* two cases MainLoop follows step by step).  A CPU that an earlier unlinking
\* reached is on its way back to the loop of cpu_exec and cannot be missed.
UnlinkTb ==
  missed' \in
    IF tcg = "guest" /\ (missed \/ ~(\/ cpu[cpu_single_env].exit_request
                                     \/ cpu[cpu_single_env].irq))
      THEN BOOLEAN ELSE {missed}

\* cpu_exec returns to cpu_exec_all's loop with the CPUs as new.
Leave(new) ==
  /\ cpu' = new
  /\ cpu_single_env' = 0 /\ missed' = FALSE
  /\ next_cpu' = Succ(next_cpu)
  /\ tcg' = "round"
  /\ TcgOnly /\ UNCHANGED <<owner, exit_request, machine>>

\* The generated code leaves its chain, unlinked or by itself, and cpu_exec
\* finds env->exit_request.
LeaveGuest ==
  /\ tcg = "guest" /\ cpu[cpu_single_env].exit_request
  /\ Leave([cpu EXCEPT ![cpu_single_env].exit_request = FALSE])

\* The guest waits for an interrupt.
Wfi == tcg = "guest" /\ Leave([cpu EXCEPT ![cpu_single_env].halted = TRUE])

\* The CPU takes an interrupt raised while it executes: it has left its chain,
\* unlinked or by itself, for the loop of cpu_exec.
TakeInterrupt ==
  /\ tcg = "guest" /\ cpu[cpu_single_env].irq
  /\ cpu' = [cpu EXCEPT ![cpu_single_env].irq = FALSE]
  /\ missed' = FALSE
  /\ TcgOnly
  /\ UNCHANGED <<owner, tcg, next_cpu, cpu_single_env, exit_request, machine>>

\* A device the guest writes to interrupts a CPU; every CPU is of this
\* thread, so nobody is kicked, and the CPU is unlinked if it is the one that
\* executes.
GuestInterrupts(c) ==
  /\ tcg = "guest" /\ left > 0
  /\ left' = left - 1
  /\ cpu' = [cpu EXCEPT ![c].irq = TRUE]
  /\ IF c = cpu_single_env THEN UnlinkTb ELSE UNCHANGED missed
  /\ TcgOnly
  /\ UNCHANGED <<owner, tcg, next_cpu, cpu_single_env, exit_request, vm_running,
                 qemu_system_ready, requested>>

\* A device the guest writes to asks for a shutdown, or for a reset or a stop
\* of the machine, which also stop the CPU (cpu_stop_current, cpu_exit).
GuestRequests(r) ==
  /\ tcg = "guest" /\ left > 0
  /\ left' = left - 1
  /\ requested' = requested \union {r}
  /\ cpu' = IF r = "shutdown" THEN cpu
            ELSE [cpu EXCEPT ![cpu_single_env] =
                    [@ EXCEPT !.stop = FALSE, !.stopped = TRUE,
                              !.exit_request = TRUE]]
  /\ io' = IF r = "shutdown" THEN io ELSE Signalled(io, "wait_pause")
  /\ IF r = "shutdown" THEN UNCHANGED missed ELSE UnlinkTb
  /\ UNCHANGED <<owner, tcg, then, next_cpu, cpu_single_env, exit_request, sigIpi,
                 iothread_requesting_mutex, vm_running, qemu_system_ready,
                 workDone>>

\* A breakpoint: cpu_exec returns EXCP_DEBUG, and cpu_handle_guest_debug stops
\* the CPU and ends the loop without going on to the next.
Breakpoint ==
  /\ tcg = "guest" /\ left > 0
  /\ left' = left - 1
  /\ requested' = requested \union {"debug"}
  /\ cpu' = [cpu EXCEPT ![cpu_single_env].stopped = TRUE]
  /\ cpu_single_env' = 0 /\ missed' = FALSE
  /\ tcg' = "ended"
  /\ TcgOnly
  /\ UNCHANGED <<owner, next_cpu, exit_request, vm_running, qemu_system_ready>>

\* cpu_exec_all forgets the exit request it has honoured.
EndRound ==
  /\ tcg = "ended"
  /\ exit_request' = FALSE
  /\ tcg' = "idle"
  /\ TcgOnly /\ UNCHANGED <<owner, cpu, exec, machine>>

\* qemu_tcg_wait_io_event sleeps while no CPU has anything to do ...
SleepIdle == /\ tcg = "idle"
             /\ IF all_cpu_threads_idle THEN TcgWait("wait_halt")
                                        ELSE TcgGoes("proceed")

\* Mutant: the thread goes on although the I/O thread wants the mutex.
LetIoProceedNot == tcg = "proceed" /\ TcgGoes("common")

\* ... and lets the I/O thread have the mutex it asks for.
LetIoProceed == /\ tcg = "proceed"
                /\ IF iothread_requesting_mutex THEN TcgWait("wait_proceeded")
                                                ELSE TcgGoes("common")

\* Both conditions this step may signal have the I/O thread as only waiter.
Announced(stops, works) ==
  IF (stops /\ io = "wait_pause") \/ (works /\ io = "wait_work")
    THEN InWake(io) ELSE io

\* Mutant: only the first CPU's orders and work are looked at.
CommonOfFirst ==
  /\ tcg = "common"
  /\ cpu' = [cpu EXCEPT ![1] = [@ EXCEPT !.stop = FALSE,
                                         !.stopped = @ \/ cpu[1].stop,
                                         !.work = FALSE,
                                         !.thread_kicked = FALSE]]
  /\ workDone' = (workDone \/ cpu[1].work)
  /\ io' = Announced(cpu[1].stop, cpu[1].work)
  /\ tcg' = "begin"
  /\ UNCHANGED <<owner, then, exec, exit_request, sigIpi,
                 iothread_requesting_mutex, machine>>

\* qemu_wait_io_event_common for each CPU: a CPU asked to stop is stopped, the
\* queued work is done.
WaitIoEventCommon ==
  /\ tcg = "common"
  /\ cpu' = [c \in Cpus |-> [cpu[c] EXCEPT !.stop = FALSE,
                                           !.stopped = @ \/ cpu[c].stop,
                                           !.work = FALSE,
                                           !.thread_kicked = FALSE]]
  /\ workDone' = (workDone \/ \E c \in Cpus : cpu[c].work)
  /\ io' = Announced(\E c \in Cpus : cpu[c].stop, \E c \in Cpus : cpu[c].work)
  /\ tcg' = "begin"
  /\ UNCHANGED <<owner, then, exec, exit_request, sigIpi,
                 iothread_requesting_mutex, machine>>

\* cpu_signal, the handler of SIG_IPI, wherever the thread is.
CpuSignal ==
  /\ sigIpi
  /\ sigIpi' = FALSE
  /\ exit_request' = TRUE
  /\ cpu' = IF cpu_single_env = 0 THEN cpu
            ELSE [cpu EXCEPT ![cpu_single_env].exit_request = TRUE]
  /\ UnlinkTb
  /\ UNCHANGED <<owner, io, tcg, then, next_cpu, cpu_single_env,
                 iothread_requesting_mutex, machine, workDone>>

-----------------------------------------------------------------------------
\* The I/O thread: main_loop and what it calls with the mutex.

\* The steps of the I/O thread touch neither the round nor its exit request.
IoOnly == UNCHANGED <<exec, exit_request>>

IoGoes(pc) ==
  /\ io' = pc
  /\ IoOnly /\ UNCHANGED <<owner, tcg, then, cpu, sigIpi,
                           iothread_requesting_mutex, machine, workDone>>

\* main() sets the machine up and, unless told not to, starts it; main_loop
\* then releases the TCG thread.
MachineReady ==
  /\ io = "setup"
  /\ vm_running' \in BOOLEAN
  /\ qemu_system_ready' = TRUE
  /\ sigIpi' = (sigIpi \/ vm_running')
  /\ cpu' = [c \in Cpus |-> [cpu[c] EXCEPT !.thread_kicked = vm_running']]
  /\ tcg' = Signalled(tcg, "wait_system")
  /\ io' = "select" /\ owner' = "none"
  /\ IoOnly
  /\ UNCHANGED <<then, iothread_requesting_mutex, requested, workDone, left>>

\* select returns, at the latest after its timeout.
SelectReturns ==
  /\ io = "select"
  /\ iothread_requesting_mutex' = TRUE
  /\ io' = "trylock"
  /\ IoOnly /\ UNCHANGED <<owner, tcg, then, cpu, sigIpi, machine, workDone>>

\* qemu_mutex_lock_iothread has the mutex and lets the TCG thread queue for it.
Locked ==
  /\ owner = "none" /\ owner' = "io"
  /\ iothread_requesting_mutex' = FALSE
  /\ tcg' = Signalled(tcg, "wait_proceeded")
  /\ io' = "handlers"
  /\ IoOnly /\ UNCHANGED <<then, cpu, sigIpi, machine, workDone>>

Trylock == /\ io = "trylock"
           /\ Locked \/ (owner # "none" /\ IoGoes("kick"))

KickThread ==
  /\ io = "kick"
  /\ sigIpi' = TRUE
  /\ io' = "lock"
  /\ IoOnly /\ UNCHANGED <<owner, tcg, then, cpu, iothread_requesting_mutex,
                           machine, workDone>>

Lock == io = "lock" /\ Locked

\* pause_all_vcpus: every CPU is asked to stop and kicked; unless all were
\* stopped already the thread waits, and goes to pc in the end.
PauseAll(pc) ==
  /\ Kick([c \in Cpus |-> [cpu[c] EXCEPT !.stop = TRUE]], Cpus)
  /\ IF all_vcpus_paused
       THEN io' = pc /\ UNCHANGED <<owner, then>>
       ELSE io' = "wait_pause" /\ owner' = "none" /\ then' = pc

\* Mutant: resuming leaves a CPU's order to stop in force.
ResumedKeepsStop(c) == [cpu[c] EXCEPT !.stopped = FALSE]

\* What resume_all_vcpus does to a CPU, which it also kicks.
Resumed(c) == [cpu[c] EXCEPT !.stop = FALSE, !.stopped = FALSE]

\* vm_stop in the I/O thread, which then goes to pc.
VmStop(pc) ==
  IF vm_running THEN vm_running' = FALSE /\ PauseAll(pc)
  ELSE io' = pc /\ UNCHANGED <<owner, tcg, then, cpu, sigIpi, vm_running>>

\* A handler or a monitor command.
Spend == io = "handlers" /\ left > 0 /\ left' = left - 1

MonitorStop ==
  /\ Spend /\ VmStop("handlers")
  /\ IoOnly /\ UNCHANGED <<iothread_requesting_mutex, qemu_system_ready,
                           requested, workDone>>

MonitorCont ==
  /\ Spend /\ ~vm_running
  /\ vm_running' = TRUE /\ Kick([c \in Cpus |-> Resumed(c)], Cpus)
  /\ IoOnly /\ UNCHANGED <<owner, io, then, iothread_requesting_mutex,
                           qemu_system_ready, requested, workDone>>

\* No CPU is inside cpu_exec, so cpu_stop_current does nothing here.
MonitorReset ==
  /\ Spend /\ requested' = requested \union {"reset"}
  /\ IoOnly /\ UNCHANGED <<owner, io, tcg, then, cpu, sigIpi,
                           iothread_requesting_mutex, vm_running,
                           qemu_system_ready, workDone>>

\* A device or a timer interrupts a CPU from this thread.
IoInterrupts(c) ==
  /\ Spend /\ Kick([cpu EXCEPT ![c].irq = TRUE], {c})
  /\ IoOnly /\ UNCHANGED <<owner, io, then, iothread_requesting_mutex,
                           vm_running, qemu_system_ready, requested, workDone>>

\* run_on_cpu: the item is a local variable of this call, which waits for it.
RunOnCpu(c) ==
  /\ Spend /\ Kick([cpu EXCEPT ![c].work = TRUE], {c})
  /\ workDone' = FALSE
  /\ io' = "wait_work" /\ owner' = "none"
  /\ IoOnly /\ UNCHANGED <<then, iothread_requesting_mutex, vm_running,
                           qemu_system_ready, requested>>

\* The handlers, timers and bottom halves are done.
HandlersDone == io = "handlers" /\ IoGoes("debug")

\* Takes the request r, if it is there.
Takes(r) == io = r /\ r \in requested /\ requested' = requested \ {r}
Without(r, pc) == io = r /\ r \notin requested /\ IoGoes(pc)
Rest == IoOnly /\ UNCHANGED <<iothread_requesting_mutex, qemu_system_ready,
                              workDone, left>>

\* main_loop looks for the requests in this order.
DebugRequested == \/ Takes("debug") /\ VmStop("shutdown") /\ Rest
                  \/ Without("debug", "shutdown")

\* With -no-shutdown the machine only stops, else main_loop ends.
ShutdownRequested ==
  \/ Takes("shutdown") /\ VmStop("reset") /\ Rest
  \/ Takes("shutdown") /\ PauseAll("exited") /\ Rest /\ UNCHANGED vm_running
  \/ Without("shutdown", "reset")

ResetRequested == \/ /\ Takes("reset") /\ PauseAll("resetting") /\ Rest
                     /\ UNCHANGED vm_running
                  \/ Without("reset", "vmstop")

\* Every device and CPU is reset, a CPU losing its halt, its interrupts and its
\* own exit request, and the CPUs go on.
ResetSystem ==
  /\ io = "resetting"
  /\ Kick([c \in Cpus |-> [Resumed(c) EXCEPT !.halted = FALSE, !.irq = FALSE,
                                             !.exit_request = FALSE]], Cpus)
  /\ io' = "vmstop"
  /\ Rest /\ UNCHANGED <<owner, then, vm_running, requested>>

VmstopRequested == \/ Takes("vmstop") /\ VmStop("unlock") /\ Rest
                   \/ Without("vmstop", "unlock")

\* main_loop_wait unlocks the mutex around select.
Unlock ==
  /\ io = "unlock"
  /\ owner' = "none" /\ io' = "select"
  /\ IoOnly /\ UNCHANGED <<tcg, then, cpu, sigIpi, iothread_requesting_mutex,
                           machine, workDone>>

\* The waits of this thread return with the mutex: for the creation of the
\* CPUs (which have been created when they signal it), ...
CpusCreated ==
  /\ io = "wake_cpu" /\ owner = "none"
  /\ IF tcg = "start" THEN IoGoes("wait_cpu")
     ELSE /\ owner' = "io" /\ io' = "setup"
          /\ IoOnly /\ UNCHANGED <<tcg, then, cpu, sigIpi,
                                   iothread_requesting_mutex, machine, workDone>>

\* ... for the CPUs to be stopped, kicking them again after each wakeup, ...
Paused ==
  /\ io = "wake_pause" /\ owner = "none"
  /\ Kick(cpu, Cpus)
  /\ IF all_vcpus_paused THEN owner' = "io" /\ io' = then
                         ELSE io' = "wait_pause" /\ UNCHANGED owner
  /\ IoOnly /\ UNCHANGED <<then, iothread_requesting_mutex, machine, workDone>>

\* Mutant: the first wakeup ends the wait for the work.
WorkFinishedOnce ==
  /\ io = "wake_work" /\ owner = "none"
  /\ owner' = "io" /\ io' = "handlers"
  /\ IoOnly /\ UNCHANGED <<tcg, then, cpu, sigIpi, iothread_requesting_mutex,
                           machine, workDone>>

\* ... and for the queued work.
WorkFinished ==
  /\ io = "wake_work" /\ owner = "none"
  /\ IF workDone THEN owner' = "io" /\ io' = "handlers"
                 ELSE io' = "wait_work" /\ UNCHANGED owner
  /\ IoOnly /\ UNCHANGED <<tcg, then, cpu, sigIpi, iothread_requesting_mutex,
                           machine, workDone>>

\* A condition variable may wake its waiter without a signal, now and then.
SpuriousWakeup ==
  /\ left > 0 /\ left' = left - 1
  /\ \/ io \in IoWaits /\ io' = InWake(io) /\ UNCHANGED tcg
     \/ tcg \in TcgWaits /\ tcg' = InWake(tcg) /\ UNCHANGED io
  /\ UNCHANGED <<owner, then, cpu, exec, exit_request, sigIpi,
                 iothread_requesting_mutex, vm_running, qemu_system_ready,
                 requested, workDone>>

-----------------------------------------------------------------------------
\* Steps the TCG thread takes by itself; the guest's own choices are apart.
TcgStep == \/ TcgStart \/ SystemReady \/ BeginRound \/ NextCpu \/ EnterGuest
           \/ LeaveGuest \/ TakeInterrupt \/ EndRound \/ SleepIdle
           \/ LetIoProceed \/ WaitIoEventCommon

GuestStep == \/ Wfi
             \/ \E c \in Cpus : GuestInterrupts(c)
             \/ \E r \in Requests \ {"debug"} : GuestRequests(r)
             \/ Breakpoint

IoStep == \/ MachineReady \/ SelectReturns \/ Trylock \/ KickThread \/ Lock
          \/ HandlersDone \/ DebugRequested \/ ShutdownRequested
          \/ ResetRequested \/ ResetSystem \/ VmstopRequested \/ Unlock
          \/ CpusCreated \/ Paused \/ WorkFinished

Command == \/ MonitorStop \/ MonitorCont \/ MonitorReset
           \/ \E c \in Cpus : IoInterrupts(c) \/ RunOnCpu(c)

\* After main_loop the process ends.
Exited == io = "exited" /\ UNCHANGED vars

Next == \/ TcgStep \/ TcgAcquire \/ GuestStep \/ CpuSignal
        \/ IoStep \/ Command \/ SpuriousWakeup \/ Exited

\* Both threads run, a pending signal is delivered, select times out; a
\* thread that keeps asking for a mutex that is released again and again gets
\* it.  The guest need not do anything, and neither need the user: a chain that
\* an unlinking did not reach may run for ever.
Fairness == /\ WF_vars(~missed /\ TcgStep) /\ SF_vars(TcgAcquire)
            /\ WF_vars(CpuSignal) /\ WF_vars(IoStep)

Spec == Init /\ [][Next]_vars /\ Fairness

-----------------------------------------------------------------------------
CpuStates == [stop : BOOLEAN, stopped : BOOLEAN, halted : BOOLEAN, irq : BOOLEAN,
              work : BOOLEAN, thread_kicked : BOOLEAN, exit_request : BOOLEAN]
IoPcs == {"wait_cpu", "wake_cpu", "setup", "select", "trylock", "kick", "lock",
          "handlers", "wait_pause", "wake_pause", "wait_work", "wake_work",
          "debug", "shutdown", "reset", "resetting", "vmstop", "unlock", "exited"}
TcgPcs == {"start", "system", "wait_system", "wake_system", "begin", "round",
           "exec", "guest", "ended", "idle", "wait_halt", "wake_halt", "proceed",
           "wait_proceeded", "wake_proceeded", "common"}
IoOwns == io \in {"setup", "handlers", "debug", "shutdown", "reset", "resetting",
                  "vmstop", "unlock", "exited"}
TcgOwns == tcg \in {"system", "begin", "round", "exec", "guest", "ended", "idle",
                    "proceed", "common"}

\* The variables have their types, the mutex belongs to the thread whose place
\* in the code (cpus.c, vl.c main_loop_wait) needs it, and cpu_single_env is
\* set exactly while a CPU is inside cpu_exec.
TypeOK ==
  /\ io \in IoPcs /\ tcg \in TcgPcs /\ then \in IoPcs
  /\ cpu \in [Cpus -> CpuStates]
  /\ next_cpu \in 0 .. N /\ cpu_single_env \in 0 .. N
  /\ exit_request \in BOOLEAN /\ sigIpi \in BOOLEAN
  /\ iothread_requesting_mutex \in BOOLEAN /\ vm_running \in BOOLEAN
  /\ qemu_system_ready \in BOOLEAN /\ workDone \in BOOLEAN
  /\ missed \in BOOLEAN /\ (missed => tcg = "guest")
  /\ requested \subseteq Requests /\ left \in 0 .. MaxEvents
  /\ owner \in {"io", "tcg", "none"}
  /\ IoOwns <=> owner = "io"
  /\ TcgOwns <=> owner = "tcg"
  /\ cpu_single_env # 0 <=> tcg \in {"exec", "guest"}

\* Once vm_stop has returned, no CPU executes guest code until vm_start: not
\* after a reset of the stopped machine resumed its CPUs, and not with a stop
\* order left over (cpus.c pause_all_vcpus, cpu_can_run).
StoppedMachineIsStill == ~vm_running => tcg \notin {"exec", "guest"}

\* A CPU of a running machine is stopped, or ordered to stop, only for a reason
\* that main_loop will come to: a pause under way, or a request not yet taken.
\* Otherwise the CPU would stand still for ever in a machine that runs, since
\* vm_start does nothing then (cpus.c cpu_stop_current, resume_all_vcpus).
StoppedForAReason ==
  vm_running /\ (\E c \in Cpus : cpu[c].stop \/ cpu[c].stopped)
    => \/ requested \intersect {"debug", "reset", "vmstop"} # {}
       \/ io \in {"wait_pause", "wake_pause", "resetting", "exited"}

\* An item of work is in a CPU's queue only while the call of run_on_cpu whose
\* local variable it is waits for it (cpus.c run_on_cpu, flush_queued_work).
WorkOutlivesNoCall ==
  (\E c \in Cpus : cpu[c].work) => io \in {"wait_work", "wake_work"} /\ ~workDone

\* No CPU spins for ever in a chain of blocks that cpu_unlink_tb did not reach.
NoLostChain == []<>~missed

\* When the I/O thread asks for the mutex it gets it, although it kicks only
\* once: a SIG_IPI that falls between two rounds, or just before cpu_exec_all
\* clears exit_request, does no harm, and one that did not reach the guest's
\* chain delays the thread only as long as the guest stays in that chain
\* (cpus.c qemu_mutex_lock_iothread, qemu_tcg_wait_io_event).
IoGetsTheMutex ==
  NoLostChain => (iothread_requesting_mutex ~> owner = "io")

\* pause_all_vcpus returns, also when the CPUs sleep, and needs no proviso about
\* chains: it orders the CPUs to stop before it gives the mutex up, so none of
\* them comes to execute again first (cpus.c pause_all_vcpus).
PauseReturns == io \in {"wait_pause", "wake_pause"} ~> owner = "io"

\* Where the TCG thread gets when the I/O thread's select leaves it the time.
Rested == tcg \in {"guest", "wait_halt"}

\* A CPU with an interrupt pending gets to run and takes it, however busy the
\* other CPUs of the thread are, unless the machine or the CPU is stopped or
\* the I/O thread waits for run_on_cpu or has ended; provided the I/O thread
\* does not for ever kick the TCG thread before it comes to the guest, and no
\* CPU stays for ever in a chain that its kick did not reach (cpus.c
\* cpu_exec_all, qemu_cpu_kick, qemu_tcg_wait_io_event).
InterruptsGetTaken ==
  NoLostChain /\ []<>Rested =>
    \A c \in Cpus : cpu[c].irq ~> \/ ~cpu[c].irq \/ ~vm_running
                                   \/ cpu[c].stopped
                                   \/ io \in {"wake_work", "exited"}

=============================================================================
