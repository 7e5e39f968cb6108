--------------------------- MODULE IoThreadProofs ---------------------------
(***************************************************************************)
(* Safety of the emulator with an I/O thread, for any number of CPUs and   *)
(* any number of requests, interrupts, commands and spurious wakeups.      *)
(***************************************************************************)
EXTENDS IoThread, TLAPS

\* Where the threads are, and who holds the mutex.
PcOK ==
  /\ io \in IoPcs /\ tcg \in TcgPcs
  /\ owner \in {"io", "tcg", "none"}
  /\ IoOwns <=> owner = "io"
  /\ TcgOwns <=> owner = "tcg"
  /\ cpu_single_env # 0 <=> tcg \in {"exec", "guest"}
  /\ next_cpu \in 0 .. N /\ cpu_single_env \in 0 .. N
  /\ vm_running \in BOOLEAN

\* A pause that is under way ends in a place where the mutex is held; the
\* machine does not run meanwhile, or a reset or the end of the process follows.
PauseTarget ==
  /\ then \in IoPcs
  /\ io \in {"wait_pause", "wake_pause"} =>
       \/ then \in {"resetting", "exited"}
       \/ then \in {"handlers", "shutdown", "reset", "unlock"} /\ ~vm_running

PcInv == PcOK /\ PauseTarget

LEMMA PcInit == Init => PcInv
<1> SUFFICES ASSUME Init PROVE PcInv
  OBVIOUS
<1>1. PauseTarget
  BY DEF Init, PauseTarget, IoPcs
<1>2. vm_running \in BOOLEAN
  BY Zenon DEF Init
<1>3. io \in IoPcs /\ tcg \in TcgPcs /\ ~IoOwns /\ ~TcgOwns
  BY DEF Init, IoPcs, TcgPcs, IoOwns, TcgOwns
<1> QED
  BY <1>1, <1>2, <1>3, NAssumption DEF Init, PcInv, PcOK

LEMMA PcStep == PcInv /\ [Next]_vars => PcInv'
<1> SUFFICES ASSUME PcInv, [Next]_vars PROVE PcInv'
  OBVIOUS
<1> USE NAssumption DEF PcInv, PcOK, PauseTarget, IoPcs, TcgPcs, IoOwns, TcgOwns, machine, exec,
       TcgOnly, IoOnly, Signalled, InWake, Kick
<1>1. CASE TcgStart
  BY <1>1 DEF TcgStart
<1>2. CASE SystemReady
  BY <1>2 DEF SystemReady, TcgGoes, TcgWait
<1>3. CASE BeginRound
  BY <1>3 DEF BeginRound
<1>4. CASE NextCpu
  BY <1>4 DEF NextCpu, Succ, cpu_can_run
<1>5. CASE EnterGuest
  BY <1>5 DEF EnterGuest
<1>6. CASE LeaveGuest
  BY <1>6 DEF LeaveGuest, Leave, Succ
<1>7. CASE TakeInterrupt
  BY <1>7 DEF TakeInterrupt
<1>8. CASE EndRound
  BY <1>8 DEF EndRound
<1>9. CASE SleepIdle
  BY <1>9 DEF SleepIdle, TcgGoes, TcgWait
<1>10. CASE LetIoProceed
  BY <1>10, SMTT(60) DEF LetIoProceed, TcgGoes, TcgWait
<1>11. CASE WaitIoEventCommon
  BY <1>11, Zenon DEF WaitIoEventCommon, Announced
<1>12. CASE TcgAcquire
  BY <1>12 DEF TcgAcquire
<1>13. CASE Wfi
  BY <1>13 DEF Wfi, Leave, Succ
<1>14. CASE \E c \in Cpus : GuestInterrupts(c)
  BY <1>14 DEF GuestInterrupts
<1>15. CASE \E r \in Requests \ {"debug"} : GuestRequests(r)
  BY <1>15 DEF GuestRequests, Requests
<1>16. CASE Breakpoint
  BY <1>16 DEF Breakpoint
<1>17. CASE CpuSignal
  BY <1>17 DEF CpuSignal
<1>18. CASE MachineReady
  BY <1>18 DEF MachineReady
<1>19. CASE SelectReturns \/ KickThread \/ HandlersDone \/ Unlock
  BY <1>19 DEF SelectReturns, KickThread, HandlersDone, IoGoes, Unlock
<1>20. CASE Trylock \/ Lock
  BY <1>20, SMTT(60) DEF Trylock, Lock, Locked, IoGoes
<1>21. CASE DebugRequested
  BY <1>21, ZenonT(60) DEF DebugRequested, Takes, Without, IoGoes, Rest, VmStop, PauseAll
<1>22. CASE ShutdownRequested
  BY <1>22, ZenonT(60) DEF ShutdownRequested, Takes, Without, IoGoes, Rest, VmStop, PauseAll
<1>23. CASE ResetRequested
  BY <1>23, ZenonT(60) DEF ResetRequested, Takes, Without, IoGoes, Rest, PauseAll
<1>24. CASE ResetSystem
  BY <1>24, ZenonT(60) DEF ResetSystem, Rest, Resumed
<1>25. CASE VmstopRequested
  BY <1>25, ZenonT(60) DEF VmstopRequested, Takes, Without, IoGoes, Rest, VmStop, PauseAll
<1>26. CASE CpusCreated
  BY <1>26 DEF CpusCreated, IoGoes
<1>27. CASE Paused
  BY <1>27 DEF Paused
<1>28. CASE WorkFinished
  BY <1>28 DEF WorkFinished
<1>29. CASE MonitorStop
  BY <1>29, ZenonT(60) DEF MonitorStop, Spend, VmStop, PauseAll
<1>30. CASE MonitorCont
  BY <1>30, Zenon DEF MonitorCont, Spend, Resumed
<1>31. CASE MonitorReset
  BY <1>31 DEF MonitorReset, Spend
<1>32. CASE \E c \in Cpus : IoInterrupts(c)
  BY <1>32 DEF IoInterrupts, Spend
<1>33. CASE \E c \in Cpus : RunOnCpu(c)
  BY <1>33 DEF RunOnCpu, Spend
<1>34. CASE SpuriousWakeup
  BY <1>34 DEF SpuriousWakeup, IoWaits, TcgWaits
<1>35. CASE Exited \/ UNCHANGED vars
  BY <1>35 DEF Exited, vars
<1> QED
  BY <1>1, <1>2, <1>3, <1>4, <1>5, <1>6, <1>7, <1>8, <1>9, <1>10, <1>11, <1>12, <1>13,
     <1>14, <1>15, <1>16, <1>17, <1>18, <1>19, <1>20, <1>21, <1>22, <1>23, <1>24, <1>25,
     <1>26, <1>27, <1>28, <1>29, <1>30, <1>31, <1>32, <1>33, <1>34, <1>35, Zenon
  DEF Next, TcgStep, GuestStep, IoStep, Command

-----------------------------------------------------------------------------
\* The flags of the CPUs, and what the operations on all of them do.

CpuOK == cpu \in [Cpus -> CpuStates]

LEMMA KickEffect ==
  ASSUME NEW new \in [Cpus -> CpuStates], NEW kicked, Kick(new, kicked)
  PROVE  /\ CpuOK'
         /\ \A c \in Cpus : /\ cpu'[c].stop = new[c].stop
                            /\ cpu'[c].stopped = new[c].stopped
                            /\ cpu'[c].work = new[c].work
  BY Zenon DEF Kick, CpuOK, CpuStates

\* pause_all_vcpus touches no queue of work.
LEMMA PauseEffect ==
  ASSUME CpuOK, NEW pc, PauseAll(pc)
  PROVE  CpuOK' /\ \A c \in Cpus : cpu'[c].work = cpu[c].work
<1> DEFINE new == [c \in Cpus |-> [cpu[c] EXCEPT !.stop = TRUE]]
<1>1. new \in [Cpus -> CpuStates] /\ \A c \in Cpus : new[c].work = cpu[c].work
  BY Zenon DEF CpuOK, CpuStates
<1>2. Kick(new, Cpus)
  BY DEF PauseAll
<1> QED
  BY <1>1, <1>2, KickEffect, Zenon

\* Neither does vm_stop, after which the machine does not run.
LEMMA VmStopEffect ==
  ASSUME CpuOK, vm_running \in BOOLEAN, NEW pc, VmStop(pc)
  PROVE  /\ CpuOK' /\ vm_running' = FALSE
         /\ \A c \in Cpus : cpu'[c].work = cpu[c].work
<1>1. CASE vm_running
  BY <1>1, PauseEffect DEF VmStop
<1>2. CASE ~vm_running
  BY <1>2 DEF VmStop, CpuOK
<1> QED
  BY <1>1, <1>2, Zenon

LEMMA CpuInit == Init => CpuOK
  BY DEF Init, CpuOK, CpuStates, NewCpu

LEMMA CpuStep == PcInv /\ CpuOK /\ [Next]_vars => CpuOK'
<1> SUFFICES ASSUME PcInv, CpuOK, [Next]_vars PROVE CpuOK'
  OBVIOUS
<1> USE NAssumption DEF PcInv, PcOK, CpuOK, CpuStates, Cpus, TcgOnly, IoOnly
<1>1. CASE TcgStart
  BY <1>1 DEF TcgStart
<1>2. CASE SystemReady
  BY <1>2 DEF SystemReady, TcgGoes, TcgWait
<1>3. CASE BeginRound
  BY <1>3 DEF BeginRound
<1>4. CASE NextCpu
  <2>1. CASE UNCHANGED cpu
    BY <2>1
  <2>2. CASE next_cpu # 0 /\ cpu' = [cpu EXCEPT ![next_cpu].halted = FALSE]
    BY <2>2, Zenon
  <2> QED
    BY <1>4, <2>1, <2>2 DEF NextCpu, exec
<1>5. CASE EnterGuest
  BY <1>5, ZenonT(60) DEF EnterGuest
<1>6. CASE LeaveGuest
  BY <1>6, Zenon DEF LeaveGuest, Leave, Succ
<1>7. CASE TakeInterrupt
  BY <1>7, ZenonT(60) DEF TakeInterrupt
<1>8. CASE EndRound
  BY <1>8 DEF EndRound
<1>9. CASE SleepIdle
  BY <1>9 DEF SleepIdle, TcgGoes, TcgWait
<1>10. CASE LetIoProceed
  BY <1>10 DEF LetIoProceed, TcgGoes, TcgWait
<1>11. CASE WaitIoEventCommon
  BY <1>11, Zenon DEF WaitIoEventCommon, Announced
<1>12. CASE TcgAcquire
  BY <1>12 DEF TcgAcquire
<1>13. CASE Wfi
  BY <1>13, Zenon DEF Wfi, Leave, Succ
<1>14. CASE \E c \in Cpus : GuestInterrupts(c)
  <2> PICK c \in Cpus : GuestInterrupts(c)
    BY <1>14
  <2>1. cpu' = [cpu EXCEPT ![c].irq = TRUE]
    BY DEF GuestInterrupts
  <2> QED
    BY <2>1, Zenon
<1>15. CASE \E r \in Requests \ {"debug"} : GuestRequests(r)
  <2>1. CASE UNCHANGED cpu
    BY <2>1
  <2>2. CASE cpu' = [cpu EXCEPT ![cpu_single_env] =
                       [@ EXCEPT !.stop = FALSE, !.stopped = TRUE, !.exit_request = TRUE]]
    <3>1. cpu_single_env \in Cpus
      BY <1>15 DEF GuestRequests
    <3> QED
      BY <2>2, <3>1, Zenon
  <2> QED
    BY <1>15, <2>1, <2>2 DEF GuestRequests
<1>16. CASE Breakpoint
  BY <1>16, Zenon DEF Breakpoint
<1>17. CASE CpuSignal
  BY <1>17, Zenon DEF CpuSignal
<1>18. CASE MachineReady
  BY <1>18 DEF MachineReady
<1>19. CASE SelectReturns \/ KickThread \/ HandlersDone \/ Unlock
  BY <1>19 DEF SelectReturns, KickThread, HandlersDone, IoGoes, Unlock
<1>20. CASE Trylock \/ Lock
  BY <1>20 DEF Trylock, Lock, Locked, IoGoes
<1>21. CASE DebugRequested
  BY <1>21, VmStopEffect, Zenon DEF DebugRequested, Without, IoGoes
<1>22. CASE ShutdownRequested
  BY <1>22, VmStopEffect, PauseEffect, Zenon DEF ShutdownRequested, Without, IoGoes
<1>23. CASE ResetRequested
  BY <1>23, PauseEffect DEF ResetRequested, Without, IoGoes
<1>24. CASE ResetSystem
  <2>1. [c \in Cpus |-> [Resumed(c) EXCEPT !.halted = FALSE, !.irq = FALSE,
                                           !.exit_request = FALSE]]
          \in [Cpus -> CpuStates]
    BY Zenon DEF Resumed
  <2> QED
    BY <1>24, <2>1, KickEffect, Zenon DEF ResetSystem
<1>25. CASE VmstopRequested
  BY <1>25, VmStopEffect, Zenon DEF VmstopRequested, Without, IoGoes
<1>26. CASE CpusCreated
  BY <1>26 DEF CpusCreated, IoGoes
<1>27. CASE Paused
  BY <1>27, KickEffect DEF Paused
<1>28. CASE WorkFinished
  BY <1>28 DEF WorkFinished
<1>29. CASE MonitorStop
  BY <1>29, VmStopEffect, Zenon DEF MonitorStop
<1>30. CASE MonitorCont
  <2>1. [c \in Cpus |-> Resumed(c)] \in [Cpus -> CpuStates]
    BY Zenon DEF Resumed
  <2> QED
    BY <1>30, <2>1, KickEffect DEF MonitorCont
<1>31. CASE MonitorReset
  BY <1>31 DEF MonitorReset, Spend
<1>32. CASE \E c \in Cpus : IoInterrupts(c)
  <2> PICK c \in Cpus : IoInterrupts(c)
    BY <1>32
  <2>1. [cpu EXCEPT ![c].irq = TRUE] \in [Cpus -> CpuStates]
    BY Zenon
  <2> QED
    BY <2>1, KickEffect, Zenon DEF IoInterrupts
<1>33. CASE \E c \in Cpus : RunOnCpu(c)
  <2> PICK c \in Cpus : RunOnCpu(c)
    BY <1>33
  <2>1. [cpu EXCEPT ![c].work = TRUE] \in [Cpus -> CpuStates]
    BY Zenon
  <2> QED
    BY <2>1, KickEffect, Zenon DEF RunOnCpu
<1>34. CASE SpuriousWakeup
  BY <1>34 DEF SpuriousWakeup, IoWaits, TcgWaits
<1>35. CASE Exited \/ UNCHANGED vars
  BY <1>35 DEF Exited, vars
<1> QED
  BY <1>1, <1>2, <1>3, <1>4, <1>5, <1>6, <1>7, <1>8, <1>9, <1>10, <1>11, <1>12, <1>13,
     <1>14, <1>15, <1>16, <1>17, <1>18, <1>19, <1>20, <1>21, <1>22, <1>23, <1>24, <1>25,
     <1>26, <1>27, <1>28, <1>29, <1>30, <1>31, <1>32, <1>33, <1>34, <1>35
  DEF Next, TcgStep, GuestStep, IoStep, Command

LEMMA KickSignals ==
  ASSUME NEW new, NEW kicked, Kick(new, kicked) PROVE sigIpi' \in BOOLEAN
  BY Zenon DEF Kick

LEMMA VmStopSignals ==
  ASSUME sigIpi \in BOOLEAN, NEW pc, VmStop(pc) PROVE sigIpi' \in BOOLEAN
  BY KickSignals DEF VmStop, PauseAll

\* The rest of the type invariant.
FlagsOK ==
  /\ exit_request \in BOOLEAN /\ sigIpi \in BOOLEAN
  /\ iothread_requesting_mutex \in BOOLEAN
  /\ qemu_system_ready \in BOOLEAN /\ workDone \in BOOLEAN
  /\ requested \subseteq Requests /\ left \in 0 .. MaxEvents

LEMMA FlagsStep == FlagsOK /\ vm_running \in BOOLEAN /\ [Next]_vars => FlagsOK'
<1> SUFFICES ASSUME FlagsOK, vm_running \in BOOLEAN, [Next]_vars PROVE FlagsOK'
  OBVIOUS
<1> USE NAssumption DEF FlagsOK, machine, TcgOnly, IoOnly, Kick
<1>1. CASE TcgStart \/ SystemReady \/ BeginRound \/ NextCpu \/ EnterGuest
  BY <1>1 DEF TcgStart, SystemReady, TcgGoes, TcgWait, BeginRound, NextCpu, Succ,
              cpu_can_run, EnterGuest
<1>2. CASE LeaveGuest \/ TakeInterrupt \/ EndRound \/ SleepIdle \/ LetIoProceed
  BY <1>2, Zenon DEF LeaveGuest, Leave, Succ, TakeInterrupt, EndRound, SleepIdle, TcgGoes,
              TcgWait, LetIoProceed
<1>3. CASE WaitIoEventCommon
  <2>1. workDone' \in BOOLEAN
    BY <1>3, Zenon DEF WaitIoEventCommon
  <2> QED
    BY <1>3, <2>1, Zenon DEF WaitIoEventCommon
<1>4. CASE TcgAcquire \/ Wfi
  BY <1>4 DEF TcgAcquire, Wfi, Leave, Succ
<1>5. CASE \E c \in Cpus : GuestInterrupts(c)
  BY <1>5 DEF GuestInterrupts
<1>6. CASE \E r \in Requests \ {"debug"} : GuestRequests(r)
  BY <1>6 DEF GuestRequests, Requests
<1>7. CASE CpuSignal
  BY <1>7, Zenon DEF CpuSignal
<1>8. CASE Breakpoint
  <2>1. requested' \subseteq Requests
    BY <1>8 DEF Breakpoint, Requests
  <2>2. left' \in 0 .. MaxEvents
    BY <1>8 DEF Breakpoint
  <2>3. UNCHANGED <<exit_request, sigIpi, iothread_requesting_mutex, qemu_system_ready, workDone>>
    BY <1>8 DEF Breakpoint
  <2> QED
    BY <2>1, <2>2, <2>3
<1>9. CASE MachineReady
  <2>1. sigIpi' \in BOOLEAN
    BY <1>9, Zenon DEF MachineReady
  <2> QED
    BY <1>9, <2>1 DEF MachineReady
<1>10. CASE SelectReturns \/ KickThread \/ HandlersDone \/ Unlock \/ Trylock \/ Lock
  BY <1>10, ZenonT(60) DEF SelectReturns, KickThread, HandlersDone, IoGoes, Unlock, Trylock, Lock,
              Locked
<1>11. CASE DebugRequested
  BY <1>11, VmStopSignals DEF DebugRequested, Spend, Takes, Without, IoGoes, Rest
<1>12. CASE ShutdownRequested
  BY <1>12, VmStopSignals, KickSignals, Zenon
     DEF ShutdownRequested, PauseAll, Takes, Without, IoGoes, Rest
<1>13. CASE ResetRequested
  BY <1>13, KickSignals, ZenonT(60) DEF ResetRequested, PauseAll, Takes, Without, IoGoes, Rest
<1>14. CASE ResetSystem
  BY <1>14, KickSignals, Zenon DEF ResetSystem, Rest
<1>15. CASE VmstopRequested
  BY <1>15, VmStopSignals DEF VmstopRequested, Spend, Takes, Without, IoGoes, Rest
<1>16. CASE CpusCreated
  BY <1>16 DEF CpusCreated, IoGoes
<1>17. CASE Paused
  BY <1>17, KickSignals DEF Paused
<1>18. CASE WorkFinished
  BY <1>18 DEF WorkFinished
<1>19. CASE MonitorStop
  BY <1>19, VmStopSignals DEF MonitorStop, Spend, Takes, Without, IoGoes, Rest
<1>20. CASE MonitorCont
  BY <1>20, KickSignals DEF MonitorCont, Spend
<1>21. CASE MonitorReset
  <2>1. requested' \subseteq Requests
    BY <1>21 DEF MonitorReset, Requests
  <2>2. left' \in 0 .. MaxEvents
    BY <1>21 DEF MonitorReset, Spend
  <2>3. UNCHANGED <<exit_request, sigIpi, iothread_requesting_mutex, qemu_system_ready, workDone>>
    BY <1>21 DEF MonitorReset, Spend
  <2> QED
    BY <2>1, <2>2, <2>3
<1>22. CASE \E c \in Cpus : IoInterrupts(c)
  BY <1>22, KickSignals DEF IoInterrupts, Spend
<1>23. CASE \E c \in Cpus : RunOnCpu(c)
  <2>1. sigIpi' \in BOOLEAN
    BY <1>23, KickSignals DEF RunOnCpu
  <2>2. left' \in 0 .. MaxEvents
    BY <1>23 DEF RunOnCpu, Spend
  <2> QED
    BY <1>23, <2>1, <2>2, Zenon DEF RunOnCpu
<1>24. CASE SpuriousWakeup \/ Exited \/ UNCHANGED vars
  BY <1>24 DEF SpuriousWakeup, IoWaits, TcgWaits, Exited, vars
<1> QED
  BY <1>1, <1>2, <1>3, <1>4, <1>5, <1>6, <1>7, <1>8, <1>9, <1>10, <1>11, <1>12, <1>13,
     <1>14, <1>15, <1>16, <1>17, <1>18, <1>19, <1>20, <1>21, <1>22, <1>23, <1>24
  DEF Next, TcgStep, GuestStep, IoStep, Command

-----------------------------------------------------------------------------
\* A chain that an unlinking missed is running, so the fairness of the TCG
\* thread fails only where the guest executes.
MissedOK == missed \in BOOLEAN /\ (missed => tcg = "guest")

LEMMA UnlinkMisses ==
  ASSUME MissedOK, UnlinkTb PROVE missed' \in BOOLEAN /\ (missed' => tcg = "guest")
<1>1. CASE tcg = "guest"
  BY <1>1, SMT DEF MissedOK, UnlinkTb
<1>2. CASE tcg # "guest"
  BY <1>2, SMT DEF MissedOK, UnlinkTb
<1> QED
  BY <1>1, <1>2

\* A signalled condition does not move a thread that executes the guest.
LEMMA NotSignalled == \A w \in {"wait_halt", "wait_system", "wait_proceeded"} :
                        tcg = "guest" => Signalled(tcg, w) = "guest"
  BY DEF Signalled

LEMMA MissedStep == MissedOK /\ [Next]_vars => MissedOK'
<1> SUFFICES ASSUME MissedOK, [Next]_vars PROVE MissedOK'
  OBVIOUS
<1>1. CASE TcgStart \/ SystemReady \/ BeginRound \/ EnterGuest \/ EndRound \/ SleepIdle
           \/ LetIoProceed \/ WaitIoEventCommon \/ TcgAcquire
  <2>1. tcg # "guest" /\ UNCHANGED missed
    <3>1. CASE TcgStart \/ SystemReady \/ TcgAcquire
      BY <3>1 DEF TcgStart, SystemReady, TcgAcquire, TcgGoes, TcgWait, exec
    <3>2. CASE BeginRound \/ EnterGuest \/ EndRound
      BY <3>2 DEF BeginRound, EnterGuest, EndRound, exec
    <3>3. CASE SleepIdle \/ LetIoProceed
      BY <3>3 DEF SleepIdle, LetIoProceed, TcgGoes, TcgWait, exec
    <3>4. CASE WaitIoEventCommon
      BY <3>4 DEF WaitIoEventCommon, exec
    <3> QED
      BY <1>1, <3>1, <3>2, <3>3, <3>4
  <2> QED
    BY <2>1 DEF MissedOK
<1>2. CASE NextCpu
  BY <1>2 DEF MissedOK, NextCpu, exec
<1>3. CASE LeaveGuest \/ TakeInterrupt \/ Wfi \/ Breakpoint
  BY <1>3 DEF MissedOK, LeaveGuest, TakeInterrupt, Wfi, Leave, Breakpoint
<1>4. CASE \E c \in Cpus : GuestInterrupts(c)
  BY <1>4, UnlinkMisses, Zenon DEF MissedOK, GuestInterrupts
<1>5. CASE \E r \in Requests \ {"debug"} : GuestRequests(r)
  BY <1>5, UnlinkMisses, Zenon DEF MissedOK, GuestRequests
<1>6. CASE CpuSignal
  BY <1>6, UnlinkMisses, Zenon DEF MissedOK, CpuSignal
<1>7. ASSUME UNCHANGED missed,
             tcg' \in {tcg} \cup {Signalled(tcg, w) :
                                  w \in {"wait_halt", "wait_system", "wait_proceeded"}}
      PROVE  MissedOK'
  BY <1>7, NotSignalled DEF MissedOK
<1>8. CASE MachineReady \/ SelectReturns \/ KickThread \/ HandlersDone \/ Unlock \/ CpusCreated
           \/ WorkFinished \/ MonitorReset
  BY <1>7, <1>8 DEF MachineReady, SelectReturns, KickThread, HandlersDone, IoGoes, Unlock,
                    CpusCreated, WorkFinished, MonitorReset, IoOnly, exec
<1>9. CASE Trylock \/ Lock
  BY <1>7, <1>9 DEF Trylock, Lock, Locked, IoGoes, IoOnly, exec
<1>10. CASE DebugRequested \/ ShutdownRequested \/ VmstopRequested
  BY <1>7, <1>10 DEF DebugRequested, ShutdownRequested, VmstopRequested, Takes, Without,
                     IoGoes, Rest, VmStop, PauseAll, Kick, IoOnly, exec
<1>11. CASE ResetRequested \/ ResetSystem
  BY <1>7, <1>11 DEF ResetRequested, ResetSystem, Takes, Without, IoGoes, Rest, PauseAll,
                     Kick, IoOnly, exec
<1>12. CASE Paused \/ MonitorStop \/ MonitorCont
  BY <1>7, <1>12 DEF Paused, MonitorStop, MonitorCont, VmStop, PauseAll, Kick, IoOnly, exec
<1>13. CASE \E c \in Cpus : IoInterrupts(c) \/ RunOnCpu(c)
  BY <1>7, <1>13 DEF IoInterrupts, RunOnCpu, Kick, IoOnly, exec
<1>14. CASE SpuriousWakeup
  BY <1>14 DEF MissedOK, SpuriousWakeup, TcgWaits, exec
<1>15. CASE Exited \/ UNCHANGED vars
  BY <1>15 DEF MissedOK, Exited, vars
<1> QED
  BY <1>1, <1>2, <1>3, <1>4, <1>5, <1>6, <1>8, <1>9, <1>10, <1>11, <1>12, <1>13, <1>14,
     <1>15, Zenon
  DEF Next, TcgStep, GuestStep, IoStep, Command

-----------------------------------------------------------------------------
\* Until main has set the machine up no CPU has been told to stop, and the
\* TCG thread has not come further than its wait for qemu_system_ready.
Startup ==
  io \in {"wait_cpu", "wake_cpu", "setup"} =>
    /\ ~qemu_system_ready
    /\ tcg \in {"start", "system", "wait_system", "wake_system"}
    /\ \A c \in Cpus : ~cpu[c].stop /\ ~cpu[c].stopped

\* The inductive invariant.
IoInv == /\ PcInv /\ CpuOK /\ FlagsOK /\ MissedOK /\ Startup
         /\ StoppedMachineIsStill /\ StoppedForAReason /\ WorkOutlivesNoCall

LEMMA StartupStep == PcInv /\ CpuOK /\ Startup /\ [Next]_vars => Startup'
<1> SUFFICES ASSUME PcInv, CpuOK, Startup, [Next]_vars PROVE Startup'
  OBVIOUS
<1> USE NAssumption DEF PcInv, PcOK, PauseTarget, CpuOK, CpuStates, Startup, IoOwns, TcgOwns,
       machine, TcgOnly, IoOnly, Signalled, InWake
<1>1. CASE TcgStart \/ SystemReady \/ BeginRound \/ NextCpu \/ EnterGuest
  BY <1>1 DEF TcgStart, SystemReady, TcgGoes, TcgWait, BeginRound, NextCpu, Succ,
              cpu_can_run, EnterGuest
<1>2. CASE LeaveGuest \/ TakeInterrupt \/ EndRound \/ SleepIdle \/ LetIoProceed
  BY <1>2 DEF LeaveGuest, Leave, Succ, TakeInterrupt, EndRound, SleepIdle, TcgGoes,
              TcgWait, LetIoProceed
<1>3. CASE WaitIoEventCommon \/ TcgAcquire \/ Wfi
  BY <1>3, Zenon DEF WaitIoEventCommon, Announced, TcgAcquire, Wfi, Leave, Succ
<1>4. CASE \E c \in Cpus : GuestInterrupts(c)
  BY <1>4 DEF GuestInterrupts
<1>5. CASE \E r \in Requests \ {"debug"} : GuestRequests(r)
  BY <1>5 DEF GuestRequests, Requests
<1>6. CASE Breakpoint \/ CpuSignal \/ MachineReady \/ SelectReturns \/ KickThread \/
           HandlersDone \/ Unlock \/ Trylock \/ Lock
  BY <1>6 DEF Breakpoint, CpuSignal, MachineReady, SelectReturns, KickThread,
              HandlersDone, IoGoes, Unlock, Trylock, Lock, Locked
<1>7. CASE DebugRequested \/ ShutdownRequested \/ ResetRequested \/ ResetSystem \/
           VmstopRequested
  BY <1>7, Zenon DEF DebugRequested, Takes, Without, IoGoes, Rest, VmStop, PauseAll,
              ShutdownRequested, ResetRequested, ResetSystem, Resumed, VmstopRequested
<1>8. CASE CpusCreated \/ Paused \/ WorkFinished \/ MonitorStop \/ MonitorCont
  BY <1>8, ZenonT(60) DEF CpusCreated, IoGoes, Paused, WorkFinished, MonitorStop, Spend, VmStop,
              PauseAll, MonitorCont, Resumed
<1>9. CASE MonitorReset
  BY <1>9 DEF MonitorReset, Spend
<1>10. CASE \E c \in Cpus : IoInterrupts(c)
  BY <1>10 DEF IoInterrupts, Spend
<1>11. CASE \E c \in Cpus : RunOnCpu(c)
  BY <1>11 DEF RunOnCpu, Spend
<1>12. CASE SpuriousWakeup \/ Exited \/ UNCHANGED vars
  BY <1>12 DEF SpuriousWakeup, IoWaits, TcgWaits, Exited, vars
<1> QED
  BY <1>1, <1>2, <1>3, <1>4, <1>5, <1>6, <1>7, <1>8, <1>9, <1>10, <1>11, <1>12
  DEF Next, TcgStep, GuestStep, IoStep, Command

\* Guest code is entered only when the machine runs, and it is stopped only by
\* the I/O thread, which holds the mutex when it does so.
LEMMA StillStep ==
  PcInv /\ StoppedMachineIsStill /\ [Next]_vars => StoppedMachineIsStill'
<1> SUFFICES ASSUME PcInv, StoppedMachineIsStill, [Next]_vars PROVE StoppedMachineIsStill'
  OBVIOUS
<1> USE NAssumption DEF PcInv, PcOK, StoppedMachineIsStill, IoOwns, TcgOwns, machine, TcgOnly, IoOnly,
       Signalled, InWake, Kick
<1>1. CASE TcgStart \/ SystemReady \/ BeginRound \/ NextCpu \/ EnterGuest
  BY <1>1 DEF TcgStart, SystemReady, TcgGoes, TcgWait, BeginRound, NextCpu, Succ,
              cpu_can_run, EnterGuest
<1>2. CASE LeaveGuest \/ TakeInterrupt \/ EndRound \/ SleepIdle \/ LetIoProceed
  BY <1>2 DEF LeaveGuest, Leave, Succ, TakeInterrupt, EndRound, SleepIdle, TcgGoes,
              TcgWait, LetIoProceed
<1>3. CASE WaitIoEventCommon \/ TcgAcquire \/ Wfi
  BY <1>3, Zenon DEF WaitIoEventCommon, Announced, TcgAcquire, Wfi, Leave, Succ
<1>4. CASE \E c \in Cpus : GuestInterrupts(c)
  BY <1>4 DEF GuestInterrupts
<1>5. CASE \E r \in Requests \ {"debug"} : GuestRequests(r)
  BY <1>5 DEF GuestRequests, Requests
<1>6. CASE Breakpoint \/ CpuSignal \/ MachineReady \/ SelectReturns \/ KickThread \/
           HandlersDone \/ Unlock \/ Trylock \/ Lock
  BY <1>6, SMTT(60) DEF Breakpoint, CpuSignal, MachineReady, SelectReturns, KickThread,
              HandlersDone, IoGoes, Unlock, Trylock, Lock, Locked
<1>7. CASE DebugRequested \/ ShutdownRequested \/ ResetRequested \/ ResetSystem \/
           VmstopRequested
  BY <1>7, ZenonT(60) DEF DebugRequested, Takes, Without, IoGoes, Rest, VmStop, PauseAll,
              ShutdownRequested, ResetRequested, ResetSystem, Resumed, VmstopRequested
<1>8. CASE CpusCreated \/ Paused \/ WorkFinished \/ MonitorStop \/ MonitorCont
  BY <1>8, Zenon DEF CpusCreated, IoGoes, Paused, WorkFinished, MonitorStop, Spend, VmStop,
              PauseAll, MonitorCont, Resumed
<1>9. CASE MonitorReset
  BY <1>9 DEF MonitorReset, Spend
<1>10. CASE \E c \in Cpus : IoInterrupts(c)
  BY <1>10 DEF IoInterrupts, Spend
<1>11. CASE \E c \in Cpus : RunOnCpu(c)
  BY <1>11 DEF RunOnCpu, Spend
<1>12. CASE SpuriousWakeup \/ Exited \/ UNCHANGED vars
  BY <1>12, SMTT(60) DEF SpuriousWakeup, IoWaits, TcgWaits, Exited, vars
<1> QED
  BY <1>1, <1>2, <1>3, <1>4, <1>5, <1>6, <1>7, <1>8, <1>9, <1>10, <1>11, <1>12
  DEF Next, TcgStep, GuestStep, IoStep, Command

LEMMA ReasonStep ==
  PcInv /\ CpuOK /\ Startup /\ StoppedForAReason /\ [Next]_vars => StoppedForAReason'
<1> SUFFICES ASSUME PcInv, CpuOK, Startup, StoppedForAReason, [Next]_vars PROVE StoppedForAReason'
  OBVIOUS
<1> USE NAssumption DEF PcInv, PcOK, PauseTarget, CpuOK, CpuStates, Startup, StoppedForAReason, IoOwns, TcgOwns,
       machine, TcgOnly, IoOnly, Signalled, InWake
<1>1. CASE TcgStart \/ SystemReady \/ BeginRound
  BY <1>1, Zenon DEF TcgStart, SystemReady, TcgGoes, TcgWait, BeginRound
<1>2. CASE NextCpu
  BY <1>2 DEF NextCpu
<1>3. CASE EnterGuest
  BY <1>3 DEF EnterGuest
<1>4. CASE WaitIoEventCommon
  BY <1>4, ZenonT(60) DEF WaitIoEventCommon, Announced
<1>5. CASE Wfi
  BY <1>5 DEF Wfi, Leave
<1>6. CASE LeaveGuest \/ TakeInterrupt \/ EndRound \/ SleepIdle \/ LetIoProceed
  BY <1>6, ZenonT(60) DEF LeaveGuest, Leave, Succ, TakeInterrupt, EndRound, SleepIdle, TcgGoes,
              TcgWait, LetIoProceed
<1>7. CASE TcgAcquire
  BY <1>7 DEF TcgAcquire
<1>8. CASE \E c \in Cpus : GuestInterrupts(c)
  BY <1>8 DEF GuestInterrupts
<1>9. CASE \E r \in Requests \ {"debug"} : GuestRequests(r)
  BY <1>9 DEF GuestRequests, Requests
<1>10. CASE Breakpoint
  BY <1>10 DEF Breakpoint
<1>11. CASE CpuSignal
  BY <1>11 DEF CpuSignal
<1>12. CASE MachineReady
  BY <1>12 DEF MachineReady
<1>13. CASE SelectReturns \/ KickThread \/
           HandlersDone \/ Unlock \/ Trylock \/ Lock
  BY <1>13, Zenon DEF SelectReturns, KickThread,
              HandlersDone, IoGoes, Unlock, Trylock, Lock, Locked
<1>14. CASE DebugRequested \/ ShutdownRequested \/ ResetRequested
  BY <1>14, Zenon DEF DebugRequested, Takes, Without, IoGoes, Rest, VmStop, PauseAll,
              ShutdownRequested, ResetRequested
<1>15. CASE ResetSystem
  <2> DEFINE new == [c \in Cpus |-> [Resumed(c) EXCEPT !.halted = FALSE, !.irq = FALSE,
                                                     !.exit_request = FALSE]]
  <2>1. new \in [Cpus -> CpuStates] /\ \A c \in Cpus : ~new[c].stop /\ ~new[c].stopped
    BY ZenonT(60) DEF Resumed
  <2>2. Kick(new, Cpus)
    BY <1>15, Zenon DEF ResetSystem
  <2>3. \A c \in Cpus : ~cpu'[c].stop /\ ~cpu'[c].stopped
    <3> HIDE DEF new
    <3> QED
      BY <2>1, <2>2, KickEffect
  <2> QED
    BY <2>3
<1>16. CASE VmstopRequested \/ CpusCreated \/ Paused \/ WorkFinished \/ MonitorStop
  BY <1>16, Zenon DEF VmstopRequested, Takes, Without, IoGoes, Rest, VmStop, PauseAll,
              CpusCreated, Paused, WorkFinished, MonitorStop, Spend
<1>17. CASE MonitorCont
  <2> DEFINE new == [c \in Cpus |-> Resumed(c)]
  <2>1. /\ new \in [Cpus -> CpuStates]
        /\ \A c \in Cpus : ~new[c].stop /\ ~new[c].stopped
    <3>1. ASSUME NEW c \in Cpus
          PROVE  Resumed(c) \in CpuStates /\ ~Resumed(c).stop /\ ~Resumed(c).stopped
      BY Zenon DEF Resumed
    <3> QED
      BY <3>1
  <2>2. Kick(new, Cpus)
    BY <1>17 DEF MonitorCont
  <2>3. \A c \in Cpus : ~cpu'[c].stop /\ ~cpu'[c].stopped
    <3> HIDE DEF new
    <3> QED
      BY <2>1, <2>2, KickEffect
  <2> QED
    BY <2>3
<1>18. CASE MonitorReset
  BY <1>18 DEF MonitorReset, Spend
<1>19. CASE \E c \in Cpus : IoInterrupts(c)
  <2> PICK c \in Cpus : IoInterrupts(c)
    BY <1>19
  <2> DEFINE new == [cpu EXCEPT ![c].irq = TRUE]
  <2>1. new \in [Cpus -> CpuStates]
    BY ZenonT(60)
  <2>2. \A d \in Cpus : new[d].stop = cpu[d].stop /\ new[d].stopped = cpu[d].stopped
    OBVIOUS
  <2>3. Kick(new, {c})
    BY DEF IoInterrupts
  <2>4. \A d \in Cpus : cpu'[d].stop = cpu[d].stop /\ cpu'[d].stopped = cpu[d].stopped
    <3> HIDE DEF new
    <3> QED
      BY <2>1, <2>2, <2>3, KickEffect
  <2> QED
    BY <2>4 DEF IoInterrupts, Spend
<1>20. CASE \E c \in Cpus : RunOnCpu(c)
  <2> PICK c \in Cpus : RunOnCpu(c)
    BY <1>20
  <2> DEFINE new == [cpu EXCEPT ![c].work = TRUE]
  <2>1. new \in [Cpus -> CpuStates]
    BY Zenon
  <2>2. \A d \in Cpus : new[d].stop = cpu[d].stop /\ new[d].stopped = cpu[d].stopped
    OBVIOUS
  <2>3. Kick(new, {c})
    BY DEF RunOnCpu
  <2>4. \A d \in Cpus : cpu'[d].stop = cpu[d].stop /\ cpu'[d].stopped = cpu[d].stopped
    <3> HIDE DEF new
    <3> QED
      BY <2>1, <2>2, <2>3, KickEffect
  <2> QED
    BY <2>4 DEF RunOnCpu, Spend
<1>21. CASE SpuriousWakeup \/ Exited \/ UNCHANGED vars
  BY <1>21, Zenon DEF SpuriousWakeup, IoWaits, TcgWaits, Exited, vars
<1> QED
  BY <1>1, <1>2, <1>3, <1>4, <1>5, <1>6, <1>7, <1>8, <1>9, <1>10, <1>11, <1>12, <1>13,
     <1>14, <1>15, <1>16, <1>17, <1>18, <1>19, <1>20, <1>21
  DEF Next, TcgStep, GuestStep, IoStep, Command

LEMMA WorkStep == PcInv /\ CpuOK /\ WorkOutlivesNoCall /\ [Next]_vars => WorkOutlivesNoCall'
<1> SUFFICES ASSUME PcInv, CpuOK, WorkOutlivesNoCall, [Next]_vars PROVE WorkOutlivesNoCall'
  OBVIOUS
<1> USE NAssumption DEF PcInv, PcOK, CpuOK, CpuStates, WorkOutlivesNoCall, IoOwns, TcgOwns,
       machine, TcgOnly, IoOnly, Signalled, InWake
<1>1. CASE TcgStart \/ SystemReady \/ BeginRound \/ NextCpu \/ EnterGuest
  BY <1>1, ZenonT(60) DEF TcgStart, SystemReady, TcgGoes, TcgWait, BeginRound, NextCpu, Succ,
              cpu_can_run, EnterGuest
<1>2. CASE LeaveGuest \/ TakeInterrupt \/ EndRound \/ SleepIdle \/ LetIoProceed
  BY <1>2 DEF LeaveGuest, Leave, Succ, TakeInterrupt, EndRound, SleepIdle, TcgGoes,
              TcgWait, LetIoProceed
<1>3. CASE TcgAcquire \/ Wfi
  BY <1>3 DEF TcgAcquire, Wfi, Leave
<1>4. CASE WaitIoEventCommon
  BY <1>4, Zenon DEF WaitIoEventCommon, Announced
<1>5. CASE \E c \in Cpus : GuestInterrupts(c)
  BY <1>5 DEF GuestInterrupts
<1>6. CASE \E r \in Requests \ {"debug"} : GuestRequests(r)
  BY <1>6 DEF GuestRequests, Requests
<1>7. CASE Breakpoint \/ CpuSignal \/ MachineReady \/ SelectReturns \/ KickThread \/
           HandlersDone \/ Unlock \/ Trylock \/ Lock
  BY <1>7 DEF Breakpoint, CpuSignal, MachineReady, SelectReturns, KickThread,
              HandlersDone, IoGoes, Unlock, Trylock, Lock, Locked
<1>8. CASE DebugRequested
  BY <1>8, VmStopEffect, Zenon DEF DebugRequested, Takes, Without, IoGoes
<1>9. CASE ShutdownRequested
  BY <1>9, VmStopEffect, PauseEffect, Zenon DEF ShutdownRequested, Takes, Without, IoGoes
<1>10. CASE ResetRequested
  BY <1>10, PauseEffect DEF ResetRequested, Takes, Without, IoGoes
<1>11. CASE ResetSystem
  <2> DEFINE new == [c \in Cpus |-> [Resumed(c) EXCEPT !.halted = FALSE, !.irq = FALSE,
                                                     !.exit_request = FALSE]]
  <2>1. new \in [Cpus -> CpuStates] /\ \A c \in Cpus : new[c].work = cpu[c].work
    BY ZenonT(60) DEF Resumed
  <2>2. Kick(new, Cpus)
    BY <1>11, Zenon DEF ResetSystem
  <2>3. \A c \in Cpus : cpu'[c].work = cpu[c].work
    <3> HIDE DEF new
    <3> QED
      BY <2>1, <2>2, KickEffect
  <2> QED
    BY <1>11, <2>3, Zenon DEF ResetSystem, Spend
<1>12. CASE VmstopRequested
  BY <1>12, VmStopEffect, Zenon DEF VmstopRequested, Takes, Without, IoGoes
<1>13. CASE CpusCreated
  BY <1>13 DEF CpusCreated, IoGoes
<1>14. CASE Paused
  BY <1>14, KickEffect DEF Paused
<1>15. CASE WorkFinished
  BY <1>15 DEF WorkFinished
<1>16. CASE MonitorStop
  BY <1>16, VmStopEffect, Zenon DEF MonitorStop, Spend
<1>17. CASE MonitorCont
  <2> DEFINE new == [c \in Cpus |-> Resumed(c)]
  <2>1. new \in [Cpus -> CpuStates] /\ \A c \in Cpus : new[c].work = cpu[c].work
    BY ZenonT(60) DEF Resumed
  <2>2. Kick(new, Cpus)
    BY <1>17 DEF MonitorCont
  <2>3. \A c \in Cpus : cpu'[c].work = cpu[c].work
    <3> HIDE DEF new
    <3> QED
      BY <2>1, <2>2, KickEffect
  <2> QED
    BY <1>17, <2>3 DEF MonitorCont, Spend
<1>18. CASE MonitorReset
  BY <1>18 DEF MonitorReset, Spend
<1>19. CASE \E c \in Cpus : IoInterrupts(c)
  <2> PICK c \in Cpus : IoInterrupts(c)
    BY <1>19
  <2> DEFINE new == [cpu EXCEPT ![c].irq = TRUE]
  <2>1. new \in [Cpus -> CpuStates]
    BY ZenonT(60)
  <2>2. \A d \in Cpus : new[d].work = cpu[d].work
    OBVIOUS
  <2>3. Kick(new, {c})
    BY DEF IoInterrupts
  <2>4. \A d \in Cpus : cpu'[d].work = cpu[d].work
    <3> HIDE DEF new
    <3> QED
      BY <2>1, <2>2, <2>3, KickEffect
  <2> QED
    BY <2>4 DEF IoInterrupts, Spend
<1>20. CASE \E c \in Cpus : RunOnCpu(c)
  BY <1>20 DEF RunOnCpu, Spend
<1>21. CASE SpuriousWakeup \/ Exited \/ UNCHANGED vars
  BY <1>21 DEF SpuriousWakeup, IoWaits, TcgWaits, Exited, vars
<1> QED
  BY <1>1, <1>2, <1>3, <1>4, <1>5, <1>6, <1>7, <1>8, <1>9, <1>10, <1>11, <1>12, <1>13,
     <1>14, <1>15, <1>16, <1>17, <1>18, <1>19, <1>20, <1>21
  DEF Next, TcgStep, GuestStep, IoStep, Command

-----------------------------------------------------------------------------
\* The inductive invariant holds: every behaviour of the two threads keeps it.
THEOREM IoInvariant == Spec => []IoInv
<1>1. Init => IoInv
  <2> SUFFICES ASSUME Init PROVE IoInv
    OBVIOUS
  <2>1. FlagsOK
    <3>1. left \in 0 .. MaxEvents
      BY NAssumption DEF Init
    <3> QED
      BY <3>1, Zenon DEF Init, FlagsOK
  <2>3. MissedOK
    BY Zenon DEF Init, MissedOK
  <2>2. Startup /\ StoppedMachineIsStill /\ StoppedForAReason /\ WorkOutlivesNoCall
    BY DEF Init, Startup, StoppedMachineIsStill, StoppedForAReason, WorkOutlivesNoCall, NewCpu
  <2> QED
    BY <2>1, <2>2, <2>3, PcInit, CpuInit DEF IoInv
<1>2. IoInv /\ [Next]_vars => IoInv'
  <2>1. PcInv => vm_running \in BOOLEAN
    BY DEF PcInv, PcOK
  <2> QED
    BY <2>1, PcStep, CpuStep, FlagsStep, MissedStep, StartupStep, StillStep, ReasonStep, WorkStep DEF IoInv
<1> QED
  BY <1>1, <1>2, PTL DEF Spec

\* The mutex excludes: the two threads are never both at a place of the code
\* that needs it (cpus.c, vl.c main_loop_wait), and the variables have their types.
THEOREM IoTypes == Spec => []TypeOK
<1>1. IoInv => TypeOK
  BY DEF IoInv, PcInv, PcOK, PauseTarget, CpuOK, FlagsOK, MissedOK, TypeOK
<1> QED
  BY <1>1, IoInvariant, PTL

\* No CPU executes guest code in a stopped machine, whichever of vm_stop, a
\* reset or a resume came last (cpus.c pause_all_vcpus, cpu_can_run).
THEOREM StillWhenStopped == Spec => []StoppedMachineIsStill
  BY IoInvariant, PTL DEF IoInv

\* A CPU of a running machine stands still only for a reason main_loop comes to
\* (cpus.c cpu_stop_current, resume_all_vcpus).
THEOREM NoCpuForgotten == Spec => []StoppedForAReason
  BY IoInvariant, PTL DEF IoInv

\* The TCG thread never finds an item of work whose run_on_cpu has returned
\* (cpus.c run_on_cpu, flush_queued_work).
THEOREM WorkIsAwaited == Spec => []WorkOutlivesNoCall
  BY IoInvariant, PTL DEF IoInv
=============================================================================
