--------------------------- MODULE MainLoopProofs ---------------------------
(***************************************************************************)
(* Safety of the main loop against its own signal handler, for any set of  *)
(* requests and any number of signals: the alarm is never lost, select     *)
(* never blocks over work, and no kick leaves the CPU in a closed chain,   *)
(* but for one that an invalidation keeps from reaching that chain.        *)
(***************************************************************************)
EXTENDS MainLoop, TLAPS

\* The host timer is set, or alarm_timer->expired says it must be: by
\* host_alarm_handler, qemu_mod_timer and qemu_run_all_timers together.
THEOREM AlarmNeverLost == Spec => []AlarmAlive
<1>1. Init => AlarmAlive
  BY DEF Init, AlarmAlive
<1>2. AlarmAlive /\ [Next]_vars => AlarmAlive'
  <2> SUFFICES ASSUME AlarmAlive, [Next]_vars PROVE AlarmAlive'
    OBVIOUS
  <2>1. CASE HostAlarmHandler
    BY <2>1 DEF HostAlarmHandler, AlarmAlive
  <2>2. CASE Rearm
    BY <2>2 DEF Rearm, AlarmAlive
  <2>3. CASE DeviceModTimer
    BY <2>3 DEF DeviceModTimer, AlarmAlive
  <2>4. CASE RunTimers \/ IoPoll
    BY <2>4 DEF RunTimers, IoPoll, AlarmAlive
  <2>5. CASE MainStep /\ ~RunTimers /\ ~IoPoll /\ ~Rearm
    BY <2>5 DEF MainStep, AlarmAlive, alarm, ExecAll, For, CanRun, EnterExec, SetSingle,
       TransferExit, TakeInterrupt, TestExit, FindTb, SetCurrent, StartTb, InvalidateEnd,
       LeaveExec, NextCpu, ClearExit, DecideBlocking, Select, ServeRequests
  <2>6. CASE CodeExit \/ Wfi \/ DeviceRaisesIrq \/ DeviceLowersIrq \/ InvalidateBegin
    BY <2>6 DEF AlarmAlive, alarm, CodeExit, Wfi, DeviceRaisesIrq, DeviceLowersIrq,
       InvalidateBegin
  <2>8. CASE \E r \in Requests : DeviceRequests(r)
    <3>1. UNCHANGED <<armed, expired>>
      BY <2>8 DEF DeviceRequests, alarm
    <3> QED  BY <3>1 DEF AlarmAlive
  <2>7. CASE UNCHANGED vars
    BY <2>7 DEF vars, AlarmAlive
  <2> QED  BY <2>1, <2>2, <2>3, <2>4, <2>5, <2>6, <2>7, <2>8 DEF Next, GuestStep
<1> QED  BY <1>1, <1>2, PTL DEF Spec

-----------------------------------------------------------------------------
\* Between the moment the pipe is drained and the moment the alarm or the
\* request is served, the thread does not come by select.
Announced ==
  /\ pending => event \/ at = "timers"
  /\ requests # {} => event \/ at \in {"timers", "rearm", "requests"}

\* What all_cpu_threads_idle saw is still so when select is called.
IdleStillHolds == at = "select" /\ ~CpuIsIdle => nonblocking

SelectInv == Announced /\ IdleStillHolds

\* select is never entered without a timeout of zero or a readable pipe while
\* an alarm, a request or a runnable CPU waits.
THEOREM NeverSleepsOverWork == Spec => []NoSleepOverWork
<1>1. Init => SelectInv
  BY DEF Init, SelectInv, Announced, IdleStillHolds
<1>2. SelectInv /\ [Next]_vars => SelectInv'
  <2> SUFFICES ASSUME SelectInv, [Next]_vars PROVE SelectInv'
    OBVIOUS
  <2> USE DEF SelectInv, Announced, IdleStillHolds, CpuIsIdle
  <2>1. CASE HostAlarmHandler
    BY <2>1 DEF HostAlarmHandler, NotifyEvent, where, machine
  <2>2. CASE IoPoll
    BY <2>2 DEF IoPoll
  <2>3. CASE RunTimers \/ Rearm \/ ServeRequests
    BY <2>3 DEF RunTimers, Rearm, ServeRequests, alarm, kick, machine
  <2>4. CASE DecideBlocking
    BY <2>4 DEF DecideBlocking, alarm, kick, machine
  <2>5. CASE \/ ExecAll \/ For \/ CanRun \/ EnterExec \/ SetSingle \/ TransferExit
             \/ TakeInterrupt \/ TestExit \/ FindTb \/ SetCurrent \/ StartTb
             \/ InvalidateEnd \/ LeaveExec \/ NextCpu \/ ClearExit \/ Select
    BY <2>5 DEF alarm, kick, machine, ExecAll, For, CanRun, EnterExec, SetSingle,
       TransferExit, TakeInterrupt, TestExit, FindTb, SetCurrent, StartTb, InvalidateEnd,
       LeaveExec, NextCpu, ClearExit, Select
  <2>6. CASE \/ CodeExit \/ Wfi \/ DeviceRaisesIrq \/ DeviceLowersIrq
             \/ DeviceModTimer \/ InvalidateBegin
    <3>1. /\ UNCHANGED <<pending, event, requests, nonblocking>>
          /\ at = "code" /\ at' \in {"code", "irq", "leave", "smc"}
      BY <2>6 DEF alarm, kick, machine, CodeExit, Wfi, DeviceRaisesIrq, DeviceLowersIrq,
         DeviceModTimer, InvalidateBegin
    <3> QED  BY <3>1
  <2>8. CASE \E r \in Requests : DeviceRequests(r)
    <3>1. event' = TRUE /\ at' = at /\ at = "code"
      BY <2>8 DEF DeviceRequests, NotifyEvent
    <3> QED  BY <3>1
  <2>7. CASE UNCHANGED vars
    BY <2>7 DEF vars
  <2> QED  BY <2>1, <2>2, <2>3, <2>4, <2>5, <2>6, <2>7, <2>8 DEF Next, MainStep, GuestStep
<1>3. SelectInv => NoSleepOverWork
  BY DEF SelectInv, Announced, IdleStillHolds, NoSleepOverWork
<1> QED  BY <1>1, <1>2, <1>3, PTL DEF Spec

-----------------------------------------------------------------------------
InExec == {"transfer", "irq", "exit", "find", "current", "start", "leave"} \cup InCode

\* Inside cpu_exec the handler finds cpu_single_env; from the moment current_tb
\* is set a chained TB can be unlinked through it, and inside generated code it
\* has not been asked to.  While TBs are invalidated saved_tb stands for it.
ChainInv ==
  /\ at \in InExec => single
  /\ at \notin InCode => linked
  /\ at = "start" /\ chained => currentTb
  /\ at = "code" /\ chained /\ ~missed => currentTb /\ ~envExit
  /\ at = "smc" /\ chained /\ ~missed => saved /\ ~envExit

\* A kick at any instruction between the tests of exit_request and the generated
\* code, or in that code, breaks the chain, unless tb_invalidate_phys_page_range
\* hides current_tb at that moment or has cut the chain off from it.
THEOREM KickAlwaysBreaksChain == Spec => []KickBreaksChain
<1>1. Init => ChainInv
  BY DEF Init, ChainInv, InExec, InCode
<1>2. ChainInv /\ [Next]_vars => ChainInv'
  <2> SUFFICES ASSUME ChainInv, [Next]_vars PROVE ChainInv'
    OBVIOUS
  <2> USE DEF ChainInv, InExec, InCode
  <2>1. CASE HostAlarmHandler
    BY <2>1 DEF HostAlarmHandler, NotifyEvent, UnlinkTb, where, code
  <2>2. CASE StartTb
    BY <2>2 DEF StartTb, where, kick
  <2>3. CASE SetCurrent \/ FindTb \/ SetSingle \/ LeaveExec
    BY <2>3 DEF SetCurrent, FindTb, SetSingle, LeaveExec, where, kick, code
  <2>4. CASE \/ ExecAll \/ For \/ CanRun \/ EnterExec \/ TransferExit \/ TakeInterrupt
             \/ TestExit \/ NextCpu \/ ClearExit \/ DecideBlocking \/ Select \/ IoPoll
             \/ RunTimers \/ Rearm \/ ServeRequests
    BY <2>4 DEF ExecAll, For, CanRun, EnterExec, TransferExit, TakeInterrupt, TestExit,
       NextCpu, ClearExit, DecideBlocking, Select, IoPoll, RunTimers, Rearm, ServeRequests,
       where, kick, code
  <2>5. CASE InvalidateBegin
    <3>1. at = "code" /\ at' = "smc" /\ UNCHANGED <<single, missed, envExit>>
      BY <2>5 DEF InvalidateBegin, where, kick
    <3>2. saved' = currentTb
      BY <2>5 DEF InvalidateBegin
    <3>3. chained' = chained \/ chained' = FALSE
      BY <2>5 DEF InvalidateBegin
    <3> QED  BY <3>1, <3>2, <3>3
  <2>6. CASE InvalidateEnd
    <3>1. at = "smc" /\ at' = "code" /\ UNCHANGED <<single, envExit>>
      BY <2>6 DEF InvalidateEnd, where, kick
    <3>2. chained' => chained /\ ~(saved /\ irq /\ linked)
      BY <2>6 DEF InvalidateEnd
    <3>3. ~missed' => ~missed /\ ~(chained /\ saved /\ irq /\ ~linked)
      BY <2>6 DEF InvalidateEnd
    <3>4. saved /\ ~irq => currentTb'
      BY <2>6 DEF InvalidateEnd
    <3> QED  BY <3>1, <3>2, <3>3, <3>4
  <2>7. CASE CodeExit \/ Wfi \/ DeviceLowersIrq \/ DeviceModTimer
    BY <2>7 DEF CodeExit, Wfi, DeviceLowersIrq, DeviceModTimer, where, kick, code
  <2>8. CASE DeviceRaisesIrq \/ \E r \in Requests : DeviceRequests(r)
    BY <2>8 DEF DeviceRaisesIrq, DeviceRequests, NotifyEvent, UnlinkTb, where, kick, code
  <2>9. CASE UNCHANGED vars
    BY <2>9 DEF vars
  <2> QED  BY <2>1, <2>2, <2>3, <2>4, <2>5, <2>6, <2>7, <2>8, <2>9
         DEF Next, MainStep, GuestStep
<1>3. ChainInv => KickBreaksChain
  BY DEF ChainInv, KickBreaksChain
<1> QED  BY <1>1, <1>2, <1>3, PTL DEF Spec
=============================================================================
