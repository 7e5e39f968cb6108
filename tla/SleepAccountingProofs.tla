----------------------- MODULE SleepAccountingProofs -----------------------
(***************************************************************************)
(* Sleep is never overcounted, however long vm_clock runs.  The inductive  *)
(* invariant adds to the property what is true of an interval still open:  *)
(* as long as the CPU is halted, closing it now would not overcount.  An   *)
(* open interval of a CPU that is not halted (left so by a reset) is       *)
(* unconstrained; it is never closed, only overwritten by the next WFI.    *)
(***************************************************************************)
EXTENDS SleepAccounting, TLAPS

SleepInv == TypeOK /\ SleepNotOvercounted /\ OpenIntervalIsSleep

\* Closing the interval of a halted CPU (stop_sleep_cycle_count) keeps the
\* energy within the time slept.
LEMMA CloseWithinSleep ==
  ASSUME SleepInv, halted, StopSleep, now' = now, slept' = slept
  PROVE  /\ energy' \in Nat /\ start' \in Nat /\ start' <= now'
         /\ started' = FALSE /\ start' = 0
         /\ energy' <= slept'
<1>1. CASE started
  <2>1. energy' = energy + (now - start) /\ start' = 0 /\ started' = FALSE
    BY <1>1 DEF StopSleep
  <2>2. energy + (now - start) <= slept
    BY <1>1 DEF SleepInv, OpenIntervalIsSleep
  <2>3. now \in Nat /\ start \in Nat /\ energy \in Nat /\ start <= now
    BY DEF SleepInv, TypeOK
  <2> QED  BY <2>1, <2>2, <2>3
<1>2. CASE ~started
  <2>1. UNCHANGED <<started, start, energy>>
    BY <1>2 DEF StopSleep, timer
  <2>2. started = FALSE /\ start = 0
    BY <1>2 DEF SleepInv, TypeOK
  <2>3. now \in Nat /\ energy \in Nat /\ energy <= slept
    BY DEF SleepInv, TypeOK, SleepNotOvercounted
  <2> QED  BY <2>1, <2>2, <2>3
<1> QED  BY <1>1, <1>2

\* Every step of the emulator keeps the invariant.
LEMMA SleepStep == SleepInv /\ [Next]_vars => SleepInv'
<1> SUFFICES ASSUME SleepInv, [Next]_vars PROVE SleepInv'
  OBVIOUS
<1> USE DEF SleepInv
<1>1. CASE Tick
  <2>1. now' = now + 1 /\ UNCHANGED <<at, halted, irq, running, started, start, energy>>
    BY <1>1 DEF Tick, timer
  <2>2. slept' = IF halted THEN slept + 1 ELSE slept
    BY <1>1 DEF Tick
  <2>3. TypeOK'
    BY <2>1, <2>2 DEF TypeOK
  <2>4. SleepNotOvercounted'
    BY <2>1, <2>2 DEF TypeOK, SleepNotOvercounted
  <2>5. OpenIntervalIsSleep'
    BY <2>1, <2>2 DEF TypeOK, OpenIntervalIsSleep
  <2> QED  BY <2>3, <2>4, <2>5
<1>2. CASE Wfi
  <2>1. /\ UNCHANGED <<now, irq, running, slept, energy>>
        /\ halted' = TRUE /\ started' = TRUE /\ start' = now /\ at' = "idle"
    BY <1>2 DEF Wfi, StartSleep
  <2>2. TypeOK'
    BY <2>1 DEF TypeOK
  <2>3. SleepNotOvercounted' /\ OpenIntervalIsSleep'
    BY <2>1 DEF TypeOK, SleepNotOvercounted, OpenIntervalIsSleep
  <2> QED  BY <2>2, <2>3
<1>3. ASSUME UNCHANGED <<now, halted, slept, started, start, energy>>,
             at' \in {"code", "idle", "wait", "enter"},
             irq' \in BOOLEAN, running' \in BOOLEAN
      PROVE  SleepInv'
  BY <1>3 DEF TypeOK, SleepNotOvercounted, OpenIntervalIsSleep
<1>4. CASE LeaveExec \/ DeviceIrq \/ DeviceStops \/ MainLoopWait
  <2>1. irq \in BOOLEAN /\ running \in BOOLEAN /\ at \in {"code", "idle", "wait", "enter"}
    BY DEF TypeOK
  <2> QED  BY <1>3, <1>4, <2>1 DEF LeaveExec, DeviceIrq, DeviceStops, MainLoopWait, timer
<1>5. ASSUME halted, StopSleep, UNCHANGED <<now, irq, running, slept>>, halted' \in BOOLEAN,
             at' \in {"code", "idle", "wait", "enter"}
      PROVE  SleepInv'
  <2>1. /\ energy' \in Nat /\ start' \in Nat /\ start' <= now'
        /\ started' = FALSE /\ start' = 0 /\ energy' <= slept'
    BY <1>5, CloseWithinSleep
  <2>2. TypeOK'
    BY <1>5, <2>1 DEF TypeOK
  <2> QED  BY <2>1, <2>2 DEF SleepNotOvercounted, OpenIntervalIsSleep
<1>6. CASE IdlePoll
  <2>1. CASE running /\ halted
    BY <1>5, <1>6, <2>1 DEF IdlePoll, TypeOK
  <2>2. CASE ~(running /\ halted)
    BY <1>3, <1>6, <2>2 DEF IdlePoll, TypeOK, timer
  <2> QED  BY <2>1, <2>2
<1>7. CASE MainLoopReset
  <2>1. /\ UNCHANGED <<now, started, start, energy, slept>>
        /\ halted' = FALSE /\ irq' = FALSE /\ running' \in BOOLEAN /\ at' = "enter"
    BY <1>7 DEF MainLoopReset, timer
  <2> QED  BY <2>1 DEF TypeOK, SleepNotOvercounted, OpenIntervalIsSleep
<1>8. CASE EnterNot
  <2>1. CASE running
    BY <1>5, <1>8, <2>1 DEF EnterNot, TypeOK
  <2>2. CASE ~running
    BY <1>3, <1>8, <2>2 DEF EnterNot, TypeOK, timer
  <2> QED  BY <2>1, <2>2
<1>9. CASE EnterExec
  <2>1. CASE halted
    BY <1>5, <1>9, <2>1 DEF EnterExec, TypeOK
  <2>2. CASE ~halted
    <3>1. UNCHANGED <<now, slept, started, start, energy, irq, running>> /\ at' = "code"
      BY <1>9, <2>2 DEF EnterExec, timer
    <3>2. halted' = halted
      BY <1>9, <2>2 DEF EnterExec, TypeOK
    <3>3. irq' \in BOOLEAN /\ running' \in BOOLEAN
      BY <3>1 DEF TypeOK
    <3> QED  BY <1>3, <3>1, <3>2, <3>3
  <2> QED  BY <2>1, <2>2
<1>10. CASE UNCHANGED vars
  BY <1>10 DEF vars, TypeOK, SleepNotOvercounted, OpenIntervalIsSleep
<1> QED  BY <1>1, <1>2, <1>4, <1>6, <1>7, <1>8, <1>9, <1>10 DEF Next

\* The sleep energy never exceeds the time the CPU was halted, and times stay
\* well formed, for any length of run.
THEOREM SleepWithinHalt == Spec => [](TypeOK /\ SleepNotOvercounted)
<1>1. Init => SleepInv
  <2> SUFFICES ASSUME Init PROVE SleepInv
    OBVIOUS
  <2>1. now = 0 /\ slept = 0 /\ energy = 0 /\ start = 0 /\ started = FALSE
    BY DEF Init
  <2>2. at = "enter" /\ halted = FALSE /\ irq = FALSE /\ running = TRUE
    BY DEF Init
  <2>3. now \in Nat /\ slept \in Nat /\ energy \in Nat /\ start \in Nat /\ start <= now
    BY <2>1
  <2>4. SleepNotOvercounted
    BY <2>1 DEF SleepNotOvercounted
  <2>5. TypeOK /\ OpenIntervalIsSleep
    BY <2>1, <2>2, <2>3, Zenon DEF TypeOK, OpenIntervalIsSleep
  <2> QED  BY <2>4, <2>5 DEF SleepInv
<1>2. SleepInv => TypeOK /\ SleepNotOvercounted
  BY DEF SleepInv
<1> QED  BY <1>1, <1>2, SleepStep, PTL DEF Spec
=============================================================================
