----------------------- MODULE EnergyAccountingProofs -----------------------
(***************************************************************************)
(* The invariants of EnergyAccounting for every set of counters, every     *)
(* board, every word size and every content of uninitialised memory.       *)
(***************************************************************************)
EXTENDS EnergyAccounting, TLAPS

\* Before the machine runs nothing is charged and no clock change is counted;
\* a running board with a variability module has a power model.
Startup ==
  /\ phase # "run" => /\ cycles = Zero
                      /\ chkpt = Zero
                      /\ changes = 0
  /\ phase = "run" /\ board # "other" => model
  /\ changes > 0 => phase = "run" /\ board = "stellaris"

\* What a class carries over is the energy of one clock period.
PrevIsLastPeriod ==
  changes > 0 => \A i \in Classes : /\ older[i] <= chkpt[i]
                                    /\ prev[i] = chkpt[i] - older[i]

\* A board without clock changes never carries anything over.
NothingCarried ==
  board # "stellaris" => phase # "sysinit" /\ chkpt = Zero /\ prev = Zero

\* The inductive invariant.
EnergyInv ==
  /\ TypeOK
  /\ CheckpointBehind
  /\ Startup
  /\ PrevIsLastPeriod
  /\ NothingCarried
  /\ VersatileEnergyExact

-----------------------------------------------------------------------------
\* uint64_t addition and subtraction stay in the word, and subtraction is exact
\* when it does not borrow.
LEMMA WordArithmetic ==
  ASSUME NEW a \in Word, NEW b \in Word
  PROVE  /\ Add(a, b) \in Word
         /\ Sub(a, b) \in Word
         /\ b <= a => Sub(a, b) = a - b
         /\ Add(a, 0) = a
BY WordAssumption DEF Word, Add, Sub

\* serve_active_power and calculate_active_energy return words whatever the
\* caller's structure held before.
LEMMA EnergiesAreWords ==
  ASSUME TypeOK, NEW g \in [Counters -> Word]
  PROVE  /\ ReadActivePower(g) \in [Counters -> Word]
         /\ ActiveEnergy(g) \in [Counters -> Word]
<1>1. \A c \in Counters : ReadActivePower(g)[c] \in Word
  BY WordArithmetic DEF ReadActivePower, TypeOK
<1>2. ReadActivePower(g) \in [Counters -> Word]
  BY <1>1 DEF ReadActivePower
<1>3. \A c \in Counters : ActiveEnergy(g)[c] \in Word
  BY <1>1, WordArithmetic DEF ActiveEnergy, TypeOK
<1> QED
  BY <1>2, <1>3 DEF ActiveEnergy

\* accumulate_energy keeps the carried-over energies in the word.
LEMMA AccumulateIsWord ==
  ASSUME TypeOK, NEW e \in [Counters -> Word]
  PROVE  Accumulate(e) \in [Counters -> Word]
<1>1. \A c \in Counters : Accumulate(e)[c] \in Word
  BY WordArithmetic DEF Accumulate, TypeOK
<1> QED
  BY <1>1 DEF Accumulate

LEMMA GarbageIsWord ==
  /\ [Counters -> Garbage] \subseteq [Counters -> Word]
  /\ Zero \in [Counters -> Word]
<1>1. Garbage \subseteq Word /\ 0 \in Word
  BY WordAssumption DEF Word
<1>2. [Counters -> Garbage] \subseteq [Counters -> Word]
  BY <1>1
<1>3. Zero \in [Counters -> Word]
  BY <1>1 DEF Zero
<1> QED
  BY <1>2, <1>3

\* A clock change leaves words in the carried-over energies and copies the
\* totals into the checkpoints.
LEMMA FreqChangeTypes ==
  ASSUME TypeOK, FreqChangedSetChkpt
  PROVE  /\ prev' \in [Counters -> Word]
         /\ chkpt' = cycles
<1>1. PICK g \in [Counters -> Garbage] : prev' = Accumulate(ReadActivePower(g))
  BY DEF FreqChangedSetChkpt
<1> QED
  BY <1>1, GarbageIsWord, EnergiesAreWords, AccumulateIsWord
  DEF FreqChangedSetChkpt

-----------------------------------------------------------------------------
\* Board start-up begins with nothing charged and no energy carried over.
LEMMA EnergyInit == Init => EnergyInv
<1> SUFFICES ASSUME Init PROVE EnergyInv
  OBVIOUS
<1>1. /\ board \in Boards
      /\ phase \in {"sysinit", "varmod", "run"}
      /\ phase = "sysinit" => board = "stellaris"
      /\ phase = "run" => board = "other"
  <2>1. CASE board = "stellaris"
    BY <2>1 DEF Init
  <2>2. CASE board = "versatilepb"
    BY <2>2 DEF Init
  <2>3. CASE board = "other"
    BY <2>3 DEF Init
  <2> QED
    BY <2>1, <2>2, <2>3 DEF Init, Boards
<1>2. TypeOK
  <2>1. reply \in Replies
    BY GarbageIsWord DEF Init, Replies
  <2>2. changes \in 0 .. 2
    BY DEF Init
  <2>4. model \in BOOLEAN /\ rcc \in Rccs /\ older = Zero
    BY RccAssumption DEF Init
  <2>3. cycles = Zero /\ chkpt = Zero /\ prev = Zero
    BY DEF Init
  <2> QED
    BY <1>1, <2>1, <2>2, <2>3, <2>4, GarbageIsWord DEF TypeOK
<1>3. CheckpointBehind
  BY DEF Init, CheckpointBehind, Zero
<1>4. changes = 0 /\ cycles = Zero /\ chkpt = Zero /\ prev = Zero
      /\ reply.from = "none"
  BY DEF Init
<1>5. Startup /\ PrevIsLastPeriod
  BY <1>1, <1>4 DEF Startup, PrevIsLastPeriod
<1>6. NothingCarried /\ VersatileEnergyExact
  BY <1>1, <1>4 DEF NothingCarried, VersatileEnergyExact
<1> QED
  BY <1>2, <1>3, <1>5, <1>6 DEF EnergyInv

-----------------------------------------------------------------------------
\* Start-up of the Stellaris clock control: checkpoints stay zero, whatever
\* lands in the carried-over energies.
LEMMA SysInitStep == EnergyInv /\ SysInit => EnergyInv'
<1> SUFFICES ASSUME EnergyInv, SysInit PROVE EnergyInv'
  OBVIOUS
<1>1. prev' \in [Counters -> Word] /\ chkpt' = cycles /\ cycles = Zero /\ changes = 0
  BY FreqChangeTypes DEF EnergyInv, SysInit, Startup
<1>2. TypeOK'
  BY <1>1 DEF EnergyInv, TypeOK, SysInit
<1>3. CheckpointBehind'
  BY <1>1 DEF SysInit, CheckpointBehind, Zero
<1>4. Startup' /\ PrevIsLastPeriod'
  BY <1>1 DEF SysInit, Startup, PrevIsLastPeriod
<1>5. NothingCarried' /\ VersatileEnergyExact'
  BY DEF EnergyInv, SysInit, NothingCarried, VersatileEnergyExact
<1> QED
  BY <1>2, <1>3, <1>4, <1>5 DEF EnergyInv

\* The module's reset happens while every checkpoint is zero.
LEMMA VarmodInitStep == EnergyInv /\ VarmodInit => EnergyInv'
<1> SUFFICES ASSUME EnergyInv, VarmodInit PROVE EnergyInv'
  OBVIOUS
<1>1. TypeOK'
  BY GarbageIsWord DEF EnergyInv, TypeOK, VarmodInit
<1>2. CheckpointBehind'
  BY DEF EnergyInv, Startup, VarmodInit, CheckpointBehind, Zero
<1>3. Startup' /\ PrevIsLastPeriod'
  BY DEF EnergyInv, VarmodInit, Startup, PrevIsLastPeriod
<1>4. NothingCarried' /\ VersatileEnergyExact'
  BY DEF EnergyInv, VarmodInit, NothingCarried, VersatileEnergyExact
<1> QED
  BY <1>1, <1>2, <1>3, <1>4 DEF EnergyInv

\* Charging a block only moves totals up.
LEMMA IncrementStep ==
  ASSUME EnergyInv, NEW cost \in [Classes -> 0 .. MaxCost],
         IncrementCycleCounters(cost)
  PROVE  EnergyInv'
<1>1. \A c \in Counters : cycles'[c] \in Word /\ cycles[c] <= cycles'[c]
  <2> SUFFICES ASSUME NEW c \in Counters
               PROVE  cycles'[c] \in Word /\ cycles[c] <= cycles'[c]
    OBVIOUS
  <2>1. cycles[c] \in Word
    BY DEF EnergyInv, TypeOK
  <2>2. CASE c \in Classes
    <3>1. cost[c] \in Nat /\ cycles[c] + cost[c] <= MaxCycles
      BY <2>2, WordAssumption DEF IncrementCycleCounters
    <3>2. cycles'[c] = Add(cycles[c], cost[c])
      BY <2>2 DEF IncrementCycleCounters
    <3> QED
      BY <2>1, <3>1, <3>2, WordAssumption DEF Add, Word
  <2>3. CASE c \notin Classes
    BY <2>1, <2>3, WordAssumption DEF IncrementCycleCounters, Word
  <2> QED
    BY <2>2, <2>3
<1>2. TypeOK'
  <2>1. cycles' \in [Counters -> Word]
    BY <1>1 DEF IncrementCycleCounters
  <2> QED
    BY <2>1 DEF EnergyInv, TypeOK, IncrementCycleCounters
<1>3. CheckpointBehind'
  BY <1>1, WordAssumption
  DEF EnergyInv, TypeOK, IncrementCycleCounters, CheckpointBehind, Word
<1>4. Startup' /\ PrevIsLastPeriod'
  BY DEF EnergyInv, IncrementCycleCounters, Startup, PrevIsLastPeriod
<1>5. NothingCarried' /\ VersatileEnergyExact'
  BY DEF EnergyInv, IncrementCycleCounters, NothingCarried, VersatileEnergyExact
<1> QED
  BY <1>2, <1>3, <1>4, <1>5 DEF EnergyInv

\* A clock change: the energy of the closing period is the difference of two
\* checkpoints, because the power model is installed and nothing borrows.
LEMMA WriteRccStep ==
  ASSUME EnergyInv, NEW value \in Rccs, WriteRcc(value)
  PROVE  EnergyInv'
<1>1. prev' \in [Counters -> Word] /\ chkpt' = cycles
  BY FreqChangeTypes DEF EnergyInv, WriteRcc
<1>2. changes' \in 1 .. 2
  BY DEF EnergyInv, TypeOK, WriteRcc
<1>3. TypeOK'
  BY <1>1, <1>2 DEF EnergyInv, TypeOK, WriteRcc
<1>4. CheckpointBehind'
  BY <1>1, WordAssumption DEF EnergyInv, TypeOK, WriteRcc, CheckpointBehind, Word
<1>5. Startup'
  BY DEF EnergyInv, WriteRcc, Startup
<1>6. PrevIsLastPeriod'
  <2> SUFFICES ASSUME NEW i \in Classes
               PROVE  older'[i] <= chkpt'[i] /\ prev'[i] = chkpt'[i] - older'[i]
    BY DEF PrevIsLastPeriod
  <2>1. i \in Counters /\ i \notin Named
    BY CountersAssumption DEF Counters
  <2>2. cycles[i] \in Word /\ chkpt[i] \in Word /\ chkpt[i] <= cycles[i] /\ model
    BY <2>1 DEF EnergyInv, TypeOK, CheckpointBehind, Startup, WriteRcc
  <2>3. PICK g \in [Counters -> Garbage] : prev' = Accumulate(ReadActivePower(g))
    BY DEF WriteRcc, FreqChangedSetChkpt
  <2>4. prev'[i] = Sub(cycles[i], chkpt[i])
    BY <2>1, <2>2, <2>3 DEF Accumulate, ReadActivePower
  <2> QED
    BY <1>1, <2>2, <2>4, WordArithmetic DEF WriteRcc
<1>7. NothingCarried' /\ VersatileEnergyExact'
  BY DEF EnergyInv, WriteRcc, NothingCarried, VersatileEnergyExact
<1> QED
  BY <1>3, <1>4, <1>5, <1>6, <1>7 DEF EnergyInv

\* The readers change only the reply.
LEMMA ReaderStep ==
  ASSUME EnergyInv, UNCHANGED <<board, phase, rcc, model, cycles, chkpt, prev, older, changes>>,
         reply' \in Replies, VersatileEnergyExact'
  PROVE  EnergyInv'
<1>1. TypeOK'
  BY DEF EnergyInv, TypeOK
<1>2. CheckpointBehind' /\ NothingCarried'
  BY DEF EnergyInv, CheckpointBehind, NothingCarried
<1>3. Startup' /\ PrevIsLastPeriod'
  BY DEF EnergyInv, Startup, PrevIsLastPeriod
<1> QED
  BY <1>1, <1>2, <1>3 DEF EnergyInv

\* A function cut down to the named counters, as the queries report it.
LEMMA NamedOnlyIsWord ==
  ASSUME NEW f \in [Counters -> Word]
  PROVE  [c \in Counters |-> IF c \in Named THEN f[c] ELSE 0] \in [Counters -> Word]
<1>1. 0 \in Word
  BY WordAssumption DEF Word
<1> QED
  BY <1>1

\* query-cyclecount.
LEMMA DoInfoCyclecountStep == EnergyInv /\ DoInfoCyclecount => EnergyInv'
<1> SUFFICES ASSUME EnergyInv, DoInfoCyclecount PROVE EnergyInv'
  OBVIOUS
<1>1. cycles \in [Counters -> Word]
  BY DEF EnergyInv, TypeOK
<1>2. reply' \in Replies
  BY <1>1, NamedOnlyIsWord DEF DoInfoCyclecount, Replies
<1>3. VersatileEnergyExact'
  BY DEF DoInfoCyclecount, VersatileEnergyExact
<1> QED
  BY <1>2, <1>3, ReaderStep DEF DoInfoCyclecount

\* query-energy.
LEMMA DoInfoEnergyStep == EnergyInv /\ DoInfoEnergy => EnergyInv'
<1> SUFFICES ASSUME EnergyInv, DoInfoEnergy PROVE EnergyInv'
  OBVIOUS
<1>1. PICK g \in [Counters -> Garbage] :
        reply' = [from |-> "query-energy",
                  val |-> [c \in Counters |->
                             IF c \in Named THEN ActiveEnergy(g)[c] ELSE 0],
                  at |-> cycles]
  BY DEF DoInfoEnergy
<1>2. ActiveEnergy(g) \in [Counters -> Word] /\ cycles \in [Counters -> Word]
  BY GarbageIsWord, EnergiesAreWords DEF EnergyInv, TypeOK
<1>3. reply' \in Replies
  BY <1>1, <1>2, NamedOnlyIsWord DEF Replies
<1>4. VersatileEnergyExact'
  BY <1>1 DEF VersatileEnergyExact
<1> QED
  BY <1>3, <1>4, ReaderStep DEF DoInfoEnergy

\* A read of the memory-mapped module.
LEMMA VarmodReadStep == EnergyInv /\ VarmodRead => EnergyInv'
<1> SUFFICES ASSUME EnergyInv, VarmodRead PROVE EnergyInv'
  OBVIOUS
<1>1. cycles \in [Counters -> Word]
  BY DEF EnergyInv, TypeOK
<1>2. CASE reply' = [from |-> "varmod-cycles",
                     val |-> [c \in Counters |->
                                IF c \in Named THEN cycles[c] ELSE 0],
                     at |-> cycles]
  <2>1. reply' \in Replies
    BY <1>1, <1>2, NamedOnlyIsWord DEF Replies
  <2>2. VersatileEnergyExact'
    BY <1>2 DEF VersatileEnergyExact
  <2> QED
    BY <2>1, <2>2, ReaderStep DEF VarmodRead
<1>3. ASSUME board = "versatilepb", NEW g \in [Counters -> Garbage],
             reply' = [from |-> "varmod-energy", val |-> ActiveEnergy(g), at |-> cycles]
      PROVE  EnergyInv'
  <2>1. model /\ chkpt = Zero /\ prev = Zero
    BY <1>3 DEF EnergyInv, Startup, NothingCarried, VarmodRead
  <2>2. \A c \in Counters : ActiveEnergy(g)[c] = cycles[c]
    <3> SUFFICES ASSUME NEW c \in Counters PROVE ActiveEnergy(g)[c] = cycles[c]
      OBVIOUS
    <3>1. cycles[c] \in Word /\ 0 \in Word
      BY <1>1, WordAssumption DEF Word
    <3>2. ActiveEnergy(g)[c] = Add(Sub(cycles[c], 0), 0)
      BY <2>1 DEF ActiveEnergy, ReadActivePower, Zero
    <3>3. Sub(cycles[c], 0) = cycles[c]
      BY <3>1, WordAssumption DEF Sub, Word
    <3> QED
      BY <3>1, <3>2, <3>3, WordArithmetic
  <2>3. ActiveEnergy(g) = cycles
    BY <1>1, <2>2 DEF ActiveEnergy
  <2>4. reply' \in Replies
    BY <1>1, <1>3, <2>3 DEF Replies
  <2>5. VersatileEnergyExact'
    BY <1>3, <2>3 DEF VersatileEnergyExact
  <2> QED
    BY <2>4, <2>5, ReaderStep DEF VarmodRead
<1> QED
  BY <1>2, <1>3 DEF VarmodRead

-----------------------------------------------------------------------------
\* Every operation, reader and start-up step keeps the invariant.
LEMMA EnergyStep == EnergyInv /\ [Next]_vars => EnergyInv'
<1> SUFFICES ASSUME EnergyInv, [Next]_vars PROVE EnergyInv'
  OBVIOUS
<1>1. CASE SysInit
  BY <1>1, SysInitStep
<1>2. CASE VarmodInit
  BY <1>2, VarmodInitStep
<1>3. CASE \E cost \in [Classes -> 0 .. MaxCost] : IncrementCycleCounters(cost)
  BY <1>3, IncrementStep
<1>4. CASE \E value \in Rccs : WriteRcc(value)
  BY <1>4, WriteRccStep
<1>5. CASE DoInfoCyclecount
  BY <1>5, DoInfoCyclecountStep
<1>6. CASE DoInfoEnergy
  BY <1>6, DoInfoEnergyStep
<1>7. CASE VarmodRead
  BY <1>7, VarmodReadStep
<1>8. CASE UNCHANGED vars
  <2>1. reply' = reply /\ UNCHANGED <<board, phase, rcc, model, cycles, chkpt, prev, older, changes>>
    BY <1>8 DEF vars
  <2>2. reply' \in Replies /\ VersatileEnergyExact'
    BY <2>1 DEF EnergyInv, TypeOK, VersatileEnergyExact
  <2> QED
    BY <2>1, <2>2, ReaderStep
<1> QED
  BY <1>1, <1>2, <1>3, <1>4, <1>5, <1>6, <1>7, <1>8 DEF Next

\* Once the clock has changed, the carried-over energy and the running
\* difference add up to the cycles since the last but one checkpoint, so the
\* cycles before that one are what ClassEnergyAccumulated misses.
LEMMA WindowFromInv ==
  ASSUME EnergyInv, changes > 0, NEW i \in Classes
  PROVE  /\ ActiveEnergy(Zero)[i] = cycles[i] - older[i]
         /\ cycles[i] \in Nat /\ older[i] \in Nat
<1>1. i \in Counters
  BY DEF Counters
<1>2. /\ cycles[i] \in Word /\ chkpt[i] \in Word /\ older[i] \in Word
      /\ older[i] <= chkpt[i] /\ chkpt[i] <= cycles[i]
      /\ prev[i] = chkpt[i] - older[i]
      /\ model
  BY <1>1 DEF EnergyInv, TypeOK, PrevIsLastPeriod, CheckpointBehind, Startup
<1>3. ActiveEnergy(Zero)[i] = Add(Sub(cycles[i], chkpt[i]), prev[i])
  BY <1>1, <1>2 DEF ActiveEnergy, ReadActivePower
<1> QED
  BY <1>2, <1>3, WordAssumption DEF Add, Sub, Word

\* No unsigned difference of a total and its checkpoint ever wraps.
THEOREM NoUnderflow == Spec => []CheckpointBehind
<1>1. EnergyInv => CheckpointBehind
  BY DEF EnergyInv
<1> QED
  BY <1>1, EnergyInit, EnergyStep, PTL DEF Spec

\* After a clock change a class's energy is no more than the cycles charged and
\* no less than those since the last but one checkpoint (accumulate_energy,
\* freq_changed_set_chkpt).
THEOREM EnergyWithin == Spec => []ClassEnergyWithin
<1>1. EnergyInv => ClassEnergyWithin
  BY WindowFromInv DEF ClassEnergyWithin
<1> QED
  BY <1>1, EnergyInit, EnergyStep, PTL DEF Spec

\* The energy register of the versatilepb accounts for exactly the cycles
\* charged when it was read.
THEOREM VersatileExact == Spec => []VersatileEnergyExact
<1>1. EnergyInv => VersatileEnergyExact
  BY DEF EnergyInv
<1> QED
  BY <1>1, EnergyInit, EnergyStep, PTL DEF Spec
=============================================================================
