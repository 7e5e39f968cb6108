-------------------------- MODULE EnergyAccounting --------------------------
(***************************************************************************)
(* The counters of the variability extension: cycle totals, the checkpoint *)
(* taken when the guest changes the clock, the energy carried over from    *)
(* before the checkpoint, and the three readers (the two monitor queries   *)
(* and the memory-mapped variability module).                              *)
(*                                                                         *)
(*   qemu-variability.c      totals, checkpoints, previous energies        *)
(*   first-power-model.c     the only power model: energy = cycles         *)
(*   hw/stellaris.c          RCC writes (clock changes), board start-up    *)
(*   hw/variability_module.c the module of the versatilepb board           *)
(*                                                                         *)
(* A counter is one of the five named ones (data_proc ... misc) or one per *)
(* configured instruction class; the code treats both kinds alike except   *)
(* in accumulate_energy.  The named fields of a translation block are      *)
(* never written (the switch of increment_cycle_counter is commented out)  *)
(* and the array of blocks comes from freshly mapped, hence zero, memory,  *)
(* so a block charges its classes only.                                    *)
(***************************************************************************)
EXTENDS Integers

CONSTANTS
  Named,      \* the named counters
  Classes,    \* the configured instruction classes
  WORD,       \* 2^64, the number of values of a uint64_t
  Rccs,       \* values of the Stellaris clock register, the reset value among them
  RccReset,
  Garbage,    \* what an uninitialised energy field can hold
  MaxCost,    \* bound: cycles one block charges to one class
  MaxCycles   \* bound: cycles charged to one class in a run

\* "other" stands for a board without a variability module
Boards == {"versatilepb", "stellaris", "other"}

ASSUME CountersAssumption == Named \cap Classes = {}
ASSUME RccAssumption == RccReset \in Rccs
ASSUME WordAssumption ==
  /\ WORD \in Nat \ {0}
  /\ Garbage \subseteq 0 .. WORD - 1
  /\ Garbage # {}
  /\ MaxCost \in Nat
  /\ MaxCycles \in 0 .. WORD - 1

VARIABLES
  board,    \* the machine that was started
  phase,    \* board start-up: "sysinit", "varmod", then "run"
  rcc,      \* ssys_state.rcc
  model,    \* curr_power_model is not NULL
  cycles,   \* total_..._cycle_count
  chkpt,    \* cycle_count_chkpt_...
  prev,     \* prev_..._energy
  reply,    \* the last answer given to an observer
  older,    \* history: the checkpoint the current one replaced
  changes   \* history: clock changes while running, 2 standing for "more"

vars == <<board, phase, rcc, model, cycles, chkpt, prev, reply, older, changes>>

-----------------------------------------------------------------------------
Counters == Named \cup Classes
Word == 0 .. WORD - 1
Zero == [c \in Counters |-> 0]

\* uint64_t addition and subtraction
Add(a, b) == IF a + b < WORD THEN a + b ELSE a + b - WORD
Sub(a, b) == IF b <= a THEN a - b ELSE a - b + WORD

\* serve_active_power, reached through curr_power_model->read_active_power;
\* with no model the caller's structure keeps what was on the stack
ReadActivePower(g) ==
  [c \in Counters |-> IF model THEN Sub(cycles[c], chkpt[c]) ELSE g[c]]

\* calculate_active_energy
ActiveEnergy(g) == [c \in Counters |-> Add(ReadActivePower(g)[c], prev[c])]

\* accumulate_energy: += for the named counters, = for the classes
Accumulate(e) ==
  [c \in Counters |-> IF c \in Named THEN Add(prev[c], e[c]) ELSE e[c]]

\* Mutant: the checkpoint is stored before the energy is read
FreqChangedChkptFirst ==
  /\ prev' = Accumulate(Zero)
  /\ chkpt' = cycles

\* freq_changed_set_chkpt(&cur_count), cur_count being the totals
FreqChangedSetChkpt ==
  /\ \E g \in [Counters -> Garbage] : prev' = Accumulate(ReadActivePower(g))
  /\ chkpt' = cycles

-----------------------------------------------------------------------------
Init ==
  /\ board \in Boards
  /\ phase = CASE board = "stellaris" -> "sysinit"
               [] board = "versatilepb" -> "varmod"
               [] board = "other" -> "run"
  /\ rcc = RccReset
  /\ model = FALSE
  /\ cycles = Zero /\ chkpt = Zero /\ prev = Zero
  /\ reply = [from |-> "none", val |-> Zero, at |-> Zero]
  /\ older = Zero
  /\ changes = 0

\* stellaris_sys_init: ssys_reset runs the clock-change handler before any
\* power model is installed
SysInit ==
  /\ phase = "sysinit"
  /\ FreqChangedSetChkpt
  /\ phase' = "varmod"
  /\ UNCHANGED <<board, rcc, model, cycles, reply, older, changes>>

\* Mutant: power_init is not called
VarmodInitNoModel ==
  /\ phase = "varmod"
  /\ cycles' = Zero
  /\ phase' = "run"
  /\ UNCHANGED <<board, rcc, model, chkpt, prev, reply, older, changes>>

\* varmod_init and stellaris_var_mod_init: reset the totals, install the model
VarmodInit ==
  /\ phase = "varmod"
  /\ cycles' = Zero
  /\ model' = TRUE
  /\ phase' = "run"
  /\ UNCHANGED <<board, rcc, chkpt, prev, reply, older, changes>>

\* Mutant: the block's cycles replace the totals
IncrementCycleCountersAssign(cost) ==
  /\ phase = "run"
  /\ cycles' = [c \in Counters |-> IF c \in Classes THEN cost[c] ELSE cycles[c]]
  /\ UNCHANGED <<board, phase, rcc, model, chkpt, prev, reply, older, changes>>

\* increment_cycle_counters(tb), tb holding cost[i] cycles of class i; only a
\* board with a variability module gives instructions a cost
IncrementCycleCounters(cost) ==
  /\ phase = "run"
  /\ \A i \in Classes : board = "other" => cost[i] = 0
  /\ \A i \in Classes : cycles[i] + cost[i] <= MaxCycles
  /\ cycles' = [c \in Counters |->
                  IF c \in Classes THEN Add(cycles[c], cost[c]) ELSE cycles[c]]
  /\ UNCHANGED <<board, phase, rcc, model, chkpt, prev, reply, older, changes>>

\* ssys_write to RCC: a new value runs frequency_change_handler, which
\* checkpoints before the register changes; only the Stellaris boards have it
WriteRcc(value) ==
  /\ phase = "run"
  /\ board = "stellaris"
  /\ value # rcc
  /\ FreqChangedSetChkpt
  /\ rcc' = value
  /\ older' = chkpt
  /\ changes' = IF changes < 2 THEN changes + 1 ELSE 2
  /\ UNCHANGED <<board, phase, model, cycles, reply>>

\* do_info_cyclecount: the five named totals
DoInfoCyclecount ==
  /\ phase = "run"
  /\ reply' = [from |-> "query-cyclecount",
               val |-> [c \in Counters |-> IF c \in Named THEN cycles[c] ELSE 0],
               at |-> cycles]
  /\ UNCHANGED <<board, phase, rcc, model, cycles, chkpt, prev, older, changes>>

\* do_info_energy: DYNAMIC is the sum of the five named energies; the reply
\* keeps the summands
DoInfoEnergy ==
  /\ phase = "run"
  /\ \E g \in [Counters -> Garbage] :
       reply' = [from |-> "query-energy",
                 val |-> [c \in Counters |->
                            IF c \in Named THEN ActiveEnergy(g)[c] ELSE 0],
                 at |-> cycles]
  /\ UNCHANGED <<board, phase, rcc, model, cycles, chkpt, prev, older, changes>>

\* varmod_read at 0x28/0x2c: every named and class energy summed; the
\* Stellaris module has no energy register, so only its cycle registers
\* (0x00 to 0x24), which hold the named totals
VarmodRead ==
  /\ phase = "run"
  /\ board # "other"
  /\ \/ /\ board = "versatilepb"
        /\ \E g \in [Counters -> Garbage] :
             reply' = [from |-> "varmod-energy", val |-> ActiveEnergy(g),
                       at |-> cycles]
     \/ reply' = [from |-> "varmod-cycles",
                  val |-> [c \in Counters |->
                             IF c \in Named THEN cycles[c] ELSE 0],
                  at |-> cycles]
  /\ UNCHANGED <<board, phase, rcc, model, cycles, chkpt, prev, older, changes>>

Next ==
  \/ SysInit
  \/ VarmodInit
  \/ \E cost \in [Classes -> 0 .. MaxCost] : IncrementCycleCounters(cost)
  \/ \E value \in Rccs : WriteRcc(value)
  \/ DoInfoCyclecount
  \/ DoInfoEnergy
  \/ VarmodRead

Spec == Init /\ [][Next]_vars

-----------------------------------------------------------------------------
Replies == [from : {"none", "query-cyclecount", "query-energy",
                    "varmod-energy", "varmod-cycles"},
            val : [Counters -> Word],
            at : [Counters -> Word]]

\* The variables have their types; a counter is a uint64_t.
TypeOK ==
  /\ board \in Boards
  /\ phase \in {"sysinit", "varmod", "run"}
  /\ rcc \in Rccs
  /\ model \in BOOLEAN
  /\ cycles \in [Counters -> Word]
  /\ chkpt \in [Counters -> Word]
  /\ prev \in [Counters -> Word]
  /\ reply \in Replies
  /\ older \in [Counters -> Word]
  /\ changes \in 0 .. 2

\* The checkpoint never overtakes the total it was copied from, so the
\* unsigned difference taken by serve_active_power never wraps.
\* reset_all_cycle_counters clears totals and leaves checkpoints alone; it is
\* safe only because it runs while every checkpoint is still zero.
CheckpointBehind == \A c \in Counters : chkpt[c] <= cycles[c]

\* What calculate_active_energy yields for a class once the guest has changed
\* the clock: never more than the cycles charged to it (start-up garbage is gone,
\* no period counts twice), and at least those of the current period and the
\* one before it (nothing is lost between the energy being read and the
\* checkpoint being stored by freq_changed_set_chkpt).
ClassEnergyWithin ==
  changes > 0 =>
    \A i \in Classes : /\ cycles[i] - older[i] <= ActiveEnergy(Zero)[i]
                        /\ ActiveEnergy(Zero)[i] <= cycles[i]

\* What the manual says of the energy of a class: it is the accumulated one, so
\* it accounts for every cycle charged however often the clock has changed.
\* accumulate_energy assigns it where it adds the named ones.
ClassEnergyAccumulated ==
  changes > 0 => \A i \in Classes : ActiveEnergy(Zero)[i] = cycles[i]

\* On the versatilepb, where the clock never changes, the energy register of
\* varmod_read accounts for every cycle charged so far, and for nothing else:
\* no observer is served before varmod_init has installed the power model.
VersatileEnergyExact ==
  reply.from = "varmod-energy" => reply.val = reply.at
=============================================================================
