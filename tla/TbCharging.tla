----------------------------- MODULE TbCharging -----------------------------
(***************************************************************************)
(* The cycles of translated blocks: TbCache together with the per-block    *)
(* counter that the ARM translator adds to and that cpu_exec adds to the   *)
(* totals when its loop starts a block.                                    *)
(*                                                                         *)
(*   target-arm/translate.c  variability_counters_manip, called once per   *)
(*                           instruction whenever the block is translated  *)
(*   translate-all.c         cpu_restore_state, which translates again     *)
(*   qemu-variability.c      increment_cycle_counter(s)                    *)
(*   cpu-exec.c              the call of increment_cycle_counters          *)
(*                                                                         *)
(* One instruction class.                                                  *)
(***************************************************************************)
EXTENDS TbCache

CONSTANTS
  Cost,      \* Cost[c]: cycles of the instructions of the block at c
  MaxCycles  \* bound: cycles charged, run or counted in one block

ASSUME CostAssumption == Cost \in [VCells -> Nat]
ASSUME MaxCyclesAssumption == MaxCycles \in Nat

VARIABLES
  count,  \* tb->cycle_count of each slot of tbs[]
  total,  \* total_cycle_count
  ran     \* history: cycles of the blocks that were really started

chargeVars == <<count, total, ran>>
allVars == <<vars, chargeVars>>

ChargingInit ==
  /\ Init
  /\ count = [s \in Slots |-> 0]
  /\ total = 0
  /\ ran = 0

\* Mutant: translation leaves the counter alone
TranslatedUncounted(s, c) == count

\* variability_counters_manip for every instruction of the block; tb_alloc has
\* not cleared the counter
Translated(s, c) == [count EXCEPT ![s] = @ + Cost[c]]

\* Mutant: the block that was left is charged, not the one that starts
ChargedPrevious(s, counts) ==
  total' = total + (IF next = NoExit THEN 0 ELSE counts[next[1]])

\* increment_cycle_counters(tb), just before the loop starts tb
Charged(s, counts) == total' = total + counts[s]

Started(s, blocks) == ran' = ran + Cost[blocks[s].pc]

Bounded ==
  /\ total' <= MaxCycles
  /\ ran' <= MaxCycles
  /\ \A s \in Slots : count'[s] <= MaxCycles

\* The loop starts a block it found
StartFound ==
  /\ FindFast \/ FindSlow
  /\ Charged(cur', count)
  /\ Started(cur', tbs)
  /\ UNCHANGED count
  /\ Bounded

\* The loop starts a block it translated
StartTranslated ==
  /\ FindGen
  /\ count' = Translated(cur', pc)
  /\ Charged(cur', count')
  /\ Started(cur', tbs')
  /\ Bounded

\* A block whose translation was cut short has counted some instructions, unless
\* the very first was the one that could not be fetched
TranslationFaults(c) ==
  /\ GenFault(c)
  /\ \E part \in 0 .. Cost[pc] : count' = [count EXCEPT ![Slot] = @ + part]
  /\ UNCHANGED <<total, ran>>
  /\ Bounded

\* A chained block is started by the one before: nobody charges it
StartChained(n) ==
  /\ Jump(n)
  /\ Started(cur', tbs)
  /\ UNCHANGED <<count, total>>
  /\ Bounded

\* An instruction faults: cpu_restore_state translates the block once more
FaultInBlock(c) ==
  /\ ExitOther(c)
  /\ count' = Translated(cur, tbs[cur].pc)
  /\ UNCHANGED <<total, ran>>
  /\ Bounded

\* Steps that charge nothing
Uncharged ==
  /\ \/ \E c \in VCells : FindFault(c)
     \/ TbFlush
     \/ \E c \in VCells : StoreUnchecked(Page(c), Offset(c))
     \/ \E c \in VCells : StoreBitmapClear(Page(c), Offset(c))
     \/ \E c \in VCells : StoreInvalidate(Page(c), Offset(c))
     \/ \E p \in PPages, offsets \in DmaRanges : DmaWrite(p, offsets)
     \/ \E n \in Exits : ExitChainable(n)
     \/ \E c \in VCells : ExitOther(c)
     \/ UnlinkTb
     \/ \E v \in VPages, m \in Maps, c \in VCells : TlbFlushPage(v, m, c)
     \/ \E m \in Maps, c \in VCells : TlbFlush(m, c)
  /\ UNCHANGED chargeVars

ChargingNext ==
  \/ StartFound
  \/ StartTranslated
  \/ \E c \in VCells : TranslationFaults(c)
  \/ \E n \in Exits : StartChained(n)
  \/ \E c \in VCells : FaultInBlock(c)
  \/ Uncharged

ChargingSpec == ChargingInit /\ [][ChargingNext]_allVars

-----------------------------------------------------------------------------

\* The counters are natural numbers below their bound.
ChargingTypeOK ==
  /\ count \in [Slots -> 0 .. MaxCycles]
  /\ total \in 0 .. MaxCycles
  /\ ran \in 0 .. MaxCycles

\* However a block came to its slot (reused after tb_flush, after an aborted
\* translation, retranslated by cpu_restore_state), its counter has at least
\* the cycles of the instructions it runs.
CountCoversCode == \A s \in hash : count[s] >= Cost[tbs[s].pc]

\* Whenever the loop starts a block, freshly translated or found in either
\* cache, the totals grow by at least the cycles of that block's instructions.
LoopStartIsCharged ==
  [][stage = "loop" /\ stage' = "exec" => total' - total >= Cost[tbs'[cur'].pc]]_allVars

\* "Gives cycle counts for different instruction classes till now"
\* (QMP/qmp-commands.txt:1416): no block runs whose cycles are not in the total.
TotalCoversExecuted == total >= ran
=============================================================================
