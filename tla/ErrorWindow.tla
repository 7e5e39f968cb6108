---------------------------- MODULE ErrorWindow -----------------------------
(***************************************************************************)
(* Single stepping and the windows in which errors are injected, over the  *)
(* cache of translated blocks: the translator opens and closes the windows *)
(* as it goes, the loop of cpu_exec consults them when it starts a block,  *)
(* and the monitor changes single stepping in between.                     *)
(*                                                                         *)
(*   target-arm/translate.c   the end of the loop over instructions        *)
(*   translate-all.c          cpu_restore_state, which translates again    *)
(*   cpu-exec.c               the power and error models before a block    *)
(*   error_model.c            error_model                                  *)
(*   monitor.c                do_singlestep                                *)
(*   hw/variability_module.c  varmod_write                                 *)
(*                                                                         *)
(* The configuration is that of VarConfig.  Addresses count instructions;  *)
(* Program[a] is where the instruction at a may go, or {} for the return   *)
(* from the handler of exceptions.  The details of the cache are TbCache's.*)
(***************************************************************************)
EXTENDS VarConfig

CONSTANTS
  Program,     \* the guest's code
  PageSize,    \* instructions of a page
  Entry,       \* where the guest starts
  Vector,      \* where exceptions go
  MaxCommands  \* bound: monitor commands

ASSUME ProgramAssumption ==
  /\ \A a \in DOMAIN Program : Program[a] \subseteq DOMAIN Program
  /\ {Entry, Vector} \subseteq DOMAIN Program
  /\ DOMAIN Program \subseteq Nat
ASSUME BoundsAssumption == PageSize \in Nat \ {0} /\ MaxCommands \in Nat

VARIABLES
  pc,         \* env->regs[15]
  user,       \* the guest is in user mode
  activated,  \* errors_activated
  tbs,        \* the translated blocks: start |-> instructions
  links,      \* the direct jumps from one block to another
  last,       \* next_tb: the block that was left
  run,        \* the block that is executed
  resume,     \* where the handler returns to
  commands,   \* what the bound still allows
  truePc,     \* history: where the guest was at the last exception
  again,      \* history: stepping was switched on when longer blocks could be there
  all,        \* history: allthru_singlestep has been set
  left        \* history: windows outside which an instruction has been executed

cpu == <<pc, user, last, run, resume, truePc>>
cache == <<tbs, links>>
vars == <<configVars, cpu, cache, activated, commands, again, all, left>>

None == -1
Addrs == DOMAIN Program

Init ==
  /\ ConfigInit
  /\ pc = Entry /\ user = TRUE /\ activated = FALSE
  /\ tbs = <<>> /\ links = {} /\ last = None /\ run = None
  /\ resume = Entry /\ truePc = Entry
  /\ commands = MaxCommands
  /\ again = FALSE /\ all = FALSE /\ left = {}

\* The options and the file; then the guest starts
Configure ==
  /\ ConfigNext
  /\ all' = allthru'
  /\ UNCHANGED <<cpu, cache, activated, commands, again, left>>

-----------------------------------------------------------------------------
\* Translation

\* dc->pc is the address after the instruction
Inside(w, a) == a + 1 > window[w][1] /\ a + 1 < window[w][2]

\* Mutant: leaving the window does not close it
StepWindowStaysOpen(w, s, a) ==
  IF ~s.enabled[w] \/ allthru THEN s
  ELSE IF Inside(w, a) THEN [s EXCEPT !.step = 1]
  ELSE [s EXCEPT !.step = 0]

\* Mutant: leaving the window does not end single stepping
StepWindowKeepsStep(w, s, a) ==
  IF ~s.enabled[w] \/ allthru THEN s
  ELSE IF Inside(w, a) THEN [s EXCEPT !.step = 1]
  ELSE [s EXCEPT !.enabled[w] = FALSE]

\* One of the two tests of the windows after the instruction at a
StepWindow(w, s, a) ==
  IF ~s.enabled[w] \/ allthru THEN s
  ELSE IF Inside(w, a) THEN [s EXCEPT !.step = 1]
  ELSE [s EXCEPT !.step = 0, !.enabled[w] = FALSE]

Page(a) == a \div PageSize

\* Whether the block ends with the instruction at a, whatever the stepping
EndsBlock(a) == Program[a] # {a + 1} \/ Page(a + 1) # Page(a)

\* How many instructions a block at a may have
Lengths(a) == 1 .. PageSize - (a % PageSize)

\* The stepping and the windows after each instruction of a block at a
After(a) ==
  LET S[n \in Lengths(a)] ==
        StepWindow("icount",
                   StepWindow("pc", IF n = 1 THEN [step |-> singlestep, enabled |-> enabled]
                                             ELSE S[n - 1], a + n - 1),
                   a + n - 1)
  IN  S

\* gen_intermediate_code at a: how many instructions, and what it leaves of
\* the stepping and the windows
Translate(a) ==
  LET S == After(a)
      len == Min({n \in Lengths(a) : EndsBlock(a + n - 1) \/ S[n].step = 1})
  IN  [len |-> len, step |-> S[len].step, enabled |-> S[len].enabled,
       again |-> S[len].step = 1 /\ (singlestep = 0 \/ len > 1)]

Translated(t) ==
  /\ singlestep' = t.step
  /\ enabled' = t.enabled
  /\ again' = (again \/ t.again)
  /\ UNCHANGED <<parsing, class, window, regs, allthru>>

-----------------------------------------------------------------------------
\* Execution

\* The loop calls error_model for the block it is about to start
ErrorModelCalled(step) == step = 1 /\ user /\ activated

\* error_model: an empty list of register errors is searched, and has no first
\* entry; one with entries is passed over
ErrorModel(step) ==
  IF ErrorModelCalled(step) /\ regs = "empty" THEN phase' = "dead" ELSE UNCHANGED phase

\* tb_find_fast, which translates if need be, then the jump from the last block,
\* the models and the start of the block
StartBlock ==
  /\ phase = "run" /\ run = None
  /\ IF pc \in DOMAIN tbs
       THEN /\ ErrorModel(singlestep)
            /\ UNCHANGED <<tbs, parsing, config, singlestep, allthru, again>>
       ELSE LET t == Translate(pc)
            IN  /\ tbs' = [a \in DOMAIN tbs \cup {pc} |-> IF a = pc THEN t.len ELSE tbs[a]]
                /\ Translated(t)
                /\ ErrorModel(t.step)
  /\ links' = IF last = None THEN links ELSE links \cup {<<last, pc>>}
  /\ run' = pc
  /\ last' = None
  /\ UNCHANGED <<pc, user, resume, truePc, activated, commands, all, left>>

\* The windows that the first n instructions of the block are not all inside
LeftBy(n) ==
  {w \in Kinds : window[w] # NoWindow /\ \E k \in 0 .. n - 1 : ~Inside(w, run + k)}

\* The block runs to its end and leaves through a direct jump that has been
\* patched, or stores the pc and goes back to the loop; gen_goto_tb allows such
\* jumps within a page, and they come before the store
FinishBlock ==
  /\ phase = "run" /\ run # None
  /\ LET end == run + tbs[run] - 1
     IN  \E a \in Program[end] :
           \/ <<run, a>> \in links /\ run' = a /\ UNCHANGED <<pc, last>>
           \/ /\ <<run, a>> \notin links
              /\ pc' = a
              /\ last' = IF Page(run) = Page(a) THEN run ELSE None
              /\ run' = None
  /\ left' = left \cup LeftBy(tbs[run])
  /\ UNCHANGED <<configVars, user, resume, truePc, cache, activated, commands, again, all>>

\* The last instruction of the handler
ReturnFromException ==
  /\ phase = "run" /\ run # None
  /\ Program[run + tbs[run] - 1] = {}
  /\ left' = left \cup LeftBy(tbs[run])
  /\ pc' = resume /\ user' = TRUE
  /\ run' = None /\ last' = None
  /\ UNCHANGED <<configVars, resume, truePc, cache, activated, commands, again, all>>

\* A store of the guest to offset 0x70 of the device
VarmodWrite(value) ==
  /\ phase = "run" /\ run # None
  /\ activated' = value
  /\ UNCHANGED <<configVars, cpu, cache, commands, again, all, left>>

\* Mutant: the state is taken from the start of the block
RestoredAtStart(k, t) == {run}

\* cpu_restore_state for instruction k of the block: if the block is not as long
\* as it was, the pc stays that of the block the loop started last, or, where
\* the code that ends the block reaches to the place that is looked for, becomes
\* that of the last instruction
Restored(k, t) == IF k < t.len THEN {run + k} ELSE {pc, run + t.len - 1}

\* Instruction k of the block faults; the block is translated again to find out
\* where the guest was
Fault(k) ==
  /\ phase = "run" /\ run # None /\ user
  /\ k < tbs[run]
  /\ LET t == Translate(run)
     IN  /\ Translated(t)
         /\ resume' \in Restored(k, t)
  /\ truePc' = run + k
  /\ left' = left \cup LeftBy(k)
  /\ pc' = Vector /\ user' = FALSE
  /\ run' = None /\ last' = None
  /\ UNCHANGED <<phase, cache, activated, commands, all>>

\* An interrupt is taken between two blocks
Interrupt ==
  /\ phase = "run" /\ run = None /\ user
  /\ resume' = pc /\ truePc' = pc
  /\ pc' = Vector /\ user' = FALSE /\ last' = None
  /\ UNCHANGED <<configVars, run, cache, activated, commands, again, all, left>>

\* A request to leave the loop: the jumps out of the running block are undone
Unlink ==
  /\ phase = "run" /\ run # None
  /\ links' = {l \in links : l[1] # run}
  /\ UNCHANGED <<configVars, cpu, tbs, activated, commands, again, all, left>>

\* tb_flush
TbFlush ==
  /\ phase = "run" /\ run = None
  /\ tbs' = <<>> /\ links' = {} /\ last' = None
  /\ again' = FALSE
  /\ UNCHANGED <<configVars, pc, user, run, resume, truePc, activated, commands, all, left>>

\* do_singlestep, from the main loop
Monitor(on) ==
  /\ phase = "run" /\ run = None
  /\ commands > 0
  /\ commands' = commands - 1
  /\ singlestep' = IF on THEN 1 ELSE 0
  /\ allthru' = on
  /\ again' = (again \/ (on /\ singlestep = 0))
  /\ all' = (all \/ on)
  /\ last' = None
  /\ UNCHANGED <<parsing, config, phase, pc, user, run, resume, truePc, cache, activated, left>>

Next ==
  \/ Configure
  \/ StartBlock \/ FinishBlock \/ ReturnFromException
  \/ \E k \in 0 .. PageSize - 1 : Fault(k)
  \/ \E value \in BOOLEAN : VarmodWrite(value)
  \/ Interrupt \/ Unlink \/ TbFlush
  \/ \E on \in BOOLEAN : Monitor(on)

Spec == Init /\ [][Next]_vars

-----------------------------------------------------------------------------

\* The types of the variables; the cache holds the block that is executed, since
\* tb_flush drops the jumps along with the blocks
TypeOK ==
  /\ phase \in {"options", "file", "run", "exited", "dead"}
  /\ singlestep \in 0 .. 1 /\ allthru \in BOOLEAN
  /\ pc \in Addrs /\ run \in Addrs \cup {None}
  /\ \A a \in DOMAIN tbs : a + tbs[a] - 1 \in Addrs
  /\ run # None => run \in DOMAIN tbs

\* A window that is still open has never been left, though it is only looked at
\* when code is translated and the guest runs from the cache; unless
\* allthru_singlestep has been set, under which the translator looks at no window
OpenWindowNeverLeft == ~all => \A w \in left : ~enabled[w]

\* Errors are injected only inside a window, if there is one and
\* allthru_singlestep has not been set: under it every block is a candidate
ErrorsInsideWindow ==
  [][ (run = None /\ run' # None /\ ErrorModelCalled(singlestep') /\ ~all)
        => \/ \A w \in Kinds : window[w] = NoWindow
           \/ \E w \in Kinds : window[w] # NoWindow /\ Inside(w, pc)
    ]_vars

\* The translation that looks for a faulting instruction finds it, although
\* stepping and windows have changed since the block was translated, unless
\* stepping was switched on again
RestoreIsExact == [][(user /\ ~user' /\ ~again) => resume' = truePc']_vars

\* "The cpu state corresponding to 'searched_pc' is restored."
\* (translate-all.c:109)
StateIsRestored == resume = truePc
=============================================================================
