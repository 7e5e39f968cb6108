----------------------------- MODULE VarConfig ------------------------------
(***************************************************************************)
(* What the command line and the variability file set up before the guest  *)
(* starts: single stepping, the classes of instructions, the windows in    *)
(* which errors are injected and the register errors.                      *)
(*                                                                         *)
(*   vl.c                -singlestep, -variability, parse_variability_file *)
(*   qemu-variability.c  class_info_init, update_insn_class_info,          *)
(*                       error_init_pc, error_init_icount, error_regs_init *)
(*                                                                         *)
(* A line of the file is the JSON dictionary on it: a function from keys.  *)
(* It is what one call of fgets returns, so one that does not fit in the   *)
(* 2000 bytes of the buffer is several lines.  What "y" and "n",           *)
(* "mem_errors" and power_const set is read by nobody and left out.        *)
(***************************************************************************)
EXTENDS Integers, Sequences, FiniteSetsExt

CONSTANTS
  Insns,        \* the names get_map_entry knows
  Classes,      \* the class names on the first line of the file
  FileLines,    \* the lines variability files have
  CommandLines  \* the command lines: sequences of options

Options ==
  [option : {"singlestep", "nofile", "noclasses"}]
    \cup [option : {"variability"}, lines : Seq(FileLines), newline : BOOLEAN]

ASSUME OptionsAssumption == CommandLines \subseteq Seq(Options)

VARIABLES
  cmd,        \* the command line
  arg,        \* the option that is handled
  file,       \* the variability file while it is read: lines left, whether the
              \* last ends in a newline, feof
  line,       \* the buffer of parse_variability_file
  class,      \* instruction_type of each instruction
  window,     \* error_pc_info and error_icount_info
  enabled,    \* error_pc_enabled and error_icount_enabled
  regs,       \* error_info_regs
  singlestep,
  allthru,    \* allthru_singlestep
  phase       \* "options", "file", "run", "exited", "dead"

config == <<class, window, enabled, regs>>
parsing == <<cmd, arg, file, line>>
configVars == <<parsing, config, singlestep, allthru, phase>>

Kinds == {"pc", "icount"}
NoWindow == <<0, 0>>
NoFile == [rest |-> <<>>, newline |-> FALSE, eof |-> TRUE]

\* qobject_from_json returns NULL for the line; the line with the classes
Malformed == [malformed |-> TRUE]
ClassInfo == [class_info |-> TRUE]

HasKey(d, key) == key \in DOMAIN d

ConfigInit ==
  /\ cmd \in CommandLines
  /\ arg = 1
  /\ file = NoFile
  /\ line = Malformed
  /\ class = [i \in Insns |-> "unset"]
  /\ window = [w \in Kinds |-> NoWindow]
  /\ enabled = [w \in Kinds |-> FALSE]
  /\ regs = "none"
  /\ singlestep = 0
  /\ allthru = FALSE
  /\ phase = "options"

\* -singlestep
OptionSinglestep ==
  /\ phase = "options" /\ arg \in DOMAIN cmd
  /\ cmd[arg].option = "singlestep"
  /\ singlestep' = 1
  /\ allthru' = TRUE
  /\ arg' = arg + 1
  /\ UNCHANGED <<cmd, file, line, config, phase>>

\* -variability of a file that cannot be opened
OptionNoFile ==
  /\ phase = "options" /\ arg \in DOMAIN cmd
  /\ cmd[arg].option = "nofile"
  /\ phase' = "exited"
  /\ UNCHANGED <<parsing, config, singlestep, allthru>>

\* -variability of a file whose first line is no dictionary or an empty one:
\* the assertions on it
OptionNoClasses ==
  /\ phase = "options" /\ arg \in DOMAIN cmd
  /\ cmd[arg].option = "noclasses"
  /\ phase' = "dead"
  /\ UNCHANGED <<parsing, config, singlestep, allthru>>

\* -variability: the first line is read, and says which classes there are
OptionVariability ==
  /\ phase = "options" /\ arg \in DOMAIN cmd
  /\ cmd[arg].option = "variability"
  /\ LET lines == cmd[arg].lines
     IN  file' = [rest |-> lines, newline |-> cmd[arg].newline,
                  eof |-> lines = <<>> /\ ~cmd[arg].newline]
  /\ line' = ClassInfo
  /\ phase' = "file"
  /\ UNCHANGED <<cmd, arg, config, singlestep, allthru>>

\* error_init_pc and error_init_icount, with their assertions
WindowLine(d, w, first, last) ==
  IF d[first] > 0 /\ d[last] > 0 /\ d[first] < d[last]
    THEN /\ window' = [window EXCEPT ![w] = <<d[first], d[last]>>]
         /\ enabled' = [enabled EXCEPT ![w] = TRUE]
         /\ UNCHANGED <<class, regs, phase>>
    ELSE phase' = "dead" /\ UNCHANGED config

\* Mutant: a class that is not found leaves the number of the last one looked at
AssignedFallsThrough(d) ==
  [i \in Insns |->
     IF \E c \in DOMAIN d : i \in d[c]
       THEN LET c == CHOOSE x \in DOMAIN d : i \in d[x]
            IN  IF c \in Classes THEN c ELSE CHOOSE x \in Classes : TRUE
       ELSE class[i]]

\* update_insn_class_info: an instruction whose class is not found keeps its own
Assigned(d) ==
  [i \in Insns |->
     IF \E c \in DOMAIN d \cap Classes : i \in d[c]
       THEN CHOOSE c \in DOMAIN d \cap Classes : i \in d[c]
       ELSE class[i]]

\* get_map_entry returns NULL for a name it does not know, and the result is
\* used; of an instruction of an unknown class the name is not looked up
ClassLine(d) ==
  IF \A c \in DOMAIN d \cap Classes : d[c] \subseteq Insns
    THEN class' = Assigned(d) /\ UNCHANGED <<window, enabled, regs, phase>>
    ELSE phase' = "dead" /\ UNCHANGED config

\* update_insn_error_info
ErrorneousLine(d) ==
  /\ phase' = IF \A key \in DOMAIN d : d[key] \subseteq Insns THEN phase ELSE "dead"
  /\ UNCHANGED config

RegsLine(d) == regs' = d["error_regs"] /\ UNCHANGED <<class, window, enabled, phase>>

\* The keys parse_variability_file looks for, in its order, after the tags of a
\* line that is no JSON and of the line with the classes: the first that a line
\* has say what it is
KindOf(d) ==
  LET keys == <<{"malformed"}, {"class_info"}, {"y"}, {"start_pc", "end_pc"},
                {"start_icount", "end_icount"}, {"error_regs"}, {"mem_errors"}>>
      fits == {n \in DOMAIN keys : \A key \in keys[n] : HasKey(d, key)}
  IN  IF fits = {} THEN {} ELSE keys[Min(fits)]

\* One round of the loop.  The line with the classes has no lists of names.
Processed(d) ==
  LET is(key) == key \in KindOf(d)
  IN  CASE is("malformed") \/ is("mem_errors") -> UNCHANGED <<config, phase>>
        [] is("class_info") -> phase' = "dead" /\ UNCHANGED config
        [] is("y") -> ErrorneousLine(d)
        [] is("start_pc") -> WindowLine(d, "pc", "start_pc", "end_pc")
        [] is("start_icount") -> WindowLine(d, "icount", "start_icount", "end_icount")
        [] is("error_regs") -> RegsLine(d)
        [] OTHER -> ClassLine(d)

ReadLine ==
  /\ phase = "file" /\ file.rest # <<>>
  /\ line' = Head(file.rest)
  /\ file' = [file EXCEPT !.rest = Tail(@), !.eof = Len(file.rest) = 1 /\ ~file.newline]
  /\ Processed(Head(file.rest))
  /\ UNCHANGED <<cmd, arg, singlestep, allthru>>

\* feof is not true before fgets has failed: after a newline at the end of the
\* file the buffer is processed once more
ReadPastEnd ==
  /\ phase = "file" /\ file.rest = <<>> /\ ~file.eof
  /\ file' = [file EXCEPT !.eof = TRUE]
  /\ Processed(line)
  /\ UNCHANGED <<cmd, arg, line, singlestep, allthru>>

FileDone ==
  /\ phase = "file" /\ file.eof
  /\ singlestep' = 1
  /\ arg' = arg + 1
  /\ phase' = "options"
  /\ file' = NoFile
  /\ line' = Malformed
  /\ UNCHANGED <<cmd, config, allthru>>

OptionsDone ==
  /\ phase = "options" /\ arg \notin DOMAIN cmd
  /\ phase' = "run"
  /\ UNCHANGED <<parsing, config, singlestep, allthru>>

ConfigNext ==
  \/ OptionSinglestep \/ OptionNoFile \/ OptionNoClasses \/ OptionVariability
  \/ ReadLine \/ ReadPastEnd \/ FileDone
  \/ OptionsDone

-----------------------------------------------------------------------------
\* Where a line is: the option, and the line of its file
LinePlaces ==
  UNION {{n} \X DOMAIN cmd[n].lines : n \in {m \in DOMAIN cmd : cmd[m].option = "variability"}}

LineAt(p) == cmd[p[1]].lines[p[2]]

\* Lines are read in the order of the options, and of each file
Earlier(p, q) == p[1] < q[1] \/ (p[1] = q[1] /\ p[2] < q[2])

\* The line says a class for i, one that exists
Assigns(d, i) == KindOf(d) = {} /\ \E c \in DOMAIN d \cap Classes : i \in d[c]
AssigningPlaces(i) == {p \in LinePlaces : Assigns(LineAt(p), i)}

\* i is in the class that the last of these lines gives it
LastDecides(places, i) ==
  \/ places = {} /\ class[i] = "unset"
  \/ \E p \in places :
       /\ \A q \in places : ~Earlier(p, q)
       /\ class[i] \in DOMAIN LineAt(p) \cap Classes
       /\ i \in LineAt(p)[class[i]]

\* Although the last line may be read twice and lines that are no JSON are
\* passed over, each instruction ends up in the class that the last line to
\* name it gives it
ConfigAsWritten ==
  phase = "run" => \A i \in Insns : LastDecides(AssigningPlaces(i), i)
====
