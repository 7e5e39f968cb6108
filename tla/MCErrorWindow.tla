--------------------------- MODULE MCErrorWindow ----------------------------
(***************************************************************************)
(* ErrorWindow for a loop of three instructions with an exit into a second *)
(* page, a handler, and command lines: windows around the loop and inside  *)
(* it, and files that are wrong or end in various ways.                    *)
(***************************************************************************)
EXTENDS ErrorWindow, TLC

MCProgram ==
  (0 :> {1} @@ 1 :> {2} @@ 2 :> {3} @@ 3 :> {1, 4} @@ 4 :> {5} @@ 5 :> {1}
     @@ 6 :> {7} @@ 7 :> {})

Step == [option |-> "singlestep"]
Variability(lines, newline) ==
  [option |-> "variability", lines |-> lines, newline |-> newline]

ClassA == [a |-> {"ADD_reg"}, rest |-> {"MUL"}]
ClassB == [b |-> {"ADD_reg", "MUL"}]
UnknownInsn == [a |-> {"ADC_reg"}]
Names == [y |-> {"ADD_reg"}, n |-> {"MUL"}]
UnknownName == [y |-> {"ADC_reg"}]
PcWindow == [start_pc |-> 1, end_pc |-> 5]
IcountWindow == [start_icount |-> 2, end_icount |-> 4]
BothWindows == [start_pc |-> 1, end_pc |-> 5, start_icount |-> 2, end_icount |-> 4]
WrongWindow == [start_pc |-> 4, end_pc |-> 2]
Regs(how) == [error_regs |-> how]
Memory == [mem_errors |-> {}]

MCFileLines ==
  {ClassA, ClassB, UnknownInsn, Names, UnknownName, PcWindow, IcountWindow,
   BothWindows, WrongWindow, Malformed, Regs("empty"), Regs("listed"), Memory}

MCCommandLines ==
  { <<[option |-> "nofile"]>>, <<Step, [option |-> "noclasses"]>>,
    <<Variability(<<>>, TRUE)>>,
    <<Variability(<<>>, FALSE)>>,
    <<Variability(<<ClassB, UnknownInsn>>, FALSE)>>,
    <<Variability(<<UnknownName>>, TRUE)>>,
    <<Variability(<<WrongWindow>>, TRUE)>>,
    <<Variability(<<ClassB, Names, Malformed, ClassA, Regs("empty"), BothWindows>>, TRUE)>>,
    <<Variability(<<PcWindow, IcountWindow>>, FALSE)>>,
    <<Step, Variability(<<PcWindow, Regs("listed"), Memory, ClassB, ClassA>>, TRUE)>> }
=============================================================================
