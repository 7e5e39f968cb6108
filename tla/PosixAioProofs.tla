--------------------------- MODULE PosixAioProofs ---------------------------
(***************************************************************************)
(* Proofs about PosixAio, for any number of slots and threads, any depth   *)
(* of nested synchronous calls and any capacity of the pipe.               *)
(*                                                                         *)
(* The inductive invariant AioInv has three parts.  StackInv says what the *)
(* main thread's calls look like: which function may be above which, and   *)
(* where each may be.  PoolInv ties request_list, the workers and          *)
(* first_aio together: a request is queued, in the hands of one worker, or *)
(* finished.  ContextInv says whose a request is: one made in a nested     *)
(* context is awaited by the synchronous call of that context, so no       *)
(* context is left with a request in it.                                   *)
(***************************************************************************)
EXTENDS PosixAio, TLAPS

-----------------------------------------------------------------------------
\* The places of each function
Places(fn) ==
  CASE fn = "main" -> {"code", "signal", "spin", "bh", "read"}
    [] fn = "sync" -> {"signal", "loop", "bh", "queue", "select", "read", "pop"}
    [] fn = "flush" -> {"loop", "bh", "queue", "select", "read", "check", "cond"}
    [] fn = "cb" -> {"code", "signal", "spin", "ret"}

\* One call: it scans only inside a poll or a read, async_context_pop comes
\* after the call's request, and only callbacks have a request of their own
FrameOK(f) ==
  /\ f.at \in Places(f.fn)
  /\ f.scan => f.at \in {"bh", "pop", "cond", "queue", "read"}
  /\ f.at = "pop" => f.w = None
  /\ f.s # None => f.fn = "cb"
  /\ f.fn = "main" => f.ctx = 0

\* A call below another: only a callback is called by what can wait, and
\* qemu_aio_flush is called in the outermost context.  async_context_push:
\* a synchronous call is in the next context, any other in its caller's.
Above(f, g) ==
  /\ g.fn # "main"
  /\ g.fn = "cb" => f.fn # "cb"
  /\ g.fn = "flush" => f.fn \in {"main", "cb"} /\ f.ctx = 0
  /\ g.ctx = IF g.fn = "sync" THEN f.ctx + 1 ELSE f.ctx
  /\ f.at \notin {"signal", "spin"}
  /\ (f.at = "cond") => f.ran # {}
  /\ (g.fn = "cb" /\ f.fn = "sync") => f.at # "pop"
  /\ (g.fn = "cb" /\ g.at = "code" /\ f.fn = "sync") => f.w = g.s

StackInv ==
  /\ Len(stack) > 0
  /\ stack[1].fn = "main"
  /\ \A i \in 1 .. Len(stack) : FrameOK(stack[i])
  /\ \A i \in 1 .. Len(stack) - 1 : Above(stack[i], stack[i + 1])
  /\ \A i, j \in 1 .. Len(stack) :
       (i # j /\ stack[i].s # None) => stack[i].s # stack[j].s
  /\ \A i \in 1 .. Len(stack) : stack[i].s \notin firstAio
  /\ \A i, k \in 1 .. Len(stack) : i <= k => stack[i].ctx <= stack[k].ctx

\* A busy worker has a request of its own, that is not finished
JobsOK ==
  \A t \in Threads :
    IF pc[t] \in {"working", "store"}
      THEN /\ job[t] \in firstAio
           /\ acb[job[t]].active /\ acb[job[t]].ret = "inprogress"
           /\ \A u \in Threads : job[u] = job[t] => u = t
      ELSE job[t] = None

\* request_list holds requests no worker has had, once each
QueueOK ==
  \A i \in 1 .. Len(queue) :
    /\ queue[i] \in firstAio
    /\ ~acb[queue[i]].active /\ acb[queue[i]].ret = "inprogress"
    /\ \A j \in 1 .. Len(queue) : queue[j] = queue[i] => j = i

\* All of them: QTAILQ_REMOVE finds a request that is not active
NoneLost ==
  \A s \in firstAio : ~acb[s].active => \E i \in 1 .. Len(queue) : queue[i] = s

\* A cancelled request stays on first_aio while paio_cancel waits
SpinOK == Top.at = "spin" => Top.w \in firstAio

PoolInv == JobsOK /\ QueueOK /\ NoneLost /\ SpinOK

CtxBounded == Ctx <= MaxDepth

\* Bottom halves of devices are of the outermost context
DevOutermost == \A c \in 0 .. MaxDepth : <<"dev", c>> \in bhs => c = 0

\* A request of a nested context is the one its synchronous call waits for
NestedAwaited ==
  \A s \in firstAio :
    acb[s].ctx # 0 =>
      \E i \in 1 .. Len(stack) :
        stack[i].fn = "sync" /\ stack[i].w = s /\ stack[i].ctx = acb[s].ctx

\* What qemu_aio_flush has found is still so at its loop's condition, if
\* nothing has run since
CheckedEmpty == (Top.at = "cond" /\ Top.ran = {}) => firstAio = {}

ContextInv == CtxBounded /\ DevOutermost /\ NestedAwaited /\ CheckedEmpty

AioInv ==
  TypeOK /\ StackInv /\ PoolInv /\ ContextInv
    /\ NoStrandedRequest /\ CompletionAnnounced /\ CallbackInContext

-----------------------------------------------------------------------------
\* What a step does to the stack

\* The topmost call goes on
Moves(f) ==
  /\ stack' = [stack EXCEPT ![Depth] = f]
  /\ f \in FrameType /\ FrameOK(f)
  /\ f.fn = Top.fn /\ f.s = Top.s /\ f.ctx = Top.ctx
  /\ f.fn = "cb" => f.at # "code"

\* It calls another
Enters(f, g) ==
  /\ stack' = Append([stack EXCEPT ![Depth] = f], g)
  /\ f \in FrameType /\ FrameOK(f)
  /\ f.fn = Top.fn /\ f.s = Top.s /\ f.w = Top.w /\ f.ctx = Top.ctx
  /\ f.fn = "cb" => f.at # "code"
  /\ g \in FrameType /\ FrameOK(g)
  /\ Above(f, g)

\* It returns; its caller, if that is a synchronous call, may have what it
\* waited for
Leaves(w) ==
  /\ Depth > 1
  /\ w \in Slots \cup {None}
  /\ w # stack[Depth - 1].w => (w = None /\ stack[Depth - 1].fn = "sync")
  /\ stack' = [i \in 1 .. Depth - 1 |->
       IF i = Depth - 1 THEN [stack[i] EXCEPT !.w = w] ELSE stack[i]]

LEMMA MovesEffect ==
  ASSUME stack \in Seq(FrameType), Len(stack) > 0, NEW f, Moves(f)
  PROVE  /\ stack' \in Seq(FrameType) /\ Len(stack') = Len(stack)
         /\ stack'[Depth] = f
         /\ \A i \in 1 .. Depth - 1 : stack'[i] = stack[i]
         /\ \A i \in 1 .. Depth : stack'[i].fn = stack[i].fn /\ stack'[i].s = stack[i].s
         /\ \A i \in 1 .. Depth : stack'[i].ctx = stack[i].ctx
<1> DEFINE n == Depth
<1>1. n \in Nat /\ n > 0 /\ n = Len(stack)
  BY DEF Depth
<1>2. stack' = [stack EXCEPT ![n] = f] /\ f \in FrameType /\ f.fn = stack[n].fn /\ f.s = stack[n].s
      /\ f.ctx = stack[n].ctx
  BY Zenon DEF Moves, Top
<1> HIDE DEF n
<1>3. /\ stack' \in Seq(FrameType) /\ Len(stack') = Len(stack)
      /\ stack'[n] = f
      /\ \A i \in 1 .. n - 1 : stack'[i] = stack[i]
  <2>1. /\ stack' \in Seq(FrameType) /\ Len(stack') = Len(stack)
        /\ \A j \in 1 .. n : stack'[j] = IF j = n THEN f ELSE stack[j]
    BY <1>1, <1>2
  <2>2. stack'[n] = f
    BY <1>1, <2>1
  <2>3. \A i \in 1 .. n - 1 : i \in 1 .. n /\ i # n
    BY <1>1
  <2> QED
    BY <2>1, <2>2, <2>3, Zenon
<1>4. \A i \in 1 .. n : stack'[i].fn = stack[i].fn /\ stack'[i].s = stack[i].s
  BY <1>1, <1>2, <1>3
<1>5. \A i \in 1 .. n : stack'[i].ctx = stack[i].ctx
  BY <1>1, <1>2, <1>3
<1> QED
  BY <1>3, <1>4, <1>5, Zenon DEF n

LEMMA EntersEffect ==
  ASSUME stack \in Seq(FrameType), Len(stack) > 0, NEW f, NEW g, Enters(f, g)
  PROVE  /\ stack' \in Seq(FrameType) /\ Len(stack') = Depth + 1
         /\ stack'[Depth] = f /\ stack'[Depth + 1] = g
         /\ \A i \in 1 .. Depth - 1 : stack'[i] = stack[i]
         /\ \A i \in 1 .. Depth : stack'[i].fn = stack[i].fn /\ stack'[i].s = stack[i].s
         /\ \A i \in 1 .. Depth : stack'[i].ctx = stack[i].ctx
         /\ stack'[Depth + 1].ctx =
              IF g.fn = "sync" THEN stack[Depth].ctx + 1 ELSE stack[Depth].ctx
<1> DEFINE n == Depth
           tt == [stack EXCEPT ![n] = f]
<1>1. n \in Nat /\ n > 0 /\ n = Len(stack)
  BY DEF Depth
<1>2. stack' = Append(tt, g) /\ f \in FrameType /\ g \in FrameType
      /\ f.fn = stack[n].fn /\ f.s = stack[n].s /\ f.ctx = stack[n].ctx
      /\ g.ctx = IF g.fn = "sync" THEN f.ctx + 1 ELSE f.ctx
  BY Zenon DEF Enters, Above, Top
<1>0. tt \in Seq(FrameType) /\ Len(tt) = n /\ tt[n] = f
      /\ \A i \in 1 .. n - 1 : tt[i] = stack[i]
  <2> HIDE DEF n
  <2>1. /\ tt \in Seq(FrameType) /\ Len(tt) = n
        /\ \A j \in 1 .. n : tt[j] = IF j = n THEN f ELSE stack[j]
    BY <1>1, <1>2
  <2> HIDE DEF tt
  <2>2. tt[n] = f
    BY <1>1, <2>1
  <2>3. \A i \in 1 .. n - 1 : i \in 1 .. n /\ i # n
    BY <1>1
  <2> QED
    BY <2>1, <2>2, <2>3, Zenon
<1> HIDE DEF n, tt
<1>3. /\ stack' \in Seq(FrameType) /\ Len(stack') = n + 1
      /\ stack'[n] = f /\ stack'[n + 1] = g
      /\ \A i \in 1 .. n - 1 : stack'[i] = stack[i]
  <2>1. /\ stack' \in Seq(FrameType) /\ Len(stack') = n + 1
        /\ \A i \in 1 .. n : stack'[i] = tt[i]
        /\ stack'[n + 1] = g
    BY <1>0, <1>1, <1>2
  <2> QED
    BY <1>0, <1>1, <2>1
<1>4. \A i \in 1 .. n : stack'[i].fn = stack[i].fn /\ stack'[i].s = stack[i].s
  BY <1>1, <1>2, <1>3
<1>5. \A i \in 1 .. n : stack'[i].ctx = stack[i].ctx
  BY <1>1, <1>2, <1>3
<1>6. stack'[n + 1].ctx = IF g.fn = "sync" THEN stack[n].ctx + 1 ELSE stack[n].ctx
  BY <1>2, <1>3, Zenon
<1> QED
  BY <1>3, <1>4, <1>5, <1>6, Zenon DEF n

LEMMA LeavesEffect ==
  ASSUME stack \in Seq(FrameType), Len(stack) > 0, NEW w, Leaves(w)
  PROVE  /\ stack' \in Seq(FrameType) /\ Len(stack') = Depth - 1
         /\ stack'[Depth - 1] = [stack[Depth - 1] EXCEPT !.w = w]
         /\ \A i \in 1 .. Depth - 2 : stack'[i] = stack[i]
         /\ \A i \in 1 .. Depth - 1 :
              /\ stack'[i].fn = stack[i].fn /\ stack'[i].s = stack[i].s
              /\ stack'[i].at = stack[i].at /\ stack'[i].ran = stack[i].ran
              /\ stack'[i].scan = stack[i].scan
              /\ stack[i].w # stack'[i].w => stack'[i].w = None /\ stack'[i].fn = "sync"
         /\ \A i \in 1 .. Depth - 1 : stack'[i].ctx = stack[i].ctx
<1> DEFINE n == Depth
<1>1. n \in Nat /\ n > 1 /\ n = Len(stack)
      /\ \A i \in 1 .. n : stack[i] \in FrameType
  BY DEF Depth, Leaves
<1>2. /\ w \in Slots \cup {None}
      /\ w # stack[n - 1].w => (w = None /\ stack[n - 1].fn = "sync")
      /\ stack' = [i \in 1 .. n - 1 |->
           IF i = n - 1 THEN [stack[i] EXCEPT !.w = w] ELSE stack[i]]
  BY Zenon DEF Leaves
<1> HIDE DEF n
<1>3. \A i \in 1 .. n : [stack[i] EXCEPT !.w = w] \in FrameType
  <2> TAKE i \in 1 .. n
  <2>1. stack[i] \in FrameType
    BY <1>1, Zenon
  <2> QED
    BY <1>2, <2>1, Zenon DEF FrameType
<1>4. stack' \in Seq(FrameType) /\ Len(stack') = n - 1
  <2>1. \A i \in 1 .. n - 1 : stack'[i] \in FrameType
    BY <1>1, <1>2, <1>3
  <2> QED
    BY <1>1, <1>2, <2>1
<1>5. stack'[n - 1] = [stack[n - 1] EXCEPT !.w = w]
  BY <1>1, <1>2
<1>6. \A i \in 1 .. n - 2 : stack'[i] = stack[i]
  BY <1>1, <1>2
<1>7. \A i \in 1 .. n - 1 :
              /\ stack'[i].fn = stack[i].fn /\ stack'[i].s = stack[i].s
              /\ stack'[i].at = stack[i].at /\ stack'[i].ran = stack[i].ran
              /\ stack'[i].scan = stack[i].scan
              /\ stack[i].w # stack'[i].w => stack'[i].w = None /\ stack'[i].fn = "sync"
  BY <1>1, <1>2, <1>5, <1>6 DEF FrameType
<1>8. \A i \in 1 .. n - 1 : stack'[i].ctx = stack[i].ctx
  BY <1>1, <1>2, <1>5, <1>6 DEF FrameType
<1> QED
  BY <1>4, <1>5, <1>6, <1>7, <1>8, Zenon DEF n

LEMMA StackMoves ==
  ASSUME stack \in Seq(FrameType), StackInv, NEW f, Moves(f),
         \A i \in 1 .. Depth : stack[i].s \notin firstAio'
  PROVE  StackInv'
<1> DEFINE n == Depth
<1>1. n \in Nat /\ n > 0 /\ n = Len(stack) /\ Len(stack') = n
  BY MovesEffect DEF Depth, StackInv
<1>2. /\ stack'[n] = f
      /\ \A i \in 1 .. n - 1 : stack'[i] = stack[i]
      /\ \A i \in 1 .. n : /\ stack'[i].fn = stack[i].fn /\ stack'[i].s = stack[i].s
                         /\ stack'[i].ctx = stack[i].ctx
  BY MovesEffect, Zenon DEF StackInv
<1>3. FrameOK(f) /\ f.fn = stack[n].fn /\ f.s = stack[n].s /\ f.ctx = stack[n].ctx /\ (f.fn = "cb" => f.at # "code")
  BY Zenon DEF Moves, Top
<1> HIDE DEF n
<1>4. Len(stack') > 0 /\ stack'[1].fn = "main"
  BY <1>1, <1>2 DEF StackInv
<1>5. \A i \in 1 .. n : FrameOK(stack'[i])
  BY <1>1, <1>2, <1>3 DEF StackInv
<1>6. ASSUME NEW i \in 1 .. n - 1 PROVE Above(stack'[i], stack'[i + 1])
  <2>1. Above(stack[i], stack[i + 1]) /\ stack'[i] = stack[i]
    BY <1>1, <1>2, Zenon DEF StackInv
  <2>2. CASE i = n - 1
    BY <2>1, <2>2, <1>1, <1>2, <1>3 DEF Above
  <2>3. CASE i # n - 1
    BY <2>1, <2>3, <1>1, <1>2
  <2> QED
    BY <2>2, <2>3, Zenon
<1>7. \A i, j \in 1 .. n : (i # j /\ stack'[i].s # None) => stack'[i].s # stack'[j].s
  BY <1>1, <1>2 DEF StackInv
<1>8. \A i \in 1 .. n : stack'[i].s \notin firstAio'
  BY <1>1, <1>2, Zenon DEF n
<1>9. \A i, k \in 1 .. n : i <= k => stack'[i].ctx <= stack'[k].ctx
  BY <1>1, <1>2, Zenon DEF StackInv
<1> QED
  BY <1>1, <1>4, <1>5, <1>6, <1>7, <1>8, <1>9, Zenon DEF StackInv

LEMMA StackEnters ==
  ASSUME stack \in Seq(FrameType), StackInv, NEW f, NEW g, Enters(f, g),
         \A i \in 1 .. Depth : stack[i].s \notin firstAio' /\ (g.s # None => g.s # stack[i].s),
         g.s \notin firstAio'
  PROVE  StackInv'
<1> DEFINE n == Depth
<1>1. n \in Nat /\ n > 0 /\ n = Len(stack) /\ Len(stack') = n + 1
  BY EntersEffect DEF Depth, StackInv
<1>2. /\ stack'[n] = f /\ stack'[n + 1] = g
      /\ \A i \in 1 .. n - 1 : stack'[i] = stack[i]
      /\ \A i \in 1 .. n : /\ stack'[i].fn = stack[i].fn /\ stack'[i].s = stack[i].s
                         /\ stack'[i].ctx = stack[i].ctx
  BY EntersEffect, Zenon DEF StackInv
<1>3. /\ FrameOK(f) /\ f.fn = stack[n].fn /\ f.s = stack[n].s /\ f.ctx = stack[n].ctx /\ (f.fn = "cb" => f.at # "code")
      /\ FrameOK(g) /\ Above(f, g)
  BY Zenon DEF Enters, Top
<1>0. \A i \in 1 .. n : stack[i].s \notin firstAio' /\ (g.s # None => g.s # stack[i].s)
  BY Zenon
<1> HIDE DEF n
<1>4. Len(stack') > 0 /\ stack'[1].fn = "main"
  BY <1>1, <1>2 DEF StackInv
<1>5. \A i \in 1 .. n + 1 : FrameOK(stack'[i])
  BY <1>1, <1>2, <1>3 DEF StackInv
<1>6. ASSUME NEW i \in 1 .. n PROVE Above(stack'[i], stack'[i + 1])
  <2>1. CASE i = n
    BY <2>1, <1>1, <1>2, <1>3, Zenon
  <2>2. CASE i = n - 1
    <3>1. i \in 1 .. n - 1 /\ i + 1 = n
      BY <1>1, <2>2
    <3>2. Above(stack[i], stack[n]) /\ stack'[i] = stack[i]
      BY <3>1, <1>1, <1>2, Zenon DEF StackInv
    <3> QED
      BY <3>1, <3>2, <1>2, <1>3, ZenonT(60) DEF Above
  <2>3. CASE i < n - 1
    <3>1. i \in 1 .. n - 1 /\ i + 1 \in 1 .. n - 1
      BY <1>1, <2>3
    <3> QED
      BY <3>1, <1>1, <1>2, Zenon DEF StackInv
  <2> QED
    BY <1>1, <2>1, <2>2, <2>3
<1>7. \A i, j \in 1 .. n + 1 : (i # j /\ stack'[i].s # None) => stack'[i].s # stack'[j].s
  <2>1. \A i, j \in 1 .. n : (i # j /\ stack[i].s # None) => stack[i].s # stack[j].s
    BY <1>1, Zenon DEF StackInv
  <2>2. \A i \in 1 .. n : stack'[i].s = stack[i].s
    BY <1>2, Zenon
  <2>3. \A i \in 1 .. n + 1 : i \in 1 .. n \/ i = n + 1
    BY <1>1
  <2> SUFFICES ASSUME NEW i \in 1 .. n + 1, NEW j \in 1 .. n + 1,
                      i # j, stack'[i].s # None
               PROVE  stack'[i].s # stack'[j].s
    BY Zenon
  <2>4. CASE i = n + 1
    BY <1>0, <1>2, <2>2, <2>3, <2>4, Zenon
  <2>5. CASE j = n + 1
    BY <1>0, <1>2, <2>2, <2>3, <2>5, Zenon
  <2>6. CASE i \in 1 .. n /\ j \in 1 .. n
    BY <2>1, <2>2, <2>6, Zenon
  <2> QED
    BY <2>3, <2>4, <2>5, <2>6, Zenon
<1>8. \A i \in 1 .. n + 1 : stack'[i].s \notin firstAio'
  BY <1>0, <1>1, <1>2
<1>9. \A i, k \in 1 .. n + 1 : i <= k => stack'[i].ctx <= stack'[k].ctx
  <2>1. \A i \in 1 .. n : stack[i].ctx \in Nat /\ stack[i].ctx <= stack[n].ctx
    <3>1. \A i \in 1 .. n : stack[i] \in FrameType
      BY <1>1
    <3>2. \A i \in 1 .. n : stack[i].ctx \in Nat
      BY <3>1, BoundsAssumption DEF FrameType
    <3> QED
      BY <1>1, <3>2 DEF StackInv
  <2>2. stack'[n + 1].ctx \in Nat /\ stack'[n + 1].ctx >= stack[n].ctx
    <3>1. g.ctx = IF g.fn = "sync" THEN f.ctx + 1 ELSE f.ctx
      BY <1>3, Zenon DEF Above
    <3> QED
      BY <1>1, <1>2, <1>3, <2>1, <3>1
  <2>3. \A i \in 1 .. n + 1 : i \in 1 .. n \/ i = n + 1
    BY <1>1
  <2>4. \A i, k \in 1 .. n : i <= k => stack'[i].ctx <= stack'[k].ctx
    BY <1>1, <1>2, Zenon DEF StackInv
  <2>5. ASSUME NEW i \in 1 .. n PROVE stack'[i].ctx <= stack'[n + 1].ctx
    <3>1. n \in 1 .. n
      BY <1>1
    <3>2. stack[i].ctx \in Nat /\ stack[n].ctx \in Nat /\ stack[i].ctx <= stack[n].ctx
      BY <2>1, <3>1, Zenon
    <3>3. stack[i].ctx <= stack'[n + 1].ctx
      BY <2>2, <3>2
    <3> QED
      BY <1>2, <3>3, Zenon
  <2>6. \A k \in 1 .. n : ~(n + 1 <= k)
    BY <1>1
  <2>7. stack'[n + 1].ctx <= stack'[n + 1].ctx
    BY <2>2
  <2> QED
    BY <2>3, <2>4, <2>5, <2>6, <2>7, Zenon
<1> QED
  BY <1>1, <1>4, <1>5, <1>6, <1>7, <1>8, <1>9 DEF StackInv

LEMMA StackLeaves ==
  ASSUME stack \in Seq(FrameType), StackInv, NEW w, Leaves(w),
         \A i \in 1 .. Depth : stack[i].s \notin firstAio'
  PROVE  StackInv'
<1> DEFINE n == Depth
<1>1. n \in Nat /\ n > 1 /\ n = Len(stack) /\ Len(stack') = n - 1
  BY LeavesEffect DEF Depth, StackInv, Leaves
<1>2. /\ \A i \in 1 .. n - 2 : stack'[i] = stack[i]
      /\ \A i \in 1 .. n - 1 :
              /\ stack'[i].fn = stack[i].fn /\ stack'[i].s = stack[i].s
              /\ stack'[i].at = stack[i].at /\ stack'[i].ran = stack[i].ran
              /\ stack'[i].scan = stack[i].scan
              /\ stack[i].w # stack'[i].w => stack'[i].w = None /\ stack'[i].fn = "sync"
              /\ stack'[i].ctx = stack[i].ctx
  BY LeavesEffect, Zenon DEF StackInv
<1>0. \A i \in 1 .. n : stack[i].s \notin firstAio'
  BY Zenon
<1> HIDE DEF n
<1>4. Len(stack') > 0 /\ stack'[1].fn = "main"
  BY <1>1, <1>2 DEF StackInv
<1>5. ASSUME NEW i \in 1 .. n - 1 PROVE FrameOK(stack'[i])
  <2>1. FrameOK(stack[i])
    BY <1>1 DEF StackInv
  <2> QED
    BY <2>1, <1>2, Zenon DEF FrameOK
<1>6. ASSUME NEW i \in 1 .. n - 2 PROVE Above(stack'[i], stack'[i + 1])
  <2>1. i + 1 \in 1 .. n - 1 /\ i \in 1 .. n - 1
    BY <1>1
  <2>2. Above(stack[i], stack[i + 1]) /\ stack'[i] = stack[i]
    BY <1>1, <1>2, <2>1, Zenon DEF StackInv
  <2> QED
    BY <2>1, <2>2, <1>2, Zenon DEF Above
<1>7. \A i, j \in 1 .. n - 1 : (i # j /\ stack'[i].s # None) => stack'[i].s # stack'[j].s
  BY <1>1, <1>2 DEF StackInv
<1>8. \A i \in 1 .. n - 1 : stack'[i].s \notin firstAio'
  BY <1>0, <1>1, <1>2
<1>9. (n - 1) - 1 = n - 2 /\ \A i \in 1 .. n - 1 : i \in 1 .. n
  BY <1>1
<1>10. \A i, k \in 1 .. n - 1 : i <= k => stack'[i].ctx <= stack'[k].ctx
  BY <1>1, <1>2, <1>9, ZenonT(60) DEF StackInv
<1> QED
  BY <1>1, <1>4, <1>5, <1>6, <1>7, <1>8, <1>9, <1>10, Zenon DEF StackInv

-----------------------------------------------------------------------------
\* The steps of the main thread in which its topmost call goes on, and no
\* request is made, taken back or called back.  What they have in common:
\* bytes and signals are used up, and a scan is over, only as
\* CompletionAnnounced allows.
Walked(f) ==
  /\ Moves(f) /\ f.w = Top.w
  /\ Top.at # "spin" /\ f.at \notin {"signal", "spin"}
  /\ UNCHANGED <<acb, firstAio, queue, job>>
  /\ budget' \in 0 .. MaxRequests
  /\ (f.at = "cond" /\ f.ran = {}) => (firstAio = {} \/ (Top.at = "cond" /\ Top.ran = {}))
  /\ \/ pc' = pc /\ (Top.at = "signal" => \A t \in Threads : pc[t] # "waiting")
     \/ \E t \in Threads : pc[t] = "waiting" /\ pc' = [pc EXCEPT ![t] = "woken"]
  /\ signal' \in BOOLEAN /\ pipe' \in 0 .. PipeSize
  /\ (signal \/ pipe > 0) => (signal' \/ pipe' > 0 \/ f.scan)
  /\ bhs' \subseteq bhs \cup {<<"dev", 0>>}
  /\ \A c \in Nat : <<"aio", c>> \in bhs => (<<"aio", c>> \in bhs' \/ (f.scan /\ c = Ctx))
  /\ Top.scan => (f.scan \/ DoneHere = {})

LEMMA TopFacts ==
  ASSUME TypeOK, StackInv
  PROVE  /\ Depth \in Nat /\ Depth > 0 /\ Depth = Len(stack)
         /\ Top \in FrameType /\ FrameOK(Top)
         /\ Top.s \notin firstAio
         /\ Top.fn = "main" <=> Depth = 1
<1>1. Depth \in Nat /\ Depth > 0 /\ Depth = Len(stack)
  BY DEF TypeOK, StackInv, Depth
<1>2. \A i \in 1 .. Depth : stack[i] \in FrameType
  BY <1>1 DEF TypeOK
<1>3. stack[Depth] \in FrameType /\ FrameOK(stack[Depth]) /\ stack[Depth].s \notin firstAio
  BY <1>1, <1>2 DEF StackInv
<1>4. Depth # 1 => stack[Depth].fn # "main"
  <2> SUFFICES ASSUME Depth # 1 PROVE stack[Depth].fn # "main"
    BY Zenon
  <2>1. Depth - 1 \in 1 .. Len(stack) - 1 /\ (Depth - 1) + 1 = Depth
    BY <1>1
  <2>2. Above(stack[Depth - 1], stack[Depth])
    BY <2>1, Zenon DEF StackInv
  <2> QED
    BY <2>2, Zenon DEF Above
<1> QED
  BY <1>1, <1>3, <1>4, Zenon DEF StackInv, Top

LEMMA WalkSteps ==
  ASSUME TypeOK, StackInv,
         \/ ScheduleBh \/ CondSignal \/ RunAioBh \/ ScanEnd \/ WaitLoop
         \/ FlushCheck \/ NoSelect \/ SelectReads \/ MainLoopReads
         \/ MainLoopPolls \/ AioSignalInSelect
  PROVE  \E f \in FrameType : Walked(f)
<1> USE DEF Frame, At, Goto
<1>1. /\ Top \in FrameType /\ FrameOK(Top)
      /\ signal \in BOOLEAN /\ pipe \in 0 .. PipeSize /\ budget \in 0 .. MaxRequests
      /\ PipeSize \in Nat \ {0} /\ MaxRequests \in Nat
  BY TopFacts, PipeAssumption, BoundsAssumption, Zenon DEF TypeOK
<1>a. CASE ScheduleBh
  <2> DEFINE f == At(AfterOp(Top))
  <2>1. f \in FrameType /\ FrameOK(f)
    BY <1>1, <1>a, Zenon DEF ScheduleBh, FrameType, FrameOK, Places, AfterOp
  <2>2. Moves(f) /\ f.w = Top.w /\ f.at \notin {"signal", "spin", "cond"} /\ f.scan = Top.scan
    BY <2>1, <1>1, <1>a DEF ScheduleBh, Moves, FrameType, AfterOp
  <2> HIDE DEF f
  <2>3. Walked(f)
    BY <2>2, <1>1, <1>a DEF ScheduleBh, Walked, pool, wake
  <2> QED
    BY <2>1, <2>3, Zenon
<1>b. CASE CondSignal
  <2> DEFINE f == At(IF Top.fn = "sync" THEN "loop" ELSE AfterOp(Top))
  <2>1. f \in FrameType /\ FrameOK(f)
    BY <1>1, <1>b, Zenon DEF CondSignal, FrameType, FrameOK, Places, AfterOp
  <2>2. Moves(f) /\ f.w = Top.w /\ f.at \notin {"signal", "spin", "cond"} /\ f.scan = Top.scan
    BY <2>1, <1>1, <1>b DEF CondSignal, Moves, FrameType, AfterOp
  <2> HIDE DEF f
  <2>4. \/ pc' = pc /\ (Top.at = "signal" => \A t \in Threads : pc[t] # "waiting")
        \/ \E t \in Threads : pc[t] = "waiting" /\ pc' = [pc EXCEPT ![t] = "woken"]
    BY <1>b, Zenon DEF CondSignal
  <2>3. Walked(f)
    BY <2>2, <2>4, <1>1, <1>b, Zenon DEF CondSignal, Walked, wake
  <2> QED
    BY <2>1, <2>3, Zenon
<1>c. CASE RunAioBh
  <2> DEFINE f == [Top EXCEPT !.ran = @ \cup {"aio"}, !.scan = TRUE]
  <2>1. f \in FrameType /\ FrameOK(f)
    BY <1>1, <1>c, Zenon DEF RunAioBh, Polling, FrameType, FrameOK, Places
  <2>2. /\ Moves(f) /\ f.w = Top.w /\ f.at = Top.at /\ f.scan /\ f.ran # {}
        /\ Top.at \in {"bh", "pop", "cond"}
    BY <2>1, <1>1, <1>c, Zenon DEF RunAioBh, Polling, Moves, FrameType
  <2> HIDE DEF f
  <2>3. Walked(f)
    BY <2>2, <1>1, <1>c, ZenonT(60) DEF RunAioBh, Walked, pool, wake
  <2> QED
    BY <2>1, <2>3, Zenon
<1>d. CASE ScanEnd
  <2> DEFINE f == [At(CASE Top.at = "queue" -> IF Top.ran = {} THEN "select" ELSE AfterWait(Top)
                [] Top.at = "read" -> AfterWait(Top)
                [] OTHER -> Top.at) EXCEPT !.scan = FALSE]
  <2>1. f \in FrameType /\ FrameOK(f)
    BY <1>1, <1>d, ZenonT(60) DEF ScanEnd, FrameType, FrameOK, Places, AfterWait
  <2>2. /\ Moves(f) /\ f.w = Top.w /\ f.at \notin {"signal", "spin"}
        /\ f.at = "cond" => Top.at = "cond" /\ f.ran = Top.ran
        /\ Top.at \in {"bh", "pop", "cond", "queue", "read"}
    BY <2>1, <1>1, <1>d, ZenonT(60) DEF ScanEnd, Moves, FrameType, FrameOK, Places, AfterWait
  <2> HIDE DEF f
  <2>3. Walked(f)
    BY <2>2, <1>1, <1>d, Zenon DEF ScanEnd, Walked, pool, wake
  <2> QED
    BY <2>1, <2>3, Zenon
<1>e. CASE WaitLoop
  <2> DEFINE f == [At(IF Top.fn = "sync" /\ Top.w = None THEN "pop" ELSE "bh") EXCEPT !.ran = {}]
  <2>1. f \in FrameType /\ FrameOK(f)
    BY <1>1, <1>e, Zenon DEF WaitLoop, FrameType, FrameOK, Places
  <2>2. Moves(f) /\ f.w = Top.w /\ f.at \notin {"signal", "spin", "cond"} /\ f.scan = Top.scan
    BY <2>1, <1>1, <1>e DEF WaitLoop, Moves, FrameType
  <2> HIDE DEF f
  <2>3. Walked(f)
    BY <2>2, <1>1, <1>e, Zenon DEF WaitLoop, Walked, pool, wake
  <2> QED
    BY <2>1, <2>3, Zenon
<1>f. CASE FlushCheck
  <2> DEFINE f == [At("cond") EXCEPT !.ran = IF firstAio # {} THEN {"request"} ELSE {}]
  <2>1. f \in FrameType /\ FrameOK(f)
    BY <1>1, <1>f, Zenon DEF FlushCheck, FrameType, FrameOK, Places
  <2>2. /\ Moves(f) /\ f.w = Top.w /\ f.at \notin {"signal", "spin"} /\ f.scan = Top.scan
        /\ f.ran = {} => firstAio = {}
    BY <2>1, <1>1, <1>f, Zenon DEF FlushCheck, Moves, FrameType
  <2> HIDE DEF f
  <2>3. Walked(f)
    BY <2>2, <1>1, <1>f, Zenon DEF FlushCheck, Walked, pool, wake
  <2> QED
    BY <2>1, <2>3, Zenon
<1>g. CASE NoSelect
  <2> DEFINE f == At(AfterWait(Top))
  <2>1. f \in FrameType /\ FrameOK(f)
    BY <1>1, <1>g, Zenon DEF NoSelect, FrameType, FrameOK, Places, AfterWait
  <2>2. Moves(f) /\ f.w = Top.w /\ f.at \notin {"signal", "spin", "cond"} /\ f.scan = Top.scan
    BY <2>1, <1>1, <1>g, Zenon DEF NoSelect, Moves, FrameType, FrameOK, Places, AfterWait
  <2> HIDE DEF f
  <2>3. Walked(f)
    BY <2>2, <1>1, <1>g, Zenon DEF NoSelect, Walked, pool, wake
  <2> QED
    BY <2>1, <2>3, Zenon
<1>h. CASE SelectReads \/ MainLoopReads
  <2> DEFINE f == [At("read") EXCEPT !.scan = TRUE, !.ran = {}]
  <2>1. f \in FrameType /\ FrameOK(f) /\ Top.at \in {"select", "code"}
    BY <1>1, <1>h, Zenon DEF SelectReads, MainLoopReads, PosixAioRead, FrameType, FrameOK, Places
  <2>2. Moves(f) /\ f.w = Top.w /\ f.at = "read" /\ f.scan
    BY <2>1, <1>1, <1>h, Zenon DEF SelectReads, MainLoopReads, PosixAioRead, Moves, FrameType
  <2> HIDE DEF f
  <2>3. Walked(f)
    BY <2>1, <2>2, <1>1, <1>h DEF SelectReads, MainLoopReads, PosixAioRead, Walked, pool
  <2> QED
    BY <2>1, <2>3, Zenon
<1>i. CASE MainLoopPolls
  <2> DEFINE f == [At("bh") EXCEPT !.ran = {}]
  <2>1. f \in FrameType /\ FrameOK(f)
    BY <1>1, <1>i, Zenon DEF MainLoopPolls, FrameType, FrameOK, Places
  <2>2. Moves(f) /\ f.w = Top.w /\ f.at = "bh" /\ f.scan = Top.scan
    BY <2>1, <1>1, <1>i, Zenon DEF MainLoopPolls, Moves, FrameType
  <2> HIDE DEF f
  <2>3. Walked(f)
    BY <2>2, <1>1, <1>i, Zenon DEF MainLoopPolls, Walked, pool, wake
  <2> QED
    BY <2>1, <2>3, Zenon
<1>j. CASE AioSignalInSelect
  <2> DEFINE f == At(AfterWait(Top))
  <2>1. f \in FrameType /\ FrameOK(f)
    BY <1>1, <1>j, Zenon DEF AioSignalInSelect, FrameType, FrameOK, Places, AfterWait
  <2>2. Moves(f) /\ f.w = Top.w /\ f.at \notin {"signal", "spin", "cond"} /\ f.scan = Top.scan
    BY <2>1, <1>1, <1>j, Zenon DEF AioSignalInSelect, Moves, FrameType, FrameOK, Places, AfterWait
  <2> HIDE DEF f
  <2>3. signal' \in BOOLEAN
    BY <1>j, Zenon DEF AioSignalInSelect, SignalHandler
  <2>5. pipe' \in 0 .. PipeSize /\ pipe' > 0
    BY <1>1, <1>j DEF AioSignalInSelect, SignalHandler
  <2>4. Walked(f)
    BY <2>2, <2>3, <2>5, <1>1, <1>j, Zenon DEF AioSignalInSelect, Walked, pool
  <2> QED
    BY <2>1, <2>4, Zenon
<1> QED
  BY <1>a, <1>b, <1>c, <1>d, <1>e, <1>f, <1>g, <1>h, <1>i, <1>j, Zenon

\* async_context_pop ends: the calling context is told to look for
\* completions it missed
Popped ==
  /\ Top.at = "pop" /\ Top.fn = "sync" /\ Top.w = None /\ ~Top.scan
  /\ Leaves(stack[Depth - 1].w)
  /\ bhs' = bhs \cup {<<"aio", Ctx - 1>>}
  /\ UNCHANGED <<acb, firstAio, pool, wake, budget>>

\* qemu_aio_flush ends
Flushed ==
  /\ Top.at = "cond" /\ Top.fn = "flush" /\ Top.ran = {} /\ ~Top.scan
  /\ Leaves(stack[Depth - 1].w)
  /\ UNCHANGED <<acb, firstAio, pool, wake, bhs, budget>>

LEMMA Shrinks ==
  ASSUME TypeOK, StackInv, Top.fn # "main", stack' = SubSeq(stack, 1, Depth - 1)
  PROVE  Leaves(stack[Depth - 1].w)
<1> DEFINE n == Depth
           w == stack[n - 1].w
<1>1. n \in Nat /\ n > 1 /\ n = Len(stack)
  BY TopFacts
<1>2. \A i \in 1 .. n : stack[i] \in FrameType
  BY <1>1 DEF TypeOK
<1> HIDE DEF n
<1>3. stack' = [i \in 1 .. n - 1 |-> stack[i]]
  BY <1>1 DEF TypeOK, n
<1>4. stack[n - 1] \in FrameType
  BY <1>1, <1>2
<1>5. w \in Slots \cup {None} /\ [stack[n - 1] EXCEPT !.w = w] = stack[n - 1]
  BY <1>4, Zenon DEF FrameType
<1> HIDE DEF w
<1>6. [i \in 1 .. n - 1 |-> stack[i]] =
        [i \in 1 .. n - 1 |-> IF i = n - 1 THEN [stack[i] EXCEPT !.w = w] ELSE stack[i]]
  BY <1>1, <1>5, Zenon
<1>7. w = stack[n - 1].w
  BY Zenon DEF w
<1> QED
  BY <1>1, <1>3, <1>5, <1>6, <1>7, Zenon DEF Leaves, n

LEMMA PollEndSteps ==
  ASSUME TypeOK, StackInv, PollEnd
  PROVE  (\E f \in FrameType : Walked(f)) \/ Popped \/ Flushed
<1> USE DEF At, Goto
<1>1. /\ Top \in FrameType /\ FrameOK(Top)
      /\ signal \in BOOLEAN /\ pipe \in 0 .. PipeSize /\ budget \in 0 .. MaxRequests
      /\ PipeSize \in Nat \ {0} /\ MaxRequests \in Nat
  BY TopFacts, PipeAssumption, BoundsAssumption, Zenon DEF TypeOK
<1>2. /\ Top.at \in {"bh", "pop", "cond"} /\ ~Top.scan
      /\ UNCHANGED <<acb, firstAio, pool, wake, budget>>
  BY Zenon DEF PollEnd, Polling
<1>a. CASE Top.at = "bh" /\ Top.fn = "main"
  <2> DEFINE f == At("code")
  <2>0. Goto(f) /\ bhs' = bhs
    BY <1>a, Zenon DEF PollEnd
  <2>1. f \in FrameType /\ FrameOK(f)
    BY <1>1, <1>2, <1>a, Zenon DEF FrameType, FrameOK, Places
  <2>2. Moves(f) /\ f.w = Top.w /\ f.at = "code" /\ f.scan = Top.scan
    BY <2>0, <2>1, <1>1, <1>a, Zenon DEF Moves, FrameType
  <2> HIDE DEF f
  <2>3. Walked(f)
    BY <2>0, <2>2, <1>1, <1>2, <1>a, Zenon DEF Walked, pool, wake
  <2> QED
    BY <2>1, <2>3, Zenon
<1>b. CASE Top.at = "bh" /\ Top.fn # "main"
  <2> DEFINE f == IF Top.ran # {} THEN At(AfterWait(Top)) ELSE [At("queue") EXCEPT !.scan = TRUE]
  <2>0. Goto(f) /\ bhs' = bhs
    BY <1>b, Zenon DEF PollEnd
  <2>1. f \in FrameType /\ FrameOK(f)
    BY <1>1, <1>2, <1>b, Zenon DEF FrameType, FrameOK, Places, AfterWait
  <2>2. Moves(f) /\ f.w = Top.w /\ f.at \notin {"signal", "spin", "cond"}
    BY <2>0, <2>1, <1>1, <1>b DEF Moves, FrameType, FrameOK, Places, AfterWait
  <2> HIDE DEF f
  <2>3. Walked(f)
    BY <2>0, <2>2, <1>1, <1>2, <1>b, Zenon DEF Walked, pool, wake
  <2> QED
    BY <2>1, <2>3, Zenon
<1>c. CASE Top.at = "pop" /\ Top.ran # {}
  <2> DEFINE f == [Top EXCEPT !.ran = {}]
  <2>0. Goto(f) /\ bhs' = bhs
    BY <1>c, Zenon DEF PollEnd
  <2>1. f \in FrameType /\ FrameOK(f)
    BY <1>1, <1>2, <1>c, Zenon DEF FrameType, FrameOK, Places
  <2>2. Moves(f) /\ f.w = Top.w /\ f.at = "pop" /\ f.scan = Top.scan
    BY <2>0, <2>1, <1>1, <1>c, Zenon DEF Moves, FrameType, FrameOK, Places
  <2> HIDE DEF f
  <2>3. Walked(f)
    BY <2>0, <2>2, <1>1, <1>2, <1>c, Zenon DEF Walked, pool, wake
  <2> QED
    BY <2>1, <2>3, Zenon
<1>d. CASE Top.at = "pop" /\ Top.ran = {}
  <2>1. stack' = SubSeq(stack, 1, Depth - 1) /\ bhs' = bhs \cup {<<"aio", Ctx - 1>>}
    BY <1>d, Zenon DEF PollEnd, Pop
  <2>2. Top.fn = "sync" /\ Top.w = None
    BY <1>1, <1>d, Zenon DEF FrameOK, Places, FrameType
  <2>3. Leaves(stack[Depth - 1].w)
    BY <2>1, <2>2, Shrinks, Zenon
  <2> QED
    BY <2>1, <2>2, <2>3, <1>2, <1>d, Zenon DEF Popped
<1>e. CASE Top.at = "cond" /\ Top.ran # {}
  <2> DEFINE f == At("loop")
  <2>0. Goto(f) /\ bhs' = bhs
    BY <1>e, Zenon DEF PollEnd, FlushReturns
  <2>1. f \in FrameType /\ FrameOK(f)
    BY <1>1, <1>2, <1>e, Zenon DEF FrameType, FrameOK, Places
  <2>2. Moves(f) /\ f.w = Top.w /\ f.at = "loop" /\ f.scan = Top.scan
    BY <2>0, <2>1, <1>1, <1>e, Zenon DEF Moves, FrameType, FrameOK, Places
  <2> HIDE DEF f
  <2>3. Walked(f)
    BY <2>0, <2>2, <1>1, <1>2, <1>e, Zenon DEF Walked, pool, wake
  <2> QED
    BY <2>1, <2>3, Zenon
<1>f. CASE Top.at = "cond" /\ Top.ran = {}
  <2>1. stack' = SubSeq(stack, 1, Depth - 1) /\ bhs' = bhs
    BY <1>f, Zenon DEF PollEnd, FlushReturns
  <2>2. Top.fn = "flush"
    BY <1>1, <1>f, Zenon DEF FrameOK, Places, FrameType
  <2>3. Leaves(stack[Depth - 1].w)
    BY <2>1, <2>2, Shrinks, Zenon
  <2> QED
    BY <2>1, <2>2, <2>3, <1>2, <1>f, Zenon DEF Flushed
<1> QED
  BY <1>2, <1>a, <1>b, <1>c, <1>d, <1>e, <1>f, Zenon

-----------------------------------------------------------------------------
\* The main loop and qemu_aio_flush are in the outermost context
LEMMA OuterContext ==
  ASSUME TypeOK, StackInv, NEW k \in 1 .. Depth, stack[k].fn \in {"main", "flush"}
  PROVE  stack[k].ctx = 0
<1>1. Depth \in Nat /\ Depth = Len(stack) /\ Depth > 0 /\ stack[1].fn = "main"
  BY TopFacts, Zenon DEF StackInv
<1>2. stack[1].ctx = 0
  <2>1. 1 \in 1 .. Len(stack)
    BY <1>1
  <2>2. FrameOK(stack[1])
    BY <2>1, Zenon DEF StackInv
  <2> QED
    BY <1>1, <2>2, Zenon DEF FrameOK
<1>3. \A i \in 1 .. Depth - 1 : Above(stack[i], stack[i + 1])
  BY <1>1, Zenon DEF StackInv
<1>4. ASSUME NEW i \in 1 .. Depth, stack[i].fn = "main" PROVE i = 1
  <2> SUFFICES ASSUME i # 1 PROVE FALSE
    BY Zenon
  <2>1. i - 1 \in 1 .. Depth - 1 /\ (i - 1) + 1 = i
    BY <1>1
  <2>2. Above(stack[i - 1], stack[i])
    BY <1>3, <2>1, Zenon
  <2> QED
    BY <2>2, <1>4, Zenon DEF Above
<1>5. CASE stack[k].fn = "main"
  BY <1>2, <1>4, <1>5, Zenon
<1>6. CASE stack[k].fn = "flush"
  <2>1. k # 1
    BY <1>1, <1>6, Zenon
  <2>2. k - 1 \in 1 .. Depth - 1 /\ (k - 1) + 1 = k /\ k - 1 \in 1 .. Depth
    BY <1>1, <2>1
  <2>3. Above(stack[k - 1], stack[k])
    BY <1>3, <2>2, Zenon
  <2> QED
    BY <1>6, <2>3, Zenon DEF Above
<1> QED
  BY <1>5, <1>6, Zenon

LEMMA CtxFacts ==
  ASSUME TypeOK, StackInv
  PROVE  /\ Ctx \in Nat /\ Ctx = stack[Depth].ctx
         /\ \A i \in 1 .. Depth : stack[i].ctx \in Nat /\ stack[i].ctx <= Ctx
         /\ Top.fn \in {"main", "flush"} => Ctx = 0
         /\ Top.fn # "main" =>
              /\ Depth - 1 \in 1 .. Depth /\ Above(stack[Depth - 1], Top)
              /\ Ctx = IF Top.fn = "sync" THEN stack[Depth - 1].ctx + 1
                       ELSE stack[Depth - 1].ctx
         /\ Top.fn = "sync" => \A i \in 1 .. Depth - 1 : stack[i].ctx <= Ctx - 1
         /\ (Top.fn = "cb" /\ stack[Depth - 1].fn # "sync") => Ctx = 0
<1>1. Depth \in Nat /\ Depth = Len(stack) /\ Depth > 0 /\ stack[1].fn = "main"
      /\ (Top.fn = "main" <=> Depth = 1)
  BY TopFacts, Zenon DEF StackInv
<1>2. Ctx = stack[Depth].ctx
  BY Zenon DEF Ctx, Top
<1>3. \A i \in 1 .. Depth : stack[i].ctx \in Nat
  <2>1. \A i \in 1 .. Depth : stack[i] \in FrameType
    BY <1>1 DEF TypeOK
  <2> QED
    BY <2>1, BoundsAssumption DEF FrameType
<1>9. \A i, k \in 1 .. Depth : i <= k => stack[i].ctx <= stack[k].ctx
  BY <1>1, Zenon DEF StackInv
<1>4. Ctx \in Nat /\ \A i \in 1 .. Depth : stack[i].ctx <= Ctx
  <2>1. Depth \in 1 .. Depth /\ \A i \in 1 .. Depth : i <= Depth
    BY <1>1
  <2> QED
    BY <1>2, <1>3, <1>9, <2>1, Zenon
<1>5. Top.fn \in {"main", "flush"} => Ctx = 0
  <2>1. Depth \in 1 .. Depth
    BY <1>1
  <2> QED
    BY <1>2, <2>1, OuterContext, Zenon DEF Top
<1>6. ASSUME Top.fn # "main"
      PROVE  /\ Depth - 1 \in 1 .. Depth /\ Above(stack[Depth - 1], Top)
             /\ Ctx = IF Top.fn = "sync" THEN stack[Depth - 1].ctx + 1
                      ELSE stack[Depth - 1].ctx
  <2>1. Depth - 1 \in 1 .. Depth - 1 /\ Depth - 1 \in 1 .. Depth /\ (Depth - 1) + 1 = Depth
    BY <1>1, <1>6
  <2>2. Above(stack[Depth - 1], Top)
    BY <1>1, <2>1, Zenon DEF StackInv, Top
  <2> QED
    BY <2>1, <2>2, Zenon DEF Above, Ctx
<1>7. ASSUME Top.fn = "sync", NEW i \in 1 .. Depth - 1 PROVE stack[i].ctx <= Ctx - 1
  <2>1. Ctx = stack[Depth - 1].ctx + 1 /\ Depth - 1 \in 1 .. Depth
    BY <1>6, <1>7, Zenon
  <2>2. i \in 1 .. Depth /\ i <= Depth - 1
    BY <1>1
  <2>3. stack[i].ctx <= stack[Depth - 1].ctx
    BY <1>9, <2>1, <2>2, Zenon
  <2>4. stack[i].ctx \in Nat /\ stack[Depth - 1].ctx \in Nat
    BY <1>3, <2>1, <2>2, Zenon
  <2> QED
    BY <2>1, <2>3, <2>4
<1>8. ASSUME Top.fn = "cb", stack[Depth - 1].fn # "sync" PROVE Ctx = 0
  <2>1. /\ Depth - 1 \in 1 .. Depth /\ Above(stack[Depth - 1], Top)
        /\ Ctx = stack[Depth - 1].ctx
    BY <1>6, <1>8, Zenon
  <2>2. stack[Depth - 1].fn \in {"main", "sync", "flush", "cb"}
    <3>1. stack[Depth - 1] \in FrameType
      BY <1>1, <2>1 DEF TypeOK
    <3> QED
      BY <3>1, Zenon DEF FrameType
  <2>3. stack[Depth - 1].fn \in {"main", "flush"}
    BY <1>8, <2>1, <2>2, Zenon DEF Above
  <2> QED
    BY <2>1, <2>3, OuterContext, Zenon
<1> QED
  BY <1>2, <1>3, <1>4, <1>5, <1>6, <1>7, <1>8, Zenon

\* qemu_aio_get: the slot is neither in use nor the one of a callback that
\* is under way
LEMMA SlotFacts ==
  ASSUME TypeOK, Free # {}
  PROVE  /\ Slot \in Slots /\ Slot \notin firstAio /\ Slot # None
         /\ \A i \in 1 .. Depth : stack[i].s # Slot
<1>1. Slot \in Free
  BY Zenon DEF Slot
<1>2. DOMAIN stack = 1 .. Depth
  BY DEF TypeOK, Depth
<1> QED
  BY <1>1, <1>2, NoneAssumption, Zenon DEF Free, Calls

-----------------------------------------------------------------------------
\* The other steps of the main thread

\* A bottom half or qemu_aio_flush is called, or a synchronous call whose
\* request is refused
Called(f, g) ==
  /\ Enters(f, g) /\ f.scan = Top.scan
  /\ Top.at \notin {"signal", "spin"}
  /\ g.s = None /\ g.fn \in {"cb", "flush", "sync"} /\ g.at \in {"code", "loop", "pop"}
  /\ ~g.scan /\ (g.fn = "sync" => Ctx < MaxDepth)
  /\ bhs' \subseteq bhs
  /\ \A c \in Nat : <<"aio", c>> \in bhs => <<"aio", c>> \in bhs'
  /\ budget' = budget \/ (budget > 0 /\ budget' = budget - 1)
  /\ UNCHANGED <<acb, firstAio, pool, wake>>

\* The callback of request s is called
CalledBack(s, f, g) ==
  /\ Callback(s) /\ Enters(f, g) /\ f.at = Top.at /\ f.scan = Top.scan
  /\ Top.at \notin {"signal", "spin"}
  /\ g.s = s /\ g.fn = "cb" /\ g.at = "code" /\ ~g.scan

\* A synchronous call is made
SyncCalled(f, g) ==
  /\ Submit(Ctx + 1) /\ Ctx < MaxDepth
  /\ Enters(f, g) /\ f.scan = Top.scan
  /\ g.s = None /\ g.fn = "sync" /\ g.w = Slot /\ g.at = "signal" /\ ~g.scan

\* A callback returns
Returned(w) ==
  /\ Top.fn = "cb" /\ ~Top.scan /\ Top.at \notin {"signal", "spin"}
  /\ Leaves(w) /\ (w # stack[Depth - 1].w => stack[Depth - 1].w = Top.s)
  /\ acb' = [s \in Slots |-> IF s = Top.s THEN Blank ELSE acb[s]]
  /\ UNCHANGED <<firstAio, pool, wake, bhs, budget>>

\* A request is cancelled, at once or after a wait
Cancelled(f, s) ==
  /\ Moves(f) /\ f.scan = Top.scan
  /\ Top.fn # "sync" /\ Top.at # "signal" /\ f.at \notin {"signal", "spin", "cond"}
  /\ s \in firstAio
  /\ Release(s)
  /\ \/ ~acb[s].active /\ queue' = Dequeued(s)
     \/ Done(s) /\ queue' = queue
  /\ UNCHANGED <<pc, job, wake, bhs, budget>>

\* The wait for a worker begins
Awaits(f, s) ==
  /\ Moves(f) /\ f.scan = Top.scan
  /\ Top.fn # "sync" /\ Top.at # "signal" /\ f.at = "spin"
  /\ s \in firstAio /\ f.w = s
  /\ UNCHANGED <<acb, firstAio, queue, pc, job, wake, bhs, budget>>

LEMMA CallSteps ==
  ASSUME TypeOK, StackInv, ContextInv, RunDevBh \/ FlushCall \/ SyncRefused
  PROVE  \E f, g \in FrameType : Called(f, g)
<1>1. Top \in FrameType /\ FrameOK(Top)
  BY TopFacts, Zenon
<1>2. Ctx \in Nat /\ (Top.fn = "sync" => Ctx # 0)
  <2>1. Ctx \in Nat
    BY CtxFacts, Zenon
  <2>2. ASSUME Top.fn = "sync" PROVE Ctx # 0
    <3>1. Ctx = stack[Depth - 1].ctx + 1 /\ Depth - 1 \in 1 .. Depth
      BY <2>2, CtxFacts, Zenon
    <3>2. stack[Depth - 1].ctx \in Nat
      BY <3>1, CtxFacts, Zenon
    <3> QED
      BY <3>1, <3>2
  <2> QED
    BY <2>1, <2>2, Zenon
<1>a. CASE RunDevBh
  <2> DEFINE f == [Top EXCEPT !.ran = @ \cup {"dev"}]
             g == Frame("cb", "code", None, None, Ctx)
  <2>1. Top.at \in {"bh", "pop", "cond"} /\ ~Top.scan /\ <<"dev", Ctx>> \in bhs
    BY <1>a, Zenon DEF RunDevBh, Polling
  <2>2. Ctx = 0
    BY <2>1, <1>2, Zenon DEF ContextInv, DevOutermost, TypeOK
  <2>3. Top.fn # "sync"
    BY <2>2, <1>2, Zenon
  <2>4. f \in FrameType /\ FrameOK(f) /\ g \in FrameType /\ FrameOK(g)
    BY <1>1, <2>1, Zenon DEF FrameType, FrameOK, Places, Frame, Ctx
  <2>5. /\ f.fn = Top.fn /\ f.s = Top.s /\ f.w = Top.w /\ f.at = Top.at /\ f.scan = Top.scan
        /\ f.ctx = Top.ctx /\ f.ran # {}
        /\ g.s = None /\ g.fn = "cb" /\ g.at = "code" /\ g.scan = FALSE /\ g.ctx = Ctx
        /\ Top.fn \in {"main", "flush", "sync"}
    BY <1>1, <2>1, Zenon DEF FrameType, Frame, FrameOK, Places
  <2>6. stack' = Append([stack EXCEPT ![Depth] = f], g)
    BY <1>a, Zenon DEF RunDevBh, Top
  <2> HIDE DEF f, g
  <2>7. Enters(f, g)
    BY <2>1, <2>3, <2>4, <2>5, <2>6, Zenon DEF Enters, Above, Ctx
  <2>8. Called(f, g)
    BY <1>a, <2>1, <2>5, <2>7, Zenon DEF Called, RunDevBh
  <2> QED
    BY <2>4, <2>8, Zenon
<1>3. ASSUME Top.at = "code"
      PROVE  LET f == At(AfterOp(Top))
             IN  /\ f \in FrameType /\ FrameOK(f)
                 /\ f.fn = Top.fn /\ f.s = Top.s /\ f.w = Top.w /\ f.scan = Top.scan
                 /\ f.at \in {"code", "ret"} /\ (f.fn = "cb" => f.at = "ret")
                 /\ f.ctx = Top.ctx /\ Top.fn \in {"main", "cb"}
  BY <1>1, <1>3, Zenon DEF FrameType, FrameOK, Places, At, AfterOp
<1>b. CASE FlushCall
  <2> DEFINE f == At(AfterOp(Top))
             g == Frame("flush", "loop", None, None, Ctx)
  <2>1. Top.at = "code" /\ Ctx = 0
    BY <1>b, Zenon DEF FlushCall
  <2>4. g \in FrameType /\ FrameOK(g)
    BY <1>1, Zenon DEF FrameType, FrameOK, Places, Frame, Ctx
  <2>5. g.s = None /\ g.fn = "flush" /\ g.at = "loop" /\ g.scan = FALSE /\ g.ctx = Ctx
    BY Zenon DEF Frame
  <2>6. stack' = Append([stack EXCEPT ![Depth] = f], g)
    BY <1>b, Zenon DEF FlushCall
  <2>f. /\ f \in FrameType /\ FrameOK(f)
        /\ f.fn = Top.fn /\ f.s = Top.s /\ f.w = Top.w /\ f.scan = Top.scan
        /\ f.at \in {"code", "ret"} /\ (f.fn = "cb" => f.at = "ret")
        /\ f.ctx = Top.ctx /\ Top.fn \in {"main", "cb"}
    BY <1>3, <2>1, Zenon
  <2> HIDE DEF f, g
  <2>7. Enters(f, g)
    BY <2>1, <2>4, <2>5, <2>6, <2>f, Zenon DEF Enters, Above, Ctx
  <2>8. Called(f, g)
    BY <1>b, <2>1, <2>5, <2>7, <2>f, Zenon DEF Called, FlushCall
  <2> QED
    BY <2>4, <2>8, <2>f, Zenon
<1>c. CASE SyncRefused
  <2> DEFINE f == At(AfterOp(Top))
             g == Frame("sync", "pop", None, None, Ctx + 1)
  <2>1. Top.at = "code" /\ Ctx < MaxDepth
    BY <1>c, Zenon DEF SyncRefused
  <2>2. Ctx + 1 \in 0 .. MaxDepth
    BY <1>2, <2>1, BoundsAssumption
  <2>4. g \in FrameType /\ FrameOK(g)
    BY <2>2, Zenon DEF FrameType, FrameOK, Places, Frame
  <2>5. g.s = None /\ g.fn = "sync" /\ g.at = "pop" /\ g.scan = FALSE /\ g.ctx = Ctx + 1
    BY Zenon DEF Frame
  <2>6. stack' = Append([stack EXCEPT ![Depth] = f], g)
    BY <1>c, Zenon DEF SyncRefused, Pushed
  <2>f. /\ f \in FrameType /\ FrameOK(f)
        /\ f.fn = Top.fn /\ f.s = Top.s /\ f.w = Top.w /\ f.scan = Top.scan
        /\ f.at \in {"code", "ret"} /\ (f.fn = "cb" => f.at = "ret")
        /\ f.ctx = Top.ctx /\ Top.fn \in {"main", "cb"}
    BY <1>3, <2>1, Zenon
  <2> HIDE DEF f, g
  <2>7. Enters(f, g)
    BY <2>4, <2>5, <2>6, <2>f, Zenon DEF Enters, Above, Ctx
  <2>8. Called(f, g)
    BY <1>c, <2>1, <2>5, <2>7, <2>f, Zenon DEF Called, SyncRefused
  <2> QED
    BY <2>4, <2>8, <2>f, Zenon
<1> QED
  BY <1>a, <1>b, <1>c, Zenon

LEMMA CallbackSteps ==
  ASSUME TypeOK, StackInv, ContextInv, NEW s \in Slots, Callback(s)
  PROVE  \E f, g \in FrameType : CalledBack(s, f, g)
<1> DEFINE f == [Top EXCEPT !.ran = @ \cup {"request"}]
           g == Frame("cb", "code", s, None, Ctx)
<1>1. Top \in FrameType /\ FrameOK(Top)
  BY TopFacts, Zenon
<1>2. Top.scan /\ s \in firstAio /\ acb[s].ctx = Ctx
  BY Zenon DEF Callback, DoneHere
<1>3. f \in FrameType /\ FrameOK(f) /\ g \in FrameType /\ FrameOK(g)
  BY <1>1, <1>2, Zenon DEF FrameType, FrameOK, Places, Frame, Ctx
<1>4. /\ f.fn = Top.fn /\ f.s = Top.s /\ f.w = Top.w /\ f.at = Top.at /\ f.scan = Top.scan
      /\ f.ctx = Top.ctx /\ f.ran # {}
      /\ g.s = s /\ g.fn = "cb" /\ g.at = "code" /\ g.scan = FALSE /\ g.ctx = Ctx
      /\ Top.fn \in {"main", "flush", "sync"}
      /\ Top.at \in {"bh", "pop", "cond", "queue", "read"}
  BY <1>1, <1>2, Zenon DEF FrameType, Frame, FrameOK, Places
<1>5. stack' = Append([stack EXCEPT ![Depth] = f], g)
  BY Zenon DEF Callback, Top
<1>6. Top.fn = "sync" => Top.w = s
  <2> SUFFICES ASSUME Top.fn = "sync" PROVE Top.w = s
    BY Zenon
  <2>1. /\ Ctx = stack[Depth - 1].ctx + 1 /\ Depth - 1 \in 1 .. Depth /\ Depth \in Nat
        /\ \A i \in 1 .. Depth - 1 : stack[i].ctx <= Ctx - 1
        /\ \A i \in 1 .. Depth : stack[i].ctx \in Nat
    BY CtxFacts, TopFacts, Zenon
  <2>2. Ctx # 0 /\ Ctx \in Nat
    BY <2>1
  <2>3. PICK i \in 1 .. Depth : stack[i].fn = "sync" /\ stack[i].w = s /\ stack[i].ctx = Ctx
    BY <1>2, <2>2, Zenon DEF ContextInv, NestedAwaited, Depth
  <2>4. i \notin 1 .. Depth - 1
    BY <2>1, <2>2, <2>3
  <2>5. i = Depth
    BY <2>1, <2>4
  <2> QED
    BY <2>3, <2>5, Zenon DEF Top
<1> HIDE DEF f, g
<1>7. Top.fn = "sync" => Top.at # "pop"
  BY <1>1, <1>6, NoneAssumption, Zenon DEF FrameOK
<1>9. Enters(f, g)
  BY <1>3, <1>4, <1>5, <1>6, <1>7, Zenon DEF Enters, Above, Ctx
<1>8. CalledBack(s, f, g)
  BY <1>4, <1>9, Zenon DEF CalledBack
<1> QED
  BY <1>3, <1>8, Zenon

LEMMA SyncCallSteps ==
  ASSUME TypeOK, StackInv, SyncCall
  PROVE  \E f, g \in FrameType : SyncCalled(f, g)
<1> DEFINE f == At(AfterOp(Top))
           g == Frame("sync", "signal", None, Slot, Ctx + 1)
<1>1. Top \in FrameType /\ FrameOK(Top)
  BY TopFacts, Zenon
<1>2. Top.at = "code" /\ Submit(Ctx + 1) /\ Ctx < MaxDepth
  BY Zenon DEF SyncCall
<1>3. Slot \in Slots /\ Ctx + 1 \in 0 .. MaxDepth
  <2>1. Ctx \in Nat
    BY CtxFacts, Zenon
  <2>2. Slot \in Slots
    BY <1>2, SlotFacts, Zenon DEF Submit
  <2> QED
    BY <1>2, <2>1, <2>2, BoundsAssumption
<1>4. f \in FrameType /\ FrameOK(f) /\ g \in FrameType /\ FrameOK(g)
  BY <1>1, <1>2, <1>3, Zenon DEF FrameType, FrameOK, Places, Frame, At, AfterOp
<1>5. /\ f.fn = Top.fn /\ f.s = Top.s /\ f.w = Top.w /\ f.scan = Top.scan
      /\ f.at \in {"code", "ret"} /\ (f.fn = "cb" => f.at = "ret")
      /\ g.s = None /\ g.fn = "sync" /\ g.at = "signal" /\ g.w = Slot /\ g.scan = FALSE
      /\ f.ctx = Top.ctx /\ g.ctx = Ctx + 1
  BY <1>1, <1>2, Zenon DEF FrameType, Frame, At, AfterOp
<1>6. stack' = Append([stack EXCEPT ![Depth] = f], g)
  BY Zenon DEF SyncCall, Pushed
<1> HIDE DEF f, g
<1>7. Enters(f, g)
  BY <1>4, <1>5, <1>6, Zenon DEF Enters, Above, Ctx
<1>8. SyncCalled(f, g)
  BY <1>2, <1>5, <1>7, Zenon DEF SyncCalled
<1> QED
  BY <1>4, <1>8, Zenon

LEMMA ReturnSteps ==
  ASSUME TypeOK, StackInv, CallbackReturns
  PROVE  \E w \in Slots \cup {None} : Returned(w)
<1> DEFINE n == Depth
           v == stack[n - 1].w
           w == IF stack[n - 1].fn = "sync" /\ v = Top.s THEN None ELSE v
<1>1. Top.fn = "cb" /\ Top.at \in {"code", "ret"}
  BY Zenon DEF CallbackReturns
<1>2. n \in Nat /\ n > 1 /\ n = Len(stack) /\ Top \in FrameType /\ FrameOK(Top)
  BY <1>1, TopFacts
<1>3. ~Top.scan
  BY <1>1, <1>2, Zenon DEF FrameOK
<1>4. \A i \in 1 .. n : stack[i] \in FrameType
  BY <1>2 DEF TypeOK
<1>5. stack' = [i \in 1 .. n - 1 |->
       IF i = n - 1 /\ stack[i].fn = "sync" /\ stack[i].w = Top.s
         THEN [stack[i] EXCEPT !.w = None] ELSE stack[i]]
  BY Zenon DEF CallbackReturns
<1> HIDE DEF n
<1>6. stack[n - 1] \in FrameType
  BY <1>2, <1>4
<1>7. v \in Slots \cup {None} /\ [stack[n - 1] EXCEPT !.w = v] = stack[n - 1]
  BY <1>6, Zenon DEF FrameType
<1>8. v = stack[n - 1].w
  BY Zenon
<1> HIDE DEF v
<1>9. /\ w \in Slots \cup {None}
      /\ w # v => w = None /\ stack[n - 1].fn = "sync" /\ v = Top.s
  BY <1>7, Zenon
<1>10. [stack[n - 1] EXCEPT !.w = w] =
         IF stack[n - 1].fn = "sync" /\ v = Top.s
           THEN [stack[n - 1] EXCEPT !.w = None] ELSE stack[n - 1]
  BY <1>7, Zenon
<1> HIDE DEF w
<1>11. stack' = [i \in 1 .. n - 1 |->
         IF i = n - 1 THEN [stack[i] EXCEPT !.w = w] ELSE stack[i]]
  BY <1>2, <1>5, <1>8, <1>10, Zenon
<1>12. Leaves(w)
  BY <1>2, <1>8, <1>9, <1>11, Zenon DEF Leaves, n
<1>13. Returned(w)
  BY <1>1, <1>3, <1>8, <1>9, <1>12, Zenon DEF Returned, CallbackReturns, n
<1> QED
  BY <1>9, <1>13, Zenon

LEMMA CancelSteps ==
  ASSUME TypeOK, StackInv, PoolInv,
         CancelDone \/ \E s \in Slots : PaioCancel(s)
  PROVE  \E f \in FrameType, s \in Slots : Cancelled(f, s) \/ Awaits(f, s)
<1>1. Top \in FrameType /\ FrameOK(Top) /\ firstAio \subseteq Slots
  BY TopFacts, Zenon DEF TypeOK
<1>a. CASE CancelDone
  <2> DEFINE f == [At(AfterOp(Top)) EXCEPT !.w = None]
             s == Top.w
  <2>1. Top.at = "spin" /\ s \in firstAio /\ Done(s) /\ s \in Slots
    BY <1>a, <1>1, Zenon DEF CancelDone, PoolInv, SpinOK
  <2>2. f \in FrameType /\ FrameOK(f)
    BY <1>1, <2>1, Zenon DEF FrameType, FrameOK, Places, At, AfterOp
  <2>3. /\ Moves(f) /\ f.scan = Top.scan /\ f.at \notin {"signal", "spin", "cond"}
        /\ Top.fn # "sync"
    BY <1>1, <1>a, <2>1, <2>2 DEF CancelDone, Goto, Moves, FrameType, FrameOK, Places, At, AfterOp
  <2>4. Release(s)
    BY <1>a, Zenon DEF CancelDone
  <2> HIDE DEF f, s
  <2>5. Cancelled(f, s)
    BY <1>a, <2>1, <2>3, <2>4, Zenon DEF CancelDone, Cancelled, pool
  <2> QED
    BY <2>1, <2>2, <2>5, Zenon
<1>b. ASSUME NEW s \in Slots, PaioCancel(s) PROVE \E f \in FrameType : Cancelled(f, s) \/ Awaits(f, s)
  <2>1. Top.at = "code" /\ s \in firstAio /\ Top.fn # "sync"
    BY <1>1, <1>b, Zenon DEF PaioCancel, FrameOK, Places, FrameType
  <2>a. CASE acb[s].active /\ ~Done(s)
    <3> DEFINE f == [At("spin") EXCEPT !.w = s]
    <3>1. f \in FrameType /\ FrameOK(f)
      BY <1>1, <2>1, Zenon DEF FrameType, FrameOK, Places, At
    <3>2. Moves(f) /\ f.scan = Top.scan /\ f.at = "spin" /\ f.w = s
      BY <1>1, <1>b, <2>1, <2>a, <3>1, Zenon DEF PaioCancel, Goto, Moves, FrameType, At
    <3> HIDE DEF f
    <3>3. Awaits(f, s)
      BY <1>b, <2>1, <2>a, <3>2, Zenon DEF PaioCancel, Awaits
    <3> QED
      BY <3>1, <3>3, Zenon
  <2>b. CASE ~(acb[s].active /\ ~Done(s))
    <3> DEFINE f == At(AfterOp(Top))
    <3>1. f \in FrameType /\ FrameOK(f)
      BY <1>1, <2>1, Zenon DEF FrameType, FrameOK, Places, At, AfterOp
    <3>2. Moves(f) /\ f.scan = Top.scan /\ f.at \notin {"signal", "spin", "cond"}
      BY <1>1, <1>b, <2>1, <2>b, <3>1, Zenon DEF PaioCancel, Goto, Moves, FrameType, At, AfterOp
    <3> HIDE DEF f
    <3>3. Release(s)
      BY <1>b, <2>b, Zenon DEF PaioCancel
    <3>4. \/ ~acb[s].active /\ queue' = Dequeued(s)
          \/ Done(s) /\ queue' = queue
      BY <1>b, <2>b, Zenon DEF PaioCancel
    <3>5. Cancelled(f, s)
      BY <1>b, <2>1, <3>2, <3>3, <3>4, Zenon DEF PaioCancel, Cancelled
    <3> QED
      BY <3>1, <3>5, Zenon
  <2> QED
    BY <2>a, <2>b, Zenon
<1> QED
  BY <1>a, <1>b, Zenon

\* paio_submit: the request that a callback of a nested context makes is
\* the one its synchronous call waits for from now on
LEMMA SubmitEffect ==
  ASSUME TypeOK, StackInv, PaioSubmit
  PROVE  /\ stack' \in Seq(FrameType) /\ Len(stack') = Depth
         /\ \A i \in 1 .. Depth :
              /\ stack'[i].fn = stack[i].fn /\ stack'[i].s = stack[i].s
              /\ stack'[i].ran = stack[i].ran /\ stack'[i].scan = stack[i].scan
              /\ stack'[i].at = IF i = Depth THEN "signal" ELSE stack[i].at
              /\ stack'[i].w = IF i = Depth - 1 /\ stack[i].fn = "sync" THEN Slot ELSE stack[i].w
         /\ \A i \in 1 .. Depth : stack'[i].ctx = stack[i].ctx
         /\ Slot \in Slots /\ Slot # None
<1> DEFINE n == Depth
<1>1. n \in Nat /\ n > 0 /\ n = Len(stack)
  BY TopFacts, Zenon
<1>2. Slot \in Slots /\ Slot # None
  BY SlotFacts, Zenon DEF PaioSubmit, Submit
<1>3. \A i \in 1 .. n : stack[i] \in FrameType
  BY <1>1 DEF TypeOK
<1>4. stack' = [i \in 1 .. n |->
       IF i = n THEN [stack[n] EXCEPT !.at = "signal"]
       ELSE IF i = n - 1 /\ stack[i].fn = "sync" THEN [stack[i] EXCEPT !.w = Slot]
       ELSE stack[i]]
  <2>1. DOMAIN stack = 1 .. n
    BY DEF TypeOK, Depth
  <2> QED
    BY <2>1, Zenon DEF PaioSubmit, At, Top
<1> HIDE DEF n
<1>5. ASSUME NEW i \in 1 .. n
      PROVE  /\ stack'[i] \in FrameType
             /\ stack'[i].fn = stack[i].fn /\ stack'[i].s = stack[i].s
             /\ stack'[i].ctx = stack[i].ctx
             /\ stack'[i].ran = stack[i].ran /\ stack'[i].scan = stack[i].scan
             /\ stack'[i].at = IF i = n THEN "signal" ELSE stack[i].at
             /\ stack'[i].w = IF i = n - 1 /\ stack[i].fn = "sync" THEN Slot ELSE stack[i].w
  <2>1. stack[i] \in FrameType
    BY <1>3, Zenon
  <2>2. CASE i = n
    <3>1. stack'[i] = [stack[i] EXCEPT !.at = "signal"]
      BY <1>4, <2>2, Zenon
    <3>2. i # n - 1
      BY <1>1, <2>2
    <3> QED
      BY <2>1, <2>2, <3>1, <3>2, Zenon DEF FrameType
  <2>3. CASE i # n /\ i = n - 1 /\ stack[i].fn = "sync"
    <3>1. stack'[i] = [stack[i] EXCEPT !.w = Slot]
      BY <1>4, <2>3, Zenon
    <3> QED
      BY <1>2, <2>1, <2>3, <3>1, Zenon DEF FrameType
  <2>4. CASE i # n /\ ~(i = n - 1 /\ stack[i].fn = "sync")
    <3>1. stack'[i] = stack[i]
      BY <1>4, <2>4, Zenon
    <3> QED
      BY <2>1, <2>4, <3>1, Zenon
  <2> QED
    BY <2>2, <2>3, <2>4, Zenon
<1>6. stack' \in Seq(FrameType) /\ Len(stack') = n
  BY <1>1, <1>4, <1>5
<1>7. \A i \in 1 .. n : stack'[i].ctx = stack[i].ctx
  BY <1>5, Zenon
<1> QED
  BY <1>2, <1>5, <1>6, <1>7, Zenon DEF n

LEMMA StackSubmits ==
  ASSUME TypeOK, StackInv, PaioSubmit
  PROVE  StackInv'
<1> DEFINE n == Depth
<1>1. n \in Nat /\ n > 0 /\ n = Len(stack) /\ Len(stack') = n
  BY TopFacts, SubmitEffect, Zenon
<1>2. \A i \in 1 .. n :
         /\ stack'[i].fn = stack[i].fn /\ stack'[i].s = stack[i].s
         /\ stack'[i].ctx = stack[i].ctx
         /\ stack'[i].ran = stack[i].ran /\ stack'[i].scan = stack[i].scan
         /\ stack'[i].at = IF i = n THEN "signal" ELSE stack[i].at
         /\ stack'[i].w = IF i = n - 1 /\ stack[i].fn = "sync" THEN Slot ELSE stack[i].w
  BY SubmitEffect, Zenon
<1>3. firstAio' = firstAio \cup {Slot} /\ Top.at = "code" /\ \A i \in 1 .. n : stack[i].s # Slot
  BY SlotFacts, Zenon DEF PaioSubmit, Submit
<1>4. /\ Top.fn \in {"main", "cb"} /\ stack[n].at = "code" /\ Top = stack[n]
      /\ ~stack[n].scan /\ FrameOK(stack[n])
  BY <1>3, TopFacts, Zenon DEF FrameOK, Places, FrameType, Top
<1> HIDE DEF n
<1>5. Len(stack') > 0 /\ stack'[1].fn = "main"
  BY <1>1, <1>2 DEF StackInv
<1>6. ASSUME NEW i \in 1 .. n PROVE FrameOK(stack'[i])
  <2>1. FrameOK(stack[i])
    BY <1>1, Zenon DEF StackInv
  <2>2. CASE i = n
    BY <1>2, <1>4, <2>1, <2>2, Zenon DEF FrameOK, Places
  <2>3. CASE i # n
    <3>1. i = n - 1 /\ stack[i].fn = "sync" => stack[i].at # "pop"
      <4> SUFFICES ASSUME i = n - 1, stack[i].fn = "sync", stack[i].at = "pop" PROVE FALSE
        BY Zenon
      <4>1. Above(stack[i], stack[n])
        BY <1>1 DEF StackInv
      <4> QED
        BY <4>1, <1>4, Zenon DEF Above, FrameOK
    <3> QED
      BY <1>2, <2>1, <2>3, <3>1, Zenon DEF FrameOK
  <2> QED
    BY <2>2, <2>3, Zenon
<1>7. ASSUME NEW i \in 1 .. n - 1 PROVE Above(stack'[i], stack'[i + 1])
  <2>1. i \in 1 .. n /\ i + 1 \in 1 .. n /\ i # n
    BY <1>1
  <2>2. Above(stack[i], stack[i + 1])
    BY <1>1, Zenon DEF StackInv
  <2>3. /\ stack'[i].fn = stack[i].fn /\ stack'[i].at = stack[i].at
        /\ stack'[i].ran = stack[i].ran
        /\ stack'[i + 1].fn = stack[i + 1].fn /\ stack'[i + 1].s = stack[i + 1].s
        /\ stack'[i].ctx = stack[i].ctx /\ stack'[i + 1].ctx = stack[i + 1].ctx
    BY <1>2, <2>1, Zenon
  <2>4. CASE i = n - 1
    <3>1. stack'[i + 1].at = "signal"
      BY <1>1, <1>2, <2>1, <2>4
    <3> QED
      BY <2>2, <2>3, <3>1, Zenon DEF Above
  <2>5. CASE i # n - 1
    <3>1. stack'[i + 1].at = stack[i + 1].at /\ stack'[i].w = stack[i].w
      BY <1>1, <1>2, <2>1, <2>5
    <3> QED
      BY <2>2, <2>3, <3>1, Zenon DEF Above
  <2> QED
    BY <2>4, <2>5, Zenon
<1>8. \A i, j \in 1 .. n : (i # j /\ stack'[i].s # None) => stack'[i].s # stack'[j].s
  BY <1>1, <1>2 DEF StackInv
<1>9. \A i \in 1 .. n : stack'[i].s \notin firstAio'
  BY <1>1, <1>2, <1>3, Zenon DEF StackInv
<1>10. \A i, k \in 1 .. n : i <= k => stack'[i].ctx <= stack'[k].ctx
  BY <1>1, <1>2, Zenon DEF StackInv
<1> QED
  BY <1>10, <1>1, <1>5, <1>6, <1>7, <1>8, <1>9, Zenon DEF StackInv

-----------------------------------------------------------------------------
\* The steps of a worker

\* It takes the first request
Takes(t) ==
  /\ pc[t] \in {"lock", "woken", "timedout"}
  /\ Take(t)
  /\ UNCHANGED <<firstAio, wake, bhs, stack, budget>>

\* It goes elsewhere, to sleep or to its end only if nothing is queued
Roams(t, p) ==
  /\ pc' = [pc EXCEPT ![t] = p]
  /\ \/ pc[t] = "working" /\ p = "store"
     \/ /\ pc[t] \in {"lock", "waiting", "woken", "timedout"}
        /\ p \in {"waiting", "woken", "timedout", "dead"}
        /\ p \in {"waiting", "dead"} => queue = <<>>
  /\ UNCHANGED <<acb, queue, job, firstAio, wake, bhs, stack, budget>>

LEMMA WorkerSteps ==
  ASSUME NEW t \in Threads, Worker(t) \/ Wakes(t)
  PROVE  \/ Takes(t) \/ StoreResult(t) \/ Kill(t)
         \/ \E p \in {"waiting", "woken", "timedout", "dead", "store"} : Roams(t, p)
<1>1. CASE Lock(t)
  BY <1>1, Zenon DEF Lock, GoesTo, Takes, Roams
<1>2. CASE TimedOut(t)
  BY <1>2, Zenon DEF TimedOut, GoesTo, Takes, Roams
<1>3. CASE HandleAiocb(t)
  BY <1>3, Zenon DEF HandleAiocb, GoesTo, Roams
<1>4. CASE Wakes(t)
  BY <1>4, Zenon DEF Wakes, GoesTo, Roams
<1> QED
  BY <1>1, <1>2, <1>3, <1>4, Zenon DEF Worker

LEMMA KindOfStep ==
  ASSUME TypeOK, StackInv, PoolInv, ContextInv, [Next]_vars
  PROVE  \/ \E f \in FrameType : Walked(f)
         \/ Popped \/ Flushed
         \/ \E f, g \in FrameType : Called(f, g)
         \/ \E s \in Slots : \E f, g \in FrameType : CalledBack(s, f, g)
         \/ \E f, g \in FrameType : SyncCalled(f, g)
         \/ \E w \in Slots \cup {None} : Returned(w)
         \/ \E f \in FrameType, s \in Slots : Cancelled(f, s)
         \/ \E f \in FrameType, s \in Slots : Awaits(f, s)
         \/ PaioSubmit \/ AioSignal
         \/ \E t \in Threads : Takes(t)
         \/ \E t \in Threads : StoreResult(t)
         \/ \E t \in Threads : Kill(t)
         \/ \E t \in Threads : \E p \in {"waiting", "woken", "timedout", "dead", "store"} : Roams(t, p)
         \/ UNCHANGED vars
<1>1. CASE \/ ScheduleBh \/ CondSignal \/ RunAioBh \/ ScanEnd \/ WaitLoop
           \/ FlushCheck \/ NoSelect \/ SelectReads \/ MainLoopReads
           \/ MainLoopPolls \/ AioSignalInSelect
  BY <1>1, WalkSteps, Zenon
<1>2. CASE PollEnd
  BY <1>2, PollEndSteps, Zenon
<1>3. CASE RunDevBh \/ FlushCall \/ SyncRefused
  BY <1>3, CallSteps, Zenon
<1>4. CASE \E s \in Slots : Callback(s)
  BY <1>4, CallbackSteps, Zenon
<1>5. CASE SyncCall
  BY <1>5, SyncCallSteps, Zenon
<1>6. CASE CallbackReturns
  BY <1>6, ReturnSteps, Zenon
<1>7. CASE CancelDone \/ \E s \in Slots : PaioCancel(s)
  BY <1>7, CancelSteps, Zenon
<1>8. CASE \E t \in Threads : Worker(t) \/ Wakes(t)
  BY <1>8, WorkerSteps, Zenon
<1>9. CASE PaioSubmit
  BY <1>9, Zenon
<1>10. CASE AioSignal
  BY <1>10, Zenon
<1>11. CASE UNCHANGED vars
  BY <1>11, Zenon
<1> QED
  BY <1>1, <1>2, <1>3, <1>4, <1>5, <1>6, <1>7, <1>8, <1>9, <1>10, <1>11, Zenon
    DEF Next, Choice, Goes

LEMMA StackStep ==
  ASSUME TypeOK, StackInv, PoolInv, ContextInv, [Next]_vars
  PROVE  StackInv'
<1>1. /\ stack \in Seq(FrameType)
      /\ \A i \in 1 .. Depth : stack[i].s \notin firstAio
      /\ firstAio \subseteq Slots
  BY Zenon DEF TypeOK, StackInv, Depth
<1>a. ASSUME NEW f \in FrameType, Walked(f) PROVE StackInv'
  BY <1>1, <1>a, StackMoves, Zenon DEF Walked
<1>b. CASE Popped \/ Flushed
  BY <1>1, <1>b, StackLeaves, Zenon DEF Popped, Flushed
<1>c. ASSUME NEW f \in FrameType, NEW g \in FrameType, Called(f, g) PROVE StackInv'
  <2>1. g.s = None /\ firstAio' = firstAio /\ Enters(f, g)
    BY <1>c, Zenon DEF Called
  <2>2. None \notin firstAio
    BY <1>1, NoneAssumption, Zenon
  <2> QED
    BY <1>1, <2>1, <2>2, StackEnters, Zenon
<1>d. ASSUME NEW s \in Slots, NEW f \in FrameType, NEW g \in FrameType, CalledBack(s, f, g)
      PROVE  StackInv'
  <2>1. g.s = s /\ firstAio' = firstAio \ {s} /\ s \in firstAio /\ Enters(f, g)
    BY <1>d, Zenon DEF CalledBack, Callback, DoneHere
  <2>2. \A i \in 1 .. Depth : stack[i].s \notin firstAio' /\ (g.s # None => g.s # stack[i].s)
    BY <1>1, <2>1, Zenon
  <2> QED
    BY <1>1, <2>1, <2>2, StackEnters, Zenon
<1>e. ASSUME NEW f \in FrameType, NEW g \in FrameType, SyncCalled(f, g) PROVE StackInv'
  <2>1. g.s = None /\ firstAio' = firstAio \cup {Slot} /\ Enters(f, g) /\ Free # {}
    BY <1>e, Zenon DEF SyncCalled, Submit
  <2>2. Slot # None /\ \A i \in 1 .. Depth : stack[i].s # Slot
    BY <2>1, SlotFacts, Zenon
  <2>3. None \notin firstAio
    BY <1>1, NoneAssumption, Zenon
  <2> QED
    BY <1>1, <2>1, <2>2, <2>3, StackEnters, Zenon
<1>f. ASSUME NEW w \in Slots \cup {None}, Returned(w) PROVE StackInv'
  BY <1>1, <1>f, StackLeaves, Zenon DEF Returned
<1>g. ASSUME NEW f \in FrameType, NEW s \in Slots, Cancelled(f, s) PROVE StackInv'
  BY <1>1, <1>g, StackMoves, Zenon DEF Cancelled, Release
<1>h. ASSUME NEW f \in FrameType, NEW s \in Slots, Awaits(f, s) PROVE StackInv'
  BY <1>1, <1>h, StackMoves, Zenon DEF Awaits
<1>i. CASE PaioSubmit
  BY <1>i, StackSubmits, Zenon
<1>j. CASE stack' = stack /\ firstAio' = firstAio
  BY <1>j, Zenon DEF StackInv
<1>k. CASE AioSignal
  BY <1>j, <1>k, Zenon DEF AioSignal
<1>l. ASSUME NEW t \in Threads, Takes(t) \/ StoreResult(t) \/ Kill(t) PROVE StackInv'
  BY <1>j, <1>l, Zenon DEF Takes, StoreResult, Kill
<1>m. ASSUME NEW t \in Threads, NEW p, Roams(t, p) PROVE StackInv'
  BY <1>j, <1>m, Zenon DEF Roams
<1>n. CASE UNCHANGED vars
  BY <1>j, <1>n, Zenon DEF vars
<1> QED
  BY KindOfStep, <1>a, <1>b, <1>c, <1>d, <1>e, <1>f, <1>g, <1>h, <1>i, <1>k, <1>l, <1>m, <1>n, Zenon

-----------------------------------------------------------------------------
\* Types

AcbType == [ret : {"none", "inprogress", "done"}, active : BOOLEAN, ctx : 0 .. MaxDepth]

PcType == {"dead", "lock", "waiting", "woken", "timedout", "working", "store", "kill"}

\* The first of the queue, and what is behind it
LEMMA HeadTail ==
  ASSUME TypeOK, queue # <<>>
  PROVE  /\ Head(queue) \in Slots /\ Head(queue) = queue[1] /\ Len(queue) > 0
         /\ Tail(queue) \in Seq(Slots) /\ Len(Tail(queue)) = Len(queue) - 1
         /\ \A i \in 1 .. Len(queue) - 1 : Tail(queue)[i] = queue[i + 1]
  BY DEF TypeOK

LEMMA ConcatType ==
  ASSUME NEW S, NEW a \in Seq(S), NEW b \in Seq(S)
  PROVE  a \o b \in Seq(S) /\ Len(a \o b) = Len(a) + Len(b)
  OBVIOUS

LEMMA ConcatAt ==
  ASSUME NEW S, NEW a \in Seq(S), NEW b \in Seq(S), NEW i \in 1 .. Len(a) + Len(b)
  PROVE  (a \o b)[i] = IF i <= Len(a) THEN a[i] ELSE b[i - Len(a)]
  OBVIOUS

\* QTAILQ_REMOVE leaves the others, in their order
LEMMA DequeuedEffect ==
  ASSUME TypeOK, NEW s, \E k \in 1 .. Len(queue) : queue[k] = s
  PROVE  \E k \in 1 .. Len(queue) :
           /\ queue[k] = s
           /\ Dequeued(s) \in Seq(Slots)
           /\ Len(Dequeued(s)) = Len(queue) - 1
           /\ \A i \in 1 .. Len(queue) - 1 :
                Dequeued(s)[i] = IF i < k THEN queue[i] ELSE queue[i + 1]
<1> DEFINE k == CHOOSE j \in DOMAIN queue : queue[j] = s
           n == Len(queue)
           a == SubSeq(queue, 1, k - 1)
           b == SubSeq(queue, k + 1, n)
<1>1. k \in 1 .. n /\ queue[k] = s
  BY DEF TypeOK
<1>2. Dequeued(s) = a \o b
  BY Zenon DEF Dequeued
<1>3. n \in Nat /\ queue \in Seq(Slots)
  BY DEF TypeOK
<1> HIDE DEF k
<1>4. a \in Seq(Slots) /\ Len(a) = k - 1 /\ \A i \in 1 .. k - 1 : a[i] = queue[i]
  BY <1>1, <1>3
<1>5. b \in Seq(Slots) /\ Len(b) = n - k /\ \A i \in 1 .. n - k : b[i] = queue[k + i]
  BY <1>1, <1>3
<1> HIDE DEF a, b
<1>6. /\ Dequeued(s) \in Seq(Slots) /\ Len(Dequeued(s)) = n - 1
      /\ \A i \in 1 .. n - 1 : Dequeued(s)[i] = IF i <= k - 1 THEN a[i] ELSE b[i - (k - 1)]
  <2>1. a \o b \in Seq(Slots) /\ Len(a \o b) = Len(a) + Len(b)
    BY <1>4, <1>5, ConcatType, Zenon
  <2>2. ASSUME NEW i \in 1 .. Len(a) + Len(b)
        PROVE  (a \o b)[i] = IF i <= Len(a) THEN a[i] ELSE b[i - Len(a)]
    BY <1>4, <1>5, ConcatAt, Zenon
  <2>3. Len(a) + Len(b) = n - 1
    BY <1>1, <1>3, <1>4, <1>5
  <2>4. \A i \in 1 .. n - 1 : (a \o b)[i] = IF i <= Len(a) THEN a[i] ELSE b[i - Len(a)]
    BY <2>2, <2>3, Zenon
  <2> QED
    BY <1>2, <1>4, <2>1, <2>3, <2>4, Zenon
<1> HIDE DEF n
<1>7. ASSUME NEW i \in 1 .. n - 1
      PROVE  Dequeued(s)[i] = IF i < k THEN queue[i] ELSE queue[i + 1]
  <2>1. CASE i < k
    <3>1. i \in 1 .. k - 1
      BY <1>1, <1>3, <2>1
    <3> QED
      BY <1>1, <1>3, <1>4, <1>6, <2>1, <3>1
  <2>2. CASE ~(i < k)
    <3>1. i - (k - 1) \in 1 .. n - k /\ k + (i - (k - 1)) = i + 1 /\ ~(i <= k - 1)
      BY <1>1, <1>3, <2>2
    <3> QED
      BY <1>1, <1>3, <1>5, <1>6, <2>2, <3>1, Zenon
  <2> QED
    BY <2>1, <2>2, Zenon
<1> QED
  BY <1>1, <1>6, <1>7, Zenon DEF n

\* A request that is cancelled before a worker has it is on the queue
LEMMA CancelledQueue ==
  ASSUME TypeOK, PoolInv, NEW f, NEW s \in Slots, Cancelled(f, s)
  PROVE  queue' \in Seq(Slots)
<1>1. CASE ~acb[s].active /\ queue' = Dequeued(s)
  <2>1. \E k \in 1 .. Len(queue) : queue[k] = s
    BY <1>1, Zenon DEF PoolInv, NoneLost, Cancelled
  <2> QED
    BY <1>1, <2>1, DequeuedEffect, Zenon
<1>2. CASE queue' = queue
  BY <1>2, Zenon DEF TypeOK
<1> QED
  BY <1>1, <1>2, Zenon DEF Cancelled

\* What paio_submit does to the pool
LEMMA SubmitTypes ==
  ASSUME TypeOK, NEW c \in 0 .. MaxDepth, Submit(c)
  PROVE  /\ acb' \in [Slots -> AcbType] /\ firstAio' \subseteq Slots
         /\ queue' \in Seq(Slots) /\ pc' \in [Threads -> PcType]
         /\ budget' \in 0 .. MaxRequests
         /\ UNCHANGED <<job, signal, pipe, bhs>>
<1>1. Slot \in Slots
  BY SlotFacts, Zenon DEF Submit
<1>2. [ret |-> "inprogress", active |-> FALSE, ctx |-> c] \in AcbType
  BY Zenon DEF AcbType
<1>3. acb' \in [Slots -> AcbType]
  <2>1. acb \in [Slots -> AcbType]
    BY Zenon DEF TypeOK, AcbType
  <2> QED
    BY <1>1, <1>2, <2>1, Zenon DEF Submit
<1>4. firstAio' \subseteq Slots /\ queue' \in Seq(Slots)
  BY <1>1 DEF Submit, TypeOK
<1>5. pc' \in [Threads -> PcType]
  <2>1. pc \in [Threads -> PcType]
    BY Zenon DEF TypeOK, PcType
  <2>2. CASE idle_threads = {} /\ Spare # {}
    <3> DEFINE t == CHOOSE u \in Spare : TRUE
    <3>1. t \in Threads
      BY <2>2, Zenon DEF Spare
    <3>2. pc' = [pc EXCEPT ![t] = "lock"]
      BY <2>2, Zenon DEF Submit, SpawnThread
    <3> HIDE DEF t
    <3> QED
      BY <2>1, <3>1, <3>2, Zenon DEF PcType
  <2>3. CASE ~(idle_threads = {} /\ Spare # {})
    BY <2>1, <2>3, Zenon DEF Submit, SpawnThread
  <2> QED
    BY <2>2, <2>3, Zenon
<1>6. budget' \in 0 .. MaxRequests
  BY BoundsAssumption DEF Submit, TypeOK
<1> QED
  BY <1>3, <1>4, <1>5, <1>6, Zenon DEF Submit, wake

LEMMA TypeStep ==
  ASSUME TypeOK, StackInv, PoolInv, ContextInv, [Next]_vars
  PROVE  TypeOK'
<1> DEFINE
      RestOK ==
        /\ acb \in [Slots -> AcbType]
        /\ firstAio \subseteq Slots
        /\ queue \in Seq(Slots)
        /\ pc \in [Threads -> PcType]
        /\ job \in [Threads -> Slots \cup {None}]
        /\ signal \in BOOLEAN
        /\ pipe \in 0 .. PipeSize
        /\ bhs \subseteq {"aio", "dev"} \X (0 .. MaxDepth)
        /\ budget \in 0 .. MaxRequests
<1>0. SUFFICES RestOK' /\ stack' \in Seq(FrameType)
  BY Zenon DEF TypeOK, AcbType, PcType
<1>1. RestOK /\ stack \in Seq(FrameType) /\ Len(stack) > 0
  BY Zenon DEF TypeOK, StackInv, AcbType, PcType
<1>2. /\ Ctx \in Nat /\ Ctx <= MaxDepth /\ MaxDepth \in Nat
      /\ PipeSize \in Nat \ {0} /\ MaxRequests \in Nat
      /\ Depth \in Nat /\ Depth = Len(stack)
      /\ Top \in FrameType
  BY CtxFacts, TopFacts, BoundsAssumption, PipeAssumption, Zenon DEF ContextInv, CtxBounded
<1>3. Blank \in AcbType
  BY <1>2 DEF Blank, AcbType
<1>a. ASSUME NEW f \in FrameType, Walked(f) PROVE RestOK' /\ stack' \in Seq(FrameType)
  <2>1. stack' \in Seq(FrameType)
    BY <1>1, <1>a, MovesEffect, Zenon DEF Walked
  <2>2. UNCHANGED <<acb, firstAio, queue, job>> /\ pipe' \in 0 .. PipeSize /\ budget' \in 0 .. MaxRequests
    BY <1>a, Zenon DEF Walked
  <2>3. signal' \in BOOLEAN
    BY <1>a, Zenon DEF Walked
  <2>4. bhs' \subseteq {"aio", "dev"} \X (0 .. MaxDepth)
    BY <1>1, <1>2, <1>a DEF Walked
  <2>5. pc' \in [Threads -> PcType]
    BY <1>1, <1>a, Zenon DEF Walked, PcType
  <2> QED
    BY <1>1, <2>1, <2>2, <2>3, <2>4, <2>5, Zenon
<1>b. CASE Popped
  <2>1. stack' \in Seq(FrameType)
    BY <1>1, <1>b, LeavesEffect, Zenon DEF Popped
  <2>2. Ctx - 1 \in 0 .. MaxDepth
    <3>1. Top.fn = "sync"
      BY <1>b, Zenon DEF Popped
    <3>2. Ctx = stack[Depth - 1].ctx + 1 /\ Depth - 1 \in 1 .. Depth
      BY <3>1, CtxFacts, Zenon
    <3>3. stack[Depth - 1].ctx \in Nat
      BY <3>2, CtxFacts, Zenon
    <3> QED
      BY <1>2, <3>2, <3>3
  <2>3. bhs' \subseteq {"aio", "dev"} \X (0 .. MaxDepth)
    BY <1>1, <1>b, <2>2 DEF Popped
  <2>4. UNCHANGED <<acb, firstAio, queue, pc, job, signal, pipe, budget>>
    BY <1>b, Zenon DEF Popped, pool, wake
  <2> QED
    BY <1>1, <2>1, <2>3, <2>4, Zenon
<1>c. CASE Flushed
  <2>1. stack' \in Seq(FrameType)
    BY <1>1, <1>c, LeavesEffect, Zenon DEF Flushed
  <2>2. UNCHANGED <<acb, firstAio, queue, pc, job, signal, pipe, bhs, budget>>
    BY <1>c, Zenon DEF Flushed, pool, wake
  <2> QED
    BY <1>1, <2>1, <2>2, Zenon
<1>d. ASSUME NEW f \in FrameType, NEW g \in FrameType, Called(f, g)
      PROVE  RestOK' /\ stack' \in Seq(FrameType)
  <2>1. stack' \in Seq(FrameType)
    BY <1>1, <1>d, EntersEffect, Zenon DEF Called
  <2>2. UNCHANGED <<acb, firstAio, queue, pc, job, signal, pipe>> /\ bhs' \subseteq bhs
    BY <1>d, Zenon DEF Called, pool, wake
  <2>3. budget' \in 0 .. MaxRequests
    <3>1. budget \in 0 .. MaxRequests /\ (budget' = budget \/ (budget > 0 /\ budget' = budget - 1))
      BY <1>1, <1>d, Zenon DEF Called
    <3> QED
      BY <3>1, BoundsAssumption
  <2> QED
    BY <1>1, <2>1, <2>2, <2>3, Zenon
<1>e. ASSUME NEW s \in Slots, NEW f \in FrameType, NEW g \in FrameType, CalledBack(s, f, g)
      PROVE  RestOK' /\ stack' \in Seq(FrameType)
  <2>1. stack' \in Seq(FrameType)
    BY <1>1, <1>e, EntersEffect, Zenon DEF CalledBack
  <2>2. UNCHANGED <<acb, queue, pc, job, signal, pipe, bhs, budget>> /\ firstAio' \subseteq firstAio
    BY <1>e, Zenon DEF CalledBack, Callback, pool, wake
  <2> QED
    BY <1>1, <2>1, <2>2, Zenon
<1>f. ASSUME NEW f \in FrameType, NEW g \in FrameType, SyncCalled(f, g)
      PROVE  RestOK' /\ stack' \in Seq(FrameType)
  <2>1. stack' \in Seq(FrameType)
    BY <1>1, <1>f, EntersEffect, Zenon DEF SyncCalled
  <2>2. Ctx + 1 \in 0 .. MaxDepth /\ Submit(Ctx + 1)
    BY <1>2, <1>f DEF SyncCalled
  <2> QED
    BY <1>1, <2>1, <2>2, SubmitTypes, Zenon
<1>g. ASSUME NEW w \in Slots \cup {None}, Returned(w)
      PROVE  RestOK' /\ stack' \in Seq(FrameType)
  <2>1. stack' \in Seq(FrameType)
    BY <1>1, <1>g, LeavesEffect, Zenon DEF Returned
  <2>2. acb' \in [Slots -> AcbType]
    BY <1>1, <1>3, <1>g, Zenon DEF Returned
  <2>3. UNCHANGED <<queue, pc, job, signal, pipe, bhs, budget, firstAio>>
    BY <1>g, Zenon DEF Returned, pool, wake
  <2> QED
    BY <1>1, <2>1, <2>2, <2>3, Zenon
<1>h. ASSUME NEW f \in FrameType, NEW s \in Slots, Cancelled(f, s)
      PROVE  RestOK' /\ stack' \in Seq(FrameType)
  <2>1. stack' \in Seq(FrameType)
    BY <1>1, <1>h, MovesEffect, Zenon DEF Cancelled
  <2>2. acb' \in [Slots -> AcbType] /\ firstAio' \subseteq Slots
    BY <1>1, <1>3, <1>h, Zenon DEF Cancelled, Release
  <2>3. queue' \in Seq(Slots)
    BY <1>h, CancelledQueue, Zenon
  <2>4. UNCHANGED <<pc, job, signal, pipe, bhs, budget>>
    BY <1>h, Zenon DEF Cancelled, wake
  <2> QED
    BY <1>1, <2>1, <2>2, <2>3, <2>4, Zenon
<1>i. ASSUME NEW f \in FrameType, NEW s \in Slots, Awaits(f, s)
      PROVE  RestOK' /\ stack' \in Seq(FrameType)
  <2>1. stack' \in Seq(FrameType)
    BY <1>1, <1>i, MovesEffect, Zenon DEF Awaits
  <2>2. UNCHANGED <<acb, firstAio, queue, pc, job, signal, pipe, bhs, budget>>
    BY <1>i, Zenon DEF Awaits, wake
  <2> QED
    BY <1>1, <2>1, <2>2, Zenon
<1>j. CASE PaioSubmit
  <2>1. stack' \in Seq(FrameType)
    BY <1>j, SubmitEffect, Zenon
  <2>2. Ctx \in 0 .. MaxDepth /\ Submit(Ctx)
    BY <1>2, <1>j DEF PaioSubmit
  <2> QED
    BY <1>1, <2>1, <2>2, SubmitTypes, Zenon
<1>k. CASE AioSignal
  <2>1. signal' \in BOOLEAN
    BY <1>k, Zenon DEF AioSignal, SignalHandler
  <2>2. pipe' \in 0 .. PipeSize
    BY <1>1, <1>2, <1>k DEF AioSignal, SignalHandler
  <2>3. UNCHANGED <<acb, firstAio, queue, pc, job, bhs, budget, stack>>
    BY <1>k, Zenon DEF AioSignal, pool
  <2> QED
    BY <1>1, <2>1, <2>2, <2>3, Zenon
<1>l. ASSUME NEW t \in Threads, Takes(t) PROVE RestOK' /\ stack' \in Seq(FrameType)
  <2>1. queue # <<>>
    BY <1>l, Zenon DEF Takes, Take
  <2>2. Head(queue) \in Slots /\ queue' \in Seq(Slots)
    BY <1>l, <2>1, HeadTail, Zenon DEF Takes, Take
  <2>3. acb' \in [Slots -> AcbType]
    <3>1. acb' = [acb EXCEPT ![Head(queue)].active = TRUE]
      BY <1>l, Zenon DEF Takes, Take
    <3>2. [acb[Head(queue)] EXCEPT !.active = TRUE] \in AcbType
      BY <1>1, <2>2, Zenon DEF AcbType
    <3> QED
      BY <1>1, <2>2, <3>1, <3>2, Zenon
  <2>4. job' \in [Threads -> Slots \cup {None}] /\ pc' \in [Threads -> PcType]
    BY <1>1, <1>l, <2>2, Zenon DEF Takes, Take, PcType
  <2>5. UNCHANGED <<firstAio, signal, pipe, bhs, stack, budget>>
    BY <1>l, Zenon DEF Takes, wake
  <2> QED
    BY <1>1, <2>2, <2>3, <2>4, <2>5, Zenon
<1>m. ASSUME NEW t \in Threads, StoreResult(t) PROVE RestOK' /\ stack' \in Seq(FrameType)
  <2>1. job[t] \in Slots
    BY <1>1, <1>m, Zenon DEF StoreResult, PoolInv, JobsOK
  <2>2. acb' \in [Slots -> AcbType]
    <3>1. acb' = [acb EXCEPT ![job[t]].ret = "done"]
      BY <1>m, Zenon DEF StoreResult
    <3>2. [acb[job[t]] EXCEPT !.ret = "done"] \in AcbType
      BY <1>1, <2>1 DEF AcbType
    <3> QED
      BY <1>1, <2>1, <3>1, <3>2, Zenon
  <2>3. job' \in [Threads -> Slots \cup {None}] /\ pc' \in [Threads -> PcType]
    BY <1>1, <1>m, Zenon DEF StoreResult, PcType
  <2>4. UNCHANGED <<firstAio, queue, signal, pipe, bhs, stack, budget>>
    BY <1>m, Zenon DEF StoreResult, wake
  <2> QED
    BY <1>1, <2>2, <2>3, <2>4, Zenon
<1>n. ASSUME NEW t \in Threads, Kill(t) PROVE RestOK' /\ stack' \in Seq(FrameType)
  <2>1. signal' \in BOOLEAN
    BY <1>n, Zenon DEF Kill
  <2>2. pc' \in [Threads -> PcType]
    BY <1>1, <1>n, Zenon DEF Kill, PcType
  <2>3. UNCHANGED <<acb, firstAio, queue, job, pipe, bhs, stack, budget>>
    BY <1>n, Zenon DEF Kill
  <2> QED
    BY <1>1, <2>1, <2>2, <2>3, Zenon
<1>o. ASSUME NEW t \in Threads, NEW p \in {"waiting", "woken", "timedout", "dead", "store"}, Roams(t, p)
      PROVE  RestOK' /\ stack' \in Seq(FrameType)
  <2>1. pc' \in [Threads -> PcType]
    BY <1>1, <1>o, Zenon DEF Roams, PcType
  <2>2. UNCHANGED <<acb, firstAio, queue, job, signal, pipe, bhs, stack, budget>>
    BY <1>o, Zenon DEF Roams, wake
  <2> QED
    BY <1>1, <2>1, <2>2, Zenon
<1>p. CASE UNCHANGED vars
  BY <1>1, <1>p, Zenon DEF vars
<1> HIDE DEF RestOK
<1> QED
  BY KindOfStep, <1>a, <1>b, <1>c, <1>d, <1>e, <1>f, <1>g, <1>h, <1>i, <1>j, <1>k, <1>l,
     <1>m, <1>n, <1>o, <1>p, Zenon

-----------------------------------------------------------------------------
\* The pool

\* The call that is topmost after a step
LEMMA TopAfter ==
  ASSUME TypeOK, StackInv
  PROVE  /\ \A f : Moves(f) => Top' = f
         /\ \A f, g : Enters(f, g) => Top' = g
         /\ \A w : Leaves(w) =>
              /\ Top'.at \notin {"signal", "spin"}
              /\ Top'.at = stack[Depth - 1].at
              /\ Top'.at = "cond" => Top'.ran # {}
<1>1. stack \in Seq(FrameType) /\ Len(stack) > 0 /\ Depth \in Nat /\ Depth = Len(stack)
  BY TopFacts, Zenon DEF TypeOK
<1>2. Top' = stack'[Len(stack')]
  BY Zenon DEF Top, Depth
<1>3. ASSUME NEW f, Moves(f) PROVE Top' = f
  <2>1. Len(stack') = Depth /\ stack'[Depth] = f
    BY <1>1, <1>3, MovesEffect, Zenon
  <2> QED
    BY <1>2, <2>1, Zenon
<1>4. ASSUME NEW f, NEW g, Enters(f, g) PROVE Top' = g
  <2>1. Len(stack') = Depth + 1 /\ stack'[Depth + 1] = g
    BY <1>1, <1>4, EntersEffect, Zenon
  <2> QED
    BY <1>2, <2>1, Zenon
<1>5. ASSUME NEW w, Leaves(w)
      PROVE  /\ Top'.at \notin {"signal", "spin"}
             /\ Top'.at = stack[Depth - 1].at
             /\ Top'.at = "cond" => Top'.ran # {}
  <2>1. Len(stack') = Depth - 1 /\ Depth - 1 \in 1 .. Len(stack) - 1
    BY <1>1, <1>5, LeavesEffect DEF Leaves
  <2>2. stack'[Depth - 1].at = stack[Depth - 1].at /\ stack'[Depth - 1].ran = stack[Depth - 1].ran
    BY <1>1, <1>5, <2>1, LeavesEffect, Zenon
  <2>3. Above(stack[Depth - 1], stack[(Depth - 1) + 1])
    BY <2>1, Zenon DEF StackInv
  <2> QED
    BY <1>2, <2>1, <2>2, <2>3, Zenon DEF Above
<1> QED
  BY <1>3, <1>4, <1>5, Zenon

LEMMA SpinStep ==
  ASSUME TypeOK, StackInv, PoolInv, ContextInv, [Next]_vars
  PROVE  SpinOK'
<1>a. ASSUME NEW f \in FrameType, Walked(f) PROVE SpinOK'
  BY <1>a, TopAfter, Zenon DEF Walked, SpinOK
<1>b. CASE Popped \/ Flushed
  BY <1>b, TopAfter, Zenon DEF Popped, Flushed, SpinOK
<1>c. ASSUME NEW f \in FrameType, NEW g \in FrameType,
             Called(f, g) \/ SyncCalled(f, g) \/ \E s \in Slots : CalledBack(s, f, g)
      PROVE  SpinOK'
  BY <1>c, TopAfter, Zenon DEF Called, SyncCalled, CalledBack, SpinOK
<1>d. ASSUME NEW w \in Slots \cup {None}, Returned(w) PROVE SpinOK'
  BY <1>d, TopAfter, Zenon DEF Returned, SpinOK
<1>e. ASSUME NEW f \in FrameType, NEW s \in Slots, Cancelled(f, s) PROVE SpinOK'
  BY <1>e, TopAfter, Zenon DEF Cancelled, SpinOK
<1>f. ASSUME NEW f \in FrameType, NEW s \in Slots, Awaits(f, s) PROVE SpinOK'
  BY <1>f, TopAfter, Zenon DEF Awaits, SpinOK
<1>g. CASE PaioSubmit
  <2>1. Len(stack') = Depth /\ stack'[Depth].at = "signal"
    BY <1>g, SubmitEffect, TopFacts
  <2> QED
    BY <2>1, Zenon DEF SpinOK, Top, Depth
<1>h. CASE stack' = stack /\ firstAio' = firstAio
  BY <1>h, Zenon DEF PoolInv, SpinOK, Top, Depth
<1>i. CASE AioSignal
  BY <1>h, <1>i, Zenon DEF AioSignal
<1>j. ASSUME NEW t \in Threads, Takes(t) \/ StoreResult(t) \/ Kill(t) PROVE SpinOK'
  BY <1>h, <1>j, Zenon DEF Takes, StoreResult, Kill
<1>k. ASSUME NEW t \in Threads, NEW p, Roams(t, p) PROVE SpinOK'
  BY <1>h, <1>k, Zenon DEF Roams
<1>l. CASE UNCHANGED vars
  BY <1>h, <1>l, Zenon DEF vars
<1> QED
  BY KindOfStep, <1>a, <1>b, <1>c, <1>d, <1>e, <1>f, <1>g, <1>i, <1>j, <1>k, <1>l, Zenon

\* Steps that leave the pool as it is
LEMMA PoolKept ==
  ASSUME PoolInv, UNCHANGED <<acb, firstAio, queue, job>>,
         \A t \in Threads : pc'[t] \in {"working", "store"} <=> pc[t] \in {"working", "store"}
  PROVE  (JobsOK /\ QueueOK /\ NoneLost)'
<1>1. JobsOK'
  BY Zenon DEF PoolInv, JobsOK
<1>2. QueueOK' /\ NoneLost'
  BY DEF PoolInv, QueueOK, NoneLost
<1> QED
  BY <1>1, <1>2, Zenon

\* A request leaves first_aio that no worker has and that is not queued
LEMMA PoolReleases ==
  ASSUME TypeOK, PoolInv, NEW s \in firstAio, firstAio' = firstAio \ {s}, pc' = pc, job' = job,
         \A x \in firstAio \ {s} : acb'[x] = acb[x],
         \/ Done(s) /\ queue' = queue
         \/ ~acb[s].active /\ queue' = Dequeued(s)
  PROVE  (JobsOK /\ QueueOK /\ NoneLost)'
<1>1. \A t \in Threads : pc[t] \in {"working", "store"} => job[t] # s
  BY Zenon DEF PoolInv, JobsOK, Done
<1>2. JobsOK'
  BY <1>1, Zenon DEF PoolInv, JobsOK
<1>3. CASE Done(s) /\ queue' = queue
  <2>1. \A i \in 1 .. Len(queue) : queue[i] # s
    BY <1>3, Zenon DEF PoolInv, QueueOK, Done
  <2>2. QueueOK'
    BY <1>3, <2>1, Zenon DEF PoolInv, QueueOK
  <2>3. NoneLost'
    BY <1>3, <2>1, Zenon DEF PoolInv, NoneLost
  <2> QED
    BY <1>2, <2>2, <2>3, Zenon
<1>4. CASE ~acb[s].active /\ queue' = Dequeued(s)
  <2> DEFINE n == Len(queue)
  <2>0. n \in Nat
    BY DEF TypeOK
  <2>1. PICK k \in 1 .. n :
           /\ queue[k] = s
           /\ Len(queue') = n - 1
           /\ \A i \in 1 .. n - 1 : queue'[i] = IF i < k THEN queue[i] ELSE queue[i + 1]
    <3>1. \E k \in 1 .. Len(queue) : queue[k] = s
      BY <1>4, Zenon DEF PoolInv, NoneLost
    <3> QED
      BY <1>4, <3>1, DequeuedEffect
  <2>2. \A i \in 1 .. n :
          /\ queue[i] \in firstAio
          /\ ~acb[queue[i]].active /\ acb[queue[i]].ret = "inprogress"
          /\ \A j \in 1 .. n : queue[j] = queue[i] => j = i
    BY Zenon DEF PoolInv, QueueOK
  <2> HIDE DEF n
  <2>3. ASSUME NEW i \in 1 .. n - 1
        PROVE  \E j \in 1 .. n : /\ queue'[i] = queue[j] /\ j # k
                                 /\ j = IF i < k THEN i ELSE i + 1
    <3>1. CASE i < k
      BY <2>0, <2>1, <3>1
    <3>2. CASE ~(i < k)
      <4>1. i + 1 \in 1 .. n /\ i + 1 # k
        BY <2>0, <3>2
      <4> QED
        BY <2>0, <2>1, <3>2, <4>1, Zenon
    <3> QED
      BY <3>1, <3>2, Zenon
  <2>4. QueueOK'
    <3> SUFFICES ASSUME NEW i \in 1 .. n - 1
                 PROVE  /\ queue'[i] \in firstAio'
                        /\ ~acb'[queue'[i]].active /\ acb'[queue'[i]].ret = "inprogress"
                        /\ \A j \in 1 .. n - 1 : queue'[j] = queue'[i] => j = i
      BY <2>1, Zenon DEF QueueOK
    <3>1. PICK x \in 1 .. n : queue'[i] = queue[x] /\ x # k /\ x = IF i < k THEN i ELSE i + 1
      BY <2>3, Zenon
    <3>2. queue[x] # s /\ queue[x] \in firstAio
      BY <2>1, <2>2, <3>1, Zenon
    <3>3. acb'[queue[x]] = acb[queue[x]]
      BY <3>2, Zenon
    <3>4. ASSUME NEW j \in 1 .. n - 1, queue'[j] = queue'[i] PROVE j = i
      <4>1. PICK y \in 1 .. n : queue'[j] = queue[y] /\ y # k /\ y = IF j < k THEN j ELSE j + 1
        BY <2>3, Zenon
      <4>2. x = y
        BY <2>2, <3>1, <3>4, <4>1, Zenon
      <4> QED
        BY <2>0, <2>1, <3>1, <4>1, <4>2
    <3> QED
      BY <2>2, <3>1, <3>2, <3>3, <3>4
  <2>5. NoneLost'
    <3> SUFFICES ASSUME NEW x \in firstAio', ~acb'[x].active
                 PROVE  \E i \in 1 .. n - 1 : queue'[i] = x
      BY <2>1, Zenon DEF NoneLost
    <3>1. x \in firstAio /\ x # s /\ ~acb[x].active
      BY Zenon
    <3>2. PICK j \in 1 .. n : queue[j] = x
      BY <3>1, Zenon DEF PoolInv, NoneLost, n
    <3>3. j # k
      BY <2>1, <3>1, <3>2, Zenon
    <3>4. CASE j < k
      <4>1. j \in 1 .. n - 1
        BY <2>0, <3>4
      <4> QED
        BY <2>1, <3>2, <3>4, <4>1, Zenon
    <3>5. CASE j > k
      <4>1. j - 1 \in 1 .. n - 1 /\ ~(j - 1 < k) /\ (j - 1) + 1 = j
        BY <2>0, <3>5
      <4> QED
        BY <2>1, <3>2, <4>1, Zenon
    <3> QED
      BY <2>0, <3>3, <3>4, <3>5
  <2> QED
    BY <1>2, <2>4, <2>5, Zenon
<1> QED
  BY <1>3, <1>4, Zenon

\* A new request is queued
LEMMA PoolSubmits ==
  ASSUME TypeOK, PoolInv, NEW c, Submit(c)
  PROVE  (JobsOK /\ QueueOK /\ NoneLost)'
<1> DEFINE n == Len(queue)
<1>1. Slot \in Slots /\ Slot \notin firstAio
  BY SlotFacts, Zenon DEF Submit
<1>2. /\ acb' = [acb EXCEPT ![Slot] = [ret |-> "inprogress", active |-> FALSE, ctx |-> c]]
      /\ firstAio' = firstAio \cup {Slot} /\ job' = job
  BY Zenon DEF Submit
<1>3. /\ acb'[Slot].active = FALSE /\ acb'[Slot].ret = "inprogress"
      /\ \A x \in firstAio : acb'[x] = acb[x] /\ x # Slot
  BY <1>1, <1>2, Zenon DEF TypeOK
<1>4. /\ n \in Nat /\ Len(queue') = n + 1 /\ queue'[n + 1] = Slot
      /\ \A i \in 1 .. n : queue'[i] = queue[i]
  BY <1>1 DEF Submit, TypeOK
<1>5. \A t \in Threads : pc'[t] \in {"working", "store"} <=> pc[t] \in {"working", "store"}
  <2>1. CASE idle_threads = {} /\ Spare # {}
    <3> DEFINE t == CHOOSE u \in Spare : TRUE
    <3>1. t \in Threads /\ pc[t] = "dead"
      BY <2>1, Zenon DEF Spare
    <3>2. pc' = [pc EXCEPT ![t] = "lock"]
      BY <2>1, Zenon DEF Submit, SpawnThread
    <3> HIDE DEF t
    <3> QED
      BY <3>1, <3>2, Zenon DEF TypeOK
  <2>2. CASE ~(idle_threads = {} /\ Spare # {})
    BY <2>2, Zenon DEF Submit, SpawnThread
  <2> QED
    BY <2>1, <2>2, Zenon
<1>6. JobsOK'
  BY <1>2, <1>3, <1>5 DEF PoolInv, JobsOK
<1>7. \A i \in 1 .. n :
         /\ queue[i] \in firstAio
         /\ ~acb[queue[i]].active /\ acb[queue[i]].ret = "inprogress"
         /\ \A j \in 1 .. n : queue[j] = queue[i] => j = i
  BY Zenon DEF PoolInv, QueueOK
<1>8. \A x \in firstAio : ~acb[x].active => \E i \in 1 .. n : queue[i] = x
  BY Zenon DEF PoolInv, NoneLost
<1> HIDE DEF n
<1>9. \A i \in 1 .. n + 1 : i \in 1 .. n \/ i = n + 1
  BY <1>4
<1>10. QueueOK'
  <2> SUFFICES ASSUME NEW i \in 1 .. n + 1
               PROVE  /\ queue'[i] \in firstAio'
                      /\ ~acb'[queue'[i]].active /\ acb'[queue'[i]].ret = "inprogress"
                      /\ \A j \in 1 .. n + 1 : queue'[j] = queue'[i] => j = i
    BY <1>4, Zenon DEF QueueOK
  <2>1. CASE i = n + 1
    BY <1>2, <1>3, <1>4, <1>7, <1>9, <2>1, Zenon
  <2>2. CASE i \in 1 .. n
    <3>1. queue'[i] = queue[i] /\ queue[i] \in firstAio /\ acb'[queue[i]] = acb[queue[i]]
      BY <1>3, <1>4, <1>7, <2>2, Zenon
    <3>2. \A j \in 1 .. n + 1 : queue'[j] = queue'[i] => j = i
      BY <1>3, <1>4, <1>7, <1>9, <2>2, <3>1
    <3> QED
      BY <1>2, <1>7, <2>2, <3>1, <3>2, Zenon
  <2> QED
    BY <1>9, <2>1, <2>2, Zenon
<1>11. NoneLost'
  <2> SUFFICES ASSUME NEW x \in firstAio', ~acb'[x].active
               PROVE  \E i \in 1 .. n + 1 : queue'[i] = x
    BY <1>4, Zenon DEF NoneLost
  <2>1. CASE x = Slot
    <3>1. n + 1 \in 1 .. n + 1
      BY <1>4
    <3> QED
      BY <1>4, <2>1, <3>1, Zenon
  <2>2. CASE x # Slot
    <3>1. x \in firstAio /\ ~acb[x].active
      BY <1>2, <1>3, <2>2, Zenon
    <3>2. PICK i \in 1 .. n : queue[i] = x
      BY <1>8, <3>1, Zenon
    <3>3. i \in 1 .. n + 1
      BY <1>4
    <3> QED
      BY <1>4, <3>2, <3>3, Zenon
  <2> QED
    BY <2>1, <2>2, Zenon
<1> QED
  BY <1>6, <1>10, <1>11, Zenon

\* A worker takes the first request
LEMMA PoolTakes ==
  ASSUME TypeOK, PoolInv, NEW t \in Threads, Takes(t)
  PROVE  (JobsOK /\ QueueOK /\ NoneLost)'
<1> DEFINE n == Len(queue)
           h == Head(queue)
<1>1. queue # <<>>
  BY Zenon DEF Takes, Take
<1>2. /\ h \in Slots /\ h = queue[1] /\ n \in Nat /\ n > 0 /\ Len(queue') = n - 1
      /\ \A i \in 1 .. n - 1 : queue'[i] = queue[i + 1]
  BY <1>1, HeadTail DEF Takes, Take, TypeOK
<1>3. /\ job' = [job EXCEPT ![t] = h] /\ pc' = [pc EXCEPT ![t] = "working"]
      /\ acb' = [acb EXCEPT ![h].active = TRUE] /\ firstAio' = firstAio
  BY Zenon DEF Takes, Take
<1>4. \A i \in 1 .. n :
         /\ queue[i] \in firstAio
         /\ ~acb[queue[i]].active /\ acb[queue[i]].ret = "inprogress"
         /\ \A j \in 1 .. n : queue[j] = queue[i] => j = i
  BY Zenon DEF PoolInv, QueueOK
<1>5. \A x \in firstAio : ~acb[x].active => \E i \in 1 .. n : queue[i] = x
  BY Zenon DEF PoolInv, NoneLost
<1>0. acb \in [Slots -> AcbType] /\ job \in [Threads -> Slots \cup {None}]
      /\ pc \in [Threads -> PcType] /\ firstAio \subseteq Slots
  BY Zenon DEF TypeOK, AcbType, PcType
<1> HIDE DEF n, h
<1>6. h \in firstAio /\ ~acb[h].active /\ acb[h].ret = "inprogress"
  BY <1>2, <1>4
<1>7. /\ acb'[h].active /\ acb'[h].ret = "inprogress"
      /\ \A x \in Slots : x # h => acb'[x] = acb[x]
  <2>1. acb[h] \in AcbType
    BY <1>0, <1>2, Zenon
  <2>2. acb'[h] = [acb[h] EXCEPT !.active = TRUE]
    BY <1>0, <1>2, <1>3, Zenon
  <2>3. acb'[h].active = TRUE /\ acb'[h].ret = acb[h].ret
    BY <2>1, <2>2, Zenon DEF AcbType
  <2> QED
    BY <1>0, <1>3, <1>6, <2>3, Zenon
<1>8. \A u \in Threads : pc[u] \in {"working", "store"} => job[u] # h
  BY <1>6, Zenon DEF PoolInv, JobsOK
<1>9. JobsOK'
  <2>0. h # None
    BY <1>2, NoneAssumption, Zenon
  <2>1. \A u \in Threads : job[u] # h
    BY <1>8, <2>0, Zenon DEF PoolInv, JobsOK
  <2> SUFFICES ASSUME NEW u \in Threads
               PROVE  IF pc'[u] \in {"working", "store"}
                        THEN /\ job'[u] \in firstAio'
                             /\ acb'[job'[u]].active /\ acb'[job'[u]].ret = "inprogress"
                             /\ \A v \in Threads : job'[v] = job'[u] => v = u
                        ELSE job'[u] = None
    BY Zenon DEF JobsOK
  <2>2. CASE u = t
    BY <1>0, <1>3, <1>6, <1>7, <2>1, <2>2, Zenon
  <2>3. CASE u # t
    <3>1. pc'[u] = pc[u] /\ job'[u] = job[u] /\ job'[t] = h
      BY <1>0, <1>3, <2>3, Zenon
    <3>2. CASE pc[u] \in {"working", "store"}
      <4>1. /\ job[u] \in firstAio /\ acb[job[u]].active /\ acb[job[u]].ret = "inprogress"
            /\ \A v \in Threads : job[v] = job[u] => v = u
        BY <3>2, Zenon DEF PoolInv, JobsOK
      <4>2. acb'[job[u]] = acb[job[u]]
        BY <1>0, <1>7, <2>1, <4>1, Zenon
      <4>3. \A v \in Threads : v # t => job'[v] = job[v]
        BY <1>0, <1>3, Zenon
      <4> QED
        BY <1>3, <2>1, <3>1, <3>2, <4>1, <4>2, <4>3
    <3>3. CASE pc[u] \notin {"working", "store"}
      BY <3>1, <3>3, Zenon DEF PoolInv, JobsOK
    <3> QED
      BY <3>2, <3>3, Zenon
  <2> QED
    BY <2>2, <2>3, Zenon
<1>10. \A i \in 1 .. n - 1 : i + 1 \in 1 .. n /\ i + 1 # 1
  BY <1>2
<1>11. QueueOK'
  <2> SUFFICES ASSUME NEW i \in 1 .. n - 1
               PROVE  /\ queue'[i] \in firstAio'
                      /\ ~acb'[queue'[i]].active /\ acb'[queue'[i]].ret = "inprogress"
                      /\ \A j \in 1 .. n - 1 : queue'[j] = queue'[i] => j = i
    BY <1>2, Zenon DEF QueueOK
  <2>1. queue'[i] = queue[i + 1] /\ i + 1 \in 1 .. n /\ i + 1 # 1
    BY <1>2, <1>10, Zenon
  <2>2. queue[i + 1] # h /\ queue[i + 1] \in firstAio
    <3>1. 1 \in 1 .. n
      BY <1>2
    <3> QED
      BY <1>2, <1>4, <2>1, <3>1, Zenon
  <2>3. acb'[queue[i + 1]] = acb[queue[i + 1]]
    BY <1>0, <1>7, <2>2, Zenon
  <2>4. \A j \in 1 .. n - 1 : queue'[j] = queue'[i] => j + 1 = i + 1
    BY <1>2, <1>4, <1>10, <2>1, Zenon
  <2> QED
    BY <1>3, <1>4, <2>1, <2>2, <2>3, <2>4
<1>12. NoneLost'
  <2> SUFFICES ASSUME NEW x \in firstAio', ~acb'[x].active
               PROVE  \E i \in 1 .. n - 1 : queue'[i] = x
    BY <1>2, Zenon DEF NoneLost
  <2>1. x \in firstAio /\ x # h /\ acb'[x] = acb[x]
    BY <1>0, <1>3, <1>7, Zenon
  <2>2. PICK i \in 1 .. n : queue[i] = x
    BY <1>5, <2>1, Zenon
  <2>3. i - 1 \in 1 .. n - 1 /\ (i - 1) + 1 = i
    BY <1>2, <2>1, <2>2
  <2> QED
    BY <1>2, <2>2, <2>3, Zenon
<1> QED
  BY <1>9, <1>11, <1>12, Zenon

\* A worker stores its result
LEMMA PoolStores ==
  ASSUME TypeOK, PoolInv, NEW t \in Threads, StoreResult(t)
  PROVE  (JobsOK /\ QueueOK /\ NoneLost)'
<1> DEFINE j == job[t]
<1>1. /\ j \in firstAio /\ acb[j].active /\ acb[j].ret = "inprogress"
      /\ \A u \in Threads : job[u] = j => u = t
  BY Zenon DEF StoreResult, PoolInv, JobsOK
<1>2. acb \in [Slots -> AcbType] /\ job \in [Threads -> Slots \cup {None}]
      /\ pc \in [Threads -> PcType] /\ firstAio \subseteq Slots
  BY Zenon DEF TypeOK, AcbType, PcType
<1>3. /\ acb' = [acb EXCEPT ![j].ret = "done"] /\ pc' = [pc EXCEPT ![t] = "kill"]
      /\ job' = [job EXCEPT ![t] = None] /\ firstAio' = firstAio /\ queue' = queue
  BY Zenon DEF StoreResult
<1> HIDE DEF j
<1>4. acb'[j].active /\ \A x \in Slots : x # j => acb'[x] = acb[x]
  <2>1. acb[j] \in AcbType
    BY <1>1, <1>2, Zenon
  <2>2. acb'[j] = [acb[j] EXCEPT !.ret = "done"]
    BY <1>1, <1>2, <1>3, Zenon
  <2>3. acb'[j].active = acb[j].active
    BY <2>1, <2>2, Zenon DEF AcbType
  <2> QED
    BY <1>1, <1>2, <1>3, <2>3, Zenon
<1>5. JobsOK'
  <2> SUFFICES ASSUME NEW u \in Threads
               PROVE  IF pc'[u] \in {"working", "store"}
                        THEN /\ job'[u] \in firstAio'
                             /\ acb'[job'[u]].active /\ acb'[job'[u]].ret = "inprogress"
                             /\ \A v \in Threads : job'[v] = job'[u] => v = u
                        ELSE job'[u] = None
    BY Zenon DEF JobsOK
  <2>1. CASE u = t
    BY <1>2, <1>3, <2>1, Zenon
  <2>2. CASE u # t
    <3>1. pc'[u] = pc[u] /\ job'[u] = job[u] /\ job[u] # j /\ job'[t] = None
      BY <1>1, <1>2, <1>3, <2>2, Zenon
    <3>2. CASE pc[u] \in {"working", "store"}
      <4>1. /\ job[u] \in firstAio /\ acb[job[u]].active /\ acb[job[u]].ret = "inprogress"
            /\ \A v \in Threads : job[v] = job[u] => v = u
        BY <3>2, Zenon DEF PoolInv, JobsOK
      <4>2. acb'[job[u]] = acb[job[u]] /\ job[u] # None
        BY <1>2, <1>4, <3>1, <4>1, NoneAssumption, Zenon
      <4>3. \A v \in Threads : v # t => job'[v] = job[v]
        BY <1>2, <1>3, Zenon
      <4> QED
        BY <1>3, <3>1, <3>2, <4>1, <4>2, <4>3
    <3>3. CASE pc[u] \notin {"working", "store"}
      BY <3>1, <3>3, Zenon DEF PoolInv, JobsOK
    <3> QED
      BY <3>2, <3>3, Zenon
  <2> QED
    BY <2>1, <2>2, Zenon
<1>6. \A i \in 1 .. Len(queue) : queue[i] # j /\ queue[i] \in Slots
  BY <1>1, <1>2, Zenon DEF PoolInv, QueueOK
<1>7. QueueOK'
  BY <1>3, <1>4, <1>6 DEF PoolInv, QueueOK
<1>8. NoneLost'
  BY <1>2, <1>3, <1>4, Zenon DEF PoolInv, NoneLost
<1> QED
  BY <1>5, <1>7, <1>8, Zenon

LEMMA PoolStep ==
  ASSUME TypeOK, StackInv, PoolInv, ContextInv, [Next]_vars
  PROVE  PoolInv'
<1> DEFINE P == JobsOK /\ QueueOK /\ NoneLost
<1> SUFFICES P'
  BY SpinStep, Zenon DEF PoolInv
<1>0. pc \in [Threads -> PcType]
  BY Zenon DEF TypeOK, PcType
<1>a. ASSUME NEW f \in FrameType, Walked(f) PROVE P'
  <2>1. UNCHANGED <<acb, firstAio, queue, job>>
    BY <1>a, Zenon DEF Walked
  <2>2. \A t \in Threads : pc'[t] \in {"working", "store"} <=> pc[t] \in {"working", "store"}
    BY <1>0, <1>a, Zenon DEF Walked
  <2> QED
    BY <2>1, <2>2, PoolKept, Zenon
<1>b. CASE UNCHANGED <<acb, firstAio, queue, job, pc>>
  <2>1. UNCHANGED <<acb, firstAio, queue, job>>
    BY <1>b, Zenon
  <2>2. \A t \in Threads : pc'[t] \in {"working", "store"} <=> pc[t] \in {"working", "store"}
    BY <1>b, Zenon
  <2> QED
    BY <2>1, <2>2, PoolKept, Zenon
<1>c. CASE Popped \/ Flushed
  BY <1>b, <1>c, Zenon DEF Popped, Flushed, pool
<1>d. ASSUME NEW f \in FrameType, NEW g \in FrameType, Called(f, g) PROVE P'
  <2>1. UNCHANGED <<acb, firstAio, queue, job, pc>>
    BY <1>d, Zenon DEF Called, pool
  <2> QED
    BY <1>b, <2>1, Zenon
<1>e. ASSUME NEW s \in Slots, NEW f \in FrameType, NEW g \in FrameType, CalledBack(s, f, g)
      PROVE  P'
  <2>1. s \in firstAio /\ Done(s) /\ firstAio' = firstAio \ {s}
    BY <1>e, Zenon DEF CalledBack, Callback, DoneHere
  <2>2. UNCHANGED <<acb, queue, pc, job>>
    BY <1>e, Zenon DEF CalledBack, Callback, pool
  <2> QED
    BY <2>1, <2>2, PoolReleases, Zenon
<1>f. ASSUME NEW f \in FrameType, NEW g \in FrameType, SyncCalled(f, g) PROVE P'
  BY <1>f, PoolSubmits, Zenon DEF SyncCalled
<1>g. ASSUME NEW w \in Slots \cup {None}, Returned(w) PROVE P'
  <2>1. /\ acb' = [s \in Slots |-> IF s = Top.s THEN Blank ELSE acb[s]]
        /\ UNCHANGED <<firstAio, queue, pc, job>>
    BY <1>g, Zenon DEF Returned, pool
  <2>2. Top.s \notin firstAio /\ firstAio \subseteq Slots
    BY TopFacts, Zenon DEF TypeOK
  <2>3. \A x \in firstAio : acb'[x] = acb[x]
    BY <2>1, <2>2, Zenon
  <2>4. JobsOK'
    BY <2>1, <2>3 DEF PoolInv, JobsOK
  <2>5. QueueOK'
    BY <2>1, <2>3 DEF PoolInv, QueueOK
  <2>6. NoneLost'
    BY <2>1, <2>3, Zenon DEF PoolInv, NoneLost
  <2> QED
    BY <2>4, <2>5, <2>6, Zenon
<1>h. ASSUME NEW f \in FrameType, NEW s \in Slots, Cancelled(f, s) PROVE P'
  <2>1. s \in firstAio /\ firstAio' = firstAio \ {s} /\ pc' = pc /\ job' = job
        /\ acb' = [acb EXCEPT ![s] = Blank]
    BY <1>h, Zenon DEF Cancelled, Release
  <2>2. \A x \in firstAio \ {s} : acb'[x] = acb[x]
    BY <2>1, Zenon DEF TypeOK
  <2>3. \/ Done(s) /\ queue' = queue
        \/ ~acb[s].active /\ queue' = Dequeued(s)
    BY <1>h, Zenon DEF Cancelled
  <2> QED
    BY <2>1, <2>2, <2>3, PoolReleases, Zenon
<1>i. ASSUME NEW f \in FrameType, NEW s \in Slots, Awaits(f, s) PROVE P'
  <2>1. UNCHANGED <<acb, firstAio, queue, job, pc>>
    BY <1>i, Zenon DEF Awaits
  <2> QED
    BY <1>b, <2>1, Zenon
<1>j. CASE PaioSubmit
  <2>1. Submit(Ctx)
    BY <1>j, Zenon DEF PaioSubmit
  <2> QED
    BY <2>1, PoolSubmits, Zenon
<1>k. CASE AioSignal
  BY <1>b, <1>k, Zenon DEF AioSignal, pool
<1>l. ASSUME NEW t \in Threads, Takes(t) PROVE P'
  BY <1>l, PoolTakes, Zenon
<1>m. ASSUME NEW t \in Threads, StoreResult(t) PROVE P'
  BY <1>m, PoolStores, Zenon
<1>n. ASSUME NEW t \in Threads, Kill(t) PROVE P'
  <2>1. UNCHANGED <<acb, firstAio, queue, job>>
    BY <1>n, Zenon DEF Kill
  <2>2. \A u \in Threads : pc'[u] \in {"working", "store"} <=> pc[u] \in {"working", "store"}
    BY <1>0, <1>n, Zenon DEF Kill
  <2> QED
    BY <2>1, <2>2, PoolKept, Zenon
<1>o. ASSUME NEW t \in Threads, NEW p \in {"waiting", "woken", "timedout", "dead", "store"}, Roams(t, p)
      PROVE  P'
  <2>1. UNCHANGED <<acb, firstAio, queue, job>>
    BY <1>o, Zenon DEF Roams
  <2>2. \A u \in Threads : pc'[u] \in {"working", "store"} <=> pc[u] \in {"working", "store"}
    BY <1>0, <1>o, Zenon DEF Roams
  <2> QED
    BY <2>1, <2>2, PoolKept, Zenon
<1>p. CASE UNCHANGED vars
  BY <1>b, <1>p, Zenon DEF vars
<1> HIDE DEF P
<1> QED
  BY KindOfStep, <1>a, <1>c, <1>d, <1>e, <1>f, <1>g, <1>h, <1>i, <1>j, <1>k, <1>l,
     <1>m, <1>n, <1>o, <1>p, Zenon

-----------------------------------------------------------------------------
\* Contexts

LEMMA CtxAfter ==
  ASSUME TypeOK, StackInv
  PROVE  /\ Ctx' = stack'[Len(stack')].ctx
         /\ \A f : Moves(f) => Ctx' = Ctx
         /\ \A f, g : Enters(f, g) => Ctx' = IF g.fn = "sync" THEN Ctx + 1 ELSE Ctx
         /\ \A w : Leaves(w) => Ctx' = IF Top.fn = "sync" THEN Ctx - 1 ELSE Ctx
<1>1. stack \in Seq(FrameType) /\ Len(stack) > 0 /\ Depth \in Nat /\ Depth > 0 /\ Depth = Len(stack)
  BY TopFacts, Zenon DEF TypeOK
<1>2. Ctx = stack[Depth].ctx /\ Ctx \in Nat
  BY CtxFacts, Zenon
<1>3. Ctx' = stack'[Len(stack')].ctx
  BY Zenon DEF Ctx, Top, Depth
<1>4. ASSUME NEW f, Moves(f) PROVE Ctx' = Ctx
  <2>1. Len(stack') = Depth /\ \A i \in 1 .. Depth : stack'[i].ctx = stack[i].ctx
    BY <1>1, <1>4, MovesEffect, Zenon
  <2> QED
    BY <1>1, <1>2, <1>3, <2>1
<1>5. ASSUME NEW f, NEW g, Enters(f, g) PROVE Ctx' = IF g.fn = "sync" THEN Ctx + 1 ELSE Ctx
  <2>1. /\ Len(stack') = Depth + 1
        /\ stack'[Depth + 1].ctx =
             IF g.fn = "sync" THEN stack[Depth].ctx + 1 ELSE stack[Depth].ctx
    BY <1>1, <1>5, EntersEffect, ZenonT(60)
  <2> QED
    BY <1>2, <1>3, <2>1, Zenon
<1>6. ASSUME NEW w, Leaves(w) PROVE Ctx' = IF Top.fn = "sync" THEN Ctx - 1 ELSE Ctx
  <2>1. /\ Len(stack') = Depth - 1 /\ Depth > 1
        /\ \A i \in 1 .. Depth - 1 : stack'[i].ctx = stack[i].ctx
    BY <1>1, <1>6, LeavesEffect, Zenon DEF Leaves
  <2>2. Top.fn # "main" /\ Depth - 1 \in 1 .. Depth - 1 /\ Depth - 1 \in Nat
    <3>1. Depth # 1 /\ Depth - 1 \in 1 .. Depth - 1 /\ Depth - 1 \in Nat
      BY <1>1, <2>1
    <3> QED
      BY <3>1, TopFacts, Zenon
  <2>3. Ctx = IF Top.fn = "sync" THEN stack[Depth - 1].ctx + 1 ELSE stack[Depth - 1].ctx
    BY <2>2, CtxFacts, Zenon
  <2>4. stack[Depth - 1].ctx \in Nat
    BY <2>2, <1>1, CtxFacts
  <2>5. Ctx' = stack[Depth - 1].ctx
    BY <1>3, <2>1, <2>2, Zenon
  <2> QED
    BY <2>3, <2>4, <2>5
<1> QED
  BY <1>3, <1>4, <1>5, <1>6, Zenon

LEMMA BoundedStep ==
  ASSUME TypeOK, StackInv, PoolInv, ContextInv, [Next]_vars
  PROVE  (CtxBounded /\ DevOutermost)'
<1>1. Ctx \in Nat /\ Ctx <= MaxDepth /\ MaxDepth \in Nat
  BY CtxFacts, BoundsAssumption, Zenon DEF ContextInv, CtxBounded
<1>2. DevOutermost
  BY Zenon DEF ContextInv
<1>3. ASSUME \A c \in Nat : <<"dev", c>> \in bhs' => <<"dev", c>> \in bhs \/ c = 0
      PROVE  DevOutermost'
  BY <1>1, <1>2, <1>3 DEF DevOutermost
<1>a. ASSUME NEW f \in FrameType, Walked(f) PROVE (CtxBounded /\ DevOutermost)'
  <2>1. Ctx' = Ctx
    BY <1>a, CtxAfter, Zenon DEF Walked
  <2>2. \A c \in Nat : <<"dev", c>> \in bhs' => <<"dev", c>> \in bhs \/ c = 0
    BY <1>a, Zenon DEF Walked
  <2> QED
    BY <1>1, <1>3, <2>1, <2>2, Zenon DEF CtxBounded
<1>b. CASE Popped
  <2>1. Ctx' = Ctx - 1
    BY <1>b, CtxAfter, Zenon DEF Popped
  <2>2. \A c \in Nat : <<"dev", c>> \in bhs' => <<"dev", c>> \in bhs \/ c = 0
    BY <1>b, Zenon DEF Popped
  <2> QED
    BY <1>1, <1>3, <2>1, <2>2 DEF CtxBounded
<1>c. CASE Flushed
  <2>1. Ctx' = Ctx
    BY <1>c, CtxAfter, Zenon DEF Flushed
  <2>2. bhs' = bhs
    BY <1>c, Zenon DEF Flushed
  <2> QED
    BY <1>1, <1>3, <2>1, <2>2, Zenon DEF CtxBounded
<1>d. ASSUME NEW f \in FrameType, NEW g \in FrameType, Called(f, g)
      PROVE  (CtxBounded /\ DevOutermost)'
  <2>1. Ctx' = Ctx \/ (Ctx' = Ctx + 1 /\ Ctx < MaxDepth)
    BY <1>d, CtxAfter, Zenon DEF Called
  <2>2. bhs' \subseteq bhs
    BY <1>d, Zenon DEF Called
  <2>3. Ctx' <= MaxDepth
    BY <1>1, <2>1
  <2> QED
    BY <1>3, <2>2, <2>3, Zenon DEF CtxBounded
<1>e. ASSUME NEW s \in Slots, NEW f \in FrameType, NEW g \in FrameType, CalledBack(s, f, g)
      PROVE  (CtxBounded /\ DevOutermost)'
  <2>1. Ctx' = Ctx
    BY <1>e, CtxAfter, Zenon DEF CalledBack
  <2>2. bhs' = bhs
    BY <1>e, Zenon DEF CalledBack, Callback
  <2> QED
    BY <1>1, <1>3, <2>1, <2>2, Zenon DEF CtxBounded
<1>f. ASSUME NEW f \in FrameType, NEW g \in FrameType, SyncCalled(f, g)
      PROVE  (CtxBounded /\ DevOutermost)'
  <2>1. Ctx' = Ctx + 1 /\ Ctx < MaxDepth
    BY <1>f, CtxAfter, Zenon DEF SyncCalled
  <2>2. bhs' = bhs
    BY <1>f, Zenon DEF SyncCalled, Submit
  <2> QED
    BY <1>1, <1>3, <2>1, <2>2 DEF CtxBounded
<1>g. ASSUME NEW w \in Slots \cup {None}, Returned(w) PROVE (CtxBounded /\ DevOutermost)'
  <2>1. Ctx' = Ctx
    BY <1>g, CtxAfter, Zenon DEF Returned
  <2>2. bhs' = bhs
    BY <1>g, Zenon DEF Returned
  <2> QED
    BY <1>1, <1>3, <2>1, <2>2, Zenon DEF CtxBounded
<1>h. ASSUME NEW f \in FrameType, NEW s \in Slots, Cancelled(f, s) \/ Awaits(f, s)
      PROVE  (CtxBounded /\ DevOutermost)'
  <2>1. Ctx' = Ctx
    BY <1>h, CtxAfter, Zenon DEF Cancelled, Awaits
  <2>2. bhs' = bhs
    BY <1>h, Zenon DEF Cancelled, Awaits
  <2> QED
    BY <1>1, <1>3, <2>1, <2>2, Zenon DEF CtxBounded
<1>i. CASE PaioSubmit
  <2>1. Ctx' = stack'[Depth].ctx /\ Depth \in 1 .. Depth
    BY <1>i, CtxAfter, SubmitEffect, TopFacts
  <2>2. Ctx' = Ctx
    BY <1>i, <2>1, SubmitEffect, CtxFacts, Zenon
  <2>3. bhs' = bhs
    BY <1>i, Zenon DEF PaioSubmit, Submit
  <2> QED
    BY <1>1, <1>3, <2>2, <2>3, Zenon DEF CtxBounded
<1>j. CASE stack' = stack /\ bhs' = bhs
  <2>1. Ctx' = Ctx
    BY <1>j, Zenon DEF Ctx, Top, Depth
  <2> QED
    BY <1>1, <1>3, <1>j, <2>1, Zenon DEF CtxBounded
<1>k. CASE AioSignal
  BY <1>j, <1>k, Zenon DEF AioSignal
<1>l. ASSUME NEW t \in Threads, Takes(t) \/ StoreResult(t) \/ Kill(t)
      PROVE  (CtxBounded /\ DevOutermost)'
  BY <1>j, <1>l, Zenon DEF Takes, StoreResult, Kill
<1>m. ASSUME NEW t \in Threads, NEW p, Roams(t, p) PROVE (CtxBounded /\ DevOutermost)'
  BY <1>j, <1>m, Zenon DEF Roams
<1>n. CASE UNCHANGED vars
  BY <1>j, <1>n, Zenon DEF vars
<1> QED
  BY KindOfStep, <1>a, <1>b, <1>c, <1>d, <1>e, <1>f, <1>g, <1>h, <1>i, <1>k, <1>l, <1>m, <1>n, Zenon

LEMMA CheckedStep ==
  ASSUME TypeOK, StackInv, PoolInv, ContextInv, [Next]_vars
  PROVE  CheckedEmpty'
<1>0. CheckedEmpty
  BY Zenon DEF ContextInv
<1>a. ASSUME NEW f \in FrameType, Walked(f) PROVE CheckedEmpty'
  <2>1. Top' = f /\ firstAio' = firstAio
    BY <1>a, TopAfter, Zenon DEF Walked
  <2>2. (f.at = "cond" /\ f.ran = {}) => (firstAio = {} \/ (Top.at = "cond" /\ Top.ran = {}))
    BY <1>a, Zenon DEF Walked
  <2> QED
    BY <1>0, <2>1, <2>2, Zenon DEF CheckedEmpty
<1>b. CASE Popped \/ Flushed
  BY <1>b, TopAfter, Zenon DEF Popped, Flushed, CheckedEmpty
<1>c. ASSUME NEW f \in FrameType, NEW g \in FrameType,
             Called(f, g) \/ SyncCalled(f, g) \/ \E s \in Slots : CalledBack(s, f, g)
      PROVE  CheckedEmpty'
  <2>1. Top' = g /\ g.at # "cond"
    BY <1>c, TopAfter, Zenon DEF Called, SyncCalled, CalledBack
  <2> QED
    BY <2>1, Zenon DEF CheckedEmpty
<1>d. ASSUME NEW w \in Slots \cup {None}, Returned(w) PROVE CheckedEmpty'
  BY <1>d, TopAfter, Zenon DEF Returned, CheckedEmpty
<1>e. ASSUME NEW f \in FrameType, NEW s \in Slots, Cancelled(f, s) \/ Awaits(f, s)
      PROVE  CheckedEmpty'
  <2>1. Top' = f /\ f.at # "cond"
    BY <1>e, TopAfter, Zenon DEF Cancelled, Awaits
  <2> QED
    BY <2>1, Zenon DEF CheckedEmpty
<1>g. CASE PaioSubmit
  <2>1. Len(stack') = Depth /\ stack'[Depth].at = "signal"
    BY <1>g, SubmitEffect, TopFacts
  <2> QED
    BY <2>1, Zenon DEF CheckedEmpty, Top, Depth
<1>h. CASE stack' = stack /\ firstAio' = firstAio
  BY <1>0, <1>h, Zenon DEF CheckedEmpty, Top, Depth
<1>i. CASE AioSignal
  BY <1>h, <1>i, Zenon DEF AioSignal
<1>j. ASSUME NEW t \in Threads, Takes(t) \/ StoreResult(t) \/ Kill(t) PROVE CheckedEmpty'
  BY <1>h, <1>j, Zenon DEF Takes, StoreResult, Kill
<1>k. ASSUME NEW t \in Threads, NEW p, Roams(t, p) PROVE CheckedEmpty'
  BY <1>h, <1>k, Zenon DEF Roams
<1>l. CASE UNCHANGED vars
  BY <1>h, <1>l, Zenon DEF vars
<1> QED
  BY KindOfStep, <1>a, <1>b, <1>c, <1>d, <1>e, <1>g, <1>i, <1>j, <1>k, <1>l, Zenon

\* The calls that wait go on waiting for the same requests
LEMMA NestedKept ==
  ASSUME TypeOK, StackInv, NestedAwaited,
         \A x \in firstAio' :
           \/ x \in firstAio /\ acb'[x].ctx = acb[x].ctx
           \/ acb'[x].ctx = 0
           \/ \E i \in 1 .. Len(stack') :
                stack'[i].fn = "sync" /\ stack'[i].w = x /\ stack'[i].ctx = acb'[x].ctx,
         \A i \in 1 .. Depth :
           (stack[i].fn = "sync" /\ stack[i].w \in firstAio /\ stack[i].w \in firstAio') =>
             /\ i \in 1 .. Len(stack')
             /\ stack'[i].fn = "sync" /\ stack'[i].w = stack[i].w
             /\ stack'[i].ctx = stack[i].ctx
  PROVE  NestedAwaited'
<1> SUFFICES ASSUME NEW x \in firstAio', acb'[x].ctx # 0
             PROVE  \E i \in 1 .. Len(stack') :
                      stack'[i].fn = "sync" /\ stack'[i].w = x /\ stack'[i].ctx = acb'[x].ctx
  BY Zenon DEF NestedAwaited
<1>1. CASE x \in firstAio /\ acb'[x].ctx = acb[x].ctx
  <2>1. PICK i \in 1 .. Depth : stack[i].fn = "sync" /\ stack[i].w = x /\ stack[i].ctx = acb[x].ctx
    BY <1>1, Zenon DEF NestedAwaited, Depth
  <2> QED
    BY <1>1, <2>1, Zenon
<1> QED
  BY <1>1, Zenon

LEMMA NestedStep ==
  ASSUME TypeOK, StackInv, PoolInv, ContextInv, [Next]_vars
  PROVE  NestedAwaited'
<1>1. /\ stack \in Seq(FrameType) /\ Len(stack) > 0
      /\ Depth \in Nat /\ Depth > 0 /\ Depth = Len(stack)
      /\ firstAio \subseteq Slots /\ acb \in [Slots -> AcbType]
  BY TopFacts, Zenon DEF TypeOK, AcbType
<1>2. NestedAwaited
  BY Zenon DEF ContextInv
<1>3. ASSUME NEW f, Moves(f), f.w = Top.w \/ Top.fn # "sync",
             NEW i \in 1 .. Depth, stack[i].fn = "sync"
      PROVE  /\ i \in 1 .. Len(stack')
             /\ stack'[i].fn = "sync" /\ stack'[i].w = stack[i].w
             /\ stack'[i].ctx = stack[i].ctx
  <2>1. /\ Len(stack') = Depth /\ stack'[Depth] = f
        /\ \A j \in 1 .. Depth - 1 : stack'[j] = stack[j]
        /\ \A j \in 1 .. Depth : stack'[j].fn = stack[j].fn
        /\ \A j \in 1 .. Depth : stack'[j].ctx = stack[j].ctx
    BY <1>1, <1>3, MovesEffect, Zenon
  <2>2. CASE i = Depth
    BY <1>3, <2>1, <2>2, Zenon DEF Top
  <2>3. CASE i # Depth
    BY <1>1, <1>3, <2>1, <2>3
  <2> QED
    BY <2>2, <2>3, Zenon
<1>4. ASSUME NEW f, NEW g, Enters(f, g), NEW i \in 1 .. Depth, stack[i].fn = "sync"
      PROVE  /\ i \in 1 .. Len(stack')
             /\ stack'[i].fn = "sync" /\ stack'[i].w = stack[i].w
             /\ stack'[i].ctx = stack[i].ctx
  <2>1. /\ Len(stack') = Depth + 1 /\ stack'[Depth] = f
        /\ \A j \in 1 .. Depth - 1 : stack'[j] = stack[j]
        /\ \A j \in 1 .. Depth : stack'[j].fn = stack[j].fn
        /\ \A j \in 1 .. Depth : stack'[j].ctx = stack[j].ctx
    BY <1>1, <1>4, EntersEffect, Zenon
  <2>0. f.w = stack[Depth].w /\ i \in 1 .. Len(stack')
    BY <1>1, <1>4, <2>1 DEF Enters, Top
  <2>2. CASE i = Depth
    BY <1>4, <2>0, <2>1, <2>2, Zenon
  <2>3. CASE i # Depth
    BY <1>1, <1>4, <2>0, <2>1, <2>3
  <2> QED
    BY <2>2, <2>3, Zenon
<1>5. ASSUME NEW w, Leaves(w), NEW i \in 1 .. Depth, stack[i].fn = "sync",
             stack[i].w \in firstAio,
             i = Depth => Top.fn # "sync" \/ Top.w = None,
             w # stack[Depth - 1].w => stack[Depth - 1].w \notin firstAio
      PROVE  /\ i \in 1 .. Len(stack')
             /\ stack'[i].fn = "sync" /\ stack'[i].w = stack[i].w
             /\ stack'[i].ctx = stack[i].ctx
  <2>1. /\ Len(stack') = Depth - 1 /\ stack'[Depth - 1] = [stack[Depth - 1] EXCEPT !.w = w]
        /\ \A j \in 1 .. Depth - 2 : stack'[j] = stack[j]
        /\ \A j \in 1 .. Depth - 1 : stack'[j].fn = stack[j].fn
        /\ \A j \in 1 .. Depth - 1 : stack'[j].ctx = stack[j].ctx
    BY <1>1, <1>5, LeavesEffect, Zenon
  <2>2. i # Depth
    BY <1>1, <1>5, NoneAssumption, Zenon DEF Top
  <2>3. i \in 1 .. Depth - 1
    BY <1>1, <2>2
  <2>4. CASE i = Depth - 1
    <3>1. w = stack[i].w
      BY <1>5, <2>4, Zenon
    <3>2. stack[i] \in FrameType
      BY <1>1
    <3>3. stack'[i].w = w
      BY <2>1, <2>4, <3>2, Zenon DEF FrameType
    <3> QED
      BY <1>5, <2>1, <2>3, <3>1, <3>3, Zenon
  <2>5. CASE i # Depth - 1
    <3>1. i \in 1 .. Depth - 2
      BY <1>1, <2>3, <2>5
    <3> QED
      BY <1>5, <2>1, <2>3, <3>1, Zenon
  <2> QED
    BY <2>4, <2>5, Zenon
<1>a. ASSUME NEW f \in FrameType, Walked(f) PROVE NestedAwaited'
  <2>1. Moves(f) /\ f.w = Top.w /\ firstAio' = firstAio /\ acb' = acb
    BY <1>a, Zenon DEF Walked
  <2> QED
    BY <1>2, <1>3, <2>1, NestedKept, Zenon
<1>b. CASE Popped
  <2>1. /\ Leaves(stack[Depth - 1].w) /\ firstAio' = firstAio /\ acb' = acb
        /\ Top.w = None
    BY <1>b, Zenon DEF Popped
  <2> QED
    BY <1>2, <1>5, <2>1, NestedKept, Zenon
<1>c. CASE Flushed
  <2>1. /\ Leaves(stack[Depth - 1].w) /\ firstAio' = firstAio /\ acb' = acb
        /\ Top.fn # "sync"
    BY <1>c, Zenon DEF Flushed
  <2> QED
    BY <1>2, <1>5, <2>1, NestedKept, Zenon
<1>d. ASSUME NEW f \in FrameType, NEW g \in FrameType, Called(f, g) PROVE NestedAwaited'
  <2>1. Enters(f, g) /\ firstAio' = firstAio /\ acb' = acb
    BY <1>d, Zenon DEF Called
  <2> QED
    BY <1>2, <1>4, <2>1, NestedKept, Zenon
<1>e. ASSUME NEW s \in Slots, NEW f \in FrameType, NEW g \in FrameType, CalledBack(s, f, g)
      PROVE  NestedAwaited'
  <2>1. Enters(f, g) /\ firstAio' \subseteq firstAio /\ acb' = acb
    BY <1>e, Zenon DEF CalledBack, Callback
  <2> QED
    BY <1>2, <1>4, <2>1, NestedKept, Zenon
<1>f. ASSUME NEW f \in FrameType, NEW g \in FrameType, SyncCalled(f, g) PROVE NestedAwaited'
  <2>1. /\ Enters(f, g) /\ Free # {} /\ g.fn = "sync" /\ g.w = Slot
        /\ firstAio' = firstAio \cup {Slot}
        /\ acb' = [acb EXCEPT ![Slot] = [ret |-> "inprogress", active |-> FALSE, ctx |-> Ctx + 1]]
    BY <1>f, Zenon DEF SyncCalled, Submit
  <2>2. Slot \in Slots /\ Slot \notin firstAio
    BY <2>1, SlotFacts, Zenon
  <2>3. acb'[Slot].ctx = Ctx + 1 /\ \A x \in firstAio : acb'[x] = acb[x]
    BY <1>1, <2>1, <2>2, Zenon
  <2>4. /\ Len(stack') = Depth + 1 /\ stack'[Depth + 1] = g
        /\ stack'[Depth + 1].ctx = Ctx + 1
    BY <1>1, <2>1, EntersEffect, CtxFacts, ZenonT(60)
  <2>5. Depth + 1 \in 1 .. Len(stack')
    BY <1>1, <2>4
  <2>6. \E i \in 1 .. Len(stack') :
          stack'[i].fn = "sync" /\ stack'[i].w = Slot /\ stack'[i].ctx = acb'[Slot].ctx
    BY <2>1, <2>3, <2>4, <2>5, Zenon
  <2>7. \A x \in firstAio' :
           \/ x \in firstAio /\ acb'[x].ctx = acb[x].ctx
           \/ \E i \in 1 .. Len(stack') :
                stack'[i].fn = "sync" /\ stack'[i].w = x /\ stack'[i].ctx = acb'[x].ctx
    BY <2>1, <2>3, <2>6, Zenon
  <2> QED
    BY <1>2, <1>4, <2>1, <2>7, NestedKept, Zenon
<1>g. ASSUME NEW w \in Slots \cup {None}, Returned(w) PROVE NestedAwaited'
  <2>1. /\ Leaves(w) /\ (w # stack[Depth - 1].w => stack[Depth - 1].w = Top.s)
        /\ firstAio' = firstAio /\ Top.fn # "sync"
        /\ acb' = [s \in Slots |-> IF s = Top.s THEN Blank ELSE acb[s]]
    BY <1>g, Zenon DEF Returned
  <2>2. Top.s \notin firstAio
    BY TopFacts, Zenon
  <2>3. \A x \in firstAio : acb'[x] = acb[x]
    BY <1>1, <2>1, <2>2, Zenon
  <2> QED
    BY <1>2, <1>5, <2>1, <2>2, <2>3, NestedKept, Zenon
<1>h. ASSUME NEW f \in FrameType, NEW s \in Slots, Cancelled(f, s) PROVE NestedAwaited'
  <2>1. /\ Moves(f) /\ Top.fn # "sync" /\ firstAio' = firstAio \ {s}
        /\ acb' = [acb EXCEPT ![s] = Blank]
    BY <1>h, Zenon DEF Cancelled, Release
  <2>2. \A x \in firstAio' : x \in firstAio /\ acb'[x] = acb[x]
    BY <1>1, <2>1, Zenon
  <2> QED
    BY <1>2, <1>3, <2>1, <2>2, NestedKept, Zenon
<1>i. ASSUME NEW f \in FrameType, NEW s \in Slots, Awaits(f, s) PROVE NestedAwaited'
  <2>1. Moves(f) /\ Top.fn # "sync" /\ firstAio' = firstAio /\ acb' = acb
    BY <1>i, Zenon DEF Awaits
  <2> QED
    BY <1>2, <1>3, <2>1, NestedKept, Zenon
<1>j. CASE PaioSubmit
  <2>1. /\ Free # {} /\ Top.at = "code" /\ firstAio' = firstAio \cup {Slot}
        /\ acb' = [acb EXCEPT ![Slot] = [ret |-> "inprogress", active |-> FALSE, ctx |-> Ctx]]
    BY <1>j, Zenon DEF PaioSubmit, Submit
  <2>2. Slot \in Slots /\ Slot \notin firstAio
    BY <2>1, SlotFacts, Zenon
  <2>3. acb'[Slot].ctx = Ctx /\ \A x \in firstAio : acb'[x] = acb[x]
    BY <1>1, <2>1, <2>2, Zenon
  <2>4. /\ Len(stack') = Depth
        /\ \A i \in 1 .. Depth :
             /\ stack'[i].fn = stack[i].fn /\ stack'[i].ctx = stack[i].ctx
             /\ stack'[i].w = IF i = Depth - 1 /\ stack[i].fn = "sync" THEN Slot ELSE stack[i].w
    BY <1>j, SubmitEffect, Zenon
  <2>5. Top.fn \in {"main", "cb"}
    BY <2>1, TopFacts, Zenon DEF FrameOK, Places, FrameType
  <2>6. Ctx # 0 => /\ Depth - 1 \in 1 .. Depth /\ stack[Depth - 1].fn = "sync"
                   /\ stack[Depth - 1].ctx = Ctx
    BY <2>5, CtxFacts, Zenon
  <2>7. \A x \in firstAio' :
           \/ x \in firstAio /\ acb'[x].ctx = acb[x].ctx
           \/ acb'[x].ctx = 0
           \/ \E i \in 1 .. Len(stack') :
                stack'[i].fn = "sync" /\ stack'[i].w = x /\ stack'[i].ctx = acb'[x].ctx
    <3> SUFFICES ASSUME Ctx # 0
                 PROVE  \E i \in 1 .. Len(stack') :
                   stack'[i].fn = "sync" /\ stack'[i].w = Slot /\ stack'[i].ctx = acb'[Slot].ctx
      BY <2>1, <2>3, Zenon
    <3> QED
      BY <2>3, <2>4, <2>6, Zenon
  <2>8. ASSUME NEW i \in 1 .. Depth, stack[i].fn = "sync", stack[i].w \in firstAio
        PROVE  ~(i = Depth - 1)
    <3> SUFFICES ASSUME i = Depth - 1 PROVE FALSE
      BY Zenon
    <3>1. Top.fn = "cb"
      BY <1>1, <2>5, TopFacts
    <3>2. Above(stack[i], Top)
      BY <3>1, CtxFacts, Zenon
    <3>3. stack[i].w = Top.s
      BY <2>1, <2>8, <3>1, <3>2, Zenon DEF Above
    <3> QED
      BY <2>8, <3>3, TopFacts, Zenon
  <2> QED
    BY <1>2, <2>4, <2>7, <2>8, NestedKept, Zenon
<1>k. CASE stack' = stack /\ firstAio' = firstAio /\ \A x \in firstAio : acb'[x].ctx = acb[x].ctx
  BY <1>1, <1>2, <1>k, NestedKept, Zenon
<1>l. CASE AioSignal
  BY <1>k, <1>l, Zenon DEF AioSignal
<1>m. ASSUME NEW t \in Threads, Takes(t) PROVE NestedAwaited'
  <2>1. /\ stack' = stack /\ firstAio' = firstAio /\ queue # <<>>
        /\ acb' = [acb EXCEPT ![Head(queue)].active = TRUE]
    BY <1>m, Zenon DEF Takes, Take
  <2>2. \A x \in firstAio : acb'[x].ctx = acb[x].ctx
    BY <1>1, <2>1, Zenon DEF AcbType
  <2> QED
    BY <1>k, <2>1, <2>2, Zenon
<1>n. ASSUME NEW t \in Threads, StoreResult(t) PROVE NestedAwaited'
  <2>1. /\ stack' = stack /\ firstAio' = firstAio
        /\ acb' = [acb EXCEPT ![job[t]].ret = "done"]
    BY <1>n, Zenon DEF StoreResult
  <2>2. \A x \in firstAio : acb'[x].ctx = acb[x].ctx
    BY <1>1, <2>1, Zenon DEF AcbType
  <2> QED
    BY <1>k, <2>1, <2>2, Zenon
<1>o. ASSUME NEW t \in Threads, Kill(t) PROVE NestedAwaited'
  BY <1>k, <1>o, Zenon DEF Kill
<1>p. ASSUME NEW t \in Threads, NEW p, Roams(t, p) PROVE NestedAwaited'
  BY <1>k, <1>p, Zenon DEF Roams
<1>q. CASE UNCHANGED vars
  BY <1>k, <1>q, Zenon DEF vars
<1> QED
  BY KindOfStep, <1>a, <1>b, <1>c, <1>d, <1>e, <1>f, <1>g, <1>h, <1>i, <1>j, <1>l, <1>m,
     <1>n, <1>o, <1>p, <1>q, Zenon

LEMMA ContextStep ==
  ASSUME TypeOK, StackInv, PoolInv, ContextInv, [Next]_vars
  PROVE  ContextInv'
  BY BoundedStep, NestedStep, CheckedStep, Zenon DEF ContextInv

-----------------------------------------------------------------------------
\* No request is stranded

LEMMA StrandedStep ==
  ASSUME TypeOK, StackInv, PoolInv, ContextInv, NoStrandedRequest, [Next]_vars
  PROVE  NoStrandedRequest'
<1>1. pc \in [Threads -> PcType] /\ queue \in Seq(Slots)
  BY Zenon DEF TypeOK, PcType
<1>2. ASSUME NEW t \in Threads, pc'[t] \notin {"dead", "waiting"} PROVE NoStrandedRequest'
  BY <1>2, Zenon DEF NoStrandedRequest
<1>3. CASE pc' = pc /\ Top.at # "signal" /\ (queue = <<>> => queue' = <<>>)
  BY <1>3, Zenon DEF NoStrandedRequest
<1>4. CASE pc' = pc /\ stack' = stack /\ queue' = queue
  BY <1>4, Zenon DEF NoStrandedRequest, Top, Depth
<1>5. ASSUME NEW c, Submit(c), Top'.at = "signal" PROVE NoStrandedRequest'
  <2>1. CASE idle_threads = {} /\ Spare # {}
    <3> DEFINE t == CHOOSE u \in Spare : TRUE
    <3>1. t \in Threads
      BY <2>1, Zenon DEF Spare
    <3>2. pc' = [pc EXCEPT ![t] = "lock"]
      BY <1>5, <2>1, Zenon DEF Submit, SpawnThread
    <3> HIDE DEF t
    <3>3. pc'[t] = "lock"
      BY <1>1, <3>1, <3>2, Zenon
    <3> QED
      BY <1>2, <3>1, <3>3, Zenon
  <2>2. CASE ~(idle_threads = {} /\ Spare # {})
    <3>1. pc' = pc
      BY <1>5, <2>2, Zenon DEF Submit, SpawnThread
    <3>2. CASE idle_threads # {}
      <4>2. PICK t \in Threads : pc[t] \in {"waiting", "woken", "timedout"}
        BY <3>2, Zenon DEF idle_threads
      <4>3. CASE pc[t] = "waiting"
        BY <1>5, <3>1, <4>3, Zenon DEF NoStrandedRequest
      <4>4. CASE pc[t] # "waiting"
        BY <1>2, <3>1, <4>2, <4>4, Zenon
      <4> QED
        BY <4>3, <4>4, Zenon
    <3>3. CASE idle_threads = {} /\ Spare = {}
      <4>3. PICK t \in Threads : TRUE
        BY ThreadsAssumption, Zenon
      <4>4. pc[t] \notin {"dead", "waiting"}
        BY <3>3, Zenon DEF Spare, idle_threads
      <4> QED
        BY <1>2, <3>1, <4>4, Zenon
    <3> QED
      BY <2>2, <3>2, <3>3, Zenon
  <2> QED
    BY <2>1, <2>2, Zenon
<1>a. ASSUME NEW f \in FrameType, Walked(f) PROVE NoStrandedRequest'
  <2>0. queue' = queue
    BY <1>a, Zenon DEF Walked
  <2>1. CASE pc' = pc /\ (Top.at = "signal" => \A t \in Threads : pc[t] # "waiting")
    BY <2>0, <2>1, Zenon DEF NoStrandedRequest
  <2>2. CASE \E t \in Threads : pc[t] = "waiting" /\ pc' = [pc EXCEPT ![t] = "woken"]
    BY <1>1, <1>2, <2>2, Zenon
  <2> QED
    BY <1>a, <2>1, <2>2, Zenon DEF Walked
<1>b. CASE Popped \/ Flushed
  BY <1>3, <1>b, Zenon DEF Popped, Flushed, pool
<1>c. ASSUME NEW f \in FrameType, NEW g \in FrameType, Called(f, g) PROVE NoStrandedRequest'
  BY <1>3, <1>c, Zenon DEF Called, pool
<1>d. ASSUME NEW s \in Slots, NEW f \in FrameType, NEW g \in FrameType, CalledBack(s, f, g)
      PROVE  NoStrandedRequest'
  BY <1>3, <1>d, Zenon DEF CalledBack, Callback, pool
<1>e. ASSUME NEW f \in FrameType, NEW g \in FrameType, SyncCalled(f, g) PROVE NoStrandedRequest'
  <2>1. Submit(Ctx + 1) /\ Top'.at = "signal"
    BY <1>e, TopAfter, Zenon DEF SyncCalled
  <2> QED
    BY <1>5, <2>1, Zenon
<1>f. ASSUME NEW w \in Slots \cup {None}, Returned(w) PROVE NoStrandedRequest'
  BY <1>3, <1>f, Zenon DEF Returned, pool
<1>g. ASSUME NEW f \in FrameType, NEW s \in Slots, Cancelled(f, s) PROVE NoStrandedRequest'
  <2>1. pc' = pc /\ Top.at # "signal" /\ s \in firstAio
    BY <1>g, Zenon DEF Cancelled
  <2>2. queue = <<>> => queue' = <<>>
    <3>1. CASE queue' = queue
      BY <3>1, Zenon
    <3>2. CASE ~acb[s].active
      BY <2>1, <3>2 DEF PoolInv, NoneLost
    <3> QED
      BY <1>g, <3>1, <3>2, Zenon DEF Cancelled
  <2> QED
    BY <1>3, <2>1, <2>2, Zenon
<1>h. ASSUME NEW f \in FrameType, NEW s \in Slots, Awaits(f, s) PROVE NoStrandedRequest'
  BY <1>3, <1>h, Zenon DEF Awaits
<1>i. CASE PaioSubmit
  <2>1. Len(stack') = Depth /\ stack'[Depth].at = "signal"
    BY <1>i, SubmitEffect, TopFacts
  <2>2. Top'.at = "signal"
    BY <2>1, Zenon DEF Top, Depth
  <2>3. Submit(Ctx)
    BY <1>i, Zenon DEF PaioSubmit
  <2> QED
    BY <1>5, <2>2, <2>3, Zenon
<1>j. CASE AioSignal
  BY <1>4, <1>j, Zenon DEF AioSignal, pool
<1>k. ASSUME NEW t \in Threads, Takes(t) \/ StoreResult(t) \/ Kill(t) PROVE NoStrandedRequest'
  <2>1. pc'[t] \in {"working", "kill", "lock"}
    BY <1>1, <1>k, Zenon DEF Takes, Take, StoreResult, Kill
  <2> QED
    BY <1>2, <2>1, Zenon
<1>l. ASSUME NEW t \in Threads, NEW p \in {"waiting", "woken", "timedout", "dead", "store"}, Roams(t, p)
      PROVE  NoStrandedRequest'
  <2>1. pc'[t] = p /\ queue' = queue
    BY <1>1, <1>l, Zenon DEF Roams
  <2>2. CASE p \in {"waiting", "dead"}
    BY <1>l, <2>1, <2>2, Zenon DEF Roams, NoStrandedRequest
  <2>3. CASE p \notin {"waiting", "dead"}
    BY <1>2, <2>1, <2>3, Zenon
  <2> QED
    BY <2>2, <2>3, Zenon
<1>m. CASE UNCHANGED vars
  BY <1>4, <1>m, Zenon DEF vars
<1> QED
  BY KindOfStep, <1>a, <1>b, <1>c, <1>d, <1>e, <1>f, <1>g, <1>h, <1>i, <1>j, <1>k, <1>l, <1>m, Zenon

-----------------------------------------------------------------------------
\* Every completion is announced

Announced(s) ==
  \/ \E t \in Threads : pc[t] = "kill"
  \/ signal
  \/ pipe > 0
  \/ <<"aio", acb[s].ctx>> \in bhs
  \/ acb[s].ctx < Ctx
  \/ \E i \in 1 .. Len(stack) : stack[i].scan /\ stack[i].ctx = acb[s].ctx

LEMMA AnnouncedBefore ==
  ASSUME TypeOK, StackInv, ContextInv, CompletionAnnounced, NEW s \in firstAio
  PROVE  /\ acb[s].ctx \in Nat /\ acb[s].ctx <= Ctx
         /\ Done(s) => Announced(s)
<1>1. DOMAIN stack = 1 .. Len(stack) /\ Depth = Len(stack)
  BY DEF TypeOK, Depth
<1>2. \A i \in 1 .. Len(stack) : stack[i].ctx <= Ctx
  BY <1>1, CtxFacts, Zenon
<1>3. acb[s].ctx \in Nat /\ Ctx \in Nat
  BY CtxFacts, BoundsAssumption DEF TypeOK
<1>4. acb[s].ctx <= Ctx
  <2>1. CASE acb[s].ctx = 0
    BY <1>3, <2>1
  <2>2. CASE acb[s].ctx # 0
    BY <1>2, <2>2 DEF ContextInv, NestedAwaited
  <2> QED
    BY <2>1, <2>2, Zenon
<1>5. Done(s) => Announced(s)
  BY <1>1, <1>2, Zenon DEF CompletionAnnounced, Announced
<1> QED
  BY <1>3, <1>4, <1>5, Zenon

LEMMA AnnouncedAfter ==
  ASSUME TypeOK, StackInv, TypeOK', \A s \in firstAio' : Done(s)' => Announced(s)'
  PROVE  CompletionAnnounced'
<1>1. DOMAIN stack' = 1 .. Len(stack')
  BY DEF TypeOK
<1> QED
  BY <1>1, Zenon DEF CompletionAnnounced, Announced

\* A step that keeps every announcement, and finishes no request
LEMMA AnnouncedKept ==
  ASSUME TypeOK, StackInv, ContextInv, CompletionAnnounced, TypeOK',
         \A s \in firstAio' : Done(s)' => s \in firstAio /\ acb'[s].ctx = acb[s].ctx /\ Done(s),
         \A t \in Threads : pc[t] = "kill" => pc'[t] = "kill",
         (signal \/ pipe > 0) => (signal' \/ pipe' > 0),
         \A c \in Nat : <<"aio", c>> \in bhs => <<"aio", c>> \in bhs',
         Ctx' \in Nat, Ctx <= Ctx',
         \A i \in 1 .. Depth : stack[i].scan =>
           /\ i \in 1 .. Len(stack') /\ stack'[i].scan
           /\ stack'[i].ctx = stack[i].ctx
  PROVE  CompletionAnnounced'
<1> SUFFICES ASSUME NEW s \in firstAio', Done(s)' PROVE Announced(s)'
  BY AnnouncedAfter, Zenon
<1>1. s \in firstAio /\ acb'[s].ctx = acb[s].ctx /\ Done(s)
  BY Zenon
<1>2. Announced(s) /\ acb[s].ctx \in Nat /\ acb[s].ctx <= Ctx /\ Ctx \in Nat
  BY <1>1, AnnouncedBefore, CtxFacts, Zenon
<1>3. Depth = Len(stack)
  BY Zenon DEF Depth
<1>a. CASE \E t \in Threads : pc[t] = "kill"
  BY <1>a, Zenon DEF Announced
<1>b. CASE signal \/ pipe > 0
  BY <1>b, Zenon DEF Announced
<1>c. CASE <<"aio", acb[s].ctx>> \in bhs
  BY <1>1, <1>2, <1>c, Zenon DEF Announced
<1>d. CASE acb[s].ctx < Ctx
  BY <1>1, <1>2, <1>d DEF Announced
<1>e. ASSUME NEW i \in 1 .. Len(stack), stack[i].scan, stack[i].ctx = acb[s].ctx
      PROVE  Announced(s)'
  BY <1>1, <1>3, <1>e, Zenon DEF Announced
<1> QED
  BY <1>2, <1>a, <1>b, <1>c, <1>d, <1>e, Zenon DEF Announced

\* A step of the main thread's own, with the scans that begin and end in it
LEMMA AnnouncedWalks ==
  ASSUME TypeOK, StackInv, ContextInv, CompletionAnnounced, TypeOK',
         NEW f \in FrameType, Walked(f)
  PROVE  CompletionAnnounced'
<1> SUFFICES ASSUME NEW s \in firstAio', Done(s)' PROVE Announced(s)'
  BY AnnouncedAfter, Zenon
<1>1. s \in firstAio /\ acb'[s].ctx = acb[s].ctx /\ Done(s)
  BY Zenon DEF Walked, Done
<1>2. Announced(s) /\ acb[s].ctx \in Nat /\ acb[s].ctx <= Ctx /\ Ctx \in Nat
  BY <1>1, AnnouncedBefore, CtxFacts, Zenon
<1>3. Depth = Len(stack) /\ Depth \in Nat /\ Depth > 0 /\ stack \in Seq(FrameType)
  BY TopFacts, Zenon DEF TypeOK
<1>4. Moves(f)
  BY Zenon DEF Walked
<1>5. Ctx' = Ctx
  BY <1>4, CtxAfter, Zenon
<1>6. /\ Len(stack') = Depth /\ stack'[Depth] = f
      /\ \A i \in 1 .. Depth - 1 : stack'[i] = stack[i]
      /\ \A i \in 1 .. Depth : stack'[i].ctx = stack[i].ctx
  BY <1>3, <1>4, MovesEffect, Zenon
<1>7. Depth \in 1 .. Depth /\ stack'[Depth].ctx = Ctx
  BY <1>3, <1>6, CtxFacts
<1>8. CASE f.scan
  <2>1. CASE acb[s].ctx < Ctx
    BY <1>1, <1>5, <2>1, Zenon DEF Announced
  <2>2. CASE acb[s].ctx = Ctx
    BY <1>1, <1>6, <1>7, <1>8, <2>2, Zenon DEF Announced
  <2> QED
    BY <1>2, <2>1, <2>2
<1>9. CASE ~f.scan
  <2>a. ASSUME NEW t \in Threads, pc[t] = "kill" PROVE Announced(s)'
    <3>1. pc'[t] = "kill"
      BY <2>a, Zenon DEF Walked, TypeOK
    <3> QED
      BY <3>1, Zenon DEF Announced
  <2>b. CASE signal \/ pipe > 0
    BY <1>9, <2>b, Zenon DEF Announced, Walked
  <2>c. CASE <<"aio", acb[s].ctx>> \in bhs
    BY <1>1, <1>2, <1>9, <2>c, Zenon DEF Announced, Walked
  <2>d. CASE acb[s].ctx < Ctx
    BY <1>1, <1>5, <2>d, Zenon DEF Announced
  <2>e. ASSUME NEW i \in 1 .. Len(stack), stack[i].scan, stack[i].ctx = acb[s].ctx
        PROVE  Announced(s)'
    <3>1. CASE i = Depth
      <4>1. Top.scan /\ acb[s].ctx = Ctx
        BY <2>e, <3>1, CtxFacts, Zenon DEF Top
      <4>2. DoneHere = {}
        BY <1>9, <4>1, Zenon DEF Walked
      <4> QED
        BY <1>1, <4>1, <4>2, Zenon DEF DoneHere
    <3>2. CASE i # Depth
      <4>1. i \in 1 .. Depth - 1 /\ i \in 1 .. Depth
        BY <1>3, <3>2
      <4> QED
        BY <1>1, <1>6, <2>e, <4>1, Zenon DEF Announced
    <3> QED
      BY <3>1, <3>2, Zenon
  <2> QED
    BY <1>2, <2>a, <2>b, <2>c, <2>d, <2>e, Zenon DEF Announced
<1> QED
  BY <1>8, <1>9, Zenon

\* async_context_pop leaves no request behind, and tells its parent
LEMMA AnnouncedPops ==
  ASSUME TypeOK, StackInv, ContextInv, CompletionAnnounced, TypeOK', Popped
  PROVE  CompletionAnnounced'
<1> SUFFICES ASSUME NEW s \in firstAio', Done(s)' PROVE Announced(s)'
  BY AnnouncedAfter, Zenon
<1>1. s \in firstAio /\ acb'[s].ctx = acb[s].ctx /\ Top.fn = "sync" /\ Top.w = None
  BY Zenon DEF Popped
<1>2. acb[s].ctx \in Nat /\ acb[s].ctx <= Ctx /\ Ctx \in Nat
  BY <1>1, AnnouncedBefore, CtxFacts, Zenon
<1>3. Ctx' = Ctx - 1
  BY <1>1, CtxAfter, Zenon DEF Popped
<1>4. acb[s].ctx # Ctx
  <2> SUFFICES ASSUME acb[s].ctx = Ctx PROVE FALSE
    BY Zenon
  <2>1. Depth = Len(stack) /\ Depth \in Nat /\ Depth > 0
    BY TopFacts, Zenon
  <2>2. \A i \in 1 .. Depth - 1 : stack[i].ctx <= Ctx - 1 /\ stack[i].ctx \in Nat
    <3>1. \A i \in 1 .. Depth - 1 : stack[i].ctx <= Ctx - 1
      BY <1>1, CtxFacts, Zenon
    <3>2. \A i \in 1 .. Depth - 1 : i \in 1 .. Depth
      BY <2>1
    <3> QED
      BY <3>1, <3>2, CtxFacts, Zenon
  <2>3. Ctx # 0
    <3>1. Depth - 1 \in 1 .. Depth /\ Ctx = stack[Depth - 1].ctx + 1
      BY <1>1, <2>1, CtxFacts
    <3>2. stack[Depth - 1].ctx \in Nat
      BY <3>1, CtxFacts, Zenon
    <3> QED
      BY <3>1, <3>2
  <2>4. PICK i \in 1 .. Len(stack) :
          stack[i].fn = "sync" /\ stack[i].w = s /\ stack[i].ctx = acb[s].ctx
    BY <1>1, <2>3, Zenon DEF ContextInv, NestedAwaited
  <2>5. i # Depth
    BY <1>1, <2>4, NoneAssumption, Zenon DEF Top, TypeOK
  <2>6. i \in 1 .. Depth - 1 /\ i \in 1 .. Depth
    BY <2>1, <2>5
  <2> QED
    BY <1>2, <2>2, <2>4, <2>6
<1>5. CASE acb[s].ctx = Ctx - 1
  BY <1>1, <1>5, Zenon DEF Announced, Popped
<1>6. CASE acb[s].ctx < Ctx - 1
  BY <1>1, <1>3, <1>6, Zenon DEF Announced
<1> QED
  BY <1>2, <1>4, <1>5, <1>6

LEMMA AnnouncedStep ==
  ASSUME TypeOK, StackInv, PoolInv, ContextInv, CompletionAnnounced, [Next]_vars
  PROVE  CompletionAnnounced'
<1>1. /\ stack \in Seq(FrameType) /\ Len(stack) > 0
      /\ Depth \in Nat /\ Depth > 0 /\ Depth = Len(stack) /\ Top = stack[Depth]
      /\ firstAio \subseteq Slots /\ acb \in [Slots -> AcbType]
      /\ pc \in [Threads -> PcType] /\ Ctx \in Nat
  BY TopFacts, CtxFacts, Zenon DEF TypeOK, AcbType, PcType, Top
<1>2. TypeOK'
  BY TypeStep, Zenon
<1>3. ASSUME NEW f, Moves(f), f.scan = Top.scan, NEW i \in 1 .. Depth, stack[i].scan
      PROVE  i \in 1 .. Len(stack') /\ stack'[i].scan /\ stack'[i].ctx = stack[i].ctx
  <2>1. /\ Len(stack') = Depth /\ stack'[Depth] = f
        /\ \A j \in 1 .. Depth - 1 : stack'[j] = stack[j]
        /\ \A j \in 1 .. Depth : stack'[j].ctx = stack[j].ctx
    BY <1>1, <1>3, MovesEffect, Zenon
  <2>2. CASE i = Depth
    BY <1>1, <1>3, <2>1, <2>2, Zenon
  <2>3. CASE i # Depth
    BY <1>1, <1>3, <2>1, <2>3
  <2> QED
    BY <2>2, <2>3, Zenon
<1>4. ASSUME NEW f, NEW g, Enters(f, g), f.scan = Top.scan, NEW i \in 1 .. Depth, stack[i].scan
      PROVE  i \in 1 .. Len(stack') /\ stack'[i].scan /\ stack'[i].ctx = stack[i].ctx
  <2>1. /\ Len(stack') = Depth + 1 /\ stack'[Depth] = f
        /\ \A j \in 1 .. Depth - 1 : stack'[j] = stack[j]
        /\ \A j \in 1 .. Depth : stack'[j].ctx = stack[j].ctx
    BY <1>1, <1>4, EntersEffect, Zenon
  <2>0. i \in 1 .. Len(stack')
    BY <1>1, <2>1
  <2>2. CASE i = Depth
    BY <1>1, <1>4, <2>0, <2>1, <2>2, Zenon
  <2>3. CASE i # Depth
    BY <1>1, <1>4, <2>0, <2>1, <2>3
  <2> QED
    BY <2>2, <2>3, Zenon
<1>5. ASSUME NEW w, Leaves(w), ~Top.scan, NEW i \in 1 .. Depth, stack[i].scan
      PROVE  i \in 1 .. Len(stack') /\ stack'[i].scan /\ stack'[i].ctx = stack[i].ctx
  <2>1. /\ Len(stack') = Depth - 1
        /\ \A j \in 1 .. Depth - 1 : stack'[j].scan = stack[j].scan
        /\ \A j \in 1 .. Depth - 1 : stack'[j].ctx = stack[j].ctx
    BY <1>1, <1>5, LeavesEffect, Zenon
  <2>2. i # Depth
    BY <1>1, <1>5, Zenon
  <2>3. i \in 1 .. Depth - 1
    BY <1>1, <2>2
  <2> QED
    BY <1>5, <2>1, <2>3, Zenon
<1>6. CASE \E t \in Threads : pc'[t] = "kill"
  BY <1>2, <1>6, AnnouncedAfter, Zenon DEF Announced
<1>b. CASE Flushed
  <2>1. Leaves(stack[Depth - 1].w) /\ ~Top.scan /\ Top.fn # "sync"
    BY <1>b, Zenon DEF Flushed
  <2>2. acb' = acb /\ firstAio' = firstAio /\ pc' = pc /\ signal' = signal /\ pipe' = pipe /\ bhs' = bhs
    BY <1>b, Zenon DEF Flushed, pool, wake
  <2>3. Ctx' = Ctx
    BY <2>1, CtxAfter, Zenon
  <2> QED
    BY <1>1, <1>2, <1>5, <2>1, <2>2, <2>3, AnnouncedKept DEF Done
<1>c. ASSUME NEW f \in FrameType, NEW g \in FrameType, Called(f, g) PROVE CompletionAnnounced'
  <2>1. Enters(f, g) /\ f.scan = Top.scan
    BY <1>c, Zenon DEF Called
  <2>2. /\ acb' = acb /\ firstAio' = firstAio /\ pc' = pc /\ signal' = signal /\ pipe' = pipe
        /\ \A c \in Nat : <<"aio", c>> \in bhs => <<"aio", c>> \in bhs'
    BY <1>c, Zenon DEF Called, pool, wake
  <2>4. Ctx' = Ctx \/ Ctx' = Ctx + 1
    BY <2>1, CtxAfter, Zenon
  <2>3. Ctx' \in Nat /\ Ctx <= Ctx'
    BY <1>1, <2>4
  <2> QED
    BY <1>1, <1>2, <1>4, <2>1, <2>2, <2>3, AnnouncedKept DEF Done
<1>d. ASSUME NEW s \in Slots, NEW f \in FrameType, NEW g \in FrameType, CalledBack(s, f, g)
      PROVE  CompletionAnnounced'
  <2>1. Enters(f, g) /\ f.scan = Top.scan /\ g.fn # "sync"
    BY <1>d, Zenon DEF CalledBack
  <2>2. /\ acb' = acb /\ firstAio' \subseteq firstAio /\ pc' = pc
        /\ signal' = signal /\ pipe' = pipe /\ bhs' = bhs
    BY <1>d, Zenon DEF CalledBack, Callback, pool, wake
  <2>3. Ctx' = Ctx
    BY <2>1, CtxAfter, Zenon
  <2> QED
    BY <1>1, <1>2, <1>4, <2>1, <2>2, <2>3, AnnouncedKept DEF Done
<1>7. ASSUME NEW c, Submit(c)
      PROVE  /\ \A s \in firstAio' :
                  Done(s)' => s \in firstAio /\ acb'[s].ctx = acb[s].ctx /\ Done(s)
             /\ \A t \in Threads : pc[t] = "kill" => pc'[t] = "kill"
             /\ signal' = signal /\ pipe' = pipe /\ bhs' = bhs
  <2>1. /\ Free # {} /\ firstAio' = firstAio \cup {Slot}
        /\ acb' = [acb EXCEPT ![Slot] = [ret |-> "inprogress", active |-> FALSE, ctx |-> c]]
        /\ SpawnThread /\ signal' = signal /\ pipe' = pipe /\ bhs' = bhs
    BY <1>7, Zenon DEF Submit, wake
  <2>2. Slot \in Slots /\ Slot \notin firstAio
    BY <2>1, SlotFacts, Zenon
  <2>3. acb'[Slot].ret = "inprogress" /\ \A s \in firstAio : acb'[s] = acb[s]
    BY <1>1, <2>1, <2>2, Zenon
  <2>4. \A t \in Threads : pc[t] = "kill" => pc'[t] = "kill"
    <3>1. CASE pc' = pc
      BY <3>1, Zenon
    <3>2. CASE Spare # {} /\ pc' = [pc EXCEPT ![CHOOSE t \in Spare : TRUE] = "lock"]
      <4> DEFINE u == CHOOSE t \in Spare : TRUE
      <4>1. u \in Threads /\ pc[u] = "dead"
        BY <3>2, Zenon DEF Spare
      <4>2. pc' = [pc EXCEPT ![u] = "lock"]
        BY <3>2, Zenon
      <4> HIDE DEF u
      <4> QED
        BY <1>1, <4>1, <4>2, Zenon
    <3> QED
      BY <2>1, <3>1, <3>2, Zenon DEF SpawnThread
  <2> QED
    BY <2>1, <2>3, <2>4, Zenon DEF Done
<1>e. ASSUME NEW f \in FrameType, NEW g \in FrameType, SyncCalled(f, g) PROVE CompletionAnnounced'
  <2>1. Enters(f, g) /\ f.scan = Top.scan /\ g.fn = "sync" /\ Submit(Ctx + 1)
    BY <1>e, Zenon DEF SyncCalled
  <2>2. Ctx' = Ctx + 1
    BY <2>1, CtxAfter, Zenon
  <2>3. Ctx' \in Nat /\ Ctx <= Ctx'
    BY <1>1, <2>2
  <2> QED
    BY <1>2, <1>4, <1>7, <2>1, <2>3, AnnouncedKept, Zenon
<1>f. ASSUME NEW w \in Slots \cup {None}, Returned(w) PROVE CompletionAnnounced'
  <2>1. /\ Leaves(w) /\ ~Top.scan /\ Top.fn # "sync"
        /\ acb' = [s \in Slots |-> IF s = Top.s THEN Blank ELSE acb[s]]
    BY <1>f, Zenon DEF Returned
  <2>2. firstAio' = firstAio /\ pc' = pc /\ signal' = signal /\ pipe' = pipe /\ bhs' = bhs
    BY <1>f, Zenon DEF Returned, pool, wake
  <2>3. Ctx' = Ctx
    BY <2>1, CtxAfter, Zenon
  <2>4. Top.s \notin firstAio
    BY TopFacts, Zenon
  <2>5. \A s \in firstAio : acb'[s] = acb[s]
    BY <1>1, <2>1, <2>4, Zenon
  <2>6. \A s \in firstAio' : Done(s)' => s \in firstAio /\ acb'[s].ctx = acb[s].ctx /\ Done(s)
    BY <2>2, <2>5, Zenon DEF Done
  <2>7. \A i \in 1 .. Depth : stack[i].scan =>
          i \in 1 .. Len(stack') /\ stack'[i].scan /\ stack'[i].ctx = stack[i].ctx
    BY <1>5, <2>1, Zenon
  <2> QED
    BY <1>1, <1>2, <2>2, <2>3, <2>6, <2>7, AnnouncedKept
<1>g. ASSUME NEW f \in FrameType, NEW s \in Slots, Cancelled(f, s) PROVE CompletionAnnounced'
  <2>1. /\ Moves(f) /\ f.scan = Top.scan /\ firstAio' = firstAio \ {s}
        /\ acb' = [acb EXCEPT ![s] = Blank]
    BY <1>g, Zenon DEF Cancelled, Release
  <2>2. pc' = pc /\ signal' = signal /\ pipe' = pipe /\ bhs' = bhs
    BY <1>g, Zenon DEF Cancelled, wake
  <2>3. Ctx' = Ctx
    BY <2>1, CtxAfter, Zenon
  <2>4. \A x \in firstAio' : x \in firstAio /\ acb'[x] = acb[x]
    BY <1>1, <2>1, Zenon
  <2> QED
    BY <1>1, <1>2, <1>3, <2>1, <2>2, <2>3, <2>4, AnnouncedKept DEF Done
<1>h. ASSUME NEW f \in FrameType, NEW s \in Slots, Awaits(f, s) PROVE CompletionAnnounced'
  <2>1. Moves(f) /\ f.scan = Top.scan
    BY <1>h, Zenon DEF Awaits
  <2>2. acb' = acb /\ firstAio' = firstAio /\ pc' = pc /\ signal' = signal /\ pipe' = pipe /\ bhs' = bhs
    BY <1>h, Zenon DEF Awaits, wake
  <2>3. Ctx' = Ctx
    BY <2>1, CtxAfter, Zenon
  <2> QED
    BY <1>1, <1>2, <1>3, <2>1, <2>2, <2>3, AnnouncedKept DEF Done
<1>i. CASE PaioSubmit
  <2>1. Submit(Ctx)
    BY <1>i, Zenon DEF PaioSubmit
  <2>2. /\ Len(stack') = Depth
        /\ \A i \in 1 .. Depth : stack'[i].scan = stack[i].scan /\ stack'[i].ctx = stack[i].ctx
    BY <1>i, SubmitEffect, Zenon
  <2>3. Ctx' = Ctx
    BY <1>1, <2>2, CtxAfter, CtxFacts
  <2> QED
    BY <1>1, <1>2, <1>7, <2>1, <2>2, <2>3, AnnouncedKept
<1>8. ASSUME stack' = stack, firstAio' = firstAio, bhs' = bhs, signal' = signal, pipe' = pipe,
             \A s \in firstAio : acb'[s].ctx = acb[s].ctx /\ acb'[s].ret = acb[s].ret,
             \A t \in Threads : pc[t] = "kill" => pc'[t] = "kill"
      PROVE  CompletionAnnounced'
  <2>1. Ctx' = Ctx
    BY <1>8, Zenon DEF Ctx, Top, Depth
  <2> QED
    BY <1>1, <1>2, <1>8, <2>1, AnnouncedKept DEF Done
<1>j. CASE AioSignal
  <2>1. pipe' > 0
    BY <1>j, PipeAssumption DEF AioSignal, SignalHandler, TypeOK
  <2> QED
    BY <1>2, <2>1, AnnouncedAfter, Zenon DEF Announced
<1>k. ASSUME NEW t \in Threads, Takes(t) PROVE CompletionAnnounced'
  <2>1. /\ stack' = stack /\ firstAio' = firstAio /\ bhs' = bhs /\ signal' = signal /\ pipe' = pipe
        /\ acb' = [acb EXCEPT ![Head(queue)].active = TRUE]
        /\ pc' = [pc EXCEPT ![t] = "working"] /\ pc[t] # "kill"
    BY <1>k, Zenon DEF Takes, Take, wake
  <2>2. \A x \in firstAio : acb'[x].ctx = acb[x].ctx /\ acb'[x].ret = acb[x].ret
    BY <1>1, <2>1, Zenon DEF AcbType
  <2>3. \A u \in Threads : pc[u] = "kill" => pc'[u] = "kill"
    BY <1>1, <2>1, Zenon
  <2> QED
    BY <1>8, <2>1, <2>2, <2>3, Zenon
<1>l. ASSUME NEW t \in Threads, StoreResult(t) PROVE CompletionAnnounced'
  BY <1>1, <1>6, <1>l, Zenon DEF StoreResult
<1>m. ASSUME NEW t \in Threads, Kill(t) PROVE CompletionAnnounced'
  <2>1. signal'
    BY <1>m, Zenon DEF Kill
  <2> QED
    BY <1>2, <2>1, AnnouncedAfter, Zenon DEF Announced
<1>n. ASSUME NEW t \in Threads, NEW p, Roams(t, p) PROVE CompletionAnnounced'
  <2>1. /\ stack' = stack /\ firstAio' = firstAio /\ bhs' = bhs /\ signal' = signal /\ pipe' = pipe
        /\ acb' = acb /\ pc' = [pc EXCEPT ![t] = p] /\ pc[t] # "kill"
    BY <1>n, Zenon DEF Roams, wake
  <2>2. \A u \in Threads : pc[u] = "kill" => pc'[u] = "kill"
    BY <1>1, <2>1, Zenon
  <2> QED
    BY <1>8, <2>1, <2>2, Zenon
<1>o. CASE UNCHANGED vars
  BY <1>8, <1>o, Zenon DEF vars
<1> QED
  BY KindOfStep, AnnouncedWalks, AnnouncedPops, <1>2, <1>b, <1>c, <1>d, <1>e, <1>f, <1>g, <1>h,
     <1>i, <1>j, <1>k, <1>l, <1>m, <1>n, <1>o, Zenon

-----------------------------------------------------------------------------
\* Callbacks run in the context of their requests

\* The callbacks under way go on, in their contexts
LEMMA CallbackKept ==
  ASSUME TypeOK, StackInv, CallbackInContext, TypeOK',
         \A i \in 1 .. Len(stack') :
           (stack'[i].fn = "cb" /\ stack'[i].s # None) =>
             \/ /\ i \in 1 .. Depth
                /\ stack'[i].fn = stack[i].fn /\ stack'[i].s = stack[i].s
                /\ stack'[i].ctx = stack[i].ctx
                /\ acb'[stack[i].s].ctx = acb[stack[i].s].ctx
             \/ acb'[stack'[i].s].ctx = stack'[i].ctx
  PROVE  CallbackInContext'
<1>1. DOMAIN stack' = 1 .. Len(stack') /\ DOMAIN stack = 1 .. Depth
  BY DEF TypeOK, Depth
<1> SUFFICES ASSUME NEW i \in 1 .. Len(stack'), stack'[i].fn = "cb", stack'[i].s # None
             PROVE  acb'[stack'[i].s].ctx = stack'[i].ctx
  BY <1>1, Zenon DEF CallbackInContext
<1> QED
  BY <1>1, Zenon DEF CallbackInContext

LEMMA CallbackStep ==
  ASSUME TypeOK, StackInv, PoolInv, ContextInv, CallbackInContext, [Next]_vars
  PROVE  CallbackInContext'
<1>1. /\ stack \in Seq(FrameType) /\ Len(stack) > 0
      /\ Depth \in Nat /\ Depth > 0 /\ Depth = Len(stack) /\ Top = stack[Depth]
      /\ firstAio \subseteq Slots /\ acb \in [Slots -> AcbType]
      /\ \A i \in 1 .. Depth : stack[i] \in FrameType
  BY TopFacts DEF TypeOK, AcbType, Top
<1>2. TypeOK'
  BY TypeStep, Zenon
<1>3. \A i \in 1 .. Depth : stack[i].s \in Slots \cup {None} /\ stack[i].s \notin firstAio
  BY <1>1, Zenon DEF FrameType, StackInv
<1>4. ASSUME NEW f, Moves(f),
             \A x \in Slots \ firstAio : acb'[x].ctx = acb[x].ctx
      PROVE  CallbackInContext'
  <2>1. /\ Len(stack') = Depth
        /\ \A j \in 1 .. Depth : stack'[j].fn = stack[j].fn /\ stack'[j].s = stack[j].s
        /\ \A j \in 1 .. Depth : stack'[j].ctx = stack[j].ctx
    BY <1>1, <1>4, MovesEffect, Zenon
  <2> QED
    BY <1>2, <1>3, <1>4, <2>1, CallbackKept, Zenon
<1>5. ASSUME NEW f, NEW g, Enters(f, g),
             \A i \in 1 .. Depth : stack[i].s # None =>
               acb'[stack[i].s].ctx = acb[stack[i].s].ctx,
             (g.fn = "cb" /\ g.s # None) => acb'[g.s].ctx = Ctx
      PROVE  CallbackInContext'
  <2>1. /\ Len(stack') = Depth + 1 /\ stack'[Depth + 1] = g
        /\ \A j \in 1 .. Depth : stack'[j].fn = stack[j].fn /\ stack'[j].s = stack[j].s
        /\ \A j \in 1 .. Depth : stack'[j].ctx = stack[j].ctx
        /\ stack'[Depth + 1].ctx = IF g.fn = "sync" THEN stack[Depth].ctx + 1 ELSE stack[Depth].ctx
    BY <1>1, <1>5, EntersEffect, ZenonT(60)
  <2>2. (g.fn = "cb" /\ g.s # None) => acb'[g.s].ctx = stack'[Depth + 1].ctx
    BY <1>5, <2>1, CtxFacts, Zenon
  <2>3. \A i \in 1 .. Depth + 1 : i \in 1 .. Depth \/ i = Depth + 1
    BY <1>1
  <2>4. ASSUME NEW i \in 1 .. Depth + 1, stack'[i].fn = "cb", stack'[i].s # None
        PROVE \/ /\ i \in 1 .. Depth
                 /\ stack'[i].fn = stack[i].fn /\ stack'[i].s = stack[i].s
                 /\ stack'[i].ctx = stack[i].ctx
                 /\ acb'[stack[i].s].ctx = acb[stack[i].s].ctx
              \/ acb'[stack'[i].s].ctx = stack'[i].ctx
    <3>1. CASE i \in 1 .. Depth
      BY <1>5, <2>1, <2>4, <3>1, Zenon
    <3>2. CASE i = Depth + 1
      BY <2>1, <2>2, <2>4, <3>2, Zenon
    <3> QED
      BY <2>3, <3>1, <3>2, Zenon
  <2> QED
    BY <1>2, <2>1, <2>4, CallbackKept, Zenon
<1>6. ASSUME NEW w, Leaves(w),
             \A i \in 1 .. Depth - 1 : stack[i].s # None =>
               acb'[stack[i].s].ctx = acb[stack[i].s].ctx
      PROVE  CallbackInContext'
  <2>1. /\ Len(stack') = Depth - 1
        /\ \A j \in 1 .. Depth - 1 : stack'[j].fn = stack[j].fn /\ stack'[j].s = stack[j].s
        /\ \A j \in 1 .. Depth - 1 : stack'[j].ctx = stack[j].ctx
    BY <1>1, <1>6, LeavesEffect, Zenon
  <2>2. \A i \in 1 .. Depth - 1 : i \in 1 .. Depth
    BY <1>1
  <2> QED
    BY <1>2, <1>6, <2>1, <2>2, CallbackKept, Zenon
<1>7. ASSUME stack' = stack, \A x \in Slots : acb'[x].ctx = acb[x].ctx
      PROVE  CallbackInContext'
  BY <1>1, <1>2, <1>3, <1>7, CallbackKept, Zenon
<1>8. ASSUME NEW c, Submit(c)
      PROVE  \A i \in 1 .. Depth : stack[i].s # None =>
               acb'[stack[i].s].ctx = acb[stack[i].s].ctx
  <2>1. /\ Free # {}
        /\ acb' = [acb EXCEPT ![Slot] = [ret |-> "inprogress", active |-> FALSE, ctx |-> c]]
    BY <1>8, Zenon DEF Submit
  <2>2. \A i \in 1 .. Depth : stack[i].s # Slot
    BY <2>1, SlotFacts, Zenon
  <2> QED
    BY <1>1, <1>3, <2>1, <2>2, Zenon
<1>a. ASSUME NEW f \in FrameType, Walked(f) PROVE CallbackInContext'
  BY <1>4, <1>a, Zenon DEF Walked
<1>b. CASE Popped
  BY <1>6, <1>b, Zenon DEF Popped
<1>c. CASE Flushed
  BY <1>6, <1>c, Zenon DEF Flushed
<1>d. ASSUME NEW f \in FrameType, NEW g \in FrameType, Called(f, g) PROVE CallbackInContext'
  <2>1. Enters(f, g) /\ acb' = acb /\ g.s = None
    BY <1>d, Zenon DEF Called
  <2> QED
    BY <1>5, <2>1, Zenon
<1>e. ASSUME NEW s \in Slots, NEW f \in FrameType, NEW g \in FrameType, CalledBack(s, f, g)
      PROVE  CallbackInContext'
  <2>1. Enters(f, g) /\ acb' = acb /\ g.s = s /\ acb[s].ctx = Ctx
    BY <1>e, Zenon DEF CalledBack, Callback, DoneHere
  <2> QED
    BY <1>5, <2>1, Zenon
<1>f. ASSUME NEW f \in FrameType, NEW g \in FrameType, SyncCalled(f, g) PROVE CallbackInContext'
  <2>1. Enters(f, g) /\ g.s = None /\ Submit(Ctx + 1)
    BY <1>f, Zenon DEF SyncCalled
  <2> QED
    BY <1>5, <1>8, <2>1, Zenon
<1>g. ASSUME NEW w \in Slots \cup {None}, Returned(w) PROVE CallbackInContext'
  <2>1. Leaves(w) /\ acb' = [s \in Slots |-> IF s = Top.s THEN Blank ELSE acb[s]]
    BY <1>g, Zenon DEF Returned
  <2>2. \A i \in 1 .. Depth - 1 : i \in 1 .. Depth /\ i # Depth /\ Depth \in 1 .. Depth
    BY <1>1
  <2>3. \A i, j \in 1 .. Depth : (i # j /\ stack[i].s # None) => stack[i].s # stack[j].s
    BY <1>1, Zenon DEF StackInv
  <2>4. \A i \in 1 .. Depth - 1 : stack[i].s # None => stack[i].s # Top.s
    BY <1>1, <2>2, <2>3, Zenon
  <2>5. \A i \in 1 .. Depth - 1 : stack[i].s \in Slots \cup {None}
    BY <1>3, <2>2, Zenon
  <2>6. \A i \in 1 .. Depth - 1 : stack[i].s # None => acb'[stack[i].s].ctx = acb[stack[i].s].ctx
    BY <2>1, <2>4, <2>5, Zenon
  <2> QED
    BY <1>6, <2>1, <2>6, Zenon
<1>h. ASSUME NEW f \in FrameType, NEW s \in Slots, Cancelled(f, s) PROVE CallbackInContext'
  <2>1. Moves(f) /\ s \in firstAio /\ acb' = [acb EXCEPT ![s] = Blank]
    BY <1>h, Zenon DEF Cancelled, Release
  <2>2. \A x \in Slots \ firstAio : acb'[x].ctx = acb[x].ctx
    BY <1>1, <2>1, Zenon
  <2> QED
    BY <1>4, <2>1, <2>2, Zenon
<1>i. ASSUME NEW f \in FrameType, NEW s \in Slots, Awaits(f, s) PROVE CallbackInContext'
  BY <1>4, <1>i, Zenon DEF Awaits
<1>j. CASE PaioSubmit
  <2>1. Submit(Ctx)
    BY <1>j, Zenon DEF PaioSubmit
  <2>2. /\ Len(stack') = Depth
        /\ \A i \in 1 .. Depth : stack'[i].fn = stack[i].fn /\ stack'[i].s = stack[i].s
        /\ \A i \in 1 .. Depth : stack'[i].ctx = stack[i].ctx
    BY <1>j, SubmitEffect, Zenon
  <2> QED
    BY <1>2, <1>8, <2>1, <2>2, CallbackKept, Zenon
<1>k. CASE AioSignal
  BY <1>7, <1>k, Zenon DEF AioSignal
<1>l. ASSUME NEW t \in Threads, Takes(t) PROVE CallbackInContext'
  <2>1. stack' = stack /\ acb' = [acb EXCEPT ![Head(queue)].active = TRUE]
    BY <1>l, Zenon DEF Takes, Take
  <2>2. \A x \in Slots : acb'[x].ctx = acb[x].ctx
    BY <1>1, <2>1, Zenon DEF AcbType
  <2> QED
    BY <1>7, <2>1, <2>2, Zenon
<1>m. ASSUME NEW t \in Threads, StoreResult(t) PROVE CallbackInContext'
  <2>1. stack' = stack /\ acb' = [acb EXCEPT ![job[t]].ret = "done"]
    BY <1>m, Zenon DEF StoreResult
  <2>2. \A x \in Slots : acb'[x].ctx = acb[x].ctx
    BY <1>1, <2>1, Zenon DEF AcbType
  <2> QED
    BY <1>7, <2>1, <2>2, Zenon
<1>n. ASSUME NEW t \in Threads, Kill(t) PROVE CallbackInContext'
  BY <1>7, <1>n, Zenon DEF Kill
<1>o. ASSUME NEW t \in Threads, NEW p, Roams(t, p) PROVE CallbackInContext'
  BY <1>7, <1>o, Zenon DEF Roams
<1>p. CASE UNCHANGED vars
  BY <1>7, <1>p, Zenon DEF vars
<1> QED
  BY KindOfStep, <1>a, <1>b, <1>c, <1>d, <1>e, <1>f, <1>g, <1>h, <1>i, <1>j, <1>k, <1>l, <1>m,
     <1>n, <1>o, <1>p, Zenon

-----------------------------------------------------------------------------
\* The invariant holds from the start

LEMMA InitIsSafe ==
  ASSUME Init
  PROVE  AioInv
<1> DEFINE f == Frame("main", "code", None, None, 0)
<1>0. 0 \in 0 .. MaxDepth
  BY BoundsAssumption
<1>1. /\ f \in FrameType /\ FrameOK(f) /\ f.fn = "main" /\ f.at = "code"
      /\ f.s = None /\ f.w = None /\ f.scan = FALSE /\ f.ctx = 0
  BY <1>0, Zenon DEF Frame, FrameType, FrameOK, Places
<1>2. stack = <<f>>
  BY Zenon DEF Init
<1> HIDE DEF f
<1>3. /\ stack \in Seq(FrameType) /\ Len(stack) = 1 /\ stack[1] = f
      /\ Depth = 1 /\ Top = f
  BY <1>1, <1>2 DEF Depth, Top
<1>4. TypeOK
  <2>1. acb \in [Slots -> [ret : {"none", "inprogress", "done"}, active : BOOLEAN,
                           ctx : 0 .. MaxDepth]]
    BY BoundsAssumption DEF Init, Blank
  <2>2. /\ firstAio \subseteq Slots /\ queue \in Seq(Slots)
        /\ pc \in [Threads -> {"dead", "lock", "waiting", "woken", "timedout",
                               "working", "store", "kill"}]
        /\ job \in [Threads -> Slots \cup {None}]
        /\ bhs \subseteq {"aio", "dev"} \X (0 .. MaxDepth)
    BY DEF Init
  <2>4. signal \in BOOLEAN
    BY Zenon DEF Init
  <2>3. pipe \in 0 .. PipeSize /\ budget \in 0 .. MaxRequests
    BY PipeAssumption, BoundsAssumption DEF Init
  <2> QED
    BY <1>3, <2>1, <2>2, <2>3, <2>4, Zenon DEF TypeOK
<1>5. firstAio = {} /\ queue = <<>> /\ bhs = {}
  BY Zenon DEF Init
<1>6. StackInv
  BY <1>1, <1>3, <1>5 DEF StackInv
<1>7. PoolInv
  <2>1. JobsOK
    BY Zenon DEF Init, JobsOK
  <2>2. QueueOK /\ NoneLost
    BY <1>5 DEF QueueOK, NoneLost
  <2>3. SpinOK
    BY <1>1, <1>3, Zenon DEF SpinOK
  <2> QED
    BY <2>1, <2>2, <2>3, Zenon DEF PoolInv
<1>8. ContextInv
  <2>1. CtxBounded
    <3>1. Ctx = 0
      BY <1>1, <1>3, <1>4, <1>6, CtxFacts, Zenon
    <3> QED
      BY <3>1, BoundsAssumption DEF CtxBounded
  <2>2. DevOutermost /\ NestedAwaited /\ CheckedEmpty
    BY <1>5, Zenon DEF DevOutermost, NestedAwaited, CheckedEmpty
  <2> QED
    BY <2>1, <2>2, Zenon DEF ContextInv
<1>9. NoStrandedRequest /\ CompletionAnnounced
  BY <1>5, Zenon DEF NoStrandedRequest, CompletionAnnounced
<1>10. CallbackInContext
  <2>1. DOMAIN stack = {1}
    BY <1>2
  <2> QED
    BY <1>1, <1>3, <2>1, Zenon DEF CallbackInContext
<1> QED
  BY <1>4, <1>6, <1>7, <1>8, <1>9, <1>10, Zenon DEF AioInv

-----------------------------------------------------------------------------
\* The theorems

\* The inductive invariant of the worker pool, its wake-ups and the nested
\* contexts of posix-aio-compat.c, aio.c and async.c
THEOREM AioInvariant == Spec => []AioInv
<1>1. Init => AioInv
  BY InitIsSafe, Zenon
<1>2. AioInv /\ [Next]_vars => AioInv'
  <2> SUFFICES ASSUME AioInv, [Next]_vars PROVE AioInv'
    BY Zenon
  <2>1. /\ TypeOK /\ StackInv /\ PoolInv /\ ContextInv
        /\ NoStrandedRequest /\ CompletionAnnounced /\ CallbackInContext
    BY Zenon DEF AioInv
  <2>2. TypeOK' /\ StackInv'
    BY <2>1, TypeStep, StackStep, Zenon
  <2>3. PoolInv' /\ ContextInv'
    BY <2>1, PoolStep, ContextStep, Zenon
  <2>4. NoStrandedRequest' /\ CompletionAnnounced' /\ CallbackInContext'
    BY <2>1, StrandedStep, AnnouncedStep, CallbackStep, Zenon
  <2> QED
    BY <2>2, <2>3, <2>4, Zenon DEF AioInv
<1> QED
  BY <1>1, <1>2, PTL DEF Spec

\* aio_thread and qemu_paio_submit: no request stays on request_list with
\* every worker asleep or gone
THEOREM NoRequestStranded == Spec => []NoStrandedRequest
<1>1. AioInv => NoStrandedRequest
  BY Zenon DEF AioInv
<1> QED
  BY <1>1, AioInvariant, PTL

\* A result that a worker has stored is announced to the context it is for,
\* however signals merge, the pipe fills up and contexts nest
THEOREM CompletionsReachTheirContext == Spec => []CompletionAnnounced
<1>1. AioInv => CompletionAnnounced
  BY Zenon DEF AioInv
<1> QED
  BY <1>1, AioInvariant, PTL

\* posix_aio_process_queue calls no callback of another context
THEOREM CallbacksStayInContext == Spec => []CallbackInContext
<1>1. AioInv => CallbackInContext
  BY Zenon DEF AioInv
<1> QED
  BY <1>1, AioInvariant, PTL

\* The calls of the main thread get longer or shorter by one, and a call of
\* qemu_aio_flush ends only where its loop's condition has found nothing
LEMMA OnlyFlushedEnds ==
  ASSUME TypeOK, StackInv, PoolInv, ContextInv, [Next]_vars,
         Top.fn = "flush", Len(stack') < Depth
  PROVE  Flushed
<1>1. stack \in Seq(FrameType) /\ Len(stack) > 0 /\ Depth \in Nat /\ Depth = Len(stack)
  BY TopFacts, Zenon DEF TypeOK
<1>2. ASSUME NEW f, Moves(f) PROVE FALSE
  BY <1>1, <1>2, MovesEffect
<1>3. ASSUME NEW f, NEW g, Enters(f, g) PROVE FALSE
  <2>1. Len(stack') = Depth + 1
    BY <1>1, <1>3, EntersEffect, Zenon
  <2> QED
    BY <1>1, <2>1
<1>4. CASE stack' = stack
  BY <1>1, <1>4
<1>a. ASSUME NEW f \in FrameType, Walked(f) PROVE FALSE
  BY <1>2, <1>a, Zenon DEF Walked
<1>b. CASE Popped
  BY <1>b, Zenon DEF Popped
<1>c. ASSUME NEW f \in FrameType, NEW g \in FrameType, Called(f, g) PROVE FALSE
  BY <1>3, <1>c, Zenon DEF Called
<1>d. ASSUME NEW s \in Slots, NEW f \in FrameType, NEW g \in FrameType, CalledBack(s, f, g)
      PROVE  FALSE
  BY <1>3, <1>d, Zenon DEF CalledBack
<1>e. ASSUME NEW f \in FrameType, NEW g \in FrameType, SyncCalled(f, g) PROVE FALSE
  BY <1>3, <1>e, Zenon DEF SyncCalled
<1>f. ASSUME NEW w \in Slots \cup {None}, Returned(w) PROVE FALSE
  BY <1>f, Zenon DEF Returned
<1>g. ASSUME NEW f \in FrameType, NEW s \in Slots, Cancelled(f, s) \/ Awaits(f, s) PROVE FALSE
  BY <1>2, <1>g, Zenon DEF Cancelled, Awaits
<1>h. CASE PaioSubmit
  BY <1>1, <1>h, SubmitEffect
<1>i. CASE AioSignal
  BY <1>4, <1>i, Zenon DEF AioSignal
<1>j. ASSUME NEW t \in Threads, Takes(t) \/ StoreResult(t) \/ Kill(t) PROVE Flushed
  BY <1>4, <1>j, Zenon DEF Takes, StoreResult, Kill
<1>k. ASSUME NEW t \in Threads, NEW p, Roams(t, p) PROVE Flushed
  BY <1>4, <1>k, Zenon DEF Roams
<1>l. CASE UNCHANGED vars
  BY <1>4, <1>l, Zenon DEF vars
<1> QED
  BY KindOfStep, <1>a, <1>b, <1>c, <1>d, <1>e, <1>f, <1>g, <1>h, <1>i, <1>j, <1>k, <1>l, Zenon

\* qemu_aio_flush returns only when no request is left
THEOREM FlushReturnsDrained == Spec => FlushDrains
<1>1. ASSUME AioInv, [Next]_vars, Top.fn = "flush", Len(stack') < Depth
      PROVE  firstAio = {}
  <2>1. TypeOK /\ StackInv /\ PoolInv /\ ContextInv
    BY <1>1, Zenon DEF AioInv
  <2>2. Flushed
    BY <1>1, <2>1, OnlyFlushedEnds, Zenon
  <2> QED
    BY <2>1, <2>2, Zenon DEF Flushed, ContextInv, CheckedEmpty
<1>2. AioInv /\ [Next]_vars => [(Top.fn = "flush" /\ Len(stack') < Depth) => firstAio = {}]_vars
  BY <1>1, Zenon
<1> QED
  BY <1>2, AioInvariant, PTL DEF Spec, FlushDrains

-----------------------------------------------------------------------------
\* The pool implements the safety part of AioService

LEMMA LifeBefore ==
  ASSUME TypeOK, PoolInv, NEW x \in Slots
  PROVE  /\ Busy(x) => x \in firstAio /\ acb[x].active /\ acb[x].ret = "inprogress"
         /\ Busy(x) => Life[x] = "running"
         /\ x \notin firstAio => Life[x] = "free"
         /\ (x \in firstAio /\ Done(x)) => Life[x] = "served"
         /\ (x \in firstAio /\ ~Done(x) /\ ~Busy(x)) => Life[x] = "queued"
<1>1. Busy(x) => x \in firstAio /\ acb[x].active /\ acb[x].ret = "inprogress"
  BY Zenon DEF Busy, PoolInv, JobsOK
<1>2. Life[x] = CASE Busy(x) -> "running"
                  [] ~Busy(x) /\ x \notin firstAio -> "free"
                  [] ~Busy(x) /\ x \in firstAio /\ Done(x) -> "served"
                  [] ~Busy(x) /\ x \in firstAio /\ ~Done(x) -> "queued"
  BY Zenon DEF Life
<1> QED
  BY <1>1, <1>2, Zenon DEF Done

LEMMA LifeAfter ==
  ASSUME PoolInv', NEW x \in Slots
  PROVE  /\ Busy(x)' => x \in firstAio' /\ acb'[x].ret = "inprogress"
         /\ Busy(x)' => Life'[x] = "running"
         /\ x \notin firstAio' => Life'[x] = "free"
         /\ (x \in firstAio' /\ Done(x)') => Life'[x] = "served"
         /\ (x \in firstAio' /\ ~Done(x)' /\ ~Busy(x)') => Life'[x] = "queued"
<1>1. Busy(x)' => x \in firstAio' /\ acb'[x].ret = "inprogress"
  BY Zenon DEF Busy, PoolInv, JobsOK
<1>2. Life'[x] = CASE Busy(x)' -> "running"
                   [] ~Busy(x)' /\ x \notin firstAio' -> "free"
                   [] ~Busy(x)' /\ x \in firstAio' /\ Done(x)' -> "served"
                   [] ~Busy(x)' /\ x \in firstAio' /\ ~Done(x)' -> "queued"
  BY Zenon DEF Life
<1> QED
  BY <1>1, <1>2, Zenon DEF Done

\* A slot whose place on the list, result and worker stay, stays where it is
LEMMA LifeKept ==
  ASSUME TypeOK, PoolInv, PoolInv', NEW x \in Slots,
         x \in firstAio' <=> x \in firstAio,
         x \in firstAio => (Done(x)' <=> Done(x)),
         Busy(x)' <=> Busy(x)
  PROVE  Life'[x] = Life[x]
<1>1. CASE Busy(x)
  BY <1>1, LifeBefore, LifeAfter, Zenon
<1>2. CASE x \notin firstAio
  BY <1>2, LifeBefore, LifeAfter, Zenon
<1>3. CASE x \in firstAio /\ Done(x)
  BY <1>3, LifeBefore, LifeAfter, Zenon
<1>4. CASE x \in firstAio /\ ~Done(x) /\ ~Busy(x)
  BY <1>4, LifeBefore, LifeAfter, Zenon
<1> QED
  BY <1>1, <1>2, <1>3, <1>4, Zenon

LEMMA LifeMoves ==
  ASSUME NEW s \in Slots, NEW from, NEW to, Life[s] = from, Life'[s] = to,
         \A x \in Slots \ {s} : Life'[x] = Life[x]
  PROVE  Service!Move(s, from, to)
<1>1. Life' = [x \in Slots |-> Life'[x]] /\ Life = [x \in Slots |-> Life[x]]
  BY Zenon DEF Life
<1>2. Life' = [Life EXCEPT ![s] = to]
  BY <1>1, Zenon
<1> QED
  BY <1>2, Zenon DEF Service!Move

LEMMA LifeStays ==
  ASSUME \A x \in Slots : Life'[x] = Life[x]
  PROVE  Life' = Life
<1>1. Life' = [x \in Slots |-> Life'[x]] /\ Life = [x \in Slots |-> Life[x]]
  BY Zenon DEF Life
<1> QED
  BY <1>1, Zenon

LEMMA ServiceStep ==
  ASSUME TypeOK, StackInv, PoolInv, ContextInv, [Next]_vars
  PROVE  [Service!Next]_Life
<1>1. /\ firstAio \subseteq Slots /\ acb \in [Slots -> AcbType]
      /\ pc \in [Threads -> PcType] /\ job \in [Threads -> Slots \cup {None}]
      /\ queue \in Seq(Slots)
  BY Zenon DEF TypeOK, AcbType, PcType
<1>2. PoolInv'
  BY PoolStep, Zenon
<1>3. ASSUME \A x \in Slots : Life'[x] = Life[x] PROVE [Service!Next]_Life
  BY <1>3, LifeStays, Zenon
<1>4. ASSUME NEW s \in Slots,
             \/ Service!Move(s, "free", "queued") \/ Service!Move(s, "queued", "running")
             \/ Service!Move(s, "running", "served") \/ Service!Move(s, "served", "free")
             \/ Service!Move(s, "queued", "free")
      PROVE  [Service!Next]_Life
  BY <1>4, Zenon DEF Service!Next, Service!Progress, Service!Submit, Service!Start, Service!Finish,
              Service!Callback, Service!Cancel
\* Workers' places change, and none begins or ends its work
<1>5. ASSUME job' = job,
             \A t \in Threads : pc'[t] \in {"working", "store"} <=> pc[t] \in {"working", "store"}
      PROVE  \A x \in Slots : Busy(x)' <=> Busy(x)
  BY <1>5, Zenon DEF Busy
<1>6. ASSUME firstAio' = firstAio, acb' = acb, \A x \in Slots : Busy(x)' <=> Busy(x)
      PROVE  [Service!Next]_Life
  <2>1. \A x \in Slots : Life'[x] = Life[x]
    BY <1>2, <1>6, LifeKept, Zenon DEF Done
  <2> QED
    BY <1>3, <2>1, Zenon
<1>7. CASE firstAio' = firstAio /\ acb' = acb /\ pc' = pc /\ job' = job
  BY <1>5, <1>6, <1>7, Zenon
<1>8. ASSUME NEW c, Submit(c) PROVE [Service!Next]_Life
  <2>1. /\ Free # {} /\ firstAio' = firstAio \cup {Slot} /\ job' = job
        /\ acb' = [acb EXCEPT ![Slot] = [ret |-> "inprogress", active |-> FALSE, ctx |-> c]]
        /\ SpawnThread
    BY <1>8, Zenon DEF Submit
  <2>2. Slot \in Slots /\ Slot \notin firstAio
    BY <2>1, SlotFacts, Zenon
  <2>3. acb'[Slot].ret = "inprogress" /\ \A x \in Slots \ {Slot} : acb'[x] = acb[x]
    BY <1>1, <2>1, <2>2, Zenon
  <2>4. \A t \in Threads : pc'[t] \in {"working", "store"} <=> pc[t] \in {"working", "store"}
    <3>1. CASE pc' = pc
      BY <3>1, Zenon
    <3>2. CASE Spare # {} /\ pc' = [pc EXCEPT ![CHOOSE t \in Spare : TRUE] = "lock"]
      <4> DEFINE u == CHOOSE t \in Spare : TRUE
      <4>1. u \in Threads /\ pc[u] = "dead"
        BY <3>2, Zenon DEF Spare
      <4>2. pc' = [pc EXCEPT ![u] = "lock"]
        BY <3>2, Zenon
      <4> HIDE DEF u
      <4> QED
        BY <1>1, <4>1, <4>2, Zenon
    <3> QED
      BY <2>1, <3>1, <3>2, Zenon DEF SpawnThread
  <2>5. \A x \in Slots : Busy(x)' <=> Busy(x)
    BY <1>5, <2>1, <2>4, Zenon
  <2>6. ~Busy(Slot) /\ Life[Slot] = "free"
    BY <2>2, LifeBefore, Zenon
  <2>7. Life'[Slot] = "queued"
    BY <1>2, <2>1, <2>2, <2>3, <2>5, <2>6, LifeAfter, Zenon DEF Done
  <2>8. \A x \in Slots \ {Slot} : Life'[x] = Life[x]
    BY <1>2, <2>1, <2>3, <2>5, LifeKept, Zenon DEF Done
  <2>9. Service!Move(Slot, "free", "queued")
    BY <2>2, <2>6, <2>7, <2>8, LifeMoves, Zenon
  <2> QED
    BY <1>4, <2>2, <2>9, Zenon
<1>a. ASSUME NEW f \in FrameType, Walked(f) PROVE [Service!Next]_Life
  <2>1. /\ firstAio' = firstAio /\ acb' = acb /\ job' = job
        /\ \/ pc' = pc
           \/ \E t \in Threads : pc[t] = "waiting" /\ pc' = [pc EXCEPT ![t] = "woken"]
    BY <1>a, Zenon DEF Walked
  <2>2. \A t \in Threads : pc'[t] \in {"working", "store"} <=> pc[t] \in {"working", "store"}
    BY <1>1, <2>1, Zenon
  <2> QED
    BY <1>5, <1>6, <2>1, <2>2, Zenon
<1>b. CASE Popped \/ Flushed
  BY <1>7, <1>b, Zenon DEF Popped, Flushed, pool
<1>c. ASSUME NEW f \in FrameType, NEW g \in FrameType, Called(f, g) PROVE [Service!Next]_Life
  BY <1>7, <1>c, Zenon DEF Called, pool
<1>d. ASSUME NEW s \in Slots, NEW f \in FrameType, NEW g \in FrameType, CalledBack(s, f, g)
      PROVE  [Service!Next]_Life
  <2>1. /\ s \in firstAio /\ Done(s) /\ firstAio' = firstAio \ {s} /\ acb' = acb
        /\ pc' = pc /\ job' = job
    BY <1>d, Zenon DEF CalledBack, Callback, DoneHere, pool
  <2>2. \A x \in Slots : Busy(x)' <=> Busy(x)
    BY <1>5, <2>1, Zenon
  <2>3. Life[s] = "served" /\ Life'[s] = "free"
    BY <1>2, <2>1, LifeBefore, LifeAfter, Zenon
  <2>4. \A x \in Slots \ {s} : Life'[x] = Life[x]
    BY <1>2, <2>1, <2>2, LifeKept, Zenon DEF Done
  <2>5. Service!Move(s, "served", "free")
    BY <2>3, <2>4, LifeMoves, Zenon
  <2> QED
    BY <1>4, <2>5, Zenon
<1>e. ASSUME NEW f \in FrameType, NEW g \in FrameType, SyncCalled(f, g) PROVE [Service!Next]_Life
  BY <1>8, <1>e, Zenon DEF SyncCalled
<1>f. ASSUME NEW w \in Slots \cup {None}, Returned(w) PROVE [Service!Next]_Life
  <2>1. /\ firstAio' = firstAio /\ pc' = pc /\ job' = job
        /\ acb' = [s \in Slots |-> IF s = Top.s THEN Blank ELSE acb[s]]
    BY <1>f, Zenon DEF Returned, pool
  <2>2. Top.s \notin firstAio
    BY TopFacts, Zenon
  <2>3. \A x \in firstAio : acb'[x] = acb[x]
    BY <1>1, <2>1, <2>2, Zenon
  <2>4. \A x \in Slots : Busy(x)' <=> Busy(x)
    BY <1>5, <2>1, Zenon
  <2>5. \A x \in Slots : Life'[x] = Life[x]
    BY <1>2, <2>1, <2>3, <2>4, LifeKept, Zenon DEF Done
  <2> QED
    BY <1>3, <2>5, Zenon
<1>g. ASSUME NEW f \in FrameType, NEW s \in Slots, Cancelled(f, s) PROVE [Service!Next]_Life
  <2>1. /\ s \in firstAio /\ firstAio' = firstAio \ {s} /\ pc' = pc /\ job' = job
        /\ acb' = [acb EXCEPT ![s] = Blank]
        /\ ~acb[s].active \/ Done(s)
    BY <1>g, Zenon DEF Cancelled, Release
  <2>2. \A x \in Slots : Busy(x)' <=> Busy(x)
    BY <1>5, <2>1, Zenon
  <2>3. \A x \in Slots \ {s} : acb'[x] = acb[x]
    BY <1>1, <2>1, Zenon
  <2>4. Life'[s] = "free"
    BY <1>2, <2>1, LifeAfter, Zenon
  <2>5. Life[s] = "queued" \/ Life[s] = "served"
    <3>1. CASE Done(s)
      BY <2>1, <3>1, LifeBefore, Zenon
    <3>2. CASE ~Done(s)
      <4>1. ~Busy(s)
        BY <2>1, <3>2, LifeBefore, Zenon
      <4> QED
        BY <2>1, <3>2, <4>1, LifeBefore, Zenon
    <3> QED
      BY <3>1, <3>2, Zenon
  <2>6. \A x \in Slots \ {s} : Life'[x] = Life[x]
    BY <1>2, <2>1, <2>2, <2>3, LifeKept, Zenon DEF Done
  <2>7. Service!Move(s, "queued", "free") \/ Service!Move(s, "served", "free")
    BY <2>4, <2>5, <2>6, LifeMoves, Zenon
  <2> QED
    BY <1>4, <2>7, Zenon
<1>h. ASSUME NEW f \in FrameType, NEW s \in Slots, Awaits(f, s) PROVE [Service!Next]_Life
  BY <1>7, <1>h, Zenon DEF Awaits
<1>i. CASE PaioSubmit
  BY <1>8, <1>i, Zenon DEF PaioSubmit
<1>j. CASE AioSignal
  BY <1>7, <1>j, Zenon DEF AioSignal, pool
<1>k. ASSUME NEW t \in Threads, Takes(t) PROVE [Service!Next]_Life
  <2>0. PICK s \in Slots : s = Head(queue)
    BY <1>1, <1>k DEF Takes, Take
  <2>1. /\ queue # <<>> /\ firstAio' = firstAio
        /\ pc' = [pc EXCEPT ![t] = "working"] /\ job' = [job EXCEPT ![t] = s]
        /\ acb' = [acb EXCEPT ![s].active = TRUE]
        /\ pc[t] \notin {"working", "store"}
    BY <1>k, <2>0, Zenon DEF Takes, Take
  <2>2. /\ s \in firstAio /\ s \in Slots /\ ~acb[s].active /\ acb[s].ret = "inprogress"
    <3>1. 1 \in 1 .. Len(queue) /\ s = queue[1]
      BY <1>1, <2>0, <2>1
    <3> QED
      BY <1>1, <3>1, Zenon DEF PoolInv, QueueOK
  <2>3. \A x \in Slots : acb'[x].ret = acb[x].ret
    BY <1>1, <2>1, Zenon DEF AcbType
  <2>4. ~Busy(s) /\ Busy(s)'
    <3>1. ~Busy(s)
      BY <2>2, LifeBefore, Zenon
    <3>2. pc'[t] = "working" /\ job'[t] = s
      BY <1>1, <2>1, Zenon
    <3> QED
      BY <3>1, <3>2, Zenon DEF Busy
  <2>5. ASSUME NEW x \in Slots \ {s} PROVE Busy(x)' <=> Busy(x)
    <3>1. job'[t] # x /\ \A u \in Threads \ {t} : pc'[u] = pc[u] /\ job'[u] = job[u]
      BY <1>1, <2>1, Zenon
    <3>2. ASSUME NEW u \in Threads
          PROVE  (pc'[u] \in {"working", "store"} /\ job'[u] = x)
                   <=> (pc[u] \in {"working", "store"} /\ job[u] = x)
      BY <2>1, <3>1, Zenon
    <3> QED
      BY <3>2, Zenon DEF Busy
  <2>6. Life[s] = "queued" /\ Life'[s] = "running"
    BY <1>2, <2>2, <2>4, LifeBefore, LifeAfter, Zenon DEF Done
  <2>7. \A x \in Slots \ {s} : Life'[x] = Life[x]
    BY <1>2, <2>1, <2>3, <2>5, LifeKept, Zenon DEF Done
  <2>8. Service!Move(s, "queued", "running")
    BY <2>2, <2>6, <2>7, LifeMoves, Zenon
  <2> QED
    BY <1>4, <2>2, <2>8, Zenon
<1>l. ASSUME NEW t \in Threads, StoreResult(t) PROVE [Service!Next]_Life
  <2>0. PICK s : s = job[t]
    BY Zenon
  <2>1. /\ firstAio' = firstAio /\ pc[t] = "store"
        /\ pc' = [pc EXCEPT ![t] = "kill"] /\ job' = [job EXCEPT ![t] = None]
        /\ acb' = [acb EXCEPT ![s].ret = "done"]
    BY <1>l, <2>0, Zenon DEF StoreResult
  <2>2. s \in firstAio /\ s \in Slots /\ \A u \in Threads : job[u] = s => u = t
    BY <1>1, <2>0, <2>1, Zenon DEF PoolInv, JobsOK
  <2>3. Busy(s)
    BY <2>0, <2>1, Zenon DEF Busy
  <2>4. acb'[s].ret = "done" /\ \A x \in Slots \ {s} : acb'[x] = acb[x]
    BY <1>1, <2>1, <2>2, Zenon DEF AcbType
  <2>5. pc'[t] = "kill" /\ \A u \in Threads \ {t} : pc'[u] = pc[u] /\ job'[u] = job[u]
    BY <1>1, <2>1, Zenon
  <2>6. \A x \in Slots \ {s} : Busy(x)' <=> Busy(x)
    BY <2>0, <2>1, <2>5, Zenon DEF Busy
  <2>7. Life[s] = "running" /\ Life'[s] = "served"
    BY <1>2, <2>1, <2>2, <2>3, <2>4, LifeBefore, LifeAfter, Zenon DEF Done
  <2>8. \A x \in Slots \ {s} : Life'[x] = Life[x]
    BY <1>2, <2>1, <2>4, <2>6, LifeKept, Zenon DEF Done
  <2>9. Service!Move(s, "running", "served")
    BY <2>2, <2>7, <2>8, LifeMoves, Zenon
  <2> QED
    BY <1>4, <2>2, <2>9, Zenon
<1>9. ASSUME NEW t \in Threads, NEW p, pc' = [pc EXCEPT ![t] = p],
             p \in {"working", "store"} <=> pc[t] \in {"working", "store"},
             job' = job, acb' = acb, firstAio' = firstAio
      PROVE  [Service!Next]_Life
  <2>1. \A u \in Threads : pc'[u] \in {"working", "store"} <=> pc[u] \in {"working", "store"}
    BY <1>1, <1>9, Zenon
  <2> QED
    BY <1>5, <1>6, <1>9, <2>1, Zenon
<1>m. ASSUME NEW t \in Threads, Kill(t) PROVE [Service!Next]_Life
  BY <1>9, <1>m, Zenon DEF Kill
<1>n. ASSUME NEW t \in Threads, NEW p, Roams(t, p) PROVE [Service!Next]_Life
  BY <1>9, <1>n, Zenon DEF Roams
<1>o. CASE UNCHANGED vars
  BY <1>7, <1>o, Zenon DEF vars
<1> QED
  BY KindOfStep, <1>a, <1>b, <1>c, <1>d, <1>e, <1>f, <1>g, <1>h, <1>i, <1>j, <1>k, <1>l, <1>m,
     <1>n, <1>o, Zenon

\* posix-aio-compat.c keeps to the order of a request's life that AioService
\* promises: the buffer is in use only while a worker has the request, and
\* a callback or the end of paio_cancel follows that
THEOREM PoolImplementsService == Spec => Service!Safety
<1>1. Init => Service!Init
  <2> SUFFICES ASSUME Init PROVE Service!Init
    BY Zenon
  <2>1. TypeOK /\ PoolInv
    BY InitIsSafe, Zenon DEF AioInv
  <2>2. firstAio = {}
    BY Zenon DEF Init
  <2>3. \A x \in Slots : Life[x] = "free"
    BY <2>1, <2>2, LifeBefore, Zenon
  <2>4. Life = [x \in Slots |-> Life[x]]
    BY Zenon DEF Life
  <2>5. Life = [x \in Slots |-> "free"]
    BY <2>3, <2>4, Zenon
  <2> QED
    BY <2>5, Zenon DEF Service!Init
<1>2. AioInv /\ [Next]_vars => [Service!Next]_Life
  BY ServiceStep, Zenon DEF AioInv
<1> QED
  BY <1>1, <1>2, AioInvariant, PTL DEF Spec, Service!Safety
=============================================================================
