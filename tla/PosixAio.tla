------------------------------ MODULE PosixAio ------------------------------
(***************************************************************************)
(* Asynchronous I/O on host files: a pool of worker threads, the signal    *)
(* and the pipe that announce completions to the main thread, and the      *)
(* nested contexts in which synchronous calls wait for their own requests. *)
(*                                                                         *)
(*   posix-aio-compat.c  aio_thread, qemu_paio_submit, paio_cancel,        *)
(*                       posix_aio_process_queue, posix_aio_read           *)
(*   aio.c               qemu_aio_wait, qemu_aio_flush                     *)
(*   async.c             bottom halves, async_context_push and _pop        *)
(*   block.c             qemu_aio_get, bdrv_read_em and its like           *)
(*                                                                         *)
(* A section under the workers' mutex is one step, as all it touches is    *)
(* under that mutex.  A scan of first_aio stops at a request that was      *)
(* done or at the end; which done request it meets first depends on when   *)
(* the workers store their results, so any may be.  The signal handler     *)
(* runs on the main thread, between two steps or inside select().          *)
(* I/O, its length and its result are abstracted to "done".  Idle bottom   *)
(* halves are left out; "dev" stands for the bottom halves of devices.     *)
(***************************************************************************)
EXTENDS Naturals, Sequences

CONSTANTS
  Slots,        \* the qemu_paiocb structures of the pool
  Threads,      \* the worker threads there may be, max_threads of them
  PipeSize,     \* bytes the pipe holds
  MaxDepth,     \* bound: nesting of synchronous calls
  MaxRequests,  \* bound: requests and device bottom halves made in a run
  None

ASSUME PipeAssumption == PipeSize \in Nat \ {0}
ASSUME BoundsAssumption == MaxDepth \in Nat /\ MaxRequests \in Nat
ASSUME NoneAssumption == None \notin Slots
ASSUME ThreadsAssumption == Threads # {}

VARIABLES
  acb,       \* the structure in each slot: ret, active, async_context_id
  firstAio,  \* the requests on the list posix_aio_state->first_aio
  queue,     \* request_list
  pc,        \* where each worker is
  job,       \* its aiocb
  signal,    \* SIGUSR2 is pending
  pipe,      \* bytes in the pipe
  bhs,       \* scheduled bottom halves, with the context they belong to
  stack,     \* the calls the main thread is in
  budget     \* requests and bottom halves that may still be made

pool == <<queue, pc, job>>
wake == <<signal, pipe>>
vars == <<acb, firstAio, queue, pc, job, signal, pipe, bhs, stack, budget>>

\* A call: its function, where it is, the request whose callback it is (s),
\* the request it waits for (w), the id of its context, whether it is inside
\* posix_aio_process_queue, and what has run in the poll it is in
Frame(fn, at, s, w, ctx) ==
  [fn |-> fn, at |-> at, s |-> s, w |-> w, ctx |-> ctx, scan |-> FALSE, ran |-> {}]

\* What qemu_aio_release leaves in a slot is not used again
Blank == [ret |-> "none", active |-> FALSE, ctx |-> 0]

Init ==
  /\ acb = [s \in Slots |-> Blank]
  /\ firstAio = {}
  /\ queue = <<>>
  /\ pc = [t \in Threads |-> "dead"]
  /\ job = [t \in Threads |-> None]
  /\ signal = FALSE
  /\ pipe = 0
  /\ bhs = {}
  /\ stack = <<Frame("main", "code", None, None, 0)>>
  /\ budget = MaxRequests

-----------------------------------------------------------------------------
\* The main thread's calls

Depth == Len(stack)
Top == stack[Depth]
Calls == {stack[i] : i \in DOMAIN stack}

\* get_async_context_id: only async_context_push, at the start of a
\* synchronous call, changes it, and async_context_pop undoes that
Ctx == Top.ctx

Goto(f) == stack' = [stack EXCEPT ![Depth] = f]
At(place) == [Top EXCEPT !.at = place]

\* Where code goes on after an operation: a callback makes one at most
AfterOp(f) == IF f.fn = "cb" THEN "ret" ELSE "code"

\* Where a call goes on after qemu_aio_wait or the main loop's handler
AfterWait(f) ==
  CASE f.fn = "main" -> "code"
    [] f.fn = "sync" -> "loop"
    [] f.fn = "flush" -> "check"

\* A slot is free again once its callback has returned
Free == Slots \ (firstAio \cup {f.s : f \in Calls})

\* qemu_aio_get: one free slot is as good as another
Slot == CHOOSE s \in Free : TRUE

\* Requests a synchronous call waits for; only that call knows them
Awaited == {f.w : f \in {g \in Calls : g.fn = "sync"}}

Done(s) == acb[s].ret = "done"

-----------------------------------------------------------------------------
\* Submitting and cancelling

\* What posix-aio-compat.c counts: a woken thread is idle until it has
\* the mutex again
idle_threads == {t \in Threads : pc[t] \in {"waiting", "woken", "timedout"}}
Spare == {t \in Threads : pc[t] = "dead"}

\* spawn_thread, if no thread is idle and there may be another
SpawnThread ==
  IF idle_threads = {} /\ Spare # {}
    THEN pc' = [pc EXCEPT ![CHOOSE t \in Spare : TRUE] = "lock"]
    ELSE UNCHANGED pc

\* paio_submit and qemu_paio_submit, up to mutex_unlock
Submit(ctx) ==
  /\ budget > 0 /\ budget' = budget - 1
  /\ Free # {}
  /\ acb' = [acb EXCEPT ![Slot] = [ret |-> "inprogress", active |-> FALSE, ctx |-> ctx]]
  /\ firstAio' = firstAio \cup {Slot}
  /\ queue' = Append(queue, Slot)
  /\ SpawnThread
  /\ UNCHANGED <<job, wake, bhs>>

\* Device code or a callback submits a request.  In a nested context this is
\* the next request of the chain its synchronous call waits for.
PaioSubmit ==
  /\ Top.at = "code"
  /\ Submit(Ctx)
  /\ stack' = [i \in DOMAIN stack |->
       IF i = Depth THEN At("signal")
       ELSE IF i = Depth - 1 /\ stack[i].fn = "sync" THEN [stack[i] EXCEPT !.w = Slot]
       ELSE stack[i]]

\* async_context_push
Pushed(at, s) == Frame("sync", at, None, s, Ctx + 1)

\* bdrv_read_em, bdrv_write_em, qed_..._sync: the push, then the request
SyncCall ==
  /\ Top.at = "code"
  /\ Ctx < MaxDepth
  /\ Submit(Ctx + 1)
  /\ stack' = Append([stack EXCEPT ![Depth] = At(AfterOp(Top))],
                     Pushed("signal", Slot))

\* The driver refuses the request, acb == NULL: there is nothing to wait for
SyncRefused ==
  /\ Top.at = "code"
  /\ Ctx < MaxDepth
  /\ budget > 0 /\ budget' = budget - 1
  /\ stack' = Append([stack EXCEPT ![Depth] = At(AfterOp(Top))],
                     Pushed("pop", None))
  /\ UNCHANGED <<acb, firstAio, pool, wake, bhs>>

\* cond_signal, after the mutex was released
CondSignal ==
  /\ Top.at = "signal"
  /\ LET waiting == {t \in Threads : pc[t] = "waiting"}
     IN  IF waiting = {} THEN UNCHANGED pc
         ELSE \E t \in waiting : pc' = [pc EXCEPT ![t] = "woken"]
  /\ Goto(At(IF Top.fn = "sync" THEN "loop" ELSE AfterOp(Top)))
  /\ UNCHANGED <<acb, firstAio, queue, job, wake, bhs, budget>>

\* paio_remove, with qemu_aio_release
Release(s) ==
  /\ firstAio' = firstAio \ {s}
  /\ acb' = [acb EXCEPT ![s] = Blank]

\* QTAILQ_REMOVE of a request on request_list
Dequeued(s) ==
  LET i == CHOOSE j \in DOMAIN queue : queue[j] = s
  IN  SubSeq(queue, 1, i - 1) \o SubSeq(queue, i + 1, Len(queue))

\* Mutant: a request that a thread has taken is given up like any other
PaioCancelActive(s) ==
  /\ Top.at = "code"
  /\ s \in firstAio \ Awaited
  /\ queue' = IF acb[s].active THEN queue ELSE Dequeued(s)
  /\ Release(s)
  /\ Goto(At(AfterOp(Top)))
  /\ UNCHANGED <<pc, job, wake, bhs, budget>>

\* paio_cancel: a queued request is taken back, a finished one dropped, and
\* one that a worker is busy with is waited for
PaioCancel(s) ==
  /\ Top.at = "code"
  /\ s \in firstAio \ Awaited
  /\ queue' = IF acb[s].active THEN queue ELSE Dequeued(s)
  /\ IF acb[s].active /\ ~Done(s)
       THEN Goto([At("spin") EXCEPT !.w = s]) /\ UNCHANGED <<acb, firstAio>>
       ELSE Goto(At(AfterOp(Top))) /\ Release(s)
  /\ UNCHANGED <<pc, job, wake, bhs, budget>>

\* The end of the wait, and paio_remove
CancelDone ==
  /\ Top.at = "spin"
  /\ Done(Top.w)
  /\ Release(Top.w)
  /\ Goto([At(AfterOp(Top)) EXCEPT !.w = None])
  /\ UNCHANGED <<pool, wake, bhs, budget>>

-----------------------------------------------------------------------------
\* Bottom halves and contexts

\* Device code schedules its bottom half, in the outermost context
ScheduleBh ==
  /\ Top.at = "code"
  /\ bhs' = bhs \cup {<<"dev", 0>>}
  /\ bhs' # bhs
  /\ budget > 0 /\ budget' = budget - 1
  /\ Goto(At(AfterOp(Top)))
  /\ UNCHANGED <<acb, firstAio, pool, wake>>

\* qemu_bh_poll is called from the main loop and qemu_aio_wait ("bh"), from
\* async_context_pop ("pop") and from qemu_aio_flush ("cond")
Polling == Top.at \in {"bh", "pop", "cond"} /\ ~Top.scan

\* It runs each bottom half of this context that is scheduled when it comes
\* to it, in an order that is left open.  One that is made meanwhile is at
\* the head of the list, and may have to wait for the next poll.
RunDevBh ==
  /\ Polling
  /\ <<"dev", Ctx>> \in bhs /\ "dev" \notin Top.ran
  /\ bhs' = bhs \ {<<"dev", Ctx>>}
  /\ stack' = Append([stack EXCEPT ![Depth].ran = @ \cup {"dev"}],
                     Frame("cb", "code", None, None, Ctx))
  /\ UNCHANGED <<acb, firstAio, pool, wake, budget>>

\* bh_run_aio_completions: qemu_aio_process_queue
RunAioBh ==
  /\ Polling
  /\ <<"aio", Ctx>> \in bhs /\ "aio" \notin Top.ran
  /\ bhs' = bhs \ {<<"aio", Ctx>>}
  /\ Goto([Top EXCEPT !.ran = @ \cup {"aio"}, !.scan = TRUE])
  /\ UNCHANGED <<acb, firstAio, pool, wake, budget>>

\* Mutant: the parent context is not told of the completions it missed
PopSilently ==
  /\ stack' = SubSeq(stack, 1, Depth - 1)
  /\ UNCHANGED bhs

\* The rest of async_context_pop, once a poll has found nothing
Pop ==
  /\ stack' = SubSeq(stack, 1, Depth - 1)
  /\ bhs' = bhs \cup {<<"aio", Ctx - 1>>}

\* Mutant: qemu_aio_flush goes by its last poll alone
FlushReturnsEarly(f) == f.ran \cap {"aio", "dev"} = {}

\* while (qemu_bh_poll() || ret > 0)
FlushReturns(f) == f.ran = {}

PollEnd ==
  /\ Polling
  /\ <<"dev", Ctx>> \in bhs => "dev" \in Top.ran
  /\ <<"aio", Ctx>> \in bhs => Top.ran \cap {"aio", "dev"} # {}
  /\ CASE Top.at = "bh" /\ Top.fn = "main" -> Goto(At("code")) /\ UNCHANGED bhs
       [] Top.at = "bh" /\ Top.fn # "main" ->
            /\ Goto(IF Top.ran # {} THEN At(AfterWait(Top))
                    ELSE [At("queue") EXCEPT !.scan = TRUE])
            /\ UNCHANGED bhs
       [] Top.at = "pop" ->
            IF Top.ran # {} THEN Goto([Top EXCEPT !.ran = {}]) /\ UNCHANGED bhs ELSE Pop
       [] Top.at = "cond" ->
            /\ IF FlushReturns(Top) THEN stack' = SubSeq(stack, 1, Depth - 1)
               ELSE Goto(At("loop"))
            /\ UNCHANGED bhs
  /\ UNCHANGED <<acb, firstAio, pool, wake, budget>>

-----------------------------------------------------------------------------
\* Completions

\* Mutant: the scan takes any request that is done
DoneHereAny == {s \in firstAio : Done(s)}

\* "we're only interested in requests in the right context"
DoneHere == {s \in firstAio : Done(s) /\ acb[s].ctx = Ctx}

\* posix_aio_process_queue: the request leaves the list, its callback runs,
\* and the scan starts again
Callback(s) ==
  /\ Top.scan
  /\ s \in DoneHere
  /\ firstAio' = firstAio \ {s}
  /\ stack' = Append([stack EXCEPT ![Depth].ran = @ \cup {"request"}],
                     Frame("cb", "code", s, None, Ctx))
  /\ UNCHANGED <<acb, pool, wake, bhs, budget>>

\* The scan reaches the end of the list
ScanEnd ==
  /\ Top.scan
  /\ DoneHere = {}
  /\ Goto([At(CASE Top.at = "queue" -> IF Top.ran = {} THEN "select" ELSE AfterWait(Top)
                [] Top.at = "read" -> AfterWait(Top)
                [] OTHER -> Top.at) EXCEPT !.scan = FALSE])
  /\ UNCHANGED <<acb, firstAio, pool, wake, bhs, budget>>

\* The callback returns, and qemu_aio_release.  bdrv_rw_em_cb is the last
\* of the chain: the synchronous call has what it waits for.
CallbackReturns ==
  /\ Top.fn = "cb" /\ Top.at \in {"code", "ret"}
  /\ stack' = [i \in 1 .. Depth - 1 |->
       IF i = Depth - 1 /\ stack[i].fn = "sync" /\ stack[i].w = Top.s
         THEN [stack[i] EXCEPT !.w = None] ELSE stack[i]]
  /\ acb' = [s \in Slots |-> IF s = Top.s THEN Blank ELSE acb[s]]
  /\ UNCHANGED <<firstAio, pool, wake, bhs, budget>>

\* posix_aio_read empties the pipe, then scans
PosixAioRead ==
  /\ pipe > 0
  /\ pipe' = 0
  /\ Goto([At("read") EXCEPT !.scan = TRUE, !.ran = {}])
  /\ UNCHANGED <<acb, firstAio, pool, signal, bhs, budget>>

-----------------------------------------------------------------------------
\* Waiting

\* Device code calls qemu_aio_flush; so does a completion callback of a device
\* that stops the machine (do_vm_stop), in the outermost context
FlushCall ==
  /\ Top.at = "code"
  /\ Ctx = 0
  /\ stack' = Append([stack EXCEPT ![Depth] = At(AfterOp(Top))],
                     Frame("flush", "loop", None, None, Ctx))
  /\ UNCHANGED <<acb, firstAio, pool, wake, bhs, budget>>

\* The loops of bdrv_read_em and qemu_aio_flush enter qemu_aio_wait, or the
\* synchronous call has its result and leaves its context
WaitLoop ==
  /\ Top.at = "loop"
  /\ Goto([At(IF Top.fn = "sync" /\ Top.w = None THEN "pop" ELSE "bh") EXCEPT !.ran = {}])
  /\ UNCHANGED <<acb, firstAio, pool, wake, bhs, budget>>

\* qemu_aio_flush asks its handlers whether they have requests left
FlushCheck ==
  /\ Top.at = "check"
  /\ Goto([At("cond") EXCEPT !.ran = IF firstAio # {} THEN {"request"} ELSE {}])
  /\ UNCHANGED <<acb, firstAio, pool, wake, bhs, budget>>

\* Nothing to wait for: qemu_aio_wait does not enter select()
NoSelect ==
  /\ Top.at = "select"
  /\ firstAio = {}
  /\ Goto(At(AfterWait(Top)))
  /\ UNCHANGED <<acb, firstAio, pool, wake, bhs, budget>>

SelectReads ==
  /\ Top.at = "select"
  /\ firstAio # {}
  /\ PosixAioRead

\* main_loop_wait: the I/O handlers, then the bottom halves
MainLoopReads ==
  /\ Top.fn = "main" /\ Top.at = "code"
  /\ PosixAioRead

MainLoopPolls ==
  /\ Top.fn = "main" /\ Top.at = "code"
  /\ Goto([At("bh") EXCEPT !.ran = {}])
  /\ UNCHANGED <<acb, firstAio, pool, wake, bhs, budget>>

\* aio_signal_handler: write() to a full pipe returns EAGAIN
SignalHandler ==
  /\ signal
  /\ signal' = FALSE
  /\ pipe' = IF pipe < PipeSize THEN pipe + 1 ELSE pipe

\* The handler runs between two steps of the main thread
AioSignal ==
  /\ SignalHandler
  /\ UNCHANGED <<acb, firstAio, pool, bhs, stack, budget>>

\* It runs inside select(), which fails with EINTR: the loop's condition,
\* ret == 0, is false then
AioSignalInSelect ==
  /\ Top.at = "select" /\ firstAio # {} /\ pipe = 0
  /\ SignalHandler
  /\ Goto(At(AfterWait(Top)))
  /\ UNCHANGED <<acb, firstAio, pool, bhs, budget>>

-----------------------------------------------------------------------------
\* The workers

\* Under the mutex, the first request leaves the queue
Take(t) ==
  /\ queue # <<>>
  /\ queue' = Tail(queue)
  /\ job' = [job EXCEPT ![t] = Head(queue)]
  /\ acb' = [acb EXCEPT ![Head(queue)].active = TRUE]
  /\ pc' = [pc EXCEPT ![t] = "working"]

GoesTo(t, place) ==
  /\ pc' = [pc EXCEPT ![t] = place]
  /\ UNCHANGED <<acb, queue, job>>

\* aio_thread with the mutex: it takes a request or sleeps on the condition
Lock(t) ==
  /\ pc[t] \in {"lock", "woken"}
  /\ Take(t) \/ (queue = <<>> /\ GoesTo(t, "waiting"))
  /\ UNCHANGED <<firstAio, wake, bhs, stack, budget>>

\* cond_timedwait ends by itself, or after its ten seconds
Wakes(t) ==
  /\ pc[t] = "waiting"
  /\ GoesTo(t, "woken") \/ GoesTo(t, "timedout")
  /\ UNCHANGED <<firstAio, wake, bhs, stack, budget>>

\* Mutant: a thread whose time is over ends whatever has been queued
TimedOutEnds(t) ==
  /\ pc[t] = "timedout"
  /\ GoesTo(t, "dead")
  /\ UNCHANGED <<firstAio, wake, bhs, stack, budget>>

\* With the mutex after the time is over: the thread ends unless there is
\* a request after all
TimedOut(t) ==
  /\ pc[t] = "timedout"
  /\ Take(t) \/ (queue = <<>> /\ GoesTo(t, "dead"))
  /\ UNCHANGED <<firstAio, wake, bhs, stack, budget>>

\* handle_aiocb_rw and its like: the I/O is over
HandleAiocb(t) ==
  /\ pc[t] = "working"
  /\ GoesTo(t, "store")
  /\ UNCHANGED <<firstAio, wake, bhs, stack, budget>>

\* aiocb->ret = ret under the mutex
StoreResult(t) ==
  /\ pc[t] = "store"
  /\ acb' = [acb EXCEPT ![job[t]].ret = "done"]
  /\ pc' = [pc EXCEPT ![t] = "kill"]
  /\ job' = [job EXCEPT ![t] = None]
  /\ UNCHANGED <<firstAio, queue, wake, bhs, stack, budget>>

\* kill(pid, aiocb->ev_signo): it is SIGUSR2 in every request, which may be
\* another's by now.  Pending signals do not add up.
Kill(t) ==
  /\ pc[t] = "kill"
  /\ signal' = TRUE
  /\ pc' = [pc EXCEPT ![t] = "lock"]
  /\ UNCHANGED <<acb, firstAio, queue, job, pipe, bhs, stack, budget>>

-----------------------------------------------------------------------------
Worker(t) == Lock(t) \/ TimedOut(t) \/ HandleAiocb(t) \/ StoreResult(t) \/ Kill(t)

\* Device code and callbacks are free to do these
Choice ==
  \/ PaioSubmit \/ SyncCall \/ SyncRefused \/ ScheduleBh
  \/ \E s \in Slots : PaioCancel(s)
  \/ FlushCall

\* The rest of what the main thread does in a call
Goes ==
  \/ CondSignal \/ CancelDone
  \/ RunDevBh \/ RunAioBh \/ PollEnd
  \/ \E s \in Slots : Callback(s)
  \/ ScanEnd \/ CallbackReturns
  \/ WaitLoop \/ FlushCheck \/ NoSelect \/ SelectReads

Next ==
  \/ Choice
  \/ Goes
  \/ MainLoopReads \/ MainLoopPolls
  \/ AioSignal \/ AioSignalInSelect
  \/ \E t \in Threads : Worker(t) \/ Wakes(t)

\* Threads that can run do; a pending signal is delivered; the main loop
\* comes round to its handlers and bottom halves whatever the devices do
Fairness ==
  /\ \A t \in Threads : WF_vars(Worker(t))
  /\ WF_vars(AioSignal \/ AioSignalInSelect)
  /\ WF_vars(Goes)
  /\ SF_vars(MainLoopReads)
  /\ SF_vars(MainLoopPolls)

Spec == Init /\ [][Next]_vars /\ Fairness

-----------------------------------------------------------------------------
FrameType ==
  [fn : {"main", "sync", "flush", "cb"},
   at : {"code", "signal", "spin", "ret", "loop", "bh", "queue", "select",
         "read", "pop", "check", "cond"},
   s : Slots \cup {None}, w : Slots \cup {None}, ctx : 0 .. MaxDepth,
   scan : BOOLEAN, ran : SUBSET {"aio", "dev", "request"}]

\* The types of the variables; the pipe of posix_aio_state never holds more
\* than it can
TypeOK ==
  /\ acb \in [Slots -> [ret : {"none", "inprogress", "done"}, active : BOOLEAN,
                        ctx : 0 .. MaxDepth]]
  /\ firstAio \subseteq Slots
  /\ queue \in Seq(Slots)
  /\ pc \in [Threads -> {"dead", "lock", "waiting", "woken", "timedout",
                         "working", "store", "kill"}]
  /\ job \in [Threads -> Slots \cup {None}]
  /\ signal \in BOOLEAN
  /\ pipe \in 0 .. PipeSize
  /\ bhs \subseteq {"aio", "dev"} \X (0 .. MaxDepth)
  /\ stack \in Seq(FrameType)
  /\ budget \in 0 .. MaxRequests

\* No request is left in request_list with every thread asleep or gone: a
\* thread has yet to look, or cond_signal is still to come and finds a
\* sleeper.  A woken thread counts as idle until it has the mutex, so
\* qemu_paio_submit starts none for the requests behind the first.
NoStrandedRequest ==
  queue # <<>> =>
    \/ \E t \in Threads : pc[t] \notin {"dead", "waiting"}
    \/ Top.at = "signal" /\ \E t \in Threads : pc[t] = "waiting"

\* A finished request is on its way to its callback.  A signal is to be
\* sent or delivered, a byte is in the pipe, or its context has a scan under
\* way or to come: of bh_run_aio_completions, or of async_context_pop if a
\* nested context is active and has taken the byte.  The bytes and signals
\* that were merged or dropped in between are not missed.
CompletionAnnounced ==
  \A s \in firstAio :
    Done(s) =>
      \/ \E t \in Threads : pc[t] = "kill"
      \/ signal \/ pipe > 0
      \/ <<"aio", acb[s].ctx>> \in bhs
      \/ acb[s].ctx < Ctx
      \/ \E i \in DOMAIN stack : stack[i].scan /\ stack[i].ctx = acb[s].ctx

\* Callbacks run only in the context their request was made in, as the
\* comment on AsyncContext asks: while a synchronous call waits, the only
\* callbacks above it on the stack are of its own context.
CallbackInContext ==
  \A i \in DOMAIN stack :
    (stack[i].fn = "cb" /\ stack[i].s # None) =>
      acb[stack[i].s].ctx = stack[i].ctx

\* When qemu_aio_flush returns no request is left, though callbacks and
\* bottom halves made new ones while it waited
FlushDrains ==
  [][(Top.fn = "flush" /\ Len(stack') < Depth) => firstAio = {}]_vars

\* A worker is using the caller's buffer
Busy(s) == \E t \in Threads : pc[t] \in {"working", "store"} /\ job[t] = s

\* Where each slot is in the life AioService gives it
Life ==
  [s \in Slots |->
    CASE Busy(s) -> "running"
      [] ~Busy(s) /\ s \notin firstAio -> "free"
      [] ~Busy(s) /\ s \in firstAio /\ Done(s) -> "served"
      [] ~Busy(s) /\ s \in firstAio /\ ~Done(s) -> "queued"]

Service == INSTANCE AioService WITH life <- Life

\* The pool implements AioService: the caller's buffer is in use only while
\* a worker has the request, a cancelled request is let go only before or
\* after that, a callback follows the I/O, once; and every request ends
ImplementsService == Service!Spec
=============================================================================
