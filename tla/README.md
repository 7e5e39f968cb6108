# Verification of the variability testbed

This directory holds TLA+ specifications of the parts of `qemu-0.15.1` that the
variability extension consists of, and of the parts of the emulator it relies
on. Paths below are relative to `src/qemu-0.15.1/`. "Block" and TB both mean a
`TranslationBlock`.

## The system

The repository is QEMU 0.15.1 with an extension that charges a cycle cost to
every ARM instruction executed, by instruction class, and turns the cycles
into energy. The guest reads the results from a memory-mapped device, the
operator through two monitor commands.

1. When a block is translated, `variability_counters_manip`
   (`target-arm/translate.c`) adds the cycles of each instruction to the
   block's `cycle_count[]`.
2. When the loop of `cpu_exec` starts a block it calls
   `increment_cycle_counters`, which adds the block's counters to the totals.
3. When a Stellaris guest changes its clock, `freq_changed_set_chkpt` closes an
   energy period: it carries the energy over and copies the totals to a
   checkpoint. The versatilepb never changes its clock.
4. WFI opens a sleep interval; `cpu_has_work` closes it.
5. `calculate_active_energy` combines carried-over energy and the cycles since
   the checkpoint for the readers.
6. A file given with `-variability` assigns instructions to classes and sets
   windows of addresses in which errors are to be injected. The translator
   opens and closes the windows and switches single stepping with them.

The translation block cache decides what "the block that starts" is (reused
slots, retranslation, direct jumps between blocks that bypass the loop), and
the main loop decides who asks `cpu_has_work` and when. Both are modelled for
their own correctness as well, being the most intricate code the extension
depends on. So are three parts below them that carry the emulator's hardest
concurrency and recovery: the two-thread variant of the main loop, the thread
pool for disk I/O, and the crash-safe QED image format.

| Part | Sources | Module | State |
|---|---|---|---|
| cycle and energy accounting | `qemu-variability.c`, `first-power-model.c` | `EnergyAccounting` | modelled, proved |
| sleep accounting | `qemu-variability.c`, `target-arm/cpu.h`, `op_helper.c` | `SleepAccounting` | modelled, proved |
| variability devices, clock control | `hw/variability_module.c`, `hw/stellaris.c` | `EnergyAccounting` | partly |
| translation block cache | `exec.c`, `exec-all.h`, `cpu-exec.c` | `TbCache` | partly, proved |
| cycle counters of blocks | `target-arm/translate.c`, `translate-all.c` | `TbCharging` (extends `TbCache`) | partly, proved |
| main loop and alarm, no I/O thread | `cpus.c`, `vl.c`, `qemu-timer.c`, `cpu-exec.c` | `MainLoop` | partly, proved |
| monitor commands of the extension | `monitor.c`, `qmp-commands.hx` | `EnergyAccounting`, `ErrorWindow` | the two queries, `singlestep` |
| configuration file | `vl.c`, `qemu-variability.c` | `VarConfig` | modelled, proved |
| error windows, single stepping | `target-arm/translate.c`, `translate-all.c`, `cpu-exec.c` | `ErrorWindow` (extends `VarConfig`) | modelled, proved |
| error model | `error_model.c` | `ErrorWindow` | when it is called |
| main loop with I/O thread | `cpus.c`, `vl.c`, `cpu-exec.c`, `exec.c` | `IoThread` | TCG only, proved |
| asynchronous disk I/O | `posix-aio-compat.c`, `aio.c`, `async.c`, `block.c` | `PosixAio`, implementing `AioService` | partly, proved |
| QED images | `block/qed*.c` | `Qed` | partly, proved |

### Not modelled

- The ARM decoder and helpers are the semantics of about a thousand
  instructions, and the TCG code generator is a compiler back end. Neither is a
  state machine of a size that can be explored.
- The static instruction maps are lookups without state.
- The other image formats, devices of other boards, network and user
  interfaces, migration, KVM, other targets and user-mode emulation are upstream
  code that the extension does not touch. They make up most of the 1.13 million
  lines of the tree, so the modelled lines are a small share of it (well below
  one percent) although the extension itself is nearly all covered.
- Within the modelled parts: `tb_find_pc`, `breakpoint_invalidate` and
  instruction counting; writes with `cpu_physical_memory_write_rom`
  (`exec.c:3956`), which puts ROM images back at a reset and writes for the
  debugger, and invalidates no block (what is shown of the cache is about stores
  of the guest and writes of devices); the sorted timer lists; cancellation,
  resizing and the offline check of QED, and its zero clusters, which this
  version reads and never makes; the transfers, `ioctl` and Linux AIO
  below the thread pool; the two halves of a 64-bit device register; the power
  down request in `IoThread`.

## Modules

Each component has a specification module, an `MC` module with the constants
TLC needs, and where there are theorems a `Proofs` module. Operators
that begin with the comment `Mutant:` are deliberately wrong variants of the
definition that follows. They document which mistake each property excludes:
with the variant in place, TLC finds the property violated.

### EnergyAccounting

`cycles`, `chkpt` and `prev` are the `total_`, `cycle_count_chkpt_` and `prev_`
variables, as functions of the counter. A counter is one of the five named ones
or one per configured class. Machine words are `0 .. WORD - 1` with wrapping
`Add` and `Sub`. Before a power model is installed, the energy structure on the
caller's stack is not filled, so reading it gives a choice from `Garbage`.
The board is chosen in `Init`, since it decides the order of start-up: on a
Stellaris, `ssys_reset` runs the clock-change handler first and the model is
installed later. On a board without a variability module every instruction
costs zero. Actions correspond to functions: `IncrementCycleCounters`,
`WriteRcc` (`ssys_write`), `DoInfoCyclecount`, `DoInfoEnergy`, `VarmodRead`,
and the two start-up steps. `older` and `changes` are history.

### SleepAccounting

One vCPU, its main loop reduced to four places. `Tick` advances `vm_clock`
anywhere while the machine runs. `halted`, `irq` and `running` are changed by
WFI, devices, the monitor, reset and disk errors. `slept` is history.

### TbCache

The state is the C data structure by structure: slots of `tbs[]`, the physical
hash table, the list of blocks per page, the page bitmap and its write count,
the virtual jump cache, the jump in each patchable exit (`jmp`) and,
separately, the list the exit is on (`list`), the dirty flags, and the write
entries of the soft TLB. Circular lists are sets of their members; hash chains
are the set of hashed blocks. A page is a few cells and a block covers one
cell, or two if it starts at the end of a page. Contents of memory are
abstracted to the history variable `stale`, the blocks whose cells were written
after translation. The jump cache has no collisions, which would only remove
entries earlier.

`FindFast`, `FindSlow`, `FindGen` (with `Enter`) are one turn of the loop of
`cpu_exec`, including the flush when the array is full and the chaining of the
previous block. `StoreUnchecked`, `StoreBitmapClear` and `StoreInvalidate` are
the three ways of a guest store, `DmaWrite` a device's. `InvalidateRange` is
`tb_invalidate_phys_page_range` and `Unchain` its effect on the jumps.
`UnlinkTb` is `cpu_unlink_tb`. `TlbFlush` and `TlbFlushPage` change the page
table along with the TLB. A write that meets one block twice on a page's list
ends in stage `"crashed"`: the second `tb_remove` follows a NULL link.

### TbCharging

Extends `TbCache` with the block counters. Every step of the cache is combined
with what it counts or charges: `StartTranslated` counts and charges,
`StartFound` charges, `StartChained` does neither, `FaultInBlock` counts again
because `cpu_restore_state` retranslates, and `TranslationFaults` leaves a
partly counted slot. `ran` is history: the cycles of the blocks started.

### MainLoop

The thread of a build without I/O thread, cut into steps wherever the alarm
signal's handler touches the same data. The handler runs on that thread and is
one atomic step that can happen between any two others. `at` is the place in
`main_loop`, `cpu_exec_all` or `cpu_exec`. Code is abstracted to `chained`:
whether the block at hand is in a closed cycle of direct jumps, which the guest
leaves only if it is unlinked. `linked` says whether the lists that start at
`current_tb` lead to that cycle, which an invalidation in between may undo;
`missed` is history: an unlinking did not reach the cycle.

### VarConfig and ErrorWindow

`VarConfig` is the command line and the file it names. A line is a record with
the keys the parser looks for; JSON text is not modelled. The actions are the
options, one round of the loop in `parse_variability_file`, and its end. A
failed assertion or a NULL pointer is phase `"dead"`; `OptionNoClasses` is a
file whose first line does not pass the parser's assertions. A line is what
`fgets` returns, so one longer than its 2000 bytes stands in the model as the
pieces it is read in, and `ConfigAsWritten` is about those.

`ErrorWindow` runs a small guest program under that configuration. `tbs` gives
the length of each cached block and `links` the patched jumps. `Translate` is
the loop of the translator, with the end of each round (`StepWindow`) where it
opens or closes a window and sets `singlestep`. `StartBlock` is one turn of
`cpu_exec`. `Fault` is an exception inside a block: `cpu_restore_state`
translates the block again, with the settings of that moment, to find where the
guest was. `Restored` holds the addresses it may come to: the block may have
become shorter than the one that ran, and then the search fails and leaves
`pc`, or stops at the block's last instruction. `pc` is
`env->regs[15]`, which a patched jump does not store.
`truePc`, `again`, `all` and `left` are history.

### IoThread

Two program counters, `io` and `tcg`, a mutex and the flags of each CPU. A
thread at `wait_x` is inside `qemu_cond_wait`; a signal or a spurious wake-up
moves it to `wake_x`, where it competes for the mutex. SIG_IPI is one pending
bit, and its handler `CpuSignal` can run between any two steps of the TCG
thread. `cpu_exec_all` is cut where the handler could make a difference:
entering a round, each CPU's turn, entering guest code, clearing
`exit_request`. The guest chooses between executing on, WFI, interrupts,
requests through devices and breakpoints. `UnlinkTb` is `cpu_unlink_tb` as it
is called from the handler and the devices. It may not reach the chain of blocks
that runs, if an invalidation has taken the lists apart, and `missed` says that
the last one did not. The guest then may stay in the chain until it is unlinked
again or leaves by itself.

### AioService and PosixAio

`AioService` is what a caller may rely on: a request is queued, run, served
and then freed by its callback or by a cancellation, never freed while it is
being run, and each request ends. `PosixAio` has the workers, the
signal, the pipe, the bottom halves and the main thread's stack of calls, and
implements `AioService` under the mapping at the end of the module.
Every section under the workers' mutex is one step.
`stack` is the nesting of synchronous calls, flushes and callbacks; the context
a request belongs to is the number of synchronous calls below it. `FlushCall`
is made from the main loop's code and from callbacks (`vm_stop` after a disk
error), outside a synchronous call. `SyncRefused` is a synchronous call whose
request is not accepted.

### Qed

The file is a function `now` from places (header, L1 table, L2 tables, sectors,
length) to contents, and `kept` holds what a crash may leave at a place
written since the last flush. One action is one completed access to the file,
with the code from its callback to the next access. `TimerHeaderFails` is the
timer's header write failing. `Crash` picks any of the
kept contents. `IoError` fails an access. `OpenCheck` is the check with repair
at open. `done` and `safe` are history: the last completed write of each
sector, and the contents allowed after a crash. `Promise` moves the completed
writes to `safe`, but for those in place to a cluster that another request is
still linking (`Linking`). `failed`, `markLost` and
`evicted` record three situations in which the code does not keep its tables
and data right; `TablesConsistent`, `ReadsSeeWrites` and `CrashSafe` claim
nothing after them (see "Seen while modelling"). `RefsCounted`,
`TimerWhenDrained` and `RequestsEnd` have no such proviso.

## What is checked

Sizes are distinct states. Every property is described at its definition.

| Run | Result | States | Shows |
|---|---|---|---|
| `energy` | holds | 69,732 | no difference wraps, a class's energy is at most the cycles charged and at least those since the last but one clock change, versatilepb energy is exact |
| `energy_accumulated` | violated | | the class energies are not accumulated over clock changes |
| `tb_cache` | holds | 1,041,525 | every findable block matches memory; pages with code are write protected; the jump cache and the running block agree with the page table; jump lists match the code, no findable block jumps to an invalid one, unlinking stops a CPU that invalidated nothing |
| `tb_charging` | holds | 157,930 | a block the loop starts is charged at least its cycles |
| `tb_charge_chained` | violated | | a block reached by a direct jump is not charged |
| `main_loop` | holds | 30,104 | no lost alarm, no sleep over work, kicks break the chains they can reach, alarms and requests are served |
| `sleep` | holds | 6,972 | no time awake is charged as sleep |
| `posix_aio` | holds | 591,032 | no request is stranded by a worker that gives up, every completion is announced to the context it belongs to, a flush returns only when nothing is left, and `AioService` is implemented, its progress included |
| `qed` | holds | 407,933 | no cluster is shared, reads see completed writes, promised data survive a crash (all but a write in place to a cluster still being linked), cached tables are counted right, the timer fires only when writes are drained, every request ends |
| `error_window` | holds | 1,090,347 | classes are as the file gives them, without all-through stepping no error is injected outside the windows and a window that is still open was never left, a fault resumes where it happened unless stepping was switched on over longer blocks |
| `error_window_restore` | violated | | with that exception included, a fault resumes at an earlier instruction |
| `iothread` | holds | 727,363 | a stopped machine executes nothing, no CPU stands still without a reason, queued work does not outlive its call, pauses return; unless unlinkings keep missing the running chain, the I/O thread gets the mutex and interrupts are taken |

The three violated ones each state what a comment or document of the repository
says, quoted with its place in `PROJECT.json`.

Each module defines the types of its variables (`TypeOK`, `ChargingTypeOK`).
They are no part of the runs; adding them as an `INVARIANT` line does not change
the results above.

### Bounds, and why they are enough

- `energy`: one named counter and two classes (the code treats members of each
  kind alike), a word of 8 values, costs up to 2, 3 cycles per class, two clock
  values. Three clock changes with charges in between fit, which is one more
  than any property looks back. `WORD` is small so that a wrap would be seen.
- `tb_cache`: two virtual and two physical pages, all page tables between them
  (so aliases, remapping and both halves of a block in one page occur), two
  cells per page, two slots (so flushes occur), a write threshold of 1 so that
  bitmaps are built at once. Two exits per block give self loops and cycles of
  two blocks. Physical pages are symmetric. Devices write whole pages here and
  single cells in `tb_charging`. The run allows a state without successor
  because of `"crashed"`. All its properties are proved for any numbers as well.
- `tb_charging`: two cells, two slots, 4 cycles.
- `main_loop`: all three modelled requests, three kicks. The alarm is one
  shot, so three kicks cover an alarm, one that strikes while it is being
  handled, and a request or an alarm after both.
- `sleep`: `vm_clock` up to 6: two complete sleeps, a stop and a reset between.
- `posix_aio`: two requests at a time and three in all, so a control block is
  reused; two workers, so one can time out while the other works; a pipe of one
  byte, so it fills up; one synchronous call inside a callback.
- `qed`: two L1 entries, two entries per L2 table, two sectors per cluster: two
  requests can meet in a sector, a cluster, an L2 table or the L1 table. Two
  requests at a time and three in all. One cached table, so eviction happens.
  One crash or one failed access in a behaviour, not both.
- `error_window`: eight instructions in two pages, ten command lines and files,
  among them both windows at once and a file without a final newline, and two
  changes of `singlestep` from the monitor: on and off again.
- `iothread`: two CPUs on the one TCG thread, which is the first number for
  which turns matter, and three events from outside (interrupts, requests,
  breakpoints, queued work, spurious wake-ups).

### Fairness

- `MainLoop`. `WF_vars(MainStep)`: the host schedules the thread, and each step
  of the loop is straight-line code or a `select` with a timeout.
  `SF_vars(CodeReturns)`: a block outside a closed chain is finite and reaches
  an exit that returns to the loop. It is strong because the block's stores may
  take the thread through invalidations on the way, during which the exit is
  not enabled. Nothing is assumed of the guest's choices or of the alarm.
- `PosixAio`. Weak fairness of each worker's steps, of the signal's delivery and
  of the main thread's own steps: they are straight-line code, and a transfer
  ends. Strong fairness of `MainLoopReads` and `MainLoopPolls`: each round of
  the main loop looks at the pipe and at the bottom halves, but between two
  rounds the thread may be busy elsewhere. Nothing makes a caller submit, cancel
  or flush.
- `Qed`. Weak fairness of each request's next access and of the timer's: the
  file below answers, with success or with an error.
- `IoThread`. Weak fairness of both threads' steps and of the delivery of a
  pending signal; strong fairness of the TCG thread taking the mutex, since the
  I/O thread releases it again and again. The I/O thread gets only weak fairness
  there: that it is not kept out is what `IoGetsTheMutex` shows of the code.
  Wake-ups without a cause are limited in number, as an endless series would
  stand for a broken host. Nothing is assumed of a guest in a chain that the
  last unlinking missed, and `IoGetsTheMutex` and `InterruptsGetTaken` speak of
  behaviours in which it is not lost there for good (`NoLostChain`).
  `InterruptsGetTaken` moreover is about those in which the I/O thread rests
  again and again, that is, does not keep the TCG thread busy with requests for
  ever.

## What is proved

Theorems hold for every value of the constants that meets the named
assumptions.

- `EnergyAccountingProofs`: `NoUnderflow`, `EnergyWithin`, `VersatileExact`,
  from `CountersAssumption`, `RccAssumption` and `WordAssumption` (which says
  the cycles of a run fit a word). The inductive invariant `EnergyInv` adds to
  the properties that checkpoints are zero until the board runs (so
  `reset_all_cycle_counters`, which clears totals only, is harmless), that the
  model is installed once the board with a module runs, and that after a clock
  change `prev` of a class is exactly the distance between the last two
  checkpoints. Without the last one, `EnergyWithin` is not preserved by the next
  clock change.
- `SleepAccountingProofs`: `SleepWithinHalt`. The invariant adds that the open
  interval of a halted CPU lies within its sleep, and that an interval left open
  by a reset cannot be closed before WFI overwrites it.
- `MainLoopProofs`: `AlarmNeverLost` is inductive as it stands.
  `NeverSleepsOverWork` needs to know where a drained pipe leaves the thread
  (`Announced`) and that what `all_cpu_threads_idle` saw still holds.
  `KickAlwaysBreaksChain` rests on `ChainInv`: inside `cpu_exec` the handler
  finds `cpu_single_env`, and once `current_tb` is set, a chained block can be
  unlinked through it; while blocks are taken apart `saved_tb` stands for it.
- `TbCacheProofs`: the seven properties of `tb_cache`, and `CountStaysEnough` and
  `LoopCharges` for `tb_charging`, from `CacheAssumption`, `CostAssumption` and
  `MaxCyclesAssumption`. `CacheInv` adds that whatever refers to a slot refers
  to one in use (so `tb_alloc` reuses none that is referred to), that a hashed
  block is on the list of each of its pages, that a bitmap covers the listed
  blocks, and that a direct jump stays in the page of its block, which is what
  keeps a running chain mapped. `ChargingImplementsCache` carries the cache's
  results over to the cache with counters.
- `IoThreadProofs`: `IoTypes`, `StillWhenStopped`, `NoCpuForgotten`,
  `WorkIsAwaited`, from `NAssumption`. `IoInv` says at which places each thread
  holds the mutex, where a pause that is under way returns to and that the
  machine does not run meanwhile, and what the flags of each CPU say at each
  place of the TCG thread.
- `PosixAioProofs`: `NoRequestStranded`, `CompletionsReachTheirContext`,
  `CallbacksStayInContext`, `FlushReturnsDrained`, and `PoolImplementsService`,
  the refinement of the safety part of `AioService`, from the four assumptions
  of `PosixAio`. `AioInv` says which call may be above which on the main
  thread's stack (`StackInv`), that a request is queued, in the hands of one
  worker, or finished (`PoolInv`), and that one made in a nested context is
  awaited by the synchronous call of that context (`ContextInv`).
- `ErrorWindowProofs`: `WindowClosesInTime`, `ErrorsStayInside`,
  `RestoreStaysExact` and `ConfigStaysAsWritten`, from `ProgramAssumption`,
  `BoundsAssumption` and `OptionsAssumption`. `WindowInv` says that while a
  window is open all cached code lies inside it, and that a cached block of more
  than one instruction would be as long if translated again, unless stepping was
  switched on since. `ConfigInv` says of every point of the file that the last
  line read that names an instruction decides its class.
- `QedProofs`: `ReferencesAreCounted` and `TimerFindsQueueDrained`, from
  `SizeAssumption` and `RequestAssumption`. `RefInv` adds that a table being
  loaded or made is nobody else's until it is in the cache; `QueueInv` that all
  allocating writes wait while the mark is taken back.

Only model-checked: liveness, which the proof system does not cover, with the
progress part of `AioService`; and `TablesConsistent`, `ReadsSeeWrites` and
`CrashSafe` of `Qed`.

## Seen while modelling

The following are visible in the models. Unless a run is named they are not the
subject of one.

- Slots of `tbs[]` are reused after `tb_flush` without clearing `cycle_count[]`
  (`exec.c:669`), and `cpu_restore_state` counts a block again
  (`translate-all.c:126`). Counters thus only cover the block's cycles
  (`CountCoversCode`) and do not equal them.
- `do_info_cyclecount` reports the named totals, which nothing increments since
  the switch in `increment_cycle_counter` is commented out.
- On a Stellaris the named `prev_` energies start from uninitialised memory, as
  the clock-change handler runs before a model is installed.
- `accumulate_energy` assigns the class energies (`qemu-variability.c:218`) where
  it adds the named ones, so that all but the last clock period are lost. The
  run `energy_accumulated` shows it, `ClassEnergyWithin` what can be relied on
  whether or not they are added.
- `do_info_energy` sums the five named energies only (`qemu-variability.c:318`),
  which stay zero.
- A question asked of `cpu_has_work` ends the sleep interval whatever its answer
  (`target-arm/cpu.h:528`), so most of the time asleep is not charged.
- The cycles of a block are charged before it runs (`cpu-exec.c:583`). One that
  faults in its first instruction is charged in full, and again when restarted.
- Snapshots do not contain the extension's counters (`savevm.c:2008`), so after
  `loadvm` totals and checkpoints belong to another history of the guest.
- A block that has left the lists because it was invalidated is not followed by
  `cpu_unlink_tb`, so a cycle of blocks entered through it is not broken. Hence
  the provisos `quiet` in `UnlinkStopsQuietCpu` and `missed` in `AlarmServed`,
  `RequestServed`, `KickBreaksChain` and in the two properties of `IoThread` named
  under Fairness.
- Such a block also keeps its patched exits while it is on nobody's list, so it
  can jump to a block that was invalidated after it (`exec.c:897`).
- An alarm that strikes inside `tb_invalidate_phys_page_range` finds `current_tb`
  hidden (`exec.c:1093`) and unlinks nothing.
- A block both halves of which lie in one physical page is on that page's list
  twice, and a write over both removes it twice (`exec.c:1090`).

Configuration and error windows:

- The two windows are alternatives in the parser's `else if`, so a line with
  both, as in `QMP/variability_input_data.txt:4`, sets only the first.
- The last line of a file that ends in a newline is processed twice. A file that
  holds only the class line and a newline ends in a NULL pointer.
- Both bounds are exclusive. The `icount` window is compared with an address.
- An interrupt handler outside the window closes it for good.
- Register errors are applied only when their list is empty, where they
  dereference NULL. The lists filled from the file are read by nobody.
- Single-instruction blocks that are chained are not seen by the error and
  power models.
- `get_map_entry` returns NULL for a name it does not know, and the result is
  used at once (`target-arm/translate.c:111`).

Disk I/O:

- `qemu_bh_poll` called inside a bottom half frees entries that the outer walk
  still holds (`async.c:138`). Bottom halves are a set in the model.
- The `ECANCELED` branch of `posix_aio_process_queue` is never taken.
- `qemu_aio_flush` inside a synchronous call would wait for ever for a request
  of the outer context. No caller does that.
- The scan of completed requests is newest first, so a steady stream of new ones
  can keep an old one waiting.

QED:

- The need-check mark is written but not flushed before the tables (`qed.c:1132`),
  so a crash may keep the tables and lose the mark (`markLost`).
- `qed_aio_write_flush_before_l2_update` overwrites the result of the data write
  (`qed.c:998`), and the prefill that of the header. The tables in memory are
  changed before the writes that may fail (`failed`).
- A table that is evicted while in use can be read again before its change is
  written, which leaves a stale copy in the cache (`evicted`). It takes a full
  cache; the code keeps 50 tables.
- A write in place to a cluster whose L2 entry is still being written is
  acknowledged at once (`qed.c:1147`). In `cache=writethrough` too, a crash then
  can lose it with the entry; the exception in `Promise` allows for that.

I/O thread:

- The caller of `run_on_cpu` needs the mutex back when its work is done, and
  neither announces that nor kicks (`cpus.c:712`). While the guest does not idle
  it may wait for long.
- `pause_all_vcpus` can leave `stop` set on a CPU that was stopped already. It is
  cleared when the CPU resumes.
- After a breakpoint `next_cpu` is not advanced, so the TCG thread spins on that
  CPU until it is asked for the mutex.
- `qemu_shutdown_requested` reads the flag and then clears it (`vl.c:1290`). A
  SIGTERM between the two is forgotten.

## Further work, in order

1. Proofs of `TablesConsistent`, then of `ReadsSeeWrites` and `CrashSafe`, of
   `Qed`: which request owns which new cluster from its allocation to its link.
2. An abstract "self-modifying code is transparent" specification that
   `TbCache` refines where no invalidated block is still running.
3. A guest reading a 64-bit counter of the device in two 32-bit accesses, each
   of which computes the value anew.
4. `tb_find_pc` as a function, `breakpoint_invalidate`, instruction counting.
