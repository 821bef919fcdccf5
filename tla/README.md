# Verification of the DxO crossover

DxO is an ALSA plugin that splits a stereo stream (with or without an LFE
channel) into seven speaker channels with FIR filters. The filters are long, so
they are applied as uniformly partitioned convolutions: a graph of tasks that a
small pool of threads runs once per block of samples. This directory holds TLA+
models of the program, the TLC runs that check them, and theorems about them
that TLAPS proves. `PROJECT.json` lists runs, mutants, theorems, findings and
hazards, and maps each definition to the lines of the source it stands for.

## 1. Inventory

| Part | Source | State it keeps | Operations | Model |
|---|---|---|---|---|
| `Task` | `src/tasks/tasks.h` | `dependencies_`, `dependents_`, `dependenciesLeft_`, artifact | `create`, `execute`, `reset`, `isFinal` | `TaskGraph`, `TaskCreation`, `TaskRunner` |
| `TaskRunner` | `src/tasks/tasks.h` | `activeTasks_`, `epoch_`, `stop_`, `finalTask_`, semaphore, condition variable | `run`, `threadRun`, `restartWorker`, constructor, destructor | `TaskRounds`, `TaskRunner` |
| `ThreadSafeList` | `src/tasks/thread_safe_list.h` | `head_`, `next_` of each node | `push`, `pop` | `AtomicStack`, `ThreadSafeList`, `RunnerOnList` |
| `Convolution` | `src/crossover/convolution.h` | filter spectra, delay line ring and `firstBlock_` | task callbacks, `getOutputTasks`, `clearDelayLine` | `ConvolutionTasks`, `CrossoverGraph`, `Crossover` |
| `FirMultiChannelCrossover` | `src/crossover/fir_crossover.h` | runner, jobs, input and output buffers, convolutions | constructor, `updateInputs`, `resetFilterState`, destructor | `ConvolutionTasks`, `Crossover` |
| `AlsaPluginDxO` | `src/alsa_plugin.{h,cpp}` | block in progress, position, slave device, negotiated parameters | ioplug callbacks, `update`, `writePcm` | `AlsaPlugin` |
| plugin open function, `AlsaPluginDxO` constructor, `loadFIRCoeffs` | `src/alsa_plugin.cpp` | configuration read so far; string stream of a line, filters read so far | `SND_PCM_PLUGIN_DEFINE_FUNC`, `loadFIRCoeffs` | `PluginOpen` |
| `PcmStream`, `PcmBuffer` | `src/pcm_stream.h` | a pointer into interleaved samples | extract, load, store | `AlsaPlugin` (extract, load) |
| block arithmetic | `src/crossover/convolution.h`, `neon.h` | none | `multiply`, `multiplyAdd`, `add`, `transformFilterCoeffs` | `BlockArithmetic`, `PluginOpen` (which bins and coefficients) |
| FFT wrappers | `src/crossover/fft.h` | buffers and plans | `run` | buffers in `Crossover` |
| FFTW, Matlab scripts | vendored, data | | | not modelled |

How they interact. `dxo_transfer` copies frames into the input buffers. When a
block is full it calls `updateInputs`, which calls `TaskRunner::run` twice: with
the input tasks, waiting for the final task, and with the background tasks,
without waiting. Background tasks multiply the older blocks, which need no new
input, while the application produces the next block. `run` pushes the root
tasks on `activeTasks_` and wakes the workers; a worker runs a task, decrements
`dependenciesLeft_` of its dependents, and pushes those that reach zero. The
final task is not pushed: a semaphore tells the caller, which runs it itself.
Callbacks read the artifacts of their dependencies and write their own without
any lock. The output buffers are written to the slave device.

What is hard, and what must hold for each part:

- **Runner.** Workers, the caller and the destructor interleave at every access
  to shared memory. A task runs once per round and after its dependencies; the
  count is exact; a task is queued once; the semaphore is released once, at the
  end; no task and no wakeup is lost; `run` and the destructor return.
- **List.** It is lock-free and intrusive, and its nodes are used again in every
  round. It should behave as an atomic stack and never become cyclic.
- **Graph.** It depends on the number of blocks and on `combineBlocks`. Every
  block is added once, the shift of the delay line follows all its readers, and
  a round can end.
- **Convolution and crossover.** Concurrent callbacks share no memory that one
  of them writes. The output is exact after every block, in every position of
  the ring, and after a reset in the middle of background work. Nothing is used
  after it is freed.
- **Opening.** The filters are the data lines of the file, every coefficient is
  used once, reading ends, and success is only reported for a complete plugin.
- **Plugin.** Blocks hold consecutive frames however transfers are cut and laid
  out; no frame is unaccounted for when writes fail or the position wraps; each
  speaker plays its own filter, wherever the slave's channel map puts it; no
  device handle leaks when opening fails half way.

The list of hazards, each with its line and the properties that watch it, is in
`PROJECT.json`.

## 2. Modules

```
AtomicStack <.. ThreadSafeList --+     TaskGraph <- CrossoverGraph <- Crossover
                                 v         |            ^                | runs by
TaskRounds <.. TaskRunner <.. RunnerOnList |            | builds         v
                   ^                       v            |            TaskRounds
                   |               TaskRunner   ConvolutionTasks
             TaskRunnerUse                              |
                                                        v
                                  BlockArithmetic -> PluginOpen     AlsaPlugin
```

`A <.. B` means that B is shown to implement A; a plain arrow leads from a module
to one that is built from it. The theorems about `M` are in `MProofs`; those
of `RunnerOnList` use those of `ThreadSafeList` and `TaskRunner`, and those of
`PluginOpen` those of `ConvolutionTasks`. `SetInduction` states the induction
they need.

- `TaskGraph`: the graph as constants (`Tasks`, `Deps`, `Dependents`). `IsGraph`
  says that `dependents_` inverts `dependencies_` and holds no task twice;
  `TaskRunner`, `RunnerOnList` and `Crossover` assume it. `TaskCreation` computes
  such constants from a sequence of `Task::create` calls; only the instances for
  TLC use it.
- `CrossoverGraph`: which graph a crossover has. `Layout` says which tasks there
  are and what they depend on, `IsCover` that the leaves and sums divide the
  blocks of a filter among them. The sums may have any shape. `Crossover` assumes
  `Shape`, and `ConvolutionTasks` builds it (instance `Built`).
- `TaskRounds`: the abstract specification of the runner. In a round each task
  begins after its dependencies have ended, and the round ends when all have run.
- `TaskRunner`: the code. One action is one access to shared memory; `pc` says
  where each thread is: `top`, `epoch`, `pop`, `lock`, `park`, `parked` in
  `threadRun`; `call`, `dec`, `resolve`, `reset` in `Task::execute`; `bump`,
  `notify` in `restartWorker`; `visit`, `acquire`, `final` in `run`; `sleep`,
  `join` in the destructor. `epoch_` is only compared for equality with an
  earlier copy, so the model keeps the outcome (`seen`) and needs no bound on
  it. `dependenciesLeft_` wraps at `Modulus`. A blocking `wait` may also wake
  spuriously. The caller repeats one round (`Calls`) and may destroy the runner
  between two calls.
- `TaskRunnerUse`: the uses the code's callers make of the runner
  (`UseAssumption`), and the inductive invariant `IInv`.
- `ThreadSafeList`: `push` and `pop` split into loads, links and
  compare-and-swaps; each compare-and-swap may fail spuriously. With
  `Reuse = FALSE` a node is not pushed while a thread inside `pop` still holds
  its address. `AtomicStack` is what it should implement; the sequence of nodes
  reachable from `head` is the refinement mapping.
- `RunnerOnList`: the composition. The nodes of the list are the tasks; `pop` in
  `threadRun` and `push` in `run` and `dep_resolved` are the list's loads, links
  and compare-and-swaps, and all other steps are those of `TaskRunner`. Read with
  the list's contents as `activeTasks_`, it must be a behaviour of `TaskRunner`
  (`RunnerSpec`), so what is proved of the runner carries over.
- `ConvolutionTasks`: the constructor of the crossover with `getOutputTasks`. The
  graph is state: it begins with the input tasks, and each action is one
  `Task::create`, which adds a task, links it to its dependencies and records how
  often its artifact holds each block.
- `PluginOpen`: how a plugin comes about, on one thread: the entries of the
  configuration, the loop of `loadFIRCoeffs`, the crossover (the actions of
  `ConvolutionTasks`), and the registration with alsa-lib. A line is a sequence
  of tokens, and the string stream has its `failbit` and `eofbit`, because the
  loop asks for `eof()` alone: a word makes it push zeros for ever (`PushZeros`;
  the model stops counting at `MaxCoeffs`), a directory makes the outer loop
  spin. The tests build crossovers without a file, so the model may start there
  too.
- `BlockArithmetic`: in which order `multiply`, `multiplyAdd` and `add` go through
  the bins of a spectrum, eight at a time and one at the end, or one by one.
- `Crossover`: the callbacks and the caller over `TaskRounds`. Samples are
  symbols, a spectrum is the pair of blocks it comes from, and an artifact is
  the function from filter blocks to the spectra they are multiplied with. This
  is what the FFT and the sums compute up to arithmetic, so a wrong block, a
  stale overlap or a missing term shows as a different function. A leaf that runs
  while `clearDelayLine` writes may compute the value `Torn`.
- `AlsaPlugin`: the ioplug callbacks. Opening the slave has three outcomes, a
  write two. A transfer reads the application's memory through `addr_` and a step
  as `extractInterleaved` does, and the output buffer is filled as
  `loadInterleaved` does it, sample by sample with a step of eight. The slave has
  a channel map or none. `dxo_delay` and `dxo_query_chmaps` read state only and
  are left out.

The `MC...` modules give constants to runs. `MCTaskRunner` uses the graph of a
two-block filter; `MCTaskRunnerMisuse` has instances outside `UseAssumption`.

### Scheduling assumptions of `TaskRunner`

`Timing` names assumptions the code does not enforce. With `Timing = {}` the model
is the code on any scheduler, and that is where the findings are.

- `"round"`: a worker inside `Task::execute` when a round ends has left it before
  the caller starts the next one. The code relies on this: between two rounds
  the caller normally fetches a block of audio, and a late worker has one store
  left. With one worker it is not needed.
- `"park"`: between a false predicate and the block in `wait` no other thread
  takes a step.
- `"sleep"`: a worker in that window has blocked before the destructor's 50 ms
  are over.

`TaskRunner` takes `activeTasks_` as an atomic stack. `runner_on_list` shows that the
real list gives it one under a further assumption on timing, `PopsSettle`: a
worker that is between the load of `head_` and its compare-and-swap when a round
ends has left `pop` before the next round starts. The assumption cannot be
dropped: `list_aba` is the same model without it. With one worker it is not
needed: the node it looks at is on the list, and only this worker could take it
off.

### Fairness

`FairSpec` of `TaskRunner` has weak fairness for the caller while it is inside
`run` or the destructor, and for each worker: operating system threads that can
step do so eventually. Nothing forces the caller to call `run` again or to
destroy the runner, and no spurious wakeup is forced. `PluginOpen` has weak
fairness for the steps that read the file: one thread reads it, waiting for
nobody. `Crossover` states no fairness: that its rounds go on is what
`runner_live` shows (`ReadyRuns`, `RunReturns`).

## 3. Runs

| Run | Question | Bounds | Result |
|---|---|---|---|
| `runner_safety` | order, counts, queue, end of round, lost work, `IInv`, refinement of `TaskRounds`; the destructor returns | 6 tasks, 2 workers, `round`, `sleep` | holds |
| `runner_live` | lost wakeups, `run` returns, background progress | 6 tasks, 2 workers, `round`, `park` | holds |
| `lost_wakeup` | `run` returns | 1 worker, no assumption | violated |
| `late_reset` | `run` returns | 3 tasks in a chain, 2 workers, `park` | violated |
| `one_block` | a task is queued once | filter of one block, 1 worker | violated |
| `list_workers` | atomic stack, `ListInv` | 4 nodes, 2 poppers, 3 pushers, no early reuse | holds |
| `runner_on_list` | the runner on the list implements `TaskRunner`; the list is sound; no race on `next_`; `OnListInv` | 4 tasks, 2 workers, `round`, `PopsSettle` | holds |
| `list_aba` | the list is sound | as `runner_on_list`, without `PopsSettle` | violated |
| `graph_build` | filters as written in the file, success only if complete, reading ends; coefficients, blocks and bins used once; shift after leaves, one-round graph, loop ends; `OpenInv` | 21 files of 6 to 8 data lines, or none, block sizes 1, 2, 8, 128; 1 to 11 blocks, fan-in 1 to 4; three filters of up to 3 blocks on three channels | holds |
| `crossover` | exact outputs and delay lines, no data race, `CrossoverInv` | 2 filters of 3 blocks, one with two leaves and a sum, one with a leaf of 2 blocks | holds |
| `teardown` | no use after free | as `crossover`, silence only | violated |
| `alsa_plugin` | block assembly, position, speakers, device, and `PluginInv` (with the types) | blocks of 3, transfers up to 7 of two layouts, 25 frames, wrap at 16, 4 slaves | holds |

Why the bounds are enough to be interesting. Two workers suffice for two threads
to decrement one count, to pop and push concurrently, and for one to lag; the
theorems of section 4 remove the bound. The caller loops for ever, so rounds are
unbounded in every run. In `crossover` the rings have three slots and the run
visits every position of them with every recent history of two symbols; a reset
may come at any point of the background work. In `runner_on_list` two
roots are on the list at once and a worker pushes while the other pops, and every
task is pushed again in each of the unbounded rounds. In `graph_build` the files
have blank lines, comments, whitespace at either end, words and halves of numbers,
and the seven filters of a plugin have one to six blocks each. In `alsa_plugin` a
transfer may end inside a block, fill one or span three, and the position wraps
inside a session; the slaves have no channel map, one in the usual order with
side before centre, one that permutes all positions, and six channels.

The inductive invariants of section 4 are checked by the runs they belong to;
each contains the types. Each property has a mutant: a plausible bug, written
beside the definition it replaces (`Mut_...`), under which TLC finds the
property violated.

## 4. Proofs

Every safety invariant that a passing run checks is a theorem, for all values of
the constants that satisfy the named assumptions, and so are both refinements of
the runner, that of the list, and the absence of lost wakeups.

### The runner

`TaskRunnerProofs` proves, for every finite graph, any number of workers and
every sequence of calls that satisfy `GraphAssumption`, `RunnerAssumption` and
`UseAssumption`:

- `TypeCorrect`, `OrderCorrect`, `CountCorrect`, `QueueCorrect`, `RoundCorrect`,
  `WorkKept`: the safety invariants of the runs.
- `WakeupKept`: no lost wakeup, if `"park"` is assumed.
- `ImplementsRounds`: `TaskRunner` implements `TaskRounds` (`Spec => RoundsSpec`).

`UseAssumption` says that there is one final task, that it has dependencies and
all other tasks feed it, that the calls of a round name every root and the final
task once, and that `"round"` holds or there is a single worker. `GraphFits`,
below, proves the first of these of every crossover whose filters have two
blocks or more and whose channels all have a filter. The second is about the two
vectors `updateInputs` passes, and is only checked for the instances.

The invariant. `CountExact` alone is not inductive: it says that the count is
the number of dependencies that have not yet been *counted down*, and a worker
half way through its loop has run its task but owes decrements to the rest of
its dependents. `Owed(d, t)` names these. The rest of `IInv` says that a task is
in one place only (queued, held by a worker, about to be resolved, done), that
it gets there only when none of its dependencies is owed, that no two threads
execute one task, and how far the caller is in its calls. From this and
`AllFeed`, when the final task is resolved all others are done (`AllDone`,
`RoundOver`): the set of tasks that are done and owe nothing holds the
dependencies of the final task and is closed under dependencies. The step lemmas
follow the actions; each action that touches the counts has a lemma of its own
(`DecrementStep`, `ResolveTaskStep`, `ResetStep`, ...).

### The list

`ThreadSafeListProofs` proves, for any finite set of nodes and any threads, if no
node is pushed while a thread in `pop` holds it (`~Reuse`): `ListInvCorrect`,
`ListCorrect`, and `ImplementsStack`, the refinement of `AtomicStack`. The stack's
content is the sequence reached through `next_`, which no step names, so
`ListInv` says what the chain is (`ContentsOK`: from the head to null, each node
that is not held once) and what a compare-and-swap relies on: a thread in `push` has
a node of its own, linked to the head it compares with (`PushOK`); the node a thread
in `pop` looks at is not being pushed, and its `next_` is what the thread has read
(`PopOK`). A sequence linked by `next_` from the head to null is `Contents`
(`ContentsIs`, by induction), so a step's effect on the stack is found by giving
the new chain.

`RunnerOnListProofs` proves, under `PopsSettle`: `OnListInvCorrect`,
`ListCorrect`, `NextRaceFree`, `ImplementsRunner` (it implements `TaskRunner`
with the contents of the list as `activeTasks_`) and `ImplementsRounds`, which
composes this with the refinement of `TaskRounds`. Here nodes *are* used again,
so `PopOK` does not come from `~Reuse`. It comes from the runner: `LookedAtOK`
says that a node a worker looks at is on the list, or its task is running or
done; by the `IInv` of the runner such a task is not pushed before the next
round, and by `PopsSettle` the worker has left `pop` by then. `OnListInv` is
therefore the two invariants, this link between them, and what the two program
counters of a thread say of each other (`ThreadsOK`); neither half can be proved
without the other. `OnListAssumption` repeats the assumptions of `TaskRunner`.

### The crossover

`CrossoverProofs` proves, for every graph of the shape `ShapeAssumption` describes,
any number and length of filters, any fan-in and any set of samples:
`CrossoverInvCorrect`, `CrossoverRaceFree` (`NoDataRace`), `DelayLinesExact` and
`OutputsExact`. The steps are those of `TaskRounds`, which `ImplementsRounds` shows
the runner on the list to provide.

`OutputExact` and `DelayLineExact` speak of times between two calls;
`CrossoverInv` says what each buffer holds at every moment. The overlap of a
channel and the line of a filter are one block behind until the input task, or
the shift, has run in this update (`Pending`). From the slots of the ring
follows what a leaf reads, and from `IsCover` what a sum adds up: the artifact
of a task that is done maps each block it covers to the spectrum it is due to be
multiplied with (`PartOK`), which makes the product and the output of a filter
whole (`ProductOK`, `OutputOK`). A leaf may have read a line while
`clearDelayLine` wrote it. Such leaves belong to the first of the two updates of
`resetFilterState` (`TornOK`), whose artifacts nobody counts on (`Settled`);
between the two only silence has been fed (`CallsOK`). Absence of races needs
`RoundOK` alone: two tasks that share a cell are ordered by the graph
(`WritersOrdered`). Filters of one block are excluded by `Layout`; the run
`one_block` shows what they do.

### Building the graph

`ConvolutionTasksProofs` proves that `GraphInv` is inductive over the
`Task::create` calls of the constructor, for every number of filters, number of
blocks and fan-in (`ConfigsAssumption`: at least one filter, at least one block,
fan-in at least one, finitely many channels). Its parts: `dependents_` inverts
`dependencies_` (`LinksOK`); which tasks there are by now (`NamesOK`) and what
each depends on, a sum only on sums before it (`DependenciesOK`); what is in the
local vectors (`ListsOK`); which tasks have no dependents yet, and what will
depend on them (`OpenOK`); that the blocks are divided among the tasks in the
vectors, and those of a sum among its operands (`SumsOK`); and that there are
fewer sums than leaves, the measure by which the loop over `sumUpTasks` ends
(`CountsOK`).

From it follows `Fits`: where all channels are in use and no filter has one block
only, the finished graph satisfies `ShapeAssumption` of `Crossover`, the
`GraphAssumption` and the part of `UseAssumption` about the graph. So what the
modules above assume of their graph is proved of every such graph the program makes.
That every task feeds the combined one (`AllFeedCombined`) is an induction over
sums of sums, which have no fixed depth.

### Opening the plugin

`PluginOpenProofs` proves of every configuration, every file and every set of
filters (`OpenAssumption`, `ConfigsAssumption`): `OpenInvCorrect`,
`FiltersAsWrittenCorrect`, `OpenedCompleteCorrect`, `EveryBinOnceCorrect`,
`EveryTapOnceCorrect`, and of the graph `EveryBlockOnceCorrect`,
`ShiftAfterLeavesCorrect`, `OneRoundGraphCorrect`, `SummingEndsCorrect` and
`GraphFits` (`Spec => []Fits`). `OpenInv` adds to the properties what holds in the
middle of a file: the tokens read and those the string stream still has make up
the line, and the coefficients so far are those of the tokens read (`LineOK`); the
filters so far are the data lines before this one (`FiltersOK`); the graph under
construction satisfies `GraphInv` (`CrossoverOK`). `EveryBinOnce` and
`EveryTapOnce` are about recursive functions of `BlockArithmetic` and the
community modules (the loop over groups of eight bins, the concatenation of the
blocks of a filter).

### Induction

An induction theorem with an operator as parameter cannot be instantiated by
the provers here. `SetInduction` states induction of a *set* instead: a non-empty
set of naturals has a least element, a set that holds zero and the successors of
its elements holds all naturals, and a non-empty finite set of naturals has a greatest
one. All three rest on the library's facts about finite sets. A proof by induction
names the set of numbers for which the claim holds. For the recursive functions
`Groups` and `FlattenSeq` it gives a function that satisfies the equation
as a witness for the `CHOOSE` in their definition.

### The plugin

`AlsaPluginProofs` proves the safety properties of the plugin for every block
size, every modulus of the position, every transfer size and layout, and every
slave whose eight-channel map names eight different positions of the table
(`PluginAssumption`): `TypeCorrect`, `BlocksCorrect`, `FramesCorrect`,
`PointerCorrect`, `DeviceCorrect` and `SpeakersCorrect`.

None of these is inductive by itself. `BlocksInOrder` speaks of a full block and
`SpeakersRight` of a written one; neither says what holds while frames are still
being collected. `PluginInv` adds it: `addr_` is the address of the next frame
that is due (`AddrOK`), the block in progress holds the latest frames as far as
`inputOffset_` (`Filled`), `channelMap_` is the table applied to the map of the
open slave (`MapOK`, which needs that it is still the initial one before the first
slave is opened), and while a block is being written the output buffer is what the
outputs and the map make of it (`WrittenOK`). The step that needs care is
`CopyStep`: a remainder by the step of the areas gives the channel back only
because the step is at least the number of channels. `PointerCorrect` rests on two
lemmas about remainders (`ModuloSum`, `ModuloDivisor`): the wrap is harmless where
half the buffer size divides the modulus, and the hazards list says what happens
where it does not.

### Only model-checked

Liveness and what rests on fairness: `RunReturns`, `ReadyRuns`, `RoundsFair` and
`DestructorReturns` of the runner and `LoadEnds` of the opening; the prover has
neither `ENABLED` nor induction over behaviours. The five findings are
counterexamples of single instances by their nature. The calls of `updateInputs`
and of the constructor name all roots and the final task, which `UseAssumption`
demands, in the instances only. And the assumptions on timing (`Timing`,
`PopsSettle`) are assumptions: the code does not enforce them.

## 5. Findings

1. **Lost wakeup** (`lost_wakeup`). `restartWorker` notifies without holding
   `mutex_`. If that falls between a worker's predicate and its block, the worker
   sleeps although the list is not empty; with one worker `run` never returns.
   Holding the mutex around the increment would close the window.
2. **Late reset** (`late_reset`). `Task::execute` stores `dependenciesLeft_` after
   resolving dependents. If the round ends and the next one decrements the count
   before that store, the decrement is lost and the task is never ready.
3. **One-block filter** (`one_block`). Its `rootTask` has no dependents, so no
   round waits for it, and it can be pushed while still on the list. In addition
   `isFinal` is true for it.
4. **ABA** (`list_aba`). A worker that has read the head and its `next_` (null)
   inside `pop` is overtaken by the rest of the round. The next round pushes `root`
   and then, on top of it, the task the worker looks at; its compare-and-swap
   succeeds and installs null. `root` is lost and the round never ends.
5. **Teardown** (`teardown`). `convolutions_` is destroyed before `runner_`, while
   background tasks of the last update still use the freed memory.

## 6. Not modelled

- Weak memory. All models are sequentially consistent. The compare-and-swap of
  `pop` has no acquire ordering; what that can do on ARM is not covered.
  (`NextNotRaced` does cover the race on the plain pointer `next_`.)
- Sample values, FFT numerics, rounding, the conversion to `int16_t`, the NEON
  kernels: no control, and arithmetic TLC cannot enumerate.
- Memory ownership. Tasks hold shared pointers to dependents and dependencies;
  the cycle keeps every graph alive for ever. A plugin whose registration fails
  leaks.
- FFTW, which is vendored and makes up nearly all lines of the repository, most of
  them generated arithmetic. The program calls six of its functions, in
  `src/crossover/fft.h` and the destructor of the crossover; what their use
  requires of the program is listed with the hazards. For this reason the mapped
  share of all lines is small, although nearly all of the program's own code is
  mapped.
- `PcmBuffer`, which only the tests use, `dxo_delay` and `dxo_query_chmaps`, which
  change nothing, logging, sample rates, and alsa-lib itself.

## 7. Plan

Done, in this order: `TaskGraph`, `TaskRounds`, `TaskRunner` with `IInv` and its
proofs; `ThreadSafeList`; `ConvolutionTasks`; `Crossover`; `AlsaPlugin`;
`RunnerOnList`; `PluginOpen` and `BlockArithmetic`; the channel map and the memory
layout in `AlsaPlugin`; `AlsaPluginProofs`; `CrossoverGraph`; the proofs about the
list, the runner on the list, the crossover, the construction of its graph and the
opening of the plugin.

Left:

1. A statement of the calls of `updateInputs` over the graph `ConvolutionTasks`
   builds, so that the rest of `UseAssumption` is proved as well.
2. `Crossover` over `RunnerOnList` instead of `TaskRounds`: the callbacks then run
   between the steps of `Task::execute`. `ImplementsRounds` makes it a matter of
   composition, but the history of a callback's reads has to be carried along.
3. `AlsaPlugin` over `Crossover` (one block per `updateInputs`, a prepare that does
   not reset the filters), once it is decided what a prepare should do to the
   tail of the old stream.
