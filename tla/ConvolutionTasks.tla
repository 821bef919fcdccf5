--------------------------- MODULE ConvolutionTasks ----------------------------
(***************************************************************************)
(* How the task graph comes about: the constructor of                      *)
(* FirMultiChannelCrossover (src/crossover/fir_crossover.h) and, for each  *)
(* filter, Convolution::getOutputTasks (src/crossover/convolution.h).  One *)
(* action is one Task::create, in the order the code makes them.           *)
(*                                                                         *)
(* A task is <<kind, filter or channel, number>>.  What its callback adds  *)
(* up is the function sums: how often each block of the filter is in the   *)
(* artifact.                                                               *)
(***************************************************************************)
EXTENDS Integers, SequencesExt

CONSTANTS
  Channels,  \* the input channels, 0 .. numInputChannels - 1
  Configs    \* the filter lists to build graphs for, and the fan-in to use

VARIABLES
  config,        \* channelFilters and combineBlocks, chosen once
  dependencies,  \* dependencies_ of each Task object
  dependents,    \* dependents_ of each Task object
  filter,        \* index of the filter whose tasks are being created
  phase,         \* where getOutputTasks is
  i,             \* the loop index of the leaf tasks: a block; then it counts on
  deps,          \* the local deps of getOutputTasks: the input and the leaves
  sumUp,         \* sumUpTasks, front first
  sums,          \* how often each task's artifact holds each block
  results        \* finalDeps: the result tasks of the filters before this one

graphVars ==
  <<config, dependencies, dependents, filter, phase, i, deps, sumUp, sums, results>>

(* At least one filter, of at least one block. *)
IsConfig(c) ==
  /\ c \in [filters : Seq([channel : Channels, numBlocks : Nat \ {0}]),
            combine : Nat \ {0}]
  /\ c.filters # <<>>

ASSUME ConfigsAssumption == IsFiniteSet(Channels) /\ \A c \in Configs : IsConfig(c)

Made         == DOMAIN dependencies
Filters      == DOMAIN config.filters
ChannelOf(f)   == config.filters[f].channel
BlocksIn(f)  == config.filters[f].numBlocks
Job(kind, n) == <<kind, n, 0>>

NumBlocks == BlocksIn(filter)
Input     == Job("in", ChannelOf(filter))
Task(kind, n) == <<kind, filter, n>>
Combined  == Job("combined", 0)

Nothing == [b \in 0 .. NumBlocks - 1 |-> 0]
Plus(f, g) == [b \in DOMAIN f |-> f[b] + g[b]]

With(f, t, v) == [u \in DOMAIN f \cup {t} |-> IF u = t THEN v ELSE f[u]]

(* One Task::create with what the new task's callback computes. *)
Create(t, ds, value) ==
  /\ dependencies' = With(dependencies, t, ds)
  /\ LET Named(u) == Cardinality({n \in DOMAIN ds : ds[n] = u})
         pushed == [u \in Made |-> dependents[u] \o [k \in 1 .. Named(u) |-> t]]
     IN  dependents' = With(pushed, t, <<>>)
  /\ sums' = With(sums, t, value)

(* The input jobs come first; the empty vector has no entry for them.  The  *)
(* filters, config, are the arguments of the constructor.                   *)
InitGraph ==
  /\ dependencies = [t \in {Job("in", c) : c \in Channels} |-> <<>>]
  /\ dependents = dependencies
  /\ filter = 1
  /\ phase = "root"
  /\ i = 0
  /\ deps = <<>>
  /\ sumUp = <<>>
  /\ sums = <<>>
  /\ results = <<>>
--------------------------------------------------------------------------------
CreateRoot ==
  /\ phase = "root"
  /\ Create(Task("root", 0), <<>>, Nothing)
  /\ phase' = "leaves"
  /\ i' = 1
  /\ deps' = <<Input>>
  /\ UNCHANGED <<config, filter, sumUp, results>>

(* multiplyAddBlocks(i, ..., combineBlocks): blocks up to min(numBlocks_, ..). *)
LeafBlocks ==
  [b \in 0 .. NumBlocks - 1 |->
     IF b \in i .. Min({NumBlocks, i + config.combine}) - 1 THEN 1 ELSE 0]

(* Mutant: the loop goes from one block to the next. *)
Mut_LeafPerBlock ==
  /\ phase = "leaves"
  /\ i < NumBlocks
  /\ Create(Task("leaf", i), <<Task("root", 0)>>, LeafBlocks)
  /\ deps' = Append(deps, Task("leaf", i))
  /\ i' = i + 1
  /\ UNCHANGED <<config, filter, phase, sumUp, results>>

CreateLeaf ==
  /\ phase = "leaves"
  /\ i < NumBlocks
  /\ Create(Task("leaf", i), <<Task("root", 0)>>, LeafBlocks)
  /\ deps' = Append(deps, Task("leaf", i))
  /\ i' = i + config.combine
  /\ UNCHANGED <<config, filter, phase, sumUp, results>>

(* Mutant: the shift only waits for the input. *)
Mut_ShiftAfterInput ==
  /\ phase = "leaves"
  /\ i >= NumBlocks
  /\ Create(Task("shift", 0), <<Input>>, Nothing)
  /\ sumUp' = Tail(deps)
  /\ phase' = "sums"
  /\ UNCHANGED <<config, filter, i, deps, results>>

(* The shift overwrites a block of the delay line the leaves have read. *)
CreateShift ==
  /\ phase = "leaves"
  /\ i >= NumBlocks
  /\ Create(Task("shift", 0), deps, Nothing)
  /\ sumUp' = Tail(deps)
  /\ phase' = "sums"
  /\ UNCHANGED <<config, filter, i, deps, results>>

FanIn == Min({Max({2, config.combine}), Len(sumUp)})

(* What the callback of a task adds up from the artifacts of the operands. *)
Added(operands) ==
  LET Upto[k \in 0 .. Len(operands)] ==
        IF k = 0 THEN Nothing ELSE Plus(Upto[k - 1], sums[operands[k]])
  IN  Upto[Len(operands)]

(* Mutant: the fan-in is combineBlocks, even if that is one. *)
Mut_FanInOne ==
  /\ phase = "sums"
  /\ Len(sumUp) > 1
  /\ LET n == Min({config.combine, Len(sumUp)})
         operands == SubSeq(sumUp, 1, n)
     IN  /\ Create(Task("sum", i), operands, Added(operands))
         /\ sumUp' = Append(SubSeq(sumUp, n + 1, Len(sumUp)), Task("sum", i))
  /\ i' = i + 1
  /\ UNCHANGED <<config, filter, phase, deps, results>>

(* sumBlocks over the first tasks of the list; the sum goes to its end. *)
CreateSum ==
  /\ phase = "sums"
  /\ Len(sumUp) > 1
  /\ LET operands == SubSeq(sumUp, 1, FanIn)
     IN  /\ Create(Task("sum", i), operands, Added(operands))
         /\ sumUp' = Append(SubSeq(sumUp, FanIn + 1, Len(sumUp)), Task("sum", i))
  /\ i' = i + 1
  /\ UNCHANGED <<config, filter, phase, deps, results>>

(* H_ times the input's block, plus the sum of the others if there are any. *)
CreateCombine ==
  /\ phase = "sums"
  /\ Len(sumUp) <= 1
  /\ LET newest == [Nothing EXCEPT ![0] = 1]
     IN  Create(Task("combine", 0), <<Input>> \o sumUp, Plus(newest, Added(sumUp)))
  /\ phase' = "result"
  /\ UNCHANGED <<config, filter, i, deps, sumUp, results>>

(* Mutant: the result does not wait for the shift. *)
Mut_ResultAfterCombine ==
  /\ phase = "result"
  /\ Create(Task("result", 0), <<Task("combine", 0)>>, sums[Task("combine", 0)])
  /\ results' = Append(results, Task("result", 0))
  /\ IF filter < Len(config.filters)
       THEN filter' = filter + 1 /\ phase' = "root"
       ELSE filter' = filter /\ phase' = "combined"
  /\ UNCHANGED <<config, i, deps, sumUp>>

(* Mutant: the loop over channelFilters runs past the last filter. *)
Mut_NextFilterAlways ==
  /\ phase = "result"
  /\ Create(Task("result", 0), <<Task("combine", 0), Task("shift", 0)>>,
            sums[Task("combine", 0)])
  /\ results' = Append(results, Task("result", 0))
  /\ filter' = filter + 1 /\ phase' = "root"
  /\ UNCHANGED <<config, i, deps, sumUp>>

(* The result task of the filter, and on to the next filter. *)
CreateResult ==
  /\ phase = "result"
  /\ Create(Task("result", 0), <<Task("combine", 0), Task("shift", 0)>>,
            sums[Task("combine", 0)])
  /\ results' = Append(results, Task("result", 0))
  /\ IF filter < Len(config.filters)
       THEN filter' = filter + 1 /\ phase' = "root"
       ELSE filter' = filter /\ phase' = "combined"
  /\ UNCHANGED <<config, i, deps, sumUp>>

CreateCombined ==
  /\ phase = "combined"
  /\ Create(Combined, results, <<>>)
  /\ phase' = "done"
  /\ UNCHANGED <<config, filter, i, deps, sumUp, results>>

BuildGraph ==
  \/ CreateRoot \/ CreateLeaf \/ CreateShift \/ CreateSum
  \/ CreateCombine \/ CreateResult \/ CreateCombined
--------------------------------------------------------------------------------
(* The inductive invariant. *)

Kinds == {"in", "root", "leaf", "shift", "sum", "combine", "result", "combined"}

Of(kind)   == {t \in Made : t[1] = kind}
PartsOf(f) == {t \in Of("leaf") \cup Of("sum") : t[2] = f}

(* The type of every variable. *)
GraphTypeOK ==
  /\ IsConfig(config)
  /\ filter \in Filters
  /\ phase \in {"root", "leaves", "sums", "result", "combined", "done"}
  /\ i \in Nat /\ (phase # "root" => i # 0)
  /\ IsFiniteSet(Made)
  /\ \A t \in Made : t = <<t[1], t[2], t[3]>> /\ t[1] \in Kinds
  /\ dependencies \in [Made -> Seq(Made)]
  /\ dependents \in [Made -> Seq(Made)]
  /\ deps \in Seq(Made) /\ sumUp \in Seq(Made) /\ results \in Seq(Made)
  /\ DOMAIN sums = Made \ Of("in")

(* dependents_ is the inverse of dependencies_, and neither holds a task    *)
(* twice.                                                                   *)
LinksOK ==
  /\ \A d, t \in Made : d \in ToSet(dependencies[t]) <=> t \in ToSet(dependents[d])
  /\ \A t \in Made : IsInjective(dependencies[t]) /\ IsInjective(dependents[t])

(* The filters past the phases named; the current one is in one of them.    *)
Past(phases) == {f \in Filters : f < filter \/ (f = filter /\ phase \in phases)}

Begun    == Past({"leaves", "sums", "result", "combined", "done"})
Shifted  == Past({"sums", "result", "combined", "done"})
Joined   == Past({"result", "combined", "done"})
Finished == Past({"combined", "done"})

(* The tasks there are. *)
NamesOK ==
  /\ phase \in {"combined", "done"} => filter = Len(config.filters)
  /\ Of("in") = {Job("in", c) : c \in Channels}
  /\ Of("root") = {Job("root", f) : f \in Begun}
  /\ Of("shift") = {Job("shift", f) : f \in Shifted}
  /\ Of("combine") = {Job("combine", f) : f \in Joined}
  /\ Of("result") = {Job("result", f) : f \in Finished}
  /\ Of("combined") = IF phase = "done" THEN {Combined} ELSE {}
  /\ \A t \in Of("leaf") : /\ t[2] \in Begun
                           /\ t[3] \in 1 .. BlocksIn(t[2]) - 1
                           /\ t[2] = filter /\ phase = "leaves" => t[3] < i
  /\ \A t \in Of("sum") : /\ t[2] \in Shifted
                          /\ t[3] \in Nat
                          /\ t[2] = filter /\ phase = "sums" => t[3] < i

(* What each task depends on.  A sum comes after the sums it adds. *)
DependenciesOK ==
  /\ \A t \in Of("in") \cup Of("root") : dependencies[t] = <<>>
  /\ \A t \in Of("leaf") : dependencies[t] = <<Job("root", t[2])>>
  /\ \A t \in Of("shift") \cup Of("combine") :
        dependencies[t] # <<>> /\ dependencies[t][1] = Job("in", ChannelOf(t[2]))
  /\ \A t \in Of("shift") :
        ToSet(dependencies[t]) = {Job("in", ChannelOf(t[2]))} \cup {u \in Of("leaf") : u[2] = t[2]}
  /\ \A t \in Of("sum") :
        /\ ToSet(dependencies[t]) \subseteq PartsOf(t[2])
        /\ \A u \in ToSet(dependencies[t]) : u[1] = "sum" => u[3] < t[3]
  /\ \A t \in Of("combine") :
        ToSet(dependencies[t]) \subseteq {Job("in", ChannelOf(t[2]))} \cup PartsOf(t[2])
  /\ \A t \in Of("result") :
        ToSet(dependencies[t]) = {Job("combine", t[2]), Job("shift", t[2])}
  /\ \A t \in Of("combined") : dependencies[t] = results
  /\ ToSet(results) = Of("result")

(* The lists of tasks under construction. *)
ListsOK ==
  /\ IsInjective(results)
  /\ phase = "leaves" =>
        /\ deps # <<>> /\ deps[1] = Input /\ IsInjective(deps)
        /\ ToSet(Tail(deps)) = {t \in Of("leaf") : t[2] = filter}
  /\ phase = "sums" => IsInjective(sumUp) /\ ToSet(sumUp) \subseteq PartsOf(filter)

(* A task without dependents is waited for by nobody yet, is the root of a  *)
(* filter of one block, or is the input of a channel without filters.       *)
OpenOK ==
  \A t \in Made : dependents[t] = <<>> =>
     \/ t[1] = "in" /\ \A f \in Shifted : ChannelOf(f) # t[2]
     \/ t[1] = "root" /\ (BlocksIn(t[2]) = 1 \/ (t[2] = filter /\ phase = "leaves" /\ i = 1))
     \/ t[1] = "leaf" /\ t[2] = filter /\ phase = "leaves"
     \/ t[1] = "sum" /\ phase = "sums" /\ t \in ToSet(sumUp)
     \/ t[1] \in {"shift", "combine"} /\ t[2] = filter /\ phase \in {"sums", "result"}
     \/ t[1] = "result" /\ phase # "done"
     \/ t = Combined

(* The blocks an artifact holds. *)
Held(t) == {b \in DOMAIN sums[t] : sums[t][b] = 1}

(* A set of blocks is divided among the artifacts of a set of tasks. *)
Splits(S, ts) ==
  /\ S = UNION {Held(t) : t \in ts}
  /\ \A t, u \in ts : t # u => Held(t) \cap Held(u) = {}

(* No artifact holds a block twice, and each holds what it should. *)
SumsOK ==
  /\ \A t \in Made : t[1] \in {"leaf", "sum", "combine", "result"} =>
        sums[t] \in [0 .. BlocksIn(t[2]) - 1 -> {0, 1}]
  /\ \A t \in Of("leaf") :
        Held(t) = {b \in 0 .. BlocksIn(t[2]) - 1 : t[3] <= b /\ b < t[3] + config.combine}
  /\ \A t \in Of("sum") : Splits(Held(t), ToSet(dependencies[t]))
  /\ \A t \in Of("combine") :
        /\ Held(t) = 0 .. BlocksIn(t[2]) - 1
        /\ Splits(1 .. BlocksIn(t[2]) - 1, ToSet(dependencies[t]) \ Of("in"))
  /\ \A t \in Of("result") : Held(t) = 0 .. BlocksIn(t[2]) - 1
  /\ phase = "leaves" => Splits({b \in 1 .. NumBlocks - 1 : b < i}, ToSet(Tail(deps)))
  /\ phase = "sums" => Splits(1 .. NumBlocks - 1, ToSet(sumUp))

(* A filter gets fewer sums than leaves. *)
Number(kind, f) == Cardinality({t \in Of(kind) : t[2] = f})

CountsOK ==
  /\ \A f \in Filters : Number("sum", f) # 0 => Number("sum", f) < Number("leaf", f)
  /\ phase = "leaves" => Len(deps) = 1 + Number("leaf", filter)
  /\ phase = "sums" => Number("sum", filter) + Len(sumUp) <= Number("leaf", filter)

GraphInv ==
  /\ GraphTypeOK /\ LinksOK /\ NamesOK /\ DependenciesOK /\ ListsOK /\ OpenOK
  /\ SumsOK /\ CountsOK
--------------------------------------------------------------------------------
(* Properties. *)

(***************************************************************************)
(* The result of each filter holds every block of the filter once,         *)
(* whatever the number of blocks and the fan-in: the last leaf may have    *)
(* fewer blocks, and the last sums fewer operands.                         *)
(***************************************************************************)
EveryBlockOnce ==
  phase = "done" =>
    \A f \in Filters : \A b \in 0 .. BlocksIn(f) - 1 : sums[Job("result", f)][b] = 1

(***************************************************************************)
(* Nothing of a filter reads the delay line while its shift writes it: the *)
(* shift waits for every leaf, and takes its block from the task it names  *)
(* first, the input of the filter's channel.                               *)
(***************************************************************************)
ShiftAfterLeaves ==
  phase = "done" =>
    \A t \in Of("shift") :
       /\ dependencies[t][1] = Job("in", ChannelOf(t[2]))
       /\ \A u \in Of("leaf") : u[2] = t[2] => u \in ToSet(dependencies[t])

(* The graph as the modules TaskRunner and Crossover know it. *)
Built ==
  INSTANCE CrossoverGraph
    WITH Tasks <- Made,
         Deps <- [t \in Made |-> ToSet(dependencies[t])],
         Dependents <- dependents,
         Channel <- [f \in Filters |-> ChannelOf(f)],
         NumBlocks <- [f \in Filters |-> BlocksIn(f)],
         Combine <- [f \in Filters |-> config.combine]

(* Every filter has two blocks or more, and every channel a filter. *)
AllInUse ==
  /\ \A f \in Filters : BlocksIn(f) > 1
  /\ \A c \in Channels : \E f \in Filters : ChannelOf(f) = c

(***************************************************************************)
(* The graph is one TaskRunner can run round after round: dependents_ is   *)
(* the inverse of dependencies_, and neither names a task twice; the       *)
(* combined task has no dependents, and is the only such task if           *)
(* everything is in use.  Then it is also the graph Crossover assumes,     *)
(* with the blocks of each filter divided among its leaves.                *)
(***************************************************************************)
OneRoundGraph ==
  phase = "done" =>
    /\ Built!IsGraph
    /\ \A t \in Made : IsInjective(dependencies[t])
    /\ dependents[Combined] = <<>>
    /\ AllInUse => Built!Layout /\ Built!IsCover([t \in Built!Parts |-> Held(t)])

(***************************************************************************)
(* The while loop over sumUpTasks ends: a filter gets fewer sums than it   *)
(* has leaves, because each sum replaces at least two tasks of the list,   *)
(* also with combineBlocks = 1.                                            *)
(***************************************************************************)
SummingEnds ==
  \A f \in Filters : Number("sum", f) # 0 => Number("sum", f) < Number("leaf", f)
================================================================================
