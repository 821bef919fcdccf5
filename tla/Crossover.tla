------------------------------- MODULE Crossover -------------------------------
(***************************************************************************)
(* FirMultiChannelCrossover (src/crossover/fir_crossover.h) and the task   *)
(* callbacks of Convolution (src/crossover/convolution.h), run by the      *)
(* rounds TaskRounds promises: which memory each callback reads and        *)
(* writes, and what the output buffers hold after each block.              *)
(*                                                                         *)
(* Samples are symbols.  The spectrum of an input block is the pair of the *)
(* block before and the block; an artifact is the function from a filter   *)
(* block to the spectrum it is multiplied with, which says what the sum    *)
(* adds up.  A task is <<kind, filter or channel, number>> as in           *)
(* ConvolutionTasks.                                                       *)
(***************************************************************************)
EXTENDS CrossoverGraph, SequencesExt

CONSTANTS
  Samples,    \* the blocks a caller may put in an input buffer
  Silence,    \* the block of zeros
  Torn        \* what a leaf computes from memory written meanwhile

ASSUME CrossoverAssumption ==
  /\ Channel \in [Filters -> Channels]
  /\ NumBlocks \in [Filters -> Nat \ {0}]
  /\ Combine \in [Filters -> Nat \ {0}]
  /\ Silence \in Samples /\ Torn \notin Samples \X Samples

VARIABLES
  submitted, running, done,  \* the round, see TaskRounds
  caller,    \* where the thread that owns the crossover is
  updates,   \* calls of updateInputs the caller has yet to make
  input,     \* the input buffers
  overlap,   \* overlapBuffer of each channel
  spectrum,  \* the artifact of each input task
  line,      \* delayLine_ of each filter, by slot
  first,     \* firstBlock_ of each filter
  part,      \* the artifacts of the leaf and sum tasks
  product,   \* the artifact of each combine task: the input of inverseFft_
  output,    \* the output buffers
  torn,      \* leaves running while the delay lines are cleared
  fed,       \* history: the latest blocks fed since construction or reset
  answered   \* history: an update has returned

rounds == <<submitted, running, done>>
data   == <<input, overlap, spectrum, line, first, part, product, output>>
vars   == <<rounds, caller, updates, data, torn, fed, answered>>

Rounds == INSTANCE TaskRounds

Zero == <<Silence, Silence>>

(* getBlock: the slot of a block of the delay line. *)
Slot(f, b) == b - first[f] + IF b < first[f] THEN NumBlocks[f] ELSE 0

(* The graph is one that ConvolutionTasks builds. *)
ASSUME ShapeAssumption == IsGraph /\ Shape

(* The blocks each artifact adds up. *)
Covers == CHOOSE cov \in [Parts -> SUBSET (1 .. Longest - 1)] : IsCover(cov)

(* The history is as long as the longest filter needs it, latest first; what *)
(* was before the first block is silence.                                    *)

Quiet == [n \in 1 .. Longest + 1 |-> [c \in Channels |-> Silence]]

Remember(block) == fed' = <<block>> \o Front(fed)

(* The constructor, up to run(backgroundJobs_, false). *)
Init ==
  /\ Rounds!Init
  /\ caller = "background"
  /\ updates = 0
  /\ input = [c \in Channels |-> Silence]
  /\ overlap = [c \in Channels |-> Silence]
  /\ spectrum = [c \in Channels |-> Zero]
  /\ line = [f \in Filters |-> [s \in 0 .. NumBlocks[f] - 1 |-> Zero]]
  /\ first = [f \in Filters |-> 0]
  /\ part = [t \in Parts |-> <<>>]
  /\ product = [f \in Filters |-> <<>>]
  /\ output = [f \in Filters |-> <<>>]
  /\ torn = {}
  /\ fed = Quiet
  /\ answered = FALSE
--------------------------------------------------------------------------------
(* The task callbacks. *)

(* Workers take tasks until the destructor of runner_ has joined them. *)
Begin(t) ==
  /\ caller # "gone"
  /\ Rounds!Begin(t)
  /\ torn' = IF caller = "clearing" /\ Kind(t) = "leaf" THEN torn \cup {t} ELSE torn
  /\ UNCHANGED <<caller, updates, data, fed, answered>>

End(t) ==
  /\ Rounds!End(t)
  /\ torn' = torn \ {t}
  /\ UNCHANGED <<caller, updates, fed, answered>>

EndInput(t) ==
  /\ Kind(t) = "in"
  /\ LET c == t[2]
     IN  /\ spectrum' = [spectrum EXCEPT ![c] = <<overlap[c], input[c]>>]
         /\ overlap' = [overlap EXCEPT ![c] = input[c]]
  /\ End(t)
  /\ UNCHANGED <<input, line, first, part, product, output>>

(* multiplyAddBlocks *)
EndLeaf(t) ==
  /\ Kind(t) = "leaf"
  /\ \E read \in {[b \in Blocks(t) |-> line[t[2]][Slot(t[2], b)]]}
           \cup IF t \in torn THEN {[b \in Blocks(t) |-> Torn]} ELSE {} :
       part' = [part EXCEPT ![t] = read]
  /\ End(t)
  /\ UNCHANGED <<input, overlap, spectrum, line, first, product, output>>

(* The sum of the artifacts of a set of tasks. *)
Total(ts) ==
  [b \in UNION {DOMAIN part[t] : t \in ts} |->
     part[CHOOSE t \in ts : b \in DOMAIN part[t]][b]]

(* sumBlocks *)
EndSum(t) ==
  /\ Kind(t) = "sum"
  /\ part' = [part EXCEPT ![t] = Total(Deps[t])]
  /\ End(t)
  /\ UNCHANGED <<input, overlap, spectrum, line, first, product, output>>

(* Mutant: pushBlock moves firstBlock_ before it copies the block. *)
Mut_ShiftMovesFirst(t) ==
  /\ Kind(t) = "shift"
  /\ LET f == t[2]
         next == IF first[f] + 1 = NumBlocks[f] THEN 0 ELSE first[f] + 1
         slot == IF next = 0 THEN 0 ELSE NumBlocks[f] - next
     IN  /\ line' = [line EXCEPT ![f][slot] = spectrum[Channel[f]]]
         /\ first' = [first EXCEPT ![f] = next]
  /\ End(t)
  /\ UNCHANGED <<input, overlap, spectrum, part, product, output>>

(* Mutant: firstBlock_ wraps one block late. *)
Mut_ShiftWrapsLate(t) ==
  /\ Kind(t) = "shift"
  /\ LET f == t[2]
     IN  /\ line' = [line EXCEPT ![f][Slot(f, 0)] = spectrum[Channel[f]]]
         /\ first' = [first EXCEPT ![f] = IF @ = NumBlocks[f] THEN 0 ELSE @ + 1]
  /\ End(t)
  /\ UNCHANGED <<input, overlap, spectrum, part, product, output>>

(* pushBlock *)
EndShift(t) ==
  /\ Kind(t) = "shift"
  /\ LET f == t[2]
     IN  /\ line' = [line EXCEPT ![f][Slot(f, 0)] = spectrum[Channel[f]]]
         /\ first' = [first EXCEPT ![f] = IF @ + 1 = NumBlocks[f] THEN 0 ELSE @ + 1]
  /\ End(t)
  /\ UNCHANGED <<input, overlap, spectrum, part, product, output>>

(* Block 0 times the spectrum of the input, plus the sum of the others. *)
EndCombine(t) ==
  /\ Kind(t) = "combine"
  /\ LET f == t[2]
         others == Total(Deps[t] \ Of("in"))
     IN  product' = [product EXCEPT ![f] =
           [b \in {0} \cup DOMAIN others |-> IF b = 0 THEN spectrum[Channel[f]] ELSE others[b]]]
  /\ End(t)
  /\ UNCHANGED <<input, overlap, spectrum, line, first, part, output>>

(* inverseFft_.run: the transform destroys its input. *)
EndResult(t) ==
  /\ Kind(t) = "result"
  /\ LET f == t[2]
     IN  /\ output' = [output EXCEPT ![f] = product[f]]
         /\ product' = [product EXCEPT ![f] = <<>>]
  /\ End(t)
  /\ UNCHANGED <<input, overlap, spectrum, line, first, part>>

EndRoot(t) ==
  /\ Kind(t) = "root"
  /\ End(t)
  /\ UNCHANGED data

Worker(t) ==
  \/ Begin(t)
  \/ EndInput(t) \/ EndLeaf(t) \/ EndSum(t) \/ EndShift(t)
  \/ EndCombine(t) \/ EndResult(t) \/ EndRoot(t)
--------------------------------------------------------------------------------
(* The caller. *)

(* It fills the input buffers and calls updateInputs. *)
Feed ==
  /\ caller = "free"
  /\ input' \in [Channels -> Samples]
  /\ Remember(input')
  /\ updates' = 1
  /\ caller' = "inputs"
  /\ UNCHANGED <<rounds, overlap, spectrum, line, first, part, product, output, torn, answered>>

(* run(inputJobs_) *)
SubmitInput(t) ==
  /\ caller = "inputs"
  /\ Kind(t) = "in"
  /\ Rounds!Submit(t)
  /\ caller' = IF Of("in") \subseteq submitted' THEN "wait" ELSE caller
  /\ UNCHANGED <<updates, data, torn, fed, answered>>

(* Mutant: updateInputs does not wait for the final task. *)
Mut_UpdateWithoutWait ==
  /\ caller = "wait"
  /\ updates' = updates - 1
  /\ caller' = "free"
  /\ answered' = TRUE
  /\ UNCHANGED <<rounds, data, torn, fed>>

UpdateDone ==
  /\ caller = "wait"
  /\ Rounds!EndRound
  /\ updates' = updates - 1
  /\ caller' = "next"
  /\ answered' = TRUE
  /\ UNCHANGED <<data, torn, fed>>

(* run(backgroundJobs_, false): it hands over the root tasks of the filters. *)
NextRound ==
  /\ caller = "next"
  /\ Rounds!NewRound
  /\ caller' = "background"
  /\ UNCHANGED <<updates, data, torn, fed, answered>>

SubmitRoot(t) ==
  /\ caller = "background"
  /\ Kind(t) = "root"
  /\ Rounds!Submit(t)
  /\ caller' = IF ~(Of("root") \subseteq submitted') THEN caller
               ELSE IF updates = 0 THEN "free" ELSE "inputs"
  /\ UNCHANGED <<updates, data, torn, fed, answered>>

(* resetFilterState: the overlap buffers first. *)
Reset ==
  /\ caller = "free"
  /\ overlap' = [c \in Channels |-> Silence]
  /\ torn' = torn \cup (running \cap Of("leaf"))
  /\ caller' = "clearing"
  /\ UNCHANGED <<rounds, updates, input, spectrum, line, first, part, product, output, fed, answered>>

(* Mutant: resetFilterState updates once. *)
Mut_ClearUpdatesOnce ==
  /\ caller = "clearing"
  /\ line' = [f \in Filters |-> [s \in DOMAIN line[f] |-> Zero]]
  /\ input' = [c \in Channels |-> Silence]
  /\ fed' = Quiet
  /\ updates' = 1
  /\ caller' = "inputs"
  /\ UNCHANGED <<rounds, overlap, spectrum, first, part, product, output, torn, answered>>

(* The delay lines are cleared, the inputs are zero; updateInputs twice. *)
Clear ==
  /\ caller = "clearing"
  /\ line' = [f \in Filters |-> [s \in DOMAIN line[f] |-> Zero]]
  /\ input' = [c \in Channels |-> Silence]
  /\ fed' = Quiet
  /\ updates' = 2
  /\ caller' = "inputs"
  /\ UNCHANGED <<rounds, overlap, spectrum, first, part, product, output, torn, answered>>

(* The destructor: the members in reverse order, runner_ last. *)
FreeConvolutions ==
  /\ caller = "free"
  /\ caller' = "freed"
  /\ UNCHANGED <<rounds, updates, data, torn, fed, answered>>

JoinWorkers ==
  /\ caller = "freed"
  /\ running = {}
  /\ caller' = "gone"
  /\ UNCHANGED <<rounds, updates, data, torn, fed, answered>>

Gone == caller = "gone" /\ UNCHANGED vars

(* What the caller does on its own inside a call. *)
CallerStep ==
  \/ \E t \in Tasks : SubmitInput(t) \/ SubmitRoot(t)
  \/ UpdateDone \/ NextRound \/ Clear \/ JoinWorkers

Next ==
  \/ \E t \in Tasks : Worker(t)
  \/ CallerStep
  \/ Feed \/ Reset \/ FreeConvolutions
  \/ Gone

Spec == Init /\ [][Next]_vars
--------------------------------------------------------------------------------
(* Properties. *)

Spectra == Samples \X Samples

IsArtifact(a) ==
  /\ DOMAIN a \subseteq 0 .. Longest - 1
  /\ \A b \in DOMAIN a : a[b] \in Spectra \cup {Torn}

(* The type of every variable. *)
TypeOK ==
  /\ submitted \subseteq Tasks /\ running \subseteq Tasks /\ done \subseteq Tasks
  /\ caller \in {"background", "free", "inputs", "wait", "next", "clearing", "freed", "gone"}
  /\ updates \in 0 .. 2
  /\ input \in [Channels -> Samples] /\ overlap \in [Channels -> Samples]
  /\ spectrum \in [Channels -> Spectra]
  /\ DOMAIN line = Filters /\ \A f \in Filters : line[f] \in [0 .. NumBlocks[f] - 1 -> Spectra]
  /\ DOMAIN first = Filters /\ \A f \in Filters : first[f] \in 0 .. NumBlocks[f] - 1
  /\ DOMAIN part = Parts /\ \A t \in Parts : IsArtifact(part[t])
  /\ DOMAIN product = Filters /\ \A f \in Filters : IsArtifact(product[f])
  /\ DOMAIN output = Filters /\ \A f \in Filters : IsArtifact(output[f])
  /\ torn \subseteq Of("leaf")
  /\ fed \in [1 .. Longest + 1 -> [Channels -> Samples]]
  /\ answered \in BOOLEAN

(* What has been fed to a channel n blocks ago. *)
Ago(c, n) == fed[n + 1][c]

SpectrumAgo(c, n) == <<Ago(c, n + 1), Ago(c, n)>>

(***************************************************************************)
(* When updateInputs returns, each output buffer is the convolution of all *)
(* blocks fed so far with the filter: block b of the filter times the      *)
(* spectrum of b blocks ago.  After resetFilterState all of them are       *)
(* silence, although filter tasks were running while it cleared the state. *)
(***************************************************************************)
OutputExact ==
  caller = "free" /\ answered =>
    \A f \in Filters :
       output[f] = [b \in 0 .. NumBlocks[f] - 1 |-> SpectrumAgo(Channel[f], b)]

(***************************************************************************)
(* Between two blocks the delay line holds the latest spectra in order,    *)
(* wherever firstBlock_ is in the ring: block b is the one the filter's    *)
(* block b needs for the input that comes next.                            *)
(***************************************************************************)
DelayLineExact ==
  caller = "free" =>
    \A f \in Filters : \A b \in 1 .. NumBlocks[f] - 1 :
       line[f][Slot(f, b)] = SpectrumAgo(Channel[f], b - 1)

(* The memory a callback reads and writes. *)
Reads(t) ==
  LET n == t[2]
  IN  CASE Kind(t) = "in"      -> {<<"input", n>>, <<"overlap", n>>}
        [] Kind(t) = "leaf"    -> {<<"first", n>>} \cup {<<"line", n, Slot(n, b)>> : b \in Blocks(t)}
        [] Kind(t) = "sum"     -> {<<"part", d>> : d \in Deps[t]}
        [] Kind(t) = "shift"   -> {<<"first", n>>, <<"spectrum", Channel[n]>>}
        [] Kind(t) = "combine" -> {<<"part", d>> : d \in Deps[t] \ Of("in")}
                                    \cup {<<"spectrum", Channel[n]>>}
        [] Kind(t) = "result"  -> {<<"product", n>>}
        [] OTHER               -> {}

Writes(t) ==
  LET n == t[2]
  IN  CASE Kind(t) = "in"      -> {<<"overlap", n>>, <<"spectrum", n>>}
        [] Kind(t) \in {"leaf", "sum"} -> {<<"part", t>>}
        [] Kind(t) = "shift"   -> {<<"first", n>>, <<"line", n, Slot(n, 0)>>}
        [] Kind(t) = "combine" -> {<<"product", n>>}
        [] Kind(t) = "result"  -> {<<"product", n>>, <<"output", n>>}
        [] OTHER               -> {}

(* What the caller may touch between two calls: getInputBuffer and          *)
(* getOutputBuffer hand out the buffers themselves.                         *)
CallerCells == {<<"input", c>> : c \in Channels} \cup {<<"output", f>> : f \in Filters}

(***************************************************************************)
(* No two callbacks that run at the same time touch the same memory if one *)
(* of them writes it, and none touches the input and output buffers        *)
(* between two calls: the dependencies are enough, there is no lock.       *)
(***************************************************************************)
NoDataRace ==
  /\ \A t, u \in running : t # u => Writes(t) \cap (Reads(u) \cup Writes(u)) = {}
  /\ caller = "free" => \A t \in running : (Reads(t) \cup Writes(t)) \cap CallerCells = {}

(* The inductive invariant.  The round: a callback runs after its            *)
(* dependencies, the inputs' only inside updateInputs.                       *)
RoundOK ==
  /\ running \cap done = {}
  /\ \A t \in running \cup done : Deps[t] \subseteq done
  /\ (running \cup done) \cap Of("in") \subseteq submitted
  /\ Final \notin running
  /\ Final \in done <=> caller = "next"
  /\ caller = "next" => done = Tasks /\ running = {}
  /\ Of("in") \cap submitted # {} => caller \in {"inputs", "wait", "next"}

Updating == caller \in {"inputs", "wait"}

(* The calls: between the two of resetFilterState only silence has been fed. *)
CallsOK ==
  /\ caller \in {"free", "clearing", "freed", "gone"} => updates = 0
  /\ caller \in {"next", "background"} => updates \in {0, 1}
  /\ Updating => updates # 0
  /\ updates = 2 \/ (updates = 1 /\ ~Updating) => fed = Quiet
  /\ updates # 0 => input = fed[1]

(* Leaves that read a delay line while it was cleared belong to the first    *)
(* update after it.                                                          *)
TornOK ==
  /\ torn \subseteq running
  /\ torn # {} => caller = "clearing" \/ updates = 2

(* How many blocks behind the input a task that has not run yet leaves what  *)
(* it keeps.                                                                 *)
Pending(t) == IF Updating /\ t \notin done THEN 1 ELSE 0

OverlapOK ==
  \A c \in Channels :
     overlap[c] = IF caller = "clearing" THEN Silence ELSE Ago(c, Pending(Job("in", c)))

SpectrumOK ==
  \A c \in Channels : Job("in", c) \in done => spectrum[c] = SpectrumAgo(c, 0)

LineOK ==
  \A f \in Filters : \A b \in 1 .. NumBlocks[f] - 1 :
     line[f][Slot(f, b)] = SpectrumAgo(Channel[f], b - 1 + Pending(Job("shift", f)))

(* The artifacts of a round count, unless the delay lines were cleared in    *)
(* the middle of it.                                                         *)
Settled == caller \in {"background", "free"} \/ (Updating /\ updates = 1)

(* What block b of filter f is multiplied with in this round. *)
Expected(f, b) == SpectrumAgo(Channel[f], IF Updating THEN b ELSE b - 1)

PartOK ==
  Settled =>
    \A t \in done \cap Parts : part[t] = [b \in Covers[t] |-> Expected(t[2], b)]

Whole(f) == [b \in 0 .. NumBlocks[f] - 1 |-> SpectrumAgo(Channel[f], b)]

ProductOK ==
  Settled =>
    \A f \in Filters :
       Job("combine", f) \in done /\ Job("result", f) \notin done => product[f] = Whole(f)

OutputOK ==
  /\ Settled => \A f \in Filters : Job("result", f) \in done => output[f] = Whole(f)
  /\ caller \in {"next", "background", "free"} /\ updates = 0 /\ answered =>
       \A f \in Filters : output[f] = Whole(f)

(***************************************************************************)
(* Why the outputs are exact: at every step inside a round, each buffer    *)
(* holds the spectra of the block its last writer was run for, and those   *)
(* that a running callback reads are settled.                              *)
(***************************************************************************)
CrossoverInv ==
  /\ TypeOK /\ RoundOK /\ CallsOK /\ TornOK
  /\ OverlapOK /\ SpectrumOK /\ LineOK
  /\ PartOK /\ ProductOK /\ OutputOK

(* Callbacks that use the Convolution they captured: all but the inputs' and *)
(* the roots'.                                                               *)
UsesConvolution(t) == Kind(t) \in {"leaf", "sum", "shift", "combine", "result"}

(***************************************************************************)
(* No callback uses a Convolution after the destructor has freed it.       *)
(***************************************************************************)
FreedUnused == caller = "freed" => \A t \in running : ~UsesConvolution(t)
================================================================================
