---------------------------- MODULE CrossoverProofs ---------------------------
(***************************************************************************)
(* Proofs about Crossover, for every number of channels, filters, blocks   *)
(* and tasks and every fan-in, provided the graph has the shape            *)
(* getOutputTasks gives it (ShapeAssumption).  CrossoverInv is inductive;  *)
(* there is one lemma per conjunct, with one step per action.              *)
(***************************************************************************)
EXTENDS Crossover, SetInduction

(* The longest filter has at least the blocks of every other. *)
LEMMA LongestBound ==
  Longest \in Nat \ {0} /\ \A f \in Filters : NumBlocks[f] <= Longest
<1> DEFINE T == {NumBlocks[f] : f \in Filters}
<1>1. T \subseteq Nat \ {0} /\ T # {} BY CrossoverAssumption, ShapeAssumption DEF Shape, Layout
<1>2. IsFiniteSet(T)
  <2>1. [f \in Filters |-> NumBlocks[f]] \in Surjection(Filters, T)
    BY DEF Surjection
  <2> HIDE DEF T
  <2> QED BY <2>1, ShapeAssumption, FS_Surjection DEF Shape, Layout
<1>3. \E n \in T : \A m \in T : n >= m
  <2>1. T \subseteq Nat BY <1>1
  <2> HIDE DEF T
  <2> QED BY <1>1, <1>2, <2>1, GreatestElement
<1>4. Longest \in T /\ \A m \in T : Longest >= m
  <2> Longest = Max(T) BY DEF Longest
  <2> HIDE DEF T
  <2> QED BY <1>3 DEF Max
<1> QED BY <1>1, <1>4

LEMMA MinOfTwo ==
  ASSUME NEW a \in Nat, NEW b \in Nat
  PROVE  Min({a, b}) \in {a, b} /\ Min({a, b}) <= a /\ Min({a, b}) <= b
<1>1. \E x \in {a, b} : \A y \in {a, b} : x <= y
  <2>1. CASE a <= b BY <2>1
  <2>2. CASE b <= a BY <2>2
  <2> QED BY <2>1, <2>2
<1> QED BY <1>1 DEF Min

--------------------------------------------------------------------------------
(* The graph: what the tasks of each kind are. *)

LEMMA InputJobs ==
  /\ \A c \in Channels : Job("in", c) \in Of("in")
  /\ \A t \in Of("in") : t = Job("in", t[2]) /\ t[2] \in Channels /\ Deps[t] = {}
BY ShapeAssumption DEF Shape, Layout, Job

LEMMA FilterJobs ==
  ASSUME NEW kind \in {"shift", "combine", "result"}
  PROVE  /\ \A f \in Filters : Job(kind, f) \in Of(kind)
         /\ \A t \in Of(kind) : t = Job(kind, t[2]) /\ t[2] \in Filters
<1>1. Of(kind) = {Job(kind, f) : f \in Filters} BY ShapeAssumption DEF Shape, Layout
<1> QED BY <1>1 DEF Job

LEMMA JobFacts ==
  ASSUME NEW kind, NEW n
  PROVE  Job(kind, n)[2] = n /\ Kind(Job(kind, n)) = kind
BY DEF Job, Kind

LEMMA OfKind ==
  ASSUME NEW kind, NEW t \in Of(kind)
  PROVE  t \in Tasks /\ Kind(t) = kind
BY DEF Of

LEMMA PartKinds ==
  /\ \A t \in Parts : t \in Tasks /\ Kind(t) \in {"leaf", "sum"} /\ t[2] \in Filters
  /\ \A t \in Tasks : Kind(t) \in {"leaf", "sum"} => t \in Parts
BY ShapeAssumption DEF Shape, Layout, Parts, Of

LEMMA FinalKind == Final \in Tasks /\ Kind(Final) = "combined"
<1>1. \E t \in Tasks : IsFinal(t) BY ShapeAssumption DEF Shape, Layout, Of
<1>2. Final \in Tasks /\ IsFinal(Final)
  <2> HIDE DEF IsFinal
  <2> QED BY <1>1 DEF Final
<1> QED BY <1>2, ShapeAssumption DEF Shape, Layout

(* The dependencies of the tasks of a filter. *)
LEMMA FilterDeps ==
  ASSUME NEW f \in Filters
  PROVE  /\ Channel[f] \in Channels
         /\ Deps[Job("shift", f)] = {Job("in", Channel[f])} \cup {t \in Of("leaf") : t[2] = f}
         /\ Job("in", Channel[f]) \in Deps[Job("combine", f)]
         /\ Deps[Job("combine", f)] \ Of("in") \subseteq PartsOf(f)
         /\ Deps[Job("result", f)] = {Job("combine", f), Job("shift", f)}
<1>1. Channel[f] \in Channels BY CrossoverAssumption
<1>2. Job("in", Channel[f]) \in Of("in") BY <1>1, InputJobs
<1> QED BY <1>1, <1>2, ShapeAssumption DEF Shape, Layout

LEMMA LeafBlocks ==
  ASSUME NEW t \in Of("leaf")
  PROVE  t[2] \in Filters /\ Blocks(t) \subseteq 1 .. NumBlocks[t[2]] - 1
<1>1. t[2] \in Filters /\ t[3] \in Nat \ {0}
  BY ShapeAssumption DEF Shape, Layout, Parts
<1>2. NumBlocks[t[2]] \in Nat /\ t[3] + Combine[t[2]] \in Nat
  BY <1>1, CrossoverAssumption
<1>3. Min({NumBlocks[t[2]], t[3] + Combine[t[2]]}) \in Int
      /\ Min({NumBlocks[t[2]], t[3] + Combine[t[2]]}) <= NumBlocks[t[2]]
  BY <1>2, MinOfTwo
<1> QED BY <1>1, <1>2, <1>3 DEF Blocks

(* What the artifacts of a filter add up. *)
LEMMA CoversFacts ==
  /\ Covers \in [Parts -> SUBSET (1 .. Longest - 1)]
  /\ \A t \in Of("leaf") : Covers[t] = Blocks(t)
  /\ \A t \in Of("sum") : Covers[t] = UNION {Covers[d] : d \in Deps[t]}
  /\ \A f \in Filters :
        1 .. NumBlocks[f] - 1 = UNION {Covers[d] : d \in Deps[Job("combine", f)] \ Of("in")}
<1>1. Covers \in [Parts -> SUBSET (1 .. Longest - 1)] /\ IsCover(Covers)
  <2> HIDE DEF IsCover
  <2> QED BY ShapeAssumption DEF Shape, Covers
<1> QED BY <1>1 DEF IsCover
--------------------------------------------------------------------------------
(* The history. *)

History == [1 .. Longest + 1 -> [Channels -> Samples]]

LEMMA FedNext ==
  ASSUME fed \in History, NEW block \in [Channels -> Samples], Remember(block)
  PROVE  /\ fed' \in History
         /\ fed'[1] = block
         /\ \A n \in 1 .. Longest : fed'[n + 1] = fed[n]
<1> DEFINE V == [Channels -> Samples]
<1>1. Longest \in Nat BY LongestBound
<1>2. fed \in Seq(V) /\ Len(fed) = Longest + 1 BY <1>1 DEF History
<1> HIDE DEF V
<1>3. Front(fed) \in Seq(V) /\ Len(Front(fed)) = Longest
      /\ \A n \in 1 .. Longest : Front(fed)[n] = fed[n]
  BY <1>1, <1>2 DEF Front
<1>4. block \in V BY DEF V
<1>5. fed' = <<block>> \o Front(fed) BY DEF Remember
<1>6. fed' \in Seq(V) /\ Len(fed') = Longest + 1 /\ fed'[1] = block
      /\ \A n \in 1 .. Longest : fed'[n + 1] = Front(fed)[n]
  BY <1>1, <1>3, <1>4, <1>5
<1>7. fed' \in [1 .. Longest + 1 -> V] BY <1>1, <1>6
<1> QED BY <1>3, <1>6, <1>7 DEF History, V

(* Silence is silence at every age. *)
LEMMA QuietFacts ==
  /\ Quiet \in History
  /\ fed = Quiet =>
       /\ \A c \in Channels, n \in 0 .. Longest : Ago(c, n) = Silence
       /\ \A c \in Channels, n \in 0 .. Longest - 1 : SpectrumAgo(c, n) = Zero
<1>1. Longest \in Nat BY LongestBound
<1>2. Quiet \in History BY CrossoverAssumption DEF Quiet, History
<1>3. ASSUME fed = Quiet, NEW c \in Channels, NEW n \in 0 .. Longest
      PROVE  Ago(c, n) = Silence
  <2>1. n + 1 \in 1 .. Longest + 1 BY <1>1
  <2> QED BY <1>3, <2>1 DEF Quiet, Ago
<1>4. ASSUME fed = Quiet, NEW c \in Channels, NEW n \in 0 .. Longest - 1
      PROVE  SpectrumAgo(c, n) = Zero
  <2>1. n \in 0 .. Longest /\ n + 1 \in 0 .. Longest BY <1>1
  <2> QED BY <1>3, <1>4, <2>1 DEF SpectrumAgo, Zero
<1> QED BY <1>2, <1>3, <1>4

LEMMA AgoType ==
  ASSUME fed \in History, NEW c \in Channels
  PROVE  /\ \A n \in 0 .. Longest : Ago(c, n) \in Samples
         /\ \A n \in 0 .. Longest - 1 : SpectrumAgo(c, n) \in Spectra
<1>1. Longest \in Nat BY LongestBound
<1>2. ASSUME NEW n \in 0 .. Longest PROVE Ago(c, n) \in Samples
  <2>1. n + 1 \in 1 .. Longest + 1 BY <1>1
  <2> QED BY <2>1 DEF History, Ago
<1>3. ASSUME NEW n \in 0 .. Longest - 1 PROVE SpectrumAgo(c, n) \in Spectra
  <2>1. n \in 0 .. Longest /\ n + 1 \in 0 .. Longest BY <1>1
  <2> QED BY <1>2, <2>1 DEF SpectrumAgo, Spectra
<1> QED BY <1>2, <1>3

(* Feeding a block makes what was before one block older. *)
LEMMA AgoNext ==
  ASSUME fed \in History, NEW block \in [Channels -> Samples], Remember(block),
         NEW c \in Channels
  PROVE  /\ Ago(c, 0)' = block[c]
         /\ \A n \in 0 .. Longest - 1 : Ago(c, n + 1)' = Ago(c, n)
         /\ \A n \in 0 .. Longest - 2 : SpectrumAgo(c, n + 1)' = SpectrumAgo(c, n)
<1>1. Longest \in Nat BY LongestBound
<1>2. fed'[1] = block /\ \A n \in 1 .. Longest : fed'[n + 1] = fed[n] BY FedNext
<1>3. Ago(c, 0)' = block[c] BY <1>2 DEF Ago
<1>4. ASSUME NEW n \in 0 .. Longest - 1 PROVE Ago(c, n + 1)' = Ago(c, n)
  <2>1. n + 1 \in 1 .. Longest BY <1>1
  <2>2. fed'[(n + 1) + 1] = fed[n + 1] BY <1>2, <2>1
  <2> QED BY <2>2 DEF Ago
<1>5. ASSUME NEW n \in 0 .. Longest - 2
      PROVE  SpectrumAgo(c, n + 1)' = SpectrumAgo(c, n)
  <2>1. n \in 0 .. Longest - 1 /\ n + 1 \in 0 .. Longest - 1 BY <1>1
  <2>2. Ago(c, n + 1)' = Ago(c, n) /\ Ago(c, (n + 1) + 1)' = Ago(c, n + 1) BY <1>4, <2>1
  <2> QED BY <2>2 DEF SpectrumAgo
<1> QED BY <1>3, <1>4, <1>5
--------------------------------------------------------------------------------
(* The ring of the delay line. *)

LEMMA SlotFacts ==
  ASSUME NEW f \in Filters, first[f] \in 0 .. NumBlocks[f] - 1
  PROVE  /\ \A b \in 0 .. NumBlocks[f] - 1 : Slot(f, b) \in 0 .. NumBlocks[f] - 1
         /\ \A a, b \in 0 .. NumBlocks[f] - 1 : Slot(f, a) = Slot(f, b) => a = b
BY CrossoverAssumption DEF Slot

(* firstBlock_ moves on: every block is one further back. *)
LEMMA SlotMoves ==
  ASSUME NEW f \in Filters, first[f] \in 0 .. NumBlocks[f] - 1,
         first'[f] = IF first[f] + 1 = NumBlocks[f] THEN 0 ELSE first[f] + 1
  PROVE  /\ first'[f] \in 0 .. NumBlocks[f] - 1
         /\ \A b \in 1 .. NumBlocks[f] - 1 : Slot(f, b)' = Slot(f, b - 1)
BY CrossoverAssumption DEF Slot
--------------------------------------------------------------------------------
(* The round. *)

LEMMA SameRounds == Rounds!Final = Final /\ Rounds!Roots = Roots
BY DEF Rounds!Final, Final, Rounds!IsFinal, IsFinal, Rounds!Roots, Roots

LEMMA EndStep ==
  ASSUME NEW t \in Tasks,
         \/ EndInput(t) \/ EndLeaf(t) \/ EndSum(t) \/ EndShift(t)
         \/ EndCombine(t) \/ EndResult(t) \/ EndRoot(t)
  PROVE  End(t)
<1> HIDE DEF End
<1> QED BY DEF EndInput, EndLeaf, EndSum, EndShift, EndCombine, EndResult, EndRoot

(* The callback of an input runs inside updateInputs. *)
LEMMA InputsInCall ==
  ASSUME TypeOK, RoundOK, NEW t \in (running \cup done) \cap Of("in")
  PROVE  caller \in {"inputs", "wait", "next"}
BY DEF RoundOK

(* So do the callbacks that need its spectrum, and the last one of a filter. *)
LEMMA FilterInCall ==
  ASSUME TypeOK, RoundOK, NEW f \in Filters
  PROVE  /\ Job("shift", f) \in running \cup done =>
               Job("in", Channel[f]) \in done /\ caller \in {"inputs", "wait", "next"}
         /\ Job("combine", f) \in running \cup done =>
               Job("in", Channel[f]) \in done /\ caller \in {"inputs", "wait", "next"}
         /\ Job("result", f) \in running \cup done =>
               Job("combine", f) \in done /\ caller \in {"inputs", "wait", "next"}
<1>1. Job("in", Channel[f]) \in Of("in") BY FilterDeps, InputJobs
<1>2. \A t \in running \cup done : Deps[t] \subseteq done BY DEF RoundOK
<1>3. Job("in", Channel[f]) \in done => caller \in {"inputs", "wait", "next"}
  BY <1>1, InputsInCall
<1>4. Job("in", Channel[f]) \in Deps[Job("shift", f)]
      /\ Job("in", Channel[f]) \in Deps[Job("combine", f)]
      /\ Job("combine", f) \in Deps[Job("result", f)]
  BY FilterDeps
<1> QED BY <1>2, <1>3, <1>4

LEMMA RoundStep ==
  ASSUME TypeOK, RoundOK, [Next]_vars
  PROVE  RoundOK'
<1> USE SameRounds, FinalKind
<1>1. ASSUME NEW t \in Tasks, Begin(t) PROVE RoundOK'
  <2>1. t \notin running \cup done \cup {Final} /\ Deps[t] \subseteq done
        /\ (t \in Roots => t \in submitted)
        /\ running' = running \cup {t} /\ submitted' = submitted /\ done' = done
        /\ caller' = caller
    BY <1>1 DEF Begin, Rounds!Begin
  <2>2. caller # "next" BY <2>1 DEF RoundOK
  <2>3. t \in Of("in") => t \in submitted BY <2>1, InputJobs DEF Roots
  <2> QED BY <2>1, <2>2, <2>3 DEF RoundOK, TypeOK
<1>2. ASSUME NEW t \in Tasks, End(t) PROVE RoundOK'
  <2>1. t \in running /\ running' = running \ {t} /\ done' = done \cup {t}
        /\ submitted' = submitted /\ caller' = caller
    BY <1>2 DEF End, Rounds!End
  <2>2. t # Final /\ caller # "next" BY <2>1 DEF RoundOK
  <2> QED BY <2>1, <2>2 DEF RoundOK, TypeOK
<1>3. ASSUME NEW t \in Tasks, SubmitInput(t) PROVE RoundOK'
  <2>1. running' = running /\ done' = done /\ submitted \subseteq submitted'
        /\ caller = "inputs" /\ caller' \in {"inputs", "wait"}
    BY <1>3 DEF SubmitInput, Rounds!Submit
  <2> QED BY <2>1 DEF RoundOK
<1>4. ASSUME NEW t \in Tasks, SubmitRoot(t) PROVE RoundOK'
  <2>1. running' = running /\ done' = done /\ submitted' = submitted \cup {t}
        /\ caller = "background" /\ caller' \in {"background", "free", "inputs"}
    BY <1>4 DEF SubmitRoot, Rounds!Submit
  <2>2. t \notin Of("in") BY <1>4 DEF SubmitRoot, Of
  <2> QED BY <2>1, <2>2 DEF RoundOK
<1>5. CASE UpdateDone
  <2>1. done = Tasks \ {Final} /\ running = {} /\ done' = Tasks /\ running' = running
        /\ submitted' = submitted /\ caller' = "next"
    BY <1>5 DEF UpdateDone, Rounds!EndRound
  <2>2. Final \notin Of("in") BY DEF Of
  <2>3. \A t \in Tasks : Deps[t] \subseteq Tasks BY ShapeAssumption DEF IsGraph
  <2> QED BY <2>1, <2>2, <2>3 DEF RoundOK
<1>6. CASE NextRound
  <2>1. submitted' = {} /\ done' = {} /\ running' = running
        /\ caller = "next" /\ caller' = "background"
    BY <1>6 DEF NextRound, Rounds!NewRound
  <2> QED BY <2>1 DEF RoundOK
<1>7. CASE Feed \/ Reset \/ Clear \/ FreeConvolutions \/ JoinWorkers
  <2>1. submitted' = submitted /\ running' = running /\ done' = done
        /\ caller \in {"free", "clearing", "freed"} /\ caller' # "next"
    BY <1>7 DEF Feed, Reset, Clear, FreeConvolutions, JoinWorkers, rounds
  <2>2. Of("in") \cap submitted = {} BY <2>1 DEF RoundOK
  <2> QED BY <2>1, <2>2 DEF RoundOK
<1>8. CASE UNCHANGED vars
  BY <1>8 DEF vars, rounds, RoundOK
<1> QED BY <1>1, <1>2, <1>3, <1>4, <1>5, <1>6, <1>7, <1>8, EndStep
        DEF Next, Worker, CallerStep, Gone
--------------------------------------------------------------------------------
(* The types. *)

LEMMA TotalType ==
  ASSUME NEW ts \in SUBSET Parts, \A t \in ts : IsArtifact(part[t])
  PROVE  IsArtifact(Total(ts))
<1> DEFINE D == UNION {DOMAIN part[t] : t \in ts}
<1>1. D \subseteq 0 .. Longest - 1 BY DEF IsArtifact
<1>2. ASSUME NEW b \in D PROVE Total(ts)[b] \in Spectra \cup {Torn}
  <2> DEFINE t == CHOOSE t \in ts : b \in DOMAIN part[t]
  <2>1. t \in ts /\ b \in DOMAIN part[t] OBVIOUS
  <2>2. Total(ts)[b] = part[t][b] BY DEF Total
  <2> HIDE DEF t
  <2> QED BY <2>1, <2>2 DEF IsArtifact
<1>3. DOMAIN Total(ts) = D BY DEF Total
<1> HIDE DEF D
<1> QED BY <1>1, <1>2, <1>3 DEF IsArtifact

LEMMA ZeroType == Zero \in Spectra
BY CrossoverAssumption DEF Zero, Spectra

LEMMA NoArtifact == IsArtifact(<<>>)
BY DEF IsArtifact

LEMMA InitType == Init => TypeOK
<1> SUFFICES ASSUME Init PROVE TypeOK OBVIOUS
<1>1. Quiet \in [1 .. Longest + 1 -> [Channels -> Samples]] BY QuietFacts DEF History
<1>2. /\ DOMAIN line = Filters /\ \A f \in Filters : line[f] \in [0 .. NumBlocks[f] - 1 -> Spectra]
      /\ DOMAIN first = Filters /\ \A f \in Filters : first[f] \in 0 .. NumBlocks[f] - 1
  BY ZeroType, CrossoverAssumption DEF Init
<1>3. /\ DOMAIN part = Parts /\ \A t \in Parts : IsArtifact(part[t])
      /\ DOMAIN product = Filters /\ \A f \in Filters : IsArtifact(product[f])
      /\ DOMAIN output = Filters /\ \A f \in Filters : IsArtifact(output[f])
  BY NoArtifact DEF Init
<1>4. /\ input \in [Channels -> Samples] /\ overlap \in [Channels -> Samples]
      /\ spectrum \in [Channels -> Spectra]
  BY ZeroType, CrossoverAssumption DEF Init
<1>5. /\ submitted \subseteq Tasks /\ running \subseteq Tasks /\ done \subseteq Tasks
      /\ torn \subseteq Of("leaf")
  BY DEF Init, Rounds!Init
<1>6. caller = "background" /\ updates \in 0 .. 2 BY DEF Init
<1>7. fed \in [1 .. Longest + 1 -> [Channels -> Samples]] BY <1>1 DEF Init
<1>8. answered \in BOOLEAN BY DEF Init
<1> QED BY <1>2, <1>3, <1>4, <1>5, <1>6, <1>7, <1>8 DEF TypeOK

LEMMA TypeStep ==
  ASSUME TypeOK, CallsOK, [Next]_vars
  PROVE  TypeOK'
<1> USE DEF TypeOK
<1>1. ASSUME NEW t \in Tasks, Begin(t) PROVE TypeOK'
  <2>1. torn' \subseteq Of("leaf") BY <1>1 DEF Begin, Of
  <2>2. submitted' \subseteq Tasks /\ running' \subseteq Tasks /\ done' \subseteq Tasks
    BY <1>1 DEF Begin, Rounds!Begin
  <2> QED BY <1>1, <2>1, <2>2 DEF Begin, data, IsArtifact
<1>2. ASSUME NEW t \in Tasks, End(t)
      PROVE  /\ submitted' \subseteq Tasks /\ running' \subseteq Tasks /\ done' \subseteq Tasks
             /\ caller' = caller /\ updates' = updates /\ torn' \subseteq Of("leaf")
             /\ fed' = fed /\ answered' = answered
  BY <1>2 DEF End, Rounds!End
<1>3. ASSUME NEW t \in Tasks, EndInput(t) PROVE TypeOK'
  <2>1. t[2] \in Channels BY <1>3, InputJobs DEF EndInput, Of
  <2>2. spectrum' \in [Channels -> Spectra] /\ overlap' \in [Channels -> Samples]
    BY <1>3, <2>1 DEF EndInput, Spectra
  <2> QED BY <1>2, <1>3, <2>2 DEF EndInput, IsArtifact
<1>4. ASSUME NEW t \in Tasks, EndLeaf(t) PROVE TypeOK'
  <2>1. t \in Of("leaf") /\ t \in Parts BY <1>4 DEF EndLeaf, Of, Parts
  <2> DEFINE f == t[2]
  <2>2. f \in Filters /\ Blocks(t) \subseteq 1 .. NumBlocks[f] - 1 BY <2>1, LeafBlocks
  <2>3. NumBlocks[f] \in Nat \ {0} /\ Longest \in Nat /\ NumBlocks[f] <= Longest
    BY <2>2, CrossoverAssumption, LongestBound
  <2>4. PICK read : /\ read \in {[b \in Blocks(t) |-> line[f][Slot(f, b)]],
                                 [b \in Blocks(t) |-> Torn]}
                    /\ part' = [part EXCEPT ![t] = read]
    BY <1>4 DEF EndLeaf
  <2>5. IsArtifact(read)
    <3>1. Blocks(t) \subseteq 0 .. Longest - 1 BY <2>2, <2>3
    <3>2. \A b \in Blocks(t) : line[f][Slot(f, b)] \in Spectra
      BY <2>2, <2>3, SlotFacts
    <3> QED BY <2>4, <3>1, <3>2 DEF IsArtifact
  <2>6. DOMAIN part' = Parts /\ \A u \in Parts : IsArtifact(part'[u])
    BY <2>1, <2>4, <2>5
  <2> QED BY <1>2, <1>4, <2>6 DEF EndLeaf, IsArtifact
<1>5. ASSUME NEW t \in Tasks, EndSum(t) PROVE TypeOK'
  <2>1. t \in Of("sum") /\ t \in Parts BY <1>5 DEF EndSum, Of, Parts
  <2>2. Deps[t] \subseteq Parts BY <2>1, ShapeAssumption DEF Shape, Layout, PartsOf
  <2>3. IsArtifact(Total(Deps[t])) BY <2>2, TotalType
  <2>4. DOMAIN part' = Parts /\ \A u \in Parts : IsArtifact(part'[u])
    BY <1>5, <2>1, <2>3 DEF EndSum
  <2> QED BY <1>2, <1>5, <2>4 DEF EndSum, IsArtifact
<1>6. ASSUME NEW t \in Tasks, EndShift(t) PROVE TypeOK'
  <2> DEFINE f == t[2]
  <2>1. t \in Of("shift") BY <1>6 DEF EndShift, Of
  <2>2. f \in Filters BY <2>1, FilterJobs
  <2>3. NumBlocks[f] \in Nat \ {0} /\ Channel[f] \in Channels BY <2>2, CrossoverAssumption
  <2>4. Slot(f, 0) \in 0 .. NumBlocks[f] - 1 BY <2>2, <2>3, SlotFacts
  <2>5. DOMAIN line' = Filters /\ \A g \in Filters : line'[g] \in [0 .. NumBlocks[g] - 1 -> Spectra]
    BY <1>6, <2>2, <2>3, <2>4 DEF EndShift
  <2>6. DOMAIN first' = Filters /\ \A g \in Filters : first'[g] \in 0 .. NumBlocks[g] - 1
    BY <1>6, <2>2, <2>3 DEF EndShift
  <2> QED BY <1>2, <1>6, <2>5, <2>6 DEF EndShift, IsArtifact
<1>7. ASSUME NEW t \in Tasks, EndCombine(t) PROVE TypeOK'
  <2> DEFINE f == t[2]
             others == Total(Deps[t] \ Of("in"))
             sum == [b \in {0} \cup DOMAIN others |->
                       IF b = 0 THEN spectrum[Channel[f]] ELSE others[b]]
  <2>1. t \in Of("combine") BY <1>7 DEF EndCombine, Of
  <2>2. f \in Filters /\ t = Job("combine", f) BY <2>1, FilterJobs
  <2>3. Channel[f] \in Channels /\ Longest \in Nat \ {0} BY <2>2, CrossoverAssumption, LongestBound
  <2>4. Deps[t] \ Of("in") \subseteq Parts BY <2>2, FilterDeps DEF PartsOf
  <2>5. IsArtifact(others) BY <2>4, TotalType
  <2>6. IsArtifact(sum)
    <3>1. DOMAIN others \subseteq 0 .. Longest - 1 BY <2>5 DEF IsArtifact
    <3>2. \A b \in DOMAIN others : others[b] \in Spectra \cup {Torn} BY <2>5 DEF IsArtifact
    <3>3. 0 \in 0 .. Longest - 1 BY <2>3
    <3>4. spectrum[Channel[f]] \in Spectra BY <2>3
    <3> HIDE DEF others
    <3> QED BY <3>1, <3>2, <3>3, <3>4 DEF IsArtifact
  <2>7. product' = [product EXCEPT ![f] = sum] BY <1>7 DEF EndCombine
  <2> HIDE DEF sum
  <2>8. DOMAIN product' = Filters /\ \A g \in Filters : IsArtifact(product'[g])
    BY <2>2, <2>6, <2>7
  <2> QED BY <1>2, <1>7, <2>8 DEF EndCombine, IsArtifact
<1>8. ASSUME NEW t \in Tasks, EndResult(t) PROVE TypeOK'
  <2>1. t \in Of("result") BY <1>8 DEF EndResult, Of
  <2>2. t[2] \in Filters BY <2>1, FilterJobs
  <2>3. /\ DOMAIN product' = Filters /\ \A g \in Filters : IsArtifact(product'[g])
        /\ DOMAIN output' = Filters /\ \A g \in Filters : IsArtifact(output'[g])
    BY <1>8, <2>2, NoArtifact DEF EndResult
  <2> QED BY <1>2, <1>8, <2>3 DEF EndResult, IsArtifact
<1>9. ASSUME NEW t \in Tasks, EndRoot(t) PROVE TypeOK'
  BY <1>2, <1>9 DEF EndRoot, data, IsArtifact
<1>10. ASSUME NEW t \in Tasks, SubmitInput(t) \/ SubmitRoot(t) PROVE TypeOK'
  <2>1. submitted' \subseteq Tasks /\ running' = running /\ done' = done
    BY <1>10, SameRounds DEF SubmitInput, SubmitRoot, Rounds!Submit, Roots
  <2>2. caller' \in {"background", "free", "inputs", "wait"}
    BY <1>10 DEF SubmitInput, SubmitRoot
  <2> QED BY <1>10, <2>1, <2>2 DEF SubmitInput, SubmitRoot, data, IsArtifact
<1>11. CASE UpdateDone \/ NextRound
  <2>1. submitted' \subseteq Tasks /\ running' = running /\ done' \subseteq Tasks
    BY <1>11 DEF UpdateDone, NextRound, Rounds!EndRound, Rounds!NewRound
  <2>2. updates' \in 0 .. 2 BY <1>11 DEF UpdateDone, NextRound, CallsOK, Updating
  <2> QED BY <1>11, <2>1, <2>2 DEF UpdateDone, NextRound, data, IsArtifact
<1>12. CASE Feed
  <2>1. fed' \in History BY <1>12, FedNext DEF Feed, History
  <2> QED BY <1>12, <2>1 DEF Feed, rounds, History, IsArtifact
<1>13. CASE Reset
  <2>1. Silence \in Samples /\ torn' \subseteq Of("leaf") BY <1>13, CrossoverAssumption DEF Reset
  <2> QED BY <1>13, <2>1 DEF Reset, rounds, IsArtifact
<1>14. CASE Clear
  <2>1. Silence \in Samples BY CrossoverAssumption
  <2>2. DOMAIN line' = Filters
        /\ \A f \in Filters : line'[f] \in [0 .. NumBlocks[f] - 1 -> Spectra]
    <3>1. line' = [f \in Filters |-> [s \in DOMAIN line[f] |-> Zero]] BY <1>14 DEF Clear
    <3>2. \A f \in Filters : DOMAIN line[f] = 0 .. NumBlocks[f] - 1 OBVIOUS
    <3> QED BY <3>1, <3>2, ZeroType
  <2>3. fed' \in History BY <1>14, QuietFacts DEF Clear
  <2> QED BY <1>14, <2>1, <2>2, <2>3 DEF Clear, rounds, History, IsArtifact
<1>15. CASE FreeConvolutions \/ JoinWorkers
  BY <1>15 DEF FreeConvolutions, JoinWorkers, rounds, data, IsArtifact
<1>16. CASE UNCHANGED vars
  BY <1>16 DEF vars, rounds, data, IsArtifact
<1> HIDE DEF TypeOK
<1> QED BY <1>1, <1>3, <1>4, <1>5, <1>6, <1>7, <1>8, <1>9, <1>10, <1>11, <1>12, <1>13,
           <1>14, <1>15, <1>16 DEF Next, Worker, CallerStep, Gone
--------------------------------------------------------------------------------
(* The calls. *)

LEMMA WorkerKeeps ==
  ASSUME NEW t \in Tasks, Worker(t)
  PROVE  UNCHANGED <<submitted, caller, updates, input, fed, answered>>
BY DEF Worker, Begin, Rounds!Begin, End, Rounds!End, EndInput, EndLeaf, EndSum, EndShift,
       EndCombine, EndResult, EndRoot, data

LEMMA CallsStep ==
  ASSUME TypeOK, CallsOK, [Next]_vars
  PROVE  CallsOK'
<1> USE DEF CallsOK, Updating
<1>1. ASSUME NEW t \in Tasks, Worker(t) PROVE CallsOK'
  BY <1>1, WorkerKeeps
<1>2. ASSUME NEW t \in Tasks, SubmitInput(t) \/ SubmitRoot(t) PROVE CallsOK'
  BY <1>2 DEF SubmitInput, SubmitRoot, data, TypeOK
<1>3. CASE UpdateDone \/ NextRound
  <2>1. UNCHANGED <<input, fed>> BY <1>3 DEF UpdateDone, NextRound, data
  <2>2. CASE UpdateDone
    <3>1. updates \in {1, 2} /\ updates' = updates - 1 /\ caller = "wait" /\ caller' = "next"
      BY <2>2 DEF UpdateDone, TypeOK
    <3> QED BY <2>1, <3>1
  <2>3. CASE NextRound
    BY <2>1, <2>3 DEF NextRound, TypeOK
  <2> QED BY <1>3, <2>2, <2>3
<1>4. CASE Feed
  <2>1. fed'[1] = input' BY <1>4, FedNext DEF Feed, TypeOK, History
  <2> QED BY <1>4, <2>1 DEF Feed
<1>5. CASE Clear
  <2>1. 1 \in 1 .. Longest + 1 BY LongestBound
  <2>2. Quiet[1] = [c \in Channels |-> Silence] BY <2>1 DEF Quiet
  <2> QED BY <1>5, <2>2 DEF Clear
<1>6. CASE Reset \/ FreeConvolutions \/ JoinWorkers
  BY <1>6 DEF Reset, FreeConvolutions, JoinWorkers, data
<1>7. CASE UNCHANGED vars
  BY <1>7 DEF vars, data
<1> HIDE DEF CallsOK
<1> QED BY <1>1, <1>2, <1>3, <1>4, <1>5, <1>6, <1>7 DEF Next, CallerStep, Gone

LEMMA TornStep ==
  ASSUME TypeOK, CallsOK, TornOK, [Next]_vars
  PROVE  TornOK'
<1> USE DEF TornOK
<1>1. ASSUME NEW t \in Tasks, Begin(t) PROVE TornOK'
  BY <1>1 DEF Begin, Rounds!Begin
<1>2. ASSUME NEW t \in Tasks, End(t) PROVE TornOK'
  BY <1>2 DEF End, Rounds!End
<1>3. ASSUME NEW t \in Tasks, SubmitInput(t) \/ SubmitRoot(t) PROVE TornOK'
  BY <1>3 DEF SubmitInput, SubmitRoot, Rounds!Submit
<1>4. CASE UpdateDone \/ NextRound
  BY <1>4 DEF UpdateDone, NextRound, Rounds!EndRound, Rounds!NewRound
<1>5. CASE Feed \/ Reset \/ Clear \/ FreeConvolutions \/ JoinWorkers
  BY <1>5 DEF Feed, Reset, Clear, FreeConvolutions, JoinWorkers, rounds, CallsOK
<1>6. CASE UNCHANGED vars
  BY <1>6 DEF vars, rounds
<1> HIDE DEF TornOK
<1> QED BY <1>1, <1>2, <1>3, <1>4, <1>5, <1>6, EndStep DEF Next, Worker, CallerStep, Gone
--------------------------------------------------------------------------------
(* The overlap buffers, the spectra of the input and the delay lines. *)

LEMMA PendingType == ASSUME NEW t PROVE Pending(t) \in {0, 1} /\ Pending(t)' \in {0, 1}
BY DEF Pending

(* Inside a call nothing is pending any more once the round is over; between *)
(* two calls nothing is.                                                     *)
LEMMA NonePending ==
  ASSUME ~Updating, NEW t
  PROVE  Pending(t) = 0
BY DEF Pending

LEMMA SamePending ==
  ASSUME Updating' <=> Updating, NEW t, t \in done' <=> t \in done
  PROVE  Pending(t)' = Pending(t)
BY DEF Pending

LEMMA EndPending ==
  ASSUME NEW t \in Tasks, End(t), NEW u, u # t
  PROVE  Pending(u)' = Pending(u)
<1>1. (Updating' <=> Updating) /\ (u \in done' <=> u \in done)
  BY DEF End, Rounds!End, Updating
<1> QED BY <1>1, SamePending

(* Between two calls no input has run. *)
LEMMA InputsIdle ==
  ASSUME TypeOK, RoundOK, caller \in {"background", "free", "clearing", "freed", "gone"},
         NEW c \in Channels
  PROVE  Job("in", c) \notin running \cup done
BY InputJobs, InputsInCall

LEMMA OverlapStep ==
  ASSUME TypeOK, RoundOK, CallsOK, OverlapOK, [Next]_vars
  PROVE  OverlapOK'
<1> DEFINE Held(c) == IF caller = "clearing" THEN Silence ELSE Ago(c, Pending(Job("in", c)))
<1> SUFFICES ASSUME NEW c \in Channels PROVE (overlap[c] = Held(c))'
  BY DEF OverlapOK
<1>0. overlap[c] = Held(c) BY DEF OverlapOK
<1> DEFINE j == Job("in", c)
<1>a. fed \in History /\ Longest \in Nat \ {0} BY LongestBound DEF TypeOK, History
<1>1. ASSUME NEW t \in Tasks, Worker(t), ~EndInput(t) PROVE (overlap[c] = Held(c))'
  <2>1. UNCHANGED <<overlap, caller, fed>>
    BY <1>1, WorkerKeeps DEF Worker, Begin, EndLeaf, EndSum, EndShift, EndCombine, EndResult,
                             EndRoot, data
  <2>2. j \in done' <=> j \in done
    <3>1. Kind(j) = "in" BY JobFacts
    <3> HIDE DEF j
    <3> QED BY <1>1, <3>1 DEF Worker, Begin, Rounds!Begin, EndLeaf, EndSum, EndShift, EndCombine,
                   EndResult, EndRoot, End, Rounds!End
  <2>3. Pending(j)' = Pending(j)
    <3> Updating' <=> Updating BY <2>1 DEF Updating
    <3> QED BY <2>2, SamePending
  <2> QED BY <1>0, <2>1, <2>3 DEF Ago
<1>2. ASSUME NEW t \in Tasks, EndInput(t) PROVE (overlap[c] = Held(c))'
  <2>1. End(t) /\ t \in running /\ t \in Of("in") BY <1>2 DEF EndInput, End, Rounds!End, Of
  <2>2. t = Job("in", t[2]) /\ t[2] \in Channels BY <2>1, InputJobs
  <2>3. Updating /\ caller' = caller /\ fed' = fed
    BY <2>1, InputsInCall DEF Updating, RoundOK, End
  <2>4. CASE t[2] = c
    <3>1. Pending(j)' = 0 BY <2>1, <2>2, <2>4 DEF Pending, End, Rounds!End
    <3>2. overlap'[c] = input[c] BY <1>2, <2>4 DEF EndInput, TypeOK
    <3>3. input[c] = Ago(c, 0) BY <2>3 DEF CallsOK, Ago
    <3> QED BY <2>3, <3>1, <3>2, <3>3 DEF Ago, Updating
  <2>5. CASE t[2] # c
    <3>1. j # t BY <2>5, JobFacts
    <3>2. Pending(j)' = Pending(j) BY <2>1, <3>1, EndPending
    <3>3. overlap'[c] = overlap[c] BY <1>2, <2>5 DEF EndInput, TypeOK
    <3> QED BY <1>0, <2>3, <3>2, <3>3 DEF Ago
  <2> QED BY <2>4, <2>5
<1>3. ASSUME NEW t \in Tasks, SubmitInput(t) \/ SubmitRoot(t) PROVE (overlap[c] = Held(c))'
  <2>1. UNCHANGED <<overlap, fed, done>> /\ caller # "clearing" /\ caller' # "clearing"
    BY <1>3 DEF SubmitInput, SubmitRoot, data, Rounds!Submit
  <2>2. CASE Updating' <=> Updating
    <3>1. Pending(j)' = Pending(j) BY <2>1, <2>2, SamePending
    <3> QED BY <1>0, <2>1, <3>1 DEF Ago
  <2>3. CASE ~(Updating' <=> Updating)
    <3>1. fed = Quiet BY <1>3, <2>3 DEF SubmitInput, SubmitRoot, Updating, CallsOK
    <3>2. Pending(j) \in 0 .. Longest /\ Pending(j)' \in 0 .. Longest BY <1>a, PendingType
    <3>3. Ago(c, Pending(j)) = Silence /\ Ago(c, Pending(j)') = Silence
      BY <3>1, <3>2, QuietFacts
    <3> QED BY <1>0, <2>1, <3>3 DEF Ago
  <2> QED BY <2>2, <2>3
<1>4. CASE UpdateDone \/ NextRound
  <2>1. /\ UNCHANGED <<overlap, fed>>
        /\ caller # "clearing" /\ caller' # "clearing" /\ ~Updating'
    BY <1>4 DEF UpdateDone, NextRound, data, Updating
  <2>2. Pending(j)' = 0 BY <2>1 DEF Pending
  <2>3. Pending(j) = 0
    <3>1. j \in Tasks /\ j # Final BY InputJobs, OfKind, FinalKind
    <3> HIDE DEF j
    <3> QED BY <1>4, <3>1, SameRounds
           DEF UpdateDone, NextRound, Rounds!EndRound, Pending, Updating
  <2> QED BY <1>0, <2>1, <2>2, <2>3 DEF Ago
<1>5. CASE Feed
  <2>1. overlap' = overlap /\ done' = done /\ caller = "free" /\ caller' = "inputs"
    BY <1>5 DEF Feed, rounds
  <2>2. Pending(j) = 0 /\ Pending(j)' = 1
    BY <2>1, InputsIdle DEF Pending, Updating
  <2>3. 0 \in 0 .. Longest - 1 BY <1>a
  <2>4. input' \in [Channels -> Samples] /\ Remember(input') BY <1>5 DEF Feed
  <2>5. Ago(c, 0 + 1)' = Ago(c, 0) BY <1>a, <2>3, <2>4, AgoNext
  <2> QED BY <1>0, <2>1, <2>2, <2>5 DEF Ago
<1>6. CASE Reset
  BY <1>6 DEF Reset
<1>7. CASE Clear
  <2>1. overlap'[c] = Silence /\ caller' = "inputs" /\ fed' = Quiet BY <1>0, <1>7 DEF Clear
  <2>2. Pending(j)' \in 0 .. Longest BY <1>a, PendingType
  <2>3. Quiet[Pending(j)' + 1][c] = Silence
    <3>1. Pending(j)' + 1 \in 1 .. Longest + 1 BY <1>a, <2>2
    <3> QED BY <3>1 DEF Quiet
  <2> QED BY <2>1, <2>3 DEF Ago
<1>8. CASE FreeConvolutions \/ JoinWorkers
  <2>1. /\ UNCHANGED <<overlap, fed, done>>
        /\ caller # "clearing" /\ caller' # "clearing" /\ ~Updating /\ ~Updating'
    BY <1>8 DEF FreeConvolutions, JoinWorkers, rounds, data, Updating
  <2>2. Pending(j)' = Pending(j) BY <2>1 DEF Pending
  <2> QED BY <1>0, <2>1, <2>2 DEF Ago
<1>9. CASE UNCHANGED vars
  BY <1>0, <1>9 DEF vars, rounds, data, Ago, Pending, Updating
<1> QED BY <1>1, <1>2, <1>3, <1>4, <1>5, <1>6, <1>7, <1>8, <1>9 DEF Next, CallerStep, Gone

LEMMA SpectrumStep ==
  ASSUME TypeOK, RoundOK, CallsOK, OverlapOK, SpectrumOK, [Next]_vars
  PROVE  SpectrumOK'
<1> SUFFICES ASSUME NEW c \in Channels, (Job("in", c) \in done)'
             PROVE  (spectrum[c] = SpectrumAgo(c, 0))'
  BY DEF SpectrumOK
<1> DEFINE j == Job("in", c)
<1>1. j \in Tasks /\ Kind(j) = "in" /\ j \in Of("in") BY InputJobs, OfKind
<1>2. ASSUME spectrum' = spectrum, fed' = fed, j \in done
      PROVE  (spectrum[c] = SpectrumAgo(c, 0))'
  BY <1>2 DEF SpectrumOK, SpectrumAgo, Ago
<1>3. ASSUME NEW t \in Tasks, Worker(t), ~EndInput(t)
      PROVE  (spectrum[c] = SpectrumAgo(c, 0))'
  <2>1. UNCHANGED <<spectrum, fed>>
    BY <1>3, WorkerKeeps DEF Worker, Begin, EndLeaf, EndSum, EndShift, EndCombine, EndResult,
                             EndRoot, data
  <2>2. j \in done
    <3> HIDE DEF j
    <3> SUFFICES ASSUME j \in done' PROVE j \in done BY DEF j
    <3> QED BY <1>1, <1>3 DEF Worker, Begin, Rounds!Begin, EndLeaf, EndSum, EndShift, EndCombine,
                   EndResult, EndRoot, End, Rounds!End
  <2> QED BY <1>2, <2>1, <2>2
<1>4. ASSUME NEW t \in Tasks, EndInput(t)
      PROVE  (spectrum[c] = SpectrumAgo(c, 0))'
  <2>1. End(t) /\ t \in running /\ t \in Of("in") BY <1>4 DEF EndInput, End, Rounds!End, Of
  <2>2. t = Job("in", t[2]) /\ t[2] \in Channels BY <2>1, InputJobs
  <2>3. Updating /\ caller' = caller /\ fed' = fed
    BY <2>1, InputsInCall DEF Updating, RoundOK, End
  <2>4. CASE t[2] = c
    <3>1. spectrum'[c] = <<overlap[c], input[c]>> BY <1>4, <2>4 DEF EndInput, TypeOK
    <3>2. input[c] = Ago(c, 0) BY <2>3 DEF CallsOK, Ago
    <3>3. Pending(j) = 1 BY <2>1, <2>2, <2>3, <2>4 DEF Pending, RoundOK
    <3>4. overlap[c] = Ago(c, 0 + 1) BY <2>3, <3>3 DEF OverlapOK, Updating
    <3> QED BY <2>3, <3>1, <3>2, <3>4 DEF SpectrumAgo, Ago
  <2>5. CASE t[2] # c
    <3>1. j # t BY <2>5, JobFacts
    <3>2. j \in done BY <2>1, <3>1 DEF End, Rounds!End
    <3>3. spectrum'[c] = spectrum[c] BY <1>4, <2>5 DEF EndInput, TypeOK
    <3> QED BY <2>3, <3>2, <3>3 DEF SpectrumOK, SpectrumAgo, Ago
  <2> QED BY <2>4, <2>5
<1>5. ASSUME NEW t \in Tasks, SubmitInput(t) \/ SubmitRoot(t)
      PROVE  (spectrum[c] = SpectrumAgo(c, 0))'
  <2> UNCHANGED <<spectrum, fed, done>> BY <1>5 DEF SubmitInput, SubmitRoot, data, Rounds!Submit
  <2> QED BY <1>2
<1>6. CASE UpdateDone
  <2>1. UNCHANGED <<spectrum, fed>> BY <1>6 DEF UpdateDone, data
  <2>2. j \in done
    <3>1. j # Final BY <1>1, FinalKind
    <3> QED BY <1>1, <1>6, <3>1, SameRounds DEF UpdateDone, Rounds!EndRound
  <2> QED BY <1>2, <2>1, <2>2
<1>7. ASSUME NextRound PROVE FALSE
  BY <1>7 DEF NextRound, Rounds!NewRound
<1>8. ASSUME Feed \/ Clear PROVE FALSE
  <2>1. done' = done /\ caller \in {"free", "clearing"} BY <1>8 DEF Feed, Clear, rounds
  <2> QED BY <2>1, InputsIdle
<1>9. CASE Reset \/ FreeConvolutions \/ JoinWorkers
  <2> UNCHANGED <<spectrum, fed, done>> 
    BY <1>9 DEF Reset, FreeConvolutions, JoinWorkers, rounds, data
  <2> QED BY <1>2
<1>10. CASE UNCHANGED vars
  <2> UNCHANGED <<spectrum, fed, done>> BY <1>10 DEF vars, rounds, data
  <2> QED BY <1>2
<1> QED BY <1>3, <1>4, <1>5, <1>6, <1>7, <1>8, <1>9, <1>10 DEF Next, CallerStep, Gone

LEMMA LineStep ==
  ASSUME TypeOK, RoundOK, CallsOK, SpectrumOK, LineOK, [Next]_vars
  PROVE  LineOK'
<1> SUFFICES ASSUME NEW f \in Filters, NEW b \in 1 .. NumBlocks[f] - 1
             PROVE  (line[f][Slot(f, b)] = SpectrumAgo(Channel[f], b - 1 + Pending(Job("shift", f))))'
  BY DEF LineOK
<1> DEFINE c == Channel[f]
           j == Job("shift", f)
           Exact == line[f][Slot(f, b)] = SpectrumAgo(c, b - 1 + Pending(j))
<1>0. Exact BY DEF LineOK
<1>a. /\ NumBlocks[f] \in Nat \ {0} /\ Longest \in Nat \ {0} /\ NumBlocks[f] <= Longest
      /\ c \in Channels /\ fed \in History
      /\ first[f] \in 0 .. NumBlocks[f] - 1
  BY CrossoverAssumption, LongestBound DEF TypeOK, History
<1>b. j \in Tasks /\ Kind(j) = "shift" BY FilterJobs, OfKind
<1>c. ASSUME UNCHANGED <<line, first, fed>>, Pending(j)' = Pending(j) PROVE Exact'
  BY <1>0, <1>c DEF Slot, SpectrumAgo, Ago
<1>1. ASSUME NEW t \in Tasks, Worker(t), ~EndShift(t) PROVE Exact'
  <2>1. UNCHANGED <<line, first, caller, fed>>
    BY <1>1, WorkerKeeps DEF Worker, Begin, EndInput, EndLeaf, EndSum, EndCombine, EndResult,
                             EndRoot, data
  <2>2. j \in done' <=> j \in done
    <3> HIDE DEF j
    <3> QED BY <1>b, <1>1 DEF Worker, Begin, Rounds!Begin, EndInput, EndLeaf, EndSum, EndCombine,
                   EndResult, EndRoot, End, Rounds!End
  <2>3. Updating' <=> Updating BY <2>1 DEF Updating
  <2> QED BY <1>c, <2>1, <2>2, <2>3, SamePending
<1>2. ASSUME NEW t \in Tasks, EndShift(t) PROVE Exact'
  <2>1. End(t) /\ t \in running /\ t \in Of("shift") BY <1>2 DEF EndShift, End, Rounds!End, Of
  <2>2. t = Job("shift", t[2]) /\ t[2] \in Filters BY <2>1, FilterJobs
  <2>3. fed' = fed BY <2>1 DEF End
  <2>4. CASE t[2] = f
    <3>1. t = j /\ Updating /\ Job("in", c) \in done
      BY <2>1, <2>2, <2>4, FilterInCall DEF Updating, RoundOK
    <3>2. Pending(j) = 1 /\ Pending(j)' = 0
      BY <2>1, <3>1 DEF Pending, RoundOK, End, Rounds!End
    <3>3. first'[f] = IF first[f] + 1 = NumBlocks[f] THEN 0 ELSE first[f] + 1
      BY <1>2, <2>4 DEF EndShift, TypeOK
    <3>4. Slot(f, b)' = Slot(f, b - 1) BY <1>a, <3>3, SlotMoves
    <3>5. line'[f] = [line[f] EXCEPT ![Slot(f, 0)] = spectrum[c]]
      BY <1>2, <2>4 DEF EndShift, TypeOK
    <3>6. 0 \in 0 .. NumBlocks[f] - 1 /\ b - 1 \in 0 .. NumBlocks[f] - 1 BY <1>a
    <3>7. Slot(f, b - 1) \in DOMAIN line[f] /\ Slot(f, 0) \in DOMAIN line[f]
      <4>1. DOMAIN line[f] = 0 .. NumBlocks[f] - 1 BY DEF TypeOK
      <4>2. Slot(f, b - 1) \in 0 .. NumBlocks[f] - 1 /\ Slot(f, 0) \in 0 .. NumBlocks[f] - 1
        BY <1>a, <3>6, SlotFacts
      <4> QED BY <4>1, <4>2
    <3>8. line'[f][Slot(f, b - 1)] = SpectrumAgo(c, b - 1)
      <4>1. CASE b = 1
        <5>1. line'[f][Slot(f, 0)] = spectrum[c] BY <3>5, <3>7
        <5>2. spectrum[c] = SpectrumAgo(c, 0) BY <1>a, <3>1 DEF SpectrumOK
        <5> QED BY <4>1, <5>1, <5>2
      <4>2. CASE b # 1
        <5>1. Slot(f, b - 1) # Slot(f, 0) BY <1>a, <3>6, <4>2, SlotFacts
        <5>2. line'[f][Slot(f, b - 1)] = line[f][Slot(f, b - 1)] BY <3>5, <3>7, <5>1
        <5>3. b - 1 \in 1 .. NumBlocks[f] - 1 BY <1>a, <4>2
        <5>4. line[f][Slot(f, b - 1)] = SpectrumAgo(c, b - 1 - 1 + Pending(j))
          BY <5>3 DEF LineOK
        <5>5. b - 1 - 1 + Pending(j) = b - 1 BY <3>2
        <5> QED BY <5>2, <5>4, <5>5
      <4> QED BY <4>1, <4>2
    <3>9. b - 1 + Pending(j)' = b - 1 BY <3>2
    <3> QED BY <2>3, <3>4, <3>8, <3>9 DEF SpectrumAgo, Ago
  <2>5. CASE t[2] # f
    <3>1. j # t BY <2>5, JobFacts
    <3>2. Pending(j)' = Pending(j) BY <2>1, <3>1, EndPending
    <3>3. line'[f] = line[f] /\ first'[f] = first[f] BY <1>2, <2>5 DEF EndShift, TypeOK
    <3> QED BY <1>0, <2>3, <3>2, <3>3 DEF Slot, SpectrumAgo, Ago
  <2> QED BY <2>4, <2>5
<1>3. ASSUME NEW t \in Tasks, SubmitInput(t) \/ SubmitRoot(t) PROVE Exact'
  <2>1. UNCHANGED <<line, first, fed, done>>
    BY <1>3 DEF SubmitInput, SubmitRoot, data, Rounds!Submit
  <2>2. CASE Updating' <=> Updating
    BY <1>c, <2>1, <2>2, SamePending
  <2>3. CASE ~(Updating' <=> Updating)
    <3>1. fed = Quiet BY <1>3, <2>3 DEF SubmitInput, SubmitRoot, Updating, CallsOK
    <3>2. b - 1 + Pending(j) \in 0 .. Longest - 1 /\ b - 1 + Pending(j)' \in 0 .. Longest - 1
      BY <1>a, PendingType
    <3>3. SpectrumAgo(c, b - 1 + Pending(j)) = SpectrumAgo(c, b - 1 + Pending(j)')
      BY <1>a, <3>1, <3>2, QuietFacts
    <3> QED BY <1>0, <2>1, <3>3 DEF Slot, SpectrumAgo, Ago
  <2> QED BY <2>2, <2>3
<1>4. CASE UpdateDone \/ NextRound
  <2>1. UNCHANGED <<line, first, fed>> /\ ~Updating'
    BY <1>4 DEF UpdateDone, NextRound, data, Updating
  <2>2. Pending(j)' = 0 BY <2>1 DEF Pending
  <2>3. Pending(j) = 0
    <3>1. j # Final BY <1>b, FinalKind
    <3> HIDE DEF j
    <3> QED BY <1>b, <1>4, <3>1, SameRounds
           DEF UpdateDone, NextRound, Rounds!EndRound, Pending, Updating
  <2> QED BY <1>c, <2>1, <2>2, <2>3
<1>5. CASE Feed
  <2>1. UNCHANGED <<line, first, done>> /\ caller = "free" /\ caller' = "inputs"
    BY <1>5 DEF Feed, rounds
  <2>2. j \notin done BY <2>1, FilterInCall
  <2>3. Pending(j) = 0 /\ Pending(j)' = 1 BY <2>1, <2>2 DEF Pending, Updating
  <2>4. input' \in [Channels -> Samples] /\ Remember(input') BY <1>5 DEF Feed
  <2>5. b - 1 \in 0 .. Longest - 2 BY <1>a
  <2>6. SpectrumAgo(c, b - 1 + 1)' = SpectrumAgo(c, b - 1) BY <1>a, <2>4, <2>5, AgoNext
  <2>7. b - 1 + Pending(j) = b - 1 /\ b - 1 + Pending(j)' = b - 1 + 1 BY <2>3
  <2>8. line[f][Slot(f, b)] = SpectrumAgo(c, b - 1) BY <1>0, <2>7
  <2> QED BY <2>1, <2>6, <2>7, <2>8 DEF Slot, SpectrumAgo, Ago
<1>6. CASE Clear
  <2>1. first' = first /\ fed' = Quiet BY <1>6 DEF Clear
  <2>2. Slot(f, b) \in DOMAIN line[f] BY <1>a, SlotFacts DEF TypeOK
  <2>3. line'[f][Slot(f, b)] = Zero BY <1>6, <2>2 DEF Clear
  <2>4. Slot(f, b)' = Slot(f, b) BY <2>1 DEF Slot
  <2>5. PICK p \in {0, 1} : p = Pending(j)' BY PendingType
  <2>6. b - 1 + p + 1 \in 1 .. Longest + 1 /\ b - 1 + p + 1 + 1 \in 1 .. Longest + 1 BY <1>a
  <2>7. fed'[b - 1 + p + 1][c] = Silence /\ fed'[b - 1 + p + 1 + 1][c] = Silence
    BY <1>a, <2>1, <2>6 DEF Quiet
  <2> QED BY <2>3, <2>4, <2>5, <2>7 DEF SpectrumAgo, Ago, Zero
<1>7. CASE Reset \/ FreeConvolutions \/ JoinWorkers
  <2>1. UNCHANGED <<line, first, fed, done>> /\ ~Updating /\ ~Updating'
    BY <1>7 DEF Reset, FreeConvolutions, JoinWorkers, rounds, data, Updating
  <2> QED BY <1>c, <2>1, SamePending
<1>8. CASE UNCHANGED vars
  <2>1. UNCHANGED <<line, first, fed, done, caller>> BY <1>8 DEF vars, rounds, data
  <2>2. Updating' <=> Updating BY <2>1 DEF Updating
  <2> QED BY <1>c, <2>1, <2>2, SamePending
<1> QED BY <1>1, <1>2, <1>3, <1>4, <1>5, <1>6, <1>7, <1>8 DEF Next, CallerStep, Gone
--------------------------------------------------------------------------------
(* The artifacts of the leaf and sum tasks. *)

(* A sum of parts that agree is the part of all their blocks. *)
LEMMA TotalIs ==
  ASSUME NEW ts \in SUBSET Parts, NEW g,
         \A t \in ts : part[t] = [b \in Covers[t] |-> g[b]]
  PROVE  Total(ts) = [b \in UNION {Covers[t] : t \in ts} |-> g[b]]
<1> DEFINE D == UNION {DOMAIN part[t] : t \in ts}
           C == UNION {Covers[t] : t \in ts}
<1>1. \A t \in ts : DOMAIN part[t] = Covers[t] OBVIOUS
<1>2. D = C BY <1>1
<1>3. ASSUME NEW b \in D
      PROVE  part[CHOOSE t \in ts : b \in DOMAIN part[t]][b] = g[b]
  <2> DEFINE t == CHOOSE t \in ts : b \in DOMAIN part[t]
  <2>1. t \in ts /\ b \in DOMAIN part[t] OBVIOUS
  <2> HIDE DEF t
  <2>2. part[t][b] = g[b] BY <2>1, <1>1
  <2> QED BY <2>2 DEF t
<1>4. Total(ts) = [b \in D |-> g[b]] BY <1>3 DEF Total
<1> QED BY <1>2, <1>4

LEMMA PartStep ==
  ASSUME TypeOK, RoundOK, CallsOK, TornOK, LineOK, PartOK, [Next]_vars
  PROVE  PartOK'
<1> SUFFICES ASSUME Settled', NEW t \in Parts, t \in done'
             PROVE  (part[t] = [b \in Covers[t] |-> Expected(t[2], b)])'
  BY DEF PartOK
<1> DEFINE f == t[2]
           c == Channel[f]
           Exact == part[t] = [b \in Covers[t] |-> Expected(f, b)]
<1>a. /\ t \in Tasks /\ Kind(t) \in {"leaf", "sum"} /\ f \in Filters
      /\ c \in Channels /\ fed \in History /\ Longest \in Nat \ {0}
      /\ Covers[t] \subseteq 1 .. Longest - 1
  BY PartKinds, CrossoverAssumption, LongestBound, CoversFacts DEF TypeOK, History
<1>b. ASSUME part'[t] = part[t], fed' = fed, Updating' <=> Updating, Settled, t \in done
      PROVE  Exact'
  BY <1>b DEF PartOK, Expected, SpectrumAgo, Ago
<1>1. ASSUME NEW u \in Tasks, Begin(u) PROVE Exact'
  <2>1. UNCHANGED <<part, fed, caller, updates, done>> BY <1>1 DEF Begin, Rounds!Begin, data
  <2>2. Settled /\ (Updating' <=> Updating) BY <2>1 DEF Settled, Updating
  <2> QED BY <1>b, <2>1, <2>2
<1>2. ASSUME NEW u \in Tasks, Worker(u), ~Begin(u) PROVE Exact'
  <2>1. End(u) /\ u \in running /\ done' = done \cup {u}
    BY <1>2, EndStep DEF Worker, End, Rounds!End
  <2>2. UNCHANGED <<fed, caller, updates>> BY <1>2, WorkerKeeps
  <2>3. Settled /\ (Updating' <=> Updating) BY <2>2 DEF Settled, Updating
  <2>4. Deps[u] \subseteq done /\ u \notin done BY <2>1 DEF RoundOK
  <2>5. CASE u # t
    <3>1. part'[t] = part[t]
      BY <1>2, <2>5 DEF Worker, EndInput, EndLeaf, EndSum, EndShift, EndCombine, EndResult, EndRoot,
                        data, TypeOK
    <3> QED BY <1>b, <2>1, <2>2, <2>3, <2>5, <3>1
  <2>6. CASE u = t /\ Kind(t) = "leaf"
    <3>1. EndLeaf(t)
      BY <1>2, <2>6 DEF Worker, EndInput, EndSum, EndShift, EndCombine, EndResult, EndRoot
    <3>2. t \notin torn BY <2>3 DEF Settled, Updating, TornOK, CallsOK
    <3>3. part'[t] = [b \in Blocks(t) |-> line[f][Slot(f, b)]]
      BY <3>1, <3>2 DEF EndLeaf, TypeOK
    <3>4. t \in Of("leaf") BY <1>a, <2>6 DEF Of
    <3>5. Job("shift", f) \notin done
      <4>1. t \in Deps[Job("shift", f)] BY <1>a, <3>4, FilterDeps
      <4> QED BY <2>4, <2>6, <4>1 DEF RoundOK
    <3>6. Pending(Job("shift", f)) = IF Updating THEN 1 ELSE 0 BY <3>5 DEF Pending
    <3>7. ASSUME NEW b \in Blocks(t) PROVE line[f][Slot(f, b)] = Expected(f, b)'
      <4>1. b \in 1 .. NumBlocks[f] - 1 /\ NumBlocks[f] \in Nat
        BY <1>a, <3>4, LeafBlocks, CrossoverAssumption
      <4>2. line[f][Slot(f, b)] = SpectrumAgo(c, b - 1 + Pending(Job("shift", f)))
        BY <1>a, <4>1 DEF LineOK
      <4>3. b - 1 + Pending(Job("shift", f)) = IF Updating THEN b ELSE b - 1
        BY <3>6, <4>1
      <4> QED BY <2>2, <2>3, <4>2, <4>3 DEF Expected, SpectrumAgo, Ago
    <3>8. Covers[t] = Blocks(t) BY <3>4, CoversFacts
    <3> QED BY <3>3, <3>7, <3>8
  <2>7. CASE u = t /\ Kind(t) = "sum"
    <3>1. EndSum(t)
      BY <1>2, <2>7 DEF Worker, EndInput, EndLeaf, EndShift, EndCombine, EndResult, EndRoot
    <3>2. t \in Of("sum") BY <1>a, <2>7 DEF Of
    <3>3. Deps[t] \subseteq Parts /\ \A d \in Deps[t] : d[2] = f
      BY <3>2, ShapeAssumption DEF Shape, Layout, PartsOf
    <3> DEFINE g == [b \in 1 .. Longest - 1 |-> Expected(f, b)]
    <3>4. ASSUME NEW d \in Deps[t] PROVE part[d] = [b \in Covers[d] |-> g[b]]
      <4>1. part[d] = [b \in Covers[d] |-> Expected(f, b)]
        BY <2>3, <2>4, <2>7, <3>3 DEF PartOK
      <4>2. Covers[d] \subseteq 1 .. Longest - 1 BY <3>3, CoversFacts
      <4> QED BY <4>1, <4>2
    <3>5. Total(Deps[t]) = [b \in UNION {Covers[d] : d \in Deps[t]} |-> g[b]]
      <4> DEFINE ts == Deps[t]
      <4>1. ts \in SUBSET Parts BY <3>3
      <4>2. \A d \in ts : part[d] = [b \in Covers[d] |-> g[b]] BY <3>4
      <4> HIDE DEF ts, g
      <4>3. Total(ts) = [b \in UNION {Covers[d] : d \in ts} |-> g[b]]
        BY <4>1, <4>2, TotalIs, Zenon
      <4> QED BY <4>3 DEF ts
    <3>6. Covers[t] = UNION {Covers[d] : d \in Deps[t]} BY <3>2, CoversFacts
    <3>7. part'[t] = [b \in Covers[t] |-> g[b]] BY <3>1, <3>5, <3>6 DEF EndSum, TypeOK
    <3>8. \A b \in Covers[t] : g[b] = Expected(f, b)'
      BY <1>a, <2>2, <2>3 DEF Expected, SpectrumAgo, Ago
    <3> QED BY <3>7, <3>8
  <2> QED BY <1>a, <2>5, <2>6, <2>7
<1>3. ASSUME NEW u \in Tasks, SubmitInput(u) \/ SubmitRoot(u) PROVE Exact'
  <2>1. UNCHANGED <<part, fed, updates, done>>
    BY <1>3 DEF SubmitInput, SubmitRoot, data, Rounds!Submit
  <2>2. Settled BY <1>3, <2>1 DEF Settled, SubmitInput, SubmitRoot, Updating
  <2>3. CASE Updating' <=> Updating
    BY <1>b, <2>1, <2>2, <2>3
  <2>4. CASE ~(Updating' <=> Updating)
    <3>1. fed = Quiet BY <1>3, <2>4 DEF SubmitInput, SubmitRoot, Updating, CallsOK
    <3>2. ASSUME NEW b \in Covers[t] PROVE Expected(f, b) = Expected(f, b)'
      <4>1. b \in 0 .. Longest - 1 /\ b - 1 \in 0 .. Longest - 1 BY <1>a
      <4>2. SpectrumAgo(c, b) = Zero /\ SpectrumAgo(c, b - 1) = Zero
        BY <1>a, <3>1, <4>1, QuietFacts
      <4>3. SpectrumAgo(c, b)' = Zero /\ SpectrumAgo(c, b - 1)' = Zero
        BY <2>1, <4>2 DEF SpectrumAgo, Ago
      <4> QED BY <4>2, <4>3 DEF Expected
    <3>3. part[t] = [b \in Covers[t] |-> Expected(f, b)] BY <2>1, <2>2 DEF PartOK
    <3> QED BY <2>1, <3>2, <3>3
  <2> QED BY <2>3, <2>4
<1>4. CASE UpdateDone \/ NextRound \/ Reset \/ Clear \/ FreeConvolutions \/ JoinWorkers
  BY <1>4 DEF UpdateDone, NextRound, Rounds!NewRound, Reset, Clear, FreeConvolutions, JoinWorkers,
              Settled, Updating
<1>5. CASE Feed
  <2>1. part' = part /\ done' = done /\ caller = "free" /\ caller' = "inputs"
    BY <1>5 DEF Feed, rounds
  <2>2. input' \in [Channels -> Samples] /\ Remember(input') BY <1>5 DEF Feed
  <2>3. ASSUME NEW b \in Covers[t] PROVE Expected(f, b) = Expected(f, b)'
    <3>1. b - 1 \in 0 .. Longest - 2 /\ b - 1 + 1 = b BY <1>a
    <3>2. SpectrumAgo(c, b - 1 + 1)' = SpectrumAgo(c, b - 1) BY <1>a, <2>2, <3>1, AgoNext
    <3>3. SpectrumAgo(c, b)' = SpectrumAgo(c, b - 1) BY <3>1, <3>2 DEF SpectrumAgo, Ago
    <3> QED BY <2>1, <3>3 DEF Expected, Updating
  <2>4. part[t] = [b \in Covers[t] |-> Expected(f, b)] BY <2>1 DEF PartOK, Settled
  <2> QED BY <2>1, <2>3, <2>4
<1>6. CASE UNCHANGED vars
  <2>1. UNCHANGED <<part, fed, caller, updates, done>> BY <1>6 DEF vars, rounds, data
  <2>2. Settled /\ (Updating' <=> Updating) BY <2>1 DEF Settled, Updating
  <2> QED BY <1>b, <2>1, <2>2
<1> QED BY <1>1, <1>2, <1>3, <1>4, <1>5, <1>6 DEF Next, CallerStep, Gone
--------------------------------------------------------------------------------
(* The products and the outputs. *)

LEMMA WholeKept == ASSUME fed' = fed, NEW f PROVE Whole(f)' = Whole(f)
BY DEF Whole, SpectrumAgo, Ago

LEMMA ProductStep ==
  ASSUME TypeOK, RoundOK, SpectrumOK, PartOK, ProductOK, [Next]_vars
  PROVE  ProductOK'
<1> SUFFICES ASSUME Settled', NEW f \in Filters,
                    Job("combine", f) \in done', Job("result", f) \notin done'
             PROVE  product'[f] = Whole(f)'
  BY DEF ProductOK
<1> DEFINE c == Channel[f]
           j == Job("combine", f)
           r == Job("result", f)
<1>a. j \in Tasks /\ Kind(j) = "combine" /\ r \in Tasks /\ Kind(r) = "result"
  BY FilterJobs, OfKind
<1>b. ASSUME product'[f] = product[f], fed' = fed, Settled, j \in done, r \notin done
      PROVE  product'[f] = Whole(f)'
  BY <1>b, WholeKept DEF ProductOK
<1>1. ASSUME NEW u \in Tasks, Begin(u) PROVE product'[f] = Whole(f)'
  <2>1. UNCHANGED <<product, fed, caller, updates, done>> BY <1>1 DEF Begin, Rounds!Begin, data
  <2>2. Settled BY <2>1 DEF Settled, Updating
  <2> QED BY <1>b, <2>1, <2>2
<1>2. ASSUME NEW u \in Tasks, Worker(u), ~Begin(u) PROVE product'[f] = Whole(f)'
  <2>1. End(u) /\ u \in running /\ done' = done \cup {u}
    BY <1>2, EndStep DEF Worker, End, Rounds!End
  <2>2. UNCHANGED <<fed, caller, updates>> BY <1>2, WorkerKeeps
  <2>3. Settled BY <2>2 DEF Settled, Updating
  <2>4. u # r BY <2>1
  <2>5. CASE u # j
    <3>1. product'[f] = product[f]
      <4>1. CASE EndCombine(u)
        <5>1. u \in Of("combine") BY <4>1 DEF EndCombine, Of
        <5>2. u[2] # f BY <5>1, <2>5, FilterJobs
        <5> QED BY <4>1, <5>2 DEF EndCombine, TypeOK
      <4>2. CASE EndResult(u)
        <5>1. u \in Of("result") BY <4>2 DEF EndResult, Of
        <5>2. u[2] # f BY <5>1, <2>4, FilterJobs
        <5> QED BY <4>2, <5>2 DEF EndResult, TypeOK
      <4>3. CASE ~EndCombine(u) /\ ~EndResult(u)
        BY <1>2, <4>3 DEF Worker, EndInput, EndLeaf, EndSum, EndShift, EndRoot, data
      <4> QED BY <4>1, <4>2, <4>3
    <3> QED BY <1>b, <2>1, <2>2, <2>3, <2>5, <3>1
  <2>6. CASE u = j
    <3>1. EndCombine(j)
      BY <1>a, <1>2, <2>6 DEF Worker, EndInput, EndLeaf, EndSum, EndShift, EndResult, EndRoot
    <3>2. Updating /\ Job("in", c) \in done
      BY <2>1, <2>6, FilterInCall DEF Updating, RoundOK
    <3> DEFINE ts == Deps[j] \ Of("in")
               N == NumBlocks[f]
               others == Total(ts)
               g == [b \in 1 .. N - 1 |-> SpectrumAgo(c, b)]
    <3>3. ts \subseteq done /\ ts \in SUBSET Parts /\ \A t \in ts : t[2] = f
      BY <2>1, <2>6, FilterDeps DEF RoundOK, PartsOf
    <3>4. 1 .. N - 1 = UNION {Covers[t] : t \in ts} BY CoversFacts
    <3>5. \A t \in ts : part[t] = [b \in Covers[t] |-> g[b]]
      <4>1. ASSUME NEW t \in ts PROVE part[t] = [b \in Covers[t] |-> g[b]]
        <5>1. part[t] = [b \in Covers[t] |-> SpectrumAgo(c, b)]
          BY <2>3, <3>2, <3>3 DEF PartOK, Expected
        <5>2. Covers[t] \subseteq 1 .. N - 1 BY <3>4
        <5> QED BY <5>1, <5>2
      <4> QED BY <4>1
    <3>6. others = [b \in 1 .. N - 1 |-> g[b]]
      <4> HIDE DEF ts, g
      <4>1. others = [b \in UNION {Covers[t] : t \in ts} |-> g[b]]
        BY <3>3, <3>5, TotalIs, Zenon
      <4> QED BY <3>4, <4>1
    <3>7. spectrum[c] = SpectrumAgo(c, 0) BY <3>2, FilterDeps DEF SpectrumOK
    <3>8. product'[f] = [b \in {0} \cup DOMAIN others |-> IF b = 0 THEN spectrum[c] ELSE others[b]]
      <4>1. j[2] = f BY JobFacts
      <4> HIDE DEF j
      <4> QED BY <3>1, <4>1 DEF EndCombine, TypeOK, j
    <3> HIDE DEF ts, others
    <3>9. DOMAIN others = 1 .. N - 1 /\ \A b \in 1 .. N - 1 : others[b] = SpectrumAgo(c, b)
      BY <3>6
    <3>10. {0} \cup DOMAIN others = 0 .. N - 1
      <4>1. N \in Nat \ {0} BY CrossoverAssumption
      <4> QED BY <3>9, <4>1
    <3>11. product'[f] = Whole(f) BY <3>7, <3>8, <3>9, <3>10 DEF Whole
    <3> QED BY <2>2, <3>11, WholeKept
  <2> QED BY <2>5, <2>6
<1>3. ASSUME NEW u \in Tasks, SubmitInput(u) \/ SubmitRoot(u) PROVE product'[f] = Whole(f)'
  <2>1. UNCHANGED <<product, fed, updates, done>>
    BY <1>3 DEF SubmitInput, SubmitRoot, data, Rounds!Submit
  <2>2. Settled BY <1>3, <2>1 DEF Settled, SubmitInput, SubmitRoot, Updating
  <2> QED BY <1>b, <2>1, <2>2
<1>4. CASE UpdateDone \/ NextRound \/ Reset \/ Clear \/ FreeConvolutions \/ JoinWorkers
  BY <1>4 DEF UpdateDone, NextRound, Rounds!NewRound, Reset, Clear, FreeConvolutions, JoinWorkers,
              Settled, Updating
<1>5. CASE Feed
  <2>1. caller = "free" /\ done' = done BY <1>5 DEF Feed, rounds
  <2> QED BY <2>1, FilterInCall
<1>6. CASE UNCHANGED vars
  <2>1. UNCHANGED <<product, fed, caller, updates, done>> BY <1>6 DEF vars, rounds, data
  <2>2. Settled BY <2>1 DEF Settled, Updating
  <2> QED BY <1>b, <2>1, <2>2
<1> QED BY <1>1, <1>2, <1>3, <1>4, <1>5, <1>6 DEF Next, CallerStep, Gone

LEMMA OutputStep ==
  ASSUME TypeOK, RoundOK, CallsOK, ProductOK, OutputOK, [Next]_vars
  PROVE  OutputOK'
<1> DEFINE Answered == caller \in {"next", "background", "free"} /\ updates = 0 /\ answered
<1> SUFFICES ASSUME NEW f \in Filters,
                    \/ Settled' /\ Job("result", f) \in done'
                    \/ Answered'
             PROVE  output'[f] = Whole(f)'
  BY DEF OutputOK
<1> DEFINE r == Job("result", f)
<1>a. r \in Tasks /\ Kind(r) = "result" BY FilterJobs, OfKind
<1>b. ASSUME output'[f] = output[f], fed' = fed, (Settled /\ r \in done) \/ Answered
      PROVE  output'[f] = Whole(f)'
  BY <1>b, WholeKept DEF OutputOK
<1>1. ASSUME NEW u \in Tasks, Begin(u) PROVE output'[f] = Whole(f)'
  <2>1. UNCHANGED <<output, fed, caller, updates, answered, done>>
    BY <1>1 DEF Begin, Rounds!Begin, data
  <2>2. Settled' <=> Settled BY <2>1 DEF Settled, Updating
  <2> QED BY <1>b, <2>1, <2>2
<1>2. ASSUME NEW u \in Tasks, Worker(u), ~Begin(u) PROVE output'[f] = Whole(f)'
  <2>1. End(u) /\ u \in running /\ done' = done \cup {u}
    BY <1>2, EndStep DEF Worker, End, Rounds!End
  <2>2. UNCHANGED <<fed, caller, updates, answered>> BY <1>2, WorkerKeeps
  <2>3. Settled' <=> Settled BY <2>2 DEF Settled, Updating
  <2>4. CASE u # r
    <3>1. output'[f] = output[f]
      <4>1. CASE EndResult(u)
        <5>1. u \in Of("result") BY <4>1 DEF EndResult, Of
        <5>2. u[2] # f BY <5>1, <2>4, FilterJobs
        <5> QED BY <4>1, <5>2 DEF EndResult, TypeOK
      <4>2. CASE ~EndResult(u)
        BY <1>2, <4>2 DEF Worker, EndInput, EndLeaf, EndSum, EndShift, EndCombine, EndRoot, data
      <4> QED BY <4>1, <4>2
    <3>2. (Settled /\ r \in done) \/ Answered
      <4> HIDE DEF r
      <4> QED BY <2>1, <2>2, <2>3, <2>4 DEF r
    <3> QED BY <1>b, <2>2, <3>1, <3>2
  <2>5. CASE u = r
    <3>1. EndResult(r)
      BY <1>a, <1>2, <2>5 DEF Worker, EndInput, EndLeaf, EndSum, EndShift, EndCombine, EndRoot
    <3>2. r \notin done /\ Job("combine", f) \in done /\ caller \in {"inputs", "wait"}
      BY <2>1, <2>5, FilterInCall DEF RoundOK
    <3>3. Settled BY <2>2, <2>3, <3>2
    <3>4. product[f] = Whole(f) BY <3>2, <3>3 DEF ProductOK
    <3>5. output'[f] = product[f]
      <4>1. r[2] = f BY JobFacts
      <4> HIDE DEF r
      <4> QED BY <3>1, <4>1 DEF EndResult, TypeOK
    <3> QED BY <2>2, <3>4, <3>5, WholeKept
  <2> QED BY <2>4, <2>5
<1>3. ASSUME NEW u \in Tasks, SubmitInput(u) \/ SubmitRoot(u) PROVE output'[f] = Whole(f)'
  <2>1. UNCHANGED <<output, fed, updates, answered, done>>
    BY <1>3 DEF SubmitInput, SubmitRoot, data, Rounds!Submit
  <2>2. (Settled' => Settled) /\ (Answered' => Answered)
    BY <1>3, <2>1 DEF Settled, SubmitInput, SubmitRoot, Updating
  <2> QED BY <1>b, <2>1, <2>2
<1>4. CASE UpdateDone
  <2>1. UNCHANGED <<output, fed>> /\ caller = "wait" /\ caller' = "next" /\ updates' = updates - 1
    BY <1>4 DEF UpdateDone, data
  <2>2. updates = 1 BY <2>1 DEF Settled, Updating, TypeOK
  <2>3. r \in done
    <3>1. r # Final BY <1>a, FinalKind
    <3> HIDE DEF r
    <3> QED BY <1>a, <1>4, <3>1, SameRounds DEF UpdateDone, Rounds!EndRound
  <2>4. Settled BY <2>1, <2>2 DEF Settled, Updating
  <2> QED BY <1>b, <2>1, <2>3, <2>4
<1>5. CASE NextRound
  <2>1. UNCHANGED <<output, fed, updates, answered>> /\ caller = "next" /\ done' = {}
    BY <1>5 DEF NextRound, Rounds!NewRound, data
  <2> QED BY <1>b, <2>1
<1>6. CASE Feed
  <2>1. caller = "free" /\ caller' = "inputs" /\ done' = done BY <1>6 DEF Feed, rounds
  <2> QED BY <2>1, FilterInCall
<1>7. CASE Reset \/ Clear \/ FreeConvolutions \/ JoinWorkers
  BY <1>7 DEF Reset, Clear, FreeConvolutions, JoinWorkers, Settled, Updating
<1>8. CASE UNCHANGED vars
  <2>1. UNCHANGED <<output, fed, caller, updates, answered, done>> BY <1>8 DEF vars, rounds, data
  <2>2. Settled' <=> Settled BY <2>1 DEF Settled, Updating
  <2> QED BY <1>b, <2>1, <2>2
<1> QED BY <1>1, <1>2, <1>3, <1>4, <1>5, <1>6, <1>7, <1>8 DEF Next, CallerStep, Gone
--------------------------------------------------------------------------------
(* The memory of the callbacks: the buffer and the task or the number it     *)
(* belongs to are enough to tell cells apart.                                *)

LEMMA CellsWritten ==
  ASSUME NEW t, NEW x \in Writes(t)
  PROVE  /\ Kind(t) \in {"in", "leaf", "sum", "shift", "combine", "result"}
         /\ Kind(t) = "in" => x[1] \in {"overlap", "spectrum"} /\ x[2] = t[2]
         /\ Kind(t) \in {"leaf", "sum"} => x[1] = "part" /\ x[2] = t
         /\ Kind(t) = "shift" => x[1] \in {"first", "line"} /\ x[2] = t[2]
         /\ Kind(t) = "combine" => x[1] = "product" /\ x[2] = t[2]
         /\ Kind(t) = "result" => x[1] \in {"product", "output"} /\ x[2] = t[2]
<1>1. CASE Kind(t) = "in" BY <1>1 DEF Writes
<1>2. CASE Kind(t) \in {"leaf", "sum"} BY <1>2 DEF Writes
<1>3. CASE Kind(t) = "shift" BY <1>3 DEF Writes
<1>4. CASE Kind(t) = "combine" BY <1>4 DEF Writes
<1>5. CASE Kind(t) = "result" BY <1>5 DEF Writes
<1>6. CASE Kind(t) \notin {"in", "leaf", "sum", "shift", "combine", "result"}
  <2>1. Writes(t) = {} BY <1>6 DEF Writes
  <2> QED BY <2>1
<1> QED BY <1>1, <1>2, <1>3, <1>4, <1>5, <1>6

LEMMA CellsUsed ==
  ASSUME NEW t, NEW x \in Reads(t) \cup Writes(t)
  PROVE  /\ Kind(t) \in {"in", "leaf", "sum", "shift", "combine", "result"}
         /\ Kind(t) = "in" => x[1] \in {"input", "overlap", "spectrum"} /\ x[2] = t[2]
         /\ Kind(t) = "leaf" => \/ x[1] \in {"first", "line"} /\ x[2] = t[2]
                                \/ x[1] = "part" /\ x[2] = t
         /\ Kind(t) = "sum" => x[1] = "part" /\ x[2] \in Deps[t] \cup {t}
         /\ Kind(t) = "shift" => \/ x[1] \in {"first", "line"} /\ x[2] = t[2]
                                 \/ x[1] = "spectrum" /\ x[2] = Channel[t[2]]
         /\ Kind(t) = "combine" => \/ x[1] = "part" /\ x[2] \in Deps[t]
                                   \/ x[1] = "spectrum" /\ x[2] = Channel[t[2]]
                                   \/ x[1] = "product" /\ x[2] = t[2]
         /\ Kind(t) = "result" => x[1] \in {"product", "output"} /\ x[2] = t[2]
<1>1. CASE Kind(t) = "in" BY <1>1 DEF Reads, Writes
<1>2. CASE Kind(t) = "leaf" BY <1>2 DEF Reads, Writes
<1>3. CASE Kind(t) = "sum" BY <1>3 DEF Reads, Writes
<1>4. CASE Kind(t) = "shift" BY <1>4 DEF Reads, Writes
<1>5. CASE Kind(t) = "combine" BY <1>5 DEF Reads, Writes
<1>6. CASE Kind(t) = "result" BY <1>6 DEF Reads, Writes
<1>7. CASE Kind(t) \notin {"in", "leaf", "sum", "shift", "combine", "result"}
  <2>1. Writes(t) = {} BY <1>7 DEF Writes
  <2>2. Reads(t) = {} BY <1>7 DEF Reads
  <2> QED BY <2>1, <2>2
<1> QED BY <1>1, <1>2, <1>3, <1>4, <1>5, <1>6, <1>7

(* Whoever writes a cell is ordered with everybody else who uses it.         *)
LEMMA WritersOrdered ==
  ASSUME NEW t \in Tasks, NEW u \in Tasks, t # u, t \notin Deps[u], u \notin Deps[t]
  PROVE  Writes(t) \cap (Reads(u) \cup Writes(u)) = {}
<1> SUFFICES ASSUME NEW x \in Writes(t), x \in Reads(u) \cup Writes(u) PROVE FALSE
  OBVIOUS
<1> DEFINE f == t[2]
<1>1. CASE Kind(t) = "in"
  <2>1. t \in Of("in") /\ x[1] \in {"overlap", "spectrum"} /\ x[2] = f
    BY <1>1, CellsWritten DEF Of
  <2>2. t = Job("in", f) BY <2>1, InputJobs
  <2>3. CASE Kind(u) = "in"
    <3>1. u \in Of("in") /\ u[2] = f BY <2>1, <2>3, CellsUsed DEF Of
    <3> QED BY <2>2, <3>1, InputJobs
  <2>4. CASE Kind(u) \in {"shift", "combine"}
    <3>1. u \in Of(Kind(u)) BY DEF Of
    <3>2. u = Job(Kind(u), u[2]) /\ u[2] \in Filters BY <2>4, <3>1, FilterJobs
    <3>3. Channel[u[2]] = f BY <2>1, <2>4, CellsUsed
    <3>4. Job("in", Channel[u[2]]) \in Deps[Job("shift", u[2])] \cap Deps[Job("combine", u[2])]
      BY <3>2, FilterDeps
    <3> QED BY <2>2, <2>4, <3>2, <3>3, <3>4
  <2>5. CASE Kind(u) \notin {"in", "shift", "combine"}
    BY <2>1, <2>5, CellsUsed
  <2> QED BY <2>3, <2>4, <2>5
<1>2. CASE Kind(t) \in {"leaf", "sum"}
  <2>1. x[1] = "part" /\ x[2] = t BY <1>2, CellsWritten
  <2> QED BY <2>1, CellsUsed
<1>3. CASE Kind(t) = "shift"
  <2>1. t \in Of("shift") /\ x[1] \in {"first", "line"} /\ x[2] = f
    BY <1>3, CellsWritten DEF Of
  <2>2. t = Job("shift", f) /\ f \in Filters BY <2>1, FilterJobs
  <2>3. Kind(u) \in {"leaf", "shift"} /\ u[2] = f BY <2>1, CellsUsed
  <2>4. CASE Kind(u) = "leaf"
    <3>1. u \in Deps[t] BY <2>2, <2>3, <2>4, FilterDeps DEF Of
    <3> QED BY <3>1
  <2>5. CASE Kind(u) = "shift"
    <3>1. u \in Of("shift") BY <2>5 DEF Of
    <3> QED BY <2>2, <2>3, <3>1, FilterJobs
  <2> QED BY <2>3, <2>4, <2>5
<1>4. CASE Kind(t) \in {"combine", "result"}
  <2>1. t \in Of(Kind(t)) BY DEF Of
  <2>2. t = Job(Kind(t), f) /\ f \in Filters BY <1>4, <2>1, FilterJobs
  <2>3. x[1] \in {"product", "output"} /\ x[2] = f BY <1>4, CellsWritten
  <2>4. Kind(u) \in {"combine", "result"} /\ u[2] = f BY <2>3, CellsUsed
  <2>5. u \in Of(Kind(u)) BY DEF Of
  <2>6. u = Job(Kind(u), f) BY <2>4, <2>5, FilterJobs
  <2>7. Job("combine", f) \in Deps[Job("result", f)] BY <2>2, FilterDeps
  <2> QED BY <1>4, <2>2, <2>4, <2>6, <2>7
<1>5. Kind(t) \in {"in", "leaf", "sum", "shift", "combine", "result"} BY CellsWritten
<1> QED BY <1>1, <1>2, <1>3, <1>4, <1>5

LEMMA RaceFree ==
  ASSUME TypeOK, RoundOK
  PROVE  NoDataRace
<1>1. ASSUME NEW t \in running, NEW u \in running, t # u
      PROVE  Writes(t) \cap (Reads(u) \cup Writes(u)) = {}
  <2>1. t \in Tasks /\ u \in Tasks BY DEF TypeOK
  <2>2. t \notin Deps[u] /\ u \notin Deps[t] BY DEF RoundOK
  <2> QED BY <1>1, <2>1, <2>2, WritersOrdered
<1>2. ASSUME caller = "free", NEW t \in running
      PROVE  (Reads(t) \cup Writes(t)) \cap CallerCells = {}
  <2>1. t \in Tasks BY DEF TypeOK
  <2>2. Kind(t) # "in"
    <3>1. t \notin Of("in") BY <1>2, InputsInCall
    <3> QED BY <2>1, <3>1 DEF Of
  <2>3. Kind(t) # "result"
    <3>1. SUFFICES ASSUME Kind(t) = "result" PROVE FALSE OBVIOUS
    <3>2. t \in Of("result") BY <2>1, <3>1 DEF Of
    <3>3. t = Job("result", t[2]) /\ t[2] \in Filters BY <3>2, FilterJobs
    <3> QED BY <1>2, <3>3, FilterInCall
  <2>4. ASSUME NEW x \in Reads(t) \cup Writes(t) PROVE x[1] \notin {"input", "output"}
    BY <2>2, <2>3, CellsUsed
  <2>5. \A x \in CallerCells : x[1] \in {"input", "output"} BY DEF CallerCells
  <2> QED BY <2>4, <2>5
<1> QED BY <1>1, <1>2 DEF NoDataRace
--------------------------------------------------------------------------------
(* The theorems. *)

LEMMA InitInv == Init => CrossoverInv
<1> SUFFICES ASSUME Init PROVE CrossoverInv OBVIOUS
<1>1. TypeOK BY InitType
<1>2. /\ submitted = {} /\ running = {} /\ done = {} /\ torn = {} /\ updates = 0
      /\ caller = "background" /\ fed = Quiet /\ answered = FALSE
  BY DEF Init, Rounds!Init
<1>3. RoundOK BY <1>2 DEF RoundOK
<1>4. CallsOK /\ TornOK BY <1>2 DEF CallsOK, TornOK, Updating
<1>5. OverlapOK
  <2>1. ASSUME NEW c \in Channels PROVE overlap[c] = Silence /\ Ago(c, 0) = Silence
    <3>1. 0 \in 0 .. Longest BY LongestBound
    <3> QED BY <1>2, <3>1, QuietFacts DEF Init
  <2> QED BY <1>2, <2>1 DEF OverlapOK, Pending, Updating
<1>6. LineOK
  <2>1. ASSUME NEW f \in Filters, NEW b \in 1 .. NumBlocks[f] - 1
        PROVE  line[f][Slot(f, b)] = SpectrumAgo(Channel[f], b - 1 + Pending(Job("shift", f)))
    <3>1. NumBlocks[f] \in Nat \ {0} /\ Longest \in Nat /\ NumBlocks[f] <= Longest
          /\ Channel[f] \in Channels
      BY CrossoverAssumption, LongestBound
    <3>2. Slot(f, b) \in 0 .. NumBlocks[f] - 1 BY <1>1, <3>1, SlotFacts DEF TypeOK
    <3>3. line[f][Slot(f, b)] = Zero BY <3>2 DEF Init
    <3>4. Pending(Job("shift", f)) = 0 BY <1>2 DEF Pending, Updating
    <3>5. b - 1 + 0 \in 0 .. Longest - 1 BY <3>1
    <3> QED BY <1>2, <3>1, <3>3, <3>4, <3>5, QuietFacts
  <2> QED BY <2>1 DEF LineOK
<1>7. SpectrumOK /\ PartOK /\ ProductOK /\ OutputOK
  BY <1>2 DEF SpectrumOK, PartOK, ProductOK, OutputOK
<1> QED BY <1>1, <1>3, <1>4, <1>5, <1>6, <1>7 DEF CrossoverInv

(* The inductive invariant of the crossover: at every step of a round each   *)
(* buffer holds what its last writer was run for.                            *)
THEOREM CrossoverInvCorrect == Spec => []CrossoverInv
<1>1. Init => CrossoverInv BY InitInv
<1>2. CrossoverInv /\ [Next]_vars => CrossoverInv'
  <2> SUFFICES ASSUME CrossoverInv, [Next]_vars PROVE CrossoverInv' OBVIOUS
  <2> USE DEF CrossoverInv
  <2>1. TypeOK' BY TypeStep
  <2>2. RoundOK' BY RoundStep
  <2>3. CallsOK' /\ TornOK' BY CallsStep, TornStep
  <2>4. OverlapOK' BY OverlapStep
  <2>5. SpectrumOK' BY SpectrumStep
  <2>6. LineOK' BY LineStep
  <2>7. PartOK' BY PartStep
  <2>8. ProductOK' BY ProductStep
  <2>9. OutputOK' BY OutputStep
  <2> QED BY <2>1, <2>2, <2>3, <2>4, <2>5, <2>6, <2>7, <2>8, <2>9
<1> QED BY <1>1, <1>2, PTL DEF Spec

(* The callbacks of convolution.h need no lock: two that run at once never   *)
(* touch the same memory unless both only read it, and between two calls of  *)
(* updateInputs none touches the input and output buffers.                   *)
THEOREM CrossoverRaceFree == Spec => []NoDataRace
<1>1. CrossoverInv => NoDataRace BY RaceFree DEF CrossoverInv
<1> QED BY <1>1, CrossoverInvCorrect, PTL

(* Between two blocks pushBlock and getBlock keep the latest spectra in      *)
(* order, for every length of the ring and every position of firstBlock_.    *)
THEOREM DelayLinesExact == Spec => []DelayLineExact
<1>1. CrossoverInv => DelayLineExact
  <2> SUFFICES ASSUME CrossoverInv, caller = "free",
                      NEW f \in Filters, NEW b \in 1 .. NumBlocks[f] - 1
               PROVE  line[f][Slot(f, b)] = SpectrumAgo(Channel[f], b - 1)
    BY DEF DelayLineExact
  <2>1. Pending(Job("shift", f)) = 0 BY DEF Pending, Updating
  <2>2. b - 1 + 0 = b - 1 OBVIOUS
  <2> QED BY <2>1, <2>2 DEF CrossoverInv, LineOK
<1> QED BY <1>1, CrossoverInvCorrect, PTL

(* After updateInputs and after resetFilterState each output buffer is the   *)
(* convolution of the blocks fed with its filter, for every number of        *)
(* filters, channels and blocks and every fan-in.                            *)
THEOREM OutputsExact == Spec => []OutputExact
<1>1. CrossoverInv => OutputExact
  BY DEF CrossoverInv, CallsOK, OutputOK, OutputExact, Whole
<1> QED BY <1>1, CrossoverInvCorrect, PTL
================================================================================
