--------------------------- MODULE RunnerOnListProofs --------------------------
(***************************************************************************)
(* Proofs about RunnerOnList, for any graph, workers and calls: TaskRunner *)
(* on the list it really uses is the TaskRunner of module TaskRunner,      *)
(* whose list is an atomic stack, provided no worker stays inside pop()    *)
(* from one round to the next.  They put together what is proved of the    *)
(* list (L) and of the runner (R).                                         *)
(***************************************************************************)
EXTENDS RunnerOnList, TLAPS

L == INSTANCE ThreadSafeListProofs
       WITH Nodes <- Tasks, Null <- NoTask, Poppers <- Workers,
            Pushers <- Workers \cup {Main}, Reuse <- TRUE, pc <- at

R == INSTANCE TaskRunnerProofs WITH active <- List!Contents

(* The finite sets of the instances are those of this module. *)
LEMMA SameSets ==
  \A S : /\ L!Cardinality(S) = Cardinality(S) /\ L!IsFiniteSet(S) = IsFiniteSet(S)
         /\ List!Cardinality(S) = Cardinality(S)
         /\ R!Cardinality(S) = Cardinality(S) /\ R!IsFiniteSet(S) = IsFiniteSet(S)
         /\ Runner!Cardinality(S) = Cardinality(S)
<1>1. \A S : L!Cardinality(S) = Cardinality(S) BY DEF L!Cardinality, Cardinality
<1>2. \A S : List!Cardinality(S) = Cardinality(S) BY DEF List!Cardinality, Cardinality
<1>3. \A S : R!Cardinality(S) = Cardinality(S) BY DEF R!Cardinality, Cardinality
<1>4. \A S : Runner!Cardinality(S) = Cardinality(S) BY DEF Runner!Cardinality, Cardinality
<1>5. \A S : L!IsFiniteSet(S) = IsFiniteSet(S) BY DEF L!IsFiniteSet, IsFiniteSet
<1>6. \A S : R!IsFiniteSet(S) = IsFiniteSet(S) BY DEF R!IsFiniteSet, IsFiniteSet
<1> QED BY <1>1, <1>2, <1>3, <1>4, <1>5, <1>6

(* So are the graph and the vectors of the runner. *)
LEMMA SameGraph ==
  /\ \A t : (R!IsFinal(t) <=> IsFinal(t)) /\ (Runner!IsFinal(t) <=> IsFinal(t))
  /\ R!Final = Final /\ Runner!Final = Final
  /\ R!Roots = Roots /\ Runner!Roots = Roots
  /\ \A f : R!AllFeed(f) <=> AllFeed(f)
  /\ R!Slots = Runner!Slots /\ \A s : R!Named(s) = Runner!Named(s)
<1>1. \A t : (R!IsFinal(t) <=> IsFinal(t)) /\ (Runner!IsFinal(t) <=> IsFinal(t))
  BY DEF R!IsFinal, Runner!IsFinal, IsFinal
<1>2. R!Final = Final /\ Runner!Final = Final
  BY DEF R!IsFinal, Runner!IsFinal, IsFinal, R!Final, Runner!Final, Final
<1>3. R!Roots = Roots /\ Runner!Roots = Roots BY DEF R!Roots, Runner!Roots, Roots
<1>4. \A f : R!AllFeed(f) <=> AllFeed(f) BY DEF R!AllFeed, AllFeed
<1>5. R!Slots = Runner!Slots /\ \A s : R!Named(s) = Runner!Named(s)
  BY DEF R!Slots, Runner!Slots, R!Named, Runner!Named
<1> QED BY <1>1, <1>2, <1>3, <1>4, <1>5

(* What the proofs about the list assume. *)
LEMMA ListUse ==
  /\ L!IsFiniteSet(Tasks) /\ NoTask \notin Tasks
  /\ TRUE \in BOOLEAN
  BY GraphAssumption, OnListAssumption, SameSets DEF IsGraph

(* What the proofs about the runner assume. *)
LEMMA RunnerUse ==
  /\ /\ \E f \in Tasks :
          (\A t \in Tasks : R!IsFinal(t) <=> t = f) /\ Deps[f] # {} /\ R!AllFeed(f)
     /\ \A t \in R!Roots \cup {R!Final} : \E s \in R!Slots : R!Named(s) = t
     /\ \A r, s \in R!Slots : R!Named(r) = R!Named(s) => r = s
     /\ "round" \in Timing \/ \E w \in Workers : Workers = {w}
  /\ /\ Workers # {} /\ R!IsFiniteSet(Workers) /\ Main \notin Workers
     /\ NoTask \notin Tasks
     /\ Calls \in Seq(Seq(Tasks)) /\ Calls # <<>>
     /\ Modulus \in Nat /\ \A t \in Tasks : R!Cardinality(Deps[t]) < Modulus
     /\ Timing \subseteq {"round", "park", "sleep"}
  /\ R!IsGraph
<1>1. /\ \E f \in Tasks :
          (\A t \in Tasks : R!IsFinal(t) <=> t = f) /\ Deps[f] # {} /\ R!AllFeed(f)
      /\ \A t \in R!Roots \cup {R!Final} : \E s \in R!Slots : R!Named(s) = t
      /\ \A r, s \in R!Slots : R!Named(r) = R!Named(s) => r = s
      /\ "round" \in Timing \/ \E w \in Workers : Workers = {w}
  BY OnListAssumption, SameGraph
<1>2. /\ Workers # {} /\ R!IsFiniteSet(Workers) /\ Main \notin Workers
      /\ NoTask \notin Tasks
      /\ Calls \in Seq(Seq(Tasks)) /\ Calls # <<>>
      /\ Modulus \in Nat /\ \A t \in Tasks : R!Cardinality(Deps[t]) < Modulus
      /\ Timing \subseteq {"round", "park", "sleep"}
  BY OnListAssumption, SameSets
<1>3. R!IsGraph BY GraphAssumption, SameSets DEF R!IsGraph, IsGraph
<1> QED BY <1>1, <1>2, <1>3

(* The two instances of the list define the same. *)
LEMMA SameList ==
  /\ L!Contents = List!Contents
  /\ L!ListInv <=> List!ListInv
  /\ L!ListSound <=> List!ListSound
<1>1. L!Reached = List!Reached
  BY DEF L!Reached, List!Reached, L!Cardinality, List!Cardinality
<1>2. L!OnList = List!OnList
  BY <1>1, SameSets DEF L!OnList, List!OnList
<1>3. L!Contents = List!Contents
  BY <1>1, <1>2, SameSets DEF L!Contents, List!Contents
<1>4. L!ListSound <=> List!ListSound
  BY <1>1, <1>2, SameSets DEF L!ListSound, List!ListSound
<1>5. \A s : L!Linked(s) <=> List!Linked(s) BY DEF L!Linked, List!Linked
<1>6. L!ContentsOK <=> List!ContentsOK BY <1>3, <1>5 DEF L!ContentsOK, List!ContentsOK
<1>7. L!TypeOK <=> List!TypeOK
  BY DEF L!TypeOK, List!TypeOK, L!Pointers, List!Pointers, L!Threads, List!Threads
<1>8. L!PushOK <=> List!PushOK
  BY DEF L!PushOK, List!PushOK, L!InPush, List!InPush, L!Threads, List!Threads
<1>9. L!PopOK <=> List!PopOK
  BY DEF L!PopOK, List!PopOK, L!InPush, List!InPush, L!InPop, List!InPop, L!Threads, List!Threads
<1> QED BY <1>3, <1>4, <1>6, <1>7, <1>8, <1>9 DEF L!ListInv, List!ListInv

(* The same after a step. *)
LEMMA SameListAfter == (L!Contents = List!Contents)'
  BY SameList, PTL

(* The two instances of the runner define the same. *)
LEMMA SameRunner == R!IInv <=> Runner!IInv
<1> USE SameGraph DEF R!Threads, Runner!Threads, R!At, Runner!At, R!Executing, Runner!Executing,
        R!NumDeps, Runner!NumDeps
<1>1. R!TypeOK <=> Runner!TypeOK
  BY DEF R!TypeOK, Runner!TypeOK, R!Labels, Runner!Labels, R!MainLabels, Runner!MainLabels
<1>2. \A s : R!Passed(s) <=> Runner!Passed(s) BY DEF R!Passed, Runner!Passed
<1>3. R!FinalPassed <=> Runner!FinalPassed BY <1>2 DEF R!FinalPassed, Runner!FinalPassed
<1>4. R!CallerOK <=> Runner!CallerOK
  BY <1>2, <1>3 DEF R!CallerOK, Runner!CallerOK, R!Batch, Runner!Batch
<1>5. R!WorkersOK <=> Runner!WorkersOK BY DEF R!WorkersOK, Runner!WorkersOK
<1>6. R!Fresh <=> Runner!Fresh BY DEF R!Fresh, Runner!Fresh
<1>7. R!OneExecutes <=> Runner!OneExecutes BY DEF R!OneExecutes, Runner!OneExecutes
<1>8. \A w : R!Visited(w) = Runner!Visited(w) BY DEF R!Visited, Runner!Visited
<1>9. /\ \A t : /\ R!Queued(t) <=> Runner!Queued(t)
                /\ R!Held(t) <=> Runner!Held(t)
                /\ R!Resolving(t) <=> Runner!Resolving(t)
      /\ R!Claimed <=> Runner!Claimed
  BY <1>8 DEF R!Queued, Runner!Queued, R!Held, Runner!Held, R!Resolving, Runner!Resolving,
             R!Claimed, Runner!Claimed
<1>10. R!OnePlace <=> Runner!OnePlace
  BY <1>8, <1>9 DEF R!OnePlace, Runner!OnePlace
<1>11. \A t : R!OwedDeps(t) = Runner!OwedDeps(t)
  BY DEF R!OwedDeps, Runner!OwedDeps, R!Owed, Runner!Owed
<1>12. R!Released <=> Runner!Released
  BY <1>9, <1>11 DEF R!Released, Runner!Released, R!Started, Runner!Started
<1>13. R!CountExact <=> Runner!CountExact
  BY <1>11, SameSets DEF R!CountExact, Runner!CountExact, R!Runs, Runner!Runs
<1> QED BY <1>1, <1>4, <1>5, <1>6, <1>7, <1>10, <1>12, <1>13
        DEF R!IInv, Runner!IInv, R!TasksOK, Runner!TasksOK

(* So do their steps. *)
LEMMA SameNext ==
  /\ Runner!Init <=> R!Init
  /\ Runner!Next <=> R!Next
  /\ Runner!vars = R!vars
<1> USE SameGraph, SameSets DEF R!Threads, Runner!Threads, R!At, Runner!At,
        R!Executing, Runner!Executing, R!NumDeps, Runner!NumDeps, R!Goto, Runner!Goto,
        R!sync, Runner!sync, R!history, Runner!history, R!locals, Runner!locals,
        R!MutexFree, Runner!MutexFree
<1>1. Runner!vars = R!vars BY DEF Runner!vars, R!vars
<1>2. Runner!Init <=> R!Init BY DEF Runner!Init, R!Init
<1>3. \A th : Runner!Bump(th) <=> R!Bump(th) BY DEF Runner!Bump, R!Bump
<1>4. \A th : Runner!NotifyAll(th) <=> R!NotifyAll(th)
  BY DEF Runner!NotifyAll, R!NotifyAll, Runner!AfterNotify, R!AfterNotify,
         Runner!Waiting, R!Waiting
<1>5. \A w : /\ Runner!CheckStop(w) <=> R!CheckStop(w)
             /\ Runner!LoadEpoch(w) <=> R!LoadEpoch(w)
             /\ Runner!PopNothing(w) <=> R!PopNothing(w)
             /\ Runner!PopTask(w) <=> R!PopTask(w)
  BY DEF Runner!CheckStop, R!CheckStop, Runner!LoadEpoch, R!LoadEpoch,
         Runner!PopNothing, R!PopNothing, Runner!PopTask, R!PopTask
<1>6. \A w : /\ Runner!CheckEpoch(w) <=> R!CheckEpoch(w)
             /\ Runner!Park(w) <=> R!Park(w)
             /\ Runner!SpuriousWakeup(w) <=> R!SpuriousWakeup(w)
  BY DEF Runner!CheckEpoch, R!CheckEpoch, Runner!Park, R!Park,
         Runner!SpuriousWakeup, R!SpuriousWakeup
<1>7. \A w, p : Runner!NextDependent(w, p) = R!NextDependent(w, p)
  BY DEF Runner!NextDependent, R!NextDependent
<1>8. \A w : Runner!Visited(w) = R!Visited(w) BY DEF Runner!Visited, R!Visited
<1>9. \A w : Runner!Callback(w) <=> R!Callback(w)
  BY <1>7 DEF Runner!Callback, R!Callback
<1>10. \A w : Runner!Decrement(w) <=> R!Decrement(w)
  BY <1>7 DEF Runner!Decrement, R!Decrement
<1>11. \A w : /\ Runner!ResolveFinal(w) <=> R!ResolveFinal(w)
              /\ Runner!ResolveTask(w) <=> R!ResolveTask(w)
              /\ Runner!ResetCount(w) <=> R!ResetCount(w)
  BY <1>7, <1>8 DEF Runner!ResolveFinal, R!ResolveFinal, Runner!ResolveTask, R!ResolveTask,
         Runner!ResetCount, R!ResetCount
<1>12. \A w : Runner!WorkerStep(w) <=> R!WorkerStep(w)
  BY <1>3, <1>4, <1>5, <1>6, <1>9, <1>10, <1>11 DEF Runner!WorkerStep, R!WorkerStep
<1>13. Runner!Visit <=> R!Visit
  BY DEF Runner!Visit, R!Visit, Runner!Batch, R!Batch, Runner!NextInBatch, R!NextInBatch
<1>14. /\ Runner!Acquire <=> R!Acquire
       /\ Runner!RunFinal <=> R!RunFinal
       /\ Runner!SleepOver <=> R!SleepOver
       /\ Runner!Join <=> R!Join
       /\ Runner!Stop <=> R!Stop
  <2>1. Runner!Acquire <=> R!Acquire BY DEF Runner!Acquire, R!Acquire
  <2>2. Runner!RunFinal <=> R!RunFinal BY DEF Runner!RunFinal, R!RunFinal
  <2>3. Runner!SleepOver <=> R!SleepOver BY DEF Runner!SleepOver, R!SleepOver
  <2>4. Runner!Join <=> R!Join BY DEF Runner!Join, R!Join
  <2>5. Runner!Stop <=> R!Stop BY DEF Runner!Stop, R!Stop
  <2> QED BY <2>1, <2>2, <2>3, <2>4, <2>5
<1>15. Runner!MainStep <=> R!MainStep
  <2>1. Runner!Bump(Main) <=> R!Bump(Main) BY <1>3
  <2>2. Runner!NotifyAll(Main) <=> R!NotifyAll(Main) BY <1>4
  <2> QED BY <2>1, <2>2, <1>13, <1>14 DEF Runner!MainStep, R!MainStep
<1>16. Runner!StartRun <=> R!StartRun
  BY DEF Runner!StartRun, R!StartRun, Runner!NextCall, R!NextCall, Runner!RoundSettled,
         R!RoundSettled, Runner!NextInBatch, R!NextInBatch
<1>17. Runner!Gone <=> R!Gone BY <1>1 DEF Runner!Gone, R!Gone, Runner!vars, R!vars
<1> QED BY <1>1, <1>2, <1>6, <1>12, <1>14, <1>15, <1>16, <1>17 DEF Runner!Next, R!Next
--------------------------------------------------------------------------------
(* The invariant in the terms of the two proof modules. *)
PInv == L!ListInv /\ R!IInv /\ ThreadsOK /\ LookedAtOK

Crew == Workers \cup {Main}

(* A task a thread is about to push is not on the list, has not begun, and *)
(* nobody else pushes it.                                                  *)
LEMMA PushFacts ==
  ASSUME PInv, NEW th \in Crew, MustPush(th)
  PROVE  /\ Pushed(th) \in Tasks /\ Pushed(th) \in held /\ Pushed(th) \notin done
         /\ Pushed(th) \notin Runner!Running
         /\ \A u \in Crew : MustPush(u) /\ Pushed(u) = Pushed(th) => u = th
<1> USE DEF R!At
<1>1. ASSUME NEW t \in Tasks, ~R!Queued(t) PROVE t \in held
  <2>1. List!Contents = L!Contents /\ L!ContentsOK BY SameList DEF PInv, L!ListInv
  <2> QED BY <1>1, <2>1 DEF L!ContentsOK, R!Queued
<1>2. ASSUME NEW t \in Tasks, ~R!Held(t) PROVE t \notin Runner!Running
  BY <1>2 DEF R!Held, Runner!Running, Runner!At
<1>3. /\ R!TypeOK /\ R!CallerOK /\ R!WorkersOK /\ R!OnePlace /\ R!Released
  BY DEF PInv, R!IInv, R!TasksOK
<1>4. ASSUME NEW w \in Crew, w # Main, MustPush(w)
      PROVE  /\ w \in Workers /\ pc[w] = "resolve" /\ Pushed(w) = R!Visited(w)
             /\ Pushed(w) \in Tasks /\ R!Resolving(Pushed(w))
  <2>1. w \in Workers /\ pc[w] = "resolve" /\ Pushed(w) = R!Visited(w)
    BY <1>4 DEF MustPush, Crew, Pushed, Runner!Visited, R!Visited
  <2>2. task[w] \in Tasks /\ pos[w] - 1 \in DOMAIN Dependents[task[w]]
    BY <1>3, <2>1 DEF R!WorkersOK, R!Executing
  <2>3. R!Visited(w) \in Tasks BY <2>2, R!DependentFacts, RunnerUse DEF R!Visited
  <2> QED BY <2>1, <2>3 DEF R!Resolving
<1>5. ASSUME MustPush(Main)
      PROVE  Pushed(Main) \in Tasks /\ ~R!Started(Pushed(Main))
  <2>1. /\ pc[Main] = "visit" /\ Pushed(Main) = Calls[call][pos[Main]]
        /\ Pushed(Main) \in Roots /\ call # 0
        /\ pos[Main] \in DOMAIN Calls[call]
    BY <1>3, <1>5, OnListAssumption
       DEF MustPush, Pushed, Runner!Batch, R!Batch, R!CallerOK
  <2>2. call \in DOMAIN Calls BY <1>3, <2>1, R!CallFacts, RunnerUse DEF R!TypeOK
  <2>3. <<call, pos[Main]>> \in R!Slots /\ R!Named(<<call, pos[Main]>>) = Pushed(Main)
    <3>1. \A c \in DOMAIN Calls : \A p \in DOMAIN Calls[c] :
             <<c, p>> \in R!Slots /\ R!Named(<<c, p>>) = Calls[c][p]
      BY R!CallFacts, RunnerUse
    <3> QED BY <2>1, <2>2, <3>1
  <2>4. ~R!Passed(<<call, pos[Main]>>)
    <3>1. call \in Nat /\ pos[Main] \in Nat
      BY <1>3, R!CallFacts, RunnerUse DEF R!TypeOK, R!Threads
    <3>2. \A c, p \in Nat : <<c, p>>[1] = c /\ <<c, p>>[2] = p /\ ~(c < c) /\ ~(p < p) OBVIOUS
    <3> QED BY <2>1, <3>1, <3>2 DEF R!Passed
  <2>5. Pushed(Main) \notin submitted
    BY <1>3, <2>3, <2>4, RunnerUse DEF R!CallerOK
  <2> QED BY <1>3, <2>1, <2>5, SameGraph DEF R!Released, Roots
<1>6. CASE th = Main
  <2>1. \A u \in Crew : u # Main /\ MustPush(u) => Pushed(u) # Pushed(Main)
    BY <1>4, <1>5, <1>6 DEF R!Started
  <2> QED BY <1>1, <1>2, <1>5, <1>6, <2>1 DEF R!Started
<1>7. CASE th # Main
  <2>1. /\ Pushed(th) \in Tasks /\ R!Resolving(Pushed(th)) /\ th \in Workers
        /\ pc[th] = "resolve" /\ Pushed(th) = R!Visited(th)
    BY <1>4, <1>7
  <2>2. Pushed(th) \notin done /\ ~R!Queued(Pushed(th)) /\ ~R!Held(Pushed(th))
    BY <1>3, <2>1 DEF R!OnePlace
  <2>3. MustPush(Main) => Pushed(Main) # Pushed(th)
    BY <1>5, <2>1 DEF R!Started
  <2>4. \A u \in Crew : u # Main /\ MustPush(u) /\ Pushed(u) = Pushed(th) => u = th
    BY <1>3, <1>4, <2>1 DEF R!OnePlace
  <2> QED BY <1>1, <1>2, <2>1, <2>2, <2>3, <2>4
<1> QED BY <1>6, <1>7

(* What a worker comes to push depends on where it is alone. *)
LEMMA PushKept ==
  ASSUME NEW w \in Workers, pc'[w] = pc[w], task'[w] = task[w], pos'[w] = pos[w]
  PROVE  (MustPush(w)' <=> MustPush(w)) /\ Pushed(w)' = Pushed(w)
  BY OnListAssumption DEF MustPush, Pushed, Runner!Visited

(* The same for the caller. *)
LEMMA CallerPushKept ==
  ASSUME pc'[Main] = pc[Main], pos'[Main] = pos[Main], call' = call
  PROVE  (MustPush(Main)' <=> MustPush(Main)) /\ Pushed(Main)' = Pushed(Main)
  BY DEF MustPush, Pushed, Runner!Batch
--------------------------------------------------------------------------------
(***************************************************************************)
(* A step of TaskRunner that leaves the list alone keeps the invariant, if *)
(* no thread inside pop() or push() moves, and no task is forgotten that a *)
(* thread in pop() looks at.                                               *)
(***************************************************************************)
LEMMA OtherStep ==
  ASSUME PInv, UNCHANGED listVars,
         \A w \in Workers :
            at[w] # "idle" => pc'[w] = pc[w] /\ task'[w] = task[w] /\ pos'[w] = pos[w],
         at[Main] # "idle" => pc'[Main] = pc[Main] /\ pos'[Main] = pos[Main] /\ call' = call,
         \/ done \cup Runner!Running \subseteq done' \cup Runner!Running'
         \/ \A w \in Workers : ~HoldsAddress(w)
  PROVE  L!ListInv' /\ ThreadsOK' /\ LookedAtOK' /\ List!Contents' = List!Contents
<1> USE DEF listVars
<1>1. L!ListInv'
  <2>1. UNCHANGED L!vars BY DEF L!vars
  <2> QED BY <2>1, L!StutterInv, ListUse DEF PInv
<1>2. L!Contents' = L!Contents BY L!ListUnchanged, ListUse DEF PInv
<1>3. List!Contents' = List!Contents BY <1>2, SameList, SameListAfter
<1>4. ThreadsOK'
  <2>1. ASSUME NEW w \in Workers, (HoldsAddress(w) \/ at[w] = "popLoad")'
        PROVE  pc'[w] = "pop"
    BY <2>1 DEF PInv, ThreadsOK, HoldsAddress
  <2>2. ASSUME NEW th \in Crew, List!InPush(th)'
        PROVE  MustPush(th)' /\ arg'[th] = Pushed(th)'
    <3>1. List!InPush(th) /\ at[th] # "idle" BY <2>2 DEF List!InPush
    <3>2. MustPush(th) /\ arg[th] = Pushed(th) BY <3>1 DEF PInv, ThreadsOK, Crew
    <3> QED BY <3>1, <3>2, PushKept, CallerPushKept DEF Crew
  <2> QED BY <2>1, <2>2 DEF PInv, ThreadsOK, HoldsAddress, Crew
<1>5. LookedAtOK'
  BY DEF PInv, LookedAtOK, HoldsAddress
<1> QED BY <1>1, <1>3, <1>4, <1>5

(* The steps of the workers that do not touch the list. *)
LEMMA OtherWorkerInv ==
  ASSUME PInv, NEW w \in Workers, OtherWorkerStep(w)
  PROVE  /\ L!ListInv' /\ ThreadsOK' /\ LookedAtOK'
         /\ Runner!Next
<1> USE DEF Runner!At, Runner!Goto
<1>0. /\ pc \in [Workers \cup {Main} -> R!Labels \cup R!MainLabels]
      /\ task \in [Workers -> Tasks \cup {NoTask}] /\ pos \in [Workers \cup {Main} -> Nat]
  BY DEF PInv, R!IInv, R!TypeOK, R!Threads
<1>1. UNCHANGED listVars BY DEF OtherWorkerStep
<1>2. pc[w] # "pop" /\ ~MustPush(w)
  BY OnListAssumption
  DEF OtherWorkerStep, MustPush, Pushed, Runner!CheckStop, Runner!LoadEpoch, Runner!CheckEpoch,
      Runner!Park, Runner!SpuriousWakeup, Runner!Callback, Runner!Decrement,
      Runner!ResolveFinal, Runner!ResetCount, Runner!Bump, Runner!NotifyAll,
      Runner!IsFinal, IsFinal
<1>3. at[w] = "idle"
  BY <1>2 DEF PInv, ThreadsOK, HoldsAddress, List!InPush, L!ListInv, L!TypeOK, L!Threads
<1>4. \A u \in Workers : at[u] # "idle" => pc[u] # "parked"
  BY DEF PInv, ThreadsOK, HoldsAddress, List!InPush, L!ListInv, L!TypeOK, L!Threads, MustPush
<1>5. /\ \A u \in Workers \ {w} : pc'[u] = pc[u] \/ (pc[u] = "parked" /\ pc'[u] = "lock")
      /\ pc'[Main] = pc[Main]
      /\ \A u \in (Workers \cup {Main}) \ {w} : pos'[u] = pos[u]
      /\ \A u \in Workers : task'[u] = task[u]
      /\ call' = call
  <2>1. pc[Main] # "parked" /\ Main # w
    BY OnListAssumption DEF PInv, R!IInv, R!TypeOK, R!MainLabels
  <2>2. CASE Runner!NotifyAll(w)
    BY <1>0, <2>1, <2>2 DEF Runner!NotifyAll, Runner!locals, Runner!sync, Runner!Threads
  <2>3. CASE ~Runner!NotifyAll(w)
    BY <1>0, <2>1, <2>3
    DEF OtherWorkerStep, Runner!CheckStop, Runner!LoadEpoch, Runner!CheckEpoch,
        Runner!Park, Runner!SpuriousWakeup, Runner!Callback, Runner!Decrement,
        Runner!ResolveFinal, Runner!ResetCount, Runner!Bump, Runner!locals, Runner!sync
  <2> QED BY <2>2, <2>3
<1>6. done \cup Runner!Running \subseteq done' \cup Runner!Running'
  <2>1. done \subseteq done' /\ (pc[w] = "call" => task[w] \in done')
    BY DEF OtherWorkerStep, Runner!CheckStop, Runner!LoadEpoch, Runner!CheckEpoch,
        Runner!Park, Runner!SpuriousWakeup, Runner!Callback, Runner!Decrement,
        Runner!ResolveFinal, Runner!ResetCount, Runner!Bump, Runner!NotifyAll, Runner!history
  <2> QED BY <1>5, <2>1 DEF Runner!Running
<1>7. Runner!Next
  BY DEF OtherWorkerStep, Runner!Next, Runner!WorkerStep
<1> QED BY <1>1, <1>3, <1>4, <1>5, <1>6, <1>7, OtherStep

(* The steps of the caller that do not touch the list, save for StartRun. *)
LEMMA OtherCallerInv ==
  ASSUME PInv, OtherCallerStep
  PROVE  /\ L!ListInv' /\ ThreadsOK' /\ LookedAtOK'
         /\ Runner!Next
<1> USE DEF Runner!At, Runner!Goto
<1>0. /\ pc \in [Workers \cup {Main} -> R!Labels \cup R!MainLabels]
      /\ task \in [Workers -> Tasks \cup {NoTask}] /\ pos \in [Workers \cup {Main} -> Nat]
  BY DEF PInv, R!IInv, R!TypeOK, R!Threads
<1>1. UNCHANGED listVars BY DEF OtherCallerStep
<1>2. ~MustPush(Main)
  BY OnListAssumption
  DEF OtherCallerStep, MustPush, Runner!Bump, Runner!NotifyAll, Runner!Acquire,
      Runner!RunFinal, Runner!SleepOver, Runner!Join, Runner!Gone, Runner!Stop
<1>3. at[Main] = "idle"
  BY <1>2 DEF PInv, ThreadsOK, HoldsAddress, List!InPush, L!ListInv, L!TypeOK, L!Threads
<1>4. \A u \in Workers : at[u] # "idle" => pc[u] # "parked"
  BY DEF PInv, ThreadsOK, HoldsAddress, List!InPush, L!ListInv, L!TypeOK, L!Threads, MustPush
<1>5. /\ \A u \in Workers : pc'[u] = pc[u] \/ (pc[u] = "parked" /\ pc'[u] = "lock")
      /\ \A u \in Workers : pos'[u] = pos[u] /\ task'[u] = task[u]
      /\ done \subseteq done'
  <2>1. CASE Runner!NotifyAll(Main)
    BY <1>0, <2>1, OnListAssumption
    DEF Runner!NotifyAll, Runner!locals, Runner!history, Runner!Threads
  <2>2. CASE ~Runner!NotifyAll(Main)
    BY <1>0, <2>2, OnListAssumption
    DEF OtherCallerStep, Runner!Visit, Runner!Bump, Runner!Acquire, Runner!RunFinal,
        Runner!SleepOver, Runner!Join, Runner!Gone, Runner!Stop, Runner!locals,
        Runner!history, Runner!vars
  <2> QED BY <2>1, <2>2
<1>6. done \cup Runner!Running \subseteq done' \cup Runner!Running'
  BY <1>5 DEF Runner!Running
<1>7. Runner!Next
  BY DEF OtherCallerStep, Runner!Next, Runner!MainStep
<1> QED BY <1>1, <1>3, <1>4, <1>5, <1>6, <1>7, OtherStep

(* The caller starts a round: no worker looks at a node of the last one. *)
LEMMA StartRunInv ==
  ASSUME PopsSettle, PInv, StartRun
  PROVE  /\ L!ListInv' /\ ThreadsOK' /\ LookedAtOK'
         /\ Runner!Next
<1> USE DEF Runner!At, Runner!Goto
<1>0. pc \in [Workers \cup {Main} -> R!Labels \cup R!MainLabels] /\ pos \in [Workers \cup {Main} -> Nat]
  BY DEF PInv, R!IInv, R!TypeOK, R!Threads
<1>1. UNCHANGED listVars /\ Runner!StartRun BY DEF StartRun
<1>2. at[Main] = "idle"
  <2>1. ~MustPush(Main) BY <1>1 DEF Runner!StartRun, MustPush
  <2> QED BY <2>1 DEF PInv, ThreadsOK, HoldsAddress, List!InPush, L!ListInv, L!TypeOK, L!Threads
<1>3. \A u \in Workers : pc'[u] = pc[u] /\ pos'[u] = pos[u] /\ task'[u] = task[u]
  BY <1>0, <1>1, OnListAssumption DEF Runner!StartRun
<1>4. \/ done \cup Runner!Running \subseteq done' \cup Runner!Running'
      \/ \A w \in Workers : ~HoldsAddress(w)
  <2>1. CASE Runner!NextCall = 1 BY <2>1 DEF StartRun
  <2>2. CASE Runner!NextCall # 1
    BY <1>1, <1>3, <2>2 DEF Runner!StartRun, Runner!Running
  <2> QED BY <2>1, <2>2
<1>5. Runner!Next BY <1>1 DEF Runner!Next
<1> QED BY <1>1, <1>2, <1>3, <1>4, <1>5, OtherStep
--------------------------------------------------------------------------------
(* What the invariant says of the list's variables, and of the others'. *)
LEMMA Types ==
  ASSUME PInv
  PROVE  /\ head \in Tasks \cup {NoTask} /\ next \in [Tasks -> Tasks \cup {NoTask}]
         /\ at \in [Crew -> {"idle", "popLoad", "popNext", "popSwap",
                             "pushLoad", "pushLink", "pushSwap"}]
         /\ cur \in [Crew -> Tasks \cup {NoTask}] /\ arg \in [Crew -> Tasks \cup {NoTask}]
         /\ held \in SUBSET Tasks
         /\ pc \in [Crew -> R!Labels \cup R!MainLabels]
         /\ task \in [Workers -> Tasks \cup {NoTask}] /\ pos \in [Crew -> Nat]
         /\ wasEmpty \in [Workers -> BOOLEAN]
  BY DEF PInv, L!ListInv, L!TypeOK, L!Threads, L!Pointers, R!IInv, R!TypeOK, R!Threads, Crew

(* A step of the list that moves nothing of the runner. *)
LEMMA ListStep ==
  ASSUME PInv, UNCHANGED runnerVars, List!Contents' = List!Contents, held' = held,
         NEW th \in Crew, th = Main => at'[th] \notin {"popLoad", "popNext", "popSwap"},
         \A u \in Crew \ {th} : at'[u] = at[u] /\ cur'[u] = cur[u] /\ arg'[u] = arg[u],
         HoldsAddress(th)' => HoldsAddress(th) /\ cur'[th] = cur[th],
         HoldsAddress(th)' \/ at'[th] = "popLoad" => HoldsAddress(th) \/ at[th] = "popLoad",
         List!InPush(th)' => List!InPush(th) /\ arg'[th] = arg[th]
  PROVE  /\ ThreadsOK' /\ LookedAtOK'
         /\ UNCHANGED Runner!vars
<1> USE DEF runnerVars
<1>1. \A u \in Crew : (MustPush(u)' <=> MustPush(u)) /\ Pushed(u)' = Pushed(u)
  BY PushKept, CallerPushKept DEF Crew
<1>2. ThreadsOK'
  BY <1>1 DEF PInv, ThreadsOK, HoldsAddress, List!InPush, Crew
<1>3. Runner!Running' = Runner!Running BY DEF Runner!Running, Runner!At
<1>4. LookedAtOK'
  BY <1>3 DEF PInv, LookedAtOK, HoldsAddress, Crew
<1> QED BY <1>2, <1>4 DEF Runner!vars

(* pop() reads next_. *)
LEMMA PopNextInv ==
  ASSUME PInv, NEW w \in Workers, PopNext(w)
  PROVE  /\ L!ListInv' /\ ThreadsOK' /\ LookedAtOK'
         /\ UNCHANGED Runner!vars
<1>1. L!PopNext(w) BY DEF PopNext, List!PopNext, L!PopNext, List!Goto, L!Goto
<1>2. L!ListInv' /\ L!Contents' = L!Contents
  BY <1>1, L!PopNextInv, ListUse DEF PInv, L!Threads
<1>3. List!Contents' = List!Contents BY <1>2, SameList, SameListAfter
<1>4. /\ at[w] = "popNext" /\ at'[w] = "popSwap" /\ cur'[w] = cur[w] /\ held' = held
      /\ \A u \in Crew \ {w} : at'[u] = at[u] /\ cur'[u] = cur[u] /\ arg'[u] = arg[u]
      /\ UNCHANGED runnerVars
  BY Types DEF PopNext, List!PopNext, List!Goto, Crew
<1>5. w \in Crew /\ w # Main BY OnListAssumption DEF Crew
<1> QED BY <1>2, <1>3, <1>4, <1>5, ListStep DEF HoldsAddress, List!InPush

(* push() links its node. *)
LEMMA PushLinkInv ==
  ASSUME PInv, NEW th \in Crew, PushLink(th)
  PROVE  /\ L!ListInv' /\ ThreadsOK' /\ LookedAtOK'
         /\ UNCHANGED Runner!vars
<1>1. L!PushLink(th) BY DEF PushLink, List!PushLink, L!PushLink, List!Goto, L!Goto
<1>2. L!ListInv' /\ L!Contents' = L!Contents
  BY <1>1, L!PushLinkInv, ListUse DEF PInv, L!Threads, Crew
<1>3. List!Contents' = List!Contents BY <1>2, SameList, SameListAfter
<1>4. /\ at[th] = "pushLink" /\ at'[th] = "pushSwap" /\ arg'[th] = arg[th] /\ held' = held
      /\ \A u \in Crew \ {th} : at'[u] = at[u] /\ cur'[u] = cur[u] /\ arg'[u] = arg[u]
      /\ UNCHANGED runnerVars
  BY Types DEF PushLink, List!PushLink, List!Goto, Crew
<1> QED BY <1>2, <1>3, <1>4, ListStep DEF HoldsAddress, List!InPush

(* compare_exchange fails. *)
LEMMA SwapFailsInv ==
  ASSUME PInv, NEW th \in Crew, SwapFails(th)
  PROVE  /\ L!ListInv' /\ ThreadsOK' /\ LookedAtOK'
         /\ UNCHANGED Runner!vars
<1>1. L!SwapFails(th)
  BY DEF SwapFails, List!SwapFails, L!SwapFails, List!Goto, L!Goto, List!InPop, L!InPop
<1>2. L!ListInv' /\ L!Contents' = L!Contents
  BY <1>1, L!SwapFailsInv, ListUse DEF PInv, L!Threads, Crew
<1>3. List!Contents' = List!Contents BY <1>2, SameList, SameListAfter
<1>4. /\ \/ at[th] = "popSwap" /\ at'[th] = "popLoad" /\ th # Main
         \/ at[th] = "pushSwap" /\ at'[th] = "pushLoad" /\ arg'[th] = arg[th]
      /\ held' = held
      /\ \A u \in Crew \ {th} : at'[u] = at[u] /\ cur'[u] = cur[u] /\ arg'[u] = arg[u]
      /\ UNCHANGED runnerVars
  BY Types DEF SwapFails, List!SwapFails, List!Goto, List!InPop, Crew, PInv, ThreadsOK, HoldsAddress
<1> QED BY <1>2, <1>3, <1>4, ListStep DEF HoldsAddress, List!InPush

(* pop() loads head_: what it will look at is on the list. *)
LEMMA PopLoadInv ==
  ASSUME PInv, NEW w \in Workers, PopLoad(w)
  PROVE  /\ L!ListInv' /\ ThreadsOK' /\ LookedAtOK'
         /\ Runner!Next \/ UNCHANGED Runner!vars
<1>1. L!PopLoad(w) BY DEF PopLoad, List!PopLoad, L!PopLoad, List!Goto, L!Goto
<1>2. L!ListInv' /\ L!Contents' = L!Contents
  BY <1>1, L!PopLoadInv, ListUse DEF PInv, L!Threads
<1>3. List!Contents' = List!Contents BY <1>2, SameList, SameListAfter
<1>4. /\ pc[w] = "pop" /\ pc' = [pc EXCEPT ![w] = IF head = NoTask THEN "lock" ELSE @]
      /\ cur' = [cur EXCEPT ![w] = head]
      /\ at' = [at EXCEPT ![w] = IF head = NoTask THEN "idle" ELSE "popNext"]
      /\ UNCHANGED <<head, next, arg, held>>
      /\ UNCHANGED <<left, task, pos, wasEmpty, seen, stop, ready, finalTask, call, submitted, done>>
  BY DEF PopLoad, List!PopLoad, List!Goto
<1>5. w \in Crew /\ w # Main BY OnListAssumption DEF Crew
<1>6. ThreadsOK'
  <2>1. \A u \in Crew : (MustPush(u)' <=> MustPush(u)) /\ Pushed(u)' = Pushed(u)
    <3>1. ASSUME NEW u \in Workers, u # w
          PROVE  (MustPush(u)' <=> MustPush(u)) /\ Pushed(u)' = Pushed(u)
      BY <1>4, <3>1, Types, PushKept DEF Crew
    <3>2. (MustPush(Main)' <=> MustPush(Main)) /\ Pushed(Main)' = Pushed(Main)
      BY <1>4, <1>5, Types, CallerPushKept DEF Crew
    <3>3. (MustPush(w)' <=> MustPush(w)) /\ Pushed(w)' = Pushed(w)
      BY <1>4, <1>5, Types DEF MustPush, Pushed, Runner!Visited, Crew
    <3> QED BY <3>1, <3>2, <3>3 DEF Crew
  <2>2. \A u \in Crew \ {w} : at'[u] = at[u] /\ pc'[u] = pc[u] BY <1>4, Types
  <2>3. at'[w] \in {"idle", "popNext"} /\ (at'[w] = "popNext" => pc'[w] = "pop")
    BY <1>4, <1>5, Types
  <2>4. \A u \in Crew : arg'[u] = arg[u] BY <1>4
  <2> QED BY <1>5, <2>1, <2>2, <2>3, <2>4 DEF PInv, ThreadsOK, HoldsAddress, List!InPush, Crew
<1>7. LookedAtOK'
  <2>1. Runner!Running' = Runner!Running
    <3>1. \A u \in Workers : pc'[u] = "call" <=> pc[u] = "call" BY <1>4, <1>5, Types DEF Crew
    <3> QED BY <1>4, <3>1 DEF Runner!Running, Runner!At
  <2>2. head # NoTask => head \in Tasks \ held
    BY L!HeadFacts, ListUse DEF PInv
  <2>3. HoldsAddress(w)' => cur'[w] \in Tasks \ held
    BY <1>4, <1>5, <2>2, Types DEF HoldsAddress
  <2>4. \A u \in Workers \ {w} : cur'[u] = cur[u] /\ (HoldsAddress(u)' <=> HoldsAddress(u))
    BY <1>4, Types DEF HoldsAddress, Crew
  <2> QED BY <1>4, <2>1, <2>3, <2>4 DEF PInv, LookedAtOK
<1>8. CASE head = NoTask
  <2>1. List!Contents = <<>> BY <1>8, L!HeadFacts, ListUse, SameList DEF PInv
  <2>2. Runner!PopNothing(w)
    BY <1>3, <1>4, <1>8, <2>1
    DEF Runner!PopNothing, Runner!At, Runner!Goto, Runner!locals, Runner!sync, Runner!history
  <2> QED BY <1>2, <1>6, <1>7, <2>2 DEF Runner!Next, Runner!WorkerStep
<1>9. CASE head # NoTask
  <2>1. pc' = pc BY <1>4, <1>9, Types
  <2> QED BY <1>2, <1>3, <1>4, <1>6, <1>7, <2>1 DEF Runner!vars
<1> QED BY <1>8, <1>9

(* pop() unlinks a node: the runner's pop. *)
LEMMA PopSwapInv ==
  ASSUME PInv, NEW w \in Workers, PopSwap(w)
  PROVE  /\ L!ListInv' /\ ThreadsOK' /\ LookedAtOK'
         /\ Runner!Next
<1>1. L!PopSwap(w) BY DEF PopSwap, List!PopSwap, L!PopSwap, List!Goto, L!Goto, List!Return, L!Return
<1>2. /\ L!ListInv' /\ L!Contents # <<>> /\ L!Contents' = Tail(L!Contents)
      /\ held' = held \cup {Head(L!Contents)}
  BY <1>1, L!PopSwapInv, ListUse DEF PInv, L!Threads
<1>3. List!Contents # <<>> /\ List!Contents' = Tail(List!Contents)
  BY <1>2, SameList, SameListAfter
<1>4. /\ at[w] = "popSwap" /\ head = cur[w] /\ held' = held \cup {cur[w]}
      /\ at' = [at EXCEPT ![w] = "idle"] /\ cur' = [cur EXCEPT ![w] = NoTask]
      /\ arg' = [arg EXCEPT ![w] = NoTask]
      /\ task' = [task EXCEPT ![w] = cur[w]] /\ wasEmpty' = [wasEmpty EXCEPT ![w] = FALSE]
      /\ pc' = [pc EXCEPT ![w] = "call"]
      /\ UNCHANGED <<left, pos, seen, stop, ready, finalTask, call, submitted, done>>
  BY DEF PopSwap, List!PopSwap, List!Goto, List!Return
<1>5. w \in Crew /\ w # Main /\ pc[w] = "pop"
  BY <1>4, OnListAssumption DEF Crew, PInv, ThreadsOK, HoldsAddress
<1>6. Head(List!Contents) = cur[w]
  <2>1. head # NoTask BY <1>2, L!HeadFacts, ListUse DEF PInv
  <2> QED BY <1>4, <2>1, L!HeadFacts, ListUse, SameList DEF PInv
<1>7. ThreadsOK'
  <2>1. ASSUME NEW u \in Crew, u # w
        PROVE  (MustPush(u)' <=> MustPush(u)) /\ Pushed(u)' = Pushed(u)
    <3>1. CASE u \in Workers BY <1>4, <2>1, <3>1, Types, PushKept DEF Crew
    <3>2. CASE u = Main BY <1>4, <1>5, <3>2, Types, CallerPushKept DEF Crew
    <3> QED BY <3>1, <3>2 DEF Crew
  <2>2. \A u \in Crew \ {w} : at'[u] = at[u] /\ pc'[u] = pc[u] /\ arg'[u] = arg[u]
    BY <1>4, Types
  <2>3. at'[w] = "idle" BY <1>4, <1>5, Types
  <2> QED BY <1>5, <2>1, <2>2, <2>3 DEF PInv, ThreadsOK, HoldsAddress, List!InPush, Crew
<1>8. LookedAtOK'
  <2>1. Runner!Running \cup {cur[w]} \subseteq Runner!Running'
    <3>1. \A u \in Workers \ {w} : pc'[u] = pc[u] /\ task'[u] = task[u]
      BY <1>4, Types DEF Crew
    <3>2. pc'[w] = "call" /\ task'[w] = cur[w] BY <1>4, <1>5, Types
    <3> QED BY <1>5, <3>1, <3>2 DEF Runner!Running, Runner!At
  <2>2. \A u \in Workers \ {w} : cur'[u] = cur[u] /\ (HoldsAddress(u)' <=> HoldsAddress(u))
    BY <1>4, Types DEF HoldsAddress, Crew
  <2>3. ~HoldsAddress(w)' BY <1>4, <1>5, Types DEF HoldsAddress
  <2> QED BY <1>4, <2>1, <2>2, <2>3 DEF PInv, LookedAtOK
<1>9. Runner!PopTask(w)
  BY <1>3, <1>4, <1>5, <1>6
  DEF Runner!PopTask, Runner!At, Runner!Goto, Runner!sync, Runner!history
<1> QED BY <1>2, <1>7, <1>8, <1>9 DEF Runner!Next, Runner!WorkerStep

(***************************************************************************)
(* push() takes its node and loads head_.  Nobody holds the node's address *)
(* inside pop(): what they look at was pushed in this round already.       *)
(***************************************************************************)
LEMMA PushLoadInv ==
  ASSUME PInv, NEW th \in Crew, PushLoad(th)
  PROVE  /\ L!ListInv' /\ ThreadsOK' /\ LookedAtOK'
         /\ UNCHANGED Runner!vars
<1> DEFINE t == Pushed(th)
<1>1. /\ MustPush(th) /\ at[th] \in {"idle", "pushLoad"}
      /\ cur' = [cur EXCEPT ![th] = head] /\ arg' = [arg EXCEPT ![th] = t]
      /\ at' = [at EXCEPT ![th] = "pushLink"]
      /\ UNCHANGED <<head, next, held, runnerVars>>
  BY DEF PushLoad
<1>2. /\ t \in Tasks /\ t \in held /\ t \notin done /\ t \notin Runner!Running
      /\ \A u \in Crew : MustPush(u) /\ Pushed(u) = t => u = th
  BY <1>1, PushFacts
<1> HIDE DEF t
<1>3. /\ at'[th] = "pushLink" /\ cur'[th] = head /\ arg'[th] = t
      /\ \A u \in Crew \ {th} : at'[u] = at[u] /\ cur'[u] = cur[u] /\ arg'[u] = arg[u]
  BY <1>1, Types
<1>4. \A u \in Crew \ {th} : List!InPush(u) => arg[u] # t
  BY <1>2 DEF PInv, ThreadsOK, Crew
<1>5. \A u \in Crew : HoldsAddress(u) => cur[u] # t
  BY <1>2 DEF PInv, ThreadsOK, LookedAtOK, HoldsAddress, Crew
<1>6. L!ContentsOK' /\ L!Contents' = L!Contents
  BY <1>1, L!ListUnchanged, ListUse DEF PInv
<1>7. L!TypeOK'
  BY <1>1, <1>2, Types DEF L!TypeOK, L!Threads, L!Pointers, Crew
<1>8. L!PushOK'
  BY <1>1, <1>2, <1>3, <1>4
  DEF PInv, L!ListInv, L!PushOK, L!InPush, List!InPush, L!Threads, Crew
<1>9. L!PopOK'
  BY <1>1, <1>3, <1>5
  DEF PInv, L!ListInv, L!PopOK, L!InPush, L!InPop, HoldsAddress, L!Threads, Crew
<1>10. L!ListInv' BY <1>6, <1>7, <1>8, <1>9 DEF L!ListInv
<1>11. List!Contents' = List!Contents BY <1>6, SameList, SameListAfter
<1>12. \A u \in Crew : (MustPush(u)' <=> MustPush(u)) /\ Pushed(u)' = Pushed(u)
  BY <1>1, PushKept, CallerPushKept DEF Crew, runnerVars
<1>13. ThreadsOK'
  BY <1>1, <1>3, <1>12 DEF PInv, ThreadsOK, HoldsAddress, List!InPush, Crew, runnerVars, t
<1>14. LookedAtOK'
  <2>1. Runner!Running' = Runner!Running BY <1>1 DEF Runner!Running, Runner!At, runnerVars
  <2> QED BY <1>1, <1>3, <2>1 DEF PInv, LookedAtOK, HoldsAddress, Crew, runnerVars
<1> QED BY <1>1, <1>10, <1>11, <1>13, <1>14 DEF Runner!vars, runnerVars

(* push() puts its node in front. *)
LEMMA SwapFacts ==
  ASSUME PInv, NEW th \in Crew, List!PushSwap(th)
  PROVE  /\ L!ListInv' /\ MustPush(th) /\ arg[th] = Pushed(th)
         /\ List!Contents' = <<Pushed(th)>> \o List!Contents
         /\ (cur[th] = NoTask) = (List!Contents = <<>>)
         /\ held' = held \ {Pushed(th)} /\ at' = [at EXCEPT ![th] = "idle"]
         /\ \A u \in Crew \ {th} : at'[u] = at[u] /\ cur'[u] = cur[u] /\ arg'[u] = arg[u]
<1>1. L!PushSwap(th) BY DEF List!PushSwap, L!PushSwap, List!Goto, L!Goto, List!Return, L!Return
<1>2. L!ListInv' /\ L!Contents' = <<arg[th]>> \o L!Contents /\ held' = held \ {arg[th]}
  BY <1>1, L!PushSwapInv, ListUse DEF PInv, L!Threads, Crew
<1>3. MustPush(th) /\ arg[th] = Pushed(th)
  <2>1. List!InPush(th) BY DEF List!PushSwap, List!InPush
  <2> QED BY <2>1 DEF PInv, ThreadsOK, Crew
<1>4. List!Contents' = <<arg[th]>> \o List!Contents BY <1>2, SameList, SameListAfter
<1>5. /\ head = cur[th] /\ at' = [at EXCEPT ![th] = "idle"]
      /\ cur' = [cur EXCEPT ![th] = NoTask] /\ arg' = [arg EXCEPT ![th] = NoTask]
  BY DEF List!PushSwap, List!Return, List!Goto
<1>6. \A u \in Crew \ {th} : at'[u] = at[u] /\ cur'[u] = cur[u] /\ arg'[u] = arg[u]
  BY <1>5, Types
<1>7. (cur[th] = NoTask) = (List!Contents = <<>>)
  BY <1>5, L!HeadFacts, ListUse, SameList DEF PInv
<1> QED BY <1>2, <1>3, <1>4, <1>5, <1>6, <1>7

(* What a push leaves of the invariant, whatever the thread does next. *)
LEMMA PushedStep ==
  ASSUME PInv, NEW th \in Crew, List!PushSwap(th),
         UNCHANGED <<task, call, done>>,
         \A u \in Crew \ {th} : pc'[u] = pc[u] /\ pos'[u] = pos[u],
         pc'[th] # "call"
  PROVE  ThreadsOK' /\ LookedAtOK'
<1>1. at'[th] = "idle" BY SwapFacts, Types
<1>2. ThreadsOK'
  <2>1. ASSUME NEW u \in Crew, u # th
        PROVE  (MustPush(u)' <=> MustPush(u)) /\ Pushed(u)' = Pushed(u)
    <3>1. CASE u \in Workers BY <2>1, <3>1, PushKept DEF Crew
    <3>2. CASE u = Main BY <2>1, <3>2, CallerPushKept DEF Crew
    <3> QED BY <3>1, <3>2 DEF Crew
  <2>2. \A u \in Crew \ {th} : at'[u] = at[u] /\ arg'[u] = arg[u] BY SwapFacts
  <2> QED BY <1>1, <2>1, <2>2 DEF PInv, ThreadsOK, HoldsAddress, List!InPush, Crew
<1>3. LookedAtOK'
  <2>1. pc[th] # "call"
    BY SwapFacts DEF MustPush
  <2>2. Runner!Running' = Runner!Running
    <3>1. \A u \in Workers : pc'[u] = "call" <=> pc[u] = "call" BY <2>1 DEF Crew
    <3> QED BY <3>1 DEF Runner!Running, Runner!At
  <2>3. \A u \in Workers : HoldsAddress(u)' => HoldsAddress(u) /\ cur'[u] = cur[u]
    BY <1>1, SwapFacts DEF HoldsAddress, Crew
  <2> QED BY <2>2, <2>3, SwapFacts DEF PInv, LookedAtOK
<1> QED BY <1>2, <1>3

(* A worker has pushed a dependent: the runner's ResolveTask. *)
LEMMA WorkerPushedInv ==
  ASSUME PInv, NEW w \in Workers, WorkerPushed(w)
  PROVE  /\ L!ListInv' /\ ThreadsOK' /\ LookedAtOK'
         /\ Runner!Next
<1>1. /\ List!PushSwap(w) /\ w # Main /\ w \in Crew
      /\ wasEmpty' = [wasEmpty EXCEPT ![w] = @ \/ cur[w] = NoTask]
      /\ pc' = [pc EXCEPT ![w] = Runner!NextDependent(w, pos[w])]
      /\ UNCHANGED <<left, task, pos, seen, stop, ready, finalTask, call, submitted, done>>
  BY DEF WorkerPushed, Crew
<1>2. pc[w] = "resolve" /\ ~IsFinal(Pushed(w)) /\ Pushed(w) = Runner!Visited(w)
  BY <1>1, SwapFacts DEF MustPush, Pushed
<1>3. ThreadsOK' /\ LookedAtOK'
  <2>1. \A u \in Crew \ {w} : pc'[u] = pc[u] /\ pos'[u] = pos[u] BY <1>1, Types
  <2>2. pc'[w] # "call" BY <1>1, Types DEF Runner!NextDependent
  <2> QED BY <1>1, <2>1, <2>2, PushedStep
<1>4. wasEmpty' = [wasEmpty EXCEPT ![w] = @ \/ List!Contents = <<>>]
  BY <1>1, SwapFacts
<1>5. Runner!ResolveTask(w)
  BY <1>1, <1>2, <1>4, SwapFacts, SameGraph
  DEF Runner!ResolveTask, Runner!At, Runner!Goto, Runner!sync, Runner!history
<1>6. L!ListInv' BY <1>1, SwapFacts
<1> QED BY <1>3, <1>5, <1>6 DEF Runner!Next, Runner!WorkerStep

(* The caller has pushed a root: the runner's Visit. *)
LEMMA CallerPushedInv ==
  ASSUME PInv, CallerPushed
  PROVE  /\ L!ListInv' /\ ThreadsOK' /\ LookedAtOK'
         /\ Runner!Next
<1>1. /\ List!PushSwap(Main) /\ Main \in Crew
      /\ finalTask' = IF IsFinal(Pushed(Main)) THEN Pushed(Main) ELSE finalTask
      /\ submitted' = submitted \cup {Pushed(Main)}
      /\ pos' = [pos EXCEPT ![Main] = @ + 1]
      /\ pc' = [pc EXCEPT ![Main] = Runner!NextInBatch(call, pos[Main] + 1)]
      /\ UNCHANGED <<left, task, wasEmpty, seen, stop, ready, call, done>>
  BY DEF CallerPushed, Crew
<1>2. pc[Main] = "visit" /\ Pushed(Main) \in Roots /\ Pushed(Main) = Runner!Batch[pos[Main]]
  BY <1>1, SwapFacts DEF MustPush, Pushed
<1>3. ThreadsOK' /\ LookedAtOK'
  <2>1. \A u \in Crew \ {Main} : pc'[u] = pc[u] /\ pos'[u] = pos[u] BY <1>1, Types
  <2>2. pc'[Main] # "call" BY <1>1, Types DEF Runner!NextInBatch
  <2> QED BY <1>1, <2>1, <2>2, PushedStep
<1>4. Runner!Visit
  BY <1>1, <1>2, SwapFacts, SameGraph DEF Runner!Visit, Runner!At, Runner!Goto
<1>5. L!ListInv' BY <1>1, SwapFacts
<1> QED BY <1>3, <1>4, <1>5 DEF Runner!Next, Runner!MainStep
--------------------------------------------------------------------------------
(* The initial state. *)
LEMMA InitInv == Init => PInv /\ Runner!Init
<1> SUFFICES ASSUME Init PROVE PInv /\ Runner!Init OBVIOUS
<1> USE DEF Init
<1>1. L!Init
  <2>1. next \in [Tasks -> Tasks \cup {NoTask}] OBVIOUS
  <2> QED BY <2>1 DEF L!Init, L!Pointers, L!Threads
<1>2. L!ListInv BY <1>1, L!ListInit, ListUse
<1>3. R!IInv BY SameNext, R!InitInv, RunnerUse
<1>4. ThreadsOK /\ LookedAtOK
  BY DEF ThreadsOK, LookedAtOK, HoldsAddress, List!InPush
<1> QED BY <1>2, <1>3, <1>4 DEF PInv

(* Every step keeps the invariant and is a step of the runner, or none. *)
LEMMA NextInv ==
  ASSUME PopsSettle, PInv, [Next]_vars
  PROVE  PInv' /\ [Runner!Next]_(Runner!vars)
<1>1. L!ListInv' /\ ThreadsOK' /\ LookedAtOK' /\ (Runner!Next \/ UNCHANGED Runner!vars)
  <2>1. CASE UNCHANGED vars
    <3>1. UNCHANGED listVars /\ UNCHANGED runnerVars BY <2>1 DEF vars
    <3>2. Runner!Running' = Runner!Running BY <3>1 DEF Runner!Running, Runner!At, runnerVars
    <3>3. L!ListInv' /\ ThreadsOK' /\ LookedAtOK' /\ List!Contents' = List!Contents
      BY <3>1, <3>2, OtherStep DEF runnerVars
    <3> QED BY <3>1, <3>3 DEF Runner!vars, runnerVars
  <2>2. CASE \E w \in Workers : PopLoad(w) \/ PopNext(w) \/ PopSwap(w)
    BY <2>2, PopLoadInv, PopNextInv, PopSwapInv
  <2>3. CASE \E w \in Workers : WorkerPushed(w) \/ OtherWorkerStep(w)
    BY <2>3, WorkerPushedInv, OtherWorkerInv
  <2>4. CASE \E th \in Crew : PushLoad(th) \/ PushLink(th) \/ SwapFails(th)
    BY <2>4, PushLoadInv, PushLinkInv, SwapFailsInv
  <2>5. CASE CallerPushed \/ OtherCallerStep \/ StartRun
    BY <2>5, CallerPushedInv, OtherCallerInv, StartRunInv
  <2> QED BY <2>1, <2>2, <2>3, <2>4, <2>5 DEF Next, Crew
<1>2. R!Next \/ UNCHANGED R!vars
  <2>1. UNCHANGED Runner!vars => UNCHANGED R!vars BY DEF Runner!vars, R!vars
  <2> QED BY <1>1, <2>1, SameNext
<1>3. R!IInv'
  BY <1>2, R!NextInv, RunnerUse DEF PInv
<1> QED BY <1>1, <1>3 DEF PInv

(***************************************************************************)
(* The invariants of the list and of the runner hold together, for any     *)
(* graph and any workers, if no worker stays inside pop() when the caller  *)
(* starts the next round.                                                  *)
(***************************************************************************)
THEOREM OnListInvCorrect == ASSUME PopsSettle PROVE Spec => []OnListInv
<1>1. Init => PInv BY InitInv
<1>2. PInv /\ [Next]_vars => PInv' BY NextInv
<1>3. PInv => OnListInv BY SameList, SameRunner DEF PInv, OnListInv
<1> QED BY <1>1, <1>2, <1>3, PTL DEF Spec

(* The list holds the tasks that were pushed and not yet popped, although   *)
(* they are pushed again in every round.                                    *)
THEOREM ListCorrect == ASSUME PopsSettle PROVE Spec => []ListSound
<1>1. Init => PInv BY InitInv
<1>2. PInv /\ [Next]_vars => PInv' BY NextInv
<1>3. PInv => ListSound
  BY L!InvSound, ListUse, SameList DEF PInv, ListSound
<1> QED BY <1>1, <1>2, <1>3, PTL DEF Spec

(* next_ of a node is not written while a thread in pop() reads it. *)
THEOREM NextRaceFree == ASSUME PopsSettle PROVE Spec => []NextNotRaced
<1>1. OnListInv => NextNotRaced
  BY DEF OnListInv, List!ListInv, List!PopOK, List!InPop, List!InPush, List!Threads, NextNotRaced
<1> QED BY <1>1, OnListInvCorrect, PTL

(***************************************************************************)
(* TaskRunner on its own list is the TaskRunner of module TaskRunner: what *)
(* is proved of that one holds of it.                                      *)
(***************************************************************************)
THEOREM ImplementsRunner == ASSUME PopsSettle PROVE Spec => RunnerSpec
<1>1. Init => PInv /\ Runner!Init BY InitInv
<1>2. PInv /\ [Next]_vars => PInv' /\ [Runner!Next]_(Runner!vars) BY NextInv
<1> QED BY <1>1, <1>2, PTL DEF Spec, RunnerSpec, Runner!Spec

(***************************************************************************)
(* And so it promises the crossover the rounds of module TaskRounds: each  *)
(* task once, after its dependencies.                                      *)
(***************************************************************************)
THEOREM ImplementsRounds == ASSUME PopsSettle PROVE Spec => R!RoundsSpec
<1>1. Init => PInv /\ R!Init BY InitInv, SameNext
<1>2. PInv /\ [Next]_vars => PInv' /\ [R!Next]_(R!vars)
  <2>1. UNCHANGED Runner!vars => UNCHANGED R!vars BY DEF Runner!vars, R!vars
  <2> QED BY <2>1, NextInv, SameNext
<1>3. Spec => R!Spec BY <1>1, <1>2, PTL DEF Spec, R!Spec
<1>4. R!Spec => R!RoundsSpec BY R!ImplementsRounds, RunnerUse
<1> QED BY <1>3, <1>4, PTL
================================================================================
