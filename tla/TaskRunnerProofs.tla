--------------------------- MODULE TaskRunnerProofs ----------------------------
(***************************************************************************)
(* Proofs about TaskRunner, for any graph, number of workers and calls     *)
(* that satisfy the assumptions of TaskGraph, TaskRunner and TaskRunnerUse.*)
(***************************************************************************)
EXTENDS TaskRunnerUse, FiniteSetTheorems, TLAPS

(* The final task is the only one without dependents, and not a root. *)
LEMMA FinalFacts ==
  /\ Final \in Tasks
  /\ \A t \in Tasks : IsFinal(t) <=> t = Final
  /\ Final \notin Roots
  /\ AllFeed(Final)
<1>1. PICK f \in Tasks : (\A t \in Tasks : IsFinal(t) <=> t = f) /\ Deps[f] # {} /\ AllFeed(f)
  BY UseAssumption
<1>2. Final = f
  <2>1. Final \in Tasks /\ IsFinal(Final)
    BY <1>1 DEF Final
  <2> QED BY <1>1, <2>1
<1> QED BY <1>1, <1>2 DEF Roots

(* dependents_ is the inverse of dependencies_ and holds a task once. *)
LEMMA DependentFacts ==
  ASSUME NEW d \in Tasks
  PROVE  /\ Dependents[d] \in Seq(Tasks)
         /\ Len(Dependents[d]) \in Nat
         /\ DOMAIN Dependents[d] = 1 .. Len(Dependents[d])
         /\ \A i \in DOMAIN Dependents[d] :
               Dependents[d][i] \in Tasks /\ d \in Deps[Dependents[d][i]]
         /\ \A t \in Tasks : d \in Deps[t] =>
               \E i \in DOMAIN Dependents[d] : Dependents[d][i] = t
         /\ \A i, j \in DOMAIN Dependents[d] :
               Dependents[d][i] = Dependents[d][j] => i = j
  BY GraphAssumption DEF IsGraph

(* Every count of dependencies fits dependenciesLeft_. *)
LEMMA CountFacts ==
  ASSUME NEW t \in Tasks, NEW S \in SUBSET Deps[t]
  PROVE  /\ IsFiniteSet(S)
         /\ Cardinality(S) \in Nat
         /\ Cardinality(S) < Modulus
         /\ Modulus \in Nat
         /\ Cardinality(S) = 0 <=> S = {}
<1>1. IsFiniteSet(Deps[t])
  BY FS_Subset, GraphAssumption DEF IsGraph
<1>2. IsFiniteSet(S) /\ Cardinality(S) <= Cardinality(Deps[t])
  BY <1>1, FS_Subset
<1>3. Cardinality(S) \in Nat /\ Cardinality(Deps[t]) \in Nat
  BY <1>1, <1>2, FS_CardinalityType
<1>4. Cardinality(S) = 0 <=> S = {}
  BY <1>2, FS_EmptySet
<1>5. Modulus \in Nat /\ Cardinality(Deps[t]) < Modulus
  BY RunnerAssumption
<1> QED BY <1>2, <1>3, <1>4, <1>5

(* The vectors of the calls. *)
LEMMA CallFacts ==
  /\ Len(Calls) \in Nat \ {0}
  /\ DOMAIN Calls = 1 .. Len(Calls)
  /\ \A c \in DOMAIN Calls : /\ Calls[c] \in Seq(Tasks)
                             /\ Len(Calls[c]) \in Nat
                             /\ DOMAIN Calls[c] = 1 .. Len(Calls[c])
  /\ \A s \in Slots : /\ s[1] \in 1 .. Len(Calls)
                      /\ s[2] \in 1 .. Len(Calls[s[1]])
                      /\ s = <<s[1], s[2]>>
                      /\ Named(s) \in Tasks
  /\ \A c \in DOMAIN Calls : \A p \in DOMAIN Calls[c] :
        /\ <<c, p>> \in Slots /\ Named(<<c, p>>) = Calls[c][p]
<1>1. Calls \in Seq(Seq(Tasks)) /\ Calls # <<>>
  BY RunnerAssumption
<1>2. Len(Calls) \in Nat \ {0} /\ DOMAIN Calls = 1 .. Len(Calls)
  BY <1>1
<1>3. \A c \in DOMAIN Calls : /\ Calls[c] \in Seq(Tasks)
                              /\ Len(Calls[c]) \in Nat
                              /\ DOMAIN Calls[c] = 1 .. Len(Calls[c])
  BY <1>1
<1>4. ASSUME NEW s \in Slots
      PROVE  /\ s[1] \in 1 .. Len(Calls)
             /\ s[2] \in 1 .. Len(Calls[s[1]])
             /\ s = <<s[1], s[2]>>
             /\ Named(s) \in Tasks
  <2>1. PICK c \in DOMAIN Calls : s \in {c} \X DOMAIN Calls[c]
    BY DEF Slots
  <2>2. PICK p \in DOMAIN Calls[c] : s = <<c, p>>
    BY <2>1
  <2> QED BY <1>2, <1>3, <2>1, <2>2 DEF Named
<1>5. ASSUME NEW c \in DOMAIN Calls, NEW p \in DOMAIN Calls[c]
      PROVE  <<c, p>> \in Slots /\ Named(<<c, p>>) = Calls[c][p]
  BY DEF Slots, Named
<1> QED BY <1>2, <1>3, <1>4, <1>5
--------------------------------------------------------------------------------
(* The initial state: nothing runs, nothing is queued, every count is full. *)
LEMMA InitInv == Init => IInv
<1> SUFFICES ASSUME Init PROVE IInv
  OBVIOUS
<1> USE DEF Init, Threads
<1>1. \A t \in Tasks : NumDeps(t) \in 0 .. Modulus - 1
  BY CountFacts DEF NumDeps
<1>2. /\ \A w \in Workers : pc[w] = "top"
      /\ pc[Main] = "idle"
  BY RunnerAssumption
<1>3. TypeOK
  <2>1. active \in Seq(Tasks) /\ left \in [Tasks -> 0 .. Modulus - 1]
    BY <1>1
  <2>2. /\ pc \in [Threads -> Labels \cup MainLabels]
        /\ pc[Main] \in MainLabels
        /\ \A w \in Workers : pc[w] \in Labels
    BY <1>2 DEF Labels, MainLabels
  <2>3. wasEmpty \in [Workers -> BOOLEAN] /\ seen \in [Workers -> BOOLEAN] /\ stop \in BOOLEAN
    OBVIOUS
  <2>4. /\ task \in [Workers -> Tasks \cup {NoTask}]
        /\ pos \in [Threads -> Nat]
        /\ ready \in Nat
        /\ finalTask \in Tasks \cup {NoTask}
        /\ call \in 0 .. Len(Calls)
        /\ submitted \in SUBSET Tasks
        /\ done \in SUBSET Tasks
    BY CallFacts
  <2> QED BY <2>1, <2>2, <2>3, <2>4 DEF TypeOK
<1>4. WorkersOK
  BY <1>2 DEF WorkersOK, At, Executing
<1>5. CallerOK
  <2>1. \A s \in Slots : ~Passed(s)
    BY <1>2, CallFacts DEF Passed, At
  <2>2. ~FinalPassed
    BY <2>1 DEF FinalPassed
  <2> QED BY <1>2, <2>1, <2>2, CallFacts DEF CallerOK, At
<1>6. OneExecutes /\ Fresh
  BY <1>2 DEF OneExecutes, Fresh, At, Executing
<1>7. \A t \in Tasks : ~Queued(t) /\ ~Held(t) /\ ~Resolving(t)
  BY <1>2 DEF Queued, Held, Resolving, At
<1>8. ~Claimed
  BY <1>2 DEF Claimed, At
<1>9. OnePlace
  BY <1>2, <1>7, <1>8 DEF OnePlace, At
<1>10. Released
  BY <1>7, <1>8 DEF Released, Started
<1>11. CountExact
  <2>1. \A t \in Tasks : OwedDeps(t) = Deps[t]
    BY GraphAssumption DEF IsGraph, OwedDeps, Owed
  <2>2. \A t \in Tasks, w \in Workers : ~Runs(w, t)
    BY <1>2 DEF Runs, Executing
  <2> QED BY <2>1, <2>2 DEF CountExact, NumDeps
<1> QED BY <1>3, <1>4, <1>5, <1>6, <1>9, <1>10, <1>11 DEF IInv, TasksOK

(* The labels outside Task::execute of a worker. *)
Quiet == Labels \ Executing

(***************************************************************************)
(* A step that only moves workers outside Task::execute, or the caller,    *)
(* leaves the graph's part of the invariant alone.                         *)
(***************************************************************************)
LEMMA QuietStep ==
  ASSUME TypeOK, TasksOK,
         UNCHANGED <<active, left, task, done, ready>>,
         submitted \subseteq submitted',
         call' = 0 => call = 0,
         At(Main, "final")' <=> At(Main, "final"),
         \A w \in Workers : /\ pos'[w] = pos[w]
                            /\ pc'[w] = pc[w] \/ (pc[w] \in Quiet /\ pc'[w] \in Quiet)
  PROVE  TasksOK'
<1>1. \A w \in Workers, l \in Executing : pc'[w] = l <=> pc[w] = l
  BY DEF Quiet
<1> USE <1>1 DEF Executing
<1>2. WorkersOK' /\ Fresh'
  BY DEF TasksOK, WorkersOK, Fresh, At
<1>3. OneExecutes'
  BY DEF TasksOK, OneExecutes, At
<1>4. \A t \in Tasks : /\ Queued(t)' <=> Queued(t)
                       /\ Held(t)' <=> Held(t)
                       /\ Resolving(t)' <=> Resolving(t)
  BY DEF Queued, Held, Resolving, At, Visited
<1>5. Claimed' <=> Claimed
  BY DEF Claimed
<1>6. OnePlace'
  BY <1>4, <1>5, FinalFacts DEF TasksOK, OnePlace, At, Visited
<1>7. \A t \in Tasks : OwedDeps(t)' = OwedDeps(t)
  BY DEF OwedDeps, Owed
<1>8. Released'
  BY <1>4, <1>5, <1>7 DEF TasksOK, Released, Started
<1>9. \A t \in Tasks, w \in Workers : Runs(w, t)' <=> Runs(w, t)
  BY DEF Runs
<1>10. CountExact'
  BY <1>7, <1>9 DEF TasksOK, CountExact
<1> QED BY <1>2, <1>3, <1>6, <1>8, <1>10 DEF TasksOK
--------------------------------------------------------------------------------
(* When the vectors of a round are handed over and the final task has not  *)
(* run, finalTask_ is the final task.                                      *)
LEMMA FinalTaskSet ==
  ASSUME TypeOK, CallerOK, call = Len(Calls), ~stop,
         pc[Main] \in {"bump", "notify", "acquire", "final"}
  PROVE  finalTask = Final /\ Final \notin done
<1>1. PICK s \in Slots : Named(s) = Final
  BY UseAssumption
<1>2. Passed(s)
  BY <1>1, CallFacts DEF Passed, At
<1>3. Final \notin done
  BY DEF CallerOK, At
<1> QED BY <1>1, <1>2, <1>3 DEF CallerOK, FinalPassed

(* The type of the variables is kept: the loop indices stay inside the      *)
(* vectors they index.                                                      *)
LEMMA TypeStep ==
  ASSUME TypeOK, WorkersOK, CallerOK, Next
  PROVE  TypeOK'
<1> USE DEF TypeOK, At, Goto, Threads
<1>1. ASSUME NEW w \in Workers, Bump(w) PROVE TypeOK'
  BY <1>1, RunnerAssumption DEF Bump, locals, sync, history, Labels
<1>2. ASSUME NEW w \in Workers, NotifyAll(w) PROVE TypeOK'
  <2>1. /\ pc' \in [Threads -> Labels \cup MainLabels]
        /\ pc'[Main] \in MainLabels
        /\ \A v \in Workers : pc'[v] \in Labels
    BY <1>2, RunnerAssumption DEF NotifyAll, AfterNotify, Labels, MainLabels
  <2> QED BY <1>2, <2>1 DEF NotifyAll, locals, sync, history
<1>3. ASSUME NEW w \in Workers, CheckStop(w) \/ LoadEpoch(w) \/ PopNothing(w) PROVE TypeOK'
  <2>1. CASE CheckStop(w)
    BY <2>1, RunnerAssumption DEF CheckStop, locals, sync, history, Labels
  <2>2. CASE LoadEpoch(w)
    BY <2>2, RunnerAssumption DEF LoadEpoch, locals, sync, history, Labels
  <2>3. CASE PopNothing(w)
    BY <2>3, RunnerAssumption DEF PopNothing, locals, sync, history, Labels
  <2> QED BY <1>3, <2>1, <2>2, <2>3
<1>4. ASSUME NEW w \in Workers, PopTask(w) PROVE TypeOK'
  <2>1. active' \in Seq(Tasks) /\ task' \in [Workers -> Tasks \cup {NoTask}]
    BY <1>4 DEF PopTask
  <2>2. /\ pc' \in [Threads -> Labels \cup MainLabels]
        /\ pc'[Main] \in MainLabels
        /\ \A v \in Workers : pc'[v] \in Labels
    BY <1>4, RunnerAssumption DEF PopTask, Labels
  <2> QED BY <1>4, <2>1, <2>2 DEF PopTask, sync, history
<1>5. ASSUME NEW w \in Workers, CheckEpoch(w) \/ Park(w) \/ SpuriousWakeup(w) PROVE TypeOK'
  <2>1. CASE CheckEpoch(w)
    BY <2>1, RunnerAssumption DEF CheckEpoch, locals, sync, history, Labels
  <2>2. CASE Park(w)
    BY <2>2, RunnerAssumption DEF Park, locals, sync, history, Labels
  <2>3. CASE SpuriousWakeup(w)
    BY <2>3, RunnerAssumption DEF SpuriousWakeup, locals, sync, history, Labels
  <2> QED BY <1>5, <2>1, <2>2, <2>3
<1>6. ASSUME NEW w \in Workers, Callback(w) PROVE TypeOK'
  BY <1>6, RunnerAssumption DEF Callback, NextDependent, sync, Labels, WorkersOK, Executing
<1>7. ASSUME NEW w \in Workers, Decrement(w) PROVE TypeOK'
  <2> DEFINE d == Dependents[task[w]][pos[w]]
             n == IF left[d] = 0 THEN Modulus - 1 ELSE left[d] - 1
  <2>1. task[w] \in Tasks /\ pos[w] \in DOMAIN Dependents[task[w]]
    BY <1>7 DEF WorkersOK, Executing, Decrement
  <2>2. d \in Tasks
    BY <2>1, DependentFacts
  <2>3. n \in 0 .. Modulus - 1
    <3>1. left[d] \in 0 .. Modulus - 1 /\ Modulus \in Nat
      BY <2>2, RunnerAssumption
    <3> HIDE DEF d
    <3> QED BY <3>1
  <2>4. left' \in [Tasks -> 0 .. Modulus - 1]
    BY <1>7, <2>2, <2>3 DEF Decrement
  <2> QED BY <1>7, <2>4, RunnerAssumption DEF Decrement, NextDependent, sync, history, Labels
<1>8. ASSUME NEW w \in Workers, ResolveFinal(w) PROVE TypeOK'
  BY <1>8, RunnerAssumption DEF ResolveFinal, NextDependent, locals, history, Labels
<1>9. ASSUME NEW w \in Workers, ResolveTask(w) PROVE TypeOK'
  <2>1. task[w] \in Tasks /\ pos[w] - 1 \in DOMAIN Dependents[task[w]]
    BY <1>9 DEF WorkersOK, Executing, ResolveTask
  <2>2. Visited(w) \in Tasks
    BY <2>1, DependentFacts DEF Visited
  <2>3. active' \in Seq(Tasks)
    BY <1>9, <2>2 DEF ResolveTask
  <2>4. wasEmpty' \in [Workers -> BOOLEAN]
    BY <1>9 DEF ResolveTask
  <2> QED BY <1>9, <2>3, <2>4, RunnerAssumption
             DEF ResolveTask, NextDependent, sync, history, Labels
<1>10. ASSUME NEW w \in Workers, ResetCount(w) PROVE TypeOK'
  <2>1. NumDeps(task[w]) \in 0 .. Modulus - 1
    BY <1>10, CountFacts DEF WorkersOK, Executing, ResetCount, NumDeps
  <2> QED BY <1>10, <2>1, RunnerAssumption DEF ResetCount, locals, sync, history, Labels
<1>11. CASE StartRun
  <2>1. NextCall \in 1 .. Len(Calls)
    BY CallFacts DEF NextCall
  <2>2. /\ pc' \in [Threads -> Labels \cup MainLabels]
        /\ pc'[Main] \in MainLabels
        /\ \A v \in Workers : pc'[v] \in Labels
    BY <1>11, RunnerAssumption DEF StartRun, NextInBatch, MainLabels
  <2>3. /\ pos' \in [Threads -> Nat]
        /\ call' \in 0 .. Len(Calls)
        /\ submitted' \in SUBSET Tasks
        /\ done' \in SUBSET Tasks
    BY <1>11, <2>1, CallFacts DEF StartRun
  <2> QED BY <1>11, <2>2, <2>3 DEF StartRun
<1>12. CASE Visit
  <2>1. Batch[pos[Main]] \in Tasks
    BY <1>12, CallFacts DEF CallerOK, Visit, Batch
  <2>2. active' \in Seq(Tasks) /\ finalTask' \in Tasks \cup {NoTask} /\ submitted' \in SUBSET Tasks
    BY <1>12, <2>1 DEF Visit
  <2>3. /\ pc' \in [Threads -> Labels \cup MainLabels]
        /\ pc'[Main] \in MainLabels
        /\ \A v \in Workers : pc'[v] \in Labels
    BY <1>12, RunnerAssumption DEF Visit, NextInBatch, MainLabels
  <2>4. pos' \in [Threads -> Nat]
    BY <1>12 DEF Visit
  <2> QED BY <1>12, <2>2, <2>3, <2>4 DEF Visit
<1>13. CASE Bump(Main)
  BY <1>13, RunnerAssumption DEF Bump, locals, sync, history, MainLabels
<1>14. CASE NotifyAll(Main)
  <2>1. /\ pc' \in [Threads -> Labels \cup MainLabels]
        /\ pc'[Main] \in MainLabels
        /\ \A v \in Workers : pc'[v] \in Labels
    BY <1>14, RunnerAssumption DEF NotifyAll, AfterNotify, Labels, MainLabels
  <2> QED BY <1>14, <2>1 DEF NotifyAll, locals, sync, history
<1>15. CASE Acquire
  BY <1>15, RunnerAssumption DEF Acquire, locals, history, MainLabels
<1>16. CASE RunFinal
  <2>1. finalTask = NoTask \/ NumDeps(finalTask) \in 0 .. Modulus - 1
    BY CountFacts DEF NumDeps
  <2>2. finalTask = Final
    <3>1. pc[Main] = "final" /\ call = Len(Calls) /\ ~stop
      BY <1>16 DEF RunFinal, CallerOK
    <3> QED BY <3>1, FinalTaskSet
  <2> QED BY <1>16, <2>1, <2>2, FinalFacts, RunnerAssumption DEF RunFinal, locals, MainLabels
<1>17. CASE Stop \/ SleepOver \/ Join
  BY <1>17, RunnerAssumption DEF Stop, SleepOver, Join, locals, sync, history, MainLabels
<1>18. CASE Gone
  BY <1>18 DEF Gone, vars
<1> QED BY <1>1, <1>2, <1>3, <1>4, <1>5, <1>6, <1>7, <1>8, <1>9, <1>10, <1>11, <1>12,
           <1>13, <1>14, <1>15, <1>16, <1>17, <1>18 DEF Next, WorkerStep, MainStep
--------------------------------------------------------------------------------
(* Where the caller is decides what it has handed over in this round.       *)
LEMMA CallerUnmoved ==
  ASSUME CallerOK, UNCHANGED <<call, submitted, finalTask, stop>>,
         pc'[Main] = pc[Main], pos'[Main] = pos[Main],
         Final \in done' <=> Final \in done
  PROVE  CallerOK'
<1>1. Batch' = Batch
  BY DEF Batch
<1>2. \A s : Passed(s)' <=> Passed(s)
  BY DEF Passed, At
<1>3. FinalPassed' <=> FinalPassed
  BY <1>2 DEF FinalPassed
<1> QED BY <1>1, <1>2, <1>3 DEF CallerOK, At

(* The same for a step of the caller that does not pass an entry. *)
LEMMA CallerMoves ==
  ASSUME CallerOK, UNCHANGED <<call, submitted, finalTask, done>>,
         pc[Main] # "visit", pc'[Main] # "visit"
  PROVE  /\ submitted' = {t \in Roots : \E s \in Slots : Named(s) = t /\ Passed(s)'}
         /\ finalTask' = IF FinalPassed' /\ Final \notin done' THEN Final ELSE NoTask
<1>1. \A s : Passed(s)' <=> Passed(s)
  BY DEF Passed, At
<1>2. FinalPassed' <=> FinalPassed
  BY <1>1 DEF FinalPassed
<1> QED BY <1>1, <1>2 DEF CallerOK

LEMMA CallerStep ==
  ASSUME TypeOK, WorkersOK, CallerOK, Next
  PROVE  CallerOK'
<1> USE DEF At, Goto
<1>1. ASSUME NEW w \in Workers, WorkerStep(w) \/ SpuriousWakeup(w) PROVE CallerOK'
  <2>1. pc'[Main] = pc[Main]
    <3>1. pc[Main] # "parked" /\ Main # w /\ Main \in Threads
      BY RunnerAssumption DEF TypeOK, MainLabels, Threads
    <3>2. pc' = [pc EXCEPT ![w] = pc'[w]] \/ NotifyAll(w)
      BY <1>1 DEF WorkerStep, CheckStop, LoadEpoch, PopNothing, PopTask, CheckEpoch, Park,
            SpuriousWakeup, Callback, Decrement, ResolveFinal, ResolveTask, ResetCount, Bump,
            TypeOK, Threads
    <3> QED BY <3>1, <3>2 DEF NotifyAll, TypeOK
  <2>2. UNCHANGED <<call, submitted, finalTask, stop>>
    BY <1>1 DEF WorkerStep, CheckStop, LoadEpoch, PopNothing, PopTask, CheckEpoch, Park,
          SpuriousWakeup, Callback, Decrement, ResolveFinal, ResolveTask, ResetCount, Bump,
          NotifyAll, sync, history
  <2>3. pos'[Main] = pos[Main]
    BY <1>1, RunnerAssumption
       DEF WorkerStep, CheckStop, LoadEpoch, PopNothing, PopTask, CheckEpoch, Park,
          SpuriousWakeup, Callback, Decrement, ResolveFinal, ResolveTask, ResetCount, Bump,
          NotifyAll, locals, TypeOK, Threads
  <2>4. Final \in done' <=> Final \in done
    BY <1>1 DEF WorkerStep, CheckStop, LoadEpoch, PopNothing, PopTask, CheckEpoch, Park,
          SpuriousWakeup, Callback, Decrement, ResolveFinal, ResolveTask, ResetCount, Bump,
          NotifyAll, history, WorkersOK, Executing
  <2> QED BY <2>1, <2>2, <2>3, <2>4, CallerUnmoved
<1>2. CASE Bump(Main)
  <2>1. pc[Main] = "bump" /\ pc'[Main] = "notify" /\ UNCHANGED <<sync, history, locals>>
    BY <1>2 DEF Bump, TypeOK, Threads
  <2> QED BY <2>1, CallerMoves DEF CallerOK, sync, history, locals
<1>3. CASE NotifyAll(Main)
  <2>1. pc[Main] = "notify" /\ pc'[Main] = AfterNotify(Main) /\ UNCHANGED <<sync, history, locals>>
    BY <1>3 DEF NotifyAll, TypeOK, Threads
  <2>2. pc'[Main] # "visit"
    BY <2>1 DEF AfterNotify
  <2>3. ~stop /\ call = Len(Calls) => finalTask = Final /\ Final \notin done
    BY <2>1, FinalTaskSet
  <2>4. Final # NoTask
    BY FinalFacts, RunnerAssumption
  <2> QED BY <2>1, <2>2, <2>3, <2>4, CallerMoves
             DEF CallerOK, AfterNotify, Waiting, sync, history, locals
<1>4. CASE Acquire
  <2>1. pc[Main] = "acquire" /\ pc'[Main] = "final"
    BY <1>4 DEF Acquire, TypeOK, Threads
  <2> QED BY <1>4, <2>1, CallerMoves DEF Acquire, CallerOK, history
<1>5. CASE RunFinal
  <2>1. pc[Main] = "final" /\ pc'[Main] = "idle" /\ call = Len(Calls) /\ ~stop
    BY <1>5 DEF RunFinal, TypeOK, Threads, CallerOK
  <2>2. finalTask = Final
    BY <2>1, FinalTaskSet
  <2>3. Final \in done' /\ finalTask' = NoTask
    BY <1>5, <2>2 DEF RunFinal
  <2>4. \A s : Passed(s)' <=> Passed(s)
    BY <1>5, <2>1 DEF Passed, RunFinal
  <2> QED BY <1>5, <2>1, <2>3, <2>4 DEF RunFinal, CallerOK
<1>6. CASE Stop
  <2>1. pc[Main] = "idle" /\ pc'[Main] = "sleep" /\ stop'
    BY <1>6 DEF Stop, TypeOK, Threads
  <2> QED BY <1>6, <2>1, CallerMoves DEF Stop, CallerOK, history
<1>7. CASE SleepOver
  <2>1. pc[Main] = "sleep" /\ pc'[Main] = "notify" /\ UNCHANGED <<sync, history, locals>>
    BY <1>7 DEF SleepOver, TypeOK, Threads
  <2> QED BY <2>1, CallerMoves DEF CallerOK, sync, history, locals
<1>8. CASE Join
  <2>1. pc[Main] = "join" /\ pc'[Main] = "gone" /\ UNCHANGED <<sync, history, locals>>
    BY <1>8 DEF Join, TypeOK, Threads
  <2> QED BY <2>1, CallerMoves DEF CallerOK, sync, history, locals
<1>9. CASE Gone
  BY <1>9, CallerUnmoved DEF Gone, vars
<1>10. CASE StartRun
  <2>1. pc[Main] = "idle" /\ ~stop /\ call' = NextCall /\ pos'[Main] = 1
    BY <1>10 DEF StartRun, TypeOK, Threads, CallerOK
  <2>2. NextCall \in DOMAIN Calls
    BY CallFacts DEF NextCall, TypeOK
  <2>3. pc'[Main] = NextInBatch(NextCall, 1)
    BY <1>10 DEF StartRun, TypeOK, Threads
  <2>4. /\ pc'[Main] = "visit" => 1 \in DOMAIN Calls[NextCall]
        /\ pc'[Main] = "bump" => DOMAIN Calls[NextCall] = {}
        /\ pc'[Main] \in {"visit", "bump"}
    BY <2>2, <2>3, CallFacts DEF NextInBatch
  <2>5. \A s \in Slots : Passed(s)' <=> s[1] < NextCall
    BY <2>1, <2>2, <2>4, CallFacts DEF Passed
  <2>6. \A s \in Slots : Passed(s) <=> s[1] < call \/ s[1] = call
    BY <2>1 DEF Passed
  <2>7. /\ submitted' = {t \in Roots : \E s \in Slots : Named(s) = t /\ Passed(s)'}
        /\ finalTask' = IF FinalPassed' /\ Final \notin done' THEN Final ELSE NoTask
        /\ Final \notin done'
    <3>1. CASE NextCall = 1
      <4>1. submitted' = {} /\ done' = {} /\ finalTask' = finalTask
        BY <1>10, <3>1 DEF StartRun
      <4>2. \A s \in Slots : ~Passed(s)'
        BY <2>5, <3>1, CallFacts
      <4>3. ~FinalPassed'
        BY <4>2 DEF FinalPassed
      <4>4. call = 0 \/ call = Len(Calls)
        BY <3>1, CallFacts DEF NextCall, TypeOK
      <4>5. finalTask = NoTask
        <5>1. CASE call = 0
          <6>1. \A s \in Slots : ~Passed(s)
            BY <2>6, <5>1, CallFacts
          <6> QED BY <6>1 DEF FinalPassed, CallerOK
        <5>2. CASE call = Len(Calls)
          BY <2>1, <5>2 DEF CallerOK
        <5> QED BY <4>4, <5>1, <5>2
      <4> QED BY <4>1, <4>2, <4>3, <4>5
    <3>2. CASE NextCall # 1
      <4>1. NextCall = call + 1 /\ call # Len(Calls)
        BY <3>2 DEF NextCall
      <4>2. UNCHANGED <<submitted, done, finalTask>>
        BY <1>10, <3>2 DEF StartRun
      <4>3. \A s \in Slots : Passed(s)' <=> Passed(s)
        BY <2>5, <2>6, <4>1, CallFacts DEF TypeOK
      <4>4. FinalPassed' <=> FinalPassed
        BY <4>3 DEF FinalPassed
      <4> QED BY <4>1, <4>2, <4>3, <4>4 DEF CallerOK
    <3> QED BY <3>1, <3>2
  <2>8. stop' = stop
    BY <1>10 DEF StartRun
  <2>9. Batch' = Calls[NextCall]
    BY <2>1 DEF Batch
  <2> QED BY <2>1, <2>2, <2>4, <2>7, <2>8, <2>9, CallFacts DEF CallerOK
<1>11. CASE Visit
  <2> DEFINE t == Batch[pos[Main]]
  <2>1. pc[Main] = "visit" /\ ~stop /\ call \in DOMAIN Calls /\ pos[Main] \in DOMAIN Batch
    BY <1>11, CallFacts DEF Visit, CallerOK, TypeOK
  <2>2. <<call, pos[Main]>> \in Slots /\ Named(<<call, pos[Main]>>) = t
    BY <2>1, CallFacts DEF Batch
  <2>3. /\ pc'[Main] = NextInBatch(call, pos[Main] + 1)
        /\ pos'[Main] = pos[Main] + 1
        /\ UNCHANGED <<call, stop, done>>
    BY <1>11 DEF Visit, TypeOK, Threads
  <2>4. /\ pc'[Main] = "visit" => pos[Main] + 1 \in DOMAIN Batch
        /\ pc'[Main] = "bump" => pos[Main] = Len(Batch)
        /\ pc'[Main] \in {"visit", "bump"}
    BY <2>1, <2>3, CallFacts DEF NextInBatch, Batch
  <2>5. \A s \in Slots : Passed(s)' <=> Passed(s) \/ s = <<call, pos[Main]>>
    <3> TAKE s \in Slots
    <3>1. /\ s[1] \in 1 .. Len(Calls) /\ s[2] \in 1 .. Len(Calls[s[1]]) /\ s = <<s[1], s[2]>>
          /\ call \in Nat /\ pos[Main] \in Nat
      BY <2>1, CallFacts DEF Batch
    <3>2. CASE s[1] # call
      BY <2>3, <3>1, <3>2 DEF Passed
    <3>3. CASE s[1] = call
      <4>1. Passed(s) <=> s[2] < pos[Main]
        BY <2>1, <3>1, <3>3 DEF Passed
      <4>2. Passed(s)' <=> s[2] < pos[Main] + 1
        BY <2>3, <2>4, <3>1, <3>3 DEF Passed, Batch
      <4>3. s = <<call, pos[Main]>> <=> s[2] = pos[Main]
        BY <3>1, <3>3
      <4> QED BY <3>1, <4>1, <4>2, <4>3
    <3> QED BY <3>2, <3>3
  <2>6. Final \notin done
    BY <2>1 DEF CallerOK
  <2>7. /\ finalTask' = IF IsFinal(t) THEN t ELSE finalTask
        /\ submitted' = IF t \in Roots THEN submitted \cup {t} ELSE submitted
    BY <1>11 DEF Visit
  <2>8. t \in Tasks
    BY <2>2, CallFacts
  <2>9. submitted' = {u \in Roots : \E s \in Slots : Named(s) = u /\ Passed(s)'}
    BY <2>2, <2>5, <2>7 DEF CallerOK
  <2>10. FinalPassed' <=> FinalPassed \/ t = Final
    BY <2>2, <2>5 DEF FinalPassed
  <2>11. finalTask' = IF FinalPassed' /\ Final \notin done' THEN Final ELSE NoTask
    BY <2>3, <2>6, <2>7, <2>8, <2>10, FinalFacts DEF CallerOK
  <2>12. Batch' = Batch
    BY <2>3 DEF Batch
  <2>13. call # 0
    BY <2>1 DEF CallerOK
  <2> HIDE DEF t
  <2> QED BY <2>1, <2>3, <2>4, <2>6, <2>9, <2>11, <2>12, <2>13 DEF CallerOK
<1> QED BY <1>1, <1>2, <1>3, <1>4, <1>5, <1>6, <1>7, <1>8, <1>9, <1>10, <1>11
        DEF Next, MainStep
--------------------------------------------------------------------------------
(* A worker takes the task on top of the list. *)
LEMMA PopStep ==
  ASSUME TypeOK, TasksOK, NEW w \in Workers, PopTask(w)
  PROVE  TasksOK'
<1> DEFINE t == Head(active)
<1> USE DEF At, Goto, Threads
<1>1. /\ t \in Tasks /\ Queued(t) /\ DOMAIN active = 1 .. Len(active) /\ Len(active) \in Nat \ {0}
      /\ t = active[1] /\ active' = Tail(active)
  BY DEF PopTask, TypeOK, Queued
<1>2. t \notin done /\ ~Held(t) /\ ~Resolving(t) /\ t # Final
  BY <1>1 DEF TasksOK, OnePlace
<1>3. /\ task' = [task EXCEPT ![w] = t] /\ pc' = [pc EXCEPT ![w] = "call"]
      /\ pc[w] = "pop" /\ w # Main
      /\ UNCHANGED <<left, pos, submitted, done, ready, call>>
  BY RunnerAssumption DEF PopTask, sync, history
<1>4. /\ \A v \in Workers : v # w => task'[v] = task[v] /\ pc'[v] = pc[v]
      /\ task'[w] = t /\ pc'[w] = "call" /\ pc'[Main] = pc[Main]
  BY <1>3, RunnerAssumption DEF TypeOK
<1>5. \A i \in DOMAIN active' : i \in Nat /\ i + 1 \in DOMAIN active /\ active'[i] = active[i + 1]
  BY <1>1 DEF TypeOK
<1>6. \A u \in Tasks : Queued(u)' => Queued(u) /\ u # t
  BY <1>1, <1>5 DEF Queued, TasksOK, OnePlace
<1>7. \A u \in Tasks : /\ Held(u)' <=> Held(u) \/ u = t
                       /\ Resolving(u)' <=> Resolving(u)
  BY <1>3, <1>4 DEF Held, Resolving, Visited
<1>8. Claimed' <=> Claimed
  BY <1>3, <1>4 DEF Claimed
<1>9. \A v \in Workers : v # w => ~Runs(v, t)
  BY <1>2, <1>3 DEF Runs, Held, TasksOK, OneExecutes, Executing
<1>10. WorkersOK'
  BY <1>1, <1>2, <1>3, <1>4 DEF TasksOK, WorkersOK, Executing
<1>11. OneExecutes'
  BY <1>2, <1>3, <1>4, <1>9 DEF TasksOK, OneExecutes, Executing, Runs
<1>12. OnePlace'
  <2>1. \A i, j \in DOMAIN active' : active'[i] = active'[j] => i = j
    BY <1>5 DEF TasksOK, OnePlace
  <2>2. \A u, v \in Workers : At(u, "resolve")' /\ At(v, "resolve")' /\ Visited(u)' = Visited(v)' => u = v
    BY <1>3, <1>4 DEF TasksOK, OnePlace, Visited
  <2> QED BY <1>2, <1>3, <1>4, <1>6, <1>7, <1>8, <2>1, <2>2, FinalFacts DEF TasksOK, OnePlace
<1>13. \A u \in Tasks : OwedDeps(u)' = OwedDeps(u)
  BY <1>3, <1>4 DEF OwedDeps, Owed
<1>14. Released'
  BY <1>1, <1>3, <1>6, <1>7, <1>8, <1>13 DEF TasksOK, Released, Started
<1>15. CountExact'
  <2>1. \A u \in Tasks, v \in Workers : Runs(v, u)' <=> Runs(v, u) \/ (v = w /\ u = t)
    BY <1>3, <1>4 DEF Runs, Executing
  <2>2. ~Runs(w, t)
    BY <1>3 DEF Runs, Executing
  <2>3. left[t] = 0
    BY <1>1, <1>2, <1>9, <2>2, CountFacts DEF TasksOK, CountExact, Released, Started
  <2> QED BY <1>1, <1>3, <1>13, <2>1, <2>3 DEF TasksOK, CountExact
<1>16. Fresh'
  BY <1>1, <1>3 DEF TasksOK, Fresh
<1> QED BY <1>10, <1>11, <1>12, <1>14, <1>15, <1>16 DEF TasksOK

(* A callback returns; its task's dependents are all still to be visited. *)
LEMMA CallbackStep ==
  ASSUME TypeOK, TasksOK, NEW w \in Workers, Callback(w)
  PROVE  TasksOK'
<1> DEFINE t == task[w]
<1> USE DEF At, Goto, Threads
<1>1. /\ t \in Tasks /\ t # Final /\ t \notin done /\ Held(t) /\ pc[w] = "call" /\ w # Main
      /\ done' = done \cup {t}
  BY RunnerAssumption DEF Callback, TasksOK, WorkersOK, OneExecutes, Held, Executing
<1>2. 1 \in DOMAIN Dependents[t]
  BY <1>1, FinalFacts, DependentFacts DEF IsFinal
<1>3. /\ pc' = [pc EXCEPT ![w] = "dec"] /\ pos' = [pos EXCEPT ![w] = 1]
      /\ UNCHANGED <<active, left, task, submitted, ready, call>>
  <2>1. NextDependent(w, 1) = "dec"
    BY <1>1, <1>2, DependentFacts DEF NextDependent
  <2> QED BY <2>1 DEF Callback, sync
<1>4. /\ \A v \in Workers : v # w => pos'[v] = pos[v] /\ pc'[v] = pc[v]
      /\ pos'[w] = 1 /\ pc'[w] = "dec" /\ pc'[Main] = pc[Main]
  BY <1>1, <1>3, RunnerAssumption DEF TypeOK
<1>5. \A u \in Tasks : /\ Queued(u)' <=> Queued(u)
                       /\ Held(u)' <=> Held(u) /\ u # t
                       /\ Resolving(u)' <=> Resolving(u)
  <2>1. \A v \in Workers : pc[v] = "call" /\ task[v] = t => v = w
    BY <1>1 DEF TasksOK, OneExecutes, Executing
  <2> QED BY <1>1, <1>3, <1>4, <2>1 DEF Queued, Held, Resolving, Visited
<1>6. Claimed' <=> Claimed
  BY <1>3, <1>4 DEF Claimed
<1>7. WorkersOK' /\ Fresh'
  BY <1>1, <1>2, <1>3, <1>4 DEF TasksOK, WorkersOK, Fresh, Executing
<1>8. OneExecutes'
  BY <1>1, <1>3, <1>4 DEF TasksOK, OneExecutes, Executing
<1>9. OnePlace'
  BY <1>1, <1>3, <1>4, <1>5, <1>6, FinalFacts DEF TasksOK, OnePlace, Visited
<1>10. \A u \in Tasks : OwedDeps(u)' = OwedDeps(u)
  <2> TAKE u \in Tasks
  <2>1. ASSUME NEW d \in Deps[u] PROVE Owed(d, u)' <=> Owed(d, u)
    <3>1. CASE d = t
      <4>1. PICK i \in DOMAIN Dependents[t] : Dependents[t][i] = u
        BY <1>1, <3>1, DependentFacts
      <4>2. pos'[w] <= i
        BY <1>1, <1>4, <4>1, DependentFacts
      <4> QED BY <1>1, <1>3, <1>4, <3>1, <4>1, <4>2 DEF Owed
    <3>2. CASE d # t
      <4>1. d \notin done' <=> d \notin done
        BY <1>1, <3>2
      <4>2. \A v \in Workers : task[v] = d => v # w
        BY <3>2
      <4> QED BY <1>1, <1>3, <1>4, <4>1, <4>2 DEF Owed
    <3> QED BY <3>1, <3>2
  <2> QED BY <2>1 DEF OwedDeps
<1>11. Released'
  BY <1>1, <1>3, <1>5, <1>6, <1>10 DEF TasksOK, Released, Started
<1>12. CountExact'
  <2>1. \A u \in Tasks, v \in Workers : Runs(v, u)' <=> Runs(v, u)
    BY <1>1, <1>3, <1>4 DEF Runs, Executing
  <2>2. Runs(w, t)
    BY <1>1 DEF Runs, Executing
  <2> QED BY <1>1, <1>3, <1>10, <2>1, <2>2 DEF TasksOK, CountExact
<1> QED BY <1>7, <1>8, <1>9, <1>11, <1>12 DEF TasksOK
--------------------------------------------------------------------------------
(* One dependency less is owed to a dependent; the last one resolves it.    *)
LEMMA DecrementStep ==
  ASSUME TypeOK, TasksOK, NEW w \in Workers, Decrement(w)
  PROVE  TasksOK'
<1> DEFINE d == task[w]
           t == Dependents[task[w]][pos[w]]
           n == IF left[t] = 0 THEN Modulus - 1 ELSE left[t] - 1
<1> USE DEF At, Goto, Threads
<1>1. /\ d \in Tasks /\ d # Final /\ d \in done /\ pc[w] = "dec" /\ w # Main
      /\ pos[w] \in DOMAIN Dependents[d]
  BY RunnerAssumption DEF Decrement, TasksOK, WorkersOK, OneExecutes, Executing
<1>2. /\ t \in Tasks /\ d \in Deps[t] /\ pos[w] \in Nat
      /\ DOMAIN Dependents[d] = 1 .. Len(Dependents[d]) /\ Len(Dependents[d]) \in Nat
      /\ \A i \in DOMAIN Dependents[d] : Dependents[d][i] = t => i = pos[w]
  BY <1>1, DependentFacts
<1>3. /\ left' = [left EXCEPT ![t] = n] /\ pos' = [pos EXCEPT ![w] = pos[w] + 1]
      /\ pc' = [pc EXCEPT ![w] = IF n = 0 THEN "resolve" ELSE NextDependent(w, pos[w] + 1)]
      /\ UNCHANGED <<active, task, submitted, done, ready, call>>
  BY DEF Decrement, sync, history
<1> DEFINE l == pc'[w]
<1>4. /\ \A v \in Workers : v # w => pos'[v] = pos[v] /\ pc'[v] = pc[v]
      /\ pos'[w] = pos[w] + 1 /\ pc'[Main] = pc[Main]
      /\ n = 0 <=> l = "resolve"
      /\ l = "dec" => pos[w] + 1 \in DOMAIN Dependents[d]
      /\ l = "reset" => pos[w] = Len(Dependents[d])
      /\ l \in {"resolve", "dec", "reset"}
  <2>1. l = IF n = 0 THEN "resolve" ELSE NextDependent(w, pos[w] + 1)
    BY <1>1, <1>3 DEF TypeOK
  <2>2. /\ NextDependent(w, pos[w] + 1) \in {"dec", "reset"}
        /\ NextDependent(w, pos[w] + 1) = "dec" => pos[w] + 1 \in DOMAIN Dependents[d]
        /\ NextDependent(w, pos[w] + 1) = "reset" => pos[w] = Len(Dependents[d])
    BY <1>1, <1>2 DEF NextDependent
  <2>3. /\ \A v \in Workers : v # w => pos'[v] = pos[v] /\ pc'[v] = pc[v]
        /\ pos'[w] = pos[w] + 1 /\ pc'[Main] = pc[Main]
    BY <1>1, <1>3, RunnerAssumption DEF TypeOK
  <2> HIDE DEF n, l, d
  <2> QED BY <2>1, <2>2, <2>3
<1>5. Owed(d, t) /\ d \in OwedDeps(t)
  BY <1>1, <1>2 DEF Owed, OwedDeps
<1>6. ~Started(t)
  BY <1>2, <1>5 DEF TasksOK, Released
<1>7. \A v \in Workers : ~Runs(v, t)
  BY <1>1, <1>6 DEF TasksOK, OneExecutes, Runs, Started, Held, Executing
<1>8. \A u \in Tasks : OwedDeps(u)' = IF u = t THEN OwedDeps(t) \ {d} ELSE OwedDeps(u)
  <2>1. ASSUME NEW u \in Tasks, NEW e \in Deps[u], e # d
        PROVE  Owed(e, u)' <=> Owed(e, u)
    <3>1. \A v \in Workers : task[v] = e => v # w
      BY <2>1
    <3> QED BY <1>3, <1>4, <3>1 DEF Owed
  <2>2. ASSUME NEW u \in Tasks, NEW e \in Deps[u], e = d
        PROVE  Owed(e, u)' <=> Owed(e, u) /\ u # t
    <3>1. \A v \in Workers : pc[v] \in {"dec", "resolve"} /\ task[v] = d => v = w
      BY <1>1 DEF TasksOK, OneExecutes, Executing
    <3>2. Owed(e, u) <=> \E i \in DOMAIN Dependents[d] : pos[w] <= i /\ Dependents[d][i] = u
      BY <1>1, <2>2, <3>1 DEF Owed
    <3>3. Owed(e, u)' <=> \E i \in DOMAIN Dependents[d] : pos[w] + 1 <= i /\ Dependents[d][i] = u
      BY <1>1, <1>2, <1>3, <1>4, <2>2, <3>1 DEF Owed
    <3> QED BY <1>1, <1>2, <3>2, <3>3
  <2> HIDE DEF d, t
  <2>3. ASSUME NEW u \in Tasks
        PROVE  OwedDeps(u)' = IF u = t THEN OwedDeps(t) \ {d} ELSE OwedDeps(u)
    <3>1. \A e \in Deps[u] : Owed(e, u)' <=> Owed(e, u) /\ ~(e = d /\ u = t)
      BY <2>1, <2>2
    <3> QED BY <1>2, <3>1 DEF OwedDeps
  <2> QED BY <2>3
<1>9. left[t] = Cardinality(OwedDeps(t)) /\ left[t] # 0 /\ n = Cardinality(OwedDeps(t) \ {d})
  <2>1. left[t] = Cardinality(OwedDeps(t))
    BY <1>2, <1>6, <1>7 DEF TasksOK, CountExact, Started
  <2>2. OwedDeps(t) \in SUBSET Deps[t]
    BY DEF OwedDeps
  <2>3. IsFiniteSet(OwedDeps(t)) /\ Cardinality(OwedDeps(t)) \in Nat \ {0}
    BY <1>2, <1>5, <2>2, CountFacts
  <2>4. Cardinality(OwedDeps(t) \ {d}) = Cardinality(OwedDeps(t)) - 1
    BY <1>5, <2>3, FS_RemoveElement
  <2> QED BY <2>1, <2>3, <2>4
<1>10. n = 0 <=> OwedDeps(t) \ {d} = {}
  <2>1. OwedDeps(t) \ {d} \in SUBSET Deps[t]
    BY DEF OwedDeps
  <2> QED BY <1>2, <1>9, <2>1, CountFacts
<1> HIDE DEF d, t, n, l
<1>11. Dependents[d][pos[w]] = t /\ task[w] = d /\ pc'[w] = l
  BY DEF d, t, l
<1>12. /\ \A u \in Tasks : Queued(u)' <=> Queued(u)
       /\ \A u \in Tasks : Held(u)' <=> Held(u)
       /\ \A v \in Workers : v # w => (At(v, "resolve")' <=> At(v, "resolve")) /\ Visited(v)' = Visited(v)
       /\ At(w, "resolve")' => n = 0 /\ Visited(w)' = t
       /\ ~At(w, "resolve")
       /\ Claimed' <=> Claimed
  <2>1. Visited(w)' = t
    BY <1>2, <1>3, <1>4, <1>11 DEF Visited
  <2>2. \A u \in Tasks : Held(u)' <=> Held(u)
    BY <1>1, <1>3, <1>4, <1>11 DEF Held
  <2> QED BY <1>1, <1>3, <1>4, <1>11, <2>1, <2>2 DEF Queued, Visited, Claimed
<1>13. \A u \in Tasks : Resolving(u)' => Resolving(u) \/ (u = t /\ n = 0)
  BY <1>12 DEF Resolving
<1>14. WorkersOK' /\ Fresh'
  BY <1>1, <1>2, <1>3, <1>4, <1>11 DEF TasksOK, WorkersOK, Fresh, Executing
<1>15. OneExecutes'
  BY <1>1, <1>3, <1>4, <1>11 DEF TasksOK, OneExecutes, Executing
<1>16. OnePlace'
  <2>1. t \notin done /\ ~Queued(t) /\ ~Held(t) /\ ~Resolving(t) /\ (t = Final => ~Claimed)
    BY <1>6 DEF Started
  <2>2. \A u, v \in Workers : At(u, "resolve")' /\ At(v, "resolve")' /\ Visited(u)' = Visited(v)' => u = v
    BY <1>12, <2>1 DEF TasksOK, OnePlace, Resolving
  <2> QED BY <1>3, <1>4, <1>12, <1>13, <2>1, <2>2, FinalFacts DEF TasksOK, OnePlace
<1>17. Released'
  <2>1. ASSUME NEW u \in Tasks, Started(u)'
        PROVE  OwedDeps(u)' = {} /\ (u \in Roots => u \in submitted')
    <3>1. Started(u) \/ (u = t /\ n = 0)
      BY <1>3, <1>12, <1>13, <2>1 DEF Started
    <3>2. CASE Started(u)
      BY <1>3, <1>6, <1>8, <3>2 DEF TasksOK, Released
    <3>3. CASE u = t /\ n = 0
      BY <1>2, <1>8, <1>10, <3>3 DEF Roots
    <3> QED BY <3>1, <3>2, <3>3
  <2> QED BY <2>1 DEF Released
<1>18. CountExact'
  <2>1. \A u \in Tasks, v \in Workers : Runs(v, u)' <=> Runs(v, u)
    BY <1>1, <1>3, <1>4, <1>11 DEF Runs, Executing
  <2>2. left'[t] = n /\ \A u \in Tasks : u # t => left'[u] = left[u]
    BY <1>2, <1>3 DEF TypeOK
  <2>3. t \notin done'
    BY <1>3, <1>6 DEF Started
  <2> QED BY <1>2, <1>3, <1>7, <1>8, <1>9, <2>1, <2>2, <2>3 DEF TasksOK, CountExact
<1> QED BY <1>14, <1>15, <1>16, <1>17, <1>18 DEF TasksOK
--------------------------------------------------------------------------------
(* A step that leaves the loop's owed dependents as they are: a worker goes  *)
(* on from its resolved dependent u to the next one.                         *)
LEMMA ResolveMoves ==
  ASSUME TypeOK, TasksOK, NEW w \in Workers,
         At(w, "resolve"), Goto(w, NextDependent(w, pos[w])),
         UNCHANGED <<left, task, pos, submitted, done, call>>
  PROVE  /\ WorkersOK' /\ OneExecutes' /\ CountExact'
         /\ \A v \in Workers : /\ Visited(v)' = Visited(v)
                               /\ At(v, "resolve")' <=> At(v, "resolve") /\ v # w
         /\ \A u \in Tasks : /\ OwedDeps(u)' = OwedDeps(u)
                             /\ Held(u)' <=> Held(u)
                             /\ Resolving(u)' <=> Resolving(u) /\ u # Visited(w)
         /\ Visited(w) \in Tasks \ Roots /\ Resolving(Visited(w))
         /\ call # 0 /\ pc'[Main] = pc[Main]
<1> DEFINE d == task[w]
<1> USE DEF At, Goto, Threads
<1>1. /\ d \in Tasks /\ d # Final /\ d \in done /\ w # Main /\ pos[w] - 1 \in DOMAIN Dependents[d]
      /\ pos[w] \in Nat
  BY RunnerAssumption DEF TasksOK, WorkersOK, OneExecutes, Executing, TypeOK
<1>2. /\ Visited(w) \in Tasks /\ d \in Deps[Visited(w)] /\ Len(Dependents[d]) \in Nat
      /\ DOMAIN Dependents[d] = 1 .. Len(Dependents[d])
  BY <1>1, DependentFacts DEF Visited
<1>3. /\ \A v \in Workers : v # w => pc'[v] = pc[v]
      /\ pc'[Main] = pc[Main]
      /\ pc'[w] = NextDependent(w, pos[w])
  BY <1>1, RunnerAssumption DEF TypeOK
<1>4. /\ pc'[w] \in {"dec", "reset"}
      /\ pc'[w] = "dec" => pos[w] \in DOMAIN Dependents[d]
      /\ pc'[w] = "reset" => pos[w] > Len(Dependents[d])
  BY <1>1, <1>2, <1>3 DEF NextDependent
<1>5. \A v \in Workers : /\ Visited(v)' = Visited(v)
                         /\ At(v, "resolve")' <=> At(v, "resolve") /\ v # w
  BY <1>3, <1>4 DEF Visited
<1>6. \A u \in Tasks : OwedDeps(u)' = OwedDeps(u)
  <2>1. ASSUME NEW v \in Workers, NEW e \in Tasks
        PROVE  (/\ pc[v] \in {"dec", "resolve"} /\ task[v] = e
                /\ \E i \in DOMAIN Dependents[e] : pos[v] <= i)
               <=> (/\ pc'[v] \in {"dec", "resolve"} /\ task'[v] = e
                    /\ \E i \in DOMAIN Dependents[e] : pos'[v] <= i)
    BY <1>1, <1>2, <1>3, <1>4
  <2>2. ASSUME NEW u \in Tasks, NEW e \in Deps[u]
        PROVE  Owed(e, u)' <=> Owed(e, u)
    <3>1. e \in Tasks
      BY GraphAssumption DEF IsGraph
    <3> QED BY <2>1, <3>1 DEF Owed
  <2> QED BY <2>2 DEF OwedDeps
<1>7. \A u \in Tasks : /\ Held(u)' <=> Held(u)
                       /\ Resolving(u)' <=> Resolving(u) /\ u # Visited(w)
  BY <1>3, <1>4, <1>5 DEF Held, Resolving, TasksOK, OnePlace
<1>8. WorkersOK' /\ OneExecutes'
  BY <1>1, <1>3, <1>4 DEF TasksOK, WorkersOK, OneExecutes, Executing
<1>9. CountExact'
  <2>1. \A u \in Tasks, v \in Workers : Runs(v, u)' <=> Runs(v, u)
    BY <1>1, <1>3, <1>4 DEF Runs, Executing
  <2> QED BY <1>6, <2>1 DEF TasksOK, CountExact
<1>10. call # 0
  BY DEF TasksOK, Fresh, Executing
<1> QED BY <1>2, <1>3, <1>5, <1>6, <1>7, <1>8, <1>9, <1>10 DEF Roots, Resolving

(* The final task is ready: the semaphore is released, once.                *)
LEMMA ResolveFinalStep ==
  ASSUME TypeOK, TasksOK, NEW w \in Workers, ResolveFinal(w)
  PROVE  TasksOK'
<1> USE DEF At
<1>1. /\ At(w, "resolve") /\ Goto(w, NextDependent(w, pos[w])) /\ IsFinal(Visited(w))
      /\ UNCHANGED <<active, left, task, pos, submitted, done, call>> /\ ready' = ready + 1
  BY DEF ResolveFinal, locals, history
<1>2. Visited(w) = Final /\ Resolving(Final)
  BY <1>1, ResolveMoves, FinalFacts
<1>3. ~Claimed /\ ready = 0 /\ pc[Main] # "final" /\ Final \notin done
  BY <1>2, FinalFacts DEF TasksOK, OnePlace, Claimed
<1>4. Claimed' /\ ready' = 1 /\ pc'[Main] # "final"
  BY <1>1, <1>3, ResolveMoves DEF Claimed
<1>5. \A u \in Tasks : Queued(u)' <=> Queued(u)
  BY <1>1 DEF Queued
<1>6. OnePlace'
  BY <1>1, <1>2, <1>3, <1>4, <1>5, ResolveMoves, FinalFacts DEF TasksOK, OnePlace
<1>7. Released'
  BY <1>1, <1>2, <1>5, ResolveMoves DEF TasksOK, Released, Started
<1>8. Fresh'
  BY <1>1, ResolveMoves DEF Fresh
<1> QED BY <1>1, <1>6, <1>7, <1>8, ResolveMoves DEF TasksOK

(* A resolved task is put on the list. *)
LEMMA ResolveTaskStep ==
  ASSUME TypeOK, TasksOK, NEW w \in Workers, ResolveTask(w)
  PROVE  TasksOK'
<1> DEFINE t == Visited(w)
<1> USE DEF At
<1>1. /\ At(w, "resolve") /\ Goto(w, NextDependent(w, pos[w])) /\ ~IsFinal(t)
      /\ UNCHANGED <<left, task, pos, submitted, done, ready, call>> /\ active' = <<t>> \o active
  BY DEF ResolveTask, sync, history
<1>2. t \in Tasks \ Roots /\ Resolving(t) /\ t # Final
  BY <1>1, ResolveMoves, FinalFacts
<1>3. t \notin done /\ ~Queued(t) /\ ~Held(t)
  BY <1>2 DEF TasksOK, OnePlace
<1>4. Claimed' <=> Claimed
  BY <1>1, ResolveMoves DEF Claimed
<1>5. /\ Len(active) \in Nat /\ DOMAIN active = 1 .. Len(active)
      /\ DOMAIN active' = 1 .. Len(active) + 1
      /\ active'[1] = t /\ \A i \in DOMAIN active' : i # 1 => i - 1 \in DOMAIN active /\ active'[i] = active[i - 1]
  BY <1>1 DEF TypeOK
<1>6. \A u \in Tasks : Queued(u)' => Queued(u) \/ u = t
  BY <1>5 DEF Queued
<1>7. OnePlace'
  <2>1. \A i, j \in DOMAIN active' : active'[i] = active'[j] => i = j
    <3>1. \A i \in DOMAIN active' : i # 1 => active'[i] # t
      BY <1>3, <1>5 DEF Queued
    <3> QED BY <1>5, <3>1 DEF TasksOK, OnePlace
  <2> HIDE DEF t
  <2> QED BY <1>1, <1>2, <1>3, <1>4, <1>6, <2>1, ResolveMoves, FinalFacts
             DEF TasksOK, OnePlace, t
<1>8. Released'
  BY <1>1, <1>2, <1>4, <1>6, ResolveMoves DEF TasksOK, Released, Started
<1>9. Fresh'
  BY <1>1, ResolveMoves DEF Fresh
<1> QED BY <1>1, <1>7, <1>8, <1>9, ResolveMoves DEF TasksOK
--------------------------------------------------------------------------------
(* A worker leaves Task::execute, and the count is that of the next round.   *)
LEMMA ResetStep ==
  ASSUME TypeOK, TasksOK, NEW w \in Workers, ResetCount(w)
  PROVE  TasksOK'
<1> DEFINE t == task[w]
<1> USE DEF At, Goto, Threads
<1>1. /\ t \in Tasks /\ w # Main /\ pc[w] = "reset"
      /\ t \in done \/ (done = {} /\ Workers = {w})
      /\ UNCHANGED <<active, task, pos, submitted, done, ready, call>>
      /\ left' = [left EXCEPT ![t] = NumDeps(t)]
  BY RunnerAssumption DEF ResetCount, TasksOK, WorkersOK, OneExecutes, Executing, locals, sync, history
<1>2. /\ \A v \in Workers : v # w => pc'[v] = pc[v]
      /\ pc'[Main] = pc[Main] /\ pc'[w] \in {"bump", "top"}
  BY <1>1, RunnerAssumption DEF ResetCount, TypeOK
<1>3. \A u \in Tasks : /\ Queued(u)' <=> Queued(u)
                       /\ Held(u)' <=> Held(u)
                       /\ Resolving(u)' <=> Resolving(u)
  BY <1>1, <1>2 DEF Queued, Held, Resolving, Visited
<1>4. Claimed' <=> Claimed
  BY <1>1, <1>2 DEF Claimed
<1>5. \A u \in Tasks : OwedDeps(u)' = OwedDeps(u)
  BY <1>1, <1>2 DEF OwedDeps, Owed
<1>6. WorkersOK' /\ Fresh' /\ OneExecutes'
  BY <1>1, <1>2 DEF TasksOK, WorkersOK, Fresh, OneExecutes, Executing
<1>7. OnePlace'
  BY <1>1, <1>2, <1>3, <1>4, FinalFacts DEF TasksOK, OnePlace, Visited
<1>8. Released'
  BY <1>1, <1>3, <1>4, <1>5 DEF TasksOK, Released, Started
<1>9. CountExact'
  <2>1. \A u \in Tasks, v \in Workers : Runs(v, u)' <=> Runs(v, u) /\ v # w
    BY <1>1, <1>2 DEF Runs, Executing
  <2>2. \A v \in Workers : v # w => ~Runs(v, t)
    BY <1>1 DEF TasksOK, OneExecutes, Runs, Executing
  <2>3. t \notin done => OwedDeps(t) = Deps[t]
    BY <1>1 DEF OwedDeps, Owed
  <2>4. left'[t] = NumDeps(t) /\ \A u \in Tasks : u # t => left'[u] = left[u]
    BY <1>1 DEF TypeOK
  <2>5. \A u \in Tasks : u # t => ~Runs(w, u)
    BY DEF Runs
  <2> HIDE DEF t
  <2> QED BY <1>1, <1>5, <2>1, <2>2, <2>3, <2>4, <2>5 DEF TasksOK, CountExact, NumDeps
<1> QED BY <1>6, <1>7, <1>8, <1>9 DEF TasksOK

(***************************************************************************)
(* Once the final task is ready everything else has run: the tasks whose   *)
(* dependencies are all done form a set closed under dependencies.         *)
(***************************************************************************)
LEMMA AllDone ==
  ASSUME TypeOK, TasksOK, Final \in done \/ Claimed
  PROVE  done \cup {Final} = Tasks /\ done # {}
<1> DEFINE S == done \cup {Final}
<1>1. S \in SUBSET Tasks
  BY FinalFacts DEF TypeOK
<1>2. ASSUME NEW t \in S PROVE Deps[t] \subseteq done
  <2>1. Started(t)
    BY <1>2 DEF Started
  <2>2. OwedDeps(t) = {}
    BY <1>1, <2>1 DEF TasksOK, Released
  <2> QED BY <2>2 DEF OwedDeps, Owed
<1>3. S = Tasks
  BY <1>1, <1>2, FinalFacts DEF AllFeed
<1>4. done # {}
  BY <1>2, FinalFacts DEF Roots
<1> QED BY <1>3, <1>4

(* When the round is over no worker is left inside, but for a single one    *)
(* that has only its count to reset.                                        *)
LEMMA RoundOver ==
  ASSUME TypeOK, TasksOK, Final \in done
  PROVE  /\ active = <<>> /\ ~Claimed
         /\ \A t \in Tasks : ~Queued(t) /\ ~Held(t) /\ ~Resolving(t)
         /\ \A w \in Workers : pc[w] \in Executing => At(w, "reset")
<1>1. done = Tasks
  BY AllDone, FinalFacts
<1>2. \A t \in Tasks : ~Queued(t) /\ ~Held(t) /\ ~Resolving(t)
  <2>1. \A t \in Tasks : ~Held(t)
    BY <1>1 DEF Held, TasksOK, OneExecutes
  <2> QED BY <1>1, <2>1 DEF TasksOK, OnePlace
<1>3. active = <<>>
  BY <1>2 DEF Queued, TypeOK
<1>4. ~Claimed
  BY FinalFacts DEF TasksOK, OnePlace
<1>5. ASSUME NEW w \in Workers, pc[w] \in Executing PROVE At(w, "reset")
  <2>1. task[w] \in Tasks
    BY <1>5 DEF TasksOK, WorkersOK
  <2>2. ~At(w, "call")
    BY <1>2, <2>1 DEF Held
  <2>3. ~At(w, "resolve")
    <3>1. At(w, "resolve") => Visited(w) \in Tasks
      BY <2>1, DependentFacts DEF TasksOK, WorkersOK, Visited
    <3> QED BY <1>2, <3>1 DEF Resolving
  <2>4. ~At(w, "dec")
    <3> SUFFICES ASSUME At(w, "dec") PROVE FALSE
      OBVIOUS
    <3> DEFINE t == Dependents[task[w]][pos[w]]
    <3>1. pos[w] \in DOMAIN Dependents[task[w]] /\ pos[w] <= pos[w]
      BY DEF TasksOK, WorkersOK, TypeOK, Threads
    <3>2. t \in Tasks /\ task[w] \in Deps[t]
      BY <2>1, <3>1, DependentFacts
    <3>3. task[w] \in OwedDeps(t)
      BY <3>1, <3>2 DEF OwedDeps, Owed, At
    <3>4. Started(t)
      BY <1>1, <3>2 DEF Started
    <3> QED BY <3>2, <3>3, <3>4 DEF TasksOK, Released
  <2> QED BY <1>5, <2>2, <2>3, <2>4 DEF Executing, At
<1> QED BY <1>2, <1>3, <1>4, <1>5

(* run() begins: the first call of a round finds the last round over.       *)
LEMMA StartStep ==
  ASSUME TypeOK, CallerOK, TasksOK, StartRun
  PROVE  TasksOK'
<1> USE DEF At, Goto, Threads
<1>1. /\ pc[Main] = "idle" /\ Main \notin Workers /\ pc'[Main] # "final" /\ call' = NextCall
      /\ NextCall # 0
      /\ \A w \in Workers : pc'[w] = pc[w] /\ pos'[w] = pos[w]
      /\ UNCHANGED <<active, left, task, ready>>
  BY RunnerAssumption, CallFacts DEF StartRun, NextInBatch, NextCall, TypeOK
<1>2. CASE NextCall # 1
  <2>1. submitted' = submitted /\ done' = done
    BY <1>2 DEF StartRun
  <2> QED BY <1>1, <2>1, QuietStep
<1>3. CASE NextCall = 1
  <2>1. submitted' = {} /\ done' = {}
    BY <1>3 DEF StartRun
  <2>2. /\ active = <<>> /\ ready = 0
        /\ \A w \in Workers : pc[w] \in Executing => pc[w] = "reset" /\ Workers = {w}
        /\ \A t \in Tasks : left[t] = IF \E w \in Workers : Runs(w, t) THEN 0 ELSE NumDeps(t)
    <3>1. CASE call = 0
      <4>1. active = <<>> /\ done = {} /\ \A w \in Workers : pc[w] \notin Executing
        BY <3>1 DEF TasksOK, Fresh
      <4>2. \A t \in Tasks : OwedDeps(t) = Deps[t]
        BY <4>1 DEF OwedDeps, Owed
      <4>3. \A t \in Tasks, w \in Workers : ~Runs(w, t)
        BY <4>1 DEF Runs
      <4>4. \A t \in Tasks : left[t] = NumDeps(t)
        BY <4>1, <4>2, <4>3 DEF TasksOK, CountExact, NumDeps
      <4>5. ready = 0
        BY <4>1, AllDone DEF Claimed
      <4> QED BY <4>1, <4>3, <4>4, <4>5
    <3>2. CASE call = Len(Calls)
      <4>1. Final \in done /\ done = Tasks
        BY <1>1, <3>2, AllDone, FinalFacts DEF CallerOK
      <4>2. active = <<>> /\ ready = 0 /\ \A w \in Workers : pc[w] \in Executing => pc[w] = "reset"
        BY <4>1, RoundOver DEF Claimed
      <4>3. \A w \in Workers : pc[w] \in Executing => Workers = {w}
        BY <1>3, UseAssumption DEF StartRun, RoundSettled
      <4>4. \A t \in Tasks : left[t] = IF \E w \in Workers : Runs(w, t) THEN 0 ELSE NumDeps(t)
        BY <4>1 DEF TasksOK, CountExact
      <4> QED BY <4>2, <4>3, <4>4
    <3> QED BY <1>3, <3>1, <3>2, CallFacts DEF NextCall, TypeOK
  <2>3. \A t \in Tasks : ~Queued(t)' /\ ~Held(t)' /\ ~Resolving(t)'
    BY <1>1, <2>2 DEF Queued, Held, Resolving, Executing
  <2>4. ~Claimed'
    BY <1>1, <2>2 DEF Claimed
  <2>5. WorkersOK' /\ Fresh'
    BY <1>1, <2>2 DEF TasksOK, WorkersOK, Fresh, Executing
  <2>6. OneExecutes'
    BY <1>1, <2>1, <2>2 DEF TasksOK, OneExecutes, Executing
  <2>7. OnePlace'
    BY <1>1, <2>2, <2>3, <2>4 DEF OnePlace, Executing
  <2>8. Released'
    BY <2>1, <2>3, <2>4 DEF Released, Started
  <2>9. CountExact'
    <3>1. \A t \in Tasks : OwedDeps(t)' = Deps[t]
      BY <2>1 DEF OwedDeps, Owed
    <3>2. \A t \in Tasks, w \in Workers : Runs(w, t)' <=> Runs(w, t)
      BY <1>1 DEF Runs
    <3> QED BY <1>1, <2>1, <2>2, <3>1, <3>2 DEF CountExact, NumDeps
  <2> QED BY <2>5, <2>6, <2>7, <2>8, <2>9 DEF TasksOK
<1> QED BY <1>2, <1>3

(* run() visits an entry of its vector: a root is pushed once in a round.   *)
LEMMA VisitStep ==
  ASSUME TypeOK, CallerOK, TasksOK, Visit
  PROVE  TasksOK'
<1> DEFINE t == Batch[pos[Main]]
           s == <<call, pos[Main]>>
<1> USE DEF At, Goto, Threads
<1>1. /\ pc[Main] = "visit" /\ Main \notin Workers /\ pc'[Main] # "final"
      /\ call # 0 /\ call' = call
      /\ \A w \in Workers : pc'[w] = pc[w] /\ pos'[w] = pos[w]
      /\ UNCHANGED <<left, task, done, ready>>
  BY RunnerAssumption DEF Visit, NextInBatch, TypeOK, CallerOK
<1>2. /\ active' = IF t \in Roots THEN <<t>> \o active ELSE active
      /\ submitted' = IF t \in Roots THEN submitted \cup {t} ELSE submitted
  BY DEF Visit
<1>3. CASE t \notin Roots
  BY <1>1, <1>2, <1>3, QuietStep
<1>4. CASE t \in Roots
  <2>1. s \in Slots /\ Named(s) = t /\ ~Passed(s)
    <3>1. call \in DOMAIN Calls /\ pos[Main] \in DOMAIN Calls[call] /\ pos[Main] \in Nat
      BY <1>1, CallFacts DEF CallerOK, TypeOK, Batch
    <3> QED BY <1>1, <3>1, CallFacts DEF Batch, Passed
  <2>2. t \notin submitted
    BY <2>1, UseAssumption DEF CallerOK
  <2>3. t \in Tasks /\ t # Final /\ ~Started(t)
    BY <1>4, <2>2, FinalFacts DEF TasksOK, Released, Roots
  <2> HIDE DEF t
  <2>4. /\ Len(active) \in Nat /\ DOMAIN active = 1 .. Len(active)
        /\ DOMAIN active' = 1 .. Len(active) + 1 /\ active'[1] = t
        /\ \A i \in DOMAIN active' : i # 1 => i - 1 \in DOMAIN active /\ active'[i] = active[i - 1]
    BY <1>2, <1>4, <2>3 DEF TypeOK
  <2>5. \A u \in Tasks : /\ Queued(u)' => Queued(u) \/ u = t
                         /\ Held(u)' <=> Held(u)
                         /\ Resolving(u)' <=> Resolving(u)
    BY <1>1, <2>4 DEF Queued, Held, Resolving, Visited
  <2>6. Claimed' <=> Claimed
    BY <1>1 DEF Claimed
  <2>7. WorkersOK' /\ Fresh' /\ OneExecutes'
    BY <1>1 DEF TasksOK, WorkersOK, Fresh, OneExecutes, Executing
  <2>8. OnePlace'
    <3>1. \A i, j \in DOMAIN active' : active'[i] = active'[j] => i = j
      <4>1. \A i \in DOMAIN active' : i # 1 => active'[i] # t
        BY <2>3, <2>4 DEF Started, Queued
      <4> QED BY <2>4, <4>1 DEF TasksOK, OnePlace
    <3> QED BY <1>1, <2>3, <2>5, <2>6, <3>1, FinalFacts DEF TasksOK, OnePlace, Started, Visited
  <2>9. \A u \in Tasks : OwedDeps(u)' = OwedDeps(u)
    BY <1>1 DEF OwedDeps, Owed
  <2>10. Released'
    BY <1>1, <1>2, <1>4, <2>5, <2>6, <2>9 DEF TasksOK, Released, Started, OwedDeps, Roots
  <2>11. CountExact'
    <3>1. \A u \in Tasks, w \in Workers : Runs(w, u)' <=> Runs(w, u)
      BY <1>1 DEF Runs
    <3> QED BY <1>1, <2>9, <3>1 DEF TasksOK, CountExact
  <2> QED BY <2>7, <2>8, <2>10, <2>11 DEF TasksOK
<1> QED BY <1>3, <1>4
--------------------------------------------------------------------------------
(* The caller takes the semaphore. *)
LEMMA AcquireStep ==
  ASSUME TypeOK, CallerOK, TasksOK, Acquire
  PROVE  TasksOK'
<1> USE DEF At, Goto, Threads
<1>1. /\ pc[Main] = "acquire" /\ pc'[Main] = "final" /\ Main \notin Workers
      /\ ready = 1 /\ ready' = 0
      /\ \A w \in Workers : pc'[w] = pc[w]
      /\ UNCHANGED <<active, left, task, pos, submitted, done, call>>
  BY RunnerAssumption DEF Acquire, TypeOK, locals, history, TasksOK, OnePlace
<1>2. \A t \in Tasks : /\ Queued(t)' <=> Queued(t)
                       /\ Held(t)' <=> Held(t)
                       /\ Resolving(t)' <=> Resolving(t)
                       /\ OwedDeps(t)' = OwedDeps(t)
  BY <1>1 DEF Queued, Held, Resolving, Visited, OwedDeps, Owed
<1>3. Claimed' /\ Claimed
  BY <1>1 DEF Claimed
<1>4. WorkersOK' /\ Fresh' /\ OneExecutes'
  BY <1>1 DEF TasksOK, WorkersOK, Fresh, OneExecutes, Executing
<1>5. OnePlace'
  BY <1>1, <1>2, <1>3, FinalFacts DEF TasksOK, OnePlace, Visited
<1>6. Released'
  BY <1>1, <1>2, <1>3 DEF TasksOK, Released, Started
<1>7. CountExact'
  <2>1. \A t \in Tasks, w \in Workers : Runs(w, t)' <=> Runs(w, t)
    BY <1>1 DEF Runs
  <2> QED BY <1>1, <1>2, <2>1 DEF TasksOK, CountExact
<1> QED BY <1>4, <1>5, <1>6, <1>7 DEF TasksOK

(* The caller runs the final task, which ends the round. *)
LEMMA RunFinalStep ==
  ASSUME TypeOK, CallerOK, TasksOK, RunFinal
  PROVE  TasksOK'
<1> USE DEF At, Goto, Threads
<1>1. finalTask = Final /\ Final \notin done
  <2>1. pc[Main] = "final" /\ call = Len(Calls) /\ ~stop
    BY DEF RunFinal, CallerOK
  <2> QED BY <2>1, FinalTaskSet
<1>2. /\ pc[Main] = "final" /\ pc'[Main] = "idle" /\ Main \notin Workers
      /\ \A w \in Workers : pc'[w] = pc[w]
      /\ UNCHANGED <<active, task, pos, submitted, ready, call>>
      /\ done' = done \cup {Final}
      /\ left' = [left EXCEPT ![Final] = NumDeps(Final)]
  BY <1>1, RunnerAssumption DEF RunFinal, TypeOK, locals
<1>3. Claimed /\ done \cup {Final} = Tasks /\ done # {}
  <2>1. Claimed
    BY <1>2 DEF Claimed
  <2> QED BY <2>1, AllDone
<1>4. ready = 0 /\ ~Resolving(Final) /\ ~Held(Final) /\ ~Queued(Final)
  BY <1>2, <1>3, FinalFacts DEF TasksOK, OnePlace, WorkersOK, Held, Executing
<1>5. ~Claimed'
  BY <1>2, <1>4 DEF Claimed
<1>6. \A t \in Tasks : /\ Queued(t)' <=> Queued(t)
                       /\ Held(t)' <=> Held(t)
                       /\ Resolving(t)' <=> Resolving(t)
  BY <1>2 DEF Queued, Held, Resolving, Visited
<1>7. \A t \in Tasks : OwedDeps(t)' \subseteq OwedDeps(t) /\ (t # Final => OwedDeps(t)' = OwedDeps(t))
  <2>1. \A t \in Tasks : Final \notin Deps[t]
    <3>1. Dependents[Final] = <<>>
      BY FinalFacts DEF IsFinal
    <3> QED BY <3>1, FinalFacts, DependentFacts
  <2> QED BY <1>2, <2>1 DEF OwedDeps, Owed
<1>8. WorkersOK' /\ Fresh'
  BY <1>2, <1>3 DEF TasksOK, WorkersOK, Fresh, Executing
<1>9. OneExecutes'
  BY <1>2, <1>3 DEF TasksOK, OneExecutes, WorkersOK, Executing
<1>10. OnePlace'
  BY <1>2, <1>4, <1>5, <1>6, FinalFacts DEF TasksOK, OnePlace, Visited
<1>11. Released'
  <2>1. ASSUME NEW t \in Tasks, Started(t)' PROVE Started(t)
    BY <1>2, <1>3, <1>5, <1>6, <2>1 DEF Started
  <2> QED BY <1>2, <1>7, <2>1 DEF TasksOK, Released
<1>12. CountExact'
  <2>1. \A t \in Tasks, w \in Workers : Runs(w, t)' <=> Runs(w, t)
    BY <1>2 DEF Runs
  <2>2. \A w \in Workers : ~Runs(w, Final)
    BY DEF Runs, TasksOK, WorkersOK
  <2>3. left'[Final] = NumDeps(Final) /\ \A t \in Tasks : t # Final => left'[t] = left[t]
    BY <1>2, FinalFacts DEF TypeOK
  <2> QED BY <1>2, <1>7, <2>1, <2>2, <2>3, FinalFacts DEF TasksOK, CountExact
<1> QED BY <1>8, <1>9, <1>10, <1>11, <1>12 DEF TasksOK
--------------------------------------------------------------------------------
(* The steps of a worker outside Task::execute. *)
LEMMA WorkerQuiet ==
  ASSUME TypeOK, TasksOK, NEW w \in Workers,
         \/ Bump(w) \/ NotifyAll(w) \/ CheckStop(w) \/ LoadEpoch(w) \/ PopNothing(w)
         \/ CheckEpoch(w) \/ Park(w) \/ SpuriousWakeup(w)
  PROVE  TasksOK'
<1> USE DEF At, Goto, Threads
<1>1. w # Main /\ pc[Main] # "parked" /\ Main \in Threads
  BY RunnerAssumption DEF TypeOK, MainLabels
<1>2. UNCHANGED <<active, left, task, pos, submitted, done, ready, call>>
  BY DEF Bump, NotifyAll, CheckStop, LoadEpoch, PopNothing, CheckEpoch, Park, SpuriousWakeup,
         locals, sync, history
<1>3. pc[w] \in Quiet
  BY DEF Bump, NotifyAll, CheckStop, LoadEpoch, PopNothing, CheckEpoch, Park, SpuriousWakeup,
         Quiet, Labels, Executing
<1>4. \/ NotifyAll(w)
      \/ \E l \in Quiet : pc' = [pc EXCEPT ![w] = l]
  BY DEF Bump, CheckStop, LoadEpoch, PopNothing, CheckEpoch, Park, SpuriousWakeup,
         Quiet, Labels, Executing
<1>5. pc'[Main] = pc[Main]
  BY <1>1, <1>4 DEF NotifyAll, TypeOK
<1>6. \A v \in Workers : pc'[v] = pc[v] \/ (pc[v] \in Quiet /\ pc'[v] \in Quiet)
  BY <1>1, <1>3, <1>4 DEF NotifyAll, AfterNotify, TypeOK, Quiet, Labels, Executing
<1> QED BY <1>2, <1>5, <1>6, QuietStep

(* The steps of the caller that touch no task. *)
LEMMA CallerQuiet ==
  ASSUME TypeOK, TasksOK,
         \/ Bump(Main) \/ NotifyAll(Main) \/ Stop \/ SleepOver \/ Join \/ Gone
  PROVE  TasksOK'
<1> USE DEF At, Goto, Threads
<1>1. UNCHANGED <<active, left, task, pos, submitted, done, ready, call>>
  BY DEF Bump, NotifyAll, Stop, SleepOver, Join, Gone, vars, locals, sync, history
<1>2. pc[Main] # "final" /\ pc'[Main] # "final"
  BY DEF Bump, NotifyAll, AfterNotify, Stop, SleepOver, Join, Gone, vars, TypeOK
<1>3. \A v \in Workers : pc'[v] = pc[v] \/ (pc[v] = "parked" /\ pc'[v] = "lock")
  BY RunnerAssumption DEF Bump, NotifyAll, Stop, SleepOver, Join, Gone, vars, TypeOK
<1>4. {"parked", "lock"} \subseteq Quiet
  BY DEF Quiet, Labels, Executing
<1> QED BY <1>1, <1>2, <1>3, <1>4, QuietStep

(* IInv is inductive. *)
LEMMA NextInv ==
  ASSUME IInv, [Next]_vars
  PROVE  IInv'
<1>1. CASE UNCHANGED vars
  <2>1. TypeOK'
    BY <1>1 DEF IInv, TypeOK, vars
  <2>2. CallerOK'
    BY <1>1, CallerUnmoved DEF IInv, vars
  <2>3. TasksOK'
    BY <1>1, QuietStep DEF IInv, vars, At
  <2> QED BY <2>1, <2>2, <2>3 DEF IInv
<1>2. CASE Next
  <2>1. TypeOK' /\ CallerOK'
    BY <1>2, TypeStep, CallerStep DEF IInv, TasksOK
  <2>2. ASSUME NEW w \in Workers, WorkerStep(w) \/ SpuriousWakeup(w)
        PROVE  TasksOK'
    BY <2>2, WorkerQuiet, PopStep, CallbackStep, DecrementStep, ResolveFinalStep,
       ResolveTaskStep, ResetStep DEF WorkerStep, IInv
  <2>3. ASSUME MainStep \/ StartRun \/ Stop \/ Gone
        PROVE  TasksOK'
    BY <2>3, CallerQuiet, StartStep, VisitStep, AcquireStep, RunFinalStep DEF MainStep, IInv
  <2> QED BY <1>2, <2>1, <2>2, <2>3 DEF Next, IInv
<1> QED BY <1>1, <1>2

(***************************************************************************)
(* The inductive invariant of TaskRunner used as TaskRunnerUse says.       *)
(***************************************************************************)
THEOREM InductiveInvariant == Spec => []IInv
<1>1. Init => IInv
  BY InitInv
<1>2. IInv /\ [Next]_vars => IInv'
  BY NextInv
<1> QED BY <1>1, <1>2, PTL DEF Spec

(***************************************************************************)
(* The variables keep their types: the indices into dependents_ and into   *)
(* the vector of run() stay in bounds, and dependenciesLeft_ never wraps   *)
(* further than its width.                                                 *)
(***************************************************************************)
THEOREM TypeCorrect == Spec => []TypeOK
<1>1. IInv => TypeOK
  BY DEF IInv
<1> QED BY <1>1, InductiveInvariant, PTL

(***************************************************************************)
(* A task runs once in a round, on one thread, after its dependencies, on  *)
(* any graph and with any number of workers.                               *)
(***************************************************************************)
THEOREM OrderCorrect == Spec => []InOrder
<1>1. IInv => InOrder
  <2> SUFFICES ASSUME IInv PROVE InOrder
    OBVIOUS
  <2>1. ASSUME NEW w \in Workers, At(w, "call")
        PROVE  /\ task[w] \notin done /\ Deps[task[w]] \subseteq done
               /\ \A v \in Workers \ {w} : ~Runs(v, task[w])
    <3>1. task[w] \in Tasks /\ task[w] \notin done
      BY <2>1 DEF IInv, TasksOK, WorkersOK, OneExecutes, At, Executing
    <3>2. Started(task[w])
      BY <2>1 DEF Started, Held
    <3>3. OwedDeps(task[w]) = {}
      BY <3>1, <3>2 DEF IInv, TasksOK, Released
    <3>4. \A v \in Workers \ {w} : ~Runs(v, task[w])
      BY <2>1 DEF Runs, IInv, TasksOK, OneExecutes, At, Executing
    <3> QED BY <3>1, <3>3, <3>4 DEF OwedDeps, Owed
  <2>2. ASSUME At(Main, "final")
        PROVE  finalTask \in Tasks \ done /\ Deps[finalTask] \subseteq done
    <3>1. finalTask = Final /\ Final \notin done
      BY <2>2, FinalTaskSet DEF IInv, CallerOK, At
    <3>2. Claimed
      BY <2>2 DEF Claimed
    <3>3. done \cup {Final} = Tasks
      BY <3>2, AllDone DEF IInv
    <3>4. OwedDeps(Final) = {}
      BY <3>2, FinalFacts DEF IInv, TasksOK, Released, Started
    <3> QED BY <3>1, <3>4, FinalFacts DEF OwedDeps, Owed
  <2> QED BY <2>1, <2>2 DEF InOrder
<1> QED BY <1>1, InductiveInvariant, PTL

(***************************************************************************)
(* dependenciesLeft_ always counts what its comment says.                  *)
(***************************************************************************)
THEOREM CountCorrect == Spec => []CountExact
<1>1. IInv => CountExact
  BY DEF IInv, TasksOK
<1> QED BY <1>1, InductiveInvariant, PTL

(***************************************************************************)
(* No task is on activeTasks_ twice, and only ready tasks are.             *)
(***************************************************************************)
THEOREM QueueCorrect == Spec => []QueuedOnce
<1>1. IInv => QueuedOnce
  <2> SUFFICES ASSUME IInv PROVE QueuedOnce
    OBVIOUS
  <2>1. ASSUME NEW i \in DOMAIN active
        PROVE  active[i] \notin done /\ Deps[active[i]] \subseteq done
    <3>1. active[i] \in Tasks /\ Queued(active[i])
      BY DEF IInv, TypeOK, Queued
    <3>2. active[i] \notin done
      BY <3>1 DEF IInv, TasksOK, OnePlace
    <3>3. OwedDeps(active[i]) = {}
      BY <3>1 DEF IInv, TasksOK, Released, Started
    <3> QED BY <3>2, <3>3 DEF OwedDeps, Owed
  <2> QED BY <2>1 DEF QueuedOnce, IInv, TasksOK, OnePlace
<1> QED BY <1>1, InductiveInvariant, PTL

(***************************************************************************)
(* The semaphore is released once per round, when all other tasks have run.*)
(***************************************************************************)
THEOREM RoundCorrect == Spec => []RoundComplete
<1>1. IInv => RoundComplete
  <2> SUFFICES ASSUME IInv PROVE RoundComplete
    OBVIOUS
  <2>1. ready <= 1
    BY DEF IInv, TasksOK, OnePlace
  <2>2. ASSUME ready = 1 \/ At(Main, "final")
        PROVE  /\ active = <<>> /\ done = Tasks \ {Final}
               /\ \A w \in Workers : ~At(w, "call")
    <3>1. Claimed
      BY <2>2 DEF Claimed
    <3>2. done \cup {Final} = Tasks /\ Final \notin done
      BY <3>1, AllDone, FinalFacts DEF IInv, TasksOK, OnePlace
    <3>3. active = <<>>
      <4> SUFFICES ASSUME active # <<>> PROVE FALSE
        OBVIOUS
      <4>1. 1 \in DOMAIN active /\ active[1] \in Tasks
        BY DEF IInv, TypeOK
      <4>2. active[1] \notin done /\ active[1] # Final
        BY <4>1 DEF IInv, TasksOK, OnePlace, Queued
      <4> QED BY <3>2, <4>1, <4>2
    <3>4. \A w \in Workers : ~At(w, "call")
      BY <3>2 DEF IInv, TasksOK, OneExecutes, WorkersOK, At, Executing
    <3> QED BY <3>2, <3>3, <3>4
  <2> QED BY <2>1, <2>2 DEF RoundComplete
<1> QED BY <1>1, InductiveInvariant, PTL
--------------------------------------------------------------------------------
(***************************************************************************)
(* The epoch protocol loses no work, on any graph and scheduler: a worker  *)
(* that has not found the list empty at the current epoch is going to look *)
(* at it again, and run() increments the epoch after its last push.        *)
(***************************************************************************)
THEOREM WorkKept == Spec => []NoLostWork
<1> USE DEF At, Goto, Threads
<1>1. Init => NoLostWork
  BY DEF Init, NoLostWork
<1>2. ASSUME IInv, NoLostWork, [Next]_vars PROVE NoLostWork'
  <2>1. TypeOK /\ CallerOK
    BY <1>2 DEF IInv
  <2>2. CASE UNCHANGED vars
    BY <1>2, <2>2 DEF NoLostWork, FoundEmpty, vars
  <2>3. ASSUME NEW w \in Workers,
               \/ CheckStop(w) \/ LoadEpoch(w) \/ PopTask(w) \/ Callback(w) \/ Decrement(w)
               \/ ResolveFinal(w) \/ ResolveTask(w) \/ ResetCount(w) \/ Bump(w) \/ NotifyAll(w)
        PROVE  NoLostWork'
    <3>1. w # Main /\ w \in Threads
      BY RunnerAssumption
    <3>2. pc'[w] \notin {"lock", "park", "parked"}
      BY <2>1, <2>3, <3>1 DEF CheckStop, LoadEpoch, PopTask, Callback, Decrement, ResolveFinal,
         ResolveTask, ResetCount, Bump, NotifyAll, AfterNotify, NextDependent, TypeOK
    <3> QED BY <3>2 DEF NoLostWork, FoundEmpty
  <2>4. ASSUME NEW w \in Workers, PopNothing(w) PROVE NoLostWork'
    BY <2>4 DEF PopNothing, NoLostWork
  <2>5. ASSUME NEW w \in Workers, CheckEpoch(w) \/ Park(w) \/ SpuriousWakeup(w)
        PROVE  NoLostWork'
    <3>1. w # Main /\ pc[w] \in {"lock", "park", "parked"} /\ UNCHANGED <<active, seen, stop>>
      BY <2>5, RunnerAssumption DEF CheckEpoch, Park, SpuriousWakeup, sync
    <3>2. pc'[w] = "top" \/ pc'[w] \in {"lock", "park", "parked"}
      BY <2>1, <2>5 DEF CheckEpoch, Park, SpuriousWakeup, TypeOK
    <3>3. pc'[Main] = pc[Main] /\ \A v \in Workers : v # w => pc'[v] = pc[v]
      BY <2>1, <2>5, <3>1, RunnerAssumption DEF CheckEpoch, Park, SpuriousWakeup, TypeOK
    <3>4. \A v \in Workers : ~FoundEmpty(v) => ~FoundEmpty(v)'
      BY <3>1, <3>2, <3>3 DEF FoundEmpty
    <3> QED BY <1>2, <3>1, <3>3, <3>4 DEF NoLostWork
  <2>6. CASE Bump(Main)
    <3>1. PICK w \in Workers : TRUE
      BY RunnerAssumption
    <3>2. ~FoundEmpty(w)'
      BY <2>6, <3>1 DEF Bump, FoundEmpty
    <3> QED BY <3>1, <3>2 DEF NoLostWork
  <2>7. CASE NotifyAll(Main) \/ Acquire \/ RunFinal
    <3>1. /\ pc[Main] \notin {"visit", "bump"} /\ UNCHANGED <<active, seen, stop>>
          /\ \A w \in Workers : pc'[w] = pc[w] \/ (pc[w] = "parked" /\ pc'[w] = "lock")
      BY <2>1, <2>7, RunnerAssumption DEF NotifyAll, Acquire, RunFinal, TypeOK, sync
    <3>2. \A w \in Workers : FoundEmpty(w)' <=> FoundEmpty(w)
      BY <3>1 DEF FoundEmpty
    <3> QED BY <1>2, <3>1, <3>2 DEF NoLostWork
  <2>8. CASE StartRun \/ Visit
    <3>1. pc'[Main] \in {"visit", "bump"}
      BY <2>1, <2>8 DEF StartRun, Visit, NextInBatch, TypeOK
    <3> QED BY <3>1 DEF NoLostWork
  <2>9. CASE Stop \/ SleepOver \/ Join \/ Gone
    <3>1. stop'
      BY <2>1, <2>9 DEF Stop, SleepOver, Join, Gone, vars, sync, CallerOK
    <3> QED BY <3>1 DEF NoLostWork
  <2> QED BY <1>2, <2>2, <2>3, <2>4, <2>5, <2>6, <2>7, <2>8, <2>9 DEF Next, WorkerStep, MainStep
<1> QED BY <1>1, <1>2, InductiveInvariant, PTL DEF Spec

(***************************************************************************)
(* If a worker blocks in wait() before anybody can notify in between, no   *)
(* wakeup is lost, although notify_all is called without mutex_.           *)
(***************************************************************************)
THEOREM WakeupKept ==
  ASSUME "park" \in Timing
  PROVE  Spec => []NoLostWakeup
<1> USE DEF At, Goto, Threads
<1> DEFINE Blocks == (\A w \in Workers : pc[w] # "park") /\ NoLostWakeup
<1>1. Init => Blocks
  BY RunnerAssumption DEF Init, NoLostWakeup
<1>2. IInv /\ Blocks /\ [Next]_vars => Blocks'
  <2> SUFFICES ASSUME IInv, Blocks, [Next]_vars PROVE Blocks'
    OBVIOUS
  <2>1. TypeOK /\ CallerOK
    BY DEF IInv
  <2>2. CASE UNCHANGED vars
    BY <2>2 DEF NoLostWakeup, vars
  <2>3. ASSUME NEW w \in Workers,
               \/ CheckStop(w) \/ PopNothing(w) \/ PopTask(w) \/ Callback(w) \/ Decrement(w)
               \/ ResolveFinal(w) \/ ResolveTask(w) \/ ResetCount(w) \/ LoadEpoch(w)
               \/ CheckEpoch(w) \/ SpuriousWakeup(w)
        PROVE  Blocks'
    <3>1. /\ pc[w] # "notify" /\ pc'[w] # "park" /\ stop' = stop /\ w # Main
          /\ pc'[w] = "parked" => seen'[w] /\ ~stop'
          /\ \A th \in Threads : th # w => pc'[th] = pc[th]
          /\ \A v \in Workers : v # w => seen'[v] = seen[v]
      BY <2>1, <2>3, RunnerAssumption
         DEF CheckStop, PopNothing, PopTask, Callback, Decrement, ResolveFinal, ResolveTask,
         ResetCount, LoadEpoch, CheckEpoch, SpuriousWakeup, NextDependent, TypeOK, sync
    <3> QED BY <3>1 DEF NoLostWakeup
  <2>4. ASSUME NEW w \in Workers, Park(w) PROVE Blocks'
    BY <2>4 DEF Park
  <2>5. ASSUME NEW th \in Threads, Bump(th) PROVE Blocks'
    <3>1. pc'[th] = "notify" /\ \A u \in Threads : u # th => pc'[u] = pc[u]
      BY <2>1, <2>5 DEF Bump, TypeOK
    <3> QED BY <2>5, <3>1 DEF NoLostWakeup
  <2>6. ASSUME NEW th \in Threads, NotifyAll(th) PROVE Blocks'
    <3>1. \A w \in Workers : pc'[w] # "parked" /\ pc'[w] # "park"
      BY <2>1, <2>6 DEF NotifyAll, AfterNotify
    <3> QED BY <3>1 DEF NoLostWakeup
  <2>7. CASE StartRun \/ Visit \/ Acquire \/ RunFinal \/ Gone
    <3>1. /\ pc[Main] \notin {"notify", "sleep"} /\ UNCHANGED <<seen, stop>>
          /\ \A w \in Workers : pc'[w] = pc[w]
      BY <2>1, <2>7, RunnerAssumption DEF StartRun, Visit, Acquire, RunFinal, Gone, vars, TypeOK
    <3> QED BY <3>1, RunnerAssumption DEF NoLostWakeup
  <2>8. CASE Stop \/ SleepOver
    <3>1. pc'[Main] \in {"sleep", "notify"} /\ \A w \in Workers : pc'[w] = pc[w]
      BY <2>1, <2>8, RunnerAssumption DEF Stop, SleepOver, TypeOK
    <3> QED BY <3>1 DEF NoLostWakeup
  <2>9. CASE Join
    <3>1. \A w \in Workers : pc'[w] = "exit"
      BY <2>1, <2>9, RunnerAssumption DEF Join, TypeOK
    <3> QED BY <3>1 DEF NoLostWakeup
  <2> QED BY <2>2, <2>3, <2>4, <2>5, <2>6, <2>7, <2>8, <2>9
          DEF Next, WorkerStep, MainStep
<1>3. Blocks => NoLostWakeup
  OBVIOUS
<1> HIDE DEF Blocks
<1> QED BY <1>1, <1>2, <1>3, InductiveInvariant, PTL DEF Spec
--------------------------------------------------------------------------------
(* A step that hands nothing over, starts no callback and ends none is a    *)
(* stuttering step of TaskRounds.                                           *)
LEMMA RoundsStutter ==
  ASSUME UNCHANGED <<submitted, done>>,
         \A w \in Workers : /\ At(w, "call")' <=> At(w, "call")
                            /\ At(w, "call") => task'[w] = task[w]
  PROVE  UNCHANGED Rounds!vars
<1>1. Running' = Running
  BY DEF Running
<1> QED BY <1>1 DEF Rounds!vars

(* Every step of TaskRunner is a step of TaskRounds, or a stutter. *)
LEMMA RoundsStep ==
  ASSUME IInv, [Next]_vars
  PROVE  [Rounds!Next]_(Rounds!vars)
<1> USE DEF At, Goto, Threads
<1>1. TypeOK /\ CallerOK /\ TasksOK
  BY DEF IInv
<1>2. CASE UNCHANGED vars
  BY <1>2, RoundsStutter DEF vars
<1>3. ASSUME NEW w \in Workers,
             \/ CheckStop(w) \/ LoadEpoch(w) \/ PopNothing(w) \/ CheckEpoch(w) \/ Park(w)
             \/ SpuriousWakeup(w) \/ Decrement(w) \/ ResolveFinal(w) \/ ResolveTask(w)
             \/ ResetCount(w) \/ Bump(w)
      PROVE  UNCHANGED Rounds!vars
  <2>1. UNCHANGED <<submitted, done, task>> /\ pc[w] # "call"
    BY <1>3 DEF CheckStop, LoadEpoch, PopNothing, CheckEpoch, Park, SpuriousWakeup, Decrement,
       ResolveFinal, ResolveTask, ResetCount, Bump, locals, history
  <2>2. pc'[w] # "call" /\ \A v \in Workers : v # w => pc'[v] = pc[v]
    BY <1>1, <1>3 DEF CheckStop, LoadEpoch, PopNothing, CheckEpoch, Park, SpuriousWakeup,
       Decrement, ResolveFinal, ResolveTask, ResetCount, Bump, NextDependent, TypeOK
  <2> QED BY <2>1, <2>2, RoundsStutter
<1>4. ASSUME NEW th \in Threads, NotifyAll(th) PROVE UNCHANGED Rounds!vars
  <2>1. /\ UNCHANGED <<submitted, done, task>>
        /\ \A v \in Workers : pc'[v] = "call" <=> pc[v] = "call"
    BY <1>4 DEF NotifyAll, AfterNotify, locals, history
  <2> QED BY <2>1, RoundsStutter
<1>5. ASSUME Bump(Main) \/ Acquire \/ Stop \/ SleepOver \/ Join \/ Gone
      PROVE  UNCHANGED Rounds!vars
  <2>1. UNCHANGED <<submitted, done, task>> /\ \A v \in Workers : pc'[v] = pc[v]
    BY <1>1, <1>5, RunnerAssumption
       DEF Bump, Acquire, Stop, SleepOver, Join, Gone, vars, locals, history, TypeOK
  <2> QED BY <2>1, RoundsStutter
<1>6. ASSUME NEW w \in Workers, PopTask(w) PROVE Rounds!Next
  <2> DEFINE t == Head(active)
  <2>1. t \in Tasks /\ Queued(t)
    BY <1>1, <1>6 DEF PopTask, TypeOK, Queued
  <2>2. t \notin done /\ ~Held(t) /\ t # Final
    BY <1>1, <2>1 DEF TasksOK, OnePlace
  <2>3. Deps[t] \subseteq done /\ (t \in Roots => t \in submitted)
    BY <1>1, <2>1 DEF TasksOK, Released, Started, OwedDeps, Owed
  <2>4. t \notin Running
    BY <2>2 DEF Running, Held
  <2>5. /\ pc[w] = "pop" /\ pc'[w] = "call" /\ task'[w] = t
        /\ \A v \in Workers : v # w => pc'[v] = pc[v] /\ task'[v] = task[v]
        /\ UNCHANGED <<submitted, done>>
    BY <1>1, <1>6 DEF PopTask, TypeOK, history
  <2>6. Running' = Running \cup {t}
    BY <2>5 DEF Running
  <2>7. Rounds!Begin(t)
    BY <2>1, <2>2, <2>3, <2>4, <2>5, <2>6 DEF Rounds!Begin, Rounds!Final, Rounds!IsFinal,
       Rounds!Roots, Final, IsFinal, Roots
  <2> QED BY <2>1, <2>7 DEF Rounds!Next
<1>7. ASSUME NEW w \in Workers, Callback(w) PROVE Rounds!Next
  <2>1. task[w] \in Tasks /\ task[w] \in Running /\ pc[w] = "call"
    BY <1>1, <1>7 DEF Callback, TasksOK, WorkersOK, Executing, Running
  <2>2. /\ pc'[w] # "call" /\ done' = done \cup {task[w]}
        /\ \A v \in Workers : v # w => pc'[v] = pc[v]
        /\ UNCHANGED <<submitted, task>>
    BY <1>1, <1>7 DEF Callback, NextDependent, TypeOK
  <2>3. \A v \in Workers : v # w /\ pc[v] = "call" => task[v] # task[w]
    BY <1>1, <2>1 DEF TasksOK, OneExecutes, Executing
  <2>4. Running' = Running \ {task[w]}
    BY <2>1, <2>2, <2>3 DEF Running
  <2>5. Rounds!End(task[w])
    BY <2>1, <2>2, <2>4 DEF Rounds!End
  <2> QED BY <2>1, <2>5 DEF Rounds!Next
<1>8. CASE StartRun
  <2>1. task' = task /\ \A v \in Workers : pc'[v] = pc[v]
    BY <1>1, <1>8, RunnerAssumption DEF StartRun, TypeOK
  <2>2. Running' = Running
    BY <2>1 DEF Running
  <2>3. CASE NextCall # 1
    BY <1>8, <2>1, <2>3, RoundsStutter DEF StartRun
  <2>4. CASE NextCall = 1 /\ call = 0
    <3>1. submitted = {} /\ done = {}
      <4>1. \A s \in Slots : ~Passed(s)
        BY <2>4, CallFacts DEF Passed
      <4> QED BY <1>1, <2>4, <4>1 DEF CallerOK, TasksOK, Fresh
    <3> QED BY <1>8, <2>1, <2>4, <3>1, RoundsStutter DEF StartRun
  <2>5. CASE NextCall = 1 /\ call # 0
    <3>1. call = Len(Calls)
      BY <1>1, <2>5, CallFacts DEF NextCall, TypeOK
    <3>2. Final \in done
      BY <1>1, <1>8, <3>1 DEF StartRun, CallerOK
    <3>3. done = Tasks
      BY <1>1, <3>2, AllDone
    <3>4. submitted' = {} /\ done' = {}
      BY <1>8, <2>5 DEF StartRun
    <3> QED BY <2>2, <3>3, <3>4 DEF Rounds!Next, Rounds!NewRound
  <2> QED BY <2>3, <2>4, <2>5
<1>9. CASE Visit
  <2> DEFINE t == Batch[pos[Main]]
             s == <<call, pos[Main]>>
  <2>1. UNCHANGED <<task, done>> /\ \A v \in Workers : pc'[v] = pc[v]
    BY <1>1, <1>9, RunnerAssumption DEF Visit, TypeOK
  <2>2. Running' = Running
    BY <2>1 DEF Running
  <2>3. CASE t \notin Roots
    BY <1>9, <2>1, <2>3, RoundsStutter DEF Visit
  <2>4. CASE t \in Roots
    <3>1. submitted' = submitted \cup {t}
      BY <1>9, <2>4 DEF Visit
    <3>2. call \in DOMAIN Calls /\ pos[Main] \in DOMAIN Calls[call] /\ pos[Main] \in Nat
      BY <1>1, <1>9, CallFacts DEF Visit, CallerOK, TypeOK, Batch
    <3>3. s \in Slots /\ Named(s) = t /\ ~Passed(s)
      BY <1>9, <3>2, CallFacts DEF Visit, Batch, Passed
    <3>4. t \notin submitted
      BY <1>1, <3>3, UseAssumption DEF CallerOK
    <3>5. Rounds!Submit(t) /\ t \in Tasks
      BY <2>1, <2>2, <2>4, <3>1, <3>4 DEF Rounds!Submit, Rounds!Roots, Roots
    <3> QED BY <3>5 DEF Rounds!Next
  <2> QED BY <2>3, <2>4
<1>10. CASE RunFinal
  <2>1. finalTask = Final /\ Final \notin done
    <3>1. pc[Main] = "final" /\ call = Len(Calls) /\ ~stop
      BY <1>1, <1>10 DEF RunFinal, CallerOK
    <3> QED BY <1>1, <3>1, FinalTaskSet
  <2>2. Claimed
    BY <1>10 DEF RunFinal, Claimed
  <2>3. done \cup {Final} = Tasks
    BY <1>1, <2>2, AllDone
  <2>4. /\ UNCHANGED <<task, submitted>> /\ \A v \in Workers : pc'[v] = pc[v]
        /\ done' = done \cup {Final}
    BY <1>1, <1>10, <2>1, RunnerAssumption DEF RunFinal, TypeOK, locals
  <2>5. Running = {} /\ Running' = Running
    <3>1. \A v \in Workers : pc[v] # "call"
      BY <1>1, <2>3 DEF TasksOK, OneExecutes, WorkersOK, Executing
    <3> QED BY <2>4, <3>1 DEF Running
  <2>6. Rounds!EndRound
    BY <2>1, <2>3, <2>4, <2>5 DEF Rounds!EndRound, Rounds!Final, Rounds!IsFinal, Final, IsFinal
  <2> QED BY <2>6 DEF Rounds!Next
<1> QED BY <1>2, <1>3, <1>4, <1>5, <1>6, <1>7, <1>8, <1>9, <1>10 DEF Next, WorkerStep, MainStep

(***************************************************************************)
(* TaskRunner keeps the promise of TaskRounds: rounds in which every task  *)
(* runs once, in the order of the graph, and that end with the final task. *)
(***************************************************************************)
THEOREM ImplementsRounds == Spec => RoundsSpec
<1>1. Init => Rounds!Init
  <2> SUFFICES ASSUME Init PROVE Rounds!Init
    OBVIOUS
  <2>1. Running = {}
    BY RunnerAssumption DEF Init, Running, At, Threads
  <2> QED BY <2>1 DEF Init, Rounds!Init
<1>2. IInv /\ [Next]_vars => [Rounds!Next]_(Rounds!vars)
  BY RoundsStep
<1> QED BY <1>1, <1>2, InductiveInvariant, PTL DEF Spec, RoundsSpec, Rounds!Spec
================================================================================
