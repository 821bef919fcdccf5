------------------------------ MODULE TaskRunner -------------------------------
(***************************************************************************)
(* TaskRunner and Task::execute of src/tasks/tasks.h: worker threads pop   *)
(* ready tasks from activeTasks_, run them and make their dependents       *)
(* ready; a calling thread hands over batches of tasks with run() and      *)
(* waits for the final task of a round.                                    *)
(*                                                                         *)
(* One action is one access to shared memory.  activeTasks_ is the         *)
(* sequence ThreadSafeList promises (see module ThreadSafeList), top of    *)
(* the stack first.  epoch_ is only ever compared with a worker's own      *)
(* earlier copy, so the model keeps the outcome of that comparison: seen.  *)
(*                                                                         *)
(* The caller repeats one round for ever: the calls of sequence Calls, of  *)
(* which only the last has wait = true.  Between two calls it may destroy  *)
(* the runner.                                                             *)
(***************************************************************************)
EXTENDS TaskGraph, Integers

CONSTANTS
  Workers,   \* the threads of workers_
  Main,      \* the thread that calls run() and the destructor
  Calls,     \* the vectors of tasks passed to run() in one round
  NoTask,    \* a null shared_ptr<Task>
  Modulus,   \* dependenciesLeft_ counts modulo this (2^32 in the code)
  Timing     \* the timing assumptions in force, of those below

(***************************************************************************)
(* Assumptions on the scheduler the code does not enforce.  With none of   *)
(* them (Timing = {}) the model is the code on any scheduler.              *)
(*   "round"  a worker that is inside Task::execute when a round ends      *)
(*            leaves it before the caller starts the next round            *)
(*   "park"   a worker whose wait predicate was false is blocked before    *)
(*            another thread takes a step                                  *)
(*   "sleep"  such a worker is blocked before the 50 ms the destructor     *)
(*            sleeps are over                                              *)
(***************************************************************************)
Threads == Workers \cup {Main}

ASSUME GraphAssumption == IsGraph

ASSUME RunnerAssumption ==
  /\ Workers # {} /\ IsFiniteSet(Workers) /\ Main \notin Workers
  /\ NoTask \notin Tasks
  /\ Calls \in Seq(Seq(Tasks)) /\ Calls # <<>>
  /\ Modulus \in Nat /\ \A t \in Tasks : Cardinality(Deps[t]) < Modulus
  /\ Timing \subseteq {"round", "park", "sleep"}

VARIABLES
  active,     \* activeTasks_, the task pop() returns next first
  left,       \* dependenciesLeft_ of each task
  pc,         \* where each thread is
  task,       \* the task a worker took from activeTasks_ last
  pos,        \* index of a thread in dependents_ or in the vector of run()
  wasEmpty,   \* listWasEmpty of a worker
  seen,       \* TRUE iff epoch_ still has the value the worker loaded
  stop,       \* stop_
  ready,      \* the count of finalTaskReady_
  finalTask,  \* finalTask_
  call,       \* index in Calls of the latest run(), 0 before the first
  submitted,  \* history: tasks run() pushed in this round
  done        \* history: tasks whose callback has returned in this round

vars == <<active, left, pc, task, pos, wasEmpty, seen, stop, ready, finalTask,
          call, submitted, done>>

sync    == <<stop, ready, finalTask, call>>
history == <<submitted, done>>
locals  == <<task, pos, wasEmpty>>

Goto(th, l) == pc' = [pc EXCEPT ![th] = l]
At(th, l)   == pc[th] = l

NumDeps(t) == Cardinality(Deps[t])

(* The caller's vector, and its wait argument. *)
Batch   == Calls[call]
Waiting == call = Len(Calls)

(* The dependent a worker visited last in the loop of Task::execute. *)
Visited(w) == Dependents[task[w]][pos[w] - 1]

(* Inside Task::execute, after the callback or before. *)
Executing == {"call", "dec", "resolve", "reset"}
--------------------------------------------------------------------------------
(* TaskRunner::TaskRunner and the Task constructors. *)
Init ==
  /\ active = <<>>
  /\ left = [t \in Tasks |-> NumDeps(t)]
  /\ pc = [th \in Threads |-> IF th = Main THEN "idle" ELSE "top"]
  /\ task = [w \in Workers |-> NoTask]
  /\ pos = [th \in Threads |-> 1]
  /\ wasEmpty = [w \in Workers |-> FALSE]
  /\ seen = [w \in Workers |-> FALSE]
  /\ stop = FALSE
  /\ ready = 0
  /\ finalTask = NoTask
  /\ call = 0
  /\ submitted = {}
  /\ done = {}
--------------------------------------------------------------------------------
(* Mutant: restartWorker forgets to increment epoch_. *)
Mut_BumpKeepsEpoch(th) ==
  /\ At(th, "bump")
  /\ Goto(th, "notify")
  /\ UNCHANGED <<active, left, locals, seen, sync, history>>

(* restartWorker, by a worker or by the caller. *)
Bump(th) ==
  /\ At(th, "bump")
  /\ seen' = [w \in Workers |-> FALSE]
  /\ Goto(th, "notify")
  /\ UNCHANGED <<active, left, locals, sync, history>>

(* Where a thread goes after notify_all: a worker to its loop, the caller   *)
(* to the join of the destructor, to the wait for the final task, or back.  *)
AfterNotify(th) ==
  IF th # Main THEN "top"
  ELSE IF stop THEN "join"
  ELSE IF finalTask # NoTask /\ Waiting THEN "acquire" ELSE "idle"

(* Mutant: restartWorker forgets notify_all. *)
Mut_NotifyNobody(th) ==
  /\ At(th, "notify")
  /\ Goto(th, AfterNotify(th))
  /\ UNCHANGED <<active, left, locals, seen, sync, history>>

NotifyAll(th) ==
  /\ At(th, "notify")
  /\ pc' = [u \in Threads |-> IF u = th THEN AfterNotify(th)
                              ELSE IF At(u, "parked") THEN "lock" ELSE pc[u]]
  /\ UNCHANGED <<active, left, locals, seen, sync, history>>
--------------------------------------------------------------------------------
(* threadRun: the loop condition, the epoch load and the pop. *)
CheckStop(w) ==
  /\ At(w, "top")
  /\ Goto(w, IF stop THEN "exit" ELSE "epoch")
  /\ UNCHANGED <<active, left, locals, seen, sync, history>>

LoadEpoch(w) ==
  /\ At(w, "epoch")
  /\ seen' = [seen EXCEPT ![w] = TRUE]
  /\ Goto(w, "pop")
  /\ UNCHANGED <<active, left, locals, sync, history>>

PopNothing(w) ==
  /\ At(w, "pop")
  /\ active = <<>>
  /\ Goto(w, "lock")
  /\ UNCHANGED <<active, left, locals, seen, sync, history>>

(* Mutant: pop() returns the head and leaves it on the list. *)
Mut_PopPeeks(w) ==
  /\ At(w, "pop")
  /\ active # <<>>
  /\ task' = [task EXCEPT ![w] = Head(active)]
  /\ wasEmpty' = [wasEmpty EXCEPT ![w] = FALSE]
  /\ Goto(w, "call")
  /\ UNCHANGED <<active, left, pos, seen, sync, history>>

PopTask(w) ==
  /\ At(w, "pop")
  /\ active # <<>>
  /\ task' = [task EXCEPT ![w] = Head(active)]
  /\ active' = Tail(active)
  /\ wasEmpty' = [wasEmpty EXCEPT ![w] = FALSE]
  /\ Goto(w, "call")
  /\ UNCHANGED <<left, pos, seen, sync, history>>

(* mutex_ is held from a predicate that is false until wait() blocks. *)
MutexFree == \A w \in Workers : ~At(w, "park")

CheckEpoch(w) ==
  /\ At(w, "lock")
  /\ MutexFree
  /\ Goto(w, IF ~seen[w] \/ stop THEN "top"
             ELSE IF "park" \in Timing THEN "parked" ELSE "park")
  /\ UNCHANGED <<active, left, locals, seen, sync, history>>

Park(w) ==
  /\ At(w, "park")
  /\ Goto(w, "parked")
  /\ UNCHANGED <<active, left, locals, seen, sync, history>>

SpuriousWakeup(w) ==
  /\ At(w, "parked")
  /\ Goto(w, "lock")
  /\ UNCHANGED <<active, left, locals, seen, sync, history>>
--------------------------------------------------------------------------------
(* Task::execute with the dep_resolved of threadRun. *)
NextDependent(w, p) == IF p > Len(Dependents[task[w]]) THEN "reset" ELSE "dec"

Callback(w) ==
  /\ At(w, "call")
  /\ done' = done \cup {task[w]}
  /\ pos' = [pos EXCEPT ![w] = 1]
  /\ Goto(w, NextDependent(w, 1))
  /\ UNCHANGED <<active, left, task, wasEmpty, seen, sync, submitted>>

(* Mutant: a final task is resolved by the first of its dependencies. *)
Mut_DecrementFinalEarly(w) ==
  /\ At(w, "dec")
  /\ LET d == Dependents[task[w]][pos[w]]
         n == IF left[d] = 0 THEN Modulus - 1 ELSE left[d] - 1
     IN  /\ left' = [left EXCEPT ![d] = n]
         /\ Goto(w, IF n = 0 \/ IsFinal(d) THEN "resolve" ELSE NextDependent(w, pos[w] + 1))
  /\ pos' = [pos EXCEPT ![w] = @ + 1]
  /\ UNCHANGED <<active, task, wasEmpty, seen, sync, history>>

Decrement(w) ==
  /\ At(w, "dec")
  /\ LET d == Dependents[task[w]][pos[w]]
         n == IF left[d] = 0 THEN Modulus - 1 ELSE left[d] - 1
     IN  /\ left' = [left EXCEPT ![d] = n]
         /\ Goto(w, IF n = 0 THEN "resolve" ELSE NextDependent(w, pos[w] + 1))
  /\ pos' = [pos EXCEPT ![w] = @ + 1]
  /\ UNCHANGED <<active, task, wasEmpty, seen, sync, history>>

ResolveFinal(w) ==
  /\ At(w, "resolve")
  /\ IsFinal(Visited(w))
  /\ ready' = ready + 1
  /\ Goto(w, NextDependent(w, pos[w]))
  /\ UNCHANGED <<active, left, locals, seen, stop, finalTask, call, history>>

ResolveTask(w) ==
  /\ At(w, "resolve")
  /\ ~IsFinal(Visited(w))
  /\ active' = <<Visited(w)>> \o active
  /\ wasEmpty' = [wasEmpty EXCEPT ![w] = @ \/ active = <<>>]
  /\ Goto(w, NextDependent(w, pos[w]))
  /\ UNCHANGED <<left, task, pos, seen, sync, history>>

(* Mutant: the count is not reset for the next round. *)
Mut_NoReset(w) ==
  /\ At(w, "reset")
  /\ Goto(w, IF wasEmpty[w] THEN "bump" ELSE "top")
  /\ UNCHANGED <<active, left, locals, seen, sync, history>>

ResetCount(w) ==
  /\ At(w, "reset")
  /\ left' = [left EXCEPT ![task[w]] = NumDeps(task[w])]
  /\ Goto(w, IF wasEmpty[w] THEN "bump" ELSE "top")
  /\ UNCHANGED <<active, locals, seen, sync, history>>
--------------------------------------------------------------------------------
(* TaskRunner::run, by the caller. *)
NextInBatch(c, p) == IF p > Len(Calls[c]) THEN "bump" ELSE "visit"

NextCall == IF call = Len(Calls) THEN 1 ELSE call + 1

RoundSettled == \A w \in Workers : pc[w] \notin Executing

StartRun ==
  /\ At(Main, "idle")
  /\ NextCall = 1 /\ "round" \in Timing => RoundSettled
  /\ call' = NextCall
  /\ pos' = [pos EXCEPT ![Main] = 1]
  /\ Goto(Main, NextInBatch(NextCall, 1))
  /\ submitted' = IF NextCall = 1 THEN {} ELSE submitted
  /\ done' = IF NextCall = 1 THEN {} ELSE done
  /\ UNCHANGED <<active, left, task, wasEmpty, seen, stop, ready, finalTask>>

(* Mutant: run() pushes every task, not only those without dependencies. *)
Mut_VisitPushesAll ==
  /\ At(Main, "visit")
  /\ LET t == Batch[pos[Main]]
     IN  /\ finalTask' = IF IsFinal(t) THEN t ELSE finalTask
         /\ active' = <<t>> \o active
         /\ submitted' = submitted \cup {t}
  /\ pos' = [pos EXCEPT ![Main] = @ + 1]
  /\ Goto(Main, NextInBatch(call, pos[Main] + 1))
  /\ UNCHANGED <<left, task, wasEmpty, seen, stop, ready, call, done>>

Visit ==
  /\ At(Main, "visit")
  /\ LET t == Batch[pos[Main]]
     IN  /\ finalTask' = IF IsFinal(t) THEN t ELSE finalTask
         /\ active' = IF t \in Roots THEN <<t>> \o active ELSE active
         /\ submitted' = IF t \in Roots THEN submitted \cup {t} ELSE submitted
  /\ pos' = [pos EXCEPT ![Main] = @ + 1]
  /\ Goto(Main, NextInBatch(call, pos[Main] + 1))
  /\ UNCHANGED <<left, task, wasEmpty, seen, stop, ready, call, done>>

(* Mutant: the caller does not wait for the semaphore. *)
Mut_AcquireAnyway ==
  /\ At(Main, "acquire")
  /\ ready' = ready - 1
  /\ Goto(Main, "final")
  /\ UNCHANGED <<active, left, locals, seen, stop, finalTask, call, history>>

Acquire ==
  /\ At(Main, "acquire")
  /\ ready > 0
  /\ ready' = ready - 1
  /\ Goto(Main, "final")
  /\ UNCHANGED <<active, left, locals, seen, stop, finalTask, call, history>>

(* finalTask_->execute(nullptr): a final task has no dependents to visit. *)
RunFinal ==
  /\ At(Main, "final")
  /\ done' = done \cup {finalTask}
  /\ left' = [left EXCEPT ![finalTask] = NumDeps(finalTask)]
  /\ finalTask' = NoTask
  /\ Goto(Main, "idle")
  /\ UNCHANGED <<active, locals, seen, stop, ready, call, submitted>>
--------------------------------------------------------------------------------
(* TaskRunner::~TaskRunner: stop, sleep 50 ms, notify_all, join. *)
Stop ==
  /\ At(Main, "idle")
  /\ stop' = TRUE
  /\ Goto(Main, "sleep")
  /\ UNCHANGED <<active, left, locals, seen, ready, finalTask, call, history>>

SleepOver ==
  /\ At(Main, "sleep")
  /\ "sleep" \in Timing => MutexFree
  /\ Goto(Main, "notify")
  /\ UNCHANGED <<active, left, locals, seen, sync, history>>

Join ==
  /\ At(Main, "join")
  /\ \A w \in Workers : At(w, "exit")
  /\ Goto(Main, "gone")
  /\ UNCHANGED <<active, left, locals, seen, sync, history>>
--------------------------------------------------------------------------------
WorkerStep(w) ==
  \/ CheckStop(w) \/ LoadEpoch(w) \/ PopNothing(w) \/ PopTask(w)
  \/ CheckEpoch(w) \/ Park(w)
  \/ Callback(w) \/ Decrement(w) \/ ResolveFinal(w) \/ ResolveTask(w)
  \/ ResetCount(w) \/ Bump(w) \/ NotifyAll(w)

(* What the caller does on its own once it is inside run() or ~TaskRunner. *)
MainStep ==
  \/ Visit \/ Bump(Main) \/ NotifyAll(Main) \/ Acquire \/ RunFinal
  \/ SleepOver \/ Join

(* The runner is destroyed: nothing is left to do. *)
Gone == At(Main, "gone") /\ UNCHANGED vars

Next ==
  \/ \E w \in Workers : WorkerStep(w) \/ SpuriousWakeup(w)
  \/ MainStep
  \/ StartRun
  \/ Stop
  \/ Gone

Spec == Init /\ [][Next]_vars

(***************************************************************************)
(* Every thread keeps running.  The caller need not call run() again, nor  *)
(* ever destroy the runner; a spurious wakeup need not happen.             *)
(***************************************************************************)
Fairness == WF_vars(MainStep) /\ \A w \in Workers : WF_vars(WorkerStep(w))

FairSpec == Spec /\ Fairness
--------------------------------------------------------------------------------
(* Properties. *)

Labels == {"top", "epoch", "pop", "lock", "park", "parked", "exit", "call", "dec",
           "resolve", "reset", "bump", "notify"}

MainLabels == {"idle", "visit", "bump", "notify", "acquire", "final", "sleep", "join",
               "gone"}

(* The type of every variable. *)
TypeOK ==
  /\ active \in Seq(Tasks)
  /\ left \in [Tasks -> 0 .. Modulus - 1]
  /\ pc \in [Threads -> Labels \cup MainLabels]
  /\ pc[Main] \in MainLabels /\ \A w \in Workers : pc[w] \in Labels
  /\ task \in [Workers -> Tasks \cup {NoTask}]
  /\ pos \in [Threads -> Nat]
  /\ wasEmpty \in [Workers -> BOOLEAN]
  /\ seen \in [Workers -> BOOLEAN]
  /\ stop \in BOOLEAN
  /\ ready \in Nat
  /\ finalTask \in Tasks \cup {NoTask}
  /\ call \in 0 .. Len(Calls)
  /\ submitted \in SUBSET Tasks
  /\ done \in SUBSET Tasks

Runs(w, t) == pc[w] \in Executing /\ task[w] = t

(***************************************************************************)
(* A task's callback runs once per round, on one thread, and not before    *)
(* the callback of every dependency has returned: a callback may read the  *)
(* artifacts of its dependencies and write its own without a lock.         *)
(***************************************************************************)
InOrder ==
  /\ \A w \in Workers : At(w, "call") =>
        /\ task[w] \notin done
        /\ Deps[task[w]] \subseteq done
        /\ \A v \in Workers \ {w} : ~Runs(v, task[w])
  /\ At(Main, "final") =>
        finalTask \in Tasks \ done /\ Deps[finalTask] \subseteq done

(* The decrement of t's count by its dependency d is still to come. *)
Owed(d, t) ==
  \/ d \notin done
  \/ \E w \in Workers :
       /\ pc[w] \in {"dec", "resolve"} /\ task[w] = d
       /\ \E i \in DOMAIN Dependents[d] : pos[w] <= i /\ Dependents[d][i] = t

OwedDeps(t) == {d \in Deps[t] : Owed(d, t)}

(***************************************************************************)
(* dependenciesLeft_ is the "Number of dependencies yet to complete": of   *)
(* this round before the task has run, of the next one once the task has   *)
(* left Task::execute, and zero while it is inside.                        *)
(***************************************************************************)
CountExact ==
  \A t \in Tasks :
     left[t] = IF \E w \in Workers : Runs(w, t) THEN 0
               ELSE IF t \in done THEN NumDeps(t)
               ELSE Cardinality(OwedDeps(t))

(***************************************************************************)
(* activeTasks_ holds tasks that are ready and nobody has started, none of *)
(* them twice: a node pushed while it is on the list would make the list   *)
(* cyclic.                                                                 *)
(***************************************************************************)
QueuedOnce ==
  /\ \A i, j \in DOMAIN active : active[i] = active[j] => i = j
  /\ \A i \in DOMAIN active : active[i] \notin done /\ Deps[active[i]] \subseteq done

(***************************************************************************)
(* finalTaskReady_ is released once per round, as binary_semaphore needs,  *)
(* and only when every other task has run: the caller may then read all    *)
(* outputs and start the next round.                                       *)
(***************************************************************************)
RoundComplete ==
  /\ ready <= 1
  /\ ready = 1 \/ At(Main, "final") =>
       /\ active = <<>>
       /\ done = Tasks \ {Final}
       /\ \A w \in Workers : ~At(w, "call")

(* The worker has found the list empty and epoch_ has not moved since. *)
FoundEmpty(w) == pc[w] \in {"lock", "park", "parked"} /\ seen[w]

(***************************************************************************)
(* The epoch protocol loses no work: while a task is on the list, some     *)
(* worker will look again, or the caller has yet to increment epoch_.      *)
(***************************************************************************)
NoLostWork ==
  active # <<>> /\ ~stop =>
    \/ pc[Main] \in {"visit", "bump"}
    \/ \E w \in Workers : ~FoundEmpty(w)

(***************************************************************************)
(* No wakeup is lost: a blocked worker whose predicate has become true is  *)
(* going to be notified.                                                   *)
(***************************************************************************)
NoLostWakeup ==
  \A w \in Workers : At(w, "parked") /\ (~seen[w] \/ stop) =>
     (\E th \in Threads : At(th, "notify")) \/ At(Main, "sleep")

(* run() with wait = true returns. *)
RunReturns == At(Main, "acquire") ~> At(Main, "idle")

(***************************************************************************)
(* A task whose dependencies have run is run, although the caller may      *)
(* never call run() again: the tasks handed over with wait = false make    *)
(* progress between two blocks.                                            *)
(***************************************************************************)
ReadyRuns ==
  \A t \in Tasks \ {Final} :
     (t \notin done /\ Deps[t] \subseteq done /\ (t \in Roots => t \in submitted))
        ~> (t \in done \/ stop)

(* The destructor returns. *)
DestructorReturns == stop ~> At(Main, "gone")

(* The tasks whose callback a worker runs. *)
Running == {task[w] : w \in {v \in Workers : At(v, "call")}}

(* The promise of module TaskRounds. *)
Rounds == INSTANCE TaskRounds WITH running <- Running

RoundsSpec == Rounds!Spec
RoundsFair == Rounds!Progress
================================================================================
