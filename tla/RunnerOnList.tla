------------------------------ MODULE RunnerOnList -----------------------------
(***************************************************************************)
(* TaskRunner (src/tasks/tasks.h) on the list it really uses               *)
(* (src/tasks/thread_safe_list.h): the pop of threadRun and the pushes of  *)
(* run() and of its dep_resolved are the loads, links and                  *)
(* compare-and-swaps of ThreadSafeList, and every other step is that of    *)
(* TaskRunner.  The list's nodes are the tasks, pushed again every round.  *)
(***************************************************************************)
EXTENDS TaskGraph, Integers

CONSTANTS
  Workers, Main, Calls, NoTask, Modulus, Timing,  \* as in TaskRunner
  PopsSettle  \* TRUE: a worker that holds a node's address inside pop() when a
              \* round ends leaves pop() before the next round starts

VARIABLES
  head, next, at, cur, arg, held,  \* ThreadSafeList, at is its pc
  left, pc, task, pos, wasEmpty, seen, stop, ready, finalTask, call,  \* TaskRunner
  submitted, done

List == INSTANCE ThreadSafeList
          WITH Nodes <- Tasks, Null <- NoTask, Poppers <- Workers,
               Pushers <- Workers \cup {Main}, Reuse <- TRUE, pc <- at

Runner == INSTANCE TaskRunnerUse WITH active <- List!Contents

ASSUME GraphAssumption == IsGraph

(* TaskRunner is used as TaskRunnerUse says. *)
ASSUME OnListAssumption ==
  /\ Workers # {} /\ IsFiniteSet(Workers) /\ Main \notin Workers
  /\ NoTask \notin Tasks
  /\ Calls \in Seq(Seq(Tasks)) /\ Calls # <<>>
  /\ Modulus \in Nat /\ \A t \in Tasks : Cardinality(Deps[t]) < Modulus
  /\ Timing \subseteq {"round", "park", "sleep"}
  /\ \E f \in Tasks : (\A t \in Tasks : IsFinal(t) <=> t = f) /\ Deps[f] # {} /\ AllFeed(f)
  /\ \A t \in Roots \cup {Final} : \E s \in Runner!Slots : Runner!Named(s) = t
  /\ \A r, s \in Runner!Slots : Runner!Named(r) = Runner!Named(s) => r = s
  /\ "round" \in Timing \/ \E w \in Workers : Workers = {w}

listVars   == <<head, next, at, cur, arg, held>>
runnerVars == <<left, pc, task, pos, wasEmpty, seen, stop, ready, finalTask, call,
                submitted, done>>
vars       == <<listVars, runnerVars>>

(* Until a node is pushed its next_ has any value: itself, say. *)
Init ==
  /\ head = NoTask
  /\ next = [t \in Tasks |-> t]
  /\ at = [th \in Workers \cup {Main} |-> "idle"]
  /\ cur = [th \in Workers \cup {Main} |-> NoTask]
  /\ arg = [th \in Workers \cup {Main} |-> NoTask]
  /\ held = Tasks
  /\ Runner!Init
--------------------------------------------------------------------------------
(* activeTasks_.pop() of threadRun. *)
PopLoad(w) ==
  /\ pc[w] = "pop"
  /\ List!PopLoad(w)
  /\ pc' = [pc EXCEPT ![w] = IF head = NoTask THEN "lock" ELSE @]
  /\ UNCHANGED <<left, task, pos, wasEmpty, seen, stop, ready, finalTask, call,
                 submitted, done>>

PopNext(w) == List!PopNext(w) /\ UNCHANGED runnerVars

PopSwap(w) ==
  /\ List!PopSwap(w)
  /\ task' = [task EXCEPT ![w] = cur[w]]
  /\ wasEmpty' = [wasEmpty EXCEPT ![w] = FALSE]
  /\ pc' = [pc EXCEPT ![w] = "call"]
  /\ UNCHANGED <<left, pos, seen, stop, ready, finalTask, call, submitted, done>>

SwapFails(th) == List!SwapFails(th) /\ UNCHANGED runnerVars
--------------------------------------------------------------------------------
(* The node a thread is to push next. *)
Pushed(th) == IF th = Main THEN Runner!Batch[pos[Main]] ELSE Runner!Visited(th)

(* Mutant: run() pushes every task of its vector. *)
Mut_PushesEvery(th) ==
  \/ th # Main /\ pc[th] = "resolve" /\ ~IsFinal(Pushed(th))
  \/ th = Main /\ pc[th] = "visit"

(* It has come to a push: a dependent that is ready and not final, or a root. *)
MustPush(th) ==
  \/ th # Main /\ pc[th] = "resolve" /\ ~IsFinal(Pushed(th))
  \/ th = Main /\ pc[th] = "visit" /\ Pushed(th) \in Roots

(* activeTasks_.push(task): nothing keeps a node from being pushed twice. *)
PushLoad(th) ==
  /\ MustPush(th)
  /\ at[th] \in {"idle", "pushLoad"}
  /\ cur' = [cur EXCEPT ![th] = head]
  /\ arg' = [arg EXCEPT ![th] = Pushed(th)]
  /\ at' = [at EXCEPT ![th] = "pushLink"]
  /\ UNCHANGED <<head, next, held, runnerVars>>

PushLink(th) == List!PushLink(th) /\ UNCHANGED runnerVars

(* Mutant: push() does not tell whether the list was empty. *)
Mut_ReportsNeverEmpty(w) ==
  /\ w # Main
  /\ List!PushSwap(w)
  /\ pc' = [pc EXCEPT ![w] = Runner!NextDependent(w, pos[w])]
  /\ UNCHANGED <<left, task, pos, wasEmpty, seen, stop, ready, finalTask, call, submitted, done>>

(* Mutant: push() returns the old head, and the caller keeps that. *)
Mut_PushReturnsHead(w) ==
  /\ w # Main
  /\ List!PushSwap(w)
  /\ wasEmpty' = [wasEmpty EXCEPT ![w] = cur[w]]
  /\ pc' = [pc EXCEPT ![w] = Runner!NextDependent(w, pos[w])]
  /\ UNCHANGED <<left, task, pos, seen, stop, ready, finalTask, call, submitted, done>>

(* push() returns whether the list was empty. *)
WorkerPushed(w) ==
  /\ w # Main
  /\ List!PushSwap(w)
  /\ wasEmpty' = [wasEmpty EXCEPT ![w] = @ \/ cur[w] = NoTask]
  /\ pc' = [pc EXCEPT ![w] = Runner!NextDependent(w, pos[w])]
  /\ UNCHANGED <<left, task, pos, seen, stop, ready, finalTask, call, submitted, done>>

CallerPushed ==
  /\ List!PushSwap(Main)
  /\ finalTask' = IF IsFinal(Pushed(Main)) THEN Pushed(Main) ELSE finalTask
  /\ submitted' = submitted \cup {Pushed(Main)}
  /\ pos' = [pos EXCEPT ![Main] = @ + 1]
  /\ pc' = [pc EXCEPT ![Main] = Runner!NextInBatch(call, pos[Main] + 1)]
  /\ UNCHANGED <<left, task, wasEmpty, seen, stop, ready, call, done>>
--------------------------------------------------------------------------------
(* A worker that holds a node's address inside pop(). *)
HoldsAddress(w) == at[w] \in {"popNext", "popSwap"}

(* The steps of TaskRunner that leave activeTasks_ alone. *)
OtherWorkerStep(w) ==
  /\ UNCHANGED listVars
  /\ \/ Runner!CheckStop(w) \/ Runner!LoadEpoch(w) \/ Runner!CheckEpoch(w)
     \/ Runner!Park(w) \/ Runner!SpuriousWakeup(w)
     \/ Runner!Callback(w) \/ Runner!Decrement(w) \/ Runner!ResolveFinal(w)
     \/ Runner!ResetCount(w) \/ Runner!Bump(w) \/ Runner!NotifyAll(w)

OtherCallerStep ==
  /\ UNCHANGED listVars
  /\ \/ ~MustPush(Main) /\ Runner!Visit
     \/ Runner!Bump(Main) \/ Runner!NotifyAll(Main) \/ Runner!Acquire
     \/ Runner!RunFinal \/ Runner!SleepOver \/ Runner!Join \/ Runner!Gone
     \/ Runner!Stop

StartRun ==
  /\ UNCHANGED listVars
  /\ PopsSettle /\ Runner!NextCall = 1 => \A w \in Workers : ~HoldsAddress(w)
  /\ Runner!StartRun

Next ==
  \/ \E w \in Workers :
       \/ PopLoad(w) \/ PopNext(w) \/ PopSwap(w)
       \/ WorkerPushed(w)
       \/ OtherWorkerStep(w)
  \/ \E th \in Workers \cup {Main} : PushLoad(th) \/ PushLink(th) \/ SwapFails(th)
  \/ CallerPushed
  \/ OtherCallerStep
  \/ StartRun

Spec == Init /\ [][Next]_vars
--------------------------------------------------------------------------------
(* Properties. *)

(* A thread is inside the list where its code calls pop() or push(), and    *)
(* pushes the task it has come to.                                          *)
ThreadsOK ==
  /\ \A w \in Workers : HoldsAddress(w) \/ at[w] = "popLoad" => pc[w] = "pop"
  /\ \A th \in Workers \cup {Main} : List!InPush(th) => MustPush(th) /\ arg[th] = Pushed(th)
  /\ ~HoldsAddress(Main) /\ at[Main] # "popLoad"

(* A node a worker looks at in pop() was pushed in this round: it is on the *)
(* list, or its task has begun.                                             *)
LookedAtOK ==
  \A w \in Workers : HoldsAddress(w) =>
     cur[w] \in done \cup (Tasks \ held) \cup Runner!Running

(***************************************************************************)
(* What the theorems of RunnerOnListProofs rest on: the invariants of the  *)
(* list and of the runner, and that no thread pushes a node that another   *)
(* one looks at.                                                           *)
(***************************************************************************)
OnListInv == List!ListInv /\ Runner!IInv /\ ThreadsOK /\ LookedAtOK

(***************************************************************************)
(* The tasks on the list are those pushed and not yet popped, although     *)
(* each is pushed again in every round.                                    *)
(***************************************************************************)
ListSound == List!ListSound

(***************************************************************************)
(* No thread reads next_ of a node in pop() while another writes it in     *)
(* push(): next_ is a plain pointer.                                       *)
(***************************************************************************)
NextNotRaced ==
  \A w \in Workers, th \in Workers \cup {Main} :
     ~(at[w] = "popNext" /\ at[th] = "pushLink" /\ cur[w] = arg[th])

(***************************************************************************)
(* On the list's own steps the runner is the one module TaskRunner states, *)
(* whose list is an atomic stack.                                          *)
(***************************************************************************)
RunnerSpec == Runner!Spec
================================================================================
