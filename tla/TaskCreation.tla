----------------------------- MODULE TaskCreation ------------------------------
(***************************************************************************)
(* Task::create (src/tasks/tasks.h): a graph is what a sequence of calls   *)
(* leaves behind.  A call is a record of the new task and the vector of    *)
(* its dependencies; create appends the new task to dependents_ of each.   *)
(***************************************************************************)
EXTENDS Naturals, Sequences, SequencesExt

Call(t, deps) == [task |-> t, deps |-> deps]

TasksOf(calls) == {calls[i].task : i \in DOMAIN calls}

DepsOf(calls) ==
  [t \in TasksOf(calls) |->
     UNION {ToSet(calls[i].deps) : i \in {j \in DOMAIN calls : calls[j].task = t}}]

DependentsOf(calls) ==
  [d \in TasksOf(calls) |->
     LET children == SelectSeq(calls, LAMBDA c : d \in ToSet(c.deps))
     IN  [i \in DOMAIN children |-> children[i].task]]
================================================================================
