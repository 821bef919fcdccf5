------------------------------- MODULE TaskGraph -------------------------------
(***************************************************************************)
(* The dependency graph of class Task (src/tasks/tasks.h).  It is fixed    *)
(* once the Task::create calls are over: TaskRunner only reads it.         *)
(***************************************************************************)
EXTENDS Naturals, Sequences, FiniteSets

CONSTANTS
  Tasks,      \* the Task objects
  Deps,       \* dependencies_ of a task, as a set
  Dependents  \* dependents_ of a task, in the order of the Task::create calls

(***************************************************************************)
(* dependents_ is the inverse of dependencies_, and holds a task once:     *)
(* what Task::create builds when no dependency is named twice.             *)
(***************************************************************************)
IsGraph ==
  /\ IsFiniteSet(Tasks)
  /\ Deps \in [Tasks -> SUBSET Tasks]
  /\ Dependents \in [Tasks -> Seq(Tasks)]
  /\ \A d, t \in Tasks :
        d \in Deps[t] <=> \E i \in DOMAIN Dependents[d] : Dependents[d][i] = t
  /\ \A d \in Tasks : \A i, j \in DOMAIN Dependents[d] :
        Dependents[d][i] = Dependents[d][j] => i = j

IsFinal(t) == Dependents[t] = <<>>

(* The task every round ends with, in a graph that has only one. *)
Final == CHOOSE t \in Tasks : IsFinal(t)

Roots == {t \in Tasks : Deps[t] = {}}

(***************************************************************************)
(* Every task is needed, directly or not, by task f: a set that holds f    *)
(* and the dependencies of its members is the whole graph.                 *)
(***************************************************************************)
AllFeed(f) ==
  \A S \in SUBSET Tasks :
     f \in S /\ (\A t \in S : Deps[t] \subseteq S) => S = Tasks
================================================================================
