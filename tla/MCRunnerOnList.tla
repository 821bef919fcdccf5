---------------------------- MODULE MCRunnerOnList -----------------------------
(***************************************************************************)
(* A graph in which a worker pushes (mul, when root has run), and in which *)
(* two roots are on the list at once.                                      *)
(***************************************************************************)
EXTENDS RunnerOnList, TLC

Creation == INSTANCE TaskCreation

ListCalls ==
  << Creation!Call("in", <<>>),
     Creation!Call("root", <<>>),
     Creation!Call("mul", <<"root">>),
     Creation!Call("result", <<"in", "mul">>) >>

ListTasks      == Creation!TasksOf(ListCalls)
ListDeps       == Creation!DepsOf(ListCalls)
ListDependents == Creation!DependentsOf(ListCalls)
ListRound      == << <<"root", "result">>, <<"in">> >>

RoundTiming == {"round"}

WorkerSymmetry == Permutations(Workers)
================================================================================
