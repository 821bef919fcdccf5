----------------------------- MODULE MCCrossover -------------------------------
(***************************************************************************)
(* Two filters of three blocks on one input channel: one with a fan-in of  *)
(* one, which gets two leaves and a sum, and one with a fan-in of two,     *)
(* whose only leaf has two blocks.                                         *)
(***************************************************************************)
EXTENDS Crossover

Creation == INSTANCE TaskCreation

In         == Job("in", 0)
Leaf(f, b) == <<"leaf", f, b>>

MCCalls ==
  << Creation!Call(In, <<>>),
     Creation!Call(Job("root", 1), <<>>),
     Creation!Call(Leaf(1, 1), <<Job("root", 1)>>),
     Creation!Call(Leaf(1, 2), <<Job("root", 1)>>),
     Creation!Call(Job("shift", 1), <<In, Leaf(1, 1), Leaf(1, 2)>>),
     Creation!Call(Job("sum", 1), <<Leaf(1, 1), Leaf(1, 2)>>),
     Creation!Call(Job("combine", 1), <<In, Job("sum", 1)>>),
     Creation!Call(Job("result", 1), <<Job("combine", 1), Job("shift", 1)>>),
     Creation!Call(Job("root", 2), <<>>),
     Creation!Call(Leaf(2, 1), <<Job("root", 2)>>),
     Creation!Call(Job("shift", 2), <<In, Leaf(2, 1)>>),
     Creation!Call(Job("combine", 2), <<In, Leaf(2, 1)>>),
     Creation!Call(Job("result", 2), <<Job("combine", 2), Job("shift", 2)>>),
     Creation!Call(Job("combined", 0), <<Job("result", 1), Job("result", 2)>>) >>

MCTasks      == Creation!TasksOf(MCCalls)
MCDeps       == Creation!DepsOf(MCCalls)
MCDependents == Creation!DependentsOf(MCCalls)
MCChannels   == {0}
MCFilters    == {1, 2}
MCChannel    == <<0, 0>>
MCNumBlocks  == <<3, 3>>
MCCombine    == <<1, 2>>
================================================================================
