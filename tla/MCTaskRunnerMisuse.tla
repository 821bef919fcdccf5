-------------------------- MODULE MCTaskRunnerMisuse ---------------------------
(***************************************************************************)
(* Instances outside UseAssumption: a worker that lags behind a round, and *)
(* the graph Convolution::getOutputTasks builds for a filter of one block, *)
(* in which nothing depends on rootTask.                                   *)
(***************************************************************************)
EXTENDS TaskRunner, TLC

Creation == INSTANCE TaskCreation

ChainCalls ==
  << Creation!Call("in", <<>>),
     Creation!Call("result", <<"in">>),
     Creation!Call("fin", <<"result">>) >>

ChainTasks      == Creation!TasksOf(ChainCalls)
ChainDeps       == Creation!DepsOf(ChainCalls)
ChainDependents == Creation!DependentsOf(ChainCalls)
ChainRound      == << <<"result", "fin">>, <<"in">> >>

OneBlockCalls ==
  << Creation!Call("in", <<>>),
     Creation!Call("root", <<>>),
     Creation!Call("shift", <<"in">>),
     Creation!Call("combine", <<"in">>),
     Creation!Call("result", <<"combine", "shift">>) >>

OneBlockTasks      == Creation!TasksOf(OneBlockCalls)
OneBlockDeps       == Creation!DepsOf(OneBlockCalls)
OneBlockDependents == Creation!DependentsOf(OneBlockCalls)
OneBlockRound      == << <<"root", "result">>, <<"in">> >>

ParkTiming == {"park"}
BothTiming == {"round", "park"}
================================================================================
