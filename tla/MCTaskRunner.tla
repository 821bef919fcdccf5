----------------------------- MODULE MCTaskRunner ------------------------------
(***************************************************************************)
(* One filter of two blocks on one input channel: the graph                *)
(* Convolution::getInputTask and getOutputTasks build for it, and the      *)
(* rounds of Test_ParallelConvolution (src/crossover/tests.cpp): the       *)
(* background tasks without wait, then the input task with wait.           *)
(***************************************************************************)
EXTENDS TaskRunnerUse

Creation == INSTANCE TaskCreation

PipelineCalls ==
  << Creation!Call("in", <<>>),
     Creation!Call("root", <<>>),
     Creation!Call("mul", <<"root">>),
     Creation!Call("shift", <<"in", "mul">>),
     Creation!Call("combine", <<"in", "mul">>),
     Creation!Call("result", <<"combine", "shift">>) >>

PipelineTasks      == Creation!TasksOf(PipelineCalls)
PipelineDeps       == Creation!DepsOf(PipelineCalls)
PipelineDependents == Creation!DependentsOf(PipelineCalls)
PipelineRound      == << <<"root", "result">>, <<"in">> >>

NoTiming    == {}
ParkTiming  == {"round", "park"}
SleepTiming == {"round", "sleep"}
================================================================================
