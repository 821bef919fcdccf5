----------------------------- MODULE TaskRunnerUse -----------------------------
(***************************************************************************)
(* The uses of TaskRunner that keep it correct, and the inductive          *)
(* invariant that shows it.                                                *)
(*   - One task has no dependents, it has dependencies, and all others     *)
(*     feed it: FirMultiChannelCrossover joins the results of all filters  *)
(*     in one task for this (src/crossover/fir_crossover.h).               *)
(*   - The calls of a round hand over every root once, and name the final  *)
(*     task.                                                               *)
(*   - A worker never lags behind a whole round, or there is one worker.   *)
(***************************************************************************)
EXTENDS TaskRunner

(* The entries of the vectors a round passes to run(). *)
Slots == UNION {{c} \X DOMAIN Calls[c] : c \in DOMAIN Calls}

Named(s) == Calls[s[1]][s[2]]

ASSUME UseAssumption ==
  /\ \E f \in Tasks : (\A t \in Tasks : IsFinal(t) <=> t = f) /\ Deps[f] # {} /\ AllFeed(f)
  /\ \A t \in Roots \cup {Final} : \E s \in Slots : Named(s) = t
  /\ \A r, s \in Slots : Named(r) = Named(s) => r = s
  /\ "round" \in Timing \/ \E w \in Workers : Workers = {w}
--------------------------------------------------------------------------------
(* What the loop indices and the labels of the threads say of each other. *)
WorkersOK ==
  \A w \in Workers :
     /\ pc[w] \in Executing => task[w] \in Tasks \ {Final}
     /\ At(w, "dec") => pos[w] \in DOMAIN Dependents[task[w]]
     /\ At(w, "resolve") => pos[w] - 1 \in DOMAIN Dependents[task[w]]

(* Run() has passed this entry in the current round. *)
Passed(s) ==
  \/ s[1] < call
  \/ s[1] = call /\ (At(Main, "visit") => s[2] < pos[Main])

FinalPassed == \E s \in Slots : Named(s) = Final /\ Passed(s)

CallerOK ==
  /\ pc[Main] \in {"visit", "bump", "acquire", "final"} => ~stop /\ call # 0
  /\ pc[Main] \in {"sleep", "join", "gone"} => stop
  /\ At(Main, "notify") => stop \/ call # 0
  /\ At(Main, "idle") => ~stop
  /\ At(Main, "visit") => pos[Main] \in DOMAIN Batch
  /\ pc[Main] \in {"acquire", "final"} => call = Len(Calls)
  /\ At(Main, "idle") /\ call = Len(Calls) => Final \in done
  /\ Final \in done => call = Len(Calls) /\ (At(Main, "idle") \/ stop)
  /\ submitted = {t \in Roots : \E s \in Slots : Named(s) = t /\ Passed(s)}
  /\ finalTask = IF FinalPassed /\ Final \notin done THEN Final ELSE NoTask

(* Before the first call there is nothing to run. *)
Fresh ==
  call = 0 => active = <<>> /\ done = {} /\ \A w \in Workers : pc[w] \notin Executing

Queued(t)    == \E i \in DOMAIN active : active[i] = t
Held(t)      == \E w \in Workers : At(w, "call") /\ task[w] = t
Resolving(t) == \E w \in Workers : At(w, "resolve") /\ Visited(w) = t
Claimed      == ready # 0 \/ At(Main, "final")

(* No two threads are inside Task::execute of one task, and only a single   *)
(* worker may still be there when the next round has begun.                 *)
OneExecutes ==
  /\ \A v, w \in Workers :
        v # w /\ pc[v] \in Executing /\ pc[w] \in Executing => task[v] # task[w]
  /\ \A w \in Workers :
        /\ At(w, "call") => task[w] \notin done
        /\ pc[w] \in {"dec", "resolve"} => task[w] \in done
        /\ At(w, "reset") => task[w] \in done \/ (done = {} /\ Workers = {w})

(* A task is queued, held by a worker, or done: one of these, and once. *)
OnePlace ==
  /\ \A i, j \in DOMAIN active : active[i] = active[j] => i = j
  /\ \A t \in Tasks : Queued(t) => t \notin done /\ ~Held(t) /\ t # Final
  /\ \A t \in Tasks : Resolving(t) => t \notin done /\ ~Queued(t) /\ ~Held(t)
  /\ \A v, w \in Workers :
        At(v, "resolve") /\ At(w, "resolve") /\ Visited(v) = Visited(w) => v = w
  /\ ready \in {0, 1}
  /\ ready = 1 => ~At(Main, "final")
  /\ Claimed => Final \notin done /\ ~Resolving(Final)

Started(t) ==
  \/ t \in done \/ Queued(t) \/ Held(t) \/ Resolving(t)
  \/ t = Final /\ Claimed

(* Only a task none of whose dependencies is owed gets that far, and a root *)
(* only when run() pushed it.                                               *)
Released ==
  \A t \in Tasks :
     Started(t) => /\ OwedDeps(t) = {}
                   /\ t \in Roots => t \in submitted

(* What the graph's tasks, counts and queue say of each other. *)
TasksOK == WorkersOK /\ Fresh /\ OneExecutes /\ OnePlace /\ Released /\ CountExact

IInv == TypeOK /\ CallerOK /\ TasksOK
================================================================================
