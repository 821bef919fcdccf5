------------------------------ MODULE TaskRounds -------------------------------
(***************************************************************************)
(* What a TaskRunner promises the code that uses it (FirMultiChannel-      *)
(* Crossover and the tests): in a round every task of the graph runs       *)
(* once, after its dependencies; the round is over when the caller has run *)
(* the final task, and then every task has run.                            *)
(***************************************************************************)
EXTENDS TaskGraph

VARIABLES
  submitted,  \* the root tasks the caller has handed over in this round
  running,    \* the tasks whose callback is running
  done        \* the tasks whose callback has returned in this round

vars == <<submitted, running, done>>

Init == submitted = {} /\ running = {} /\ done = {}

Submit(t) ==
  /\ t \in Roots \ submitted
  /\ submitted' = submitted \cup {t}
  /\ UNCHANGED <<running, done>>

Begin(t) ==
  /\ t \in Tasks \ (running \cup done \cup {Final})
  /\ Deps[t] \subseteq done
  /\ t \in Roots => t \in submitted
  /\ running' = running \cup {t}
  /\ UNCHANGED <<submitted, done>>

End(t) ==
  /\ t \in running
  /\ running' = running \ {t}
  /\ done' = done \cup {t}
  /\ UNCHANGED submitted

EndRound ==
  /\ Final \notin done
  /\ done = Tasks \ {Final}
  /\ running = {}
  /\ done' = Tasks
  /\ UNCHANGED <<submitted, running>>

NewRound ==
  /\ done = Tasks
  /\ submitted' = {}
  /\ done' = {}
  /\ UNCHANGED running

Next ==
  \/ \E t \in Tasks : Submit(t) \/ Begin(t) \/ End(t)
  \/ EndRound
  \/ NewRound

Spec == Init /\ [][Next]_vars

(* A round that is handed over completely ends. *)
Progress == (submitted = Roots /\ Final \notin done) ~> (Final \in done)
================================================================================
