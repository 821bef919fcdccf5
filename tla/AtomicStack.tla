------------------------------ MODULE AtomicStack ------------------------------
(***************************************************************************)
(* What class ThreadSafeList promises TaskRunner: a stack whose push and   *)
(* pop each happen at one instant.  A node is on the stack or held by the  *)
(* threads, never both.                                                    *)
(***************************************************************************)
EXTENDS Sequences, FiniteSets

CONSTANT Nodes

VARIABLES
  stack,  \* the nodes pushed and not yet popped, the last one pushed first
  held    \* the nodes a thread may push

vars == <<stack, held>>

Init == stack = <<>> /\ held = Nodes

Push(n) ==
  /\ n \in held
  /\ stack' = <<n>> \o stack
  /\ held' = held \ {n}

Pop ==
  /\ stack # <<>>
  /\ stack' = Tail(stack)
  /\ held' = held \cup {Head(stack)}

Next == Pop \/ \E n \in Nodes : Push(n)

Spec == Init /\ [][Next]_vars
================================================================================
