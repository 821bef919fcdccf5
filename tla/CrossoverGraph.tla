----------------------------- MODULE CrossoverGraph ----------------------------
(***************************************************************************)
(* The task graph of a crossover, as the module Crossover runs it and as   *)
(* ConvolutionTasks builds it: a task is <<kind, filter or channel,        *)
(* number>>.  The first block a leaf task multiplies is its number.        *)
(***************************************************************************)
EXTENDS TaskGraph, Integers, FiniteSetsExt

CONSTANTS
  Channels,   \* the input channels
  Filters,    \* the filters, one output each
  Channel,    \* the input channel of each filter
  NumBlocks,  \* numBlocks_ of each filter
  Combine     \* combineBlocks of each filter

Kind(t)      == t[1]
Of(kind)     == {t \in Tasks : Kind(t) = kind}
Job(kind, n) == <<kind, n, 0>>

Parts      == Of("leaf") \cup Of("sum")
PartsOf(f) == {t \in Parts : t[2] = f}

(* The blocks a leaf multiplies and adds. *)
Blocks(t) == t[3] .. Min({NumBlocks[t[2]], t[3] + Combine[t[2]]}) - 1

Longest == Max({NumBlocks[f] : f \in Filters})

(***************************************************************************)
(* The graph when every filter has two blocks or more and every channel a  *)
(* filter: otherwise other tasks than the combined one have no dependents. *)
(***************************************************************************)
Layout ==
  /\ IsFiniteSet(Filters) /\ Filters # {}
  /\ Of("combined") # {}
  /\ \A t \in Tasks : IsFinal(t) <=> Kind(t) = "combined"
  /\ Of("in") = {Job("in", c) : c \in Channels}
  /\ \A kind \in {"shift", "combine", "result"} : Of(kind) = {Job(kind, f) : f \in Filters}
  /\ \A t \in Parts : t[2] \in Filters
  /\ \A t \in Of("leaf") : t[3] \in Nat \ {0}
  /\ \A t \in Of("in") : Deps[t] = {}
  /\ \A t \in Of("sum") : Deps[t] \subseteq PartsOf(t[2])
  /\ \A f \in Filters :
        LET in == Job("in", Channel[f])
        IN  /\ Deps[Job("shift", f)] = {in} \cup {t \in Of("leaf") : t[2] = f}
            /\ in \in Deps[Job("combine", f)]
            /\ Deps[Job("combine", f)] \subseteq {in} \cup PartsOf(f)
            /\ Deps[Job("result", f)] = {Job("combine", f), Job("shift", f)}

(* cov is what each artifact adds up: no block twice, and block 0 apart all *)
(* of them in the operands of the combine task.                             *)
IsCover(cov) ==
  LET Splits(S, ts) ==
        /\ S = UNION {cov[t] : t \in ts}
        /\ \A t, u \in ts : t # u => cov[t] \cap cov[u] = {}
  IN  /\ \A t \in Of("leaf") : cov[t] = Blocks(t)
      /\ \A t \in Of("sum") : Splits(cov[t], Deps[t])
      /\ \A f \in Filters : Splits(1 .. NumBlocks[f] - 1, Deps[Job("combine", f)] \ Of("in"))

Shape == Layout /\ \E cov \in [Parts -> SUBSET (1 .. Longest - 1)] : IsCover(cov)
================================================================================
