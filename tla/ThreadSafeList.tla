---------------------------- MODULE ThreadSafeList -----------------------------
(***************************************************************************)
(* src/tasks/thread_safe_list.h: an intrusive stack of nodes linked by     *)
(* next_, with compare-and-swap on head_.  One action is one access to     *)
(* head_ or to a next_.                                                    *)
(*                                                                         *)
(* The nodes are Task objects, which TaskRunner pushes again in every      *)
(* round, so a thread that stopped inside pop() may hold the address of a  *)
(* node that was popped and pushed in the meantime.                        *)
(***************************************************************************)
EXTENDS Naturals, Sequences, FiniteSets

CONSTANTS
  Nodes,    \* the nodes
  Null,     \* nullptr
  Poppers,  \* the threads that call pop(): the workers
  Pushers,  \* the threads that call push(): the workers and the caller
  Reuse     \* FALSE: a node is not pushed while a thread in pop() holds its address

ASSUME ListAssumption ==
  /\ IsFiniteSet(Nodes) /\ Null \notin Nodes
  /\ Reuse \in BOOLEAN

VARIABLES
  head,  \* head_
  next,  \* next_ of each node
  pc,    \* where each thread is in push() or pop()
  cur,   \* currentHead of each thread
  arg,   \* the new head a thread passes to compare_exchange_weak
  held   \* the nodes that are not on the list

vars == <<head, next, pc, cur, arg, held>>

Threads == Poppers \cup Pushers

Pointers == Nodes \cup {Null}

Goto(th, l) == pc' = [pc EXCEPT ![th] = l]

(* The call of th returns: its locals are gone. *)
Return(th) ==
  /\ Goto(th, "idle")
  /\ cur' = [cur EXCEPT ![th] = Null]
  /\ arg' = [arg EXCEPT ![th] = Null]

(* next_ is not initialised. *)
Init ==
  /\ head = Null
  /\ next \in [Nodes -> Pointers]
  /\ pc = [th \in Threads |-> "idle"]
  /\ cur = [th \in Threads |-> Null]
  /\ arg = [th \in Threads |-> Null]
  /\ held = Nodes
--------------------------------------------------------------------------------
InPop(th) == pc[th] \in {"popNext", "popSwap"}

(* pop(): load head_; an empty list returns nullptr at once. *)
PopLoad(th) ==
  /\ th \in Poppers
  /\ pc[th] \in {"idle", "popLoad"}
  /\ cur' = [cur EXCEPT ![th] = head]
  /\ Goto(th, IF head = Null THEN "idle" ELSE "popNext")
  /\ UNCHANGED <<head, next, arg, held>>

PopNext(th) ==
  /\ pc[th] = "popNext"
  /\ arg' = [arg EXCEPT ![th] = next[cur[th]]]
  /\ Goto(th, "popSwap")
  /\ UNCHANGED <<head, next, cur, held>>

(* Mutant: pop() returns the successor of the node it unlinks. *)
Mut_PopReturnsNext(th) ==
  /\ pc[th] = "popSwap"
  /\ head = cur[th]
  /\ head' = arg[th]
  /\ held' = held \cup {arg[th]}
  /\ Return(th)
  /\ UNCHANGED next

(* Mutant: pop() stores the new head without comparing. *)
Mut_PopStores(th) ==
  /\ pc[th] = "popSwap"
  /\ head' = arg[th]
  /\ held' = held \cup {cur[th]}
  /\ Return(th)
  /\ UNCHANGED next

PopSwap(th) ==
  /\ pc[th] = "popSwap"
  /\ head = cur[th]
  /\ head' = arg[th]
  /\ held' = held \cup {cur[th]}
  /\ Return(th)
  /\ UNCHANGED next
--------------------------------------------------------------------------------
(* push(node) of a node no thread is pushing. *)
PushBegin(th, n) ==
  /\ th \in Pushers
  /\ pc[th] = "idle"
  /\ n \in held
  /\ \A u \in Threads : pc[u] \in {"pushLoad", "pushLink", "pushSwap"} => arg[u] # n
  /\ ~Reuse => \A u \in Threads : InPop(u) => cur[u] # n
  /\ arg' = [arg EXCEPT ![th] = n]
  /\ Goto(th, "pushLoad")
  /\ UNCHANGED <<head, next, cur, held>>

PushLoad(th) ==
  /\ pc[th] = "pushLoad"
  /\ cur' = [cur EXCEPT ![th] = head]
  /\ Goto(th, "pushLink")
  /\ UNCHANGED <<head, next, arg, held>>

PushLink(th) ==
  /\ pc[th] = "pushLink"
  /\ next' = [next EXCEPT ![arg[th]] = cur[th]]
  /\ Goto(th, "pushSwap")
  /\ UNCHANGED <<head, cur, arg, held>>

(* Mutant: push() stores the new head without comparing. *)
Mut_PushStores(th) ==
  /\ pc[th] = "pushSwap"
  /\ head' = arg[th]
  /\ held' = held \ {arg[th]}
  /\ Return(th)
  /\ UNCHANGED next

PushSwap(th) ==
  /\ pc[th] = "pushSwap"
  /\ head = cur[th]
  /\ head' = arg[th]
  /\ held' = held \ {arg[th]}
  /\ Return(th)
  /\ UNCHANGED next

(* compare_exchange_weak fails: head_ moved, or for no reason.  The head is  *)
(* loaded again, push() keeps its argument.                                  *)
SwapFails(th) ==
  /\ pc[th] \in {"popSwap", "pushSwap"}
  /\ Goto(th, IF InPop(th) THEN "popLoad" ELSE "pushLoad")
  /\ cur' = [cur EXCEPT ![th] = Null]
  /\ arg' = [arg EXCEPT ![th] = IF InPop(th) THEN Null ELSE @]
  /\ UNCHANGED <<head, next, held>>
--------------------------------------------------------------------------------
Next ==
  \E th \in Threads :
     \/ PopLoad(th) \/ PopNext(th) \/ PopSwap(th)
     \/ PushLoad(th) \/ PushLink(th) \/ PushSwap(th)
     \/ SwapFails(th)
     \/ \E n \in Nodes : PushBegin(th, n)

Spec == Init /\ [][Next]_vars
--------------------------------------------------------------------------------
(* The type of every variable. *)
TypeOK ==
  /\ head \in Pointers
  /\ next \in [Nodes -> Pointers]
  /\ pc \in [Threads -> {"idle", "popLoad", "popNext", "popSwap",
                         "pushLoad", "pushLink", "pushSwap"}]
  /\ cur \in [Threads -> Pointers]
  /\ arg \in [Threads -> Pointers]
  /\ held \in SUBSET Nodes

(* The node reached from head_ over k links, Null past the end of the list. *)
Reached[k \in 0 .. Cardinality(Nodes)] ==
  IF k = 0 THEN head
  ELSE IF Reached[k - 1] = Null THEN Null ELSE next[Reached[k - 1]]

OnList == {Reached[k] : k \in 0 .. Cardinality(Nodes)} \ {Null}

(***************************************************************************)
(* The list ends, and the nodes on it are those that were pushed and not   *)
(* yet popped: no task is lost, and none is handed to two workers.         *)
(***************************************************************************)
ListSound ==
  /\ Reached[Cardinality(Nodes)] = Null
  /\ OnList = Nodes \ held

Contents == [k \in 1 .. Cardinality(OnList) |-> Reached[k - 1]]

Atomic == INSTANCE AtomicStack WITH stack <- Contents

(***************************************************************************)
(* push and pop behave as if each happened at one instant, that of its     *)
(* successful compare_exchange.                                            *)
(***************************************************************************)
AtomicSpec == Atomic!Spec
--------------------------------------------------------------------------------
(* The inductive invariant of the proofs in ThreadSafeListProofs. *)

InPush(th) == pc[th] \in {"pushLoad", "pushLink", "pushSwap"}

(* s is the list: head_ is its first node and next_ leads from each to the  *)
(* one after it.                                                            *)
Linked(s) ==
  /\ s \in Seq(Nodes)
  /\ \A j, k \in DOMAIN s : s[j] = s[k] => j = k
  /\ head = IF s = <<>> THEN Null ELSE s[1]
  /\ \A k \in DOMAIN s : next[s[k]] = IF k = Len(s) THEN Null ELSE s[k + 1]

(* The list holds the nodes that are not held. *)
ContentsOK == Linked(Contents) /\ {Contents[k] : k \in DOMAIN Contents} = Nodes \ held

(* A thread in push() has a node of its own, and has linked it to the head *)
(* it compares with.                                                       *)
PushOK ==
  /\ \A th \in Threads : InPush(th) => arg[th] \in held
  /\ \A th, u \in Threads : InPush(th) /\ InPush(u) /\ arg[th] = arg[u] => th = u
  /\ \A th \in Threads : pc[th] = "pushSwap" => next[arg[th]] = cur[th]

(* The node a thread in pop() looks at is not pushed meanwhile, and its    *)
(* successor is still the one the thread has read.                         *)
PopOK ==
  \A th \in Threads : InPop(th) =>
    /\ cur[th] \in Nodes
    /\ \A u \in Threads : InPush(u) => arg[u] # cur[th]
    /\ pc[th] = "popSwap" => arg[th] = next[cur[th]]

(***************************************************************************)
(* What the theorems rest on: the nodes that are not held are linked from  *)
(* head_ to null, and what a thread is about to store is still right if    *)
(* head_ is still what it has read.                                        *)
(***************************************************************************)
ListInv == TypeOK /\ ContentsOK /\ PushOK /\ PopOK
================================================================================
