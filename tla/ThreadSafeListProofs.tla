-------------------------- MODULE ThreadSafeListProofs -------------------------
(***************************************************************************)
(* Proofs about ThreadSafeList, for any finite set of nodes and any        *)
(* threads: it is a stack, provided no node is pushed while a thread in    *)
(* pop() holds its address.  The lemmas about the actions do not need that *)
(* proviso, save for PushBegin, so that RunnerOnListProofs can use them    *)
(* with what TaskRunner does instead.                                      *)
(***************************************************************************)
EXTENDS ThreadSafeList, SetInduction, FunctionTheorems

(* A list that ends has no more nodes than there are. *)
LEMMA LinkedLength ==
  ASSUME NEW s, Linked(s)
  PROVE  /\ Len(s) \in 0 .. Cardinality(Nodes) /\ Cardinality(Nodes) \in Nat
         /\ DOMAIN s = 1 .. Len(s)
         /\ Cardinality({s[k] : k \in DOMAIN s}) = Len(s)
<1> DEFINE R == {s[k] : k \in DOMAIN s}
<1>1. Len(s) \in Nat /\ DOMAIN s = 1 .. Len(s) /\ s \in [1 .. Len(s) -> Nodes] /\ R \subseteq Nodes
  BY DEF Linked
<1>2. s \in Bijection(1 .. Len(s), R)
  BY <1>1 DEF Linked, Bijection, Injection, Surjection, IsInjective
<1>3. IsFiniteSet(1 .. Len(s)) /\ Cardinality(1 .. Len(s)) = Len(s)
  <2>1. ASSUME NEW n \in Nat PROVE IsFiniteSet(1 .. n) /\ Cardinality(1 .. n) = n
    <3>1. 1 \in Int /\ n \in Int OBVIOUS
    <3>2. IsFiniteSet(1 .. n) /\ Cardinality(1 .. n) = IF 1 > n THEN 0 ELSE n - 1 + 1
      BY <3>1, FS_Interval
    <3> QED BY <3>2
  <2> QED BY <1>1, <2>1
<1>4. Cardinality(R) = Len(s)
  <2> HIDE DEF R
  <2>1. ExistsBijection(1 .. Len(s), R) BY <1>2 DEF ExistsBijection
  <2> QED BY <1>3, <2>1, FS_Bijection
<1>5. Cardinality(R) <= Cardinality(Nodes) /\ Cardinality(Nodes) \in Nat
  <2> HIDE DEF R
  <2> QED BY <1>1, ListAssumption, FS_Subset, FS_CardinalityType
<1>6. Len(s) \in 0 .. Cardinality(Nodes)
  <2> HIDE DEF R
  <2> QED BY <1>1, <1>4, <1>5
<1> QED BY <1>1, <1>4, <1>5, <1>6, Zenon

(* What Reached, OnList and Contents are for a list that ends. *)
LEMMA ContentsOf ==
  ASSUME NEW s, Linked(s), head \in Pointers
  PROVE  /\ \A k \in 0 .. Cardinality(Nodes) :
              Reached[k] = IF k < Len(s) THEN s[k + 1] ELSE Null
         /\ OnList = {s[k] : k \in DOMAIN s}
         /\ Contents = s
<1> DEFINE N == Cardinality(Nodes)
           L == Len(s)
           w == [k \in 0 .. N |-> IF k < L THEN s[k + 1] ELSE Null]
<1>1. L \in 0 .. N /\ N \in Nat /\ DOMAIN s = 1 .. L BY LinkedLength
<1>2. s \in [1 .. L -> Nodes] /\ Null \notin Nodes BY ListAssumption DEF Linked
<1>w. \A k \in 0 .. N : w[k] = IF k < L THEN s[k + 1] ELSE Null OBVIOUS
<1>3. \A k \in 0 .. N : w[k] = IF k = 0 THEN head
                        ELSE IF w[k - 1] = Null THEN Null ELSE next[w[k - 1]]
  <2>1. ASSUME NEW k \in 0 .. N
        PROVE  w[k] = IF k = 0 THEN head
                      ELSE IF w[k - 1] = Null THEN Null ELSE next[w[k - 1]]
    <3> HIDE DEF N
    <3>1. CASE k = 0
      <4>1. w[k] = IF 0 < L THEN s[1] ELSE Null BY <1>1, <3>1
      <4> QED BY <1>1, <3>1, <4>1 DEF Linked
    <3>2. CASE k # 0 /\ k <= L
      <4>1. w[k - 1] = s[k] BY <1>1, <3>2
      <4>2. k \in DOMAIN s BY <1>1, <3>2
      <4>3. s[k] # Null BY <1>2, <1>1, <4>2
      <4>4. next[s[k]] = IF k = L THEN Null ELSE s[k + 1] BY <4>2 DEF Linked
      <4>5. w[k] = IF k < L THEN s[k + 1] ELSE Null BY <1>w
      <4> HIDE DEF w, L
      <4>6. w[k] = next[s[k]] BY <1>1, <3>2, <4>4, <4>5
      <4> QED BY <3>2, <4>1, <4>3, <4>6
    <3>3. CASE k > L
      <4>1. w[k - 1] = Null /\ w[k] = Null BY <1>1, <3>3
      <4> QED BY <1>1, <3>3, <4>1
    <3> QED BY <1>1, <3>1, <3>2, <3>3
  <2> QED BY <2>1
<1>4. Reached = [k \in 0 .. N |-> IF k = 0 THEN head
                   ELSE IF Reached[k - 1] = Null THEN Null ELSE next[Reached[k - 1]]]
  <2> DEFINE g == [k \in 0 .. N |-> IF k = 0 THEN head
                     ELSE IF w[k - 1] = Null THEN Null ELSE next[w[k - 1]]]
  <2>1. w = g
    <3>1. \A k \in 0 .. N : g[k] = w[k]
      <4> HIDE DEF w
      <4> QED BY <1>3
    <3> QED BY <3>1
  <2> HIDE DEF w
  <2> QED BY <2>1 DEF Reached
<1>5. \A k \in 0 .. N : Reached[k] = w[k]
  <2> DEFINE S == {k \in Nat : k \in 0 .. N => Reached[k] = w[k]}
  <2> HIDE DEF N, w
  <2>1. 0 \in S BY <1>1, <1>3, <1>4
  <2>2. ASSUME NEW k \in Nat, k \in S PROVE k + 1 \in S
    <3>1. SUFFICES ASSUME k + 1 \in 0 .. N PROVE Reached[k + 1] = w[k + 1] OBVIOUS
    <3>2. k \in 0 .. N /\ (k + 1) - 1 = k /\ k + 1 # 0 BY <1>1, <3>1
    <3>3. Reached[k] = w[k] BY <2>2, <3>2
    <3>4. Reached[k + 1] = IF Reached[k] = Null THEN Null ELSE next[Reached[k]]
      BY <1>4, <3>1, <3>2
    <3>5. w[k + 1] = IF (k + 1) = 0 THEN head
            ELSE IF w[(k + 1) - 1] = Null THEN Null ELSE next[w[(k + 1) - 1]]
      BY <1>3, <3>1
    <3>6. w[k + 1] = IF w[k] = Null THEN Null ELSE next[w[k]] BY <3>2, <3>5
    <3> QED BY <3>3, <3>4, <3>6
  <2>3. Nat \subseteq S
    <3> HIDE DEF S
    <3> QED BY <2>1, <2>2, NaturalsIn
  <2> QED BY <1>1, <2>3
<1>6. \A k \in 0 .. N : Reached[k] = IF k < L THEN s[k + 1] ELSE Null BY <1>5
<1>7. OnList = {s[k] : k \in DOMAIN s}
  <2> HIDE DEF N, L
  <2>1. ASSUME NEW k \in 0 .. N, Reached[k] # Null PROVE Reached[k] \in {s[j] : j \in DOMAIN s}
    <3>1. k < L /\ Reached[k] = s[k + 1] BY <1>6, <2>1
    <3>2. k + 1 \in DOMAIN s BY <1>1, <3>1
    <3> QED BY <3>1, <3>2
  <2>2. ASSUME NEW j \in DOMAIN s PROVE s[j] # Null /\ j - 1 \in 0 .. N /\ Reached[j - 1] = s[j]
    <3>1. j - 1 \in 0 .. N /\ j - 1 < L /\ (j - 1) + 1 = j BY <1>1
    <3>2. Reached[j - 1] = s[j] BY <1>6, <3>1
    <3> QED BY <1>1, <1>2, <3>1, <3>2
  <2> QED BY <2>1, <2>2 DEF OnList, N
<1>8. Contents = s
  <2>1. Cardinality(OnList) = L BY <1>7, LinkedLength
  <2>2. Contents = [k \in 1 .. L |-> Reached[k - 1]] BY <2>1 DEF Contents
  <2>3. \A k \in 1 .. L : Reached[k - 1] = s[k]
    <3> HIDE DEF N, L
    <3>1. SUFFICES ASSUME NEW k \in 1 .. L PROVE Reached[k - 1] = s[k] OBVIOUS
    <3>2. k - 1 \in 0 .. N /\ k - 1 < L /\ (k - 1) + 1 = k BY <1>1
    <3> QED BY <1>6, <3>2
  <2> HIDE DEF L
  <2> QED BY <1>2, <2>2, <2>3
<1> QED BY <1>6, <1>7, <1>8

(* Contents is the only list that head_ and next_ link, in every state. *)
LEMMA ContentsIs == \A s : Linked(s) /\ head \in Pointers => Contents = s
  BY ContentsOf

(* The same of the state after a step. *)
LEMMA ContentsIsAfter == (\A s : Linked(s) /\ head \in Pointers => Contents = s)'
  BY ContentsIs, PTL

(* The list of a state that links s is s: its nodes are those not held. *)
LEMMA ListAfter ==
  ASSUME NEW s, Linked(s)', head' \in Pointers, {s[k] : k \in DOMAIN s} = Nodes \ held'
  PROVE  ContentsOK' /\ Contents' = s
<1>1. head' \in Pointers <=> (head \in Pointers)' BY DEF Pointers
<1>2. Contents' = s BY <1>1, ContentsIsAfter
<1> QED BY <1>2 DEF ContentsOK

(* A step that changes neither head_, nor a next_, nor who holds which node *)
(* leaves the list as it is.                                                *)
LEMMA ListUnchanged ==
  ASSUME ListInv, UNCHANGED <<head, next, held>>
  PROVE  ContentsOK' /\ Contents' = Contents
<1>1. PICK s : s = Contents OBVIOUS
<1>2. Linked(s) /\ {s[k] : k \in DOMAIN s} = Nodes \ held' /\ head' \in Pointers
  BY <1>1 DEF ListInv, TypeOK, ContentsOK
<1>3. Linked(s)' BY <1>2 DEF Linked
<1> QED BY <1>1, <1>2, <1>3, ListAfter

(* The first node of the list. *)
LEMMA HeadFacts ==
  ASSUME ListInv
  PROVE  /\ Contents \in Seq(Nodes) /\ Linked(Contents) /\ head \in Pointers
         /\ head # Null => /\ Contents # <<>> /\ Head(Contents) = head
                          /\ head \in Nodes \ held
         /\ head = Null => Contents = <<>>
<1>1. /\ Linked(Contents) /\ head \in Pointers /\ Contents \in Seq(Nodes)
      /\ {Contents[k] : k \in DOMAIN Contents} = Nodes \ held
  BY DEF ListInv, ContentsOK, TypeOK, Linked
<1> HIDE DEF ListInv
<1>2. ASSUME NEW s \in Seq(Nodes), Linked(s), {s[k] : k \in DOMAIN s} = Nodes \ held
      PROVE  /\ head # Null => s # <<>> /\ Head(s) = head /\ head \in Nodes \ held
             /\ head = Null => s = <<>>
  <2>1. CASE s = <<>> BY <2>1, <1>2 DEF Linked
  <2>2. CASE s # <<>>
    <3>1. 1 \in DOMAIN s /\ s[1] \in Nodes /\ Head(s) = s[1] BY <2>2
    <3>2. head = s[1] BY <1>2, <2>2 DEF Linked
    <3> QED BY <1>2, <3>1, <3>2, ListAssumption
  <2> QED BY <2>1, <2>2
<1> QED BY <1>1, <1>2
--------------------------------------------------------------------------------
(* The initial state: the list is empty. *)
LEMMA ListInit == Init => ListInv /\ Contents = <<>>
<1> SUFFICES ASSUME Init PROVE ListInv /\ Contents = <<>> OBVIOUS
<1>1. TypeOK BY DEF Init, TypeOK, Pointers
<1>2. Linked(<<>>) BY DEF Linked, Init
<1>3. Contents = <<>> BY <1>1, <1>2, ContentsIs DEF TypeOK
<1>4. ContentsOK BY <1>2, <1>3 DEF ContentsOK, Init
<1>5. PushOK /\ PopOK BY DEF Init, PushOK, PopOK, InPush, InPop
<1> QED BY <1>1, <1>3, <1>4, <1>5 DEF ListInv

(* pop() loads head_: the node it will look at is on the list. *)
LEMMA PopLoadInv ==
  ASSUME ListInv, NEW th \in Threads, PopLoad(th)
  PROVE  ListInv' /\ Contents' = Contents
<1> USE DEF PopLoad, Goto
<1>1. TypeOK' BY DEF ListInv, TypeOK
<1>2. ContentsOK' /\ Contents' = Contents BY ListUnchanged
<1>3. PushOK' BY DEF ListInv, TypeOK, PushOK, InPush
<1>4. PopOK'
  <2>1. head # Null => head \in Nodes \ held BY HeadFacts
  <2> QED BY <2>1 DEF ListInv, TypeOK, PopOK, PushOK, InPush, InPop
<1> QED BY <1>1, <1>2, <1>3, <1>4 DEF ListInv

(* pop() reads next_ of the node it looks at. *)
LEMMA PopNextInv ==
  ASSUME ListInv, NEW th \in Threads, PopNext(th)
  PROVE  ListInv' /\ Contents' = Contents
<1> USE DEF PopNext, Goto
<1>1. TypeOK' BY DEF ListInv, TypeOK, PopOK, InPop
<1>2. ContentsOK' /\ Contents' = Contents BY ListUnchanged
<1>3. PushOK' BY DEF ListInv, TypeOK, PushOK, InPush
<1>4. PopOK' BY DEF ListInv, TypeOK, PopOK, InPush, InPop
<1> QED BY <1>1, <1>2, <1>3, <1>4 DEF ListInv

(* push() begins with a node no thread in pop() looks at. *)
LEMMA PushBeginInv ==
  ASSUME ListInv, NEW th \in Threads, NEW n \in Nodes, PushBegin(th, n),
         \A u \in Threads : InPop(u) => cur[u] # n
  PROVE  ListInv' /\ Contents' = Contents
<1> USE DEF PushBegin, Goto
<1>1. TypeOK' BY DEF ListInv, TypeOK, Pointers
<1>2. ContentsOK' /\ Contents' = Contents BY ListUnchanged
<1>3. PushOK' BY DEF ListInv, TypeOK, PushOK, InPush
<1>4. PopOK' BY DEF ListInv, TypeOK, PopOK, InPush, InPop
<1> QED BY <1>1, <1>2, <1>3, <1>4 DEF ListInv

(* push() loads head_. *)
LEMMA PushLoadInv ==
  ASSUME ListInv, NEW th \in Threads, PushLoad(th)
  PROVE  ListInv' /\ Contents' = Contents
<1> USE DEF PushLoad, Goto
<1>1. TypeOK' BY DEF ListInv, TypeOK
<1>2. ContentsOK' /\ Contents' = Contents BY ListUnchanged
<1>3. PushOK' BY DEF ListInv, TypeOK, PushOK, InPush
<1>4. PopOK' BY DEF ListInv, TypeOK, PopOK, InPush, InPop
<1> QED BY <1>1, <1>2, <1>3, <1>4 DEF ListInv

(* compare_exchange fails. *)
LEMMA SwapFailsInv ==
  ASSUME ListInv, NEW th \in Threads, SwapFails(th)
  PROVE  ListInv' /\ Contents' = Contents
<1> USE DEF SwapFails, Goto
<1>1. TypeOK' BY DEF ListInv, TypeOK, Pointers, InPop
<1>2. ContentsOK' /\ Contents' = Contents BY ListUnchanged
<1>3. PushOK' BY DEF ListInv, TypeOK, PushOK, InPush, InPop
<1>4. PopOK' BY DEF ListInv, TypeOK, PopOK, InPush, InPop
<1> QED BY <1>1, <1>2, <1>3, <1>4 DEF ListInv

(* push() links its node, which is not on the list. *)
LEMMA PushLinkInv ==
  ASSUME ListInv, NEW th \in Threads, PushLink(th)
  PROVE  ListInv' /\ Contents' = Contents
<1> USE DEF PushLink, Goto
<1>0. arg[th] \in held /\ arg[th] \in Nodes /\ held' = held /\ head' = head
  BY DEF ListInv, TypeOK, PushOK, InPush
<1>1. TypeOK' BY <1>0 DEF ListInv, TypeOK
<1>2. ContentsOK' /\ Contents' = Contents
  <2>1. ASSUME NEW s, Linked(s), {s[k] : k \in DOMAIN s} = Nodes \ held PROVE Linked(s)'
    <3>1. \A k \in DOMAIN s : next'[s[k]] = next[s[k]]
      BY <1>0, <2>1 DEF ListInv, TypeOK
    <3> QED BY <1>0, <2>1, <3>1 DEF Linked
  <2> QED BY <1>0, <1>1, <2>1, HeadFacts, ListAfter DEF ListInv, ContentsOK
<1>3. PushOK' BY <1>0 DEF ListInv, TypeOK, PushOK, InPush
<1>4. PopOK' BY <1>0 DEF ListInv, TypeOK, PopOK, InPush, InPop
<1> QED BY <1>1, <1>2, <1>3, <1>4 DEF ListInv

(* pop() unlinks the first node: head_ is still the node it looked at, whose *)
(* successor has not changed.                                                *)
LEMMA PopSwapInv ==
  ASSUME ListInv, NEW th \in Threads, PopSwap(th)
  PROVE  ListInv' /\ Contents # <<>> /\ Contents' = Tail(Contents)
         /\ held' = held \cup {Head(Contents)}
<1> USE DEF PopSwap, Goto, Return
<1>0. /\ head = cur[th] /\ cur[th] \in Nodes /\ arg[th] = next[head] /\ head' = arg[th]
      /\ held' = held \cup {head} /\ next' = next
  BY DEF ListInv, PopOK, InPop
<1>1. TypeOK' BY <1>0 DEF ListInv, TypeOK, Pointers
<1>2. head # Null /\ Contents # <<>> /\ Head(Contents) = head
  BY <1>0, HeadFacts, ListAssumption
<1>3. ContentsOK' /\ Contents' = Tail(Contents)
  <2>1. ASSUME NEW s \in Seq(Nodes), Linked(s), s # <<>>, {s[k] : k \in DOMAIN s} = Nodes \ held
        PROVE  Linked(Tail(s))' /\ {Tail(s)[k] : k \in DOMAIN Tail(s)} = Nodes \ held'
    <3>1. /\ Len(s) \in Nat \ {0} /\ DOMAIN s = 1 .. Len(s) /\ Len(Tail(s)) = Len(s) - 1
          /\ Tail(s) \in Seq(Nodes) /\ DOMAIN Tail(s) = 1 .. Len(s) - 1
          /\ \A k \in 1 .. Len(s) - 1 : Tail(s)[k] = s[k + 1]
      BY <2>1
    <3>2. \A j, k \in DOMAIN s : s[j] = s[k] => j = k BY <2>1 DEF Linked
    <3>3. \A k \in DOMAIN s : next[s[k]] = IF k = Len(s) THEN Null ELSE s[k + 1]
      BY <2>1 DEF Linked
    <3>4. head = s[1] BY <2>1 DEF Linked
    <3>5. head' = IF Tail(s) = <<>> THEN Null ELSE Tail(s)[1]
      <4>1. head' = IF 1 = Len(s) THEN Null ELSE s[2] BY <1>0, <3>1, <3>3, <3>4
      <4>2. Tail(s) = <<>> <=> Len(Tail(s)) = 0
        <5>1. ASSUME NEW r \in Seq(Nodes) PROVE r = <<>> <=> Len(r) = 0 OBVIOUS
        <5> QED BY <3>1, <5>1
      <4> QED BY <3>1, <4>1, <4>2
    <3>6. ASSUME NEW k \in DOMAIN Tail(s)
          PROVE  next'[Tail(s)[k]] = IF k = Len(Tail(s)) THEN Null ELSE Tail(s)[k + 1]
      <4>1. k + 1 \in DOMAIN s /\ Tail(s)[k] = s[k + 1] BY <3>1
      <4>2. next[s[k + 1]] = IF k + 1 = Len(s) THEN Null ELSE s[(k + 1) + 1]
        BY <3>3, <4>1
      <4>3. k + 1 # Len(s) => Tail(s)[k + 1] = s[(k + 1) + 1] BY <3>1
      <4>4. k + 1 = Len(s) <=> k = Len(Tail(s)) BY <3>1
      <4> QED BY <1>0, <4>1, <4>2, <4>3, <4>4
    <3>7. \A j, k \in DOMAIN Tail(s) : Tail(s)[j] = Tail(s)[k] => j = k
      BY <3>1, <3>2
    <3>8. {Tail(s)[k] : k \in DOMAIN Tail(s)} = {s[k] : k \in DOMAIN s} \ {head}
      <4>1. ASSUME NEW k \in DOMAIN Tail(s)
            PROVE  Tail(s)[k] \in {s[j] : j \in DOMAIN s} \ {head}
        <5>1. k + 1 \in DOMAIN s /\ Tail(s)[k] = s[k + 1] /\ 1 \in DOMAIN s /\ k + 1 # 1 BY <3>1
        <5> QED BY <3>2, <3>4, <5>1
      <4>2. ASSUME NEW j \in DOMAIN s, s[j] # head
            PROVE  s[j] \in {Tail(s)[k] : k \in DOMAIN Tail(s)}
        <5>1. j - 1 \in DOMAIN Tail(s) /\ Tail(s)[j - 1] = s[j] BY <3>1, <3>4, <4>2
        <5> QED BY <5>1
      <4> QED BY <4>1, <4>2
    <3>9. Linked(Tail(s))' BY <3>1, <3>5, <3>6, <3>7 DEF Linked
    <3> QED BY <1>0, <2>1, <3>8, <3>9
  <2>2. PICK s : s = Contents OBVIOUS
  <2>3. s \in Seq(Nodes) /\ Linked(s) /\ {s[k] : k \in DOMAIN s} = Nodes \ held
    BY <2>2 DEF ListInv, ContentsOK, Linked
  <2>4. Linked(Tail(s))' /\ {Tail(s)[k] : k \in DOMAIN Tail(s)} = Nodes \ held'
    BY <1>2, <2>1, <2>2, <2>3
  <2>5. head' \in Pointers BY <1>1 DEF TypeOK, Pointers
  <2> QED BY <2>2, <2>4, <2>5, ListAfter
<1>4. PushOK' BY <1>0 DEF ListInv, TypeOK, PushOK, InPush
<1>5. PopOK' BY <1>0 DEF ListInv, TypeOK, PopOK, InPush, InPop
<1> QED BY <1>0, <1>1, <1>2, <1>3, <1>4, <1>5 DEF ListInv

(* push() puts its node in front: head_ is still the node it has linked it   *)
(* to.                                                                       *)
LEMMA PushSwapInv ==
  ASSUME ListInv, NEW th \in Threads, PushSwap(th)
  PROVE  ListInv' /\ arg[th] \in held /\ Contents' = <<arg[th]>> \o Contents
         /\ held' = held \ {arg[th]}
<1> USE DEF PushSwap, Goto, Return
<1>0. /\ head = cur[th] /\ arg[th] \in held /\ arg[th] \in Nodes /\ next[arg[th]] = head
      /\ head' = arg[th] /\ held' = held \ {arg[th]} /\ next' = next
  BY DEF ListInv, TypeOK, PushOK, InPush
<1>1. TypeOK' BY <1>0 DEF ListInv, TypeOK, Pointers
<1>2. ContentsOK' /\ Contents' = <<arg[th]>> \o Contents
  <2>1. ASSUME NEW s \in Seq(Nodes), NEW n \in Nodes, Linked(s), n \in held, next[n] = head,
               head' = n, held' = held \ {n}, next' = next,
               {s[k] : k \in DOMAIN s} = Nodes \ held
        PROVE  /\ Linked(<<n>> \o s)'
               /\ {(<<n>> \o s)[k] : k \in DOMAIN (<<n>> \o s)} = Nodes \ held'
    <3> DEFINE r == <<n>> \o s
    <3>1. /\ Len(s) \in Nat /\ DOMAIN s = 1 .. Len(s) /\ Len(r) = Len(s) + 1
          /\ r \in Seq(Nodes) /\ DOMAIN r = 1 .. Len(s) + 1 /\ r # <<>>
          /\ r[1] = n /\ \A k \in 1 .. Len(s) : r[k + 1] = s[k]
      BY <2>1
    <3>2. \A j, k \in DOMAIN s : s[j] = s[k] => j = k BY <2>1 DEF Linked
    <3>3. \A k \in DOMAIN s : next[s[k]] = IF k = Len(s) THEN Null ELSE s[k + 1]
      BY <2>1 DEF Linked
    <3>4. head = IF s = <<>> THEN Null ELSE s[1] BY <2>1 DEF Linked
    <3>5. s = <<>> <=> Len(s) = 0 BY <2>1
    <3>6. \A k \in DOMAIN s : s[k] # n BY <2>1
    <3> HIDE DEF r
    <3>7. head' = IF r = <<>> THEN Null ELSE r[1] BY <2>1, <3>1
    <3>8. ASSUME NEW k \in DOMAIN r
          PROVE  next'[r[k]] = IF k = Len(r) THEN Null ELSE r[k + 1]
      <4>1. CASE k = 1
        <5>1. next'[r[k]] = head BY <2>1, <3>1, <4>1
        <5>2. CASE Len(s) = 0 BY <3>1, <3>4, <3>5, <4>1, <5>1, <5>2
        <5>3. CASE Len(s) # 0
          <6>1. r[2] = s[1] /\ head = s[1] /\ k + 1 = 2 /\ k # Len(r)
            <7>1. 1 \in 1 .. Len(s) /\ 1 + 1 = 2 BY <3>1, <5>3
            <7> QED BY <3>1, <3>4, <3>5, <4>1, <5>3, <7>1
          <6> QED BY <5>1, <6>1
        <5> QED BY <5>2, <5>3
      <4>2. CASE k # 1
        <5>1. k - 1 \in 1 .. Len(s) /\ (k - 1) + 1 = k BY <3>1, <4>2
        <5>2. r[k] = s[k - 1] BY <3>1, <5>1
        <5>3. next[s[k - 1]] = IF k - 1 = Len(s) THEN Null ELSE s[k]
          BY <3>1, <3>3, <5>1
        <5>4. k # Len(r) => r[k + 1] = s[k] BY <3>1, <4>2
        <5>5. k - 1 = Len(s) <=> k = Len(r) BY <3>1
        <5> QED BY <2>1, <5>2, <5>3, <5>4, <5>5
      <4> QED BY <4>1, <4>2
    <3>9. ASSUME NEW j \in DOMAIN r, NEW k \in DOMAIN r, r[j] = r[k] PROVE j = k
      <4>1. \A i \in DOMAIN r : i = 1 \/ (i - 1 \in DOMAIN s /\ r[i] = s[i - 1])
        <5>1. ASSUME NEW i \in DOMAIN r, i # 1 PROVE i - 1 \in DOMAIN s /\ r[i] = s[i - 1]
          <6>1. i - 1 \in 1 .. Len(s) /\ (i - 1) + 1 = i BY <3>1, <5>1
          <6> QED BY <3>1, <6>1
        <5> QED BY <5>1
      <4>2. j = 1 <=> k = 1 BY <3>1, <3>6, <3>9, <4>1
      <4>3. CASE j # 1
        <5>1. j - 1 = k - 1 BY <3>2, <3>9, <4>1, <4>2, <4>3
        <5> QED BY <3>1, <5>1
      <4> QED BY <4>2, <4>3
    <3>10. {r[k] : k \in DOMAIN r} = {s[k] : k \in DOMAIN s} \cup {n}
      <4>1. ASSUME NEW k \in DOMAIN r, k # 1 PROVE r[k] \in {s[j] : j \in DOMAIN s}
        <5>1. k - 1 \in 1 .. Len(s) /\ (k - 1) + 1 = k BY <3>1, <4>1
        <5> QED BY <3>1, <5>1
      <4>2. ASSUME NEW j \in DOMAIN s PROVE s[j] \in {r[k] : k \in DOMAIN r}
        <5>1. j + 1 \in DOMAIN r /\ r[j + 1] = s[j] BY <3>1
        <5> QED BY <5>1
      <4>3. 1 \in DOMAIN r /\ r[1] = n BY <3>1
      <4> QED BY <4>1, <4>2, <4>3
    <3>11. Linked(r)' BY <3>1, <3>7, <3>8, <3>9 DEF Linked
    <3>12. {r[k] : k \in DOMAIN r} = Nodes \ held' BY <2>1, <3>10
    <3> QED BY <3>11, <3>12 DEF r
  <2>2. PICK s : s = Contents OBVIOUS
  <2>3. s \in Seq(Nodes) /\ Linked(s) /\ {s[k] : k \in DOMAIN s} = Nodes \ held
    BY <2>2 DEF ListInv, ContentsOK, Linked
  <2>4. PICK n : n = arg[th] OBVIOUS
  <2>5. Linked(<<n>> \o s)' /\ {(<<n>> \o s)[k] : k \in DOMAIN (<<n>> \o s)} = Nodes \ held'
    <3>1. n \in Nodes /\ n \in held /\ next[n] = head /\ head' = n /\ held' = held \ {n} /\ next' = next
      BY <1>0, <2>4
    <3> QED BY <2>1, <2>3, <3>1
  <2>6. head' \in Pointers BY <1>1 DEF TypeOK, Pointers
  <2> QED BY <2>2, <2>4, <2>5, <2>6, ListAfter
<1>3. PushOK' BY <1>0 DEF ListInv, TypeOK, PushOK, InPush
<1>4. PopOK' BY <1>0 DEF ListInv, TypeOK, PopOK, InPush, InPop
<1> QED BY <1>0, <1>1, <1>2, <1>3, <1>4 DEF ListInv
--------------------------------------------------------------------------------
(* A step of the atomic stack, or none. *)
StackStep == Atomic!Next \/ UNCHANGED <<Contents, held>>

(***************************************************************************)
(* Every action keeps the invariant and is a step of the stack or none,    *)
(* unless it pushes a node that a thread in pop() looks at.                *)
(***************************************************************************)
LEMMA ActionInv ==
  ASSUME ListInv, NEW th \in Threads,
         \/ PopLoad(th) \/ PopNext(th) \/ PopSwap(th)
         \/ PushLoad(th) \/ PushLink(th) \/ PushSwap(th) \/ SwapFails(th)
         \/ \E n \in Nodes : PushBegin(th, n) /\ \A u \in Threads : InPop(u) => cur[u] # n
  PROVE  ListInv' /\ StackStep
<1>1. CASE PopLoad(th)
  BY <1>1, PopLoadInv DEF PopLoad, StackStep
<1>2. CASE PopNext(th)
  BY <1>2, PopNextInv DEF PopNext, StackStep
<1>3. CASE PopSwap(th)
  BY <1>3, PopSwapInv DEF StackStep, Atomic!Next, Atomic!Pop
<1>4. CASE PushLoad(th)
  BY <1>4, PushLoadInv DEF PushLoad, StackStep
<1>5. CASE PushLink(th)
  BY <1>5, PushLinkInv DEF PushLink, StackStep
<1>6. CASE PushSwap(th)
  <2>1. arg[th] \in Nodes BY <1>6, PushSwapInv DEF ListInv, TypeOK
  <2>2. Atomic!Push(arg[th]) BY <1>6, PushSwapInv DEF Atomic!Push
  <2> QED BY <1>6, <2>1, <2>2, PushSwapInv DEF StackStep, Atomic!Next
<1>7. CASE SwapFails(th)
  BY <1>7, SwapFailsInv DEF SwapFails, StackStep
<1>8. CASE \E n \in Nodes : PushBegin(th, n) /\ \A u \in Threads : InPop(u) => cur[u] # n
  BY <1>8, PushBeginInv DEF PushBegin, StackStep
<1> QED BY <1>1, <1>2, <1>3, <1>4, <1>5, <1>6, <1>7, <1>8

(* A step that changes nothing of the list. *)
LEMMA StutterInv ==
  ASSUME ListInv, UNCHANGED vars
  PROVE  ListInv' /\ StackStep
<1> USE DEF vars
<1>1. TypeOK' BY DEF ListInv, TypeOK, Pointers
<1>2. ContentsOK' /\ Contents' = Contents BY ListUnchanged
<1>3. PushOK' /\ PopOK' BY DEF ListInv, PushOK, PopOK, InPush, InPop
<1> QED BY <1>1, <1>2, <1>3 DEF ListInv, StackStep

(* Any step of a list whose nodes are not pushed while pop() looks at them. *)
LEMMA StepInv ==
  ASSUME ~Reuse, ListInv, [Next]_vars
  PROVE  ListInv' /\ StackStep
<1>1. CASE UNCHANGED vars BY <1>1, StutterInv
<1>2. CASE Next
  <2>1. PICK th \in Threads :
           \/ PopLoad(th) \/ PopNext(th) \/ PopSwap(th)
           \/ PushLoad(th) \/ PushLink(th) \/ PushSwap(th) \/ SwapFails(th)
           \/ \E n \in Nodes : PushBegin(th, n)
    BY <1>2 DEF Next
  <2>2. \A n \in Nodes : PushBegin(th, n) => \A u \in Threads : InPop(u) => cur[u] # n
    BY DEF PushBegin
  <2> QED BY <2>1, <2>2, ActionInv
<1> QED BY <1>1, <1>2

(* What the invariant says of the nodes on the list. *)
LEMMA InvSound == ListInv => ListSound
<1> SUFFICES ASSUME ListInv PROVE ListSound OBVIOUS
<1>1. Linked(Contents) /\ head \in Pointers /\ {Contents[k] : k \in DOMAIN Contents} = Nodes \ held
  BY DEF ListInv, ContentsOK, TypeOK
<1>2. ASSUME NEW s, Linked(s), {s[k] : k \in DOMAIN s} = Nodes \ held PROVE ListSound
  <2>1. /\ Len(s) \in 0 .. Cardinality(Nodes) /\ Cardinality(Nodes) \in Nat
        /\ \A k \in 0 .. Cardinality(Nodes) :
              Reached[k] = IF k < Len(s) THEN s[k + 1] ELSE Null
        /\ OnList = Nodes \ held
    BY <1>1, <1>2, ContentsOf, LinkedLength
  <2> QED BY <2>1 DEF ListSound
<1> QED BY <1>1, <1>2
--------------------------------------------------------------------------------
(***************************************************************************)
(* The invariant holds in every state, for any nodes and threads, as long  *)
(* as no node is pushed while a thread inside pop() holds its address.     *)
(***************************************************************************)
THEOREM ListInvCorrect == ASSUME ~Reuse PROVE Spec => []ListInv
<1>1. Init => ListInv BY ListInit
<1>2. ListInv /\ [Next]_vars => ListInv' BY StepInv
<1> QED BY <1>1, <1>2, PTL DEF Spec

(* push() and pop() lose no node and hand none to two threads. *)
THEOREM ListCorrect == ASSUME ~Reuse PROVE Spec => []ListSound
  BY ListInvCorrect, InvSound, PTL

(***************************************************************************)
(* push() and pop() behave as if each happened at one instant: the states  *)
(* of the list map to those of the stack, and every step to a push, to a   *)
(* pop, or to none.                                                        *)
(***************************************************************************)
THEOREM ImplementsStack == ASSUME ~Reuse PROVE Spec => AtomicSpec
<1>1. Init => Atomic!Init BY ListInit DEF Atomic!Init, Init
<1>2. ListInv /\ [Next]_vars => [Atomic!Next]_(Atomic!vars)
  BY StepInv DEF StackStep, Atomic!vars
<1> QED BY <1>1, <1>2, ListInvCorrect, PTL DEF Spec, AtomicSpec, Atomic!Spec
================================================================================
