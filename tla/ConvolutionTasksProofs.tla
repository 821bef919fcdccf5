------------------------- MODULE ConvolutionTasksProofs ------------------------
(***************************************************************************)
(* Proofs about ConvolutionTasks, for every number of channels, filters    *)
(* and blocks and every fan-in: the graph that the constructor of the      *)
(* crossover builds is the one TaskRunner and Crossover assume.  GraphInv  *)
(* is inductive; there is one lemma per action, with one step per conjunct *)
(* the action can disturb.                                                 *)
(***************************************************************************)
EXTENDS ConvolutionTasks, SetInduction

(* Sequences that hold nothing twice, and the sets of what they hold. *)

LEMMA AppendSet ==
  ASSUME NEW S, NEW s \in Seq(S), NEW x
  PROVE  /\ ToSet(Append(s, x)) = ToSet(s) \cup {x}
         /\ IsInjective(s) /\ x \notin ToSet(s) => IsInjective(Append(s, x))
<1>1. /\ DOMAIN s = 1 .. Len(s) /\ Len(s) \in Nat
      /\ DOMAIN Append(s, x) = 1 .. Len(s) + 1
      /\ \A k \in 1 .. Len(s) : Append(s, x)[k] = s[k]
      /\ Append(s, x)[Len(s) + 1] = x
  <2>1. s \in Seq(S \cup {x}) /\ x \in S \cup {x} OBVIOUS
  <2> QED BY <2>1
<1>2. ToSet(Append(s, x)) = ToSet(s) \cup {x} BY <1>1 DEF ToSet
<1>3. ASSUME IsInjective(s), x \notin ToSet(s) PROVE IsInjective(Append(s, x))
  <2>1. \A k \in 1 .. Len(s) : s[k] # x BY <1>1, <1>3 DEF ToSet
  <2>2. \A k, m \in 1 .. Len(s) : s[k] = s[m] => k = m BY <1>1, <1>3 DEF IsInjective
  <2> QED BY <1>1, <2>1, <2>2 DEF IsInjective
<1> QED BY <1>2, <1>3

LEMMA TailSet ==
  ASSUME NEW S, NEW s \in Seq(S), s # <<>>
  PROVE  /\ Tail(s) \in Seq(S) /\ Len(Tail(s)) = Len(s) - 1
         /\ ToSet(s) = {s[1]} \cup ToSet(Tail(s))
         /\ IsInjective(s) => IsInjective(Tail(s)) /\ s[1] \notin ToSet(Tail(s))
<1>1. /\ DOMAIN s = 1 .. Len(s) /\ Len(s) \in Nat \ {0}
      /\ Tail(s) \in Seq(S) /\ Len(Tail(s)) = Len(s) - 1
      /\ DOMAIN Tail(s) = 1 .. Len(s) - 1
      /\ \A k \in 1 .. Len(s) - 1 : Tail(s)[k] = s[k + 1]
  OBVIOUS
<1>2. ToSet(s) = {s[1]} \cup ToSet(Tail(s))
  <2>1. ASSUME NEW k \in 1 .. Len(s) PROVE s[k] \in {s[1]} \cup ToSet(Tail(s))
    <3>1. CASE k = 1 BY <3>1
    <3>2. CASE k # 1
      <4>1. k - 1 \in DOMAIN Tail(s) /\ Tail(s)[k - 1] = s[k] BY <1>1, <3>2
      <4> QED BY <4>1 DEF ToSet
    <3> QED BY <3>1, <3>2
  <2>2. ASSUME NEW k \in DOMAIN Tail(s) PROVE Tail(s)[k] \in ToSet(s)
    <3>1. k + 1 \in DOMAIN s /\ Tail(s)[k] = s[k + 1] BY <1>1
    <3> QED BY <3>1 DEF ToSet
  <2>3. s[1] \in ToSet(s) BY <1>1 DEF ToSet
  <2> QED BY <1>1, <2>1, <2>2, <2>3 DEF ToSet
<1>3. ASSUME IsInjective(s) PROVE IsInjective(Tail(s)) /\ s[1] \notin ToSet(Tail(s))
  BY <1>1, <1>3 DEF IsInjective, ToSet
<1> QED BY <1>1, <1>2, <1>3

(* A sequence cut after its first n elements. *)
LEMMA CutSet ==
  ASSUME NEW S, NEW s \in Seq(S), IsInjective(s), NEW n \in 0 .. Len(s)
  PROVE  LET a == SubSeq(s, 1, n)
             b == SubSeq(s, n + 1, Len(s))
         IN  /\ a \in Seq(S) /\ b \in Seq(S)
             /\ Len(a) = n /\ Len(b) = Len(s) - n
             /\ IsInjective(a) /\ IsInjective(b)
             /\ ToSet(s) = ToSet(a) \cup ToSet(b)
             /\ ToSet(a) \cap ToSet(b) = {}
<1> DEFINE a == SubSeq(s, 1, n)
           b == SubSeq(s, n + 1, Len(s))
<1>1. /\ a \in Seq(S) /\ Len(a) = n /\ DOMAIN a = 1 .. n
      /\ \A k \in 1 .. n : a[k] = s[k]
  OBVIOUS
<1>2. /\ b \in Seq(S) /\ Len(b) = Len(s) - n /\ DOMAIN b = 1 .. Len(s) - n
      /\ \A k \in 1 .. Len(s) - n : b[k] = s[n + k]
  OBVIOUS
<1>3. DOMAIN s = 1 .. Len(s) /\ Len(s) \in Nat /\ \A k, m \in 1 .. Len(s) : s[k] = s[m] => k = m
  BY DEF IsInjective
<1> HIDE DEF a, b
<1>4. ToSet(s) = ToSet(a) \cup ToSet(b)
  <2>1. ASSUME NEW k \in 1 .. Len(s) PROVE s[k] \in ToSet(a) \cup ToSet(b)
    <3>1. CASE k <= n BY <1>1, <3>1 DEF ToSet
    <3>2. CASE k > n
      <4>1. k - n \in DOMAIN b /\ b[k - n] = s[k] BY <1>2, <1>3, <3>2
      <4> QED BY <4>1 DEF ToSet
    <3> QED BY <3>1, <3>2
  <2>2. \A k \in DOMAIN a : a[k] \in ToSet(s) BY <1>1, <1>3 DEF ToSet
  <2>3. ASSUME NEW k \in DOMAIN b PROVE b[k] \in ToSet(s)
    <3>1. n + k \in DOMAIN s /\ b[k] = s[n + k] BY <1>2, <1>3
    <3> QED BY <3>1 DEF ToSet
  <2> QED BY <1>3, <2>1, <2>2, <2>3 DEF ToSet
<1>5. ToSet(a) \cap ToSet(b) = {} BY <1>1, <1>2, <1>3 DEF ToSet
<1>6. IsInjective(a) BY <1>1, <1>3 DEF IsInjective
<1>7. IsInjective(b)
  <2>1. ASSUME NEW k \in DOMAIN b, NEW m \in DOMAIN b, b[k] = b[m] PROVE k = m
    <3>1. n + k \in 1 .. Len(s) /\ n + m \in 1 .. Len(s) BY <1>2, <1>3
    <3>2. n + k = n + m BY <1>2, <1>3, <2>1, <3>1
    <3> QED BY <1>2, <3>2
  <2> QED BY <2>1 DEF IsInjective
<1> QED BY <1>1, <1>2, <1>4, <1>5, <1>6, <1>7 DEF a, b

LEMMA MinOfTwo ==
  ASSUME NEW a \in Int, NEW b \in Int
  PROVE  Min({a, b}) = IF a <= b THEN a ELSE b
<1>1. \E x \in {a, b} : \A y \in {a, b} : x <= y
  <2>1. CASE a <= b BY <2>1
  <2>2. CASE b <= a BY <2>2
  <2> QED BY <2>1, <2>2
<1>2. Min({a, b}) \in {a, b} /\ \A y \in {a, b} : Min({a, b}) <= y BY <1>1 DEF Min
<1> QED BY <1>2

LEMMA MaxOfTwo ==
  ASSUME NEW a \in Int, NEW b \in Int
  PROVE  Max({a, b}) = IF a >= b THEN a ELSE b
<1>1. \E x \in {a, b} : \A y \in {a, b} : x >= y
  <2>1. CASE a <= b BY <2>1
  <2>2. CASE b <= a BY <2>2
  <2> QED BY <2>1, <2>2
<1>2. Max({a, b}) \in {a, b} /\ \A y \in {a, b} : Max({a, b}) >= y BY <1>1 DEF Max
<1> QED BY <1>2
--------------------------------------------------------------------------------
(* Task::create. *)

(* A vector without repetitions names a task once or not at all. *)
LEMMA NamedOnce ==
  ASSUME NEW S, NEW ds \in Seq(S), IsInjective(ds), NEW u
  PROVE  Cardinality({n \in DOMAIN ds : ds[n] = u}) = IF u \in ToSet(ds) THEN 1 ELSE 0
<1>1. CASE u \in ToSet(ds)
  <2>1. PICK n \in DOMAIN ds : ds[n] = u BY <1>1 DEF ToSet
  <2>2. {m \in DOMAIN ds : ds[m] = u} = {n} BY <2>1 DEF IsInjective
  <2> QED BY <1>1, <2>2, FS_Singleton
<1>2. CASE u \notin ToSet(ds)
  <2>1. {m \in DOMAIN ds : ds[m] = u} = {} BY <1>2 DEF ToSet
  <2> QED BY <1>2, <2>1, FS_EmptySet
<1> QED BY <1>1, <1>2

LEMMA NoCopies == \A x : [k \in 1 .. 0 |-> x] = <<>>
<1>1. ASSUME NEW x PROVE [k \in 1 .. 0 |-> x] = <<>>
  <2>1. [k \in 1 .. 0 |-> x] \in Seq({x}) /\ Len([k \in 1 .. 0 |-> x]) = 0 OBVIOUS
  <2> HIDE DEF Seq
  <2> QED BY <2>1
<1> QED BY <1>1

LEMMA AppendOne ==
  ASSUME NEW S, NEW s \in Seq(S), NEW x
  PROVE  s \o <<x>> = Append(s, x)
<1>1. s \in Seq(S \cup {x}) /\ x \in S \cup {x} OBVIOUS
<1> QED BY <1>1

(* The task it makes is new and depends on tasks there are. *)
Creates(t, ds, v) ==
  /\ t \notin Made /\ t = <<t[1], t[2], t[3]>> /\ t[1] \in Kinds \ {"in"}
  /\ ds \in Seq(Made) /\ IsInjective(ds)
  /\ Create(t, ds, v)

LEMMA CreatesTasks ==
  ASSUME GraphTypeOK, NEW t, NEW ds, NEW v, Creates(t, ds, v)
  PROVE  /\ Made' = Made \cup {t} /\ IsFiniteSet(Made')
         /\ \A u \in Made' : u = <<u[1], u[2], u[3]>> /\ u[1] \in Kinds
         /\ \A kind : Of(kind)' = IF kind = t[1] THEN Of(kind) \cup {t} ELSE Of(kind)
<1>1. Made' = Made \cup {t} BY DEF Creates, Create, With, Made
<1>2. IsFiniteSet(Made') BY <1>1, FS_AddElement DEF GraphTypeOK
<1>3. \A u \in Made' : u = <<u[1], u[2], u[3]>> /\ u[1] \in Kinds
  BY <1>1 DEF GraphTypeOK, Creates
<1>4. \A kind : Of(kind)' = IF kind = t[1] THEN Of(kind) \cup {t} ELSE Of(kind)
  BY <1>1 DEF Of
<1> QED BY <1>1, <1>2, <1>3, <1>4

LEMMA CreatesDependencies ==
  ASSUME GraphTypeOK, NEW t, NEW ds, NEW v, Creates(t, ds, v)
  PROVE  /\ dependencies'[t] = ds
         /\ \A u \in Made : dependencies'[u] = dependencies[u]
         /\ dependencies' \in [Made' -> Seq(Made')]
<1>1. Made' = Made \cup {t} BY CreatesTasks
<1>2. dependencies' = With(dependencies, t, ds) BY DEF Creates, Create
<1>3. /\ DOMAIN dependencies' = Made'
      /\ dependencies'[t] = ds
      /\ \A u \in Made : dependencies'[u] = dependencies[u]
  BY <1>1, <1>2 DEF With, Made, Creates
<1>4. \A s \in Seq(Made) : s \in Seq(Made') BY <1>1
<1>5. dependencies' = [u \in Made' |-> dependencies'[u]] BY <1>1, <1>2 DEF With, Made
<1>6. \A u \in Made' : dependencies'[u] \in Seq(Made')
  BY <1>1, <1>3, <1>4 DEF Creates, GraphTypeOK
<1> QED BY <1>3, <1>5, <1>6

LEMMA CreatesDependents ==
  ASSUME GraphTypeOK, NEW t, NEW ds, NEW v, Creates(t, ds, v)
  PROVE  /\ dependents'[t] = <<>>
         /\ \A u \in Made : dependents'[u] = IF u \in ToSet(ds) THEN Append(dependents[u], t)
                                             ELSE dependents[u]
         /\ dependents' \in [Made' -> Seq(Made')]
<1> DEFINE Named(u) == Cardinality({n \in DOMAIN ds : ds[n] = u})
           pushed == [u \in Made |-> dependents[u] \o [k \in 1 .. Named(u) |-> t]]
<1>1. Made' = Made \cup {t} BY CreatesTasks
<1>2. dependents' = With(pushed, t, <<>>) BY DEF Creates, Create
<1>3. \A u \in Made : Named(u) = IF u \in ToSet(ds) THEN 1 ELSE 0 BY NamedOnce DEF Creates
<1>4. ASSUME NEW u \in Made
      PROVE  pushed[u] = IF u \in ToSet(ds) THEN Append(dependents[u], t) ELSE dependents[u]
  <2>1. dependents[u] \in Seq(Made) BY DEF GraphTypeOK
  <2>2. CASE u \in ToSet(ds)
    <3>1. Named(u) = 1 BY <1>3, <2>2
    <3>2. [k \in 1 .. Named(u) |-> t] = <<t>> BY <3>1
    <3>3. pushed[u] = dependents[u] \o <<t>> BY <3>2
    <3> HIDE DEF pushed, Named
    <3> QED BY <2>1, <2>2, <3>3, AppendOne
  <2>3. CASE u \notin ToSet(ds)
    <3>1. Named(u) = 0 BY <1>3, <2>3
    <3>2. [k \in 1 .. Named(u) |-> t] = <<>> BY <3>1, NoCopies
    <3>3. pushed[u] = dependents[u] \o <<>> BY <3>2
    <3> HIDE DEF pushed, Named
    <3>4. dependents[u] \o <<>> = dependents[u] BY <2>1
    <3> QED BY <2>3, <3>3, <3>4
  <2> QED BY <2>2, <2>3
<1>5. DOMAIN pushed = Made OBVIOUS
<1> HIDE DEF pushed
<1>6. /\ DOMAIN dependents' = Made'
      /\ dependents'[t] = <<>>
      /\ \A u \in Made : dependents'[u] = pushed[u]
  BY <1>1, <1>2, <1>5 DEF With, Creates
<1>7. \A s \in Seq(Made) : s \in Seq(Made') /\ Append(s, t) \in Seq(Made') BY <1>1
<1>8. dependents' = [u \in Made' |-> dependents'[u]] BY <1>1, <1>2, <1>5 DEF With
<1>9. \A u \in Made' : dependents'[u] \in Seq(Made')
  <2>1. ASSUME NEW u \in Made PROVE dependents'[u] \in Seq(Made')
    <3>1. dependents[u] \in Seq(Made) BY DEF GraphTypeOK
    <3> QED BY <1>4, <1>6, <1>7, <3>1
  <2>2. dependents'[t] \in Seq(Made') BY <1>6
  <2> QED BY <1>1, <2>1, <2>2
<1> QED BY <1>4, <1>6, <1>8, <1>9

LEMMA CreatesLinks ==
  ASSUME GraphTypeOK, LinksOK, NEW t, NEW ds, NEW v, Creates(t, ds, v)
  PROVE  LinksOK'
<1>1. Made' = Made \cup {t} /\ t \notin Made BY CreatesTasks DEF Creates
<1>2. /\ dependencies'[t] = ds
      /\ \A u \in Made : dependencies'[u] = dependencies[u]
  BY CreatesDependencies
<1>3. /\ dependents'[t] = <<>>
      /\ \A u \in Made : dependents'[u] = IF u \in ToSet(ds) THEN Append(dependents[u], t)
                                          ELSE dependents[u]
  BY CreatesDependents
<1>4. /\ ToSet(ds) \subseteq Made /\ IsInjective(ds)
      /\ \A u \in Made : /\ dependents[u] \in Seq(Made) /\ ToSet(dependents[u]) \subseteq Made
                         /\ ToSet(dependencies[u]) \subseteq Made
  <2>1. \A s \in Seq(Made) : ToSet(s) \subseteq Made BY DEF ToSet
  <2> QED BY <2>1 DEF GraphTypeOK, Creates
<1>5. ToSet(<<>>) = {} /\ IsInjective(<<>>) BY DEF ToSet, IsInjective
<1>6. \A u \in Made : ToSet(dependents'[u]) = IF u \in ToSet(ds) THEN ToSet(dependents[u]) \cup {t}
                                              ELSE ToSet(dependents[u])
  BY <1>3, <1>4, AppendSet
<1>7. \A u \in Made : IsInjective(dependents'[u])
  BY <1>1, <1>3, <1>4, AppendSet DEF LinksOK
<1>8. \A d, u \in Made' : d \in ToSet(dependencies'[u]) <=> u \in ToSet(dependents'[d])
  <2>1. ASSUME NEW d \in Made, NEW u \in Made
        PROVE  d \in ToSet(dependencies'[u]) <=> u \in ToSet(dependents'[d])
    <3>1. d \in ToSet(dependencies[u]) <=> u \in ToSet(dependents[d]) BY DEF LinksOK
    <3>2. u # t BY <1>1
    <3> QED BY <1>2, <1>6, <3>1, <3>2
  <2>2. ASSUME NEW d \in Made
        PROVE  d \in ToSet(dependencies'[t]) <=> t \in ToSet(dependents'[d])
    BY <1>1, <1>2, <1>4, <1>6
  <2>3. ASSUME NEW u \in Made'
        PROVE  ~(t \in ToSet(dependencies'[u])) /\ ~(u \in ToSet(dependents'[t]))
    <3>1. ToSet(dependencies'[u]) \subseteq Made BY <1>1, <1>2, <1>4
    <3> QED BY <1>1, <1>3, <1>5, <3>1
  <2> QED BY <1>1, <2>1, <2>2, <2>3
<1>9. \A u \in Made' : IsInjective(dependencies'[u]) /\ IsInjective(dependents'[u])
  BY <1>1, <1>2, <1>3, <1>4, <1>5, <1>7 DEF LinksOK
<1> QED BY <1>8, <1>9 DEF LinksOK

LEMMA CreatesSums ==
  ASSUME GraphTypeOK, NEW t, NEW ds, NEW v, Creates(t, ds, v)
  PROVE  /\ DOMAIN sums' = Made' \ Of("in")'
         /\ sums'[t] = v
         /\ \A u \in Made \ Of("in") : sums'[u] = sums[u] /\ Held(u)' = Held(u)
<1>1. Made' = Made \cup {t} /\ Of("in")' = Of("in") /\ t \notin Of("in")
  BY CreatesTasks DEF Creates, Of
<1>2. sums' = With(sums, t, v) /\ DOMAIN sums = Made \ Of("in") /\ t \notin Made
  BY DEF Creates, Create, GraphTypeOK
<1>3. /\ DOMAIN sums' = Made' \ Of("in")'
      /\ sums'[t] = v
      /\ \A u \in Made \ Of("in") : sums'[u] = sums[u]
  BY <1>1, <1>2 DEF With
<1> QED BY <1>3 DEF Held
--------------------------------------------------------------------------------
(* What is added up. *)

LEMMA ConfigFacts ==
  ASSUME IsConfig(config)
  PROVE  /\ Len(config.filters) \in Nat \ {0} /\ Filters = 1 .. Len(config.filters)
         /\ config.combine \in Nat \ {0}
         /\ \A f \in Filters : ChannelOf(f) \in Channels /\ BlocksIn(f) \in Nat \ {0}
<1> DEFINE R == [channel : Channels, numBlocks : Nat \ {0}]
<1>1. config.filters \in Seq(R) /\ config.filters # <<>> /\ config.combine \in Nat \ {0}
  BY DEF IsConfig
<1>2. \A f \in Filters : config.filters[f] \in R
  <2> HIDE DEF R
  <2> QED BY <1>1 DEF Filters
<1>3. \A r \in R : r.channel \in Channels /\ r.numBlocks \in Nat \ {0} OBVIOUS
<1>4. Len(config.filters) \in Nat \ {0} /\ Filters = 1 .. Len(config.filters)
  <2> HIDE DEF R
  <2> QED BY <1>1 DEF Filters
<1> QED BY <1>1, <1>2, <1>3, <1>4 DEF ChannelOf, BlocksIn

(* The artifacts of different operands hold different blocks: the sum holds *)
(* what one of them holds, and nothing twice.                               *)
LEMMA AddedDisjoint ==
  ASSUME NEW S, NEW ops \in Seq(S), NumBlocks \in Nat,
         \A k \in DOMAIN ops : sums[ops[k]] \in [0 .. NumBlocks - 1 -> {0, 1}],
         \A k, m \in DOMAIN ops : k # m => Held(ops[k]) \cap Held(ops[m]) = {}
  PROVE  Added(ops) = [b \in 0 .. NumBlocks - 1 |->
                         IF b \in UNION {Held(u) : u \in ToSet(ops)} THEN 1 ELSE 0]
<1> DEFINE L == Len(ops)
           B == 0 .. NumBlocks - 1
           Value(f, k) == IF k = 0 THEN Nothing ELSE Plus(f[k - 1], sums[ops[k]])
           U == CHOOSE f : f = [k \in 0 .. L |-> Value(f, k)]
           Has(k, b) == \E j \in 1 .. k : sums[ops[j]][b] = 1
           w == [k \in 0 .. L |-> [b \in B |-> IF Has(k, b) THEN 1 ELSE 0]]
<1>1. L \in Nat /\ DOMAIN ops = 1 .. L OBVIOUS
<1>2. Added(ops) = U[L] BY DEF Added
<1>3. \A k \in 1 .. L, b \in B : sums[ops[k]][b] \in {0, 1} BY <1>1
<1>4. \A k, m \in 1 .. L, b \in B : sums[ops[k]][b] = 1 /\ sums[ops[m]][b] = 1 => k = m
  <2>1. \A k \in 1 .. L : DOMAIN sums[ops[k]] = B BY <1>1
  <2>2. \A k \in 1 .. L, b \in B : sums[ops[k]][b] = 1 => b \in Held(ops[k])
    BY <2>1 DEF Held
  <2> QED BY <1>1, <2>2
<1>5. ASSUME NEW k \in 0 .. L PROVE w[k] = Value(w, k)
  <2>1. w[k] = [b \in B |-> IF Has(k, b) THEN 1 ELSE 0] OBVIOUS
  <2>2. CASE k = 0
    <3>1. \A b \in B : ~Has(k, b) BY <2>2
    <3>2. w[k] = [b \in B |-> 0]
      <4> HIDE DEF w, Has
      <4> QED BY <2>1, <3>1
    <3> QED BY <2>2, <3>2 DEF Nothing
  <2>3. CASE k # 0
    <3>1. k \in 1 .. L /\ k - 1 \in 0 .. L BY <1>1, <2>3
    <3>2. w[k - 1] = [b \in B |-> IF Has(k - 1, b) THEN 1 ELSE 0] BY <3>1
    <3>3. ASSUME NEW b \in B
          PROVE  (IF Has(k, b) THEN 1 ELSE 0) = (IF Has(k - 1, b) THEN 1 ELSE 0) + sums[ops[k]][b]
      <4>1. Has(k, b) <=> Has(k - 1, b) \/ sums[ops[k]][b] = 1 BY <1>1, <3>1
      <4>2. ~(Has(k - 1, b) /\ sums[ops[k]][b] = 1)
        <5>1. ASSUME NEW j \in 1 .. k - 1, sums[ops[j]][b] = 1, sums[ops[k]][b] = 1 PROVE FALSE
          <6>1. j \in 1 .. L /\ j # k BY <1>1, <3>1
          <6> QED BY <1>4, <3>1, <5>1, <6>1
        <5> QED BY <5>1
      <4>3. sums[ops[k]][b] \in {0, 1} BY <1>3, <3>1
      <4> HIDE DEF Has, B
      <4> QED BY <4>1, <4>2, <4>3
    <3>4. w[k] = [b \in B |-> w[k - 1][b] + sums[ops[k]][b]]
      <4> HIDE DEF Has, B, w
      <4> QED BY <2>1, <3>2, <3>3
    <3>5. DOMAIN w[k - 1] = B BY <3>2
    <3>6. w[k] = Plus(w[k - 1], sums[ops[k]])
      <4> HIDE DEF Has, B, w
      <4> QED BY <3>4, <3>5 DEF Plus
    <3> QED BY <2>3, <3>6
  <2> QED BY <2>2, <2>3
<1>6. U = [k \in 0 .. L |-> Value(U, k)]
  <2> DEFINE g == [k \in 0 .. L |-> Value(w, k)]
  <2>1. w = g
    <3>1. \A k \in 0 .. L : g[k] = w[k]
      <4> HIDE DEF w
      <4> QED BY <1>5
    <3> QED BY <3>1
  <2> HIDE DEF w
  <2> QED BY <2>1
<1>7. \A k \in 0 .. L : U[k] = w[k]
  <2> DEFINE T == {k \in Nat : k \in 0 .. L => U[k] = w[k]}
  <2> HIDE DEF L, w, U
  <2>1. 0 \in T BY <1>1, <1>5, <1>6
  <2>2. ASSUME NEW k \in Nat, k \in T PROVE k + 1 \in T
    <3>1. SUFFICES ASSUME k + 1 \in 0 .. L PROVE U[k + 1] = w[k + 1] OBVIOUS
    <3>2. k \in 0 .. L /\ (k + 1) - 1 = k /\ k + 1 # 0 BY <1>1, <3>1
    <3>3. U[k] = w[k] BY <2>2, <3>2
    <3>4. U[k + 1] = Plus(U[k], sums[ops[k + 1]]) BY <1>6, <3>1, <3>2
    <3>5. w[k + 1] = Plus(w[k], sums[ops[k + 1]]) BY <1>5, <3>1, <3>2
    <3> QED BY <3>3, <3>4, <3>5
  <2>3. Nat \subseteq T
    <3> HIDE DEF T
    <3> QED BY <2>1, <2>2, NaturalsIn
  <2> QED BY <1>1, <2>3
<1>8. Added(ops) = [b \in B |-> IF Has(L, b) THEN 1 ELSE 0]
  <2>1. w[L] = [b \in B |-> IF Has(L, b) THEN 1 ELSE 0] BY <1>1
  <2> HIDE DEF U, w, Has
  <2> QED BY <1>1, <1>2, <1>7, <2>1
<1>9. ASSUME NEW b \in B PROVE Has(L, b) <=> b \in UNION {Held(u) : u \in ToSet(ops)}
  <2>1. \A k \in 1 .. L : DOMAIN sums[ops[k]] = B BY <1>1
  <2>2. \A k \in 1 .. L : sums[ops[k]][b] = 1 <=> b \in Held(ops[k]) BY <2>1 DEF Held
  <2> QED BY <1>1, <2>2 DEF ToSet
<1> QED
  <2> HIDE DEF Has
  <2> QED BY <1>8, <1>9
--------------------------------------------------------------------------------
(* What one Task::create leaves as it is. *)

(* Where the constructor is, as the filters before it and the current one. *)
LEMMA PastSets ==
  ASSUME GraphTypeOK, NEW phases
  PROVE  /\ Past(phases) = {f \in Filters : f < filter}
                             \cup (IF phase \in phases THEN {filter} ELSE {})
         /\ filter \in Nat /\ \A f \in Filters : f \in Nat
<1>1. filter \in Filters /\ \A f \in Filters : f \in Nat /\ ~(f < f)
  BY ConfigFacts DEF GraphTypeOK
<1> QED BY <1>1 DEF Past

LEMMA SameConfig ==
  ASSUME config' = config
  PROVE  /\ Filters' = Filters
         /\ \A f : ChannelOf(f)' = ChannelOf(f) /\ BlocksIn(f)' = BlocksIn(f)
BY DEF Filters, ChannelOf, BlocksIn

LEMMA SameFilter ==
  ASSUME config' = config, filter' = filter
  PROVE  NumBlocks' = NumBlocks /\ Input' = Input
BY DEF NumBlocks, Input, ChannelOf, BlocksIn, Job

(* Who had dependents keeps them. *)
LEMMA CreatesOpen ==
  ASSUME GraphTypeOK, NEW t, NEW ds, NEW v, Creates(t, ds, v),
         NEW u \in Made', dependents'[u] = <<>>
  PROVE  u = t \/ (u \in Made /\ dependents[u] = <<>> /\ u \notin ToSet(ds))
<1>1. CASE u = t BY <1>1
<1>2. CASE u # t
  <2>1. u \in Made BY <1>2, CreatesTasks
  <2>2. dependents[u] \in Seq(Made) BY <2>1 DEF GraphTypeOK
  <2>3. Append(dependents[u], t) # <<>>
    <3>1. dependents[u] \in Seq(Made \cup {t}) BY <2>2
    <3> QED BY <3>1
  <2> QED BY <2>1, <2>3, CreatesDependents
<1> QED BY <1>1, <1>2

LEMMA CreatesCounts ==
  ASSUME GraphTypeOK, NEW t, NEW ds, NEW v, Creates(t, ds, v), NEW kind, NEW f
  PROVE  /\ Number(kind, f) \in Nat
         /\ Number(kind, f)' = Number(kind, f) + IF kind = t[1] /\ f = t[2] THEN 1 ELSE 0
<1> DEFINE T == {u \in Of(kind) : u[2] = f}
<1>1. IsFiniteSet(T)
  <2>1. T \subseteq Made /\ IsFiniteSet(Made) BY DEF Of, GraphTypeOK
  <2> QED BY <2>1, FS_Subset
<1>2. t \notin T BY DEF Of, Creates
<1>3. {u \in Of(kind)' : u[2] = f} = IF kind = t[1] /\ f = t[2] THEN T \cup {t} ELSE T
  BY CreatesTasks
<1>4. Number(kind, f) = Cardinality(T) /\ Cardinality(T) \in Nat
  BY <1>1, FS_CardinalityType DEF Number
<1>5. Number(kind, f)' = Cardinality({u \in Of(kind)' : u[2] = f}) BY DEF Number
<1>6. Cardinality(T \cup {t}) = Cardinality(T) + 1
  <2> HIDE DEF T
  <2> QED BY <1>1, <1>2, FS_AddElement
<1>7. CASE kind = t[1] /\ f = t[2]
  <2>1. {u \in Of(kind)' : u[2] = f} = T \cup {t} BY <1>3, <1>7
  <2>2. Number(kind, f)' = Cardinality(T \cup {t}) BY <1>5, <2>1
  <2> HIDE DEF T
  <2> QED BY <1>4, <1>6, <1>7, <2>2
<1>8. CASE ~(kind = t[1] /\ f = t[2])
  <2>1. {u \in Of(kind)' : u[2] = f} = T BY <1>3, <1>8
  <2>2. Number(kind, f)' = Cardinality(T) BY <1>5, <2>1
  <2> HIDE DEF T
  <2> QED BY <1>4, <1>8, <2>2
<1> QED BY <1>7, <1>8

(* The artifacts there are keep what they add up. *)
LEMMA CreatesSplits ==
  ASSUME GraphTypeOK, NEW t, NEW ds, NEW v, Creates(t, ds, v), NEW S, NEW ts, Splits(S, ts),
         ts \subseteq Made \ Of("in")
  PROVE  Splits(S, ts)'
<1>1. \A u \in ts : Held(u)' = Held(u) BY CreatesSums
<1> QED BY <1>1 DEF Splits

(* The tasks of a dependency list or a list under construction. *)
LEMMA ListMembers ==
  ASSUME NEW s \in Seq(Made)
  PROVE  ToSet(s) \subseteq Made
BY DEF ToSet

LEMMA PartsMade ==
  ASSUME NEW f
  PROVE  PartsOf(f) \subseteq Made \ Of("in")
BY DEF PartsOf, Of

LEMMA CreatesArtifacts ==
  ASSUME GraphTypeOK, DependenciesOK, SumsOK, NEW t, NEW ds, NEW v, Creates(t, ds, v),
         config' = config
  PROVE  /\ \A u \in Made : u[1] \in {"leaf", "sum", "combine", "result"} =>
              sums'[u] \in [0 .. BlocksIn(u[2])' - 1 -> {0, 1}]
         /\ \A u \in Of("leaf") :
              Held(u)' = {b \in 0 .. BlocksIn(u[2])' - 1 : u[3] <= b /\ b < u[3] + config'.combine}
         /\ \A u \in Of("sum") : Splits(Held(u), ToSet(dependencies[u]))'
         /\ \A u \in Of("combine") :
              /\ Held(u)' = 0 .. BlocksIn(u[2])' - 1
              /\ Splits(1 .. BlocksIn(u[2]) - 1, ToSet(dependencies[u]) \ Of("in"))'
         /\ \A u \in Of("result") : Held(u)' = 0 .. BlocksIn(u[2])' - 1
<1>1. \A f : BlocksIn(f)' = BlocksIn(f) BY SameConfig
<1>2. /\ \A kind : Of(kind) \subseteq Made
      /\ \A u \in Made : u[1] # "in" => sums'[u] = sums[u] /\ Held(u)' = Held(u)
      /\ \A u \in Made : dependencies'[u] = dependencies[u]
      /\ Of("in")' = Of("in")
  <2>1. \A kind : Of(kind) \subseteq Made BY DEF Of
  <2>2. \A u \in Made : u[1] # "in" => sums'[u] = sums[u] /\ Held(u)' = Held(u)
    BY CreatesSums DEF Of
  <2>3. \A u \in Made : dependencies'[u] = dependencies[u] BY CreatesDependencies
  <2>4. Of("in")' = Of("in") BY CreatesTasks DEF Creates
  <2> QED BY <2>1, <2>2, <2>3, <2>4
<1>3. \A u \in Made : u[1] \in {"leaf", "sum", "combine", "result"} =>
        sums'[u] \in [0 .. BlocksIn(u[2])' - 1 -> {0, 1}]
  BY <1>1, <1>2 DEF SumsOK
<1>4. \A u \in Of("leaf") :
        Held(u)' = {b \in 0 .. BlocksIn(u[2])' - 1 : u[3] <= b /\ b < u[3] + config'.combine}
  <2>1. ASSUME NEW u \in Of("leaf") PROVE Held(u)' = Held(u) BY <1>2 DEF Of
  <2> QED BY <1>1, <2>1 DEF SumsOK
<1>5. ASSUME NEW u \in Of("sum") PROVE Splits(Held(u), ToSet(dependencies[u]))'
  <2>1. Splits(Held(u), ToSet(dependencies[u])) BY DEF SumsOK
  <2>2. ToSet(dependencies[u]) \subseteq Made \ Of("in") BY PartsMade DEF DependenciesOK
  <2>3. /\ Held(u)' = Held(u) /\ dependencies'[u] = dependencies[u]
        /\ \A w \in ToSet(dependencies[u]) : Held(w)' = Held(w)
    BY <1>2, <2>2 DEF Of
  <2> QED BY <2>1, <2>3 DEF Splits
<1>6. ASSUME NEW u \in Of("combine")
      PROVE  /\ Held(u)' = 0 .. BlocksIn(u[2])' - 1
             /\ Splits(1 .. BlocksIn(u[2]) - 1, ToSet(dependencies[u]) \ Of("in"))'
  <2>1. /\ Held(u) = 0 .. BlocksIn(u[2]) - 1
        /\ Splits(1 .. BlocksIn(u[2]) - 1, ToSet(dependencies[u]) \ Of("in"))
    BY DEF SumsOK
  <2>2. ToSet(dependencies[u]) \subseteq Made
    <3>1. dependencies[u] \in Seq(Made) BY <1>2 DEF GraphTypeOK
    <3> QED BY <3>1, ListMembers
  <2>3. /\ Held(u)' = Held(u) /\ dependencies'[u] = dependencies[u]
        /\ \A w \in ToSet(dependencies[u]) \ Of("in") : Held(w)' = Held(w)
    BY <1>2, <2>2 DEF Of
  <2> QED BY <1>1, <1>2, <2>1, <2>3 DEF Splits
<1>7. \A u \in Of("result") : Held(u)' = 0 .. BlocksIn(u[2])' - 1
  <2>1. ASSUME NEW u \in Of("result") PROVE Held(u)' = Held(u) BY <1>2 DEF Of
  <2> QED BY <1>1, <2>1 DEF SumsOK
<1> QED BY <1>3, <1>4, <1>5, <1>6, <1>7

(* The types, the links and the names after a step. *)
LEMMA StepContext ==
  ASSUME GraphInv, NEW t, NEW ds, NEW v, Creates(t, ds, v),
         config' = config, filter' \in Filters, i' \in Nat, i' # 0 \/ phase' = "root",
         phase' \in {"root", "leaves", "sums", "result", "combined", "done"},
         deps' \in Seq(Made'), sumUp' \in Seq(Made'), results' \in Seq(Made')
  PROVE  /\ GraphTypeOK' /\ LinksOK'
         /\ Made' = Made \cup {t} /\ t \notin Made
         /\ \A kind : Of(kind)' = IF kind = t[1] THEN Of(kind) \cup {t} ELSE Of(kind)
         /\ dependencies'[t] = ds /\ dependents'[t] = <<>> /\ sums'[t] = v
         /\ \A u \in Made : dependencies'[u] = dependencies[u]
         /\ Filters' = Filters
         /\ \A f : ChannelOf(f)' = ChannelOf(f) /\ BlocksIn(f)' = BlocksIn(f)
         /\ \A phases : Past(phases)' = {f \in Filters : f < filter'}
                                          \cup (IF phase' \in phases THEN {filter'} ELSE {})
<1> USE DEF GraphInv
<1>1. Filters' = Filters /\ \A f : ChannelOf(f)' = ChannelOf(f) /\ BlocksIn(f)' = BlocksIn(f)
  BY SameConfig
<1>2. GraphTypeOK'
  <2>1. dependencies' \in [Made' -> Seq(Made')] /\ dependents' \in [Made' -> Seq(Made')]
        /\ DOMAIN sums' = Made' \ Of("in")'
    BY CreatesDependencies, CreatesDependents, CreatesSums
  <2>2. IsConfig(config)' BY DEF GraphTypeOK, IsConfig
  <2>3. IsFiniteSet(Made') /\ \A u \in Made' : u = <<u[1], u[2], u[3]>> /\ u[1] \in Kinds
    BY CreatesTasks
  <2> QED BY <1>1, <2>1, <2>2, <2>3 DEF GraphTypeOK
<1>3. LinksOK' BY CreatesLinks
<1>4. \A phases : Past(phases)' = {f \in Filters : f < filter'}
                                    \cup (IF phase' \in phases THEN {filter'} ELSE {})
  <2>1. \A f \in Filters : f \in Nat /\ ~(f < f) BY ConfigFacts DEF GraphTypeOK
  <2> QED BY <1>1, <2>1 DEF Past
<1> QED
  BY <1>1, <1>2, <1>3, <1>4, CreatesTasks, CreatesDependencies, CreatesDependents, CreatesSums
  DEF Creates
(* What a new task may depend on. *)
MayDepend(t, ds) ==
  LET in == Job("in", ChannelOf(t[2]))
      leaves == {u \in Of("leaf") : u[2] = t[2]}
  IN  /\ t[1] = "root" => ds = <<>>
      /\ t[1] = "leaf" => ds = <<Job("root", t[2])>> /\ t[2] \notin Shifted
      /\ t[1] \in {"shift", "combine"} => ds # <<>> /\ ds[1] = in
      /\ t[1] = "shift" => ToSet(ds) = {in} \cup leaves
      /\ t[1] = "sum" => /\ ToSet(ds) \subseteq PartsOf(t[2])
                         /\ \A u \in ToSet(ds) : u[1] = "sum" => u[3] < t[3]
      /\ t[1] = "combine" => ToSet(ds) \subseteq {in} \cup PartsOf(t[2])
      /\ t[1] = "result" => ToSet(ds) = {Job("combine", t[2]), Job("shift", t[2])}

LEMMA StepDependencies ==
  ASSUME GraphInv, NEW t, NEW ds, NEW v, Creates(t, ds, v), config' = config, phase # "done",
         MayDepend(t, ds), t[1] = "combined" => ds = results',
         ToSet(results') = Of("result")'
  PROVE  DependenciesOK'
<1> USE DEF GraphInv
<1>1. /\ t \notin Made /\ dependencies'[t] = ds
      /\ \A u \in Made : dependencies'[u] = dependencies[u]
      /\ \A f : ChannelOf(f)' = ChannelOf(f)
  BY CreatesDependencies, SameConfig DEF Creates
<1>2. /\ \A kind : Of(kind) \subseteq Of(kind)' /\ Of(kind) \subseteq Made
      /\ \A kind : \A u \in Of(kind)' : u \in Of(kind) \/ (u = t /\ t[1] = kind)
  BY CreatesTasks DEF Of
<1>3. \A f : PartsOf(f) \subseteq PartsOf(f)' BY <1>2 DEF PartsOf
<1>4. Of("combined") = {} BY DEF NamesOK
<1>5. \A u \in Of("in")' \cup Of("root")' : dependencies'[u] = <<>>
  BY <1>1, <1>2 DEF DependenciesOK, MayDepend, Creates
<1>6. \A u \in Of("leaf")' : dependencies'[u] = <<Job("root", u[2])>>
  BY <1>1, <1>2 DEF DependenciesOK, MayDepend
<1>7. \A u \in Of("shift")' \cup Of("combine")' :
        dependencies'[u] # <<>> /\ dependencies'[u][1] = Job("in", ChannelOf(u[2])')
  BY <1>1, <1>2 DEF DependenciesOK, MayDepend
<1>8. ASSUME NEW u \in Of("shift")'
      PROVE  ToSet(dependencies'[u])
               = {Job("in", ChannelOf(u[2])')} \cup {w \in Of("leaf")' : w[2] = u[2]}
  <2>1. CASE u \in Of("shift")
    <3>1. u[2] \in Shifted BY <2>1 DEF NamesOK, Job
    <3>2. {w \in Of("leaf")' : w[2] = u[2]} = {w \in Of("leaf") : w[2] = u[2]}
      BY <1>2, <3>1 DEF MayDepend
    <3> QED BY <1>1, <1>2, <2>1, <3>2 DEF DependenciesOK
  <2>2. CASE u = t /\ t[1] = "shift"
    <3>1. Of("leaf")' = Of("leaf") BY <1>2, <2>2
    <3> QED BY <1>1, <2>2, <3>1 DEF MayDepend
  <2> QED BY <1>2, <2>1, <2>2
<1>9. \A u \in Of("sum")' :
        /\ ToSet(dependencies'[u]) \subseteq PartsOf(u[2])'
        /\ \A w \in ToSet(dependencies'[u]) : w[1] = "sum" => w[3] < u[3]
  <2>1. ASSUME NEW u \in Of("sum")
        PROVE  /\ ToSet(dependencies'[u]) \subseteq PartsOf(u[2])'
               /\ \A w \in ToSet(dependencies'[u]) : w[1] = "sum" => w[3] < u[3]
    <3>1. dependencies'[u] = dependencies[u] BY <1>1, <1>2
    <3> QED BY <1>3, <3>1 DEF DependenciesOK
  <2>2. ASSUME t[1] = "sum"
        PROVE  /\ ToSet(dependencies'[t]) \subseteq PartsOf(t[2])'
               /\ \A w \in ToSet(dependencies'[t]) : w[1] = "sum" => w[3] < t[3]
    BY <1>1, <1>3, <2>2 DEF MayDepend
  <2> QED BY <1>2, <2>1, <2>2
<1>10. \A u \in Of("combine")' :
         ToSet(dependencies'[u]) \subseteq {Job("in", ChannelOf(u[2])')} \cup PartsOf(u[2])'
  <2>1. ASSUME NEW u \in Of("combine")
        PROVE  ToSet(dependencies'[u]) \subseteq {Job("in", ChannelOf(u[2]))} \cup PartsOf(u[2])'
    <3>1. dependencies'[u] = dependencies[u] BY <1>1, <1>2
    <3> QED BY <1>3, <3>1 DEF DependenciesOK
  <2>2. t[1] = "combine" =>
          ToSet(dependencies'[t]) \subseteq {Job("in", ChannelOf(t[2]))} \cup PartsOf(t[2])'
    BY <1>1, <1>3 DEF MayDepend
  <2> QED BY <1>1, <1>2, <2>1, <2>2
<1>11. \A u \in Of("result")' :
         ToSet(dependencies'[u]) = {Job("combine", u[2]), Job("shift", u[2])}
  BY <1>1, <1>2 DEF DependenciesOK, MayDepend
<1>12. \A u \in Of("combined")' : dependencies'[u] = results' BY <1>1, <1>2, <1>4
<1> QED
  BY <1>1, <1>5, <1>6, <1>7, <1>8, <1>9, <1>10, <1>11, <1>12
  DEF DependenciesOK, Of, PartsOf, ChannelOf, Job
(* What the artifact of a new task may add up. *)
MayHold(t, ds, v) ==
  LET N == BlocksIn(t[2])
      held == {b \in DOMAIN v : v[b] = 1}
  IN  /\ t[1] \in {"leaf", "sum", "combine", "result"} => v \in [0 .. N - 1 -> {0, 1}]
      /\ t[1] = "leaf" =>
            held = {b \in 0 .. N - 1 : t[3] <= b /\ b < t[3] + config.combine}
      /\ t[1] = "sum" => Splits(held, ToSet(ds))
      /\ t[1] \in {"combine", "result"} => held = 0 .. N - 1
      /\ t[1] = "combine" => Splits(1 .. N - 1, ToSet(ds) \ Of("in"))

LEMMA StepSums ==
  ASSUME GraphInv, NEW t, NEW ds, NEW v, Creates(t, ds, v), config' = config,
         MayDepend(t, ds), MayHold(t, ds, v),
         phase' = "leaves" => Splits({b \in 1 .. NumBlocks - 1 : b < i}, ToSet(Tail(deps)))',
         phase' = "sums" => Splits(1 .. NumBlocks - 1, ToSet(sumUp))'
  PROVE  SumsOK'
<1> USE DEF GraphInv
<1> DEFINE held == {b \in DOMAIN v : v[b] = 1}
<1>1. /\ t \notin Made /\ dependencies'[t] = ds /\ ToSet(ds) \subseteq Made
      /\ \A f : BlocksIn(f)' = BlocksIn(f)
  BY CreatesDependencies, SameConfig, ListMembers DEF Creates
<1>2. /\ sums'[t] = v /\ Held(t)' = held
      /\ \A u \in Made \ Of("in") : Held(u)' = Held(u)
  BY CreatesSums DEF Held
<1>3. /\ \A kind : \A u \in Of(kind)' : u \in Of(kind) \/ (u = t /\ t[1] = kind)
      /\ Of("in")' = Of("in") /\ Made' = Made \cup {t}
  BY CreatesTasks DEF Creates, Of
<1>4. ASSUME t[1] = "sum" PROVE Splits(Held(t), ToSet(dependencies[t]))'
  <2>1. Splits(held, ToSet(ds)) BY <1>4 DEF MayHold
  <2>2. \A u \in ToSet(ds) : Held(u)' = Held(u) BY <1>2, <1>4, PartsMade DEF MayDepend
  <2> HIDE DEF held
  <2> QED BY <1>1, <1>2, <2>1, <2>2 DEF Splits
<1>5. ASSUME t[1] = "combine"
      PROVE  Splits(1 .. BlocksIn(t[2]) - 1, ToSet(dependencies[t]) \ Of("in"))'
  <2>1. Splits(1 .. BlocksIn(t[2]) - 1, ToSet(ds) \ Of("in")) BY <1>5 DEF MayHold
  <2>2. \A u \in ToSet(ds) \ Of("in") : Held(u)' = Held(u) BY <1>1, <1>2
  <2> QED BY <1>1, <1>3, <2>1, <2>2 DEF Splits
<1>6. /\ t[1] \in {"leaf", "sum", "combine", "result"} =>
            sums'[t] \in [0 .. BlocksIn(t[2])' - 1 -> {0, 1}]
      /\ t[1] = "leaf" =>
            Held(t)' = {b \in 0 .. BlocksIn(t[2])' - 1 : t[3] <= b /\ b < t[3] + config'.combine}
      /\ t[1] \in {"combine", "result"} => Held(t)' = 0 .. BlocksIn(t[2])' - 1
  BY <1>1, <1>2 DEF MayHold
<1>7. /\ \A u \in Made' : u[1] \in {"leaf", "sum", "combine", "result"} =>
           sums'[u] \in [0 .. BlocksIn(u[2])' - 1 -> {0, 1}]
      /\ \A u \in Of("leaf")' :
           Held(u)' = {b \in 0 .. BlocksIn(u[2])' - 1 : u[3] <= b /\ b < u[3] + config'.combine}
      /\ \A u \in Of("sum")' : Splits(Held(u), ToSet(dependencies[u]))'
      /\ \A u \in Of("combine")' :
           /\ Held(u)' = 0 .. BlocksIn(u[2])' - 1
           /\ Splits(1 .. BlocksIn(u[2]) - 1, ToSet(dependencies[u]) \ Of("in"))'
      /\ \A u \in Of("result")' : Held(u)' = 0 .. BlocksIn(u[2])' - 1
  <2> HIDE DEF held
  <2> QED BY <1>3, <1>4, <1>5, <1>6, CreatesArtifacts
<1> QED BY <1>7 DEF SumsOK
--------------------------------------------------------------------------------
(* One lemma per action. *)

LEMMA RootStep ==
  ASSUME GraphInv, CreateRoot
  PROVE  GraphInv'
<1> DEFINE t == Job("root", filter)
<1> USE DEF GraphInv
<1>1. /\ phase = "root" /\ phase' = "leaves" /\ i' = 1 /\ deps' = <<Input>>
      /\ config' = config /\ filter' = filter /\ sumUp' = sumUp /\ results' = results
      /\ Create(t, <<>>, Nothing)
  BY DEF CreateRoot, Task, Job
<1>2. /\ filter \in Filters /\ NumBlocks \in Nat \ {0} /\ Input \in Of("in")
      /\ Input' = Input /\ NumBlocks' = NumBlocks
  BY <1>1, ConfigFacts, SameFilter DEF GraphTypeOK, NumBlocks, Input, NamesOK
<1>t. t = <<t[1], t[2], t[3]>> /\ t[1] = "root" /\ t[2] = filter BY DEF Job
<1>3. filter \notin Begun /\ filter \notin Shifted
  BY <1>1, PastSets DEF Begun, Shifted
<1>4. Creates(t, <<>>, Nothing)
  <2>1. t \notin Made BY <1>3 DEF NamesOK, Of, Job
  <2>2. <<>> \in Seq(Made) /\ IsInjective(<<>>) BY DEF IsInjective
  <2> HIDE DEF t
  <2> QED BY <1>1, <1>t, <2>1, <2>2 DEF Creates, Kinds
<1> HIDE DEF t
<1>5. /\ GraphTypeOK' /\ LinksOK'
      /\ Made' = Made \cup {t} /\ t \notin Made
      /\ \A kind : Of(kind)' = IF kind = t[1] THEN Of(kind) \cup {t} ELSE Of(kind)
      /\ dependencies'[t] = <<>> /\ dependents'[t] = <<>> /\ sums'[t] = Nothing
      /\ \A u \in Made : dependencies'[u] = dependencies[u]
      /\ Filters' = Filters
      /\ \A f : ChannelOf(f)' = ChannelOf(f) /\ BlocksIn(f)' = BlocksIn(f)
      /\ \A phases : Past(phases)' = {f \in Filters : f < filter}
                                       \cup (IF phase' \in phases THEN {filter} ELSE {})
  <2>1. Made' = Made \cup {t} BY <1>4, CreatesTasks
  <2>2. deps' \in Seq(Made') BY <1>1, <1>2, <2>1 DEF Of
  <2>3. sumUp' \in Seq(Made') /\ results' \in Seq(Made')
    <3>1. \A s \in Seq(Made) : s \in Seq(Made') BY <2>1
    <3> QED BY <1>1, <3>1 DEF GraphTypeOK
  <2> QED BY <1>1, <1>2, <1>4, <2>2, <2>3, StepContext
<1>6. /\ Of("root")' = Of("root") \cup {t}
      /\ \A kind : kind # "root" => Of(kind)' = Of(kind)
      /\ \A f : PartsOf(f)' = PartsOf(f)
  <2>1. Of("root")' = Of("root") \cup {t} /\ \A kind : kind # "root" => Of(kind)' = Of(kind)
    BY <1>5, <1>t
  <2> QED BY <2>1 DEF PartsOf
<1>7. Begun' = Begun \cup {filter} /\ Shifted' = Shifted /\ Joined' = Joined
      /\ Finished' = Finished
  BY <1>1, <1>5, PastSets DEF Begun, Shifted, Joined, Finished
<1>8. \A u \in Of("leaf") \cup Of("sum") : u[2] # filter BY <1>3 DEF NamesOK
<1>9. NamesOK'
  <2>1. Of("root")' = {Job("root", f) : f \in Begun'} BY <1>6, <1>7 DEF NamesOK, t
  <2>2. Of("combined")' = {} BY <1>1, <1>6 DEF NamesOK
  <2>3. \A u \in Of("leaf")' : u[2] # filter' BY <1>1, <1>6, <1>8
  <2>4. \A u \in Of("sum")' : u[2] # filter' BY <1>1, <1>6, <1>8
  <2> QED BY <1>1, <1>5, <1>6, <1>7, <2>1, <2>2, <2>3, <2>4 DEF NamesOK
<1>10. DependenciesOK'
  <2>1. MayDepend(t, <<>>) BY <1>t DEF MayDepend
  <2>2. ToSet(results') = Of("result")' BY <1>1, <1>6 DEF DependenciesOK
  <2> QED BY <1>1, <1>4, <1>t, <2>1, <2>2, StepDependencies
<1>11. ListsOK'
  <2>1. ToSet(Tail(deps')) = {} /\ deps' # <<>> /\ deps'[1] = Input' /\ IsInjective(deps')
    BY <1>1, <1>2 DEF ToSet, IsInjective
  <2>2. {u \in Of("leaf")' : u[2] = filter'} = {} BY <1>1, <1>6, <1>8
  <2> QED BY <1>1, <2>1, <2>2 DEF ListsOK
<1>12. OpenOK'
  <2>1. ASSUME NEW u \in Made', dependents'[u] = <<>>
        PROVE  u = t \/ (u \in Made /\ dependents[u] = <<>>)
    BY <1>4, <2>1, CreatesOpen DEF GraphInv
  <2> QED BY <1>1, <1>t, <1>5, <1>7, <2>1 DEF OpenOK
<1>13. SumsOK'
  <2>1. Splits({b \in 1 .. NumBlocks - 1 : b < i}, ToSet(Tail(deps)))'
    <3>1. ToSet(Tail(deps')) = {} BY <1>1 DEF ToSet
    <3>2. {b \in 1 .. NumBlocks' - 1 : b < i'} = {} BY <1>1, <1>2
    <3> QED BY <3>1, <3>2 DEF Splits
  <2>2. MayDepend(t, <<>>) /\ MayHold(t, <<>>, Nothing) BY <1>t DEF MayDepend, MayHold
  <2> QED BY <1>1, <1>4, <2>1, <2>2, StepSums
<1>14. CountsOK'
  <2>1. \A f : Number("sum", f)' = Number("sum", f) /\ Number("leaf", f)' = Number("leaf", f)
    BY <1>4, <1>t, CreatesCounts
  <2>2. Number("leaf", filter) = 0
    <3>1. {u \in Of("leaf") : u[2] = filter} = {} BY <1>8
    <3> QED BY <3>1, FS_EmptySet DEF Number
  <2> QED BY <1>1, <1>5, <2>1, <2>2 DEF CountsOK
<1> QED BY <1>5, <1>9, <1>10, <1>11, <1>12, <1>13, <1>14

LEMMA TailAppend ==
  ASSUME NEW S, NEW s \in Seq(S), s # <<>>, NEW x
  PROVE  /\ Append(s, x) # <<>> /\ Append(s, x)[1] = s[1]
         /\ Len(Append(s, x)) = Len(s) + 1
         /\ ToSet(Tail(Append(s, x))) = ToSet(Tail(s)) \cup {x}
<1> DEFINE T == S \cup {x}
<1>1. s \in Seq(T) /\ x \in T /\ Len(s) \in Nat \ {0} OBVIOUS
<1> HIDE DEF T
<1>2. /\ Append(s, x) # <<>> /\ Append(s, x)[1] = s[1]
      /\ Len(Append(s, x)) = Len(s) + 1
  BY <1>1
<1>3. Tail(Append(s, x)) = Append(Tail(s), x) BY <1>1
<1>4. Tail(s) \in Seq(S) BY TailSet
<1>5. ToSet(Append(Tail(s), x)) = ToSet(Tail(s)) \cup {x} BY <1>4, AppendSet
<1>6. ToSet(Tail(Append(s, x))) = ToSet(Tail(s)) \cup {x} BY ONLY <1>3, <1>5, Zenon
<1> QED BY <1>2, <1>6

LEMMA LeafStep ==
  ASSUME GraphInv, CreateLeaf
  PROVE  GraphInv'
<1> USE DEF GraphInv
<1>d. PICK t : t = <<"leaf", filter, i>> OBVIOUS
<1>e. PICK root : root = Job("root", filter) OBVIOUS
<1>1. /\ phase = "leaves" /\ phase' = "leaves" /\ i < NumBlocks /\ i' = i + config.combine
      /\ deps' = Append(deps, t)
      /\ config' = config /\ filter' = filter /\ sumUp' = sumUp /\ results' = results
      /\ Create(t, <<root>>, LeafBlocks)
  BY <1>d, <1>e DEF CreateLeaf, Task, Job
<1>2. /\ filter \in Filters /\ NumBlocks \in Nat \ {0} /\ NumBlocks = BlocksIn(filter)
      /\ i \in Nat \ {0} /\ config.combine \in Nat \ {0}
      /\ Input' = Input /\ NumBlocks' = NumBlocks
      /\ deps \in Seq(Made) /\ ToSet(deps) \subseteq Made /\ deps # <<>>
  <2>1. deps \in Seq(Made) /\ i \in Nat \ {0} BY <1>1 DEF GraphTypeOK
  <2>2. ToSet(deps) \subseteq Made BY <2>1, ListMembers
  <2>3. IsConfig(config) /\ filter \in Filters BY DEF GraphTypeOK
  <2> QED BY <1>1, <2>1, <2>2, <2>3, ConfigFacts, SameFilter DEF NumBlocks, ListsOK
<1>t. t = <<t[1], t[2], t[3]>> /\ t[1] = "leaf" /\ t[2] = filter /\ t[3] = i BY <1>d
<1>3. filter \in Begun /\ filter \notin Shifted
  BY <1>1, PastSets DEF Begun, Shifted
<1>r. root \in Made /\ root[1] = "root" /\ root[2] = filter
  BY <1>3, <1>e DEF NamesOK, Of, Job
<1>4. Creates(t, <<root>>, LeafBlocks)
  <2>1. t \notin Made
    <3>1. t \notin Of("leaf") BY <1>1, <1>2, <1>t DEF NamesOK
    <3> QED BY <1>t, <3>1 DEF Of
  <2>2. <<root>> \in Seq(Made) /\ IsInjective(<<root>>) BY <1>r DEF IsInjective
  <2> QED BY <1>1, <1>t, <2>1, <2>2 DEF Creates, Kinds
<1>5. /\ GraphTypeOK' /\ LinksOK'
      /\ Made' = Made \cup {t} /\ t \notin Made
      /\ \A kind : Of(kind)' = IF kind = t[1] THEN Of(kind) \cup {t} ELSE Of(kind)
      /\ dependencies'[t] = <<root>> /\ dependents'[t] = <<>> /\ sums'[t] = LeafBlocks
      /\ \A u \in Made : dependencies'[u] = dependencies[u]
      /\ Filters' = Filters
      /\ \A f : ChannelOf(f)' = ChannelOf(f) /\ BlocksIn(f)' = BlocksIn(f)
      /\ \A phases : Past(phases)' = {f \in Filters : f < filter}
                                       \cup (IF phase' \in phases THEN {filter} ELSE {})
  <2>1. Made' = Made \cup {t} BY <1>4, CreatesTasks
  <2>2. \A s \in Seq(Made) : s \in Seq(Made') /\ Append(s, t) \in Seq(Made') BY <2>1
  <2>3. deps' \in Seq(Made') /\ sumUp' \in Seq(Made') /\ results' \in Seq(Made')
    BY <1>1, <1>2, <2>2 DEF GraphTypeOK
  <2>4. i' \in Nat /\ i' # 0 BY <1>1, <1>2
  <2>5. phase' \in {"root", "leaves", "sums", "result", "combined", "done"} BY <1>1
  <2> QED BY <1>1, <1>2, <1>4, <2>3, <2>4, <2>5, StepContext
<1>6. /\ Of("leaf")' = Of("leaf") \cup {t}
      /\ \A kind : kind # "leaf" => Of(kind)' = Of(kind)
  BY <1>5, <1>t
<1>7. Begun' = Begun /\ Shifted' = Shifted /\ Joined' = Joined /\ Finished' = Finished
  BY <1>1, <1>5, PastSets DEF Begun, Shifted, Joined, Finished
<1>8. NamesOK'
  <2>1. ASSUME NEW u \in Of("leaf")'
        PROVE  /\ u[2] \in Begun'
               /\ u[3] \in 1 .. BlocksIn(u[2])' - 1
               /\ u[2] = filter' /\ phase' = "leaves" => u[3] < i'
    <3>1. CASE u \in Of("leaf")
      <4>1. /\ u[2] \in Begun /\ u[3] \in 1 .. BlocksIn(u[2]) - 1
            /\ u[2] = filter => u[3] < i
        BY <1>1, <3>1 DEF NamesOK
      <4>2. u[2] = filter => u[3] < i' BY <1>1, <1>2, <4>1
      <4> QED BY <1>1, <1>5, <1>7, <4>1, <4>2
    <3>2. CASE u = t BY <1>1, <1>2, <1>3, <1>5, <1>7, <1>t, <3>2
    <3> QED BY <1>6, <3>1, <3>2
  <2>2. Of("combined")' = {} /\ phase' # "done" BY <1>1, <1>6 DEF NamesOK
  <2>3. \A u \in Of("sum")' :
          /\ u[2] \in Shifted' /\ u[3] \in Nat /\ (u[2] = filter' /\ phase' = "sums" => u[3] < i')
    BY <1>1, <1>6, <1>7 DEF NamesOK
  <2> QED BY <1>1, <1>5, <1>6, <1>7, <2>1, <2>2, <2>3 DEF NamesOK
<1>9. MayDepend(t, <<root>>) BY <1>3, <1>e, <1>t DEF MayDepend
<1>10. DependenciesOK'
  <2>1. ToSet(results') = Of("result")' BY <1>1, <1>6 DEF DependenciesOK
  <2> QED BY <1>1, <1>4, <1>t, <1>9, <2>1, StepDependencies
<1>11. ToSet(Tail(deps')) = ToSet(Tail(deps)) \cup {t} BY <1>1, <1>2, TailAppend
<1>12. ListsOK'
  <2>1. deps' # <<>> /\ deps'[1] = Input' BY <1>1, <1>2, TailAppend DEF ListsOK
  <2>2. IsInjective(deps') BY <1>1, <1>2, <1>5, AppendSet DEF ListsOK
  <2>3. ToSet(Tail(deps')) = {u \in Of("leaf")' : u[2] = filter'}
    BY <1>1, <1>6, <1>11, <1>t DEF ListsOK
  <2> QED BY <1>1, <2>1, <2>2, <2>3 DEF ListsOK
<1>13. OpenOK'
  <2>1. ASSUME NEW u \in Made', dependents'[u] = <<>>
        PROVE  u = t \/ (u \in Made /\ dependents[u] = <<>> /\ u # root)
    <3>1. root \in ToSet(<<root>>) BY DEF ToSet
    <3> QED BY <1>4, <2>1, <3>1, CreatesOpen DEF GraphInv
  <2>2. \A u \in Made : u[1] = "root" /\ u[2] = filter => u = root
    BY <1>e DEF NamesOK, Of, Job
  <2> QED BY <1>1, <1>t, <1>5, <1>7, <2>1, <2>2 DEF OpenOK
<1>14. /\ LeafBlocks \in [0 .. NumBlocks - 1 -> {0, 1}]
       /\ {b \in DOMAIN LeafBlocks : LeafBlocks[b] = 1}
            = {b \in 0 .. NumBlocks - 1 : i <= b /\ b < i + config.combine}
  <2>1. i + config.combine \in Int /\ NumBlocks \in Int BY <1>2
  <2>2. Min({NumBlocks, i + config.combine})
          = IF NumBlocks <= i + config.combine THEN NumBlocks ELSE i + config.combine
    BY <2>1, MinOfTwo
  <2> QED BY <1>2, <2>2 DEF LeafBlocks
<1>15. SumsOK'
  <2>1. MayHold(t, <<root>>, LeafBlocks) BY <1>2, <1>14, <1>t DEF MayHold
  <2>2. /\ ToSet(Tail(deps)) \subseteq Made \ Of("in")
        /\ Splits({b \in 1 .. NumBlocks - 1 : b < i}, ToSet(Tail(deps)))
    BY <1>1 DEF ListsOK, SumsOK, Of
  <2>3. Held(t)' = {b \in 0 .. NumBlocks - 1 : i <= b /\ b < i + config.combine}
    BY <1>5, <1>14 DEF Held
  <2>4. Splits({b \in 1 .. NumBlocks - 1 : b < i}, ToSet(Tail(deps)))'
    <3>1. \A u \in ToSet(Tail(deps)) : Held(u)' = Held(u) BY <1>4, <2>2, CreatesSums
    <3>2. {b \in 1 .. NumBlocks' - 1 : b < i'}
            = {b \in 1 .. NumBlocks - 1 : b < i} \cup Held(t)'
      BY <1>1, <1>2, <2>3
    <3>3. {b \in 1 .. NumBlocks - 1 : b < i} \cap Held(t)' = {} BY <1>2, <2>3
    <3> QED BY <1>11, <2>2, <3>1, <3>2, <3>3 DEF Splits
  <2> QED BY <1>1, <1>4, <1>9, <2>1, <2>4, StepSums
<1>16. CountsOK'
  <2>1. \A f : /\ Number("sum", f)' = Number("sum", f)
               /\ Number("leaf", f)' = Number("leaf", f) + IF f = filter THEN 1 ELSE 0
               /\ Number("sum", f) \in Nat /\ Number("leaf", f) \in Nat
    BY <1>4, <1>t, CreatesCounts
  <2>2. Len(deps') = Len(deps) + 1 BY <1>1, <1>2, TailAppend
  <2>3. Len(deps) = 1 + Number("leaf", filter) BY <1>1 DEF CountsOK
  <2>4. \A f \in Filters : Number("sum", f)' # 0 => Number("sum", f)' < Number("leaf", f)'
    BY <2>1 DEF CountsOK
  <2>5. Len(deps') = 1 + Number("leaf", filter)' BY <1>1, <1>2, <2>1, <2>2, <2>3
  <2> QED BY <1>1, <1>5, <2>4, <2>5 DEF CountsOK
<1> QED BY <1>5, <1>8, <1>10, <1>12, <1>13, <1>15, <1>16

LEMMA ShiftStep ==
  ASSUME GraphInv, CreateShift
  PROVE  GraphInv'
<1> USE DEF GraphInv
<1>d. PICK t : t = Job("shift", filter) OBVIOUS
<1>1. /\ phase = "leaves" /\ phase' = "sums" /\ i >= NumBlocks /\ i' = i
      /\ sumUp' = Tail(deps) /\ deps' = deps
      /\ config' = config /\ filter' = filter /\ results' = results
      /\ Create(t, deps, Nothing)
  BY <1>d DEF CreateShift, Task, Job
<1>2. /\ filter \in Filters /\ NumBlocks \in Nat \ {0} /\ NumBlocks = BlocksIn(filter)
      /\ i \in Nat \ {0} /\ Input' = Input /\ NumBlocks' = NumBlocks
      /\ deps \in Seq(Made) /\ deps # <<>> /\ deps[1] = Input /\ IsInjective(deps)
      /\ ToSet(Tail(deps)) = {u \in Of("leaf") : u[2] = filter}
  <2>1. deps \in Seq(Made) /\ i \in Nat \ {0} BY <1>1 DEF GraphTypeOK
  <2>2. IsConfig(config) /\ filter \in Filters BY DEF GraphTypeOK
  <2> QED BY <1>1, <2>1, <2>2, ConfigFacts, SameFilter DEF NumBlocks, ListsOK
<1>l. /\ Tail(deps) \in Seq(Made) /\ Len(Tail(deps)) = Len(deps) - 1
      /\ ToSet(deps) = {Input} \cup ToSet(Tail(deps)) /\ IsInjective(Tail(deps))
  BY <1>2, TailSet
<1>t. t = <<t[1], t[2], t[3]>> /\ t[1] = "shift" /\ t[2] = filter BY <1>d DEF Job
<1>3. filter \in Begun /\ filter \notin Shifted
  BY <1>1, PastSets DEF Begun, Shifted
<1>4. Creates(t, deps, Nothing)
  <2>1. t \notin Made BY <1>3, <1>d DEF NamesOK, Of, Job
  <2> QED BY <1>1, <1>2, <1>t, <2>1 DEF Creates, Kinds
<1>5. /\ GraphTypeOK' /\ LinksOK'
      /\ Made' = Made \cup {t} /\ t \notin Made
      /\ \A kind : Of(kind)' = IF kind = t[1] THEN Of(kind) \cup {t} ELSE Of(kind)
      /\ dependents'[t] = <<>>
      /\ Filters' = Filters
      /\ \A f : ChannelOf(f)' = ChannelOf(f) /\ BlocksIn(f)' = BlocksIn(f)
      /\ \A phases : Past(phases)' = {f \in Filters : f < filter}
                                       \cup (IF phase' \in phases THEN {filter} ELSE {})
  <2>1. Made' = Made \cup {t} BY <1>4, CreatesTasks
  <2>2. \A s \in Seq(Made) : s \in Seq(Made') BY <2>1
  <2>3. deps' \in Seq(Made') /\ sumUp' \in Seq(Made') /\ results' \in Seq(Made')
    BY <1>1, <1>2, <1>l, <2>2 DEF GraphTypeOK
  <2>4. i' \in Nat /\ i' # 0 BY <1>1, <1>2
  <2>5. phase' \in {"root", "leaves", "sums", "result", "combined", "done"} BY <1>1
  <2> QED BY <1>1, <1>2, <1>4, <2>3, <2>4, <2>5, StepContext
<1>6. /\ Of("shift")' = Of("shift") \cup {t}
      /\ \A kind : kind # "shift" => Of(kind)' = Of(kind)
      /\ \A f : PartsOf(f)' = PartsOf(f)
  <2>1. Of("shift")' = Of("shift") \cup {t} /\ \A kind : kind # "shift" => Of(kind)' = Of(kind)
    BY <1>5, <1>t
  <2> QED BY <2>1 DEF PartsOf
<1>7. Begun' = Begun /\ Shifted' = Shifted \cup {filter} /\ Joined' = Joined
      /\ Finished' = Finished
  BY <1>1, <1>5, PastSets DEF Begun, Shifted, Joined, Finished
<1>8. \A u \in Of("sum") : u[2] # filter BY <1>3 DEF NamesOK
<1>9. NamesOK'
  <2>1. Of("shift")' = {Job("shift", f) : f \in Shifted'} BY <1>6, <1>7, <1>d DEF NamesOK
  <2>2. Of("combined")' = {} /\ phase' # "done" BY <1>1, <1>6 DEF NamesOK
  <2>3. \A u \in Of("leaf")' : u[2] \in Begun' /\ u[3] \in 1 .. BlocksIn(u[2])' - 1
    BY <1>5, <1>6, <1>7 DEF NamesOK
  <2>4. \A u \in Of("sum")' : u[2] \in Shifted' /\ u[3] \in Nat /\ u[2] # filter'
    BY <1>1, <1>6, <1>7, <1>8 DEF NamesOK
  <2> QED BY <1>1, <1>5, <1>6, <1>7, <2>1, <2>2, <2>3, <2>4 DEF NamesOK
<1>10. MayDepend(t, deps) BY <1>2, <1>l, <1>t DEF MayDepend, Input
<1>11. DependenciesOK'
  <2>1. ToSet(results') = Of("result")' BY <1>1, <1>6 DEF DependenciesOK
  <2> QED BY <1>1, <1>4, <1>t, <1>10, <2>1, StepDependencies
<1>12. ListsOK'
  <2>1. ToSet(sumUp') \subseteq PartsOf(filter') BY <1>1, <1>2 DEF PartsOf
  <2> QED BY <1>1, <1>6, <1>l, <2>1 DEF ListsOK
<1>13. OpenOK'
  <2>1. ASSUME NEW u \in Made', dependents'[u] = <<>>
        PROVE  u = t \/ (u \in Made /\ dependents[u] = <<>> /\ u \notin ToSet(deps))
    BY <1>4, <2>1, CreatesOpen DEF GraphInv
  <2>2. ASSUME NEW u \in Made, u \notin ToSet(deps), u[1] = "in" PROVE u[2] # ChannelOf(filter)
    BY <1>l, <2>2 DEF NamesOK, Of, Job, Input
  <2>3. ASSUME NEW u \in Made, u \notin ToSet(deps), u[1] = "leaf" PROVE u[2] # filter
    BY <1>2, <1>l, <2>3 DEF Of
  <2>4. i = 1 => BlocksIn(filter) = 1 BY <1>1, <1>2
  <2>5. ASSUME NEW u \in Made, dependents[u] = <<>>, u \notin ToSet(deps)
        PROVE \/ u[1] = "in" /\ \A f \in Shifted' : ChannelOf(f) # u[2]
              \/ u[1] = "root" /\ BlocksIn(u[2]) = 1
              \/ u[1] = "result"
              \/ u = Combined
    BY <1>1, <1>7, <2>2, <2>3, <2>4, <2>5 DEF OpenOK
  <2>6. Combined' = Combined BY DEF Combined, Job
  <2> QED BY <1>1, <1>t, <1>5, <1>7, <2>1, <2>5, <2>6 DEF OpenOK
<1>14. SumsOK'
  <2>1. MayHold(t, deps, Nothing) BY <1>t DEF MayHold
  <2>2. /\ ToSet(Tail(deps)) \subseteq Made \ Of("in")
        /\ Splits({b \in 1 .. NumBlocks - 1 : b < i}, ToSet(Tail(deps)))
    BY <1>1, <1>2 DEF SumsOK, Of
  <2>3. {b \in 1 .. NumBlocks - 1 : b < i} = 1 .. NumBlocks - 1 BY <1>1, <1>2
  <2>4. \A u \in ToSet(Tail(deps)) : Held(u)' = Held(u) BY <1>4, <2>2, CreatesSums
  <2>5. Splits(1 .. NumBlocks - 1, ToSet(sumUp))'
    BY <1>1, <1>2, <2>2, <2>3, <2>4 DEF Splits
  <2> QED BY <1>1, <1>4, <1>10, <2>1, <2>5, StepSums
<1>15. CountsOK'
  <2>1. \A f : /\ Number("sum", f)' = Number("sum", f) /\ Number("leaf", f)' = Number("leaf", f)
               /\ Number("sum", f) \in Nat /\ Number("leaf", f) \in Nat
    BY <1>4, <1>t, CreatesCounts
  <2>2. Number("sum", filter) = 0
    <3>1. {u \in Of("sum") : u[2] = filter} = {} BY <1>8
    <3> QED BY <3>1, FS_EmptySet DEF Number
  <2>3. Len(deps) = 1 + Number("leaf", filter) BY <1>1 DEF CountsOK
  <2>4. Number("sum", filter') + Len(sumUp') <= Number("leaf", filter')
    BY <1>1, <1>l, <2>1, <2>2, <2>3
  <2> QED BY <1>1, <1>5, <2>1, <2>4 DEF CountsOK
<1> QED BY <1>5, <1>9, <1>11, <1>12, <1>13, <1>14, <1>15

LEMMA SumStep ==
  ASSUME GraphInv, CreateSum
  PROVE  GraphInv'
<1> USE DEF GraphInv
<1>d. PICK t : t = <<"sum", filter, i>> OBVIOUS
<1>e. PICK ops, rest : /\ ops = SubSeq(sumUp, 1, FanIn)
                       /\ rest = SubSeq(sumUp, FanIn + 1, Len(sumUp))
  OBVIOUS
<1>1. /\ phase = "sums" /\ phase' = "sums" /\ Len(sumUp) > 1 /\ i' = i + 1
      /\ sumUp' = Append(rest, t) /\ deps' = deps
      /\ config' = config /\ filter' = filter /\ results' = results
      /\ Create(t, ops, Added(ops))
  BY <1>d, <1>e DEF CreateSum, Task
<1>2. /\ filter \in Filters /\ NumBlocks \in Nat \ {0} /\ NumBlocks = BlocksIn(filter)
      /\ i \in Nat \ {0} /\ NumBlocks' = NumBlocks /\ config.combine \in Nat \ {0}
      /\ sumUp \in Seq(Made) /\ IsInjective(sumUp) /\ ToSet(sumUp) \subseteq PartsOf(filter)
      /\ Splits(1 .. NumBlocks - 1, ToSet(sumUp))
  <2>1. sumUp \in Seq(Made) /\ i \in Nat \ {0} BY <1>1 DEF GraphTypeOK
  <2>2. IsConfig(config) /\ filter \in Filters BY DEF GraphTypeOK
  <2> QED BY <1>1, <2>1, <2>2, ConfigFacts, SameFilter DEF NumBlocks, ListsOK, SumsOK
<1>f. FanIn \in 2 .. Len(sumUp)
  <2>1. PICK m : m = Max({2, config.combine}) OBVIOUS
  <2>2. m \in Int /\ m >= 2
    <3>1. Max({2, config.combine}) = IF 2 >= config.combine THEN 2 ELSE config.combine
      BY <1>2, MaxOfTwo
    <3> QED BY <1>2, <2>1, <3>1
  <2>3. Len(sumUp) \in Nat BY <1>2
  <2>4. FanIn = Min({m, Len(sumUp)}) BY <2>1 DEF FanIn
  <2>5. Min({m, Len(sumUp)}) = IF m <= Len(sumUp) THEN m ELSE Len(sumUp)
    BY <2>2, <2>3, MinOfTwo
  <2> QED BY <1>1, <2>2, <2>3, <2>4, <2>5
<1>l. /\ ops \in Seq(Made) /\ rest \in Seq(Made)
      /\ Len(ops) = FanIn /\ Len(rest) = Len(sumUp) - FanIn
      /\ IsInjective(ops) /\ IsInjective(rest)
      /\ ToSet(sumUp) = ToSet(ops) \cup ToSet(rest)
      /\ ToSet(ops) \cap ToSet(rest) = {}
  <2>1. FanIn \in 0 .. Len(sumUp) BY <1>f
  <2> QED BY <1>2, <1>e, <2>1, CutSet
<1>m. /\ ToSet(sumUp') = ToSet(rest) \cup {t}
      /\ Len(sumUp') = Len(rest) + 1
      /\ ToSet(rest) \subseteq Made /\ ToSet(ops) \subseteq Made
  BY <1>1, <1>l, AppendSet, ListMembers
<1>t. t = <<t[1], t[2], t[3]>> /\ t[1] = "sum" /\ t[2] = filter /\ t[3] = i BY <1>d
<1>3. filter \in Shifted BY <1>1, PastSets DEF Shifted
<1>4. Creates(t, ops, Added(ops))
  <2>1. t \notin Of("sum") BY <1>1, <1>2, <1>t DEF NamesOK
  <2>2. t \notin Made BY <1>t, <2>1 DEF Of
  <2> QED BY <1>1, <1>l, <1>t, <2>2 DEF Creates, Kinds
<1>5. /\ GraphTypeOK' /\ LinksOK'
      /\ Made' = Made \cup {t} /\ t \notin Made
      /\ \A kind : Of(kind)' = IF kind = t[1] THEN Of(kind) \cup {t} ELSE Of(kind)
      /\ dependents'[t] = <<>>
      /\ Filters' = Filters
      /\ \A f : ChannelOf(f)' = ChannelOf(f) /\ BlocksIn(f)' = BlocksIn(f)
      /\ \A phases : Past(phases)' = {f \in Filters : f < filter}
                                       \cup (IF phase' \in phases THEN {filter} ELSE {})
  <2>1. Made' = Made \cup {t} BY <1>4, CreatesTasks
  <2>2. \A s \in Seq(Made) : s \in Seq(Made') /\ Append(s, t) \in Seq(Made') BY <2>1
  <2>3. deps' \in Seq(Made') /\ sumUp' \in Seq(Made') /\ results' \in Seq(Made')
    BY <1>1, <1>l, <2>2 DEF GraphTypeOK
  <2>4. i' \in Nat /\ i' # 0 BY <1>1, <1>2
  <2>5. phase' \in {"root", "leaves", "sums", "result", "combined", "done"} BY <1>1
  <2> QED BY <1>1, <1>2, <1>4, <2>3, <2>4, <2>5, StepContext
<1>6. /\ Of("sum")' = Of("sum") \cup {t}
      /\ \A kind : kind # "sum" => Of(kind)' = Of(kind)
      /\ PartsOf(filter)' = PartsOf(filter) \cup {t}
  <2>1. Of("sum")' = Of("sum") \cup {t} /\ \A kind : kind # "sum" => Of(kind)' = Of(kind)
    BY <1>5, <1>t
  <2> QED BY <1>1, <1>t, <2>1 DEF PartsOf
<1>7. Begun' = Begun /\ Shifted' = Shifted /\ Joined' = Joined /\ Finished' = Finished
  BY <1>1, <1>5, PastSets DEF Begun, Shifted, Joined, Finished
<1>8. NamesOK'
  <2>1. ASSUME NEW u \in Of("sum")'
        PROVE  u[2] \in Shifted' /\ u[3] \in Nat /\ (u[2] = filter' => u[3] < i')
    <3>1. CASE u \in Of("sum")
      <4>1. u[2] \in Shifted /\ u[3] \in Nat /\ (u[2] = filter => u[3] < i)
        BY <1>1, <3>1 DEF NamesOK
      <4> QED BY <1>1, <1>2, <1>7, <4>1
    <3>2. CASE u = t BY <1>1, <1>2, <1>3, <1>7, <1>t, <3>2
    <3> QED BY <1>6, <3>1, <3>2
  <2>2. Of("combined")' = {} /\ phase' # "done" BY <1>1, <1>6 DEF NamesOK
  <2>3. \A u \in Of("leaf")' : u[2] \in Begun' /\ u[3] \in 1 .. BlocksIn(u[2])' - 1
    BY <1>5, <1>6, <1>7 DEF NamesOK
  <2> QED BY <1>1, <1>5, <1>6, <1>7, <2>1, <2>2, <2>3 DEF NamesOK
<1>9. MayDepend(t, ops)
  <2>1. ToSet(ops) \subseteq PartsOf(filter) BY <1>2, <1>l
  <2>2. \A u \in ToSet(ops) : u[1] = "sum" => u[3] < i
    BY <1>1, <2>1 DEF PartsOf, Of, NamesOK
  <2> QED BY <1>t, <2>1, <2>2 DEF MayDepend
<1>10. DependenciesOK'
  <2>1. ToSet(results') = Of("result")' BY <1>1, <1>6 DEF DependenciesOK
  <2> QED BY <1>1, <1>4, <1>t, <1>9, <2>1, StepDependencies
<1>11. ListsOK'
  <2>1. IsInjective(sumUp') BY <1>1, <1>5, <1>l, <1>m, AppendSet
  <2>2. ToSet(sumUp') \subseteq PartsOf(filter)' BY <1>1, <1>2, <1>6, <1>l, <1>m
  <2> QED BY <1>1, <2>1, <2>2 DEF ListsOK
<1>12. OpenOK'
  <2>1. ASSUME NEW u \in Made', dependents'[u] = <<>>
        PROVE  u = t \/ (u \in Made /\ dependents[u] = <<>> /\ u \notin ToSet(ops))
    BY <1>4, <2>1, CreatesOpen DEF GraphInv
  <2>2. \A u \in ToSet(sumUp) : u \notin ToSet(ops) => u \in ToSet(sumUp') BY <1>l, <1>m
  <2>3. Combined' = Combined BY DEF Combined, Job
  <2>4. t \in ToSet(sumUp') BY <1>m
  <2> QED BY <1>1, <1>t, <1>5, <1>7, <2>1, <2>2, <2>3, <2>4 DEF OpenOK
<1>13. /\ Added(ops) \in [0 .. NumBlocks - 1 -> {0, 1}]
       /\ {b \in DOMAIN Added(ops) : Added(ops)[b] = 1} = UNION {Held(u) : u \in ToSet(ops)}
  <2>1. \A k \in DOMAIN ops : ops[k] \in ToSet(sumUp)
    BY <1>l DEF ToSet
  <2>2. \A u \in ToSet(sumUp) : sums[u] \in [0 .. NumBlocks - 1 -> {0, 1}]
    BY <1>2 DEF SumsOK, PartsOf, Of
  <2>3. \A k, m \in DOMAIN ops : k # m => Held(ops[k]) \cap Held(ops[m]) = {}
    BY <1>2, <1>l, <2>1 DEF Splits, IsInjective
  <2>4. Added(ops) = [b \in 0 .. NumBlocks - 1 |->
                        IF b \in UNION {Held(u) : u \in ToSet(ops)} THEN 1 ELSE 0]
    <3>1. NumBlocks \in Nat /\ ops \in Seq(Made) BY <1>2, <1>l
    <3>2. \A k \in DOMAIN ops : sums[ops[k]] \in [0 .. NumBlocks - 1 -> {0, 1}] BY <2>1, <2>2
    <3> QED BY <2>3, <3>1, <3>2, AddedDisjoint
  <2>5. UNION {Held(u) : u \in ToSet(ops)} \subseteq 0 .. NumBlocks - 1
    BY <1>l, <2>2 DEF Held
  <2> QED BY <2>4, <2>5
<1>14. SumsOK'
  <2>1. Splits(UNION {Held(u) : u \in ToSet(ops)}, ToSet(ops)) BY <1>2, <1>l DEF Splits
  <2>2. MayHold(t, ops, Added(ops)) BY <1>2, <1>13, <1>t, <2>1 DEF MayHold
  <2>3. Held(t)' = UNION {Held(u) : u \in ToSet(ops)} BY <1>4, <1>13, CreatesSums DEF Held
  <2>4. Splits(1 .. NumBlocks - 1, ToSet(sumUp))'
    <3>1. \A u \in ToSet(rest) : Held(u)' = Held(u)
      BY <1>2, <1>4, <1>l, PartsMade, CreatesSums
    <3>2. /\ 1 .. NumBlocks - 1 = UNION {Held(u) : u \in ToSet(sumUp)}
          /\ \A u, w \in ToSet(sumUp) : u # w => Held(u) \cap Held(w) = {}
      BY <1>2 DEF Splits
    <3>3. 1 .. NumBlocks - 1 = (UNION {Held(u) : u \in ToSet(rest)}) \cup Held(t)'
      BY <1>l, <2>3, <3>2
    <3>4. \A u \in ToSet(rest) : Held(u) \cap Held(t)' = {} BY <1>l, <2>3, <3>2
    <3>5. \A u, w \in ToSet(rest) : u # w => Held(u) \cap Held(w) = {} BY <1>l, <3>2
    <3>6. 1 .. NumBlocks - 1 = UNION {Held(u)' : u \in ToSet(sumUp')}
      <4>1. UNION {Held(u)' : u \in ToSet(rest) \cup {t}}
              = (UNION {Held(u)' : u \in ToSet(rest)}) \cup Held(t)'
        OBVIOUS
      <4>2. {Held(u)' : u \in ToSet(rest)} = {Held(u) : u \in ToSet(rest)} BY <3>1
      <4> QED BY <1>m, <3>3, <4>1, <4>2
    <3>7. \A u, w \in ToSet(sumUp') : u # w => Held(u)' \cap Held(w)' = {}
      BY <1>m, <3>1, <3>4, <3>5
    <3> QED BY <1>2, <3>6, <3>7 DEF Splits
  <2> QED BY <1>1, <1>4, <1>9, <2>2, <2>4, StepSums
<1>15. CountsOK'
  <2>1. \A f : /\ Number("sum", f)' = Number("sum", f) + IF f = filter THEN 1 ELSE 0
               /\ Number("leaf", f)' = Number("leaf", f)
               /\ Number("sum", f) \in Nat /\ Number("leaf", f) \in Nat
    BY <1>4, <1>t, CreatesCounts
  <2>2. /\ Number("sum", filter) + Len(sumUp) <= Number("leaf", filter)
        /\ Len(sumUp') <= Len(sumUp) - 1 /\ Len(sumUp') \in Nat /\ Len(sumUp) \in Nat
    BY <1>1, <1>2, <1>f, <1>l, <1>m DEF CountsOK
  <2>3. Number("sum", filter)' + Len(sumUp') <= Number("leaf", filter)'
    BY <1>1, <1>2, <2>1, <2>2
  <2>4. \A f \in Filters : Number("sum", f)' # 0 => Number("sum", f)' < Number("leaf", f)'
    BY <1>1, <2>1, <2>2 DEF CountsOK
  <2> QED BY <1>1, <1>5, <2>3, <2>4 DEF CountsOK
<1> QED BY <1>5, <1>8, <1>10, <1>11, <1>12, <1>14, <1>15

(* A list of at most one task, with another one put in front. *)
LEMMA InFront ==
  ASSUME NEW S, NEW s \in Seq(S), Len(s) <= 1, NEW x \in S, x \notin ToSet(s)
  PROVE  LET r == <<x>> \o s
         IN  r \in Seq(S) /\ r # <<>> /\ r[1] = x /\ IsInjective(r) /\ ToSet(r) = {x} \cup ToSet(s)
<1> DEFINE r == <<x>> \o s
<1>1. /\ <<x>> \in Seq(S) /\ Len(<<x>>) = 1 /\ <<x>>[1] = x
      /\ Len(s) \in {0, 1} /\ DOMAIN s = 1 .. Len(s)
  <2>1. Len(s) \in Nat /\ DOMAIN s = 1 .. Len(s) OBVIOUS
  <2>2. <<x>> \in Seq(S) /\ Len(<<x>>) = 1 /\ <<x>>[1] = x OBVIOUS
  <2>3. Len(s) \in {0, 1} BY <2>1
  <2> QED BY <2>1, <2>2, <2>3
<1>2. /\ r \in Seq(S) /\ Len(r) = 1 + Len(s) /\ DOMAIN r = 1 .. 1 + Len(s)
      /\ r[1] = x /\ (Len(s) = 1 => r[2] = s[1])
  BY <1>1
<1> HIDE DEF r
<1>3. r # <<>> BY <1>1, <1>2
<1>4. CASE Len(s) = 0
  <2>1. DOMAIN r = {1} /\ DOMAIN s = {} BY <1>1, <1>2, <1>4
  <2> QED BY <1>2, <1>3, <2>1 DEF IsInjective, ToSet, r
<1>5. CASE Len(s) = 1
  <2>1. DOMAIN r = {1, 2} /\ DOMAIN s = {1} BY <1>1, <1>2, <1>5
  <2>2. ToSet(s) = {s[1]} /\ x # s[1] BY <2>1 DEF ToSet
  <2>3. ToSet(r) = {x, s[1]} BY <1>2, <1>5, <2>1 DEF ToSet
  <2>4. IsInjective(r) BY <1>2, <1>5, <2>1, <2>2 DEF IsInjective
  <2> QED BY <1>2, <1>3, <2>2, <2>3, <2>4 DEF r
<1> QED BY <1>1, <1>4, <1>5

LEMMA CombineStep ==
  ASSUME GraphInv, CreateCombine
  PROVE  GraphInv'
<1> USE DEF GraphInv
<1>d. PICK t : t = Job("combine", filter) OBVIOUS
<1>e. PICK ds, v : ds = <<Input>> \o sumUp /\ v = Plus([Nothing EXCEPT ![0] = 1], Added(sumUp))
  OBVIOUS
<1>1. /\ phase = "sums" /\ phase' = "result" /\ Len(sumUp) <= 1 /\ i' = i
      /\ sumUp' = sumUp /\ deps' = deps
      /\ config' = config /\ filter' = filter /\ results' = results
      /\ Create(t, ds, v)
  BY <1>d, <1>e DEF CreateCombine, Task, Job
<1>2. /\ filter \in Filters /\ NumBlocks \in Nat \ {0} /\ NumBlocks = BlocksIn(filter)
      /\ i \in Nat \ {0} /\ NumBlocks' = NumBlocks
      /\ Input \in Made /\ Input \in Of("in")
      /\ sumUp \in Seq(Made) /\ ToSet(sumUp) \subseteq PartsOf(filter)
      /\ Splits(1 .. NumBlocks - 1, ToSet(sumUp))
  <2>1. sumUp \in Seq(Made) /\ i \in Nat \ {0} BY <1>1 DEF GraphTypeOK
  <2>2. IsConfig(config) /\ filter \in Filters BY DEF GraphTypeOK
  <2>3. Input \in Of("in") BY <2>2, ConfigFacts DEF NamesOK, Input
  <2>4. Input \in Made BY <2>3 DEF Of
  <2> QED BY <1>1, <2>1, <2>2, <2>3, <2>4, ConfigFacts, SameFilter DEF NumBlocks, ListsOK, SumsOK
<1>l. /\ ds \in Seq(Made) /\ ds # <<>> /\ ds[1] = Input /\ IsInjective(ds)
      /\ ToSet(ds) = {Input} \cup ToSet(sumUp)
  <2>1. Input \notin ToSet(sumUp) BY <1>2 DEF PartsOf, Of
  <2> QED BY <1>1, <1>2, <1>e, <2>1, InFront
<1>t. t = <<t[1], t[2], t[3]>> /\ t[1] = "combine" /\ t[2] = filter BY <1>d DEF Job
<1>3. filter \notin Joined BY <1>1, PastSets DEF Joined
<1>4. Creates(t, ds, v)
  <2>1. t \notin Made BY <1>3, <1>d DEF NamesOK, Of, Job
  <2> QED BY <1>1, <1>l, <1>t, <2>1 DEF Creates, Kinds
<1>5. /\ GraphTypeOK' /\ LinksOK'
      /\ Made' = Made \cup {t} /\ t \notin Made
      /\ \A kind : Of(kind)' = IF kind = t[1] THEN Of(kind) \cup {t} ELSE Of(kind)
      /\ Filters' = Filters
      /\ \A f : ChannelOf(f)' = ChannelOf(f) /\ BlocksIn(f)' = BlocksIn(f)
      /\ \A phases : Past(phases)' = {f \in Filters : f < filter}
                                       \cup (IF phase' \in phases THEN {filter} ELSE {})
  <2>1. Made' = Made \cup {t} BY <1>4, CreatesTasks
  <2>2. \A s \in Seq(Made) : s \in Seq(Made') BY <2>1
  <2>3. deps' \in Seq(Made') /\ sumUp' \in Seq(Made') /\ results' \in Seq(Made')
    BY <1>1, <2>2 DEF GraphTypeOK
  <2>4. i' \in Nat /\ i' # 0 BY <1>1, <1>2
  <2>5. phase' \in {"root", "leaves", "sums", "result", "combined", "done"} BY <1>1
  <2> QED BY <1>1, <1>2, <1>4, <2>3, <2>4, <2>5, StepContext
<1>6. /\ Of("combine")' = Of("combine") \cup {t}
      /\ \A kind : kind # "combine" => Of(kind)' = Of(kind)
  BY <1>5, <1>t
<1>7. Begun' = Begun /\ Shifted' = Shifted /\ Joined' = Joined \cup {filter}
      /\ Finished' = Finished
  BY <1>1, <1>5, PastSets DEF Begun, Shifted, Joined, Finished
<1>8. NamesOK'
  <2>1. Of("combine")' = {Job("combine", f) : f \in Joined'} BY <1>6, <1>7, <1>d DEF NamesOK
  <2>2. Of("combined")' = {} /\ phase' # "done" BY <1>1, <1>6 DEF NamesOK
  <2>3. \A u \in Of("leaf")' : u[2] \in Begun' /\ u[3] \in 1 .. BlocksIn(u[2])' - 1
    BY <1>5, <1>6, <1>7 DEF NamesOK
  <2>4. \A u \in Of("sum")' : u[2] \in Shifted' /\ u[3] \in Nat BY <1>6, <1>7 DEF NamesOK
  <2> QED BY <1>1, <1>5, <1>6, <1>7, <2>1, <2>2, <2>3, <2>4 DEF NamesOK
<1>9. MayDepend(t, ds) BY <1>2, <1>l, <1>t DEF MayDepend, Input
<1>10. DependenciesOK'
  <2>1. ToSet(results') = Of("result")' BY <1>1, <1>6 DEF DependenciesOK
  <2> QED BY <1>1, <1>4, <1>t, <1>9, <2>1, StepDependencies
<1>11. ListsOK' BY <1>1 DEF ListsOK
<1>12. OpenOK'
  <2>1. ASSUME NEW u \in Made', dependents'[u] = <<>>
        PROVE  u = t \/ (u \in Made /\ dependents[u] = <<>> /\ u \notin ToSet(sumUp))
    BY <1>4, <1>l, <2>1, CreatesOpen DEF GraphInv
  <2>2. Combined' = Combined BY DEF Combined, Job
  <2> QED BY <1>1, <1>t, <1>5, <1>7, <2>1, <2>2 DEF OpenOK
<1>13. Added(sumUp) = [b \in 0 .. NumBlocks - 1 |-> IF b \in 1 .. NumBlocks - 1 THEN 1 ELSE 0]
  <2>1. NumBlocks \in Nat /\ sumUp \in Seq(Made) BY <1>2
  <2>2. \A k \in DOMAIN sumUp : sumUp[k] \in ToSet(sumUp) BY DEF ToSet
  <2>3. \A u \in ToSet(sumUp) : sums[u] \in [0 .. NumBlocks - 1 -> {0, 1}]
    BY <1>2 DEF SumsOK, PartsOf, Of
  <2>4. \A k \in DOMAIN sumUp : sums[sumUp[k]] \in [0 .. NumBlocks - 1 -> {0, 1}]
    BY <2>2, <2>3
  <2>5. \A k, m \in DOMAIN sumUp : k # m => Held(sumUp[k]) \cap Held(sumUp[m]) = {}
    BY <1>1, <2>1
  <2>6. UNION {Held(u) : u \in ToSet(sumUp)} = 1 .. NumBlocks - 1 BY <1>2 DEF Splits
  <2>7. Added(sumUp) = [b \in 0 .. NumBlocks - 1 |->
                          IF b \in UNION {Held(u) : u \in ToSet(sumUp)} THEN 1 ELSE 0]
    BY <2>1, <2>4, <2>5, AddedDisjoint
  <2> QED BY <2>6, <2>7
<1>14. v = [b \in 0 .. NumBlocks - 1 |-> 1]
  <2>1. PICK newest : newest = [Nothing EXCEPT ![0] = 1] OBVIOUS
  <2>2. /\ DOMAIN newest = 0 .. NumBlocks - 1
        /\ \A b \in 0 .. NumBlocks - 1 : newest[b] = IF b = 0 THEN 1 ELSE 0
    BY <2>1 DEF Nothing
  <2>3. v = [b \in 0 .. NumBlocks - 1 |-> newest[b] + Added(sumUp)[b]]
    BY <1>e, <2>1, <2>2 DEF Plus
  <2>4. \A b \in 0 .. NumBlocks - 1 : newest[b] + Added(sumUp)[b] = 1
    BY <1>2, <1>13, <2>2
  <2> QED BY <2>3, <2>4
<1>15. SumsOK'
  <2>1. ToSet(ds) \ Of("in") = ToSet(sumUp) BY <1>2, <1>l DEF PartsOf, Of
  <2>2. {b \in DOMAIN v : v[b] = 1} = 0 .. NumBlocks - 1 BY <1>14
  <2>3. v \in [0 .. NumBlocks - 1 -> {0, 1}] BY <1>14
  <2>4. MayHold(t, ds, v) BY <1>2, <1>t, <2>1, <2>2, <2>3 DEF MayHold
  <2> QED BY <1>1, <1>4, <1>9, <2>4, StepSums
<1>16. CountsOK'
  <2>1. \A f : Number("sum", f)' = Number("sum", f) /\ Number("leaf", f)' = Number("leaf", f)
    BY <1>4, <1>t, CreatesCounts
  <2> QED BY <1>1, <1>5, <2>1 DEF CountsOK
<1> QED BY <1>5, <1>8, <1>10, <1>11, <1>12, <1>15, <1>16

LEMMA ResultStep ==
  ASSUME GraphInv, CreateResult
  PROVE  GraphInv'
<1> USE DEF GraphInv
<1>d. PICK t, comb, shift : /\ t = Job("result", filter)
                            /\ comb = Job("combine", filter) /\ shift = Job("shift", filter)
  OBVIOUS
<1>e. PICK ds, v : ds = <<comb, shift>> /\ v = sums[comb] OBVIOUS
<1>1. /\ phase = "result" /\ i' = i /\ sumUp' = sumUp /\ deps' = deps /\ config' = config
      /\ results' = Append(results, t)
      /\ Create(t, ds, v)
      /\ \/ filter < Len(config.filters) /\ filter' = filter + 1 /\ phase' = "root"
         \/ filter = Len(config.filters) /\ filter' = filter /\ phase' = "combined"
  <2>1. filter \in 1 .. Len(config.filters) /\ Len(config.filters) \in Nat
    BY ConfigFacts DEF GraphTypeOK
  <2> QED BY <2>1, <1>d, <1>e DEF CreateResult, Task, Job
<1>2. /\ filter \in Filters /\ filter' \in Filters /\ \A f \in Filters : f \in Nat
      /\ i \in Nat \ {0} /\ results \in Seq(Made) /\ ToSet(results) \subseteq Made
      /\ IsInjective(results)
  <2>1. IsConfig(config) /\ filter \in Filters /\ i \in Nat \ {0} /\ results \in Seq(Made)
    BY <1>1 DEF GraphTypeOK
  <2>2. Filters = 1 .. Len(config.filters) /\ Len(config.filters) \in Nat
    BY <2>1, ConfigFacts
  <2> QED BY <1>1, <2>1, <2>2, ListMembers DEF ListsOK
<1>t. t = <<t[1], t[2], t[3]>> /\ t[1] = "result" /\ t[2] = filter BY <1>d DEF Job
<1>3. filter \notin Finished /\ filter \in Joined /\ filter \in Shifted
  BY <1>1, PastSets DEF Finished, Joined, Shifted
<1>l. /\ comb \in Of("combine") /\ shift \in Of("shift") /\ comb \in Made /\ shift \in Made
      /\ comb # shift /\ comb[2] = filter /\ shift[2] = filter
  BY <1>d, <1>3 DEF NamesOK, Of, Job
<1>m. ds \in Seq(Made) /\ IsInjective(ds) /\ ToSet(ds) = {comb, shift}
  <2>1. ds \in Seq(Made) BY <1>l, <1>e
  <2> QED BY <1>l, <1>e, <2>1 DEF IsInjective, ToSet
<1>4. Creates(t, ds, v)
  <2>1. t \notin Made BY <1>3, <1>d DEF NamesOK, Of, Job
  <2> QED BY <1>1, <1>m, <1>t, <2>1 DEF Creates, Kinds
<1>5. /\ GraphTypeOK' /\ LinksOK'
      /\ Made' = Made \cup {t} /\ t \notin Made
      /\ \A kind : Of(kind)' = IF kind = t[1] THEN Of(kind) \cup {t} ELSE Of(kind)
      /\ Filters' = Filters
      /\ \A f : ChannelOf(f)' = ChannelOf(f) /\ BlocksIn(f)' = BlocksIn(f)
      /\ \A phases : Past(phases)' = {f \in Filters : f < filter'}
                                       \cup (IF phase' \in phases THEN {filter'} ELSE {})
  <2>1. Made' = Made \cup {t} BY <1>4, CreatesTasks
  <2>2. \A s \in Seq(Made) : s \in Seq(Made') /\ Append(s, t) \in Seq(Made') BY <2>1
  <2>3. deps' \in Seq(Made') /\ sumUp' \in Seq(Made') /\ results' \in Seq(Made')
    BY <1>1, <1>2, <2>2 DEF GraphTypeOK
  <2>4. i' \in Nat /\ i' # 0 BY <1>1, <1>2
  <2>5. phase' \in {"root", "leaves", "sums", "result", "combined", "done"} BY <1>1
  <2> QED BY <1>1, <1>2, <1>4, <2>3, <2>4, <2>5, StepContext
<1>6. /\ Of("result")' = Of("result") \cup {t}
      /\ \A kind : kind # "result" => Of(kind)' = Of(kind)
  BY <1>5, <1>t
<1>7. Begun' = Begun /\ Shifted' = Shifted /\ Joined' = Joined /\ Finished' = Finished \cup {filter}
  <2> DEFINE before == {f \in Filters : f < filter}
  <2>1. /\ Begun = before \cup {filter} /\ Shifted = before \cup {filter}
        /\ Joined = before \cup {filter} /\ Finished = before
    BY <1>1, PastSets DEF Begun, Shifted, Joined, Finished
  <2>2. CASE filter' = filter + 1 /\ phase' = "root"
    <3>1. {f \in Filters : f < filter'} = before \cup {filter}
      <4>1. \A f, g \in Nat : f < g + 1 <=> f < g \/ f = g OBVIOUS
      <4>2. filter \in Nat /\ filter \in Filters BY <1>2
      <4>3. \A f \in Filters : f < filter' <=> f < filter \/ f = filter
        BY <1>2, <2>2, <4>1, <4>2
      <4> QED BY <4>2, <4>3
    <3>2. \A phases : "root" \notin phases => Past(phases)' = before \cup {filter}
      BY <1>5, <2>2, <3>1
    <3> QED BY <2>1, <3>2 DEF Begun, Shifted, Joined, Finished
  <2>3. CASE filter' = filter /\ phase' = "combined"
    <3>1. \A phases : "combined" \in phases => Past(phases)' = before \cup {filter}
      BY <1>5, <2>3
    <3> QED BY <2>1, <3>1 DEF Begun, Shifted, Joined, Finished
  <2> QED BY <1>1, <2>2, <2>3
<1>8. NamesOK'
  <2>1. Of("result")' = {Job("result", f) : f \in Finished'} BY <1>6, <1>7, <1>d DEF NamesOK
  <2>2. Of("combined")' = {} /\ phase' \notin {"leaves", "sums", "done"}
    BY <1>1, <1>6 DEF NamesOK
  <2>3. \A u \in Of("leaf")' : u[2] \in Begun' /\ u[3] \in 1 .. BlocksIn(u[2])' - 1
    BY <1>5, <1>6, <1>7 DEF NamesOK
  <2>4. \A u \in Of("sum")' : u[2] \in Shifted' /\ u[3] \in Nat BY <1>6, <1>7 DEF NamesOK
  <2> QED BY <1>1, <1>5, <1>6, <1>7, <2>1, <2>2, <2>3, <2>4 DEF NamesOK
<1>9. MayDepend(t, ds) BY <1>d, <1>m, <1>t DEF MayDepend
<1>10. ToSet(results') = ToSet(results) \cup {t} /\ IsInjective(results')
  BY <1>1, <1>2, <1>5, AppendSet
<1>11. DependenciesOK'
  <2>1. ToSet(results') = Of("result")' BY <1>6, <1>10 DEF DependenciesOK
  <2> QED BY <1>1, <1>4, <1>t, <1>9, <2>1, StepDependencies
<1>12. ListsOK' BY <1>1, <1>10 DEF ListsOK
<1>13. OpenOK'
  <2>1. ASSUME NEW u \in Made', dependents'[u] = <<>>
        PROVE  u = t \/ (u \in Made /\ dependents[u] = <<>> /\ u # comb /\ u # shift)
    BY <1>4, <1>m, <2>1, CreatesOpen DEF GraphInv
  <2>2. \A u \in Made : u[1] \in {"shift", "combine"} /\ u[2] = filter => u = comb \/ u = shift
    BY <1>d DEF NamesOK, Of, Job
  <2>3. Combined' = Combined BY DEF Combined, Job
  <2> QED BY <1>1, <1>t, <1>5, <1>7, <2>1, <2>2, <2>3 DEF OpenOK
<1>14. SumsOK'
  <2>1. v \in [0 .. BlocksIn(filter) - 1 -> {0, 1}]
    BY <1>e, <1>l DEF SumsOK, Of
  <2>2. {b \in DOMAIN v : v[b] = 1} = 0 .. BlocksIn(filter) - 1
    BY <1>e, <1>l DEF SumsOK, Held
  <2>3. MayHold(t, ds, v) BY <1>t, <2>1, <2>2 DEF MayHold
  <2> QED BY <1>1, <1>4, <1>9, <2>3, StepSums
<1>15. CountsOK'
  <2>1. \A f : Number("sum", f)' = Number("sum", f) /\ Number("leaf", f)' = Number("leaf", f)
    BY <1>4, <1>t, CreatesCounts
  <2> QED BY <1>1, <1>5, <2>1 DEF CountsOK
<1> QED BY <1>5, <1>8, <1>11, <1>12, <1>13, <1>14, <1>15

LEMMA CombinedStep ==
  ASSUME GraphInv, CreateCombined
  PROVE  GraphInv'
<1> USE DEF GraphInv
<1>d. PICK t : t = Combined OBVIOUS
<1>1. /\ phase = "combined" /\ phase' = "done" /\ i' = i /\ sumUp' = sumUp /\ deps' = deps
      /\ config' = config /\ filter' = filter /\ results' = results
      /\ Create(t, results, <<>>)
  BY <1>d DEF CreateCombined
<1>2. /\ filter \in Filters /\ i \in Nat \ {0} /\ results \in Seq(Made) /\ IsInjective(results)
      /\ ToSet(results) = Of("result")
  BY <1>1 DEF GraphTypeOK, ListsOK, DependenciesOK
<1>t. t = <<t[1], t[2], t[3]>> /\ t[1] = "combined" BY <1>d DEF Combined, Job
<1>4. Creates(t, results, <<>>)
  <2>1. t \notin Made BY <1>1, <1>t DEF NamesOK, Of
  <2> QED BY <1>1, <1>2, <1>t, <2>1 DEF Creates, Kinds
<1>5. /\ GraphTypeOK' /\ LinksOK'
      /\ Made' = Made \cup {t} /\ t \notin Made
      /\ \A kind : Of(kind)' = IF kind = t[1] THEN Of(kind) \cup {t} ELSE Of(kind)
      /\ Filters' = Filters
      /\ \A f : ChannelOf(f)' = ChannelOf(f) /\ BlocksIn(f)' = BlocksIn(f)
      /\ \A phases : Past(phases)' = {f \in Filters : f < filter}
                                       \cup (IF phase' \in phases THEN {filter} ELSE {})
  <2>1. Made' = Made \cup {t} BY <1>4, CreatesTasks
  <2>2. \A s \in Seq(Made) : s \in Seq(Made') BY <2>1
  <2>3. deps' \in Seq(Made') /\ sumUp' \in Seq(Made') /\ results' \in Seq(Made')
    BY <1>1, <2>2 DEF GraphTypeOK
  <2>4. i' \in Nat /\ i' # 0 BY <1>1, <1>2
  <2>5. phase' \in {"root", "leaves", "sums", "result", "combined", "done"} BY <1>1
  <2> QED BY <1>1, <1>2, <1>4, <2>3, <2>4, <2>5, StepContext
<1>6. /\ Of("combined")' = Of("combined") \cup {t}
      /\ \A kind : kind # "combined" => Of(kind)' = Of(kind)
  BY <1>5, <1>t
<1>7. Begun' = Begun /\ Shifted' = Shifted /\ Joined' = Joined /\ Finished' = Finished
  BY <1>1, <1>5, PastSets DEF Begun, Shifted, Joined, Finished
<1>8. NamesOK'
  <2>1. Of("combined")' = {t} /\ Combined' = t BY <1>1, <1>d, <1>6 DEF NamesOK, Combined, Job
  <2>3. \A u \in Of("leaf")' : u[2] \in Begun' /\ u[3] \in 1 .. BlocksIn(u[2])' - 1
    BY <1>5, <1>6, <1>7 DEF NamesOK
  <2>4. \A u \in Of("sum")' : u[2] \in Shifted' /\ u[3] \in Nat BY <1>6, <1>7 DEF NamesOK
  <2> QED BY <1>1, <1>5, <1>6, <1>7, <2>1, <2>3, <2>4 DEF NamesOK
<1>9. MayDepend(t, results) /\ MayHold(t, results, <<>>) BY <1>t DEF MayDepend, MayHold
<1>11. DependenciesOK'
  <2>1. ToSet(results') = Of("result")' BY <1>1, <1>2, <1>6
  <2> QED BY <1>1, <1>4, <1>t, <1>9, <2>1, StepDependencies
<1>12. ListsOK' BY <1>1, <1>2 DEF ListsOK
<1>13. OpenOK'
  <2>1. ASSUME NEW u \in Made', dependents'[u] = <<>>
        PROVE  u = t \/ (u \in Made /\ dependents[u] = <<>> /\ u \notin Of("result"))
    BY <1>2, <1>4, <2>1, CreatesOpen DEF GraphInv
  <2>2. Combined' = Combined BY DEF Combined, Job
  <2> QED BY <1>1, <1>d, <1>5, <1>7, <2>1, <2>2 DEF OpenOK, Of
<1>14. SumsOK' BY <1>1, <1>4, <1>9, StepSums
<1>15. CountsOK'
  <2>1. \A f : Number("sum", f)' = Number("sum", f) /\ Number("leaf", f)' = Number("leaf", f)
    BY <1>4, <1>t, CreatesCounts
  <2> QED BY <1>1, <1>5, <2>1 DEF CountsOK
<1> QED BY <1>5, <1>8, <1>11, <1>12, <1>13, <1>14, <1>15
--------------------------------------------------------------------------------
(* GraphInv is inductive. *)

LEMMA NoTasks ==
  ASSUME InitGraph
  PROVE  /\ Made = {Job("in", c) : c \in Channels} /\ IsFiniteSet(Made)
         /\ Of("in") = Made /\ \A kind : kind # "in" => Of(kind) = {}
         /\ \A t \in Made : dependencies[t] = <<>> /\ dependents[t] = <<>>
<1>1. Made = {Job("in", c) : c \in Channels} BY DEF InitGraph, Made
<1>2. IsFiniteSet(Made)
  <2>1. IsFiniteSet(Channels) BY ConfigsAssumption
  <2> DEFINE g == [c \in Channels |-> Job("in", c)]
  <2>2. g \in Surjection(Channels, Made) BY <1>1 DEF Surjection
  <2> HIDE DEF g
  <2> QED BY <2>1, <2>2, FS_Surjection
<1>3. Of("in") = Made /\ \A kind : kind # "in" => Of(kind) = {} BY <1>1 DEF Of, Job
<1>4. \A t \in Made : dependencies[t] = <<>> /\ dependents[t] = <<>>
  BY <1>1 DEF InitGraph
<1> QED BY <1>1, <1>2, <1>3, <1>4

(* The state before the first task is created. *)
LEMMA GraphStarts == InitGraph /\ IsConfig(config) => GraphInv
<1>1. SUFFICES ASSUME InitGraph, IsConfig(config) PROVE GraphInv OBVIOUS
<1>2. /\ filter = 1 /\ phase = "root" /\ i = 0 /\ deps = <<>> /\ sumUp = <<>>
      /\ sums = <<>> /\ results = <<>>
      /\ Made = DOMAIN dependents /\ Made = DOMAIN dependencies
  BY <1>1 DEF InitGraph, Made
<1>3. /\ Made = {Job("in", c) : c \in Channels} /\ IsFiniteSet(Made)
      /\ Of("in") = Made /\ \A kind : kind # "in" => Of(kind) = {}
      /\ \A t \in Made : dependencies[t] = <<>> /\ dependents[t] = <<>>
  BY <1>1, NoTasks
<1>4. \A f : PartsOf(f) = {} BY <1>3 DEF PartsOf
<1>5. 1 \in Filters /\ \A f \in Filters : f \in Nat /\ f >= 1 BY <1>1, ConfigFacts
<1>6. ToSet(<<>>) = {} /\ IsInjective(<<>>) /\ <<>> \in Seq(Made) BY DEF ToSet, IsInjective
<1>7. \A phases : "root" \notin phases => Past(phases) = {} BY <1>2, <1>5 DEF Past
<1>8. GraphTypeOK
  <2>1. dependencies = [t \in Made |-> <<>>] /\ dependents = [t \in Made |-> <<>>]
    BY <1>1, <1>3 DEF InitGraph
  <2>2. dependencies \in [Made -> Seq(Made)] /\ dependents \in [Made -> Seq(Made)]
    BY <2>1, <1>6
  <2>3. DOMAIN sums = Made \ Of("in") BY <1>2, <1>3
  <2>4. \A t \in Made : t = <<t[1], t[2], t[3]>> /\ t[1] \in Kinds BY <1>3 DEF Job, Kinds
  <2> QED BY <1>1, <1>2, <1>3, <1>5, <1>6, <2>2, <2>3, <2>4 DEF GraphTypeOK
<1>9. LinksOK BY <1>3, <1>6 DEF LinksOK
<1>10. NamesOK
  BY <1>2, <1>3, <1>7 DEF NamesOK, Begun, Shifted, Joined, Finished
<1>11. DependenciesOK
  <2>1. \A t \in Of("in") \cup Of("root") : dependencies[t] = <<>> BY <1>3
  <2> QED BY <1>2, <1>3, <1>6, <2>1 DEF DependenciesOK
<1>12. ListsOK BY <1>2, <1>6 DEF ListsOK
<1>13. OpenOK
  <2>1. \A t \in Made : t[1] = "in" BY <1>3 DEF Job
  <2>2. Shifted = {} BY <1>7 DEF Shifted
  <2> QED BY <2>1, <2>2 DEF OpenOK
<1>14. SumsOK
  <2>1. \A t \in Made : t[1] = "in" BY <1>3 DEF Job
  <2> QED BY <1>2, <1>3, <2>1 DEF SumsOK
<1>15. CountsOK
  <2>1. \A f : Number("sum", f) = 0
    <3>1. \A f : {t \in Of("sum") : t[2] = f} = {} BY <1>3
    <3> QED BY <3>1, FS_EmptySet DEF Number
  <2> QED BY <1>2, <2>1 DEF CountsOK
<1> QED
  BY <1>8, <1>9, <1>10, <1>11, <1>12, <1>13, <1>14, <1>15 DEF GraphInv

(* Every Task::create keeps the graph in order. *)
LEMMA GraphSteps == GraphInv /\ BuildGraph => GraphInv'
BY RootStep, LeafStep, ShiftStep, SumStep, CombineStep, ResultStep, CombinedStep DEF BuildGraph

LEMMA GraphRests == GraphInv /\ UNCHANGED graphVars => GraphInv'
<1>1. SUFFICES ASSUME GraphInv, UNCHANGED graphVars PROVE GraphInv' OBVIOUS
<1> USE <1>1 DEF GraphInv, graphVars
<1>2. GraphTypeOK' BY DEF GraphTypeOK, Filters, Made, Of
<1>3. LinksOK' BY DEF LinksOK, Made
<1>4. NamesOK'
  BY DEF NamesOK, Begun, Shifted, Joined, Finished, Past, Filters, Of, Made, BlocksIn, Combined
<1>5. DependenciesOK' BY DEF DependenciesOK, PartsOf, Of, Made, ChannelOf
<1>6. ListsOK' BY DEF ListsOK, Input, ChannelOf, PartsOf, Of, Made
<1>7. OpenOK' BY DEF OpenOK, Made, Shifted, Past, Filters, ChannelOf, BlocksIn, Combined
<1>8. SumsOK' BY DEF SumsOK, Splits, Held, Of, Made, BlocksIn, NumBlocks
<1>9. CountsOK' BY DEF CountsOK, Number, Of, Made, Filters
<1> QED BY <1>2, <1>3, <1>4, <1>5, <1>6, <1>7, <1>8, <1>9
--------------------------------------------------------------------------------
(* What the invariant says of the finished graph. *)

LEMMA AllPast ==
  ASSUME GraphInv, phase = "done"
  PROVE  /\ Begun = Filters /\ Shifted = Filters /\ Joined = Filters /\ Finished = Filters
         /\ Of("combined") = {Combined}
<1>1. filter = Len(config.filters) BY DEF GraphInv, NamesOK
<1>2. Filters = 1 .. Len(config.filters) /\ Len(config.filters) \in Nat
  BY ConfigFacts DEF GraphInv, GraphTypeOK
<1>3. \A phases : "done" \in phases => Past(phases) = Filters BY <1>1, <1>2 DEF Past
<1> QED BY <1>3 DEF Begun, Shifted, Joined, Finished, GraphInv, NamesOK

LEMMA BlocksGiven == GraphInv => EveryBlockOnce
<1>1. SUFFICES ASSUME GraphInv, phase = "done", NEW f \in Filters,
                      NEW b \in 0 .. BlocksIn(f) - 1
               PROVE  sums[Job("result", f)][b] = 1
  BY DEF EveryBlockOnce
<1>2. Job("result", f) \in Of("result") /\ Job("result", f)[2] = f
  BY <1>1, AllPast DEF GraphInv, NamesOK, Job
<1>3. Held(Job("result", f)) = 0 .. BlocksIn(f) - 1 BY <1>1, <1>2 DEF GraphInv, SumsOK
<1> QED BY <1>1, <1>3 DEF Held

LEMMA ShiftsGiven == GraphInv => ShiftAfterLeaves
BY DEF GraphInv, DependenciesOK, ShiftAfterLeaves

LEMMA SumsGiven == GraphInv => SummingEnds
BY DEF GraphInv, CountsOK, SummingEnds

(* Who depends on whom. *)
LEMMA Dependers ==
  ASSUME GraphInv, NEW t \in Made, NEW d \in ToSet(dependencies[t])
  PROVE  /\ d \in Made
         /\ \/ t \in Of("leaf") /\ d \in Of("root")
            \/ t \in Of("shift") /\ d \in Of("in") \cup Of("leaf")
            \/ t \in Of("sum") /\ d \in PartsOf(t[2]) /\ (d \in Of("sum") => d[3] < t[3])
            \/ t \in Of("combine") /\ d \in Of("in") \cup Of("leaf") \cup Of("sum")
            \/ t \in Of("result") /\ d \in Of("combine") \cup Of("shift")
            \/ t \in Of("combined") /\ d \in Of("result")
<1> USE DEF GraphInv
<1>1. dependencies[t] \in Seq(Made) BY DEF GraphTypeOK
<1>2. d \in Made BY <1>1, ListMembers
<1>3. ToSet(<<>>) = {} BY DEF ToSet
<1>4. t[1] \in Kinds /\ \A kind : t \in Of(kind) <=> t[1] = kind BY DEF GraphTypeOK, Of
<1>5. \A kind : \A n : Job(kind, n) \in Made => Job(kind, n) \in Of(kind) BY DEF Of, Job
<1>6. CASE t[1] \in {"in", "root"}
  <2>1. dependencies[t] = <<>> BY <1>4, <1>6 DEF DependenciesOK
  <2>2. d \in ToSet(<<>>) BY <2>1
  <2> QED BY <1>3, <2>2
<1>7. CASE t[1] = "leaf"
  <2>1. PICK root : root = Job("root", t[2]) OBVIOUS
  <2>2. dependencies[t] = <<root>> BY <1>4, <1>7, <2>1 DEF DependenciesOK
  <2>3. d = root BY <2>2 DEF ToSet
  <2> QED BY <1>2, <1>4, <1>5, <1>7, <2>1, <2>3
<1>8. CASE t[1] = "shift" BY <1>2, <1>4, <1>5, <1>8 DEF DependenciesOK
<1>9. CASE t[1] = "sum"
  <2>1. d \in Of("sum") => d[1] = "sum" BY DEF Of
  <2> QED BY <1>2, <1>4, <1>9, <2>1 DEF DependenciesOK
<1>10. CASE t[1] = "combine" BY <1>2, <1>4, <1>5, <1>10 DEF DependenciesOK, PartsOf
<1>11. CASE t[1] = "result" BY <1>2, <1>4, <1>5, <1>11 DEF DependenciesOK
<1>12. CASE t[1] = "combined" BY <1>2, <1>4, <1>12 DEF DependenciesOK
<1> QED BY <1>4, <1>6, <1>7, <1>8, <1>9, <1>10, <1>11, <1>12 DEF Kinds

(* A task with dependents is a dependency. *)
LEMMA DependentsAre ==
  ASSUME GraphInv, NEW d \in Made
  PROVE  dependents[d] # <<>> <=> \E t \in Made : d \in ToSet(dependencies[t])
<1> USE DEF GraphInv
<1>1. dependents[d] \in Seq(Made) BY DEF GraphTypeOK
<1>2. dependents[d] # <<>> <=> ToSet(dependents[d]) # {}
  <2>1. dependents[d] # <<>> => ToSet(dependents[d]) # {} BY <1>1, TailSet
  <2>2. ToSet(<<>>) = {} BY DEF ToSet
  <2> QED BY <2>1, <2>2
<1>3. ToSet(dependents[d]) \subseteq Made BY <1>1, ListMembers
<1> QED BY <1>2, <1>3 DEF LinksOK

LEMMA CombinedIsFinal ==
  ASSUME GraphInv, phase = "done"
  PROVE  Combined \in Made /\ dependents[Combined] = <<>>
<1>1. Combined \in Made /\ Combined[1] = "combined"
  BY AllPast DEF Of, Combined, Job
<1>2. ASSUME NEW t \in Made, Combined \in ToSet(dependencies[t]) PROVE FALSE
  BY <1>1, <1>2, Dependers DEF Of, PartsOf
<1> QED BY <1>1, <1>2, DependentsAre

(* With everything in use nothing else is final. *)
LEMMA OnlyCombined ==
  ASSUME GraphInv, phase = "done", AllInUse, NEW t \in Made, dependents[t] = <<>>
  PROVE  t = Combined
<1> USE DEF GraphInv
<1>1. t[1] = "in" => \E f \in Shifted : ChannelOf(f) = t[2]
  <2>1. ASSUME t[1] = "in" PROVE t[2] \in Channels
    <3>1. t \in Of("in") BY <2>1 DEF Of
    <3> QED BY <3>1 DEF NamesOK, Job
  <2> QED BY <2>1, AllPast DEF AllInUse
<1>2. t[1] = "root" => BlocksIn(t[2]) # 1
  <2>1. ASSUME t[1] = "root" PROVE t[2] \in Filters
    <3>1. t \in Of("root") BY <2>1 DEF Of
    <3> QED BY <3>1, AllPast DEF NamesOK, Job
  <2> QED BY <2>1 DEF AllInUse
<1> QED BY <1>1, <1>2 DEF OpenOK

(* A sum is an operand of a sum with a higher number, up to the combine     *)
(* task: every task is needed for the combined one.                         *)
LEMMA AllFeedCombined ==
  ASSUME GraphInv, phase = "done", AllInUse,
         NEW S \in SUBSET Made, Combined \in S,
         \A t \in S : ToSet(dependencies[t]) \subseteq S
  PROVE  S = Made
<1> USE DEF GraphInv
<1> DEFINE Outside == Made \ S
<1>1. ASSUME NEW d \in Outside
      PROVE  \E t \in Outside : d \in ToSet(dependencies[t])
  BY <1>1, OnlyCombined, DependentsAre
<1>2. Of("combined") \subseteq S BY AllPast
<1>3. Of("result") \cap Outside = {}
  <2>1. ASSUME NEW d \in Of("result") \cap Outside PROVE FALSE
    <3>1. PICK t \in Outside : d \in ToSet(dependencies[t]) BY <1>1
    <3>2. t \in Of("combined") BY <2>1, <3>1, Dependers DEF Of, PartsOf
    <3> QED BY <1>2, <3>1, <3>2
  <2> QED BY <2>1
<1>4. (Of("combine") \cup Of("shift")) \cap Outside = {}
  <2>1. ASSUME NEW d \in (Of("combine") \cup Of("shift")) \cap Outside PROVE FALSE
    <3>1. PICK t \in Outside : d \in ToSet(dependencies[t]) BY <1>1
    <3>2. t \in Of("result") BY <2>1, <3>1, Dependers DEF Of, PartsOf
    <3> QED BY <1>3, <3>1, <3>2
  <2> QED BY <2>1
<1>5. Of("sum") \cap Outside = {}
  <2>1. SUFFICES ASSUME Of("sum") \cap Outside # {} PROVE FALSE OBVIOUS
  <2> DEFINE Open == Of("sum") \cap Outside
             T == {t[3] : t \in Open}
  <2>2. T \subseteq Nat /\ T # {} BY <2>1 DEF NamesOK
  <2>3. IsFiniteSet(T)
    <3>1. IsFiniteSet(Open)
      <4>1. IsFiniteSet(Made) /\ Open \subseteq Made BY DEF GraphTypeOK, Of
      <4> HIDE DEF Open
      <4> QED BY <4>1, FS_Subset
    <3> DEFINE g == [t \in Open |-> t[3]]
    <3>2. g \in Surjection(Open, T) BY DEF Surjection
    <3> HIDE DEF g, T, Open
    <3> QED BY <3>1, <3>2, FS_Surjection
  <2>4. PICK n \in T : \A m \in T : n >= m
    <3> HIDE DEF T
    <3> QED BY <2>2, <2>3, GreatestElement
  <2>5. PICK d \in Open : d[3] = n BY <2>4
  <2>6. PICK t \in Outside : d \in ToSet(dependencies[t]) BY <1>1, <2>5
  <2>7. t \in Of("sum") /\ d[3] < t[3]
    <3>1. t \notin Of("combine") BY <1>4, <2>6
    <3> QED BY <2>5, <2>6, <3>1, Dependers DEF Of, PartsOf
  <2>8. t[3] \in T BY <2>6, <2>7
  <2>9. n >= t[3] /\ n \in Nat /\ t[3] \in Nat BY <2>2, <2>4, <2>8
  <2> HIDE DEF T, Open
  <2> QED BY <2>5, <2>7, <2>9
<1>6. Of("leaf") \cap Outside = {}
  <2>1. ASSUME NEW d \in Of("leaf") \cap Outside PROVE FALSE
    <3>1. PICK t \in Outside : d \in ToSet(dependencies[t]) BY <1>1
    <3>2. t \in Of("shift") \cup Of("combine") \cup Of("sum")
      BY <2>1, <3>1, Dependers DEF Of, PartsOf
    <3> QED BY <1>4, <1>5, <3>1, <3>2
  <2> QED BY <2>1
<1>7. (Of("in") \cup Of("root")) \cap Outside = {}
  <2>1. ASSUME NEW d \in (Of("in") \cup Of("root")) \cap Outside PROVE FALSE
    <3>1. PICK t \in Outside : d \in ToSet(dependencies[t]) BY <1>1
    <3>2. t \in Of("leaf") \cup Of("shift") \cup Of("combine")
      BY <2>1, <3>1, Dependers DEF Of, PartsOf
    <3> QED BY <1>4, <1>6, <3>1, <3>2
  <2> QED BY <2>1
<1>8. \A t \in Made : t[1] \in Kinds /\ t \in Of(t[1]) BY DEF GraphTypeOK, Of
<1> QED BY <1>2, <1>3, <1>4, <1>5, <1>6, <1>7, <1>8 DEF Kinds

(* Block 0 is multiplied by the combine task alone: a sum whose artifact    *)
(* held it would have an operand with a smaller number that holds it.       *)
LEMMA PartsHold ==
  ASSUME GraphInv, NEW f \in Filters, NEW t \in PartsOf(f)
  PROVE  Held(t) \subseteq 1 .. BlocksIn(f) - 1
<1> USE DEF GraphInv
<1>1. BlocksIn(f) \in Nat BY ConfigFacts DEF GraphTypeOK
<1>2. \A u \in PartsOf(f) : Held(u) \subseteq 0 .. BlocksIn(f) - 1
  BY DEF SumsOK, PartsOf, Of, Held
<1>3. \A u \in PartsOf(f) : u \in Of("leaf") => 0 \notin Held(u)
  <2>1. ASSUME NEW u \in PartsOf(f), u \in Of("leaf"), 0 \in Held(u) PROVE FALSE
    <3>1. u[3] \in Nat \ {0} /\ u[3] <= 0
      <4>1. u[3] \in 1 .. BlocksIn(u[2]) - 1 /\ u[2] = f BY <2>1 DEF NamesOK, PartsOf
      <4>2. u[3] <= 0 BY <2>1 DEF SumsOK
      <4> QED BY <1>1, <4>1, <4>2
    <3> QED BY <3>1
  <2> QED BY <2>1
<1>4. \A u \in PartsOf(f) : u \in Of("sum") => 0 \notin Held(u)
  <2> DEFINE Wrong == {u \in PartsOf(f) : u \in Of("sum") /\ 0 \in Held(u)}
             T == {u[3] : u \in Wrong}
  <2>1. SUFFICES ASSUME Wrong # {} PROVE FALSE OBVIOUS
  <2>2. T \subseteq Nat /\ T # {} BY <2>1 DEF NamesOK
  <2>3. PICK n \in T : \A m \in T : n <= m
    <3> HIDE DEF T
    <3> QED BY <2>2, LeastElement
  <2>4. PICK u \in Wrong : u[3] = n BY <2>3
  <2>5. u[2] = f BY <2>4 DEF PartsOf
  <2>6. PICK w \in ToSet(dependencies[u]) : 0 \in Held(w)
    BY <2>4 DEF SumsOK, Splits
  <2>7. w \in PartsOf(f) /\ (w[1] = "sum" => w[3] < n)
    BY <2>4, <2>5, <2>6 DEF DependenciesOK
  <2>8. w \in Of("sum") /\ w[1] = "sum" BY <1>3, <2>6, <2>7 DEF PartsOf, Of
  <2>9. w[3] \in T BY <2>6, <2>7, <2>8
  <2>10. n <= w[3] /\ n \in Nat /\ w[3] \in Nat BY <2>2, <2>3, <2>9
  <2> HIDE DEF T, Wrong
  <2> QED BY <2>7, <2>8, <2>10
<1>5. 0 \notin Held(t) BY <1>3, <1>4 DEF PartsOf
<1> QED BY <1>1, <1>2, <1>5
--------------------------------------------------------------------------------
(* The finished graph is the graph of TaskRunner and of Crossover. *)

LEMMA SameSets ==
  /\ \A S : Built!IsFiniteSet(S) <=> IsFiniteSet(S)
  /\ \A S : Built!Min(S) = Min(S) /\ Built!Max(S) = Max(S)
<1>1. \A S : Built!IsFiniteSet(S) <=> IsFiniteSet(S) BY DEF Built!IsFiniteSet, IsFiniteSet
<1>2. \A S : Built!Min(S) = Min(S) /\ Built!Max(S) = Max(S)
  BY DEF Built!Min, Min, Built!Max, Max
<1> QED BY <1>1, <1>2

LEMMA GraphGiven ==
  ASSUME GraphInv
  PROVE  Built!IsGraph /\ \A t \in Made : IsInjective(dependencies[t])
<1> USE DEF GraphInv
<1> DEFINE D == [t \in Made |-> ToSet(dependencies[t])]
<1>1. IsFiniteSet(Made) /\ dependents \in [Made -> Seq(Made)]
      /\ \A t \in Made : dependencies[t] \in Seq(Made) /\ dependents[t] \in Seq(Made)
  BY DEF GraphTypeOK
<1>2. D \in [Made -> SUBSET Made] BY <1>1, ListMembers
<1>3. \A d, t \in Made : d \in D[t] <=> \E k \in DOMAIN dependents[d] : dependents[d][k] = t
  BY DEF LinksOK, ToSet
<1>4. \A d \in Made : \A k, m \in DOMAIN dependents[d] :
        dependents[d][k] = dependents[d][m] => k = m
  BY DEF LinksOK, IsInjective
<1>5. Built!IsGraph
  <2> HIDE DEF D
  <2>1. Built!IsFiniteSet(Made) BY <1>1, SameSets
  <2> QED BY <1>1, <1>2, <1>3, <1>4, <2>1 DEF Built!IsGraph, D
<1> QED BY <1>5 DEF LinksOK

LEMMA BuiltSets ==
  /\ \A kind : Built!Of(kind) = Of(kind)
  /\ \A f : Built!PartsOf(f) = PartsOf(f)
  /\ Built!Parts = Of("leaf") \cup Of("sum")
  /\ \A kind, n : Built!Job(kind, n) = Job(kind, n)
BY DEF Built!Of, Built!Kind, Of, Built!PartsOf, Built!Parts, PartsOf, Built!Job, Job

LEMMA LayoutGiven ==
  ASSUME GraphInv, phase = "done", AllInUse
  PROVE  Built!Layout
<1> USE DEF GraphInv
<1> DEFINE D == [t \in Made |-> ToSet(dependencies[t])]
           C == [f \in Filters |-> ChannelOf(f)]
<1>1. /\ Filters = 1 .. Len(config.filters) /\ Len(config.filters) \in Nat \ {0}
      /\ \A f \in Filters : ChannelOf(f) \in Channels
  BY ConfigFacts DEF GraphTypeOK
<1>2. IsFiniteSet(Filters) /\ Filters # {}
  <2>1. \A n \in Nat : IsFiniteSet(1 .. n) BY FS_Interval
  <2>2. 1 \in Filters BY <1>1
  <2> QED BY <1>1, <2>1, <2>2
<1>3. /\ Begun = Filters /\ Shifted = Filters /\ Joined = Filters /\ Finished = Filters
      /\ Of("combined") = {Combined}
  BY AllPast
<1>4. \A t \in Made : dependents[t] = <<>> <=> t[1] = "combined"
  <2>1. \A t \in Made : t[1] = "combined" => t = Combined BY <1>3 DEF Of
  <2>2. Combined[1] = "combined" BY DEF Combined, Job
  <2> QED BY <2>1, <2>2, CombinedIsFinal, OnlyCombined
<1>5. /\ Of("in") = {Job("in", c) : c \in Channels}
      /\ \A kind \in {"shift", "combine", "result"} : Of(kind) = {Job(kind, f) : f \in Filters}
      /\ \A t \in Of("leaf") \cup Of("sum") : t[2] \in Filters
      /\ \A t \in Of("leaf") : t[3] \in Nat \ {0}
  <2>1. \A t \in Of("leaf") : t[2] \in Filters /\ t[3] \in 1 .. BlocksIn(t[2]) - 1
    BY <1>3 DEF NamesOK
  <2>2. \A f \in Filters : BlocksIn(f) \in Nat BY ConfigFacts DEF GraphTypeOK
  <2>3. \A t \in Of("leaf") : t[3] \in Nat \ {0} BY <2>1, <2>2
  <2> QED BY <1>3, <2>1, <2>3 DEF NamesOK
<1>6. \A t \in Of("in") : D[t] = {}
  <2>1. ToSet(<<>>) = {} BY DEF ToSet
  <2> QED BY <2>1 DEF DependenciesOK, Of
<1>7. \A t \in Of("sum") : D[t] \subseteq PartsOf(t[2]) BY DEF DependenciesOK, Of
<1>8. ASSUME NEW f \in Filters
      PROVE  /\ D[Job("shift", f)] = {Job("in", ChannelOf(f))} \cup {t \in Of("leaf") : t[2] = f}
             /\ Job("in", ChannelOf(f)) \in D[Job("combine", f)]
             /\ D[Job("combine", f)] \subseteq {Job("in", ChannelOf(f))} \cup PartsOf(f)
             /\ D[Job("result", f)] = {Job("combine", f), Job("shift", f)}
  <2> DEFINE s == Job("shift", f)
             c == Job("combine", f)
             r == Job("result", f)
  <2>1. s \in Of("shift") /\ c \in Of("combine") /\ r \in Of("result") BY <1>5
  <2>2. s \in Made /\ c \in Made /\ r \in Made /\ s[2] = f /\ c[2] = f /\ r[2] = f
    BY <2>1 DEF Of, Job
  <2>3. Job("in", ChannelOf(f)) \in ToSet(dependencies[c])
    <3>1. dependencies[c] # <<>> /\ dependencies[c][1] = Job("in", ChannelOf(f))
      BY <2>1, <2>2 DEF DependenciesOK
    <3>2. dependencies[c] \in Seq(Made) BY <2>2 DEF GraphTypeOK
    <3> QED BY <3>1, <3>2, TailSet
  <2> HIDE DEF s, c, r
  <2>4. /\ D[s] = {Job("in", ChannelOf(f))} \cup {t \in Of("leaf") : t[2] = f}
        /\ Job("in", ChannelOf(f)) \in D[c]
        /\ D[c] \subseteq {Job("in", ChannelOf(f))} \cup PartsOf(f)
        /\ D[r] = {Job("combine", f), Job("shift", f)}
    BY <2>1, <2>2, <2>3 DEF DependenciesOK
  <2> QED BY <2>4 DEF s, c, r
<1>9. \A f \in Filters : C[f] = ChannelOf(f) OBVIOUS
<1> QED
  <2> HIDE DEF D, C
  <2>1. Built!IsFiniteSet(Filters) BY <1>2, SameSets
  <2>2. \A t \in Made : Built!IsFinal(t) <=> Built!Kind(t) = "combined"
    BY <1>4 DEF Built!IsFinal, Built!Kind
  <2>3. Built!Of("combined") # {} BY <1>3, BuiltSets
  <2>4. \A f \in Filters :
          /\ D[Built!Job("shift", f)]
               = {Built!Job("in", C[f])} \cup {t \in Built!Of("leaf") : t[2] = f}
          /\ Built!Job("in", C[f]) \in D[Built!Job("combine", f)]
          /\ D[Built!Job("combine", f)] \subseteq {Built!Job("in", C[f])} \cup Built!PartsOf(f)
          /\ D[Built!Job("result", f)] = {Built!Job("combine", f), Built!Job("shift", f)}
    BY <1>8, <1>9, BuiltSets
  <2>5. /\ Built!Of("in") = {Built!Job("in", c) : c \in Channels}
        /\ \A kind \in {"shift", "combine", "result"} :
             Built!Of(kind) = {Built!Job(kind, f) : f \in Filters}
        /\ \A t \in Built!Parts : t[2] \in Filters
        /\ \A t \in Built!Of("leaf") : t[3] \in Nat \ {0}
    BY <1>5, BuiltSets
  <2>6. /\ \A t \in Built!Of("in") : D[t] = {}
        /\ \A t \in Built!Of("sum") : D[t] \subseteq Built!PartsOf(t[2])
    BY <1>6, <1>7, BuiltSets
  <2> QED BY <1>2, <2>1, <2>2, <2>3, <2>4, <2>5, <2>6 DEF Built!Layout, D, C

LEMMA CoverGiven ==
  ASSUME GraphInv, phase = "done"
  PROVE  Built!IsCover([t \in Built!Parts |-> Held(t)])
<1> USE DEF GraphInv
<1> DEFINE D == [t \in Made |-> ToSet(dependencies[t])]
           N == [f \in Filters |-> BlocksIn(f)]
           M == [f \in Filters |-> config.combine]
           cov == [t \in Built!Parts |-> Held(t)]
<1>1. /\ Built!Parts = Of("leaf") \cup Of("sum") /\ \A kind : Built!Of(kind) = Of(kind)
      /\ \A kind, n : Built!Job(kind, n) = Job(kind, n)
  BY BuiltSets
<1>2. \A t \in Of("leaf") \cup Of("sum") : t \in Made /\ cov[t] = Held(t) BY <1>1 DEF Of
<1>3. config.combine \in Nat \ {0} /\ \A f \in Filters : BlocksIn(f) \in Nat
  BY ConfigFacts DEF GraphTypeOK
<1>4. Begun = Filters /\ Joined = Filters BY AllPast
<1>5. ASSUME NEW t \in Of("leaf")
      PROVE  cov[t] = t[3] .. Built!Min({N[t[2]], t[3] + M[t[2]]}) - 1
  <2>1. t[2] \in Filters /\ t[3] \in 1 .. BlocksIn(t[2]) - 1 BY <1>4 DEF NamesOK
  <2>2. PICK n, e : n = BlocksIn(t[2]) /\ e = t[3] + config.combine OBVIOUS
  <2>3. n \in Nat /\ e \in Nat /\ t[3] \in Nat \ {0} BY <1>3, <2>1, <2>2
  <2>4. N[t[2]] = n /\ t[3] + M[t[2]] = e BY <2>1, <2>2
  <2>5. Built!Min({n, e}) = IF n <= e THEN n ELSE e BY <2>3, MinOfTwo, SameSets
  <2>6. Held(t) = {b \in 0 .. n - 1 : t[3] <= b /\ b < e} BY <2>2 DEF SumsOK
  <2>7. Held(t) = t[3] .. (IF n <= e THEN n ELSE e) - 1 BY <2>3, <2>6
  <2> HIDE DEF N, M, cov
  <2> QED BY <1>2, <2>4, <2>5, <2>7
<1>6. ASSUME NEW t \in Of("sum")
      PROVE  /\ cov[t] = UNION {cov[u] : u \in D[t]}
             /\ \A u, w \in D[t] : u # w => cov[u] \cap cov[w] = {}
  <2>1. D[t] \subseteq Of("leaf") \cup Of("sum") BY <1>2 DEF DependenciesOK, PartsOf
  <2>2. D[t] = ToSet(dependencies[t]) BY <1>2
  <2>3. /\ Held(t) = UNION {Held(u) : u \in D[t]}
        /\ \A u, w \in D[t] : u # w => Held(u) \cap Held(w) = {}
    BY <2>2 DEF SumsOK, Splits
  <2>4. \A u \in D[t] : cov[u] = Held(u) BY <1>2, <2>1
  <2> HIDE DEF D, cov
  <2>5. {cov[u] : u \in D[t]} = {Held(u) : u \in D[t]} BY <2>4
  <2> QED BY <1>2, <2>3, <2>4, <2>5
<1>7. ASSUME NEW f \in Filters
      PROVE  LET ts == D[Job("combine", f)] \ Of("in")
             IN  /\ 1 .. N[f] - 1 = UNION {cov[u] : u \in ts}
                 /\ \A u, w \in ts : u # w => cov[u] \cap cov[w] = {}
  <2> DEFINE c == Job("combine", f)
             ts == D[c] \ Of("in")
  <2>1. c \in Of("combine") /\ c \in Made /\ c[2] = f BY <1>4 DEF NamesOK, Of, Job
  <2>2. D[c] = ToSet(dependencies[c]) BY <2>1
  <2> HIDE DEF c
  <2>3. ts \subseteq Of("leaf") \cup Of("sum")
    <3>1. ToSet(dependencies[c]) \subseteq {Job("in", ChannelOf(f))} \cup PartsOf(f)
      BY <2>1 DEF DependenciesOK
    <3>2. Job("in", ChannelOf(f)) \in Of("in")
      BY ConfigFacts DEF NamesOK, GraphTypeOK
    <3> QED BY <2>2, <3>1, <3>2 DEF PartsOf
  <2>4. /\ 1 .. BlocksIn(f) - 1 = UNION {Held(u) : u \in ts}
        /\ \A u, w \in ts : u # w => Held(u) \cap Held(w) = {}
    BY <2>1, <2>2 DEF SumsOK, Splits
  <2>5. \A u \in ts : cov[u] = Held(u) BY <1>2, <2>3
  <2> HIDE DEF ts, cov
  <2>6. {cov[u] : u \in ts} = {Held(u) : u \in ts} BY <2>5
  <2>7. /\ 1 .. N[f] - 1 = UNION {cov[u] : u \in ts}
        /\ \A u, w \in ts : u # w => cov[u] \cap cov[w] = {}
    BY <2>4, <2>5, <2>6
  <2> QED BY <2>7 DEF ts, c
<1> QED
  <2> HIDE DEF D, N, M, cov
  <2>1. \A t \in Built!Of("leaf") : cov[t] = Built!Blocks(t)
    BY <1>1, <1>5 DEF Built!Blocks, N, M
  <2>2. \A t \in Built!Of("sum") :
          /\ cov[t] = UNION {cov[u] : u \in D[t]}
          /\ \A u, w \in D[t] : u # w => cov[u] \cap cov[w] = {}
    BY <1>1, <1>6
  <2>3. \A f \in Filters :
          LET ts == D[Built!Job("combine", f)] \ Built!Of("in")
          IN  /\ 1 .. N[f] - 1 = UNION {cov[u] : u \in ts}
              /\ \A u, w \in ts : u # w => cov[u] \cap cov[w] = {}
    BY <1>1, <1>7
  <2>4. Built!IsCover(cov) BY <2>1, <2>2, <2>3 DEF Built!IsCover, D, N
  <2> QED BY <2>4 DEF cov

LEMMA ShapeGiven ==
  ASSUME GraphInv, phase = "done", AllInUse
  PROVE  Built!Shape
<1> USE DEF GraphInv
<1> DEFINE N == [f \in Filters |-> BlocksIn(f)]
           T == {N[f] : f \in Filters}
           cov == [t \in Built!Parts |-> Held(t)]
<1>1. /\ Filters = 1 .. Len(config.filters) /\ Len(config.filters) \in Nat \ {0}
      /\ \A f \in Filters : BlocksIn(f) \in Nat
  BY ConfigFacts DEF GraphTypeOK
<1>2. \A f \in Filters : BlocksIn(f) <= Built!Longest /\ Built!Longest \in Nat
  <2>1. T \subseteq Nat /\ T # {}
    <3>1. 1 \in Filters BY <1>1
    <3> QED BY <1>1, <3>1
  <2>2. IsFiniteSet(T)
    <3>1. IsFiniteSet(Filters)
      <4>1. \A n \in Nat : IsFiniteSet(1 .. n) BY FS_Interval
      <4> QED BY <1>1, <4>1
    <3>2. N \in Surjection(Filters, T) BY DEF Surjection
    <3> HIDE DEF N, T
    <3> QED BY <3>1, <3>2, FS_Surjection
  <2>3. Max(T) \in T /\ \A m \in T : Max(T) >= m
    <3> HIDE DEF T
    <3>1. \E n \in T : \A m \in T : n >= m BY <2>1, <2>2, GreatestElement
    <3> QED BY <3>1 DEF Max
  <2>4. Built!Longest = Max(T) BY SameSets DEF Built!Longest
  <2>5. \A f \in Filters : BlocksIn(f) \in T OBVIOUS
  <2> HIDE DEF T
  <2> QED BY <2>1, <2>3, <2>4, <2>5
<1>3. ASSUME NEW t \in Built!Parts PROVE Held(t) \subseteq 1 .. Built!Longest - 1
  <2>1. t \in PartsOf(t[2]) /\ t[2] \in Filters
    BY <1>3, BuiltSets, AllPast DEF PartsOf, NamesOK
  <2>2. Held(t) \subseteq 1 .. BlocksIn(t[2]) - 1 BY <2>1, PartsHold
  <2>3. BlocksIn(t[2]) <= Built!Longest /\ Built!Longest \in Nat /\ BlocksIn(t[2]) \in Nat
    BY <1>1, <1>2, <2>1
  <2> QED BY <2>2, <2>3
<1>4. cov \in [Built!Parts -> SUBSET (1 .. Built!Longest - 1)] BY <1>3
<1>5. Built!IsCover(cov) BY CoverGiven
<1>6. Built!Layout BY LayoutGiven
<1> QED
  <2> HIDE DEF cov
  <2> QED BY <1>4, <1>5, <1>6 DEF Built!Shape

LEMMA RoundGiven == GraphInv => OneRoundGraph
BY GraphGiven, CombinedIsFinal, LayoutGiven, CoverGiven DEF OneRoundGraph

(***************************************************************************)
(* If every channel has a filter and every filter two blocks or more, the  *)
(* graph the constructor leaves is the one Crossover assumes               *)
(* (ShapeAssumption), and one the use of TaskRunner demands: a single task *)
(* without dependents, which all others feed (UseAssumption).              *)
(***************************************************************************)
Fits ==
  phase = "done" /\ AllInUse =>
    /\ Built!IsGraph /\ Built!Shape
    /\ \E f \in Made : /\ \A t \in Made : Built!IsFinal(t) <=> t = f
                       /\ dependencies[f] # <<>>
                       /\ Built!AllFeed(f)

LEMMA FitsGiven == GraphInv => Fits
<1> SUFFICES ASSUME GraphInv, phase = "done", AllInUse
             PROVE  /\ Built!IsGraph /\ Built!Shape
                    /\ \E f \in Made : /\ \A t \in Made : Built!IsFinal(t) <=> t = f
                                       /\ dependencies[f] # <<>>
                                       /\ Built!AllFeed(f)
  BY DEF Fits
<1> DEFINE D == [t \in Made |-> ToSet(dependencies[t])]
<1>1. \A t \in Made : Built!IsFinal(t) <=> t = Combined
  BY CombinedIsFinal, OnlyCombined DEF Built!IsFinal
<1>2. dependencies[Combined] # <<>>
  <2>1. Combined \in Of("combined") /\ Finished = Filters BY AllPast
  <2>2. dependencies[Combined] = results /\ ToSet(results) = Of("result")
    BY <2>1 DEF GraphInv, DependenciesOK
  <2>3. filter \in Filters BY DEF GraphInv, GraphTypeOK
  <2>4. Of("result") # {} BY <2>1, <2>3 DEF GraphInv, NamesOK
  <2>5. ToSet(<<>>) = {} BY DEF ToSet
  <2> QED BY <2>2, <2>4, <2>5
<1>3. Built!AllFeed(Combined)
  <2>1. ASSUME NEW S \in SUBSET Made, Combined \in S, \A t \in S : D[t] \subseteq S
        PROVE  S = Made
    <3>1. \A t \in S : ToSet(dependencies[t]) \subseteq S BY <2>1
    <3> QED BY <2>1, <3>1, AllFeedCombined
  <2> HIDE DEF D
  <2> QED BY <2>1 DEF Built!AllFeed, D
<1> QED BY <1>1, <1>2, <1>3, GraphGiven, ShapeGiven, CombinedIsFinal
================================================================================
