---------------------------- MODULE PluginOpenProofs ---------------------------
(***************************************************************************)
(* Proofs about PluginOpen, for every configuration, every coefficient     *)
(* file and every list of filters: what the file's lines become, what a    *)
(* plugin that opens consists of, and that the crossover it builds is the  *)
(* graph the other modules assume.  OpenInv is inductive; building the     *)
(* crossover keeps it by the lemmas of ConvolutionTasksProofs.             *)
(***************************************************************************)
EXTENDS PluginOpen, ConvolutionTasksProofs, SequenceTheorems

(* The tokens of a line from its k-th one on. *)
LEMMA Suffix ==
  ASSUME NEW S, NEW s \in Seq(S), NEW k \in 0 .. Len(s) - 1
  PROVE  LET r == SubSeq(s, k + 1, Len(s))
         IN  /\ r # <<>> /\ r \in Seq(S) /\ Head(r) = s[k + 1]
             /\ Tail(r) = SubSeq(s, k + 2, Len(s))
             /\ Tail(r) = <<>> <=> k + 1 = Len(s)
<1> DEFINE r == SubSeq(s, k + 1, Len(s))
           q == SubSeq(s, k + 2, Len(s))
<1>1. Len(s) \in Nat /\ k \in Nat /\ k + 1 <= Len(s) OBVIOUS
<1>2. /\ r \in Seq(S) /\ Len(r) = Len(s) - k
      /\ \A j \in 1 .. Len(s) - k : r[j] = s[k + j]
  OBVIOUS
<1>3. /\ q \in Seq(S) /\ Len(q) = Len(s) - (k + 1)
      /\ \A j \in 1 .. Len(s) - (k + 1) : q[j] = s[k + 1 + j]
  OBVIOUS
<1> HIDE DEF r, q
<1>4. r # <<>> /\ Head(r) = s[k + 1] BY <1>1, <1>2
<1>5. /\ Tail(r) \in Seq(S) /\ Len(Tail(r)) = Len(s) - (k + 1)
      /\ \A j \in 1 .. Len(s) - (k + 1) : Tail(r)[j] = s[k + 1 + j]
  <2>1. /\ Tail(r) \in Seq(S) /\ Len(Tail(r)) = Len(r) - 1
        /\ \A j \in 1 .. Len(r) - 1 : Tail(r)[j] = r[j + 1]
    BY <1>2, <1>4
  <2>2. \A j \in 1 .. Len(s) - (k + 1) : r[j + 1] = s[k + 1 + j] BY <1>1, <1>2
  <2> QED BY <1>1, <1>2, <2>1, <2>2
<1>6. PICK p : p = Tail(r) OBVIOUS
<1>7. /\ p \in Seq(S) /\ Len(p) = Len(s) - (k + 1)
      /\ \A j \in 1 .. Len(s) - (k + 1) : p[j] = s[k + 1 + j]
  BY <1>5, <1>6
<1>8. p = q BY <1>3, <1>7, SeqEqual
<1>9. p = <<>> <=> k + 1 = Len(s) BY <1>1, <1>7
<1> QED BY <1>2, <1>4, <1>6, <1>8, <1>9 DEF r, q

LEMMA WholeLine ==
  ASSUME NEW S, NEW s \in Seq(S)
  PROVE  SubSeq(s, 1, Len(s)) = s
OBVIOUS
--------------------------------------------------------------------------------
(* The numbers of a line. *)

LEMMA NumbersNone ==
  ASSUME NEW n
  PROVE  NumbersIn(n, 0) = 0 /\ Numbers(n, 0) = <<>>
<1>1. {j \in 1 .. 0 : Lines[n][j] = "num"} = {} OBVIOUS
<1>2. NumbersIn(n, 0) = 0 BY <1>1, FS_EmptySet DEF NumbersIn
<1>3. Numbers(n, 0) = [j \in 1 .. 0 |-> <<n, j>>] BY <1>2 DEF Numbers
<1>4. [j \in 1 .. 0 |-> <<n, j>>] = <<>>
  <2>1. PICK f : f = [j \in 1 .. 0 |-> <<n, j>>] OBVIOUS
  <2>2. f \in Seq({0}) /\ Len(f) = 0 BY <2>1
  <2> QED BY <2>1, <2>2
<1> QED BY <1>2, <1>3, <1>4

LEMMA NumbersNext ==
  ASSUME NEW n, NEW k \in Nat
  PROVE  /\ NumbersIn(n, k) \in Nat
         /\ NumbersIn(n, k + 1) = NumbersIn(n, k) + IF Lines[n][k + 1] = "num" THEN 1 ELSE 0
<1> DEFINE A == {j \in 1 .. k : Lines[n][j] = "num"}
           B == {j \in 1 .. k + 1 : Lines[n][j] = "num"}
<1>1. IsFiniteSet(A)
  <2>1. IsFiniteSet(1 .. k) BY FS_Interval
  <2> QED BY <2>1, FS_Subset
<1>2. Cardinality(A) \in Nat BY <1>1, FS_CardinalityType
<1>3. CASE Lines[n][k + 1] = "num"
  <2>1. B = A \cup {k + 1} /\ k + 1 \notin A BY <1>3
  <2>2. Cardinality(A \cup {k + 1}) = Cardinality(A) + 1
    <3> HIDE DEF A
    <3> QED BY <1>1, <2>1, FS_AddElement
  <2> QED BY <1>2, <1>3, <2>1, <2>2 DEF NumbersIn
<1>4. CASE Lines[n][k + 1] # "num"
  <2>1. B = A BY <1>4
  <2> QED BY <1>2, <1>4, <2>1 DEF NumbersIn
<1> QED BY <1>3, <1>4

LEMMA NumbersRead ==
  ASSUME NEW n \in Nat, NEW k \in Nat
  PROVE  /\ Numbers(n, k) \in Seq(Nat \X Nat) /\ Len(Numbers(n, k)) = NumbersIn(n, k)
         /\ Lines[n][k + 1] = "num" =>
              Numbers(n, k + 1) = Append(Numbers(n, k), <<n, Len(Numbers(n, k)) + 1>>)
         /\ Lines[n][k + 1] # "num" => Numbers(n, k + 1) = Numbers(n, k)
<1>1. PICK m : m = NumbersIn(n, k) OBVIOUS
<1>2. m \in Nat BY <1>1, NumbersNext
<1>3. Numbers(n, k) = [j \in 1 .. m |-> <<n, j>>] BY <1>1 DEF Numbers
<1>4. [j \in 1 .. m |-> <<n, j>>] \in Seq(Nat \X Nat) /\ Len([j \in 1 .. m |-> <<n, j>>]) = m
  BY <1>2
<1>5. ASSUME Lines[n][k + 1] = "num"
      PROVE  Numbers(n, k + 1) = Append(Numbers(n, k), <<n, Len(Numbers(n, k)) + 1>>)
  <2>1. NumbersIn(n, k + 1) = m + 1 BY <1>1, <1>5, NumbersNext
  <2>2. Numbers(n, k + 1) = [j \in 1 .. m + 1 |-> <<n, j>>] BY <2>1 DEF Numbers
  <2>3. Append([j \in 1 .. m |-> <<n, j>>], <<n, m + 1>>) = [j \in 1 .. m + 1 |-> <<n, j>>]
    BY <1>2
  <2> QED BY <1>3, <1>4, <2>2, <2>3
<1>6. ASSUME Lines[n][k + 1] # "num" PROVE Numbers(n, k + 1) = Numbers(n, k)
  <2>1. NumbersIn(n, k + 1) = NumbersIn(n, k) BY <1>1, <1>2, <1>6, NumbersNext
  <2> QED BY <2>1 DEF Numbers
<1> QED BY <1>1, <1>3, <1>4, <1>5, <1>6
--------------------------------------------------------------------------------
(* The file, and the position in a line. *)

LEMMA FileFacts ==
  ASSUME TypeOK
  PROVE  /\ Len(Lines) \in Nat /\ DOMAIN Lines = 1 .. Len(Lines)
         /\ \A n \in DOMAIN Lines : Lines[n] \in Seq(Tokens) /\ Len(Lines[n]) \in Nat
         /\ DataLines \subseteq 1 .. Len(Lines) /\ IsFiniteSet(DataLines)
         /\ settings.path.kind # "text" => Len(Lines) = 0
<1>1. Lines \in Seq(Seq(Tokens)) /\ (settings.path.kind # "text" => Lines = <<>>)
  BY DEF TypeOK, IsFile, Lines
<1> DEFINE S == Seq(Tokens)
<1>2. Len(Lines) \in Nat /\ DOMAIN Lines = 1 .. Len(Lines) /\ \A n \in DOMAIN Lines : Lines[n] \in S
  <2> HIDE DEF S
  <2> QED BY <1>1 DEF S
<1>3. DataLines \subseteq 1 .. Len(Lines) BY <1>2 DEF DataLines
<1>4. IsFiniteSet(DataLines)
  <2>1. \A k \in Nat : IsFiniteSet(1 .. k) BY FS_Interval
  <2> QED BY <1>2, <1>3, <2>1, FS_Subset
<1>5. \A n \in DOMAIN Lines : Len(Lines[n]) \in Nat BY <1>2
<1>6. settings.path.kind # "text" => Len(Lines) = 0 BY <1>1
<1> QED BY <1>2, <1>3, <1>4, <1>5, <1>6

LEMMA SameFile ==
  ASSUME settings' = settings
  PROVE  /\ Lines' = Lines /\ DataLines' = DataLines
         /\ \A n : (Finite(n)' <=> Finite(n)) /\ Read(n)' = Read(n)
         /\ \A n, k : Numbers(n, k)' = Numbers(n, k)
         /\ \A f, n : IsDataLine(f, n)' <=> IsDataLine(f, n)
<1>1. Lines' = Lines BY DEF Lines
<1>2. DataLines' = DataLines BY <1>1 DEF DataLines
<1>3. \A n, k : Numbers(n, k)' = Numbers(n, k) BY <1>1 DEF Numbers, NumbersIn
<1> QED BY <1>1, <1>2, <1>3 DEF Finite, Read, IsDataLine

(* The first token of what is left of a line, and what follows it. *)
LEMMA FirstToken ==
  ASSUME TypeOK, NEW n \in DOMAIN Lines, NEW k \in 0 .. Len(Lines[n]) - 1
  PROVE  LET L == Lines[n]
             r == SubSeq(L, k + 1, Len(L))
         IN  \/ L[k + 1] = "sp" /\ k + 1 = Len(L) /\ First(r) = "end"
             \/ \E m \in k + 1 .. Len(L) :
                  /\ First(r) = L[m] /\ L[m] # "sp"
                  /\ \A j \in k + 1 .. m - 1 : L[j] = "sp"
                  /\ Tail(SkipSpaces(r)) = SubSeq(L, m + 1, Len(L))
                  /\ SubSeq(L, m + 1, Len(L)) = <<>> <=> m = Len(L)
<1> DEFINE L == Lines[n]
           r == SubSeq(L, k + 1, Len(L))
           q == SubSeq(L, k + 2, Len(L))
<1>1. /\ L \in Seq(Tokens) /\ Len(L) \in Nat /\ k \in Nat /\ k + 1 <= Len(L)
  BY FileFacts
<1>2. /\ r # <<>> /\ Head(r) = L[k + 1] /\ Tail(r) = q
      /\ q = <<>> <=> k + 1 = Len(L)
  <2> HIDE DEF L
  <2> QED BY <1>1, Suffix
<1>3. \A m \in 1 .. Len(L) - 1 : ~(L[m] = "sp" /\ L[m + 1] = "sp")
  BY DEF TypeOK, IsFile, Lines
<1>4. CASE L[k + 1] # "sp"
  <2>1. SkipSpaces(r) = r BY <1>2, <1>4 DEF SkipSpaces
  <2>2. First(r) = L[k + 1] /\ Tail(SkipSpaces(r)) = q BY <1>2, <2>1 DEF First
  <2>3. k + 1 \in k + 1 .. Len(L) /\ (k + 1) + 1 = k + 2 BY <1>1
  <2>4. \A j \in k + 1 .. (k + 1) - 1 : L[j] = "sp" BY <1>1
  <2> HIDE DEF L, r, q
  <2>5. SubSeq(L, (k + 1) + 1, Len(L)) = q BY <2>3 DEF q
  <2> QED BY <1>2, <1>4, <2>2, <2>3, <2>4, <2>5 DEF L, r
<1>5. CASE L[k + 1] = "sp" /\ k + 1 = Len(L)
  <2>1. SkipSpaces(r) = <<>> BY <1>2, <1>5 DEF SkipSpaces
  <2>2. First(r) = "end" BY <2>1 DEF First
  <2> QED BY <1>5, <2>2
<1>6. CASE L[k + 1] = "sp" /\ k + 1 # Len(L)
  <2>1. k + 1 \in 0 .. Len(L) - 1 /\ (k + 1) + 1 = k + 2 /\ (k + 1) + 2 = k + 3 BY <1>1, <1>6
  <2> DEFINE p == SubSeq(L, k + 3, Len(L))
  <2>2. q # <<>> /\ Head(q) = L[k + 2] /\ Tail(q) = p /\ (p = <<>> <=> k + 2 = Len(L))
    <3>1. \A j \in 0 .. Len(L) - 1 :
            LET s == SubSeq(L, j + 1, Len(L))
            IN  /\ s # <<>> /\ Head(s) = L[j + 1]
                /\ Tail(s) = SubSeq(L, j + 2, Len(L))
                /\ Tail(s) = <<>> <=> j + 1 = Len(L)
      <4> HIDE DEF L
      <4> QED BY <1>1, Suffix
    <3> HIDE DEF L
    <3>2. LET s == SubSeq(L, (k + 1) + 1, Len(L))
          IN  /\ s # <<>> /\ Head(s) = L[(k + 1) + 1]
              /\ Tail(s) = SubSeq(L, (k + 1) + 2, Len(L))
              /\ Tail(s) = <<>> <=> (k + 1) + 1 = Len(L)
      BY <2>1, <3>1
    <3> QED BY <2>1, <3>2
  <2>3. L[k + 2] # "sp"
    <3>1. k + 1 \in 1 .. Len(L) - 1 BY <1>1, <1>6
    <3> QED BY <1>3, <1>6, <2>1, <3>1
  <2>4. SkipSpaces(r) = q BY <1>2, <1>6 DEF SkipSpaces
  <2>5. First(r) = L[k + 2] /\ Tail(SkipSpaces(r)) = p BY <2>2, <2>4 DEF First
  <2>6. k + 2 \in k + 1 .. Len(L) /\ (k + 2) + 1 = k + 3 BY <1>1, <1>6
  <2>7. \A j \in k + 1 .. (k + 2) - 1 : L[j] = "sp" BY <1>1, <1>6
  <2> HIDE DEF L, r, q, p
  <2>8. SubSeq(L, (k + 2) + 1, Len(L)) = p BY <2>6 DEF p
  <2> QED BY <2>2, <2>3, <2>5, <2>6, <2>7, <2>8 DEF L, r
<1> QED BY <1>4, <1>5, <1>6

(* Blanks are no numbers. *)
LEMMA NumbersOver ==
  ASSUME NEW n \in Nat, NEW k \in Nat, NEW m \in Nat, k <= m,
         \A j \in k + 1 .. m : Lines[n][j] = "sp"
  PROVE  Numbers(n, m) = Numbers(n, k)
<1> DEFINE A == {j \in 1 .. k : Lines[n][j] = "num"}
           B == {j \in 1 .. m : Lines[n][j] = "num"}
<1>1. A = B
  <2>1. ASSUME NEW j \in B PROVE j \in A
    <3>1. ~(j \in k + 1 .. m) BY <2>1
    <3> QED BY <2>1, <3>1
  <2>2. \A j \in A : j \in B OBVIOUS
  <2> QED BY <2>1, <2>2
<1>2. NumbersIn(n, m) = NumbersIn(n, k) BY <1>1 DEF NumbersIn
<1> QED BY <1>2 DEF Numbers

(* The stream of a line that has not failed, before a token. *)
LEMMA AtToken ==
  ASSUME OpenInv, step = "number", ~ended, ~failed, First(rest) # "end"
  PROVE  LET L == Lines[lineNo]
         IN  \E m \in 1 .. Len(L) :
               /\ First(rest) = L[m] /\ L[m] # "sp"
               /\ Tail(SkipSpaces(rest)) = SubSeq(L, m + 1, Len(L))
               /\ Tail(SkipSpaces(rest)) = <<>> <=> m = Len(L)
               /\ \A j \in 1 .. m - 1 : L[j] \in {"num", "sp"}
               /\ coeffs = Numbers(lineNo, m - 1)
<1> USE DEF OpenInv
<1> DEFINE L == Lines[lineNo]
<1>1. lineNo \in DOMAIN Lines /\ lineNo \in Nat /\ Len(L) \in Nat
  BY FileFacts DEF StepOK, DataLines
<1>2. PICK k \in 0 .. Len(L) - 1 :
        /\ rest = SubSeq(L, k + 1, Len(L))
        /\ \A j \in 1 .. k : L[j] \in {"num", "sp"}
        /\ coeffs = Numbers(lineNo, k)
  BY DEF LineOK
<1>3. PICK m \in k + 1 .. Len(L) :
        /\ First(rest) = L[m] /\ L[m] # "sp"
        /\ \A j \in k + 1 .. m - 1 : L[j] = "sp"
        /\ Tail(SkipSpaces(rest)) = SubSeq(L, m + 1, Len(L))
        /\ SubSeq(L, m + 1, Len(L)) = <<>> <=> m = Len(L)
  BY <1>1, <1>2, FirstToken
<1> HIDE DEF L
<1>4. m \in 1 .. Len(L) /\ m - 1 \in Nat /\ k \in Nat /\ k <= m - 1 BY <1>1
<1>5. Numbers(lineNo, m - 1) = Numbers(lineNo, k) BY <1>1, <1>3, <1>4, NumbersOver DEF L
<1>6. \A j \in 1 .. m - 1 : L[j] \in {"num", "sp"}
  <2>1. ASSUME NEW j \in 1 .. m - 1 PROVE L[j] \in {"num", "sp"}
    <3>1. j \in 1 .. k \/ j \in k + 1 .. m - 1 BY <1>4
    <3> QED BY <1>2, <1>3, <3>1
  <2> QED BY <2>1
<1> QED BY <1>2, <1>3, <1>4, <1>5, <1>6 DEF L

(* And before nothing but a blank. *)
LEMMA AtBlank ==
  ASSUME OpenInv, step = "number", ~ended, ~failed, First(rest) = "end"
  PROVE  LET L == Lines[lineNo]
         IN  /\ Len(L) \in Nat \ {0} /\ L[Len(L)] = "sp"
             /\ \A j \in 1 .. Len(L) : L[j] \in {"num", "sp"}
             /\ coeffs = Numbers(lineNo, Len(L))
<1> USE DEF OpenInv
<1> DEFINE L == Lines[lineNo]
<1>1. lineNo \in DOMAIN Lines /\ lineNo \in Nat /\ Len(L) \in Nat /\ L \in Seq(Tokens)
  BY FileFacts DEF StepOK, DataLines
<1>2. PICK k \in 0 .. Len(L) - 1 :
        /\ rest = SubSeq(L, k + 1, Len(L))
        /\ \A j \in 1 .. k : L[j] \in {"num", "sp"}
        /\ coeffs = Numbers(lineNo, k)
  BY DEF LineOK
<1>3. \A m \in 1 .. Len(L) : L[m] # "end" BY <1>1 DEF Tokens
<1>4. L[k + 1] = "sp" /\ k + 1 = Len(L)
  <2>1. \/ L[k + 1] = "sp" /\ k + 1 = Len(L)
        \/ \E m \in k + 1 .. Len(L) : First(rest) = L[m]
    BY <1>1, <1>2, FirstToken
  <2>2. \A m \in k + 1 .. Len(L) : m \in 1 .. Len(L) BY <1>1
  <2> QED BY <1>3, <2>1, <2>2
<1> HIDE DEF L
<1>5. k \in Nat /\ Len(L) \in Nat \ {0} BY <1>1
<1>6. Numbers(lineNo, Len(L)) = Numbers(lineNo, k)
  BY <1>1, <1>4, <1>5, NumbersRead DEF L
<1>7. \A j \in 1 .. Len(L) : L[j] \in {"num", "sp"}
  <2>1. ASSUME NEW j \in 1 .. Len(L) PROVE L[j] \in {"num", "sp"}
    <3>1. j \in 1 .. k \/ j = Len(L) BY <1>4, <1>5
    <3> QED BY <1>2, <1>4, <3>1
  <2> QED BY <2>1
<1> QED BY <1>2, <1>4, <1>5, <1>6, <1>7 DEF L

(* A step that leaves the crossover, or the file, as it is. *)
LEMMA GraphSame ==
  ASSUME CrossoverOK, UNCHANGED graphVars
  PROVE  /\ config' = config /\ phase' = phase
         /\ IF config'.filters = <<>> THEN InitGraph' ELSE GraphInv'
<1>1. config' = config /\ phase' = phase BY DEF graphVars
<1>2. CASE config.filters = <<>>
  <2>1. InitGraph BY <1>2 DEF CrossoverOK
  <2>2. InitGraph' BY <2>1 DEF InitGraph, graphVars, Job
  <2> QED BY <1>1, <1>2, <2>2
<1>3. CASE config.filters # <<>>
  <2>1. GraphInv BY <1>3 DEF CrossoverOK
  <2>2. GraphInv' BY <2>1, GraphRests
  <2> QED BY <1>1, <1>3, <2>2
<1> QED BY <1>2, <1>3

LEMMA FiltersSame ==
  ASSUME FiltersOK, settings' = settings, filters' = filters
  PROVE  FiltersAsWritten' /\ (lineNo' = lineNo => FiltersOK')
BY SameFile DEF FiltersOK, FiltersAsWritten
--------------------------------------------------------------------------------
(* Reading the file: one lemma per action. *)

(* While a line is read, only what is read of it changes. *)
LEMMA InLine ==
  ASSUME OpenInv, step = "number",
         UNCHANGED <<openVars, step, lineNo, filters, pcmVars, graphVars>>,
         rest' \in Seq(Tokens), failed' \in BOOLEAN, ended' \in BOOLEAN,
         coeffs' \in Seq(Nat \X Nat), LineOK'
  PROVE  OpenInv'
<1> USE DEF OpenInv, openVars, pcmVars
<1>1. /\ config' = config /\ phase' = phase
      /\ IF config'.filters = <<>> THEN InitGraph' ELSE GraphInv'
  BY GraphSame
<1>2. Lines' = Lines /\ DataLines' = DataLines BY SameFile
<1>3. TypeOK' BY <1>2 DEF TypeOK
<1>4. StepOK' BY <1>1, <1>2 DEF StepOK
<1>5. FiltersOK' BY FiltersSame
<1>6. CrossoverOK' BY <1>1 DEF CrossoverOK
<1> QED BY <1>3, <1>4, <1>5, <1>6

LEMMA ReadNumberStep ==
  ASSUME OpenInv, ReadNumber
  PROVE  OpenInv'
<1> USE DEF OpenInv, openVars, pcmVars
<1> DEFINE L == Lines[lineNo]
<1>1. /\ step = "number" /\ step' = "number" /\ ~ended /\ ~failed /\ First(rest) = "num"
      /\ rest' = Tail(SkipSpaces(rest)) /\ ended' = (rest' = <<>>) /\ failed' = failed
      /\ coeffs' = Append(coeffs, <<lineNo, Len(coeffs) + 1>>)
      /\ settings' = settings /\ lineNo' = lineNo
      /\ UNCHANGED <<openVars, step, lineNo, filters, pcmVars, graphVars>>
  BY DEF ReadNumber
<1>2. PICK m \in 1 .. Len(L) :
        /\ L[m] = "num"
        /\ rest' = SubSeq(L, m + 1, Len(L))
        /\ rest' = <<>> <=> m = Len(L)
        /\ \A j \in 1 .. m - 1 : L[j] \in {"num", "sp"}
        /\ coeffs = Numbers(lineNo, m - 1)
  BY <1>1, AtToken
<1>3. /\ lineNo \in Nat /\ L \in Seq(Tokens) /\ Len(L) \in Nat
      /\ m - 1 \in Nat /\ (m - 1) + 1 = m /\ m \in Nat
  <2>1. lineNo \in DOMAIN Lines /\ lineNo \in Nat /\ L \in Seq(Tokens) /\ Len(L) \in Nat
    BY <1>1, FileFacts DEF StepOK, DataLines
  <2> HIDE DEF L
  <2>2. m \in Nat /\ m - 1 \in Nat /\ (m - 1) + 1 = m BY <2>1
  <2> QED BY <2>1, <2>2
<1>4. /\ Lines' = Lines /\ \A n : (Finite(n)' <=> Finite(n)) /\ Read(n)' = Read(n)
      /\ \A n, k : Numbers(n, k)' = Numbers(n, k)
  BY <1>1, SameFile
<1> HIDE DEF L
<1>5. coeffs' = Numbers(lineNo, m)
  <2>1. Lines[lineNo][(m - 1) + 1] = "num" BY <1>2, <1>3 DEF L
  <2>2. Numbers(lineNo, (m - 1) + 1)
          = Append(Numbers(lineNo, m - 1), <<lineNo, Len(Numbers(lineNo, m - 1)) + 1>>)
    BY <1>3, <2>1, NumbersRead
  <2> QED BY <1>1, <1>2, <1>3, <2>2
<1>6. coeffs' \in Seq(Nat \X Nat) /\ coeffs' # <<>>
  <2>1. coeffs \in Seq(Nat \X Nat) /\ <<lineNo, Len(coeffs) + 1>> \in Nat \X Nat
    BY <1>3 DEF TypeOK
  <2>2. PICK x \in Nat \X Nat : coeffs' = Append(coeffs, x) BY <1>1, <2>1
  <2> QED BY <2>1, <2>2
<1>7. \A j \in 1 .. m : L[j] \in {"num", "sp"}
  <2>1. \A j \in 1 .. m : j \in 1 .. m - 1 \/ j = m BY <1>3
  <2> QED BY <1>2, <2>1
<1>8. CASE m = Len(L)
  <2>1. Finite(lineNo) BY <1>2, <1>7, <1>8 DEF Finite, L
  <2>2. Read(lineNo) = Numbers(lineNo, m) \o <<>> BY <1>2, <1>8 DEF Read, L
  <2>3. Numbers(lineNo, m) \in Seq(Nat \X Nat) BY <1>5, <1>6
  <2>4. Numbers(lineNo, m) \o <<>> = Numbers(lineNo, m)
    <3>1. PICK s \in Seq(Nat \X Nat) : s = Numbers(lineNo, m) BY <2>3
    <3>2. s \o <<>> = s OBVIOUS
    <3> QED BY <3>1, <3>2
  <2>5. ended' = TRUE BY <1>1, <1>2, <1>8
  <2>6. LineOK' BY <1>1, <1>4, <1>5, <1>6, <2>1, <2>2, <2>4, <2>5 DEF LineOK
  <2>7. rest' \in Seq(Tokens) BY <1>2, <1>8
  <2> QED BY <1>1, <1>6, <2>5, <2>6, <2>7, InLine DEF TypeOK
<1>9. CASE m # Len(L)
  <2>1. m \in 0 .. Len(L) - 1 /\ ended' = FALSE
    <3>1. m \in 0 .. Len(L) - 1 BY <1>3, <1>9
    <3>2. rest' # <<>> BY <1>2, <1>9
    <3> QED BY <1>1, <3>1, <3>2
  <2>2. LineOK' BY <1>1, <1>2, <1>4, <1>5, <1>7, <2>1 DEF LineOK, L
  <2>3. rest' \in Seq(Tokens) BY <1>2, <1>3, <2>1, Suffix
  <2> QED BY <1>1, <1>6, <2>1, <2>2, <2>3, InLine DEF TypeOK
<1> QED BY <1>8, <1>9

LEMMA ReadBlanksStep ==
  ASSUME OpenInv, ReadBlanks
  PROVE  OpenInv'
<1> USE DEF OpenInv, openVars, pcmVars
<1> DEFINE L == Lines[lineNo]
<1>1. /\ step = "number" /\ step' = "number" /\ ~ended /\ ~failed /\ First(rest) = "end"
      /\ rest' = <<>> /\ ended' = TRUE /\ failed' = TRUE
      /\ coeffs' = Append(coeffs, Zero)
      /\ settings' = settings /\ lineNo' = lineNo
      /\ UNCHANGED <<openVars, step, lineNo, filters, pcmVars, graphVars>>
  BY DEF ReadBlanks
<1>2. /\ Len(L) \in Nat \ {0} /\ L[Len(L)] = "sp"
      /\ \A j \in 1 .. Len(L) : L[j] \in {"num", "sp"}
      /\ coeffs = Numbers(lineNo, Len(L))
  BY <1>1, AtBlank
<1>3. /\ Lines' = Lines /\ \A n : (Finite(n)' <=> Finite(n)) /\ Read(n)' = Read(n)
  BY <1>1, SameFile
<1>4. Finite(lineNo) BY <1>2 DEF Finite
<1> HIDE DEF L
<1>5. coeffs \in Seq(Nat \X Nat) /\ Zero \in Nat \X Nat BY DEF TypeOK, Zero
<1>6. /\ coeffs' = coeffs \o <<Zero>> /\ coeffs' # <<>> /\ coeffs' \in Seq(Nat \X Nat)
  <2>1. PICK z \in Nat \X Nat : z = Zero BY <1>5
  <2>2. coeffs' = Append(coeffs, z) BY <1>1, <2>1
  <2>3. coeffs' # <<>> /\ coeffs' \in Seq(Nat \X Nat) BY <1>5, <2>2
  <2>4. coeffs \o <<z>> = Append(coeffs, z) BY <1>5, AppendOne
  <2> QED BY <2>1, <2>2, <2>3, <2>4
<1>7. Read(lineNo) = coeffs \o <<Zero>> BY <1>2 DEF Read, L
<1>8. LineOK' BY <1>1, <1>3, <1>4, <1>6, <1>7 DEF LineOK
<1>9. rest' \in Seq(Tokens) BY <1>1
<1> QED BY <1>1, <1>6, <1>8, <1>9, InLine DEF TypeOK

LEMMA ReadGarbageStep ==
  ASSUME OpenInv, ReadGarbage
  PROVE  OpenInv'
<1> USE DEF OpenInv, openVars, pcmVars
<1> DEFINE L == Lines[lineNo]
<1>1. /\ step = "number" /\ step' = "number" /\ ~ended /\ ~failed
      /\ First(rest) \in {"cut", "word", "#"}
      /\ rest' = IF First(rest) = "cut" THEN Tail(SkipSpaces(rest)) ELSE rest
      /\ ended' = (rest' = <<>>) /\ failed' = TRUE
      /\ coeffs' = Append(coeffs, Zero)
      /\ settings' = settings /\ lineNo' = lineNo
      /\ UNCHANGED <<openVars, step, lineNo, filters, pcmVars, graphVars>>
  BY DEF ReadGarbage
<1>2. PICK m \in 1 .. Len(L) :
        /\ First(rest) = L[m] /\ L[m] # "sp"
        /\ Tail(SkipSpaces(rest)) = SubSeq(L, m + 1, Len(L))
        /\ Tail(SkipSpaces(rest)) = <<>> <=> m = Len(L)
        /\ \A j \in 1 .. m - 1 : L[j] \in {"num", "sp"}
        /\ coeffs = Numbers(lineNo, m - 1)
  BY <1>1, AtToken
<1>3. /\ lineNo \in Nat /\ L \in Seq(Tokens) /\ Len(L) \in Nat
      /\ m - 1 \in Nat /\ (m - 1) + 1 = m /\ m \in Nat
  <2>1. lineNo \in DOMAIN Lines /\ lineNo \in Nat /\ L \in Seq(Tokens) /\ Len(L) \in Nat
    BY <1>1, FileFacts DEF StepOK, DataLines
  <2> HIDE DEF L
  <2>2. m \in Nat /\ m - 1 \in Nat /\ (m - 1) + 1 = m BY <2>1
  <2> QED BY <2>1, <2>2
<1>4. /\ Lines' = Lines /\ \A n : (Finite(n)' <=> Finite(n)) /\ Read(n)' = Read(n)
  BY <1>1, SameFile
<1> HIDE DEF L
<1>5. coeffs \in Seq(Nat \X Nat) /\ Zero \in Nat \X Nat BY DEF TypeOK, Zero
<1>6. /\ coeffs' = coeffs \o <<Zero>> /\ coeffs' # <<>> /\ coeffs' \in Seq(Nat \X Nat)
  <2>1. PICK z \in Nat \X Nat : z = Zero BY <1>5
  <2>2. coeffs' = Append(coeffs, z) BY <1>1, <2>1
  <2>3. coeffs' # <<>> /\ coeffs' \in Seq(Nat \X Nat) BY <1>5, <2>2
  <2>4. coeffs \o <<z>> = Append(coeffs, z) BY <1>5, AppendOne
  <2> QED BY <2>1, <2>2, <2>3, <2>4
<1>7. rest' \in Seq(Tokens)
  <2>1. CASE m = Len(L)
    <3>1. Tail(SkipSpaces(rest)) = <<>> BY <1>2, <2>1
    <3>2. rest' = <<>> \/ rest' = rest BY <1>1, <3>1
    <3>3. rest \in Seq(Tokens) BY DEF TypeOK
    <3>4. <<>> \in Seq(Tokens) OBVIOUS
    <3> QED BY <3>2, <3>3, <3>4
  <2>2. CASE m # Len(L)
    <3>1. m \in 0 .. Len(L) - 1 BY <1>3, <2>2
    <3>2. SubSeq(L, m + 1, Len(L)) \in Seq(Tokens) BY <1>3, <3>1, Suffix
    <3> QED BY <1>1, <1>2, <3>2 DEF TypeOK
  <2> QED BY <2>1, <2>2
<1>8. ASSUME ended' PROVE m = Len(L) /\ L[m] = "cut"
  <2>1. rest # <<>>
    <3>1. First(<<>>) = "end" BY DEF First, SkipSpaces
    <3> QED BY <1>1, <3>1
  <2> QED BY <1>1, <1>2, <1>8, <2>1
<1>9. ASSUME ended' PROVE coeffs' # <<>> /\ Finite(lineNo) /\ coeffs' = Read(lineNo)
  <2>1. m = Len(L) /\ L[m] = "cut" BY <1>8, <1>9
  <2>2. Finite(lineNo)
    <3>1. \A j \in 1 .. m : j \in 1 .. m - 1 \/ j = m BY <1>3
    <3> QED BY <1>2, <2>1, <3>1 DEF Finite, L
  <2>3. Numbers(lineNo, m) = coeffs
    <3>1. Lines[lineNo][(m - 1) + 1] # "num" BY <1>3, <2>1 DEF L
    <3>2. Numbers(lineNo, (m - 1) + 1) = Numbers(lineNo, m - 1) BY <1>3, <3>1, NumbersRead
    <3> QED BY <1>2, <1>3, <3>2
  <2>4. Read(lineNo) = coeffs \o <<Zero>> BY <2>1, <2>3 DEF Read, L
  <2> QED BY <1>6, <2>2, <2>4
<1>10. LineOK' BY <1>1, <1>4, <1>9 DEF LineOK
<1> QED BY <1>1, <1>6, <1>7, <1>10, InLine

LEMMA PushZerosStep ==
  ASSUME OpenInv, PushZeros
  PROVE  OpenInv'
<1> USE DEF OpenInv, openVars, pcmVars
<1>1. /\ step = "number" /\ ~ended /\ failed
      /\ coeffs' = IF Len(coeffs) < MaxCoeffs THEN Append(coeffs, Zero) ELSE coeffs
      /\ rest' = rest /\ failed' = failed /\ ended' = ended
      /\ UNCHANGED <<openVars, step, lineNo, filters, pcmVars, graphVars>>
  BY DEF PushZeros
<1>2. coeffs' \in Seq(Nat \X Nat)
  <2>1. coeffs \in Seq(Nat \X Nat) /\ Zero \in Nat \X Nat BY DEF TypeOK, Zero
  <2>2. Append(coeffs, Zero) \in Seq(Nat \X Nat)
    <3>1. \A z \in Nat \X Nat : Append(coeffs, z) \in Seq(Nat \X Nat) BY <2>1
    <3> QED BY <2>1, <3>1
  <2> QED BY <1>1, <2>1, <2>2
<1>3. LineOK' BY <1>1 DEF LineOK
<1> QED BY <1>1, <1>2, <1>3, InLine DEF TypeOK

(* The numbers of a set below l + 1 are those below l, and perhaps l. *)
LEMMA Below ==
  ASSUME NEW D, D \subseteq Nat, IsFiniteSet(D), NEW l \in Nat
  PROVE  LET before == {n \in D : n < l}
             upto   == {n \in D : n < l + 1}
         IN  /\ upto = {n \in D : n <= l}
             /\ l \notin D => Cardinality(upto) = Cardinality(before)
             /\ l \in D => Cardinality(upto) = Cardinality(before) + 1
<1> DEFINE before == {n \in D : n < l}
           upto   == {n \in D : n < l + 1}
<1>1. \A n \in Nat : (n < l + 1 <=> n <= l) /\ (n < l + 1 <=> n < l \/ n = l) /\ ~(l < l)
  OBVIOUS
<1>2. \A n \in D : (n < l + 1 <=> n <= l) /\ (n < l + 1 <=> n < l \/ n = l) BY <1>1
<1>3. upto = {n \in D : n <= l} BY <1>2, Zenon
<1>4. IsFiniteSet(before) BY FS_Subset
<1>5. ASSUME l \notin D PROVE upto = before BY <1>2, <1>5, Zenon
<1>6. ASSUME l \in D
      PROVE  Cardinality(upto) = Cardinality(before) + 1
  <2>1. upto = before \cup {l} /\ l \notin before BY <1>1, <1>2, <1>6, Zenon
  <2> HIDE DEF before, upto
  <2>2. Cardinality(before \cup {l}) = Cardinality(before) + 1
    BY <1>4, <2>1, FS_AddElement
  <2> QED BY <2>1, <2>2
<1> QED BY <1>3, <1>5, <1>6

(* Between two lines: the data lines before the next one are counted. *)
LEMMA LinesBefore ==
  ASSUME TypeOK, lineNo \in DOMAIN Lines
  PROVE  LET before == {n \in DataLines : n < lineNo}
             upto   == {n \in DataLines : n < lineNo + 1}
         IN  /\ upto = {n \in DataLines : n <= lineNo}
             /\ lineNo \notin DataLines => Cardinality(upto) = Cardinality(before)
             /\ lineNo \in DataLines => Cardinality(upto) = Cardinality(before) + 1
<1>1. lineNo \in Nat /\ DataLines \subseteq Nat /\ IsFiniteSet(DataLines) BY FileFacts
<1> QED BY <1>1, Below

LEMMA SkipLineStep ==
  ASSUME OpenInv, SkipLine
  PROVE  OpenInv'
<1> USE DEF OpenInv, openVars, pcmVars
<1>1. /\ step = "line" /\ lineNo <= Len(Lines) /\ Ignored(Lines[lineNo])
      /\ lineNo' = lineNo + 1
      /\ UNCHANGED <<openVars, step, rest, failed, ended, coeffs, filters, pcmVars, graphVars>>
  BY DEF SkipLine
<1>2. /\ config' = config /\ phase' = phase
      /\ IF config'.filters = <<>> THEN InitGraph' ELSE GraphInv'
  BY <1>1, GraphSame
<1>3. Lines' = Lines /\ DataLines' = DataLines BY <1>1, SameFile
<1>4. lineNo \in DOMAIN Lines /\ lineNo + 1 \in 1 .. Len(Lines) + 1
  BY <1>1, FileFacts DEF TypeOK
<1>5. TypeOK' BY <1>1, <1>3, <1>4 DEF TypeOK
<1>6. StepOK' BY <1>1, <1>2, <1>3 DEF StepOK
<1>7. LineOK' BY <1>1 DEF LineOK
<1>8. FiltersOK'
  <2>1. lineNo \notin DataLines BY <1>1 DEF DataLines
  <2>2. Cardinality({n \in DataLines : n < lineNo + 1}) = Cardinality({n \in DataLines : n < lineNo})
    BY <1>4, <2>1, LinesBefore
  <2>3. FiltersAsWritten' BY <1>1, FiltersSame
  <2>4. Len(filters) = Cardinality({n \in DataLines : n < lineNo}) BY DEF FiltersOK
  <2> QED BY <1>1, <1>3, <2>2, <2>3, <2>4 DEF FiltersOK
<1>9. CrossoverOK' BY <1>1, <1>2, <1>3 DEF CrossoverOK
<1> QED BY <1>5, <1>6, <1>7, <1>8, <1>9

LEMMA StartLineStep ==
  ASSUME OpenInv, StartLine
  PROVE  OpenInv'
<1> USE DEF OpenInv, openVars, pcmVars
<1> DEFINE L == Lines[lineNo]
<1>1. /\ step = "line" /\ lineNo <= Len(Lines) /\ ~Ignored(L)
      /\ rest' = L /\ failed' = FALSE /\ ended' = FALSE /\ coeffs' = <<>> /\ step' = "number"
      /\ UNCHANGED <<openVars, lineNo, filters, pcmVars, graphVars>>
  BY DEF StartLine
<1>2. /\ config' = config /\ phase' = phase
      /\ IF config'.filters = <<>> THEN InitGraph' ELSE GraphInv'
  BY <1>1, GraphSame
<1>3. /\ Lines' = Lines /\ DataLines' = DataLines
      /\ \A n, k : Numbers(n, k)' = Numbers(n, k)
  BY <1>1, SameFile
<1>4. lineNo \in DOMAIN Lines /\ L \in Seq(Tokens) /\ lineNo \in DataLines
  BY <1>1, FileFacts DEF TypeOK, DataLines
<1>5. TypeOK'
  <2>1. <<>> \in Seq(Nat \X Nat) OBVIOUS
  <2> QED BY <1>1, <1>3, <1>4, <2>1 DEF TypeOK
<1>6. StepOK'
  <2>1. conf # <<>> /\ settings.slave /\ settings.path.kind # "missing" BY <1>1 DEF StepOK
  <2> QED BY <1>1, <1>2, <1>3, <1>4, <2>1 DEF StepOK
<1>7. LineOK'
  <2>1. L # <<>>
    <3>1. First(<<>>) = "end" BY DEF First, SkipSpaces
    <3> QED BY <1>1, <3>1 DEF Ignored
  <2> HIDE DEF L
  <2>2. 0 \in 0 .. Len(L) - 1 BY <1>4, <2>1
  <2>3. L = SubSeq(L, 0 + 1, Len(L)) BY <1>4, WholeLine
  <2>4. \A j \in 1 .. 0 : L[j] \in {"num", "sp"} OBVIOUS
  <2>5. <<>> = Numbers(lineNo, 0) BY NumbersNone
  <2> QED BY <1>1, <1>3, <2>2, <2>3, <2>4, <2>5 DEF LineOK, L
<1>8. FiltersOK' BY <1>1, FiltersSame
<1>9. CrossoverOK' BY <1>1, <1>2, <1>3 DEF CrossoverOK
<1> QED BY <1>5, <1>6, <1>7, <1>8, <1>9

LEMMA EndLineStep ==
  ASSUME OpenInv, EndLine
  PROVE  OpenInv'
<1> USE DEF OpenInv, openVars, pcmVars
<1>1. /\ step = "number" /\ ended /\ filters' = Append(filters, coeffs)
      /\ lineNo' = lineNo + 1 /\ step' = "line"
      /\ UNCHANGED <<openVars, rest, failed, ended, coeffs, pcmVars, graphVars>>
  BY DEF EndLine
<1>2. /\ config' = config /\ phase' = phase
      /\ IF config'.filters = <<>> THEN InitGraph' ELSE GraphInv'
  BY <1>1, GraphSame
<1>3. /\ Lines' = Lines /\ DataLines' = DataLines
      /\ \A n : (Finite(n)' <=> Finite(n)) /\ Read(n)' = Read(n)
      /\ \A f, n : IsDataLine(f, n)' <=> IsDataLine(f, n)
  BY <1>1, SameFile
<1>4. lineNo \in DataLines /\ lineNo \in DOMAIN Lines /\ lineNo + 1 \in 1 .. Len(Lines) + 1
  <2>1. lineNo \in DataLines BY <1>1 DEF StepOK
  <2> QED BY <2>1, FileFacts
<1>5. coeffs # <<>> /\ Finite(lineNo) /\ coeffs = Read(lineNo) BY <1>1 DEF LineOK
<1> DEFINE Coeffs == Seq(Nat \X Nat)
<1>6. filters \in Seq(Coeffs) /\ coeffs \in Coeffs BY DEF TypeOK
<1>7. /\ filters' \in Seq(Coeffs) /\ Len(filters') = Len(filters) + 1
      /\ DOMAIN filters' = DOMAIN filters \cup {Len(filters) + 1}
      /\ \A f \in DOMAIN filters : filters'[f] = filters[f]
      /\ filters'[Len(filters) + 1] = coeffs
  <2> HIDE DEF Coeffs
  <2> QED BY <1>1, <1>6
<1>8. \A f \in DOMAIN filters' : filters'[f] # <<>> BY <1>5, <1>7 DEF TypeOK
<1>9. TypeOK' BY <1>1, <1>3, <1>4, <1>7, <1>8 DEF TypeOK
<1>10. StepOK' BY <1>1, <1>2, <1>3 DEF StepOK
<1>11. LineOK' BY <1>1 DEF LineOK
<1>12. FiltersOK'
  <2>1. Len(filters) = Cardinality({n \in DataLines : n < lineNo}) BY DEF FiltersOK
  <2>2. /\ {n \in DataLines : n < lineNo + 1} = {n \in DataLines : n <= lineNo}
        /\ Cardinality({n \in DataLines : n < lineNo + 1}) = Len(filters) + 1
    BY <1>4, <2>1, LinesBefore
  <2>3. Len(filters') = Cardinality({n \in DataLines : n < lineNo + 1})
    BY <1>7, <2>2
  <2>4. IsDataLine(Len(filters) + 1, lineNo) BY <1>4, <2>2 DEF IsDataLine
  <2>5. ASSUME NEW f \in DOMAIN filters'
        PROVE  \E n \in DataLines : IsDataLine(f, n) /\ Finite(n) /\ filters'[f] = Read(n)
    <3>1. CASE f \in DOMAIN filters BY <1>7, <3>1 DEF FiltersOK, FiltersAsWritten
    <3>2. CASE f = Len(filters) + 1 BY <1>4, <1>5, <1>7, <2>4, <3>2
    <3> QED BY <1>7, <3>1, <3>2
  <2>6. FiltersAsWritten' BY <1>3, <2>5 DEF FiltersAsWritten
  <2> QED BY <1>1, <1>3, <2>3, <2>6 DEF FiltersOK
<1>13. CrossoverOK' BY <1>1, <1>2, <1>3 DEF CrossoverOK
<1> QED BY <1>9, <1>10, <1>11, <1>12, <1>13

(* Rounding up: what is not empty has a block. *)
LEMMA AtLeastOne ==
  ASSUME NEW a \in Nat \ {0}, NEW s \in Nat \ {0}
  PROVE  (a + s - 1) \div s \in Nat \ {0}
<1> DEFINE n == a + s - 1
           q == n \div s
<1>1. n \in Nat /\ n >= s OBVIOUS
<1> HIDE DEF n
<1>2. q \in Int /\ n < s * q + s BY <1>1
<1> HIDE DEF q
<1>3. ASSUME q <= 0 PROVE FALSE
  <2>1. s * q <= 0 BY <1>2, <1>3
  <2> QED BY <1>1, <1>2, <2>1
<1>4. q \in Nat \ {0} BY <1>2, <1>3
<1> QED BY <1>4 DEF n, q

LEMMA CrossoverConfig ==
  ASSUME TypeOK, Len(filters) = NumFilters
  PROVE  IsConfig(Crossover(filters)) /\ Crossover(filters).filters # <<>>
<1> DEFINE Coeffs == Seq(Nat \X Nat)
           F == [f \in 1 .. NumFilters |-> [channel |-> InputOf[f],
                                            numBlocks |-> BlocksOf(filters[f])]]
           R == [channel : Channels, numBlocks : Nat \ {0}]
<1>1. filters \in Seq(Coeffs) /\ settings.blockSize \in Nat \ {0} BY DEF TypeOK
<1>2. DOMAIN filters = 1 .. NumFilters /\ \A f \in 1 .. NumFilters : filters[f] \in Coeffs
  <2> HIDE DEF Coeffs
  <2> QED BY <1>1
<1>3. \A f \in 1 .. NumFilters : Len(filters[f]) \in Nat \ {0}
  <2>1. \A f \in 1 .. NumFilters : filters[f] # <<>> BY <1>2 DEF TypeOK
  <2>2. \A s \in Coeffs : s # <<>> => Len(s) \in Nat \ {0} OBVIOUS
  <2> HIDE DEF Coeffs
  <2> QED BY <1>2, <2>1, <2>2
<1>4. \A f \in 1 .. NumFilters : BlocksOf(filters[f]) \in Nat \ {0}
  BY <1>1, <1>3, AtLeastOne DEF BlocksOf
<1>5. \A f \in 1 .. NumFilters : InputOf[f] \in Channels
  BY OpenAssumption DEF OpenAssumption, InputOf, NumFilters
<1>6. \A f \in 1 .. NumFilters : F[f] \in R BY <1>4, <1>5
<1>7. F \in Seq(R) /\ Len(F) = NumFilters
  <2>1. F = [f \in 1 .. NumFilters |-> F[f]] OBVIOUS
  <2> HIDE DEF F, R
  <2>2. NumFilters \in Nat BY DEF NumFilters
  <2> QED BY <1>6, <2>1, <2>2
<1>8. F # <<>> /\ Crossover(filters) = [filters |-> F, combine |-> 4]
  <2>1. Crossover(filters) = [filters |-> F, combine |-> 4] BY DEF Crossover
  <2> HIDE DEF F
  <2>2. Len(F) = 7 /\ Len(<<>>) = 0 BY <1>7 DEF NumFilters
  <2>3. Len(F) # Len(<<>>) BY <2>2
  <2>4. F # <<>> BY <2>3, Zenon
  <2> QED BY <2>1, <2>4
<1> HIDE DEF F, R
<1> QED BY <1>7, <1>8 DEF IsConfig, R

LEMMA FileReadStep ==
  ASSUME OpenInv, FileRead
  PROVE  OpenInv'
<1> USE DEF OpenInv, openVars, fileVars, pcmVars
<1>1. /\ step = "line" /\ lineNo > Len(Lines)
      /\ IF Len(filters) = NumFilters
           THEN step' = "crossover" /\ config' = Crossover(filters)
           ELSE step' = "aborted" /\ config' = config
      /\ UNCHANGED <<openVars, fileVars, pcmVars, dependencies, dependents, filter, phase, i,
                     deps, sumUp, sums, results>>
  BY DEF FileRead
<1>2. Lines' = Lines /\ DataLines' = DataLines BY <1>1, SameFile
<1>3. config.filters = <<>> /\ InitGraph BY <1>1 DEF CrossoverOK
<1>4. InitGraph' BY <1>1, <1>3 DEF InitGraph, Job
<1>5. TypeOK' BY <1>1, <1>2 DEF TypeOK
<1>6. StepOK'
  <2>1. conf # <<>> /\ settings.slave BY <1>1 DEF StepOK
  <2> QED BY <1>1, <1>2, <2>1 DEF StepOK
<1>7. LineOK' BY <1>1 DEF LineOK
<1>8. FiltersOK' BY <1>1, FiltersSame
<1>9. CASE Len(filters) = NumFilters
  <2>1. step' = "crossover" /\ config' = Crossover(filters) BY <1>1, <1>9
  <2>2. IsConfig(config)' /\ config'.filters # <<>> BY <1>9, <2>1, CrossoverConfig DEF IsConfig
  <2>3. (InitGraph /\ IsConfig(config) => GraphInv)' BY GraphStarts, PTL
  <2>4. GraphInv' BY <1>4, <2>2, <2>3
  <2>5. lineNo = Len(Lines) + 1 BY <1>1, FileFacts DEF TypeOK
  <2>6. config' = Crossover(filters)' BY <1>1, <2>1 DEF Crossover, BlocksOf
  <2>7. CrossoverOK' BY <1>1, <1>2, <1>9, <2>1, <2>2, <2>4, <2>5, <2>6 DEF CrossoverOK
  <2> QED BY <1>5, <1>6, <1>7, <1>8, <2>7
<1>10. CASE Len(filters) # NumFilters
  <2>1. step' = "aborted" /\ config' = config BY <1>1, <1>10
  <2>2. CrossoverOK' BY <1>1, <1>3, <1>4, <2>1 DEF CrossoverOK
  <2> QED BY <1>5, <1>6, <1>7, <1>8, <2>2
<1> QED BY <1>9, <1>10
--------------------------------------------------------------------------------
(* The other steps of the open function. *)

LEMMA SettingOK ==
  ASSUME TypeOK, NEW e, IsEntry(e)
  PROVE  LET s == Setting(e)
         IN  /\ s \in [slave : BOOLEAN, blockSize : Nat \ {0}, firDelay : Nat, path : {s.path}]
             /\ IsFile(s.path)
             /\ s.slave => settings.slave \/ (e.id = "slave" /\ e.pcm = "name")
<1>1. /\ settings \in [slave : BOOLEAN, blockSize : Nat \ {0}, firDelay : Nat,
                       path : {settings.path}]
      /\ IsFile(settings.path)
  BY DEF TypeOK
<1>2. CASE e.id = "slave" /\ e.pcm # "none"
  <2>1. Setting(e) = [settings EXCEPT !.slave = (e.pcm = "name")] BY <1>2 DEF Setting
  <2>2. (e.pcm = "name") \in BOOLEAN OBVIOUS
  <2> QED BY <1>1, <1>2, <2>1, <2>2
<1>3. CASE e.id = "blocksize" /\ e.integer
  <2>1. Setting(e) = [settings EXCEPT !.blockSize = e.value] BY <1>3 DEF Setting
  <2>2. e.value \in Nat \ {0} BY <1>3 DEF IsEntry
  <2> QED BY <1>1, <2>1, <2>2
<1>4. CASE e.id = "fir_delay" /\ e.integer
  <2>1. Setting(e) = [settings EXCEPT !.firDelay = Max({0, e.value})] BY <1>4 DEF Setting
  <2>2. e.value \in Int BY <1>4 DEF IsEntry
  <2>3. Max({0, e.value}) \in Nat BY <2>2, MaxOfTwo
  <2> QED BY <1>1, <2>1, <2>3
<1>5. CASE e.id = "path"
  <2>1. Setting(e) = [settings EXCEPT !.path = e.value] BY <1>5 DEF Setting
  <2>2. IsFile(e.value) BY <1>5 DEF IsEntry
  <2> QED BY <1>1, <2>1, <2>2
<1>6. CASE /\ ~(e.id = "slave" /\ e.pcm # "none") /\ ~(e.id = "blocksize" /\ e.integer)
           /\ ~(e.id = "fir_delay" /\ e.integer) /\ e.id # "path"
  <2>1. Setting(e) = settings BY <1>6 DEF Setting
  <2> QED BY <1>1, <2>1
<1> QED BY <1>2, <1>3, <1>4, <1>5, <1>6

(* Before the file has been read there are no filters. *)
LEMMA NothingRead ==
  ASSUME lineNo = 1, filters = <<>>, Len(Lines) \in Nat, DOMAIN Lines = 1 .. Len(Lines)
  PROVE  FiltersOK
<1>1. {n \in DataLines : n < lineNo} = {} BY DEF DataLines
<1>2. Len(filters) = Cardinality({n \in DataLines : n < lineNo}) BY <1>1, FS_EmptySet
<1>3. DOMAIN filters = {} OBVIOUS
<1> QED BY <1>2, <1>3 DEF FiltersOK, FiltersAsWritten

LEMMA ReadEntryStep ==
  ASSUME OpenInv, ReadEntry
  PROVE  OpenInv'
<1> USE DEF OpenInv, fileVars, pcmVars
<1> DEFINE e == conf[entry]
<1>1. /\ step = "config" /\ step' = "config" /\ entry <= Len(conf)
      /\ settings' = Setting(e) /\ entry' = entry + 1
      /\ UNCHANGED <<conf, step, fileVars, pcmVars, graphVars>>
  BY DEF ReadEntry
<1>2. /\ config' = config /\ phase' = phase
      /\ IF config'.filters = <<>> THEN InitGraph' ELSE GraphInv'
  BY <1>1, GraphSame
<1>3. conf # <<>> /\ lineNo = 1 /\ filters = <<>> BY <1>1 DEF StepOK
<1>4. /\ conf \in Configurations /\ Len(conf) \in Nat /\ DOMAIN conf = 1 .. Len(conf)
      /\ IsEntry(e)
  <2>1. conf \in Configurations BY <1>3 DEF TypeOK
  <2>2. conf \in Seq(ToSet(conf)) /\ \A k \in DOMAIN conf : IsEntry(conf[k])
    BY <2>1, OpenAssumption DEF OpenAssumption
  <2>3. Len(conf) \in Nat /\ DOMAIN conf = 1 .. Len(conf) BY <2>2
  <2>4. entry \in DOMAIN conf BY <1>1, <2>3 DEF TypeOK
  <2> QED BY <2>1, <2>2, <2>3, <2>4
<1>5. /\ settings' \in [slave : BOOLEAN, blockSize : Nat \ {0}, firDelay : Nat,
                        path : {settings'.path}]
      /\ IsFile(settings'.path)
      /\ settings'.slave => settings.slave \/ (e.id = "slave" /\ e.pcm = "name")
  <2> HIDE DEF e
  <2> QED BY <1>1, <1>4, SettingOK
<1>6. entry \in 1 .. Len(conf) /\ entry' \in 1 .. Len(conf') + 1
  BY <1>1, <1>4 DEF TypeOK
<1>7. Lines' \in Seq(Seq(Tokens)) BY <1>5 DEF Lines, IsFile
<1>8. Len(Lines') \in Nat /\ DOMAIN Lines' = 1 .. Len(Lines') /\ lineNo' = 1 /\ filters' = <<>>
  <2>1. PICK s : s = Lines' OBVIOUS
  <2> DEFINE S == Seq(Tokens)
  <2>2. s \in Seq(S) BY <1>7, <2>1
  <2> HIDE DEF S
  <2>3. Len(s) \in Nat /\ DOMAIN s = 1 .. Len(s) BY <2>2
  <2> QED BY <1>1, <1>3, <2>1, <2>3
<1>9. lineNo' \in 1 .. Len(Lines') + 1 BY <1>8
<1>10. TypeOK'
  <2>1. IsFile(settings.path)' BY <1>5 DEF IsFile
  <2> QED BY <1>1, <1>5, <1>6, <1>9, <2>1 DEF TypeOK
<1>11. StepOK'
  <2>1. ASSUME settings'.slave
        PROVE  \E k \in 1 .. entry' - 1 : conf[k].id = "slave" /\ conf[k].pcm = "name"
    <3>1. entry' - 1 = entry /\ entry \in 1 .. entry /\ 1 .. entry - 1 \subseteq 1 .. entry
      BY <1>1, <1>6
    <3> QED BY <1>5, <2>1, <3>1 DEF StepOK
  <2> QED BY <1>1, <1>3, <1>8, <2>1 DEF StepOK
<1>12. LineOK' BY <1>1 DEF LineOK
<1>13. FiltersOK'
  <2>1. (lineNo = 1 /\ filters = <<>> /\ Len(Lines) \in Nat /\ DOMAIN Lines = 1 .. Len(Lines)
           => FiltersOK)'
    BY NothingRead, PTL
  <2> QED BY <1>8, <2>1
<1>14. CrossoverOK' BY <1>1, <1>2 DEF CrossoverOK
<1> QED BY <1>10, <1>11, <1>12, <1>13, <1>14

(* A step that leaves the settings, the file and the crossover as they are. *)
LEMMA OutsideFile ==
  ASSUME OpenInv, UNCHANGED <<openVars, fileVars, graphVars>>,
         limits' \in 0 .. NumLimits, created' \in BOOLEAN,
         step' \in {"line", "limits", "opened", "error", "thrown"},
         step' \in {"line", "thrown"} => step = "config",
         step' \in {"limits", "opened"} => step \in {"crossover", "limits"} /\ conf # <<>>,
         StepOK'
  PROVE  OpenInv'
<1> USE DEF OpenInv, openVars, fileVars
<1>1. /\ config' = config /\ phase' = phase
      /\ IF config'.filters = <<>> THEN InitGraph' ELSE GraphInv'
  BY GraphSame
<1>2. Lines' = Lines /\ DataLines' = DataLines BY SameFile
<1>3. TypeOK' BY <1>2 DEF TypeOK
<1>4. LineOK' BY DEF LineOK
<1>5. FiltersOK' BY FiltersSame
<1>6. CrossoverOK'
  <2>1. Crossover(filters)' = Crossover(filters) BY DEF Crossover, BlocksOf
  <2> QED BY <1>1, <1>2, <2>1 DEF CrossoverOK
<1> QED BY <1>3, <1>4, <1>5, <1>6

LEMMA NoSlaveStep ==
  ASSUME OpenInv, NoSlave
  PROVE  OpenInv'
<1> USE DEF OpenInv, openVars, fileVars, pcmVars
<1>1. /\ step = "config" /\ step' = "error"
      /\ UNCHANGED <<openVars, fileVars, pcmVars, graphVars>>
  BY DEF NoSlave
<1>2. StepOK' BY <1>1 DEF StepOK
<1>3. limits' \in 0 .. NumLimits /\ created' \in BOOLEAN BY <1>1 DEF TypeOK
<1> QED BY <1>1, <1>2, <1>3, OutsideFile

LEMMA OpenFileStep ==
  ASSUME OpenInv, OpenFile
  PROVE  OpenInv'
<1> USE DEF OpenInv, openVars, fileVars, pcmVars
<1>1. /\ step = "config" /\ settings.slave
      /\ step' = IF settings.path = Missing THEN "thrown" ELSE "line"
      /\ UNCHANGED <<openVars, fileVars, pcmVars, graphVars>>
  BY DEF OpenFile
<1>2. settings.path # Missing => settings.path.kind # "missing"
  <2>1. IsFile(settings.path) BY DEF TypeOK
  <2>2. settings.path = [kind |-> settings.path.kind, lines |-> settings.path.lines]
    BY <2>1 DEF IsFile
  <2>3. settings.path.kind = "missing" => settings.path.lines = <<>> BY <2>1 DEF IsFile
  <2> QED BY <2>2, <2>3 DEF Missing
<1>3. StepOK' BY <1>1, <1>2 DEF StepOK
<1>4. limits' \in 0 .. NumLimits /\ created' \in BOOLEAN BY <1>1 DEF TypeOK
<1> QED BY <1>1, <1>3, <1>4, OutsideFile

LEMMA BuildCrossoverStep ==
  ASSUME OpenInv, BuildCrossover
  PROVE  OpenInv'
<1> USE DEF OpenInv, openVars, fileVars, pcmVars
<1>1. /\ step = "crossover" /\ BuildGraph
      /\ UNCHANGED <<openVars, step, fileVars, pcmVars>>
  BY DEF BuildCrossover
<1>2. config' = config
  BY <1>1 DEF BuildGraph, CreateRoot, CreateLeaf, CreateShift, CreateSum, CreateCombine,
     CreateResult, CreateCombined
<1>3. config.filters # <<>> /\ GraphInv BY <1>1 DEF CrossoverOK
<1>4. GraphInv' BY <1>1, <1>3, GraphSteps
<1>5. Lines' = Lines /\ DataLines' = DataLines BY <1>1, SameFile
<1>6. TypeOK' BY <1>1, <1>5 DEF TypeOK
<1>7. StepOK' BY <1>1 DEF StepOK
<1>8. LineOK' BY <1>1 DEF LineOK
<1>9. FiltersOK' BY <1>1, FiltersSame
<1>10. CrossoverOK'
  <2>1. Crossover(filters)' = Crossover(filters) BY <1>1 DEF Crossover, BlocksOf
  <2> QED BY <1>1, <1>2, <1>3, <1>4, <1>5, <2>1 DEF CrossoverOK
<1> QED BY <1>6, <1>7, <1>8, <1>9, <1>10

LEMMA CreateIoplugStep ==
  ASSUME OpenInv, CreateIoplug
  PROVE  OpenInv'
<1> USE DEF OpenInv, openVars, fileVars
<1>1. /\ step = "crossover" /\ phase = "done" /\ conf # <<>>
      /\ (created' = TRUE /\ step' = "limits") \/ (created' = FALSE /\ step' = "error")
      /\ UNCHANGED <<openVars, fileVars, limits, graphVars>>
  BY DEF CreateIoplug
<1>2. settings.slave /\ phase' = phase BY <1>1 DEF StepOK, graphVars
<1>3. StepOK' BY <1>1, <1>2 DEF StepOK
<1>4. limits' \in 0 .. NumLimits /\ created' \in BOOLEAN BY <1>1 DEF TypeOK
<1> QED BY <1>1, <1>3, <1>4, OutsideFile

LEMMA SetLimitStep ==
  ASSUME OpenInv, SetLimit
  PROVE  OpenInv'
<1> USE DEF OpenInv, openVars, fileVars
<1>1. /\ step = "limits" /\ limits < NumLimits
      /\ \/ /\ limits' = limits + 1
            /\ step' = IF limits + 1 = NumLimits THEN "opened" ELSE step
         \/ limits' = limits /\ step' = "error"
      /\ UNCHANGED <<openVars, fileVars, created, graphVars>>
  BY DEF SetLimit
<1>2. /\ limits \in 0 .. NumLimits /\ created \in BOOLEAN /\ NumLimits \in Nat
      /\ conf # <<>> /\ settings.slave /\ created /\ phase = "done" /\ phase' = phase
  BY <1>1 DEF TypeOK, StepOK, NumLimits, graphVars
<1>3. limits' \in 0 .. NumLimits /\ created' \in BOOLEAN BY <1>1, <1>2
<1>4. StepOK' BY <1>1, <1>2 DEF StepOK
<1> QED BY <1>1, <1>2, <1>3, <1>4, OutsideFile

LEMMA Stutter ==
  ASSUME OpenInv, UNCHANGED vars
  PROVE  OpenInv'
<1> USE DEF OpenInv, vars, openVars, fileVars, pcmVars
<1>1. /\ config' = config /\ phase' = phase
      /\ IF config'.filters = <<>> THEN InitGraph' ELSE GraphInv'
  BY GraphSame
<1>2. /\ Lines' = Lines /\ DataLines' = DataLines
      /\ \A n : (Finite(n)' <=> Finite(n)) /\ Read(n)' = Read(n)
      /\ \A n, k : Numbers(n, k)' = Numbers(n, k)
  BY SameFile
<1>3. TypeOK' BY <1>2 DEF TypeOK
<1>4. StepOK' BY <1>1, <1>2 DEF StepOK
<1>5. LineOK' BY <1>2 DEF LineOK
<1>6. FiltersOK' BY FiltersSame
<1>7. CrossoverOK'
  <2>1. Crossover(filters)' = Crossover(filters) BY DEF Crossover, BlocksOf
  <2> QED BY <1>1, <1>2, <2>1 DEF CrossoverOK
<1> QED BY <1>3, <1>4, <1>5, <1>6, <1>7
--------------------------------------------------------------------------------
(* The theorems. *)

LEMMA OpenStarts == Init => OpenInv
<1> SUFFICES ASSUME Init PROVE OpenInv OBVIOUS
<1>1. /\ entry = 1 /\ settings = Defaults /\ lineNo = 1 /\ rest = <<>>
      /\ failed = FALSE /\ ended = FALSE /\ coeffs = <<>> /\ filters = <<>>
      /\ limits = 0 /\ created = FALSE /\ InitGraph
  BY DEF Init, Idle
<1>2. \/ /\ step = "config" /\ conf \in Configurations
         /\ config = [filters |-> <<>>, combine |-> 4]
      \/ step = "crossover" /\ conf = <<>> /\ config \in Configs
  BY DEF Init
<1>3. IsFile(settings.path) /\ settings.path.lines = <<>>
  <2>1. <<>> \in Seq(Seq(Tokens)) /\ DOMAIN <<>> = {} OBVIOUS
  <2> QED BY <1>1, <2>1 DEF IsFile, Defaults, Missing
<1>4. settings \in [slave : BOOLEAN, blockSize : Nat \ {0}, firDelay : Nat,
                    path : {settings.path}]
  BY <1>1, OpenAssumption DEF OpenAssumption, Defaults
<1>5. Len(Lines) = 0 /\ DOMAIN Lines = 1 .. Len(Lines) BY <1>3 DEF Lines
<1>6. Len(conf) \in Nat /\ (step = "config" => conf # <<>>)
  BY <1>2, OpenAssumption DEF OpenAssumption
<1>7. TypeOK
  <2>1. DOMAIN <<>> = {} /\ <<>> \in Seq(Seq(Nat \X Nat)) /\ <<>> \in Seq(Nat \X Nat)
    OBVIOUS
  <2>2. entry \in 1 .. Len(conf) + 1 /\ lineNo \in 1 .. Len(Lines) + 1 BY <1>1, <1>5, <1>6
  <2>3. limits \in 0 .. NumLimits BY <1>1 DEF NumLimits
  <2>4. rest \in Seq(Tokens) BY <1>1
  <2> QED BY <1>1, <1>2, <1>3, <1>4, <2>1, <2>2, <2>3, <2>4 DEF TypeOK
<1>8. StepOK BY <1>1, <1>2, <1>6 DEF StepOK, Defaults
<1>9. LineOK BY <1>2 DEF LineOK
<1>10. FiltersOK BY <1>1, <1>5, NothingRead
<1>11. CrossoverOK
  <2>1. CASE step = "config" /\ config = [filters |-> <<>>, combine |-> 4]
    BY <1>1, <2>1 DEF CrossoverOK
  <2>2. CASE step = "crossover" /\ conf = <<>> /\ config \in Configs
    <3>1. IsConfig(config) BY <2>2, ConfigsAssumption DEF ConfigsAssumption
    <3>2. GraphInv /\ config.filters # <<>> BY <1>1, <3>1, GraphStarts DEF IsConfig
    <3> QED BY <2>2, <3>2 DEF CrossoverOK
  <2> QED BY <1>2, <2>1, <2>2
<1> QED BY <1>7, <1>8, <1>9, <1>10, <1>11 DEF OpenInv

LEMMA OpenSteps == OpenInv /\ [Next]_vars => OpenInv'
<1> SUFFICES ASSUME OpenInv, [Next]_vars PROVE OpenInv' OBVIOUS
<1>1. CASE ReadEntry BY <1>1, ReadEntryStep
<1>2. CASE NoSlave BY <1>2, NoSlaveStep
<1>3. CASE OpenFile BY <1>3, OpenFileStep
<1>4. CASE Load
  BY <1>4, SkipLineStep, StartLineStep, ReadNumberStep, ReadBlanksStep, ReadGarbageStep,
     PushZerosStep, EndLineStep, FileReadStep DEF Load
<1>5. CASE BuildCrossover BY <1>5, BuildCrossoverStep
<1>6. CASE CreateIoplug BY <1>6, CreateIoplugStep
<1>7. CASE SetLimit BY <1>7, SetLimitStep
<1>8. CASE ReadDirectory \/ Over \/ UNCHANGED vars
  BY <1>8, Stutter DEF ReadDirectory, Over
<1> QED BY <1>1, <1>2, <1>3, <1>4, <1>5, <1>6, <1>7, <1>8 DEF Next

(* The inductive invariant holds: of the loader, that a line read to its    *)
(* end has become its numbers; of the constructor, that the graph so far is *)
(* what it should be.                                                       *)
THEOREM OpenInvCorrect == Spec => []OpenInv
BY OpenStarts, OpenSteps, PTL DEF Spec

(* The filters the plugin convolves with are the data lines of its file, in *)
(* order, each with its numbers in order.                                   *)
THEOREM FiltersAsWrittenCorrect == Spec => []FiltersAsWritten
<1>1. OpenInv => FiltersAsWritten BY DEF OpenInv, FiltersOK
<1> QED BY <1>1, OpenInvCorrect, PTL

(* A graph is finished only for a list of filters that is not empty. *)
LEMMA GraphOrNothing == OpenInv => GraphInv \/ (phase = "root" /\ Filters = {} /\ Of("shift") = {})
<1> SUFFICES ASSUME OpenInv, config.filters = <<>>
             PROVE  phase = "root" /\ Filters = {} /\ Of("shift") = {}
  BY DEF OpenInv, CrossoverOK
<1>1. InitGraph BY DEF OpenInv, CrossoverOK
<1>2. phase = "root" /\ Made = {Job("in", c) : c \in Channels} BY <1>1 DEF InitGraph, Made
<1>3. Of("shift") = {} BY <1>2 DEF Of, Job
<1>4. Filters = {} BY DEF Filters
<1> QED BY <1>2, <1>3, <1>4

(* The artifact of each result task has every block of its filter once. *)
THEOREM EveryBlockOnceCorrect == Spec => []EveryBlockOnce
<1>1. OpenInv => EveryBlockOnce BY GraphOrNothing, BlocksGiven DEF EveryBlockOnce
<1> QED BY <1>1, OpenInvCorrect, PTL

(* The shift of a delay line waits for all that reads the line. *)
THEOREM ShiftAfterLeavesCorrect == Spec => []ShiftAfterLeaves
<1>1. OpenInv => ShiftAfterLeaves BY GraphOrNothing, ShiftsGiven DEF ShiftAfterLeaves
<1> QED BY <1>1, OpenInvCorrect, PTL

(* The loop over sumUpTasks makes fewer sums than there are leaves. *)
THEOREM SummingEndsCorrect == Spec => []SummingEnds
<1>1. OpenInv => SummingEnds BY GraphOrNothing, SumsGiven DEF SummingEnds
<1> QED BY <1>1, OpenInvCorrect, PTL

(* The finished graph is one TaskRunner can run round after round. *)
THEOREM OneRoundGraphCorrect == Spec => []OneRoundGraph
<1>1. OpenInv => OneRoundGraph BY GraphOrNothing, RoundGiven DEF OneRoundGraph
<1> QED BY <1>1, OpenInvCorrect, PTL

(* What Crossover and the use of TaskRunner assume of their graph holds of  *)
(* every graph the constructor makes with all its channels in use.          *)
THEOREM GraphFits == Spec => []Fits
<1>1. OpenInv => Fits BY GraphOrNothing, FitsGiven DEF Fits
<1> QED BY <1>1, OpenInvCorrect, PTL

(* A plugin whose open function reports success has a slave, seven filters  *)
(* on their inputs, and all the parameters of its ioplug.                   *)
THEOREM OpenedCompleteCorrect == Spec => []OpenedComplete
<1>1. OpenInv => OpenedComplete
  <2> SUFFICES ASSUME OpenInv, step = "opened"
               PROVE  /\ \E k \in DOMAIN conf : conf[k].id = "slave" /\ conf[k].pcm = "name"
                      /\ created /\ limits = NumLimits
                      /\ phase = "done"
                      /\ Cardinality(DataLines) = NumFilters
                      /\ \A f \in 1 .. NumFilters :
                            /\ Job("combine", f) \in Made
                            /\ dependencies[Job("combine", f)][1] =
                                 Job("in", IF f <= 3 THEN 0 ELSE IF f <= 6 THEN 1 ELSE 2)
    BY DEF OpenedComplete
  <2> USE DEF OpenInv
  <2>1. /\ created /\ limits = NumLimits /\ phase = "done" /\ conf # <<>>
        /\ \E k \in 1 .. entry - 1 : conf[k].id = "slave" /\ conf[k].pcm = "name"
    BY DEF StepOK
  <2>2. \E k \in DOMAIN conf : conf[k].id = "slave" /\ conf[k].pcm = "name"
    <3>1. conf \in Seq(ToSet(conf))
      BY <2>1, OpenAssumption DEF OpenAssumption, TypeOK
    <3>2. DOMAIN conf = 1 .. Len(conf) /\ Len(conf) \in Nat BY <3>1
    <3>3. 1 .. entry - 1 \subseteq DOMAIN conf BY <3>2 DEF TypeOK
    <3> QED BY <2>1, <3>3
  <2>3. /\ lineNo = Len(Lines) + 1 /\ Len(filters) = NumFilters /\ config = Crossover(filters)
        /\ GraphInv
    BY <2>1 DEF CrossoverOK
  <2>4. Cardinality(DataLines) = NumFilters
    <3>1. \A n \in DataLines : n < lineNo BY <2>3, FileFacts
    <3>2. {n \in DataLines : n < lineNo} = DataLines BY <3>1
    <3> QED BY <2>3, <3>2 DEF FiltersOK
  <2>5. /\ Filters = 1 .. NumFilters
        /\ \A f \in 1 .. NumFilters : ChannelOf(f) = InputOf[f]
    BY <2>3 DEF Crossover, Filters, ChannelOf
  <2>6. ASSUME NEW f \in 1 .. NumFilters
        PROVE  /\ Job("combine", f) \in Made
               /\ dependencies[Job("combine", f)][1] =
                    Job("in", IF f <= 3 THEN 0 ELSE IF f <= 6 THEN 1 ELSE 2)
    <3>1. Job("combine", f) \in Of("combine") /\ Job("combine", f)[2] = f
      BY <2>1, <2>3, <2>5, AllPast DEF GraphInv, NamesOK, Job
    <3>2. dependencies[Job("combine", f)][1] = Job("in", InputOf[f])
      BY <2>3, <2>5, <3>1 DEF GraphInv, DependenciesOK
    <3>3. InputOf[f] = IF f <= 3 THEN 0 ELSE IF f <= 6 THEN 1 ELSE 2
      BY DEF InputOf, NumFilters
    <3> QED BY <3>1, <3>2, <3>3 DEF Of
  <2> QED BY <2>1, <2>2, <2>4, <2>6
<1> QED BY <1>1, OpenInvCorrect, PTL
--------------------------------------------------------------------------------
(* The bins of a spectrum. *)

(* From any start the unrolled loop goes through the numbers one by one, up *)
(* to the first of its steps of eight that is not below size - 1.           *)
LEMMA GroupsInOrder ==
  ASSUME NEW size \in Nat \ {0}, (size - 1) % 8 = 0
  PROVE  Groups(size) = OneByOne(size)
<1> DEFINE D == 0 .. size + 7
           n == size - 1
           End(r) == IF r < n THEN n + ((r - n) % 8) ELSE r
           Value(f, r) == IF r < size - 1 THEN [k \in 1 .. 8 |-> r + k - 1] \o f[r + 8] ELSE <<r>>
           U == CHOOSE f : f = [r \in D |-> Value(f, r)]
           w == [r \in D |-> [k \in 1 .. End(r) - r + 1 |-> r + k - 1]]
<1>1. Groups(size) = U[0] BY DEF Groups
<1>2. \A r \in D : End(r) - r + 1 \in Nat
  <2>1. ASSUME NEW r \in D PROVE End(r) - r + 1 \in Nat
    <3>1. CASE r < n
      <4>1. (r - n) % 8 \in 0 .. 7 BY <3>1
      <4> QED BY <3>1, <4>1
    <3>2. CASE ~(r < n) BY <3>2
    <3> QED BY <3>1, <3>2
  <2> QED BY <2>1
<1>3. ASSUME NEW r \in D PROVE w[r] = Value(w, r)
  <2>1. w[r] = [k \in 1 .. End(r) - r + 1 |-> r + k - 1] OBVIOUS
  <2>2. CASE r < size - 1
    <3>1. r + 8 \in D BY <2>2
    <3>2. w[r + 8] = [k \in 1 .. End(r + 8) - (r + 8) + 1 |-> (r + 8) + k - 1] BY <3>1
    <3>3. End(r + 8) = End(r)
      <4>1. (r - n) % 8 = (r + 8 - n) % 8 BY <2>2
      <4>2. ASSUME ~(r + 8 < n) PROVE (r - n) % 8 = r + 8 - n BY <2>2, <4>2
      <4> QED BY <2>2, <4>1, <4>2
    <3>4. PICK m \in Nat : m = End(r + 8) - (r + 8) + 1 BY <1>2, <3>1
    <3>5. End(r) - r + 1 = m + 8
      <4>1. End(r) \in Int BY <1>2
      <4> HIDE DEF End
      <4> QED BY <3>3, <3>4, <4>1
    <3>6. [k \in 1 .. 8 |-> r + k - 1] \o [k \in 1 .. m |-> (r + 8) + k - 1]
            = [k \in 1 .. m + 8 |-> r + k - 1]
      OBVIOUS
    <3> HIDE DEF w, End
    <3> QED BY <2>1, <2>2, <3>2, <3>4, <3>5, <3>6
  <2>3. CASE ~(r < size - 1)
    <3>1. End(r) - r + 1 = 1 BY <2>3
    <3>2. [k \in 1 .. 1 |-> r + k - 1] = <<r>> OBVIOUS
    <3> HIDE DEF w, End
    <3> QED BY <2>1, <2>3, <3>1, <3>2
  <2> QED BY <2>2, <2>3
<1>4. U = [r \in D |-> Value(U, r)]
  <2> DEFINE g == [r \in D |-> Value(w, r)]
  <2>1. w = g
    <3>1. \A r \in D : g[r] = w[r]
      <4> HIDE DEF w
      <4> QED BY <1>3
    <3> QED BY <3>1
  <2> HIDE DEF w
  <2> QED BY <2>1
<1>5. U[0] = w[0]
  <2> DEFINE T == {d \in Nat : \A r \in D : size + 7 - r <= d => U[r] = w[r]}
  <2> HIDE DEF w, U
  <2>1. \A r \in D : ~(r < size - 1) => U[r] = w[r] BY <1>3, <1>4
  <2>2. 0 \in T BY <2>1
  <2>3. ASSUME NEW d \in Nat, d \in T PROVE d + 1 \in T
    <3>1. SUFFICES ASSUME NEW r \in D, size + 7 - r <= d + 1, r < size - 1 PROVE U[r] = w[r]
      BY <2>1
    <3>2. r + 8 \in D /\ size + 7 - (r + 8) <= d BY <3>1
    <3>3. U[r + 8] = w[r + 8] BY <2>3, <3>2
    <3> QED BY <1>3, <1>4, <3>1, <3>3
  <2>4. Nat \subseteq T
    <3> HIDE DEF T
    <3> QED BY <2>2, <2>3, NaturalsIn
  <2>5. size + 7 \in T /\ 0 \in D BY <2>4
  <2> QED BY <2>5
<1>6. w[0] = OneByOne(size)
  <2>1. End(0) = n
    <3>1. 0 < n => (0 - n) % 8 = 0 OBVIOUS
    <3> QED BY <3>1
  <2>2. w[0] = [k \in 1 .. End(0) - 0 + 1 |-> 0 + k - 1] OBVIOUS
  <2> HIDE DEF w, End
  <2>3. n - 0 + 1 = size OBVIOUS
  <2>4. w[0] = [k \in 1 .. size |-> 0 + k - 1] BY <2>1, <2>2, <2>3
  <2>5. \A k \in 1 .. size : 0 + k - 1 = k - 1 OBVIOUS
  <2> QED BY <2>4, <2>5 DEF OneByOne
<1> QED BY <1>1, <1>5, <1>6

(* Every bin of a spectrum is worked on once, for every block size. *)
THEOREM EveryBinOnceCorrect == Spec => []EveryBinOnce
<1>1. OpenInv => EveryBinOnce
  <2> DEFINE size == (2 * settings.blockSize) \div 2 + 1
  <2> SUFFICES ASSUME OpenInv PROVE Bins(size) = [k \in 1 .. size |-> k - 1]
    BY DEF EveryBinOnce
  <2>1. settings.blockSize \in Nat \ {0} BY DEF OpenInv, TypeOK
  <2>2. size \in Nat \ {0} BY <2>1
  <2> HIDE DEF size
  <2>3. Bins(size) = OneByOne(size) BY <2>2, GroupsInOrder DEF Bins, Unrolled
  <2> QED BY <2>3 DEF OneByOne
<1> QED BY <1>1, OpenInvCorrect, PTL
--------------------------------------------------------------------------------
(* The blocks of a filter. *)

(* The sequences cut the first N * size elements of a function into pieces. *)
Cuts(seqs, N, size, long) ==
  \A n \in 1 .. N : seqs[n] = [k \in 1 .. size |-> long[(n - 1) * size + k]]

(* Put together again, the pieces are what was cut. *)
LEMMA FlattenBlocks ==
  ASSUME NEW N \in Nat \ {0}, NEW size \in Nat \ {0}, NEW long,
         NEW seqs, Len(seqs) = N, Cuts(seqs, N, size, long)
  PROVE  FlattenSeq(seqs) = [k \in 1 .. N * size |-> long[k]]
<1> DEFINE Value(f, n) == IF n = 1 THEN seqs[n] ELSE f[n - 1] \o seqs[n]
           U == CHOOSE f : f = [n \in 1 .. N |-> Value(f, n)]
           w == [n \in 1 .. N |-> [k \in 1 .. n * size |-> long[k]]]
<1>1. \A n \in 1 .. N : seqs[n] = [k \in 1 .. size |-> long[(n - 1) * size + k]]
  BY DEF Cuts
<1>2. FlattenSeq(seqs) = U[N] BY DEF FlattenSeq
<1>3. ASSUME NEW n \in 1 .. N PROVE w[n] = Value(w, n)
  <2>1. w[n] = [k \in 1 .. n * size |-> long[k]] OBVIOUS
  <2>2. CASE n = 1
    <3>1. 1 * size = size /\ \A k \in 1 .. size : (1 - 1) * size + k = k OBVIOUS
    <3>2. seqs[1] = [k \in 1 .. size |-> long[(1 - 1) * size + k]] BY <1>1, <2>2
    <3>3. w[1] = [k \in 1 .. size |-> long[k]] BY <2>1, <2>2, <3>1
    <3> HIDE DEF w
    <3> QED BY <2>2, <3>1, <3>2, <3>3
  <2>3. CASE n # 1
    <3>1. n - 1 \in 1 .. N BY <2>3
    <3>2. PICK a \in Nat : a = (n - 1) * size BY <3>1
    <3>3. n * size = a + size BY <3>2
    <3>4. w[n - 1] = [k \in 1 .. a |-> long[k]] BY <3>1, <3>2
    <3>5. seqs[n] = [k \in 1 .. size |-> long[a + k]] BY <1>1, <3>2
    <3>6. [k \in 1 .. a |-> long[k]] \o [k \in 1 .. size |-> long[a + k]]
            = [k \in 1 .. a + size |-> long[k]]
      OBVIOUS
    <3> HIDE DEF w
    <3> QED BY <2>1, <2>3, <3>3, <3>4, <3>5, <3>6
  <2> QED BY <2>2, <2>3
<1>4. U = [n \in 1 .. N |-> Value(U, n)]
  <2> DEFINE g == [n \in 1 .. N |-> Value(w, n)]
  <2>1. w = g
    <3>1. \A n \in 1 .. N : g[n] = w[n]
      <4> HIDE DEF w
      <4> QED BY <1>3
    <3> QED BY <3>1
  <2> HIDE DEF w
  <2> QED BY <2>1
<1>5. U[N] = w[N]
  <2> DEFINE T == {n \in Nat : n \in 1 .. N => U[n] = w[n]}
  <2> HIDE DEF w, U
  <2>1. 0 \in T OBVIOUS
  <2>2. ASSUME NEW n \in Nat, n \in T PROVE n + 1 \in T
    <3>1. SUFFICES ASSUME n + 1 \in 1 .. N PROVE U[n + 1] = w[n + 1] OBVIOUS
    <3>2. n + 1 # 1 => U[n] = w[n] BY <2>2, <3>1
    <3>3. (n + 1) - 1 = n OBVIOUS
    <3>4. U[n + 1] = Value(U, n + 1) /\ w[n + 1] = Value(w, n + 1) BY <1>3, <1>4, <3>1
    <3>5. CASE n + 1 = 1 BY <3>4, <3>5
    <3>6. CASE n + 1 # 1 BY <3>2, <3>3, <3>4, <3>6
    <3> QED BY <3>5, <3>6
  <2>3. Nat \subseteq T
    <3> HIDE DEF T
    <3> QED BY <2>1, <2>2, NaturalsIn
  <2> QED BY <2>3
<1> QED BY <1>2, <1>5

LEMMA InBlock ==
  ASSUME NEW N \in Nat, NEW size \in Nat, NEW n \in 1 .. N, NEW k \in 1 .. size
  PROVE  (n - 1) * size + k \in 1 .. N * size
<1>1. PICK a \in Nat : a = (n - 1) * size OBVIOUS
<1>2. PICK d \in Nat : d = N - n OBVIOUS
<1>3. N = (n - 1) + 1 + d BY <1>2
<1>4. N * size = a + size + d * size /\ d * size \in Nat BY <1>1, <1>3
<1>5. PICK e \in Nat : e = d * size BY <1>4
<1>6. a + k \in 1 .. a + size + e OBVIOUS
<1> QED BY <1>1, <1>4, <1>5, <1>6

(* ceil: the blocks hold what there is, and less than a block more. *)
LEMMA BlocksSuffice ==
  ASSUME NEW a \in Nat \ {0}, NEW s \in Nat \ {0}
  PROVE  LET N == (a + s - 1) \div s
         IN  N \in Nat \ {0} /\ N * s \in Nat /\ a <= N * s /\ N * s - a < s
<1> DEFINE n == a + s - 1
           N == n \div s
<1>1. N \in Nat \ {0} BY AtLeastOne
<1>2. n \in Nat OBVIOUS
<1>3. s * N <= n /\ n < s * N + s
  <2> HIDE DEF n
  <2> QED BY <1>2
<1> HIDE DEF N
<1>4. s * N = N * s /\ N * s \in Nat BY <1>1
<1>5. a <= N * s /\ N * s - a < s BY <1>3, <1>4
<1> QED BY <1>1, <1>4, <1>5 DEF N

(* Every coefficient is in one place of one block, for every filter and     *)
(* every block size.                                                        *)
THEOREM EveryTapOnceCorrect == Spec => []EveryTapOnce
<1>1. ASSUME OpenInv, NEW f \in DOMAIN filters
      PROVE  LET size   == settings.blockSize
                 blocks == [n \in 1 .. BlocksOf(filters[f]) |-> Segment(filters[f], n - 1)]
                 taps   == FlattenSeq([n \in DOMAIN blocks |-> SubSeq(blocks[n], 1, size)])
             IN  /\ \E zeros \in 0 .. size - 1 : taps = filters[f] \o [k \in 1 .. zeros |-> Zero]
                 /\ \A n \in DOMAIN blocks : \A k \in size + 1 .. 2 * size : blocks[n][k] = Zero
  <2> DEFINE Coeffs == Seq(Nat \X Nat)
             size   == settings.blockSize
             N      == BlocksOf(filters[f])
             blocks == [n \in 1 .. N |-> Segment(filters[f], n - 1)]
             seqs   == [n \in DOMAIN blocks |-> SubSeq(blocks[n], 1, size)]
  <2>1. size \in Nat \ {0} /\ filters \in Seq(Coeffs) /\ filters[f] # <<>>
    BY <1>1 DEF OpenInv, TypeOK
  <2>2. filters[f] \in Coeffs
    <3> HIDE DEF Coeffs
    <3> QED BY <1>1, <2>1
  <2>3. PICK h : h = filters[f] OBVIOUS
  <2>4. h \in Coeffs /\ Len(h) \in Nat \ {0} BY <2>1, <2>2, <2>3
  <2>5. N \in Nat \ {0} /\ N * size \in Nat /\ Len(h) <= N * size /\ N * size - Len(h) < size
    <3>1. N = (Len(h) + size - 1) \div size BY <2>3 DEF BlocksOf
    <3> HIDE DEF N, size
    <3> QED BY <2>1, <2>4, <3>1, BlocksSuffice
  <2> DEFINE long == [k \in 1 .. N * size |-> IF k <= Len(h) THEN h[k] ELSE Zero]
  <2>6. ASSUME NEW n \in 1 .. N, NEW k \in 1 .. 2 * size
        PROVE  blocks[n][k] = IF k <= size /\ (n - 1) * size + k <= Len(h)
                                THEN h[(n - 1) * size + k] ELSE Zero
    BY <2>3 DEF Segment
  <2>7. ASSUME NEW n \in 1 .. N
        PROVE  seqs[n] = [k \in 1 .. size |-> long[(n - 1) * size + k]]
    <3>1. blocks[n] = [k \in 1 .. 2 * size |-> blocks[n][k]] BY DEF Segment
    <3>2. seqs[n] = SubSeq(blocks[n], 1, size) OBVIOUS
    <3>3. seqs[n] = [k \in 1 .. size |-> blocks[n][k]]
      <4> HIDE DEF blocks, seqs, size
      <4>1. size \in Nat /\ 1 .. size \subseteq 1 .. 2 * size BY <2>1
      <4>2. PICK b : b = blocks[n] OBVIOUS
      <4>3. b = [k \in 1 .. 2 * size |-> b[k]] BY <3>1, <4>2
      <4>4. SubSeq(b, 1, size) = [k \in 1 .. size |-> b[k]] BY <4>1, <4>3
      <4> QED BY <3>2, <4>2, <4>4
    <3>4. ASSUME NEW k \in 1 .. size PROVE blocks[n][k] = long[(n - 1) * size + k]
      <4>1. (n - 1) * size + k \in 1 .. N * size
        <5>1. N \in Nat /\ size \in Nat BY <2>1, <2>5
        <5> HIDE DEF N, size
        <5> QED BY <5>1, InBlock
      <4>2. k \in 1 .. 2 * size BY <2>1
      <4>3. blocks[n][k] = IF (n - 1) * size + k <= Len(h) THEN h[(n - 1) * size + k] ELSE Zero
        <5> HIDE DEF blocks
        <5> QED BY <2>1, <2>6, <4>2
      <4>4. long[(n - 1) * size + k]
              = IF (n - 1) * size + k <= Len(h) THEN h[(n - 1) * size + k] ELSE Zero
        BY <4>1
      <4> HIDE DEF blocks, long
      <4> QED BY <4>3, <4>4
    <3> HIDE DEF blocks, seqs, long, size
    <3> QED BY <3>3, <3>4
  <2>8. FlattenSeq(seqs) = [k \in 1 .. N * size |-> long[k]]
    <3>1. Len(seqs) = N
      <4>1. seqs = [n \in 1 .. N |-> seqs[n]] OBVIOUS
      <4> HIDE DEF seqs, N
      <4> QED BY <2>5, <4>1
    <3>2. N \in Nat \ {0} /\ size \in Nat \ {0} BY <2>1, <2>5
    <3> HIDE DEF seqs, N, size, long
    <3>3. Cuts(seqs, N, size, long) BY <2>7 DEF Cuts
    <3> QED BY <3>1, <3>2, <3>3, FlattenBlocks
  <2>9. \E zeros \in 0 .. size - 1 : FlattenSeq(seqs) = h \o [k \in 1 .. zeros |-> Zero]
    <3> DEFINE zeros == N * size - Len(h)
               tail  == [k \in 1 .. zeros |-> Zero]
    <3>1. zeros \in 0 .. size - 1
      <4> HIDE DEF N, size
      <4> QED BY <2>1, <2>4, <2>5
    <3>2. h \o tail = [k \in 1 .. N * size |-> long[k]]
      <4>1. PICK m \in Nat : m = N * size
        <5> HIDE DEF N
        <5> QED BY <2>5
      <4>2. PICK z \in Nat : z = m - Len(h) /\ Len(h) + z = m
        <5> HIDE DEF N, size
        <5> QED BY <2>4, <2>5, <4>1
      <4>3. PICK t : t = [k \in 1 .. z |-> Zero] OBVIOUS
      <4>4. t \in Seq({Zero}) /\ Len(t) = z /\ \A k \in 1 .. z : t[k] = Zero BY <4>3
      <4>5. h \o t = [k \in 1 .. m |-> IF k <= Len(h) THEN h[k] ELSE Zero]
        <5> DEFINE S == Nat \X Nat
                   g == [k \in 1 .. m |-> IF k <= Len(h) THEN h[k] ELSE Zero]
        <5>1. h \in Seq(S) /\ Zero \in S BY <2>4 DEF Zero
        <5>2. t \in Seq(S) BY <4>3, <5>1
        <5> HIDE DEF S
        <5>3. /\ h \o t \in Seq(S) /\ Len(h \o t) = m
              /\ \A k \in 1 .. m : (h \o t)[k] = IF k <= Len(h) THEN h[k] ELSE t[k - Len(h)]
          BY <4>2, <4>4, <5>1, <5>2
        <5>4. \A k \in 1 .. m : g[k] \in S BY <2>4, <5>1
        <5>5. g \in Seq(S) /\ Len(g) = m BY <5>4
        <5>6. \A k \in 1 .. m : ~(k <= Len(h)) => t[k - Len(h)] = Zero BY <2>4, <4>2, <4>4
        <5>7. \A k \in 1 .. m : (h \o t)[k] = g[k] BY <5>3, <5>6
        <5>8. PICK p : p = h \o t OBVIOUS
        <5> HIDE DEF g
        <5>9. p = g BY <5>3, <5>5, <5>7, <5>8, SeqEqual
        <5> QED BY <5>8, <5>9 DEF g
      <4>6. tail = t BY <4>1, <4>2, <4>3
      <4>7. [k \in 1 .. N * size |-> long[k]] = [k \in 1 .. m |-> IF k <= Len(h) THEN h[k] ELSE Zero]
        BY <4>1
      <4> HIDE DEF tail, long
      <4> QED BY <4>5, <4>6, <4>7
    <3> HIDE DEF seqs, long, N, size
    <3> QED BY <2>8, <3>1, <3>2
  <2>10. ASSUME NEW n \in 1 .. N, NEW k \in size + 1 .. 2 * size PROVE blocks[n][k] = Zero
    <3>1. k \in 1 .. 2 * size /\ ~(k <= size) BY <2>1
    <3> HIDE DEF blocks, N, size
    <3> QED BY <2>6, <3>1
  <2>11. \E zeros \in 0 .. size - 1 : FlattenSeq(seqs) = filters[f] \o [k \in 1 .. zeros |-> Zero]
    <3> HIDE DEF seqs, size
    <3> QED BY <2>3, <2>9
  <2>12. \A n \in DOMAIN blocks : \A k \in size + 1 .. 2 * size : blocks[n][k] = Zero
    <3>1. DOMAIN blocks = 1 .. N OBVIOUS
    <3> HIDE DEF blocks, N, size
    <3> QED BY <2>10, <3>1
  <2> QED BY <2>11, <2>12, Zenon
<1>2. OpenInv => EveryTapOnce BY <1>1 DEF EveryTapOnce
<1> QED BY <1>2, OpenInvCorrect, PTL
================================================================================
