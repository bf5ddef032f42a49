-------------------------- MODULE GlobalShapes_proofs --------------------------
(***************************************************************************)
(* Proofs about GlobalShapes for every program, every set of recovered     *)
(* globals and every width: the observations in the records are true of    *)
(* the processor, evidence from calls only adds, and every visit makes     *)
(* progress.                                                               *)
(*                                                                         *)
(* The link between the analysis and the processor is the certificate: the *)
(* fact states of a finished tracking, closed under the edges between the  *)
(* blocks. Whoever enters a function with what a certificate assumes has   *)
(* at every instruction what it claims.                                    *)
(***************************************************************************)
EXTENDS GlobalShapes, FiniteSetTheorems, WellFoundedInduction, TLAPS

-----------------------------------------------------------------------------
(* Numbers and finite sets.                                                *)

\* Every nonempty set of natural numbers has a least one.
LEMMA LeastNat ==
    ASSUME NEW T, T \subseteq Nat, T # {}
    PROVE  \E n \in T : \A m2 \in T : n <= m2
  <1>1. PICK n \in T : \A m2 \in T : ~(<<m2, n>> \in OpToRel(<, Nat))
    BY NatLessThanWellFounded, WFMin
  <1>2. ASSUME NEW m2 \in T PROVE n <= m2
    <2>1. <<m2, n>> \in Nat \X Nat OBVIOUS
    <2>2. ~(m2 < n) BY <1>1, <2>1 DEF OpToRel
    <2> QED BY <2>2
  <1> QED BY <1>1, <1>2

\* A bounded one has a greatest.
LEMMA GreatestNat ==
    ASSUME NEW T, T # {}, NEW bound \in Nat, T \subseteq 0 .. bound
    PROVE  \E n \in T : \A m2 \in T : m2 <= n
  <1> DEFINE U == {bound - n : n \in T}
  <1>1. U \subseteq Nat /\ U # {}
    <2>1. ASSUME NEW n \in T PROVE bound - n \in Nat
      <3>1. n \in 0 .. bound OBVIOUS
      <3> QED BY <3>1
    <2> QED BY <2>1
  <1> HIDE DEF U
  <1>2. PICK u \in U : \A v \in U : u <= v BY <1>1, LeastNat
  <1>3. PICK n \in T : u = bound - n BY <1>2 DEF U
  <1>4. ASSUME NEW m2 \in T PROVE m2 <= n
    <2>1. bound - m2 \in U BY DEF U
    <2>2. n \in Nat /\ m2 \in Nat OBVIOUS
    <2>3. bound - n <= bound - m2 BY <1>2, <1>3, <2>1
    <2> QED BY <2>2, <2>3
  <1> QED BY <1>4

LEMMA MinOf ==
    ASSUME NEW T, T \subseteq Nat, T # {}
    PROVE  Min(T) \in T /\ \A n \in T : Min(T) <= n
  BY LeastNat DEF Min

LEMMA MaxOf ==
    ASSUME NEW T, T # {}, NEW bound \in Nat, T \subseteq 0 .. bound
    PROVE  Max(T) \in T /\ \A n \in T : n <= Max(T)
  BY GreatestNat DEF Max

\* Additions that stay in range do not wrap, and the others stay in range.
LEMMA SumOf ==
    ASSUME NEW v \in Int, NEW n \in Int
    PROVE  /\ v < 0 => Sum(v, n) = v
           /\ v >= 0 => Sum(v, n) \in 0 .. Top
           /\ v >= 0 /\ v + n \in 0 .. Top => Sum(v, n) = v + n
  <1>1. Top \in Nat /\ Top + 1 > 0 BY RecoveredAssumption
  <1>2. ASSUME NEW a \in Int PROVE a % (Top + 1) \in 0 .. Top BY <1>1
  <1>3. ASSUME NEW a \in 0 .. Top PROVE a % (Top + 1) = a BY <1>1
  <1> QED BY <1>1, <1>2, <1>3 DEF Sum

-----------------------------------------------------------------------------
(* The program and its decoding.                                           *)

Size == Len(prog.code)

LEMMA ProgramFacts ==
    ASSUME prog \in Programs
    PROVE  /\ Size \in Nat /\ \A p \in 1 .. Size : InsnOK(Insn(p))
           /\ Functions \subseteq Nat \ {0}
           /\ \A f \in Functions : FunctionOK(Function(f), Size)
  BY ProgramAssumption DEF Size, Insn, Functions, Function

LEMMA DecodedFacts ==
    ASSUME prog \in Programs, NEW f \in Functions
    PROVE  /\ Decoded(f) \subseteq 1 .. Size
           /\ \A p \in Decoded(f) : Insn(p).op # "bad" /\ InsnOK(Insn(p))
           /\ \A p \in Decoded(f) :
                Fallthrough(f, p) = {p + 1} \cap Decoded(f)
           /\ \A p \in Decoded(f) : Successors(f, p) \subseteq Decoded(f)
  <1>1. FunctionOK(Function(f), Size) /\ Size \in Nat
    BY ProgramFacts
  <1>2. ASSUME NEW r \in Function(f).ranges
        PROVE  /\ r[1] \in 1 .. Size /\ r[2] \in 1 .. Size
               /\ Prefix(r) \subseteq r[1] .. r[2]
               /\ \A p \in Prefix(r) : p \in 1 .. Size /\ Insn(p).op # "bad"
    <2>1. r[1] \in 1 .. Size /\ r[2] \in 1 .. Size BY <1>1 DEF FunctionOK
    <2>2. Prefix(r) \subseteq r[1] .. r[2] BY DEF Prefix
    <2>3. ASSUME NEW p \in Prefix(r)
          PROVE  p \in 1 .. Size /\ Insn(p).op # "bad"
      <3>1. p \in r[1] .. r[2] BY <2>2
      <3>2. p \in r[1] .. p BY <2>1, <3>1
      <3>3. Insn(p).op # "bad" BY <3>2 DEF Prefix
      <3> QED BY <1>1, <2>1, <3>1, <3>3
    <2> QED BY <2>1, <2>2, <2>3
  <1>3. Decoded(f) \subseteq 1 .. Size BY <1>2 DEF Decoded
  <1>4. \A p \in Decoded(f) : Insn(p).op # "bad" BY <1>2 DEF Decoded
  <1>5. \A p \in Decoded(f) : InsnOK(Insn(p)) BY <1>3, ProgramFacts
  <1>6. ASSUME NEW p \in Decoded(f)
        PROVE  Fallthrough(f, p) = {p + 1} \cap Decoded(f)
    <2>1. Fallthrough(f, p) \subseteq {p + 1} \cap Decoded(f)
      BY DEF Fallthrough, Decoded
    <2>2. ASSUME p + 1 \in Decoded(f) PROVE p + 1 \in Fallthrough(f, p)
      <3>1. PICK r \in Function(f).ranges : p \in Prefix(r) BY DEF Decoded
      <3>2. PICK q \in Function(f).ranges : p + 1 \in Prefix(q)
        BY <2>2 DEF Decoded
      <3>3. /\ p \in r[1] .. r[2] /\ p + 1 \in q[1] .. q[2]
            /\ r[1] \in Nat /\ r[2] \in Nat /\ q[1] \in Nat /\ q[2] \in Nat
        BY <1>1, <1>2, <3>1, <3>2
      <3>4. r = q \/ r[2] + 1 < q[1] \/ q[2] + 1 < r[1]
        BY <1>1 DEF FunctionOK
      <3>5. p \in Nat BY <1>1, <1>3
      <3>6. r = q BY <3>3, <3>4, <3>5
      <3> QED BY <3>1, <3>2, <3>6 DEF Fallthrough
    <2> QED BY <2>1, <2>2
  <1>7. \A p \in Decoded(f) : Successors(f, p) \subseteq Decoded(f)
    BY <1>6 DEF Successors
  <1> QED BY <1>3, <1>4, <1>5, <1>6, <1>7

\* The walk from the entry has come to its end.
LEMMA ReachableFacts ==
    ASSUME prog \in Programs, NEW f \in Functions
    PROVE  /\ Reachable(f) \subseteq Decoded(f)
           /\ Function(f).entry \in Decoded(f) => Function(f).entry \in Reachable(f)
           /\ \A p \in Reachable(f) : Successors(f, p) \subseteq Reachable(f)
  <1> DEFINE D == Decoded(f)
             E == {Function(f).entry} \cap D
             N == Cardinality(D)
             Next1(S) == S \cup UNION {Successors(f, p) : p \in S}
             Step1(w, n) == IF n = 0 THEN E ELSE Next1(w[n - 1])
             Def(w, k) == w = [n \in 0 .. k |-> Step1(w, n)]
             Bad == {k \in Nat : \A w : ~Def(w, k)}
  <1>1. Bad = {}
    <2> SUFFICES ASSUME Bad # {} PROVE FALSE OBVIOUS
    <2>1. Bad \subseteq Nat OBVIOUS
    <2>2. PICK k \in Bad : \A n \in Bad : k <= n
      <3> HIDE DEF Bad
      <3> QED BY <2>1, LeastNat
    <2>3. k # 0
      <3>1. Def([n \in 0 .. 0 |-> E], 0) OBVIOUS
      <3> QED BY <3>1
    <2>4. k \in Nat /\ k - 1 \in Nat BY <2>3
    <2>5. k - 1 \notin Bad
      <3> HIDE DEF Bad
      <3> QED BY <2>2, <2>4
    <2>6. PICK w : Def(w, k - 1)
      <3> HIDE DEF Def
      <3> QED BY <2>4, <2>5
    <2> HIDE DEF E, Next1
    <2> DEFINE v == [n \in 0 .. k |-> IF n = k THEN Next1(w[k - 1]) ELSE w[n]]
    <2>7. ASSUME NEW n \in 0 .. k PROVE v[n] = Step1(v, n)
      <3>1. CASE n = k BY <2>3, <2>4, <3>1
      <3>2. CASE n # k
        <4>1. n \in 0 .. (k - 1) BY <2>4, <3>2
        <4>2. w[n] = Step1(w, n) BY <2>6, <4>1
        <4>3. n # 0 => n - 1 \in 0 .. k /\ n - 1 # k BY <2>4, <4>1
        <4> QED BY <3>2, <4>2, <4>3
      <3> QED BY <3>1, <3>2
    <2>8. Def(v, k)
      <3>1. v = [n \in 0 .. k |-> v[n]] OBVIOUS
      <3> HIDE DEF v, Step1
      <3> QED BY <2>7, <3>1
    <2> QED BY <2>8
  <1>2. IsFiniteSet(D) /\ N \in Nat
    <2>1. D \subseteq 1 .. Size /\ Size \in Nat BY DecodedFacts, ProgramFacts
    <2>2. IsFiniteSet(1 .. Size) BY <2>1, FS_Interval
    <2> HIDE DEF D
    <2>3. IsFiniteSet(D) BY <2>1, <2>2, FS_Subset
    <2> QED BY <2>3, FS_CardinalityType
  <1>3. PICK w : Def(w, N) /\ Reachable(f) = w[N]
    <2>1. \E w : Def(w, N)
      <3> HIDE DEF Def
      <3> QED BY <1>1, <1>2
    <2> QED BY <2>1, Zenon DEF Reachable
  <1>4. /\ w[0] = E
        /\ \A n \in 1 .. N : w[n] = Next1(w[n - 1])
    <2>1. w[0] = E BY <1>2, <1>3
    <2>2. ASSUME NEW n \in 1 .. N PROVE w[n] = Next1(w[n - 1])
      <3>1. n \in 0 .. N /\ n # 0 BY <1>2
      <3> HIDE DEF E, Next1
      <3> QED BY <1>3, <3>1
    <2> QED BY <2>1, <2>2
  <1>5. \A p \in D : Successors(f, p) \subseteq D BY DecodedFacts
  <1> DEFINE Closed(S) == \A p \in S : Successors(f, p) \subseteq S
  <1> HIDE DEF D, E, N, Bad
  <1>6. \A S : Closed(S) => Next1(S) = S OBVIOUS
  <1>7. \A S \in SUBSET D : Next1(S) \in SUBSET D /\ S \subseteq Next1(S)
    BY <1>5
  <1>8. E \in SUBSET D BY DEF E
  \* The sets grow until one is closed; n steps find at least n addresses.
  <1> DEFINE Good(n) == /\ w[n] \in SUBSET D /\ E \subseteq w[n]
                        /\ Closed(w[n]) \/ Cardinality(w[n]) >= n
             Off == {n \in 0 .. N : ~Good(n)}
  <1>9. Off = {}
    <2> SUFFICES ASSUME Off # {} PROVE FALSE OBVIOUS
    <2>1. Off \subseteq Nat BY <1>2
    <2>2. PICK n \in Off : \A k \in Off : n <= k
      <3> HIDE DEF Off
      <3> QED BY <2>1, LeastNat
    <2>3. n \in 0 .. N /\ ~Good(n) OBVIOUS
    <2>4. n # 0
      <3> SUFFICES ASSUME n = 0 PROVE Good(0) BY <2>3
      <3>1. IsFiniteSet(E) BY <1>2, <1>8, FS_Subset
      <3>2. Cardinality(E) \in Nat BY <3>1, FS_CardinalityType
      <3>3. Cardinality(E) >= 0 BY <3>2
      <3> HIDE DEF Closed
      <3> QED BY <1>4, <1>8, <3>3
    <2> DEFINE k == n - 1
    <2>5. k \in 0 .. N /\ k < n /\ n \in 1 .. N BY <1>2, <2>3, <2>4
    <2>6. Good(k)
      <3>1. k \notin Off
        <4> HIDE DEF Off
        <4> QED BY <1>2, <2>1, <2>2, <2>5
      <3> QED BY <2>5, <3>1
    <2> HIDE DEF Off
    <2> DEFINE S == w[k]
               T == Next1(S)
    <2>7. w[n] = T BY <1>4, <2>5
    <2>8. S \in SUBSET D /\ E \subseteq S /\ T \in SUBSET D /\ S \subseteq T
      BY <1>7, <2>6
    <2>9. CASE Closed(S)
      <3>1. T = S BY <1>6, <2>9
      <3> HIDE DEF T, S, Closed
      <3> QED BY <2>3, <2>7, <2>8, <2>9, <3>1
    <2>10. CASE ~Closed(S)
      <3>1. T # S BY <2>10
      <3>2. Cardinality(S) >= k BY <2>6, <2>10
      <3> HIDE DEF T, S, Closed
      <3>3. IsFiniteSet(T) BY <1>2, <2>8, FS_Subset
      <3>4. /\ Cardinality(S) <= Cardinality(T)
            /\ Cardinality(S) = Cardinality(T) => S = T
            /\ IsFiniteSet(S)
        BY <2>8, <3>3, FS_Subset
      <3>5. Cardinality(S) \in Nat /\ Cardinality(T) \in Nat
        BY <3>3, <3>4, FS_CardinalityType
      <3>6. Cardinality(T) >= n
        <4> DEFINE a == Cardinality(S)
                   b == Cardinality(T)
        <4>1. a \in Nat /\ b \in Nat /\ a <= b /\ a # b /\ a >= k
          BY <3>1, <3>2, <3>4, <3>5
        <4>2. n \in Nat /\ k = n - 1 BY <1>2, <2>5
        <4> HIDE DEF a, b, k
        <4>3. b >= n BY <4>1, <4>2
        <4> QED BY <4>3 DEF b
      <3> QED BY <2>3, <2>7, <2>8, <3>6
    <2> QED BY <2>9, <2>10
  <1>10. Good(N)
    <2>1. N \in 0 .. N BY <1>2
    <2> QED BY <1>9, <2>1
  <1>11. Closed(w[N])
    <2> SUFFICES ASSUME Cardinality(w[N]) >= N PROVE Closed(w[N]) BY <1>10
    <2> DEFINE S == w[N]
    <2>1. S \in SUBSET D BY <1>10
    <2> HIDE DEF S
    <2>2. /\ Cardinality(S) <= Cardinality(D)
          /\ Cardinality(S) = Cardinality(D) => S = D
          /\ IsFiniteSet(S)
      BY <1>2, <2>1, FS_Subset
    <2>3. Cardinality(S) \in Nat BY <2>2, FS_CardinalityType
    <2>4. Cardinality(S) >= N BY DEF S
    <2>5. S = D BY <1>2, <2>2, <2>3, <2>4 DEF N
    <2> QED BY <1>5, <2>5 DEF S
  <1> QED BY <1>3, <1>10, <1>11 DEF D, E

-----------------------------------------------------------------------------
(* The two recursive functions of the model.                               *)

\* The facts after an instruction are those after the one before, applied.
LEMMA ThroughFacts ==
    ASSUME NEW s, NEW first \in Nat \ {0}
    PROVE  /\ Through(s, first, first - 1) = s
           /\ \A last \in Nat : first <= last =>
                Through(s, first, last) = Apply(Through(s, first, last - 1), last)
  <1> DEFINE Step1(w, k) == IF k < first THEN s ELSE Apply(w[k - 1], k)
             Def(w, l) == w = [k \in (first - 1) .. l |-> Step1(w, k)]
             Bad == {l \in Nat : l >= first - 1 /\ \A w : ~Def(w, l)}
  <1>1. Bad = {}
    <2> SUFFICES ASSUME Bad # {} PROVE FALSE OBVIOUS
    <2>1. Bad \subseteq Nat OBVIOUS
    <2>2. PICK l \in Bad : \A n \in Bad : l <= n
      <3> HIDE DEF Bad
      <3> QED BY <2>1, LeastNat
    <2>3. l # first - 1
      <3>1. Def([k \in (first - 1) .. (first - 1) |-> s], first - 1) OBVIOUS
      <3> QED BY <3>1
    <2>4. l \in Nat /\ l - 1 \in Nat /\ l - 1 >= first - 1 /\ l >= first BY <2>3
    <2>5. l - 1 \notin Bad
      <3> HIDE DEF Bad
      <3> QED BY <2>2, <2>4
    <2>6. PICK w : Def(w, l - 1)
      <3> HIDE DEF Def
      <3> QED BY <2>4, <2>5
    <2> DEFINE v == [k \in (first - 1) .. l |-> IF k = l THEN Apply(w[l - 1], l) ELSE w[k]]
    <2>7. ASSUME NEW k \in (first - 1) .. l PROVE v[k] = Step1(v, k)
      <3>1. CASE k = l BY <2>4, <3>1
      <3>2. CASE k # l
        <4>1. k \in (first - 1) .. (l - 1) BY <2>4, <3>2
        <4>2. w[k] = Step1(w, k) BY <2>6, <4>1
        <4>3. ~(k < first) => k - 1 \in (first - 1) .. l /\ k - 1 # l BY <2>4, <4>1
        <4> QED BY <3>2, <4>2, <4>3
      <3> QED BY <3>1, <3>2
    <2>8. Def(v, l)
      <3>1. v = [k \in (first - 1) .. l |-> v[k]] OBVIOUS
      <3> HIDE DEF v, Step1
      <3> QED BY <2>7, <3>1
    <2> QED BY <2>8
  <1>2. ASSUME NEW l \in Nat, l >= first - 1
        PROVE  \E w : Def(w, l) /\ Through(s, first, l) = w[l]
    <2>1. \E w : Def(w, l)
      <3> HIDE DEF Def
      <3> QED BY <1>1, <1>2
    <2> QED BY <2>1, Zenon DEF Through
  <1>3. ASSUME NEW k \in Nat, NEW l \in Nat, NEW w, Def(w, k), NEW v, Def(v, l),
               NEW i \in Nat, i >= first - 1, i <= k, i <= l
        PROVE  w[i] = v[i]
    <2> DEFINE Off == {n \in Nat : n >= first - 1 /\ n <= k /\ n <= l /\ w[n] # v[n]}
    <2> SUFFICES ASSUME Off # {} PROVE FALSE BY <1>3
    <2>1. Off \subseteq Nat OBVIOUS
    <2>2. PICK n \in Off : \A o \in Off : n <= o
      <3> HIDE DEF Off
      <3> QED BY <2>1, LeastNat
    <2>3. n \in (first - 1) .. k /\ n \in (first - 1) .. l OBVIOUS
    <2>4. w[n] = Step1(w, n) /\ v[n] = Step1(v, n) BY <1>3, <2>3
    <2>5. n >= first BY <2>3, <2>4
    <2>6. n - 1 \in Nat /\ n - 1 < n BY <2>5
    <2>7. n - 1 \notin Off
      <3> HIDE DEF Off
      <3> QED BY <2>1, <2>2, <2>6
    <2>8. w[n - 1] = v[n - 1] BY <2>3, <2>5, <2>6, <2>7
    <2> QED BY <2>4, <2>8
  <1>4. Through(s, first, first - 1) = s
    <2>1. first - 1 \in Nat /\ first - 1 >= first - 1 OBVIOUS
    <2>2. PICK w : Def(w, first - 1) /\ Through(s, first, first - 1) = w[first - 1]
      <3> HIDE DEF Def
      <3> QED BY <1>2, <2>1
    <2>3. first - 1 \in (first - 1) .. (first - 1) BY <2>1
    <2>4. w[first - 1] = Step1(w, first - 1) BY <2>2, <2>3
    <2> QED BY <2>2, <2>4
  <1>5. ASSUME NEW l \in Nat, first <= l
        PROVE  Through(s, first, l) = Apply(Through(s, first, l - 1), l)
    <2>1. l - 1 \in Nat /\ l - 1 >= first - 1 /\ l >= first - 1 BY <1>5
    <2>2. PICK w : Def(w, l) /\ Through(s, first, l) = w[l]
      <3> HIDE DEF Def
      <3> QED BY <1>2, <2>1
    <2>3. PICK v : Def(v, l - 1) /\ Through(s, first, l - 1) = v[l - 1]
      <3> HIDE DEF Def
      <3> QED BY <1>2, <2>1
    <2>4. w[l] = Step1(w, l) BY <2>1, <2>2
    <2>5. l - 1 <= l /\ l - 1 <= l - 1 OBVIOUS
    <2>6. w[l - 1] = v[l - 1]
      <3> HIDE DEF Def
      <3> QED BY <1>3, <2>1, <2>2, <2>3, <2>5
    <2> QED BY <1>5, <2>2, <2>3, <2>4, <2>6
  <1> QED BY <1>4, <1>5

\* A merged path is the left one and, after it, addresses of the right one that
\* differ from everything before them.
Grows(left, path) ==
    /\ path \in Seq(Int) /\ Len(left) <= Len(path)
    /\ \A k \in 1 .. Len(left) : path[k] = left[k]
    /\ \A k \in Len(left) + 1 .. Len(path) : \A l \in 1 .. k - 1 : path[k] # path[l]

LEMMA MergeGrows ==
    ASSUME NEW left \in Seq(Int), NEW right \in Seq(Int)
    PROVE  Grows(left, Merge(left, right))
  <1> DEFINE N == Len(right)
             Add1(q, x) == IF \E l \in DOMAIN q : q[l] = x THEN q ELSE Append(q, x)
             Step1(w, k) == IF k = 0 THEN left ELSE Add1(w[k - 1], right[k])
             Def(w, l) == w = [k \in 0 .. l |-> Step1(w, k)]
             Bad == {l \in Nat : \A w : ~Def(w, l)}
  <1>0. N \in Nat /\ \A k \in 1 .. N : right[k] \in Int OBVIOUS
  <1>1. Bad = {}
    <2> SUFFICES ASSUME Bad # {} PROVE FALSE OBVIOUS
    <2>1. Bad \subseteq Nat OBVIOUS
    <2>2. PICK l \in Bad : \A n \in Bad : l <= n
      <3> HIDE DEF Bad
      <3> QED BY <2>1, LeastNat
    <2>3. l # 0
      <3>1. Def([k \in 0 .. 0 |-> left], 0) OBVIOUS
      <3> QED BY <3>1
    <2>4. l \in Nat /\ l - 1 \in Nat /\ l - 1 < l BY <2>3
    <2>5. l - 1 \notin Bad
      <3> HIDE DEF Bad
      <3> QED BY <2>1, <2>2, <2>4
    <2>6. PICK w : Def(w, l - 1)
      <3> HIDE DEF Def
      <3> QED BY <2>4, <2>5
    <2> HIDE DEF Add1
    <2> DEFINE v == [k \in 0 .. l |-> IF k = l THEN Add1(w[l - 1], right[l]) ELSE w[k]]
    <2>7. ASSUME NEW k \in 0 .. l PROVE v[k] = Step1(v, k)
      <3>1. CASE k = l BY <2>3, <2>4, <3>1
      <3>2. CASE k # l
        <4>1. k \in 0 .. (l - 1) BY <2>4, <3>2
        <4>2. w[k] = Step1(w, k) BY <2>6, <4>1
        <4>3. k # 0 => k - 1 \in 0 .. l /\ k - 1 # l BY <2>4, <4>1
        <4> QED BY <3>2, <4>2, <4>3
      <3> QED BY <3>1, <3>2
    <2>8. Def(v, l)
      <3>1. v = [k \in 0 .. l |-> v[k]] OBVIOUS
      <3> HIDE DEF v, Step1
      <3> QED BY <2>7, <3>1
    <2> QED BY <2>8
  <1>2. \E w : Def(w, N)
    <2> HIDE DEF Def
    <2> QED BY <1>0, <1>1
  <1>3. PICK w : Def(w, N) /\ Merge(left, right) = w[N]
    BY <1>2, Zenon DEF Merge
  <1> DEFINE Off == {k \in 0 .. N : ~Grows(left, w[k])}
  <1>4. Off = {}
    <2> SUFFICES ASSUME Off # {} PROVE FALSE OBVIOUS
    <2>1. Off \subseteq Nat BY <1>0
    <2>2. PICK l \in Off : \A n \in Off : l <= n
      <3> HIDE DEF Off
      <3> QED BY <2>1, LeastNat
    <2>3. l \in 0 .. N /\ ~Grows(left, w[l]) OBVIOUS
    <2>4. w[l] = Step1(w, l)
      <3> HIDE DEF Step1
      <3> QED BY <1>3, <2>3
    <2>5. l # 0
      <3>1. Grows(left, left) BY DEF Grows
      <3> QED BY <2>3, <2>4, <3>1
    <2>6. l \in 1 .. N /\ l - 1 \in 0 .. N /\ l - 1 < l BY <1>0, <2>3, <2>5
    <2>7. l - 1 \notin Off
      <3> HIDE DEF Off
      <3> QED BY <1>0, <2>1, <2>2, <2>6
    <2> DEFINE a == w[l - 1]
               x == right[l]
    <2>8. w[l] = Add1(a, x) BY <2>4, <2>5
    <2>9. Grows(left, a) BY <2>6, <2>7
    <2>10. a \in Seq(Int) /\ x \in Int
      <3>1. x \in Int BY <1>0, <2>6
      <3>2. a \in Seq(Int)
        <4> HIDE DEF a
        <4> QED BY <2>9 DEF Grows
      <3> QED BY <3>1, <3>2
    <2> HIDE DEF a, x, Off
    <2>11. CASE \E i \in DOMAIN a : a[i] = x BY <2>3, <2>8, <2>9, <2>11
    <2>12. CASE ~ \E i \in DOMAIN a : a[i] = x
      <3> DEFINE b == Append(a, x)
      <3>1. /\ b \in Seq(Int) /\ Len(b) = Len(a) + 1 /\ Len(a) \in Nat
            /\ \A k \in 1 .. Len(a) : b[k] = a[k] /\ b[k] # x
            /\ b[Len(a) + 1] = x
        BY <2>10, <2>12
      <3>2. w[l] = b BY <2>8, <2>12
      <3> HIDE DEF b
      <3>3. Len(left) \in Nat OBVIOUS
      <3>4. Len(left) <= Len(b) /\ \A k \in 1 .. Len(left) : b[k] = left[k]
        BY <2>9, <3>1, <3>3 DEF Grows
      <3>5. ASSUME NEW k \in Len(left) + 1 .. Len(b), NEW i \in 1 .. k - 1
            PROVE  b[k] # b[i]
        <4> DEFINE La == Len(a)
                   Ll == Len(left)
        <4>0. La \in Nat /\ Ll \in Nat /\ k \in Ll + 1 .. La + 1 BY <3>1, <3>3
        <4>1. i \in 1 .. La BY <4>0
        <4>2. CASE k = La + 1 BY <3>1, <4>1, <4>2
        <4>3. CASE k # La + 1
          <5>1. k \in Ll + 1 .. La /\ k \in 1 .. La
            <6> HIDE DEF La, Ll
            <6> QED BY <4>0, <4>3
          <5>2. a[k] # a[i] BY <2>9, <5>1 DEF Grows
          <5> QED BY <3>1, <4>1, <5>1, <5>2
        <4> QED BY <4>2, <4>3
      <3>6. Grows(left, b) BY <3>1, <3>4, <3>5 DEF Grows
      <3> QED BY <2>3, <3>2, <3>6
    <2> QED BY <2>11, <2>12
  <1>5. N \in 0 .. N BY <1>0
  <1>6. Grows(left, w[N]) BY <1>4, <1>5
  <1> QED BY <1>3, <1>6

-----------------------------------------------------------------------------
(* Facts, and the registers they hold of.                                  *)

Facts == [base : Recovered \cup {Exact}, disp : Int, path : Seq(Int)]
FactOK(fact) == fact \in Facts /\ Numeric(fact) \in 0 .. Top
StateOK(s) == DOMAIN s \subseteq Regs /\ \A r \in DOMAIN s : FactOK(s[r])

Registers == [Regs -> {Unknown, Returned} \cup 0 .. Top]
Holds(s, regs) == \A r \in DOMAIN s : regs[r] \in {Numeric(s[r]), Returned}

LEMMA AnchorOK ==
    ASSUME NEW fact \in Facts
    PROVE  Anchor(fact) \in Facts /\ Numeric(Anchor(fact)) = Numeric(fact)
  <1>1. Recovered \subseteq Int BY RecoveredAssumption
  <1>2. CASE fact.base = Exact /\ fact.disp \in Recovered
    <2> DEFINE x == [fact EXCEPT !.base = fact.disp, !.disp = 0]
    <2>1. Anchor(fact) = x BY <1>2 DEF Anchor
    <2>2. x.base = fact.disp /\ x.disp = 0 /\ x \in Facts
      <3>0. fact = [base |-> fact.base, disp |-> fact.disp, path |-> fact.path]
        BY DEF Facts
      <3> DEFINE y == [fact EXCEPT !.base = fact.disp]
      <3>a. y = [base |-> fact.disp, disp |-> fact.disp, path |-> fact.path]
        BY <3>0
      <3>b. x = [y EXCEPT !.disp = 0] BY Zenon
      <3> HIDE DEF x, y
      <3>1. x = [base |-> fact.disp, disp |-> 0, path |-> fact.path]
        BY <3>a, <3>b
      <3>2. fact.path \in Seq(Int) BY DEF Facts
      <3> HIDE DEF x
      <3> QED BY <1>2, <3>1, <3>2 DEF Facts
    <2>3. fact.disp \in Int BY DEF Facts
    <2> HIDE DEF x
    <2> QED BY <1>2, <2>1, <2>2, <2>3 DEF Numeric, Exact
  <1>3. CASE ~(fact.base = Exact /\ fact.disp \in Recovered)
    BY <1>3 DEF Anchor
  <1> QED BY <1>2, <1>3

LEMMA DisplacedOK ==
    ASSUME NEW s, StateOK(s), NEW r, NEW by \in Int
    PROVE  /\ \A x \in Displaced(s, r, by) :
                r \in DOMAIN s /\ FactOK(x) /\ Numeric(x) = Numeric(s[r]) + by
           /\ \A x, y \in Displaced(s, r, by) : x = y
  <1>1. \A x, y \in Displaced(s, r, by) : x = y BY DEF Displaced
  <1>2. ASSUME NEW x \in Displaced(s, r, by)
        PROVE  r \in DOMAIN s /\ FactOK(x) /\ Numeric(x) = Numeric(s[r]) + by
    <2> DEFINE y == [s[r] EXCEPT !.disp = @ + by]
    <2>1. r \in DOMAIN s /\ Numeric(s[r]) + by \in 0 .. Top /\ x = Anchor(y)
      BY DEF Displaced
    <2>2. s[r] \in Facts BY <2>1 DEF StateOK, FactOK
    <2>3. y \in Facts /\ y.base = s[r].base /\ y.disp = s[r].disp + by
      BY <2>2 DEF Facts
    <2>4. s[r].base \in Int /\ s[r].disp \in Int
      <3>1. Recovered \cup {Exact} \subseteq Int BY RecoveredAssumption DEF Exact
      <3> QED BY <2>2, <3>1 DEF Facts
    <2> HIDE DEF y
    <2>5. Numeric(y) = Numeric(s[r]) + by BY <2>3, <2>4 DEF Numeric
    <2>6. x \in Facts /\ Numeric(x) = Numeric(y) BY <2>1, <2>3, AnchorOK
    <2> QED BY <2>1, <2>5, <2>6 DEF FactOK
  <1> QED BY <1>1, <1>2

\* What is computed from a register is what a displacement of its fact says.
LEMMA DisplacedHolds ==
    ASSUME NEW s, StateOK(s), NEW regs \in Registers, Holds(s, regs),
           NEW r, NEW by \in Int, NEW x \in Displaced(s, r, by)
    PROVE  Sum(regs[r], by) \in {Numeric(x), Returned}
  <1>1. r \in DOMAIN s /\ FactOK(x) /\ Numeric(x) = Numeric(s[r]) + by
    BY DisplacedOK
  <1>2. r \in Regs /\ regs[r] \in Int /\ regs[r] \in {Numeric(s[r]), Returned}
    BY <1>1, RecoveredAssumption DEF StateOK, Registers, Holds, Unknown, Returned
  <1>3. Numeric(s[r]) \in 0 .. Top /\ Numeric(x) \in 0 .. Top
    BY <1>1 DEF StateOK, FactOK
  <1>4. CASE regs[r] = Returned
    <2>1. regs[r] < 0 BY <1>4 DEF Returned
    <2> QED BY <1>2, <1>4, <2>1, SumOf
  <1>5. CASE regs[r] = Numeric(s[r])
    <2> DEFINE v == regs[r]
    <2>1. v \in Int /\ v >= 0 /\ v + by \in 0 .. Top BY <1>1, <1>3, <1>5
    <2>2. Sum(v, by) = v + by
      <3> HIDE DEF v
      <3> QED BY <2>1, SumOf
    <2> QED BY <1>1, <1>5, <2>2
  <1> QED BY <1>2, <1>4, <1>5

LEMMA KillHolds ==
    ASSUME NEW s, StateOK(s), NEW r
    PROVE  /\ StateOK(Kill(s, r))
           /\ \A regs, v : Holds(s, regs) =>
                Holds(Kill(s, r), regs) /\ Holds(Kill(s, r), Set(regs, r, v))
  <1>1. DOMAIN Kill(s, r) = DOMAIN s \ {r} /\ \A x \in DOMAIN s \ {r} : Kill(s, r)[x] = s[x]
    BY DEF Kill
  <1>2. StateOK(Kill(s, r)) BY <1>1 DEF StateOK
  <1>3. ASSUME NEW regs, NEW v, Holds(s, regs)
        PROVE  Holds(Kill(s, r), regs) /\ Holds(Kill(s, r), Set(regs, r, v))
    <2>1. Holds(Kill(s, r), regs) BY <1>1, <1>3 DEF Holds
    <2>2. \A x \in Regs \ {r} : Set(regs, r, v)[x] = regs[x] BY DEF Set
    <2> QED BY <1>1, <2>1, <2>2 DEF Holds, StateOK
  <1> QED BY <1>2, <1>3

LEMMA WriteHolds ==
    ASSUME NEW s, StateOK(s), NEW r \in Regs, NEW computed,
           \A x \in computed : FactOK(x), NEW cond \in BOOLEAN, NEW p \in Int
    PROVE  /\ StateOK(Write(s, r, computed, cond, p))
           /\ \A regs, v :
                (Holds(s, regs) /\ \A x \in computed : v \in {Numeric(x), Returned})
                  => /\ Holds(Write(s, r, computed, cond, p), Set(regs, r, v))
                     /\ cond => Holds(Write(s, r, computed, cond, p), regs)
  <1> DEFINE W == Write(s, r, computed, cond, p)
             agrees == \E x \in computed : r \in DOMAIN s /\ SamePayload(s[r], x)
  <1>0. \A regs, v : /\ Set(regs, r, v)[r] = v
                     /\ \A x \in Regs \ {r} : Set(regs, r, v)[x] = regs[x]
    BY DEF Set
  <1>1. CASE W = Kill(s, r) BY <1>1, KillHolds
  <1>2. CASE cond /\ agrees
    <2>1. W = s BY <1>2 DEF Write
    <2>2. ASSUME NEW regs, NEW v, Holds(s, regs),
                 \A x \in computed : v \in {Numeric(x), Returned}
          PROVE  Holds(s, Set(regs, r, v))
      <3>1. PICK x \in computed : r \in DOMAIN s /\ SamePayload(s[r], x) BY <1>2
      <3>2. Numeric(x) = Numeric(s[r]) BY <3>1 DEF SamePayload, Numeric
      <3>3. v \in {Numeric(s[r]), Returned} BY <2>2, <3>2
      <3>4. DOMAIN s \subseteq Regs BY DEF StateOK
      <3> QED BY <1>0, <2>2, <3>3, <3>4 DEF Holds
    <2> QED BY <2>1, <2>2
  <1>3. CASE ~cond /\ computed # {}
    <2> DEFINE x == CHOOSE x \in computed : TRUE
               y == [x EXCEPT !.path = Append(@, p)]
    <2>1. x \in computed BY <1>3
    <2>2. FactOK(x) BY <2>1
    <2>3. W = Insert(s, r, y) BY <1>3 DEF Write
    <2> HIDE DEF x
    <2>4. y \in Facts /\ y.base = x.base /\ y.disp = x.disp
      BY <2>2 DEF FactOK, Facts
    <2> HIDE DEF y
    <2>5. FactOK(y) /\ Numeric(y) = Numeric(x) BY <2>2, <2>4 DEF FactOK, Numeric
    <2>6. /\ DOMAIN W = DOMAIN s \cup {r} /\ W[r] = y
          /\ \A q \in DOMAIN s \ {r} : W[q] = s[q]
      BY <2>3 DEF Insert
    <2> HIDE DEF W
    <2>7. StateOK(W) BY <2>5, <2>6 DEF StateOK
    <2>8. ASSUME NEW regs, NEW v, Holds(s, regs),
                 \A z \in computed : v \in {Numeric(z), Returned}
          PROVE  Holds(W, Set(regs, r, v))
      <3>1. v \in {Numeric(y), Returned} BY <2>1, <2>5, <2>8
      <3>2. DOMAIN s \subseteq Regs BY DEF StateOK
      <3> QED BY <1>0, <2>6, <2>8, <3>1, <3>2 DEF Holds
    <2> QED BY <1>3, <2>7, <2>8 DEF W
  <1>4. W = Kill(s, r) \/ (cond /\ agrees) \/ (~cond /\ computed # {})
    BY DEF Write
  <1> QED BY <1>1, <1>2, <1>3, <1>4

\* Executing an instruction keeps what its facts say of the registers, also
\* when its condition does not hold and nothing is written.
LEMMA ApplyHolds ==
    ASSUME NEW s, StateOK(s), NEW p \in Int, InsnOK(Insn(p))
    PROVE  /\ StateOK(Apply(s, p))
           /\ \A regs \in Registers : Holds(s, regs) =>
                /\ Holds(Apply(s, p), Executed(Insn(p), regs))
                /\ Insn(p).cond => Holds(Apply(s, p), regs)
  <1> DEFINE i == Insn(p)
             A == Apply(s, p)
  <1>0. InsnOK(i) OBVIOUS
  <1>1. CASE i.op \in {"set", "add"}
    <2> DEFINE c == Evaluated(i, s)
               val(regs) == IF i.op = "set" THEN i.imm ELSE Sum(regs[i.src], i.imm)
    <2>1. A = Write(s, i.dst, c, i.cond, p) BY <1>1 DEF Apply
    <2>2. \A regs : Executed(i, regs) = Set(regs, i.dst, val(regs))
      BY <1>1 DEF Executed
    <2>3. i.dst \in Regs /\ i.cond \in BOOLEAN /\ i.imm \in Int
      BY <1>0, <1>1 DEF InsnOK
    <2>4. /\ \A x \in c : FactOK(x)
          /\ \A regs \in Registers : Holds(s, regs) =>
                \A x \in c : val(regs) \in {Numeric(x), Returned}
      <3>1. CASE i.op = "set"
        <4> DEFINE x == [base |-> Exact, disp |-> i.imm, path |-> <<>>]
        <4>1. c = {Anchor(x)} BY <3>1 DEF Evaluated
        <4>2. i.imm \in 0 .. Top BY <1>0, <3>1 DEF InsnOK
        <4>3. x \in Facts /\ x.base = Exact /\ x.disp = i.imm BY <2>3 DEF Facts
        <4> HIDE DEF x
        <4>4. Numeric(x) = i.imm BY <2>3, <4>3 DEF Numeric, Exact
        <4>5. Anchor(x) \in Facts /\ Numeric(Anchor(x)) = i.imm
          BY <4>3, <4>4, AnchorOK
        <4> HIDE DEF c, i
        <4> QED BY <3>1, <4>1, <4>2, <4>5 DEF FactOK
      <3>2. CASE i.op # "set"
        <4>1. c = Displaced(s, i.src, i.imm) BY <3>2 DEF Evaluated
        <4>2. \A regs : val(regs) = Sum(regs[i.src], i.imm) BY <3>2
        <4> HIDE DEF c, i, val
        <4>3. \A x \in c : FactOK(x) BY <2>3, <4>1, DisplacedOK
        <4>4. ASSUME NEW regs \in Registers, Holds(s, regs), NEW x \in c
              PROVE  val(regs) \in {Numeric(x), Returned}
          BY <2>3, <4>1, <4>2, <4>4, DisplacedHolds
        <4> QED BY <4>3, <4>4
      <3> QED BY <3>1, <3>2
    <2> HIDE DEF c, i, A, val
    <2>5. StateOK(A) BY <2>1, <2>3, <2>4, WriteHolds
    <2>6. ASSUME NEW regs \in Registers, Holds(s, regs)
          PROVE  Holds(A, Set(regs, i.dst, val(regs))) /\ (i.cond => Holds(A, regs))
      BY <2>1, <2>3, <2>4, <2>6, WriteHolds
    <2> QED BY <2>2, <2>5, <2>6 DEF A, i
  <1>2. CASE i.op = "access"
    <2> DEFINE c == Displaced(s, i.src, i.back)
               val(regs) == Sum(regs[i.src], i.back)
               t == IF i.back = 0 THEN s ELSE Write(s, i.src, c, i.cond, p)
    <2>1. A = Kill(t, i.dst) BY <1>2 DEF Apply
    <2>2. \A regs : Executed(i, regs) = Set(Set(regs, i.src, val(regs)), i.dst, Unknown)
      BY <1>2 DEF Executed
    <2>3. i.src \in Regs /\ i.cond \in BOOLEAN /\ i.back \in Int
      BY <1>0 DEF InsnOK
    <2>4. /\ \A x \in c : FactOK(x)
          /\ \A regs \in Registers : Holds(s, regs) =>
                \A x \in c : val(regs) \in {Numeric(x), Returned}
      <3> HIDE DEF c, i
      <3>1. \A x \in c : FactOK(x) BY <2>3, DisplacedOK DEF c
      <3>2. ASSUME NEW regs \in Registers, Holds(s, regs), NEW x \in c
            PROVE  val(regs) \in {Numeric(x), Returned}
        BY <2>3, <3>2, DisplacedHolds DEF c
      <3> QED BY <3>1, <3>2
    <2>5. /\ StateOK(t)
          /\ \A regs \in Registers : Holds(s, regs) =>
               Holds(t, Set(regs, i.src, val(regs))) /\ (i.cond => Holds(t, regs))
      <3>1. CASE i.back = 0
        <4>1. t = s BY <3>1
        <4>2. ASSUME NEW regs \in Registers PROVE Set(regs, i.src, val(regs)) = regs
          <5> DEFINE v == regs[i.src]
          <5>1. v \in Int /\ (v >= 0 => v + 0 \in 0 .. Top)
            BY <2>3, RecoveredAssumption DEF Registers, Unknown, Returned
          <5>2. Sum(v, 0) = v
            <6> HIDE DEF v
            <6> QED BY <5>1, SumOf
          <5>3. val(regs) = v BY <3>1, <5>2
          <5>4. DOMAIN regs = Regs /\ regs = [x \in Regs |-> regs[x]] BY DEF Registers
          <5> HIDE DEF val, i
          <5> QED BY <5>3, <5>4 DEF Set, v
        <4> HIDE DEF t, val
        <4> QED BY <4>1, <4>2
      <3>2. CASE i.back # 0
        <4>1. t = Write(s, i.src, c, i.cond, p) BY <3>2
        <4> HIDE DEF t, val, c, i
        <4>2. StateOK(t) BY <2>3, <2>4, <4>1, WriteHolds
        <4>3. ASSUME NEW regs \in Registers, Holds(s, regs)
              PROVE  Holds(t, Set(regs, i.src, val(regs))) /\ (i.cond => Holds(t, regs))
          BY <2>3, <2>4, <4>1, <4>3, WriteHolds
        <4> QED BY <4>2, <4>3
      <3> QED BY <3>1, <3>2
    <2> HIDE DEF A, t, val, i
    <2>6. /\ StateOK(A)
          /\ \A regs, v : Holds(t, regs) => Holds(A, regs) /\ Holds(A, Set(regs, i.dst, v))
      BY <2>1, <2>5, KillHolds
    <2>7. \A regs \in Registers : Holds(s, regs) =>
            Holds(A, Executed(i, regs)) /\ (i.cond => Holds(A, regs))
      BY <2>2, <2>5, <2>6
    <2> QED BY <2>6, <2>7 DEF A, i
  <1>3. CASE i.op = "kill"
    <2>1. A = Kill(s, i.dst) BY <1>3 DEF Apply
    <2>2. \A regs : Executed(i, regs) = Set(regs, i.dst, Unknown) BY <1>3 DEF Executed
    <2> HIDE DEF A, i
    <2>3. /\ StateOK(A)
          /\ \A regs, v : Holds(s, regs) => Holds(A, regs) /\ Holds(A, Set(regs, i.dst, v))
      BY <2>1, KillHolds
    <2> QED BY <2>2, <2>3 DEF A, i
  <1>4. CASE i.op \notin {"set", "add", "access", "kill"}
    <2>1. A = s BY <1>4 DEF Apply
    <2>2. ASSUME NEW regs \in Registers, Holds(s, regs)
          PROVE  Holds(s, Executed(i, regs))
      <3>1. Executed(i, regs) = regs
              \/ Executed(i, regs) = [r \in Regs |-> IF r \in ArgRegs THEN Returned ELSE regs[r]]
        BY <1>4 DEF Executed
      <3>2. DOMAIN s \subseteq Regs BY DEF StateOK
      <3> HIDE DEF i
      <3> QED BY <2>2, <3>1, <3>2 DEF Holds
    <2> HIDE DEF A
    <2> QED BY <2>1, <2>2 DEF A
  <1> QED BY <1>1, <1>2, <1>3, <1>4

LEMMA ExecutedType ==
    ASSUME NEW i, InsnOK(i), NEW regs \in Registers
    PROVE  Executed(i, regs) \in Registers
  <1> DEFINE V == {Unknown, Returned} \cup 0 .. Top
  <1>0. /\ i.src \in Regs /\ i.imm \in Int /\ i.back \in Int
        /\ i.op = "set" => i.imm \in 0 .. Top
    BY DEF InsnOK
  <1>1. ASSUME NEW n \in Int PROVE Sum(regs[i.src], n) \in V
    <2> DEFINE v == regs[i.src]
    <2>1. v \in V /\ v \in Int BY <1>0, RecoveredAssumption DEF Registers, Unknown, Returned
    <2>2. 0 .. Top \subseteq V OBVIOUS
    <2> HIDE DEF v, V
    <2>3. Sum(v, n) \in V
      <3>1. CASE v < 0 BY <2>1, <3>1, SumOf
      <3>2. CASE v >= 0 BY <2>1, <2>2, <3>2, SumOf
      <3> QED BY <2>1, <3>1, <3>2
    <2> QED BY <2>3 DEF v
  <1>2. ASSUME NEW g \in Registers, NEW r, NEW v \in V PROVE Set(g, r, v) \in Registers
    BY <1>2 DEF Set, Registers
  <1> HIDE DEF V
  <1>3. Unknown \in V /\ Returned \in V /\ 0 .. Top \subseteq V BY DEF V
  <1>4. [r \in Regs |-> IF r \in ArgRegs THEN Returned ELSE regs[r]] \in Registers
    BY <1>3 DEF Registers, V
  <1> QED BY <1>0, <1>1, <1>2, <1>3, <1>4 DEF Executed

-----------------------------------------------------------------------------
(* Blocks.                                                                 *)

Joins(f) == Continuing(f, Reachable(f))
StartOf(f, p) == Max({x \in DOMAIN Blocks(f) : x <= p})

\* Where an instruction continues its block, the next one is the only one that
\* can follow it, and it starts none.
LEMMA JoinsFacts ==
    ASSUME prog \in Programs, NEW f \in Functions, NEW p \in Joins(f)
    PROVE  /\ p \in Reachable(f) /\ p + 1 \in Reachable(f)
           /\ Linear(p) /\ p + 1 \notin Boundaries(f)
  <1>1. p \in Reachable(f) /\ Linear(p)
        /\ Fallthrough(f, p) \cap (Reachable(f) \ Boundaries(f)) # {}
    BY DEF Joins, Continuing
  <1>2. p \in Decoded(f) BY <1>1, ReachableFacts
  <1>3. Fallthrough(f, p) \subseteq {p + 1} BY <1>2, DecodedFacts
  <1> QED BY <1>1, <1>3

LEMMA BlocksFacts ==
    ASSUME prog \in Programs, NEW f \in Functions
    PROVE  /\ DOMAIN Blocks(f) = {p \in Reachable(f) : p - 1 \notin Joins(f)}
           /\ \A s \in DOMAIN Blocks(f) :
                /\ Blocks(f)[s].last \in Reachable(f) \ Joins(f)
                /\ s <= Blocks(f)[s].last
                /\ s .. Blocks(f)[s].last \subseteq Reachable(f)
                /\ s .. (Blocks(f)[s].last - 1) \subseteq Joins(f)
                /\ Blocks(f)[s].next = Successors(f, Blocks(f)[s].last)
  <1> DEFINE R == Reachable(f)
             J == Joins(f)
             LastOf(s) == Min({p \in R \ J : p >= s})
  <1>1. R \subseteq 1 .. Size /\ Size \in Nat
    BY ReachableFacts, DecodedFacts, ProgramFacts
  <1>2. \A p \in J : p \in R /\ p + 1 \in R BY JoinsFacts
  <1>3. Blocks(f) = [s \in {p \in R : p - 1 \notin J} |->
                        [last |-> LastOf(s), next |-> Successors(f, LastOf(s))]]
    BY DEF Blocks, Joins
  <1> HIDE DEF R, J
  <1>4. ASSUME NEW s \in R
        PROVE  /\ LastOf(s) \in R \ J /\ s <= LastOf(s)
               /\ s .. LastOf(s) \subseteq R /\ s .. (LastOf(s) - 1) \subseteq J
    <2> DEFINE Above == {p \in R : p >= s}
               Ends == {p \in R \ J : p >= s}
    <2>1. Above # {} /\ Above \subseteq 0 .. Size /\ Ends \subseteq Nat
      <3>1. 1 .. Size \subseteq 0 .. Size /\ 1 .. Size \subseteq Nat BY <1>1
      <3>2. s >= s BY <1>1
      <3> QED BY <1>1, <3>1, <3>2
    <2>2. Ends # {}
      <3>1. PICK q \in Above : \A p \in Above : p <= q
        <4> HIDE DEF Above
        <4> QED BY <1>1, <2>1, GreatestNat
      <3>2. q \in R /\ q >= s /\ q \in Nat /\ s \in Nat BY <1>1
      <3>3. q \notin J
        <4> SUFFICES ASSUME q \in J PROVE FALSE OBVIOUS
        <4>1. q + 1 \in Above BY <1>2, <3>2
        <4> HIDE DEF Above
        <4> QED BY <3>1, <3>2, <4>1
      <3> QED BY <3>2, <3>3
    <2>3. LastOf(s) \in Ends /\ \A p \in Ends : LastOf(s) <= p
      <3> HIDE DEF Ends
      <3>1. Min(Ends) \in Ends /\ \A p \in Ends : Min(Ends) <= p BY <2>1, <2>2, MinOf
      <3> QED BY <3>1 DEF Ends
    <2> DEFINE l == LastOf(s)
    <2>4. l \in R \ J /\ l >= s /\ \A p \in R \ J : p >= s => l <= p
      <3> HIDE DEF l
      <3> QED BY <2>3 DEF l
    <2> HIDE DEF l
    <2>5. s \in Nat /\ l \in Nat BY <1>1, <2>4
    <2> DEFINE Off == {p \in s .. l : p \notin R}
    <2>6. Off = {}
      <3> SUFFICES ASSUME Off # {} PROVE FALSE OBVIOUS
      <3>1. Off \subseteq Nat BY <2>5
      <3>2. PICK p \in Off : \A q \in Off : p <= q
        <4> HIDE DEF Off
        <4> QED BY <3>1, LeastNat
      <3>3. p \in s .. l /\ p \notin R /\ p # s OBVIOUS
      <3>4. p - 1 \in s .. l /\ p - 1 < p /\ p - 1 < l BY <2>5, <3>3
      <3>5. p - 1 \notin Off
        <4> HIDE DEF Off
        <4> QED BY <2>5, <3>2, <3>3, <3>4
      <3>6. p - 1 \in R BY <3>4, <3>5
      <3>7. p - 1 \in J BY <2>4, <2>5, <3>4, <3>6
      <3>8. (p - 1) + 1 \in R BY <1>2, <3>7
      <3> QED BY <2>5, <3>3, <3>8
    <2>7. ASSUME NEW p \in s .. (l - 1) PROVE p \in J
      <3>1. p \in s .. l /\ p < l BY <2>5
      <3> QED BY <2>4, <2>5, <2>6, <3>1
    <2> QED BY <2>4, <2>6, <2>7 DEF l
  <1>5. DOMAIN Blocks(f) = {p \in R : p - 1 \notin J} BY <1>3
  <1>6. ASSUME NEW s \in DOMAIN Blocks(f)
        PROVE  /\ Blocks(f)[s].last = LastOf(s) /\ s \in R
               /\ Blocks(f)[s].next = Successors(f, LastOf(s))
    <2> HIDE DEF LastOf
    <2> QED BY <1>3, <1>5
  <1> HIDE DEF LastOf
  <1> QED BY <1>4, <1>5, <1>6 DEF R, J

\* Each reachable instruction is in the block that starts last before it.
LEMMA StartOfFacts ==
    ASSUME prog \in Programs, NEW f \in Functions, NEW p \in Reachable(f)
    PROVE  /\ StartOf(f, p) \in DOMAIN Blocks(f)
           /\ StartOf(f, p) <= p /\ p <= Blocks(f)[StartOf(f, p)].last
           /\ p \in DOMAIN Blocks(f) => StartOf(f, p) = p
           /\ p \in Joins(f) => StartOf(f, p + 1) = StartOf(f, p)
           /\ p = Blocks(f)[StartOf(f, p)].last <=> p \notin Joins(f)
  <1> DEFINE R == Reachable(f)
             J == Joins(f)
             B == DOMAIN Blocks(f)
             Chain(q) == q .. (p - 1) \subseteq J
             Heads == {q \in 1 .. p : Chain(q)}
             Before == {x \in B : x <= p}
  <1>1. R \subseteq 1 .. Size /\ Size \in Nat /\ p \in 1 .. Size
    BY ReachableFacts, DecodedFacts, ProgramFacts
  <1>2. \A q \in J : q \in R /\ q + 1 \in R BY JoinsFacts
  <1>3. B = {q \in R : q - 1 \notin J} BY BlocksFacts
  <1>4. p \in R OBVIOUS
  <1> HIDE DEF R, J, B
  <1>5. PICK h \in Heads : \A q \in Heads : h <= q
    <2>1. Heads \subseteq Nat OBVIOUS
    <2>2. p \in Heads BY <1>1
    <2> HIDE DEF Heads
    <2> QED BY <2>1, <2>2, LeastNat
  <1>6. h \in 1 .. p /\ Chain(h) /\ h \in Nat /\ p \in Nat BY <1>1, <1>5
  <1>7. h \in R
    <2>1. CASE h = p BY <1>4, <2>1
    <2>2. CASE h # p
      <3>1. h \in h .. (p - 1) BY <1>6, <2>2
      <3> QED BY <1>2, <1>6, <3>1
    <2> QED BY <2>1, <2>2
  <1>8. h - 1 \notin J
    <2> SUFFICES ASSUME h - 1 \in J PROVE FALSE OBVIOUS
    <2>1. h - 1 \in 1 .. p BY <1>1, <1>2, <1>6
    <2>2. ASSUME NEW q \in (h - 1) .. (p - 1) PROVE q \in J
      <3>1. q = h - 1 \/ q \in h .. (p - 1) BY <1>6
      <3> QED BY <1>6, <3>1
    <2>3. h - 1 \in Heads BY <2>1, <2>2
    <2> HIDE DEF Heads
    <2> QED BY <1>5, <1>6, <2>3
  <1>9. h \in B /\ h <= p BY <1>3, <1>6, <1>7, <1>8
  <1>10. \A x \in B : x <= p => x <= h
    <2> SUFFICES ASSUME NEW x \in B, x <= p, x > h PROVE FALSE
      BY <1>1, <1>3, <1>6
    <2>1. x \in Nat /\ x - 1 \in h .. (p - 1) BY <1>1, <1>3, <1>6
    <2> QED BY <1>3, <1>6, <2>1
  <1>11. Max(Before) \in Before /\ \A x \in Before : x <= Max(Before)
    <2>1. Before # {} /\ Before \subseteq 0 .. Size
      <3>1. 1 .. Size \subseteq 0 .. Size BY <1>1
      <3> QED BY <1>1, <1>3, <1>9, <3>1
    <2> HIDE DEF Before
    <2> QED BY <1>1, <2>1, MaxOf
  <1>12. StartOf(f, p) = h
    <2> DEFINE x == Max(Before)
    <2>1. x \in B /\ x <= p /\ h <= x BY <1>9, <1>11
    <2>2. x \in Nat
      <3>1. 1 .. Size \subseteq Nat BY <1>1
      <3> QED BY <1>1, <1>3, <2>1, <3>1
    <2> HIDE DEF x, Before
    <2>3. x = h BY <1>6, <1>10, <2>1, <2>2
    <2> QED BY <2>3 DEF x, Before, StartOf, B
  <1> DEFINE l == Blocks(f)[h].last
  <1>13. l \in R \ J /\ h <= l /\ h .. (l - 1) \subseteq J
    BY <1>9, BlocksFacts DEF R, J, B
  <1> HIDE DEF l
  <1>14. l \in Nat /\ p <= l
    <2>1. l \in Nat BY <1>1, <1>13
    <2>2. ASSUME l < p PROVE FALSE
      <3>1. l \in h .. (p - 1) BY <1>6, <1>13, <2>1, <2>2
      <3> QED BY <1>6, <1>13, <3>1
    <2> QED BY <1>6, <2>1, <2>2
  <1>15. p \in B => h = p BY <1>6, <1>9, <1>10
  <1>16. p = l <=> p \notin J
    <2>1. p # l => p \in h .. (l - 1) BY <1>6, <1>14
    <2> QED BY <1>13, <2>1
  <1>17. p \in J => StartOf(f, p + 1) = StartOf(f, p)
    <2> SUFFICES ASSUME p \in J PROVE StartOf(f, p + 1) = StartOf(f, p) OBVIOUS
    <2>1. p + 1 \notin B BY <1>3, <1>6
    <2>2. \A x \in B : x <= p + 1 <=> x <= p
      <3> SUFFICES ASSUME NEW x \in B PROVE x <= p + 1 <=> x <= p OBVIOUS
      <3>1. x \in Nat /\ x # p + 1 BY <1>1, <1>3, <2>1
      <3> QED BY <1>6, <3>1
    <2>3. {x \in B : x <= p + 1} = {x \in B : x <= p} BY <2>2
    <2> QED BY <2>3 DEF StartOf, B
  <1> QED BY <1>9, <1>12, <1>14, <1>15, <1>16, <1>17 DEF l, J, B

\* What follows the last instruction of a block starts one, and so does the entry.
LEMMA EdgeFacts ==
    ASSUME prog \in Programs, NEW f \in Functions
    PROVE  /\ \A p \in Reachable(f) \ Joins(f) : Successors(f, p) \subseteq DOMAIN Blocks(f)
           /\ \A s \in DOMAIN Blocks(f) : Blocks(f)[s].next \subseteq DOMAIN Blocks(f)
           /\ Function(f).entry \in Decoded(f) => Function(f).entry \in DOMAIN Blocks(f)
  <1>0. Reachable(f) \subseteq 1 .. Size /\ Size \in Nat /\ Reachable(f) \subseteq Decoded(f)
    BY ReachableFacts, DecodedFacts, ProgramFacts
  <1>1. ASSUME NEW q \in Reachable(f), q \in Boundaries(f)
        PROVE  q \in DOMAIN Blocks(f)
    <2>1. q - 1 \in Joins(f) => (q - 1) + 1 \notin Boundaries(f) BY JoinsFacts
    <2>2. (q - 1) + 1 = q BY <1>0
    <2>3. q - 1 \notin Joins(f) BY <1>1, <2>1, <2>2
    <2> QED BY <2>3, BlocksFacts
  <1>2. ASSUME NEW p \in Reachable(f), p \notin Joins(f), NEW q \in Successors(f, p)
        PROVE  q \in DOMAIN Blocks(f)
    <2>1. q \in Reachable(f) /\ p \in Decoded(f) BY <1>0, ReachableFacts
    <2>2. CASE q \in Boundaries(f) BY <1>1, <2>1, <2>2
    <2>3. CASE q \notin Boundaries(f)
      <3>1. Insn(p).op = "branch" => Insn(p).to \in Boundaries(f)
        BY <2>1 DEF Boundaries
      <3>2. q \in Fallthrough(f, p) BY <2>3, <3>1 DEF Successors
      <3>3. q = p + 1 BY <2>1, <3>2, DecodedFacts
      <3>4. q - 1 = p BY <1>0, <3>3
      <3> QED BY <1>2, <2>1, <3>4, BlocksFacts
    <2> QED BY <2>2, <2>3
  <1>3. ASSUME NEW s \in DOMAIN Blocks(f)
        PROVE  Blocks(f)[s].next \subseteq DOMAIN Blocks(f)
    BY <1>2, BlocksFacts
  <1>4. Function(f).entry \in Decoded(f) => Function(f).entry \in DOMAIN Blocks(f)
    BY <1>1, ReachableFacts DEF Boundaries
  <1> QED BY <1>2, <1>3, <1>4

\* Where the processor goes from a decoded instruction, if it stays in the
\* function, the decoding goes too.
LEMMA FlowFacts ==
    ASSUME prog \in Programs, NEW f \in Functions, NEW p \in Decoded(f),
           Insn(p).op # "stop", NEW holds \in BOOLEAN, holds \/ Insn(p).cond,
           NEW q \in Decoded(f),
           q = IF holds /\ Insn(p).op = "branch" THEN Insn(p).to ELSE p + 1
    PROVE  q \in Successors(f, p)
  <1>1. Fallthrough(f, p) = {p + 1} \cap Decoded(f) BY DecodedFacts
  <1> QED BY <1>1 DEF Successors

-----------------------------------------------------------------------------
(* Certificates.                                                           *)

Weaker(a, b) ==
    DOMAIN a \subseteq DOMAIN b /\ \A r \in DOMAIN a : SamePayload(a[r], b[r])

StatesOK(G) ==
    \A s \in DOMAIN G : (\A x \in G[s] : StateOK(x)) /\ (\A x, y \in G[s] : x = y)

SeedOK(seed) == DOMAIN seed \subseteq Regs /\ \A r \in DOMAIN seed : seed[r] \in Recovered

\* Fact states that assume no more at the entry than the seed says, and at the
\* end of every block, but the dirty ones, no more than the block leaves.
Tracked(f, seed, G, D) ==
    /\ DOMAIN G = DOMAIN Blocks(f) /\ StatesOK(G)
    /\ \A s \in DOMAIN G : s = Function(f).entry =>
         \E x \in G[s] : Weaker(x, SeedState(seed))
    /\ \A s \in DOMAIN G \ D : \A x \in G[s] : \A t \in Blocks(f)[s].next :
         \E y \in G[t] : Weaker(y, Through(x, s, Blocks(f)[s].last))

Certificate(f, seed, G) == SeedOK(seed) /\ Tracked(f, seed, G, {})

StateIn(G, s) == IF G[s] = {} THEN Cold ELSE CHOOSE x \in G[s] : TRUE
FactsIn(f, G, p) == Through(StateIn(G, StartOf(f, p)), StartOf(f, p), p - 1)

\* All of this is about the program, which does not change.
LEMMA SameProgram ==
    ASSUME prog' = prog
    PROVE  /\ \A p : Insn(p)' = Insn(p)
           /\ Functions' = Functions
           /\ \A f : /\ Function(f)' = Function(f) /\ Decoded(f)' = Decoded(f)
                     /\ Reachable(f)' = Reachable(f)
                     /\ Blocks(f)' = Blocks(f)
           /\ \A to : Callee(to)' = Callee(to)
           /\ \A s, p, q : Through(s, p, q)' = Through(s, p, q)
           /\ \A f, seed, G : Certificate(f, seed, G)' <=> Certificate(f, seed, G)
           /\ \A f, seed, G, D : Tracked(f, seed, G, D)' <=> Tracked(f, seed, G, D)
           /\ \A f, G, p : FactsIn(f, G, p)' = FactsIn(f, G, p)
  <1>1. \A p : Insn(p)' = Insn(p) BY DEF Insn
  <1>2. Functions' = Functions /\ \A f : Function(f)' = Function(f)
    BY DEF Functions, Function
  <1>3. \A f : Decoded(f)' = Decoded(f)
    BY DEF Decoded, Prefix, Insn, Function
  <1>4. \A f : Reachable(f)' = Reachable(f)
    BY DEF Reachable, Successors, Fallthrough, Decoded, Prefix, Insn, Function
  <1>5. \A f : Blocks(f)' = Blocks(f)
    BY DEF Blocks, Continuing, Linear, Boundaries, Reachable, Successors,
           Fallthrough, Decoded, Prefix, Insn, Function
  <1>6. \A s, p, q : Through(s, p, q)' = Through(s, p, q)
    BY DEF Through, Apply, Insn
  <1>7. \A to : Callee(to)' = Callee(to) BY DEF Callee, Functions, Function
  <1>8. \A f, p : StartOf(f, p)' = StartOf(f, p) BY <1>5 DEF StartOf
  <1>9. \A f, seed, G, D : Tracked(f, seed, G, D)' <=> Tracked(f, seed, G, D)
    BY <1>2, <1>5, <1>6 DEF Tracked
  <1> QED BY <1>1, <1>2, <1>3, <1>4, <1>5, <1>6, <1>7, <1>8, <1>9 DEF Certificate, FactsIn

LEMMA WeakerHolds ==
    ASSUME NEW a, NEW b, Weaker(a, b), NEW regs, Holds(b, regs)
    PROVE  Holds(a, regs)
  BY DEF Weaker, Holds, SamePayload, Numeric

LEMMA SeedStateOK ==
    ASSUME NEW seed, SeedOK(seed)
    PROVE  StateOK(SeedState(seed))
  <1>1. /\ DOMAIN SeedState(seed) = DOMAIN seed
        /\ \A r \in DOMAIN seed : SeedState(seed)[r] = [base |-> seed[r], disp |-> 0, path |-> <<>>]
    BY DEF SeedState
  <1>2. ASSUME NEW g \in Recovered PROVE FactOK([base |-> g, disp |-> 0, path |-> <<>>])
    <2> DEFINE x == [base |-> g, disp |-> 0, path |-> <<>>]
    <2>1. x \in Facts /\ x.base = g /\ x.disp = 0 BY DEF Facts
    <2>2. g \in Int /\ g \in 0 .. Top BY RecoveredAssumption
    <2> HIDE DEF x
    <2>3. FactOK(x) BY <2>1, <2>2 DEF FactOK, Numeric
    <2> QED BY <2>3 DEF x
  <1> QED BY <1>1, <1>2 DEF StateOK, SeedOK

\* Facts stay well-formed along a block.
LEMMA ThroughOK ==
    ASSUME prog \in Programs, NEW f \in Functions, NEW s \in DOMAIN Blocks(f),
           NEW x, StateOK(x), NEW p \in s - 1 .. Blocks(f)[s].last
    PROVE  StateOK(Through(x, s, p))
  <1> DEFINE l == Blocks(f)[s].last
             Off == {n \in s - 1 .. l : ~StateOK(Through(x, s, n))}
  <1>1. l \in Nat /\ s \in Nat \ {0} /\ \A n \in s .. l : InsnOK(Insn(n))
    <2>1. Reachable(f) \subseteq 1 .. Size /\ Size \in Nat
      BY ReachableFacts, DecodedFacts, ProgramFacts
    <2>2. s \in Reachable(f) /\ l \in Reachable(f) /\ s .. l \subseteq Reachable(f)
      BY BlocksFacts
    <2> QED BY <2>1, <2>2, ProgramFacts
  <1> HIDE DEF l
  <1> SUFFICES ASSUME Off # {} PROVE FALSE BY DEF l
  <1>2. Off \subseteq Nat BY <1>1
  <1>3. PICK n \in Off : \A k \in Off : n <= k
    <2> HIDE DEF Off
    <2> QED BY <1>2, LeastNat
  <1>4. n \in s - 1 .. l /\ n \in Nat /\ ~StateOK(Through(x, s, n)) BY <1>1
  <1>5. n # s - 1 BY <1>1, <1>4, ThroughFacts
  <1>6. s <= n /\ n - 1 \in s - 1 .. l /\ n - 1 < n BY <1>1, <1>4, <1>5
  <1>7. n - 1 \notin Off
    <2> HIDE DEF Off
    <2> QED BY <1>1, <1>3, <1>4, <1>6
  <1> DEFINE y == Through(x, s, n - 1)
  <1>8. StateOK(y) BY <1>6, <1>7
  <1> HIDE DEF y
  <1>9. InsnOK(Insn(n)) BY <1>1, <1>4, <1>6
  <1>10. StateOK(Apply(y, n)) BY <1>4, <1>8, <1>9, ApplyHolds
  <1>11. Through(x, s, n) = Apply(y, n) BY <1>1, <1>4, <1>6, ThroughFacts DEF y
  <1> QED BY <1>4, <1>10, <1>11

LEMMA ColdOK == StateOK(Cold) /\ SeedOK(Cold) /\ DOMAIN Cold = {}
  BY DEF StateOK, SeedOK, Cold

LEMMA FactsInOK ==
    ASSUME prog \in Programs, NEW f \in Functions, NEW G, StatesOK(G),
           DOMAIN G = DOMAIN Blocks(f), NEW p \in Reachable(f)
    PROVE  StateOK(FactsIn(f, G, p))
  <1> DEFINE s == StartOf(f, p)
             x == StateIn(G, s)
  <1>1. s \in DOMAIN Blocks(f) /\ s <= p /\ p <= Blocks(f)[s].last BY StartOfFacts
  <1>2. StateOK(x) BY <1>1, ColdOK DEF StateIn, StatesOK
  <1>3. p - 1 \in s - 1 .. Blocks(f)[s].last
    <2>1. Reachable(f) \subseteq 1 .. Size /\ Size \in Nat
      BY ReachableFacts, DecodedFacts, ProgramFacts
    <2> HIDE DEF s
    <2>2. s \in Reachable(f) /\ Blocks(f)[s].last \in Reachable(f)
      BY <1>1, BlocksFacts
    <2>3. s \in Nat /\ p \in Nat /\ Blocks(f)[s].last \in Nat BY <2>1, <2>2
    <2> QED BY <1>1, <2>3
  <1> HIDE DEF s, x
  <1>4. StateOK(Through(x, s, p - 1)) BY <1>1, <1>2, <1>3, ThroughOK
  <1> QED BY <1>4 DEF FactsIn, s, x

\* Who comes in with what the seed says has at the entry what is claimed there.
LEMMA EntryHolds ==
    ASSUME prog \in Programs, NEW f \in Functions, NEW seed, NEW G,
           Certificate(f, seed, G), Function(f).entry \in Decoded(f),
           NEW regs, Holds(SeedState(seed), regs)
    PROVE  LET e == Function(f).entry
           IN  /\ e \in Reachable(f) /\ G[StartOf(f, e)] # {}
               /\ Holds(FactsIn(f, G, e), regs)
  <1> DEFINE e == Function(f).entry
  <1>1. e \in Reachable(f) /\ e \in DOMAIN Blocks(f) BY ReachableFacts, EdgeFacts
  <1>2. StartOf(f, e) = e BY <1>1, StartOfFacts
  <1>3. PICK x \in G[e] : Weaker(x, SeedState(seed))
    BY <1>1 DEF Certificate, Tracked
  <1>4. StateIn(G, e) = x BY <1>1, <1>3 DEF StateIn, Certificate, Tracked, StatesOK
  <1>5. e \in Nat \ {0}
    BY <1>1, ReachableFacts, DecodedFacts
  <1>6. FactsIn(f, G, e) = x BY <1>2, <1>4, <1>5, ThroughFacts DEF FactsIn
  <1> QED BY <1>1, <1>2, <1>3, <1>6, WeakerHolds

\* What is claimed before an instruction and holds there leads to what is
\* claimed before the next one.
LEMMA StepHolds ==
    ASSUME prog \in Programs, NEW f \in Functions, NEW seed, NEW G,
           Certificate(f, seed, G), NEW p \in Reachable(f),
           G[StartOf(f, p)] # {},
           NEW regs \in Registers, Holds(FactsIn(f, G, p), regs),
           Insn(p).op # "stop", NEW holds \in BOOLEAN, holds \/ Insn(p).cond,
           NEW q \in Decoded(f),
           q = IF holds /\ Insn(p).op = "branch" THEN Insn(p).to ELSE p + 1
    PROVE  /\ q \in Reachable(f) /\ G[StartOf(f, q)] # {}
           /\ Holds(FactsIn(f, G, q), IF holds THEN Executed(Insn(p), regs) ELSE regs)
  <1> DEFINE s == StartOf(f, p)
             l == Blocks(f)[s].last
             x == StateIn(G, s)
             after == Through(x, s, p)
             regs2 == IF holds THEN Executed(Insn(p), regs) ELSE regs
  <1>0. p \in Decoded(f) BY ReachableFacts
  <1>1. q \in Successors(f, p)
    <2> HIDE DEF s, l, x, after, regs2
    <2> QED BY <1>0, FlowFacts
  <1>2. q \in Reachable(f) BY <1>1, ReachableFacts
  <1>3. s \in DOMAIN Blocks(f) /\ s <= p /\ p <= l BY StartOfFacts
  <1>4. p \in Nat /\ s \in Nat \ {0} /\ q \in Nat \ {0} /\ InsnOK(Insn(p))
    <2>1. Reachable(f) \subseteq 1 .. Size /\ Size \in Nat
      BY ReachableFacts, DecodedFacts, ProgramFacts
    <2>2. s \in Reachable(f) BY <1>3, BlocksFacts
    <2> HIDE DEF s
    <2> QED BY <2>1, <2>2, <1>2, ProgramFacts
  <1>5. DOMAIN G = DOMAIN Blocks(f) /\ StatesOK(G) BY DEF Certificate, Tracked
  <1>6. StateOK(FactsIn(f, G, p)) BY <1>5, FactsInOK
  <1>7. after = Apply(FactsIn(f, G, p), p)
    <2>1. FactsIn(f, G, p) = Through(x, s, p - 1) BY DEF FactsIn
    <2> HIDE DEF x, s, l
    <2>2. Through(x, s, p) = Apply(Through(x, s, p - 1), p)
      BY <1>3, <1>4, ThroughFacts
    <2> QED BY <2>1, <2>2
  <1>8. Holds(after, regs2)
    <2> DEFINE y == FactsIn(f, G, p)
    <2>1. StateOK(y) /\ Holds(y, regs) BY <1>6
    <2> HIDE DEF y, s, l, x
    <2>2. /\ Holds(Apply(y, p), Executed(Insn(p), regs))
          /\ Insn(p).cond => Holds(Apply(y, p), regs)
      BY <1>4, <2>1, ApplyHolds
    <2> QED BY <1>7, <2>2 DEF y
  <1>9. CASE p \in Joins(f)
    <2>1. q = p + 1 BY <1>9, JoinsFacts DEF Linear
    <2>2. StartOf(f, q) = s BY <1>9, <2>1, StartOfFacts
    <2>3. FactsIn(f, G, q) = after BY <1>4, <2>1, <2>2 DEF FactsIn
    <2> HIDE DEF after, regs2, x
    <2> QED BY <1>2, <1>8, <2>2, <2>3 DEF regs2
  <1>10. CASE p \notin Joins(f)
    <2>1. p = l BY <1>10, StartOfFacts
    <2>2. Blocks(f)[s].next = Successors(f, p) BY <1>3, <2>1, BlocksFacts
    <2>3. x \in G[s] BY DEF StateIn
    <2>4. PICK y \in G[q] : Weaker(y, after)
      <3>1. \A t \in Blocks(f)[s].next : \E y \in G[t] : Weaker(y, Through(x, s, l))
        BY <1>3, <1>5, <2>3 DEF Certificate, Tracked
      <3> HIDE DEF x, s, l
      <3> QED BY <1>1, <2>1, <2>2, <3>1
    <2>5. q \in DOMAIN Blocks(f) BY <1>1, <1>10, EdgeFacts
    <2>6. StartOf(f, q) = q BY <1>2, <2>5, StartOfFacts
    <2>7. StateIn(G, q) = y BY <1>5, <2>4, <2>5 DEF StateIn, StatesOK
    <2>8. FactsIn(f, G, q) = y BY <1>4, <2>6, <2>7, ThroughFacts DEF FactsIn
    <2> HIDE DEF after, regs2
    <2>9. Holds(y, regs2) BY <1>8, <2>4, WeakerHolds
    <2> QED BY <1>2, <2>4, <2>6, <2>8, <2>9 DEF regs2
  <1> QED BY <1>9, <1>10

\* A join knows no more than any of the edges, and goes on from what it knew.
LEMMA JoinFacts ==
    ASSUME NEW state, \A x \in state : StateOK(x), \A x, y \in state : x = y,
           NEW out, StateOK(out)
    PROVE  \E y : /\ JoinInto(state, out) = {y} /\ StateOK(y) /\ Weaker(y, out)
                  /\ \A x \in state : Weaker(y, x) /\ Extends(y, x)
  <1>1. CASE state = {}
    <2>1. JoinInto(state, out) = {out} BY <1>1 DEF JoinInto
    <2>2. Weaker(out, out) BY DEF Weaker, SamePayload
    <2> QED BY <1>1, <2>1, <2>2
  <1>2. CASE state # {}
    <2> DEFINE s == CHOOSE x \in state : TRUE
               kept == {r \in DOMAIN s \cap DOMAIN out : SamePayload(s[r], out[r])}
               fact(r) == [s[r] EXCEPT !.path = Merge(@, out[r].path)]
               y == [r \in kept |-> fact(r)]
    <2>1. s \in state /\ StateOK(s) /\ state = {s} BY <1>2
    <2>2. JoinInto(state, out) = {y} BY <1>2 DEF JoinInto
    <2> HIDE DEF s
    <2>3. ASSUME NEW r \in kept
          PROVE  /\ FactOK(fact(r)) /\ SamePayload(fact(r), s[r])
                 /\ SamePayload(fact(r), out[r])
                 /\ Grows(s[r].path, fact(r).path) /\ s[r].path \in Seq(Int)
      <3> DEFINE old == s[r]
                 path == Merge(old.path, out[r].path)
      <3>1. FactOK(old) /\ FactOK(out[r]) BY <2>1 DEF StateOK
      <3>2. old.path \in Seq(Int) /\ out[r].path \in Seq(Int)
        BY <3>1 DEF FactOK, Facts
      <3>3. Grows(old.path, path) BY <3>2, MergeGrows
      <3>4. path \in Seq(Int) BY <3>3 DEF Grows
      <3>5. /\ fact(r) \in Facts /\ fact(r).path = path
            /\ fact(r).base = old.base /\ fact(r).disp = old.disp
        <4> HIDE DEF path, old
        <4>1. fact(r) = [old EXCEPT !.path = path] BY DEF path, old
        <4>2. old \in Facts BY <3>1 DEF FactOK
        <4> HIDE DEF fact
        <4> QED BY <3>4, <4>1, <4>2 DEF Facts
      <3>6. SamePayload(old, out[r]) OBVIOUS
      <3> HIDE DEF fact, path
      <3> QED BY <3>1, <3>2, <3>3, <3>5, <3>6 DEF SamePayload, FactOK, Numeric
    <2>4. DOMAIN y = kept /\ \A r \in kept : y[r] = fact(r) BY Zenon
    <2>5. kept \subseteq DOMAIN s /\ kept \subseteq DOMAIN out OBVIOUS
    <2> HIDE DEF y, kept, fact
    <2>6. StateOK(y) BY <2>1, <2>3, <2>4, <2>5 DEF StateOK
    <2>7. Weaker(y, out) /\ Weaker(y, s) BY <2>3, <2>4, <2>5 DEF Weaker
    <2>8. Extends(y, s)
      <3>1. ASSUME NEW r \in kept
            PROVE  /\ SamePayload(y[r], s[r])
                   /\ Len(s[r].path) <= Len(y[r].path)
                   /\ \A k \in 1..Len(s[r].path) : y[r].path[k] = s[r].path[k]
                   /\ \A k \in Len(s[r].path) + 1..Len(y[r].path) :
                        \A l \in 1..k - 1 : y[r].path[k] # y[r].path[l]
        <4>1. /\ y[r] = fact(r) /\ SamePayload(fact(r), s[r])
              /\ Grows(s[r].path, fact(r).path)
          BY <2>3, <2>4
        <4> DEFINE a == s[r].path
                   b == fact(r).path
        <4>2. Grows(a, b) BY <4>1
        <4> HIDE DEF a, b
        <4>3. /\ Len(a) <= Len(b)
              /\ \A k \in 1..Len(a) : b[k] = a[k]
              /\ \A k \in Len(a) + 1..Len(b) : \A l \in 1..k - 1 : b[k] # b[l]
          BY <4>2 DEF Grows
        <4> QED BY <4>1, <4>3 DEF a, b
      <3> QED BY <2>4, <2>5, <3>1 DEF Extends
    <2> QED BY <2>1, <2>2, <2>6, <2>7, <2>8
  <1> QED BY <1>1, <1>2

-----------------------------------------------------------------------------
(* The inductive invariant.                                                *)

TypeInv ==
    /\ prog \in Programs
    /\ phase \in {"pick", "track", "merge", "done"} /\ pass \in 1..2
    /\ dirty \subseteq DOMAIN blocks /\ DOMAIN in = DOMAIN blocks /\ StatesOK(in)
    /\ DOMAIN records = Recovered
    /\ \A g \in Recovered :
         records[g] = [obs |-> records[g].obs, conflicts |-> records[g].conflicts]

\* In the first pass every function is tracked cold.
JobOK(j, n) == j.fn \in Functions /\ SeedOK(j.seed) /\ (n = 1 => j.seed = Cold)
JobsInv == \A j \in jobs : JobOK(j, pass)

TrackInv ==
    phase = "track" =>
        /\ JobOK(job, pass) /\ blocks = Blocks(job.fn)
        /\ Tracked(job.fn, job.seed, in, dirty)

\* An item of evidence is what some certificate shows.
Shows(G, c) ==
    \E x \in Displaced(FactsIn(c.fn, G, c.pc), Insn(c.pc).src, Insn(c.pc).imm) :
        x.base = c.target /\ x.disp = c.offset

IntraItem(c) ==
    c.fn \in Functions /\ \E G : Certificate(c.fn, Cold, G) /\ Shows(G, c)

CallItem(c) ==
    /\ c.fn \in Functions /\ c.to = Insn(c.pc).to /\ SeedOK(c.seed)
    /\ \E G : Certificate(c.fn, Cold, G) /\ c.seed = Seed(FactsIn(c.fn, G, c.pc))

InterItem(c, K) ==
    /\ c.fn \in Functions
    /\ \E G, seed :
         /\ Certificate(c.fn, seed, G) /\ Shows(G, c)
         /\ \A h \in c.via : \E k \in K :
              k.fn = h.caller /\ k.pc = h.pc /\ k.seed = seed /\ Callee(k.to) = {c.fn}

EvidenceInv ==
    /\ \A c \in intra : IntraItem(c)
    /\ \A c \in calls : CallItem(c)
    /\ \A c \in inter : InterItem(c, calls)

\* A hop of an observation is a hop of the evidence it was made from.
HopsFrom(g, o, I) ==
    \A h \in o.via : \E c \in I :
        c.pc = o.pc /\ c.offset = o.offset /\ c.target = g /\ h \in c.via
RecordsInv == \A g \in Recovered : \A o \in records[g].obs : HopsFrom(g, o, inter)

\* The seeds the processor's way in justifies.
Justified(via, seed, K) == seed = Cold \/ \E k \in K : <<k.fn, k.pc>> = via /\ k.seed = seed

MachineShape ==
    /\ m = [fn |-> m.fn, pc |-> m.pc, via |-> m.via, regs |-> m.regs]
    /\ m.fn \in Functions \cup {0} /\ m.regs \in Registers
    /\ m.fn = 0 => m = Idle
    /\ m.fn # 0 => phase = "done"

\* Wherever the processor is, it has what every certificate for its function
\* claims there that its way in justifies.
MachineOK(v, K) ==
    v.fn # 0 =>
        /\ v.via # Cold => Function(v.fn).entry = Insn(v.via[2]).to
        /\ v.pc \in Decoded(v.fn) =>
             /\ v.pc \in Reachable(v.fn)
             /\ \A seed, G :
                  Certificate(v.fn, seed, G) /\ Justified(v.via, seed, K)
                    => /\ G[StartOf(v.fn, v.pc)] # {}
                       /\ Holds(FactsIn(v.fn, G, v.pc), v.regs)
MachineInv == MachineOK(m, calls)

Inv == TypeInv /\ JobsInv /\ TrackInv /\ EvidenceInv /\ RecordsInv
       /\ MachineShape /\ MachineInv

\* What is said of the items is about the program, too.
LEMMA SameItems ==
    ASSUME prog' = prog
    PROVE  /\ \A j, n : JobOK(j, n)' <=> JobOK(j, n)
           /\ \A c : IntraItem(c)' <=> IntraItem(c)
           /\ \A c : CallItem(c)' <=> CallItem(c)
           /\ \A c, K : InterItem(c, K)' <=> InterItem(c, K)
  <1>1. \A j, n : JobOK(j, n)' <=> JobOK(j, n) BY SameProgram DEF JobOK
  <1>2. \A G, c : Shows(G, c)' <=> Shows(G, c) BY SameProgram DEF Shows
  <1>3. \A c : IntraItem(c)' <=> IntraItem(c) BY <1>2, SameProgram DEF IntraItem
  <1>4. \A c : CallItem(c)' <=> CallItem(c) BY SameProgram DEF CallItem
  <1>5. \A c, K : InterItem(c, K)' <=> InterItem(c, K)
    <2> SUFFICES ASSUME NEW c, NEW K PROVE InterItem(c, K)' <=> InterItem(c, K)
      OBVIOUS
    <2>1. /\ Functions' = Functions /\ \A to : Callee(to)' = Callee(to)
          /\ \A G, seed : Certificate(c.fn, seed, G)' <=> Certificate(c.fn, seed, G)
          /\ \A G : Shows(G, c)' <=> Shows(G, c)
      BY <1>2, SameProgram
    <2> QED BY <2>1 DEF InterItem
  <1> QED BY <1>1, <1>3, <1>4, <1>5

\* Steps that leave the analysis alone, or the processor, leave its part.
LEMMA SameEvidence ==
    ASSUME EvidenceInv, prog' = prog, UNCHANGED <<intra, calls, inter>>
    PROVE  EvidenceInv'
  BY SameItems DEF EvidenceInv

LEMMA SameMachine ==
    ASSUME prog' = prog
    PROVE  /\ \A v, K : MachineOK(v, K)' <=> MachineOK(v, K)
           /\ (MachineShape /\ MachineInv /\ m' = m /\ (m.fn # 0 => phase' = phase /\ calls' = calls))
                => (MachineShape' /\ MachineInv')
  <1>1. ASSUME NEW v, NEW K PROVE MachineOK(v, K)' <=> MachineOK(v, K)
    <2>1. \A f, p : StartOf(f, p)' = StartOf(f, p) BY SameProgram DEF StartOf
    <2> QED BY <2>1, SameProgram DEF MachineOK
  <1>2. ASSUME MachineShape, MachineInv, m' = m, m.fn # 0 => phase' = phase /\ calls' = calls
        PROVE  MachineShape' /\ MachineInv'
    <2>1. MachineShape' BY <1>2, SameProgram DEF MachineShape, Registers, Idle
    <2>2. CASE m.fn = 0 BY <1>2, <2>1, <2>2 DEF MachineInv, MachineOK
    <2>3. CASE m.fn # 0 BY <1>1, <1>2, <2>1, <2>3 DEF MachineInv
    <2> QED BY <2>1, <2>2, <2>3
  <1> QED BY <1>1, <1>2

LEMMA InitInv ==
    ASSUME Init PROVE Inv
  <1>1. prog \in Programs BY DEF Init
  <1>2. TypeInv
    <2>1. /\ prog \in Programs /\ phase = "pick" /\ pass = 1 /\ blocks = Cold
          /\ in = Cold /\ dirty = {}
          /\ records = [g \in Recovered |-> [obs |-> {}, conflicts |-> {}]]
      BY DEF Init
    <2>2. StatesOK(in) BY <2>1, ColdOK DEF StatesOK
    <2> QED BY <2>1, <2>2 DEF TypeInv
  <1>3. JobsInv BY ColdOK DEF JobsInv, JobOK, Init
  <1>4. TrackInv BY DEF TrackInv, Init
  <1>5. EvidenceInv BY DEF EvidenceInv, Init
  <1>6. RecordsInv BY DEF RecordsInv, Init
  <1>7. MachineShape /\ MachineInv
    <2>1. m = Idle BY DEF Init
    <2>2. Idle.fn = 0 /\ Idle.pc = 0 /\ Idle.via = Cold
          /\ Idle.regs = [r \in Regs |-> Unknown]
      BY DEF Idle
    <2>3. [r \in Regs |-> Unknown] \in Registers BY DEF Registers
    <2>4. MachineShape
      <3>1. Idle = [fn |-> Idle.fn, pc |-> Idle.pc, via |-> Idle.via, regs |-> Idle.regs]
        BY DEF Idle
      <3> QED BY <2>1, <2>2, <2>3, <3>1 DEF MachineShape
    <2>5. MachineInv BY <2>1, <2>2 DEF MachineInv, MachineOK
    <2> QED BY <2>4, <2>5
  <1> QED BY <1>2, <1>3, <1>4, <1>5, <1>6, <1>7 DEF Inv

LEMMA BeginInv ==
    ASSUME Inv, Begin PROVE Inv'
  <1>0. /\ TypeInv /\ JobsInv /\ EvidenceInv /\ RecordsInv /\ MachineShape /\ MachineInv
        /\ prog' = prog /\ phase = "pick" /\ phase' = "track" /\ pass' = pass
        /\ UNCHANGED <<intra, calls, inter, records, m>>
    BY DEF Inv, Begin
  <1> DEFINE j == job'
             f == j.fn
             e == Function(f).entry
             B == blocks'
             G == in'
  <1>1. j \in jobs /\ jobs' = jobs \ {j} BY DEF Begin
  <1>2. /\ B = Blocks(f) /\ dirty' = DOMAIN B
        /\ G = [s \in DOMAIN B |-> IF s = e THEN {SeedState(j.seed)} ELSE {}]
    BY DEF Begin
  <1> HIDE DEF j, B, G
  <1>3. JobOK(j, pass) BY <1>0, <1>1 DEF JobsInv
  <1>4. f \in Functions /\ SeedOK(j.seed) BY <1>3 DEF JobOK
  <1>5. DOMAIN G = DOMAIN B /\ \A s \in DOMAIN B :
          /\ s = e => G[s] = {SeedState(j.seed)}
          /\ s # e => G[s] = {}
    BY <1>2
  <1>6. StatesOK(G) BY <1>4, <1>5, SeedStateOK DEF StatesOK
  <1>7. Tracked(f, j.seed, G, DOMAIN B)
    <2>1. Weaker(SeedState(j.seed), SeedState(j.seed)) BY DEF Weaker, SamePayload
    <2> QED BY <1>2, <1>5, <1>6, <2>1 DEF Tracked
  <1>8. TypeInv' BY <1>0, <1>2, <1>5, <1>6 DEF TypeInv, G, B, StatesOK, StateOK, FactOK, Facts, Numeric
  <1>9. JobsInv' BY <1>0, <1>1, SameItems DEF JobsInv
  <1>10. TrackInv'
    <2>1. JobOK(job, pass)' BY <1>0, <1>3, SameItems DEF j
    <2>2. (blocks = Blocks(job.fn))' BY <1>0, <1>2, SameProgram DEF j, B
    <2>3. Tracked(job.fn, job.seed, in, dirty)'
      BY <1>0, <1>2, <1>7, SameProgram DEF j, B, G
    <2> QED BY <2>1, <2>2, <2>3 DEF TrackInv
  <1>11. EvidenceInv' BY <1>0, SameEvidence
  <1>12. RecordsInv' BY <1>0 DEF RecordsInv, HopsFrom
  <1>13. MachineShape' /\ MachineInv'
    BY <1>0, SameMachine DEF MachineShape
  <1> QED BY <1>8, <1>9, <1>10, <1>11, <1>12, <1>13 DEF Inv

LEMMA SameFacts ==
    ASSUME NEW x, StateOK(x)
    PROVE  Weaker(x, x) /\ Extends(x, x)
  <1>1. Weaker(x, x) BY DEF Weaker, SamePayload
  <1>2. ASSUME NEW r \in DOMAIN x
        PROVE  Len(x[r].path) <= Len(x[r].path)
               /\ \A k \in Len(x[r].path) + 1..Len(x[r].path) : FALSE
    <2>1. x[r].path \in Seq(Int) BY DEF StateOK, FactOK, Facts
    <2>2. Len(x[r].path) \in Nat BY <2>1
    <2> QED BY <2>2
  <1> QED BY <1>1, <1>2 DEF Extends, SamePayload

\* What a visit does: the block's facts weaken the blocks after it.
LEMMA VisitFacts ==
    ASSUME Inv, Visit
    PROVE  \E b \in Waiting : \E x \in in[b] :
             LET out == Through(x, b, blocks[b].last)
             IN  /\ StateOK(x) /\ StateOK(out)
                 /\ dirty' = (dirty \ {b}) \cup {s \in DOMAIN in : in'[s] # in[s]}
                 /\ DOMAIN in' = DOMAIN in /\ StatesOK(in')
                 /\ \A s \in DOMAIN in : \A old \in in[s] : \E new \in in'[s] :
                      Weaker(new, old) /\ Extends(new, old)
                 /\ \A s \in blocks[b].next : \E new \in in'[s] : Weaker(new, out)
  <1>0. TypeInv /\ TrackInv /\ phase = "track" /\ Waiting # {} BY DEF Inv, Visit
  <1> DEFINE f == job.fn
             D == DOMAIN Blocks(f)
  <1>1. /\ prog \in Programs /\ f \in Functions /\ blocks = Blocks(f)
        /\ DOMAIN in = D /\ dirty \subseteq D /\ StatesOK(in)
    BY <1>0 DEF TypeInv, TrackInv, JobOK
  <1> HIDE DEF f
  <1>2. D \subseteq Nat
    <2>1. D \subseteq Reachable(f) BY <1>1, BlocksFacts
    <2>2. Reachable(f) \subseteq 1 .. Size
      BY <1>1, ReachableFacts, DecodedFacts
    <2>3. 1 .. Size \subseteq Nat OBVIOUS
    <2> QED BY <2>1, <2>2, <2>3
  <1>3. \A S \in SUBSET Waiting : S # {} => Min(S) \in Waiting
    <2>1. Waiting \subseteq Nat BY <1>1, <1>2 DEF Waiting
    <2> QED BY <2>1, MinOf
  <1> DEFINE ahead == {s \in Waiting : s >= at}
             b == Min(IF ahead # {} THEN ahead ELSE Waiting)
             out == Through(StateAt(b), b, blocks[b].last)
  <1>4. b \in Waiting
    <2>1. ahead \in SUBSET Waiting OBVIOUS
    <2>2. Waiting \in SUBSET Waiting OBVIOUS
    <2> HIDE DEF ahead
    <2> QED BY <1>0, <1>3, <2>1, <2>2
  <1>5. in' = Joined(b, out) /\ dirty' = (dirty \ {b}) \cup Disturbed(b, in')
    BY DEF Visit
  <1> HIDE DEF b, out
  <1>6. b \in D /\ in[b] # {} BY <1>1, <1>4 DEF Waiting
  <1> DEFINE x == StateAt(b)
  <1>7. x \in in[b] BY <1>6 DEF StateAt
  <1> HIDE DEF x
  <1>8. StateOK(x) BY <1>1, <1>6, <1>7 DEF StatesOK
  <1> DEFINE l == Blocks(f)[b].last
  <1>9. out = Through(x, b, l) BY <1>1 DEF out, x
  <1>10. StateOK(out)
    <2>1. b <= l /\ l \in Reachable(f) BY <1>1, <1>6, BlocksFacts
    <2>2. Reachable(f) \subseteq 1 .. Size /\ Size \in Nat
      BY <1>1, ReachableFacts, DecodedFacts, ProgramFacts
    <2>3. b \in Nat /\ l \in Nat BY <1>2, <1>6, <2>1, <2>2
    <2>4. l \in b - 1 .. l
      <3> HIDE DEF l
      <3> QED BY <2>1, <2>3
    <2> QED BY <1>1, <1>6, <1>8, <1>9, <2>4, ThroughOK
  <1>11. DOMAIN in' = D BY <1>1, <1>5 DEF Joined
  <1>12. ASSUME NEW s \in D
         PROVE  /\ \A y \in in'[s] : StateOK(y)
                /\ \A y, z \in in'[s] : y = z
                /\ \A old \in in[s] : \E new \in in'[s] :
                     Weaker(new, old) /\ Extends(new, old)
                /\ s \in blocks[b].next => \E new \in in'[s] : Weaker(new, out)
    <2> DEFINE S == in[s]
               T == in'[s]
    <2>1. (\A y \in S : StateOK(y)) /\ (\A y, z \in S : y = z)
      BY <1>1 DEF StatesOK
    <2>2. T = IF s \in blocks[b].next THEN JoinInto(S, out) ELSE S
      BY <1>1, <1>5 DEF Joined
    <2> HIDE DEF S, T
    <2>3. CASE s \in blocks[b].next
      <3>1. PICK y : /\ JoinInto(S, out) = {y} /\ StateOK(y) /\ Weaker(y, out)
                     /\ \A z \in S : Weaker(y, z) /\ Extends(y, z)
        BY <1>10, <2>1, JoinFacts
      <3>2. T = {y} BY <2>2, <2>3, <3>1
      <3> QED BY <3>1, <3>2 DEF S, T
    <2>4. CASE s \notin blocks[b].next
      <3>1. T = S BY <2>2, <2>4
      <3> QED BY <2>1, <2>4, <3>1, SameFacts DEF S, T
    <2> QED BY <2>3, <2>4
  <1>13. blocks[b].next \subseteq D BY <1>1, <1>6, EdgeFacts
  <1>14. StatesOK(in') BY <1>11, <1>12 DEF StatesOK
  <1>15. Disturbed(b, in') = {s \in DOMAIN in : in'[s] # in[s]}
    <2>1. \A s \in DOMAIN in : in'[s] # in[s] => s \in blocks[b].next
      BY <1>5 DEF Joined
    <2> QED BY <1>1, <1>13, <2>1 DEF Disturbed
  <1>16. out = Through(x, b, blocks[b].last) BY <1>1, <1>9
  <1> HIDE DEF D, l
  <1>17. /\ DOMAIN in' = DOMAIN in /\ DOMAIN in = D BY <1>1, <1>11
  <1> QED
    BY <1>4, <1>5, <1>7, <1>8, <1>10, <1>12, <1>13, <1>14, <1>15, <1>16, <1>17

LEMMA VisitInv ==
    ASSUME Inv, Visit PROVE Inv'
  <1>0. /\ TypeInv /\ JobsInv /\ TrackInv /\ EvidenceInv /\ RecordsInv
        /\ MachineShape /\ MachineInv
        /\ prog' = prog /\ phase = "track" /\ phase' = phase
        /\ UNCHANGED <<pass, jobs, job, blocks, intra, calls, inter, records, m>>
    BY DEF Inv, Visit
  <1> DEFINE f == job.fn
             B == Blocks(f)
  <1>1. /\ prog \in Programs /\ f \in Functions /\ blocks = B
        /\ DOMAIN in = DOMAIN B /\ dirty \subseteq DOMAIN B
        /\ JobOK(job, pass) /\ Tracked(f, job.seed, in, dirty)
    BY <1>0 DEF TypeInv, TrackInv, JobOK
  <1>2. PICK b \in Waiting : \E x \in in[b] :
             LET out == Through(x, b, blocks[b].last)
             IN  /\ StateOK(x) /\ StateOK(out)
                 /\ dirty' = (dirty \ {b}) \cup {s \in DOMAIN in : in'[s] # in[s]}
                 /\ DOMAIN in' = DOMAIN in /\ StatesOK(in')
                 /\ \A s \in DOMAIN in : \A old \in in[s] : \E new \in in'[s] :
                      Weaker(new, old) /\ Extends(new, old)
                 /\ \A s \in blocks[b].next : \E new \in in'[s] : Weaker(new, out)
    BY VisitFacts
  <1>3. PICK x \in in[b] :
             LET out == Through(x, b, blocks[b].last)
             IN  /\ StateOK(x) /\ StateOK(out)
                 /\ dirty' = (dirty \ {b}) \cup {s \in DOMAIN in : in'[s] # in[s]}
                 /\ DOMAIN in' = DOMAIN in /\ StatesOK(in')
                 /\ \A s \in DOMAIN in : \A old \in in[s] : \E new \in in'[s] :
                      Weaker(new, old) /\ Extends(new, old)
                 /\ \A s \in blocks[b].next : \E new \in in'[s] : Weaker(new, out)
    BY <1>2
  <1> DEFINE G == in'
  <1> HIDE DEF f, B, G
  <1>4. b \in DOMAIN B /\ B[b].next \subseteq DOMAIN B
    <2>1. b \in DOMAIN B BY <1>1 DEF Waiting
    <2> QED BY <1>1, <2>1, EdgeFacts DEF B
  <1>5. /\ DOMAIN G = DOMAIN B /\ StatesOK(G)
        /\ \A s \in DOMAIN B : \A old \in in[s] : \E new \in G[s] : Weaker(new, old)
    BY <1>1, <1>3 DEF G
  <1>6. Tracked(f, job.seed, G, dirty')
    <2>1. ASSUME NEW s \in DOMAIN G, s = Function(f).entry
          PROVE  \E y \in G[s] : Weaker(y, SeedState(job.seed))
      <3>1. PICK old \in in[s] : Weaker(old, SeedState(job.seed))
        BY <1>1, <1>5, <2>1 DEF Tracked
      <3>2. PICK new \in G[s] : Weaker(new, old) BY <1>5
      <3> QED BY <3>1, <3>2 DEF Weaker, SamePayload
    <2>2. ASSUME NEW s \in DOMAIN G \ dirty', NEW z \in G[s], NEW t \in B[s].next
          PROVE  \E y \in G[t] : Weaker(y, Through(z, s, B[s].last))
      <3>1. s \in DOMAIN B /\ t \in DOMAIN B
        BY <1>1, <1>5, EdgeFacts DEF B
      <3>2. G[s] = in[s] /\ (s = b \/ s \notin dirty)
        BY <1>1, <1>3, <1>5 DEF G
      <3>3. CASE s = b
        <4>1. z = x BY <1>1, <3>1, <3>2, <3>3 DEF Tracked, StatesOK
        <4> QED BY <1>1, <1>3, <3>3, <4>1 DEF G
      <3>4. CASE s \notin dirty
        <4>1. PICK old \in in[t] : Weaker(old, Through(z, s, B[s].last))
          BY <1>1, <3>1, <3>2, <3>4 DEF Tracked, B
        <4>2. PICK new \in G[t] : Weaker(new, old) BY <1>5, <3>1
        <4> QED BY <4>1, <4>2 DEF Weaker, SamePayload
      <3> QED BY <3>2, <3>3, <3>4
    <2> QED BY <1>5, <2>1, <2>2 DEF Tracked, B
  <1>7. TypeInv'
    <2>1. dirty' \subseteq DOMAIN B BY <1>1, <1>3
    <2>2. StatesOK(in)'
      BY <1>3 DEF StatesOK, StateOK, FactOK, Facts, Numeric
    <2> QED BY <1>0, <1>1, <1>5, <2>1, <2>2 DEF TypeInv, G
  <1>8. JobsInv' BY <1>0, SameItems DEF JobsInv
  <1>9. TrackInv'
    <2>1. JobOK(job, pass)' BY <1>0, <1>1, SameItems
    <2>2. (blocks = Blocks(job.fn))' BY <1>0, <1>1, SameProgram DEF B, f
    <2>3. Tracked(job.fn, job.seed, in, dirty)'
      BY <1>0, <1>6, SameProgram DEF f, G
    <2> QED BY <2>1, <2>2, <2>3 DEF TrackInv
  <1>10. EvidenceInv' BY <1>0, SameEvidence
  <1>11. RecordsInv' BY <1>0 DEF RecordsInv, HopsFrom
  <1>12. MachineShape' /\ MachineInv'
    BY <1>0, SameMachine DEF MachineShape
  <1> QED BY <1>7, <1>8, <1>9, <1>10, <1>11, <1>12 DEF Inv

\* Tracking that has nothing left to visit is a certificate, and what the pass
\* takes from it is what the certificate shows.
LEMMA FixpointFacts ==
    ASSUME TypeInv, TrackInv, phase = "track", Waiting = {}
    PROVE  /\ job.fn \in Functions /\ Certificate(job.fn, job.seed, in)
           /\ \A c \in Candidates : c.fn = job.fn /\ Shows(in, c)
           /\ \A c \in CallFacts :
                /\ c.fn = job.fn /\ c.to = Insn(c.pc).to /\ SeedOK(c.seed)
                /\ c.seed = Seed(FactsIn(job.fn, in, c.pc))
  <1> DEFINE f == job.fn
  <1>1. /\ prog \in Programs /\ f \in Functions /\ SeedOK(job.seed)
        /\ blocks = Blocks(f) /\ Tracked(f, job.seed, in, dirty)
        /\ dirty \subseteq DOMAIN in /\ DOMAIN in = DOMAIN blocks /\ StatesOK(in)
    BY DEF TypeInv, TrackInv, JobOK
  <1> HIDE DEF f
  <1>2. Certificate(f, job.seed, in)
    <2>1. \A s \in dirty : in[s] = {} BY DEF Waiting
    <2>2. Tracked(f, job.seed, in, {}) BY <1>1, <2>1 DEF Tracked
    <2> QED BY <1>1, <2>2 DEF Certificate
  <1>3. \A p : FactsAt(p) = FactsIn(f, in, p)
    BY <1>1 DEF FactsAt, FactsIn, StartOf, StateIn, StateAt
  <1>4. Body \subseteq Reachable(f) BY <1>1, BlocksFacts DEF Body
  <1>5. ASSUME NEW c \in Candidates PROVE c.fn = f /\ Shows(in, c)
    <2>1. PICK p, x :
            /\ x \in Displaced(FactsAt(p), Insn(p).src, Insn(p).imm)
            /\ c = [fn |-> f, pc |-> p, target |-> x.base, offset |-> x.disp]
      <3> DEFINE Q == {q \in Body : Insn(q).op = "access"}
                 D(p) == Displaced(FactsAt(p), Insn(p).src, Insn(p).imm)
      <3>1. PICK z \in UNION {{p} \X D(p) : p \in Q} :
              c = [fn |-> f, pc |-> z[1], target |-> z[2].base, offset |-> z[2].disp]
        BY Zenon DEF Candidates, f
      <3> HIDE DEF D, Q
      <3>2. PICK p \in Q : z \in {p} \X D(p) BY <3>1
      <3>3. z[1] = p /\ z[2] \in D(p) BY <3>2
      <3> QED BY <3>1, <3>3 DEF D
    <2>2. c.fn = f /\ c.pc = p /\ c.target = x.base /\ c.offset = x.disp BY <2>1
    <2>3. x \in Displaced(FactsIn(f, in, p), Insn(p).src, Insn(p).imm)
      BY <1>3, <2>1
    <2> QED BY <2>2, <2>3 DEF Shows
  <1>6. ASSUME NEW s, StateOK(s) PROVE SeedOK(Seed(s))
    <2> DEFINE held == {r \in ArgRegs \cap DOMAIN s : s[r].base # Exact /\ s[r].disp = 0}
    <2>1. Seed(s) = [r \in held |-> s[r].base] BY DEF Seed
    <2>2. \A r \in held : r \in Regs /\ s[r].base \in Recovered
      BY <1>6 DEF StateOK, FactOK, Facts
    <2> HIDE DEF held
    <2> QED BY <2>1, <2>2 DEF SeedOK
  <1>7. ASSUME NEW c \in CallFacts
        PROVE  /\ c.fn = f /\ c.to = Insn(c.pc).to /\ SeedOK(c.seed)
               /\ c.seed = Seed(FactsIn(f, in, c.pc))
    <2>1. PICK p \in Body :
            c = [fn |-> f, pc |-> p, to |-> Insn(p).to, seed |-> Seed(FactsAt(p))]
      BY DEF CallFacts, f
    <2>2. c.fn = f /\ c.pc = p /\ c.to = Insn(p).to /\ c.seed = Seed(FactsIn(f, in, p))
      BY <1>3, <2>1
    <2>3. StateOK(FactsIn(f, in, p)) BY <1>1, <1>4, FactsInOK
    <2> QED BY <1>6, <2>2, <2>3
  <1> QED BY <1>1, <1>2, <1>5, <1>7 DEF f

LEMMA HarvestInv ==
    ASSUME Inv, Harvest PROVE Inv'
  <1>0. /\ TypeInv /\ JobsInv /\ TrackInv /\ EvidenceInv /\ RecordsInv
        /\ MachineShape /\ MachineInv
        /\ prog' = prog /\ phase = "track" /\ Waiting = {} /\ phase' = "pick"
        /\ UNCHANGED <<pass, jobs, job, blocks, in, dirty, records, m>>
    BY DEF Inv, Harvest
  <1> DEFINE f == job.fn
  <1>1. /\ f \in Functions /\ Certificate(f, job.seed, in)
        /\ \A c \in Candidates : c.fn = f /\ Shows(in, c)
        /\ \A c \in CallFacts :
                /\ c.fn = f /\ c.to = Insn(c.pc).to /\ SeedOK(c.seed)
                /\ c.seed = Seed(FactsIn(f, in, c.pc))
    BY <1>0, FixpointFacts
  <1> HIDE DEF f
  <1>2. TypeInv' BY <1>0 DEF TypeInv, StatesOK, StateOK, FactOK, Facts, Numeric
  <1>3. JobsInv' BY <1>0, SameItems DEF JobsInv
  <1>4. TrackInv' BY <1>0 DEF TrackInv
  <1>5. EvidenceInv'
    <2>1. CASE pass = 1
      <3>1. intra' = intra \cup Candidates /\ calls' = calls \cup CallFacts /\ inter' = inter
        BY <2>1 DEF Harvest
      <3>2. job.seed = Cold BY <1>0, <2>1 DEF TrackInv, JobOK
      <3>3. \A c \in Candidates : IntraItem(c) BY <1>1, <3>2 DEF IntraItem
      <3>4. \A c \in CallFacts : CallItem(c) BY <1>1, <3>2 DEF CallItem
      <3>5. \A c \in inter : InterItem(c, calls \cup CallFacts)
        BY <1>0 DEF EvidenceInv, InterItem
      <3> QED BY <1>0, <3>1, <3>3, <3>4, <3>5, SameItems DEF EvidenceInv
    <2>2. CASE pass # 1
      <3>1. intra' = intra /\ calls' = calls /\ inter' = inter \cup Seeded
        BY <2>2 DEF Harvest
      <3>2. ASSUME NEW c \in Seeded PROVE InterItem(c, calls)
        <4>1. PICK x \in Candidates :
                c = [fn |-> x.fn, pc |-> x.pc, target |-> x.target, offset |-> x.offset,
                     via |-> Hops(job, x.target)]
          BY DEF Seeded
        <4>2. x.fn = f /\ Shows(in, x) BY <1>1
        <4>3. /\ c.fn = f /\ c.pc = x.pc /\ c.target = x.target /\ c.offset = x.offset
              /\ c.via = Hops(job, x.target)
          BY <4>1, <4>2
        <4>4. Shows(in, c) BY <4>2, <4>3 DEF Shows
        <4>5. ASSUME NEW h \in c.via
              PROVE  \E k \in calls : k.fn = h.caller /\ k.pc = h.pc
                                      /\ k.seed = job.seed /\ Callee(k.to) = {f}
          <5>1. h \in Hops(job, x.target) BY <4>3
          <5>2. PICK k \in calls : /\ Callee(k.to) = {job.fn} /\ k.seed = job.seed
                                   /\ \E r : h = [caller |-> k.fn, pc |-> k.pc, reg |-> r]
            BY <5>1 DEF Hops
          <5> QED BY <5>2 DEF f
        <4> QED BY <1>1, <4>3, <4>4, <4>5 DEF InterItem
      <3> QED BY <1>0, <3>1, <3>2, SameItems DEF EvidenceInv
    <2> QED BY <2>1, <2>2
  <1>6. RecordsInv'
    <2>1. inter \subseteq inter' BY DEF Harvest
    <2> QED BY <1>0, <2>1 DEF RecordsInv, HopsFrom
  <1>7. MachineShape' /\ MachineInv' BY <1>0, SameMachine DEF MachineShape
  <1> QED BY <1>2, <1>3, <1>4, <1>5, <1>6, <1>7 DEF Inv

LEMMA GroupInv ==
    ASSUME Inv, Group PROVE Inv'
  <1>0. /\ TypeInv /\ TrackInv /\ EvidenceInv /\ RecordsInv
        /\ MachineShape /\ MachineInv
        /\ prog' = prog /\ phase = "pick" /\ phase' = phase /\ pass' = 2 /\ jobs' = Groups
        /\ UNCHANGED <<job, blocks, in, dirty, intra, calls, inter, records, m>>
    BY DEF Inv, Group
  <1>1. TypeInv' BY <1>0 DEF TypeInv, StatesOK, StateOK, FactOK, Facts, Numeric
  <1>2. JobsInv'
    <2>1. ASSUME NEW j \in Groups PROVE JobOK(j, 2)
      <3>1. PICK c \in calls : \E f \in Callee(c.to) : j = [fn |-> f, seed |-> c.seed]
        BY DEF Groups
      <3>2. PICK f \in Callee(c.to) : j = [fn |-> f, seed |-> c.seed] BY <3>1
      <3>3. f \in Functions BY DEF Callee
      <3>4. SeedOK(c.seed) BY <1>0 DEF EvidenceInv, CallItem
      <3> QED BY <3>2, <3>3, <3>4 DEF JobOK
    <2> QED BY <1>0, <2>1, SameItems DEF JobsInv
  <1>3. TrackInv' BY <1>0 DEF TrackInv
  <1>4. EvidenceInv' BY <1>0, SameEvidence
  <1>5. RecordsInv' BY <1>0 DEF RecordsInv, HopsFrom
  <1>6. MachineShape' /\ MachineInv' BY <1>0, SameMachine DEF MachineShape
  <1> QED BY <1>1, <1>2, <1>3, <1>4, <1>5, <1>6 DEF Inv

LEMMA AggregateInv ==
    ASSUME Inv, Aggregate PROVE Inv'
  <1>0. /\ TypeInv /\ JobsInv /\ TrackInv /\ EvidenceInv
        /\ MachineShape /\ MachineInv
        /\ prog' = prog /\ phase = "pick" /\ phase' = "merge"
        /\ records' = [g \in Recovered |-> [obs |-> Agreed(g), conflicts |-> Conflicts(g)]]
        /\ UNCHANGED <<pass, jobs, job, blocks, in, dirty, intra, calls, inter, m>>
    BY DEF Inv, Aggregate
  <1>1. /\ DOMAIN records' = Recovered
        /\ \A g \in Recovered :
             /\ records'[g] = [obs |-> records'[g].obs, conflicts |-> records'[g].conflicts]
             /\ records'[g].obs = Agreed(g)
    BY <1>0
  <1>2. TypeInv' BY <1>0, <1>1 DEF TypeInv, StatesOK, StateOK, FactOK, Facts, Numeric
  <1>3. JobsInv' BY <1>0, SameItems DEF JobsInv
  <1>4. TrackInv' BY <1>0 DEF TrackInv
  <1>5. EvidenceInv' BY <1>0, SameEvidence
  <1>6. RecordsInv'
    <2>1. ASSUME NEW g, NEW o \in Agreed(g) PROVE o.via = {} BY DEF Agreed
    <2> QED BY <1>1, <2>1 DEF RecordsInv, HopsFrom
  <1>7. MachineShape' /\ MachineInv' BY <1>0, SameMachine DEF MachineShape
  <1> QED BY <1>2, <1>3, <1>4, <1>5, <1>6, <1>7 DEF Inv

LEMMA MergeFacts ==
    ASSUME TypeInv, MergeInterprocedural, NEW g \in Recovered
    PROVE  /\ DOMAIN records' = Recovered
           /\ records'[g] = [obs |-> Merged(g), conflicts |-> records[g].conflicts]
           /\ records'[g].obs = Merged(g) /\ records'[g].conflicts = records[g].conflicts
  <1>1. records' = [h \in Recovered |-> [records[h] EXCEPT !.obs = Merged(h)]]
    BY DEF MergeInterprocedural
  <1>2. records[g] = [obs |-> records[g].obs, conflicts |-> records[g].conflicts]
    BY DEF TypeInv
  <1> DEFINE M == Merged(g)
             r == records[g]
  <1>3. records'[g] = [r EXCEPT !.obs = M] BY <1>1
  <1> HIDE DEF M, r
  <1>4. [r EXCEPT !.obs = M] = [obs |-> M, conflicts |-> r.conflicts] BY <1>2 DEF r
  <1>5. DOMAIN records' = Recovered BY <1>1
  <1> QED BY <1>3, <1>4, <1>5 DEF M, r

LEMMA MergeInv ==
    ASSUME Inv, MergeInterprocedural PROVE Inv'
  <1>0. /\ TypeInv /\ JobsInv /\ TrackInv /\ EvidenceInv /\ RecordsInv
        /\ MachineShape /\ MachineInv
        /\ prog' = prog /\ phase = "merge" /\ phase' = "done"
        /\ UNCHANGED <<pass, jobs, job, blocks, in, dirty, intra, calls, inter, m>>
    BY DEF Inv, MergeInterprocedural
  <1>1. \A g \in Recovered :
          /\ records'[g] = [obs |-> Merged(g), conflicts |-> records[g].conflicts]
          /\ records'[g].obs = Merged(g) /\ records'[g].conflicts = records[g].conflicts
    BY <1>0, MergeFacts
  <1>2. DOMAIN records' = Recovered BY DEF MergeInterprocedural
  <1>3. TypeInv' BY <1>0, <1>1, <1>2 DEF TypeInv, StatesOK, StateOK, FactOK, Facts, Numeric
  <1>4. JobsInv' BY <1>0, SameItems DEF JobsInv
  <1>5. TrackInv' BY <1>0 DEF TrackInv
  <1>6. EvidenceInv' BY <1>0, SameEvidence
  <1>7. RecordsInv'
    <2>1. ASSUME NEW g \in Recovered, NEW o \in Merged(g)
          PROVE  HopsFrom(g, o, inter)
      <3>1. PICK k : /\ o.pc = k[1] /\ o.offset = k[2]
                     /\ o.via = UNION {c.via : c \in {x \in Kept(g) : <<x.pc, x.offset>> = k}}
        BY DEF Merged
      <3>2. ASSUME NEW h \in o.via
            PROVE  \E c \in inter : c.pc = o.pc /\ c.offset = o.offset
                                    /\ c.target = g /\ h \in c.via
        <4>1. PICK c \in Kept(g) : <<c.pc, c.offset>> = k /\ h \in c.via BY <3>1, <3>2
        <4>2. c \in inter /\ c.target = g BY DEF Kept
        <4>3. c.pc = o.pc /\ c.offset = o.offset BY <3>1, <4>1
        <4> QED BY <4>1, <4>2, <4>3
      <3> QED BY <3>2 DEF HopsFrom
    <2>2. inter' = inter /\ \A g \in Recovered : records'[g].obs = Merged(g)
      BY <1>0, <1>1
    <2>3. \A g \in Recovered : \A o \in records'[g].obs : HopsFrom(g, o, inter')
      BY <2>1, <2>2
    <2> QED BY <2>3 DEF RecordsInv, HopsFrom
  <1>8. MachineShape' /\ MachineInv' BY <1>0, SameMachine DEF MachineShape
  <1> QED BY <1>3, <1>4, <1>5, <1>6, <1>7, <1>8 DEF Inv

\* What the processor does leaves the analysis alone.
LEMMA AnalysisKept ==
    ASSUME Inv, UNCHANGED <<prog, analysis>>
    PROVE  TypeInv' /\ JobsInv' /\ TrackInv' /\ EvidenceInv' /\ RecordsInv'
  <1>0. /\ TypeInv /\ JobsInv /\ TrackInv /\ EvidenceInv /\ RecordsInv /\ prog' = prog
        /\ UNCHANGED <<phase, pass, jobs, job, blocks, in, dirty, intra, calls, inter, records>>
    BY DEF Inv, analysis
  <1>1. TypeInv' BY <1>0 DEF TypeInv, StatesOK, StateOK, FactOK, Facts, Numeric
  <1>2. JobsInv' BY <1>0, SameItems DEF JobsInv
  <1>3. TrackInv' BY <1>0, SameItems, SameProgram DEF TrackInv
  <1>4. EvidenceInv' BY <1>0, SameEvidence
  <1>5. RecordsInv' BY <1>0 DEF RecordsInv, HopsFrom
  <1> QED BY <1>1, <1>2, <1>3, <1>4, <1>5

LEMMA MachineKept ==
    ASSUME Inv, UNCHANGED <<prog, analysis>>, phase = "done",
           NEW v, m' = v, v = [fn |-> v.fn, pc |-> v.pc, via |-> v.via, regs |-> v.regs],
           v.fn \in Functions, v.regs \in Registers, MachineOK(v, calls), 0 \notin Functions
    PROVE  Inv'
  <1>1. prog' = prog /\ calls' = calls /\ phase' = phase BY DEF analysis
  <1>2. MachineShape' BY <1>1, SameProgram DEF MachineShape, Registers
  <1>3. MachineInv' BY <1>1, SameMachine DEF MachineInv
  <1> QED BY <1>2, <1>3, AnalysisKept DEF Inv

LEMMA StartInv ==
    ASSUME Inv, Start, UNCHANGED <<prog, analysis>> PROVE Inv'
  <1>0. TypeInv /\ MachineShape /\ prog \in Programs /\ EvidenceInv /\ phase = "done" /\ m.fn = 0
    BY DEF Inv, TypeInv, Start
  <1>1. PICK f \in Functions : m' = [m EXCEPT !.fn = f, !.pc = Function(f).entry]
    BY DEF Start
  <1> DEFINE v == [fn |-> f, pc |-> Function(f).entry, via |-> Cold,
                   regs |-> [r \in Regs |-> Unknown]]
  <1>2. m' = v
    <2> DEFINE e == Function(f).entry
               regs == [r \in Regs |-> Unknown]
    <2>1. m = [fn |-> 0, pc |-> 0, via |-> Cold, regs |-> regs]
      BY <1>0 DEF MachineShape, Idle
    <2>2. m' = [m EXCEPT !.fn = f, !.pc = e] BY <1>1
    <2> HIDE DEF e, regs
    <2>3. m' = [fn |-> f, pc |-> e, via |-> Cold, regs |-> regs] BY <2>1, <2>2
    <2> QED BY <2>3 DEF e, regs
  <1>3. /\ v.fn = f /\ v.pc = Function(f).entry /\ v.via = Cold
        /\ v.regs = [r \in Regs |-> Unknown]
        /\ v = [fn |-> v.fn, pc |-> v.pc, via |-> v.via, regs |-> v.regs]
    OBVIOUS
  <1> HIDE DEF v
  <1>4. v.regs \in Registers BY <1>3 DEF Registers
  <1>5. MachineOK(v, calls)
    <2> SUFFICES ASSUME v.pc \in Decoded(f)
                 PROVE  /\ v.pc \in Reachable(f)
                        /\ \A seed, G :
                             Certificate(f, seed, G) /\ Justified(Cold, seed, calls)
                               => /\ G[StartOf(f, v.pc)] # {}
                                  /\ Holds(FactsIn(f, G, v.pc), v.regs)
      BY <1>3 DEF MachineOK
    <2>1. v.pc \in Reachable(f) BY <1>0, <1>3, ReachableFacts
    <2>2. ASSUME NEW seed, NEW G, Certificate(f, seed, G), Justified(Cold, seed, calls)
          PROVE  G[StartOf(f, v.pc)] # {} /\ Holds(FactsIn(f, G, v.pc), v.regs)
      <3>1. seed = Cold
        <4>1. \A a, b : <<a, b>> # Cold BY DEF Cold
        <4> QED BY <2>2, <4>1 DEF Justified
      <3>2. Holds(SeedState(seed), v.regs) BY <3>1, ColdOK DEF Holds, SeedState
      <3> QED BY <1>0, <1>3, <2>2, <3>2, EntryHolds
    <2> QED BY <2>1, <2>2
  <1>6. 0 \notin Functions BY <1>0, ProgramFacts
  <1> QED BY <1>0, <1>2, <1>3, <1>4, <1>5, <1>6, MachineKept

LEMMA StepInv ==
    ASSUME Inv, Step, UNCHANGED <<prog, analysis>> PROVE Inv'
  <1> DEFINE f == m.fn
             p == m.pc
             i == Insn(p)
  <1>0. /\ TypeInv /\ MachineShape /\ MachineInv /\ prog \in Programs
        /\ phase = "done" /\ f # 0 /\ f \in Functions /\ p \in Decoded(f)
        /\ i.op # "stop" /\ m.regs \in Registers
    BY DEF Inv, TypeInv, Step, Running, MachineShape
  <1>1. PICK holds \in IF i.cond THEN BOOLEAN ELSE {TRUE} :
            m' = [m EXCEPT !.regs = IF holds THEN Executed(i, @) ELSE @,
                           !.pc   = IF holds /\ i.op = "branch" THEN i.to ELSE @ + 1]
    BY DEF Step
  <1> DEFINE q == IF holds /\ i.op = "branch" THEN i.to ELSE p + 1
             regs2 == IF holds THEN Executed(i, m.regs) ELSE m.regs
             v == [fn |-> f, pc |-> q, via |-> m.via, regs |-> regs2]
  <1>2. holds \in BOOLEAN /\ (holds \/ i.cond) /\ InsnOK(i)
    BY <1>0, <1>1, DecodedFacts DEF InsnOK
  <1>3. m' = v
    <2> HIDE DEF q, regs2
    <2>1. m' = [m EXCEPT !.regs = regs2, !.pc = q] BY <1>1 DEF q, regs2
    <2>2. m = [fn |-> m.fn, pc |-> m.pc, via |-> m.via, regs |-> m.regs]
      BY <1>0 DEF MachineShape
    <2> QED BY <2>1, <2>2
  <1>4. /\ v.fn = f /\ v.pc = q /\ v.via = m.via /\ v.regs = regs2
        /\ v = [fn |-> v.fn, pc |-> v.pc, via |-> v.via, regs |-> v.regs]
    OBVIOUS
  <1>5. regs2 \in Registers BY <1>0, <1>2, ExecutedType
  <1> HIDE DEF v
  <1>6. MachineOK(v, calls)
    <2>1. v.via # Cold => Function(f).entry = Insn(v.via[2]).to
      BY <1>0, <1>4 DEF MachineInv, MachineOK
    <2>2. ASSUME q \in Decoded(f)
          PROVE  /\ q \in Reachable(f)
                 /\ \A seed, G :
                      Certificate(f, seed, G) /\ Justified(m.via, seed, calls)
                        => G[StartOf(f, q)] # {} /\ Holds(FactsIn(f, G, q), regs2)
      <3>1. p \in Reachable(f) BY <1>0 DEF MachineInv, MachineOK
      <3>2. q \in Reachable(f)
        <4>1. q \in Successors(f, p) BY <1>0, <1>2, <2>2, FlowFacts
        <4> QED BY <1>0, <3>1, <4>1, ReachableFacts
      <3>3. ASSUME NEW seed, NEW G, Certificate(f, seed, G), Justified(m.via, seed, calls)
            PROVE  G[StartOf(f, q)] # {} /\ Holds(FactsIn(f, G, q), regs2)
        <4>1. G[StartOf(f, p)] # {} /\ Holds(FactsIn(f, G, p), m.regs)
          BY <1>0, <3>3 DEF MachineInv, MachineOK
        <4> QED BY <1>0, <1>2, <2>2, <3>1, <3>3, <4>1, StepHolds
      <3> QED BY <3>2, <3>3
    <2> HIDE DEF q, regs2
    <2> QED BY <1>4, <2>1, <2>2 DEF MachineOK
  <1>7. 0 \notin Functions BY <1>0, ProgramFacts
  <1> QED BY <1>0, <1>3, <1>4, <1>5, <1>6, <1>7, MachineKept

LEMMA EnterInv ==
    ASSUME Inv, Enter, UNCHANGED <<prog, analysis>> PROVE Inv'
  <1> DEFINE p == m.pc
  <1>0. /\ TypeInv /\ MachineShape /\ MachineInv /\ EvidenceInv /\ prog \in Programs
        /\ phase = "done" /\ m.fn # 0 /\ m.fn \in Functions /\ p \in Decoded(m.fn)
        /\ m.regs \in Registers /\ m.via = Cold
    BY DEF Inv, TypeInv, Enter, Running, MachineShape
  <1>1. PICK f \in Functions :
          /\ Function(f).entry = Insn(m.pc).to
          /\ m' = [m EXCEPT !.fn = f, !.pc = Function(f).entry, !.via = <<m.fn, m.pc>>]
    BY DEF Enter
  <1> DEFINE e == Function(f).entry
             via == <<m.fn, p>>
             v == [fn |-> f, pc |-> e, via |-> via, regs |-> m.regs]
  <1>2. m' = v
    <2> HIDE DEF e, via
    <2>1. m' = [m EXCEPT !.fn = f, !.pc = e, !.via = via] BY <1>1 DEF e, via
    <2>2. m = [fn |-> m.fn, pc |-> m.pc, via |-> m.via, regs |-> m.regs]
      BY <1>0 DEF MachineShape
    <2> QED BY <2>1, <2>2
  <1>3. /\ v.fn = f /\ v.pc = e /\ v.via = via /\ v.regs = m.regs
        /\ v = [fn |-> v.fn, pc |-> v.pc, via |-> v.via, regs |-> v.regs]
    OBVIOUS
  <1> HIDE DEF v
  <1>4. MachineOK(v, calls)
    <2>1. via[2] = p OBVIOUS
    <2>2. ASSUME e \in Decoded(f)
          PROVE  /\ e \in Reachable(f)
                 /\ \A seed, G :
                      Certificate(f, seed, G) /\ Justified(via, seed, calls)
                        => G[StartOf(f, e)] # {} /\ Holds(FactsIn(f, G, e), m.regs)
      <3>1. e \in Reachable(f) BY <1>0, <2>2, ReachableFacts
      <3>2. ASSUME NEW seed, NEW G, Certificate(f, seed, G), Justified(via, seed, calls)
            PROVE  G[StartOf(f, e)] # {} /\ Holds(FactsIn(f, G, e), m.regs)
        <4>1. Holds(SeedState(seed), m.regs)
          <5>1. CASE seed = Cold BY <5>1, ColdOK DEF Holds, SeedState
          <5>2. CASE seed # Cold
            <6>1. PICK k \in calls : <<k.fn, k.pc>> = via /\ k.seed = seed
              BY <3>2, <5>2 DEF Justified
            <6>2. k.fn = m.fn /\ k.pc = p BY <6>1
            <6>3. PICK H : Certificate(m.fn, Cold, H) /\ k.seed = Seed(FactsIn(m.fn, H, p))
              BY <1>0, <6>2 DEF EvidenceInv, CallItem
            <6>4. Holds(FactsIn(m.fn, H, p), m.regs)
              BY <1>0, <6>3 DEF MachineInv, MachineOK, Justified
            <6> DEFINE s == FactsIn(m.fn, H, p)
            <6>5. seed = Seed(s) /\ Holds(s, m.regs) BY <6>1, <6>3, <6>4
            <6> HIDE DEF s
            <6>6. ASSUME NEW r \in DOMAIN seed
                  PROVE  SeedState(seed)[r].base = s[r].base
                         /\ SeedState(seed)[r].disp = s[r].disp /\ r \in DOMAIN s
              BY <6>5 DEF Seed, SeedState
            <6>7. DOMAIN SeedState(seed) = DOMAIN seed BY DEF SeedState
            <6> QED BY <6>5, <6>6, <6>7 DEF Holds, Numeric
          <5> QED BY <5>1, <5>2
        <4> QED BY <1>0, <2>2, <3>2, <4>1, EntryHolds
      <3> QED BY <3>1, <3>2
    <2>3. Function(f).entry = Insn(via[2]).to BY <1>1, <2>1
    <2> HIDE DEF via
    <2> QED BY <1>3, <2>2, <2>3 DEF MachineOK
  <1>5. 0 \notin Functions BY <1>0, ProgramFacts
  <1> QED BY <1>0, <1>2, <1>3, <1>4, <1>5, MachineKept

LEMMA StutterInv ==
    ASSUME Inv, UNCHANGED vars PROVE Inv'
  <1>1. prog' = prog /\ UNCHANGED <<prog, analysis>> /\ m' = m
        /\ phase' = phase /\ calls' = calls
    BY DEF vars, analysis
  <1>2. MachineShape' /\ MachineInv' BY <1>1, SameMachine DEF Inv
  <1> QED BY <1>1, <1>2, AnalysisKept DEF Inv

\* The invariant holds in every state.
LEMMA Invariance == Spec => []Inv
  <1>1. Init => Inv BY InitInv
  <1>2. Inv /\ [Next]_vars => Inv'
    BY BeginInv, VisitInv, HarvestInv, GroupInv, AggregateInv, MergeInv,
       StartInv, StepInv, EnterInv, StutterInv DEF Next, Analyze, Execute
  <1> QED BY <1>1, <1>2, PTL DEF Spec

-----------------------------------------------------------------------------
(* The properties.                                                         *)

LEMMA TypesFollow ==
    ASSUME Inv PROVE TypeOK
  <1>0. TypeInv /\ MachineShape BY DEF Inv
  <1>1. ASSUME NEW s \in DOMAIN in, NEW state \in in[s], NEW r \in DOMAIN state
        PROVE  /\ r \in Regs /\ state[r].base \in Recovered \cup {Exact}
               /\ Numeric(state[r]) \in 0..Top
    <2>1. StateOK(state) BY <1>0 DEF TypeInv, StatesOK
    <2>2. r \in Regs /\ FactOK(state[r]) BY <2>1 DEF StateOK
    <2> QED BY <2>2 DEF FactOK, Facts
  <1> QED BY <1>0, <1>1 DEF TypeOK, TypeInv, MachineShape, Registers

\* An access shows what it accesses: if its evidence's certificate covers the
\* processor, the address is the claimed one.
LEMMA ShownIsAccessed ==
    ASSUME Inv, m.fn # 0, m.pc \in Decoded(m.fn),
           NEW c, c.fn = m.fn, c.pc = m.pc, NEW seed, NEW G,
           Certificate(m.fn, seed, G), Shows(G, c), Justified(m.via, seed, calls)
    PROVE  Accessed \in {c.target + c.offset, Returned}
  <1> DEFINE i == Insn(m.pc)
             s == FactsIn(m.fn, G, m.pc)
  <1>0. /\ prog \in Programs /\ m.fn \in Functions /\ m.regs \in Registers /\ MachineInv
    BY DEF Inv, TypeInv, MachineShape
  <1>1. m.pc \in Reachable(m.fn) /\ Holds(s, m.regs)
    BY <1>0 DEF MachineInv, MachineOK
  <1>2. StateOK(s) BY <1>0, <1>1, FactsInOK DEF Certificate, Tracked
  <1>3. i.imm \in Int BY <1>0, DecodedFacts DEF InsnOK
  <1>4. PICK x \in Displaced(s, i.src, i.imm) : x.base = c.target /\ x.disp = c.offset
    BY DEF Shows
  <1> HIDE DEF s, i
  <1>5. Sum(m.regs[i.src], i.imm) \in {Numeric(x), Returned}
    BY <1>0, <1>1, <1>2, <1>3, DisplacedHolds
  <1>6. Numeric(x) = c.target + c.offset BY <1>4 DEF Numeric
  <1> QED BY <1>5, <1>6 DEF Accessed, i

LEMMA ClaimsFollow ==
    ASSUME Inv, NEW a \in Claims PROVE Accessed \in {a, Returned}
  <1>0. /\ prog \in Programs /\ EvidenceInv /\ RecordsInv /\ MachineShape /\ MachineInv
    BY DEF Inv, TypeInv
  <1>1. Running BY DEF Claims
  <1>2. m.fn # 0 /\ m.pc \in Decoded(m.fn) /\ m.fn \in Functions
    BY <1>0, <1>1 DEF Running, MachineShape
  <1> DEFINE Said(g, x) ==
               /\ x.pc = m.pc /\ m.fn \in x.fns
               /\ \/ \E c \in intra : /\ c.fn = m.fn /\ c.pc = m.pc
                                      /\ c.target = g /\ c.offset = x.offset
                  \/ \E h \in x.via : <<h.caller, h.pc>> = m.via
  <1>3. PICK g \in Recovered : \E o \in records[g].obs : Said(g, o) /\ a = g + o.offset
    BY DEF Claims
  <1>4. PICK o \in records[g].obs : Said(g, o) /\ a = g + o.offset BY <1>3
  <1>5. CASE \E c \in intra : c.fn = m.fn /\ c.pc = m.pc /\ c.target = g /\ c.offset = o.offset
    <2>1. PICK c \in intra : c.fn = m.fn /\ c.pc = m.pc /\ c.target = g /\ c.offset = o.offset
      BY <1>5
    <2>2. PICK G : Certificate(m.fn, Cold, G) /\ Shows(G, c)
      BY <1>0, <2>1 DEF EvidenceInv, IntraItem
    <2>3. Justified(m.via, Cold, calls) BY DEF Justified
    <2> QED BY <1>2, <1>4, <2>1, <2>2, <2>3, ShownIsAccessed
  <1>6. CASE \E h \in o.via : <<h.caller, h.pc>> = m.via
    <2>1. PICK h \in o.via : <<h.caller, h.pc>> = m.via BY <1>6
    <2>2. PICK c \in inter : c.pc = o.pc /\ c.offset = o.offset /\ c.target = g /\ h \in c.via
      BY <1>0, <2>1 DEF RecordsInv, HopsFrom
    <2>3. PICK G, seed :
            /\ Certificate(c.fn, seed, G) /\ Shows(G, c)
            /\ \A x \in c.via : \E k \in calls :
                 k.fn = x.caller /\ k.pc = x.pc /\ k.seed = seed /\ Callee(k.to) = {c.fn}
      BY <1>0, <2>2 DEF EvidenceInv, InterItem
    <2>4. PICK k \in calls :
            k.fn = h.caller /\ k.pc = h.pc /\ k.seed = seed /\ Callee(k.to) = {c.fn}
      BY <2>2, <2>3
    <2>5. m.via # Cold /\ m.via[2] = k.pc
      <3>1. m.via = <<h.caller, k.pc>> BY <2>1, <2>4
      <3> QED BY <3>1 DEF Cold
    <2>6. Function(m.fn).entry = k.to
      <3>1. k.to = Insn(k.pc).to BY <1>0 DEF EvidenceInv, CallItem
      <3> QED BY <1>0, <1>2, <2>5, <3>1 DEF MachineInv, MachineOK
    <2>7. m.fn = c.fn
      <3>1. m.fn \in {f \in Functions : Function(f).entry = k.to} BY <1>2, <2>6
      <3>2. m.fn \in Callee(k.to) BY <2>4, <3>1 DEF Callee
      <3> QED BY <2>4, <3>2
    <2>8. Justified(m.via, seed, calls) BY <2>1, <2>4 DEF Justified
    <2> QED BY <1>2, <1>4, <2>2, <2>3, <2>7, <2>8, ShownIsAccessed
  <1> QED BY <1>4, <1>5, <1>6

\* What global_shapes.json says of an access is what the processor does there,
\* for every program, whatever functions overlap, recurse or call each other,
\* in the function the observation names and by the calls its hops name
\* (track.rs, interproc.rs, aggregate.rs).
THEOREM Observations == Spec => []ObservationsTrue
  <1>1. Inv => ObservationsTrue BY TypesFollow, ClaimsFollow DEF ObservationsTrue
  <1> QED BY <1>1, Invariance, PTL

\* Evidence from calls joins what a function's own evidence agreed on or is new
\* where there is none; it never removes, contradicts or demotes
\* (merge_interprocedural).
THEOREM SeedsAdd == Spec => SeedsOnlyAdd
  <1> DEFINE A == phase = "merge" =>
        \A g \in Recovered :
            /\ Status(g) = "inferred" => Status(g)' = "inferred"
            /\ Status(g)' = "conflicting" => Status(g) = "conflicting"
            /\ \A o \in records[g].obs : \E n \in records'[g].obs :
                 n.pc = o.pc /\ n.offset = o.offset /\ o.fns \subseteq n.fns
            /\ \A n \in records'[g].obs :
                 (\E o \in records[g].obs : o.pc = n.pc)
                    => \E o \in records[g].obs : o.pc = n.pc /\ o.offset = n.offset
  <1>1. ASSUME Inv, [Next]_vars PROVE [A]_vars
    <2> SUFFICES ASSUME phase = "merge", vars' # vars, NEW g \in Recovered
                 PROVE
            /\ Status(g) = "inferred" => Status(g)' = "inferred"
            /\ Status(g)' = "conflicting" => Status(g) = "conflicting"
            /\ \A o \in records[g].obs : \E n \in records'[g].obs :
                 n.pc = o.pc /\ n.offset = o.offset /\ o.fns \subseteq n.fns
            /\ \A n \in records'[g].obs :
                 (\E o \in records[g].obs : o.pc = n.pc)
                    => \E o \in records[g].obs : o.pc = n.pc /\ o.offset = n.offset
      OBVIOUS
    <2>1. MergeInterprocedural
      BY <1>1 DEF Next, Analyze, Execute, Begin, Visit, Harvest, Group, Aggregate,
                  Start, Step, Enter, Running
    <2>2. TypeInv BY <1>1 DEF Inv
    <2>3. records'[g].obs = Merged(g) /\ records'[g].conflicts = records[g].conflicts
      BY <2>1, <2>2, MergeFacts
    <2>4. ASSUME NEW o \in records[g].obs
          PROVE  \E n \in Merged(g) : n.pc = o.pc /\ n.offset = o.offset /\ o.fns \subseteq n.fns
      <3> DEFINE k == <<o.pc, o.offset>>
                 obs == {x \in records[g].obs : <<x.pc, x.offset>> = k}
                 from == {c \in Kept(g) : <<c.pc, c.offset>> = k}
                 n == [pc |-> k[1], offset |-> k[2], via |-> UNION {c.via : c \in from},
                       fns |-> UNION {x.fns : x \in obs} \cup {c.fn : c \in from}]
      <3>1. k \in {<<x.pc, x.offset>> : x \in records[g].obs}
                    \cup {<<c.pc, c.offset>> : c \in Kept(g)}
        OBVIOUS
      <3>2. n \in Merged(g)
        <4> HIDE DEF k
        <4> QED BY <3>1 DEF Merged
      <3>3. n.pc = o.pc /\ n.offset = o.offset /\ o.fns \subseteq n.fns OBVIOUS
      <3> HIDE DEF n
      <3> QED BY <3>2, <3>3
    <2>5. ASSUME NEW n \in Merged(g), NEW o \in records[g].obs, o.pc = n.pc
          PROVE  \E x \in records[g].obs : x.pc = n.pc /\ x.offset = n.offset
      <3>1. PICK k \in {<<x.pc, x.offset>> : x \in records[g].obs}
                          \cup {<<c.pc, c.offset>> : c \in Kept(g)} :
              n.pc = k[1] /\ n.offset = k[2]
        BY DEF Merged
      <3>2. CASE k \in {<<x.pc, x.offset>> : x \in records[g].obs} BY <3>1, <3>2
      <3>3. CASE k \in {<<c.pc, c.offset>> : c \in Kept(g)}
        <4>1. PICK c \in Kept(g) : c.pc = n.pc /\ c.offset = n.offset BY <3>1, <3>3
        <4>2. o \in {x \in records[g].obs : x.pc = c.pc} BY <2>5, <4>1
        <4>3. \E x \in {y \in records[g].obs : y.pc = c.pc} : x.offset = c.offset
          BY <4>1, <4>2 DEF Kept
        <4> QED BY <4>1, <4>3
      <3> QED BY <3>1, <3>2, <3>3
    <2>6. Status(g) = "inferred" => Status(g)' = "inferred"
      <3>1. records[g].obs # {} => Merged(g) # {} BY <2>4
      <3> QED BY <2>3, <3>1 DEF Status
    <2>7. Status(g)' = "conflicting" => Status(g) = "conflicting"
      BY <2>3 DEF Status
    <2> QED BY <2>3, <2>4, <2>5, <2>6, <2>7
  <1>2. SeedsOnlyAdd <=> [][A]_vars BY DEF SeedsOnlyAdd
  <1> HIDE DEF A
  <1> QED BY <1>1, <1>2, Invariance, PTL DEF Spec

\* Every visit makes progress that cannot be undone: it leaves less to visit, or
\* it takes facts away and adds addresses to paths (track.rs's fixpoint).
THEOREM Converges == Spec => TrackingConverges
  <1> DEFINE A == phase = "track" /\ phase' = "track" =>
        \/ in' = in /\ dirty' \subseteq dirty /\ dirty' # dirty
        \/ in' # in /\ \A s \in DOMAIN in : \A old \in in[s] : \E new \in in'[s] : Extends(new, old)
  <1>1. ASSUME Inv, [Next]_vars PROVE [A]_vars
    <2> SUFFICES ASSUME phase = "track", phase' = "track", vars' # vars
                 PROVE
        \/ in' = in /\ dirty' \subseteq dirty /\ dirty' # dirty
        \/ in' # in /\ \A s \in DOMAIN in : \A old \in in[s] : \E new \in in'[s] : Extends(new, old)
      OBVIOUS
    <2>1. Visit
      BY <1>1 DEF Next, Analyze, Execute, Begin, Harvest, Group, Aggregate,
                  MergeInterprocedural, Start, Step, Enter, Running
    <2>2. PICK b \in Waiting :
            /\ dirty' = (dirty \ {b}) \cup {s \in DOMAIN in : in'[s] # in[s]}
            /\ \A s \in DOMAIN in : \A old \in in[s] : \E new \in in'[s] : Extends(new, old)
      <3>1. \E b \in Waiting : \E x \in in[b] :
             LET out == Through(x, b, blocks[b].last)
             IN  /\ StateOK(x) /\ StateOK(out)
                 /\ dirty' = (dirty \ {b}) \cup {s \in DOMAIN in : in'[s] # in[s]}
                 /\ DOMAIN in' = DOMAIN in /\ StatesOK(in')
                 /\ \A s \in DOMAIN in : \A old \in in[s] : \E new \in in'[s] :
                      Weaker(new, old) /\ Extends(new, old)
                 /\ \A s \in blocks[b].next : \E new \in in'[s] : Weaker(new, out)
        BY <1>1, <2>1, VisitFacts
      <3> QED BY <3>1
    <2>3. CASE in' = in
      <3>1. {s \in DOMAIN in : in'[s] # in[s]} = {} BY <2>3
      <3>2. dirty' = dirty \ {b} /\ b \in dirty BY <2>2, <3>1 DEF Waiting
      <3> QED BY <2>3, <3>2
    <2>4. CASE in' # in BY <2>2, <2>4
    <2> QED BY <2>3, <2>4
  <1>2. TrackingConverges <=> [][A]_vars BY DEF TrackingConverges
  <1> HIDE DEF A
  <1> QED BY <1>1, <1>2, Invariance, PTL DEF Spec
=============================================================================
