-------------------------- MODULE SqlRewriteProofs --------------------------
(***************************************************************************)
(* What a rewrite does to any text whatever: proofs about the functions of *)
(* internal/flink/sqlrewrite.go, which run through the text recursively.   *)
(* The library's induction theorems take an operator as a parameter, which *)
(* the provers cannot instantiate; here induction is over sets, from the   *)
(* well-foundedness of inclusion among finite sets.                        *)
(***************************************************************************)
EXTENDS SqlRewrite, FiniteSetTheorems, WellFoundedInduction, TLAPS

-----------------------------------------------------------------------------
(* Induction.                                                              *)

(* A set of numbers that is not empty has a least one.                     *)
LEMMA LeastNumber ==
    ASSUME NEW T, T \subseteq Nat, T # {}
    PROVE  \E n \in T : \A m \in T : n <= m
<1> DEFINE Below == {1 .. n : n \in T}
           R == StrictSubsetOrdering(Nat)
<1>1. Below \subseteq FiniteSubsetsOf(Nat) /\ Below # {}
  <2>1. ASSUME NEW n \in T PROVE 1 .. n \in FiniteSubsetsOf(Nat)
    <3>1. n \in Int /\ 1 \in Int
      OBVIOUS
    <3>2. IsFiniteSet(1 .. n)
      BY <3>1, FS_Interval
    <3>3. 1 .. n \in SUBSET Nat
      BY <3>1
    <3> QED BY <3>2, <3>3 DEF FiniteSubsetsOf
  <2> QED BY <2>1
<1>2. IsWellFoundedOn(R, FiniteSubsetsOf(Nat))
  BY FS_StrictSubsetOrderingWellFounded
<1>3. PICK x \in Below : \A y \in Below : ~(<<y, x>> \in R)
  <2> HIDE DEF Below, R
  <2> QED BY <1>1, <1>2, WFMin
<1>4. PICK n \in T : x = 1 .. n
  BY <1>3
<1>5. ASSUME NEW m \in T PROVE n <= m
  <2>1. 1 .. m \in Below
    OBVIOUS
  <2>2. ~(<<1 .. m, 1 .. n>> \in R)
    BY <1>3, <1>4, <2>1
  <2>3. m \in Nat /\ n \in Nat
    OBVIOUS
  <2>4. ~(1 .. m \subseteq 1 .. n /\ 1 .. m # 1 .. n)
    BY <2>2, <2>3 DEF StrictSubsetOrdering
  <2>5. CASE m < n
    <3>1. 1 .. m \subseteq 1 .. n /\ n \in 1 .. n /\ n \notin 1 .. m
      BY <2>3, <2>5
    <3> QED BY <2>4, <3>1
  <2> QED BY <2>3, <2>5
<1> QED BY <1>4, <1>5

(* Induction from the end of an interval to its beginning.                 *)
LEMMA Downward ==
    ASSUME NEW n \in Nat, NEW S,
           \A i \in 1 .. n : (\A j \in 1 .. n : i < j => j \in S) => i \in S
    PROVE  1 .. n \subseteq S
<1> DEFINE Left == {n - i : i \in (1 .. n) \ S}
<1> SUFFICES ASSUME (1 .. n) \ S # {} PROVE FALSE
  OBVIOUS
<1>1. Left \subseteq Nat /\ Left # {}
  OBVIOUS
<1>2. PICK k \in Left : \A m \in Left : k <= m
  <2> HIDE DEF Left
  <2> QED BY <1>1, LeastNumber
<1>3. PICK i \in (1 .. n) \ S : k = n - i
  OBVIOUS
<1>4. ASSUME NEW j \in 1 .. n, i < j, j \notin S PROVE FALSE
  <2>1. n - j \in Left
    BY <1>4
  <2>2. n - i <= n - j
    <3> HIDE DEF Left
    <3> QED BY <1>2, <1>3, <2>1
  <2> QED BY <1>4, <2>2
<1> QED BY <1>3, <1>4

(* Some positions, if any, have a last one.                                *)
LEMMA GreatestIn ==
    ASSUME NEW n \in Nat, NEW S, S \subseteq 1 .. n, S # {}
    PROVE  \E i \in S : \A j \in S : j <= i
<1> DEFINE Left == {n - i : i \in S}
<1>1. Left \subseteq Nat /\ Left # {}
  <2>1. \A i \in S : n - i \in Nat
    OBVIOUS
  <2> QED BY <2>1
<1>2. PICK k \in Left : \A m \in Left : k <= m
  <2> HIDE DEF Left
  <2> QED BY <1>1, LeastNumber
<1>3. PICK i \in S : k = n - i
  OBVIOUS
<1>4. ASSUME NEW j \in S PROVE j <= i
  <2>1. n - j \in Left
    BY <1>4
  <2>2. n - i <= n - j
    <3> HIDE DEF Left
    <3> QED BY <1>2, <1>3, <2>1
  <2> QED BY <2>2
<1> QED BY <1>3, <1>4

(* A function may be defined by recursion towards the end of an interval.  *)
LooksAhead(n, V, G) ==
    /\ n \in Nat /\ \E v : v \in V
    /\ G \in [1 .. n -> [[1 .. n -> V] -> V]]
    /\ \A i \in 1 .. n : \A f, g \in [1 .. n -> V] :
          (\A j \in 1 .. n : i < j => f[j] = g[j]) => G[i][f] = G[i][g]

(* There is a function that obeys a recursion of that kind.                *)
LEMMA Recursion ==
    ASSUME NEW n, NEW V, NEW G, LooksAhead(n, V, G)
    PROVE  \E f \in [1 .. n -> V] : \A i \in 1 .. n : f[i] = G[i][f]
<1> USE DEF LooksAhead
<1> DEFINE S == {k \in 1 .. n : \E f \in [1 .. n -> V] : \A i \in k .. n : f[i] = G[i][f]}
<1>1. PICK v \in V : TRUE
  OBVIOUS
<1>2. ASSUME NEW k \in 1 .. n, \A j \in 1 .. n : k < j => j \in S PROVE k \in S
  <2>1. PICK f \in [1 .. n -> V] : \A i \in k + 1 .. n : f[i] = G[i][f]
    <3>1. CASE k = n
      <4>1. [i \in 1 .. n |-> v] \in [1 .. n -> V]
        OBVIOUS
      <4>2. k + 1 .. n = {}
        BY <3>1
      <4>3. \A f \in [1 .. n -> V] : \A i \in k + 1 .. n : f[i] = G[i][f]
        BY <4>2, Zenon
      <4> QED BY <4>1, <4>3
    <3>2. CASE k < n
      <4>1. k + 1 \in S
        <5> HIDE DEF S
        <5> QED BY <1>2, <3>2
      <4> QED BY <4>1
    <3> QED BY <3>1, <3>2
  <2> DEFINE h == [f EXCEPT ![k] = G[k][f]]
  <2>2. G[k][f] \in V /\ h \in [1 .. n -> V]
    OBVIOUS
  <2>3. \A j \in 1 .. n : k < j => h[j] = f[j]
    BY <2>2
  <2>4. \A i \in k .. n : G[i][h] = G[i][f]
    <3> HIDE DEF h
    <3> TAKE i \in k .. n
    <3>1. i \in 1 .. n
      OBVIOUS
    <3>2. \A j \in 1 .. n : i < j => h[j] = f[j]
      BY <2>3
    <3> QED BY <2>2, <3>1, <3>2
  <2>5. \A i \in k .. n : h[i] = G[i][h]
    <3> TAKE i \in k .. n
    <3>1. CASE i = k
      BY <2>2, <2>4, <3>1
    <3>2. CASE i > k
      <4>1. h[i] = f[i] /\ f[i] = G[i][f]
        BY <2>1, <2>3, <3>2
      <4> HIDE DEF h
      <4> QED BY <2>4, <4>1
    <3> QED BY <3>1, <3>2
  <2> HIDE DEF h
  <2> QED BY <2>2, <2>5
<1>3. 1 .. n \subseteq S
  <2> HIDE DEF S
  <2> QED BY <1>2, Downward
<1>4. CASE n = 0
  <2>1. 1 .. n = {}
    BY <1>4
  <2>2. [i \in 1 .. n |-> v] \in [1 .. n -> V]
    OBVIOUS
  <2>3. \A f \in [1 .. n -> V] : \A i \in 1 .. n : f[i] = G[i][f]
    BY <2>1, Zenon
  <2> QED BY <2>2, <2>3
<1>5. CASE n # 0
  <2>1. 1 \in S
    <3> HIDE DEF S
    <3> QED BY <1>3, <1>5
  <2> QED BY <2>1
<1> QED BY <1>4, <1>5

-----------------------------------------------------------------------------
(* Positions in a text.                                                    *)

(* MinOr is the least of a set, or what it is given for none.              *)
LEMMA Least ==
    ASSUME NEW S, S \subseteq Nat, NEW n
    PROVE  /\ MinOr(S, n) = n \/ MinOr(S, n) \in S
           /\ \A j \in S : MinOr(S, n) \in S /\ MinOr(S, n) <= j
<1>1. CASE S = {}
  BY <1>1 DEF MinOr
<1>2. CASE S # {}
  <2>1. \E i \in S : \A j \in S : i <= j
    BY <1>2, LeastNumber
  <2> QED BY <1>2, <2>1 DEF MinOr
<1> QED BY <1>1, <1>2

(* Blanks end at or behind their beginning, at the latest behind the text. *)
LEMMA BlanksEnd ==
    ASSUME NEW sql \in Seq(Atoms), NEW i \in 1 .. Len(sql) + 1
    PROVE  AfterBlanks(sql, i) \in i .. Len(sql) + 1
<1> DEFINE S == {j \in i .. Len(sql) : ~Is(sql, j, "nl")}
<1>1. S \subseteq Nat /\ S \subseteq i .. Len(sql)
  OBVIOUS
<1>2. AfterBlanks(sql, i) = MinOr(S, Len(sql) + 1)
  BY DEF AfterBlanks
<1>3. Len(sql) \in Nat
  OBVIOUS
<1>4. MinOr(S, Len(sql) + 1) = Len(sql) + 1 \/ MinOr(S, Len(sql) + 1) \in S
  <2> HIDE DEF S
  <2> QED BY <1>1, Least
<1> QED BY <1>1, <1>2, <1>3, <1>4

(* A quote or comment ends behind its beginning, if it ends.               *)
LEMMA SkipsForward ==
    ASSUME NEW sql \in Seq(Atoms), NEW i \in 1 .. Len(sql) + 1
    PROVE  /\ Skip(sql, i) \in i .. Len(sql) + 1
           /\ Is(sql, i, "--") \/ Is(sql, i, "/*") => Skip(sql, i) > i
<1> DEFINE S(kind) == {j \in i .. Len(sql) : Is(sql, j, kind)}
<1>1. Len(sql) \in Nat /\ \A kind : S(kind) \subseteq Nat /\ S(kind) \subseteq i .. Len(sql)
  OBVIOUS
<1>2. \A kind, n : MinOr(S(kind), n) = n \/ MinOr(S(kind), n) \in S(kind)
  <2> HIDE DEF S
  <2> QED BY <1>1, Least
<1>3. CASE Is(sql, i, "lit")
  BY <1>1, <1>3 DEF Skip, Is
<1>4. CASE Is(sql, i, "--")
  <2>1. i \notin S("nl") /\ i <= Len(sql)
    BY <1>4 DEF Is
  <2>2. Skip(sql, i) = MinOr(S("nl"), Len(sql) + 1)
    BY <1>4 DEF Skip, Is
  <2>3. Skip(sql, i) = Len(sql) + 1 \/ (Skip(sql, i) \in i .. Len(sql) /\ Skip(sql, i) # i)
    <3> HIDE DEF S
    <3> QED BY <1>1, <1>2, <2>1, <2>2
  <2> QED BY <1>1, <2>1, <2>3
<1>5. CASE Is(sql, i, "/*")
  <2>1. Skip(sql, i) = MinOr(S("*/"), Len(sql)) + 1 /\ i <= Len(sql)
    BY <1>5 DEF Skip, Is
  <2>2. MinOr(S("*/"), Len(sql)) \in i .. Len(sql)
    <3> HIDE DEF S
    <3> QED BY <1>1, <1>2, <2>1
  <2> QED BY <1>1, <2>1, <2>2
<1>6. CASE ~Is(sql, i, "lit") /\ ~Is(sql, i, "--") /\ ~Is(sql, i, "/*")
  <2>1. Skip(sql, i) = i
    BY <1>6 DEF Skip
  <2> QED BY <1>1, <1>6, <2>1
<1> QED BY <1>3, <1>4, <1>5, <1>6

(* Only quotes and comments are skipped.                                   *)
LEMMA SkipsOnly ==
    ASSUME NEW sql, NEW i, Skip(sql, i) # i
    PROVE  i <= Len(sql) /\ sql[i][1] \in {"lit", "--", "/*"}
BY DEF Skip, Is

(* findWithOpenParen, one atom, quote or comment at a time.                *)
After(sql, i) == AfterBlanks(sql, i + 1)

FindsFrom(sql, i, find) ==
    \/ EndsStatement(sql, i) /\ find[i] = 0
    \/ /\ i \in 1 .. Len(sql) /\ ~EndsStatement(sql, i)
       /\ \/ Skip(sql, i) \in i + 1 .. Len(sql) + 1 /\ find[i] = find[Skip(sql, i)]
          \/ /\ Skip(sql, i) = i /\ Is(sql, i, "with")
             /\ \/ /\ After(sql, i) \in i + 1 .. Len(sql) /\ Is(sql, After(sql, i), "(")
                   /\ find[i] = After(sql, i)
                \/ /\ After(sql, i) \in i + 1 .. Len(sql) + 1 /\ ~Is(sql, After(sql, i), "(")
                   /\ find[i] = find[After(sql, i)]
          \/ Skip(sql, i) = i /\ ~Is(sql, i, "with") /\ find[i] = find[i + 1]

(* The function that findWithOpenParen defines exists, and unfolds.        *)
LEMMA Finds ==
    ASSUME NEW sql \in Seq(Atoms)
    PROVE  \E find :
              /\ \A i \in 1 .. Len(sql) + 1 : FindWithOpen(sql, i) = find[i]
              /\ \A i \in 1 .. Len(sql) + 1 : FindsFrom(sql, i, find)
<1> DEFINE n == Len(sql) + 1
           Next_(i) == AfterBlanks(sql, i + 1)
           Find(f, i) ==
              CASE EndsStatement(sql, i) -> 0
                [] Skip(sql, i) # i -> f[Skip(sql, i)]
                [] Is(sql, i, "with") -> IF Is(sql, Next_(i), "(") THEN Next_(i) ELSE f[Next_(i)]
                [] OTHER -> f[i + 1]
           find == CHOOSE f : f = [i \in 1 .. n |-> Find(f, i)]
<1>1. \A i \in 1 .. n : FindWithOpen(sql, i) = find[i]
  BY DEF FindWithOpen
<1>2. n \in Nat /\ Len(sql) \in Nat /\ n = Len(sql) + 1
  OBVIOUS
<1>3. ASSUME NEW i \in 1 .. n, EndsStatement(sql, i)
      PROVE  \A f : Find(f, i) = 0
  <2>1. Skip(sql, i) = i /\ ~Is(sql, i, "with")
    <3>1. i > Len(sql) => ~(i <= Len(sql))
      BY <1>2
    <3>2. ~(i <= Len(sql)) \/ sql[i][1] = ";"
      BY <1>3, <3>1 DEF EndsStatement, Is
    <3>3. Is(sql, i, "with") => i <= Len(sql) /\ sql[i][1] = "with"
      BY DEF Is
    <3>4. Skip(sql, i) # i => i <= Len(sql) /\ sql[i][1] \in {"lit", "--", "/*"}
      BY SkipsOnly
    <3> QED BY <3>2, <3>3, <3>4
  <2> QED BY <1>3, <2>1
<1>4. ASSUME NEW i \in 1 .. n, ~EndsStatement(sql, i)
      PROVE  /\ i \in 1 .. Len(sql) /\ i + 1 \in 1 .. n
             /\ \/ Skip(sql, i) \in i + 1 .. n /\ \A f : Find(f, i) = f[Skip(sql, i)]
                \/ /\ Skip(sql, i) = i /\ Is(sql, i, "with")
                   /\ \/ /\ Next_(i) \in i + 1 .. Len(sql) /\ Is(sql, Next_(i), "(")
                         /\ \A f : Find(f, i) = Next_(i)
                      \/ /\ Next_(i) \in i + 1 .. n /\ ~Is(sql, Next_(i), "(")
                         /\ \A f : Find(f, i) = f[Next_(i)]
                \/ Skip(sql, i) = i /\ ~Is(sql, i, "with") /\ \A f : Find(f, i) = f[i + 1]
  <2>1. i \in 1 .. Len(sql) /\ i + 1 \in 1 .. n
    <3>1. ~(i > Len(sql))
      BY <1>4 DEF EndsStatement
    <3> QED BY <1>2, <3>1
  <2>2. Skip(sql, i) \in i .. n /\ Next_(i) \in i + 1 .. n
    BY <2>1, SkipsForward, BlanksEnd
  <2>3. CASE Skip(sql, i) # i
    <3>1. ASSUME NEW f PROVE Find(f, i) = f[Skip(sql, i)]
      <4>1. ~Is(sql, i, "with")
        BY <2>3, SkipsOnly DEF Is
      <4> QED BY <1>4, <2>3, <4>1
    <3>2. Skip(sql, i) \in i + 1 .. n
      BY <1>2, <2>2, <2>3
    <3> QED BY <2>1, <3>1, <3>2
  <2>4. CASE Skip(sql, i) = i /\ Is(sql, i, "with") /\ Is(sql, Next_(i), "(")
    <3>1. \A f : Find(f, i) = Next_(i)
      BY <1>4, <2>4
    <3>2. Next_(i) <= Len(sql)
      BY <2>4 DEF Is
    <3>3. Next_(i) \in i + 1 .. Len(sql)
      BY <1>2, <2>2, <3>2
    <3> HIDE DEF Find, Next_, n
    <3> QED BY <2>1, <2>4, <3>1, <3>3
  <2>5. CASE Skip(sql, i) = i /\ Is(sql, i, "with") /\ ~Is(sql, Next_(i), "(")
    <3>1. \A f : Find(f, i) = f[Next_(i)]
      BY <1>4, <2>5
    <3> HIDE DEF Find, Next_, n
    <3> QED BY <2>1, <2>2, <2>5, <3>1
  <2>6. CASE Skip(sql, i) = i /\ ~Is(sql, i, "with")
    <3>1. \A f : Find(f, i) = f[i + 1]
      BY <1>4, <2>6
    <3> HIDE DEF Find, Next_, n
    <3> QED BY <2>1, <2>6, <3>1
  <2> QED BY <2>3, <2>4, <2>5, <2>6
<1> HIDE DEF n, Next_, Find
<1>5. ASSUME NEW i \in 1 .. n
      PROVE  \/ \E j \in 0 .. n : \A f : Find(f, i) = j
             \/ \E j \in 1 .. n : i < j /\ \A f : Find(f, i) = f[j]
  <2>1. CASE EndsStatement(sql, i)
    BY <1>2, <1>3, <2>1
  <2>2. CASE ~EndsStatement(sql, i)
    BY <1>2, <1>4, <2>2
  <2> QED BY <2>1, <2>2
<1>6. \E f : f = [i \in 1 .. n |-> Find(f, i)]
  <2> DEFINE V == 0 .. n
             G == [i \in 1 .. n |-> [f \in [1 .. n -> V] |-> Find(f, i)]]
  <2>1. ASSUME NEW i \in 1 .. n, NEW f \in [1 .. n -> V]
        PROVE  Find(f, i) \in V
    BY <1>2, <1>5
  <2>2. G \in [1 .. n -> [[1 .. n -> V] -> V]] /\ 0 \in V
    BY <1>2, <2>1
  <2>3. \A i \in 1 .. n : \A f, g \in [1 .. n -> V] :
           (\A j \in 1 .. n : i < j => f[j] = g[j]) => G[i][f] = G[i][g]
    <3> SUFFICES ASSUME NEW i \in 1 .. n, NEW f \in [1 .. n -> V], NEW g \in [1 .. n -> V],
                        \A j \in 1 .. n : i < j => f[j] = g[j]
                 PROVE  Find(f, i) = Find(g, i)
      OBVIOUS
    <3>1. CASE \E j \in 0 .. n : \A h : Find(h, i) = j
      BY <3>1
    <3>2. CASE \E j \in 1 .. n : i < j /\ \A h : Find(h, i) = h[j]
      <4>1. PICK j \in 1 .. n : i < j /\ Find(f, i) = f[j] /\ Find(g, i) = g[j]
        BY <3>2
      <4> QED BY <4>1
    <3> QED BY <1>5, <3>1, <3>2
  <2>4. LooksAhead(n, V, G)
    <3> HIDE DEF G, V
    <3> QED BY <1>2, <2>2, <2>3 DEF LooksAhead
  <2>5. PICK f \in [1 .. n -> V] : \A i \in 1 .. n : f[i] = G[i][f]
    <3> HIDE DEF G, V
    <3> QED BY <2>4, Recursion
  <2>6. \A i \in 1 .. n : f[i] = Find(f, i)
    BY <2>5
  <2> QED BY <2>6
<1>7. find = [i \in 1 .. n |-> Find(find, i)]
  BY <1>6
<1> HIDE DEF find
<1>8. ASSUME NEW i \in 1 .. n
      PROVE  FindsFrom(sql, i, find)
  <2>1. find[i] = Find(find, i)
    BY <1>7
  <2>2. Next_(i) = After(sql, i)
    BY DEF Next_, After
  <2>3. CASE EndsStatement(sql, i)
    BY <1>3, <2>1, <2>3 DEF FindsFrom
  <2>4. CASE ~EndsStatement(sql, i)
    BY <1>2, <1>4, <2>1, <2>2, <2>4 DEF FindsFrom
  <2> QED BY <2>3, <2>4
<1> QED BY <1>1, <1>8 DEF n

(* findWithOpenParen finds an opening parenthesis, or none.                *)
LEMMA FindsOpen ==
    ASSUME NEW sql \in Seq(Atoms), NEW start \in 1 .. Len(sql) + 1
    PROVE  \/ FindWithOpen(sql, start) = 0
           \/ /\ FindWithOpen(sql, start) \in start + 1 .. Len(sql)
              /\ Is(sql, FindWithOpen(sql, start), "(")
<1> DEFINE n == Len(sql) + 1
           Open(i, j) == j \in i + 1 .. Len(sql) /\ Is(sql, j, "(")
<1>1. PICK find :
         /\ \A i \in 1 .. Len(sql) + 1 : FindWithOpen(sql, i) = find[i]
         /\ \A i \in 1 .. Len(sql) + 1 : FindsFrom(sql, i, find)
  BY Finds
<1>2. n \in Nat /\ Len(sql) \in Nat /\ n = Len(sql) + 1
  OBVIOUS
<1>3. ASSUME NEW i \in 1 .. n
      PROVE  \/ find[i] = 0 \/ Open(i, find[i])
             \/ \E j \in 1 .. n : i < j /\ find[i] = find[j]
  <2>1. FindsFrom(sql, i, find)
    BY <1>1
  <2>2. CASE EndsStatement(sql, i)
    BY <2>1, <2>2 DEF FindsFrom
  <2>3. CASE ~EndsStatement(sql, i)
    BY <1>2, <2>1, <2>3 DEF FindsFrom
  <2> QED BY <2>2, <2>3
<1> DEFINE S == {i \in 1 .. n : find[i] = 0 \/ Open(i, find[i])}
<1>4. ASSUME NEW i \in 1 .. n, \A j \in 1 .. n : i < j => j \in S
      PROVE  i \in S
  <2> HIDE DEF n
  <2> QED BY <1>2, <1>3, <1>4
<1>5. 1 .. n \subseteq S
  <2> HIDE DEF S
  <2> QED BY <1>2, <1>4, Downward
<1> QED BY <1>1, <1>2, <1>5

(* matchParen, one atom, quote or comment at a time.                        *)
MatchesFrom(sql, i, d, match) ==
    \/ i > Len(sql) /\ match[i][d] = 0
    \/ /\ i \in 1 .. Len(sql)
       /\ \/ Skip(sql, i) \in i + 1 .. Len(sql) + 1 /\ match[i][d] = match[Skip(sql, i)][d]
          \/ Is(sql, i, "(") /\ match[i][d] = match[i + 1][d + 1]
          \/ Is(sql, i, ")") /\ d = 1 /\ match[i][d] = i
          \/ Is(sql, i, ")") /\ d # 1 /\ match[i][d] = match[i + 1][d - 1]
          \/ /\ Skip(sql, i) = i /\ ~Is(sql, i, "(") /\ ~Is(sql, i, ")")
             /\ match[i][d] = match[i + 1][d]

(* The function that matchParen defines exists, and unfolds.               *)
LEMMA Matches ==
    ASSUME NEW sql \in Seq(Atoms)
    PROVE  \E match :
              /\ \A open \in 1 .. Len(sql) : MatchParen(sql, open) = match[open][0]
              /\ \A i \in 1 .. Len(sql) + 1 : \A d \in Int : MatchesFrom(sql, i, d, match)
<1> DEFINE n == Len(sql) + 1
           Match(f, i, depth) ==
              CASE i > Len(sql) -> 0
                [] Skip(sql, i) # i -> f[Skip(sql, i)][depth]
                [] Is(sql, i, "(") -> f[i + 1][depth + 1]
                [] Is(sql, i, ")") -> IF depth = 1 THEN i ELSE f[i + 1][depth - 1]
                [] OTHER -> f[i + 1][depth]
           match == CHOOSE f : f = [i \in 1 .. n |-> [d \in Int |-> Match(f, i, d)]]
<1>1. \A open \in 1 .. Len(sql) : MatchParen(sql, open) = match[open][0]
  BY DEF MatchParen
<1>2. n \in Nat /\ Len(sql) \in Nat /\ n = Len(sql) + 1
  OBVIOUS
<1>3. ASSUME NEW i \in 1 .. n, NEW d \in Int
      PROVE  \/ \A f : Match(f, i, d) = 0
             \/ \E j \in 1 .. n, e \in Int : i < j /\ \A f : Match(f, i, d) = f[j][e]
             \/ Is(sql, i, ")") /\ \A f : Match(f, i, d) = i
  <2>1. CASE i > Len(sql)
    <3>1. Skip(sql, i) = i /\ ~Is(sql, i, "(") /\ ~Is(sql, i, ")")
      <4>1. ~(i <= Len(sql))
        BY <1>2, <2>1
      <4> QED BY <4>1, SkipsOnly DEF Is
    <3>2. ASSUME NEW f PROVE Match(f, i, d) = 0
      BY <2>1, <3>1
    <3> QED BY <3>2
  <2>2. CASE ~(i > Len(sql))
    <3>1. i \in 1 .. Len(sql) /\ i + 1 \in 1 .. n /\ d + 1 \in Int /\ d - 1 \in Int
      BY <1>2, <2>2
    <3>2. Skip(sql, i) \in i .. n
      BY SkipsForward
    <3>3. CASE Skip(sql, i) # i
      <4>1. ASSUME NEW f PROVE Match(f, i, d) = f[Skip(sql, i)][d]
        <5>1. ~Is(sql, i, "(") /\ ~Is(sql, i, ")")
          BY <3>3, SkipsOnly DEF Is
        <5> QED BY <2>2, <3>3, <5>1
      <4> QED BY <1>2, <3>2, <3>3, <4>1
    <3>4. CASE Skip(sql, i) = i /\ Is(sql, i, "(")
      <4>1. ~Is(sql, i, ")")
        BY <3>4 DEF Is
      <4>2. ASSUME NEW f PROVE Match(f, i, d) = f[i + 1][d + 1]
        BY <2>2, <3>4, <4>1
      <4> QED BY <1>2, <3>1, <4>2
    <3>5. CASE Skip(sql, i) = i /\ Is(sql, i, ")") /\ d = 1
      <4>1. ~Is(sql, i, "(")
        BY <3>5 DEF Is
      <4>2. ASSUME NEW f PROVE Match(f, i, d) = i
        BY <2>2, <3>5, <4>1
      <4> QED BY <1>2, <3>1, <3>5, <4>2
    <3>6. CASE Skip(sql, i) = i /\ Is(sql, i, ")") /\ d # 1
      <4>1. ~Is(sql, i, "(")
        BY <3>6 DEF Is
      <4>2. ASSUME NEW f PROVE Match(f, i, d) = f[i + 1][d - 1]
        BY <2>2, <3>6, <4>1
      <4> QED BY <1>2, <3>1, <4>2
    <3>7. CASE Skip(sql, i) = i /\ ~Is(sql, i, "(") /\ ~Is(sql, i, ")")
      <4>1. ASSUME NEW f PROVE Match(f, i, d) = f[i + 1][d]
        BY <2>2, <3>7
      <4> QED BY <1>2, <3>1, <4>1
    <3> QED BY <3>3, <3>4, <3>5, <3>6, <3>7
  <2> QED BY <2>1, <2>2
<1> HIDE DEF n, Match
<1>4. \E f : f = [i \in 1 .. n |-> [d \in Int |-> Match(f, i, d)]]
  <2> DEFINE V == [Int -> 0 .. n]
             G == [i \in 1 .. n |-> [f \in [1 .. n -> V] |-> [d \in Int |-> Match(f, i, d)]]]
  <2>1. ASSUME NEW f \in [1 .. n -> V], NEW i \in 1 .. n, NEW d \in Int
        PROVE  Match(f, i, d) \in 0 .. n
    <3>1. CASE \A g : Match(g, i, d) = 0
      BY <1>2, <3>1
    <3>2. CASE \E j \in 1 .. n, e \in Int : i < j /\ \A g : Match(g, i, d) = g[j][e]
      <4>1. PICK j \in 1 .. n, e \in Int : Match(f, i, d) = f[j][e]
        BY <3>2
      <4>2. f[j] \in [Int -> 0 .. n]
        OBVIOUS
      <4> QED BY <4>1, <4>2
    <3>3. CASE Is(sql, i, ")") /\ \A g : Match(g, i, d) = i
      BY <1>2, <3>3
    <3> QED BY <1>3, <3>1, <3>2, <3>3
  <2>2. G \in [1 .. n -> [[1 .. n -> V] -> V]]
    <3>1. \A i \in 1 .. n : \A f \in [1 .. n -> V] : [d \in Int |-> Match(f, i, d)] \in V
      BY <2>1
    <3> HIDE DEF V
    <3> QED BY <3>1
  <2>3. ASSUME NEW i \in 1 .. n, NEW f \in [1 .. n -> V], NEW g \in [1 .. n -> V],
               \A j \in 1 .. n : i < j => f[j] = g[j]
        PROVE  G[i][f] = G[i][g]
    <3>1. ASSUME NEW d \in Int PROVE Match(f, i, d) = Match(g, i, d)
      <4>1. CASE \E j \in 1 .. n, e \in Int : i < j /\ \A h : Match(h, i, d) = h[j][e]
        BY <2>3, <4>1
      <4>2. CASE \/ \A h : Match(h, i, d) = 0
                 \/ Is(sql, i, ")") /\ \A h : Match(h, i, d) = i
        <5> QED BY <4>2
      <4> QED BY <1>3, <4>1, <4>2
    <3> HIDE DEF V
    <3> QED BY <3>1
  <2>4. [d \in Int |-> 0] \in V
    BY <1>2
  <2>5. LooksAhead(n, V, G)
    <3> HIDE DEF G, V
    <3> QED BY <1>2, <2>2, <2>3, <2>4 DEF LooksAhead
  <2>6. PICK f \in [1 .. n -> V] : \A i \in 1 .. n : f[i] = G[i][f]
    <3> HIDE DEF G, V
    <3> QED BY <2>5, Recursion
  <2>7. \A i \in 1 .. n : f[i] = [d \in Int |-> Match(f, i, d)]
    <3> HIDE DEF V
    <3> QED BY <2>6
  <2>8. f = [i \in 1 .. n |-> [d \in Int |-> Match(f, i, d)]]
    <3> HIDE DEF V
    <3> QED BY <2>6, <2>7
  <2> QED BY <2>8
<1>5. match = [i \in 1 .. n |-> [d \in Int |-> Match(match, i, d)]]
  BY <1>4
<1> HIDE DEF match
<1>6. ASSUME NEW i \in 1 .. n, NEW d \in Int
      PROVE  MatchesFrom(sql, i, d, match)
  <2>1. match[i] = [e \in Int |-> Match(match, i, e)]
    BY <1>5
  <2>2. match[i][d] = Match(match, i, d)
    BY <2>1
  <2> USE DEF MatchesFrom
  <2>3. CASE i > Len(sql)
    <3>1. Skip(sql, i) = i /\ ~Is(sql, i, "(") /\ ~Is(sql, i, ")")
      <4>1. ~(i <= Len(sql))
        BY <1>2, <2>3
      <4> QED BY <4>1, SkipsOnly DEF Is
    <3>2. match[i][d] = 0
      BY <2>2, <2>3, <3>1 DEF Match
    <3> QED BY <2>3, <3>2
  <2>4. CASE ~(i > Len(sql))
    <3>1. i \in 1 .. Len(sql)
      BY <1>2, <2>4
    <3>2. CASE Skip(sql, i) # i
      <4>1. Skip(sql, i) \in i + 1 .. Len(sql) + 1
        BY <1>2, <3>2, SkipsForward
      <4>2. ~Is(sql, i, "(") /\ ~Is(sql, i, ")")
        BY <3>2, SkipsOnly DEF Is
      <4>3. match[i][d] = match[Skip(sql, i)][d]
        BY <2>2, <2>4, <3>2, <4>2 DEF Match
      <4> QED BY <3>1, <4>1, <4>3
    <3>3. CASE Skip(sql, i) = i /\ Is(sql, i, "(")
      <4>1. ~Is(sql, i, ")")
        BY <3>3 DEF Is
      <4>2. match[i][d] = match[i + 1][d + 1]
        BY <2>2, <2>4, <3>3, <4>1 DEF Match
      <4> QED BY <3>1, <3>3, <4>2
    <3>4. CASE Skip(sql, i) = i /\ Is(sql, i, ")")
      <4>1. ~Is(sql, i, "(")
        BY <3>4 DEF Is
      <4>2. match[i][d] = IF d = 1 THEN i ELSE match[i + 1][d - 1]
        BY <2>2, <2>4, <3>4, <4>1 DEF Match
      <4> QED BY <3>1, <3>4, <4>2
    <3>5. CASE Skip(sql, i) = i /\ ~Is(sql, i, "(") /\ ~Is(sql, i, ")")
      <4>1. match[i][d] = match[i + 1][d]
        BY <2>2, <2>4, <3>5 DEF Match
      <4> QED BY <3>1, <3>5, <4>1
    <3> QED BY <3>2, <3>3, <3>4, <3>5
  <2> QED BY <2>3, <2>4
<1> QED BY <1>1, <1>6 DEF n

(* matchParen finds a closing parenthesis behind the opening one, or none. *)
LEMMA FindsClose ==
    ASSUME NEW sql \in Seq(Atoms), NEW open \in 1 .. Len(sql), Is(sql, open, "(")
    PROVE  \/ MatchParen(sql, open) = 0
           \/ /\ MatchParen(sql, open) \in open + 1 .. Len(sql)
              /\ Is(sql, MatchParen(sql, open), ")")
<1> DEFINE n == Len(sql) + 1
           Close(i, j) == j \in i .. Len(sql) /\ Is(sql, j, ")")
<1>1. PICK match :
         /\ MatchParen(sql, open) = match[open][0]
         /\ \A i \in 1 .. n : \A d \in Int : MatchesFrom(sql, i, d, match)
  <2>1. PICK match :
           /\ \A i \in 1 .. Len(sql) : MatchParen(sql, i) = match[i][0]
           /\ \A i \in 1 .. n : \A d \in Int : MatchesFrom(sql, i, d, match)
    BY Matches
  <2> QED BY <2>1
<1>2. n \in Nat /\ Len(sql) \in Nat /\ n = Len(sql) + 1
  OBVIOUS
<1>3. ASSUME NEW i \in 1 .. n, NEW d \in Int
      PROVE  \/ match[i][d] = 0 \/ Close(i, match[i][d])
             \/ \E j \in 1 .. n, e \in Int : i < j /\ match[i][d] = match[j][e]
  <2>1. MatchesFrom(sql, i, d, match)
    BY <1>1
  <2>2. CASE i > Len(sql)
    BY <1>2, <2>1, <2>2 DEF MatchesFrom
  <2>3. CASE i \in 1 .. Len(sql)
    <3>1. i + 1 \in 1 .. n /\ i < i + 1 /\ d + 1 \in Int /\ d - 1 \in Int
      BY <1>2, <2>3
    <3>2. ASSUME Skip(sql, i) \in i + 1 .. Len(sql) + 1
          PROVE  Skip(sql, i) \in 1 .. n /\ i < Skip(sql, i)
      BY <1>2, <2>3, <3>2
    <3>3. CASE Skip(sql, i) \in i + 1 .. Len(sql) + 1 /\ match[i][d] = match[Skip(sql, i)][d]
      <4> HIDE DEF n
      <4> QED BY <3>2, <3>3
    <3>4. CASE \/ match[i][d] = match[i + 1][d + 1] \/ match[i][d] = match[i + 1][d - 1]
               \/ match[i][d] = match[i + 1][d]
      <4> HIDE DEF n
      <4> QED BY <3>1, <3>4
    <3>5. CASE Is(sql, i, ")") /\ match[i][d] = i
      BY <1>2, <2>3, <3>5
    <3>6. ~(i > Len(sql))
      BY <1>2, <2>3
    <3> QED BY <2>1, <3>3, <3>4, <3>5, <3>6 DEF MatchesFrom
  <2> QED BY <1>2, <2>2, <2>3
<1> DEFINE S == {i \in 1 .. n : \A d \in Int : match[i][d] = 0 \/ Close(i, match[i][d])}
<1>4. ASSUME NEW i \in 1 .. n, \A j \in 1 .. n : i < j => j \in S
      PROVE  i \in S
  <2> SUFFICES ASSUME NEW d \in Int PROVE match[i][d] = 0 \/ Close(i, match[i][d])
    OBVIOUS
  <2>1. CASE \E j \in 1 .. n, e \in Int : i < j /\ match[i][d] = match[j][e]
    <3>1. PICK j \in 1 .. n, e \in Int : i < j /\ match[i][d] = match[j][e]
      BY <2>1
    <3>2. match[j][e] = 0 \/ Close(j, match[j][e])
      BY <1>4, <3>1
    <3> QED BY <1>2, <3>1, <3>2
  <2> QED BY <1>3, <2>1
<1>5. 1 .. n \subseteq S
  <2> HIDE DEF S
  <2> QED BY <1>2, <1>4, Downward
<1>6. match[open][0] = 0 \/ Close(open, match[open][0])
  BY <1>2, <1>5
<1>7. ~Is(sql, open, ")")
  BY DEF Is
<1> QED BY <1>1, <1>6, <1>7

(* stripComments, one atom or comment at a time.                           *)
Comment(sql, i) == Is(sql, i, "--") \/ Is(sql, i, "/*")

(* The function that stripComments defines exists, and unfolds.            *)
LEMMA Strips ==
    ASSUME NEW sql \in Seq(Atoms)
    PROVE  \E strip \in [1 .. Len(sql) + 1 -> Seq(Atoms)] :
              /\ StripComments(sql) = strip[1]
              /\ strip[Len(sql) + 1] = <<>>
              /\ \A i \in 1 .. Len(sql) :
                    /\ Comment(sql, i) => strip[i] = strip[Skip(sql, i)]
                    /\ ~Comment(sql, i) => strip[i] = <<sql[i]>> \o strip[i + 1]
<1> DEFINE n == Len(sql) + 1
           V == Seq(Atoms)
           Strip(f, i) ==
              CASE i > Len(sql) -> <<>>
                [] Is(sql, i, "--") \/ Is(sql, i, "/*") -> f[Skip(sql, i)]
                [] OTHER -> <<sql[i]>> \o f[i + 1]
           strip == CHOOSE f : f = [i \in 1 .. n |-> Strip(f, i)]
<1>1. StripComments(sql) = strip[1]
  BY DEF StripComments
<1>2. n \in Nat /\ Len(sql) \in Nat /\ n = Len(sql) + 1
  OBVIOUS
<1>3. \A f : Strip(f, n) = <<>>
  <2>1. ~Is(sql, n, "--") /\ ~Is(sql, n, "/*")
    BY <1>2 DEF Is
  <2> QED BY <1>2, <2>1
<1>4. ASSUME NEW i \in 1 .. Len(sql)
      PROVE  /\ Comment(sql, i) => Skip(sql, i) \in i + 1 .. n /\ \A f : Strip(f, i) = f[Skip(sql, i)]
             /\ ~Comment(sql, i) => \A f : Strip(f, i) = <<sql[i]>> \o f[i + 1]
  <2>1. ~(i > Len(sql)) /\ i \in 1 .. n
    BY <1>2
  <2>2. CASE Comment(sql, i)
    <3>1. Skip(sql, i) \in i + 1 .. n
      BY <1>2, <2>1, <2>2, SkipsForward DEF Comment
    <3> QED BY <2>1, <2>2, <3>1 DEF Comment
  <2>3. CASE ~Comment(sql, i)
    BY <2>1, <2>3 DEF Comment
  <2> QED BY <2>2, <2>3
<1>5. ASSUME NEW i \in 1 .. n
      PROVE  \/ \A f : Strip(f, i) = <<>>
             \/ \E j \in 1 .. n : i < j /\ \A f : Strip(f, i) = f[j]
             \/ \E j \in 1 .. n, a \in Atoms : i < j /\ \A f : Strip(f, i) = <<a>> \o f[j]
  <2> HIDE DEF n, Strip
  <2>1. CASE i = n
    BY <1>3, <2>1
  <2>2. CASE i # n
    <3>1. i \in 1 .. Len(sql)
      BY <1>2, <2>2
    <3>2. CASE Comment(sql, i)
      <4>1. Skip(sql, i) \in i + 1 .. n /\ \A f : Strip(f, i) = f[Skip(sql, i)]
        BY <1>4, <3>1, <3>2
      <4>2. Skip(sql, i) \in 1 .. n /\ i < Skip(sql, i)
        BY <1>2, <4>1
      <4> QED BY <4>1, <4>2
    <3>3. CASE ~Comment(sql, i)
      <4>1. \A f : Strip(f, i) = <<sql[i]>> \o f[i + 1]
        BY <1>4, <3>1, <3>3
      <4>2. i + 1 \in 1 .. n /\ i < i + 1 /\ sql[i] \in Atoms
        BY <1>2, <3>1
      <4> QED BY <4>1, <4>2
    <3> QED BY <3>2, <3>3
  <2> QED BY <2>1, <2>2
<1> HIDE DEF n, Strip
<1>6. ASSUME NEW i \in 1 .. n, NEW f, \A j \in 1 .. n : i < j => f[j] \in V
      PROVE  Strip(f, i) \in V
  <2>1. CASE \A g : Strip(g, i) = <<>>
    <3>1. Strip(f, i) = <<>>
      BY <2>1
    <3> QED BY <3>1
  <2>2. CASE \E j \in 1 .. n : i < j /\ \A g : Strip(g, i) = g[j]
    BY <1>6, <2>2
  <2>3. CASE \E j \in 1 .. n, a \in Atoms : i < j /\ \A g : Strip(g, i) = <<a>> \o g[j]
    <3>1. PICK j \in 1 .. n, a \in Atoms : i < j /\ Strip(f, i) = <<a>> \o f[j]
      BY <2>3
    <3>2. f[j] \in Seq(Atoms)
      BY <1>6, <3>1
    <3> QED BY <3>1, <3>2
  <2> QED BY <1>5, <2>1, <2>2, <2>3
<1>7. \E f : f = [i \in 1 .. n |-> Strip(f, i)]
  <2> DEFINE G == [i \in 1 .. n |-> [f \in [1 .. n -> V] |-> Strip(f, i)]]
  <2>1. G \in [1 .. n -> [[1 .. n -> V] -> V]]
    <3>1. \A i \in 1 .. n : \A f \in [1 .. n -> V] : Strip(f, i) \in V
      BY <1>6
    <3> HIDE DEF V
    <3> QED BY <3>1
  <2>2. ASSUME NEW i \in 1 .. n, NEW f \in [1 .. n -> V], NEW g \in [1 .. n -> V],
               \A j \in 1 .. n : i < j => f[j] = g[j]
        PROVE  G[i][f] = G[i][g]
    <3> HIDE DEF V
    <3>1. CASE \A h : Strip(h, i) = <<>>
      <4>1. Strip(f, i) = <<>> /\ Strip(g, i) = <<>>
        BY <3>1
      <4> QED BY <4>1
    <3>2. CASE \E j \in 1 .. n : i < j /\ \A h : Strip(h, i) = h[j]
      BY <2>2, <3>2
    <3>3. CASE \E j \in 1 .. n, a \in Atoms : i < j /\ \A h : Strip(h, i) = <<a>> \o h[j]
      <4>1. PICK j \in 1 .. n, a \in Atoms :
               i < j /\ Strip(f, i) = <<a>> \o f[j] /\ Strip(g, i) = <<a>> \o g[j]
        BY <3>3
      <4> QED BY <2>2, <4>1
    <3> QED BY <1>5, <3>1, <3>2, <3>3
  <2>3. <<>> \in V
    OBVIOUS
  <2>4. LooksAhead(n, V, G)
    <3> HIDE DEF G, V
    <3> QED BY <1>2, <2>1, <2>2, <2>3 DEF LooksAhead
  <2>5. PICK f \in [1 .. n -> V] : \A i \in 1 .. n : f[i] = G[i][f]
    <3> HIDE DEF G, V
    <3> QED BY <2>4, Recursion
  <2>6. \A i \in 1 .. n : f[i] = Strip(f, i)
    <3> HIDE DEF V
    <3> QED BY <2>5
  <2>7. f = [i \in 1 .. n |-> Strip(f, i)]
    <3> HIDE DEF V
    <3> QED BY <2>5, <2>6
  <2> QED BY <2>7
<1>8. strip = [i \in 1 .. n |-> Strip(strip, i)]
  BY <1>7
<1> HIDE DEF strip
<1> DEFINE S == {i \in 1 .. n : strip[i] \in V}
<1>9. ASSUME NEW i \in 1 .. n, \A j \in 1 .. n : i < j => j \in S
      PROVE  i \in S
  <2>1. strip[i] = Strip(strip, i)
    BY <1>8
  <2> HIDE DEF V
  <2> QED BY <1>6, <1>9, <2>1
<1>10. 1 .. n \subseteq S
  <2> HIDE DEF S
  <2> QED BY <1>2, <1>9, Downward
<1>11. strip \in [1 .. n -> V]
  <2> HIDE DEF V
  <2> QED BY <1>8, <1>10
<1>12. strip[n] = <<>>
  BY <1>2, <1>3, <1>8
<1>13. \A i \in 1 .. Len(sql) : strip[i] = Strip(strip, i)
  BY <1>2, <1>8
<1> HIDE DEF V
<1>14. \A i \in 1 .. Len(sql) :
          /\ Comment(sql, i) => strip[i] = strip[Skip(sql, i)]
          /\ ~Comment(sql, i) => strip[i] = <<sql[i]>> \o strip[i + 1]
  BY <1>4, <1>13
<1> QED BY <1>1, <1>11, <1>12, <1>14 DEF n, V

(* stripComments makes texts of texts.                                     *)
LEMMA StripsToText ==
    ASSUME NEW sql \in Seq(Atoms)
    PROVE  StripComments(sql) \in Seq(Atoms)
<1>1. PICK strip \in [1 .. Len(sql) + 1 -> Seq(Atoms)] : StripComments(sql) = strip[1]
  BY Strips
<1>2. 1 \in 1 .. Len(sql) + 1
  OBVIOUS
<1> QED BY <1>1, <1>2

(* optionRe, one pair or atom at a time.                                   *)
Equals(body, i) == AfterBlanks(body, i + 1)
ValueAt(body, i) == AfterBlanks(body, Equals(body, i) + 1)
IsPair(body, i) ==
    Is(body, i, "lit") /\ Is(body, Equals(body, i), "=") /\ Is(body, ValueAt(body, i), "lit")
OptionPairs == Words \X Words

(* A pair ends behind its beginning and is an option.                      *)
LEMMA PairsEnd ==
    ASSUME NEW body \in Seq(Atoms), NEW i \in 1 .. Len(body), IsPair(body, i)
    PROVE  /\ ValueAt(body, i) \in i + 1 .. Len(body)
           /\ <<body[i][2], body[ValueAt(body, i)][2]>> \in OptionPairs
<1>1. Len(body) \in Nat /\ i + 1 \in 1 .. Len(body) + 1
  OBVIOUS
<1>2. Equals(body, i) \in i + 1 .. Len(body) + 1
  BY <1>1, BlanksEnd DEF Equals
<1>3. Equals(body, i) <= Len(body) /\ ValueAt(body, i) <= Len(body)
  BY DEF IsPair, Is
<1>4. Equals(body, i) + 1 \in 1 .. Len(body) + 1
  BY <1>1, <1>2, <1>3
<1>5. ValueAt(body, i) \in Equals(body, i) + 1 .. Len(body) + 1
  BY <1>4, BlanksEnd DEF ValueAt
<1>6. ValueAt(body, i) \in i + 1 .. Len(body)
  BY <1>1, <1>2, <1>3, <1>5
<1>7. body[i] \in Atoms /\ body[ValueAt(body, i)] \in Atoms
  BY <1>1, <1>6
<1> QED BY <1>6, <1>7 DEF Atoms, OptionPairs

(* The function that optionRe defines exists, and unfolds.                 *)
LEMMA Pairs ==
    ASSUME NEW body \in Seq(Atoms)
    PROVE  \E pairs \in [1 .. Len(body) + 1 -> Seq(OptionPairs)] :
              /\ Options(body) = pairs[1]
              /\ pairs[Len(body) + 1] = <<>>
              /\ \A i \in 1 .. Len(body) :
                    /\ IsPair(body, i) =>
                          pairs[i] = <<<<body[i][2], body[ValueAt(body, i)][2]>>>>
                                     \o pairs[ValueAt(body, i) + 1]
                    /\ ~IsPair(body, i) => pairs[i] = pairs[i + 1]
<1> DEFINE n == Len(body) + 1
           V == Seq(OptionPairs)
           eq(i) == AfterBlanks(body, i + 1)
           value(i) == AfterBlanks(body, eq(i) + 1)
           pair(i) == <<body[i][2], body[value(i)][2]>>
           Parse(f, i) ==
              CASE i > Len(body) -> <<>>
                [] Is(body, i, "lit") /\ Is(body, eq(i), "=") /\ Is(body, value(i), "lit") ->
                      <<pair(i)>> \o f[value(i) + 1]
                [] OTHER -> f[i + 1]
           pairs == CHOOSE f : f = [i \in 1 .. n |-> Parse(f, i)]
<1>1. Options(body) = pairs[1]
  BY DEF Options
<1>2. n \in Nat /\ Len(body) \in Nat /\ n = Len(body) + 1
  OBVIOUS
<1>3. \A f : Parse(f, n) = <<>>
  <2>1. ~Is(body, n, "lit")
    BY <1>2 DEF Is
  <2> QED BY <1>2, <2>1
<1>4. ASSUME NEW i \in 1 .. Len(body)
      PROVE  /\ IsPair(body, i) => \A f : Parse(f, i) = <<pair(i)>> \o f[value(i) + 1]
             /\ ~IsPair(body, i) => \A f : Parse(f, i) = f[i + 1]
             /\ value(i) = ValueAt(body, i)
  <2>1. ~(i > Len(body)) /\ i \in 1 .. n
    BY <1>2
  <2>2. IsPair(body, i) <=> Is(body, i, "lit") /\ Is(body, eq(i), "=") /\ Is(body, value(i), "lit")
    BY DEF IsPair, Equals, ValueAt
  <2>3. CASE IsPair(body, i)
    BY <2>1, <2>2, <2>3 DEF Equals, ValueAt
  <2>4. CASE ~IsPair(body, i)
    BY <2>1, <2>2, <2>4 DEF Equals, ValueAt
  <2> QED BY <2>3, <2>4
<1> HIDE DEF value
<1>5. ASSUME NEW i \in 1 .. n
      PROVE  \/ \A f : Parse(f, i) = <<>>
             \/ \E j \in 1 .. n : i < j /\ \A f : Parse(f, i) = f[j]
             \/ \E j \in 1 .. n, a \in OptionPairs : i < j /\ \A f : Parse(f, i) = <<a>> \o f[j]
  <2> HIDE DEF n, Parse, pair
  <2>1. CASE i = n
    BY <1>3, <2>1
  <2>2. CASE i # n
    <3>1. i \in 1 .. Len(body)
      BY <1>2, <2>2
    <3>2. CASE IsPair(body, i)
      <4>1. \A f : Parse(f, i) = <<pair(i)>> \o f[value(i) + 1]
        BY <1>4, <3>1, <3>2
      <4>2. value(i) \in i + 1 .. Len(body) /\ pair(i) \in OptionPairs
        BY <1>4, <3>1, <3>2, PairsEnd DEF pair
      <4>3. value(i) + 1 \in 1 .. n /\ i < value(i) + 1
        BY <1>2, <4>2
      <4> QED BY <4>1, <4>2, <4>3
    <3>3. CASE ~IsPair(body, i)
      <4>1. \A f : Parse(f, i) = f[i + 1]
        BY <1>4, <3>1, <3>3
      <4>2. i + 1 \in 1 .. n /\ i < i + 1
        BY <1>2, <3>1
      <4> QED BY <4>1, <4>2
    <3> QED BY <3>2, <3>3
  <2> QED BY <2>1, <2>2
<1> HIDE DEF n, Parse
<1>6. ASSUME NEW i \in 1 .. n, NEW f, \A j \in 1 .. n : i < j => f[j] \in V
      PROVE  Parse(f, i) \in V
  <2>1. CASE \A g : Parse(g, i) = <<>>
    <3>1. Parse(f, i) = <<>>
      BY <2>1
    <3> QED BY <3>1
  <2>2. CASE \E j \in 1 .. n : i < j /\ \A g : Parse(g, i) = g[j]
    BY <1>6, <2>2
  <2>3. CASE \E j \in 1 .. n, a \in OptionPairs : i < j /\ \A g : Parse(g, i) = <<a>> \o g[j]
    <3>1. PICK j \in 1 .. n, a \in OptionPairs : i < j /\ Parse(f, i) = <<a>> \o f[j]
      BY <2>3
    <3>2. f[j] \in Seq(OptionPairs)
      BY <1>6, <3>1
    <3> QED BY <3>1, <3>2
  <2> QED BY <1>5, <2>1, <2>2, <2>3
<1>7. \E f : f = [i \in 1 .. n |-> Parse(f, i)]
  <2> DEFINE G == [i \in 1 .. n |-> [f \in [1 .. n -> V] |-> Parse(f, i)]]
  <2>1. G \in [1 .. n -> [[1 .. n -> V] -> V]]
    <3>1. \A i \in 1 .. n : \A f \in [1 .. n -> V] : Parse(f, i) \in V
      BY <1>6
    <3> HIDE DEF V
    <3> QED BY <3>1
  <2>2. ASSUME NEW i \in 1 .. n, NEW f \in [1 .. n -> V], NEW g \in [1 .. n -> V],
               \A j \in 1 .. n : i < j => f[j] = g[j]
        PROVE  G[i][f] = G[i][g]
    <3> HIDE DEF V
    <3>1. CASE \A h : Parse(h, i) = <<>>
      <4>1. Parse(f, i) = <<>> /\ Parse(g, i) = <<>>
        BY <3>1
      <4> QED BY <4>1
    <3>2. CASE \E j \in 1 .. n : i < j /\ \A h : Parse(h, i) = h[j]
      BY <2>2, <3>2
    <3>3. CASE \E j \in 1 .. n, a \in OptionPairs : i < j /\ \A h : Parse(h, i) = <<a>> \o h[j]
      <4>1. PICK j \in 1 .. n, a \in OptionPairs :
               i < j /\ Parse(f, i) = <<a>> \o f[j] /\ Parse(g, i) = <<a>> \o g[j]
        BY <3>3
      <4> QED BY <2>2, <4>1
    <3> QED BY <1>5, <3>1, <3>2, <3>3
  <2>3. <<>> \in V
    OBVIOUS
  <2>4. LooksAhead(n, V, G)
    <3> HIDE DEF G, V
    <3> QED BY <1>2, <2>1, <2>2, <2>3 DEF LooksAhead
  <2>5. PICK f \in [1 .. n -> V] : \A i \in 1 .. n : f[i] = G[i][f]
    <3> HIDE DEF G, V
    <3> QED BY <2>4, Recursion
  <2>6. \A i \in 1 .. n : f[i] = Parse(f, i)
    <3> HIDE DEF V
    <3> QED BY <2>5
  <2>7. f = [i \in 1 .. n |-> Parse(f, i)]
    <3> HIDE DEF V
    <3> QED BY <2>5, <2>6
  <2> QED BY <2>7
<1>8. pairs = [i \in 1 .. n |-> Parse(pairs, i)]
  BY <1>7
<1> HIDE DEF pairs
<1> DEFINE S == {i \in 1 .. n : pairs[i] \in V}
<1>9. ASSUME NEW i \in 1 .. n, \A j \in 1 .. n : i < j => j \in S
      PROVE  i \in S
  <2>1. pairs[i] = Parse(pairs, i)
    BY <1>8
  <2> HIDE DEF V
  <2> QED BY <1>6, <1>9, <2>1
<1>10. 1 .. n \subseteq S
  <2> HIDE DEF S
  <2> QED BY <1>2, <1>9, Downward
<1>11. pairs \in [1 .. n -> V]
  <2> HIDE DEF V
  <2> QED BY <1>8, <1>10
<1>12. pairs[n] = <<>>
  BY <1>2, <1>3, <1>8
<1>13. \A i \in 1 .. Len(body) : pairs[i] = Parse(pairs, i)
  BY <1>2, <1>8
<1> HIDE DEF V
<1>14. \A i \in 1 .. Len(body) :
          /\ IsPair(body, i) =>
                pairs[i] = <<<<body[i][2], body[ValueAt(body, i)][2]>>>> \o pairs[ValueAt(body, i) + 1]
          /\ ~IsPair(body, i) => pairs[i] = pairs[i + 1]
  BY <1>4, <1>13
<1> QED BY <1>1, <1>11, <1>12, <1>14 DEF n, V

(* What is read of a block are options.                                    *)
LEMMA ReadsOptions ==
    ASSUME NEW body \in Seq(Atoms)
    PROVE  Read(body) \in Seq(OptionPairs)
<1> DEFINE code == StripComments(body)
<1>1. code \in Seq(Atoms)
  BY StripsToText
<1>2. PICK pairs \in [1 .. Len(code) + 1 -> Seq(OptionPairs)] : Options(code) = pairs[1]
  <2> HIDE DEF code
  <2> QED BY <1>1, Pairs
<1>3. 1 \in 1 .. Len(code) + 1
  <2> HIDE DEF code
  <2> QED BY <1>1
<1> QED BY <1>2, <1>3 DEF Read

-----------------------------------------------------------------------------
(* Sequences.                                                              *)

(* A part of a sequence.                                                   *)
LEMMA SubSeqIs ==
    ASSUME NEW A, NEW s \in Seq(A), NEW m \in 1 .. Len(s) + 1, NEW k \in Nat, k <= Len(s), k >= m - 1
    PROVE  /\ SubSeq(s, m, k) \in Seq(A)
           /\ Len(SubSeq(s, m, k)) = k - m + 1
           /\ \A i \in 1 .. k - m + 1 : SubSeq(s, m, k)[i] = s[m + i - 1]
OBVIOUS

(* Two sequences of the same elements are the same.                        *)
LEMMA SameSeq ==
    ASSUME NEW A, NEW s \in Seq(A), NEW t \in Seq(A), Len(s) = Len(t),
           \A i \in 1 .. Len(s) : s[i] = t[i]
    PROVE  s = t
OBVIOUS

(* The beginning of a part of a sequence.                                  *)
LEMMA SubSeqBegins ==
    ASSUME NEW A, NEW s \in Seq(A), NEW m \in 1 .. Len(s)
    PROVE  <<s[m]>> \o SubSeq(s, m + 1, Len(s)) = SubSeq(s, m, Len(s))
OBVIOUS

(* Two sequences put together.                                             *)
LEMMA Joined ==
    ASSUME NEW A, NEW s \in Seq(A), NEW t \in Seq(A)
    PROVE  /\ s \o t \in Seq(A)
           /\ Len(s \o t) = Len(s) + Len(t)
           /\ \A i \in 1 .. Len(s) : (s \o t)[i] = s[i]
           /\ \A i \in 1 .. Len(t) : (s \o t)[Len(s) + i] = t[i]
OBVIOUS

-----------------------------------------------------------------------------
(* What a rendered block reads as.                                         *)

(* The atoms of a line.                                                    *)
LEMMA LineAtoms ==
    ASSUME NEW option \in OptionPairs, NEW last \in BOOLEAN
    PROVE  /\ Line(option, last)[1] = Atom("nl")
           /\ Line(option, last)[2] = Lit(option[1])
           /\ Line(option, last)[3] = Atom("=")
           /\ Line(option, last)[4] = Lit(option[2])
           /\ Line(option, last)[5] \in {Atom(","), Atom("nl")}
           /\ \A j \in 1 .. 5 : /\ Line(option, last)[j] \in Atoms
                                /\ Line(option, last)[j][1] \in {"nl", "lit", "=", ","}
<1>1. option[1] \in Words /\ option[2] \in Words
  BY DEF OptionPairs
<1>2. /\ Line(option, last)[1] = Atom("nl")
      /\ Line(option, last)[2] = Lit(option[1])
      /\ Line(option, last)[3] = Atom("=")
      /\ Line(option, last)[4] = Lit(option[2])
      /\ Line(option, last)[5] \in {Atom(","), Atom("nl")}
  BY DEF Line
<1>3. ASSUME NEW kind \in Kinds, NEW v \in Words
      PROVE  <<kind, v>> \in Atoms /\ <<kind, v>>[1] = kind
  BY DEF Atoms
<1>4. /\ \A v \in Words : Lit(v) \in Atoms /\ Lit(v)[1] = "lit"
      /\ Atom("nl") \in Atoms /\ Atom("nl")[1] = "nl"
      /\ Atom("=") \in Atoms /\ Atom("=")[1] = "="
      /\ Atom(",") \in Atoms /\ Atom(",")[1] = ","
  <2>1. NoName \in Words /\ {"nl", "=", ",", "lit"} \subseteq Kinds
    BY SqlAssumption DEF Kinds
  <2> HIDE DEF Kinds
  <2> QED BY <1>3, <2>1 DEF Lit, Atom
<1>5. ASSUME NEW j \in 1 .. 5
      PROVE  /\ Line(option, last)[j] \in Atoms
             /\ Line(option, last)[j][1] \in {"nl", "lit", "=", ","}
  <2>1. j = 1 \/ j = 2 \/ j = 3 \/ j = 4 \/ j = 5
    OBVIOUS
  <2> QED BY <1>1, <1>2, <1>4, <2>1
<1> QED BY <1>2, <1>5

(* A rendered block is five atoms for each option.                         *)
LEMMA RenderedAtoms ==
    ASSUME NEW options \in Seq(OptionPairs)
    PROVE  /\ Rendered(options) \in Seq(Atoms)
           /\ Len(Rendered(options)) = 5 * Len(options)
           /\ \A i \in 1 .. 5 * Len(options) :
                 Rendered(options)[i][1] \in {"nl", "lit", "=", ","}
           /\ \A m \in 1 .. Len(options) :
                 /\ Rendered(options)[5 * m - 4] = Atom("nl")
                 /\ Rendered(options)[5 * m - 3] = Lit(options[m][1])
                 /\ Rendered(options)[5 * m - 2] = Atom("=")
                 /\ Rendered(options)[5 * m - 1] = Lit(options[m][2])
                 /\ Rendered(options)[5 * m] \in {Atom(","), Atom("nl")}
<1> DEFINE n == Len(options)
           R(k) == Line(options[(k - 1) \div 5 + 1], k = 5 * Len(options))[((k - 1) % 5) + 1]
<1>1. n \in Nat /\ 5 * n \in Nat
  OBVIOUS
<1>2. Rendered(options) = [k \in 1 .. 5 * n |-> R(k)]
  BY DEF Rendered
<1>3. ASSUME NEW m \in 1 .. n, NEW j \in 1 .. 5
      PROVE  /\ 5 * m - 5 + j \in 1 .. 5 * n
             /\ \E last \in BOOLEAN : R(5 * m - 5 + j) = Line(options[m], last)[j]
  <2>1. /\ 5 * m - 5 + j \in 1 .. 5 * n
        /\ (5 * m - 5 + j - 1) \div 5 + 1 = m
        /\ ((5 * m - 5 + j - 1) % 5) + 1 = j
    BY <1>1
  <2>2. R(5 * m - 5 + j) = Line(options[m], 5 * m - 5 + j = 5 * Len(options))[j]
    BY <2>1
  <2>3. (5 * m - 5 + j = 5 * Len(options)) \in BOOLEAN
    OBVIOUS
  <2> QED BY <2>1, <2>2, <2>3
<1>4. ASSUME NEW k \in 1 .. 5 * n
      PROVE  \E m \in 1 .. n, j \in 1 .. 5 : k = 5 * m - 5 + j
  <2>1. (k + 4) \div 5 \in 1 .. n
    BY <1>1
  <2>2. k - 5 * ((k + 4) \div 5) + 5 \in 1 .. 5
    BY <1>1
  <2>3. k = 5 * ((k + 4) \div 5) - 5 + (k - 5 * ((k + 4) \div 5) + 5)
    BY <1>1, <2>1
  <2> QED BY <2>1, <2>2, <2>3
<1>5. \A m \in 1 .. n : options[m] \in OptionPairs
  OBVIOUS
<1> HIDE DEF n, R
<1>6. ASSUME NEW k \in 1 .. 5 * n
      PROVE  R(k) \in Atoms /\ R(k)[1] \in {"nl", "lit", "=", ","}
  <2>1. PICK m \in 1 .. n, j \in 1 .. 5 : k = 5 * m - 5 + j
    BY <1>4
  <2>2. PICK last \in BOOLEAN : R(k) = Line(options[m], last)[j]
    BY <1>3, <2>1
  <2> QED BY <1>5, <2>2, LineAtoms
<1>7. Rendered(options) \in Seq(Atoms) /\ Len(Rendered(options)) = 5 * n
  <2>1. \A k \in 1 .. 5 * n : R(k) \in Atoms
    BY <1>6
  <2>2. [k \in 1 .. 5 * n |-> R(k)] \in Seq(Atoms)
    BY <1>1, <2>1
  <2>3. Len([k \in 1 .. 5 * n |-> R(k)]) = 5 * n
    BY <1>1
  <2> QED BY <1>2, <2>2, <2>3
<1>8. \A k \in 1 .. 5 * n : Rendered(options)[k] = R(k)
  BY <1>2
<1>9. ASSUME NEW m \in 1 .. n
      PROVE  /\ Rendered(options)[5 * m - 4] = Atom("nl")
             /\ Rendered(options)[5 * m - 3] = Lit(options[m][1])
             /\ Rendered(options)[5 * m - 2] = Atom("=")
             /\ Rendered(options)[5 * m - 1] = Lit(options[m][2])
             /\ Rendered(options)[5 * m] \in {Atom(","), Atom("nl")}
  <2>1. \A j \in 1 .. 5 : \E last \in BOOLEAN :
           Rendered(options)[5 * m - 5 + j] = Line(options[m], last)[j]
    BY <1>3, <1>8
  <2>2. /\ 5 * m - 5 + 1 = 5 * m - 4 /\ 5 * m - 5 + 2 = 5 * m - 3 /\ 5 * m - 5 + 3 = 5 * m - 2
        /\ 5 * m - 5 + 4 = 5 * m - 1 /\ 5 * m - 5 + 5 = 5 * m
    BY <1>1
  <2>3. /\ \E last \in BOOLEAN : Rendered(options)[5 * m - 4] = Line(options[m], last)[1]
        /\ \E last \in BOOLEAN : Rendered(options)[5 * m - 3] = Line(options[m], last)[2]
        /\ \E last \in BOOLEAN : Rendered(options)[5 * m - 2] = Line(options[m], last)[3]
        /\ \E last \in BOOLEAN : Rendered(options)[5 * m - 1] = Line(options[m], last)[4]
        /\ \E last \in BOOLEAN : Rendered(options)[5 * m] = Line(options[m], last)[5]
    BY <2>1, <2>2
  <2> QED BY <1>5, <2>3, LineAtoms
<1> QED BY <1>6, <1>7, <1>8, <1>9 DEF n

(* A text without comments is what is left of it.                          *)
LEMMA CodeStays ==
    ASSUME NEW sql \in Seq(Atoms), \A i \in 1 .. Len(sql) : ~Comment(sql, i)
    PROVE  StripComments(sql) = sql
<1> DEFINE n == Len(sql) + 1
<1>1. n \in Nat /\ Len(sql) \in Nat /\ n = Len(sql) + 1
  OBVIOUS
<1>2. PICK strip \in [1 .. n -> Seq(Atoms)] :
         /\ StripComments(sql) = strip[1]
         /\ strip[n] = <<>>
         /\ \A i \in 1 .. Len(sql) : strip[i] = <<sql[i]>> \o strip[i + 1]
  BY Strips
<1> HIDE DEF n
<1> DEFINE S == {i \in 1 .. n : strip[i] = SubSeq(sql, i, Len(sql))}
<1>3. ASSUME NEW i \in 1 .. n, \A j \in 1 .. n : i < j => j \in S
      PROVE  i \in S
  <2>1. CASE i = n
    <3>1. SubSeq(sql, i, Len(sql)) = <<>>
      BY <1>1, <2>1
    <3> QED BY <1>2, <2>1, <3>1
  <2>2. CASE i # n
    <3>1. i \in 1 .. Len(sql) /\ i + 1 \in 1 .. n /\ i < i + 1
      BY <1>1, <2>2
    <3>2. strip[i + 1] = SubSeq(sql, i + 1, Len(sql))
      BY <1>3, <3>1
    <3>3. <<sql[i]>> \o SubSeq(sql, i + 1, Len(sql)) = SubSeq(sql, i, Len(sql))
      BY <3>1, SubSeqBegins
    <3> QED BY <1>2, <3>1, <3>2, <3>3
  <2> QED BY <2>1, <2>2
<1>4. 1 .. n \subseteq S
  <2> HIDE DEF S
  <2> QED BY <1>1, <1>3, Downward
<1>5. strip[1] = SubSeq(sql, 1, Len(sql))
  <2>1. 1 \in S
    <3> HIDE DEF S
    <3> QED BY <1>1, <1>4
  <2> QED BY <2>1
<1>6. SubSeq(sql, 1, Len(sql)) = sql
  OBVIOUS
<1> QED BY <1>2, <1>5, <1>6

(* Where there is no blank, blanks end.                                    *)
LEMMA NoBlank ==
    ASSUME NEW sql \in Seq(Atoms), NEW i \in 1 .. Len(sql), sql[i][1] # "nl"
    PROVE  AfterBlanks(sql, i) = i
<1> DEFINE S == {j \in i .. Len(sql) : ~Is(sql, j, "nl")}
<1>1. i \in S
  BY DEF Is
<1>2. AfterBlanks(sql, i) = MinOr(S, Len(sql) + 1) /\ S \subseteq Nat /\ S \subseteq i .. Len(sql)
  BY DEF AfterBlanks
<1>3. MinOr(S, Len(sql) + 1) \in S /\ MinOr(S, Len(sql) + 1) <= i
  <2> HIDE DEF S
  <2> QED BY <1>1, <1>2, Least
<1> QED BY <1>2, <1>3

(* The options that a block is rendered from are those that are read.      *)
LEMMA ReadsRendered ==
    ASSUME NEW options \in Seq(OptionPairs)
    PROVE  Read(Rendered(options)) = options
<1> DEFINE n == Len(options)
           R == Rendered(options)
<1>1. n \in Nat /\ n = Len(options)
  OBVIOUS
<1>2. R \in Seq(Atoms) /\ Len(R) = 5 * n
  BY RenderedAtoms
<1>3. \A i \in 1 .. 5 * n : R[i][1] \in {"nl", "lit", "=", ","}
  BY RenderedAtoms
<1>4. ASSUME NEW m \in 1 .. n
      PROVE  /\ R[5 * m - 4][1] = "nl"
             /\ R[5 * m - 3][1] = "lit"
             /\ R[5 * m - 2][1] = "="
             /\ R[5 * m - 1][1] = "lit"
             /\ R[5 * m][1] \in {",", "nl"}
             /\ R[5 * m - 3][2] = options[m][1] /\ R[5 * m - 1][2] = options[m][2]
  <2>1. /\ R[5 * m - 4] = Atom("nl")
        /\ R[5 * m - 3] = Lit(options[m][1])
        /\ R[5 * m - 2] = Atom("=")
        /\ R[5 * m - 1] = Lit(options[m][2])
        /\ R[5 * m] \in {Atom(","), Atom("nl")}
    BY RenderedAtoms
  <2>2. /\ \A kind : Atom(kind)[1] = kind
        /\ \A v : Lit(v)[1] = "lit" /\ Lit(v)[2] = v
    <3>1. ASSUME NEW kind PROVE Atom(kind)[1] = kind
      BY DEF Atom
    <3>2. ASSUME NEW v PROVE Lit(v)[1] = "lit" /\ Lit(v)[2] = v
      BY DEF Lit
    <3> QED BY <3>1, <3>2
  <2> HIDE DEF R
  <2>3. R[5 * m - 4][1] = "nl" /\ R[5 * m - 2][1] = "="
    BY <2>1, <2>2, Zenon
  <2>4. R[5 * m - 3][1] = "lit" /\ R[5 * m - 1][1] = "lit"
    BY <2>1, <2>2, Zenon
  <2>5. R[5 * m - 3][2] = options[m][1] /\ R[5 * m - 1][2] = options[m][2]
    <3>1. Lit(options[m][1])[2] = options[m][1] /\ Lit(options[m][2])[2] = options[m][2]
      BY <2>2, Zenon
    <3> QED BY <2>1, <3>1, Zenon
  <2>6. R[5 * m][1] \in {",", "nl"}
    BY <2>1, <2>2, Zenon
  <2> QED BY <2>3, <2>4, <2>5, <2>6
<1> HIDE DEF R
<1>5. StripComments(R) = R
  <2>1. \A i \in 1 .. Len(R) : ~Comment(R, i)
    BY <1>2, <1>3 DEF Comment, Is
  <2> QED BY <1>2, <2>1, CodeStays
<1>6. PICK pairs \in [1 .. Len(R) + 1 -> Seq(OptionPairs)] :
         /\ Options(R) = pairs[1]
         /\ pairs[Len(R) + 1] = <<>>
         /\ \A i \in 1 .. Len(R) :
               /\ IsPair(R, i) =>
                     pairs[i] = <<<<R[i][2], R[ValueAt(R, i)][2]>>>> \o pairs[ValueAt(R, i) + 1]
               /\ ~IsPair(R, i) => pairs[i] = pairs[i + 1]
  BY <1>2, Pairs
<1>7. ASSUME NEW m \in 1 .. n
      PROVE  pairs[5 * m - 4] = <<options[m]>> \o pairs[5 * (m + 1) - 4]
  <2>1. /\ 5 * m - 4 \in 1 .. Len(R) /\ 5 * m - 4 + 1 = 5 * m - 3
        /\ 5 * m - 3 \in 1 .. Len(R) /\ 5 * m - 3 + 1 = 5 * m - 2
        /\ 5 * m - 2 \in 1 .. Len(R) /\ 5 * m - 2 + 1 = 5 * m - 1
        /\ 5 * m - 1 \in 1 .. Len(R) /\ 5 * m - 1 + 1 = 5 * m
        /\ 5 * m \in 1 .. Len(R) /\ 5 * m + 1 = 5 * (m + 1) - 4
    BY <1>1, <1>2
  <2>2. ~IsPair(R, 5 * m - 4) /\ ~IsPair(R, 5 * m)
    BY <1>4 DEF IsPair, Is
  <2>3. Equals(R, 5 * m - 3) = 5 * m - 2 /\ ValueAt(R, 5 * m - 3) = 5 * m - 1
    <3>1. AfterBlanks(R, 5 * m - 2) = 5 * m - 2
      BY <1>2, <1>4, <2>1, NoBlank
    <3>2. AfterBlanks(R, 5 * m - 1) = 5 * m - 1
      BY <1>2, <1>4, <2>1, NoBlank
    <3> QED BY <2>1, <3>1, <3>2 DEF Equals, ValueAt
  <2>4. IsPair(R, 5 * m - 3)
    <3>1. Is(R, 5 * m - 3, "lit") /\ Is(R, 5 * m - 2, "=") /\ Is(R, 5 * m - 1, "lit")
      <4>1. R[5 * m - 3][1] = "lit" /\ R[5 * m - 2][1] = "=" /\ R[5 * m - 1][1] = "lit"
        BY <1>4
      <4>2. 5 * m - 3 <= Len(R) /\ 5 * m - 2 <= Len(R) /\ 5 * m - 1 <= Len(R)
        BY <2>1
      <4> QED BY <4>1, <4>2 DEF Is
    <3> QED BY <2>3, <3>1 DEF IsPair
  <2>5. pairs[5 * m - 4] = pairs[5 * m - 3] /\ pairs[5 * m] = pairs[5 * (m + 1) - 4]
    BY <1>6, <2>1, <2>2
  <2>6. pairs[5 * m - 3] = <<<<R[5 * m - 3][2], R[5 * m - 1][2]>>>> \o pairs[5 * m]
    <3>1. pairs[5 * m - 3] =
             <<<<R[5 * m - 3][2], R[ValueAt(R, 5 * m - 3)][2]>>>> \o pairs[ValueAt(R, 5 * m - 3) + 1]
      BY <1>6, <2>1, <2>4
    <3> QED BY <2>1, <2>3, <3>1
  <2>7. <<R[5 * m - 3][2], R[5 * m - 1][2]>> = options[m]
    <3>1. options[m] \in OptionPairs
      OBVIOUS
    <3>2. options[m] = <<options[m][1], options[m][2]>>
      BY <3>1 DEF OptionPairs
    <3> QED BY <1>4, <3>2
  <2> QED BY <2>5, <2>6, <2>7
<1> DEFINE S == {m \in 1 .. n + 1 : pairs[5 * m - 4] = SubSeq(options, m, n)}
<1>8. ASSUME NEW m \in 1 .. n + 1, \A j \in 1 .. n + 1 : m < j => j \in S
      PROVE  m \in S
  <2>1. CASE m = n + 1
    <3>1. SubSeq(options, m, n) = <<>>
      BY <2>1
    <3>2. 5 * m - 4 = Len(R) + 1
      BY <1>1, <1>2, <2>1
    <3> QED BY <1>6, <3>1, <3>2
  <2>2. CASE m # n + 1
    <3>1. m \in 1 .. n /\ m + 1 \in 1 .. n + 1 /\ m < m + 1
      BY <1>1, <2>2
    <3>2. pairs[5 * (m + 1) - 4] = SubSeq(options, m + 1, n)
      BY <1>8, <3>1
    <3>3. <<options[m]>> \o SubSeq(options, m + 1, n) = SubSeq(options, m, n)
      BY <3>1, SubSeqBegins
    <3> QED BY <1>7, <3>1, <3>2, <3>3
  <2> QED BY <2>1, <2>2
<1>9. 1 .. n + 1 \subseteq S
  <2>1. n + 1 \in Nat
    BY <1>1
  <2> HIDE DEF S, n
  <2> QED BY <1>8, <2>1, Downward
<1>10. pairs[1] = SubSeq(options, 1, n)
  <2>1. 1 \in S
    <3> HIDE DEF S
    <3> QED BY <1>1, <1>9
  <2> QED BY <2>1
<1>11. SubSeq(options, 1, n) = options
  OBVIOUS
<1> QED BY <1>5, <1>6, <1>10, <1>11 DEF Read, R

-----------------------------------------------------------------------------
(* What upserts do to options.                                             *)

IsLast(options, i) ==
    \A j \in 1 .. Len(options) : options[j][1] = options[i][1] => j <= i

(* Where an upsert goes: the last of the key, or behind all.               *)
Goes(options, up, p) ==
    /\ p \in 1 .. Len(options) + 1
    /\ p \in 1 .. Len(options) => options[p][1] = up[1] /\ IsLast(options, p)
    /\ p = Len(options) + 1 => \A i \in 1 .. Len(options) : options[i][1] # up[1]

(* What is there then.                                                     *)
Put(options, up, p, new) ==
    /\ new \in Seq(OptionPairs)
    /\ Len(new) = IF p = Len(options) + 1 THEN p ELSE Len(options)
    /\ new[p] = up
    /\ \A i \in 1 .. Len(options) : i # p => new[i] = options[i]

(* An upsert finds its place and puts the option there.                    *)
LEMMA UpsertPuts ==
    ASSUME NEW options \in Seq(OptionPairs), NEW up \in OptionPairs
    PROVE  \E p \in Nat : Goes(options, up, p) /\ Put(options, up, p, Upsert(options, up))
<1> DEFINE n == Len(options)
           at == KeysAt(options, up[1])
<1>1. n \in Nat /\ at \subseteq 1 .. n /\ \A i \in 1 .. n : i \in at <=> options[i][1] = up[1]
  BY DEF KeysAt
<1>2. Upsert(options, up) =
         IF at = {} THEN Append(options, up)
         ELSE [options EXCEPT ![CHOOSE i \in at : \A j \in at : j <= i] = up]
  BY DEF Upsert
<1>3. CASE at = {}
  <2>1. Upsert(options, up) = Append(options, up)
    BY <1>2, <1>3
  <2>2. Put(options, up, n + 1, Append(options, up))
    BY <1>1 DEF Put
  <2>3. \A i \in 1 .. n : options[i][1] # up[1]
    <3> HIDE DEF at, n
    <3> QED BY <1>1, <1>3
  <2>4. Goes(options, up, n + 1)
    <3>1. n + 1 \in 1 .. n + 1 /\ n + 1 \notin 1 .. n
      BY <1>1
    <3> QED BY <2>3, <3>1 DEF Goes
  <2>5. n + 1 \in Nat
    BY <1>1
  <2> QED BY <2>1, <2>2, <2>4, <2>5
<1>4. CASE at # {}
  <2> DEFINE l == CHOOSE i \in at : \A j \in at : j <= i
  <2>1. l \in at /\ \A j \in at : j <= l
    <3>1. \E i \in at : \A j \in at : j <= i
      <4> HIDE DEF at, n
      <4> QED BY <1>1, <1>4, GreatestIn
    <3> QED BY <3>1
  <2>2. Upsert(options, up) = [options EXCEPT ![l] = up]
    BY <1>2, <1>4
  <2> HIDE DEF l, at
  <2>3. l \in 1 .. n /\ options[l][1] = up[1] /\ l # n + 1 /\ l \in Nat
    BY <1>1, <2>1
  <2>4. IsLast(options, l)
    BY <1>1, <2>1, <2>3 DEF IsLast
  <2>5. Put(options, up, l, Upsert(options, up))
    BY <1>1, <2>2, <2>3 DEF Put
  <2>6. Goes(options, up, l)
    BY <1>1, <2>3, <2>4 DEF Goes
  <2> QED BY <2>3, <2>5, <2>6
<1> QED BY <1>3, <1>4

(* An upsert keeps keys and other options, and its own is the last of its  *)
(* key.                                                                    *)
LEMMA UpsertSets ==
    ASSUME NEW options \in Seq(OptionPairs), NEW up \in OptionPairs
    PROVE  /\ Upsert(options, up) \in Seq(OptionPairs)
           /\ Len(options) <= Len(Upsert(options, up))
           /\ \A i \in 1 .. Len(options) :
                 /\ Upsert(options, up)[i][1] = options[i][1]
                 /\ options[i][1] # up[1] => Upsert(options, up)[i] = options[i]
           /\ \A i \in Len(options) + 1 .. Len(Upsert(options, up)) : Upsert(options, up)[i] = up
           /\ \E i \in 1 .. Len(Upsert(options, up)) :
                 Upsert(options, up)[i] = up /\ IsLast(Upsert(options, up), i)
<1>1. PICK p \in Nat : Goes(options, up, p) /\ Put(options, up, p, Upsert(options, up))
  BY UpsertPuts
<1>2. PICK new \in Seq(OptionPairs) : new = Upsert(options, up) /\ Put(options, up, p, new)
  BY <1>1 DEF Put
<1>3. Len(options) \in Nat /\ Len(new) \in Nat
  OBVIOUS
<1>4. p \in 1 .. Len(options) + 1
  BY <1>1 DEF Goes
<1>5. /\ Len(options) <= Len(new) /\ p \in 1 .. Len(new) /\ new[p] = up
      /\ \A i \in 1 .. Len(new) : i = p \/ i \in 1 .. Len(options)
  BY <1>2, <1>3, <1>4 DEF Put
<1>6. ASSUME NEW i \in 1 .. Len(options)
      PROVE  new[i][1] = options[i][1] /\ (options[i][1] # up[1] => new[i] = options[i])
  BY <1>1, <1>2, <1>5 DEF Goes, Put
<1>7. \A i \in Len(options) + 1 .. Len(new) : new[i] = up
  BY <1>3, <1>5
<1>8. IsLast(new, p)
  <2> SUFFICES ASSUME NEW j \in 1 .. Len(new), new[j][1] = new[p][1], j # p PROVE j <= p
    BY <1>3, <1>4 DEF IsLast
  <2>1. j \in 1 .. Len(options) /\ options[j][1] = up[1]
    BY <1>5, <1>6
  <2>2. p \in 1 .. Len(options)
    BY <1>1, <1>3, <1>4, <2>1 DEF Goes
  <2>3. options[p][1] = up[1] /\ IsLast(options, p)
    BY <1>1, <2>2 DEF Goes
  <2> QED BY <2>1, <2>3 DEF IsLast
<1> QED BY <1>2, <1>5, <1>6, <1>7, <1>8

(* An upsert leaves what is set for another key.                           *)
LEMMA UpsertKeeps ==
    ASSUME NEW options \in Seq(OptionPairs), NEW up \in OptionPairs,
           NEW i \in 1 .. Len(options), options[i][1] # up[1], IsLast(options, i)
    PROVE  /\ i \in 1 .. Len(Upsert(options, up))
           /\ Upsert(options, up)[i] = options[i] /\ IsLast(Upsert(options, up), i)
<1> DEFINE new == Upsert(options, up)
<1>1. /\ new \in Seq(OptionPairs) /\ Len(options) <= Len(new)
      /\ \A j \in 1 .. Len(options) :
            new[j][1] = options[j][1] /\ (options[j][1] # up[1] => new[j] = options[j])
      /\ \A j \in Len(options) + 1 .. Len(new) : new[j] = up
  BY UpsertSets
<1> HIDE DEF new
<1>2. Len(options) \in Nat /\ Len(new) \in Nat
  BY <1>1
<1>3. i \in 1 .. Len(new) /\ new[i] = options[i]
  BY <1>1, <1>2
<1>4. ASSUME NEW j \in 1 .. Len(new), new[j][1] = new[i][1] PROVE j <= i
  <2>1. CASE j <= Len(options)
    BY <1>1, <1>2, <1>3, <1>4, <2>1 DEF IsLast
  <2>2. CASE ~(j <= Len(options))
    <3>1. new[j] = up
      BY <1>1, <1>2, <2>2
    <3> QED BY <1>3, <1>4, <3>1
  <2> QED BY <2>1, <2>2
<1> QED BY <1>3, <1>4 DEF IsLast, new

(* The startup options have three keys.                                    *)
LEMMA StartupPairs ==
    ASSUME NEW request \in Request
    PROVE  /\ \A k \in 1 .. 3 : Startup(request)[k] \in OptionPairs /\ Startup(request)[k][1] \in Startups
           /\ Startup(request)[1][1] # Startup(request)[2][1]
           /\ Startup(request)[1][1] # Startup(request)[3][1]
           /\ Startup(request)[2][1] # Startup(request)[3][1]
<1>1. /\ request.millis \in Words /\ (IF request.reset = NoName THEN "earliest" ELSE request.reset) \in Words
      /\ "timestamp" \in Words /\ Startups \subseteq Words
  BY SqlAssumption DEF Request
<1>2. Startup(request)[1][1] = "scan.startup.mode" /\ Startup(request)[1] \in OptionPairs
  BY <1>1 DEF Startup, OptionPairs, Startups
<1>3. Startup(request)[2][1] = "scan.startup.timestamp-millis" /\ Startup(request)[2] \in OptionPairs
  BY <1>1 DEF Startup, OptionPairs, Startups
<1>4. Startup(request)[3][1] = "properties.auto.offset.reset" /\ Startup(request)[3] \in OptionPairs
  BY <1>1 DEF Startup, OptionPairs, Startups
<1>5. ASSUME NEW k \in 1 .. 3 PROVE k = 1 \/ k = 2 \/ k = 3
  OBVIOUS
<1> QED BY <1>2, <1>3, <1>4, <1>5 DEF Startups

(* Three upserts set the startup options and no others.                    *)
LEMMA UpsertedSets ==
    ASSUME NEW options \in Seq(OptionPairs), NEW request \in Request
    PROVE  /\ Upserted(options, request) \in Seq(OptionPairs)
           /\ Sets(options, Upserted(options, request), request)
<1> DEFINE up == Startup(request)
           first == Upsert(options, up[1])
           second == Upsert(first, up[2])
           new == Upsert(second, up[3])
<1>1. /\ up[1] \in OptionPairs /\ up[2] \in OptionPairs /\ up[3] \in OptionPairs
      /\ up[1][1] \in Startups /\ up[2][1] \in Startups /\ up[3][1] \in Startups
      /\ up[1][1] # up[2][1] /\ up[1][1] # up[3][1] /\ up[2][1] # up[3][1]
  BY StartupPairs
<1>2. Upserted(options, request) = new
  BY DEF Upserted
<1> HIDE DEF up
<1>3. /\ first \in Seq(OptionPairs) /\ Len(options) <= Len(first)
      /\ \A i \in 1 .. Len(options) :
            first[i][1] = options[i][1] /\ (options[i][1] # up[1][1] => first[i] = options[i])
      /\ \A i \in Len(options) + 1 .. Len(first) : first[i] = up[1]
      /\ \E i \in 1 .. Len(first) : first[i] = up[1] /\ IsLast(first, i)
  BY <1>1, UpsertSets
<1> HIDE DEF first
<1>4. /\ second \in Seq(OptionPairs) /\ Len(first) <= Len(second)
      /\ \A i \in 1 .. Len(first) :
            second[i][1] = first[i][1] /\ (first[i][1] # up[2][1] => second[i] = first[i])
      /\ \A i \in Len(first) + 1 .. Len(second) : second[i] = up[2]
      /\ \E i \in 1 .. Len(second) : second[i] = up[2] /\ IsLast(second, i)
      /\ \E i \in 1 .. Len(second) : second[i] = up[1] /\ IsLast(second, i)
  <2>1. PICK i \in 1 .. Len(first) : first[i] = up[1] /\ IsLast(first, i)
    BY <1>3
  <2>2. first[i][1] # up[2][1]
    BY <1>1, <2>1
  <2>3. i \in 1 .. Len(second) /\ second[i] = up[1] /\ IsLast(second, i)
    BY <1>1, <1>3, <2>1, <2>2, UpsertKeeps
  <2> QED BY <1>1, <1>3, <2>3, UpsertSets
<1> HIDE DEF second
<1>5. /\ new \in Seq(OptionPairs) /\ Len(second) <= Len(new)
      /\ \A i \in 1 .. Len(second) :
            new[i][1] = second[i][1] /\ (second[i][1] # up[3][1] => new[i] = second[i])
      /\ \A i \in Len(second) + 1 .. Len(new) : new[i] = up[3]
      /\ \E i \in 1 .. Len(new) : new[i] = up[3] /\ IsLast(new, i)
  BY <1>1, <1>4, UpsertSets
<1>6. ASSUME NEW k \in 1 .. 2
      PROVE  \E i \in 1 .. Len(new) : new[i] = up[k] /\ IsLast(new, i)
  <2>1. PICK i \in 1 .. Len(second) : second[i] = up[k] /\ IsLast(second, i)
    <3>1. k = 1 \/ k = 2
      OBVIOUS
    <3> QED BY <1>4, <3>1
  <2>2. second[i][1] # up[3][1]
    <3>1. k = 1 \/ k = 2
      OBVIOUS
    <3> QED BY <1>1, <2>1, <3>1
  <2>3. i \in 1 .. Len(new) /\ new[i] = second[i] /\ IsLast(new, i)
    <3>1. second \in Seq(OptionPairs) /\ up[3] \in OptionPairs /\ IsLast(second, i)
      BY <1>1, <1>4, <2>1
    <3> QED BY <2>2, <3>1, UpsertKeeps
  <2> HIDE DEF new
  <2> QED BY <2>1, <2>3
<1> HIDE DEF new
<1>7. Len(options) \in Nat /\ Len(first) \in Nat /\ Len(second) \in Nat /\ Len(new) \in Nat
  BY <1>3, <1>4, <1>5
<1>8. ASSUME NEW i \in 1 .. Len(options)
      PROVE  /\ i \in 1 .. Len(new) /\ new[i][1] = options[i][1]
             /\ options[i][1] \notin Startups => new[i] = options[i]
  <2>1. i \in 1 .. Len(first) /\ i \in 1 .. Len(second) /\ i \in 1 .. Len(new)
    BY <1>3, <1>4, <1>5, <1>7
  <2>2. first[i][1] = options[i][1] /\ second[i][1] = options[i][1] /\ new[i][1] = options[i][1]
    BY <1>3, <1>4, <1>5, <2>1
  <2>3. ASSUME options[i][1] \notin Startups PROVE new[i] = options[i]
    <3>1. options[i][1] # up[1][1] /\ options[i][1] # up[2][1] /\ options[i][1] # up[3][1]
      BY <1>1, <2>3
    <3>2. first[i] = options[i]
      BY <1>3, <3>1
    <3>3. second[i] = options[i]
      BY <1>4, <2>1, <3>1, <3>2
    <3> QED BY <1>5, <2>1, <3>1, <3>3
  <2> QED BY <2>1, <2>2, <2>3
<1>9. ASSUME NEW i \in 1 .. Len(new), i \notin 1 .. Len(options)
      PROVE  new[i][1] \in Startups
  <2>1. CASE i > Len(second)
    <3>1. new[i] = up[3]
      BY <1>5, <1>7, <2>1
    <3> QED BY <1>1, <3>1
  <2>2. CASE i <= Len(second) /\ i > Len(first)
    <3>1. second[i] = up[2] /\ new[i][1] = second[i][1]
      BY <1>4, <1>5, <1>7, <2>2
    <3> QED BY <1>1, <3>1
  <2>3. CASE i <= Len(first)
    <3>1. first[i] = up[1] /\ second[i][1] = first[i][1]
      BY <1>3, <1>4, <1>7, <1>9, <2>3
    <3>2. new[i][1] = second[i][1]
      BY <1>4, <1>5, <1>7, <2>3
    <3> QED BY <1>1, <3>1, <3>2
  <2> QED BY <1>7, <2>1, <2>2, <2>3
<1>10. ASSUME NEW k \in 1 .. 3
       PROVE  \E i \in 1 .. Len(new) : new[i] = up[k] /\ IsLast(new, i)
  <2>1. k \in 1 .. 2 \/ k = 3
    OBVIOUS
  <2> QED BY <1>5, <1>6, <2>1
<1>11. DOMAIN options = 1 .. Len(options) /\ DOMAIN new = 1 .. Len(new)
  BY <1>5
<1>12. \A i \in 1 .. Len(new) : IsLast(new, i) => \A j \in KeysAt(new, new[i][1]) : j <= i
  BY <1>11 DEF IsLast, KeysAt
<1>13. \A k \in 1 .. 3 : \E i \in DOMAIN new :
          new[i] = up[k] /\ \A j \in KeysAt(new, new[i][1]) : j <= i
  BY <1>10, <1>11, <1>12
<1> QED BY <1>2, <1>5, <1>8, <1>9, <1>11, <1>13 DEF Sets, up

(* There is one place for an upsert.                                       *)
LEMMA GoesOnce ==
    ASSUME NEW options \in Seq(OptionPairs), NEW up, NEW p, Goes(options, up, p), NEW q, Goes(options, up, q)
    PROVE  p = q
<1>1. Len(options) \in Nat
  OBVIOUS
<1> QED BY <1>1 DEF Goes, IsLast

(* There is one outcome of an upsert.                                      *)
LEMMA PutsOnce ==
    ASSUME NEW options \in Seq(OptionPairs), NEW up, NEW p \in 1 .. Len(options) + 1,
           NEW s, Put(options, up, p, s), NEW t, Put(options, up, p, t)
    PROVE  s = t
<1>1. Len(options) \in Nat
  OBVIOUS
<1>2. s \in Seq(OptionPairs) /\ t \in Seq(OptionPairs) /\ Len(s) = Len(t)
  BY DEF Put
<1>3. ASSUME NEW i \in 1 .. Len(s) PROVE s[i] = t[i]
  <2>1. i = p \/ (i \in 1 .. Len(options) /\ i # p)
    BY <1>1, <1>3 DEF Put
  <2> QED BY <2>1 DEF Put
<1> QED BY <1>2, <1>3, SameSeq

Has(options, key) == \E i \in 1 .. Len(options) : options[i][1] = key

(* An upsert keeps keys and adds its own.                                  *)
LEMMA UpsertHas ==
    ASSUME NEW options \in Seq(OptionPairs), NEW up \in OptionPairs
    PROVE  /\ Upsert(options, up) \in Seq(OptionPairs)
           /\ Has(Upsert(options, up), up[1])
           /\ \A key : Has(options, key) => Has(Upsert(options, up), key)
<1>1. PICK new \in Seq(OptionPairs) :
         /\ new = Upsert(options, up) /\ Len(options) <= Len(new)
         /\ \A i \in 1 .. Len(options) : new[i][1] = options[i][1]
  BY UpsertSets
<1>2. Len(options) \in Nat /\ Len(new) \in Nat
  OBVIOUS
<1>3. \A key : Has(options, key) => Has(new, key)
  BY <1>1, <1>2 DEF Has
<1>4. PICK i \in 1 .. Len(new) : new[i] = up
  <2>1. \E i \in 1 .. Len(Upsert(options, up)) :
           Upsert(options, up)[i] = up /\ IsLast(Upsert(options, up), i)
    BY UpsertSets
  <2> QED BY <1>1, <2>1
<1>5. Has(new, up[1])
  BY <1>4 DEF Has
<1> QED BY <1>1, <1>3, <1>5

(* The second of two upserts of a key is all that is left.                 *)
LEMMA UpsertsOverwrite ==
    ASSUME NEW options \in Seq(OptionPairs), NEW a \in OptionPairs, NEW b \in OptionPairs, a[1] = b[1]
    PROVE  Upsert(Upsert(options, a), b) = Upsert(options, b)
<1>1. PICK p \in Nat : Goes(options, a, p) /\ Put(options, a, p, Upsert(options, a))
  BY UpsertPuts
<1>2. PICK x \in Seq(OptionPairs) : x = Upsert(options, a) /\ Put(options, a, p, x)
  BY <1>1 DEF Put
<1>3. Len(options) \in Nat /\ Len(x) \in Nat
  OBVIOUS
<1>4. Goes(options, b, p) /\ p \in 1 .. Len(options) + 1
  BY <1>1 DEF Goes
<1>5. Put(options, b, p, Upsert(options, b))
  BY <1>4, UpsertPuts, GoesOnce
<1>6. Goes(x, b, p)
  <2>1. p \in 1 .. Len(x) /\ x[p] = a
    BY <1>2, <1>3, <1>4 DEF Put
  <2>2. IsLast(x, p)
    <3> SUFFICES ASSUME NEW j \in 1 .. Len(x), x[j][1] = x[p][1], j # p PROVE j <= p
      BY <1>3, <2>1 DEF IsLast
    <3>1. CASE p = Len(options) + 1
      BY <1>2, <3>1 DEF Put
    <3>2. CASE p # Len(options) + 1
      <4>1. j \in 1 .. Len(options) /\ p \in 1 .. Len(options) /\ x[j] = options[j]
        BY <1>2, <1>3, <1>4, <3>2 DEF Put
      <4>2. options[j][1] = options[p][1] /\ IsLast(options, p)
        BY <1>1, <2>1, <4>1 DEF Goes
      <4> QED BY <4>1, <4>2 DEF IsLast
    <3> QED BY <3>1, <3>2
  <2>3. p # Len(x) + 1 /\ p \in 1 .. Len(x) + 1
    BY <1>3, <2>1
  <2> QED BY <2>1, <2>2, <2>3 DEF Goes
<1>7. Put(x, b, p, Upsert(x, b))
  BY <1>6, UpsertPuts, GoesOnce
<1>8. Put(options, b, p, Upsert(x, b))
  <2>1. p \in 1 .. Len(x) /\ p # Len(x) + 1
    BY <1>2, <1>3, <1>4 DEF Put
  <2>2. \A i \in 1 .. Len(options) : i # p => i \in 1 .. Len(x)
    BY <1>2, <1>3, <1>4 DEF Put
  <2> QED BY <1>2, <1>7, <2>1, <2>2 DEF Put
<1> QED BY <1>2, <1>4, <1>5, <1>8, PutsOnce

(* An upsert of a key that is there may as well come first.                *)
LEMMA UpsertsCommute ==
    ASSUME NEW options \in Seq(OptionPairs), NEW a \in OptionPairs, NEW b \in OptionPairs,
           a[1] # b[1], Has(options, b[1])
    PROVE  Upsert(Upsert(options, a), b) = Upsert(Upsert(options, b), a)
<1>1. PICK p \in Nat : Goes(options, a, p) /\ Put(options, a, p, Upsert(options, a))
  BY UpsertPuts
<1>2. PICK q \in Nat : Goes(options, b, q) /\ Put(options, b, q, Upsert(options, b))
  BY UpsertPuts
<1>3. PICK x \in Seq(OptionPairs) : x = Upsert(options, a) /\ Put(options, a, p, x)
  BY <1>1 DEF Put
<1>4. PICK w \in Seq(OptionPairs) : w = Upsert(options, b) /\ Put(options, b, q, w)
  BY <1>2 DEF Put
<1>5. Len(options) \in Nat /\ Len(x) \in Nat /\ Len(w) \in Nat
  OBVIOUS
<1>6. q \in 1 .. Len(options) /\ options[q][1] = b[1] /\ IsLast(options, q)
  BY <1>2, <1>5 DEF Goes, Has
<1>7. p \in 1 .. Len(options) + 1 /\ p # q
  BY <1>1, <1>6 DEF Goes
<1>8. /\ \A i \in 1 .. Len(x) : i = p \/ i \in 1 .. Len(options)
      /\ \A i \in 1 .. Len(options) : i \in 1 .. Len(x) /\ i \in 1 .. Len(w)
      /\ Len(w) = Len(options) /\ Len(x) = IF p = Len(options) + 1 THEN p ELSE Len(options)
  BY <1>3, <1>4, <1>5, <1>6, <1>7 DEF Put
<1>9. /\ x[p] = a /\ \A i \in 1 .. Len(options) : i # p => x[i] = options[i]
      /\ w[q] = b /\ \A i \in 1 .. Len(options) : i # q => w[i] = options[i]
  BY <1>3, <1>4 DEF Put
<1>10. Goes(x, b, q)
  <2>1. q \in 1 .. Len(x) /\ q # Len(x) + 1 /\ q \in 1 .. Len(x) + 1
    BY <1>5, <1>6, <1>8
  <2>2. x[q] = options[q]
    BY <1>6, <1>7, <1>9
  <2>3. IsLast(x, q)
    <3> SUFFICES ASSUME NEW j \in 1 .. Len(x), x[j][1] = x[q][1] PROVE j <= q
      BY DEF IsLast
    <3>1. j # p
      BY <1>6, <1>9, <2>2
    <3>2. j \in 1 .. Len(options) /\ options[j][1] = options[q][1]
      BY <1>8, <1>9, <2>2, <3>1
    <3> QED BY <1>6, <3>2 DEF IsLast
  <2> QED BY <1>6, <2>1, <2>2, <2>3 DEF Goes
<1>11. Goes(w, a, p)
  <2>1. ASSUME NEW j \in 1 .. Len(w), w[j][1] = a[1] PROVE options[j][1] = a[1]
    <3>1. j # q
      BY <1>9, <2>1
    <3> QED BY <1>8, <1>9, <2>1, <3>1
  <2>2. CASE p \in 1 .. Len(options)
    <3>1. options[p][1] = a[1] /\ IsLast(options, p) /\ w[p] = options[p]
      BY <1>1, <1>7, <1>9, <2>2 DEF Goes
    <3>2. IsLast(w, p)
      BY <1>8, <2>1, <3>1 DEF IsLast
    <3>3. p # Len(w) + 1 /\ p \in 1 .. Len(w) + 1
      BY <1>5, <1>8, <2>2
    <3> QED BY <3>1, <3>2, <3>3 DEF Goes
  <2>3. CASE p = Len(options) + 1
    <3>1. \A i \in 1 .. Len(options) : options[i][1] # a[1]
      BY <1>1, <2>3 DEF Goes
    <3>2. \A i \in 1 .. Len(w) : w[i][1] # a[1]
      BY <1>8, <2>1, <3>1
    <3>3. p \in 1 .. Len(w) + 1 /\ p \notin 1 .. Len(w)
      BY <1>5, <1>8, <2>3
    <3> QED BY <3>2, <3>3 DEF Goes
  <2> QED BY <1>5, <1>7, <2>2, <2>3
<1>12. PICK y \in Seq(OptionPairs) : y = Upsert(x, b) /\ Put(x, b, q, y)
  <2>1. Put(x, b, q, Upsert(x, b))
    BY <1>10, UpsertPuts, GoesOnce
  <2> QED BY <2>1 DEF Put
<1>13. PICK z \in Seq(OptionPairs) : z = Upsert(w, a) /\ Put(w, a, p, z)
  <2>1. Put(w, a, p, Upsert(w, a))
    BY <1>11, UpsertPuts, GoesOnce
  <2> QED BY <2>1 DEF Put
<1>14. /\ Len(y) = Len(x) /\ y[q] = b /\ \A i \in 1 .. Len(x) : i # q => y[i] = x[i]
       /\ Len(z) = Len(x) /\ z[p] = a /\ \A i \in 1 .. Len(options) : i # p => z[i] = w[i]
  BY <1>5, <1>6, <1>8, <1>12, <1>13 DEF Put
<1>15. ASSUME NEW i \in 1 .. Len(y) PROVE y[i] = z[i]
  <2>1. CASE i = q
    BY <1>6, <1>7, <1>9, <1>14, <2>1
  <2>2. CASE i = p
    BY <1>7, <1>9, <1>14, <2>2
  <2>3. CASE i # p /\ i # q
    <3>1. i \in 1 .. Len(options) /\ i \in 1 .. Len(x)
      BY <1>8, <1>14, <2>3
    <3> QED BY <1>9, <1>14, <2>3, <3>1
  <2> QED BY <2>1, <2>2, <2>3
<1>16. y = z
  BY <1>14, <1>15, SameSeq
<1> QED BY <1>3, <1>4, <1>12, <1>13, <1>16

(* Of several upserts of the startup options the last ones alone are left. *)
LEMMA LastUpsertsWin ==
    ASSUME NEW options \in Seq(OptionPairs), NEW first \in Request, NEW last \in Request
    PROVE  Upserted(Upserted(options, first), last) = Upserted(options, last)
<1>1. PICK a \in OptionPairs, b \in OptionPairs, c \in OptionPairs :
         a = Startup(first)[1] /\ b = Startup(first)[2] /\ c = Startup(first)[3]
  BY StartupPairs
<1>2. PICK d \in OptionPairs, e \in OptionPairs, f \in OptionPairs :
         d = Startup(last)[1] /\ e = Startup(last)[2] /\ f = Startup(last)[3]
  BY StartupPairs
<1>3. a[1] = d[1] /\ b[1] = e[1] /\ c[1] = f[1]
  BY <1>1, <1>2 DEF Startup
<1>4. a[1] # b[1] /\ a[1] # c[1] /\ b[1] # c[1]
  BY <1>1, StartupPairs
<1>5. PICK x \in Seq(OptionPairs) : x = Upsert(options, a) /\ Has(x, d[1])
  BY <1>3, UpsertHas
<1>6. PICK y \in Seq(OptionPairs) : y = Upsert(x, b) /\ Has(y, d[1]) /\ Has(y, e[1])
  BY <1>3, <1>5, UpsertHas
<1>7. PICK xd \in Seq(OptionPairs) : xd = Upsert(options, d)
  BY UpsertHas
<1>8. PICK yd \in Seq(OptionPairs) : yd = Upsert(xd, b) /\ Has(yd, e[1])
  BY <1>3, UpsertHas
<1>9. PICK z \in Seq(OptionPairs) : z = Upsert(y, c)
  BY UpsertHas
<1>10. Upsert(z, d) = Upsert(yd, c)
  <2>1. Upsert(Upsert(y, c), d) = Upsert(Upsert(y, d), c)
    BY <1>3, <1>4, <1>6, UpsertsCommute
  <2>2. Upsert(Upsert(x, b), d) = Upsert(Upsert(x, d), b)
    BY <1>3, <1>4, <1>5, UpsertsCommute
  <2>3. Upsert(Upsert(options, a), d) = Upsert(options, d)
    BY <1>3, UpsertsOverwrite
  <2> QED BY <1>5, <1>6, <1>7, <1>8, <1>9, <2>1, <2>2, <2>3
<1>11. Upsert(Upsert(yd, c), e) = Upsert(Upsert(xd, e), c)
  <2>1. Upsert(Upsert(yd, c), e) = Upsert(Upsert(yd, e), c)
    BY <1>3, <1>4, <1>8, UpsertsCommute
  <2>2. Upsert(Upsert(xd, b), e) = Upsert(xd, e)
    BY <1>3, UpsertsOverwrite
  <2> QED BY <1>8, <2>1, <2>2
<1>12. PICK xde \in Seq(OptionPairs) : xde = Upsert(xd, e)
  BY UpsertHas
<1>13. Upsert(Upsert(xde, c), f) = Upsert(xde, f)
  BY <1>3, UpsertsOverwrite
<1>14. Upserted(options, first) = z /\ Upserted(options, last) = Upsert(xde, f)
  BY <1>1, <1>2, <1>5, <1>6, <1>7, <1>9, <1>12 DEF Upserted
<1>15. Upserted(z, last) = Upsert(Upsert(Upsert(z, d), e), f)
  BY <1>2 DEF Upserted
<1> QED BY <1>10, <1>11, <1>12, <1>13, <1>14, <1>15

-----------------------------------------------------------------------------
(* Where a rewrite falls.                                                  *)

(* A WITH block lies between parentheses behind its CREATE TABLE.          *)
LEMMA BlocksAre ==
    ASSUME NEW sql \in Seq(Atoms), NEW block \in FindWithBlocks(sql)
    PROVE  /\ block.at \in Positions(sql, "create") /\ block.table = sql[block.at][2]
           /\ block.open \in Positions(sql, "(") /\ block.at < block.open
           /\ block.close \in Positions(sql, ")") /\ block.open < block.close
<1>1. PICK i \in DOMAIN sql : Is(sql, i, "create") /\ block = Block(sql, i) /\ block.close # 0
  BY DEF FindWithBlocks
<1>2. DOMAIN sql = 1 .. Len(sql) /\ Len(sql) \in Nat
  OBVIOUS
<1> DEFINE open == FindWithOpen(sql, i + 1)
<1>3. /\ block.table = sql[i][2] /\ block.at = i /\ block.open = open
      /\ block.close = IF open = 0 THEN 0 ELSE MatchParen(sql, open)
  BY <1>1 DEF Block
<1>4. open = 0 \/ (open \in i + 1 + 1 .. Len(sql) /\ Is(sql, open, "("))
  <2>1. i + 1 \in 1 .. Len(sql) + 1
    BY <1>2
  <2> QED BY <2>1, FindsOpen
<1> HIDE DEF open
<1>5. open # 0 /\ block.close = MatchParen(sql, open)
  BY <1>1, <1>3
<1>6. open \in 1 .. Len(sql) /\ i < open /\ Is(sql, open, "(")
  BY <1>2, <1>4, <1>5
<1>7. block.close \in open + 1 .. Len(sql) /\ Is(sql, block.close, ")")
  BY <1>1, <1>5, <1>6, FindsClose
<1> QED BY <1>1, <1>2, <1>3, <1>6, <1>7 DEF Positions

(* What three sequences become when they are put together.                 *)
LEMMA JoinedParts ==
    ASSUME NEW A, NEW s \in Seq(A), NEW t \in Seq(A), NEW u \in Seq(A)
    PROVE  /\ (s \o t) \o u \in Seq(A)
           /\ Len((s \o t) \o u) = Len(s) + Len(t) + Len(u)
           /\ SubSeq((s \o t) \o u, 1, Len(s)) = s
           /\ SubSeq((s \o t) \o u, Len(s) + 1, Len(s) + Len(t)) = t
           /\ SubSeq((s \o t) \o u, Len(s) + Len(t) + 1, Len((s \o t) \o u)) = u
<1>1. Len(s) \in Nat /\ Len(t) \in Nat /\ Len(u) \in Nat
  OBVIOUS
<1>2. PICK st \in Seq(A) :
         /\ st = s \o t /\ Len(st) = Len(s) + Len(t)
         /\ \A i \in 1 .. Len(s) : st[i] = s[i]
         /\ \A i \in 1 .. Len(t) : st[Len(s) + i] = t[i]
  <2>1. /\ s \o t \in Seq(A) /\ Len(s \o t) = Len(s) + Len(t)
        /\ \A i \in 1 .. Len(s) : (s \o t)[i] = s[i]
        /\ \A i \in 1 .. Len(t) : (s \o t)[Len(s) + i] = t[i]
    BY Joined
  <2> WITNESS s \o t \in Seq(A)
  <2> QED BY <2>1
<1>3. PICK w \in Seq(A) :
         /\ w = st \o u /\ Len(w) = Len(s) + Len(t) + Len(u)
         /\ \A i \in 1 .. Len(s) + Len(t) : w[i] = st[i]
         /\ \A i \in 1 .. Len(u) : w[Len(s) + Len(t) + i] = u[i]
  <2>1. /\ st \o u \in Seq(A) /\ Len(st \o u) = Len(st) + Len(u)
        /\ \A i \in 1 .. Len(st) : (st \o u)[i] = st[i]
        /\ \A i \in 1 .. Len(u) : (st \o u)[Len(st) + i] = u[i]
    BY Joined
  <2> WITNESS st \o u \in Seq(A)
  <2> QED BY <1>2, <2>1
<1>4. \A i \in 1 .. Len(s) : w[i] = s[i]
  BY <1>1, <1>2, <1>3
<1>5. \A i \in 1 .. Len(t) : w[Len(s) + i] = t[i]
  BY <1>1, <1>2, <1>3
<1>6. SubSeq(w, 1, Len(s)) = s
  <2> DEFINE v == SubSeq(w, 1, Len(s))
  <2>1. v \in Seq(A) /\ Len(v) = Len(s) /\ \A i \in 1 .. Len(s) : v[i] = w[i]
    BY <1>1, <1>3, SubSeqIs
  <2> HIDE DEF v
  <2>2. \A i \in 1 .. Len(v) : v[i] = s[i]
    BY <1>4, <2>1
  <2>3. v = s
    BY <2>1, <2>2, SameSeq
  <2> QED BY <2>3 DEF v
<1>7. SubSeq(w, Len(s) + 1, Len(s) + Len(t)) = t
  <2> DEFINE v == SubSeq(w, Len(s) + 1, Len(s) + Len(t))
  <2>1. v \in Seq(A) /\ Len(v) = Len(t) /\ \A i \in 1 .. Len(t) : v[i] = w[Len(s) + i]
    <3>1. Len(s) + 1 \in 1 .. Len(w) + 1 /\ Len(s) + Len(t) \in Nat
          /\ Len(s) + Len(t) <= Len(w) /\ Len(s) + Len(t) >= Len(s) + 1 - 1
      BY <1>1, <1>3
    <3>2. /\ v \in Seq(A) /\ Len(v) = Len(s) + Len(t) - (Len(s) + 1) + 1
          /\ \A i \in 1 .. Len(s) + Len(t) - (Len(s) + 1) + 1 : v[i] = w[Len(s) + 1 + i - 1]
      BY <1>3, <3>1, SubSeqIs
    <3>3. Len(s) + Len(t) - (Len(s) + 1) + 1 = Len(t)
      BY <1>1
    <3>4. \A i \in 1 .. Len(t) : Len(s) + 1 + i - 1 = Len(s) + i
      BY <1>1
    <3> QED BY <3>2, <3>3, <3>4
  <2> HIDE DEF v
  <2>2. \A i \in 1 .. Len(v) : v[i] = t[i]
    BY <1>5, <2>1
  <2>3. v = t
    BY <2>1, <2>2, SameSeq
  <2> QED BY <2>3 DEF v
<1>8. SubSeq(w, Len(s) + Len(t) + 1, Len(w)) = u
  <2> DEFINE m == Len(s) + Len(t) + 1
             v == SubSeq(w, m, Len(w))
  <2>1. v \in Seq(A) /\ Len(v) = Len(u) /\ \A i \in 1 .. Len(u) : v[i] = w[Len(s) + Len(t) + i]
    <3>1. m \in 1 .. Len(w) + 1 /\ Len(w) \in Nat /\ Len(w) <= Len(w) /\ Len(w) >= m - 1
      BY <1>1, <1>3
    <3>2. /\ v \in Seq(A) /\ Len(v) = Len(w) - m + 1
          /\ \A i \in 1 .. Len(w) - m + 1 : v[i] = w[m + i - 1]
      BY <1>3, <3>1, SubSeqIs
    <3>3. Len(w) - m + 1 = Len(u) /\ \A i \in 1 .. Len(u) : m + i - 1 = Len(s) + Len(t) + i
      BY <1>1, <1>3
    <3> QED BY <3>2, <3>3
  <2> HIDE DEF v
  <2>2. \A i \in 1 .. Len(v) : v[i] = u[i]
    BY <1>3, <2>1
  <2>3. v = u
    BY <2>1, <2>2, SameSeq
  <2> QED BY <2>3 DEF v
<1> QED BY <1>2, <1>3, <1>6, <1>7, <1>8

(* A body between the parentheses of a block.                              *)
Holds(sql, block, body, new) ==
    LET end == Len(new) - (Len(sql) - block.close)
    IN  /\ new \in Seq(Atoms) /\ block.open < end
        /\ SubSeq(new, 1, block.open) = SubSeq(sql, 1, block.open)
        /\ SubSeq(new, end, Len(new)) = SubSeq(sql, block.close, Len(sql))
        /\ SubSeq(new, block.open + 1, end - 1) = body

(* A body is put between the parentheses and nowhere else.                 *)
LEMMA SplicesBetween ==
    ASSUME NEW sql \in Seq(Atoms), NEW block \in FindWithBlocks(sql), NEW body \in Seq(Atoms)
    PROVE  Holds(sql, block, body, Spliced(sql, block, body))
<1>1. PICK open \in 1 .. Len(sql), close \in 1 .. Len(sql) :
         open = block.open /\ close = block.close /\ open < close
  BY BlocksAre DEF Positions
<1>2. Len(sql) \in Nat /\ Len(body) \in Nat
  OBVIOUS
<1>3. PICK s \in Seq(Atoms) : s = SubSeq(sql, 1, open) /\ Len(s) = open
  <2>1. 1 \in 1 .. Len(sql) + 1 /\ open \in Nat /\ open <= Len(sql) /\ open >= 1 - 1
    BY <1>2
  <2>2. SubSeq(sql, 1, open) \in Seq(Atoms) /\ Len(SubSeq(sql, 1, open)) = open - 1 + 1
    BY <2>1, SubSeqIs
  <2>3. open - 1 + 1 = open
    BY <1>2
  <2> WITNESS SubSeq(sql, 1, open) \in Seq(Atoms)
  <2> QED BY <2>2, <2>3
<1>4. PICK u \in Seq(Atoms) : u = SubSeq(sql, close, Len(sql)) /\ Len(u) = Len(sql) - close + 1
  <2>1. close \in 1 .. Len(sql) + 1 /\ Len(sql) \in Nat /\ Len(sql) <= Len(sql) /\ Len(sql) >= close - 1
    BY <1>2
  <2>2. /\ SubSeq(sql, close, Len(sql)) \in Seq(Atoms)
        /\ Len(SubSeq(sql, close, Len(sql))) = Len(sql) - close + 1
    BY <2>1, SubSeqIs
  <2> QED BY <2>2
<1>5. PICK new \in Seq(Atoms) :
         /\ new = (s \o body) \o u
         /\ Len(new) = Len(s) + Len(body) + Len(u)
         /\ SubSeq(new, 1, Len(s)) = s
         /\ SubSeq(new, Len(s) + 1, Len(s) + Len(body)) = body
         /\ SubSeq(new, Len(s) + Len(body) + 1, Len(new)) = u
  <2>1. /\ (s \o body) \o u \in Seq(Atoms)
        /\ Len((s \o body) \o u) = Len(s) + Len(body) + Len(u)
        /\ SubSeq((s \o body) \o u, 1, Len(s)) = s
        /\ SubSeq((s \o body) \o u, Len(s) + 1, Len(s) + Len(body)) = body
        /\ SubSeq((s \o body) \o u, Len(s) + Len(body) + 1, Len((s \o body) \o u)) = u
    BY JoinedParts
  <2> WITNESS (s \o body) \o u \in Seq(Atoms)
  <2> QED BY <2>1
<1>6. new = Spliced(sql, block, body)
  BY <1>1, <1>3, <1>4, <1>5 DEF Spliced
<1>7. PICK end \in Nat :
         /\ end = Len(new) - (Len(sql) - close) /\ end = open + Len(body) + 1
         /\ end - 1 = open + Len(body) /\ open < end
  <2>1. Len(new) - (Len(sql) - close) = open + Len(body) + 1
    BY <1>2, <1>3, <1>4, <1>5
  <2>2. open + Len(body) + 1 \in Nat
    BY <1>2
  <2> WITNESS open + Len(body) + 1 \in Nat
  <2> QED BY <1>2, <2>1
<1>8. SubSeq(new, end, Len(new)) = u /\ SubSeq(new, open + 1, end - 1) = body
  BY <1>3, <1>5, <1>7
<1>9. /\ SubSeq(new, 1, open) = SubSeq(sql, 1, open)
      /\ SubSeq(new, end, Len(new)) = SubSeq(sql, close, Len(sql))
  BY <1>3, <1>4, <1>5, <1>8
<1> QED BY <1>1, <1>6, <1>7, <1>8, <1>9 DEF Holds

(* What a rewrite that is not refused makes of a text.                     *)
LEMMA RewritesLocally ==
    ASSUME NEW sql \in Seq(Atoms), NEW request \in Request, RewriteForReplay(sql, request).ok
    PROVE  /\ RewriteForReplay(sql, request).sql \in Seq(Atoms)
           /\ Changes(sql, RewriteForReplay(sql, request).sql, request)
<1>1. PICK block :
         /\ block \in Target(KafkaBlocks(sql), request.name)
         /\ RewriteForReplay(sql, request).sql =
               Spliced(sql, block, Rendered(Upserted(Read(Body(sql, block)), request)))
  <2> DEFINE target == Target(KafkaBlocks(sql), request.name)
             b == CHOOSE b \in target : TRUE
  <2>1. /\ target # {}
        /\ RewriteForReplay(sql, request).sql =
              Spliced(sql, b, Rendered(Upserted(Read(Body(sql, b)), request)))
    BY DEF RewriteForReplay
  <2>2. b \in target
    BY <2>1
  <2> HIDE DEF b
  <2> QED BY <2>1, <2>2
<1>2. /\ block \in KafkaBlocks(sql)
      /\ request.name = NoName \/ block.table = request.name
  BY <1>1 DEF Target
<1>3. block \in FindWithBlocks(sql) /\ Connector(sql, block) = "kafka"
  BY <1>2 DEF KafkaBlocks
<1>4. /\ block.at \in Positions(sql, "create") /\ block.table = sql[block.at][2]
      /\ block.open \in Positions(sql, "(") /\ block.at < block.open
      /\ block.close \in Positions(sql, ")") /\ block.open < block.close
  BY <1>3, BlocksAre
<1>5. PICK body \in Seq(Atoms) :
         body = Body(sql, block) /\ body = SubSeq(sql, block.open + 1, block.close - 1)
  <2>1. Len(sql) \in Nat /\ block.open \in 1 .. Len(sql) /\ block.close \in 1 .. Len(sql)
    BY <1>4 DEF Positions
  <2>2. /\ block.open + 1 \in 1 .. Len(sql) + 1 /\ block.close - 1 \in Nat
        /\ block.close - 1 <= Len(sql) /\ block.close - 1 >= block.open + 1 - 1
    BY <1>4, <2>1
  <2>3. SubSeq(sql, block.open + 1, block.close - 1) \in Seq(Atoms)
    BY <2>2, SubSeqIs
  <2> QED BY <2>3 DEF Body
<1>6. PICK options \in Seq(OptionPairs) :
         options = Upserted(Read(body), request) /\ Sets(Read(body), options, request)
  <2>1. PICK old \in Seq(OptionPairs) : old = Read(body)
    BY ReadsOptions
  <2> QED BY <2>1, UpsertedSets
<1>7. PICK rendered \in Seq(Atoms) : rendered = Rendered(options) /\ Read(rendered) = options
  BY RenderedAtoms, ReadsRendered
<1>8. PICK new : new = RewriteForReplay(sql, request).sql /\ new = Spliced(sql, block, rendered)
  BY <1>1, <1>5, <1>6, <1>7
<1>9. Holds(sql, block, rendered, new)
  BY <1>3, <1>8, SplicesBetween
<1>10. request.name \in {NoName, sql[block.at][2]}
  BY <1>2, <1>4
<1>11. OptionValue(Read(body), "connector") = "kafka"
  BY <1>3, <1>5 DEF Connector
<1>12. new \in Seq(Atoms) /\ Changes(sql, new, request)
  <2> DEFINE end == Len(new) - (Len(sql) - block.close)
  <2>1. /\ new \in Seq(Atoms) /\ block.open < end
        /\ SubSeq(new, 1, block.open) = SubSeq(sql, 1, block.open)
        /\ SubSeq(new, end, Len(new)) = SubSeq(sql, block.close, Len(sql))
        /\ SubSeq(new, block.open + 1, end - 1) = rendered
    BY <1>9 DEF Holds
  <2>2. /\ OptionValue(Read(SubSeq(sql, block.open + 1, block.close - 1)), "connector") = "kafka"
        /\ Sets(Read(SubSeq(sql, block.open + 1, block.close - 1)),
                Read(SubSeq(new, block.open + 1, end - 1)), request)
    BY <1>5, <1>6, <1>7, <1>11, <2>1
  <2> QED BY <1>4, <1>10, <2>1, <2>2 DEF Changes
<1> QED BY <1>8, <1>12

-----------------------------------------------------------------------------
(* A rewritten block is found again where it was.                          *)

(* Two texts that have the same atoms up to a position.                    *)
Agree(sql, new, m) ==
    /\ m \in Nat /\ m <= Len(sql) /\ m <= Len(new)
    /\ \A i \in 1 .. m : new[i] = sql[i]

(* Two sets of numbers that have the same ones up to a number.             *)
SameTo(S, T, m) ==
    /\ S \subseteq Nat /\ T \subseteq Nat /\ m \in Nat
    /\ \A i \in 0 .. m : i \in S <=> i \in T

(* They have the same least number if the first's is one of these.         *)
LEMMA SameLeast ==
    ASSUME NEW S, NEW T, NEW m, SameTo(S, T, m),
           NEW n, NEW d, MinOr(S, n) \in S, MinOr(S, n) <= m
    PROVE  MinOr(T, d) = MinOr(S, n)
<1>1. S \subseteq Nat /\ T \subseteq Nat /\ m \in Nat /\ \A i \in 0 .. m : i \in S <=> i \in T
  BY DEF SameTo
<1>2. \A j \in S : MinOr(S, n) <= j
  BY <1>1, Least
<1>3. PICK a \in Nat : a = MinOr(S, n) /\ a <= m /\ a \in S
  BY <1>1
<1>4. a \in T
  BY <1>1, <1>3
<1>5. MinOr(T, d) \in T /\ MinOr(T, d) <= a
  BY <1>1, <1>4, Least
<1>6. PICK b \in Nat : b = MinOr(T, d) /\ b <= a /\ b \in T
  BY <1>1, <1>5
<1>7. b \in S
  BY <1>1, <1>3, <1>6
<1>8. a <= b
  BY <1>2, <1>3, <1>7
<1> QED BY <1>3, <1>6, <1>8

(* Blanks that end by that position end there in both.                     *)
LEMMA SameBlanks ==
    ASSUME NEW sql \in Seq(Atoms), NEW new \in Seq(Atoms), NEW m, Agree(sql, new, m),
           NEW i \in 1 .. Len(sql) + 1, AfterBlanks(sql, i) <= m
    PROVE  AfterBlanks(new, i) = AfterBlanks(sql, i)
<1> DEFINE S == {j \in i .. Len(sql) : ~Is(sql, j, "nl")}
           T == {j \in i .. Len(new) : ~Is(new, j, "nl")}
           a == AfterBlanks(sql, i)
<1>1. /\ Len(sql) \in Nat /\ Len(new) \in Nat /\ m \in Nat /\ m <= Len(sql) /\ m <= Len(new)
      /\ a \in i .. Len(sql) + 1
  BY BlanksEnd DEF Agree
<1>2. S \subseteq Nat /\ T \subseteq Nat
  OBVIOUS
<1>3. a = MinOr(S, Len(sql) + 1) /\ AfterBlanks(new, i) = MinOr(T, Len(new) + 1)
  BY DEF AfterBlanks
<1>4. \A j \in 0 .. m : j \in S <=> j \in T
  BY <1>1 DEF Agree, Is
<1>5. a # Len(sql) + 1
  BY <1>1
<1> HIDE DEF S, T, a
<1>6. a \in S
  BY <1>2, <1>3, <1>5, Least
<1>7. SameTo(S, T, m)
  BY <1>1, <1>2, <1>4 DEF SameTo
<1>8. a <= m
  BY DEF a
<1> QED BY <1>3, <1>6, <1>7, <1>8, SameLeast DEF a

(* A quote or comment that ends by that position ends there in both.       *)
LEMMA SameSkip ==
    ASSUME NEW sql \in Seq(Atoms), NEW new \in Seq(Atoms), NEW m, Agree(sql, new, m),
           NEW i \in 1 .. m, Skip(sql, i) <= m
    PROVE  Skip(new, i) = Skip(sql, i)
<1> DEFINE S(kind) == {j \in i .. Len(sql) : Is(sql, j, kind)}
           T(kind) == {j \in i .. Len(new) : Is(new, j, kind)}
<1>1. Len(sql) \in Nat /\ Len(new) \in Nat /\ m \in Nat /\ m <= Len(sql) /\ m <= Len(new)
  BY DEF Agree
<1>2. /\ Is(new, i, "lit") <=> Is(sql, i, "lit")
      /\ Is(new, i, "--") <=> Is(sql, i, "--")
      /\ Is(new, i, "/*") <=> Is(sql, i, "/*")
  BY <1>1 DEF Agree, Is
<1>3. \A kind : S(kind) \subseteq Nat /\ T(kind) \subseteq Nat
  OBVIOUS
<1>4. \A kind : \A j \in 0 .. m : j \in S(kind) <=> j \in T(kind)
  BY <1>1 DEF Agree, Is
<1>5. CASE Is(sql, i, "lit")
  <2>1. ~Is(sql, i, "--") /\ ~Is(sql, i, "/*") /\ ~Is(new, i, "--") /\ ~Is(new, i, "/*")
    BY <1>2, <1>5 DEF Is
  <2> QED BY <1>2, <1>5, <2>1 DEF Skip
<1>6. CASE Is(sql, i, "--")
  <2>1. /\ ~Is(sql, i, "lit") /\ ~Is(new, i, "lit") /\ Is(new, i, "--")
        /\ ~Is(sql, i, "/*") /\ ~Is(new, i, "/*")
    BY <1>2, <1>6 DEF Is
  <2>2. /\ Skip(sql, i) = MinOr(S("nl"), Len(sql) + 1)
        /\ Skip(new, i) = MinOr(T("nl"), Len(new) + 1)
    BY <1>6, <2>1 DEF Skip
  <2>3. Skip(sql, i) # Len(sql) + 1
    BY <1>1
  <2> HIDE DEF S, T
  <2>4. Skip(sql, i) \in S("nl")
    BY <1>3, <2>2, <2>3, Least
  <2>5. SameTo(S("nl"), T("nl"), m)
    BY <1>1, <1>3, <1>4 DEF SameTo
  <2> QED BY <2>2, <2>4, <2>5, SameLeast
<1>7. CASE Is(sql, i, "/*")
  <2>1. /\ ~Is(sql, i, "lit") /\ ~Is(sql, i, "--") /\ Is(new, i, "/*")
        /\ ~Is(new, i, "lit") /\ ~Is(new, i, "--")
    BY <1>2, <1>7 DEF Is
  <2>2. /\ Skip(sql, i) = MinOr(S("*/"), Len(sql)) + 1
        /\ Skip(new, i) = MinOr(T("*/"), Len(new)) + 1
    BY <1>7, <2>1 DEF Skip
  <2> DEFINE s == S("*/")
             t == T("*/")
             k == MinOr(s, Len(sql))
  <2>3. s \subseteq Nat /\ t \subseteq Nat /\ \A j \in 0 .. m : j \in s <=> j \in t
    BY <1>3, <1>4
  <2>4. Skip(sql, i) = k + 1 /\ Skip(new, i) = MinOr(t, Len(new)) + 1
    BY <2>2
  <2> HIDE DEF S, T, s, t
  <2>5. k = Len(sql) \/ k \in s
    BY <2>3, Least
  <2>6. k \in Nat
    BY <1>1, <2>3, <2>5
  <2>7. k <= m /\ k # Len(sql)
    BY <1>1, <2>4, <2>6
  <2>8. SameTo(s, t, m)
    BY <1>1, <2>3 DEF SameTo
  <2> QED BY <2>4, <2>5, <2>7, <2>8, SameLeast
<1>8. CASE ~Is(sql, i, "lit") /\ ~Is(sql, i, "--") /\ ~Is(sql, i, "/*")
  <2>1. ~Is(new, i, "lit") /\ ~Is(new, i, "--") /\ ~Is(new, i, "/*")
    BY <1>2, <1>8
  <2> QED BY <1>8, <2>1 DEF Skip
<1> QED BY <1>5, <1>6, <1>7, <1>8

(* findWithOpenParen finds a parenthesis again if all up to it is the same.*)
LEMMA FindsAgain ==
    ASSUME NEW sql \in Seq(Atoms), NEW new \in Seq(Atoms),
           NEW start \in 1 .. Len(sql) + 1, NEW open \in 1 .. Len(sql),
           FindWithOpen(sql, start) = open, Agree(sql, new, open)
    PROVE  FindWithOpen(new, start) = open
<1>1. PICK f :
         /\ \A i \in 1 .. Len(sql) + 1 : FindWithOpen(sql, i) = f[i]
         /\ \A i \in 1 .. Len(sql) + 1 : FindsFrom(sql, i, f)
  BY Finds
<1>2. PICK g :
         /\ \A i \in 1 .. Len(new) + 1 : FindWithOpen(new, i) = g[i]
         /\ \A i \in 1 .. Len(new) + 1 : FindsFrom(new, i, g)
  BY Finds
<1>3. Len(sql) \in Nat /\ Len(new) \in Nat /\ open <= Len(sql) /\ open <= Len(new)
  BY DEF Agree
<1>4. ASSUME NEW i \in 1 .. Len(sql) + 1, f[i] = open
      PROVE  i \in 1 .. open /\ i # open
  <2>1. open \in i + 1 .. Len(sql)
    BY <1>1, <1>4, FindsOpen
  <2> QED BY <1>3, <2>1
<1> DEFINE S == {i \in 1 .. open : f[i] = open => g[i] = open}
<1>5. ASSUME NEW i \in 1 .. open, \A j \in 1 .. open : i < j => j \in S
      PROVE  i \in S
  <2> SUFFICES ASSUME f[i] = open PROVE g[i] = open
    OBVIOUS
  <2>1. /\ i \in 1 .. Len(sql) + 1 /\ i \in 1 .. Len(new) + 1 /\ i < open
        /\ i \in 1 .. Len(sql) /\ i \in 1 .. Len(new)
    BY <1>3, <1>4
  <2>2. FindsFrom(sql, i, f) /\ FindsFrom(new, i, g)
    BY <1>1, <1>2, <2>1
  <2>3. \A kind : \A j \in 1 .. open : Is(new, j, kind) <=> Is(sql, j, kind)
    BY <1>3 DEF Agree, Is
  <2>4. ~EndsStatement(sql, i)
    BY <1>3, <2>2 DEF FindsFrom
  <2>5. ~EndsStatement(new, i)
    <3>1. ~Is(sql, i, ";")
      BY <2>4 DEF EndsStatement
    <3>2. ~Is(new, i, ";")
      BY <2>3, <3>1
    <3>3. ~(i > Len(new))
      BY <1>3, <2>1
    <3> QED BY <3>2, <3>3 DEF EndsStatement
  <2>6. ASSUME NEW j \in 1 .. Len(sql) + 1, i < j, f[i] = f[j]
        PROVE  j \in 1 .. open /\ g[j] = open
    <3>1. j \in 1 .. open
      BY <1>4, <2>6
    <3>2. j \in S
      BY <1>5, <2>6, <3>1
    <3> QED BY <2>6, <3>1, <3>2
  <2>7. CASE Skip(sql, i) \in i + 1 .. Len(sql) + 1 /\ f[i] = f[Skip(sql, i)]
    <3>1. Skip(sql, i) \in 1 .. Len(sql) + 1 /\ i < Skip(sql, i)
      BY <2>1, <2>7
    <3>2. Skip(sql, i) \in 1 .. open /\ g[Skip(sql, i)] = open
      BY <2>6, <2>7, <3>1
    <3>3. Skip(new, i) = Skip(sql, i) /\ Skip(new, i) # i
      BY <3>1, <3>2, SameSkip
    <3> QED BY <2>2, <2>5, <3>2, <3>3 DEF FindsFrom
  <2>8. CASE Skip(sql, i) = i
    <3>1. Skip(new, i) = i
      BY <2>1, <2>8, SameSkip
    <3>2. ~(Skip(new, i) \in i + 1 .. Len(new) + 1) /\ ~(Skip(sql, i) \in i + 1 .. Len(sql) + 1)
      BY <2>1, <2>8, <3>1
    <3>3. CASE Is(sql, i, "with") /\ After(sql, i) \in i + 1 .. Len(sql) /\ Is(sql, After(sql, i), "(")
               /\ f[i] = After(sql, i)
      <4>1. After(new, i) = open
        BY <2>1, <3>3, SameBlanks DEF After
      <4>2. Is(new, open, "(") /\ Is(new, i, "with")
        BY <2>1, <2>3, <3>3
      <4> QED BY <2>2, <2>5, <3>2, <4>1, <4>2 DEF FindsFrom
    <3>4. CASE Is(sql, i, "with") /\ After(sql, i) \in i + 1 .. Len(sql) + 1
               /\ ~Is(sql, After(sql, i), "(") /\ f[i] = f[After(sql, i)]
      <4>1. After(sql, i) \in 1 .. Len(sql) + 1 /\ i < After(sql, i)
        BY <2>1, <3>4
      <4>2. After(sql, i) \in 1 .. open /\ g[After(sql, i)] = open
        BY <2>6, <3>4, <4>1
      <4>3. After(new, i) = After(sql, i)
        BY <2>1, <4>2, SameBlanks DEF After
      <4>4. ~Is(new, After(new, i), "(") /\ Is(new, i, "with")
        BY <2>1, <2>3, <3>4, <4>2, <4>3
      <4> QED BY <2>2, <2>5, <3>2, <4>2, <4>3, <4>4 DEF FindsFrom
    <3>5. CASE ~Is(sql, i, "with") /\ f[i] = f[i + 1]
      <4>1. i + 1 \in 1 .. Len(sql) + 1 /\ i < i + 1
        BY <2>1
      <4>2. g[i + 1] = open
        BY <2>6, <3>5, <4>1
      <4>3. ~Is(new, i, "with")
        BY <2>3, <3>5
      <4> QED BY <2>2, <2>5, <3>2, <4>2, <4>3 DEF FindsFrom
    <3> QED BY <2>2, <2>4, <3>2, <3>3, <3>4, <3>5 DEF FindsFrom
  <2> QED BY <2>2, <2>4, <2>7, <2>8 DEF FindsFrom
<1>6. 1 .. open \subseteq S
  <2> HIDE DEF S
  <2>1. open \in Nat
    OBVIOUS
  <2> QED BY <1>5, <2>1, Downward
<1>7. f[start] = open
  BY <1>1
<1>8. start \in 1 .. open
  BY <1>4, <1>7
<1>9. g[start] = open
  BY <1>6, <1>7, <1>8
<1> QED BY <1>2, <1>3, <1>8, <1>9

(* Nothing between two positions but what a block is rendered with.        *)
Plain(sql, first, last) == \A i \in first .. last : sql[i][1] \in {"nl", "lit", "=", ","}

(* matchParen finds the end of what has no parentheses and no comments.    *)
LEMMA ClosesAt ==
    ASSUME NEW sql \in Seq(Atoms), NEW open \in 1 .. Len(sql), NEW close \in 1 .. Len(sql),
           open < close, Is(sql, open, "("), Is(sql, close, ")"),
           Plain(sql, open + 1, close - 1)
    PROVE  MatchParen(sql, open) = close
<1>1. PICK match :
         /\ \A i \in 1 .. Len(sql) : MatchParen(sql, i) = match[i][0]
         /\ \A i \in 1 .. Len(sql) + 1 : \A d \in Int : MatchesFrom(sql, i, d, match)
  BY Matches
<1>2. Len(sql) \in Nat /\ open \in Nat /\ close \in Nat /\ close <= Len(sql)
  OBVIOUS
<1> DEFINE S == {i \in 1 .. close : i > open => match[i][1] = close}
<1>3. ASSUME NEW i \in 1 .. close, \A j \in 1 .. close : i < j => j \in S
      PROVE  i \in S
  <2> SUFFICES ASSUME i > open PROVE match[i][1] = close
    OBVIOUS
  <2>1. MatchesFrom(sql, i, 1, match) /\ ~(i > Len(sql)) /\ i <= Len(sql)
    BY <1>1, <1>2
  <2>2. CASE i = close
    <3>1. Skip(sql, i) = i /\ ~Is(sql, i, "(") /\ Is(sql, i, ")")
      BY <2>2, SkipsOnly DEF Is
    <3>2. ~(Skip(sql, i) \in i + 1 .. Len(sql) + 1)
      BY <1>2, <3>1
    <3> QED BY <2>1, <2>2, <3>1, <3>2 DEF MatchesFrom
  <2>3. CASE i # close
    <3>1. i + 1 \in 1 .. close /\ i < i + 1 /\ i + 1 > open /\ i \in open + 1 .. close - 1
      BY <1>2, <2>3
    <3>2. match[i + 1][1] = close
      BY <1>3, <3>1
    <3>3. sql[i][1] \in {"nl", "lit", "=", ","}
      BY <3>1 DEF Plain
    <3>4. ~Is(sql, i, "(") /\ ~Is(sql, i, ")")
      BY <3>3 DEF Is
    <3>5. Skip(sql, i) = i \/ Skip(sql, i) = i + 1
      <4>1. CASE sql[i][1] = "lit"
        <5>1. Is(sql, i, "lit") /\ ~Is(sql, i, "--") /\ ~Is(sql, i, "/*")
          BY <2>1, <4>1 DEF Is
        <5> QED BY <5>1 DEF Skip
      <4>2. CASE sql[i][1] # "lit"
        BY <3>3, <4>2, SkipsOnly
      <4> QED BY <4>1, <4>2
    <3>6. match[i][1] = match[i + 1][1]
      BY <1>2, <2>1, <3>4, <3>5 DEF MatchesFrom
    <3> QED BY <3>2, <3>6
  <2> QED BY <2>2, <2>3
<1>4. 1 .. close \subseteq S
  <2> HIDE DEF S
  <2> QED BY <1>2, <1>3, Downward
<1>5. match[open + 1][1] = close
  BY <1>2, <1>4
<1>6. match[open][0] = match[open + 1][1]
  <2>1. MatchesFrom(sql, open, 0, match) /\ ~(open > Len(sql)) /\ 0 + 1 = 1
    BY <1>1, <1>2
  <2>2. Skip(sql, open) = open /\ ~Is(sql, open, ")")
    BY SkipsOnly DEF Is
  <2>3. ~(Skip(sql, open) \in open + 1 .. Len(sql) + 1)
    BY <1>2, <2>2
  <2> QED BY <2>1, <2>2, <2>3 DEF MatchesFrom
<1> QED BY <1>1, <1>5, <1>6

(* A Kafka table is one still when the startup options are set.            *)
LEMMA KeepsConnector ==
    ASSUME NEW old \in Seq(OptionPairs), NEW new \in Seq(OptionPairs), NEW request,
           Sets(old, new, request), OptionValue(old, "connector") = "kafka"
    PROVE  OptionValue(new, "connector") = "kafka"
<1> DEFINE S == KeysAt(old, "connector")
           T == KeysAt(new, "connector")
<1>1. /\ Len(old) \in Nat /\ DOMAIN old = 1 .. Len(old)
      /\ DOMAIN new \subseteq Nat
  OBVIOUS
<1>2. "connector" \notin Startups
  BY DEF Startups
<1>3. \A i \in DOMAIN old :
         /\ i \in DOMAIN new /\ new[i][1] = old[i][1]
         /\ old[i][1] \notin Startups => new[i] = old[i]
  BY DEF Sets
<1>4. S # {} /\ S \subseteq DOMAIN old /\ T \subseteq DOMAIN new
  BY DEF OptionValue, KeysAt, NoName
<1>5. SameTo(S, T, Len(old))
  <2>1. \A i \in 0 .. Len(old) : i \in S <=> i \in T
    <3> TAKE i \in 0 .. Len(old)
    <3>1. CASE i \in DOMAIN old
      BY <1>3, <3>1 DEF KeysAt
    <3>2. CASE i \notin DOMAIN old
      <4>1. i = 0
        BY <1>1, <3>2
      <4>2. 0 \notin DOMAIN old /\ 0 \notin DOMAIN new
        OBVIOUS
      <4> QED BY <4>1, <4>2 DEF KeysAt
    <3> QED BY <3>1, <3>2
  <2> QED BY <1>1, <1>4, <2>1 DEF SameTo
<1>6. PICK i \in S : i = MinOr(S, 0)
  BY <1>1, <1>4, Least
<1>7. i <= Len(old) /\ i \in DOMAIN old /\ old[i][1] = "connector" /\ i \in T
  BY <1>1, <1>3, <1>4, <1>6 DEF KeysAt
<1>8. MinOr(T, 0) = i
  BY <1>5, <1>6, <1>7, SameLeast
<1>9. new[i] = old[i]
  BY <1>2, <1>3, <1>7
<1>10. OptionValue(old, "connector") = old[i][2]
  BY <1>4, <1>6 DEF OptionValue
<1>11. OptionValue(new, "connector") = new[i][2]
  BY <1>7, <1>8 DEF OptionValue
<1> QED BY <1>9, <1>10, <1>11

(* The text as a replay leaves it, for a block.                            *)
Written(sql, block, request) ==
    Spliced(sql, block, Rendered(Upserted(Read(Body(sql, block)), request)))

(* A block whose options were rendered anew is found again, with these     *)
(* options; what is written into it is written into the old text.          *)
LEMMA BlockFoundAgain ==
    ASSUME NEW sql \in Seq(Atoms), NEW block \in KafkaBlocks(sql), NEW request \in Request
    PROVE  /\ Written(sql, block, request) \in Seq(Atoms)
           /\ \E again \in KafkaBlocks(Written(sql, block, request)) :
                 /\ again.table = block.table /\ again.at = block.at
                 /\ Read(Body(Written(sql, block, request), again)) =
                       Upserted(Read(Body(sql, block)), request)
                 /\ \A body : Spliced(Written(sql, block, request), again, body) =
                              Spliced(sql, block, body)
<1>1. block \in FindWithBlocks(sql) /\ Connector(sql, block) = "kafka"
  BY DEF KafkaBlocks
<1>2. PICK at \in 1 .. Len(sql), open \in 1 .. Len(sql), close \in 1 .. Len(sql) :
         /\ at = block.at /\ open = block.open /\ close = block.close
         /\ at < open /\ open < close /\ block.table = sql[at][2]
         /\ Is(sql, at, "create") /\ Is(sql, open, "(") /\ Is(sql, close, ")")
         /\ FindWithOpen(sql, at + 1) = open
  <2>1. /\ block.at \in Positions(sql, "create") /\ block.table = sql[block.at][2]
        /\ block.open \in Positions(sql, "(") /\ block.at < block.open
        /\ block.close \in Positions(sql, ")") /\ block.open < block.close
    BY <1>1, BlocksAre
  <2>2. FindWithOpen(sql, block.at + 1) = block.open
    <3>1. PICK i \in DOMAIN sql : block = Block(sql, i)
      BY <1>1 DEF FindWithBlocks
    <3> QED BY <3>1 DEF Block
  <2> QED BY <2>1, <2>2 DEF Positions
<1>3. Len(sql) \in Nat /\ at < open /\ open < close
  BY <1>2
<1>4. PICK old \in Seq(OptionPairs) : old = Read(Body(sql, block)) /\ OptionValue(old, "connector") = "kafka"
  <2>1. Body(sql, block) \in Seq(Atoms)
    <3>1. open + 1 \in 1 .. Len(sql) + 1 /\ close - 1 \in Nat
          /\ close - 1 <= Len(sql) /\ close - 1 >= open + 1 - 1
      BY <1>2, <1>3
    <3>2. SubSeq(sql, open + 1, close - 1) \in Seq(Atoms)
      BY <3>1, SubSeqIs
    <3> QED BY <1>2, <3>2 DEF Body
  <2> QED BY <1>1, <2>1, ReadsOptions DEF Connector
<1>5. PICK options \in Seq(OptionPairs) : options = Upserted(old, request) /\ Sets(old, options, request)
  BY UpsertedSets
<1>6. PICK body \in Seq(Atoms) :
         /\ body = Rendered(options) /\ Read(body) = options
         /\ \A i \in 1 .. Len(body) : body[i][1] \in {"nl", "lit", "=", ","}
  <2>1. /\ Rendered(options) \in Seq(Atoms) /\ Len(Rendered(options)) = 5 * Len(options)
        /\ \A i \in 1 .. 5 * Len(options) : Rendered(options)[i][1] \in {"nl", "lit", "=", ","}
    BY RenderedAtoms
  <2> QED BY <2>1, ReadsRendered
<1>7. PICK new : new = Written(sql, block, request) /\ new = Spliced(sql, block, body)
  BY <1>4, <1>5, <1>6 DEF Written
<1>8. Holds(sql, block, body, new)
  BY <1>1, <1>7, SplicesBetween
<1>9. PICK last :
         /\ last = Len(new) - (Len(sql) - close)
         /\ new \in Seq(Atoms) /\ open < last
         /\ SubSeq(new, 1, open) = SubSeq(sql, 1, open)
         /\ SubSeq(new, last, Len(new)) = SubSeq(sql, close, Len(sql))
         /\ SubSeq(new, open + 1, last - 1) = body
  BY <1>2, <1>8 DEF Holds
<1>10. Len(new) \in Nat /\ last \in 1 .. Len(new) /\ open < last /\ open < Len(new)
  <2>1. Len(new) \in Nat /\ last = Len(new) - (Len(sql) - close) /\ open < last
    BY <1>9
  <2> QED BY <1>3, <2>1
<1>11. Agree(sql, new, open)
  <2>1. /\ 1 \in 1 .. Len(sql) + 1 /\ 1 \in 1 .. Len(new) + 1 /\ open \in Nat
        /\ open <= Len(sql) /\ open <= Len(new) /\ open >= 1 - 1
    BY <1>2, <1>3, <1>10
  <2>2. /\ \A i \in 1 .. open - 1 + 1 : SubSeq(sql, 1, open)[i] = sql[1 + i - 1]
        /\ \A i \in 1 .. open - 1 + 1 : SubSeq(new, 1, open)[i] = new[1 + i - 1]
    BY <1>9, <2>1, SubSeqIs
  <2>3. open - 1 + 1 = open /\ \A i \in 1 .. open : 1 + i - 1 = i
    BY <1>2
  <2>4. \A i \in 1 .. open : new[i] = sql[i]
    BY <1>9, <2>2, <2>3
  <2> QED BY <2>1, <2>4 DEF Agree
<1>12. new[last] = sql[close]
  <2>1. /\ last \in 1 .. Len(new) + 1 /\ Len(new) \in Nat /\ Len(new) <= Len(new) /\ Len(new) >= last - 1
        /\ close \in 1 .. Len(sql) + 1 /\ Len(sql) <= Len(sql) /\ Len(sql) >= close - 1
        /\ 1 \in 1 .. Len(new) - last + 1 /\ 1 \in 1 .. Len(sql) - close + 1
        /\ last + 1 - 1 = last /\ close + 1 - 1 = close
    BY <1>2, <1>3, <1>10
  <2>2. SubSeq(new, last, Len(new))[1] = new[last + 1 - 1]
    BY <1>9, <2>1, SubSeqIs
  <2>3. SubSeq(sql, close, Len(sql))[1] = sql[close + 1 - 1]
    BY <1>3, <2>1, SubSeqIs
  <2> QED BY <1>9, <2>1, <2>2, <2>3
<1>13. Plain(new, open + 1, last - 1)
  <2> SUFFICES ASSUME NEW i \in open + 1 .. last - 1
               PROVE  new[i][1] \in {"nl", "lit", "=", ","}
    BY DEF Plain
  <2>1. /\ open + 1 \in 1 .. Len(new) + 1 /\ last - 1 \in Nat /\ last - 1 <= Len(new)
        /\ last - 1 >= open + 1 - 1
        /\ i - open \in 1 .. last - 1 - (open + 1) + 1 /\ open + 1 + (i - open) - 1 = i
    BY <1>3, <1>10
  <2>2. /\ Len(body) = last - 1 - (open + 1) + 1
        /\ \A j \in 1 .. last - 1 - (open + 1) + 1 : body[j] = new[open + 1 + j - 1]
    <3>1. /\ Len(SubSeq(new, open + 1, last - 1)) = last - 1 - (open + 1) + 1
          /\ \A j \in 1 .. last - 1 - (open + 1) + 1 :
                SubSeq(new, open + 1, last - 1)[j] = new[open + 1 + j - 1]
      BY <1>9, <2>1, SubSeqIs
    <3> QED BY <1>9, <3>1
  <2>3. body[i - open] = new[i] /\ i - open \in 1 .. Len(body)
    BY <2>1, <2>2
  <2> QED BY <1>6, <2>3
<1>14. Is(new, at, "create") /\ new[at] = sql[at] /\ Is(new, open, "(") /\ Is(new, last, ")")
  <2>1. new[at] = sql[at] /\ new[open] = sql[open]
    BY <1>3, <1>11 DEF Agree
  <2>2. sql[at][1] = "create" /\ sql[open][1] = "(" /\ sql[close][1] = ")"
    BY <1>2 DEF Is
  <2>3. at <= Len(new) /\ open <= Len(new) /\ last <= Len(new)
    BY <1>3, <1>10
  <2> QED BY <1>12, <2>1, <2>2, <2>3 DEF Is
<1>15. FindWithOpen(new, at + 1) = open
  <2>1. at + 1 \in 1 .. Len(sql) + 1
    BY <1>3
  <2> QED BY <1>2, <1>9, <1>11, <2>1, FindsAgain
<1>16. MatchParen(new, open) = last
  <2>1. open \in 1 .. Len(new)
    BY <1>2, <1>10
  <2> QED BY <1>9, <1>10, <1>13, <1>14, <2>1, ClosesAt
<1>17. PICK again :
         /\ again = Block(new, at) /\ again.table = block.table /\ again.at = at
         /\ again.open = open /\ again.close = last
  <2>1. open # 0
    BY <1>3
  <2>2. /\ Block(new, at).table = new[at][2] /\ Block(new, at).at = at
        /\ Block(new, at).open = open /\ Block(new, at).close = last
    BY <1>15, <1>16, <2>1 DEF Block
  <2> QED BY <1>2, <1>14, <2>2
<1>18. Body(new, again) = body
  BY <1>9, <1>17 DEF Body
<1>19. again \in KafkaBlocks(new)
  <2>1. at \in DOMAIN new /\ last # 0
    <3>1. DOMAIN new = 1 .. Len(new)
      BY <1>9
    <3> QED BY <1>3, <1>10, <3>1
  <2>2. again \in FindWithBlocks(new)
    BY <1>14, <1>17, <2>1 DEF FindWithBlocks
  <2>3. OptionValue(options, "connector") = "kafka"
    BY <1>4, <1>5, KeepsConnector
  <2> QED BY <1>6, <1>18, <2>2, <2>3 DEF KafkaBlocks, Connector
<1>20. \A any : Spliced(new, again, any) = Spliced(sql, block, any)
  BY <1>2, <1>9, <1>17 DEF Spliced
<1>21. Read(Body(new, again)) = Upserted(Read(Body(sql, block)), request)
  BY <1>4, <1>5, <1>6, <1>18
<1> QED BY <1>2, <1>7, <1>9, <1>17, <1>19, <1>20, <1>21

-----------------------------------------------------------------------------
(* The text is a text, the requests are requests.                          *)
THEOREM TypeCorrect == Spec => []TypeOK
<1>1. Init => TypeOK
  BY SqlAssumption DEF Init, TypeOK
<1>2. TypeOK /\ [Next]_vars => TypeOK'
  <2> SUFFICES ASSUME TypeOK, [Next]_vars PROVE TypeOK'
    OBVIOUS
  <2>1. ASSUME NEW r \in Request, Rewrite(r) PROVE TypeOK'
    <3>1. text' \in Seq(Atoms)
      BY <2>1, RewritesLocally DEF TypeOK, Rewrite
    <3>2. base' \in Texts /\ asked' \in [Tables -> Request \cup {NoRequest}]
      BY <2>1 DEF TypeOK, Rewrite
    <3> QED BY <3>1, <3>2 DEF TypeOK
  <2>2. CASE Restore
    BY <2>2, SqlAssumption DEF TypeOK, Restore
  <2>3. CASE UNCHANGED vars
    BY <2>3 DEF TypeOK, vars
  <2> QED BY <2>1, <2>2, <2>3 DEF Next
<1> QED BY <1>1, <1>2, PTL DEF Spec

(* However often a job's text has been rewritten and restored, a replay's  *)
(* next rewrite touches the options of one Kafka source table, the one     *)
(* asked for, and sets the startup options in there and no others.         *)
THEOREM RewritesAreLocal == Spec => []RewriteIsLocal
<1>1. TypeOK => RewriteIsLocal
  BY RewritesLocally DEF TypeOK, RewriteIsLocal
<1> QED BY <1>1, TypeCorrect, PTL

(* However often a table is replayed, the scanner finds its WITH block     *)
(* again, and the text is, to the atom, what the last replay alone would   *)
(* have made of the text as it was.                                        *)
THEOREM LastRequestWins ==
    ASSUME NEW sql \in Seq(Atoms), NEW block \in KafkaBlocks(sql),
           NEW first \in Request, NEW last \in Request
    PROVE  \E again \in KafkaBlocks(Written(sql, block, first)) :
              /\ again.table = block.table /\ again.at = block.at
              /\ Written(Written(sql, block, first), again, last) = Written(sql, block, last)
<1>1. PICK new \in Seq(Atoms) : new = Written(sql, block, first)
  BY BlockFoundAgain
<1>2. PICK again \in KafkaBlocks(new) :
         /\ again.table = block.table /\ again.at = block.at
         /\ Read(Body(new, again)) = Upserted(Read(Body(sql, block)), first)
         /\ \A body : Spliced(new, again, body) = Spliced(sql, block, body)
  BY <1>1, BlockFoundAgain
<1>3. PICK options \in Seq(OptionPairs) : options = Read(Body(sql, block))
  <2>1. /\ block \in FindWithBlocks(sql)
        /\ block.open \in Positions(sql, "(") /\ block.close \in Positions(sql, ")")
        /\ block.open < block.close
    BY BlocksAre DEF KafkaBlocks
  <2>2. /\ block.open + 1 \in 1 .. Len(sql) + 1 /\ block.close - 1 \in Nat
        /\ block.close - 1 <= Len(sql) /\ block.close - 1 >= block.open + 1 - 1
    BY <2>1 DEF Positions
  <2>3. Body(sql, block) \in Seq(Atoms)
    BY <2>2, SubSeqIs DEF Body
  <2> QED BY <2>3, ReadsOptions
<1>4. Upserted(Upserted(options, first), last) = Upserted(options, last)
  BY <1>3, LastUpsertsWin
<1>5. Written(new, again, last) = Written(sql, block, last)
  BY <1>2, <1>3, <1>4 DEF Written
<1> QED BY <1>1, <1>2, <1>5
=============================================================================
