-------------------------- MODULE SqlReadingProofs --------------------------
(***************************************************************************)
(* What a replay's rewrites do to what Flink reads: in a text that Flink   *)
(* can read, the scanner of internal/flink/sqlrewrite.go finds the tables  *)
(* and the options that are there, whatever comments and quotes lie in     *)
(* between, and leaves a text of that kind behind.                         *)
(***************************************************************************)
EXTENDS SqlRewriteProofs

-----------------------------------------------------------------------------
(* Statements, along the modes of a text.                                  *)

StatementLists == Seq(Seq(Atoms))

(* What is read from a position on: the rest of a statement and the        *)
(* statements that follow.                                                 *)
Begins(atom, rest, all) ==
    /\ Len(all) = Len(rest) /\ all[1] = <<atom>> \o rest[1]
    /\ \A j \in 2 .. Len(rest) : all[j] = rest[j]

ReadStep(sql, mode, i, rest, all) ==
    /\ ~Seen(mode, sql[i]) => all = rest
    /\ Seen(mode, sql[i]) /\ sql[i][1] = ";" => all = << <<>> >> \o rest
    /\ Seen(mode, sql[i]) /\ sql[i][1] # ";" => Begins(sql[i], rest, all)

NotEmpty(r) == r \in StatementLists /\ Len(r) >= 1

(* What is read along the modes of a text.                                 *)
Along(sql, mode, r) ==
    /\ r \in [1 .. Len(sql) + 1 -> StatementLists]
    /\ \A i \in 1 .. Len(sql) + 1 : Len(r[i]) >= 1
    /\ r[Len(sql) + 1] = << <<>> >>
    /\ \A i \in 1 .. Len(sql) : ReadStep(sql, mode[i], i, r[i + 1], r[i])

(* Modes and places of a text or a part of one.                            *)
Path(sql, mode, place) ==
    /\ sql \in Seq(Atoms)
    /\ mode \in [1 .. Len(sql) + 1 -> Modes] /\ place \in [1 .. Len(sql) + 1 -> Places]
    /\ \A i \in 1 .. Len(sql) : Reads(mode[i], place[i], sql[i], mode[i + 1], place[i + 1])
    /\ mode[Len(sql) + 1] # "/*"

(* An atom leads from mode to mode.                                        *)
LEMMA ModesGoOn ==
    ASSUME NEW mode \in Modes, NEW atom
    PROVE  /\ NextMode(mode, atom) \in Modes
           /\ Seen(mode, atom) => mode = "code" /\ NextMode(mode, atom) = "code"
BY DEF Modes, NextMode, Seen

(* A statement with one atom more in front.                                *)
LEMMA OneMore ==
    ASSUME NEW atom \in Atoms, NEW rest, NotEmpty(rest)
    PROVE  /\ NotEmpty([rest EXCEPT ![1] = <<atom>> \o rest[1]])
           /\ Begins(atom, rest, [rest EXCEPT ![1] = <<atom>> \o rest[1]])
<1> DEFINE S == Seq(Atoms)
           s == <<atom>> \o rest[1]
<1>1. rest \in Seq(S) /\ Len(rest) \in Nat /\ Len(rest) >= 1
  BY DEF NotEmpty, StatementLists
<1>2. rest[1] \in S
  BY <1>1
<1>3. s \in S
  BY <1>2
<1> HIDE DEF s, S
<1>4. [rest EXCEPT ![1] = s] \in Seq(S) /\ Len([rest EXCEPT ![1] = s]) = Len(rest)
  BY <1>1, <1>3
<1>5. [rest EXCEPT ![1] = s][1] = s
  BY <1>1
<1>6. \A j \in 2 .. Len(rest) : [rest EXCEPT ![1] = s][j] = rest[j]
  BY <1>1
<1> QED BY <1>1, <1>4, <1>5, <1>6 DEF NotEmpty, StatementLists, Begins, s, S

(* A statement more in front.                                              *)
LEMMA OneStatementMore ==
    ASSUME NEW rest, NotEmpty(rest)
    PROVE  NotEmpty(<< <<>> >> \o rest)
<1> DEFINE S == Seq(Atoms)
<1>1. rest \in Seq(S) /\ Len(rest) \in Nat /\ Len(rest) >= 1 /\ <<>> \in S
  BY DEF NotEmpty, StatementLists
<1> HIDE DEF S
<1>2. << <<>> >> \in Seq(S) /\ Len(<< <<>> >>) = 1
  BY <1>1
<1>3. << <<>> >> \o rest \in Seq(S) /\ Len(<< <<>> >> \o rest) = 1 + Len(rest)
  BY <1>1, <1>2
<1> QED BY <1>1, <1>3 DEF NotEmpty, StatementLists, S

NotEmptyLists == {rest \in StatementLists : Len(rest) >= 1}

(* The function that reads a text's statements exists, and unfolds.        *)
LEMMA ReadsUnfold ==
    ASSUME NEW sql \in Seq(Atoms)
    PROVE  \E read \in [1 .. Len(sql) + 1 -> [Modes -> NotEmptyLists]] :
              /\ Statements(sql) = read[1]["code"]
              /\ \A m \in Modes : read[Len(sql) + 1][m] = << <<>> >>
              /\ \A i \in 1 .. Len(sql), m \in Modes :
                    ReadStep(sql, m, i, read[i + 1][NextMode(m, sql[i])], read[i][m])
<1> DEFINE n == Len(sql) + 1
           V == [Modes -> NotEmptyLists]
           More(a, rest) == [rest EXCEPT ![1] = <<a>> \o rest[1]]
           Step(rest, i, mode) ==
              CASE ~Seen(mode, sql[i]) -> rest
                [] Seen(mode, sql[i]) /\ sql[i][1] = ";" -> << <<>> >> \o rest
                [] OTHER -> [rest EXCEPT ![1] = <<sql[i]>> \o rest[1]]
           R(f, i, mode) ==
              IF i > Len(sql) THEN << <<>> >> ELSE Step(f[i + 1][NextMode(mode, sql[i])], i, mode)
           read == CHOOSE f : f = [i \in 1 .. n |-> [mode \in Modes |-> R(f, i, mode)]]
<1>1. Statements(sql) = read[1]["code"]
  BY DEF Statements
<1>2. n \in Nat /\ Len(sql) \in Nat /\ n = Len(sql) + 1
  OBVIOUS
<1> HIDE DEF Step
<1>3. \A f, m : R(f, n, m) = << <<>> >>
  BY <1>2
<1>4. \A i \in 1 .. Len(sql) : \A f, m : R(f, i, m) = Step(f[i + 1][NextMode(m, sql[i])], i, m)
  <2>1. \A i \in 1 .. Len(sql) : ~(i > Len(sql))
    BY <1>2
  <2> QED BY <2>1
<1> HIDE DEF R
<1>5. << <<>> >> \in NotEmptyLists
  <2> DEFINE A == Seq(Atoms)
  <2>1. <<>> \in A
    OBVIOUS
  <2> HIDE DEF A
  <2>2. << <<>> >> \in Seq(A) /\ Len(<< <<>> >>) = 1
    BY <2>1
  <2> QED BY <2>2 DEF NotEmptyLists, StatementLists, A
<1>6. ASSUME NEW i \in 1 .. Len(sql), NEW m \in Modes, NEW f, f[i + 1] \in V
      PROVE  /\ R(f, i, m) \in NotEmptyLists
             /\ ReadStep(sql, m, i, f[i + 1][NextMode(m, sql[i])], R(f, i, m))
  <2>1. PICK rest : rest = f[i + 1][NextMode(m, sql[i])]
    OBVIOUS
  <2>2. rest \in NotEmptyLists
    BY <1>6, <2>1, ModesGoOn
  <2>3. NotEmpty(rest) /\ sql[i] \in Atoms
    BY <2>2 DEF NotEmpty, NotEmptyLists
  <2>4. /\ NotEmpty(More(sql[i], rest)) /\ Begins(sql[i], rest, More(sql[i], rest))
        /\ NotEmpty(<< <<>> >> \o rest)
    BY <2>3, OneMore, OneStatementMore
  <2>5. /\ ~Seen(m, sql[i]) => R(f, i, m) = rest
        /\ Seen(m, sql[i]) /\ sql[i][1] = ";" => R(f, i, m) = << <<>> >> \o rest
        /\ Seen(m, sql[i]) /\ sql[i][1] # ";" => R(f, i, m) = More(sql[i], rest)
    <3>1. R(f, i, m) = Step(rest, i, m)
      BY <1>4, <2>1
    <3>2. /\ ~Seen(m, sql[i]) => Step(rest, i, m) = rest
          /\ Seen(m, sql[i]) /\ sql[i][1] = ";" => Step(rest, i, m) = << <<>> >> \o rest
          /\ Seen(m, sql[i]) /\ sql[i][1] # ";" => Step(rest, i, m) = More(sql[i], rest)
      BY DEF Step
    <3> QED BY <3>1, <3>2
  <2> HIDE DEF More
  <2>6. ReadStep(sql, m, i, rest, R(f, i, m))
    BY <2>4, <2>5 DEF ReadStep
  <2>7. NotEmpty(R(f, i, m))
    BY <2>3, <2>4, <2>5
  <2> QED BY <2>1, <2>6, <2>7 DEF NotEmpty, NotEmptyLists
<1> HIDE DEF n
<1>7. \A i \in 1 .. Len(sql) : i \in 1 .. n /\ i + 1 \in 1 .. n /\ i < i + 1
  BY <1>2
<1>8. \E f \in [1 .. n -> V] : f = [i \in 1 .. n |-> [mode \in Modes |-> R(f, i, mode)]]
  <2> DEFINE G == [i \in 1 .. n |-> [f \in [1 .. n -> V] |-> [mode \in Modes |-> R(f, i, mode)]]]
  <2>1. ASSUME NEW i \in 1 .. n, NEW f \in [1 .. n -> V], NEW m \in Modes
        PROVE  R(f, i, m) \in NotEmptyLists
    <3>1. CASE i = n
      BY <1>3, <1>5, <3>1
    <3>2. CASE i # n
      <4>1. i \in 1 .. Len(sql)
        BY <1>2, <3>2
      <4>2. f[i + 1] \in V
        BY <1>7, <4>1
      <4> QED BY <1>6, <4>1, <4>2
    <3> QED BY <3>1, <3>2
  <2>2. G \in [1 .. n -> [[1 .. n -> V] -> V]]
    <3>1. \A i \in 1 .. n : \A f \in [1 .. n -> V] : [mode \in Modes |-> R(f, i, mode)] \in V
      BY <2>1
    <3> HIDE DEF V
    <3> QED BY <3>1
  <2>3. ASSUME NEW i \in 1 .. n, NEW f \in [1 .. n -> V], NEW g \in [1 .. n -> V],
               \A j \in 1 .. n : i < j => f[j] = g[j]
        PROVE  G[i][f] = G[i][g]
    <3>1. ASSUME NEW m \in Modes PROVE R(f, i, m) = R(g, i, m)
      <4>1. CASE i = n
        BY <1>3, <4>1
      <4>2. CASE i # n
        <5>1. i \in 1 .. Len(sql)
          BY <1>2, <4>2
        <5>2. f[i + 1] = g[i + 1]
          BY <1>7, <2>3, <5>1
        <5> QED BY <1>4, <5>1, <5>2
      <4> QED BY <4>1, <4>2
    <3>2. [mode \in Modes |-> R(f, i, mode)] = [mode \in Modes |-> R(g, i, mode)]
      BY <3>1
    <3> HIDE DEF V
    <3> QED BY <3>2
  <2>4. [mode \in Modes |-> << <<>> >>] \in V
    BY <1>5
  <2>5. LooksAhead(n, V, G)
    <3> HIDE DEF G, V
    <3> QED BY <1>2, <2>2, <2>3, <2>4 DEF LooksAhead, n
  <2>6. PICK f \in [1 .. n -> V] : \A i \in 1 .. n : f[i] = G[i][f]
    <3> HIDE DEF G, V
    <3> QED BY <2>5, Recursion
  <2>7. \A i \in 1 .. n : f[i] = [mode \in Modes |-> R(f, i, mode)]
    <3> HIDE DEF V
    <3> QED BY <2>6
  <2>8. f = [i \in 1 .. n |-> [mode \in Modes |-> R(f, i, mode)]]
    <3> HIDE DEF V
    <3> QED BY <2>6, <2>7
  <2> QED BY <2>8
<1>9. read = [i \in 1 .. n |-> [mode \in Modes |-> R(read, i, mode)]]
  BY <1>8
<1> HIDE DEF read
<1>10. \A i \in 1 .. n, m \in Modes : read[i][m] = R(read, i, m)
  <2>1. \A i \in 1 .. n : read[i] = [mode \in Modes |-> R(read, i, mode)]
    BY <1>9
  <2> QED BY <2>1
<1> DEFINE S == {i \in 1 .. n : read[i] \in V}
<1>11. ASSUME NEW i \in 1 .. n, \A j \in 1 .. n : i < j => j \in S
       PROVE  i \in S
  <2>1. \A m \in Modes : R(read, i, m) \in NotEmptyLists
    <3>1. CASE i = n
      BY <1>3, <1>5, <3>1
    <3>2. CASE i # n
      <4>1. i \in 1 .. Len(sql)
        BY <1>2, <3>2 DEF n
      <4>2. read[i + 1] \in V
        BY <1>7, <1>11, <4>1
      <4> HIDE DEF V
      <4> QED BY <1>6, <4>1, <4>2
    <3> QED BY <3>1, <3>2
  <2>2. read[i] = [mode \in Modes |-> R(read, i, mode)]
    BY <1>9
  <2> QED BY <2>1, <2>2
<1>12. 1 .. n \subseteq S
  <2> HIDE DEF S
  <2> QED BY <1>2, <1>11, Downward, ZenonT(30)
<1>13. read \in [1 .. n -> V]
  <2> HIDE DEF V
  <2> QED BY <1>9, <1>12
<1>14. \A m \in Modes : read[n][m] = << <<>> >>
  <2>1. n \in 1 .. n
    BY <1>2 DEF n
  <2> QED BY <1>3, <1>10, <2>1
<1>15. \A i \in 1 .. Len(sql), m \in Modes :
          ReadStep(sql, m, i, read[i + 1][NextMode(m, sql[i])], read[i][m])
  <2> TAKE i \in 1 .. Len(sql), m \in Modes
  <2>1. read[i + 1] \in V /\ read[i][m] = R(read, i, m)
    <3> HIDE DEF V
    <3> QED BY <1>7, <1>10, <1>13
  <2> HIDE DEF V
  <2> QED BY <1>6, <2>1
<1> QED BY <1>1, <1>13, <1>14, <1>15 DEF n, V

(* What a text is read as, along its modes.                                *)
LEMMA ReadsAlong ==
    ASSUME NEW sql \in Seq(Atoms), NEW mode, NEW place, Path(sql, mode, place), mode[1] = "code"
    PROVE  \E r : Statements(sql) = r[1] /\ Along(sql, mode, r)
<1>1. PICK read \in [1 .. Len(sql) + 1 -> [Modes -> NotEmptyLists]] :
         /\ Statements(sql) = read[1]["code"]
         /\ \A m \in Modes : read[Len(sql) + 1][m] = << <<>> >>
         /\ \A i \in 1 .. Len(sql), m \in Modes :
               ReadStep(sql, m, i, read[i + 1][NextMode(m, sql[i])], read[i][m])
  BY ReadsUnfold
<1> DEFINE r == [i \in 1 .. Len(sql) + 1 |-> read[i][mode[i]]]
<1>2. Len(sql) \in Nat /\ mode \in [1 .. Len(sql) + 1 -> Modes]
  BY DEF Path
<1>3. \A i \in 1 .. Len(sql) + 1 : r[i] \in NotEmptyLists /\ r[i] = read[i][mode[i]]
  BY <1>1, <1>2
<1>4. \A i \in 1 .. Len(sql) + 1 : r[i] \in StatementLists /\ Len(r[i]) >= 1
  <2> HIDE DEF r
  <2> QED BY <1>3 DEF NotEmptyLists
<1>5. r \in [1 .. Len(sql) + 1 -> StatementLists]
  BY <1>4
<1>6. r[Len(sql) + 1] = << <<>> >>
  <2>1. Len(sql) + 1 \in 1 .. Len(sql) + 1
    BY <1>2
  <2>2. mode[Len(sql) + 1] \in Modes
    BY <1>2, <2>1
  <2> QED BY <1>1, <1>3, <2>1, <2>2
<1>7. ASSUME NEW i \in 1 .. Len(sql)
      PROVE  ReadStep(sql, mode[i], i, r[i + 1], r[i])
  <2>1. i \in 1 .. Len(sql) + 1 /\ i + 1 \in 1 .. Len(sql) + 1
    BY <1>2
  <2>2. mode[i] \in Modes /\ mode[i + 1] = NextMode(mode[i], sql[i])
    BY <1>2, <2>1 DEF Path, Reads
  <2>3. r[i] = read[i][mode[i]] /\ r[i + 1] = read[i + 1][NextMode(mode[i], sql[i])]
    BY <1>3, <2>1, <2>2
  <2> HIDE DEF r
  <2> QED BY <1>1, <2>2, <2>3
<1>8. Statements(sql) = r[1]
  <2>1. 1 \in 1 .. Len(sql) + 1
    BY <1>2
  <2> QED BY <1>1, <1>3, <2>1
<1> HIDE DEF r
<1> QED BY <1>4, <1>5, <1>6, <1>7, <1>8 DEF Along

-----------------------------------------------------------------------------
(* Comments.                                                               *)

(* A set that each number is in when the lesser ones are.                  *)
LEMMA Upward ==
    ASSUME NEW n \in Nat, NEW S,
           \A i \in 1 .. n : (\A j \in 1 .. n : j < i => j \in S) => i \in S
    PROVE  1 .. n \subseteq S
<1> DEFINE T == (1 .. n) \ S
<1> SUFFICES ASSUME T # {} PROVE FALSE
  OBVIOUS
<1>1. T \subseteq Nat
  OBVIOUS
<1>2. PICK i \in T : \A j \in T : i <= j
  <2> HIDE DEF T
  <2> QED BY <1>1, LeastNumber
<1>3. \A j \in 1 .. n : j < i => j \in S
  BY <1>2
<1> QED BY <1>2, <1>3

(* What is passed over unread from i on.                                   *)
Unseen(sql, mode, i, j) == \A x \in i .. j - 1 : ~Seen(mode[x], sql[x])

(* The comment that begins at i ends at e.                                 *)
Ends(sql, mode, place, i, e) ==
    /\ e \in i + 1 .. Len(sql) + 1 /\ place[e] = place[i]
    /\ \A x \in i + 1 .. e : mode[x] # "code" \/ x = e
    /\ Unseen(sql, mode, i, e)
    /\ \/ e = Len(sql) + 1
       \/ mode[e] = "code"
       \/ e <= Len(sql) /\ sql[e][1] = "nl" /\ mode[e] = "--"

(* Skip goes to the end of a comment.                                      *)
LEMMA SkipsComment ==
    ASSUME NEW sql, NEW mode, NEW place, Path(sql, mode, place),
           NEW i \in 1 .. Len(sql), mode[i] = "code", Comment(sql, i)
    PROVE  Ends(sql, mode, place, i, Skip(sql, i))
<1> DEFINE n == Len(sql)
           kind == sql[i][1]
           stop == IF kind = "--" THEN "nl" ELSE "*/"
           E == {j \in i .. n : Is(sql, j, stop)}
           m == MinOr(E, IF kind = "--" THEN n + 1 ELSE n)
<1>1. /\ n \in Nat /\ sql \in Seq(Atoms) /\ mode \in [1 .. n + 1 -> Modes] /\ place \in [1 .. n + 1 -> Places]
      /\ \A x \in 1 .. n : Reads(mode[x], place[x], sql[x], mode[x + 1], place[x + 1])
      /\ mode[n + 1] # "/*"
  BY DEF Path
<1>2. kind = "--" \/ kind = "/*"
  BY DEF Comment, Is
<1>3. Skip(sql, i) = IF kind = "--" THEN m ELSE m + 1
  <2>1. ~Is(sql, i, "lit") /\ (Is(sql, i, "--") <=> kind = "--") /\ (Is(sql, i, "/*") <=> kind = "/*")
    BY <1>1, <1>2 DEF Is
  <2>2. CASE kind = "--"
    <3>1. m = MinOr({j \in i .. n : Is(sql, j, "nl")}, n + 1)
      BY <2>2
    <3> HIDE DEF m
    <3> QED BY <2>1, <2>2, <3>1 DEF Skip
  <2>3. CASE kind = "/*"
    <3>1. m = MinOr({j \in i .. n : Is(sql, j, "*/")}, n)
      BY <2>3
    <3> HIDE DEF m
    <3> QED BY <2>1, <2>3, <3>1 DEF Skip
  <2> QED BY <1>2, <2>2, <2>3
<1>4. E \subseteq Nat /\ E \subseteq i + 1 .. n
  <2>1. ~Is(sql, i, stop)
    BY <1>2 DEF Is
  <2> QED BY <2>1
<1>5. (m = IF kind = "--" THEN n + 1 ELSE n) \/ m \in E
  <2> HIDE DEF E
  <2> QED BY <1>4, Least
<1>6. \A j \in E : m \in E /\ m <= j
  <2> HIDE DEF E
  <2> QED BY <1>4, Least
<1>7. \A x \in i + 1 .. m - 1 : x \notin E
  <2>1. m \in Nat
    BY <1>1, <1>4, <1>5
  <2> HIDE DEF m, E
  <2> QED BY <1>4, <1>6, <2>1
<1>8. m \in i .. n + 1 /\ (kind = "--" => m \in i + 1 .. n + 1) /\ (kind = "/*" => m \in i .. n)
  <2> HIDE DEF E
  <2> QED BY <1>1, <1>2, <1>4, <1>5
<1> HIDE DEF m
<1> DEFINE S == {x \in 1 .. m : x > i => mode[x] = kind /\ place[x] = place[i]}
<1>9. mode[i + 1] = kind /\ place[i + 1] = place[i] /\ ~Seen(mode[i], sql[i])
  <2>1. Reads(mode[i], place[i], sql[i], mode[i + 1], place[i + 1])
    BY <1>1
  <2>2. ~Seen(mode[i], sql[i]) /\ NextMode(mode[i], sql[i]) = kind
    BY <1>2 DEF Seen, NextMode
  <2> QED BY <2>1, <2>2 DEF Reads
<1>10. ASSUME NEW x \in i + 1 .. n, mode[x] = kind, place[x] = place[i]
       PROVE  /\ ~Seen(mode[x], sql[x]) /\ place[x + 1] = place[i]
              /\ mode[x + 1] = IF x \in E THEN "code" ELSE kind
  <2>1. Reads(mode[x], place[x], sql[x], mode[x + 1], place[x + 1])
    BY <1>1
  <2>2. ~Seen(mode[x], sql[x])
    BY <1>2, <1>10 DEF Seen
  <2>3. x \in E <=> sql[x][1] = stop
    BY DEF Is
  <2>4. NextMode(mode[x], sql[x]) = IF x \in E THEN "code" ELSE kind
    <3> HIDE DEF E
    <3> QED BY <1>2, <1>10, <2>3 DEF NextMode
  <2> QED BY <1>10, <2>1, <2>2, <2>4 DEF Reads
<1>11. ASSUME NEW x \in 1 .. m, \A j \in 1 .. m : j < x => j \in S
       PROVE  x \in S
  <2> SUFFICES ASSUME x > i PROVE mode[x] = kind /\ place[x] = place[i]
    OBVIOUS
  <2>1. CASE x = i + 1
    BY <1>9, <2>1
  <2>2. CASE x # i + 1
    <3>1. x - 1 \in i + 1 .. m - 1 /\ x - 1 \in 1 .. m /\ x - 1 < x /\ x - 1 \in i + 1 .. n /\ x - 1 + 1 = x /\ x - 1 > i
      BY <1>1, <1>8, <2>2
    <3>2. mode[x - 1] = kind /\ place[x - 1] = place[i]
      BY <1>11, <3>1
    <3> HIDE DEF E
    <3> QED BY <1>7, <1>10, <3>1, <3>2
  <2> QED BY <2>1, <2>2
<1>12. 1 .. m \subseteq S
  <2>1. m \in Nat
    BY <1>8
  <2> HIDE DEF S
  <2> QED BY <1>11, <2>1, Upward
<1>13. \A x \in i + 1 .. m : mode[x] = kind /\ place[x] = place[i]
  BY <1>8, <1>12
<1>14. \A x \in i + 1 .. m : x <= n => ~Seen(mode[x], sql[x])
  <2> TAKE x \in i + 1 .. m
  <2> HAVE x <= n
  <2>1. x \in i + 1 .. n
    BY <1>8
  <2> QED BY <1>10, <1>13, <2>1
<1>15. CASE kind = "--"
  <2>1. Skip(sql, i) = m /\ m \in i + 1 .. n + 1 /\ mode[m] = "--" /\ place[m] = place[i]
    BY <1>3, <1>8, <1>13, <1>15
  <2>2. \A x \in i + 1 .. m : mode[x] # "code" \/ x = m
    BY <1>13, <1>15
  <2>3. Unseen(sql, mode, i, m)
    BY <1>8, <1>9, <1>14, <2>1 DEF Unseen
  <2>4. m = n + 1 \/ m \in E
    BY <1>5, <1>15
  <2>5. m = n + 1 \/ (m <= n /\ sql[m][1] = "nl")
    BY <1>15, <2>4 DEF Is
  <2> QED BY <2>1, <2>2, <2>3, <2>5 DEF Ends
<1>16. CASE kind = "/*"
  <2>1. Skip(sql, i) = m + 1 /\ m \in i .. n
    BY <1>3, <1>8, <1>16
  <2>2. m \in E
    <3> SUFFICES ASSUME m \notin E PROVE FALSE
      OBVIOUS
    <3>1. m = n
      BY <1>5, <1>16
    <3>2. CASE n = i
      BY <1>1, <1>9, <1>16, <3>2
    <3>3. CASE n # i
      <4>1. n \in i + 1 .. m /\ n \in i + 1 .. n
        BY <1>1, <3>1, <3>3
      <4>2. mode[n] = kind /\ place[n] = place[i]
        BY <1>13, <4>1
      <4>3. mode[n + 1] = IF n \in E THEN "code" ELSE kind
        BY <1>10, <4>1, <4>2
      <4> HIDE DEF E
      <4> QED BY <1>1, <1>16, <3>1, <4>3
    <3> QED BY <3>2, <3>3
  <2>3. m \in i + 1 .. n /\ m \in i + 1 .. m
    <3> HIDE DEF E
    <3> QED BY <1>4, <2>1, <2>2
  <2>4. mode[m + 1] = "code" /\ place[m + 1] = place[i]
    <3> HIDE DEF E
    <3> QED BY <1>10, <1>13, <2>2, <2>3
  <2>5. \A x \in i + 1 .. m + 1 : mode[x] # "code" \/ x = m + 1
    <3>1. \A x \in i + 1 .. m + 1 : x \in i + 1 .. m \/ x = m + 1
      BY <2>1
    <3> QED BY <1>13, <1>16, <3>1
  <2>6. Unseen(sql, mode, i, m + 1)
    <3>1. \A x \in i .. (m + 1) - 1 : x = i \/ (x \in i + 1 .. m /\ x <= n)
      BY <2>3
    <3> QED BY <1>9, <1>14, <3>1 DEF Unseen
  <2>7. m + 1 \in i + 1 .. n + 1
    BY <2>1
  <2> QED BY <2>1, <2>4, <2>5, <2>6, <2>7 DEF Ends
<1> QED BY <1>2, <1>15, <1>16

(* Where the next atom is that is read, or the end.                        *)
NextSeen(sql, mode, place, i, j) ==
    /\ j \in i .. Len(sql) + 1 /\ place[j] = place[i] /\ Unseen(sql, mode, i, j)
    /\ j = Len(sql) + 1 \/ Seen(mode[j], sql[j])

(* There is one from every position on.                                    *)
LEMMA SeesNext ==
    ASSUME NEW sql, NEW mode, NEW place, Path(sql, mode, place), NEW i \in 1 .. Len(sql) + 1
    PROVE  \E j \in i .. Len(sql) + 1 : NextSeen(sql, mode, place, i, j)
<1> DEFINE n == Len(sql)
           S == {x \in 1 .. n + 1 : \E j \in x .. n + 1 : NextSeen(sql, mode, place, x, j)}
<1>1. /\ n \in Nat /\ sql \in Seq(Atoms) /\ mode \in [1 .. n + 1 -> Modes] /\ place \in [1 .. n + 1 -> Places]
      /\ \A x \in 1 .. n : Reads(mode[x], place[x], sql[x], mode[x + 1], place[x + 1])
  BY DEF Path
<1>2. ASSUME NEW x \in 1 .. n + 1, \A y \in 1 .. n + 1 : x < y => y \in S
      PROVE  x \in S
  <2>1. CASE x = n + 1 \/ Seen(mode[x], sql[x])
    <3>1. x \in x .. n + 1 /\ Unseen(sql, mode, x, x)
      BY <1>1 DEF Unseen
    <3>2. NextSeen(sql, mode, place, x, x)
      BY <2>1, <3>1 DEF NextSeen
    <3> QED BY <3>1, <3>2
  <2>2. CASE x # n + 1 /\ ~Seen(mode[x], sql[x])
    <3>1. x \in 1 .. n /\ x + 1 \in 1 .. n + 1 /\ x < x + 1
      BY <1>1, <2>2
    <3>2. x + 1 \in S
      <4> HIDE DEF S
      <4> QED BY <1>2, <3>1
    <3>3. PICK j \in x + 1 .. n + 1 : NextSeen(sql, mode, place, x + 1, j)
      BY <3>2
    <3>4. place[x + 1] = place[x]
      BY <1>1, <2>2, <3>1 DEF Reads
    <3>5. j \in x .. n + 1 /\ Unseen(sql, mode, x, j)
      <4>1. \A y \in x .. j - 1 : y = x \/ y \in x + 1 .. j - 1
        BY <1>1
      <4> QED BY <1>1, <2>2, <3>3, <4>1 DEF NextSeen, Unseen
    <3>6. NextSeen(sql, mode, place, x, j)
      BY <3>3, <3>4, <3>5 DEF NextSeen
    <3> QED BY <3>5, <3>6
  <2> QED BY <2>1, <2>2
<1>3. 1 .. n + 1 \subseteq S
  <2>1. n + 1 \in Nat
    BY <1>1
  <2> HIDE DEF S, n
  <2> QED BY <1>2, <2>1, Downward
<1> QED BY <1>3

(* A function that passes over line ends and comments.                     *)
Skips(sql, f) ==
    \A x \in 1 .. Len(sql) :
        /\ sql[x][1] = "nl" => f[x] = f[x + 1]
        /\ Comment(sql, x) => f[x] = f[Skip(sql, x)]

(* It passes over whatever is not read.                                    *)
LEMMA PassesUnseen ==
    ASSUME NEW sql, NEW mode, NEW place, Path(sql, mode, place), NEW f, Skips(sql, f),
           NEW i \in 1 .. Len(sql) + 1, NEW j \in i .. Len(sql) + 1, Unseen(sql, mode, i, j),
           mode[i] = "code", j = Len(sql) + 1 \/ mode[j] = "code"
    PROVE  f[i] = f[j]
<1> DEFINE n == Len(sql)
           S == {x \in 1 .. j : x >= i /\ mode[x] = "code" => f[x] = f[j]}
<1>1. /\ n \in Nat /\ sql \in Seq(Atoms) /\ mode \in [1 .. n + 1 -> Modes] /\ place \in [1 .. n + 1 -> Places]
      /\ \A x \in 1 .. n : Reads(mode[x], place[x], sql[x], mode[x + 1], place[x + 1])
      /\ j \in 1 .. n + 1
  BY DEF Path
<1>2. ASSUME NEW x \in 1 .. j, \A y \in 1 .. j : x < y => y \in S
      PROVE  x \in S
  <2> SUFFICES ASSUME x >= i, mode[x] = "code", x # j PROVE f[x] = f[j]
    OBVIOUS
  <2>1. x \in 1 .. n /\ x \in i .. j - 1 /\ x < j
    BY <1>1
  <2>2. ~Seen(mode[x], sql[x])
    BY <2>1 DEF Unseen
  <2>3. sql[x][1] \in {"nl", "--", "/*"}
    BY <2>2 DEF Seen
  <2>4. \A y \in x + 1 .. j : mode[y] = "code" => f[y] = f[j]
    <3> TAKE y \in x + 1 .. j
    <3>1. y \in 1 .. j /\ x < y /\ y >= i
      BY <1>1, <2>1
    <3>2. y \in S
      <4> HIDE DEF S
      <4> QED BY <1>2, <3>1
    <3> QED BY <3>1, <3>2
  <2>5. CASE sql[x][1] = "nl"
    <3>1. mode[x + 1] = "code"
      <4>1. NextMode(mode[x], sql[x]) = "code"
        BY <2>5 DEF NextMode
      <4> QED BY <1>1, <2>1, <4>1 DEF Reads
    <3>2. f[x] = f[x + 1] /\ x + 1 \in x + 1 .. j
      BY <1>1, <2>1, <2>5 DEF Skips
    <3> QED BY <2>4, <3>1, <3>2
  <2>6. CASE sql[x][1] # "nl"
    <3>1. Comment(sql, x)
      BY <1>1, <2>1, <2>3, <2>6 DEF Comment, Is
    <3> DEFINE e == Skip(sql, x)
    <3>2. Ends(sql, mode, place, x, e)
      BY <2>1, <3>1, SkipsComment
    <3>3. f[x] = f[e]
      BY <2>1, <3>1 DEF Skips
    <3> HIDE DEF e
    <3>4. /\ e \in x + 1 .. n + 1 /\ \A y \in x + 1 .. e : mode[y] # "code" \/ y = e
          /\ e = n + 1 \/ mode[e] = "code" \/ (e <= n /\ sql[e][1] = "nl" /\ mode[e] = "--")
      BY <3>2 DEF Ends
    <3>5. e <= j
      <4> SUFFICES ASSUME e > j PROVE FALSE
        BY <1>1, <3>4
      <4>1. j \in x + 1 .. e /\ j # e
        BY <1>1, <2>1, <3>4
      <4> QED BY <1>1, <3>4, <4>1
    <3>6. CASE e = j
      BY <3>3, <3>6
    <3>7. CASE e # j /\ mode[e] = "code"
      BY <2>4, <3>3, <3>4, <3>5, <3>7
    <3>8. CASE e # j /\ mode[e] # "code"
      <4>1. e \in 1 .. n /\ sql[e][1] = "nl" /\ mode[e] = "--" /\ e + 1 \in x + 1 .. j
        BY <1>1, <3>4, <3>5, <3>8
      <4>2. NextMode(mode[e], sql[e]) = "code"
        BY <4>1 DEF NextMode
      <4>3. mode[e + 1] = "code"
        BY <1>1, <4>1, <4>2 DEF Reads
      <4>4. f[e] = f[e + 1]
        BY <4>1 DEF Skips
      <4> QED BY <2>4, <3>3, <4>1, <4>3, <4>4
    <3> QED BY <3>6, <3>7, <3>8
  <2> QED BY <2>5, <2>6
<1>3. 1 .. j \subseteq S
  <2>1. j \in Nat
    BY <1>1
  <2> HIDE DEF S
  <2> QED BY <1>2, <2>1, Downward
<1>4. i \in 1 .. j
  BY <1>1
<1> QED BY <1>3, <1>4

-----------------------------------------------------------------------------
(* The scanner, along the places of a text.                                *)

StopsColumns(atom) == atom[1] \in {"with", ";"}
StartsComment(atom) == atom[1] \in {"--", "/*"}

Looks(sql, find) ==
    \A x \in 1 .. Len(sql) :
        /\ sql[x][1] = ";" => find[x] = 0
        /\ ~StopsColumns(sql[x]) /\ ~StartsComment(sql[x]) => find[x] = find[x + 1]
        /\ sql[x][1] = "with" /\ Is(sql, After(sql, x), "(") => find[x] = After(sql, x)
        /\ sql[x][1] = "with" /\ ~Is(sql, After(sql, x), "(") => find[x] = find[After(sql, x)]

(* findWithOpenParen passes over comments and stops at WITH or semicolon.  *)
LEMMA FindLooks ==
    ASSUME NEW sql \in Seq(Atoms)
    PROVE  \E find :
              /\ \A i \in 1 .. Len(sql) + 1 : FindWithOpen(sql, i) = find[i]
              /\ Skips(sql, find) /\ Looks(sql, find)
<1>1. PICK find :
         /\ \A i \in 1 .. Len(sql) + 1 : FindWithOpen(sql, i) = find[i]
         /\ \A i \in 1 .. Len(sql) + 1 : FindsFrom(sql, i, find)
  BY Finds
<1>2. Len(sql) \in Nat
  OBVIOUS
<1>3. ASSUME NEW x \in 1 .. Len(sql)
      PROVE  /\ sql[x][1] = ";" => find[x] = 0
             /\ ~StopsColumns(sql[x]) /\ ~StartsComment(sql[x]) => find[x] = find[x + 1]
             /\ sql[x][1] = "with" /\ Is(sql, After(sql, x), "(") => find[x] = After(sql, x)
             /\ sql[x][1] = "with" /\ ~Is(sql, After(sql, x), "(") => find[x] = find[After(sql, x)]
             /\ Comment(sql, x) => find[x] = find[Skip(sql, x)]
             /\ sql[x][1] = "nl" => find[x] = find[x + 1]
  <2>1. x \in 1 .. Len(sql) + 1 /\ ~(x > Len(sql)) /\ x <= Len(sql)
    BY <1>2
  <2>2. FindsFrom(sql, x, find)
    BY <1>1, <2>1
  <2>3. EndsStatement(sql, x) <=> sql[x][1] = ";"
    BY <2>1 DEF EndsStatement, Is
  <2>4. /\ Is(sql, x, "with") <=> sql[x][1] = "with"
        /\ Comment(sql, x) <=> sql[x][1] \in {"--", "/*"}
    BY <2>1 DEF Is, Comment
  <2>5. sql[x][1] \notin {"lit", "--", "/*"} => Skip(sql, x) = x
    BY SkipsOnly
  <2>6. sql[x][1] = "lit" => Skip(sql, x) = x + 1
    BY <2>1 DEF Skip, Is
  <2>7. Comment(sql, x) => Skip(sql, x) > x
    BY <2>1, SkipsForward DEF Comment
  <2>8. ~(x \in x + 1 .. Len(sql) + 1)
    BY <1>2
  <2>9. sql[x][1] = ";" => find[x] = 0
    BY <2>2, <2>3 DEF FindsFrom
  <2>10. ~StopsColumns(sql[x]) /\ ~StartsComment(sql[x]) => find[x] = find[x + 1]
    <3> SUFFICES ASSUME ~StopsColumns(sql[x]), ~StartsComment(sql[x]) PROVE find[x] = find[x + 1]
      OBVIOUS
    <3>1. sql[x][1] # ";" /\ sql[x][1] # "with" /\ sql[x][1] \notin {"--", "/*"}
      BY DEF StopsColumns, StartsComment
    <3> QED BY <2>2, <2>3, <2>4, <2>5, <2>6, <2>8, <3>1 DEF FindsFrom
  <2>11. /\ sql[x][1] = "with" /\ Is(sql, After(sql, x), "(") => find[x] = After(sql, x)
         /\ sql[x][1] = "with" /\ ~Is(sql, After(sql, x), "(") => find[x] = find[After(sql, x)]
    BY <2>2, <2>3, <2>4, <2>5, <2>8 DEF FindsFrom
  <2>12. Comment(sql, x) => find[x] = find[Skip(sql, x)]
    <3> SUFFICES ASSUME Comment(sql, x) PROVE find[x] = find[Skip(sql, x)]
      OBVIOUS
    <3>1. ~EndsStatement(sql, x)
      BY <2>3, <2>4
    <3>2. Skip(sql, x) > x /\ x \in Nat
      BY <1>2, <2>7
    <3>3. Skip(sql, x) # x
      BY <3>2
    <3> QED BY <2>2, <3>1, <3>3 DEF FindsFrom
  <2>13. sql[x][1] = "nl" => find[x] = find[x + 1]
    BY <2>10 DEF StopsColumns, StartsComment
  <2> QED BY <2>9, <2>10, <2>11, <2>12, <2>13
<1>4. Skips(sql, find) /\ Looks(sql, find)
  BY <1>3 DEF Skips, Looks
<1> QED BY <1>1, <1>4

(* Where a table's columns end.                                            *)
ColumnsEnd(sql, mode, place, i, w) ==
    /\ w \in i .. Len(sql) /\ Seen(mode[w], sql[w]) /\ place[w] = "columns"
    /\ StopsColumns(sql[w])
    /\ \A x \in i .. w - 1 : Seen(mode[x], sql[x]) => ~StopsColumns(sql[x])

(* They do, and that is what findWithOpenParen comes to.                   *)
LEMMA FindsColumnsEnd ==
    ASSUME NEW sql, NEW mode, NEW place, Path(sql, mode, place), place[Len(sql) + 1] = "start",
           NEW i \in 1 .. Len(sql) + 1, mode[i] = "code", place[i] = "columns"
    PROVE  \E w \in 1 .. Len(sql) :
              /\ ColumnsEnd(sql, mode, place, i, w)
              /\ FindWithOpen(sql, i) = FindWithOpen(sql, w)
<1> DEFINE n == Len(sql)
           Found(x) == \E w \in 1 .. n :
                          ColumnsEnd(sql, mode, place, x, w) /\ FindWithOpen(sql, x) = FindWithOpen(sql, w)
           S == {x \in 1 .. n + 1 : mode[x] = "code" /\ place[x] = "columns" => Found(x)}
<1>1. /\ n \in Nat /\ sql \in Seq(Atoms) /\ mode \in [1 .. n + 1 -> Modes] /\ place \in [1 .. n + 1 -> Places]
      /\ \A x \in 1 .. n : Reads(mode[x], place[x], sql[x], mode[x + 1], place[x + 1])
  BY DEF Path
<1>2. PICK find :
         /\ \A x \in 1 .. n + 1 : FindWithOpen(sql, x) = find[x]
         /\ Skips(sql, find) /\ Looks(sql, find)
  BY <1>1, FindLooks
<1>3. ASSUME NEW x \in 1 .. n + 1, \A y \in 1 .. n + 1 : x < y => y \in S
      PROVE  x \in S
  <2> SUFFICES ASSUME mode[x] = "code", place[x] = "columns" PROVE Found(x)
    OBVIOUS
  <2>1. PICK j \in x .. n + 1 : NextSeen(sql, mode, place, x, j)
    BY SeesNext
  <2>2. place[j] = "columns" /\ Unseen(sql, mode, x, j) /\ (j = n + 1 \/ Seen(mode[j], sql[j]))
    BY <2>1 DEF NextSeen
  <2>3. j \in 1 .. n /\ Seen(mode[j], sql[j]) /\ mode[j] = "code"
    BY <1>1, <2>2 DEF Seen
  <2>4. find[x] = find[j]
    BY <1>2, <2>2, <2>3, PassesUnseen
  <2>5. CASE StopsColumns(sql[j])
    <3>1. ColumnsEnd(sql, mode, place, x, j)
      BY <2>1, <2>2, <2>3, <2>5 DEF ColumnsEnd, Unseen
    <3>2. FindWithOpen(sql, x) = FindWithOpen(sql, j)
      BY <1>1, <1>2, <2>3, <2>4
    <3> QED BY <2>3, <3>1, <3>2
  <2>6. CASE ~StopsColumns(sql[j])
    <3>1. Reads(mode[j], place[j], sql[j], mode[j + 1], place[j + 1])
      BY <1>1, <2>3
    <3>2. Follows("columns", sql[j][1], place[j + 1]) /\ mode[j + 1] = NextMode(mode[j], sql[j])
      BY <2>2, <2>3, <3>1 DEF Reads
    <3>3. mode[j + 1] = "code" /\ place[j + 1] = "columns"
      <4>1. place[j + 1] = "columns"
        BY <2>6, <3>2 DEF Follows, StopsColumns
      <4>2. mode[j] \in Modes
        BY <1>1, <2>3
      <4> QED BY <2>3, <3>2, <4>1, <4>2, ModesGoOn
    <3>4. j + 1 \in 1 .. n + 1 /\ x < j + 1
      BY <1>1, <2>1, <2>3
    <3>5. PICK w \in 1 .. n : ColumnsEnd(sql, mode, place, j + 1, w) /\ FindWithOpen(sql, j + 1) = FindWithOpen(sql, w)
      <4>1. j + 1 \in S
        <5> HIDE DEF S
        <5> QED BY <1>3, <3>4
      <4> QED BY <3>3, <4>1
    <3>6. find[j] = find[j + 1]
      <4>1. ~StartsComment(sql[j])
        BY <2>3 DEF Seen, StartsComment
      <4> QED BY <1>2, <2>3, <2>6, <4>1 DEF Looks
    <3>7. FindWithOpen(sql, x) = FindWithOpen(sql, w)
      BY <1>1, <1>2, <2>4, <3>4, <3>5, <3>6
    <3>8. ColumnsEnd(sql, mode, place, x, w)
      <4>1. \A y \in x .. w - 1 : y \in x .. j - 1 \/ y = j \/ y \in j + 1 .. w - 1
        BY <1>1, <2>3
      <4>2. \A y \in x .. w - 1 : Seen(mode[y], sql[y]) => ~StopsColumns(sql[y])
        BY <2>2, <2>6, <3>5, <4>1 DEF ColumnsEnd, Unseen
      <4>3. w \in x .. n
        <5>1. w \in j + 1 .. n /\ j >= x /\ x \in Nat /\ j \in Nat
          BY <2>1, <2>3, <3>5 DEF ColumnsEnd
        <5> QED BY <1>1, <5>1
      <4> QED BY <3>5, <4>2, <4>3 DEF ColumnsEnd
    <3> QED BY <3>7, <3>8
  <2> QED BY <2>5, <2>6
<1>4. 1 .. n + 1 \subseteq S
  <2>1. n + 1 \in Nat
    BY <1>1
  <2> HIDE DEF S, n
  <2> QED BY <1>3, <2>1, Downward
<1> QED BY <1>4

(* Behind the columns comes the parenthesis that findWithOpenParen returns.*)
Opens(sql, mode, place, w, o) ==
    /\ o \in w + 1 .. Len(sql) /\ Unseen(sql, mode, w + 1, o)
    /\ Seen(mode[o], sql[o]) /\ sql[o][1] = "("
    /\ mode[o + 1] = "code" /\ place[o + 1] = "open"

(* Between WITH and the end of the statement findWithOpenParen finds       *)
(* nothing.                                                                *)
InOptions(at) == at \in {"with", "open", "equals", "value", "comma", "key", "end"}

LEMMA FindsNothing ==
    ASSUME NEW sql, NEW mode, NEW place, Path(sql, mode, place), place[Len(sql) + 1] = "start",
           NEW i \in 1 .. Len(sql) + 1, mode[i] = "code", InOptions(place[i])
    PROVE  FindWithOpen(sql, i) = 0
<1> DEFINE n == Len(sql)
           S == {x \in 1 .. n + 1 : mode[x] = "code" /\ InOptions(place[x]) => FindWithOpen(sql, x) = 0}
<1>1. /\ n \in Nat /\ sql \in Seq(Atoms) /\ mode \in [1 .. n + 1 -> Modes] /\ place \in [1 .. n + 1 -> Places]
      /\ \A x \in 1 .. n : Reads(mode[x], place[x], sql[x], mode[x + 1], place[x + 1])
  BY DEF Path
<1>2. PICK find :
         /\ \A x \in 1 .. n + 1 : FindWithOpen(sql, x) = find[x]
         /\ Skips(sql, find) /\ Looks(sql, find)
  BY <1>1, FindLooks
<1>3. ASSUME NEW x \in 1 .. n + 1, \A y \in 1 .. n + 1 : x < y => y \in S
      PROVE  x \in S
  <2> SUFFICES ASSUME mode[x] = "code", InOptions(place[x]) PROVE FindWithOpen(sql, x) = 0
    OBVIOUS
  <2>1. PICK j \in x .. n + 1 : NextSeen(sql, mode, place, x, j)
    BY SeesNext
  <2>2. place[j] = place[x] /\ Unseen(sql, mode, x, j) /\ (j = n + 1 \/ Seen(mode[j], sql[j]))
    BY <2>1 DEF NextSeen
  <2>3. j \in 1 .. n /\ Seen(mode[j], sql[j]) /\ mode[j] = "code"
    BY <1>1, <2>2 DEF Seen, InOptions
  <2>4. find[x] = find[j]
    BY <1>2, <2>2, <2>3, PassesUnseen
  <2>5. Reads(mode[j], place[j], sql[j], mode[j + 1], place[j + 1])
    BY <1>1, <2>3
  <2>6. Follows(place[j], sql[j][1], place[j + 1]) /\ mode[j + 1] = NextMode(mode[j], sql[j])
    BY <2>3, <2>5 DEF Reads
  <2>7. sql[j][1] = ";" \/ (~StopsColumns(sql[j]) /\ InOptions(place[j + 1]))
    BY <2>2, <2>6 DEF Follows, StopsColumns, InOptions
  <2>8. CASE sql[j][1] = ";"
    <3>1. find[j] = 0
      BY <1>2, <2>3, <2>8 DEF Looks
    <3> QED BY <1>2, <2>4, <3>1
  <2>9. CASE ~StopsColumns(sql[j]) /\ InOptions(place[j + 1])
    <3>1. mode[j + 1] = "code"
      <4>1. mode[j] \in Modes
        BY <1>1, <2>3
      <4> QED BY <2>3, <2>6, <4>1, ModesGoOn
    <3>2. j + 1 \in 1 .. n + 1 /\ x < j + 1
      BY <1>1, <2>1, <2>3
    <3>3. FindWithOpen(sql, j + 1) = 0
      <4>1. j + 1 \in S
        <5> HIDE DEF S
        <5> QED BY <1>3, <3>2
      <4> QED BY <2>9, <3>1, <4>1
    <3>4. find[j] = find[j + 1]
      <4>1. ~StartsComment(sql[j])
        BY <2>3 DEF Seen, StartsComment
      <4> QED BY <1>2, <2>3, <2>9, <4>1 DEF Looks
    <3> QED BY <1>2, <2>4, <3>2, <3>3, <3>4
  <2> QED BY <2>7, <2>8, <2>9
<1>4. 1 .. n + 1 \subseteq S
  <2>1. n + 1 \in Nat
    BY <1>1
  <2> HIDE DEF S, n
  <2> QED BY <1>3, <2>1, Downward
<1> QED BY <1>4

(* findWithOpenParen, at a WITH behind columns, finds the parenthesis of   *)
(* its options, or nothing if a comment stands between the two.            *)
LEMMA WithOpens ==
    ASSUME NEW sql, NEW mode, NEW place, Path(sql, mode, place), place[Len(sql) + 1] = "start",
           NEW w \in 1 .. Len(sql), Seen(mode[w], sql[w]), place[w] = "columns", sql[w][1] = "with"
    PROVE  \E o \in 1 .. Len(sql) :
              /\ Opens(sql, mode, place, w, o)
              /\ FindWithOpen(sql, w) = o \/ (FindWithOpen(sql, w) = 0 /\ ~NothingHides(sql))
<1> DEFINE n == Len(sql)
<1>1. /\ n \in Nat /\ sql \in Seq(Atoms) /\ mode \in [1 .. n + 1 -> Modes] /\ place \in [1 .. n + 1 -> Places]
      /\ \A x \in 1 .. n : Reads(mode[x], place[x], sql[x], mode[x + 1], place[x + 1])
  BY DEF Path
<1>2. mode[w] = "code" /\ mode[w + 1] = "code" /\ place[w + 1] = "with" /\ w + 1 \in 1 .. n + 1
  <2>1. mode[w] \in Modes /\ Reads(mode[w], place[w], sql[w], mode[w + 1], place[w + 1])
    BY <1>1
  <2>2. Follows("columns", "with", place[w + 1])
    BY <2>1 DEF Reads
  <2>3. place[w + 1] = "with"
    BY <2>2 DEF Follows
  <2>4. mode[w + 1] = NextMode(mode[w], sql[w])
    BY <2>1 DEF Reads
  <2> QED BY <1>1, <2>1, <2>3, <2>4, ModesGoOn
<1>3. PICK o \in w + 1 .. n + 1 : NextSeen(sql, mode, place, w + 1, o)
  BY <1>2, SeesNext
<1>4. place[o] = "with" /\ Unseen(sql, mode, w + 1, o) /\ (o = n + 1 \/ Seen(mode[o], sql[o]))
  BY <1>2, <1>3 DEF NextSeen
<1>5. o \in w + 1 .. n /\ o \in 1 .. n /\ Seen(mode[o], sql[o])
  <2>1. o # n + 1 /\ n \in Nat
    BY <1>1, <1>4
  <2>2. o \in w + 1 .. n /\ o \in 1 .. n
    BY <2>1
  <2> QED BY <1>4, <2>1, <2>2
<1>6. sql[o][1] = "(" /\ place[o + 1] = "open" /\ mode[o + 1] = "code"
  <2>1. mode[o] \in Modes /\ Reads(mode[o], place[o], sql[o], mode[o + 1], place[o + 1])
    BY <1>1, <1>5
  <2>2. Follows("with", sql[o][1], place[o + 1])
    BY <1>4, <1>5, <2>1 DEF Reads
  <2>3. sql[o][1] = "(" /\ place[o + 1] = "open"
    BY <2>2 DEF Follows
  <2>4. mode[o + 1] = NextMode(mode[o], sql[o])
    BY <2>1 DEF Reads
  <2> QED BY <1>5, <2>1, <2>3, <2>4, ModesGoOn
<1>7. Opens(sql, mode, place, w, o)
  BY <1>4, <1>5, <1>6 DEF Opens
<1>8. PICK a : /\ a = After(sql, w) /\ a \in w + 1 .. o /\ ~(sql[a][1] = "nl")
               /\ \A x \in w + 1 .. a - 1 : sql[x][1] = "nl"
  <2> DEFINE T == {j \in w + 1 .. n : ~Is(sql, j, "nl")}
             b == MinOr(T, n + 1)
  <2>1. T \subseteq Nat /\ o \in T
    BY <1>1, <1>5, <1>6 DEF Is
  <2>2. b \in T /\ \A j \in T : b <= j
    <3> HIDE DEF T
    <3> QED BY <2>1, Least
  <2>3. b \in w + 1 .. n /\ b <= o /\ ~(sql[b][1] = "nl")
    <3>1. b \in w + 1 .. n /\ ~Is(sql, b, "nl")
      BY <2>2
    <3>2. b <= o
      BY <2>1, <2>2
    <3> HIDE DEF b
    <3> QED BY <1>1, <3>1, <3>2 DEF Is
  <2>4. ASSUME NEW x \in w + 1 .. b - 1
        PROVE  sql[x][1] = "nl"
    <3>1. x \in w + 1 .. n /\ ~(b <= x)
      <4> HIDE DEF b
      <4> QED BY <1>1, <2>3
    <3>2. Is(sql, x, "nl")
      <4> HIDE DEF b
      <4> QED BY <2>2, <3>1
    <3> QED BY <3>2 DEF Is
  <2>5. After(sql, w) = b
    BY DEF After, AfterBlanks
  <2> HIDE DEF b, T
  <2> QED BY <1>1, <1>5, <2>3, <2>4, <2>5
<1>9. a \in 1 .. n /\ a \in Nat /\ o \in Nat
  BY <1>1, <1>5, <1>8
<1> DEFINE S == {x \in 1 .. a : x > w => mode[x] = "code" /\ place[x] = "with"}
<1>10. ASSUME NEW x \in 1 .. a, \A y \in 1 .. a : y < x => y \in S
       PROVE  x \in S
  <2> SUFFICES ASSUME x > w PROVE mode[x] = "code" /\ place[x] = "with"
    OBVIOUS
  <2>1. CASE x = w + 1
    BY <1>2, <2>1
  <2>2. CASE x # w + 1
    <3>1. PICK y \in w + 1 .. a - 1 : y + 1 = x /\ y \in 1 .. n
      <4>1. x - 1 \in w + 1 .. a - 1 /\ (x - 1) + 1 = x /\ x - 1 \in 1 .. n
        BY <1>1, <1>9, <2>2
      <4> QED BY <4>1
    <3>2. mode[y] = "code" /\ place[y] = "with"
      <4>1. y \in 1 .. a /\ y < x /\ y > w
        BY <1>9, <3>1
      <4> QED BY <1>10, <4>1
    <3>3. sql[y][1] = "nl" /\ Reads(mode[y], place[y], sql[y], mode[y + 1], place[y + 1])
      BY <1>1, <1>8, <3>1
    <3>4. ~Seen(mode[y], sql[y]) /\ NextMode(mode[y], sql[y]) = "code"
      BY <3>2, <3>3 DEF Seen, NextMode
    <3> QED BY <3>1, <3>2, <3>3, <3>4 DEF Reads
  <2> QED BY <2>1, <2>2
<1>11. mode[a] = "code" /\ place[a] = "with"
  <2>1. 1 .. a \subseteq S
    <3> HIDE DEF S
    <3> QED BY <1>9, <1>10, Upward
  <2>2. a \in 1 .. a /\ a > w
    BY <1>1, <1>8, <1>9
  <2> QED BY <2>1, <2>2
<1>12. PICK find :
          /\ \A x \in 1 .. n + 1 : FindWithOpen(sql, x) = find[x]
          /\ Skips(sql, find) /\ Looks(sql, find)
  BY <1>1, FindLooks
<1>13. w \in 1 .. n + 1 /\ a \in 1 .. n + 1
  BY <1>1, <1>9
<1>14. CASE a = o
  <2>1. Is(sql, a, "(")
    BY <1>6, <1>9, <1>14 DEF Is
  <2>2. find[w] = o
    BY <1>8, <1>12, <1>14, <2>1 DEF Looks
  <2> QED BY <1>5, <1>7, <1>12, <1>13, <2>2
<1>15. CASE a # o
  <2>1. a \in w + 1 .. o - 1
    BY <1>1, <1>8, <1>9, <1>15
  <2>2. sql[a][1] \in {"--", "/*"}
    BY <1>4, <1>8, <1>11, <2>1 DEF Unseen, Seen
  <2>3. ~Is(sql, a, "(")
    BY <2>2 DEF Is
  <2>4. find[w] = find[a]
    BY <1>8, <1>12, <2>3 DEF Looks
  <2>5. FindWithOpen(sql, a) = 0
    <3>1. InOptions(place[a])
      BY <1>11 DEF InOptions
    <3> QED BY <1>11, <1>13, <3>1, FindsNothing
  <2>6. ~NothingHides(sql)
    <3>1. w \in Positions(sql, "with") /\ a \in Positions(sql, "--") \cup Positions(sql, "/*")
      BY <1>1, <1>9, <2>2 DEF Positions, Is
    <3>2. w < a
      BY <1>1, <1>8, <1>9
    <3>3. \A k \in w + 1 .. a - 1 : Is(sql, k, "nl")
      <4>1. \A k \in w + 1 .. a - 1 : k <= Len(sql)
        BY <1>1, <1>9
      <4> QED BY <1>8, <4>1 DEF Is
    <3> QED BY <3>1, <3>2, <3>3 DEF NothingHides
  <2>7. FindWithOpen(sql, w) = 0
    BY <1>12, <1>13, <2>4, <2>5
  <2> QED BY <1>5, <1>7, <2>6, <2>7
<1> QED BY <1>14, <1>15

-----------------------------------------------------------------------------
(* What is read between two positions.                                     *)

Attaches(h, rest, all) ==
    /\ Len(all) = Len(rest) /\ all[1] = h \o rest[1]
    /\ \A j \in 2 .. Len(rest) : all[j] = rest[j]

NoneEnds(sql, mode, i, j) == \A x \in i .. j - 1 : Seen(mode[x], sql[x]) => ~(sql[x][1] = ";")

Gathered(sql, mode, e, g) ==
    /\ g \in [1 .. e -> Seq(Atoms)] /\ g[e] = <<>>
    /\ \A x \in 1 .. e - 1 :
          g[x] = IF Seen(mode[x], sql[x]) THEN <<sql[x]>> \o g[x + 1] ELSE g[x + 1]

(* The atoms that are read from each position to a given one.              *)
LEMMA Gathers ==
    ASSUME NEW sql \in Seq(Atoms), NEW mode, NEW e \in 1 .. Len(sql) + 1
    PROVE  \E g : Gathered(sql, mode, e, g)
<1> DEFINE V == Seq(Atoms)
           R(f, x) == IF x = e THEN <<>>
                      ELSE IF Seen(mode[x], sql[x]) THEN <<sql[x]>> \o f[x + 1] ELSE f[x + 1]
           G == [x \in 1 .. e |-> [f \in [1 .. e -> V] |-> R(f, x)]]
<1>1. e \in Nat /\ <<>> \in V /\ Len(sql) \in Nat
  OBVIOUS
<1>2. \A x \in 1 .. e : x # e => x + 1 \in 1 .. e /\ x < x + 1 /\ sql[x] \in Atoms
  BY <1>1
<1>3. ASSUME NEW x \in 1 .. e, NEW f \in [1 .. e -> V] PROVE R(f, x) \in V
  <2>1. CASE x = e
    BY <1>1, <2>1
  <2>2. CASE x # e
    <3>1. f[x + 1] \in V /\ sql[x] \in Atoms
      <4> HIDE DEF V
      <4> QED BY <1>2, <2>2
    <3>2. <<sql[x]>> \o f[x + 1] \in V
      BY <3>1
    <3> HIDE DEF V
    <3> QED BY <2>2, <3>1, <3>2
  <2> QED BY <2>1, <2>2
<1> HIDE DEF V
<1>4. G \in [1 .. e -> [[1 .. e -> V] -> V]]
  <2> HIDE DEF R
  <2> QED BY <1>3
<1>5. ASSUME NEW x \in 1 .. e, NEW f \in [1 .. e -> V], NEW g \in [1 .. e -> V],
             \A y \in 1 .. e : x < y => f[y] = g[y]
      PROVE  G[x][f] = G[x][g]
  <2>1. x # e => f[x + 1] = g[x + 1]
    BY <1>2, <1>5
  <2>2. R(f, x) = R(g, x)
    BY <2>1
  <2> HIDE DEF R
  <2> QED BY <2>2
<1>6. LooksAhead(e, V, G)
  <2> HIDE DEF G, R
  <2> QED BY <1>1, <1>4, <1>5 DEF LooksAhead
<1> HIDE DEF G
<1>7. PICK g \in [1 .. e -> V] : \A x \in 1 .. e : g[x] = G[x][g]
  <2> DEFINE n == e
  <2>1. LooksAhead(n, V, G)
    BY <1>6
  <2> HIDE DEF n
  <2>2. \E f \in [1 .. n -> V] : \A x \in 1 .. n : f[x] = G[x][f]
    BY <2>1, Recursion
  <2> QED BY <2>2 DEF n
<1>8. \A x \in 1 .. e : g[x] = R(g, x)
  <2> HIDE DEF R
  <2> QED BY <1>7 DEF G
<1>9. g[e] = <<>>
  <2>1. e \in 1 .. e
    OBVIOUS
  <2> QED BY <1>8, <2>1
<1>10. \A x \in 1 .. e - 1 :
          g[x] = IF Seen(mode[x], sql[x]) THEN <<sql[x]>> \o g[x + 1] ELSE g[x + 1]
  <2> TAKE x \in 1 .. e - 1
  <2>1. x \in 1 .. e /\ x # e
    OBVIOUS
  <2> QED BY <1>8, <2>1
<1> QED BY <1>9, <1>10 DEF Gathered, V

(* They are atoms that are read.                                           *)
LEMMA GathersSeen ==
    ASSUME NEW sql \in Seq(Atoms), NEW mode, NEW e \in 1 .. Len(sql) + 1, NEW g, Gathered(sql, mode, e, g),
           NEW i \in 1 .. e, NEW k \in 1 .. Len(g[i])
    PROVE  \E x \in i .. e - 1 : Seen(mode[x], sql[x]) /\ g[i][k] = sql[x]
<1> DEFINE From(y, a) == \E x \in y .. e - 1 : Seen(mode[x], sql[x]) /\ a = sql[x]
           S == {y \in 1 .. e : \A l \in 1 .. Len(g[y]) : From(y, g[y][l])}
<1>1. /\ e \in Nat /\ g \in [1 .. e -> Seq(Atoms)] /\ g[e] = <<>>
      /\ \A x \in 1 .. e - 1 : g[x] = IF Seen(mode[x], sql[x]) THEN <<sql[x]>> \o g[x + 1] ELSE g[x + 1]
  BY DEF Gathered
<1>2. ASSUME NEW y \in 1 .. e, \A z \in 1 .. e : y < z => z \in S
      PROVE  y \in S
  <2>1. CASE y = e
    BY <1>1, <2>1
  <2>2. CASE y # e
    <3>1. y \in 1 .. e - 1 /\ y + 1 \in 1 .. e /\ y < y + 1
      BY <1>1, <2>2
    <3>2. \A l \in 1 .. Len(g[y + 1]) : From(y + 1, g[y + 1][l])
      <4>1. y + 1 \in S
        <5> HIDE DEF S
        <5> QED BY <1>2, <3>1
      <4> QED BY <4>1
    <3>3. \A a : From(y + 1, a) => From(y, a)
      <4>1. \A x \in y + 1 .. e - 1 : x \in y .. e - 1
        BY <3>1
      <4> QED BY <4>1
    <3>4. CASE ~Seen(mode[y], sql[y])
      <4>1. g[y] = g[y + 1]
        BY <1>1, <3>1, <3>4
      <4> HIDE DEF From
      <4> QED BY <3>2, <3>3, <4>1
    <3>5. CASE Seen(mode[y], sql[y])
      <4>1. g[y] = <<sql[y]>> \o g[y + 1]
        BY <1>1, <3>1, <3>5
      <4>2. g[y + 1] \in Seq(Atoms)
        BY <1>1, <3>1
      <4>3. \A l \in 1 .. Len(g[y]) : g[y][l] = sql[y] \/ \E m \in 1 .. Len(g[y + 1]) : g[y][l] = g[y + 1][m]
        <5> TAKE l \in 1 .. Len(g[y])
        <5>1. Len(g[y]) = 1 + Len(g[y + 1]) /\ Len(g[y + 1]) \in Nat
          BY <4>1, <4>2
        <5>2. CASE l = 1
          BY <4>1, <4>2, <5>2
        <5>3. CASE l # 1
          <6>1. l - 1 \in 1 .. Len(g[y + 1])
            BY <5>1, <5>3
          <6>2. g[y][l] = g[y + 1][l - 1]
            BY <4>1, <4>2, <5>1, <5>3
          <6> QED BY <6>1, <6>2
        <5> QED BY <5>2, <5>3
      <4>4. From(y, sql[y])
        BY <3>1, <3>5
      <4> HIDE DEF From
      <4>5. \A l \in 1 .. Len(g[y]) : From(y, g[y][l])
        BY <3>2, <3>3, <4>3, <4>4
      <4> QED BY <4>5
    <3> QED BY <3>4, <3>5
  <2> QED BY <2>1, <2>2
<1>3. 1 .. e \subseteq S
  <2> HIDE DEF S
  <2> QED BY <1>1, <1>2, Downward
<1> QED BY <1>3

(* What is not read changes nothing.                                       *)
LEMMA UnseenSame ==
    ASSUME NEW sql, NEW mode, NEW r, sql \in Seq(Atoms), Along(sql, mode, r),
           NEW j \in 1 .. Len(sql) + 1, NEW i \in 1 .. j, Unseen(sql, mode, i, j)
    PROVE  r[i] = r[j]
<1> DEFINE S == {x \in 1 .. j : x >= i => r[x] = r[j]}
<1>1. j \in Nat /\ Len(sql) \in Nat
  OBVIOUS
<1>2. ASSUME NEW x \in 1 .. j, \A y \in 1 .. j : x < y => y \in S
      PROVE  x \in S
  <2> SUFFICES ASSUME x >= i, x # j PROVE r[x] = r[j]
    OBVIOUS
  <2>1. x \in 1 .. Len(sql) /\ x \in i .. j - 1 /\ x + 1 \in 1 .. j /\ x < x + 1 /\ x + 1 >= i
    BY <1>1
  <2>2. r[x + 1] = r[j]
    BY <1>2, <2>1
  <2>3. ~Seen(mode[x], sql[x])
    BY <2>1 DEF Unseen
  <2>4. r[x] = r[x + 1]
    BY <2>1, <2>3 DEF Along, ReadStep
  <2> QED BY <2>2, <2>4
<1>3. 1 .. j \subseteq S
  <2> HIDE DEF S
  <2> QED BY <1>1, <1>2, Downward
<1> QED BY <1>3

IsJoin(A, s, t, u) ==
    /\ u = s \o t /\ u \in Seq(A) /\ Len(u) = Len(s) + Len(t)
    /\ \A i \in 1 .. Len(s) : u[i] = s[i]
    /\ \A i \in 1 .. Len(t) : u[Len(s) + i] = t[i]

(* Two sequences that are put together.                                    *)
LEMMA Joins ==
    ASSUME NEW A, NEW s \in Seq(A), NEW t \in Seq(A)
    PROVE  IsJoin(A, s, t, s \o t)
BY DEF IsJoin

(* It does not matter what is put together first.                          *)
LEMMA Together ==
    ASSUME NEW A, NEW s \in Seq(A), NEW t \in Seq(A), NEW u \in Seq(A)
    PROVE  (s \o t) \o u = s \o (t \o u)
<1>1. Len(s) \in Nat /\ Len(t) \in Nat /\ Len(u) \in Nat
  OBVIOUS
<1>2. PICK st \in Seq(A) :
         /\ st = s \o t /\ Len(st) = Len(s) + Len(t)
         /\ \A i \in 1 .. Len(s) : st[i] = s[i]
         /\ \A i \in 1 .. Len(t) : st[Len(s) + i] = t[i]
  <2>1. IsJoin(A, s, t, s \o t)
    BY Joins
  <2> QED BY <2>1 DEF IsJoin
<1>3. PICK tu \in Seq(A) :
         /\ tu = t \o u /\ Len(tu) = Len(t) + Len(u)
         /\ \A i \in 1 .. Len(t) : tu[i] = t[i]
         /\ \A i \in 1 .. Len(u) : tu[Len(t) + i] = u[i]
  <2>1. IsJoin(A, t, u, t \o u)
    BY Joins
  <2> QED BY <2>1 DEF IsJoin
<1>4. PICK a \in Seq(A) :
         /\ a = st \o u /\ Len(a) = Len(st) + Len(u)
         /\ \A i \in 1 .. Len(st) : a[i] = st[i]
         /\ \A i \in 1 .. Len(u) : a[Len(st) + i] = u[i]
  <2>1. IsJoin(A, st, u, st \o u)
    BY Joins
  <2> QED BY <2>1 DEF IsJoin
<1>5. PICK b \in Seq(A) :
         /\ b = s \o tu /\ Len(b) = Len(s) + Len(tu)
         /\ \A i \in 1 .. Len(s) : b[i] = s[i]
         /\ \A i \in 1 .. Len(tu) : b[Len(s) + i] = tu[i]
  <2>1. IsJoin(A, s, tu, s \o tu)
    BY Joins
  <2> QED BY <2>1 DEF IsJoin
<1>6. Len(a) = Len(b)
  BY <1>1, <1>2, <1>3, <1>4, <1>5
<1>7. ASSUME NEW i \in 1 .. Len(a) PROVE a[i] = b[i]
  <2>1. CASE i \in 1 .. Len(s)
    <3>1. i \in 1 .. Len(st)
      BY <1>1, <1>2, <2>1
    <3> QED BY <1>2, <1>4, <1>5, <2>1, <3>1
  <2>2. CASE i \in Len(s) + 1 .. Len(s) + Len(t)
    <3>1. i \in 1 .. Len(st) /\ i - Len(s) \in 1 .. Len(t) /\ i - Len(s) \in 1 .. Len(tu) /\ Len(s) + (i - Len(s)) = i
      BY <1>1, <1>2, <1>3, <2>2
    <3>2. a[i] = st[Len(s) + (i - Len(s))] /\ b[Len(s) + (i - Len(s))] = tu[i - Len(s)]
      BY <1>4, <1>5, <3>1
    <3> QED BY <1>2, <1>3, <3>1, <3>2
  <2>3. CASE i > Len(s) + Len(t)
    <3>1. /\ i - Len(s) - Len(t) \in 1 .. Len(u) /\ i - Len(s) \in 1 .. Len(tu)
          /\ Len(st) + (i - Len(s) - Len(t)) = i /\ Len(s) + (i - Len(s)) = i
          /\ Len(t) + (i - Len(s) - Len(t)) = i - Len(s)
      BY <1>1, <1>2, <1>3, <1>4, <2>3
    <3>2. a[i] = u[i - Len(s) - Len(t)] /\ b[i] = tu[i - Len(s)]
      BY <1>4, <1>5, <3>1
    <3>3. tu[i - Len(s)] = u[i - Len(s) - Len(t)]
      BY <1>3, <3>1
    <3> QED BY <3>2, <3>3
  <2> QED BY <1>1, <2>1, <2>2, <2>3
<1>8. a = b
  BY <1>6, <1>7, SameSeq
<1> QED BY <1>2, <1>3, <1>4, <1>5, <1>8

(* What is read before something else belongs to the same statement.       *)
LEMMA AttachesMore ==
    ASSUME NEW g \in Seq(Atoms), NEW h \in Seq(Atoms), NEW a, NotEmpty(a), NEW b, NotEmpty(b), NEW c, NotEmpty(c),
           Attaches(g, b, c), Attaches(h, a, b)
    PROVE  Attaches(g \o h, a, c)
<1>1. a[1] \in Seq(Atoms) /\ Len(a) \in Nat
  <2> DEFINE A == Seq(Atoms)
  <2>1. a \in Seq(A) /\ Len(a) >= 1
    BY DEF NotEmpty, StatementLists
  <2> HIDE DEF A
  <2>2. a[1] \in A /\ Len(a) \in Nat
    BY <2>1
  <2> QED BY <2>2 DEF A
<1>2. (g \o h) \o a[1] = g \o (h \o a[1])
  <2>1. PICK u \in Seq(Atoms) : u = a[1]
    BY <1>1
  <2>2. (g \o h) \o u = g \o (h \o u)
    BY Together
  <2> QED BY <2>1, <2>2
<1>3. c[1] = g \o (h \o a[1]) /\ Len(c) = Len(a)
  BY DEF Attaches
<1>4. \A j \in 2 .. Len(a) : c[j] = a[j]
  BY DEF Attaches
<1> QED BY <1>2, <1>3, <1>4 DEF Attaches

(* Nothing attached.                                                       *)
LEMMA AttachesNothing ==
    ASSUME NEW a, NotEmpty(a)
    PROVE  Attaches(<<>>, a, a)
<1> DEFINE A == Seq(Atoms)
<1>1. a \in Seq(A) /\ Len(a) >= 1
  BY DEF NotEmpty, StatementLists
<1>2. a[1] \in A
  <2> HIDE DEF A
  <2> QED BY <1>1
<1>3. <<>> \o a[1] = a[1]
  BY <1>2
<1> QED BY <1>3 DEF Attaches

(* What is gathered is attached to what is read behind it.                 *)
LEMMA AttachesGathered ==
    ASSUME NEW sql \in Seq(Atoms), NEW mode, NEW r, Along(sql, mode, r),
           NEW e \in 1 .. Len(sql) + 1, NEW g, Gathered(sql, mode, e, g), NEW i \in 1 .. e,
           NoneEnds(sql, mode, i, e)
    PROVE  Attaches(g[i], r[e], r[i])
<1> DEFINE S == {x \in 1 .. e : x >= i => Attaches(g[x], r[e], r[x])}
<1>1. /\ e \in Nat /\ Len(sql) \in Nat /\ g \in [1 .. e -> Seq(Atoms)] /\ g[e] = <<>>
      /\ \A x \in 1 .. e - 1 : g[x] = IF Seen(mode[x], sql[x]) THEN <<sql[x]>> \o g[x + 1] ELSE g[x + 1]
  BY DEF Gathered
<1>2. \A x \in 1 .. Len(sql) + 1 : NotEmpty(r[x])
  BY DEF Along, NotEmpty
<1>3. ASSUME NEW x \in 1 .. e, \A y \in 1 .. e : x < y => y \in S
      PROVE  x \in S
  <2> SUFFICES ASSUME x >= i PROVE Attaches(g[x], r[e], r[x])
    OBVIOUS
  <2>1. CASE x = e
    BY <1>1, <1>2, <2>1, AttachesNothing
  <2>2. CASE x # e
    <3>1. x \in 1 .. Len(sql) /\ x \in i .. e - 1 /\ x \in 1 .. e - 1 /\ x + 1 \in 1 .. e /\ x < x + 1 /\ x + 1 >= i
      BY <1>1, <2>2
    <3>2. Attaches(g[x + 1], r[e], r[x + 1])
      BY <1>3, <3>1
    <3>3. ReadStep(sql, mode[x], x, r[x + 1], r[x])
      BY <3>1 DEF Along
    <3>4. CASE ~Seen(mode[x], sql[x])
      <4>1. g[x] = g[x + 1] /\ r[x] = r[x + 1]
        BY <1>1, <3>1, <3>3, <3>4 DEF ReadStep
      <4> QED BY <3>2, <4>1
    <3>5. CASE Seen(mode[x], sql[x])
      <4>1. g[x] = <<sql[x]>> \o g[x + 1] /\ Begins(sql[x], r[x + 1], r[x])
        <5>1. ~(sql[x][1] = ";")
          BY <3>1, <3>5 DEF NoneEnds
        <5> QED BY <1>1, <3>1, <3>3, <3>5, <5>1 DEF ReadStep
      <4>2. Attaches(<<sql[x]>>, r[x + 1], r[x])
        BY <4>1 DEF Begins, Attaches
      <4>3. <<sql[x]>> \in Seq(Atoms) /\ g[x + 1] \in Seq(Atoms)
        BY <1>1, <3>1, SMTT(30)
      <4>4. NotEmpty(r[x]) /\ NotEmpty(r[x + 1]) /\ NotEmpty(r[e])
        <5>1. x \in 1 .. Len(sql) + 1 /\ x + 1 \in 1 .. Len(sql) + 1
          BY <1>1, <3>1
        <5> QED BY <1>2, <5>1
      <4>5. Attaches(<<sql[x]>> \o g[x + 1], r[e], r[x])
        BY <3>2, <4>2, <4>3, <4>4, AttachesMore
      <4> QED BY <4>1, <4>5
    <3> QED BY <3>4, <3>5
  <2> QED BY <2>1, <2>2
<1>4. 1 .. e \subseteq S
  <2> HIDE DEF S
  <2> QED BY <1>1, <1>3, Downward
<1> QED BY <1>4

-----------------------------------------------------------------------------
(* A list of options.                                                      *)

Inner(atom) == atom[1] \in {"lit", "=", ","}
InBody(at) == at \in {"open", "equals", "value", "comma", "key"}

Encloses(sql, inside) ==
    \A x \in 1 .. Len(sql) :
        /\ sql[x][1] = "(" => MatchParen(sql, x) = inside[x + 1]
        /\ sql[x][1] = ")" => inside[x] = x
        /\ Inner(sql[x]) => inside[x] = inside[x + 1]

(* matchParen passes over comments and ends at a parenthesis.              *)
LEMMA MatchEncloses ==
    ASSUME NEW sql \in Seq(Atoms)
    PROVE  \E inside : Skips(sql, inside) /\ Encloses(sql, inside)
<1>1. PICK match :
         /\ \A open \in 1 .. Len(sql) : MatchParen(sql, open) = match[open][0]
         /\ \A i \in 1 .. Len(sql) + 1 : \A d \in Int : MatchesFrom(sql, i, d, match)
  BY Matches
<1> DEFINE inside == [x \in 1 .. Len(sql) + 1 |-> match[x][1]]
<1>2. Len(sql) \in Nat /\ \A x \in 1 .. Len(sql) + 1 : inside[x] = match[x][1]
  OBVIOUS
<1> HIDE DEF inside
<1>3. ASSUME NEW x \in 1 .. Len(sql)
      PROVE  /\ sql[x][1] = "(" => MatchParen(sql, x) = inside[x + 1]
             /\ sql[x][1] = ")" => inside[x] = x
             /\ Inner(sql[x]) => inside[x] = inside[x + 1]
             /\ sql[x][1] = "nl" => inside[x] = inside[x + 1]
             /\ Comment(sql, x) => inside[x] = inside[Skip(sql, x)]
  <2>1. x \in 1 .. Len(sql) + 1 /\ x + 1 \in 1 .. Len(sql) + 1 /\ ~(x > Len(sql)) /\ x <= Len(sql)
    BY <1>2
  <2>2. MatchesFrom(sql, x, 0, match) /\ MatchesFrom(sql, x, 1, match)
    BY <1>1, <2>1
  <2>3. inside[x] = match[x][1] /\ inside[x + 1] = match[x + 1][1] /\ MatchParen(sql, x) = match[x][0]
    BY <1>1, <1>2, <2>1
  <2>4. /\ Is(sql, x, "(") <=> sql[x][1] = "("
        /\ Is(sql, x, ")") <=> sql[x][1] = ")"
    BY <2>1 DEF Is
  <2>5. sql[x][1] \notin {"lit", "--", "/*"} => Skip(sql, x) = x
    BY SkipsOnly
  <2>6. sql[x][1] = "lit" => Skip(sql, x) = x + 1
    BY <2>1 DEF Skip, Is
  <2>7. Comment(sql, x) => Skip(sql, x) \in x + 1 .. Len(sql) + 1
    <3>1. Comment(sql, x) => Skip(sql, x) > x /\ Skip(sql, x) \in x .. Len(sql) + 1
      BY <2>1, SkipsForward DEF Comment
    <3> QED BY <1>2, <3>1
  <2>8. ~(x \in x + 1 .. Len(sql) + 1)
    BY <1>2
  <2>9. CASE sql[x][1] = "("
    <3>1. Skip(sql, x) = x /\ ~Is(sql, x, ")") /\ Is(sql, x, "(")
      BY <2>4, <2>5, <2>9
    <3>2. match[x][0] = match[x + 1][0 + 1]
      BY <2>1, <2>2, <2>8, <3>1 DEF MatchesFrom
    <3>3. ~Inner(sql[x]) /\ ~Comment(sql, x)
      BY <2>9 DEF Inner, Comment, Is
    <3> QED BY <2>3, <2>9, <3>2, <3>3
  <2>10. CASE sql[x][1] = ")"
    <3>1. Skip(sql, x) = x /\ Is(sql, x, ")") /\ ~Is(sql, x, "(")
      BY <2>4, <2>5, <2>10
    <3>2. match[x][1] = x
      BY <2>1, <2>2, <2>8, <3>1 DEF MatchesFrom
    <3>3. ~Inner(sql[x]) /\ ~Comment(sql, x)
      BY <2>10 DEF Inner, Comment, Is
    <3> QED BY <2>3, <2>10, <3>2, <3>3
  <2>11. CASE Comment(sql, x)
    <3>1. sql[x][1] \in {"--", "/*"}
      BY <2>11 DEF Comment, Is
    <3>2. ~Is(sql, x, ")") /\ ~Is(sql, x, "(") /\ Skip(sql, x) # x
      BY <1>2, <2>4, <2>7, <2>8, <2>11, <3>1
    <3>3. match[x][1] = match[Skip(sql, x)][1]
      BY <2>1, <2>2, <3>2 DEF MatchesFrom
    <3>4. inside[Skip(sql, x)] = match[Skip(sql, x)][1]
      <4>1. Skip(sql, x) \in 1 .. Len(sql) + 1
        BY <1>2, <2>7, <2>11
      <4> QED BY <1>2, <4>1
    <3>5. ~Inner(sql[x])
      BY <3>1 DEF Inner
    <3> QED BY <2>3, <3>1, <3>3, <3>4, <3>5
  <2>12. CASE sql[x][1] # "(" /\ sql[x][1] # ")" /\ ~Comment(sql, x)
    <3>1. sql[x][1] # "--" /\ sql[x][1] # "/*"
      BY <2>1, <2>12 DEF Comment, Is
    <3>2. Skip(sql, x) = x \/ Skip(sql, x) = x + 1
      BY <2>5, <2>6, <3>1
    <3>3. match[x][1] = match[x + 1][1]
      BY <2>1, <2>2, <2>4, <2>12, <3>2 DEF MatchesFrom
    <3> QED BY <2>3, <2>12, <3>3
  <2> QED BY <2>9, <2>10, <2>11, <2>12
<1>4. Skips(sql, inside) /\ Encloses(sql, inside)
  BY <1>3 DEF Skips, Encloses
<1> QED BY <1>4

(* Where a list of options ends.                                           *)
BodyEnd(sql, mode, place, i, c) ==
    /\ c \in i .. Len(sql) /\ Seen(mode[c], sql[c]) /\ sql[c][1] = ")"
    /\ place[c] = "open" \/ place[c] = "comma"
    /\ mode[c + 1] = "code" /\ place[c + 1] = "end"
    /\ \A x \in i .. c - 1 : Seen(mode[x], sql[x]) => Inner(sql[x])

(* It does, and that is what matchParen returns.                           *)
LEMMA ClosesBody ==
    ASSUME NEW sql, NEW mode, NEW place, Path(sql, mode, place), place[Len(sql) + 1] = "start",
           NEW o \in 1 .. Len(sql), sql[o][1] = "(", mode[o + 1] = "code", place[o + 1] = "open"
    PROVE  \E c \in 1 .. Len(sql) :
              BodyEnd(sql, mode, place, o + 1, c) /\ MatchParen(sql, o) = c
<1> DEFINE n == Len(sql)
<1>1. /\ n \in Nat /\ sql \in Seq(Atoms) /\ mode \in [1 .. n + 1 -> Modes] /\ place \in [1 .. n + 1 -> Places]
      /\ \A x \in 1 .. n : Reads(mode[x], place[x], sql[x], mode[x + 1], place[x + 1])
  BY DEF Path
<1>2. PICK inside : Skips(sql, inside) /\ Encloses(sql, inside)
  BY <1>1, MatchEncloses
<1> DEFINE Closed(x) == \E c \in 1 .. n : BodyEnd(sql, mode, place, x, c) /\ inside[x] = c
           S == {x \in 1 .. n + 1 : mode[x] = "code" /\ InBody(place[x]) => Closed(x)}
<1>3. ASSUME NEW x \in 1 .. n + 1, \A y \in 1 .. n + 1 : x < y => y \in S
      PROVE  x \in S
  <2> SUFFICES ASSUME mode[x] = "code", InBody(place[x]) PROVE Closed(x)
    OBVIOUS
  <2>1. PICK j \in x .. n + 1 : NextSeen(sql, mode, place, x, j)
    BY SeesNext
  <2>2. place[j] = place[x] /\ Unseen(sql, mode, x, j) /\ (j = n + 1 \/ Seen(mode[j], sql[j]))
    BY <2>1 DEF NextSeen
  <2>3. j \in 1 .. n /\ Seen(mode[j], sql[j]) /\ mode[j] = "code"
    <3>1. j # n + 1
      BY <2>2 DEF InBody
    <3>2. j \in 1 .. n
      BY <1>1, <3>1
    <3> QED BY <2>2, <3>1, <3>2 DEF Seen
  <2>4. inside[x] = inside[j]
    BY <1>2, <2>2, <2>3, PassesUnseen
  <2>5. /\ Follows(place[j], sql[j][1], place[j + 1])
        /\ mode[j + 1] = "code"
    <3>1. Reads(mode[j], place[j], sql[j], mode[j + 1], place[j + 1]) /\ mode[j] \in Modes
      BY <1>1, <2>3
    <3>2. Follows(place[j], sql[j][1], place[j + 1]) /\ mode[j + 1] = NextMode(mode[j], sql[j])
      BY <2>3, <3>1 DEF Reads
    <3> QED BY <2>3, <3>1, <3>2, ModesGoOn
  <2>6. CASE sql[j][1] = ")"
    <3>1. (place[j] = "open" \/ place[j] = "comma") /\ place[j + 1] = "end"
      BY <2>2, <2>5, <2>6 DEF Follows, InBody
    <3>2. BodyEnd(sql, mode, place, x, j)
      <4>1. j \in x .. n
        BY <2>1, <2>3
      <4> QED BY <2>2, <2>3, <2>5, <2>6, <3>1, <4>1 DEF BodyEnd, Unseen
    <3>3. inside[j] = j
      BY <1>2, <2>3, <2>6 DEF Encloses
    <3> QED BY <2>3, <2>4, <3>2, <3>3
  <2>7. CASE sql[j][1] # ")"
    <3>1. Inner(sql[j]) /\ InBody(place[j + 1])
      BY <2>2, <2>5, <2>7 DEF Follows, InBody, Inner
    <3>2. j + 1 \in 1 .. n + 1 /\ x < j + 1
      BY <1>1, <2>1, <2>3
    <3>3. PICK c \in 1 .. n : BodyEnd(sql, mode, place, j + 1, c) /\ inside[j + 1] = c
      <4>1. j + 1 \in S
        <5> HIDE DEF S
        <5> QED BY <1>3, <3>2
      <4> QED BY <2>5, <3>1, <4>1
    <3>4. inside[j] = inside[j + 1]
      BY <1>2, <2>3, <3>1 DEF Encloses
    <3>5. c \in j + 1 .. n /\ c \in x .. n
      <4>1. c \in j + 1 .. n
        BY <3>3 DEF BodyEnd
      <4> QED BY <2>1, <2>3, <4>1
    <3>6. \A y \in x .. c - 1 : Seen(mode[y], sql[y]) => Inner(sql[y])
      <4>1. \A y \in x .. c - 1 : y \in x .. j - 1 \/ y = j \/ y \in j + 1 .. c - 1
        BY <1>1, <2>3
      <4>2. \A y \in j + 1 .. c - 1 : Seen(mode[y], sql[y]) => Inner(sql[y])
        BY <3>3 DEF BodyEnd
      <4>3. \A y \in x .. j - 1 : ~Seen(mode[y], sql[y])
        BY <2>2 DEF Unseen
      <4> QED BY <3>1, <4>1, <4>2, <4>3
    <3>7. BodyEnd(sql, mode, place, x, c)
      BY <3>3, <3>5, <3>6 DEF BodyEnd
    <3> QED BY <2>4, <3>3, <3>4, <3>7
  <2> QED BY <2>6, <2>7
<1>4. 1 .. n + 1 \subseteq S
  <2>1. n + 1 \in Nat
    BY <1>1
  <2> HIDE DEF S, n
  <2> QED BY <1>3, <2>1, Downward
<1>5. o + 1 \in S
  <2>1. o + 1 \in 1 .. n + 1
    BY <1>1
  <2> HIDE DEF S
  <2> QED BY <1>4, <2>1
<1>6. PICK c \in 1 .. n : BodyEnd(sql, mode, place, o + 1, c) /\ inside[o + 1] = c
  BY <1>5 DEF InBody
<1>7. MatchParen(sql, o) = c
  BY <1>2, <1>6 DEF Encloses
<1> QED BY <1>6, <1>7

-----------------------------------------------------------------------------
(* Pairs, when something is put in front of a block.                       *)

(* u is t behind an atom.                                                  *)
OneBefore(a, t, u) ==
    /\ u \in Seq(Atoms) /\ Len(u) = Len(t) + 1 /\ u[1] = a
    /\ \A j \in 1 .. Len(t) : u[j + 1] = t[j]

(* An atom that is put in front.                                           *)
LEMMA PutBefore ==
    ASSUME NEW t \in Seq(Atoms), NEW a \in Atoms
    PROVE  OneBefore(a, t, <<a>> \o t)
BY DEF OneBefore

(* Blanks end one atom later.                                              *)
LEMMA BlanksMove ==
    ASSUME NEW t \in Seq(Atoms), NEW a, NEW u, OneBefore(a, t, u), NEW j \in 1 .. Len(t) + 1
    PROVE  AfterBlanks(u, j + 1) = AfterBlanks(t, j) + 1
<1> DEFINE T == {k \in j .. Len(t) : ~Is(t, k, "nl")}
           U == {k \in j + 1 .. Len(u) : ~Is(u, k, "nl")}
<1>1. Len(t) \in Nat /\ j \in Nat /\ Len(u) = Len(t) + 1
  BY DEF OneBefore
<1>2. AfterBlanks(t, j) = MinOr(T, Len(t) + 1) /\ AfterBlanks(u, j + 1) = MinOr(U, Len(t) + 2)
  <2>1. Len(u) + 1 = Len(t) + 2
    BY <1>1
  <2>2. AfterBlanks(t, j) = MinOr(T, Len(t) + 1) /\ AfterBlanks(u, j + 1) = MinOr(U, Len(u) + 1)
    BY DEF AfterBlanks
  <2> HIDE DEF T, U
  <2> QED BY <2>1, <2>2
<1>3. T \subseteq Nat /\ U \subseteq Nat
  BY <1>1
<1>4. \A k \in T : k + 1 \in U
  <2> TAKE k \in T
  <2>1. k \in j .. Len(t) /\ k \in 1 .. Len(t) /\ k + 1 \in j + 1 .. Len(u) /\ ~Is(t, k, "nl")
    BY <1>1
  <2>2. u[k + 1] = t[k]
    BY <2>1 DEF OneBefore
  <2>3. ~Is(u, k + 1, "nl")
    BY <1>1, <2>1, <2>2 DEF Is
  <2> QED BY <2>1, <2>3
<1>5. \A k \in U : k - 1 \in T
  <2> TAKE k \in U
  <2>1. k \in j + 1 .. Len(u) /\ k - 1 \in 1 .. Len(t) /\ k - 1 \in j .. Len(t) /\ (k - 1) + 1 = k /\ ~Is(u, k, "nl")
    BY <1>1
  <2>2. u[k] = t[k - 1]
    BY <2>1 DEF OneBefore
  <2>3. ~Is(t, k - 1, "nl")
    BY <1>1, <2>1, <2>2 DEF Is
  <2> QED BY <2>1, <2>3
<1> DEFINE x == MinOr(T, Len(t) + 1)
           y == MinOr(U, Len(t) + 2)
<1>6. /\ x = Len(t) + 1 \/ x \in T
      /\ \A k \in T : x \in T /\ x <= k
      /\ y = Len(t) + 2 \/ y \in U
      /\ \A k \in U : y \in U /\ y <= k
  <2> HIDE DEF T, U
  <2> QED BY <1>3, Least
<1> HIDE DEF x, y
<1>7. y = x + 1
  <2> HIDE DEF T, U
  <2>1. CASE x \in T
    <3>1. y \in U /\ y <= x + 1 /\ y - 1 \in T
      BY <1>4, <1>5, <1>6, <2>1
    <3>2. x <= y - 1 /\ x \in Nat /\ y \in Nat
      BY <1>3, <1>6, <2>1, <3>1
    <3> QED BY <3>1, <3>2
  <2>2. CASE x \notin T
    <3>1. y \notin U
      BY <1>5, <1>6, <2>2
    <3> QED BY <1>1, <1>6, <2>2, <3>1
  <2> QED BY <2>1, <2>2
<1> QED BY <1>2, <1>7 DEF x, y

IsPairs(body, pairs) ==
    /\ pairs \in [1 .. Len(body) + 1 -> Seq(OptionPairs)]
    /\ pairs[Len(body) + 1] = <<>>
    /\ \A i \in 1 .. Len(body) :
          /\ IsPair(body, i) =>
                pairs[i] = <<<<body[i][2], body[ValueAt(body, i)][2]>>>>
                           \o pairs[ValueAt(body, i) + 1]
          /\ ~IsPair(body, i) => pairs[i] = pairs[i + 1]

(* A pair is one atom later, too.                                          *)
LEMMA PairMoves ==
    ASSUME NEW t \in Seq(Atoms), NEW a, NEW u, OneBefore(a, t, u), NEW i \in 1 .. Len(t)
    PROVE  /\ IsPair(u, i + 1) <=> IsPair(t, i)
           /\ IsPair(t, i) => /\ ValueAt(t, i) \in i + 1 .. Len(t)
                              /\ ValueAt(u, i + 1) = ValueAt(t, i) + 1
                              /\ u[i + 1] = t[i] /\ u[ValueAt(u, i + 1)] = t[ValueAt(t, i)]
<1>1. Len(t) \in Nat /\ Len(u) = Len(t) + 1 /\ \A j \in 1 .. Len(t) : u[j + 1] = t[j]
  BY DEF OneBefore
<1>2. \A j \in 1 .. Len(t) + 1 : AfterBlanks(u, j + 1) = AfterBlanks(t, j) + 1 /\ AfterBlanks(t, j) \in j .. Len(t) + 1
  BY BlanksMove, BlanksEnd
<1>3. \A j \in 1 .. Len(t) + 1 : \A kind : Is(u, j + 1, kind) <=> Is(t, j, kind)
  <2> TAKE j \in 1 .. Len(t) + 1
  <2>1. CASE j = Len(t) + 1
    BY <1>1, <2>1 DEF Is
  <2>2. CASE j # Len(t) + 1
    <3>1. j \in 1 .. Len(t) /\ j + 1 <= Len(u) /\ j <= Len(t)
      BY <1>1, <2>2
    <3> QED BY <1>1, <3>1 DEF Is
  <2> QED BY <2>1, <2>2
<1>4. PICK q : q = Equals(t, i)
  OBVIOUS
<1>5. q \in i + 1 .. Len(t) + 1 /\ Equals(u, i + 1) = q + 1 /\ q \in 1 .. Len(t) + 1
  <2>1. i + 1 \in 1 .. Len(t) + 1
    BY <1>1
  <2>2. q \in i + 1 .. Len(t) + 1 /\ Equals(u, i + 1) = q + 1
    BY <1>2, <1>4, <2>1 DEF Equals
  <2> QED BY <1>1, <2>2
<1>6. CASE q = Len(t) + 1
  <2>1. ~Is(t, q, "=") /\ ~Is(u, q + 1, "=")
    BY <1>1, <1>6 DEF Is
  <2> QED BY <1>4, <1>5, <2>1 DEF IsPair
<1>7. CASE q # Len(t) + 1
  <2>1. q + 1 \in 1 .. Len(t) + 1
    BY <1>1, <1>5, <1>7
  <2>2. PICK x : x = ValueAt(t, i)
    OBVIOUS
  <2>3. x \in q + 1 .. Len(t) + 1 /\ ValueAt(u, i + 1) = x + 1
    BY <1>2, <1>4, <1>5, <2>1, <2>2 DEF ValueAt
  <2>4. x \in 1 .. Len(t) + 1 /\ x \in i + 1 .. Len(t) + 1 /\ i \in 1 .. Len(t) + 1
    BY <1>1, <1>5, <2>3
  <2>5. IsPair(u, i + 1) <=> IsPair(t, i)
    BY <1>3, <1>4, <1>5, <2>2, <2>3, <2>4 DEF IsPair
  <2>6. ASSUME IsPair(t, i) PROVE x \in i + 1 .. Len(t) /\ u[x + 1] = t[x] /\ u[i + 1] = t[i]
    <3>1. x <= Len(t)
      BY <2>2, <2>6 DEF IsPair, Is
    <3>2. x \in i + 1 .. Len(t) /\ x \in 1 .. Len(t)
      BY <1>1, <2>4, <3>1
    <3> QED BY <1>1, <3>2
  <2> QED BY <2>2, <2>3, <2>5, <2>6
<1> QED BY <1>6, <1>7

(* The pairs that are read of what is behind.                              *)
LEMMA PairsBehind ==
    ASSUME NEW t \in Seq(Atoms), NEW a, NEW u, OneBefore(a, t, u), NEW pairs, IsPairs(u, pairs)
    PROVE  \E rest : IsPairs(t, rest) /\ \A j \in 1 .. Len(t) + 1 : rest[j] = pairs[j + 1]
<1> DEFINE rest == [j \in 1 .. Len(t) + 1 |-> pairs[j + 1]]
<1>1. Len(t) \in Nat /\ Len(u) = Len(t) + 1
  BY DEF OneBefore
<1>2. \A j \in 1 .. Len(t) + 1 : rest[j] = pairs[j + 1]
  OBVIOUS
<1>3. rest \in [1 .. Len(t) + 1 -> Seq(OptionPairs)]
  <2>1. pairs \in [1 .. Len(u) + 1 -> Seq(OptionPairs)]
    BY DEF IsPairs
  <2>2. \A j \in 1 .. Len(t) + 1 : j + 1 \in 1 .. Len(u) + 1
    BY <1>1
  <2>3. \A j \in 1 .. Len(t) + 1 : pairs[j + 1] \in Seq(OptionPairs)
    BY <2>1, <2>2
  <2> QED BY <2>3
<1> HIDE DEF rest
<1>4. rest[Len(t) + 1] = <<>>
  <2>1. Len(t) + 1 \in 1 .. Len(t) + 1 /\ Len(t) + 1 + 1 = Len(u) + 1
    BY <1>1
  <2> QED BY <1>2, <2>1 DEF IsPairs
<1>5. ASSUME NEW i \in 1 .. Len(t)
      PROVE  /\ IsPair(t, i) =>
                  rest[i] = <<<<t[i][2], t[ValueAt(t, i)][2]>>>> \o rest[ValueAt(t, i) + 1]
             /\ ~IsPair(t, i) => rest[i] = rest[i + 1]
  <2>1. i + 1 \in 1 .. Len(u) /\ i \in 1 .. Len(t) + 1 /\ i + 1 \in 1 .. Len(t) + 1
    BY <1>1
  <2>2. rest[i] = pairs[i + 1] /\ rest[i + 1] = pairs[i + 1 + 1]
    BY <1>2, <2>1
  <2>3. CASE ~IsPair(t, i)
    <3>1. ~IsPair(u, i + 1)
      BY <2>3, PairMoves
    <3> QED BY <2>1, <2>2, <2>3, <3>1 DEF IsPairs
  <2>4. CASE IsPair(t, i)
    <3>1. PICK x : x = ValueAt(t, i)
      OBVIOUS
    <3>2. /\ IsPair(u, i + 1) /\ x \in i + 1 .. Len(t) /\ ValueAt(u, i + 1) = x + 1
          /\ u[i + 1] = t[i] /\ u[x + 1] = t[x]
      BY <2>4, <3>1, PairMoves
    <3>3. pairs[i + 1] = <<<<u[i + 1][2], u[x + 1][2]>>>> \o pairs[(x + 1) + 1]
      BY <2>1, <3>2 DEF IsPairs
    <3>4. x + 1 \in 1 .. Len(t) + 1
      BY <1>1, <3>2
    <3>5. rest[x + 1] = pairs[(x + 1) + 1]
      BY <1>2, <3>4
    <3> QED BY <2>2, <2>4, <3>1, <3>2, <3>3, <3>5
  <2> QED BY <2>3, <2>4
<1>6. IsPairs(t, rest)
  BY <1>3, <1>4, <1>5 DEF IsPairs
<1> QED BY <1>2, <1>6

-----------------------------------------------------------------------------
(* The pairs that optionRe finds are the options that are read.            *)

(* Atoms that list options, the first s of them without the first key.     *)
Lists(s, v, options) ==
    /\ v \in Seq(Atoms) /\ options \in Seq(OptionPairs)
    /\ Len(v) = (s + 4 * Len(options)) - 1
    /\ \A k \in 1 .. Len(options) :
          options[k] = <<v[(s + 4 * k) - 3][2], v[(s + 4 * k) - 1][2]>>

ListsAll(v, options) == Lists(0, v, options) \/ (v = <<>> /\ options = <<>>)

(* An atom more that is no key.                                            *)
LEMMA ListsMore ==
    ASSUME NEW s \in 0 .. 2, NEW v, NEW options, Lists(s, v, options), NEW a \in Atoms
    PROVE  Lists(s + 1, <<a>> \o v, options)
<1>1. v \in Seq(Atoms) /\ options \in Seq(OptionPairs) /\ Len(v) = (s + 4 * Len(options)) - 1
  BY DEF Lists
<1>2. OneBefore(a, v, <<a>> \o v)
  BY <1>1, PutBefore
<1>3. ASSUME NEW k \in 1 .. Len(options)
      PROVE  options[k] = <<(<<a>> \o v)[((s + 1) + 4 * k) - 3][2], (<<a>> \o v)[((s + 1) + 4 * k) - 1][2]>>
  <2>1. PICK y \in Int, z \in Int : y = (s + 4 * k) - 3 /\ z = (s + 4 * k) - 1
    OBVIOUS
  <2>2. y \in 1 .. Len(v) /\ z \in 1 .. Len(v) /\ ((s + 1) + 4 * k) - 3 = y + 1 /\ ((s + 1) + 4 * k) - 1 = z + 1
    BY <1>1, <2>1
  <2>3. (<<a>> \o v)[y + 1] = v[y] /\ (<<a>> \o v)[z + 1] = v[z]
    BY <1>2, <2>2 DEF OneBefore
  <2>4. options[k] = <<v[y][2], v[z][2]>>
    BY <2>1 DEF Lists
  <2> QED BY <2>2, <2>3, <2>4
<1>4. Len(<<a>> \o v) = ((s + 1) + 4 * Len(options)) - 1
  BY <1>1, <1>2 DEF OneBefore
<1> QED BY <1>1, <1>2, <1>3, <1>4 DEF Lists, OneBefore

(* A key, and thereby a pair more.                                         *)
LEMMA ListsPair ==
    ASSUME NEW v, NEW options, Lists(3, v, options), NEW a \in Atoms
    PROVE  /\ <<a[2], v[2][2]>> \in OptionPairs
           /\ Lists(0, <<a>> \o v, << <<a[2], v[2][2]>> >> \o options)
<1>1. v \in Seq(Atoms) /\ options \in Seq(OptionPairs) /\ Len(v) = 4 * Len(options) + 2 /\ Len(options) \in Nat
  BY DEF Lists
<1>2. OneBefore(a, v, <<a>> \o v)
  BY <1>1, PutBefore
<1>3. PICK pair : pair = <<a[2], v[2][2]>>
  OBVIOUS
<1>4. pair \in OptionPairs
  <2>1. v[2] \in Atoms
    BY <1>1
  <2> QED BY <1>3, <2>1 DEF Atoms, OptionPairs
<1> DEFINE P == OptionPairs
           all == <<pair>> \o options
<1>5. all \in Seq(P) /\ Len(all) = Len(options) + 1 /\ all[1] = pair /\ \A k \in 1 .. Len(options) : all[k + 1] = options[k]
  <2>1. options \in Seq(P) /\ pair \in P
    BY <1>1, <1>4
  <2> HIDE DEF P
  <2> QED BY <2>1
<1> HIDE DEF all
<1>6. ASSUME NEW k \in 1 .. Len(all)
      PROVE  all[k] = <<(<<a>> \o v)[(0 + 4 * k) - 3][2], (<<a>> \o v)[(0 + 4 * k) - 1][2]>>
  <2>1. CASE k = 1
    <3>1. (<<a>> \o v)[1] = a
      BY <1>2 DEF OneBefore
    <3>2. (<<a>> \o v)[3] = v[2]
      <4>1. PICK y \in Nat : y = 2
        OBVIOUS
      <4>2. y \in 1 .. Len(v) /\ y + 1 = 3
        BY <1>1, <4>1
      <4>3. (<<a>> \o v)[y + 1] = v[y]
        BY <1>2, <4>2 DEF OneBefore
      <4> QED BY <4>1, <4>2, <4>3
    <3>3. (0 + 4 * k) - 3 = 1 /\ (0 + 4 * k) - 1 = 3
      BY <2>1
    <3> QED BY <1>3, <1>5, <2>1, <3>1, <3>2, <3>3
  <2>2. CASE k # 1
    <3>1. PICK l \in Int : l = k - 1
      OBVIOUS
    <3>2. l \in 1 .. Len(options) /\ k = l + 1
      BY <1>1, <1>5, <2>2, <3>1
    <3>3. PICK y \in Int, z \in Int : y = (3 + 4 * l) - 3 /\ z = (3 + 4 * l) - 1
      OBVIOUS
    <3>4. y \in 1 .. Len(v) /\ z \in 1 .. Len(v) /\ (0 + 4 * k) - 3 = y + 1 /\ (0 + 4 * k) - 1 = z + 1
      BY <1>1, <3>2, <3>3
    <3>5. (<<a>> \o v)[y + 1] = v[y] /\ (<<a>> \o v)[z + 1] = v[z]
      BY <1>2, <3>4 DEF OneBefore
    <3>6. options[l] = <<v[y][2], v[z][2]>>
      BY <3>2, <3>3 DEF Lists
    <3>7. all[k] = options[l]
      BY <1>5, <3>2
    <3> QED BY <3>4, <3>5, <3>6, <3>7
  <2> QED BY <2>1, <2>2
<1>7. Len(<<a>> \o v) = (0 + 4 * Len(all)) - 1
  <2>1. Len(<<a>> \o v) = Len(v) + 1
    BY <1>2 DEF OneBefore
  <2>2. PICK m \in Nat : m = Len(options)
    BY <1>1
  <2>3. Len(<<a>> \o v) = (4 * m + 2) + 1 /\ Len(all) = m + 1
    BY <1>1, <1>5, <2>1, <2>2
  <2>4. (4 * m + 2) + 1 = (0 + 4 * (m + 1)) - 1
    OBVIOUS
  <2> QED BY <2>3, <2>4
<1>8. Lists(0, <<a>> \o v, all)
  BY <1>2, <1>5, <1>6, <1>7 DEF Lists, OneBefore
<1> QED BY <1>3, <1>4, <1>8 DEF all

(* What the pairs are to the atoms that are read, at each place.           *)
ValueAhead(t, v, pairs, x) ==
    x \in 1 .. Len(t) /\ t[x][1] = "lit" /\ v[1] = t[x] /\ Lists(2, v, pairs[x + 1])

EqualsAhead(t, v, pairs, q, x) ==
    /\ q \in 1 .. Len(t) /\ t[q][1] = "=" /\ x \in 1 .. Len(t) /\ t[x][1] = "lit"
    /\ v[2] = t[x] /\ Lists(3, v, pairs[x + 1])

ReadsPairs(at, t, v, pairs) ==
    /\ at = "open" => ListsAll(v, pairs[1])
    /\ at = "key" => Lists(0, v, pairs[1])
    /\ at = "comma" => Lists(1, v, pairs[1])
    /\ at = "value" => ValueAhead(t, v, pairs, AfterBlanks(t, 1))
    /\ at = "equals" =>
          EqualsAhead(t, v, pairs, AfterBlanks(t, 1), AfterBlanks(t, AfterBlanks(t, 1) + 1))

(* An atom that is no key is no pair.                                      *)
LEMMA NoPair ==
    ASSUME NEW t \in Seq(Atoms), NEW a, NEW u, OneBefore(a, t, u), a[1] # "lit", NEW pairs, IsPairs(u, pairs)
    PROVE  pairs[1] = pairs[2]
<1>1. Len(u) \in Nat /\ Len(u) = Len(t) + 1 /\ u[1] = a /\ Len(t) \in Nat
  BY DEF OneBefore
<1>2. ~IsPair(u, 1)
  BY <1>1 DEF IsPair, Is
<1>3. PICK i \in 1 .. Len(u) : i = 1 /\ i + 1 = 2
  BY <1>1
<1>4. pairs[i] = pairs[i + 1]
  BY <1>2, <1>3 DEF IsPairs
<1> QED BY <1>3, <1>4

(* Blanks in front are passed over.                                        *)
LEMMA BlankBefore ==
    ASSUME NEW t \in Seq(Atoms), NEW a, NEW u, OneBefore(a, t, u), a[1] = "nl"
    PROVE  AfterBlanks(u, 1) = AfterBlanks(u, 2)
<1>1. Len(u) \in Nat /\ Len(u) = Len(t) + 1 /\ u[1] = a /\ Len(t) \in Nat
  BY DEF OneBefore
<1>2. {k \in 1 .. Len(u) : ~Is(u, k, "nl")} = {k \in 2 .. Len(u) : ~Is(u, k, "nl")}
  <2>1. Is(u, 1, "nl")
    BY <1>1 DEF Is
  <2>2. \A k \in 1 .. Len(u) : k = 1 \/ k \in 2 .. Len(u)
    BY <1>1
  <2>3. \A k \in 2 .. Len(u) : k \in 1 .. Len(u)
    BY <1>1
  <2> QED BY <2>1, <2>2, <2>3
<1> QED BY <1>2 DEF AfterBlanks

Behind(t, u, rest, pairs) ==
    IsPairs(u, pairs) /\ IsPairs(t, rest) /\ \A j \in 1 .. Len(t) + 1 : rest[j] = pairs[j + 1]

(* What is ahead is one atom later.                                        *)
LEMMA AheadMoves ==
    ASSUME NEW t \in Seq(Atoms), NEW a, NEW u, OneBefore(a, t, u), NEW pairs, NEW rest, Behind(t, u, rest, pairs),
           NEW v, NEW x
    PROVE  /\ ValueAhead(t, v, rest, x) => ValueAhead(u, v, pairs, x + 1)
           /\ \A q : EqualsAhead(t, v, rest, q, x) => EqualsAhead(u, v, pairs, q + 1, x + 1)
<1>1. Len(t) \in Nat /\ Len(u) = Len(t) + 1 /\ \A j \in 1 .. Len(t) : u[j + 1] = t[j]
  BY DEF OneBefore
<1>2. ASSUME NEW y \in 1 .. Len(t)
      PROVE  y + 1 \in 1 .. Len(u) /\ u[y + 1] = t[y] /\ rest[y + 1] = pairs[(y + 1) + 1]
  <2>1. y + 1 \in 1 .. Len(t) + 1 /\ y + 1 \in 1 .. Len(u)
    BY <1>1
  <2> QED BY <1>1, <2>1 DEF Behind
<1>3. ASSUME ValueAhead(t, v, rest, x) PROVE ValueAhead(u, v, pairs, x + 1)
  <2>1. x \in 1 .. Len(t) /\ t[x][1] = "lit" /\ v[1] = t[x] /\ Lists(2, v, rest[x + 1])
    BY <1>3 DEF ValueAhead
  <2>2. x + 1 \in 1 .. Len(u) /\ u[x + 1] = t[x] /\ rest[x + 1] = pairs[(x + 1) + 1]
    BY <1>2, <2>1
  <2> QED BY <2>1, <2>2 DEF ValueAhead
<1>4. ASSUME NEW q, EqualsAhead(t, v, rest, q, x) PROVE EqualsAhead(u, v, pairs, q + 1, x + 1)
  <2>1. /\ q \in 1 .. Len(t) /\ t[q][1] = "=" /\ x \in 1 .. Len(t) /\ t[x][1] = "lit"
        /\ v[2] = t[x] /\ Lists(3, v, rest[x + 1])
    BY <1>4 DEF EqualsAhead
  <2>2. x + 1 \in 1 .. Len(u) /\ u[x + 1] = t[x] /\ rest[x + 1] = pairs[(x + 1) + 1]
    BY <1>2, <2>1
  <2>3. q + 1 \in 1 .. Len(u) /\ u[q + 1] = t[q]
    BY <1>2, <2>1
  <2> QED BY <2>1, <2>2, <2>3 DEF EqualsAhead
<1> QED BY <1>3, <1>4

(* A line's end in front.                                                  *)
LEMMA PairsPastBlank ==
    ASSUME NEW t \in Seq(Atoms), NEW a, NEW u, OneBefore(a, t, u), NEW pairs, NEW rest, Behind(t, u, rest, pairs),
           a[1] = "nl", NEW v, NEW at, ReadsPairs(at, t, v, rest)
    PROVE  ReadsPairs(at, u, v, pairs)
<1>1. pairs[1] = rest[1]
  <2>1. pairs[1] = pairs[2]
    BY NoPair DEF Behind
  <2>2. PICK j \in 1 .. Len(t) + 1 : j = 1 /\ j + 1 = 2
    OBVIOUS
  <2>3. rest[j] = pairs[j + 1]
    BY <2>2 DEF Behind
  <2> QED BY <2>1, <2>2, <2>3
<1>2. PICK q : q = AfterBlanks(t, 1)
  OBVIOUS
<1>3. AfterBlanks(u, 1) = q + 1
  <2>1. PICK j \in 1 .. Len(t) + 1 : j = 1 /\ j + 1 = 2
    OBVIOUS
  <2>2. AfterBlanks(u, j + 1) = AfterBlanks(t, j) + 1
    BY BlanksMove
  <2>3. AfterBlanks(u, 1) = AfterBlanks(u, 2)
    BY BlankBefore
  <2> QED BY <1>2, <2>1, <2>2, <2>3
<1>4. CASE at = "value"
  <2>1. ValueAhead(t, v, rest, q)
    BY <1>2, <1>4 DEF ReadsPairs
  <2>2. ValueAhead(u, v, pairs, q + 1)
    BY <2>1, AheadMoves
  <2> QED BY <1>3, <1>4, <2>2 DEF ReadsPairs
<1>5. CASE at = "equals"
  <2>1. PICK x : x = AfterBlanks(t, q + 1)
    OBVIOUS
  <2>2. EqualsAhead(t, v, rest, q, x)
    BY <1>2, <1>5, <2>1 DEF ReadsPairs
  <2>3. q + 1 \in 1 .. Len(t) + 1
    BY <2>2 DEF EqualsAhead
  <2>4. AfterBlanks(u, (q + 1) + 1) = x + 1
    BY <2>1, <2>3, BlanksMove
  <2>5. EqualsAhead(u, v, pairs, q + 1, x + 1)
    BY <2>2, AheadMoves
  <2> QED BY <1>3, <1>5, <2>4, <2>5 DEF ReadsPairs
<1> QED BY <1>1, <1>4, <1>5 DEF ReadsPairs

(* An atom in front that is read.                                          *)
LEMMA PairsPastAtom ==
    ASSUME NEW t \in Seq(Atoms), NEW a \in Atoms, NEW u, OneBefore(a, t, u),
           NEW pairs, NEW rest, Behind(t, u, rest, pairs),
           NEW v, NEW at, NEW next, InBody(at), Inner(a), Follows(at, a[1], next), ReadsPairs(next, t, v, rest)
    PROVE  ReadsPairs(at, u, <<a>> \o v, pairs)
<1>1. /\ Len(t) \in Nat /\ Len(u) = Len(t) + 1 /\ u[1] = a /\ u \in Seq(Atoms)
      /\ \A j \in 1 .. Len(t) : u[j + 1] = t[j]
  BY DEF OneBefore
<1>2. rest[1] = pairs[2]
  <2>1. PICK j \in 1 .. Len(t) + 1 : j = 1 /\ j + 1 = 2
    BY <1>1
  <2>2. rest[j] = pairs[j + 1]
    BY <2>1 DEF Behind
  <2> QED BY <2>1, <2>2
<1>3. AfterBlanks(u, 2) = AfterBlanks(t, 1) + 1
  <2>1. PICK j \in 1 .. Len(t) + 1 : j = 1 /\ j + 1 = 2
    BY <1>1
  <2>2. AfterBlanks(u, j + 1) = AfterBlanks(t, j) + 1
    BY BlanksMove
  <2> QED BY <2>1, <2>2
<1>4. a[1] # "nl" /\ AfterBlanks(u, 1) = 1
  <2>1. a[1] # "nl" /\ 1 \in 1 .. Len(u)
    <3>1. a[1] # "nl"
      BY Zenon DEF Inner
    <3>2. 1 \in 1 .. Len(u)
      BY <1>1
    <3> QED BY <3>1, <3>2
  <2> QED BY <1>1, <2>1, NoBlank
<1>5. CASE at = "comma"
  <2>1. next = "key" /\ a[1] = ","
    BY <1>5 DEF Follows, InBody, Inner
  <2>2. Lists(0, v, rest[1])
    BY <2>1 DEF ReadsPairs
  <2>3. Lists(1, <<a>> \o v, rest[1])
    <3>1. PICK s \in 0 .. 2 : s = 0 /\ s + 1 = 1
      OBVIOUS
    <3>2. Lists(s + 1, <<a>> \o v, rest[1])
      BY <2>2, <3>1, ListsMore
    <3> QED BY <3>1, <3>2
  <2>4. pairs[1] = pairs[2]
    BY <2>1, NoPair DEF Behind
  <2> QED BY <1>2, <1>5, <2>3, <2>4 DEF ReadsPairs
<1>6. CASE at = "value"
  <2>1. next = "comma" /\ a[1] = "lit"
    BY <1>6 DEF Follows, InBody, Inner
  <2>2. Lists(1, v, rest[1]) /\ v \in Seq(Atoms)
    BY <2>1 DEF ReadsPairs, Lists
  <2>3. Lists(2, <<a>> \o v, rest[1]) /\ (<<a>> \o v)[1] = a
    <3>1. PICK s \in 0 .. 2 : s = 1 /\ s + 1 = 2
      OBVIOUS
    <3>2. Lists(s + 1, <<a>> \o v, rest[1])
      BY <2>2, <3>1, ListsMore
    <3>3. (<<a>> \o v)[1] = a
      BY <2>2, PutBefore DEF OneBefore
    <3> QED BY <3>1, <3>2, <3>3
  <2>4. PICK x \in 1 .. Len(u) : x = 1 /\ x + 1 = 2
    BY <1>1
  <2>5. ValueAhead(u, <<a>> \o v, pairs, x)
    BY <1>1, <1>2, <2>1, <2>3, <2>4 DEF ValueAhead
  <2> QED BY <1>4, <1>6, <2>4, <2>5 DEF ReadsPairs
<1>7. CASE at = "equals"
  <2>1. next = "value" /\ a[1] = "="
    BY <1>7 DEF Follows, InBody, Inner
  <2>2. PICK x : x = AfterBlanks(t, 1)
    OBVIOUS
  <2>3. ValueAhead(t, v, rest, x)
    BY <2>1, <2>2 DEF ReadsPairs
  <2>4. x \in 1 .. Len(t) /\ t[x][1] = "lit" /\ v[1] = t[x] /\ Lists(2, v, rest[x + 1]) /\ v \in Seq(Atoms) /\ Len(v) >= 1
    <3>1. x \in 1 .. Len(t) /\ t[x][1] = "lit" /\ v[1] = t[x] /\ Lists(2, v, rest[x + 1])
      BY <2>3 DEF ValueAhead
    <3>2. v \in Seq(Atoms) /\ Len(v) >= 1
      BY <3>1 DEF Lists
    <3> QED BY <3>1, <3>2
  <2>5. Lists(3, <<a>> \o v, rest[x + 1]) /\ (<<a>> \o v)[2] = t[x]
    <3>1. PICK s \in 0 .. 2 : s = 2 /\ s + 1 = 3
      OBVIOUS
    <3>2. Lists(s + 1, <<a>> \o v, rest[x + 1])
      BY <2>4, <3>1, ListsMore
    <3>3. PICK j \in 1 .. Len(v) : j = 1 /\ j + 1 = 2
      BY <2>4
    <3>4. (<<a>> \o v)[j + 1] = v[j]
      BY <2>4, PutBefore DEF OneBefore
    <3> QED BY <2>4, <3>1, <3>2, <3>3, <3>4
  <2>6. rest[x + 1] = pairs[(x + 1) + 1] /\ u[x + 1] = t[x] /\ x + 1 \in 1 .. Len(u)
    <3>1. x + 1 \in 1 .. Len(t) + 1
      BY <1>1, <2>4
    <3> QED BY <1>1, <2>4, <3>1 DEF Behind
  <2>7. PICK q \in 1 .. Len(u) : q = 1 /\ q + 1 = 2
    BY <1>1
  <2>8. EqualsAhead(u, <<a>> \o v, pairs, q, x + 1)
    BY <1>1, <2>1, <2>4, <2>5, <2>6, <2>7 DEF EqualsAhead
  <2> QED BY <1>3, <1>4, <1>7, <2>2, <2>7, <2>8 DEF ReadsPairs
<1>8. CASE at = "open" \/ at = "key"
  <2>1. next = "equals" /\ a[1] = "lit"
    BY <1>8 DEF Follows, InBody, Inner
  <2>2. PICK q, x : q = AfterBlanks(t, 1) /\ x = AfterBlanks(t, q + 1)
    OBVIOUS
  <2>3. EqualsAhead(t, v, rest, q, x)
    BY <2>1, <2>2 DEF ReadsPairs
  <2>4. /\ q \in 1 .. Len(t) /\ t[q][1] = "=" /\ x \in 1 .. Len(t) /\ t[x][1] = "lit"
        /\ v[2] = t[x] /\ Lists(3, v, rest[x + 1])
    BY <2>3 DEF EqualsAhead
  <2>5. /\ rest[x + 1] = pairs[(x + 1) + 1] /\ u[x + 1] = t[x] /\ x + 1 \in 1 .. Len(u)
        /\ u[q + 1] = t[q] /\ q + 1 \in 1 .. Len(u) /\ q + 1 \in 1 .. Len(t) + 1
    <3>1. x + 1 \in 1 .. Len(t) + 1 /\ q + 1 \in 1 .. Len(t) + 1
      BY <1>1, <2>4
    <3> QED BY <1>1, <2>4, <3>1 DEF Behind
  <2>6. AfterBlanks(u, (q + 1) + 1) = x + 1
    BY <2>2, <2>5, BlanksMove
  <2>7. PICK i \in 1 .. Len(u) : i = 1 /\ i + 1 = 2
    BY <1>1
  <2>8. Equals(u, i) = q + 1 /\ ValueAt(u, i) = x + 1
    BY <1>3, <2>2, <2>6, <2>7 DEF Equals, ValueAt
  <2>9. IsPair(u, i)
    BY <1>1, <2>1, <2>4, <2>5, <2>7, <2>8, SMTT(30) DEF IsPair, Is
  <2>10. pairs[i] = <<<<u[i][2], u[x + 1][2]>>>> \o pairs[(x + 1) + 1]
    BY <2>8, <2>9 DEF Behind, IsPairs
  <2>11. pairs[1] = << <<a[2], v[2][2]>> >> \o rest[x + 1]
    BY <1>1, <2>4, <2>5, <2>7, <2>10
  <2>12. Lists(0, <<a>> \o v, pairs[1])
    BY <2>4, <2>11, ListsPair
  <2> QED BY <1>8, <2>12 DEF ReadsPairs, ListsAll
<1> QED BY <1>5, <1>6, <1>7, <1>8 DEF InBody

(* Options are read as the code reads them, with its comments stripped.    *)
LEMMA BodyReads ==
    ASSUME NEW sql, NEW mode, NEW place, Path(sql, mode, place),
           mode[1] = "code", place[1] = "open",
           mode[Len(sql) + 1] = "code", place[Len(sql) + 1] \in {"open", "comma"},
           \A x \in 1 .. Len(sql) : Seen(mode[x], sql[x]) => Inner(sql[x]),
           NEW g, Gathered(sql, mode, Len(sql) + 1, g)
    PROVE  ListsAll(g[1], Read(sql))
<1> DEFINE n == Len(sql)
<1>1. /\ n \in Nat /\ sql \in Seq(Atoms) /\ mode \in [1 .. n + 1 -> Modes] /\ place \in [1 .. n + 1 -> Places]
      /\ \A x \in 1 .. n : Reads(mode[x], place[x], sql[x], mode[x + 1], place[x + 1])
  BY DEF Path
<1>2. /\ g \in [1 .. n + 1 -> Seq(Atoms)] /\ g[n + 1] = <<>>
      /\ \A x \in 1 .. n : g[x] = IF Seen(mode[x], sql[x]) THEN <<sql[x]>> \o g[x + 1] ELSE g[x + 1]
  <2>1. (n + 1) - 1 = n
    BY <1>1
  <2> QED BY <2>1 DEF Gathered
<1>3. PICK strip \in [1 .. n + 1 -> Seq(Atoms)] :
         /\ StripComments(sql) = strip[1]
         /\ strip[n + 1] = <<>>
         /\ \A i \in 1 .. n :
               /\ Comment(sql, i) => strip[i] = strip[Skip(sql, i)]
               /\ ~Comment(sql, i) => strip[i] = <<sql[i]>> \o strip[i + 1]
  BY <1>1, Strips
<1> DEFINE Good(x) == \A pairs : IsPairs(strip[x], pairs) => ReadsPairs(place[x], strip[x], g[x], pairs)
           Begun(x) == mode[x] = "code" \/ (x \in 1 .. n /\ mode[x] = "--" /\ sql[x][1] = "nl")
           S == {x \in 1 .. n + 1 : Begun(x) /\ InBody(place[x]) => Good(x)}
<1> HIDE DEF n
<1>4. Good(n + 1)
  <2> SUFFICES ASSUME NEW pairs, IsPairs(strip[n + 1], pairs)
               PROVE  ReadsPairs(place[n + 1], strip[n + 1], g[n + 1], pairs)
    OBVIOUS
  <2>1. PICK t \in Seq(Atoms) : t = <<>> /\ strip[n + 1] = t
    <3>1. <<>> \in Seq(Atoms)
      OBVIOUS
    <3>2. strip[n + 1] = <<>>
      BY <1>3
    <3> QED BY <3>1, <3>2
  <2>2. pairs[1] = <<>>
    <3>1. Len(t) + 1 = 1
      BY <2>1
    <3> QED BY <2>1, <3>1 DEF IsPairs
  <2>3. ListsAll(<<>>, <<>>) /\ Lists(1, <<>>, <<>>)
    BY DEF ListsAll, Lists
  <2>4. place[n + 1] = "open" \/ place[n + 1] = "comma"
    BY DEF n
  <2> QED BY <1>2, <2>2, <2>3, <2>4 DEF ReadsPairs
<1>5. ASSUME NEW x \in 1 .. n, Good(x + 1), g[x] = g[x + 1], place[x] = place[x + 1], sql[x][1] = "nl"
      PROVE  Good(x)
  <2> SUFFICES ASSUME NEW pairs, IsPairs(strip[x], pairs)
               PROVE  ReadsPairs(place[x], strip[x], g[x], pairs)
    OBVIOUS
  <2>1. PICK t \in Seq(Atoms) : t = strip[x + 1]
    BY <1>1, <1>3, SMTT(30) DEF n
  <2>2. sql[x] \in Atoms /\ ~Comment(sql, x)
    BY <1>1, <1>5 DEF Comment, Is, n
  <2>3. OneBefore(sql[x], t, strip[x])
    BY <1>3, <2>1, <2>2, PutBefore
  <2>4. PICK rest : IsPairs(t, rest) /\ \A j \in 1 .. Len(t) + 1 : rest[j] = pairs[j + 1]
    BY <2>3, PairsBehind
  <2>5. Behind(t, strip[x], rest, pairs)
    BY <2>4 DEF Behind
  <2>6. ReadsPairs(place[x], t, g[x], rest)
    BY <1>5, <2>1, <2>4
  <2> QED BY <1>5, <2>3, <2>5, <2>6, PairsPastBlank
<1>6. ASSUME NEW x \in 1 .. n, Good(x + 1), g[x] = <<sql[x]>> \o g[x + 1], ~Comment(sql, x),
             InBody(place[x]), Inner(sql[x]), Follows(place[x], sql[x][1], place[x + 1])
      PROVE  Good(x)
  <2> SUFFICES ASSUME NEW pairs, IsPairs(strip[x], pairs)
               PROVE  ReadsPairs(place[x], strip[x], g[x], pairs)
    OBVIOUS
  <2>1. PICK t \in Seq(Atoms) : t = strip[x + 1]
    BY <1>1, <1>3, SMTT(30) DEF n
  <2>2. sql[x] \in Atoms
    BY <1>1 DEF n
  <2>3. OneBefore(sql[x], t, strip[x])
    BY <1>3, <1>6, <2>1, <2>2, PutBefore
  <2>4. PICK rest : IsPairs(t, rest) /\ \A j \in 1 .. Len(t) + 1 : rest[j] = pairs[j + 1]
    BY <2>3, PairsBehind
  <2>5. Behind(t, strip[x], rest, pairs)
    BY <2>4 DEF Behind
  <2>6. ReadsPairs(place[x + 1], t, g[x + 1], rest)
    BY <1>6, <2>1, <2>4
  <2> QED BY <1>6, <2>2, <2>3, <2>5, <2>6, PairsPastAtom
<1>7. \A x \in 1 .. n : Comment(sql, x) => (Good(Skip(sql, x)) /\ g[x] = g[Skip(sql, x)] /\ place[x] = place[Skip(sql, x)] => Good(x))
  BY <1>3
<1> HIDE DEF Good
<1>8. ASSUME NEW x \in 1 .. n + 1, \A y \in 1 .. n + 1 : x < y => y \in S
      PROVE  x \in S
  <2> SUFFICES ASSUME Begun(x), InBody(place[x]) PROVE Good(x)
    OBVIOUS
  <2>1. CASE x = n + 1
    BY <1>4, <2>1
  <2>2. CASE x # n + 1
    <3>1. x \in 1 .. n /\ x + 1 \in 1 .. n + 1 /\ x < x + 1
      BY <1>1, <2>2 DEF n
    <3>2. Reads(mode[x], place[x], sql[x], mode[x + 1], place[x + 1]) /\ mode[x] \in Modes
      BY <1>1, <3>1 DEF n
    <3>3. \A y \in 1 .. n + 1 : x < y /\ Begun(y) /\ InBody(place[y]) => Good(y)
      BY <1>8
    <3>4. CASE sql[x][1] = "nl"
      <4>1. ~Seen(mode[x], sql[x]) /\ NextMode(mode[x], sql[x]) = "code"
        BY <3>4 DEF Seen, NextMode
      <4>2. place[x + 1] = place[x] /\ mode[x + 1] = "code"
        BY <3>2, <4>1 DEF Reads
      <4>3. g[x] = g[x + 1]
        BY <1>2, <3>1, <4>1
      <4>4. Good(x + 1)
        BY <3>1, <3>3, <4>2
      <4> QED BY <1>5, <3>1, <3>4, <4>2, <4>3, <4>4
    <3>5. CASE sql[x][1] # "nl" /\ Seen(mode[x], sql[x])
      <4>1. ~Comment(sql, x)
        <5>1. sql[x][1] \notin {"nl", "--", "/*"}
          BY <3>5 DEF Seen
        <5> QED BY <5>1 DEF Comment, Is
      <4>2. g[x] = <<sql[x]>> \o g[x + 1]
        BY <1>2, <3>1, <3>5
      <4>3. Inner(sql[x])
        BY <3>1, <3>5 DEF n
      <4>4. Follows(place[x], sql[x][1], place[x + 1]) /\ mode[x + 1] = "code"
        <5>1. mode[x + 1] = NextMode(mode[x], sql[x]) /\ NextMode(mode[x], sql[x]) = "code"
          BY <3>2, <3>5, ModesGoOn DEF Reads
        <5> QED BY <3>2, <3>5, <5>1 DEF Reads
      <4>5. Good(x + 1)
        <5>1. InBody(place[x + 1])
          BY <4>3, <4>4 DEF Follows, InBody, Inner
        <5> QED BY <3>1, <3>3, <4>4, <5>1
      <4> QED BY <1>6, <3>1, <4>1, <4>2, <4>3, <4>4, <4>5
    <3>6. CASE sql[x][1] # "nl" /\ ~Seen(mode[x], sql[x])
      <4>1. mode[x] = "code" /\ sql[x][1] \in {"--", "/*"}
        BY <3>6 DEF Seen
      <4>2. Comment(sql, x)
        BY <1>1, <3>1, <4>1 DEF Comment, Is, n
      <4>3. PICK e : e = Skip(sql, x)
        OBVIOUS
      <4>4. Ends(sql, mode, place, x, e)
        BY <3>1, <4>1, <4>2, <4>3, SkipsComment DEF n
      <4>5. /\ e \in x + 1 .. n + 1 /\ place[e] = place[x] /\ Unseen(sql, mode, x, e)
            /\ e = n + 1 \/ mode[e] = "code" \/ (e <= n /\ sql[e][1] = "nl" /\ mode[e] = "--")
        BY <4>4 DEF Ends, n
      <4>6. e \in 1 .. n + 1 /\ x < e /\ Begun(e)
        <5>1. e \in 1 .. n + 1 /\ x < e
          BY <3>1, <4>5
        <5>2. e = n + 1 => mode[e] = "code"
          BY DEF n
        <5>3. e <= n => e \in 1 .. n
          BY <5>1
        <5> QED BY <4>5, <5>1, <5>2, <5>3
      <4>7. Good(e)
        BY <3>3, <4>5, <4>6
      <4>8. g[x] = g[e]
        <5> DEFINE T == {y \in 1 .. e : y >= x => g[y] = g[e]}
        <5>1. ASSUME NEW y \in 1 .. e, \A z \in 1 .. e : y < z => z \in T
              PROVE  y \in T
          <6> SUFFICES ASSUME y >= x, y # e PROVE g[y] = g[e]
            OBVIOUS
          <6>1. y \in 1 .. n /\ y \in x .. e - 1 /\ y + 1 \in 1 .. e /\ y < y + 1 /\ y + 1 >= x
            <7>1. n \in Nat /\ e \in 1 .. n + 1 /\ x \in Nat
              BY <1>1, <4>6
            <7> QED BY <7>1
          <6>2. g[y + 1] = g[e]
            BY <5>1, <6>1
          <6>3. ~Seen(mode[y], sql[y])
            BY <4>5, <6>1 DEF Unseen
          <6> QED BY <1>2, <6>1, <6>2, <6>3
        <5>2. 1 .. e \subseteq T
          <6>1. e \in Nat
            BY <4>6
          <6> HIDE DEF T
          <6> QED BY <5>1, <6>1, Downward
        <5>3. x \in 1 .. e /\ x >= x
          BY <3>1, <4>6
        <5> QED BY <5>2, <5>3
      <4> QED BY <1>7, <3>1, <4>2, <4>3, <4>5, <4>7, <4>8
    <3> QED BY <3>4, <3>5, <3>6
  <2> QED BY <2>1, <2>2
<1>9. 1 .. n + 1 \subseteq S
  <2>1. n + 1 \in Nat
    BY <1>1 DEF n
  <2> HIDE DEF S
  <2> QED BY <1>8, <2>1, Downward
<1>10. Good(1)
  <2>1. 1 \in 1 .. n + 1
    BY <1>1 DEF n
  <2>2. 1 \in S
    BY <1>9, <2>1
  <2> QED BY <2>1, <2>2 DEF InBody
<1>11. PICK pairs \in [1 .. Len(strip[1]) + 1 -> Seq(OptionPairs)] :
          /\ Options(strip[1]) = pairs[1] /\ IsPairs(strip[1], pairs)
  <2>1. PICK t \in Seq(Atoms) : t = strip[1]
    <3>1. 1 \in 1 .. n + 1
      BY <1>1 DEF n
    <3> QED BY <1>3, <3>1 DEF n
  <2>2. \E pairs \in [1 .. Len(t) + 1 -> Seq(OptionPairs)] : Options(t) = pairs[1] /\ IsPairs(t, pairs)
    BY Pairs DEF IsPairs
  <2> QED BY <2>1, <2>2
<1>12. ReadsPairs("open", strip[1], g[1], pairs)
  BY <1>10, <1>11 DEF Good
<1>13. Read(sql) = pairs[1]
  BY <1>3, <1>11 DEF Read
<1> QED BY <1>12, <1>13 DEF ReadsPairs

(* The options between the parentheses of a WITH block.                    *)
LEMMA BlockReads ==
    ASSUME NEW sql, NEW mode, NEW place, Path(sql, mode, place),
           NEW o \in 1 .. Len(sql), mode[o + 1] = "code", place[o + 1] = "open",
           NEW c \in 1 .. Len(sql), BodyEnd(sql, mode, place, o + 1, c), NEW g, Gathered(sql, mode, c, g)
    PROVE  ListsAll(g[o + 1], Read(SubSeq(sql, o + 1, c - 1)))
<1> DEFINE n == Len(sql)
           m == (c - 1) - o
           b == SubSeq(sql, o + 1, c - 1)
           bmode == [i \in 1 .. m + 1 |-> mode[o + i]]
           bplace == [i \in 1 .. m + 1 |-> place[o + i]]
           bg == [i \in 1 .. m + 1 |-> g[o + i]]
<1>1. /\ n \in Nat /\ sql \in Seq(Atoms) /\ mode \in [1 .. n + 1 -> Modes] /\ place \in [1 .. n + 1 -> Places]
      /\ \A x \in 1 .. n : Reads(mode[x], place[x], sql[x], mode[x + 1], place[x + 1])
  BY DEF Path
<1>2. /\ c \in o + 1 .. n /\ Seen(mode[c], sql[c]) /\ (place[c] = "open" \/ place[c] = "comma")
      /\ \A x \in o + 1 .. c - 1 : Seen(mode[x], sql[x]) => Inner(sql[x])
  BY DEF BodyEnd
<1>3. m \in Nat /\ m + 1 \in 1 .. m + 1 /\ o + (m + 1) = c /\ o \in Nat
  BY <1>1, <1>2
<1>4. b \in Seq(Atoms) /\ Len(b) = m /\ \A i \in 1 .. m : b[i] = sql[o + i]
  <2>1. o + 1 \in 1 .. n + 1 /\ c - 1 \in Nat /\ c - 1 <= n /\ c - 1 >= (o + 1) - 1
    BY <1>1, <1>2
  <2>2. PICK y : y = o + 1
    OBVIOUS
  <2>3. PICK z : z = c - 1
    OBVIOUS
  <2>4. /\ SubSeq(sql, y, z) \in Seq(Atoms)
        /\ Len(SubSeq(sql, y, z)) = z - y + 1
        /\ \A i \in 1 .. z - y + 1 : SubSeq(sql, y, z)[i] = sql[y + i - 1]
    BY <1>1, <2>1, <2>2, <2>3, SubSeqIs
  <2>5. z - y + 1 = m
    BY <1>1, <1>2, <2>2, <2>3
  <2>6. \A i \in 1 .. m : y + i - 1 = o + i
    BY <2>2
  <2> QED BY <2>2, <2>3, <2>4, <2>5, <2>6
<1> HIDE DEF b
<1>5. \A i \in 1 .. m + 1 : o + i \in 1 .. n + 1 /\ bmode[i] = mode[o + i] /\ bplace[i] = place[o + i] /\ bg[i] = g[o + i]
  BY <1>1, <1>2, <1>3
<1>6. bmode \in [1 .. m + 1 -> Modes] /\ bplace \in [1 .. m + 1 -> Places]
  <2>1. \A i \in 1 .. m + 1 : mode[o + i] \in Modes /\ place[o + i] \in Places
    BY <1>1, <1>5
  <2> QED BY <2>1
<1>7. /\ g \in [1 .. c -> Seq(Atoms)] /\ g[c] = <<>>
      /\ \A x \in 1 .. c - 1 : g[x] = IF Seen(mode[x], sql[x]) THEN <<sql[x]>> \o g[x + 1] ELSE g[x + 1]
  BY DEF Gathered
<1>8. bg \in [1 .. m + 1 -> Seq(Atoms)]
  <2>1. \A i \in 1 .. m + 1 : o + i \in 1 .. c
    BY <1>1, <1>2, <1>3
  <2>2. \A i \in 1 .. m + 1 : g[o + i] \in Seq(Atoms)
    BY <1>7, <2>1
  <2> QED BY <2>2
<1> HIDE DEF bmode, bplace, bg
<1>9. ASSUME NEW i \in 1 .. m
      PROVE  /\ Reads(bmode[i], bplace[i], b[i], bmode[i + 1], bplace[i + 1])
             /\ Seen(bmode[i], b[i]) => Inner(b[i])
             /\ bg[i] = IF Seen(bmode[i], b[i]) THEN <<b[i]>> \o bg[i + 1] ELSE bg[i + 1]
  <2>1. PICK x : x = o + i
    OBVIOUS
  <2>2. x \in 1 .. n /\ x \in o + 1 .. c - 1 /\ x \in 1 .. c - 1 /\ o + (i + 1) = x + 1 /\ i \in 1 .. m + 1 /\ i + 1 \in 1 .. m + 1
    BY <1>1, <1>2, <1>3, <2>1
  <2>3. /\ bmode[i] = mode[x] /\ bplace[i] = place[x] /\ bg[i] = g[x] /\ b[i] = sql[x]
        /\ bmode[i + 1] = mode[x + 1] /\ bplace[i + 1] = place[x + 1] /\ bg[i + 1] = g[x + 1]
    BY <1>4, <1>5, <2>1, <2>2
  <2> QED BY <1>1, <1>2, <1>7, <2>2, <2>3
<1>10. bmode[m + 1] = "code" /\ bplace[m + 1] \in {"open", "comma"} /\ bg[m + 1] = <<>>
  <2>1. mode[c] = "code"
    BY <1>2 DEF Seen
  <2> QED BY <1>2, <1>3, <1>5, <1>7, <2>1
<1>11. bmode[1] = "code" /\ bplace[1] = "open" /\ bg[1] = g[o + 1]
  <2>1. 1 \in 1 .. m + 1
    BY <1>3
  <2> QED BY <1>5, <2>1
<1> HIDE DEF m
<1>12. Path(b, bmode, bplace)
  <2>1. bmode[m + 1] # "/*"
    BY <1>10
  <2>2. \A i \in 1 .. m : Reads(bmode[i], bplace[i], b[i], bmode[i + 1], bplace[i + 1])
    BY <1>9
  <2> QED BY <1>4, <1>6, <2>1, <2>2 DEF Path
<1>13. Gathered(b, bmode, m + 1, bg)
  <2>1. (m + 1) - 1 = m
    BY <1>3
  <2>2. \A i \in 1 .. m : bg[i] = IF Seen(bmode[i], b[i]) THEN <<b[i]>> \o bg[i + 1] ELSE bg[i + 1]
    BY <1>9
  <2> QED BY <1>8, <1>10, <2>1, <2>2 DEF Gathered
<1>14. \A i \in 1 .. m : Seen(bmode[i], b[i]) => Inner(b[i])
  BY <1>9
<1>15. ListsAll(bg[1], Read(b))
  BY <1>4, <1>10, <1>11, <1>12, <1>13, <1>14, BodyReads
<1> QED BY <1>11, <1>15 DEF b

-----------------------------------------------------------------------------
(* What a statement means.                                                 *)

NoWith(h) == \A i \in 1 .. Len(h) : ~(h[i][1] = "with")

(* A statement of a head, WITH, a parenthesis, a list of options and       *)
(* another parenthesis.                                                    *)
IsTableText(st, h, v) ==
    /\ st \in Seq(Atoms) /\ h \in Seq(Atoms) /\ NoWith(h) /\ v \in Seq(Atoms)
    /\ Len(st) = (Len(h) + Len(v)) + 3
    /\ \A i \in 1 .. Len(h) : st[i] = h[i]
    /\ st[Len(h) + 1][1] = "with"
    /\ \A i \in 1 .. Len(v) : st[(Len(h) + 2) + i] = v[i]

(* Its meaning is the head and the list of options.                        *)
LEMMA TableMeans ==
    ASSUME NEW st, NEW h, NEW v, IsTableText(st, h, v), NEW options, ListsAll(v, options)
    PROVE  Meaning(st) = [head |-> h, options |-> options]
<1> DEFINE withs == {i \in DOMAIN st : Is(st, i, "with")}
           w == MinOr(withs, Len(st) + 1)
           last == Len(st) - 1
           opts == [k \in 1 .. (last - w) \div 4 |-> <<st[w + 4 * k - 2][2], st[w + 4 * k][2]>>]
<1>1. /\ st \in Seq(Atoms) /\ h \in Seq(Atoms) /\ v \in Seq(Atoms)
      /\ Len(st) = (Len(h) + Len(v)) + 3 /\ Len(h) \in Nat /\ Len(v) \in Nat
      /\ \A i \in 1 .. Len(h) : st[i] = h[i]
      /\ st[Len(h) + 1][1] = "with"
      /\ \A i \in 1 .. Len(v) : st[(Len(h) + 2) + i] = v[i]
  BY DEF IsTableText
<1>2. Meaning(st) = [head |-> SubSeq(st, 1, w - 1), options |-> opts]
  BY DEF Meaning
<1>3. withs \subseteq Nat /\ Len(h) + 1 \in withs
  <2>1. DOMAIN st = 1 .. Len(st)
    BY <1>1
  <2>2. Len(h) + 1 \in 1 .. Len(st)
    BY <1>1
  <2> QED BY <1>1, <2>1, <2>2 DEF Is
<1>4. ASSUME NEW i \in withs PROVE i > Len(h)
  <2>1. i \in DOMAIN st /\ st[i][1] = "with" /\ DOMAIN st = 1 .. Len(st)
    BY <1>1 DEF Is
  <2>2. i \in 1 .. Len(h) => ~(h[i][1] = "with")
    BY DEF IsTableText, NoWith
  <2>3. i \notin 1 .. Len(h)
    BY <1>1, <2>1, <2>2
  <2> QED BY <1>1, <2>1, <2>3
<1>5. w = Len(h) + 1
  <2>1. w \in withs /\ w <= Len(h) + 1
    <3> HIDE DEF withs
    <3> QED BY <1>3, Least
  <2>2. w \in Nat /\ w > Len(h)
    <3> HIDE DEF withs, w
    <3> QED BY <1>3, <1>4, <2>1
  <2> HIDE DEF w
  <2> QED BY <1>1, <2>1, <2>2
<1> HIDE DEF w
<1>6. SubSeq(st, 1, w - 1) = h
  <2>1. w - 1 = Len(h) /\ 1 \in 1 .. Len(st) + 1 /\ Len(h) <= Len(st) /\ Len(h) >= 1 - 1
    BY <1>1, <1>5
  <2>2. PICK s : s = SubSeq(st, 1, Len(h))
    OBVIOUS
  <2>3. s \in Seq(Atoms) /\ Len(s) = Len(h) - 1 + 1 /\ \A i \in 1 .. Len(h) - 1 + 1 : s[i] = st[1 + i - 1]
    BY <1>1, <2>1, <2>2, SubSeqIs
  <2>4. Len(h) - 1 + 1 = Len(h) /\ \A i \in 1 .. Len(h) : 1 + i - 1 = i
    BY <1>1
  <2>5. \A i \in 1 .. Len(s) : s[i] = h[i]
    BY <1>1, <2>3, <2>4
  <2>6. s = h
    BY <1>1, <2>3, <2>4, <2>5, SameSeq
  <2> QED BY <2>1, <2>2, <2>6
<1>7. options \in Seq(OptionPairs) /\ Len(options) \in Nat /\ options = [k \in 1 .. Len(options) |-> options[k]]
  <2>1. CASE Lists(0, v, options)
    BY <2>1 DEF Lists
  <2>2. CASE v = <<>> /\ options = <<>>
    BY <2>2
  <2> QED BY <2>1, <2>2 DEF ListsAll
<1>8. (last - w) \div 4 = Len(options)
  <2>1. PICK x \in Int : x = last - w /\ x = Len(v) + 1
    BY <1>1, <1>5
  <2>2. CASE Lists(0, v, options)
    <3>1. PICK m \in Nat : m = Len(options)
      BY <1>7
    <3>2. x = 4 * m
      BY <1>1, <2>1, <2>2, <3>1 DEF Lists
    <3>3. x \div 4 = m
      BY <3>2
    <3> QED BY <2>1, <3>1, <3>3
  <2>3. CASE v = <<>> /\ options = <<>>
    <3>1. x = 1 /\ Len(options) = 0
      BY <2>1, <2>3
    <3>2. x \div 4 = 0
      BY <3>1
    <3> QED BY <2>1, <3>1, <3>2
  <2> QED BY <2>2, <2>3 DEF ListsAll
<1>9. ASSUME NEW k \in 1 .. Len(options)
      PROVE  options[k] = <<st[w + 4 * k - 2][2], st[w + 4 * k][2]>>
  <2>1. Lists(0, v, options)
    <3>1. ~(options = <<>>)
      BY <1>7
    <3> QED BY <3>1 DEF ListsAll
  <2>2. PICK y \in Int, z \in Int : y = (0 + 4 * k) - 3 /\ z = (0 + 4 * k) - 1
    OBVIOUS
  <2>3. options[k] = <<v[y][2], v[z][2]>> /\ Len(v) = (0 + 4 * Len(options)) - 1
    BY <2>1, <2>2 DEF Lists
  <2>4. y \in 1 .. Len(v) /\ z \in 1 .. Len(v) /\ w + 4 * k - 2 = (Len(h) + 2) + y /\ w + 4 * k = (Len(h) + 2) + z
    <3>1. PICK a \in Nat, b \in Nat, m \in Nat : a = Len(h) /\ b = Len(v) /\ m = Len(options)
      BY <1>1, <1>7
    <3>2. b = (0 + 4 * m) - 1 /\ w = a + 1
      BY <1>5, <2>3, <3>1
    <3>3. k \in 1 .. m
      BY <3>1
    <3>4. y \in 1 .. b /\ z \in 1 .. b /\ w + 4 * k - 2 = (a + 2) + y /\ w + 4 * k = (a + 2) + z
      BY <2>2, <3>2, <3>3
    <3> QED BY <3>1, <3>4
  <2>5. st[(Len(h) + 2) + y] = v[y] /\ st[(Len(h) + 2) + z] = v[z]
    BY <1>1, <2>4
  <2> QED BY <2>3, <2>4, <2>5
<1>10. opts = options
  <2>1. opts = [k \in 1 .. Len(options) |-> <<st[w + 4 * k - 2][2], st[w + 4 * k][2]>>]
    BY <1>8
  <2>2. [k \in 1 .. Len(options) |-> <<st[w + 4 * k - 2][2], st[w + 4 * k][2]>>] = [k \in 1 .. Len(options) |-> options[k]]
    BY <1>9
  <2> HIDE DEF opts
  <2> QED BY <1>7, <2>1, <2>2
<1> QED BY <1>2, <1>6, <1>10

(* A statement without WITH has no options.                                *)
LEMMA HeadMeans ==
    ASSUME NEW st \in Seq(Atoms), NoWith(st)
    PROVE  Meaning(st) = [head |-> st, options |-> <<>>]
<1> DEFINE withs == {i \in DOMAIN st : Is(st, i, "with")}
           w == MinOr(withs, Len(st) + 1)
           last == Len(st) - 1
           opts == [k \in 1 .. (last - w) \div 4 |-> <<st[w + 4 * k - 2][2], st[w + 4 * k][2]>>]
<1>1. Meaning(st) = [head |-> SubSeq(st, 1, w - 1), options |-> opts]
  BY DEF Meaning
<1>2. Len(st) \in Nat /\ DOMAIN st = 1 .. Len(st)
  OBVIOUS
<1>3. withs = {}
  <2>1. ASSUME NEW i \in withs PROVE FALSE
    <3>1. i \in DOMAIN st /\ st[i][1] = "with"
      BY DEF Is
    <3> QED BY <1>2, <3>1 DEF NoWith
  <2> QED BY <2>1
<1>4. w = Len(st) + 1
  BY <1>3 DEF MinOr
<1> HIDE DEF w
<1>5. SubSeq(st, 1, w - 1) = st
  <2>1. w - 1 = Len(st) /\ 1 \in 1 .. Len(st) + 1 /\ Len(st) <= Len(st) /\ Len(st) >= 1 - 1
    BY <1>2, <1>4
  <2>2. PICK s : s = SubSeq(st, 1, Len(st))
    OBVIOUS
  <2>3. s \in Seq(Atoms) /\ Len(s) = Len(st) - 1 + 1 /\ \A i \in 1 .. Len(st) - 1 + 1 : s[i] = st[1 + i - 1]
    BY <2>1, <2>2, SubSeqIs
  <2>4. Len(st) - 1 + 1 = Len(st) /\ \A i \in 1 .. Len(st) : 1 + i - 1 = i
    BY <1>2
  <2>5. \A i \in 1 .. Len(s) : s[i] = st[i]
    BY <2>3, <2>4
  <2>6. s = st
    BY <2>3, <2>4, <2>5, SameSeq
  <2> QED BY <2>1, <2>2, <2>6
<1>6. opts = <<>>
  <2>1. PICK a \in Nat : a = Len(st)
    BY <1>2
  <2>2. PICK x \in Int : x = last - w /\ x = 0 - 2
    <3>1. last = a - 1 /\ w = a + 1
      BY <1>4, <2>1
    <3> QED BY <3>1
  <2>3. x \div 4 = 0 - 1
    BY <2>2
  <2>4. 1 .. (last - w) \div 4 = {}
    BY <2>2, <2>3
  <2>5. opts = [k \in {} |-> <<st[w + 4 * k - 2][2], st[w + 4 * k][2]>>]
    BY <2>4
  <2> QED BY <2>5
<1> QED BY <1>1, <1>5, <1>6

-----------------------------------------------------------------------------
(* What is read of a CREATE TABLE.                                         *)

(* The first of statements is a text.                                      *)
LEMMA FirstIsText ==
    ASSUME NEW a, NotEmpty(a)
    PROVE  a[1] \in Seq(Atoms) /\ Len(a) \in Nat /\ Len(a) >= 1
<1> DEFINE A == Seq(Atoms)
<1>1. a \in Seq(A) /\ Len(a) >= 1
  BY DEF NotEmpty, StatementLists
<1> HIDE DEF A
<1>2. a[1] \in A /\ Len(a) \in Nat
  BY <1>1
<1> QED BY <1>1, <1>2 DEF A

(* An atom that is read and no semicolon goes before what is read behind.  *)
LEMMA AttachesOne ==
    ASSUME NEW sql \in Seq(Atoms), NEW mode, NEW r, Along(sql, mode, r), NEW x \in 1 .. Len(sql),
           Seen(mode[x], sql[x]), ~(sql[x][1] = ";")
    PROVE  Attaches(<<sql[x]>>, r[x + 1], r[x])
<1>1. ReadStep(sql, mode[x], x, r[x + 1], r[x])
  BY DEF Along
<1>2. Begins(sql[x], r[x + 1], r[x])
  BY <1>1 DEF ReadStep
<1> QED BY <1>2 DEF Begins, Attaches

(* A semicolon begins a statement.                                         *)
Semicolon(atom) == atom[1] = ";"

(* It is read as an empty statement, in front of those that follow it.     *)
LEMMA EndsOne ==
    ASSUME NEW sql \in Seq(Atoms), NEW mode, NEW r, Along(sql, mode, r), NEW x \in 1 .. Len(sql),
           Seen(mode[x], sql[x]), Semicolon(sql[x])
    PROVE  /\ r[x][1] = <<>> /\ Len(r[x]) = Len(r[x + 1]) + 1
           /\ \A j \in 1 .. Len(r[x + 1]) : r[x][j + 1] = r[x + 1][j]
<1> DEFINE A == Seq(Atoms)
<1>1. ReadStep(sql, mode[x], x, r[x + 1], r[x])
  BY DEF Along
<1>2. r[x] = << <<>> >> \o r[x + 1]
  BY <1>1, Zenon DEF ReadStep, Semicolon
<1>3. PICK t : t = r[x + 1]
  OBVIOUS
<1>4. t \in Seq(A) /\ <<>> \in A
  <2>1. x + 1 \in 1 .. Len(sql) + 1
    OBVIOUS
  <2>2. t \in StatementLists
    BY <1>3, <2>1 DEF Along
  <2> QED BY <2>2 DEF StatementLists
<1> HIDE DEF A
<1>5. /\ (<< <<>> >> \o t)[1] = <<>> /\ Len(<< <<>> >> \o t) = Len(t) + 1
      /\ \A j \in 1 .. Len(t) : (<< <<>> >> \o t)[j + 1] = t[j]
  BY <1>4
<1> QED BY <1>2, <1>3, <1>5

(* What is gathered up to a table's WITH is its head.                      *)
LEMMA HeadGathered ==
    ASSUME NEW sql, NEW mode, NEW place, Path(sql, mode, place),
           NEW p \in 1 .. Len(sql), Seen(mode[p], sql[p]), sql[p][1] = "create",
           NEW w \in 1 .. Len(sql), ColumnsEnd(sql, mode, place, p + 1, w),
           NEW g, Gathered(sql, mode, w, g)
    PROVE  /\ g[p] \in Seq(Atoms) /\ Len(g[p]) >= 1 /\ g[p][1] = sql[p]
           /\ NoWith(g[p]) /\ NoneEnds(sql, mode, p, w)
<1>1. sql \in Seq(Atoms) /\ Len(sql) \in Nat
  BY DEF Path
<1>2. w \in p + 1 .. Len(sql) /\ \A x \in p + 1 .. w - 1 : Seen(mode[x], sql[x]) => ~StopsColumns(sql[x])
  BY DEF ColumnsEnd
<1>3. \A x \in p .. w - 1 : x = p \/ x \in p + 1 .. w - 1
  BY <1>1
<1>4. ~StopsColumns(sql[p])
  BY DEF StopsColumns
<1>5. \A x \in p .. w - 1 : Seen(mode[x], sql[x]) => ~StopsColumns(sql[x])
  BY <1>2, <1>3, <1>4
<1>6. \A x \in p .. w - 1 : ~StopsColumns(sql[x]) => ~(sql[x][1] = ";") /\ ~(sql[x][1] = "with")
  BY DEF StopsColumns
<1>7. NoneEnds(sql, mode, p, w)
  BY <1>5, <1>6 DEF NoneEnds
<1>8. p \in 1 .. w /\ p \in 1 .. w - 1 /\ p + 1 \in 1 .. w /\ w \in 1 .. Len(sql) + 1
  BY <1>1, <1>2
<1>9. g[p] \in Seq(Atoms) /\ g[p + 1] \in Seq(Atoms) /\ g[p] = <<sql[p]>> \o g[p + 1]
  BY <1>8 DEF Gathered
<1>10. Len(g[p]) >= 1 /\ g[p][1] = sql[p]
  <2>1. PICK t \in Seq(Atoms) : t = g[p + 1]
    BY <1>9
  <2>2. OneBefore(sql[p], t, <<sql[p]>> \o t)
    BY <1>1, <2>1, PutBefore
  <2>3. Len(t) \in Nat
    BY <2>1
  <2> QED BY <1>9, <2>1, <2>2, <2>3 DEF OneBefore
<1>11. ASSUME NEW k \in 1 .. Len(g[p]) PROVE ~(g[p][k][1] = "with")
  <2>1. PICK x \in p .. w - 1 : Seen(mode[x], sql[x]) /\ g[p][k] = sql[x]
    BY <1>1, <1>8, GathersSeen
  <2> QED BY <1>5, <1>6, <2>1
<1> QED BY <1>7, <1>9, <1>10, <1>11 DEF NoWith

(* A table without WITH.                                                   *)
LEMMA BareTableRead ==
    ASSUME NEW sql, NEW mode, NEW place, Path(sql, mode, place), NEW r, Along(sql, mode, r),
           NEW p \in 1 .. Len(sql), Seen(mode[p], sql[p]), sql[p][1] = "create",
           NEW w \in 1 .. Len(sql), ColumnsEnd(sql, mode, place, p + 1, w), Semicolon(sql[w]),
           NEW g, Gathered(sql, mode, w, g)
    PROVE  /\ Meaning(r[p][1]) = [head |-> g[p], options |-> <<>>]
           /\ NoneEnds(sql, mode, p, w)
<1>1. sql \in Seq(Atoms) /\ w \in p + 1 .. Len(sql) /\ Seen(mode[w], sql[w])
  BY DEF Path, ColumnsEnd
<1>2. g[p] \in Seq(Atoms) /\ NoWith(g[p]) /\ NoneEnds(sql, mode, p, w)
  BY HeadGathered
<1>3. Attaches(g[p], r[w], r[p])
  <2>1. p \in 1 .. w /\ w \in 1 .. Len(sql) + 1
    BY <1>1
  <2> QED BY <1>1, <1>2, <2>1, AttachesGathered
<1>4. r[w][1] = <<>>
  BY <1>1, EndsOne
<1>5. r[p][1] = g[p]
  <2>1. r[p][1] = g[p] \o <<>>
    BY <1>3, <1>4 DEF Attaches
  <2> QED BY <1>2, <2>1
<1> QED BY <1>2, <1>5, HeadMeans

(* Pieces of a statement.                                                  *)
LEMMA TableTextIs ==
    ASSUME NEW h \in Seq(Atoms), NoWith(h), NEW a \in Atoms, a[1] = "with", NEW b \in Atoms,
           NEW v \in Seq(Atoms), NEW d \in Atoms
    PROVE  IsTableText(h \o (<<a>> \o (<<b>> \o (v \o <<d>>))), h, v)
<1>1. PICK t4 : t4 = v \o <<d>>
  OBVIOUS
<1>2. t4 \in Seq(Atoms) /\ Len(t4) = Len(v) + 1 /\ \A i \in 1 .. Len(v) : t4[i] = v[i]
  <2>1. <<d>> \in Seq(Atoms) /\ Len(<<d>>) = 1
    OBVIOUS
  <2> QED BY <1>1, <2>1, Joins DEF IsJoin
<1>3. PICK t3 : t3 = <<b>> \o t4
  OBVIOUS
<1>4. OneBefore(b, t4, t3)
  BY <1>2, <1>3, PutBefore
<1>5. PICK t2 : t2 = <<a>> \o t3
  OBVIOUS
<1>6. OneBefore(a, t3, t2) /\ t3 \in Seq(Atoms)
  BY <1>4, <1>5, PutBefore DEF OneBefore
<1>7. PICK t1 : t1 = h \o t2
  OBVIOUS
<1>8. /\ t1 \in Seq(Atoms) /\ Len(t1) = Len(h) + Len(t2) /\ \A i \in 1 .. Len(h) : t1[i] = h[i]
      /\ \A i \in 1 .. Len(t2) : t1[Len(h) + i] = t2[i]
  <2>1. t2 \in Seq(Atoms)
    BY <1>6 DEF OneBefore
  <2> QED BY <1>7, <2>1, Joins DEF IsJoin
<1>9. Len(h) \in Nat /\ Len(v) \in Nat /\ Len(t3) = Len(v) + 2 /\ Len(t2) = Len(v) + 3
  BY <1>2, <1>4, <1>6 DEF OneBefore
<1>10. t1[Len(h) + 1][1] = "with"
  <2>1. 1 \in 1 .. Len(t2)
    BY <1>9
  <2>2. t1[Len(h) + 1] = t2[1]
    BY <1>8, <2>1
  <2> QED BY <1>6, <2>2 DEF OneBefore
<1>11. ASSUME NEW i \in 1 .. Len(v) PROVE t1[(Len(h) + 2) + i] = v[i]
  <2>1. PICK y : y = i + 1
    OBVIOUS
  <2>2. y + 1 \in 1 .. Len(t2) /\ Len(h) + (y + 1) = (Len(h) + 2) + i /\ y \in 1 .. Len(t3) /\ i \in 1 .. Len(t4)
    BY <1>2, <1>9, <2>1
  <2>3. t1[Len(h) + (y + 1)] = t2[y + 1]
    BY <1>8, <2>2
  <2>4. t2[y + 1] = t3[y]
    BY <1>6, <2>2 DEF OneBefore
  <2>5. t3[y] = t4[i]
    BY <1>4, <2>1, <2>2 DEF OneBefore
  <2> QED BY <1>2, <2>2, <2>3, <2>4, <2>5
<1>12. Len(t1) = (Len(h) + Len(v)) + 3
  BY <1>8, <1>9
<1> QED BY <1>1, <1>3, <1>5, <1>7, <1>8, <1>10, <1>11, <1>12 DEF IsTableText

(* A table with a list of options.                                         *)
LEMMA TableRead ==
    ASSUME NEW sql, NEW mode, NEW place, Path(sql, mode, place), place[Len(sql) + 1] = "start",
           NEW r, Along(sql, mode, r),
           NEW p \in 1 .. Len(sql), Seen(mode[p], sql[p]), sql[p][1] = "create",
           NEW w \in 1 .. Len(sql), ColumnsEnd(sql, mode, place, p + 1, w), sql[w][1] = "with",
           NEW o \in 1 .. Len(sql), Opens(sql, mode, place, w, o),
           NEW c \in 1 .. Len(sql), BodyEnd(sql, mode, place, o + 1, c),
           NEW g, Gathered(sql, mode, w, g)
    PROVE  /\ Meaning(r[p][1]) = [head |-> g[p], options |-> Read(SubSeq(sql, o + 1, c - 1))]
           /\ NoneEnds(sql, mode, p, c)
           /\ Len(r[p]) = Len(r[c]) /\ \A j \in 2 .. Len(r[p]) : r[p][j] = r[c][j]
<1> DEFINE n == Len(sql)
<1>1. /\ n \in Nat /\ sql \in Seq(Atoms) /\ mode \in [1 .. n + 1 -> Modes] /\ place \in [1 .. n + 1 -> Places]
      /\ \A x \in 1 .. n : Reads(mode[x], place[x], sql[x], mode[x + 1], place[x + 1])
  BY SMTT(30) DEF Path
<1>2. w \in p + 1 .. n /\ Seen(mode[w], sql[w])
  BY DEF ColumnsEnd
<1>3. /\ o \in w + 1 .. n /\ Unseen(sql, mode, w + 1, o) /\ Seen(mode[o], sql[o]) /\ sql[o][1] = "("
      /\ mode[o + 1] = "code" /\ place[o + 1] = "open"
  BY DEF Opens
<1>4. /\ c \in o + 1 .. n /\ Seen(mode[c], sql[c]) /\ sql[c][1] = ")"
      /\ mode[c + 1] = "code" /\ place[c + 1] = "end"
      /\ \A x \in o + 1 .. c - 1 : Seen(mode[x], sql[x]) => Inner(sql[x])
  BY DEF BodyEnd
<1>5. g[p] \in Seq(Atoms) /\ NoWith(g[p]) /\ NoneEnds(sql, mode, p, w)
  BY HeadGathered
<1>6. NoneEnds(sql, mode, o + 1, c)
  <2>1. \A x \in o + 1 .. c - 1 : Inner(sql[x]) => ~(sql[x][1] = ";")
    BY Zenon DEF Inner
  <2> QED BY <1>4, <2>1 DEF NoneEnds
<1>7. NoneEnds(sql, mode, p, c)
  <2>1. \A x \in p .. c - 1 : x \in p .. w - 1 \/ x = w \/ x \in w + 1 .. o - 1 \/ x = o \/ x \in o + 1 .. c - 1
    BY <1>1, <1>2, <1>3, <1>4
  <2>2. \A x \in p .. w - 1 : Seen(mode[x], sql[x]) => ~(sql[x][1] = ";")
    BY <1>5 DEF NoneEnds
  <2>3. \A x \in o + 1 .. c - 1 : Seen(mode[x], sql[x]) => ~(sql[x][1] = ";")
    BY <1>6 DEF NoneEnds
  <2>4. \A x \in w + 1 .. o - 1 : ~Seen(mode[x], sql[x])
    BY <1>3 DEF Unseen
  <2>5. ~(sql[w][1] = ";") /\ ~(sql[o][1] = ";")
    BY <1>3
  <2> QED BY <2>1, <2>2, <2>3, <2>4, <2>5 DEF NoneEnds
<1>8. PICK k : Gathered(sql, mode, c, k)
  <2>1. c \in 1 .. n + 1
    BY <1>1
  <2> QED BY <1>1, <2>1, Gathers
<1>9. PICK v \in Seq(Atoms) : v = k[o + 1]
  <2>1. o + 1 \in 1 .. c
    BY <1>1, <1>4
  <2> QED BY <1>8, <2>1 DEF Gathered
<1>10. ListsAll(v, Read(SubSeq(sql, o + 1, c - 1)))
  BY <1>3, <1>8, <1>9, BlockReads
<1>11. /\ Attaches(g[p], r[w], r[p]) /\ Attaches(<<sql[w]>>, r[w + 1], r[w])
       /\ r[w + 1] = r[o] /\ Attaches(<<sql[o]>>, r[o + 1], r[o])
       /\ Attaches(v, r[c], r[o + 1]) /\ Attaches(<<sql[c]>>, r[c + 1], r[c])
  <2>1. p \in 1 .. w /\ w \in 1 .. n + 1 /\ w + 1 \in 1 .. o /\ o \in 1 .. n + 1 /\ o + 1 \in 1 .. c /\ c \in 1 .. n + 1
    BY <1>1, <1>2, <1>3, <1>4
  <2>2. Attaches(g[p], r[w], r[p])
    BY <1>1, <1>5, <2>1, AttachesGathered
  <2>3. Attaches(v, r[c], r[o + 1])
    BY <1>1, <1>6, <1>8, <1>9, <2>1, AttachesGathered
  <2>4. r[w + 1] = r[o]
    BY <1>1, <1>3, <2>1, UnseenSame
  <2>5. Attaches(<<sql[w]>>, r[w + 1], r[w]) /\ Attaches(<<sql[o]>>, r[o + 1], r[o]) /\ Attaches(<<sql[c]>>, r[c + 1], r[c])
    BY <1>1, <1>2, <1>3, <1>4, AttachesOne
  <2> QED BY <2>2, <2>3, <2>4, <2>5
<1>12. r[c + 1][1] = <<>>
  <2>1. c + 1 \in 1 .. n + 1
    BY <1>1
  <2>2. PICK s \in c + 1 .. n + 1 : NextSeen(sql, mode, place, c + 1, s)
    BY <2>1, SeesNext
  <2>3. place[s] = "end" /\ Unseen(sql, mode, c + 1, s) /\ (s = n + 1 \/ Seen(mode[s], sql[s]))
    BY <1>4, <2>2 DEF NextSeen
  <2>4. s \in 1 .. n /\ Seen(mode[s], sql[s])
    <3>1. s # n + 1
      BY <2>3
    <3>2. s \in 1 .. n
      <4>1. n \in Nat /\ c \in Nat
        BY <1>1
      <4> QED BY <3>1, <4>1, SMTT(30)
    <3> QED BY <2>3, <3>1, <3>2
  <2>5. Semicolon(sql[s])
    <3>1. Reads(mode[s], place[s], sql[s], mode[s + 1], place[s + 1])
      BY <1>1, <2>4
    <3>2. Follows("end", sql[s][1], place[s + 1])
      BY <2>3, <2>4, <3>1 DEF Reads
    <3> QED BY <3>2 DEF Follows, Semicolon
  <2>6. r[s][1] = <<>>
    <3>1. sql \in Seq(Atoms) /\ s \in 1 .. Len(sql) /\ Seen(mode[s], sql[s])
      BY <1>1, <2>4
    <3>2. /\ r[s][1] = <<>> /\ Len(r[s]) = Len(r[s + 1]) + 1
          /\ \A j \in 1 .. Len(r[s + 1]) : r[s][j + 1] = r[s + 1][j]
      BY <2>5, <3>1, EndsOne
    <3> QED BY <3>2
  <2>7. r[c + 1] = r[s]
    <3>1. s \in 1 .. n + 1 /\ c + 1 \in 1 .. s
      BY <1>1, <2>2, SMTT(30)
    <3> QED BY <1>1, <2>3, <3>1, UnseenSame
  <2> QED BY <2>6, <2>7
<1>13. r[p][1] = g[p] \o (<<sql[w]>> \o (<<sql[o]>> \o (v \o <<sql[c]>>)))
  <2>1. r[c][1] = <<sql[c]>>
    <3>1. r[c][1] = <<sql[c]>> \o <<>>
      BY <1>11, <1>12 DEF Attaches
    <3>2. <<sql[c]>> \o <<>> = <<sql[c]>>
      <4>1. <<sql[c]>> \in Seq(Atoms)
        BY <1>1
      <4> QED BY <4>1
    <3> QED BY <3>1, <3>2
  <2>2. r[o + 1][1] = v \o <<sql[c]>>
    BY <1>11, <2>1 DEF Attaches
  <2>3. r[o][1] = <<sql[o]>> \o r[o + 1][1]
    BY <1>11 DEF Attaches
  <2>4. r[w][1] = <<sql[w]>> \o r[o][1]
    BY <1>11 DEF Attaches
  <2>5. r[p][1] = g[p] \o r[w][1]
    BY <1>11 DEF Attaches
  <2> QED BY <2>2, <2>3, <2>4, <2>5
<1>14. IsTableText(r[p][1], g[p], v)
  <2>1. sql[w] \in Atoms /\ sql[o] \in Atoms /\ sql[c] \in Atoms
    BY <1>1, SMTT(30)
  <2> QED BY <1>5, <1>9, <1>13, <2>1, TableTextIs
<1>15. Len(r[p]) = Len(r[c]) /\ \A j \in 2 .. Len(r[p]) : r[p][j] = r[c][j]
  <2>1. /\ Len(r[p]) = Len(r[w]) /\ Len(r[w]) = Len(r[o]) /\ Len(r[o]) = Len(r[o + 1]) /\ Len(r[o + 1]) = Len(r[c])
    BY <1>11 DEF Attaches
  <2>2. ASSUME NEW j \in 2 .. Len(r[p]) PROVE r[p][j] = r[c][j]
    <3>1. r[p][j] = r[w][j]
      BY <1>11, <2>1 DEF Attaches
    <3>2. r[w][j] = r[o][j]
      BY <1>11, <2>1 DEF Attaches
    <3>3. r[o][j] = r[o + 1][j]
      BY <1>11, <2>1 DEF Attaches
    <3>4. r[o + 1][j] = r[c][j]
      BY <1>11, <2>1 DEF Attaches
    <3> QED BY <3>1, <3>2, <3>3, <3>4
  <2> QED BY <2>1, <2>2
<1> QED BY <1>7, <1>10, <1>14, <1>15, TableMeans

-----------------------------------------------------------------------------
(* Which statement a CREATE TABLE begins.                                  *)

(* What an atom does to the statements that are read.                      *)
LEMMA ReadsOn ==
    ASSUME NEW sql, NEW mode, NEW place, Path(sql, mode, place), NEW r, Along(sql, mode, r),
           NEW x \in 1 .. Len(sql)
    PROVE  /\ ~Seen(mode[x], sql[x]) => r[x] = r[x + 1] /\ place[x] = place[x + 1]
           /\ Seen(mode[x], sql[x]) /\ Semicolon(sql[x]) =>
                 /\ r[x][1] = <<>> /\ Len(r[x]) = Len(r[x + 1]) + 1
                 /\ \A j \in 1 .. Len(r[x + 1]) : r[x][j + 1] = r[x + 1][j]
           /\ Seen(mode[x], sql[x]) /\ ~Semicolon(sql[x]) =>
                 /\ place[x + 1] # "start" /\ Len(r[x]) = Len(r[x + 1])
                 /\ Len(r[x][1]) >= 1 /\ r[x][1][1] = sql[x]
                 /\ \A j \in 2 .. Len(r[x]) : r[x][j] = r[x + 1][j]
<1>1. /\ sql \in Seq(Atoms) /\ Len(sql) \in Nat
      /\ Reads(mode[x], place[x], sql[x], mode[x + 1], place[x + 1])
  BY DEF Path
<1>2. ReadStep(sql, mode[x], x, r[x + 1], r[x])
  BY DEF Along
<1>3. ~Seen(mode[x], sql[x]) => r[x] = r[x + 1] /\ place[x] = place[x + 1]
  BY <1>1, <1>2, Zenon DEF ReadStep, Reads
<1>4. ASSUME Seen(mode[x], sql[x]), Semicolon(sql[x])
      PROVE  /\ r[x][1] = <<>> /\ Len(r[x]) = Len(r[x + 1]) + 1
             /\ \A j \in 1 .. Len(r[x + 1]) : r[x][j + 1] = r[x + 1][j]
  BY <1>1, <1>4, EndsOne
<1>5. ASSUME Seen(mode[x], sql[x]), ~Semicolon(sql[x])
      PROVE  /\ place[x + 1] # "start" /\ Len(r[x]) = Len(r[x + 1])
             /\ Len(r[x][1]) >= 1 /\ r[x][1][1] = sql[x]
             /\ \A j \in 2 .. Len(r[x]) : r[x][j] = r[x + 1][j]
  <2>1. Follows(place[x], sql[x][1], place[x + 1])
    BY <1>1, <1>5 DEF Reads
  <2>2. ~(sql[x][1] = ";")
    BY <1>5, Zenon DEF Semicolon
  <2>3. place[x + 1] # "start"
    <3> SUFFICES ASSUME place[x + 1] = "start" PROVE FALSE
      OBVIOUS
    <3>1. ~(<<place[x], sql[x][1], "start">> \in {
          <<"start", "create", "columns">>, <<"columns", "with", "with">>, <<"with", "(", "open">>,
          <<"open", "lit", "equals">>, <<"equals", "=", "value">>, <<"value", "lit", "comma">>,
          <<"comma", ",", "key">>, <<"key", "lit", "equals">>,
          <<"open", ")", "end">>, <<"comma", ")", "end">>})
      OBVIOUS
    <3>2. Follows(place[x], sql[x][1], "start")
      BY <2>1
    <3>3. "start" # "other" /\ "start" # "columns"
      OBVIOUS
    <3> QED BY <2>2, <3>1, <3>2, <3>3, Zenon DEF Follows
  <2>4. Begins(sql[x], r[x + 1], r[x])
    BY <1>2, <1>5, <2>2, Zenon DEF ReadStep
  <2>5. PICK t \in Seq(Atoms) : t = r[x + 1][1]
    <3>1. x + 1 \in 1 .. Len(sql) + 1
      BY <1>1
    <3>2. NotEmpty(r[x + 1])
      BY <3>1 DEF Along, NotEmpty
    <3> QED BY <3>2, FirstIsText
  <2>6. OneBefore(sql[x], t, <<sql[x]>> \o t)
    BY <1>1, PutBefore
  <2>7. Len(r[x][1]) >= 1 /\ r[x][1][1] = sql[x]
    <3>1. r[x][1] = <<sql[x]>> \o t
      BY <2>4, <2>5 DEF Begins
    <3>2. Len(t) \in Nat
      OBVIOUS
    <3> QED BY <2>6, <3>1, <3>2 DEF OneBefore
  <2> QED BY <2>3, <2>4, <2>7 DEF Begins
<1> QED BY <1>3, <1>4, <1>5

(* Numbers of statements.                                                  *)
LEMMA ReadLens ==
    ASSUME NEW sql, NEW mode, NEW r, sql \in Seq(Atoms), Along(sql, mode, r), NEW i \in 1 .. Len(sql) + 1
    PROVE  Len(r[i]) \in Nat /\ Len(r[i]) >= 1
<1>1. NotEmpty(r[i])
  BY DEF Along, NotEmpty
<1> QED BY <1>1, FirstIsText

(* The statements behind a position are statements of the text.            *)
IsBehind(r, place, i) ==
    /\ Len(r[i]) <= Len(r[1])
    /\ \A j \in 1 .. Len(r[i]) :
          j >= 2 \/ place[i] = "start" => r[1][(Len(r[1]) - Len(r[i])) + j] = r[i][j]

(* What is read from a position on is, but for the statement it lies in,   *)
(* the end of what is read of the text.                                    *)
LEMMA ReadBehind ==
    ASSUME NEW sql, NEW mode, NEW place, Path(sql, mode, place), NEW r, Along(sql, mode, r),
           NEW i \in 1 .. Len(sql) + 1
    PROVE  IsBehind(r, place, i)
<1> DEFINE n == Len(sql)
           Behinds(x) == /\ Len(r[x]) <= Len(r[1])
                         /\ \A j \in 1 .. Len(r[x]) :
                               j >= 2 \/ place[x] = "start" => r[1][(Len(r[1]) - Len(r[x])) + j] = r[x][j]
           S == {x \in 1 .. n + 1 : Behinds(x)}
<1>1. n \in Nat /\ sql \in Seq(Atoms)
  BY DEF Path
<1>2. \A x \in 1 .. n + 1 : Len(r[x]) \in Nat /\ Len(r[x]) >= 1
  BY <1>1, ReadLens
<1>3. ASSUME NEW x \in 1 .. n, Behinds(x) PROVE Behinds(x + 1)
  <2>1. x \in 1 .. n + 1 /\ x + 1 \in 1 .. n + 1 /\ 1 \in 1 .. n + 1
    BY <1>1
  <2>2. PICK a \in Nat, b \in Nat, c \in Nat : a = Len(r[1]) /\ b = Len(r[x]) /\ c = Len(r[x + 1])
    BY <1>2, <2>1
  <2>3. b <= a /\ \A j \in 1 .. b : j >= 2 \/ place[x] = "start" => r[1][(a - b) + j] = r[x][j]
    BY <1>3, <2>2
  <2> SUFFICES /\ c <= a
               /\ \A j \in 1 .. c : j >= 2 \/ place[x + 1] = "start" => r[1][(a - c) + j] = r[x + 1][j]
    BY <2>2
  <2>4. CASE ~Seen(mode[x], sql[x])
    <3>1. r[x] = r[x + 1] /\ place[x] = place[x + 1]
      BY <2>4, ReadsOn
    <3>2. b = c
      BY <2>2, <3>1
    <3> QED BY <2>3, <3>1, <3>2
  <2>5. CASE Seen(mode[x], sql[x]) /\ Semicolon(sql[x])
    <3>1. b = c + 1 /\ \A j \in 1 .. c : r[x][j + 1] = r[x + 1][j]
      BY <2>2, <2>5, ReadsOn
    <3>2. ASSUME NEW j \in 1 .. c PROVE r[1][(a - c) + j] = r[x + 1][j]
      <4>1. j + 1 \in 1 .. b /\ j + 1 >= 2 /\ (a - b) + (j + 1) = (a - c) + j
        BY <3>1
      <4>2. r[1][(a - b) + (j + 1)] = r[x][j + 1]
        BY <2>3, <4>1
      <4> QED BY <3>1, <4>1, <4>2
    <3>3. c <= a
      BY <2>3, <3>1
    <3> QED BY <3>2, <3>3
  <2>6. CASE Seen(mode[x], sql[x]) /\ ~Semicolon(sql[x])
    <3>1. place[x + 1] # "start" /\ b = c /\ \A j \in 2 .. b : r[x][j] = r[x + 1][j]
      BY <2>2, <2>6, ReadsOn
    <3>2. ASSUME NEW j \in 1 .. c, j >= 2 PROVE r[1][(a - c) + j] = r[x + 1][j]
      <4>1. j \in 2 .. b /\ j \in 1 .. b
        BY <3>1, <3>2
      <4>2. r[1][(a - b) + j] = r[x][j]
        BY <2>3, <3>2, <4>1
      <4> QED BY <3>1, <4>1, <4>2
    <3> QED BY <2>3, <3>1, <3>2
  <2> QED BY <2>4, <2>5, <2>6
<1>4. Behinds(1)
  <2>1. Len(r[1]) \in Nat
    BY <1>1, <1>2
  <2>2. \A j \in 1 .. Len(r[1]) : (Len(r[1]) - Len(r[1])) + j = j
    BY <2>1
  <2> QED BY <2>1, <2>2
<1> HIDE DEF Behinds
<1>5. ASSUME NEW x \in 1 .. n + 1, \A y \in 1 .. n + 1 : y < x => y \in S
      PROVE  x \in S
  <2>1. CASE x = 1
    BY <1>4, <2>1
  <2>2. CASE x # 1
    <3>1. x - 1 \in 1 .. n /\ x - 1 \in 1 .. n + 1 /\ x - 1 < x /\ (x - 1) + 1 = x
      BY <1>1, <2>2
    <3>2. x - 1 \in S
      BY <1>5, <3>1
    <3> QED BY <1>3, <3>1, <3>2
  <2> QED BY <2>1, <2>2
<1>6. 1 .. n + 1 \subseteq S
  <2>1. n + 1 \in Nat
    BY <1>1
  <2> HIDE DEF S, n
  <2> QED BY <1>5, <2>1, Upward
<1>7. Behinds(i)
  BY <1>6
<1> QED BY <1>7 DEF Behinds, IsBehind

(* Statements that begin later are further behind.                         *)
LEMMA LaterIsBehind ==
    ASSUME NEW sql, NEW mode, NEW place, Path(sql, mode, place), NEW r, Along(sql, mode, r),
           NEW p \in 1 .. Len(sql), Seen(mode[p], sql[p]), ~Semicolon(sql[p]),
           NEW q \in p + 1 .. Len(sql) + 1, place[q] = "start"
    PROVE  Len(r[q]) < Len(r[p])
<1> DEFINE n == Len(sql)
           S == {x \in 1 .. n + 1 : x > p => Len(r[x]) <= Len(r[p]) /\ (place[x] = "start" => Len(r[x]) < Len(r[p]))}
<1>1. n \in Nat /\ sql \in Seq(Atoms)
  BY DEF Path
<1>2. \A x \in 1 .. n + 1 : Len(r[x]) \in Nat /\ Len(r[x]) >= 1
  BY <1>1, ReadLens
<1>3. ASSUME NEW x \in 1 .. n + 1, \A y \in 1 .. n + 1 : y < x => y \in S
      PROVE  x \in S
  <2> SUFFICES ASSUME x > p
               PROVE  Len(r[x]) <= Len(r[p]) /\ (place[x] = "start" => Len(r[x]) < Len(r[p]))
    OBVIOUS
  <2>1. PICK y \in 1 .. n : y + 1 = x
    <3>1. x - 1 \in 1 .. n /\ (x - 1) + 1 = x
      BY <1>1
    <3> QED BY <3>1
  <2>2. PICK a \in Nat, b \in Nat, c \in Nat : a = Len(r[p]) /\ b = Len(r[y]) /\ c = Len(r[y + 1])
    <3>1. p \in 1 .. n + 1 /\ y \in 1 .. n + 1 /\ y + 1 \in 1 .. n + 1
      BY <1>1
    <3> QED BY <1>2, <3>1
  <2>3. b <= a /\ (y = p \/ (place[y] = "start" => b < a))
    <3>1. CASE y = p
      BY <2>2, <3>1
    <3>2. CASE y # p
      <4>1. y > p /\ y \in 1 .. n + 1 /\ y < x
        BY <1>1, <2>1, <3>2
      <4>2. y \in S
        <5> HIDE DEF S
        <5> QED BY <1>3, <4>1
      <4> QED BY <2>2, <4>1, <4>2
    <3> QED BY <3>1, <3>2
  <2> SUFFICES c <= a /\ (place[y + 1] = "start" => c < a)
    BY <2>1, <2>2
  <2>4. CASE ~Seen(mode[y], sql[y])
    <3>1. r[y] = r[y + 1] /\ place[y] = place[y + 1]
      BY <2>4, ReadsOn
    <3>2. y # p /\ b = c
      BY <2>2, <2>4, <3>1
    <3> QED BY <2>3, <3>1, <3>2
  <2>5. CASE Seen(mode[y], sql[y]) /\ Semicolon(sql[y])
    <3>1. b = c + 1
      BY <2>2, <2>5, ReadsOn
    <3> QED BY <2>3, <3>1
  <2>6. CASE Seen(mode[y], sql[y]) /\ ~Semicolon(sql[y])
    <3>1. place[y + 1] # "start" /\ b = c
      BY <2>2, <2>6, ReadsOn
    <3> QED BY <2>3, <3>1
  <2> QED BY <2>4, <2>5, <2>6
<1>4. 1 .. n + 1 \subseteq S
  <2>1. n + 1 \in Nat
    BY <1>1
  <2> HIDE DEF S, n
  <2> QED BY <1>3, <2>1, Upward
<1>5. q \in 1 .. n + 1 /\ q > p
  BY <1>1
<1> QED BY <1>4, <1>5

(* A statement that begins with CREATE TABLE is read from one in the text. *)
IsCreated(sql, mode, r, i, j) ==
    \E p \in i .. Len(sql) :
        /\ Seen(mode[p], sql[p]) /\ sql[p][1] = "create"
        /\ r[p][1] = r[i][j] /\ Len(r[p]) = (Len(r[i]) - j) + 1

(* There is a CREATE TABLE in the code for every statement that begins     *)
(* with one.                                                               *)
LEMMA TablesAreCreated ==
    ASSUME NEW sql, NEW mode, NEW place, Path(sql, mode, place), NEW r, Along(sql, mode, r),
           NEW i \in 1 .. Len(sql) + 1, NEW j \in 1 .. Len(r[i]), j >= 2 \/ place[i] = "start",
           Len(r[i][j]) >= 1, r[i][j][1][1] = "create"
    PROVE  IsCreated(sql, mode, r, i, j)
<1> DEFINE n == Len(sql)
           Created(x, l) == \E p \in x .. n :
                               /\ Seen(mode[p], sql[p]) /\ sql[p][1] = "create"
                               /\ r[p][1] = r[x][l] /\ Len(r[p]) = (Len(r[x]) - l) + 1
           IsOne(st) == Len(st) >= 1 /\ st[1][1] = "create"
           S == {x \in 1 .. n + 1 : \A l \in 1 .. Len(r[x]) :
                    (l >= 2 \/ place[x] = "start") /\ IsOne(r[x][l]) => Created(x, l)}
<1>1. n \in Nat /\ sql \in Seq(Atoms)
  BY DEF Path
<1>2. \A x \in 1 .. n + 1 : Len(r[x]) \in Nat /\ Len(r[x]) >= 1
  BY <1>1, ReadLens
<1>3. ASSUME NEW x \in 1 .. n, Seen(mode[x], sql[x]), ~Semicolon(sql[x])
      PROVE  /\ Len(r[x]) = Len(r[x + 1]) /\ r[x][1][1] = sql[x]
             /\ \A m \in 2 .. Len(r[x]) : r[x][m] = r[x + 1][m]
  <2> HIDE DEF S
  <2> QED BY <1>3, ReadsOn
<1>4. ASSUME NEW x \in 1 .. n + 1, \A y \in 1 .. n + 1 : x < y => y \in S
      PROVE  x \in S
  <2> SUFFICES ASSUME NEW l \in 1 .. Len(r[x]), l >= 2 \/ place[x] = "start", IsOne(r[x][l])
               PROVE  Created(x, l)
    OBVIOUS
  <2>1. CASE x = n + 1
    <3>1. r[x] = << <<>> >>
      BY <2>1 DEF Along
    <3>2. Len(r[x]) = 1 /\ r[x][1] = <<>>
      BY <3>1
    <3>3. l = 1
      BY <3>2
    <3>4. ~IsOne(<<>>)
      OBVIOUS
    <3> HIDE DEF IsOne
    <3> QED BY <3>2, <3>3, <3>4
  <2>2. CASE x # n + 1
    <3>1. x \in 1 .. n /\ x + 1 \in 1 .. n + 1 /\ x < x + 1
      BY <1>1, <2>2
    <3>2. \A m \in 1 .. Len(r[x + 1]) :
             (m >= 2 \/ place[x + 1] = "start") /\ IsOne(r[x + 1][m]) => Created(x + 1, m)
      <4>1. x + 1 \in S
        <5> HIDE DEF S
        <5> QED BY <1>4, <3>1
      <4> HIDE DEF Created, IsOne
      <4> QED BY <4>1
    <3>3. \A p \in x + 1 .. n : p \in x .. n
      BY <3>1
    <3>4. PICK b \in Nat, c \in Nat : b = Len(r[x]) /\ c = Len(r[x + 1])
      BY <1>2, <3>1
    <3>5. CASE ~Seen(mode[x], sql[x])
      <4>1. r[x] = r[x + 1] /\ place[x] = place[x + 1]
        BY <3>1, <3>5, ReadsOn
      <4>2. Created(x + 1, l)
        <5> HIDE DEF Created, IsOne
        <5> QED BY <3>2, <4>1
      <4> QED BY <3>3, <4>1, <4>2
    <3>6. CASE Seen(mode[x], sql[x]) /\ Semicolon(sql[x])
      <4>1. r[x][1] = <<>> /\ b = c + 1 /\ \A m \in 1 .. c : r[x][m + 1] = r[x + 1][m]
        BY <3>1, <3>4, <3>6, ReadsOn
      <4>2. l # 1
        <5>1. ~IsOne(<<>>)
          OBVIOUS
        <5> HIDE DEF IsOne
        <5> QED BY <4>1, <5>1
      <4>3. PICK m \in 1 .. c : m + 1 = l
        <5>1. l \in 1 .. b
          BY <3>4
        <5>2. b = c + 1
          BY <4>1
        <5>3. l - 1 \in 1 .. c /\ (l - 1) + 1 = l
          BY <4>2, <5>1, <5>2
        <5> QED BY <5>3
      <4>4. place[x + 1] = "start"
        <5>1. Reads(mode[x], place[x], sql[x], mode[x + 1], place[x + 1])
          BY <3>1 DEF Path
        <5>2. Follows(place[x], sql[x][1], place[x + 1])
          BY <3>6, <5>1 DEF Reads
        <5>3. sql[x][1] = ";"
          BY <3>6, Zenon DEF Semicolon
        <5>4. Follows(place[x], ";", place[x + 1])
          BY <5>2, <5>3, Zenon
        <5> QED BY <5>4 DEF Follows
      <4>5. r[x][l] = r[x + 1][m]
        BY <4>1, <4>3
      <4>6. Created(x + 1, m)
        <5> HIDE DEF Created, IsOne
        <5> QED BY <3>2, <3>4, <4>4, <4>5
      <4>7. PICK p \in x + 1 .. n : /\ Seen(mode[p], sql[p]) /\ sql[p][1] = "create"
                                    /\ r[p][1] = r[x + 1][m] /\ Len(r[p]) = (Len(r[x + 1]) - m) + 1
        BY <4>6
      <4>8. Len(r[p]) = (Len(r[x]) - l) + 1
        <5>1. b = c + 1
          BY <4>1
        <5>2. (c - m) + 1 = (b - l) + 1
          BY <4>3, <5>1
        <5>3. Len(r[p]) = (c - m) + 1
          BY <3>4, <4>7
        <5> QED BY <3>4, <5>2, <5>3
      <4> QED BY <3>3, <4>5, <4>7, <4>8
    <3>7. CASE Seen(mode[x], sql[x]) /\ ~Semicolon(sql[x])
      <4>1. b = c /\ r[x][1][1] = sql[x] /\ \A m \in 2 .. b : r[x][m] = r[x + 1][m]
        <5>1. /\ Len(r[x]) = Len(r[x + 1]) /\ r[x][1][1] = sql[x]
              /\ \A m \in 2 .. Len(r[x]) : r[x][m] = r[x + 1][m]
          BY <1>3, <3>1, <3>7
        <5> QED BY <3>4, <5>1
      <4>2. CASE l = 1
        <5>1. sql[x][1] = "create"
          BY <4>1, <4>2
        <5>2. x \in x .. n /\ r[x][1] = r[x][l] /\ Len(r[x]) = (Len(r[x]) - l) + 1
          BY <3>1, <3>4, <4>2
        <5> QED BY <3>7, <5>1, <5>2
      <4>3. CASE l # 1
        <5>1. l \in 2 .. b /\ l \in 1 .. c /\ l >= 2
          BY <3>4, <4>1, <4>3
        <5>2. r[x][l] = r[x + 1][l]
          BY <4>1, <5>1
        <5>3. Created(x + 1, l)
          <6> HIDE DEF Created, IsOne
          <6> QED BY <3>2, <3>4, <5>1, <5>2
        <5>4. PICK p \in x + 1 .. n : /\ Seen(mode[p], sql[p]) /\ sql[p][1] = "create"
                                      /\ r[p][1] = r[x + 1][l] /\ Len(r[p]) = (Len(r[x + 1]) - l) + 1
          BY <5>3
        <5>5. Len(r[p]) = (Len(r[x]) - l) + 1
          BY <3>4, <4>1, <5>4
        <5> QED BY <3>3, <5>2, <5>4, <5>5
      <4> QED BY <4>2, <4>3
    <3> QED BY <3>5, <3>6, <3>7
  <2> QED BY <2>1, <2>2
<1>5. 1 .. n + 1 \subseteq S
  <2>1. n + 1 \in Nat
    BY <1>1
  <2> HIDE DEF S, n
  <2> QED BY <1>4, <2>1, Downward
<1>6. i \in S
  <2> HIDE DEF S
  <2> QED BY <1>5
<1> QED BY <1>6 DEF IsCreated

-----------------------------------------------------------------------------
(* A rendered block is a list of options.                                  *)

(* A comma ends a line, but not the last.                                  *)
LEMMA RenderedEnds ==
    ASSUME NEW options \in Seq(OptionPairs), NEW m \in 1 .. Len(options)
    PROVE  Rendered(options)[5 * m] = IF m = Len(options) THEN Atom("nl") ELSE Atom(",")
<1>1. Len(options) \in Nat
  OBVIOUS
<1>2. /\ 5 * m \in 1 .. 5 * Len(options) /\ (5 * m - 1) \div 5 + 1 = m /\ ((5 * m - 1) % 5) + 1 = 5
      /\ (5 * m = 5 * Len(options)) <=> (m = Len(options))
  BY <1>1
<1>3. Rendered(options)[5 * m] = Line(options[m], 5 * m = 5 * Len(options))[5]
  <2>1. Rendered(options)[5 * m] =
           Line(options[(5 * m - 1) \div 5 + 1], 5 * m = 5 * Len(options))[((5 * m - 1) % 5) + 1]
    BY <1>2 DEF Rendered
  <2> QED BY <1>2, <2>1
<1>4. \A last \in BOOLEAN : Line(options[m], last)[5] = IF last THEN Atom("nl") ELSE Atom(",")
  BY DEF Line
<1>5. (5 * m = 5 * Len(options)) \in BOOLEAN
  OBVIOUS
<1> QED BY <1>2, <1>3, <1>4, <1>5

(* The place behind the first t atoms of a rendered block.                 *)
PlaceIn(t, last) ==
    IF t = 0 \/ t = 1 THEN "open"
    ELSE IF t = last \/ t % 5 = 4 THEN "comma"
    ELSE IF t % 5 = 2 THEN "equals" ELSE IF t % 5 = 3 THEN "value" ELSE "key"

(* An atom in code that leads from place to place.                         *)
ReadsInCode(at, atom, next) ==
    /\ Seen("code", atom) => Follows(at, atom[1], next)
    /\ ~Seen("code", atom) => next = at
    /\ atom[1] # "--" /\ atom[1] # "/*"

(* Such an atom is one that Flink can read.                                *)
LEMMA ReadsCode ==
    ASSUME NEW at, NEW atom, NEW next, ReadsInCode(at, atom, next)
    PROVE  Reads("code", at, atom, "code", next)
<1>1. NextMode("code", atom) = "code"
  BY DEF ReadsInCode, NextMode
<1> QED BY <1>1, Zenon DEF ReadsInCode, Reads

(* Each atom of a rendered block leads to the place behind it.             *)
LEMMA RenderedReads ==
    ASSUME NEW options \in Seq(OptionPairs), NEW t \in 0 .. 5 * Len(options) - 1
    PROVE  /\ ReadsInCode(PlaceIn(t, 5 * Len(options)), Rendered(options)[t + 1], PlaceIn(t + 1, 5 * Len(options)))
           /\ Seen("code", Rendered(options)[t + 1]) => Inner(Rendered(options)[t + 1])
<1>1. PICK n \in Nat : n = Len(options)
  OBVIOUS
<1>2. PICK m \in 1 .. n, s \in 0 .. 4 : t = (5 * m - 5) + s /\ t % 5 = s
  <2>1. t \in 0 .. 5 * n - 1
    BY <1>1
  <2>2. t \div 5 \in 0 .. n - 1 /\ t % 5 \in 0 .. 4 /\ t = (5 * (t \div 5)) + (t % 5)
    BY <2>1
  <2>3. t \div 5 + 1 \in 1 .. n /\ t = (5 * (t \div 5 + 1) - 5) + (t % 5)
    BY <2>2
  <2> QED BY <2>2, <2>3
<1>3. PICK a : a = Rendered(options)[t + 1]
  OBVIOUS
<1>4. /\ s = 0 => t + 1 = 5 * m - 4
      /\ s = 1 => t + 1 = 5 * m - 3
      /\ s = 2 => t + 1 = 5 * m - 2
      /\ s = 3 => t + 1 = 5 * m - 1
      /\ s = 4 => t + 1 = 5 * m
      /\ s # 4 => (t + 1) % 5 = s + 1 /\ t + 1 # 5 * n
      /\ s = 4 => (t + 1) % 5 = 0 /\ (t + 1 = 5 * n <=> m = n)
      /\ t # 5 * n /\ (t = 0 => s = 0) /\ (t = 1 => s = 1)
      /\ (t + 1 # 0) /\ (t + 1 = 1 <=> t = 0) /\ (t + 1 = 1 => s = 0)
  BY <1>2
<1>5. /\ s = 0 => a = Atom("nl")
      /\ s = 1 => a = Lit(options[m][1])
      /\ s = 2 => a = Atom("=")
      /\ s = 3 => a = Lit(options[m][2])
      /\ s = 4 => a = IF m = n THEN Atom("nl") ELSE Atom(",")
  <2>1. /\ Rendered(options)[5 * m - 4] = Atom("nl")
        /\ Rendered(options)[5 * m - 3] = Lit(options[m][1])
        /\ Rendered(options)[5 * m - 2] = Atom("=")
        /\ Rendered(options)[5 * m - 1] = Lit(options[m][2])
        /\ Rendered(options)[5 * m] = IF m = n THEN Atom("nl") ELSE Atom(",")
    BY <1>1, RenderedAtoms, RenderedEnds
  <2> QED BY <1>3, <1>4, <2>1
<1>6. PICK at, next : at = PlaceIn(t, 5 * n) /\ next = PlaceIn(t + 1, 5 * n)
  OBVIOUS
<1>7. /\ s = 0 => (t = 0 /\ at = "open") \/ (t # 0 /\ at = "key")
      /\ s = 1 => at = "open" \/ at = "key"
      /\ s = 2 => at = "equals"
      /\ s = 3 => at = "value"
      /\ s = 4 => at = "comma"
  BY <1>2, <1>4, <1>6 DEF PlaceIn
<1>8. /\ s = 0 => next = at
      /\ s = 1 => next = "equals"
      /\ s = 2 => next = "value"
      /\ s = 3 => next = "comma"
      /\ s = 4 => next = IF m = n THEN "comma" ELSE "key"
  BY <1>2, <1>4, <1>6, <1>7 DEF PlaceIn
<1>9. ReadsInCode(at, a, next) /\ (Seen("code", a) => Inner(a))
  <2>1. CASE s = 0
    BY <1>5, <1>8, <2>1 DEF ReadsInCode, Seen, Atom
  <2>2. CASE s = 1
    <3>1. a[1] = "lit" /\ (at = "open" \/ at = "key") /\ next = "equals"
      BY <1>5, <1>7, <1>8, <2>2 DEF Lit
    <3> QED BY <3>1 DEF ReadsInCode, Seen, Inner, Follows
  <2>3. CASE s = 2
    <3>1. a[1] = "=" /\ at = "equals" /\ next = "value"
      BY <1>5, <1>7, <1>8, <2>3 DEF Atom
    <3> QED BY <3>1 DEF ReadsInCode, Seen, Inner, Follows
  <2>4. CASE s = 3
    <3>1. a[1] = "lit" /\ at = "value" /\ next = "comma"
      BY <1>5, <1>7, <1>8, <2>4 DEF Lit
    <3> QED BY <3>1 DEF ReadsInCode, Seen, Inner, Follows
  <2>5. CASE s = 4 /\ m = n
    <3>1. a[1] = "nl" /\ at = "comma" /\ next = "comma"
      BY <1>5, <1>7, <1>8, <2>5 DEF Atom
    <3> QED BY <3>1 DEF ReadsInCode, Seen
  <2>6. CASE s = 4 /\ m # n
    <3>1. a = Atom(",") /\ at = "comma" /\ next = "key"
      BY <1>5, <1>7, <1>8, <2>6
    <3>2. a[1] = ","
      BY <3>1, Zenon DEF Atom
    <3> QED BY <3>1, <3>2 DEF ReadsInCode, Seen, Inner, Follows
  <2> QED BY <2>1, <2>2, <2>3, <2>4, <2>5, <2>6
<1> QED BY <1>1, <1>3, <1>6, <1>9

-----------------------------------------------------------------------------
(* The text with another block in the place of one.                        *)

(* What lies behind atom o and before atom c of a text is replaced.        *)
Replaces(sql, o, c, body, new) ==
    /\ new \in Seq(Atoms) /\ Len(new) = (Len(sql) - c) + ((o + 1) + Len(body))
    /\ \A i \in 1 .. o : new[i] = sql[i]
    /\ \A i \in 1 .. Len(body) : new[o + i] = body[i]
    /\ \A i \in 0 .. Len(sql) - c : new[((o + 1) + Len(body)) + i] = sql[c + i]

(* What rewriteForReplay writes has the new block in the place of the old. *)
LEMMA SplicedReplaces ==
    ASSUME NEW sql \in Seq(Atoms), NEW o \in 1 .. Len(sql), NEW c \in o + 1 .. Len(sql), NEW body \in Seq(Atoms)
    PROVE  Replaces(sql, o, c, body, (SubSeq(sql, 1, o) \o body) \o SubSeq(sql, c, Len(sql)))
<1> DEFINE A == Atoms
<1>1. PICK a : a = SubSeq(sql, 1, o)
  OBVIOUS
<1>2. PICK b : b = SubSeq(sql, c, Len(sql))
  OBVIOUS
<1>3. PICK n \in Nat : n = Len(sql)
  OBVIOUS
<1>4. PICK m \in Nat : m = Len(body)
  OBVIOUS
<1>5. o \in Nat /\ c \in Nat /\ o \in 1 .. n /\ c \in o + 1 .. n
  BY <1>3
<1>6. a \in Seq(A) /\ Len(a) = o /\ \A i \in 1 .. o : a[i] = sql[i]
  <2>1. 1 \in 1 .. Len(sql) + 1 /\ o \in Nat /\ o <= Len(sql) /\ o >= 1 - 1 /\ o - 1 + 1 = o
        /\ \A i \in 1 .. o : 1 + i - 1 = i
    BY <1>3, <1>5
  <2> HIDE DEF A
  <2>2. sql \in Seq(A)
    BY DEF A
  <2> QED BY <1>1, <2>1, <2>2, SubSeqIs
<1>7. b \in Seq(A) /\ Len(b) = (n - c) + 1 /\ \A i \in 0 .. n - c : b[i + 1] = sql[c + i]
  <2>1. c \in 1 .. Len(sql) + 1 /\ n \in Nat /\ n <= Len(sql) /\ n >= c - 1
    BY <1>3, <1>5
  <2> HIDE DEF A
  <2>2. sql \in Seq(A)
    BY DEF A
  <2>3. b \in Seq(A) /\ Len(b) = n - c + 1 /\ \A i \in 1 .. n - c + 1 : b[i] = sql[c + i - 1]
    BY <1>2, <1>3, <2>1, <2>2, SubSeqIs
  <2>4. ASSUME NEW i \in 0 .. n - c
        PROVE  b[i + 1] = sql[c + i]
    <3>1. i + 1 \in 1 .. n - c + 1 /\ c + (i + 1) - 1 = c + i
      BY <1>5
    <3> QED BY <2>3, <3>1
  <2> QED BY <2>3, <2>4, <1>5
<1>8. PICK d : IsJoin(A, a, body, d) /\ d = a \o body
  <2> HIDE DEF A
  <2>1. body \in Seq(A)
    BY DEF A
  <2> QED BY <1>6, <2>1, Joins
<1>9. PICK e : IsJoin(A, d, b, e) /\ e = d \o b
  <2> HIDE DEF A
  <2>1. d \in Seq(A)
    BY <1>8 DEF IsJoin
  <2> QED BY <1>7, <2>1, Joins
<1>10. /\ d \in Seq(A) /\ Len(d) = o + m /\ \A i \in 1 .. o : d[i] = a[i]
       /\ \A i \in 1 .. m : d[o + i] = body[i]
  <2> HIDE DEF A
  <2> QED BY <1>4, <1>6, <1>8 DEF IsJoin
<1>11. /\ e \in Seq(A) /\ Len(e) = (o + m) + ((n - c) + 1) /\ \A i \in 1 .. o + m : e[i] = d[i]
       /\ \A i \in 1 .. (n - c) + 1 : e[(o + m) + i] = b[i]
  <2> HIDE DEF A
  <2> QED BY <1>7, <1>9, <1>10 DEF IsJoin
<1>12. \A i \in 1 .. o : e[i] = sql[i]
  <2>1. \A i \in 1 .. o : i \in 1 .. o + m
    BY <1>5
  <2> QED BY <1>6, <1>10, <1>11, <2>1
<1>13. \A i \in 1 .. m : e[o + i] = body[i]
  <2>1. \A i \in 1 .. m : o + i \in 1 .. o + m
    BY <1>5
  <2> QED BY <1>10, <1>11, <2>1
<1>14. \A i \in 0 .. n - c : e[((o + 1) + m) + i] = sql[c + i]
  <2>1. \A i \in 0 .. n - c : i + 1 \in 1 .. (n - c) + 1 /\ (o + m) + (i + 1) = ((o + 1) + m) + i
    BY <1>5
  <2> QED BY <1>7, <1>11, <2>1
<1>15. (o + m) + ((n - c) + 1) = (n - c) + ((o + 1) + m)
  BY <1>5
<1>16. e \in Seq(Atoms)
  BY <1>11
<1>17. e = (SubSeq(sql, 1, o) \o body) \o SubSeq(sql, c, Len(sql))
  BY <1>1, <1>2, <1>8, <1>9
<1> HIDE DEF A
<1> QED BY <1>3, <1>4, <1>11, <1>12, <1>13, <1>14, <1>15, <1>16, <1>17 DEF Replaces

(* A WITH block of a CREATE TABLE: the statement begins at p, its columns  *)
(* end at w with WITH, and the parentheses are at o and c.                 *)
Table(sql, mode, place, p, w, o, c) ==
    /\ p \in 1 .. Len(sql) /\ Seen(mode[p], sql[p]) /\ sql[p][1] = "create"
    /\ w \in 1 .. Len(sql) /\ ColumnsEnd(sql, mode, place, p + 1, w) /\ sql[w][1] = "with"
    /\ o \in 1 .. Len(sql) /\ Opens(sql, mode, place, w, o)
    /\ c \in 1 .. Len(sql) /\ BodyEnd(sql, mode, place, o + 1, c)

(* The path through a text and the one through the new text are the same   *)
(* up to o and from c on, which is at e in the new text.                   *)
SameAround(sql, mode, place, o, c, new, newMode, newPlace, e) ==
    /\ Path(new, newMode, newPlace)
    /\ e \in o + 1 .. Len(new) /\ Len(new) = (Len(sql) - c) + e
    /\ \A i \in 1 .. o : new[i] = sql[i]
    /\ \A i \in 1 .. o + 1 : newMode[i] = mode[i] /\ newPlace[i] = place[i]
    /\ \A i \in o + 1 .. e - 1 : Seen(newMode[i], new[i]) => Inner(new[i])
    /\ newMode[e] = "code" /\ newPlace[e] = "comma"
    /\ \A i \in 0 .. Len(sql) - c : new[e + i] = sql[c + i]
    /\ \A i \in 1 .. (Len(sql) - c) + 1 : newMode[e + i] = mode[c + i] /\ newPlace[e + i] = place[c + i]

(* With a rendered block, Flink can read the text on the same path around  *)
(* it.                                                                     *)
LEMMA BlockWritten ==
    ASSUME NEW sql, NEW mode, NEW place, Path(sql, mode, place),
           NEW o \in 1 .. Len(sql), mode[o + 1] = "code", place[o + 1] = "open",
           NEW c \in 1 .. Len(sql), BodyEnd(sql, mode, place, o + 1, c),
           NEW options \in Seq(OptionPairs), Len(options) >= 1,
           NEW new, Replaces(sql, o, c, Rendered(options), new)
    PROVE  \E newMode, newPlace :
              SameAround(sql, mode, place, o, c, new, newMode, newPlace, (o + 1) + 5 * Len(options))
<1>1. PICK n \in Nat : n = Len(sql)
  BY DEF Path
<1>2. PICK m \in Nat : m = 5 * Len(options) /\ m >= 5
  OBVIOUS
<1>3. PICK e \in Nat : e = (o + 1) + m
  BY <1>1
<1>4. PICK l \in Nat : l = Len(new)
  BY SMTT(30) DEF Replaces
<1>5. c \in o + 1 .. n /\ o \in 1 .. n /\ mode[c + 1] = "code" /\ place[c + 1] = "end"
      /\ Seen(mode[c], sql[c]) /\ sql[c][1] = ")"
  BY <1>1 DEF BodyEnd
<1>6. Len(Rendered(options)) = m
  BY <1>2, RenderedAtoms
<1>7. /\ new \in Seq(Atoms) /\ l = (n - c) + e
      /\ \A i \in 1 .. o : new[i] = sql[i]
      /\ \A i \in 1 .. m : new[o + i] = Rendered(options)[i]
      /\ \A i \in 0 .. n - c : new[e + i] = sql[c + i]
  BY <1>1, <1>3, <1>4, <1>6 DEF Replaces
<1>8. /\ mode \in [1 .. n + 1 -> Modes] /\ place \in [1 .. n + 1 -> Places]
      /\ \A i \in 1 .. n : Reads(mode[i], place[i], sql[i], mode[i + 1], place[i + 1])
      /\ mode[n + 1] # "/*"
  BY <1>1 DEF Path
<1> DEFINE M == [i \in 1 .. l + 1 |-> IF i <= o + 1 THEN mode[i] ELSE IF i <= e THEN "code" ELSE mode[(i - e) + c]]
           P == [i \in 1 .. l + 1 |-> IF i <= o THEN place[i]
                                      ELSE IF i <= e THEN PlaceIn(i - (o + 1), m) ELSE place[(i - e) + c]]
<1>9. c \in o + 1 .. n /\ o \in 1 .. n
  BY <1>5
<1>10. l = (n - c) + e
  BY <1>7
<1>11. /\ \A i \in 1 .. o + 1 : i \in 1 .. l + 1 /\ i <= o + 1 /\ i \in 1 .. n + 1 /\ (i <= o \/ i = o + 1)
       /\ \A i \in o + 1 .. e : i \in 1 .. l + 1 /\ ~(i <= o) /\ i <= e /\ (i <= o + 1 => i = o + 1)
       /\ \A i \in 1 .. (n - c) + 1 : /\ e + i \in 1 .. l + 1 /\ ~(e + i <= o) /\ ~(e + i <= o + 1) /\ ~(e + i <= e)
                                      /\ ((e + i) - e) + c = c + i /\ c + i \in 1 .. n + 1
       /\ e \in o + 1 .. l /\ e > o + 1 /\ e - (o + 1) = m
  BY <1>2, <1>3, <1>9, <1>10
<1>12. \A i \in 1 .. o + 1 : M[i] = mode[i]
  BY <1>11
<1>13. \A i \in o + 1 .. e : M[i] = "code" /\ P[i] = PlaceIn(i - (o + 1), m)
  BY <1>11
<1>14. \A i \in 1 .. o + 1 : P[i] = place[i]
  <2>1. P[o + 1] = place[o + 1]
    <3>1. o + 1 \in o + 1 .. e /\ (o + 1) - (o + 1) = 0
      BY <1>3, <1>5
    <3> HIDE DEF P
    <3> QED BY <1>13, <3>1 DEF PlaceIn
  <2> QED BY <1>11, <2>1
<1>15. \A i \in 1 .. (n - c) + 1 : M[e + i] = mode[c + i] /\ P[e + i] = place[c + i]
  BY <1>11
<1>16. P[e] = "comma" /\ M[e] = "code"
  <2>1. e \in o + 1 .. e
    BY <1>11
  <2> HIDE DEF P, M
  <2> QED BY <1>2, <1>11, <1>13, <2>1 DEF PlaceIn
<1>17. M \in [1 .. l + 1 -> Modes] /\ P \in [1 .. l + 1 -> Places]
  <2>1. ASSUME NEW i \in 1 .. l + 1
        PROVE  i \in 1 .. o + 1 \/ i \in o + 1 .. e \/ \E j \in 1 .. (n - c) + 1 : i = e + j
    <3>1. CASE i <= o + 1
      BY <3>1
    <3>2. CASE i > o + 1 /\ i <= e
      BY <1>3, <1>5, <3>2
    <3>3. CASE i > e
      <4>1. i - e \in 1 .. (n - c) + 1 /\ i = e + (i - e)
        BY <1>9, <1>10, <3>3
      <4> QED BY <4>1
    <3> QED BY <1>3, <1>5, <3>1, <3>2, <3>3
  <2>2. \A t : PlaceIn(t, m) \in Places
    BY DEF PlaceIn, Places
  <2>3. "code" \in Modes
    BY DEF Modes
  <2>4. ASSUME NEW i \in 1 .. l + 1
        PROVE  M[i] \in Modes /\ P[i] \in Places
    <3> HIDE DEF M, P
    <3>1. CASE i \in 1 .. o + 1
      BY <1>8, <1>11, <1>12, <1>14, <3>1
    <3>2. CASE i \in o + 1 .. e
      BY <1>13, <2>2, <2>3, <3>2
    <3>3. CASE \E j \in 1 .. (n - c) + 1 : i = e + j
      <4>1. PICK j \in 1 .. (n - c) + 1 : i = e + j
        BY <3>3
      <4>2. M[i] = mode[c + j] /\ P[i] = place[c + j] /\ c + j \in 1 .. n + 1
        BY <1>11, <1>15, <4>1
      <4> QED BY <1>8, <4>2
    <3> QED BY <2>1, <3>1, <3>2, <3>3
  <2> QED BY <2>4
<1>18. M[l + 1] # "/*"
  <2>1. (n - c) + 1 \in 1 .. (n - c) + 1 /\ e + ((n - c) + 1) = l + 1 /\ c + ((n - c) + 1) = n + 1
    BY <1>9, <1>10
  <2> HIDE DEF M, P
  <2> QED BY <1>8, <1>15, <2>1
<1> HIDE DEF M, P
<1>19. \A i \in o + 1 .. e - 1 : /\ ReadsInCode(P[i], new[i], P[i + 1]) /\ M[i] = "code" /\ M[i + 1] = "code"
                                 /\ Seen("code", new[i]) => Inner(new[i])
  <2> SUFFICES ASSUME NEW i \in o + 1 .. e - 1
               PROVE  /\ ReadsInCode(P[i], new[i], P[i + 1]) /\ M[i] = "code" /\ M[i + 1] = "code"
                      /\ Seen("code", new[i]) => Inner(new[i])
    OBVIOUS
  <2>1. PICK t \in 0 .. m - 1 : t = i - (o + 1) /\ t + 1 = (i + 1) - (o + 1) /\ o + (t + 1) = i
    <3>1. i - (o + 1) \in 0 .. m - 1 /\ (i - (o + 1)) + 1 = (i + 1) - (o + 1) /\ o + ((i - (o + 1)) + 1) = i
      BY <1>3, <1>5
    <3> QED BY <3>1
  <2>2. i \in o + 1 .. e /\ i + 1 \in o + 1 .. e /\ t + 1 \in 1 .. m
    BY <1>3, <1>5, <2>1
  <2>3. P[i] = PlaceIn(t, m) /\ P[i + 1] = PlaceIn(t + 1, m) /\ M[i] = "code" /\ M[i + 1] = "code"
    BY <1>13, <2>1, <2>2
  <2>4. new[i] = Rendered(options)[t + 1]
    BY <1>7, <2>1, <2>2
  <2>5. t \in 0 .. 5 * Len(options) - 1
    BY <1>2
  <2>6. /\ ReadsInCode(PlaceIn(t, m), Rendered(options)[t + 1], PlaceIn(t + 1, m))
        /\ Seen("code", Rendered(options)[t + 1]) => Inner(Rendered(options)[t + 1])
    BY <1>2, <2>5, RenderedReads
  <2> QED BY <2>3, <2>4, <2>6
<1>20. \A i \in 1 .. l : Reads(M[i], P[i], new[i], M[i + 1], P[i + 1])
  <2> SUFFICES ASSUME NEW i \in 1 .. l
               PROVE  Reads(M[i], P[i], new[i], M[i + 1], P[i + 1])
    OBVIOUS
  <2>1. CASE i <= o
    <3>1. i \in 1 .. o /\ i \in 1 .. o + 1 /\ i + 1 \in 1 .. o + 1 /\ i \in 1 .. n
      BY <1>5, <2>1
    <3> QED BY <1>7, <1>8, <1>12, <1>14, <3>1
  <2>2. CASE i > o /\ i < e
    <3>1. i \in o + 1 .. e - 1
      BY <1>3, <1>5, <2>2
    <3> QED BY <1>19, <3>1, ReadsCode
  <2>3. CASE i = e
    <3>1. 0 \in 0 .. n - c /\ 1 \in 1 .. (n - c) + 1 /\ e + 0 = e /\ c + 0 = c
      BY <1>5
    <3>2. new[e] = sql[c] /\ M[e + 1] = "code" /\ P[e + 1] = "end"
      BY <1>5, <1>7, <1>15, <3>1
    <3>3. ReadsInCode("comma", sql[c], "end")
      BY <1>5 DEF ReadsInCode, Seen, Follows
    <3> QED BY <1>16, <2>3, <3>2, <3>3, ReadsCode
  <2>4. CASE i > e
    <3>1. PICK j \in 1 .. n - c : i = e + j /\ i + 1 = e + (j + 1) /\ c + (j + 1) = (c + j) + 1 /\ c + j \in 1 .. n
      <4>1. i - e \in 1 .. n - c /\ i = e + (i - e) /\ i + 1 = e + ((i - e) + 1)
            /\ c + ((i - e) + 1) = (c + (i - e)) + 1 /\ c + (i - e) \in 1 .. n
        BY <1>9, <1>10, <2>4
      <4> QED BY <4>1
    <3>2. j \in 1 .. (n - c) + 1 /\ j + 1 \in 1 .. (n - c) + 1 /\ j \in 0 .. n - c
      BY <1>5
    <3>3. Reads(mode[c + j], place[c + j], sql[c + j], mode[c + (j + 1)], place[c + (j + 1)])
      BY <1>8, <3>1
    <3> QED BY <1>7, <1>15, <3>1, <3>2, <3>3
  <2> QED BY <1>3, <1>5, <2>1, <2>2, <2>3, <2>4
<1>21. Path(new, M, P)
  BY <1>4, <1>7, <1>17, <1>18, <1>20 DEF Path
<1>22. SameAround(sql, mode, place, o, c, new, M, P, e)
  BY <1>1, <1>4, <1>7, <1>11, <1>12, <1>14, <1>15, <1>16, <1>19, <1>21 DEF SameAround
<1> QED BY <1>2, <1>3, <1>22

(* The table is where it was, with its block up to e.                      *)
LEMMA TableAgain ==
    ASSUME NEW sql, NEW mode, NEW place, Path(sql, mode, place), place[Len(sql) + 1] = "start",
           NEW p, NEW w, NEW o, NEW c, Table(sql, mode, place, p, w, o, c),
           NEW new, NEW newMode, NEW newPlace, NEW e,
           SameAround(sql, mode, place, o, c, new, newMode, newPlace, e)
    PROVE  /\ Table(new, newMode, newPlace, p, w, o, e) /\ newPlace[Len(new) + 1] = "start"
           /\ \A g : Gathered(sql, mode, w, g) => Gathered(new, newMode, w, g)
<1>1. PICK n \in Nat : n = Len(sql)
  BY DEF Path
<1>2. PICK l \in Nat : l = Len(new)
  BY DEF SameAround, Path
<1>3. /\ p \in 1 .. n /\ Seen(mode[p], sql[p]) /\ sql[p][1] = "create"
      /\ w \in 1 .. n /\ ColumnsEnd(sql, mode, place, p + 1, w) /\ sql[w][1] = "with"
      /\ o \in 1 .. n /\ Opens(sql, mode, place, w, o)
      /\ c \in 1 .. n /\ BodyEnd(sql, mode, place, o + 1, c)
  BY <1>1 DEF Table
<1>4. /\ w \in p + 1 .. n /\ Seen(mode[w], sql[w]) /\ place[w] = "columns" /\ StopsColumns(sql[w])
      /\ \A x \in p + 1 .. w - 1 : Seen(mode[x], sql[x]) => ~StopsColumns(sql[x])
  BY <1>1, <1>3 DEF ColumnsEnd
<1>5. /\ o \in w + 1 .. n /\ Unseen(sql, mode, w + 1, o)
      /\ Seen(mode[o], sql[o]) /\ sql[o][1] = "("
      /\ mode[o + 1] = "code" /\ place[o + 1] = "open"
  BY <1>1, <1>3 DEF Opens
<1>6. /\ c \in o + 1 .. n /\ Seen(mode[c], sql[c]) /\ sql[c][1] = ")" /\ mode[c + 1] = "code" /\ place[c + 1] = "end"
  BY <1>1, <1>3 DEF BodyEnd
<1>7. /\ e \in o + 1 .. l /\ l = (n - c) + e
      /\ \A i \in 1 .. o : new[i] = sql[i]
      /\ \A i \in 1 .. o + 1 : newMode[i] = mode[i] /\ newPlace[i] = place[i]
  BY <1>1, <1>2 DEF SameAround
<1>8. /\ \A i \in o + 1 .. e - 1 : Seen(newMode[i], new[i]) => Inner(new[i])
      /\ newMode[e] = "code" /\ newPlace[e] = "comma"
  BY DEF SameAround
<1>9. /\ \A i \in 0 .. n - c : new[e + i] = sql[c + i]
      /\ \A i \in 1 .. (n - c) + 1 : newMode[e + i] = mode[c + i] /\ newPlace[e + i] = place[c + i]
  BY <1>1 DEF SameAround
<1>10. /\ p \in 1 .. n /\ w \in p + 1 .. n /\ o \in w + 1 .. n /\ c \in o + 1 .. n
  BY <1>3, <1>4, <1>5, <1>6
<1>11. /\ e \in o + 1 .. l /\ l = (n - c) + e /\ e \in Nat
  <2>1. e \in o + 1 .. l /\ l = (n - c) + e
    BY <1>7
  <2> QED BY <1>10, <2>1
<1>12. \A i \in 1 .. o : new[i] = sql[i] /\ newMode[i] = mode[i] /\ newPlace[i] = place[i]
  <2>1. \A i \in 1 .. o : i \in 1 .. o + 1
    BY <1>10
  <2> QED BY <1>7, <2>1
<1>13. newMode[o + 1] = "code" /\ newPlace[o + 1] = "open"
  <2>1. o + 1 \in 1 .. o + 1
    BY <1>10
  <2> QED BY <1>5, <1>7, <2>1
<1>14. p \in 1 .. o /\ w \in 1 .. o /\ o \in 1 .. o
  BY <1>10
<1>15. ColumnsEnd(new, newMode, newPlace, p + 1, w)
  <2>1. w \in p + 1 .. l
    BY <1>10, <1>11
  <2>2. \A x \in p + 1 .. w - 1 : x \in 1 .. o
    BY <1>10
  <2> QED BY <1>2, <1>4, <1>12, <1>14, <2>1, <2>2 DEF ColumnsEnd
<1>16. Opens(new, newMode, newPlace, w, o)
  <2>1. o \in w + 1 .. l
    BY <1>10, <1>11
  <2>2. \A x \in w + 1 .. o - 1 : x \in 1 .. o
    BY <1>10
  <2>3. Unseen(new, newMode, w + 1, o)
    BY <1>5, <1>12, <2>2 DEF Unseen
  <2> QED BY <1>2, <1>5, <1>12, <1>13, <1>14, <2>1, <2>3 DEF Opens
<1>17. new[e] = sql[c] /\ newMode[e + 1] = "code" /\ newPlace[e + 1] = "end"
  <2>1. 0 \in 0 .. n - c /\ 1 \in 1 .. (n - c) + 1 /\ e + 0 = e /\ c + 0 = c
    BY <1>10, <1>11
  <2> QED BY <1>6, <1>9, <2>1
<1>18. BodyEnd(new, newMode, newPlace, o + 1, e)
  <2>1. Seen(newMode[e], new[e]) /\ new[e][1] = ")"
    BY <1>6, <1>8, <1>17 DEF Seen
  <2> QED BY <1>2, <1>8, <1>11, <1>17, <2>1 DEF BodyEnd
<1>19. p \in 1 .. l /\ w \in 1 .. l /\ o \in 1 .. l /\ e \in 1 .. l
  BY <1>10, <1>11
<1>20. Table(new, newMode, newPlace, p, w, o, e)
  BY <1>2, <1>3, <1>12, <1>14, <1>15, <1>16, <1>18, <1>19 DEF Table
<1>21. newPlace[l + 1] = "start"
  <2>1. (n - c) + 1 \in 1 .. (n - c) + 1 /\ e + ((n - c) + 1) = l + 1 /\ c + ((n - c) + 1) = n + 1
    BY <1>10, <1>11
  <2>2. newPlace[e + ((n - c) + 1)] = place[c + ((n - c) + 1)]
    BY <1>9, <2>1
  <2> QED BY <1>1, <2>1, <2>2
<1>22. ASSUME NEW g, Gathered(sql, mode, w, g)
       PROVE  Gathered(new, newMode, w, g)
  <2>1. \A x \in 1 .. w - 1 : x \in 1 .. o
    BY <1>10
  <2> QED BY <1>12, <1>22, <2>1 DEF Gathered
<1> QED BY <1>2, <1>20, <1>21, <1>22

(* An atom before the same statements makes the same of them.              *)
LEMMA StepsAlike ==
    ASSUME NEW sql, NEW new, NEW m, NEW i, NEW j, sql[i] = new[j],
           NEW rest \in StatementLists, NEW a \in StatementLists, NEW b \in StatementLists,
           Len(rest) >= 1, ReadStep(sql, m, i, rest, a), ReadStep(new, m, j, rest, b)
    PROVE  a = b
<1> DEFINE A == Seq(Atoms)
<1>1. CASE ~Seen(m, sql[i])
  BY <1>1, Zenon DEF ReadStep
<1>2. CASE Seen(m, sql[i]) /\ Semicolon(sql[i])
  BY <1>2, Zenon DEF ReadStep, Semicolon
<1>3. CASE Seen(m, sql[i]) /\ ~Semicolon(sql[i])
  <2>1. Begins(sql[i], rest, a) /\ Begins(sql[i], rest, b)
    BY <1>3, Zenon DEF ReadStep, Semicolon
  <2>2. a \in Seq(A) /\ b \in Seq(A) /\ rest \in Seq(A)
    BY DEF StatementLists
  <2> HIDE DEF A
  <2>3. Len(a) = Len(rest) /\ Len(b) = Len(rest) /\ a[1] = b[1]
        /\ \A k \in 2 .. Len(rest) : a[k] = b[k]
    BY <2>1 DEF Begins
  <2>4. \A k \in 1 .. Len(a) : a[k] = b[k]
    <3>1. Len(rest) \in Nat
      BY <2>2
    <3>2. \A k \in 1 .. Len(rest) : k = 1 \/ k \in 2 .. Len(rest)
      BY <3>1
    <3> QED BY <2>3, <3>2
  <2> QED BY <2>2, <2>3, <2>4, SameSeq
<1> QED BY <1>1, <1>2, <1>3

(* What follows a block is read as before.                                 *)
BothRead(sql, mode, place, r, o, c, new, newMode, newPlace, s, e) ==
    /\ Path(sql, mode, place) /\ Along(sql, mode, r) /\ Along(new, newMode, s)
    /\ SameAround(sql, mode, place, o, c, new, newMode, newPlace, e)
    /\ c \in 1 .. Len(sql) /\ Seen(mode[c], sql[c]) /\ o \in Nat

(* From the parenthesis on that closes the block, the same is read.        *)
LEMMA SameBehind ==
    ASSUME NEW sql, NEW mode, NEW place, NEW r, NEW o, NEW c, NEW new, NEW newMode, NEW newPlace, NEW s, NEW e,
           BothRead(sql, mode, place, r, o, c, new, newMode, newPlace, s, e)
    PROVE  s[e] = r[c]
<1>1. /\ Path(sql, mode, place) /\ Along(sql, mode, r) /\ Along(new, newMode, s)
      /\ SameAround(sql, mode, place, o, c, new, newMode, newPlace, e)
      /\ c \in 1 .. Len(sql) /\ Seen(mode[c], sql[c]) /\ o \in Nat
  BY DEF BothRead
<1>2. PICK n \in Nat : n = Len(sql)
  BY <1>1 DEF Path
<1>3. PICK l \in Nat : l = Len(new)
  <2>1. Path(new, newMode, newPlace)
    BY <1>1 DEF SameAround
  <2> QED BY <2>1 DEF Path
<1>4. /\ e \in o + 1 .. l /\ l = (n - c) + e
  BY <1>2, <1>3, <1>1 DEF SameAround
<1>5. c \in 1 .. n /\ e \in 1 .. l /\ e \in Nat
  <2>1. e \in o + 1 .. l
    BY <1>4
  <2> QED BY <1>2, <1>1, <2>1
<1>6. l = (n - c) + e
  BY <1>4
<1>7. /\ newMode[e] = "code"
      /\ \A i \in 0 .. n - c : new[e + i] = sql[c + i]
      /\ \A i \in 1 .. (n - c) + 1 : newMode[e + i] = mode[c + i]
  BY <1>2, <1>1 DEF SameAround
<1>8. mode[c] = "code" /\ \A i \in 0 .. n - c : newMode[e + i] = mode[c + i]
  <2>1. mode[c] = "code" /\ e + 0 = e /\ c + 0 = c
    BY <1>5, <1>1 DEF Seen
  <2>2. \A i \in 0 .. n - c : i = 0 \/ i \in 1 .. (n - c) + 1
    BY <1>5
  <2> QED BY <1>7, <2>1, <2>2
<1>9. /\ r \in [1 .. n + 1 -> StatementLists] /\ \A i \in 1 .. n + 1 : Len(r[i]) >= 1
      /\ r[n + 1] = << <<>> >>
      /\ \A i \in 1 .. n : ReadStep(sql, mode[i], i, r[i + 1], r[i])
  <2> HIDE DEF ReadStep
  <2> QED BY <1>2, <1>1, Zenon DEF Along
<1>10. /\ s \in [1 .. l + 1 -> StatementLists]
       /\ s[l + 1] = << <<>> >>
       /\ \A i \in 1 .. l : ReadStep(new, newMode[i], i, s[i + 1], s[i])
  BY <1>3, <1>1, Zenon DEF Along
<1> DEFINE S == {x \in 1 .. (n - c) + 2 : s[(e + x) - 1] = r[(c + x) - 1]}
<1>11. ASSUME NEW x \in 1 .. (n - c) + 2, \A y \in 1 .. (n - c) + 2 : x < y => y \in S
       PROVE  x \in S
  <2>1. CASE x = (n - c) + 2
    <3>1. (e + x) - 1 = l + 1 /\ (c + x) - 1 = n + 1
      BY <1>5, <1>6, <2>1
    <3> QED BY <1>9, <1>10, <3>1
  <2>2. CASE x # (n - c) + 2
    <3>1. PICK i, j : /\ i = (c + x) - 1 /\ j = (e + x) - 1 /\ i \in 1 .. n /\ j \in 1 .. l
                      /\ i + 1 = (c + (x + 1)) - 1 /\ j + 1 = (e + (x + 1)) - 1
                      /\ i = c + (x - 1) /\ j = e + (x - 1) /\ x - 1 \in 0 .. n - c
                      /\ i \in 1 .. n + 1 /\ i + 1 \in 1 .. n + 1 /\ j \in 1 .. l + 1
      BY <1>5, <1>6, <2>2
    <3>2. x + 1 \in 1 .. (n - c) + 2 /\ x < x + 1
      BY <1>5, <2>2
    <3>3. x + 1 \in S
      <4> HIDE DEF S
      <4> QED BY <1>11, <3>2
    <3>4. s[j + 1] = r[i + 1]
      BY <3>1, <3>3
    <3>5. sql[i] = new[j] /\ newMode[j] = mode[i]
      BY <1>7, <1>8, <3>1
    <3>6. ReadStep(sql, mode[i], i, r[i + 1], r[i]) /\ ReadStep(new, mode[i], j, r[i + 1], s[j])
      <4>1. ReadStep(sql, mode[i], i, r[i + 1], r[i]) /\ ReadStep(new, newMode[j], j, s[j + 1], s[j])
        BY <1>9, <1>10, <3>1
      <4> QED BY <3>4, <3>5, <4>1
    <3>7. r[i] \in StatementLists /\ r[i + 1] \in StatementLists /\ s[j] \in StatementLists /\ Len(r[i + 1]) >= 1
      BY <1>9, <1>10, <3>1
    <3>8. s[j] = r[i]
      BY <3>5, <3>6, <3>7, StepsAlike
    <3> QED BY <3>1, <3>8
  <2> QED BY <2>1, <2>2
<1>12. 1 .. (n - c) + 2 \subseteq S
  <2>1. (n - c) + 2 \in Nat
    BY <1>5
  <2> HIDE DEF S
  <2> QED BY <1>11, <2>1, Downward
<1>13. 1 \in S
  <2>1. 1 \in 1 .. (n - c) + 2
    BY <1>5
  <2> HIDE DEF S
  <2> QED BY <1>12, <2>1
<1>14. (e + 1) - 1 = e /\ (c + 1) - 1 = c
  BY <1>5
<1> QED BY <1>13, <1>14

(* A semicolon puts an empty statement first.                              *)
StartsEmpty(rest, all) ==
    /\ all[1] = <<>> /\ Len(all) = Len(rest) + 1
    /\ \A j \in 1 .. Len(rest) : all[j + 1] = rest[j]

(* It does so in what is read of a text.                                   *)
LEMMA EmptyFirst ==
    ASSUME NEW sql, NEW mode, NEW place, Path(sql, mode, place), NEW r, Along(sql, mode, r), NEW x \in 1 .. Len(sql),
           Seen(mode[x], sql[x]), Semicolon(sql[x])
    PROVE  StartsEmpty(r[x + 1], r[x])
<1>1. sql \in Seq(Atoms)
  BY DEF Path
<1>2. /\ r[x][1] = <<>> /\ Len(r[x]) = Len(r[x + 1]) + 1
      /\ \A j \in 1 .. Len(r[x + 1]) : r[x][j + 1] = r[x + 1][j]
  BY <1>1, EndsOne
<1> QED BY <1>2 DEF StartsEmpty

(* Lists of statements that differ in one at most.                         *)
DifferAt(A, B, k) ==
    Len(B) = Len(A) /\ \A j \in 1 .. Len(A) : j # k => B[j] = A[j]

(* Two texts that are the same up to p, where only the first statement     *)
(* differs.                                                                *)
SameUpTo(sql, mode, place, r, new, newMode, newPlace, s, p) ==
    /\ Path(sql, mode, place) /\ Along(sql, mode, r)
    /\ Path(new, newMode, newPlace) /\ Along(new, newMode, s)
    /\ p \in 1 .. Len(sql) /\ p \in 1 .. Len(new)
    /\ \A i \in 1 .. p : new[i] = sql[i] /\ newMode[i] = mode[i]
    /\ Len(s[p]) = Len(r[p]) /\ \A j \in 2 .. Len(r[p]) : s[p][j] = r[p][j]

(* The statement with the block is the one with this number.               *)
NumberOf(r, p) == (Len(r[1]) - Len(r[p])) + 1

(* Before the block, only the statement with the block is read otherwise.  *)
LEMMA SameBefore ==
    ASSUME NEW sql, NEW mode, NEW place, NEW r, NEW new, NEW newMode, NEW newPlace, NEW s, NEW p,
           SameUpTo(sql, mode, place, r, new, newMode, newPlace, s, p)
    PROVE  DifferAt(r[1], s[1], NumberOf(r, p))
<1>1. /\ Path(sql, mode, place) /\ Along(sql, mode, r)
      /\ Path(new, newMode, newPlace) /\ Along(new, newMode, s)
      /\ p \in 1 .. Len(sql) /\ p \in 1 .. Len(new)
  BY DEF SameUpTo
<1>2. /\ \A i \in 1 .. p : new[i] = sql[i] /\ newMode[i] = mode[i]
      /\ Len(s[p]) = Len(r[p]) /\ \A j \in 2 .. Len(r[p]) : s[p][j] = r[p][j]
  BY DEF SameUpTo
<1>3. PICK n \in Nat : n = Len(sql)
  BY <1>1 DEF Path
<1>4. PICK l \in Nat : l = Len(new)
  BY <1>1 DEF Path
<1>5. p \in 1 .. n /\ p \in 1 .. l
  BY <1>3, <1>4, <1>1
<1>6. \A i \in 1 .. n + 1 : Len(r[i]) \in Nat /\ Len(r[i]) >= 1
  BY <1>3, <1>1, ReadLens DEF Path
<1>7. PICK b \in Nat : b = Len(r[p]) /\ b >= 1
  BY <1>5, <1>6
<1> DEFINE S == {x \in 1 .. p : /\ Len(s[x]) = Len(r[x]) /\ b <= Len(r[x])
                               /\ \A j \in 1 .. Len(r[x]) : j # (Len(r[x]) - b) + 1 => s[x][j] = r[x][j]}
<1>8. ASSUME NEW x \in 1 .. p, \A y \in 1 .. p : x < y => y \in S
      PROVE  x \in S
  <2>1. CASE x = p
    <3>1. \A j \in 1 .. b : j # (b - b) + 1 => j \in 2 .. b
      OBVIOUS
    <3> QED BY <1>7, <1>2, <2>1, <3>1
  <2>2. CASE x # p
    <3>1. x \in 1 .. n /\ x \in 1 .. l /\ x + 1 \in 1 .. p /\ x < x + 1 /\ x \in 1 .. n + 1 /\ x + 1 \in 1 .. n + 1
      BY <1>5, <2>2
    <3>2. x + 1 \in S
      <4> HIDE DEF S
      <4> QED BY <1>8, <3>1
    <3>3. PICK d \in Nat, e \in Nat : d = Len(r[x + 1]) /\ e = Len(r[x]) /\ d >= 1 /\ e >= 1
      BY <1>6, <3>1
    <3>4. /\ Len(s[x + 1]) = d /\ b <= d
          /\ \A j \in 1 .. d : j # (d - b) + 1 => s[x + 1][j] = r[x + 1][j]
      BY <3>2, <3>3
    <3>5. new[x] = sql[x] /\ newMode[x] = mode[x]
      BY <1>2, <3>1
    <3> SUFFICES /\ Len(s[x]) = e /\ b <= e
                 /\ \A j \in 1 .. e : j # (e - b) + 1 => s[x][j] = r[x][j]
      BY <3>3
    <3>6. CASE ~Seen(mode[x], sql[x])
      <4>1. x \in 1 .. Len(sql)
        BY <1>3, <3>1
      <4>2. r[x] = r[x + 1]
        <5>1. ReadStep(sql, mode[x], x, r[x + 1], r[x])
          BY <1>1, <4>1, Zenon DEF Along
        <5> QED BY <3>6, <5>1, Zenon DEF ReadStep
      <4>3. s[x] = s[x + 1]
        BY <1>4, <1>1, <3>1, <3>5, <3>6, ReadsOn
      <4> QED BY <3>3, <3>4, <4>2, <4>3
    <3>7. CASE Seen(mode[x], sql[x]) /\ Semicolon(sql[x])
      <4>1. x \in 1 .. Len(sql) /\ x \in 1 .. Len(new)
        BY <1>3, <1>4, <3>1
      <4>2. StartsEmpty(r[x + 1], r[x])
        BY <1>1, <3>7, <4>1, EmptyFirst
      <4>3. StartsEmpty(s[x + 1], s[x])
        BY <1>1, <3>5, <3>7, <4>1, EmptyFirst
      <4>4. r[x][1] = <<>> /\ Len(r[x]) = Len(r[x + 1]) + 1 /\ \A j \in 1 .. Len(r[x + 1]) : r[x][j + 1] = r[x + 1][j]
        BY <4>2 DEF StartsEmpty
      <4>5. s[x][1] = <<>> /\ Len(s[x]) = Len(s[x + 1]) + 1 /\ \A j \in 1 .. Len(s[x + 1]) : s[x][j + 1] = s[x + 1][j]
        BY <4>3 DEF StartsEmpty
      <4>6. e = d + 1 /\ Len(s[x]) = e
        BY <3>3, <3>4, <4>4, <4>5
      <4>7. ASSUME NEW j \in 1 .. e, j # (e - b) + 1
            PROVE  s[x][j] = r[x][j]
        <5>1. CASE j = 1
          BY <4>4, <4>5, <5>1
        <5>2. CASE j # 1
          <6>1. PICK k \in 1 .. d : k + 1 = j /\ k # (d - b) + 1
            <7>1. j - 1 \in 1 .. d /\ (j - 1) + 1 = j /\ j - 1 # (d - b) + 1
              BY <4>6, <4>7, <5>2
            <7> QED BY <7>1
          <6>2. r[x][k + 1] = r[x + 1][k] /\ s[x][k + 1] = s[x + 1][k]
            BY <3>3, <3>4, <4>4, <4>5
          <6> QED BY <3>4, <6>1, <6>2
        <5> QED BY <5>1, <5>2
      <4>8. b <= e
        BY <3>4, <4>6
      <4> QED BY <4>6, <4>7, <4>8
    <3>8. CASE Seen(mode[x], sql[x]) /\ ~Semicolon(sql[x])
      <4>1. Begins(sql[x], r[x + 1], r[x])
        <5>1. ReadStep(sql, mode[x], x, r[x + 1], r[x])
          BY <1>3, <1>1, <3>1, Zenon DEF Along
        <5> QED BY <3>8, <5>1, Zenon DEF ReadStep, Semicolon
      <4>2. Begins(sql[x], s[x + 1], s[x])
        <5>1. ReadStep(new, newMode[x], x, s[x + 1], s[x])
          BY <1>4, <1>1, <3>1, Zenon DEF Along
        <5> QED BY <3>5, <3>8, <5>1, Zenon DEF ReadStep, Semicolon
      <4>3. e = d /\ Len(s[x]) = e
        BY <3>3, <3>4, <4>1, <4>2 DEF Begins
      <4>4. ASSUME NEW j \in 1 .. e, j # (e - b) + 1
            PROVE  s[x][j] = r[x][j]
        <5>1. j \in 1 .. d /\ j # (d - b) + 1
          BY <4>3, <4>4
        <5>2. s[x + 1][j] = r[x + 1][j]
          BY <3>4, <5>1
        <5>3. CASE j = 1
          BY <4>1, <4>2, <5>2, <5>3 DEF Begins
        <5>4. CASE j # 1
          <6>1. j \in 2 .. d
            BY <4>3, <5>4
          <6>2. r[x][j] = r[x + 1][j]
            BY <3>3, <4>1, <6>1 DEF Begins
          <6>3. s[x][j] = s[x + 1][j]
            BY <3>4, <4>2, <6>1 DEF Begins
          <6> QED BY <5>2, <6>2, <6>3
        <5> QED BY <5>3, <5>4
      <4> QED BY <3>4, <4>3, <4>4
    <3> QED BY <3>6, <3>7, <3>8
  <2> QED BY <2>1, <2>2
<1>9. 1 .. p \subseteq S
  <2>1. p \in Nat
    BY <1>5
  <2> HIDE DEF S
  <2> QED BY <1>8, <2>1, Downward
<1>10. 1 \in S
  <2>1. 1 \in 1 .. p
    BY <1>5
  <2> HIDE DEF S
  <2> QED BY <1>9, <2>1
<1> QED BY <1>7, <1>10 DEF DifferAt, NumberOf

(* A position at the start of a statement has the number of that           *)
(* statement.                                                              *)
LEMMA NumbersRead ==
    ASSUME NEW sql, NEW mode, NEW place, Path(sql, mode, place), NEW r, Along(sql, mode, r),
           NEW p \in 1 .. Len(sql), place[p] = "start"
    PROVE  NumberOf(r, p) \in 1 .. Len(r[1]) /\ r[1][NumberOf(r, p)] = r[p][1]
<1>1. p \in 1 .. Len(sql) + 1 /\ 1 \in 1 .. Len(sql) + 1 /\ sql \in Seq(Atoms)
  BY DEF Path
<1>2. /\ Len(r[p]) <= Len(r[1])
      /\ \A j \in 1 .. Len(r[p]) : j >= 2 \/ place[p] = "start" => r[1][(Len(r[1]) - Len(r[p])) + j] = r[p][j]
  <2>1. PICK q \in 1 .. Len(sql) + 1 : q = p
    BY <1>1
  <2>2. IsBehind(r, place, q)
    BY ReadBehind
  <2> QED BY <2>1, <2>2 DEF IsBehind
<1>3. Len(r[p]) \in Nat /\ Len(r[p]) >= 1 /\ Len(r[1]) \in Nat
  BY <1>1, ReadLens
<1>4. 1 \in 1 .. Len(r[p])
  BY <1>3
<1>5. r[1][(Len(r[1]) - Len(r[p])) + 1] = r[p][1]
  BY <1>2, <1>4
<1>6. PICK a \in Nat, b \in Nat : a = Len(r[1]) /\ b = Len(r[p]) /\ b <= a /\ b >= 1
  BY <1>2, <1>3
<1>7. (a - b) + 1 \in 1 .. a
  <2>1. b <= a /\ b >= 1
    BY <1>6
  <2> QED BY <2>1
<1> QED BY <1>5, <1>6, <1>7 DEF NumberOf

(* What a table is read as.                                                *)
LEMMA BlockMeans ==
    ASSUME NEW sql, NEW mode, NEW place, Path(sql, mode, place), place[Len(sql) + 1] = "start",
           NEW r, Along(sql, mode, r), NEW p, NEW w, NEW o, NEW c, Table(sql, mode, place, p, w, o, c),
           NEW g, Gathered(sql, mode, w, g)
    PROVE  /\ Meaning(r[p][1]) = [head |-> g[p], options |-> Read(SubSeq(sql, o + 1, c - 1))]
           /\ Len(r[p]) = Len(r[c]) /\ \A j \in 2 .. Len(r[p]) : r[p][j] = r[c][j]
           /\ g[p] \in Seq(Atoms) /\ Len(g[p]) >= 1 /\ g[p][1] = sql[p]
           /\ NoneEnds(sql, mode, p, c)
<1>1. /\ p \in 1 .. Len(sql) /\ Seen(mode[p], sql[p]) /\ sql[p][1] = "create"
      /\ w \in 1 .. Len(sql) /\ ColumnsEnd(sql, mode, place, p + 1, w)
  BY DEF Table
<1>2. /\ sql[w][1] = "with"
      /\ o \in 1 .. Len(sql) /\ Opens(sql, mode, place, w, o)
      /\ c \in 1 .. Len(sql) /\ BodyEnd(sql, mode, place, o + 1, c)
  BY DEF Table
<1>3. g[p] \in Seq(Atoms) /\ Len(g[p]) >= 1 /\ g[p][1] = sql[p]
  BY <1>1, HeadGathered
<1>4. /\ Meaning(r[p][1]) = [head |-> g[p], options |-> Read(SubSeq(sql, o + 1, c - 1))]
      /\ NoneEnds(sql, mode, p, c)
      /\ Len(r[p]) = Len(r[c]) /\ \A j \in 2 .. Len(r[p]) : r[p][j] = r[c][j]
  BY <1>1, <1>2, TableRead, SMTT(30)
<1> QED BY <1>3, <1>4

(* The new block is where the old one was.                                 *)
LEMMA ReplacedIs ==
    ASSUME NEW sql \in Seq(Atoms), NEW o \in Nat, NEW c \in 1 .. Len(sql), NEW body \in Seq(Atoms),
           NEW new, Replaces(sql, o, c, body, new), NEW e, e = (o + 1) + Len(body)
    PROVE  SubSeq(new, o + 1, e - 1) = body
<1>1. PICK m \in Nat : m = Len(body)
  OBVIOUS
<1>2. PICK l \in Nat : l = Len(new)
  <2>1. new \in Seq(Atoms)
    BY DEF Replaces
  <2> QED BY <2>1
<1>3. PICK d \in Nat : d = Len(sql) - c
  OBVIOUS
<1>4. new \in Seq(Atoms) /\ l = d + ((o + 1) + m) /\ \A i \in 1 .. m : new[o + i] = body[i]
  BY <1>1, <1>2, <1>3 DEF Replaces
<1>5. PICK k \in Nat : k = e - 1 /\ k = o + m
  BY <1>1
<1>6. PICK f \in Nat : f = o + 1
  OBVIOUS
<1>7. l = d + ((o + 1) + m)
  BY <1>4
<1>8. f \in 1 .. l + 1 /\ k <= l /\ k >= f - 1 /\ k - f + 1 = m /\ \A i \in 1 .. m : f + i - 1 = o + i
  BY <1>5, <1>6, <1>7
<1> DEFINE A == Atoms
<1>9. SubSeq(new, f, k) \in Seq(A) /\ Len(SubSeq(new, f, k)) = m
      /\ \A i \in 1 .. m : SubSeq(new, f, k)[i] = new[f + i - 1]
  <2>1. new \in Seq(A) /\ f \in 1 .. Len(new) + 1 /\ k <= Len(new) /\ k >= f - 1
    BY <1>2, <1>4, <1>8
  <2> HIDE DEF A
  <2>2. SubSeq(new, f, k) \in Seq(A) /\ Len(SubSeq(new, f, k)) = k - f + 1
        /\ \A i \in 1 .. k - f + 1 : SubSeq(new, f, k)[i] = new[f + i - 1]
    BY <2>1, SubSeqIs
  <2> QED BY <1>8, <2>2
<1>10. \A i \in 1 .. m : SubSeq(new, f, k)[i] = body[i]
  BY <1>4, <1>8, <1>9
<1>11. body \in Seq(A)
  OBVIOUS
<1>12. SubSeq(new, f, k) = body
  <2> HIDE DEF A
  <2> QED BY <1>1, <1>9, <1>10, <1>11, SameSeq
<1> QED BY <1>5, <1>6, <1>12

(* The meanings differ in one statement if the statements do.              *)
MeansOther(sql, new, k, m) ==
    /\ DOMAIN Meanings(sql) = 1 .. Len(Statements(sql)) /\ Meanings(sql)[k] = Meaning(Statements(sql)[k])
    /\ Meanings(new) = [Meanings(sql) EXCEPT ![k] = m]

(* They differ in that one alone.                                          *)
LEMMA OneMeansOther ==
    ASSUME NEW sql, NEW new, Statements(sql) \in StatementLists, Statements(new) \in StatementLists,
           NEW k \in 1 .. Len(Statements(sql)), DifferAt(Statements(sql), Statements(new), k)
    PROVE  MeansOther(sql, new, k, Meaning(Statements(new)[k]))
<1> DEFINE T == Seq(Atoms)
<1>1. PICK A, B : A = Statements(sql) /\ B = Statements(new)
  OBVIOUS
<1>2. A \in Seq(T) /\ B \in Seq(T)
  BY <1>1 DEF StatementLists
<1> HIDE DEF T
<1>3. PICK a \in Nat : a = Len(A)
  BY <1>2
<1>4. Len(B) = a /\ \A j \in 1 .. a : j # k => B[j] = A[j]
  BY <1>1, <1>3 DEF DifferAt
<1>5. DOMAIN A = 1 .. a /\ DOMAIN B = 1 .. a
  BY <1>2, <1>3, <1>4
<1>6. /\ Meanings(sql) = [j \in 1 .. a |-> Meaning(A[j])]
      /\ Meanings(new) = [j \in 1 .. a |-> Meaning(B[j])]
  BY <1>1, <1>5, Zenon DEF Meanings
<1>7. \A j \in 1 .. a : Meaning(B[j]) = IF j = k THEN Meaning(B[k]) ELSE Meaning(A[j])
  BY <1>4
<1>8. k \in 1 .. a
  BY <1>1, <1>3
<1>9. [j \in 1 .. a |-> Meaning(B[j])] = [[j \in 1 .. a |-> Meaning(A[j])] EXCEPT ![k] = Meaning(B[k])]
  BY <1>7, <1>8
<1> QED BY <1>1, <1>3, <1>6, <1>8, <1>9 DEF MeansOther

(* Another block is read as other options of the same table; everything    *)
(* else in the text means what it meant.                                   *)
OneTableOther(sql, new, k, head, old, options) ==
    /\ head \in Seq(Atoms) /\ Len(head) >= 1
    /\ k \in DOMAIN Meanings(sql) /\ Meanings(sql)[k] = [head |-> head, options |-> old]
    /\ Meanings(new) = [Meanings(sql) EXCEPT ![k] = [head |-> head, options |-> options]]

(* A text with another block has other options in that table, and is read  *)
(* as before in all else.                                                  *)
LEMMA OtherOptions ==
    ASSUME NEW sql, NEW mode, NEW place, Path(sql, mode, place), mode[1] = "code", place[Len(sql) + 1] = "start",
           NEW r, Along(sql, mode, r), Statements(sql) = r[1],
           NEW p, NEW w, NEW o, NEW c, Table(sql, mode, place, p, w, o, c), place[p] = "start",
           NEW options \in Seq(OptionPairs), Len(options) >= 1,
           NEW new, Replaces(sql, o, c, Rendered(options), new)
    PROVE  \E head :
              /\ head[1] = sql[p]
              /\ OneTableOther(sql, new, NumberOf(r, p), head, Read(SubSeq(sql, o + 1, c - 1)), options)
<1>1. PICK n \in Nat : n = Len(sql)
  BY DEF Path
<1>2. p \in 1 .. n /\ w \in 1 .. n /\ o \in 1 .. n /\ c \in 1 .. n
  BY <1>1 DEF Table
<1>3. /\ w \in p + 1 .. n /\ o \in w + 1 .. n /\ c \in o + 1 .. n
      /\ mode[o + 1] = "code" /\ place[o + 1] = "open" /\ Seen(mode[c], sql[c]) /\ BodyEnd(sql, mode, place, o + 1, c)
  BY <1>1 DEF Table, ColumnsEnd, Opens, BodyEnd
<1>4. p < o
  BY <1>2, <1>3
<1>5. PICK e : e = (o + 1) + 5 * Len(options)
  OBVIOUS
<1>6. PICK newMode, newPlace : SameAround(sql, mode, place, o, c, new, newMode, newPlace, e)
  <2>1. o \in 1 .. Len(sql) /\ c \in 1 .. Len(sql)
    BY <1>1, <1>2
  <2> QED BY <1>3, <1>5, <2>1, BlockWritten
<1>7. Path(new, newMode, newPlace)
  BY <1>6 DEF SameAround
<1>8. \A i \in 1 .. o + 1 : newMode[i] = mode[i] /\ newPlace[i] = place[i]
  BY <1>6 DEF SameAround
<1>9. \A i \in 1 .. p : new[i] = sql[i] /\ newMode[i] = mode[i] /\ newPlace[i] = place[i]
  <2>1. \A i \in 1 .. p : i \in 1 .. o /\ i \in 1 .. o + 1
    BY <1>2, <1>4
  <2>2. \A i \in 1 .. o : new[i] = sql[i]
    BY DEF Replaces
  <2> QED BY <1>8, <2>1, <2>2
<1>10. new \in Seq(Atoms) /\ sql \in Seq(Atoms)
  BY <1>7 DEF Path
<1>11. PICK s : Statements(new) = s[1] /\ Along(new, newMode, s)
  <2>1. newMode[1] = "code"
    <3>1. 1 \in 1 .. p
      BY <1>2
    <3> QED BY <1>9, <3>1
  <2> QED BY <1>7, <1>10, <2>1, ReadsAlong
<1>12. /\ Table(new, newMode, newPlace, p, w, o, e) /\ newPlace[Len(new) + 1] = "start"
       /\ \A g : Gathered(sql, mode, w, g) => Gathered(new, newMode, w, g)
  BY <1>6, TableAgain
<1>13. PICK g : Gathered(sql, mode, w, g)
  <2>1. w \in 1 .. Len(sql) + 1
    BY <1>1, <1>2
  <2> QED BY <1>10, <2>1, Gathers
<1>14. /\ Meaning(r[p][1]) = [head |-> g[p], options |-> Read(SubSeq(sql, o + 1, c - 1))]
       /\ Len(r[p]) = Len(r[c]) /\ \A j \in 2 .. Len(r[p]) : r[p][j] = r[c][j]
       /\ g[p] \in Seq(Atoms) /\ Len(g[p]) >= 1 /\ g[p][1] = sql[p]
       /\ NoneEnds(sql, mode, p, c)
  BY <1>13, BlockMeans
<1>15. /\ Meaning(s[p][1]) = [head |-> g[p], options |-> Read(SubSeq(new, o + 1, e - 1))]
       /\ Len(s[p]) = Len(s[e]) /\ \A j \in 2 .. Len(s[p]) : s[p][j] = s[e][j]
       /\ g[p] \in Seq(Atoms) /\ Len(g[p]) >= 1 /\ g[p][1] = new[p]
       /\ NoneEnds(new, newMode, p, e)
  BY <1>7, <1>11, <1>12, <1>13, BlockMeans
<1>16. Read(SubSeq(new, o + 1, e - 1)) = options
  <2>1. Rendered(options) \in Seq(Atoms) /\ e = (o + 1) + Len(Rendered(options))
    BY <1>5, RenderedAtoms
  <2>2. o \in Nat /\ c \in 1 .. Len(sql)
    BY <1>1, <1>2
  <2>3. SubSeq(new, o + 1, e - 1) = Rendered(options)
    BY <1>10, <2>1, <2>2, ReplacedIs
  <2> QED BY <2>3, ReadsRendered
<1>17. s[e] = r[c]
  <2>1. BothRead(sql, mode, place, r, o, c, new, newMode, newPlace, s, e)
    BY <1>1, <1>2, <1>3, <1>6, <1>11 DEF BothRead
  <2> QED BY <2>1, SameBehind
<1>18. Len(s[p]) = Len(r[p]) /\ \A j \in 2 .. Len(r[p]) : s[p][j] = r[p][j]
  BY <1>14, <1>15, <1>17
<1>19. DifferAt(r[1], s[1], NumberOf(r, p))
  <2>1. p \in 1 .. Len(new)
    BY <1>12 DEF Table
  <2>2. SameUpTo(sql, mode, place, r, new, newMode, newPlace, s, p)
    BY <1>1, <1>2, <1>7, <1>9, <1>11, <1>18, <2>1 DEF SameUpTo
  <2> QED BY <2>2, SameBefore
<1>20. NumberOf(r, p) \in 1 .. Len(r[1]) /\ r[1][NumberOf(r, p)] = r[p][1]
  BY <1>1, <1>2, NumbersRead
<1>21. NumberOf(s, p) \in 1 .. Len(s[1]) /\ s[1][NumberOf(s, p)] = s[p][1]
  <2>1. p \in 1 .. Len(new) /\ newPlace[p] = "start"
    <3>1. p \in 1 .. p
      BY <1>2
    <3> QED BY <1>9, <1>12, <3>1 DEF Table
  <2> QED BY <1>7, <1>11, <2>1, NumbersRead
<1>22. NumberOf(s, p) = NumberOf(r, p)
  BY <1>18, <1>19 DEF DifferAt, NumberOf
<1>23. PICK k : k = NumberOf(r, p)
  OBVIOUS
<1>24. r[1] \in StatementLists /\ s[1] \in StatementLists
  <2>1. r \in [1 .. Len(sql) + 1 -> StatementLists] /\ s \in [1 .. Len(new) + 1 -> StatementLists]
    BY <1>11, Zenon DEF Along
  <2>2. 1 \in 1 .. Len(sql) + 1 /\ 1 \in 1 .. Len(new) + 1
    BY <1>10
  <2> QED BY <2>1, <2>2
<1>25. Meaning(s[1][k]) = [head |-> g[p], options |-> options]
  BY <1>15, <1>16, <1>21, <1>22, <1>23
<1>26. Meaning(r[1][k]) = [head |-> g[p], options |-> Read(SubSeq(sql, o + 1, c - 1))]
  BY <1>14, <1>20, <1>23
<1>27. MeansOther(sql, new, k, Meaning(s[1][k]))
  <2>1. k \in 1 .. Len(Statements(sql)) /\ DifferAt(Statements(sql), Statements(new), k)
    BY <1>11, <1>19, <1>20, <1>23
  <2>2. Statements(sql) \in StatementLists /\ Statements(new) \in StatementLists
    BY <1>11, <1>24
  <2>3. MeansOther(sql, new, k, Meaning(Statements(new)[k]))
    BY <2>1, <2>2, OneMeansOther
  <2> QED BY <1>11, <2>3
<1>28. /\ k \in DOMAIN Meanings(sql) /\ Meanings(sql)[k] = Meaning(r[1][k])
       /\ Meanings(new) = [Meanings(sql) EXCEPT ![k] = [head |-> g[p], options |-> options]]
  BY <1>20, <1>23, <1>25, <1>27 DEF MeansOther
<1>29. OneTableOther(sql, new, k, g[p], Read(SubSeq(sql, o + 1, c - 1)), options)
  BY <1>14, <1>26, <1>28 DEF OneTableOther
<1> QED BY <1>14, <1>23, <1>29

-----------------------------------------------------------------------------
(* The blocks that the code finds are the tables that Flink reads.         *)

(* A text that Flink can read, the path through it and what it is read as. *)
Readable(sql, mode, place, r) ==
    /\ sql \in Seq(Atoms) /\ Parses(sql, mode, place)
    /\ Statements(sql) = r[1] /\ Along(sql, mode, r)

(* What a readable text has.                                               *)
LEMMA ReadableIs ==
    ASSUME NEW sql, NEW mode, NEW place, NEW r, Readable(sql, mode, place, r)
    PROVE  /\ Path(sql, mode, place) /\ mode[1] = "code" /\ place[1] = "start" /\ place[Len(sql) + 1] = "start"
           /\ Statements(sql) = r[1] /\ Along(sql, mode, r) /\ sql \in Seq(Atoms)
BY Zenon DEF Readable, Parses, Path

(* A text through which there is a path is read as something.              *)
LEMMA ParsedIsReadable ==
    ASSUME NEW sql \in Seq(Atoms), NEW mode, NEW place, Parses(sql, mode, place)
    PROVE  \E r : Readable(sql, mode, place, r)
<1>1. Path(sql, mode, place) /\ mode[1] = "code"
  BY Zenon DEF Parses, Path
<1>2. PICK r : Statements(sql) = r[1] /\ Along(sql, mode, r)
  BY <1>1, ReadsAlong
<1> QED BY <1>2 DEF Readable

(* A CREATE TABLE begins a statement.                                      *)
LEMMA CreatesBegin ==
    ASSUME NEW sql, NEW mode, NEW place, Path(sql, mode, place), NEW p \in 1 .. Len(sql), sql[p][1] = "create"
    PROVE  Seen(mode[p], sql[p]) /\ place[p] = "start" /\ mode[p + 1] = "code" /\ place[p + 1] = "columns"
<1>1. Reads(mode[p], place[p], sql[p], mode[p + 1], place[p + 1])
  BY DEF Path
<1>2. mode[p] = "code"
  BY <1>1, Zenon DEF Reads
<1>3. sql[p][1] \notin {"nl", "--", "/*"}
  OBVIOUS
<1>4. Seen(mode[p], sql[p])
  BY <1>2, <1>3, Zenon DEF Seen
<1>5. mode[p + 1] = "code"
  <2>1. mode[p + 1] = NextMode(mode[p], sql[p])
    BY <1>1, Zenon DEF Reads
  <2> QED BY <1>2, <1>3, <2>1 DEF NextMode
<1>6. Follows(place[p], "create", place[p + 1])
  BY <1>1, <1>4, Zenon DEF Reads
<1>7. place[p] = "start" /\ place[p + 1] = "columns"
  BY <1>6 DEF Follows
<1> QED BY <1>4, <1>5, <1>7

(* A CREATE TABLE without options.                                         *)
Bare(sql, mode, place, p, w) ==
    /\ w \in 1 .. Len(sql) /\ ColumnsEnd(sql, mode, place, p + 1, w) /\ Semicolon(sql[w])

(* The code finds the WITH block of one that has, unless a comment hides   *)
(* it.                                                                     *)
Found(sql, p, o, c) ==
    IF Block(sql, p).close = 0 THEN ~NothingHides(sql)
    ELSE Block(sql, p).open = o /\ Block(sql, p).close = c

(* There is one or the other for every CREATE TABLE.                       *)
LEMMA CreateFound ==
    ASSUME NEW sql, NEW mode, NEW place, Path(sql, mode, place), place[Len(sql) + 1] = "start",
           NEW p \in 1 .. Len(sql), sql[p][1] = "create"
    PROVE  \E w : \/ Block(sql, p).close = 0 /\ Bare(sql, mode, place, p, w)
                  \/ \E o, c : Table(sql, mode, place, p, w, o, c) /\ Found(sql, p, o, c)
<1>1. sql \in Seq(Atoms) /\ Len(sql) \in Nat
  BY DEF Path
<1>2. Seen(mode[p], sql[p]) /\ mode[p + 1] = "code" /\ place[p + 1] = "columns"
  BY CreatesBegin
<1>3. PICK w \in 1 .. Len(sql) : ColumnsEnd(sql, mode, place, p + 1, w) /\ FindWithOpen(sql, p + 1) = FindWithOpen(sql, w)
  <2>1. p + 1 \in 1 .. Len(sql) + 1
    BY <1>1
  <2> QED BY <1>2, <2>1, FindsColumnsEnd
<1>4. /\ Block(sql, p).open = FindWithOpen(sql, w)
      /\ Block(sql, p).close = IF FindWithOpen(sql, w) = 0 THEN 0 ELSE MatchParen(sql, FindWithOpen(sql, w))
  BY <1>3 DEF Block
<1>5. Seen(mode[w], sql[w]) /\ place[w] = "columns" /\ StopsColumns(sql[w])
  BY <1>3 DEF ColumnsEnd
<1>6. sql[w][1] = "with" \/ Semicolon(sql[w])
  BY <1>5, Zenon DEF StopsColumns, Semicolon
<1>7. CASE Semicolon(sql[w])
  <2>1. FindWithOpen(sql, w) = 0
    <3>1. PICK find : /\ \A i \in 1 .. Len(sql) + 1 : FindWithOpen(sql, i) = find[i]
                      /\ Looks(sql, find)
      BY <1>1, FindLooks
    <3>2. find[w] = 0
      BY <1>7, <3>1, Zenon DEF Looks, Semicolon
    <3>3. w \in 1 .. Len(sql) + 1
      BY <1>1
    <3> QED BY <3>1, <3>2, <3>3
  <2> QED BY <1>3, <1>4, <1>7, <2>1 DEF Bare
<1>8. CASE sql[w][1] = "with"
  <2>1. PICK o \in 1 .. Len(sql) :
            /\ Opens(sql, mode, place, w, o)
            /\ FindWithOpen(sql, w) = o \/ (FindWithOpen(sql, w) = 0 /\ ~NothingHides(sql))
    BY <1>5, <1>8, WithOpens
  <2>2. sql[o][1] = "(" /\ mode[o + 1] = "code" /\ place[o + 1] = "open"
    BY <2>1 DEF Opens
  <2>3. PICK c \in 1 .. Len(sql) : BodyEnd(sql, mode, place, o + 1, c) /\ MatchParen(sql, o) = c
    BY <2>2, ClosesBody
  <2>4. Table(sql, mode, place, p, w, o, c)
    BY <1>2, <1>3, <1>8, <2>1, <2>3 DEF Table
  <2>5. Found(sql, p, o, c)
    <3>1. CASE FindWithOpen(sql, w) = o
      <4>1. Block(sql, p).open = o /\ Block(sql, p).close = c /\ c # 0
        BY <1>1, <1>4, <2>3, <3>1
      <4> QED BY <4>1 DEF Found
    <3>2. CASE FindWithOpen(sql, w) = 0 /\ ~NothingHides(sql)
      <4>1. Block(sql, p).close = 0
        BY <1>4, <3>2
      <4> QED BY <3>2, <4>1 DEF Found
    <3> QED BY <2>1, <3>1, <3>2
  <2> QED BY <2>4, <2>5
<1> QED BY <1>6, <1>7, <1>8

(* A block of the table whose CREATE TABLE is at b.at, found or not.       *)
TableAt(sql, mode, place, b) ==
    /\ b.at \in 1 .. Len(sql) /\ sql[b.at][1] = "create" /\ b.table = sql[b.at][2]
    /\ \E w : Table(sql, mode, place, b.at, w, b.open, b.close)

(* What findWithBlocks finds is the WITH block of a table.                 *)
LEMMA BlockIsTable ==
    ASSUME NEW sql, NEW mode, NEW place, Path(sql, mode, place), place[Len(sql) + 1] = "start",
           NEW b \in FindWithBlocks(sql)
    PROVE  /\ b.at \in 1 .. Len(sql) /\ sql[b.at][1] = "create" /\ b.table = sql[b.at][2] /\ b = Block(sql, b.at)
           /\ \E w : Table(sql, mode, place, b.at, w, b.open, b.close)
<1>1. sql \in Seq(Atoms)
  BY DEF Path
<1>2. PICK p \in DOMAIN sql : Is(sql, p, "create") /\ b = Block(sql, p) /\ b.close # 0
  BY DEF FindWithBlocks
<1>3. p \in 1 .. Len(sql) /\ sql[p][1] = "create" /\ b.at = p /\ b.table = sql[p][2]
  BY <1>1, <1>2 DEF Is, Block
<1>4. PICK w : \E o, c : Table(sql, mode, place, p, w, o, c) /\ Found(sql, p, o, c)
  BY <1>2, <1>3, CreateFound
<1>5. PICK o, c : Table(sql, mode, place, p, w, o, c) /\ Found(sql, p, o, c)
  BY <1>4
<1>6. b.open = o /\ b.close = c
  BY <1>2, <1>5 DEF Found
<1> QED BY <1>2, <1>3, <1>5, <1>6

(* A table without a WITH has no options.                                  *)
LEMMA BareMeans ==
    ASSUME NEW sql, NEW mode, NEW place, Path(sql, mode, place), NEW r, Along(sql, mode, r),
           NEW p \in 1 .. Len(sql), Seen(mode[p], sql[p]), sql[p][1] = "create",
           NEW w, Bare(sql, mode, place, p, w), NEW g, Gathered(sql, mode, w, g)
    PROVE  Meaning(r[p][1]) = [head |-> g[p], options |-> <<>>]
<1>1. PICK x \in 1 .. Len(sql) : x = w /\ ColumnsEnd(sql, mode, place, p + 1, x) /\ Semicolon(sql[x])
  BY DEF Bare
<1>2. Gathered(sql, mode, x, g)
  BY <1>1
<1> QED BY <1>1, <1>2, BareTableRead

(* No statement ends within a table and its block.                         *)
LEMMA BlockSpan ==
    ASSUME NEW sql, NEW mode, NEW place, Path(sql, mode, place), place[Len(sql) + 1] = "start",
           NEW r, Along(sql, mode, r), NEW p, NEW w, NEW o, NEW c, Table(sql, mode, place, p, w, o, c),
           NEW g, Gathered(sql, mode, w, g)
    PROVE  NoneEnds(sql, mode, p, c) /\ Len(r[p]) = Len(r[c])
<1>1. /\ Meaning(r[p][1]) = [head |-> g[p], options |-> Read(SubSeq(sql, o + 1, c - 1))]
      /\ Len(r[p]) = Len(r[c]) /\ \A j \in 2 .. Len(r[p]) : r[p][j] = r[c][j]
      /\ g[p] \in Seq(Atoms) /\ Len(g[p]) >= 1 /\ g[p][1] = sql[p]
      /\ NoneEnds(sql, mode, p, c)
  BY BlockMeans
<1> QED BY <1>1

(* The keys of a list of options differ.                                   *)
Differ(options) ==
    \A i, j \in 1 .. Len(options) : options[i][1] = options[j][1] => i = j

(* The code finds the connector that Flink reads, when the keys differ.    *)
LEMMA ConnectorIs ==
    ASSUME NEW options \in Seq(OptionPairs), Differ(options)
    PROVE  OptionValue(options, "connector") = "kafka" <=> <<"connector", "kafka">> \in Range(options)
<1> DEFINE S == KeysAt(options, "connector")
<1>1. DOMAIN options = 1 .. Len(options) /\ Len(options) \in Nat
  OBVIOUS
<1>2. S \subseteq Nat /\ \A i : i \in S <=> i \in 1 .. Len(options) /\ options[i][1] = "connector"
  BY <1>1 DEF KeysAt
<1>3. \A i \in 1 .. Len(options) : options[i] = <<options[i][1], options[i][2]>>
  BY DEF OptionPairs
<1>4. CASE S = {}
  <2>1. OptionValue(options, "connector") = "-"
    BY <1>4 DEF OptionValue, NoName
  <2>2. \A i \in 1 .. Len(options) : options[i] # <<"connector", "kafka">>
    <3>1. \A i \in 1 .. Len(options) : options[i][1] # "connector"
      BY <1>2, <1>4
    <3> QED BY <3>1
  <2> QED BY <1>1, <2>1, <2>2 DEF Range
<1>5. CASE S # {}
  <2>1. PICK m : m \in S /\ m = MinOr(S, 0)
    <3> HIDE DEF S
    <3> QED BY <1>2, <1>5, Least
  <2>2. OptionValue(options, "connector") = options[m][2]
    BY <1>5, <2>1 DEF OptionValue
  <2>3. m \in 1 .. Len(options) /\ options[m][1] = "connector"
    BY <1>2, <2>1
  <2>4. \A i \in 1 .. Len(options) : options[i] = <<"connector", "kafka">> => i = m
    BY <2>3 DEF Differ
  <2>5. options[m] = <<"connector", options[m][2]>>
    BY <1>3, <2>3
  <2>6. <<"connector", "kafka">> \in Range(options) <=> options[m] = <<"connector", "kafka">>
    BY <1>1, <2>3, <2>4 DEF Range
  <2> QED BY <2>2, <2>5, <2>6
<1> QED BY <1>4, <1>5

(* A table's statement begins with CREATE TABLE.                           *)
LEMMA HeadBegins ==
    ASSUME NEW st \in Seq(Atoms), IsTable(Meaning(st))
    PROVE  Len(st) >= 1 /\ st[1][1] = "create"
<1> DEFINE withs == {i \in DOMAIN st : Is(st, i, "with")}
           A == Atoms
<1>1. PICK w : w = MinOr(withs, Len(st) + 1)
  OBVIOUS
<1>2. PICK head : head = SubSeq(st, 1, w - 1) /\ Is(head, 1, "create")
  BY <1>1 DEF IsTable, Meaning
<1>3. PICK n \in Nat : n = Len(st)
  OBVIOUS
<1>4. w \in 1 .. n + 1
  <2>1. withs \subseteq 1 .. n
    BY <1>3
  <2>2. withs \subseteq Nat
    BY <2>1
  <2>3. w = n + 1 \/ w \in withs
    <3> HIDE DEF withs
    <3> QED BY <1>1, <1>3, <2>2, Least
  <2>4. w = n + 1 \/ w \in 1 .. n
    <3> HIDE DEF withs
    <3> QED BY <2>1, <2>3
  <2> HIDE DEF withs
  <2> QED BY <2>4
<1>5. PICK k \in Nat : k = w - 1
  BY <1>4
<1>6. Len(head) = k /\ \A i \in 1 .. k : head[i] = st[i]
  <2>1. st \in Seq(A) /\ 1 \in 1 .. Len(st) + 1 /\ k <= Len(st) /\ k >= 1 - 1 /\ k - 1 + 1 = k
        /\ \A i \in 1 .. k : 1 + i - 1 = i
    BY <1>3, <1>4, <1>5
  <2> HIDE DEF A
  <2>2. Len(SubSeq(st, 1, k)) = k - 1 + 1 /\ \A i \in 1 .. k - 1 + 1 : SubSeq(st, 1, k)[i] = st[1 + i - 1]
    BY <2>1, SubSeqIs
  <2> QED BY <1>2, <1>5, <2>1, <2>2
<1>7. 1 <= k /\ head[1][1] = "create"
  BY <1>2, <1>6 DEF Is
<1>8. 1 \in 1 .. k
  BY <1>7
<1> QED BY <1>3, <1>4, <1>5, <1>6, <1>7, <1>8

(* The k-th meaning of a text is the table of a block.                     *)
Describes(sql, k, b) ==
    /\ k \in DOMAIN Meanings(sql)
    /\ \E head \in Seq(Atoms) :
          /\ Len(head) >= 1 /\ head[1][1] = "create" /\ head[1][2] = b.table
          /\ Meanings(sql)[k] = [head |-> head, options |-> Read(Body(sql, b))]

(* A text means what its statements mean.                                  *)
LEMMA MeaningsAre ==
    ASSUME NEW sql, NEW mode, NEW place, NEW r, Readable(sql, mode, place, r)
    PROVE  /\ r[1] \in Seq(Seq(Atoms)) /\ DOMAIN Meanings(sql) = 1 .. Len(r[1])
           /\ \A k \in 1 .. Len(r[1]) : Meanings(sql)[k] = Meaning(r[1][k]) /\ r[1][k] \in Seq(Atoms)
<1> DEFINE T == Seq(Atoms)
<1>1. r[1] \in Seq(T)
  <2>1. r \in [1 .. Len(sql) + 1 -> StatementLists] /\ sql \in Seq(Atoms)
    BY ReadableIs, Zenon DEF Along
  <2>2. 1 \in 1 .. Len(sql) + 1
    BY <2>1
  <2> QED BY <2>1, <2>2 DEF StatementLists
<1> HIDE DEF T
<1>2. PICK A : A = r[1] /\ Statements(sql) = A
  BY ReadableIs
<1>3. DOMAIN A = 1 .. Len(A) /\ \A k \in 1 .. Len(A) : A[k] \in T
  BY <1>1, <1>2
<1>4. Meanings(sql) = [k \in 1 .. Len(A) |-> Meaning(A[k])]
  BY <1>2, <1>3, Zenon DEF Meanings
<1>5. DOMAIN Meanings(sql) = 1 .. Len(A) /\ \A k \in 1 .. Len(A) : Meanings(sql)[k] = Meaning(A[k])
  BY <1>4
<1> QED BY <1>1, <1>2, <1>3, <1>5 DEF T

(* Each block is the options of the table in whose statement it lies.      *)
LEMMA TableDescribed ==
    ASSUME NEW sql, NEW mode, NEW place, NEW r, Readable(sql, mode, place, r),
           NEW b, TableAt(sql, mode, place, b)
    PROVE  Describes(sql, NumberOf(r, b.at), b)
<1>1. /\ Path(sql, mode, place) /\ place[Len(sql) + 1] = "start"
      /\ Along(sql, mode, r) /\ sql \in Seq(Atoms)
  BY ReadableIs
<1>2. /\ b.at \in 1 .. Len(sql) /\ sql[b.at][1] = "create" /\ b.table = sql[b.at][2]
      /\ \E w : Table(sql, mode, place, b.at, w, b.open, b.close)
  BY DEF TableAt
<1>3. PICK w : Table(sql, mode, place, b.at, w, b.open, b.close)
  BY <1>2
<1>4. PICK g : Gathered(sql, mode, w, g)
  <2>1. w \in 1 .. Len(sql) + 1
    BY <1>1, <1>3 DEF Table
  <2> QED BY <1>1, <2>1, Gathers
<1>5. /\ Meaning(r[b.at][1]) = [head |-> g[b.at], options |-> Read(SubSeq(sql, b.open + 1, b.close - 1))]
      /\ g[b.at] \in Seq(Atoms) /\ Len(g[b.at]) >= 1 /\ g[b.at][1] = sql[b.at]
  BY <1>1, <1>3, <1>4, BlockMeans
<1>6. place[b.at] = "start"
  BY <1>1, <1>2, CreatesBegin
<1>7. NumberOf(r, b.at) \in 1 .. Len(r[1]) /\ r[1][NumberOf(r, b.at)] = r[b.at][1]
  BY <1>1, <1>2, <1>6, NumbersRead
<1>8. PICK k : k = NumberOf(r, b.at)
  OBVIOUS
<1>9. k \in DOMAIN Meanings(sql) /\ Meanings(sql)[k] = Meaning(r[1][k])
  BY <1>7, <1>8, MeaningsAre
<1>10. Meanings(sql)[k] = [head |-> g[b.at], options |-> Read(Body(sql, b))]
  BY <1>5, <1>7, <1>8, <1>9 DEF Body
<1> QED BY <1>2, <1>5, <1>8, <1>9, <1>10 DEF Describes

(* So is every block that the code finds.                                  *)
LEMMA BlockDescribed ==
    ASSUME NEW sql, NEW mode, NEW place, NEW r, Readable(sql, mode, place, r), NEW b \in FindWithBlocks(sql)
    PROVE  Describes(sql, NumberOf(r, b.at), b)
<1>1. Path(sql, mode, place) /\ place[Len(sql) + 1] = "start"
  BY ReadableIs
<1>2. TableAt(sql, mode, place, b)
  BY <1>1, BlockIsTable DEF TableAt
<1> QED BY <1>2, TableDescribed

(* The code finds the block of every table that has options, unless a      *)
(* comment hides one.                                                      *)
LEMMA TableHasBlock ==
    ASSUME NEW sql, NEW mode, NEW place, NEW r, Readable(sql, mode, place, r),
           NEW k \in DOMAIN Meanings(sql), IsTable(Meanings(sql)[k]), Meanings(sql)[k].options # <<>>
    PROVE  \E b : /\ TableAt(sql, mode, place, b) /\ NumberOf(r, b.at) = k
                  /\ b \in FindWithBlocks(sql) \/ ~NothingHides(sql)
<1>1. /\ Path(sql, mode, place) /\ place[1] = "start" /\ place[Len(sql) + 1] = "start"
      /\ Along(sql, mode, r) /\ sql \in Seq(Atoms)
  BY ReadableIs
<1>2. k \in 1 .. Len(r[1]) /\ Meanings(sql)[k] = Meaning(r[1][k]) /\ r[1][k] \in Seq(Atoms)
  BY MeaningsAre
<1>3. Len(r[1][k]) >= 1 /\ r[1][k][1][1] = "create"
  BY <1>2, HeadBegins
<1>4. PICK p \in 1 .. Len(sql) : /\ Seen(mode[p], sql[p]) /\ sql[p][1] = "create"
                                 /\ r[p][1] = r[1][k] /\ Len(r[p]) = (Len(r[1]) - k) + 1
  <2>1. PICK i \in 1 .. Len(sql) + 1 : i = 1
    BY <1>1
  <2>2. k \in 1 .. Len(r[i]) /\ place[i] = "start" /\ Len(r[i][k]) >= 1 /\ r[i][k][1][1] = "create"
    BY <1>1, <1>2, <1>3, <2>1
  <2>3. \E p \in i .. Len(sql) : /\ Seen(mode[p], sql[p]) /\ sql[p][1] = "create"
                                 /\ r[p][1] = r[i][k] /\ Len(r[p]) = (Len(r[i]) - k) + 1
    <3>1. IsCreated(sql, mode, r, i, k)
      BY <1>1, <2>2, TablesAreCreated
    <3> QED BY <3>1 DEF IsCreated
  <2> QED BY <2>1, <2>3
<1>5. NumberOf(r, p) = k
  <2>1. PICK a \in Nat : a = Len(r[1])
    <3>1. 1 \in 1 .. Len(sql) + 1
      BY <1>1
    <3> QED BY <1>1, <3>1, ReadLens
  <2>2. k \in 1 .. a /\ Len(r[p]) = (a - k) + 1
    BY <1>2, <1>4, <2>1
  <2>3. (a - ((a - k) + 1)) + 1 = k
    BY <2>2
  <2> QED BY <2>1, <2>2, <2>3 DEF NumberOf
<1>6. PICK w : \/ Block(sql, p).close = 0 /\ Bare(sql, mode, place, p, w)
               \/ \E o, c : Table(sql, mode, place, p, w, o, c) /\ Found(sql, p, o, c)
  BY <1>1, <1>4, CreateFound
<1>7. ~Bare(sql, mode, place, p, w)
  <2> SUFFICES ASSUME Bare(sql, mode, place, p, w)
               PROVE  FALSE
    OBVIOUS
  <2>1. w \in 1 .. Len(sql) /\ ColumnsEnd(sql, mode, place, p + 1, w) /\ Semicolon(sql[w])
    BY DEF Bare
  <2>2. PICK g : Gathered(sql, mode, w, g)
    <3>1. w \in 1 .. Len(sql) + 1
      BY <1>1, <2>1
    <3> QED BY <1>1, <3>1, Gathers
  <2>3. Meaning(r[p][1]) = [head |-> g[p], options |-> <<>>]
    BY <1>1, <1>4, <2>2, BareMeans
  <2> QED BY <1>2, <1>4, <2>3
<1>8. PICK o, c : Table(sql, mode, place, p, w, o, c) /\ Found(sql, p, o, c)
  BY <1>6, <1>7
<1>9. PICK b : b = [table |-> sql[p][2], at |-> p, open |-> o, close |-> c]
  OBVIOUS
<1>10. TableAt(sql, mode, place, b)
  BY <1>4, <1>8, <1>9 DEF TableAt
<1>11. ASSUME NothingHides(sql)
       PROVE  b \in FindWithBlocks(sql)
  <2>1. Block(sql, p).close # 0 /\ Block(sql, p).open = o /\ Block(sql, p).close = c
    BY <1>8, <1>11 DEF Found
  <2>2. Block(sql, p) = b
    BY <1>9, <2>1 DEF Block
  <2>3. p \in DOMAIN sql /\ Is(sql, p, "create")
    BY <1>1, <1>4 DEF Is
  <2> QED BY <2>1, <2>2, <2>3 DEF FindWithBlocks
<1> QED BY <1>5, <1>9, <1>10, <1>11

(* Blocks lie apart and are different tables.                              *)
LEMMA BlocksApart ==
    ASSUME NEW sql, NEW mode, NEW place, NEW r, Readable(sql, mode, place, r),
           NEW b \in FindWithBlocks(sql), NEW d \in FindWithBlocks(sql), b.at < d.at
    PROVE  b.close < d.open /\ NumberOf(r, b.at) # NumberOf(r, d.at)
<1>1. /\ Path(sql, mode, place) /\ place[Len(sql) + 1] = "start"
      /\ Along(sql, mode, r) /\ sql \in Seq(Atoms)
  BY ReadableIs
<1>2. PICK n \in Nat : n = Len(sql)
  BY <1>1
<1>3. PICK p \in 1 .. n, q \in 1 .. n : p = b.at /\ q = d.at /\ sql[p][1] = "create" /\ sql[q][1] = "create"
  BY <1>1, <1>2, BlockIsTable
<1>4. PICK w : Table(sql, mode, place, p, w, b.open, b.close)
  BY <1>1, <1>3, BlockIsTable
<1>5. PICK c \in 1 .. n : c = b.close
  BY <1>2, <1>4 DEF Table
<1>6. PICK o \in Nat : o = d.open /\ q < o
  <2>1. d.open \in Positions(sql, "(") /\ d.at < d.open
    BY <1>1, BlocksAre
  <2> QED BY <1>1, <1>3, <2>1 DEF Positions
<1>7. p < q
  BY <1>3
<1>8. Seen(mode[p], sql[p]) /\ ~Semicolon(sql[p]) /\ place[q] = "start"
  <2>1. ~Semicolon(sql[p])
    BY <1>3, Zenon DEF Semicolon
  <2>2. PICK x \in 1 .. Len(sql), y \in 1 .. Len(sql) : x = p /\ y = q
    BY <1>2
  <2>3. Seen(mode[x], sql[x])
    BY <1>1, <1>3, <2>2, CreatesBegin
  <2>4. place[y] = "start"
    BY <1>1, <1>3, <2>2, CreatesBegin
  <2> QED BY <2>1, <2>2, <2>3, <2>4
<1>9. Len(r[q]) < Len(r[p])
  <2>1. p \in 1 .. Len(sql) /\ q \in p + 1 .. Len(sql) + 1
    BY <1>2, <1>7
  <2> QED BY <1>1, <1>8, <2>1, LaterIsBehind
<1>10. PICK g : Gathered(sql, mode, w, g)
  <2>1. w \in 1 .. Len(sql) + 1
    BY <1>1, <1>4 DEF Table
  <2> QED BY <1>1, <2>1, Gathers
<1>11. NoneEnds(sql, mode, p, c) /\ Len(r[p]) = Len(r[c])
  BY <1>1, <1>4, <1>5, <1>10, BlockSpan
<1>12. Len(r[p]) \in Nat /\ Len(r[q]) \in Nat /\ Len(r[1]) \in Nat
  <2>1. p \in 1 .. Len(sql) + 1 /\ q \in 1 .. Len(sql) + 1 /\ 1 \in 1 .. Len(sql) + 1
    BY <1>2
  <2> QED BY <1>1, <2>1, ReadLens
<1>13. c < q
  <2> SUFFICES ASSUME q <= c
               PROVE  FALSE
    OBVIOUS
  <2>1. c \in 1 .. Len(sql) + 1 /\ q \in 1 .. c
    BY <1>2
  <2>2. PICK h : Gathered(sql, mode, c, h)
    BY <1>1, <2>1, Gathers
  <2>3. NoneEnds(sql, mode, q, c)
    <3>1. \A x \in q .. c - 1 : x \in p .. c - 1
      BY <1>7
    <3> QED BY <1>11, <3>1, Zenon DEF NoneEnds
  <2>4. Attaches(h[q], r[c], r[q])
    BY <1>1, <2>1, <2>2, <2>3, AttachesGathered
  <2>5. Len(r[q]) = Len(r[c])
    BY <2>4 DEF Attaches
  <2> QED BY <1>9, <1>11, <1>12, <2>5
<1>14. b.close < d.open
  BY <1>5, <1>6, <1>13
<1>15. NumberOf(r, p) # NumberOf(r, q)
  <2>1. PICK x \in Nat, y \in Nat, z \in Nat : x = Len(r[p]) /\ y = Len(r[q]) /\ z = Len(r[1])
    BY <1>12
  <2>2. y < x
    BY <1>9, <2>1
  <2>3. (z - x) + 1 # (z - y) + 1
    BY <2>2
  <2> QED BY <2>1, <2>3 DEF NumberOf
<1> QED BY <1>3, <1>14, <1>15

-----------------------------------------------------------------------------
(* What a replay does to the options of a table is what was wanted.        *)

(* The list w is ahead of u: it has those that are pending already, where  *)
(* u has their keys.                                                       *)
Ahead(u, w, pending) ==
    /\ u \in Seq(OptionPairs) /\ w \in Seq(OptionPairs) /\ Len(w) = Len(u) /\ Differ(u)
    /\ pending \subseteq OptionPairs /\ \A a, b \in pending : a[1] = b[1] => a = b
    /\ \A i \in 1 .. Len(u) :
          /\ \A a \in pending : a[1] = u[i][1] => w[i] = a
          /\ (\A a \in pending : a[1] # u[i][1]) => w[i] = u[i]

IfNew(w, up) == IF up \in Range(w) THEN w ELSE Append(w, up)

(* A key that is there once is overwritten where it is, a new one added.   *)
LEMMA UpsertOnce ==
    ASSUME NEW u \in Seq(OptionPairs), Differ(u), NEW up \in OptionPairs
    PROVE  \/ \E p \in 1 .. Len(u) : u[p][1] = up[1] /\ Upsert(u, up) = [u EXCEPT ![p] = up]
           \/ (\A i \in 1 .. Len(u) : u[i][1] # up[1]) /\ Upsert(u, up) = Append(u, up)
<1>1. PICK n \in Nat : n = Len(u) /\ DOMAIN u = 1 .. n
  OBVIOUS
<1>2. PICK p \in Nat : Goes(u, up, p) /\ Put(u, up, p, Upsert(u, up))
  BY UpsertPuts
<1>3. p \in 1 .. n + 1 /\ (p \in 1 .. n => u[p][1] = up[1])
      /\ (p = n + 1 => \A i \in 1 .. n : u[i][1] # up[1])
  BY <1>1, <1>2 DEF Goes
<1>4. PICK v : v = Upsert(u, up)
  OBVIOUS
<1>5. /\ v \in Seq(OptionPairs) /\ Len(v) = IF p = n + 1 THEN p ELSE n
      /\ v[p] = up /\ \A i \in 1 .. n : i # p => v[i] = u[i]
  BY <1>1, <1>2, <1>4 DEF Put
<1> DEFINE A == OptionPairs
<1> HIDE DEF A
<1>6. u \in Seq(A) /\ v \in Seq(A) /\ up \in A
  BY <1>5 DEF A
<1>7. CASE p = n + 1
  <2>1. Append(u, up) \in Seq(A) /\ Len(Append(u, up)) = n + 1 /\ Append(u, up)[n + 1] = up
        /\ \A i \in 1 .. n : Append(u, up)[i] = u[i]
    BY <1>1, <1>6
  <2>2. Len(v) = n + 1 /\ v[n + 1] = up /\ \A i \in 1 .. n : v[i] = u[i]
    <3>1. Len(v) = n + 1 /\ v[n + 1] = up
      BY <1>5, <1>7
    <3>2. \A i \in 1 .. n : i # p
      BY <1>7
    <3> QED BY <1>5, <3>1, <3>2
  <2>3. \A i \in 1 .. n + 1 : v[i] = Append(u, up)[i]
    <3>1. \A i \in 1 .. n + 1 : i = n + 1 \/ i \in 1 .. n
      OBVIOUS
    <3> QED BY <2>1, <2>2, <3>1
  <2>4. v = Append(u, up)
    BY <1>6, <2>1, <2>2, <2>3, SameSeq
  <2> QED BY <1>1, <1>3, <1>4, <1>7, <2>4
<1>8. CASE p # n + 1
  <2>1. p \in 1 .. n /\ Len(v) = n
    BY <1>3, <1>5, <1>8
  <2>2. [u EXCEPT ![p] = up] \in Seq(A) /\ Len([u EXCEPT ![p] = up]) = n
        /\ \A i \in 1 .. n : [u EXCEPT ![p] = up][i] = IF i = p THEN up ELSE u[i]
    BY <1>1, <1>6, <2>1
  <2>3. \A i \in 1 .. n : v[i] = [u EXCEPT ![p] = up][i]
    BY <1>5, <2>2
  <2>4. v = [u EXCEPT ![p] = up]
    BY <1>6, <2>1, <2>2, <2>3, SameSeq
  <2> QED BY <1>1, <1>3, <1>4, <2>1, <2>4
<1> QED BY <1>7, <1>8

(* An upsert on both sides leaves one option less to be made up for.       *)
LEMMA OneLessAhead ==
    ASSUME NEW u, NEW w, NEW pending, Ahead(u, w, pending), NEW up \in pending
    PROVE  Ahead(Upsert(u, up), IfNew(w, up), pending \ {up})
<1> DEFINE A == OptionPairs
<1> HIDE DEF A
<1>1. /\ u \in Seq(A) /\ w \in Seq(A) /\ up \in A /\ pending \subseteq A
  BY DEF Ahead, A
<1>2. PICK n \in Nat : n = Len(u) /\ n = Len(w) /\ DOMAIN u = 1 .. n /\ DOMAIN w = 1 .. n
  BY <1>1 DEF Ahead
<1>3. /\ \A i, j \in 1 .. n : u[i][1] = u[j][1] => i = j
      /\ \A a, b \in pending : a[1] = b[1] => a = b
      /\ \A i \in 1 .. n : /\ \A a \in pending : a[1] = u[i][1] => w[i] = a
                           /\ (\A a \in pending : a[1] # u[i][1]) => w[i] = u[i]
  BY <1>2 DEF Ahead, Differ
<1>4. \A i \in 1 .. n : w[i][1] = u[i][1]
  BY <1>3
<1>5. u \in Seq(OptionPairs) /\ Differ(u) /\ up \in OptionPairs
  BY DEF Ahead
<1>6. CASE \E p \in 1 .. n : u[p][1] = up[1] /\ Upsert(u, up) = [u EXCEPT ![p] = up]
  <2>1. PICK p \in 1 .. n : u[p][1] = up[1] /\ Upsert(u, up) = [u EXCEPT ![p] = up]
    BY <1>6
  <2>2. w[p] = up
    BY <1>3, <2>1
  <2>3. IfNew(w, up) = w
    BY <1>2, <2>2 DEF IfNew, Range
  <2>4. PICK v : v = Upsert(u, up)
    OBVIOUS
  <2>5. v \in Seq(A) /\ Len(v) = n /\ \A i \in 1 .. n : v[i] = IF i = p THEN up ELSE u[i]
    BY <1>1, <1>2, <2>1, <2>4
  <2>6. \A i \in 1 .. n : v[i][1] = u[i][1]
    BY <2>1, <2>5
  <2>7. ASSUME NEW i \in 1 .. n
        PROVE  /\ \A a \in pending \ {up} : a[1] = v[i][1] => w[i] = a
               /\ (\A a \in pending \ {up} : a[1] # v[i][1]) => w[i] = v[i]
    <3>1. CASE i = p
      BY <1>3, <2>1, <2>2, <2>5, <3>1
    <3>2. CASE i # p
      <4>1. v[i] = u[i] /\ u[i][1] # up[1]
        BY <1>3, <2>1, <2>5, <3>2
      <4> QED BY <1>3, <4>1
    <3> QED BY <3>1, <3>2
  <2>8. Differ(v)
    BY <1>3, <2>5, <2>6 DEF Differ
  <2> QED BY <1>1, <1>2, <1>3, <2>3, <2>4, <2>5, <2>7, <2>8 DEF Ahead, A
<1>7. CASE (\A i \in 1 .. n : u[i][1] # up[1]) /\ Upsert(u, up) = Append(u, up)
  <2>1. IfNew(w, up) = Append(w, up)
    <3>1. \A i \in 1 .. n : w[i] # up
      BY <1>4, <1>7
    <3> QED BY <1>2, <3>1 DEF IfNew, Range
  <2>2. PICK v, x : v = Append(u, up) /\ x = Append(w, up)
    OBVIOUS
  <2>3. /\ v \in Seq(A) /\ x \in Seq(A) /\ Len(v) = n + 1 /\ Len(x) = n + 1
        /\ v[n + 1] = up /\ x[n + 1] = up /\ \A i \in 1 .. n : v[i] = u[i] /\ x[i] = w[i]
    BY <1>1, <1>2, <2>2
  <2>4. \A i \in 1 .. n + 1 : i \in 1 .. n \/ i = n + 1
    OBVIOUS
  <2>5. ASSUME NEW i \in 1 .. n + 1
        PROVE  /\ \A a \in pending \ {up} : a[1] = v[i][1] => x[i] = a
               /\ (\A a \in pending \ {up} : a[1] # v[i][1]) => x[i] = v[i]
    <3>1. CASE i = n + 1
      BY <1>3, <2>3, <3>1
    <3>2. CASE i \in 1 .. n
      BY <1>3, <1>7, <2>3, <3>2
    <3> QED BY <2>4, <3>1, <3>2
  <2>6. ASSUME NEW i \in 1 .. n + 1, NEW j \in 1 .. n + 1, v[i][1] = v[j][1]
        PROVE  i = j
    <3>1. CASE i \in 1 .. n /\ j \in 1 .. n
      BY <1>3, <2>3, <2>6, <3>1
    <3>2. CASE i = n + 1 \/ j = n + 1
      BY <1>7, <2>3, <2>4, <2>6, <3>2
    <3> QED BY <2>4, <3>1, <3>2
  <2>7. Differ(v)
    BY <2>3, <2>6 DEF Differ
  <2> QED BY <1>1, <1>3, <1>7, <2>1, <2>2, <2>3, <2>5, <2>7 DEF Ahead, A
<1> QED BY <1>2, <1>5, <1>6, <1>7, UpsertOnce

(* Nothing is pending: the lists are the same.                             *)
LEMMA NothingAhead ==
    ASSUME NEW u, NEW w, Ahead(u, w, {})
    PROVE  u = w
<1> DEFINE A == OptionPairs
<1> HIDE DEF A
<1>1. u \in Seq(A) /\ w \in Seq(A) /\ Len(w) = Len(u)
  BY DEF Ahead, A
<1>2. \A i \in 1 .. Len(u) : u[i] = w[i]
  BY DEF Ahead
<1> QED BY <1>1, <1>2, SameSeq

(* Replaying a table, as it is wanted, is what the three upserts do.       *)
LEMMA ReplayedIs ==
    ASSUME NEW head, NEW options \in Seq(OptionPairs), Differ(options), NEW request \in Request
    PROVE  /\ Replayed([head |-> head, options |-> options], request) =
                 [head |-> head, options |-> Upserted(options, request)]
           /\ Differ(Upserted(options, request))
<1> DEFINE up == Startup(request)
           Value(key) == (CHOOSE p \in Range(up) : p[1] = key)[2]
           known == [i \in DOMAIN options |->
                        IF options[i][1] \in Startups THEN <<options[i][1], Value(options[i][1])>> ELSE options[i]]
<1>1. PICK a, b, c : a = up[1] /\ b = up[2] /\ c = up[3]
  OBVIOUS
<1>2. /\ a[1] = "scan.startup.mode" /\ b[1] = "scan.startup.timestamp-millis" /\ c[1] = "properties.auto.offset.reset"
  BY <1>1 DEF Startup
<1>3. a \in OptionPairs /\ b \in OptionPairs /\ c \in OptionPairs
  <2>1. 1 \in 1 .. 3 /\ 2 \in 1 .. 3 /\ 3 \in 1 .. 3
    OBVIOUS
  <2> HIDE DEF up
  <2>2. \A k \in 1 .. 3 : up[k] \in OptionPairs
    BY StartupPairs DEF up
  <2> QED BY <1>1, <2>1, <2>2
<1>4. DOMAIN up = {1, 2, 3}
  BY DEF Startup
<1>5. Range(up) = {a, b, c}
  <2> HIDE DEF up
  <2> QED BY <1>1, <1>4 DEF Range
<1> HIDE DEF up
<1>6. \A p \in {a, b, c} : p = <<p[1], p[2]>> /\ Value(p[1]) = p[2]
  <2>1. ASSUME NEW p \in {a, b, c}
        PROVE  (CHOOSE q \in {a, b, c} : q[1] = p[1]) = p
    BY <1>2
  <2>2. ASSUME NEW p \in {a, b, c}
        PROVE  p = <<p[1], p[2]>>
    BY <1>3 DEF OptionPairs
  <2> QED BY <1>5, <2>1, <2>2, ZenonT(30)
<1>7. \A i \in 1 .. Len(options) : options[i][1] \in Startups <=> \E p \in {a, b, c} : p[1] = options[i][1]
  BY <1>2 DEF Startups
<1> HIDE DEF Value
<1> DEFINE A == OptionPairs
<1> HIDE DEF A
<1>8. PICK n \in Nat : n = Len(options) /\ DOMAIN options = 1 .. n
  OBVIOUS
<1>9. \A i \in 1 .. n : known[i] = IF options[i][1] \in Startups THEN <<options[i][1], Value(options[i][1])>> ELSE options[i]
  BY <1>8
<1>10. \A i \in 1 .. n : /\ \A p \in {a, b, c} : p[1] = options[i][1] => known[i] = p
                         /\ (\A p \in {a, b, c} : p[1] # options[i][1]) => known[i] = options[i]
  <2> SUFFICES ASSUME NEW i \in 1 .. n
               PROVE  /\ \A p \in {a, b, c} : p[1] = options[i][1] => known[i] = p
                      /\ (\A p \in {a, b, c} : p[1] # options[i][1]) => known[i] = options[i]
    OBVIOUS
  <2>1. known[i] = IF options[i][1] \in Startups THEN <<options[i][1], Value(options[i][1])>> ELSE options[i]
    BY <1>9
  <2>2. options[i][1] \in Startups <=> \E p \in {a, b, c} : p[1] = options[i][1]
    BY <1>7, <1>8
  <2> HIDE DEF known
  <2>3. ASSUME NEW p \in {a, b, c}, p[1] = options[i][1]
        PROVE  known[i] = p
    <3>1. p = <<p[1], p[2]>> /\ Value(p[1]) = p[2]
      BY <1>6
    <3>2. known[i] = <<p[1], Value(p[1])>>
      BY <2>1, <2>2, <2>3
    <3> QED BY <3>1, <3>2
  <2>4. ASSUME \A p \in {a, b, c} : p[1] # options[i][1]
        PROVE  known[i] = options[i]
    BY <2>1, <2>2, <2>4
  <2> QED BY <2>3, <2>4
<1>11. known \in Seq(A) /\ Len(known) = n
  <2>1. \A i \in 1 .. n : known[i] \in A
    <3> HIDE DEF known
    <3>1. ASSUME NEW i \in 1 .. n PROVE known[i] \in A
      <4>1. CASE \E p \in {a, b, c} : p[1] = options[i][1]
        BY <1>3, <1>10, <4>1 DEF A
      <4>2. CASE ~ \E p \in {a, b, c} : p[1] = options[i][1]
        <5>1. known[i] = options[i]
          BY <1>10, <4>2
        <5> QED BY <1>8, <5>1 DEF A
      <4> QED BY <4>1, <4>2
    <3> QED BY <3>1
  <2>2. DOMAIN known = 1 .. n
    BY <1>8
  <2>3. known = [i \in 1 .. n |-> known[i]]
    BY <2>2
  <2> HIDE DEF known
  <2> QED BY <2>1, <2>3
<1>12. Ahead(options, known, {a, b, c})
  <2>1. {a, b, c} \subseteq OptionPairs /\ \A p, q \in {a, b, c} : p[1] = q[1] => p = q
    BY <1>2, <1>3
  <2>2. known \in Seq(OptionPairs)
    BY <1>11 DEF A
  <2> HIDE DEF known
  <2> QED BY <1>8, <1>10, <1>11, <2>1, <2>2 DEF Ahead
<1> HIDE DEF known
<1>13. a # b /\ a # c /\ b # c
  BY <1>2
<1>14. PICK u1, w1 : u1 = Upsert(options, a) /\ w1 = IfNew(known, a)
  OBVIOUS
<1>15. Ahead(u1, w1, {b, c})
  <2>1. {a, b, c} \ {a} = {b, c} /\ a \in {a, b, c}
    BY <1>13
  <2>2. Ahead(u1, w1, {a, b, c} \ {a})
    BY <1>12, <1>14, <2>1, OneLessAhead
  <2> QED BY <2>1, <2>2
<1>16. PICK u2, w2 : u2 = Upsert(u1, b) /\ w2 = IfNew(w1, b)
  OBVIOUS
<1>17. Ahead(u2, w2, {c})
  <2>1. {b, c} \ {b} = {c} /\ b \in {b, c}
    BY <1>13
  <2>2. Ahead(u2, w2, {b, c} \ {b})
    BY <1>15, <1>16, <2>1, OneLessAhead
  <2> QED BY <2>1, <2>2
<1>18. PICK u3, w3 : u3 = Upsert(u2, c) /\ w3 = IfNew(w2, c)
  OBVIOUS
<1>19. Ahead(u3, w3, {})
  <2>1. {c} \ {c} = {} /\ c \in {c}
    OBVIOUS
  <2>2. Ahead(u3, w3, {c} \ {c})
    BY <1>17, <1>18, <2>1, OneLessAhead
  <2> QED BY <2>1, <2>2
<1>20. u3 = w3 /\ Differ(u3)
  <2>1. Differ(u3)
    BY <1>19 DEF Ahead
  <2> QED BY <1>19, <2>1, NothingAhead
<1>21. u3 = Upserted(options, request)
  BY <1>1, <1>14, <1>16, <1>18 DEF Upserted, up
<1>22. Replayed([head |-> head, options |-> options], request) = [head |-> head, options |-> w3]
  <2> DEFINE m == [head |-> head, options |-> options]
             With(o, k) == IF up[k] \in Range(o) THEN o ELSE Append(o, up[k])
  <2>1. m.options = options
    OBVIOUS
  <2>2. Replayed(m, request) = [m EXCEPT !.options = With(With(With(known, 1), 2), 3)]
    BY <2>1 DEF Replayed, known, Value, up
  <2>3. With(known, 1) = w1
    BY <1>1, <1>14 DEF IfNew
  <2>4. With(w1, 2) = w2
    BY <1>1, <1>16 DEF IfNew
  <2>5. With(w2, 3) = w3
    BY <1>1, <1>18 DEF IfNew
  <2> HIDE DEF With
  <2>6. Replayed(m, request) = [m EXCEPT !.options = w3]
    BY <2>2, <2>3, <2>4, <2>5
  <2> QED BY <2>6
<1> QED BY <1>20, <1>21, <1>22

(* The connector is no startup option.                                     *)
LEMMA ConnectorStays ==
    ASSUME NEW old \in Seq(OptionPairs), NEW new \in Seq(OptionPairs), NEW request, Sets(old, new, request)
    PROVE  <<"connector", "kafka">> \in Range(new) <=> <<"connector", "kafka">> \in Range(old)
<1>1. "connector" \notin Startups
  BY DEF Startups
<1>2. /\ \A i \in DOMAIN old :
            /\ i \in DOMAIN new /\ new[i][1] = old[i][1]
            /\ old[i][1] \notin Startups => new[i] = old[i]
      /\ \A i \in DOMAIN new \ DOMAIN old : new[i][1] \in Startups
  BY DEF Sets
<1>3. ASSUME NEW i \in DOMAIN old, old[i] = <<"connector", "kafka">>
      PROVE  i \in DOMAIN new /\ new[i] = <<"connector", "kafka">>
  <2>1. old[i][1] = "connector"
    BY <1>3
  <2> QED BY <1>1, <1>2, <1>3, <2>1
<1>4. ASSUME NEW i \in DOMAIN new, new[i] = <<"connector", "kafka">>
      PROVE  i \in DOMAIN old /\ old[i] = <<"connector", "kafka">>
  <2>1. new[i][1] = "connector"
    BY <1>4
  <2> QED BY <1>1, <1>2, <1>4, <2>1
<1> QED BY <1>3, <1>4 DEF Range

-----------------------------------------------------------------------------
(* A text in which tables were replayed is the deployed one but for what   *)
(* the requests wanted.                                                    *)

IsParsed(sql) ==
    \E mode \in [1 .. Len(sql) + 1 -> Modes], place \in [1 .. Len(sql) + 1 -> Places] :
        Parses(sql, mode, place)

WantedOf(requests, m) ==
    IF IsKafkaTable(m) /\ requests[m.head[1][2]] # NoRequest
    THEN Replayed(m, requests[m.head[1][2]])
    ELSE m

Kept(sql, new, requests) ==
    LET deployed == Meanings(sql)
    IN  Meanings(new) = [k \in DOMAIN deployed |-> WantedOf(requests, deployed[k])]

Replays(sql, new, requests) ==
    /\ sql \in Seq(Atoms) /\ new \in Seq(Atoms)
    /\ WellFormed(sql) /\ IsParsed(new) /\ (NothingHides(sql) => NothingHides(new))
    /\ requests \in [Tables -> Request \cup {NoRequest}]
    /\ Kept(sql, new, requests)

(* A Kafka table's meaning.                                                *)
KafkaMeans(m, head, options) ==
    /\ m = [head |-> head, options |-> options] /\ head \in Seq(Atoms) /\ options \in Seq(OptionPairs)
    /\ Differ(options) /\ IsKafkaTable(m)

(* The code finds the block of every Kafka table, unless a comment hides   *)
(* one.                                                                    *)
LEMMA KafkaHasBlock ==
    ASSUME NEW sql, NEW mode, NEW place, NEW r, Readable(sql, mode, place, r),
           NEW k \in DOMAIN Meanings(sql), IsKafkaTable(Meanings(sql)[k])
    PROVE  \E b : /\ TableAt(sql, mode, place, b) /\ NumberOf(r, b.at) = k /\ Describes(sql, k, b)
                  /\ b \in FindWithBlocks(sql) \/ ~NothingHides(sql)
<1>1. IsTable(Meanings(sql)[k]) /\ <<"connector", "kafka">> \in Range(Meanings(sql)[k].options)
  BY DEF IsKafkaTable
<1>2. Meanings(sql)[k].options # <<>>
  <2>1. Range(<<>>) = {}
    BY DEF Range
  <2> QED BY <1>1, <2>1
<1>3. PICK b : /\ TableAt(sql, mode, place, b) /\ NumberOf(r, b.at) = k
               /\ b \in FindWithBlocks(sql) \/ ~NothingHides(sql)
  BY <1>1, <1>2, TableHasBlock
<1> QED BY <1>3, TableDescribed

(* A block is read as a list of options.                                   *)
LEMMA SpanOptions ==
    ASSUME NEW sql \in Seq(Atoms), NEW b, b.open \in 1 .. Len(sql), b.close \in 1 .. Len(sql), b.open < b.close
    PROVE  Read(Body(sql, b)) \in Seq(OptionPairs)
<1> DEFINE A == Atoms
<1> HIDE DEF A
<1>1. b.open \in Nat /\ b.close \in Nat /\ b.open >= 1 /\ b.close <= Len(sql) /\ b.open < b.close
  OBVIOUS
<1>2. b.open + 1 \in 1 .. Len(sql) + 1 /\ b.close - 1 \in Nat /\ b.close - 1 <= Len(sql)
      /\ b.close - 1 >= (b.open + 1) - 1
  BY <1>1
<1>3. sql \in Seq(A)
  BY DEF A
<1>4. SubSeq(sql, b.open + 1, b.close - 1) \in Seq(A)
  BY <1>2, <1>3, SubSeqIs
<1>5. Body(sql, b) \in Seq(Atoms)
  BY <1>4 DEF Body, A
<1> QED BY <1>5, ReadsOptions

(* So are those that the code finds, ...                                   *)
LEMMA BodyOptions ==
    ASSUME NEW sql \in Seq(Atoms), NEW b \in FindWithBlocks(sql)
    PROVE  Read(Body(sql, b)) \in Seq(OptionPairs)
<1>1. b.open \in 1 .. Len(sql) /\ b.close \in 1 .. Len(sql) /\ b.open < b.close
  BY BlocksAre DEF Positions
<1> QED BY <1>1, SpanOptions

(* ... and those that it overlooks.                                        *)
LEMMA TableOptions ==
    ASSUME NEW sql \in Seq(Atoms), NEW mode, NEW place, NEW b, TableAt(sql, mode, place, b)
    PROVE  Read(Body(sql, b)) \in Seq(OptionPairs)
<1>1. PICK w : Table(sql, mode, place, b.at, w, b.open, b.close)
  BY DEF TableAt
<1>2. b.open \in 1 .. Len(sql) /\ b.close \in 1 .. Len(sql) /\ b.close \in b.open + 1 .. Len(sql)
  BY <1>1 DEF Table, BodyEnd
<1>3. b.open < b.close
  BY <1>2
<1> QED BY <1>2, <1>3, SpanOptions

(* A block is a Kafka table for the code when it is one for Flink.         *)
LEMMA DescribedIs ==
    ASSUME NEW sql \in Seq(Atoms), NEW k, NEW b \in FindWithBlocks(sql), Describes(sql, k, b),
           Differ(Read(Body(sql, b)))
    PROVE  /\ IsTable(Meanings(sql)[k]) /\ Meanings(sql)[k].head[1][2] = b.table
           /\ Meanings(sql)[k].options = Read(Body(sql, b))
           /\ b \in KafkaBlocks(sql) <=> IsKafkaTable(Meanings(sql)[k])
<1>1. PICK head \in Seq(Atoms) :
          /\ Len(head) >= 1 /\ head[1][1] = "create" /\ head[1][2] = b.table
          /\ Meanings(sql)[k] = [head |-> head, options |-> Read(Body(sql, b))]
  BY DEF Describes
<1>2. PICK m : m = Meanings(sql)[k]
  OBVIOUS
<1>3. m.head = head /\ m.options = Read(Body(sql, b))
  BY <1>1, <1>2
<1>4. IsTable(m)
  BY <1>1, <1>3 DEF IsTable, Is
<1>5. Read(Body(sql, b)) \in Seq(OptionPairs)
  BY BodyOptions
<1>6. Connector(sql, b) = "kafka" <=> <<"connector", "kafka">> \in Range(m.options)
  BY <1>3, <1>5, ConnectorIs DEF Connector
<1> QED BY <1>1, <1>2, <1>3, <1>4, <1>6 DEF KafkaBlocks, IsKafkaTable

(* The deployed Kafka tables.                                              *)
LEMMA DeployedTables ==
    ASSUME NEW sql \in Seq(Atoms), WellFormed(sql), NEW k \in DOMAIN Meanings(sql), IsKafkaTable(Meanings(sql)[k])
    PROVE  \E head, options : /\ KafkaMeans(Meanings(sql)[k], head, options)
                              /\ head[1][2] \in Tables /\ head[1][2] \in KafkaTables(sql)
<1>1. IsParsed(sql) /\ Unambiguous(sql)
  BY Zenon DEF WellFormed, IsParsed
<1>2. PICK mode, place : Parses(sql, mode, place)
  BY <1>1, Zenon DEF IsParsed
<1>3. PICK r : Readable(sql, mode, place, r)
  BY <1>2, ParsedIsReadable
<1>4. PICK b : TableAt(sql, mode, place, b) /\ Describes(sql, k, b)
  BY <1>3, KafkaHasBlock
<1>5. PICK m : m = Meanings(sql)[k]
  OBVIOUS
<1>6. PICK head \in Seq(Atoms) : m = [head |-> head, options |-> Read(Body(sql, b))]
  BY <1>4, <1>5 DEF Describes
<1>7. PICK options : options = Read(Body(sql, b)) /\ m.options = options /\ m.head = head
  BY <1>6
<1>8. options \in Seq(OptionPairs)
  BY <1>4, <1>7, TableOptions
<1>9. Differ(options)
  <2>1. \A i, j \in DOMAIN m.options : m.options[i][1] = m.options[j][1] => i = j
    BY <1>1, <1>5 DEF Unambiguous, IsKafkaTable
  <2> QED BY <1>7, <1>8, <2>1 DEF Differ
<1>10. KafkaMeans(m, head, options)
  BY <1>5, <1>6, <1>7, <1>8, <1>9 DEF KafkaMeans
<1>11. head[1][2] \in KafkaTables(sql)
  <2>1. m \in Range(Meanings(sql)) /\ IsKafkaTable(m)
    BY <1>5 DEF Range
  <2> QED BY <1>7, <2>1 DEF KafkaTables
<1>12. head[1][2] \in Tables
  BY <1>1, <1>11 DEF Unambiguous
<1> QED BY <1>5, <1>10, <1>11, <1>12

(* A request leaves a Kafka table one that the next request changes alike. *)
LEMMA WantedIs ==
    ASSUME NEW requests \in [Tables -> Request \cup {NoRequest}],
           NEW m, NEW head, NEW options, KafkaMeans(m, head, options), head[1][2] \in Tables
    PROVE  \E now : /\ KafkaMeans(WantedOf(requests, m), head, now)
                    /\ \A r \in Request : Upserted(now, r) = Upserted(options, r)
<1>1. /\ m = [head |-> head, options |-> options] /\ head \in Seq(Atoms) /\ options \in Seq(OptionPairs)
      /\ Differ(options) /\ IsKafkaTable(m)
  BY DEF KafkaMeans
<1>2. m.head = head /\ m.options = options
  BY <1>1
<1>3. PICK r : r = requests[head[1][2]]
  OBVIOUS
<1>4. r \in Request \cup {NoRequest}
  BY <1>3
<1>5. CASE r = NoRequest
  <2>1. WantedOf(requests, m) = m
    BY <1>2, <1>3, <1>5 DEF WantedOf
  <2> QED BY <2>1
<1>6. CASE r # NoRequest
  <2>1. r \in Request
    BY <1>4, <1>6
  <2>2. WantedOf(requests, m) = Replayed(m, r)
    BY <1>1, <1>2, <1>3, <1>6 DEF WantedOf
  <2>3. PICK now : now = Upserted(options, r)
    OBVIOUS
  <2>4. WantedOf(requests, m) = [head |-> head, options |-> now] /\ Differ(now)
    BY <1>1, <2>1, <2>2, <2>3, ReplayedIs
  <2>5. now \in Seq(OptionPairs) /\ Sets(options, now, r)
    BY <1>1, <2>1, <2>3, UpsertedSets
  <2>6. PICK w : w = WantedOf(requests, m) /\ w.head = head /\ w.options = now
    BY <2>4
  <2>7. IsKafkaTable(w)
    <3>1. <<"connector", "kafka">> \in Range(now)
      <4>1. <<"connector", "kafka">> \in Range(options)
        BY <1>1, <1>2 DEF IsKafkaTable
      <4> QED BY <1>1, <2>5, <4>1, ConnectorStays
    <3>2. IsTable(w)
      <4>1. IsTable(m)
        BY <1>1 DEF IsKafkaTable
      <4> QED BY <1>2, <2>6, <4>1 DEF IsTable
    <3> QED BY <2>6, <3>1, <3>2 DEF IsKafkaTable
  <2>8. KafkaMeans(w, head, now)
    BY <1>1, <2>4, <2>5, <2>6, <2>7 DEF KafkaMeans
  <2>9. \A q \in Request : Upserted(now, q) = Upserted(options, q)
    BY <1>1, <2>1, <2>3, LastUpsertsWin
  <2> QED BY <2>6, <2>8, <2>9
<1> QED BY <1>5, <1>6

(* What is not a Kafka table stays as it is.                               *)
LEMMA OthersStay ==
    ASSUME NEW requests, NEW m, ~IsKafkaTable(m)
    PROVE  WantedOf(requests, m) = m
BY DEF WantedOf

Distinct(options) == \A i, j \in DOMAIN options : options[i][1] = options[j][1] => i = j

(* For lists of options the two are the same.                              *)
LEMMA DistinctDiffer ==
    ASSUME NEW options \in Seq(OptionPairs)
    PROVE  Distinct(options) <=> Differ(options)
BY DEF Distinct, Differ

(* The tables of the text are those that were deployed.                    *)
SameTable(sql, new, k) ==
    /\ k \in DOMAIN Meanings(sql)
    /\ Meanings(new)[k].head = Meanings(sql)[k].head
    /\ IsKafkaTable(Meanings(new)[k]) <=> IsKafkaTable(Meanings(sql)[k])
    /\ IsTable(Meanings(new)[k]) => Distinct(Meanings(new)[k].options)

(* However often it was rewritten, a text has the tables that were         *)
(* deployed.                                                               *)
LEMMA TextTables ==
    ASSUME NEW sql, NEW new, NEW requests, Replays(sql, new, requests)
    PROVE  /\ DOMAIN Meanings(new) = DOMAIN Meanings(sql)
           /\ \A k \in DOMAIN Meanings(sql) : SameTable(sql, new, k)
<1>1. /\ sql \in Seq(Atoms) /\ WellFormed(sql)
      /\ requests \in [Tables -> Request \cup {NoRequest}]
  BY DEF Replays
<1>2. /\ DOMAIN Meanings(new) = DOMAIN Meanings(sql)
      /\ \A k \in DOMAIN Meanings(sql) : Meanings(new)[k] = WantedOf(requests, Meanings(sql)[k])
  BY DEF Replays, Kept
<1>3. ASSUME NEW k \in DOMAIN Meanings(sql)
      PROVE  SameTable(sql, new, k)
  <2>1. PICK m, w : m = Meanings(sql)[k] /\ w = Meanings(new)[k] /\ w = WantedOf(requests, m)
    BY <1>2
  <2>2. CASE IsKafkaTable(m)
    <3>1. PICK head, options : KafkaMeans(m, head, options) /\ head[1][2] \in Tables
      BY <1>1, <2>1, <2>2, DeployedTables
    <3>2. PICK now : KafkaMeans(w, head, now)
      BY <1>1, <2>1, <3>1, WantedIs
    <3>3. w.head = m.head /\ w.options = now /\ Distinct(now) /\ IsKafkaTable(w)
      BY <3>1, <3>2, DistinctDiffer DEF KafkaMeans
    <3> QED BY <2>1, <2>2, <3>3 DEF SameTable
  <2>3. CASE ~IsKafkaTable(m)
    <3>1. w = m
      BY <2>1, <2>3, OthersStay
    <3>2. IsTable(m) => Distinct(m.options)
      <4>1. Unambiguous(sql)
        BY <1>1, Zenon DEF WellFormed
      <4> QED BY <2>1, <4>1 DEF Unambiguous, Distinct
    <3> QED BY <2>1, <2>3, <3>1, <3>2 DEF SameTable
  <2> QED BY <2>2, <2>3
<1> QED BY <1>2, <1>3

(* A block of the text is a table that was deployed, and it is a Kafka     *)
(* table's for the code when it was one for Flink.                         *)
IsTableOf(sql, new, k, b) ==
    /\ k \in DOMAIN Meanings(sql) /\ k \in DOMAIN Meanings(new)
    /\ Meanings(sql)[k].head[1][2] = b.table
    /\ Meanings(new)[k].options = Read(Body(new, b)) /\ Differ(Read(Body(new, b)))
    /\ b \in KafkaBlocks(new) <=> IsKafkaTable(Meanings(sql)[k])

(* This is so for every block that the code finds in a rewritten text.     *)
LEMMA TextBlock ==
    ASSUME NEW sql, NEW new, NEW requests, Replays(sql, new, requests),
           NEW mode, NEW place, NEW r, Readable(new, mode, place, r), NEW b \in FindWithBlocks(new)
    PROVE  IsTableOf(sql, new, NumberOf(r, b.at), b)
<1>1. new \in Seq(Atoms)
  BY DEF Replays
<1>2. PICK k : k = NumberOf(r, b.at)
  OBVIOUS
<1>3. Describes(new, k, b)
  BY <1>2, BlockDescribed
<1>4. k \in DOMAIN Meanings(new) /\ k \in DOMAIN Meanings(sql) /\ SameTable(sql, new, k)
  BY <1>3, TextTables DEF Describes
<1>5. PICK m : m = Meanings(new)[k]
  OBVIOUS
<1>6. PICK head : head[1][1] = "create" /\ Len(head) >= 1 /\ m = [head |-> head, options |-> Read(Body(new, b))]
  BY <1>3, <1>5 DEF Describes
<1>7. m.head = head /\ m.options = Read(Body(new, b))
  BY <1>6
<1>8. IsTable(m)
  BY <1>6, <1>7 DEF IsTable, Is
<1>9. Distinct(m.options) /\ m.head = Meanings(sql)[k].head
      /\ (IsKafkaTable(m) <=> IsKafkaTable(Meanings(sql)[k]))
  BY <1>4, <1>5, <1>8 DEF SameTable
<1>10. Differ(Read(Body(new, b)))
  <2>1. Read(Body(new, b)) \in Seq(OptionPairs)
    BY <1>1, BodyOptions
  <2> QED BY <1>7, <1>9, <2>1, DistinctDiffer
<1>11. m.head[1][2] = b.table /\ (b \in KafkaBlocks(new) <=> IsKafkaTable(m))
  BY <1>1, <1>3, <1>5, <1>10, DescribedIs
<1>12. (b \in KafkaBlocks(new) <=> IsKafkaTable(Meanings(sql)[k]))
  BY <1>9, <1>11
<1> QED BY <1>2, <1>4, <1>5, <1>7, <1>9, <1>10, <1>11, <1>12 DEF IsTableOf

(* A text has a block for every deployed Kafka table, unless a comment     *)
(* hides one, and no other.                                                *)
LEMMA KafkaBlocksAre ==
    ASSUME NEW sql, NEW new, NEW requests, Replays(sql, new, requests)
    PROVE  /\ \A b \in KafkaBlocks(new) : b.table \in KafkaTables(sql)
           /\ NothingHides(sql) => \A n \in KafkaTables(sql) : \E b \in KafkaBlocks(new) : b.table = n
           /\ \A b, c \in KafkaBlocks(new) : b.table = c.table => b = c
           /\ \A b, c \in FindWithBlocks(new) : b = c \/ b.close < c.open \/ c.close < b.open
<1>1. /\ new \in Seq(Atoms) /\ sql \in Seq(Atoms) /\ Unambiguous(sql) /\ IsParsed(new)
  BY Zenon DEF Replays, WellFormed
<1>2. PICK mode, place : Parses(new, mode, place)
  BY <1>1, Zenon DEF IsParsed
<1>3. PICK r : Readable(new, mode, place, r)
  BY <1>1, <1>2, ParsedIsReadable
<1>4. KafkaBlocks(new) \subseteq FindWithBlocks(new)
  BY DEF KafkaBlocks
<1>5. \A b \in FindWithBlocks(new) : IsTableOf(sql, new, NumberOf(r, b.at), b)
  BY <1>3, TextBlock
<1>6. ASSUME NEW b \in KafkaBlocks(new)
      PROVE  b.table \in KafkaTables(sql)
  <2>1. PICK k : k = NumberOf(r, b.at) /\ IsTableOf(sql, new, k, b)
    BY <1>4, <1>5
  <2>2. PICK m : m = Meanings(sql)[k] /\ m \in Range(Meanings(sql)) /\ m.head[1][2] = b.table /\ IsKafkaTable(m)
    BY <2>1 DEF IsTableOf, Range
  <2> QED BY <2>2 DEF KafkaTables
<1>7. ASSUME NothingHides(sql), NEW n \in KafkaTables(sql)
      PROVE  \E b \in KafkaBlocks(new) : b.table = n
  <2>1. PICK k \in DOMAIN Meanings(sql) : IsKafkaTable(Meanings(sql)[k]) /\ Meanings(sql)[k].head[1][2] = n
    BY DEF KafkaTables, Range
  <2>2. k \in DOMAIN Meanings(new) /\ IsKafkaTable(Meanings(new)[k])
    BY <2>1, TextTables DEF SameTable
  <2>3. PICK b \in FindWithBlocks(new) : NumberOf(r, b.at) = k
    <3>1. NothingHides(new)
      BY <1>7 DEF Replays
    <3> QED BY <1>3, <2>2, <3>1, KafkaHasBlock
  <2>4. IsTableOf(sql, new, k, b)
    BY <1>5, <2>3
  <2> QED BY <2>1, <2>3, <2>4 DEF IsTableOf
<1>8. \A b \in FindWithBlocks(new) : b.at \in 1 .. Len(new) /\ b = Block(new, b.at)
  BY <1>3, ReadableIs, BlockIsTable
<1>9. Len(new) \in Nat
  BY <1>1
<1>10. \A b, c \in FindWithBlocks(new) : b = c \/ b.at < c.at \/ c.at < b.at
  <2> TAKE b, c \in FindWithBlocks(new)
  <2>1. b.at \in 1 .. Len(new) /\ c.at \in 1 .. Len(new)
    BY <1>8
  <2>2. PICK p \in Nat, q \in Nat : p = b.at /\ q = c.at
    BY <1>9, <2>1
  <2>3. p = q => b = c
    BY <1>8, <2>2
  <2> QED BY <2>2, <2>3
<1>11. ASSUME NEW b \in KafkaBlocks(new), NEW c \in KafkaBlocks(new), b.table = c.table
       PROVE  b = c
  <2>1. PICK j, k : j = NumberOf(r, b.at) /\ k = NumberOf(r, c.at) /\ IsTableOf(sql, new, j, b) /\ IsTableOf(sql, new, k, c)
    BY <1>4, <1>5
  <2>2. j = k
    <3>1. j \in DOMAIN Meanings(sql) /\ k \in DOMAIN Meanings(sql) /\ IsKafkaTable(Meanings(sql)[j])
          /\ IsKafkaTable(Meanings(sql)[k]) /\ Meanings(sql)[j].head[1][2] = Meanings(sql)[k].head[1][2]
      BY <1>11, <2>1 DEF IsTableOf
    <3> QED BY <1>1, <3>1 DEF Unambiguous
  <2>3. ~(b.at < c.at) /\ ~(c.at < b.at)
    BY <1>3, <1>4, <2>1, <2>2, BlocksApart
  <2> QED BY <1>4, <1>10, <2>3
<1>12. \A b, c \in FindWithBlocks(new) : b = c \/ b.close < c.open \/ c.close < b.open
  BY <1>3, <1>10, BlocksApart
<1> QED BY <1>6, <1>7, <1>11, <1>12

(* A text whose block is written anew is one that Flink can read.          *)
LEMMA ParsedAgain ==
    ASSUME NEW sql, NEW mode, NEW place, Path(sql, mode, place),
           mode[1] = "code", place[1] = "start", place[Len(sql) + 1] = "start",
           NEW p, NEW w, NEW o, NEW c, Table(sql, mode, place, p, w, o, c),
           NEW options \in Seq(OptionPairs), Len(options) >= 1,
           NEW new, Replaces(sql, o, c, Rendered(options), new)
    PROVE  IsParsed(new)
<1>1. PICK n \in Nat : n = Len(sql)
  BY DEF Path
<1>2. /\ o \in 1 .. Len(sql) /\ c \in 1 .. Len(sql) /\ BodyEnd(sql, mode, place, o + 1, c)
      /\ mode[o + 1] = "code" /\ place[o + 1] = "open"
  BY DEF Table, Opens
<1>3. PICK newMode, newPlace : SameAround(sql, mode, place, o, c, new, newMode, newPlace, (o + 1) + 5 * Len(options))
  BY <1>2, BlockWritten
<1>4. newPlace[Len(new) + 1] = "start"
  BY <1>3, TableAgain
<1>5. newMode[1] = "code" /\ newPlace[1] = "start"
  <2>1. 1 \in 1 .. o + 1
    BY <1>1, <1>2
  <2>2. \A i \in 1 .. o + 1 : newMode[i] = mode[i] /\ newPlace[i] = place[i]
    BY <1>3 DEF SameAround
  <2> QED BY <2>1, <2>2
<1>6. Path(new, newMode, newPlace)
  BY <1>3 DEF SameAround
<1>7. /\ newMode \in [1 .. Len(new) + 1 -> Modes] /\ newPlace \in [1 .. Len(new) + 1 -> Places]
      /\ Parses(new, newMode, newPlace)
  BY <1>4, <1>5, <1>6, Zenon DEF Path, Parses
<1> QED BY <1>7, Zenon DEF IsParsed

(* What rewriteForReplay writes, and where.                                *)
LEMMA RewritesTarget ==
    ASSUME NEW sql, NEW request, RewriteForReplay(sql, request).ok
    PROVE  \E b \in Target(KafkaBlocks(sql), request.name) :
              /\ RewriteForReplay(sql, request).table = b.table
              /\ RewriteForReplay(sql, request).sql = Written(sql, b, request)
<1> DEFINE target == Target(KafkaBlocks(sql), request.name)
           b == CHOOSE b \in target : TRUE
<1>1. /\ target # {} /\ RewriteForReplay(sql, request).table = b.table
      /\ RewriteForReplay(sql, request).sql =
            Spliced(sql, b, Rendered(Upserted(Read(Body(sql, b)), request)))
  BY DEF RewriteForReplay
<1>2. b \in target
  BY <1>1
<1> HIDE DEF b
<1> QED BY <1>1, <1>2 DEF Written

(* There is always an option to render, as rewriteForReplay needs it.      *)
LEMMA UpsertedIsLong ==
    ASSUME NEW options \in Seq(OptionPairs), NEW request \in Request
    PROVE  Upserted(options, request) \in Seq(OptionPairs) /\ Len(Upserted(options, request)) >= 1
<1>1. PICK new : new = Upserted(options, request)
  OBVIOUS
<1>2. new \in Seq(OptionPairs) /\ Sets(options, new, request)
  BY <1>1, UpsertedSets
<1>3. \E i \in DOMAIN new : TRUE
  <2>1. 1 \in 1 .. 3
    OBVIOUS
  <2>2. \A k \in 1 .. 3 : \E i \in DOMAIN new :
           new[i] = Startup(request)[k] /\ \A j \in KeysAt(new, new[i][1]) : j <= i
    BY <1>2, Zenon DEF Sets
  <2> QED BY <2>1, <2>2
<1>4. DOMAIN new = 1 .. Len(new) /\ Len(new) \in Nat
  BY <1>2
<1> QED BY <1>1, <1>2, <1>3, <1>4

(* A rewrite replaces the block it has found.                              *)
LEMMA WrittenReplaces ==
    ASSUME NEW sql \in Seq(Atoms), NEW b \in FindWithBlocks(sql), NEW request \in Request
    PROVE  Replaces(sql, b.open, b.close, Rendered(Upserted(Read(Body(sql, b)), request)), Written(sql, b, request))
<1>1. PICK body : body = Rendered(Upserted(Read(Body(sql, b)), request)) /\ body \in Seq(Atoms)
  <2>1. Upserted(Read(Body(sql, b)), request) \in Seq(OptionPairs)
    BY BodyOptions, UpsertedSets
  <2> QED BY <2>1, RenderedAtoms
<1>2. b.open \in 1 .. Len(sql) /\ b.close \in 1 .. Len(sql) /\ b.open < b.close
  BY BlocksAre DEF Positions
<1>3. PICK o \in 1 .. Len(sql) : o = b.open
  BY <1>2
<1>4. PICK c \in o + 1 .. Len(sql) : c = b.close
  BY <1>2, <1>3
<1>5. Replaces(sql, o, c, body, (SubSeq(sql, 1, o) \o body) \o SubSeq(sql, c, Len(sql)))
  BY <1>1, SplicedReplaces
<1> QED BY <1>1, <1>3, <1>4, <1>5 DEF Written, Spliced

(* A request is not the one that stands for none.                          *)
LEMMA RequestsAre == \A q \in Request : q # NoRequest
<1>1. ASSUME NEW q \in Request
      PROVE  q.millis # NoRequest.millis
  <2>1. q.millis \in Millis
    BY DEF Request
  <2>2. NoRequest.millis = NoName
    BY DEF NoRequest
  <2> QED BY <2>1, <2>2, SqlAssumption
<1> QED BY <1>1

IsWith(atom) == atom[1] = "with"
IsBlank(atom) == atom[1] = "nl"

(* No WITH is followed by a comment, atom by atom.                         *)
LEMMA NothingHidesIs ==
    ASSUME NEW sql \in Seq(Atoms)
    PROVE  NothingHides(sql) <=>
              \A i, j \in 1 .. Len(sql) :
                  IsWith(sql[i]) /\ StartsComment(sql[j]) /\ i < j => \E k \in i + 1 .. j - 1 : ~IsBlank(sql[k])
<1>1. DOMAIN sql = 1 .. Len(sql) /\ Len(sql) \in Nat
  OBVIOUS
<1>2. \A i : i \in Positions(sql, "with") <=> i \in 1 .. Len(sql) /\ IsWith(sql[i])
  BY <1>1 DEF Positions, Is, IsWith
<1>3. \A j : j \in Positions(sql, "--") \cup Positions(sql, "/*") <=> j \in 1 .. Len(sql) /\ StartsComment(sql[j])
  BY <1>1 DEF Positions, Is, StartsComment
<1>4. \A k \in 1 .. Len(sql) : Is(sql, k, "nl") <=> IsBlank(sql[k])
  BY <1>1 DEF Is, IsBlank
<1>5. \A i, j \in 1 .. Len(sql) : \A k \in i + 1 .. j - 1 : k \in 1 .. Len(sql)
  BY <1>1
<1>6. \A i, j \in 1 .. Len(sql) :
         (\E k \in i + 1 .. j - 1 : ~Is(sql, k, "nl")) <=> \E k \in i + 1 .. j - 1 : ~IsBlank(sql[k])
  BY <1>4, <1>5, Zenon
<1> QED BY <1>2, <1>3, <1>6, Zenon DEF NothingHides

(* A rendered block has no WITH and no comment, so it hides nothing.       *)
LEMMA HidesNothingNew ==
    ASSUME NEW sql \in Seq(Atoms), NothingHides(sql),
           NEW o \in 1 .. Len(sql), NEW c \in o + 1 .. Len(sql), ~IsWith(sql[o]), ~IsBlank(sql[o]),
           NEW body \in Seq(Atoms), \A x \in 1 .. Len(body) : ~IsWith(body[x]),
           NEW new, Replaces(sql, o, c, body, new)
    PROVE  NothingHides(new)
<1>1. PICK n \in Nat, l \in Nat : n = Len(sql) /\ l = Len(body)
  OBVIOUS
<1>2. PICK e \in Nat : e = (o + 1) + l
  BY <1>1
<1>3. /\ new \in Seq(Atoms) /\ Len(new) = (n - c) + e
      /\ \A x \in 1 .. o : new[x] = sql[x]
      /\ \A x \in 1 .. l : new[o + x] = body[x]
      /\ \A x \in 0 .. n - c : new[e + x] = sql[c + x]
  BY <1>1, <1>2 DEF Replaces
<1>4. /\ o \in 1 .. n /\ c \in o + 1 .. n
      /\ \A x, y \in 1 .. n :
            IsWith(sql[x]) /\ StartsComment(sql[y]) /\ x < y => \E k \in x + 1 .. y - 1 : ~IsBlank(sql[k])
  BY <1>1, NothingHidesIs
<1> DEFINE Shifted(x) == new[e + x] = sql[c + x]
<1>5. \A x \in 0 .. n - c : Shifted(x)
  BY <1>3
<1> HIDE DEF Shifted
<1>6. ASSUME NEW i \in 1 .. Len(new), NEW j \in 1 .. Len(new),
             IsWith(new[i]), StartsComment(new[j]), i < j
      PROVE  \E k \in i + 1 .. j - 1 : ~IsBlank(new[k])
  <2>1. i \in 1 .. (n - c) + e /\ j \in 1 .. (n - c) + e
    BY <1>3
  <2>2. CASE i <= o
    <3>1. i # o /\ new[o] = sql[o] /\ new[i] = sql[i]
      BY <1>3, <1>4, <1>6, <2>1, <2>2
    <3>2. CASE j <= o
      <4>1. new[j] = sql[j] /\ i \in 1 .. n /\ j \in 1 .. n
        BY <1>3, <1>4, <2>1, <2>2, <3>2
      <4>2. PICK k \in i + 1 .. j - 1 : ~IsBlank(sql[k])
        BY <1>4, <1>6, <3>1, <4>1
      <4>3. new[k] = sql[k]
        BY <1>3, <1>4, <2>1, <3>2
      <4> QED BY <4>2, <4>3
    <3>3. CASE j > o
      <4>1. o \in i + 1 .. j - 1
        BY <1>4, <2>1, <2>2, <3>1, <3>3
      <4> QED BY <3>1, <4>1
    <3> QED BY <1>4, <2>1, <3>2, <3>3
  <2>3. CASE i > o /\ i < e
    <3>1. PICK x \in 1 .. l : i = o + x
      <4>1. i - o \in 1 .. l /\ i = o + (i - o)
        BY <1>1, <1>2, <1>4, <2>1, <2>3
      <4> QED BY <4>1
    <3>2. new[i] = body[x]
      BY <1>3, <3>1
    <3> QED BY <1>1, <1>6, <3>1, <3>2
  <2>4. CASE i >= e
    <3>1. PICK x \in 0 .. n - c, y \in 0 .. n - c : i = e + x /\ j = e + y /\ x < y
      <4>1. i - e \in 0 .. n - c /\ j - e \in 0 .. n - c /\ i = e + (i - e) /\ j = e + (j - e) /\ i - e < j - e
        BY <1>2, <1>4, <1>6, <2>1, <2>4
      <4> QED BY <4>1
    <3>2. new[i] = sql[c + x] /\ new[j] = sql[c + y] /\ c + x \in 1 .. n /\ c + y \in 1 .. n /\ c + x < c + y
      <4>1. new[i] = sql[c + x] /\ new[j] = sql[c + y]
        BY <1>5, <3>1 DEF Shifted
      <4>2. c + x \in 1 .. n /\ c + y \in 1 .. n /\ c + x < c + y
        BY <1>4, <3>1
      <4> QED BY <4>1, <4>2
    <3>3. PICK k \in (c + x) + 1 .. (c + y) - 1 : ~IsBlank(sql[k])
      BY <1>4, <1>6, <3>2
    <3>4. PICK z \in 0 .. n - c : k = c + z /\ x < z /\ z < y
      <4>1. k - c \in 0 .. n - c /\ k = c + (k - c) /\ x < k - c /\ k - c < y
        BY <1>4, <3>1, <3>3
      <4> QED BY <4>1
    <3>5. new[e + z] = sql[k] /\ e + z \in i + 1 .. j - 1
      <4>1. new[e + z] = sql[k]
        BY <1>5, <3>4 DEF Shifted
      <4>2. e + z \in i + 1 .. j - 1
        BY <3>1, <3>4
      <4> QED BY <4>1, <4>2
    <3> QED BY <3>3, <3>5
  <2> QED BY <1>2, <1>4, <2>1, <2>2, <2>3, <2>4
<1> QED BY <1>3, <1>6, NothingHidesIs

(* What a rewrite of a block makes of the tables.                          *)
LEMMA BlockRewritten ==
    ASSUME NEW new \in Seq(Atoms), NEW mode, NEW place, NEW r, Readable(new, mode, place, r),
           NEW b \in FindWithBlocks(new), NEW q \in Request
    PROVE  /\ IsParsed(Written(new, b, q))
           /\ \E head : OneTableOther(new, Written(new, b, q), NumberOf(r, b.at), head,
                                      Read(Body(new, b)), Upserted(Read(Body(new, b)), q))
<1>1. /\ Path(new, mode, place) /\ mode[1] = "code" /\ place[1] = "start" /\ place[Len(new) + 1] = "start"
      /\ Statements(new) = r[1] /\ Along(new, mode, r)
  BY ReadableIs
<1>2. b.at \in 1 .. Len(new) /\ new[b.at][1] = "create" /\ \E w : Table(new, mode, place, b.at, w, b.open, b.close)
  BY <1>1, BlockIsTable
<1>3. PICK w : Table(new, mode, place, b.at, w, b.open, b.close)
  BY <1>2
<1>4. PICK now : now = Upserted(Read(Body(new, b)), q)
  OBVIOUS
<1>5. now \in Seq(OptionPairs) /\ Len(now) >= 1
  <2>1. Read(Body(new, b)) \in Seq(OptionPairs)
    BY BodyOptions
  <2> QED BY <1>4, <2>1, UpsertedIsLong
<1>6. Replaces(new, b.open, b.close, Rendered(now), Written(new, b, q))
  BY <1>4, WrittenReplaces
<1>7. IsParsed(Written(new, b, q))
  BY <1>1, <1>3, <1>5, <1>6, ParsedAgain
<1>8. place[b.at] = "start"
  BY <1>1, <1>2, CreatesBegin
<1>9. PICK head : OneTableOther(new, Written(new, b, q), NumberOf(r, b.at), head,
                               Read(SubSeq(new, b.open + 1, b.close - 1)), now)
  <2>1. PICK p, o, c : p = b.at /\ o = b.open /\ c = b.close
    OBVIOUS
  <2>2. PICK next : next = Written(new, b, q)
    OBVIOUS
  <2>3. Table(new, mode, place, p, w, o, c) /\ Replaces(new, o, c, Rendered(now), next) /\ place[p] = "start"
    BY <1>3, <1>6, <1>8, <2>1, <2>2
  <2>4. \E head : /\ head[1] = new[p]
                  /\ OneTableOther(new, next, NumberOf(r, p), head, Read(SubSeq(new, o + 1, c - 1)), now)
    BY <1>1, <1>5, <2>3, OtherOptions
  <2> QED BY <2>1, <2>2, <2>4
<1>10. Read(SubSeq(new, b.open + 1, b.close - 1)) = Read(Body(new, b))
  BY DEF Body
<1> QED BY <1>4, <1>7, <1>9, <1>10

(* A rewrite hides nothing.                                                *)
LEMMA WrittenHidesNothing ==
    ASSUME NEW new \in Seq(Atoms), NothingHides(new), NEW b \in FindWithBlocks(new), NEW q \in Request
    PROVE  NothingHides(Written(new, b, q))
<1>1. PICK options : options = Upserted(Read(Body(new, b)), q) /\ options \in Seq(OptionPairs)
  <2>1. Read(Body(new, b)) \in Seq(OptionPairs)
    BY BodyOptions
  <2> QED BY <2>1, UpsertedIsLong
<1>2. PICK body : body = Rendered(options)
  OBVIOUS
<1>3. body \in Seq(Atoms) /\ \A x \in 1 .. Len(body) : ~IsWith(body[x])
  <2>1. body \in Seq(Atoms) /\ \A x \in 1 .. Len(body) : body[x][1] \in {"nl", "lit", "=", ","}
    BY <1>1, <1>2, RenderedAtoms
  <2> QED BY <2>1 DEF IsWith
<1>4. PICK o \in 1 .. Len(new) : o = b.open /\ ~IsWith(new[o]) /\ ~IsBlank(new[o])
  <2>1. b.open \in Positions(new, "(")
    BY BlocksAre
  <2>2. b.open \in 1 .. Len(new) /\ new[b.open][1] = "("
    BY <2>1 DEF Positions, Is
  <2> QED BY <2>2 DEF IsWith, IsBlank
<1>5. PICK c \in o + 1 .. Len(new) : c = b.close
  <2>1. b.close \in 1 .. Len(new) /\ b.open < b.close
    BY BlocksAre DEF Positions
  <2> QED BY <1>4, <2>1
<1>6. Replaces(new, o, c, body, Written(new, b, q))
  BY <1>1, <1>2, <1>4, <1>5, WrittenReplaces
<1> QED BY <1>3, <1>4, <1>5, <1>6, HidesNothingNew

(* One rewrite more, and the text has what the requests want.              *)
LEMMA RewriteKeeps ==
    ASSUME NEW sql, NEW new, NEW requests, Replays(sql, new, requests),
           NEW q \in Request, RewriteForReplay(new, q).ok
    PROVE  Replays(sql, RewriteForReplay(new, q).sql, [requests EXCEPT ![RewriteForReplay(new, q).table] = q])
<1>1. /\ sql \in Seq(Atoms) /\ new \in Seq(Atoms) /\ WellFormed(sql) /\ IsParsed(new)
      /\ requests \in [Tables -> Request \cup {NoRequest}]
  BY DEF Replays
<1>2. PICK b : /\ b \in KafkaBlocks(new) /\ RewriteForReplay(new, q).table = b.table
               /\ RewriteForReplay(new, q).sql = Written(new, b, q)
  BY RewritesTarget DEF Target
<1>3. b \in FindWithBlocks(new)
  BY <1>2 DEF KafkaBlocks
<1>4. PICK mode, place : Parses(new, mode, place)
  BY <1>1, Zenon DEF IsParsed
<1>5. PICK r : Readable(new, mode, place, r)
  BY <1>1, <1>4, ParsedIsReadable
<1>6. PICK k : k = NumberOf(r, b.at)
  OBVIOUS
<1>7. IsTableOf(sql, new, k, b)
  BY <1>3, <1>5, <1>6, TextBlock
<1>8. PICK next : next = Written(new, b, q)
  OBVIOUS
<1>9. PICK old : old = Read(Body(new, b))
  OBVIOUS
<1>10. IsParsed(next)
  BY <1>1, <1>3, <1>5, <1>8, BlockRewritten
<1>11. PICK h : OneTableOther(new, next, k, h, old, Upserted(old, q))
  BY <1>1, <1>3, <1>5, <1>6, <1>8, <1>9, BlockRewritten
<1>12. PICK m : m = Meanings(sql)[k]
  OBVIOUS
<1>13. k \in DOMAIN Meanings(sql) /\ IsKafkaTable(m) /\ m.head[1][2] = b.table
  BY <1>2, <1>7, <1>12 DEF IsTableOf
<1>14. PICK head, options : KafkaMeans(m, head, options) /\ head[1][2] \in Tables
  BY <1>1, <1>12, <1>13, DeployedTables
<1>15. m = [head |-> head, options |-> options] /\ m.head = head /\ options \in Seq(OptionPairs) /\ Differ(options)
  BY <1>14 DEF KafkaMeans
<1>16. PICK now : KafkaMeans(WantedOf(requests, m), head, now) /\ \A x \in Request : Upserted(now, x) = Upserted(options, x)
  BY <1>1, <1>14, WantedIs
<1>17. Meanings(new) = [j \in DOMAIN Meanings(sql) |-> WantedOf(requests, Meanings(sql)[j])]
  BY DEF Replays, Kept
<1>18. Meanings(new)[k] = [head |-> head, options |-> now]
  BY <1>12, <1>13, <1>16, <1>17 DEF KafkaMeans
<1>19. h = head /\ old = now
  <2>1. Meanings(new)[k] = [head |-> h, options |-> old]
    BY <1>11 DEF OneTableOther
  <2>2. PICK x : x = Meanings(new)[k] /\ x.head = head /\ x.options = now
    BY <1>18
  <2>3. x.head = h /\ x.options = old
    BY <2>1, <2>2
  <2> QED BY <2>2, <2>3
<1>20. PICK t \in Tables : t = b.table
  BY <1>13, <1>14, <1>15
<1>21. PICK after : after = [requests EXCEPT ![t] = q]
  OBVIOUS
<1>22. after \in [Tables -> Request \cup {NoRequest}] /\ after[t] = q /\ \A n \in Tables : n # t => after[n] = requests[n]
  BY <1>1, <1>20, <1>21
<1>23. WantedOf(after, m) = [head |-> head, options |-> Upserted(old, q)]
  <2>1. q # NoRequest
    BY RequestsAre
  <2>2. WantedOf(after, m) = Replayed(m, q)
    BY <1>13, <1>20, <1>22, <2>1 DEF WantedOf
  <2>3. Replayed(m, q) = [head |-> head, options |-> Upserted(options, q)]
    BY <1>15, ReplayedIs
  <2> QED BY <1>16, <1>19, <2>2, <2>3
<1>24. ASSUME NEW j \in DOMAIN Meanings(sql), j # k
       PROVE  WantedOf(after, Meanings(sql)[j]) = WantedOf(requests, Meanings(sql)[j])
  <2>1. PICK x : x = Meanings(sql)[j]
    OBVIOUS
  <2>2. CASE IsKafkaTable(x)
    <3>1. x.head[1][2] # t
      <4>1. Unambiguous(sql)
        BY <1>1, Zenon DEF WellFormed
      <4>2. \A a, c \in DOMAIN Meanings(sql) :
               IsKafkaTable(Meanings(sql)[a]) /\ IsKafkaTable(Meanings(sql)[c])
               /\ Meanings(sql)[a].head[1][2] = Meanings(sql)[c].head[1][2] => a = c
        BY <4>1, Zenon DEF Unambiguous
      <4> QED BY <1>12, <1>13, <1>20, <1>24, <2>1, <2>2, <4>2
    <3>2. x.head[1][2] \in Tables
      <4>1. PICK g, o : KafkaMeans(x, g, o) /\ g[1][2] \in Tables
        BY <1>1, <2>1, <2>2, DeployedTables
      <4>2. x.head = g
        BY <4>1 DEF KafkaMeans
      <4> QED BY <4>1, <4>2
    <3>3. after[x.head[1][2]] = requests[x.head[1][2]]
      BY <1>22, <3>1, <3>2
    <3> QED BY <2>1, <3>3, Zenon DEF WantedOf
  <2>3. CASE ~IsKafkaTable(x)
    BY <2>1, <2>3, OthersStay
  <2> QED BY <2>2, <2>3
<1>25. Kept(sql, next, after)
  <2>1. Meanings(next) = [Meanings(new) EXCEPT ![k] = [head |-> head, options |-> Upserted(old, q)]]
    BY <1>11, <1>19 DEF OneTableOther
  <2>2. PICK f : f = [j \in DOMAIN Meanings(sql) |-> WantedOf(after, Meanings(sql)[j])]
    OBVIOUS
  <2>3. DOMAIN Meanings(next) = DOMAIN f /\ \A j \in DOMAIN f : Meanings(next)[j] = f[j]
    BY <1>12, <1>13, <1>17, <1>23, <1>24, <2>1, <2>2
  <2>4. Meanings(next) = f
    BY <1>17, <2>1, <2>2, <2>3
  <2> QED BY <2>2, <2>4 DEF Kept
<1>26. next \in Seq(Atoms)
  BY <1>2, <1>8, <1>1, RewritesLocally
<1>27. NothingHides(sql) => NothingHides(next)
  <2>1. NothingHides(sql) => NothingHides(new)
    BY DEF Replays
  <2> QED BY <1>1, <1>3, <1>8, <2>1, WrittenHidesNothing
<1> QED BY <1>1, <1>2, <1>8, <1>10, <1>20, <1>21, <1>22, <1>25, <1>26, <1>27 DEF Replays

-----------------------------------------------------------------------------
(* A replay falls on a table that can be meant, or is refused.             *)

MeantIn(sql, request) ==
    IF request.name = NoName THEN KafkaTables(sql) ELSE KafkaTables(sql) \cap {request.name}

(* A text has finitely many Kafka tables.                                  *)
LEMMA KafkaTablesAreFinite ==
    ASSUME NEW sql \in Seq(Atoms), IsParsed(sql)
    PROVE  IsFiniteSet(KafkaTables(sql))
<1>1. PICK mode, place : Parses(sql, mode, place)
  BY Zenon DEF IsParsed
<1>2. PICK r : Readable(sql, mode, place, r)
  BY <1>1, ParsedIsReadable
<1>3. PICK n \in Nat : DOMAIN Meanings(sql) = 1 .. n
  <2>1. r[1] \in Seq(Seq(Atoms)) /\ DOMAIN Meanings(sql) = 1 .. Len(r[1])
    BY <1>2, MeaningsAre
  <2>2. PICK A : A = r[1]
    OBVIOUS
  <2> DEFINE T == Seq(Atoms)
  <2> HIDE DEF T
  <2>3. A \in Seq(T)
    BY <2>1, <2>2 DEF T
  <2> QED BY <2>1, <2>2, <2>3
<1> DEFINE S == {k \in 1 .. n : IsKafkaTable(Meanings(sql)[k])}
           f == [k \in S |-> Meanings(sql)[k].head[1][2]]
<1>4. IsFiniteSet(S)
  <2>1. IsFiniteSet(1 .. n)
    BY FS_Interval
  <2>2. S \in SUBSET (1 .. n)
    OBVIOUS
  <2> HIDE DEF S
  <2> QED BY <2>1, <2>2, FS_Subset
<1>5. f \in Surjection(S, KafkaTables(sql))
  <2>1. \A x : x \in KafkaTables(sql) <=> \E k \in S : x = Meanings(sql)[k].head[1][2]
    BY <1>3 DEF KafkaTables, Range
  <2> HIDE DEF S
  <2> QED BY <2>1 DEF Surjection
<1> HIDE DEF S, f
<1> QED BY <1>4, <1>5, FS_Surjection

(* This holds in every rewritten text.                                     *)
LEMMA RewriteFallsOnMeant ==
    ASSUME NEW sql, NEW new, NEW requests, Replays(sql, new, requests), NEW q \in Request
    PROVE  /\ RewriteForReplay(new, q).ok => RewriteForReplay(new, q).table \in MeantIn(sql, q)
           /\ NothingHides(sql) =>
                 IF RewriteForReplay(new, q).ok THEN MeantIn(sql, q) = {RewriteForReplay(new, q).table}
                 ELSE Cardinality(MeantIn(sql, q)) # 1
<1>1. /\ sql \in Seq(Atoms) /\ new \in Seq(Atoms) /\ IsParsed(sql)
  BY Zenon DEF Replays, WellFormed, IsParsed
<1>2. PICK T, K : T = KafkaTables(sql) /\ K = KafkaBlocks(new)
  OBVIOUS
<1>3. /\ \A b \in K : b.table \in T
      /\ NothingHides(sql) => \A n \in T : \E b \in K : b.table = n
      /\ \A b, c \in K : b.table = c.table => b = c
  BY <1>2, KafkaBlocksAre
<1>4. PICK M : M = MeantIn(sql, q)
  OBVIOUS
<1>5. M = IF q.name = NoName THEN T ELSE T \cap {q.name}
  BY <1>2, <1>4 DEF MeantIn
<1>6. CASE RewriteForReplay(new, q).ok
  <2>1. PICK b \in Target(K, q.name) : RewriteForReplay(new, q).table = b.table
    BY <1>2, <1>6, RewritesTarget
  <2>2. b \in K /\ IF q.name = NoName THEN K = {b} ELSE b.table = q.name
    BY <2>1 DEF Target
  <2>3. b.table \in M
    BY <1>3, <1>5, <2>2
  <2>4. NothingHides(sql) => M = {b.table}
    BY <1>3, <1>5, <2>2
  <2> QED BY <1>4, <1>6, <2>1, <2>3, <2>4
<1>7. CASE ~RewriteForReplay(new, q).ok
  <2>1. Target(K, q.name) = {}
    BY <1>2, <1>7 DEF RewriteForReplay
  <2> SUFFICES ASSUME NothingHides(sql), Cardinality(M) = 1
               PROVE  FALSE
    BY <1>4, <1>7
  <2>2. IsFiniteSet(M)
    <3>1. IsFiniteSet(T)
      BY <1>1, <1>2, KafkaTablesAreFinite
    <3>2. M \in SUBSET T
      BY <1>5
    <3> QED BY <3>1, <3>2, FS_Subset
  <2>3. PICK n : M = {n}
    BY <2>2, FS_Singleton
  <2>4. PICK b \in K : b.table = n
    BY <1>3, <1>5, <2>3
  <2>5. CASE q.name = NoName
    <3>1. K = {b}
      BY <1>3, <1>5, <2>3, <2>4, <2>5
    <3> QED BY <2>1, <2>5, <3>1 DEF Target
  <2>6. CASE q.name # NoName
    <3>1. b.table = q.name
      BY <1>5, <2>3, <2>4, <2>6
    <3>2. \A c \in K : c.table = q.name => c = b
      BY <1>3, <3>1
    <3>3. b.at <= b.at
      <4>1. b \in FindWithBlocks(new)
        BY <1>2, <2>4 DEF KafkaBlocks
      <4>2. b.at \in Nat
        BY <1>1, <4>1, BlocksAre DEF Positions
      <4> QED BY <4>2
    <3>4. b \in Target(K, q.name)
      BY <2>4, <2>6, <3>1, <3>2, <3>3 DEF Target
    <3> QED BY <2>1, <3>4
  <2> QED BY <2>5, <2>6
<1> QED BY <1>6, <1>7

-----------------------------------------------------------------------------
(* The deployed text is one that Flink can read.                           *)
Inv ==
    /\ TypeOK
    /\ Replays(base, text, asked)

(* As it was deployed, a text is what no request has changed.              *)
LEMMA NothingIsReplayed ==
    ASSUME NEW sql \in Seq(Atoms), WellFormed(sql)
    PROVE  Replays(sql, sql, [t \in Tables |-> NoRequest])
<1>1. PICK none : none = [t \in Tables |-> NoRequest]
  OBVIOUS
<1>2. none \in [Tables -> Request \cup {NoRequest}] /\ \A t \in Tables : none[t] = NoRequest
  BY <1>1
<1>3. ASSUME NEW k \in DOMAIN Meanings(sql)
      PROVE  WantedOf(none, Meanings(sql)[k]) = Meanings(sql)[k]
  <2>1. PICK m : m = Meanings(sql)[k]
    OBVIOUS
  <2>2. CASE IsKafkaTable(m)
    <3>1. PICK head, options : KafkaMeans(m, head, options) /\ head[1][2] \in Tables
      BY <2>1, <2>2, DeployedTables
    <3>2. m.head = head
      BY <3>1 DEF KafkaMeans
    <3>3. none[m.head[1][2]] = NoRequest
      BY <1>2, <3>1, <3>2
    <3> QED BY <2>1, <3>3 DEF WantedOf
  <2>3. CASE ~IsKafkaTable(m)
    BY <2>1, <2>3, OthersStay
  <2> QED BY <2>2, <2>3
<1>4. Kept(sql, sql, none)
  <2>1. PICK f : f = [k \in DOMAIN Meanings(sql) |-> WantedOf(none, Meanings(sql)[k])]
    OBVIOUS
  <2>2. f = [k \in DOMAIN Meanings(sql) |-> Meanings(sql)[k]]
    BY <1>3, <2>1
  <2>3. Meanings(sql) = [k \in DOMAIN Meanings(sql) |-> Meanings(sql)[k]]
    <3>1. Meanings(sql) = [k \in DOMAIN Statements(sql) |-> Meaning(Statements(sql)[k])]
      BY DEF Meanings
    <3> QED BY <3>1
  <2> QED BY <2>1, <2>2, <2>3 DEF Kept
<1>5. IsParsed(sql)
  BY Zenon DEF WellFormed, IsParsed
<1> QED BY <1>1, <1>2, <1>4, <1>5 DEF Replays

(* Rewrites and reverts keep it that way.                                  *)
LEMMA ReplaysStay ==
    ASSUME \A sql \in Texts : WellFormed(sql)
    PROVE  Spec => []Inv
<1>1. Init => Inv
  <2> SUFFICES ASSUME Init PROVE Inv
    OBVIOUS
  <2>1. base \in Seq(Atoms) /\ WellFormed(base) /\ text = base /\ asked = [t \in Tables |-> NoRequest]
    BY SqlAssumption DEF Init
  <2>2. TypeOK
    BY <2>1 DEF Init, TypeOK
  <2> QED BY <2>1, <2>2, NothingIsReplayed DEF Inv
<1>2. Inv /\ [Next]_vars => Inv'
  <2> SUFFICES ASSUME Inv, [Next]_vars PROVE Inv'
    OBVIOUS
  <2>1. TypeOK /\ Replays(base, text, asked)
    BY DEF Inv
  <2>2. base \in Seq(Atoms) /\ WellFormed(base)
    BY <2>1, SqlAssumption DEF TypeOK
  <2>3. ASSUME NEW q \in Request, Rewrite(q) PROVE Inv'
    <3>1. /\ RewriteForReplay(text, q).ok /\ text' = RewriteForReplay(text, q).sql
          /\ asked' = [asked EXCEPT ![RewriteForReplay(text, q).table] = q] /\ base' = base
      BY <2>3 DEF Rewrite
    <3>2. Replays(base', text', asked')
      BY <2>1, <3>1, RewriteKeeps
    <3>3. TypeOK'
      BY <2>1, <3>1, <3>2 DEF TypeOK, Replays
    <3> QED BY <3>2, <3>3 DEF Inv
  <2>4. CASE Restore
    <3>1. text' = base /\ asked' = [t \in Tables |-> NoRequest] /\ base' = base
      BY <2>4 DEF Restore
    <3>2. Replays(base', text', asked')
      BY <2>2, <3>1, NothingIsReplayed
    <3>3. TypeOK'
      BY <2>1, <2>2, <3>1 DEF TypeOK
    <3> QED BY <3>2, <3>3 DEF Inv
  <2>5. CASE UNCHANGED vars
    BY <2>1, <2>5 DEF Inv, TypeOK, vars
  <2> QED BY <2>3, <2>4, <2>5 DEF Next
<1> QED BY <1>1, <1>2, PTL DEF Spec

(* Flink reads every text that replays and reverts leave as the one that   *)
(* was deployed: a table that a replay was asked for has the options the   *)
(* last request wants, and all else is as it was, whatever comments lie in *)
(* the text and however often it is rewritten.                             *)
THEOREM OnlyStartupsChange ==
    ASSUME \A sql \in Texts : WellFormed(sql)
    PROVE  Spec => []OnlyStartupChanges
<1>1. Inv => OnlyStartupChanges
  <2> SUFFICES ASSUME Inv PROVE OnlyStartupChanges
    OBVIOUS
  <2>1. Kept(base, text, asked)
    BY DEF Inv, Replays
  <2>2. \A m : WantedOf(asked, m) = Wanted(m)
    BY Zenon DEF WantedOf, Wanted
  <2> QED BY <2>1, <2>2 DEF Kept, OnlyStartupChanges
<1> QED BY <1>1, ReplaysStay, PTL

(* A replay falls on a Kafka table of the deployed text that it can mean;  *)
(* where no comment follows a WITH, on the only one, and it is refused when*)
(* there is none or more than one.  No block that the code finds reaches   *)
(* into another.                                                           *)
THEOREM UnclearIsRefused ==
    ASSUME \A sql \in Texts : WellFormed(sql)
    PROVE  Spec => []RefusesTheUnclear
<1>1. Inv => RefusesTheUnclear
  <2> SUFFICES ASSUME Inv PROVE RefusesTheUnclear
    OBVIOUS
  <2>1. Replays(base, text, asked)
    BY DEF Inv
  <2>2. ASSUME NEW q \in Request
        PROVE  /\ RewriteForReplay(text, q).ok => RewriteForReplay(text, q).table \in Meant(q)
               /\ NothingHides(base) =>
                     IF RewriteForReplay(text, q).ok THEN Meant(q) = {RewriteForReplay(text, q).table}
                     ELSE Cardinality(Meant(q)) # 1
    <3>1. Meant(q) = MeantIn(base, q)
      BY Zenon DEF Meant, MeantIn
    <3> QED BY <2>1, <3>1, RewriteFallsOnMeant
  <2>3. \A b, c \in FindWithBlocks(text) : b = c \/ b.close < c.open \/ c.close < b.open
    BY <2>1, KafkaBlocksAre
  <2> QED BY <2>2, <2>3 DEF RefusesTheUnclear
<1> QED BY <1>1, ReplaysStay, PTL

(* A text that replays and reverts leave behind is one that Flink can      *)
(* read.  The Kafka blocks that the code finds in it are Kafka tables that *)
(* were deployed, a different one each; and where no comment followed a    *)
(* WITH, it finds them all.                                                *)
StaysReadable ==
    /\ IsParsed(text)
    /\ \A b \in KafkaBlocks(text) : b.table \in KafkaTables(base)
    /\ \A b, c \in KafkaBlocks(text) : b.table = c.table => b = c
    /\ NothingHides(base) => \A n \in KafkaTables(base) : \E b \in KafkaBlocks(text) : b.table = n

(* So the next replay finds what the last one has written, and Flink too.  *)
THEOREM TextsStayReadable ==
    ASSUME \A sql \in Texts : WellFormed(sql)
    PROVE  Spec => []StaysReadable
<1>1. Inv => StaysReadable
  <2> SUFFICES ASSUME Inv PROVE StaysReadable
    OBVIOUS
  <2>1. Replays(base, text, asked) /\ IsParsed(text)
    BY DEF Inv, Replays
  <2>2. /\ \A b \in KafkaBlocks(text) : b.table \in KafkaTables(base)
        /\ NothingHides(base) => \A n \in KafkaTables(base) : \E b \in KafkaBlocks(text) : b.table = n
        /\ \A b, c \in KafkaBlocks(text) : b.table = c.table => b = c
    BY <2>1, KafkaBlocksAre
  <2> QED BY <2>1, <2>2 DEF StaysReadable
<1> QED BY <1>1, ReplaysStay, PTL
=============================================================================
