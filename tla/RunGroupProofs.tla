--------------------------- MODULE RunGroupProofs --------------------------
(***************************************************************************)
(* Proofs about Redact and RunGroup, for any number of processes and any   *)
(* set of protected values.                                                *)
(*                                                                         *)
(* First the redactor by itself: the automaton finds every occurrence of a *)
(* value, the sweep merges them into regions, and what Write and Close     *)
(* pass on is, piece by piece, the rendering of the stream as a whole.     *)
(* Then the command group: an invariant of the command, the copier and the *)
(* redactors together, from which the four safety properties follow.       *)
(*                                                                         *)
(* Redact computes with recursive functions.  What such a function is for  *)
(* every input cannot be had from the library's induction theorems, which  *)
(* take an operator; the lemmas of the first section stand in for them, by *)
(* the least counterexample.                                               *)
(***************************************************************************)
EXTENDS RunGroup, WellFoundedInduction, SequenceTheorems, FiniteSetTheorems,
        FunctionTheorems, TLAPS

-----------------------------------------------------------------------------
(***************************************************************************)
(* The naturals, and functions defined by recursion.                       *)
(***************************************************************************)

\* A set of naturals has a least element.
LEMMA Least ==
  ASSUME NEW T, T \subseteq Nat, T # {}
  PROVE  \E i \in T : \A j \in T : i <= j
<1> DEFINE Less == OpToRel(<, Nat)
<1>1. \E i \in T : \A j \in T : <<j, i>> \notin Less
  <2> HIDE DEF Less
  <2>1. IsWellFoundedOn(Less, Nat)
    BY NatLessThanWellFounded DEF Less
  <2> QED
    BY <2>1, WFMin, Zenon
<1>2. \A i, j \in Nat : <<j, i>> \in Less <=> j < i
  BY DEF OpToRel
<1> HIDE DEF Less
<1>3. PICK i \in T : \A j \in T : <<j, i>> \notin Less
  BY <1>1
<1>4. ASSUME NEW j \in T PROVE i <= j
  <2>1. i \in Nat /\ j \in Nat
    OBVIOUS
  <2>2. ~(j < i)
    BY <2>1, <1>2, <1>3
  <2> QED
    BY <2>1, <2>2
<1> QED
  BY <1>4

\* A set of naturals up to n has a greatest element.
LEMMA Greatest ==
  ASSUME NEW n \in Nat, NEW T, T \subseteq 0..n, T # {}
  PROVE  \E i \in T : \A j \in T : j <= i
<1> DEFINE U == {n - i : i \in T}
<1>1. U \subseteq Nat /\ U # {}
  <2>1. PICK t \in T : TRUE
    OBVIOUS
  <2>2. n - t \in U
    OBVIOUS
  <2>3. \A i \in 0..n : n - i \in Nat
    OBVIOUS
  <2> QED
    BY <2>2, <2>3
<1>2. PICK u \in U : \A v \in U : u <= v
  BY <1>1, Least, Zenon
<1>3. PICK i \in T : u = n - i
  BY <1>2
<1>4. ASSUME NEW j \in T PROVE j <= i
  <2>1. n - j \in U
    OBVIOUS
  <2>2. u <= n - j
    <3> HIDE DEF U
    <3> QED
      BY <2>1, <1>2
  <2>3. i \in Nat /\ j \in Nat
    OBVIOUS
  <2> QED
    BY <2>2, <2>3, <1>3
<1> QED
  BY <1>4

\* Min of the community modules is the least element of a set of naturals.
LEMMA MinIs ==
  ASSUME NEW T, T \subseteq Nat, T # {}
  PROVE  Min(T) \in T /\ \A j \in T : Min(T) <= j
BY Least DEF Min

\* Max of the community modules is the greatest element of a bounded set.
LEMMA MaxIs ==
  ASSUME NEW n \in Nat, NEW T, T \subseteq 0..n, T # {}
  PROVE  Max(T) \in T /\ \A j \in T : j <= Max(T)
<1>1. \E i \in T : \A j \in T : j <= i
  BY Greatest
<1>2. \E i \in T : \A j \in T : i >= j
  BY <1>1
<1>3. Max(T) \in T /\ \A j \in T : Max(T) >= j
  BY <1>2 DEF Max
<1> QED
  BY <1>3

\* Induction over the naturals, for a property given as the set where it holds.
LEMMA Induction ==
  ASSUME NEW T, \A n \in Nat : (\A m \in 0..(n - 1) : m \in T) => n \in T
  PROVE  \A n \in Nat : n \in T
<1> SUFFICES ASSUME Nat \ T # {} PROVE FALSE
  OBVIOUS
<1>1. PICK n \in Nat \ T : \A j \in Nat \ T : n <= j
  BY Least
<1>2. \A m \in 0..(n - 1) : m \in T
  BY <1>1
<1> QED
  BY <1>1, <1>2

(***************************************************************************)
(* A functional F has a fixed point if its value at x depends only on      *)
(* values at elements of a lower rank.  A[x] holds the values allowed at x.*)
(***************************************************************************)
Typed(S, A) == {g \in [S -> UNION {A[x] : x \in S}] : \A x \in S : g[x] \in A[x]}
Lower(S, rank, x, g, h) == \A y \in S : rank[y] < rank[x] => g[y] = h[y]
Functional(S, A, F) == F \in [Typed(S, A) -> Typed(S, A)]
Inhabited(S, A) == \A x \in S : A[x] # {}
Ranked(S, rank) == rank \in [S -> Nat]
Local(S, A, rank, F) ==
  \A g, h \in Typed(S, A) : \A x \in S : Lower(S, rank, x, g, h) => F[g][x] = F[h][x]
Solves(S, rank, F, g, n) == \A x \in S : rank[x] < n => g[x] = F[g][x]

\* Two functions that solve the equation up to a rank agree up to that rank:
\* where they first differed, their lower values would already differ.
LEMMA SolutionsAgree ==
  ASSUME NEW S, NEW A, NEW rank \in [S -> Nat], NEW F \in [Typed(S, A) -> Typed(S, A)],
         Local(S, A, rank, F),
         NEW g \in Typed(S, A), NEW h \in Typed(S, A), NEW n \in Nat, NEW m \in Nat,
         Solves(S, rank, F, g, n), Solves(S, rank, F, h, m)
  PROVE  \A x \in S : rank[x] < n /\ rank[x] < m => g[x] = h[x]
<1> DEFINE T == {k \in Nat : \A x \in S : rank[x] = k /\ k < n /\ k < m => g[x] = h[x]}
<1>1. ASSUME NEW k \in Nat, \A j \in 0..(k - 1) : j \in T
      PROVE  k \in T
  <2> SUFFICES ASSUME NEW x \in S, rank[x] = k, k < n, k < m
               PROVE  g[x] = h[x]
    OBVIOUS
  <2>1. Lower(S, rank, x, g, h)
    <3> SUFFICES ASSUME NEW y \in S, rank[y] < rank[x]
                 PROVE  g[y] = h[y]
      BY DEF Lower
    <3>1. rank[y] \in 0..(k - 1)
      OBVIOUS
    <3>2. rank[y] \in T
      BY <1>1, <3>1
    <3> QED
      BY <3>2
  <2>2. F[g][x] = F[h][x]
    BY <2>1 DEF Local
  <2> QED
    BY <2>2 DEF Solves
<1> HIDE DEF T
<1>2. \A k \in Nat : k \in T
  BY <1>1, Induction
<1> QED
  BY <1>2 DEF T

\* The equation f = F[f] has a solution, so that what CHOOSE takes for a
\* recursive function satisfies its defining equation.
LEMMA Recursion ==
  ASSUME NEW S, NEW A, NEW rank, NEW F,
         Ranked(S, rank), Functional(S, A, F), Inhabited(S, A), Local(S, A, rank, F)
  PROVE  \E f \in Typed(S, A) : f = F[f]
<1> USE DEF Ranked, Functional, Inhabited
<1> DEFINE G == Typed(S, A)
           T == {n \in Nat : \E g \in G : Solves(S, rank, F, g, n)}
<1>1. ASSUME NEW n \in Nat, \A j \in 0..(n - 1) : j \in T
      PROVE  n \in T
  <2>1. CASE n = 0
    <3>1. [x \in S |-> CHOOSE v \in A[x] : TRUE] \in G
      BY DEF Typed
    <3>2. \A g : Solves(S, rank, F, g, 0)
      BY DEF Solves
    <3> QED
      BY <2>1, <3>1, <3>2
  <2>2. CASE n # 0
    <3>1. n - 1 \in Nat /\ n - 1 \in T
      BY <1>1, <2>2
    <3>2. PICK g \in G : Solves(S, rank, F, g, n - 1)
      BY <3>1
    <3>3. F[g] \in G
      OBVIOUS
    <3>4. \A x \in S : rank[x] < n => Lower(S, rank, x, g, F[g])
      BY <3>2 DEF Solves, Lower
    <3>5. Solves(S, rank, F, F[g], n)
      BY <3>3, <3>4 DEF Solves, Local
    <3> QED
      BY <3>3, <3>5
  <2> QED
    BY <2>1, <2>2
<1>2. \A n \in Nat : n \in T
  <2> HIDE DEF T
  <2> QED
    BY <1>1, Induction
<1> DEFINE sol == [n \in Nat |-> CHOOSE g \in G : Solves(S, rank, F, g, n)]
           f == [x \in S |-> sol[rank[x] + 1][x]]
<1>3. \A n \in Nat : sol[n] \in G /\ Solves(S, rank, F, sol[n], n)
  BY <1>2
<1>4. \A x \in S : f[x] = sol[rank[x] + 1][x]
  OBVIOUS
<1>5. f \in G
  <2>1. ASSUME NEW x \in S PROVE f[x] \in A[x]
    <3>1. rank[x] + 1 \in Nat
      OBVIOUS
    <3> HIDE DEF sol
    <3> QED
      BY <1>3, <3>1 DEF Typed
  <2> HIDE DEF sol
  <2> QED
    BY <2>1 DEF Typed
<1> HIDE DEF sol, f
<1>6. ASSUME NEW x \in S PROVE f[x] = F[f][x]
  <2> DEFINE n == rank[x] + 1
  <2>1. n \in Nat /\ rank[x] < n
    OBVIOUS
  <2>2. sol[n] \in G /\ Solves(S, rank, F, sol[n], n)
    BY <1>3, <2>1
  <2>3. Lower(S, rank, x, f, sol[n])
    <3> SUFFICES ASSUME NEW y \in S, rank[y] < rank[x] PROVE f[y] = sol[n][y]
      BY DEF Lower
    <3> DEFINE m == rank[y] + 1
    <3>1. m \in Nat /\ rank[y] < m /\ rank[y] < n
      OBVIOUS
    <3>2. sol[m] \in G /\ Solves(S, rank, F, sol[m], m)
      BY <1>3, <3>1
    <3>3. f[y] = sol[m][y]
      BY <1>4
    <3> HIDE DEF m, n
    <3>4. sol[m][y] = sol[n][y]
      BY <2>1, <2>2, <3>1, <3>2, SolutionsAgree
    <3> QED
      BY <3>3, <3>4
  <2>4. f[x] = sol[n][x]
    BY <1>4
  <2> HIDE DEF n
  <2>5. sol[n][x] = F[sol[n]][x]
    BY <2>1, <2>2 DEF Solves
  <2>6. F[f][x] = F[sol[n]][x]
    BY <1>5, <2>2, <2>3 DEF Local
  <2> QED
    BY <2>4, <2>5, <2>6
<1>7. f = F[f]
  <2>1. F[f] \in G
    BY <1>5
  <2>2. f = [x \in S |-> f[x]] /\ F[f] = [x \in S |-> F[f][x]]
    BY <1>5, <2>1 DEF Typed
  <2> QED
    BY <1>6, <2>2
<1> QED
  BY <1>5, <1>7

(***************************************************************************)
(* Ends of sequences.                                                      *)
(***************************************************************************)
EndsWith(s, t) ==
  Len(t) <= Len(s) /\ \A i \in 1..Len(t) : t[i] = s[Len(s) - Len(t) + i]

\* t is the longest node with which s ends; and the longest one but s itself.
Longest(s, t) ==
  t \in Node /\ EndsWith(s, t) /\ \A u \in Node : EndsWith(s, u) => Len(u) <= Len(t)
LongestProper(s, t) ==
  /\ t \in Node /\ EndsWith(s, t) /\ Len(t) < Len(s)
  /\ \A u \in Node : EndsWith(s, u) /\ Len(u) < Len(s) => Len(u) <= Len(t)

\* Every sequence ends with the empty one and with itself.
LEMMA EndsWithTrivial ==
  ASSUME NEW s \in Seq(Byte)
  PROVE  EndsWith(s, <<>>) /\ EndsWith(s, s)
BY DEF EndsWith

\* Ending with a sequence is transitive.
LEMMA EndsWithTransitive ==
  ASSUME NEW s \in Seq(Byte), NEW t \in Seq(Byte), NEW u \in Seq(Byte),
         EndsWith(s, t), EndsWith(t, u)
  PROVE  EndsWith(s, u)
<1>1. Len(u) <= Len(s)
  BY DEF EndsWith
<1>2. ASSUME NEW i \in 1..Len(u) PROVE u[i] = s[Len(s) - Len(u) + i]
  <2> DEFINE j == Len(t) - Len(u) + i
  <2>1. j \in 1..Len(t) /\ u[i] = t[j]
    BY DEF EndsWith
  <2>2. t[j] = s[Len(s) - Len(t) + j]
    BY <2>1 DEF EndsWith
  <2>3. Len(s) - Len(t) + j = Len(s) - Len(u) + i
    OBVIOUS
  <2> QED
    BY <2>1, <2>2, <2>3
<1> QED
  BY <1>1, <1>2 DEF EndsWith

\* Of two ends of a sequence the longer one ends with the shorter.
LEMMA EndsWithNested ==
  ASSUME NEW s \in Seq(Byte), NEW t \in Seq(Byte), NEW u \in Seq(Byte),
         EndsWith(s, t), EndsWith(s, u), Len(u) <= Len(t)
  PROVE  EndsWith(t, u)
<1>1. ASSUME NEW i \in 1..Len(u) PROVE u[i] = t[Len(t) - Len(u) + i]
  <2> DEFINE j == Len(t) - Len(u) + i
  <2>1. j \in 1..Len(t) /\ u[i] = s[Len(s) - Len(u) + i]
    BY DEF EndsWith
  <2>2. t[j] = s[Len(s) - Len(t) + j]
    BY <2>1 DEF EndsWith
  <2>3. Len(s) - Len(t) + j = Len(s) - Len(u) + i
    OBVIOUS
  <2> QED
    BY <2>1, <2>2, <2>3
<1> QED
  BY <1>1 DEF EndsWith

\* An end that is as long as the sequence is the sequence.
LEMMA EndsWithSame ==
  ASSUME NEW s \in Seq(Byte), NEW t \in Seq(Byte), EndsWith(s, t), Len(s) = Len(t)
  PROVE  s = t
<1>1. \A i \in 1..Len(s) : s[i] = t[i]
  BY DEF EndsWith
<1> QED
  BY <1>1, SeqEqual, Zenon

\* Two sequences end alike with a byte more exactly if they did without it
\* and the byte is the same.
LEMMA EndsWithAppend ==
  ASSUME NEW s \in Seq(Byte), NEW t \in Seq(Byte), NEW b \in Byte, NEW c \in Byte
  PROVE  EndsWith(Append(s, b), Append(t, c)) <=> EndsWith(s, t) /\ b = c
<1> DEFINE sb == Append(s, b)
           tc == Append(t, c)
<1>1. /\ Len(sb) = Len(s) + 1 /\ \A i \in 1..Len(s) : sb[i] = s[i]
      /\ sb[Len(s) + 1] = b
  BY AppendProperties
<1>2. /\ Len(tc) = Len(t) + 1 /\ \A i \in 1..Len(t) : tc[i] = t[i]
      /\ tc[Len(t) + 1] = c
  BY AppendProperties
<1> HIDE DEF sb, tc
<1>3. ASSUME EndsWith(sb, tc) PROVE EndsWith(s, t) /\ b = c
  <2>1. tc[Len(t) + 1] = sb[Len(sb) - Len(tc) + (Len(t) + 1)]
    BY <1>2, <1>3 DEF EndsWith
  <2>2. Len(sb) - Len(tc) + (Len(t) + 1) = Len(s) + 1
    BY <1>1, <1>2
  <2>3. b = c
    BY <2>1, <2>2, <1>1, <1>2
  <2>4. Len(t) <= Len(s)
    BY <1>1, <1>2, <1>3 DEF EndsWith
  <2>5. ASSUME NEW i \in 1..Len(t) PROVE t[i] = s[Len(s) - Len(t) + i]
    <3>1. tc[i] = sb[Len(sb) - Len(tc) + i]
      BY <1>2, <1>3 DEF EndsWith
    <3>2. Len(sb) - Len(tc) + i = Len(s) - Len(t) + i /\ Len(s) - Len(t) + i \in 1..Len(s)
      BY <1>1, <1>2, <2>4
    <3> QED
      BY <3>1, <3>2, <1>1, <1>2
  <2> QED
    BY <2>3, <2>4, <2>5 DEF EndsWith
<1>4. ASSUME EndsWith(s, t), b = c PROVE EndsWith(sb, tc)
  <2>1. Len(tc) <= Len(sb)
    BY <1>1, <1>2, <1>4 DEF EndsWith
  <2>2. ASSUME NEW i \in 1..Len(tc) PROVE tc[i] = sb[Len(sb) - Len(tc) + i]
    <3>1. CASE i = Len(t) + 1
      BY <3>1, <1>1, <1>2, <1>4
    <3>2. CASE i # Len(t) + 1
      <4>1. i \in 1..Len(t)
        BY <3>2, <1>2
      <4>2. t[i] = s[Len(s) - Len(t) + i]
        BY <4>1, <1>4 DEF EndsWith
      <4>3. Len(sb) - Len(tc) + i = Len(s) - Len(t) + i /\ Len(s) - Len(t) + i \in 1..Len(s)
        BY <1>1, <1>2, <4>1, <1>4 DEF EndsWith
      <4> QED
        BY <4>1, <4>2, <4>3, <1>1, <1>2
    <3> QED
      BY <3>1, <3>2
  <2> QED
    BY <2>1, <2>2 DEF EndsWith
<1> QED
  BY <1>3, <1>4 DEF sb, tc

\* A sequence that is not empty is its front and its last element.
LEMMA FrontLast ==
  ASSUME NEW s \in Seq(Byte), s # <<>>
  PROVE  /\ Front(s) \in Seq(Byte) /\ Last(s) \in Byte
         /\ s = Append(Front(s), Last(s)) /\ Len(Front(s)) = Len(s) - 1
<1>1. Len(s) \in Nat /\ Len(s) # 0
  BY EmptySeq
<1>2. Last(s) \in Byte
  BY <1>1, ElementOfSeq DEF Last
<1>3. Front(s) \in Seq(Byte) /\ Len(Front(s)) = Len(s) - 1
  <2>1. CASE Len(s) = 1
    <3>1. Front(s) = <<>>
      BY <2>1, SubSeqEmpty DEF Front
    <3>2. <<>> \in Seq(Byte) /\ Len(<<>>) = 0
      OBVIOUS
    <3> HIDE DEF Front
    <3> QED
      BY <2>1, <3>1, <3>2
  <2>2. CASE Len(s) # 1
    <3>0. PICK k \in Nat : k = Len(s) /\ k # 0 /\ k # 1
      BY <1>1, <2>2
    <3> DEFINE n == k - 1
    <3>1. n \in 1..Len(s)
      BY <3>0
    <3> HIDE DEF n
    <3>2. SubSeq(s, 1, n) \in Seq(Byte) /\ Len(SubSeq(s, 1, n)) = n
      BY <3>1
    <3>3. Front(s) = SubSeq(s, 1, n) /\ n = Len(s) - 1
      BY <3>0 DEF Front, n
    <3> QED
      BY <3>2, <3>3, Zenon
  <2> QED
    BY <2>1, <2>2
<1>4. \A i \in 1..(Len(s) - 1) : Front(s)[i] = s[i]
  BY <1>1 DEF Front
<1>5. /\ Append(Front(s), Last(s)) \in Seq(Byte) /\ Len(Append(Front(s), Last(s))) = Len(s)
      /\ \A i \in 1..Len(s) : Append(Front(s), Last(s))[i] = s[i]
  <2> HIDE DEF Front
  <2> QED
    BY <1>1, <1>2, <1>3, <1>4, AppendProperties DEF Last
<1>6. s = Append(Front(s), Last(s))
  BY <1>5, SeqEqual, Zenon
<1> QED
  BY <1>2, <1>3, <1>6

-----------------------------------------------------------------------------
(***************************************************************************)
(* The nodes are the beginnings of the values.                             *)
(***************************************************************************)

\* A protected value is a sequence of bytes that is not empty.
LEMMA ValuesAreSequences == Values \subseteq Seq(Byte) /\ <<>> \notin Values
BY RedactAssumption DEF Values

\* The nodes of newRedactor are the empty sequence and the beginnings of the
\* values.
LEMMA NodeIs ==
  ASSUME NEW s
  PROVE  s \in Node <=> s = <<>> \/ \E v \in Values : \E n \in 1..Len(v) : s = SubSeq(v, 1, n)
<1>1. \A v \in Values : DOMAIN v = 1..Len(v)
  BY ValuesAreSequences
<1> QED
  BY <1>1 DEF Node

\* A node is a sequence of bytes.
LEMMA NodesAreSequences == Node \subseteq Seq(Byte)
<1> SUFFICES ASSUME NEW s \in Node, s # <<>> PROVE s \in Seq(Byte)
  BY EmptySeq
<1>1. PICK v \in Values : \E n \in 1..Len(v) : s = SubSeq(v, 1, n)
  BY NodeIs
<1>0. PICK n \in 1..Len(v) : s = SubSeq(v, 1, n)
  BY <1>1
<1>2. v \in Seq(Byte)
  BY ValuesAreSequences
<1> QED
  BY <1>0, <1>2

\* The root is a node.
LEMMA EmptyIsNode == <<>> \in Node
BY DEF Node

\* A value is a node.
LEMMA ValueIsNode == Values \subseteq Node
<1> SUFFICES ASSUME NEW v \in Values PROVE v \in Node
  OBVIOUS
<1>1. v \in Seq(Byte) /\ Len(v) \in 1..Len(v) /\ v = SubSeq(v, 1, Len(v))
  BY ValuesAreSequences, EmptySeq, SubSeqFull
<1> QED
  BY <1>1, NodeIs

\* The parent of a node is a node.
LEMMA FrontIsNode ==
  ASSUME NEW s \in Node, s # <<>>
  PROVE  Front(s) \in Node
<1>1. PICK v \in Values : \E n \in 1..Len(v) : s = SubSeq(v, 1, n)
  BY NodeIs
<1>0. PICK n \in 1..Len(v) : s = SubSeq(v, 1, n)
  BY <1>1
<1>2. v \in Seq(Byte)
  BY ValuesAreSequences
<1>3. Len(s) = n /\ s \in Seq(Byte)
  BY <1>0, <1>2
<1>4. CASE n = 1
  <2>1. Front(s) = <<>>
    BY <1>3, <1>4, SubSeqEmpty DEF Front
  <2> QED
    BY <2>1, EmptyIsNode
<1>5. CASE n # 1
  <2>1. Front(s) = SubSeq(v, 1, n - 1)
    <3>1. SubSeq(s, 1, n - 1) = SubSeq(v, 1 + 1 - 1, 1 + (n - 1) - 1)
      BY <1>0, <1>2, <1>3, <1>5, SubSeqOfSubSeq
    <3> QED
      BY <3>1, <1>3 DEF Front
  <2>2. n - 1 \in 1..Len(v)
    BY <1>5
  <2> QED
    BY <2>1, <2>2, NodeIs
<1> QED
  BY <1>4, <1>5

-----------------------------------------------------------------------------
(***************************************************************************)
(* Failure links.                                                          *)
(***************************************************************************)
NodeRank == [s \in Node |-> Len(s)]
Shorter == [s \in Node |-> {t \in Node : t = <<>> \/ Len(t) < Len(s)}]

\* Nodes are ranked by their length, for recursions over them.
LEMMA NodeRankIs == NodeRank \in [Node -> Nat]
BY NodesAreSequences DEF NodeRank

\* The functions in which the failure links are sought.
LEMMA TypedShorter ==
  ASSUME NEW g
  PROVE  g \in Typed(Node, Shorter) <=>
           g \in [Node -> Node] /\ \A s \in Node : g[s] = <<>> \/ Len(g[s]) < Len(s)
<1> DEFINE U == UNION {Shorter[s] : s \in Node}
<1>1. U \subseteq Node /\ \A s \in Node : Shorter[s] \subseteq U
  BY DEF Shorter
<1>2. \A s \in Node : g[s] \in Shorter[s] <=> g[s] \in Node /\ (g[s] = <<>> \/ Len(g[s]) < Len(s))
  BY DEF Shorter
<1>3. g \in Typed(Node, Shorter) <=> g \in [Node -> U] /\ \A s \in Node : g[s] \in Shorter[s]
  BY DEF Typed
<1> HIDE DEF U
<1> QED
  BY <1>1, <1>2, <1>3

Below(n) == {s \in Node : Len(s) < n}
Falls(g, n) == \A s \in Below(n) : s # <<>> => g[s] \in Node /\ Len(g[s]) < Len(s)

FollowOf(g, h, b, s) == IF s = <<>> \/ Append(s, b) \in Node THEN s ELSE h[g[s]]
Following(g, b, n) ==
  CHOOSE h : h = [f \in {s \in Node : Len(s) < n} |->
                    IF f = <<>> \/ Append(f, b) \in Node THEN f ELSE h[g[f]]]

\* Following a failure link until the byte b fits ends at a node, if the links
\* so far lead to shorter nodes.
LEMMA FollowingIs ==
  ASSUME NEW n \in Nat, NEW g, Falls(g, n), NEW b
  PROVE  \A s \in Below(n) :
           /\ Following(g, b, n)[s] = FollowOf(g, Following(g, b, n), b, s)
           /\ Following(g, b, n)[s] \in Node /\ Len(Following(g, b, n)[s]) <= Len(s)
<1> DEFINE S == Below(n)
           rank == [s \in S |-> Len(s)]
           A == [s \in S |-> S]
           G == Typed(S, A)
           F == [h \in G |-> [s \in S |-> FollowOf(g, h, b, s)]]
<1>0. /\ \A s \in S : s \in Node /\ Len(s) \in Nat /\ Len(s) < n
      /\ \A s \in Node : Len(s) < n => s \in S
  BY NodesAreSequences DEF Below
<1>1. G = [S -> S]
  <2>1. CASE S = {}
    <3>1. S = {} => UNION {A[x] : x \in S} = {}
      OBVIOUS
    <3> HIDE DEF S, A
    <3> QED
      BY <2>1, <3>1 DEF Typed
  <2>2. CASE S # {}
    <3>1. UNION {A[x] : x \in S} = S
      BY <2>2
    <3>2. \A x \in S : A[x] = S
      OBVIOUS
    <3> HIDE DEF S, A
    <3> QED
      BY <3>1, <3>2 DEF Typed
  <2> QED
    BY <2>1, <2>2
<1>2. ASSUME NEW s \in S, s # <<>> PROVE g[s] \in S /\ Len(g[s]) < Len(s)
  <2>1. g[s] \in Node /\ Len(g[s]) < Len(s)
    BY <1>2 DEF Falls
  <2>2. Len(g[s]) \in Nat
    BY <2>1, NodesAreSequences
  <2> QED
    BY <1>0, <2>1, <2>2
<1>3. ASSUME NEW h \in G, NEW s \in S
      PROVE  FollowOf(g, h, b, s) \in S
  BY <1>1, <1>2 DEF FollowOf
<1>4. F \in [G -> G]
  <2> HIDE DEF S, G
  <2> QED
    BY <1>1, <1>3
<1>5. Local(S, A, rank, F)
  <2> SUFFICES ASSUME NEW h \in G, NEW k \in G, NEW s \in S, Lower(S, rank, s, h, k)
               PROVE  F[h][s] = F[k][s]
    BY DEF Local
  <2>1. s # <<>> => h[g[s]] = k[g[s]]
    BY <1>2 DEF Lower
  <2> HIDE DEF S, G
  <2> QED
    BY <2>1 DEF FollowOf
<1>6. rank \in [S -> Nat]
  BY <1>0
<1>7. \A s \in S : A[s] # {}
  OBVIOUS
<1>8. \E h \in G : h = F[h]
  <2> HIDE DEF S, A, rank, F
  <2>1. Functional(S, A, F) /\ Ranked(S, rank) /\ Inhabited(S, A)
    BY <1>4, <1>6, <1>7 DEF Functional, Ranked, Inhabited
  <2> QED
    BY <2>1, <1>5, Recursion, Zenon
<1> DEFINE Eq(h) == h = [s \in S |-> FollowOf(g, h, b, s)]
<1>9. Following(g, b, n) = CHOOSE h : Eq(h)
  BY DEF Following, FollowOf, Below
<1>10. \E h : Eq(h)
  <2> HIDE DEF S, G
  <2> QED
    BY <1>8
<1>11. Following(g, b, n) = [s \in S |-> FollowOf(g, Following(g, b, n), b, s)]
  <2> HIDE DEF Eq
  <2>1. Eq(Following(g, b, n))
    BY <1>9, <1>10
  <2> QED
    BY <2>1 DEF Eq
<1> DEFINE h == Following(g, b, n)
           T == {m \in Nat : \A s \in S : Len(s) = m => h[s] \in Node /\ Len(h[s]) <= m}
<1> HIDE DEF S, h
<1>12. \A s \in S : h[s] = FollowOf(g, h, b, s)
  BY <1>11 DEF h
<1>13. ASSUME NEW m \in Nat, \A k \in 0..(m - 1) : k \in T
       PROVE  m \in T
  <2> SUFFICES ASSUME NEW s \in S, Len(s) = m
               PROVE  h[s] \in Node /\ Len(h[s]) <= m
    OBVIOUS
  <2>1. CASE s = <<>> \/ Append(s, b) \in Node
    BY <2>1, <1>0, <1>12 DEF FollowOf
  <2>2. CASE ~(s = <<>> \/ Append(s, b) \in Node)
    <3>1. g[s] \in S /\ Len(g[s]) < m /\ h[s] = h[g[s]]
      BY <2>2, <1>2, <1>12 DEF FollowOf
    <3>2. PICK k \in Nat : k = Len(g[s])
      BY <3>1, <1>0
    <3>3. k \in T
      BY <3>1, <3>2, <1>13
    <3>4. h[g[s]] \in Node /\ Len(h[g[s]]) <= k
      BY <3>1, <3>2, <3>3
    <3>5. Len(h[g[s]]) \in Nat
      BY <3>4, NodesAreSequences
    <3> QED
      BY <3>1, <3>2, <3>4, <3>5
  <2> QED
    BY <2>1, <2>2
<1>14. \A m \in Nat : m \in T
  <2> HIDE DEF T
  <2> QED
    BY <1>13, Induction
<1>15. ASSUME NEW s \in S PROVE h[s] \in Node /\ Len(h[s]) <= Len(s)
  <2>1. PICK m \in Nat : m = Len(s)
    BY <1>0
  <2>2. m \in T
    BY <1>14
  <2> QED
    BY <2>1, <2>2
<1> QED
  BY <1>12, <1>15 DEF S, h

\* Where following the links ends depends on the links of shorter nodes only.
LEMMA FollowingLocal ==
  ASSUME NEW n \in Nat, NEW g, NEW h, Falls(g, n), \A s \in Below(n) : g[s] = h[s], NEW b
  PROVE  \A s \in Below(n) : Following(g, b, n)[s] = Following(h, b, n)[s]
<1> DEFINE T == {m \in Nat : \A s \in Below(n) : Len(s) = m =>
                   Following(g, b, n)[s] = Following(h, b, n)[s]}
<1>1. Falls(h, n)
  BY DEF Falls
<1>2. ASSUME NEW m \in Nat, \A k \in 0..(m - 1) : k \in T
      PROVE  m \in T
  <2> SUFFICES ASSUME NEW s \in Below(n), Len(s) = m
               PROVE  Following(g, b, n)[s] = Following(h, b, n)[s]
    OBVIOUS
  <2>1. /\ Following(g, b, n)[s] = FollowOf(g, Following(g, b, n), b, s)
        /\ Following(h, b, n)[s] = FollowOf(h, Following(h, b, n), b, s)
    BY <1>1, FollowingIs
  <2>2. CASE s = <<>>
    BY <2>1, <2>2 DEF FollowOf
  <2>3. CASE s # <<>>
    <3>1. g[s] = h[s] /\ g[s] \in Node /\ Len(g[s]) < m
      BY <2>3 DEF Falls
    <3>2. PICK k \in Nat : k = Len(g[s])
      BY <3>1, NodesAreSequences
    <3>3. g[s] \in Below(n)
      BY <3>1, <3>2 DEF Below
    <3>4. k \in T
      BY <3>1, <3>2, <1>2
    <3> QED
      BY <2>1, <3>1, <3>2, <3>3, <3>4 DEF FollowOf
  <2> QED
    BY <2>2, <2>3
<1>3. \A m \in Nat : m \in T
  <2> HIDE DEF T
  <2> QED
    BY <1>2, Induction
<1>4. \A s \in Below(n) : Len(s) \in Nat
  BY NodesAreSequences DEF Below
<1> QED
  BY <1>3, <1>4

FailOf(g, s) ==
  IF Len(s) <= 1 THEN <<>>
  ELSE LET b == Last(s)
           t == Append(Following(g, b, Len(s))[g[Front(s)]], b)
       IN IF t \in Node THEN t ELSE <<>>

\* The failure link of a node, given those of the shorter nodes, is a shorter
\* node.
LEMMA FailOfIs ==
  ASSUME NEW s \in Node, NEW g, Falls(g, Len(s))
  PROVE  FailOf(g, s) \in Node /\ (FailOf(g, s) = <<>> \/ Len(FailOf(g, s)) < Len(s))
<1>1. CASE Len(s) <= 1
  BY <1>1, EmptyIsNode DEF FailOf
<1>2. CASE ~(Len(s) <= 1)
  <2> DEFINE p == Front(s)
             b == Last(s)
             n == Len(s)
             f == Following(g, b, n)[g[p]]
  <2>1. s \in Seq(Byte) /\ s # <<>>
    BY <1>2, NodesAreSequences
  <2>2. p \in Node /\ b \in Byte /\ Len(p) = n - 1 /\ n \in Nat
    BY <2>1, FrontLast, FrontIsNode
  <2>3. p # <<>> /\ p \in Below(n)
    BY <1>2, <2>2 DEF Below
  <2>4. g[p] \in Node /\ Len(g[p]) < Len(p)
    BY <2>2, <2>3 DEF Falls
  <2>5. p \in Seq(Byte) /\ g[p] \in Seq(Byte)
    BY <2>2, <2>4, NodesAreSequences
  <2>6. g[p] \in Below(n)
    BY <2>2, <2>4, <2>5 DEF Below
  <2>7. f \in Node /\ Len(f) <= Len(g[p])
    BY <2>2, <2>6, FollowingIs
  <2>8. FailOf(g, s) = IF Append(f, b) \in Node THEN Append(f, b) ELSE <<>>
    BY <1>2 DEF FailOf
  <2>9. f \in Seq(Byte)
    BY <2>7, NodesAreSequences
  <2> HIDE DEF f, p, b
  <2>10. Len(Append(f, b)) = Len(f) + 1
    BY <2>2, <2>9, AppendProperties
  <2>11. Len(Append(f, b)) < Len(s)
    BY <2>2, <2>4, <2>5, <2>7, <2>9, <2>10
  <2> QED
    BY <2>8, <2>11, EmptyIsNode
<1> QED
  BY <1>1, <1>2

\* The failure link of a node depends on those of the shorter nodes only.
LEMMA FailOfLocal ==
  ASSUME NEW s \in Node, NEW g, NEW h, Falls(g, Len(s)), \A t \in Below(Len(s)) : g[t] = h[t]
  PROVE  FailOf(g, s) = FailOf(h, s)
<1>1. CASE Len(s) <= 1
  BY <1>1 DEF FailOf
<1>2. CASE ~(Len(s) <= 1)
  <2> DEFINE p == Front(s)
             b == Last(s)
             n == Len(s)
  <2>1. s \in Seq(Byte) /\ s # <<>>
    BY <1>2, NodesAreSequences
  <2>2. p \in Node /\ Len(p) = n - 1 /\ n \in Nat
    BY <2>1, FrontLast, FrontIsNode
  <2>3. p # <<>> /\ p \in Below(n)
    BY <1>2, <2>2 DEF Below
  <2>4. g[p] = h[p] /\ g[p] \in Node /\ Len(g[p]) < Len(p)
    BY <2>3 DEF Falls
  <2>5. g[p] \in Below(n)
    BY <2>2, <2>4, NodesAreSequences DEF Below
  <2>6. Following(g, b, n)[g[p]] = Following(h, b, n)[h[p]]
    BY <2>2, <2>4, <2>5, FollowingLocal
  <2> QED
    BY <1>2, <2>6 DEF FailOf
<1> QED
  BY <1>1, <1>2

\* Failure satisfies its recursive definition, and every failure link leads to
\* a shorter node: the links end at the root.
LEMMA FailureIs ==
  \A s \in Node : /\ Failure[s] = FailOf(Failure, s) /\ Failure[s] \in Node
                  /\ s # <<>> => Len(Failure[s]) < Len(s)
<1> DEFINE G == Typed(Node, Shorter)
           F == [g \in G |-> [s \in Node |-> FailOf(g, s)]]
<1>1. ASSUME NEW s \in Node, s # <<>> PROVE Len(s) \in Nat /\ Len(s) > 0
  <2>1. Len(s) \in Nat /\ Len(s) # 0
    BY <1>1, NodesAreSequences, EmptySeq
  <2> QED
    BY <2>1
<1>2. ASSUME NEW g \in G, NEW n \in Nat PROVE Falls(g, n)
  BY <1>1, TypedShorter DEF Falls, Below
<1>3. \A s \in Node : Len(s) \in Nat
  BY NodesAreSequences
<1>4. \A g \in G : [s \in Node |-> FailOf(g, s)] \in G
  <2> SUFFICES ASSUME NEW g \in G PROVE [s \in Node |-> FailOf(g, s)] \in G
    OBVIOUS
  <2> DEFINE f == [s \in Node |-> FailOf(g, s)]
  <2>1. \A s \in Node : FailOf(g, s) \in Node /\ (FailOf(g, s) = <<>> \/ Len(FailOf(g, s)) < Len(s))
    BY <1>2, <1>3, FailOfIs
  <2>2. f \in [Node -> Node] /\ \A s \in Node : f[s] = <<>> \/ Len(f[s]) < Len(s)
    BY <2>1
  <2> HIDE DEF f
  <2>3. f \in G
    BY <2>2, TypedShorter
  <2> QED
    BY <2>3 DEF f
<1>5. Functional(Node, Shorter, F)
  BY <1>4 DEF Functional
<1>6. Local(Node, Shorter, NodeRank, F)
  <2> SUFFICES ASSUME NEW g \in G, NEW h \in G, NEW s \in Node, Lower(Node, NodeRank, s, g, h)
               PROVE  F[g][s] = F[h][s]
    BY DEF Local
  <2>1. \A t \in Below(Len(s)) : g[t] = h[t]
    BY DEF Lower, NodeRank, Below
  <2>2. FailOf(g, s) = FailOf(h, s)
    BY <2>1, <1>2, <1>3, FailOfLocal
  <2> HIDE DEF G
  <2> QED
    BY <2>2
<1>7. Inhabited(Node, Shorter) /\ Ranked(Node, NodeRank)
  BY EmptyIsNode, NodeRankIs DEF Shorter, Inhabited, Ranked
<1>8. \E g \in G : g = F[g]
  <2> HIDE DEF F
  <2> QED
    BY <1>5, <1>6, <1>7, Recursion, Zenon
<1> DEFINE Eq(g) == g = [s \in Node |-> FailOf(g, s)]
<1>9. Failure = CHOOSE g : Eq(g)
  BY DEF Failure, FailOf, Following
<1>10. \E g : Eq(g)
  <2> HIDE DEF G
  <2> QED
    BY <1>8
<1>11. \A s \in Node : Failure[s] = FailOf(Failure, s)
  <2> HIDE DEF Eq
  <2>1. Eq(Failure)
    BY <1>9, <1>10
  <2>2. Failure = [s \in Node |-> FailOf(Failure, s)]
    BY <2>1 DEF Eq
  <2> DEFINE v(s) == FailOf(Failure, s)
  <2> HIDE DEF v
  <2>3. Failure = [s \in Node |-> v(s)]
    BY <2>2 DEF v
  <2>4. \A s \in Node : Failure[s] = v(s)
    BY <2>3
  <2> QED
    BY <2>4 DEF v
<1> DEFINE T == {n \in Nat : \A s \in Node : Len(s) = n =>
                   Failure[s] \in Node /\ (s # <<>> => Len(Failure[s]) < n)}
<1>12. ASSUME NEW n \in Nat, \A m \in 0..(n - 1) : m \in T
       PROVE  n \in T
  <2> SUFFICES ASSUME NEW s \in Node, Len(s) = n
               PROVE  Failure[s] \in Node /\ (s # <<>> => Len(Failure[s]) < n)
    OBVIOUS
  <2>1. Falls(Failure, n)
    <3> SUFFICES ASSUME NEW t \in Below(n), t # <<>>
                 PROVE  Failure[t] \in Node /\ Len(Failure[t]) < Len(t)
      BY DEF Falls
    <3>1. PICK m \in Nat : m = Len(t)
      BY <1>3 DEF Below
    <3>2. m \in T
      BY <3>1, <1>12 DEF Below
    <3> QED
      BY <3>1, <3>2 DEF Below
  <2>2. FailOf(Failure, s) \in Node /\ (FailOf(Failure, s) = <<>> \/ Len(FailOf(Failure, s)) < n)
    BY <2>1, FailOfIs
  <2>3. Failure[s] = FailOf(Failure, s)
    BY <1>11
  <2>4. s # <<>> => n > 0
    BY <1>1
  <2>5. Len(<<>>) = 0
    OBVIOUS
  <2> QED
    BY <2>2, <2>3, <2>4, <2>5
<1>13. \A n \in Nat : n \in T
  <2> HIDE DEF T
  <2> QED
    BY <1>12, Induction
<1>14. ASSUME NEW s \in Node
       PROVE  Failure[s] \in Node /\ (s # <<>> => Len(Failure[s]) < Len(s))
  <2>1. PICK n \in Nat : n = Len(s)
    BY <1>3
  <2>2. n \in T
    BY <1>13
  <2> QED
    BY <2>1, <2>2
<1> QED
  BY <1>11, <1>14

\* The longest node that can be followed by b, among those that s ends with.
LEMMA FollowingLongest ==
  ASSUME NEW n \in Nat, NEW b \in Byte,
         \A t \in Below(n) : t # <<>> => LongestProper(t, Failure[t])
  PROVE  \A s \in Below(n) :
           LET r == Following(Failure, b, n)[s]
           IN  /\ r \in Node /\ EndsWith(s, r) /\ (r = <<>> \/ Append(r, b) \in Node)
               /\ \A u \in Node : EndsWith(s, u) /\ Append(u, b) \in Node => Len(u) <= Len(r)
<1> DEFINE h == Following(Failure, b, n)
           Good(s) == /\ h[s] \in Node /\ EndsWith(s, h[s]) /\ (h[s] = <<>> \/ Append(h[s], b) \in Node)
                      /\ \A u \in Node : EndsWith(s, u) /\ Append(u, b) \in Node => Len(u) <= Len(h[s])
           T == {m \in Nat : \A s \in Below(n) : Len(s) = m => Good(s)}
<1>1. Falls(Failure, n)
  BY FailureIs DEF Falls, Below
<1>2. \A s \in Below(n) : /\ s \in Node /\ s \in Seq(Byte) /\ Len(s) \in Nat /\ Len(s) < n
                          /\ h[s] = FollowOf(Failure, h, b, s) /\ h[s] \in Node
  BY <1>1, FollowingIs, NodesAreSequences DEF Below
<1> HIDE DEF h
<1>3. ASSUME NEW m \in Nat, \A k \in 0..(m - 1) : k \in T
      PROVE  m \in T
  <2> SUFFICES ASSUME NEW s \in Below(n), Len(s) = m PROVE Good(s)
    OBVIOUS
  <2>1. CASE s = <<>> \/ Append(s, b) \in Node
    <3>1. h[s] = s
      BY <2>1, <1>2 DEF FollowOf
    <3> QED
      BY <2>1, <3>1, <1>2, EndsWithTrivial DEF EndsWith
  <2>2. CASE ~(s = <<>> \/ Append(s, b) \in Node)
    <3> DEFINE q == Failure[s]
    <3>1. h[s] = h[q] /\ q \in Node /\ EndsWith(s, q) /\ Len(q) < m
      BY <2>2, <1>2 DEF FollowOf, LongestProper
    <3>2. \A u \in Node : EndsWith(s, u) /\ Len(u) < m => Len(u) <= Len(q)
      BY <2>2 DEF LongestProper
    <3> HIDE DEF q
    <3>3. q \in Seq(Byte) /\ Len(q) \in Nat
      BY <3>1, NodesAreSequences
    <3>4. q \in Below(n)
      BY <3>1, <3>3, <1>2 DEF Below
    <3>5. PICK k \in Nat : k = Len(q)
      BY <3>3
    <3>6. k \in T
      BY <3>1, <3>5, <1>3
    <3>7. Good(q)
      BY <3>4, <3>5, <3>6
    <3>8. EndsWith(s, h[q])
      BY <3>1, <3>3, <3>7, <1>2, NodesAreSequences, EndsWithTransitive
    <3>9. ASSUME NEW u \in Node, EndsWith(s, u), Append(u, b) \in Node
          PROVE  Len(u) <= Len(h[q])
      <4>1. u \in Seq(Byte) /\ Len(u) \in Nat /\ Len(u) <= Len(s)
        BY <3>9, NodesAreSequences DEF EndsWith
      <4>2. Len(u) # Len(s)
        BY <2>2, <3>9, <4>1, <1>2, EndsWithSame
      <4>3. Len(u) <= Len(q)
        BY <3>2, <3>9, <4>1, <4>2
      <4>4. EndsWith(q, u)
        BY <3>1, <3>3, <3>9, <4>1, <4>3, <1>2, EndsWithNested
      <4> QED
        BY <3>7, <3>9, <4>4
    <3> QED
      BY <3>1, <3>7, <3>8, <3>9
  <2> QED
    BY <2>1, <2>2
<1>4. \A m \in Nat : m \in T
  <2> HIDE DEF T
  <2> QED
    BY <1>3, Induction
<1>5. ASSUME NEW s \in Below(n) PROVE Good(s)
  <2>1. PICK m \in Nat : m = Len(s)
    BY <1>2
  <2>2. m \in T
    BY <1>4
  <2> HIDE DEF Good
  <2> QED
    BY <2>1, <2>2
<1> QED
  BY <1>5 DEF h

\* The failure link of a node is the longest node with which it ends, but itself.
LEMMA FailureLongest ==
  \A s \in Node : s # <<>> => LongestProper(s, Failure[s])
<1> DEFINE T == {n \in Nat : \A s \in Node : Len(s) = n /\ s # <<>> => LongestProper(s, Failure[s])}
<1>1. \A s \in Node : s \in Seq(Byte) /\ Len(s) \in Nat /\ (s # <<>> => Len(s) > 0)
  BY NodesAreSequences, EmptySeq
<1>2. ASSUME NEW n \in Nat, \A m \in 0..(n - 1) : m \in T
      PROVE  n \in T
  <2> SUFFICES ASSUME NEW s \in Node, Len(s) = n, s # <<>>
               PROVE  LongestProper(s, Failure[s])
    OBVIOUS
  <2>1. n > 0
    BY <1>1
  <2>2. \A t \in Below(n) : t # <<>> => LongestProper(t, Failure[t])
    <3> SUFFICES ASSUME NEW t \in Below(n), t # <<>> PROVE LongestProper(t, Failure[t])
      OBVIOUS
    <3>1. PICK m \in Nat : m = Len(t)
      BY <1>1 DEF Below
    <3>2. m \in T
      BY <3>1, <1>2 DEF Below
    <3> QED
      BY <3>1, <3>2 DEF Below
  <2>3. Failure[s] = FailOf(Failure, s)
    BY FailureIs
  <2>4. Len(<<>>) = 0 /\ EndsWith(s, <<>>)
    BY <1>1, EndsWithTrivial
  <2>5. CASE n <= 1
    <3>1. Failure[s] = <<>>
      BY <2>3, <2>5 DEF FailOf
    <3> QED
      BY <3>1, <2>1, <2>4, <2>5, <1>1, EmptyIsNode DEF LongestProper
  <2>6. CASE ~(n <= 1)
    <3> DEFINE p == Front(s)
               b == Last(s)
               q == Failure[p]
               f == Following(Failure, b, n)[q]
    <3>1. p \in Node /\ p \in Seq(Byte) /\ b \in Byte /\ s = Append(p, b) /\ Len(p) = n - 1
      BY <1>1, FrontLast, FrontIsNode
    <3> HIDE DEF p, b
    <3>2. p # <<>> /\ p \in Below(n)
      BY <2>6, <3>1 DEF Below
    <3>3. /\ q \in Node /\ EndsWith(p, q) /\ Len(q) < Len(p)
          /\ \A u \in Node : EndsWith(p, u) /\ Len(u) < Len(p) => Len(u) <= Len(q)
      BY <2>2, <3>2 DEF LongestProper
    <3> HIDE DEF q
    <3>4. q \in Seq(Byte) /\ Len(q) \in Nat /\ q \in Below(n)
      BY <3>1, <3>3, <1>1 DEF Below
    <3>5. /\ f \in Node /\ EndsWith(q, f) /\ (f = <<>> \/ Append(f, b) \in Node)
          /\ \A u \in Node : EndsWith(q, u) /\ Append(u, b) \in Node => Len(u) <= Len(f)
      BY <2>2, <3>1, <3>4, FollowingLongest
    <3>6. Failure[s] = IF Append(f, b) \in Node THEN Append(f, b) ELSE <<>>
      BY <2>3, <2>6 DEF FailOf, p, b, q
    <3> HIDE DEF f
    <3>7. f \in Seq(Byte) /\ Len(f) \in Nat /\ Len(f) <= Len(q)
      BY <3>5, <1>1 DEF EndsWith
    <3>8. ASSUME NEW u \in Node, EndsWith(s, u), Len(u) < Len(s), u # <<>>
          PROVE  Append(f, b) \in Node /\ Len(u) <= Len(f) + 1
      <4>1. PICK w : w = Front(u)
        OBVIOUS
      <4>2. PICK c : c = Last(u)
        OBVIOUS
      <4>3. w \in Node /\ w \in Seq(Byte) /\ c \in Byte /\ u = Append(w, c) /\ Len(w) = Len(u) - 1
        BY <3>8, <1>1, <4>1, <4>2, FrontLast, FrontIsNode
      <4>4. EndsWith(p, w) /\ c = b
        BY <3>1, <3>8, <4>3, EndsWithAppend
      <4>5. Len(w) < Len(p) /\ Len(u) \in Nat
        BY <3>1, <3>8, <4>3, <1>1
      <4>6. Len(w) <= Len(q)
        BY <3>3, <4>3, <4>4, <4>5
      <4>7. EndsWith(q, w)
        BY <3>1, <3>3, <3>4, <4>3, <4>4, <4>6, EndsWithNested
      <4>8. Len(w) <= Len(f)
        BY <3>5, <4>3, <4>4, <4>7
      <4>9. Len(u) <= Len(f) + 1
        BY <4>3, <4>5, <4>8, <3>7
      <4>10. CASE f = <<>>
        <5>1. Len(w) \in Nat /\ Len(w) <= 0
          BY <4>8, <4>10, <2>4, <4>3
        <5>2. w = <<>>
          BY <5>1, <4>3, EmptySeq
        <5> QED
          BY <5>2, <4>10, <4>3, <4>4, <4>9
      <4> QED
        BY <4>9, <4>10, <3>5
    <3>9. CASE Append(f, b) \in Node
      <4>1. EndsWith(p, f)
        BY <3>1, <3>3, <3>4, <3>5, <3>7, EndsWithTransitive
      <4>2. EndsWith(s, Append(f, b)) /\ Len(Append(f, b)) = Len(f) + 1
        BY <4>1, <3>1, <3>7, EndsWithAppend, AppendProperties
      <4>3. Len(f) + 1 < Len(s)
        BY <3>1, <3>3, <3>4, <3>7
      <4> QED
        BY <3>6, <3>8, <3>9, <4>2, <4>3, <2>4, <3>7 DEF LongestProper
    <3>10. CASE Append(f, b) \notin Node
      BY <3>6, <3>8, <3>10, <2>1, <2>4, EmptyIsNode DEF LongestProper
    <3> QED
      BY <3>9, <3>10
  <2> QED
    BY <2>5, <2>6
<1>3. \A n \in Nat : n \in T
  <2> HIDE DEF T
  <2> QED
    BY <1>2, Induction
<1> QED
  BY <1>1, <1>3

\* A node that ends s and b together is a node that ends s, and b.
LEMMA NodeAtEnd ==
  ASSUME NEW s \in Seq(Byte), NEW b \in Byte, NEW u \in Node, u # <<>>, EndsWith(Append(s, b), u)
  PROVE  \E w \in Node : u = Append(w, b) /\ EndsWith(s, w) /\ Len(u) = Len(w) + 1
<1>1. PICK w : w = Front(u)
  OBVIOUS
<1>2. PICK c : c = Last(u)
  OBVIOUS
<1>3. u \in Seq(Byte)
  BY NodesAreSequences
<1>4. w \in Node /\ w \in Seq(Byte) /\ c \in Byte /\ u = Append(w, c) /\ Len(w) = Len(u) - 1
  BY <1>1, <1>2, <1>3, FrontLast, FrontIsNode
<1>5. EndsWith(s, w) /\ c = b
  BY <1>4, EndsWithAppend
<1>6. Len(u) \in Nat
  BY <1>3
<1> QED
  BY <1>4, <1>5, <1>6

StepOf(f, s, b) ==
  IF Append(s, b) \in Node THEN Append(s, b) ELSE IF s = <<>> THEN <<>> ELSE f[Failure[s]][b]

\* StepTo, the step of the automaton, satisfies its recursive definition.
LEMMA StepToIs ==
  /\ StepTo \in [Node -> [Byte -> Node]]
  /\ \A s \in Node : \A b \in Byte : StepTo[s][b] = StepOf(StepTo, s, b)
<1> DEFINE A == [s \in Node |-> [Byte -> Node]]
           G == Typed(Node, A)
           F == [g \in G |-> [s \in Node |-> [b \in Byte |-> StepOf(g, s, b)]]]
<1>1. G = [Node -> [Byte -> Node]]
  <2>1. UNION {A[s] : s \in Node} = [Byte -> Node]
    BY EmptyIsNode
  <2>2. \A s \in Node : A[s] = [Byte -> Node]
    OBVIOUS
  <2> HIDE DEF A
  <2> QED
    BY <2>1, <2>2 DEF Typed
<1>2. \A g \in [Node -> [Byte -> Node]] : \A s \in Node : \A b \in Byte : StepOf(g, s, b) \in Node
  BY FailureIs, EmptyIsNode DEF StepOf
<1>3. Functional(Node, A, F)
  <2> HIDE DEF G
  <2> QED
    BY <1>1, <1>2 DEF Functional, G
<1>4. Local(Node, A, NodeRank, F)
  <2> SUFFICES ASSUME NEW g \in G, NEW h \in G, NEW s \in Node, Lower(Node, NodeRank, s, g, h)
               PROVE  F[g][s] = F[h][s]
    BY DEF Local
  <2>1. s # <<>> => g[Failure[s]] = h[Failure[s]]
    BY FailureIs DEF Lower, NodeRank
  <2>2. \A b \in Byte : StepOf(g, s, b) = StepOf(h, s, b)
    BY <2>1 DEF StepOf
  <2> HIDE DEF G
  <2> QED
    BY <2>2
<1>5. Inhabited(Node, A) /\ Ranked(Node, NodeRank)
  <2>1. [b \in Byte |-> <<>>] \in [Byte -> Node]
    BY EmptyIsNode
  <2>2. [Byte -> Node] # {}
    BY <2>1
  <2>3. \A s \in Node : A[s] = [Byte -> Node]
    OBVIOUS
  <2> HIDE DEF A
  <2> QED
    BY <2>2, <2>3, NodeRankIs DEF Inhabited, Ranked
<1>6. \E g \in G : g = F[g]
  <2> HIDE DEF F, A
  <2> QED
    BY <1>3, <1>4, <1>5, Recursion, Zenon
<1> DEFINE Eq(g) == g = [s \in Node |-> [b \in Byte |-> StepOf(g, s, b)]]
<1>7. StepTo = CHOOSE g : Eq(g)
  BY DEF StepTo, StepOf
<1>8. \E g : Eq(g)
  <2> HIDE DEF G
  <2> QED
    BY <1>6
<1>9. \A s \in Node : StepTo[s] = [b \in Byte |-> StepOf(StepTo, s, b)]
  <2> HIDE DEF Eq
  <2>1. Eq(StepTo)
    BY <1>7, <1>8
  <2>2. StepTo = [s \in Node |-> [b \in Byte |-> StepOf(StepTo, s, b)]]
    BY <2>1 DEF Eq
  <2> DEFINE v(s) == [b \in Byte |-> StepOf(StepTo, s, b)]
  <2> HIDE DEF v
  <2>3. StepTo = [s \in Node |-> v(s)]
    BY <2>2 DEF v
  <2>4. \A s \in Node : StepTo[s] = v(s)
    BY <2>3
  <2> QED
    BY <2>4 DEF v
<1>10. \A s \in Node : \A b \in Byte : StepTo[s][b] = StepOf(StepTo, s, b)
  BY <1>9
<1> DEFINE T == {n \in Nat : \A s \in Node : Len(s) = n => StepTo[s] \in [Byte -> Node]}
<1>11. \A s \in Node : Len(s) \in Nat
  BY NodesAreSequences
<1>12. ASSUME NEW n \in Nat, \A m \in 0..(n - 1) : m \in T
       PROVE  n \in T
  <2> SUFFICES ASSUME NEW s \in Node, Len(s) = n PROVE StepTo[s] \in [Byte -> Node]
    OBVIOUS
  <2>1. s # <<>> => StepTo[Failure[s]] \in [Byte -> Node]
    <3> SUFFICES ASSUME s # <<>> PROVE StepTo[Failure[s]] \in [Byte -> Node]
      OBVIOUS
    <3>1. Failure[s] \in Node /\ Len(Failure[s]) < n
      BY FailureIs
    <3>2. PICK m \in Nat : m = Len(Failure[s])
      BY <3>1, <1>11
    <3>3. m \in T
      BY <3>1, <3>2, <1>12
    <3> QED
      BY <3>1, <3>2, <3>3
  <2>2. \A b \in Byte : StepOf(StepTo, s, b) \in Node
    BY <2>1, EmptyIsNode DEF StepOf
  <2> QED
    BY <2>2, <1>9
<1>13. \A n \in Nat : n \in T
  <2> HIDE DEF T
  <2> QED
    BY <1>12, Induction
<1>14. ASSUME NEW s \in Node PROVE StepTo[s] \in [Byte -> Node]
  <2>1. PICK n \in Nat : n = Len(s)
    BY <1>11
  <2>2. n \in T
    BY <1>13
  <2> QED
    BY <2>1, <2>2
<1>15. StepTo = [s \in Node |-> StepTo[s]]
  <2> HIDE DEF Eq
  <2>1. Eq(StepTo)
    BY <1>7, <1>8
  <2> DEFINE v == [s \in Node |-> [b \in Byte |-> StepOf(StepTo, s, b)]]
  <2>2. StepTo = v
    BY <2>1 DEF Eq
  <2>3. DOMAIN v = Node /\ v = [s \in Node |-> v[s]]
    OBVIOUS
  <2> HIDE DEF v
  <2> QED
    BY <2>2, <2>3
<1>16. StepTo \in [Node -> [Byte -> Node]]
  BY <1>14, <1>15
<1> QED
  BY <1>10, <1>16

\* A step of the automaton keeps the longest node the input may end with.
LEMMA StepToLongest ==
  \A s \in Node : \A b \in Byte : Longest(Append(s, b), StepTo[s][b])
<1> DEFINE T == {n \in Nat : \A s \in Node : \A b \in Byte :
                   Len(s) = n => Longest(Append(s, b), StepTo[s][b])}
<1>1. \A s \in Node : s \in Seq(Byte) /\ Len(s) \in Nat
  BY NodesAreSequences
<1>2. ASSUME NEW n \in Nat, \A m \in 0..(n - 1) : m \in T
      PROVE  n \in T
  <2> SUFFICES ASSUME NEW s \in Node, NEW b \in Byte, Len(s) = n
               PROVE  Longest(Append(s, b), StepTo[s][b])
    OBVIOUS
  <2> DEFINE sb == Append(s, b)
  <2>0. sb \in Seq(Byte) /\ Len(sb) = n + 1 /\ s \in Seq(Byte)
    BY <1>1, AppendProperties
  <2>1. StepTo[s][b] = StepOf(StepTo, s, b)
    BY StepToIs
  <2>2. CASE sb \in Node
    <3>1. StepTo[s][b] = sb
      BY <2>1, <2>2 DEF StepOf
    <3>2. EndsWith(sb, sb)
      BY <2>0, EndsWithTrivial
    <3> HIDE DEF sb
    <3>3. Longest(sb, sb)
      BY <2>2, <3>2 DEF Longest, EndsWith
    <3> QED
      BY <3>1, <3>3 DEF sb
  <2>3. CASE sb \notin Node
    <3>1. ASSUME NEW u \in Node, EndsWith(sb, u), u # <<>>
          PROVE  \E w \in Node : /\ u = Append(w, b) /\ EndsWith(s, w) /\ Len(w) < Len(s)
                                 /\ Len(u) = Len(w) + 1
      <4>1. PICK w \in Node : u = Append(w, b) /\ EndsWith(s, w) /\ Len(u) = Len(w) + 1
        BY <3>1, <2>0, NodeAtEnd
      <4>2. w \in Seq(Byte) /\ Len(w) <= Len(s) /\ Len(w) \in Nat
        BY <1>1, <4>1 DEF EndsWith
      <4>3. w # s
        BY <4>1, <2>3
      <4>4. Len(w) # Len(s)
        BY <4>1, <4>2, <4>3, <2>0, EndsWithSame
      <4> QED
        BY <4>1, <4>2, <4>4
    <3>2. CASE s = <<>>
      <4>1. StepTo[s][b] = <<>>
        BY <2>1, <2>3, <3>2 DEF StepOf
      <4>2. \A u \in Node : EndsWith(sb, u) => u = <<>>
        <5> SUFFICES ASSUME NEW u \in Node, EndsWith(sb, u), u # <<>> PROVE FALSE
          OBVIOUS
        <5>1. PICK w \in Node : Len(w) < Len(s)
          BY <3>1
        <5>2. Len(w) \in Nat /\ Len(s) = 0
          BY <1>1, <3>2
        <5> QED
          BY <5>1, <5>2
      <4>3. EndsWith(sb, <<>>) /\ Len(<<>>) = 0
        BY <2>0, EndsWithTrivial
      <4> HIDE DEF sb
      <4>4. Longest(sb, <<>>)
        BY <4>2, <4>3, EmptyIsNode DEF Longest
      <4> QED
        BY <4>1, <4>4 DEF sb
    <3>3. CASE s # <<>>
      <4> DEFINE q == Failure[s]
                 r == StepTo[q][b]
      <4>1. StepTo[s][b] = r
        BY <2>1, <2>3, <3>3 DEF StepOf
      <4>2. q \in Node /\ EndsWith(s, q) /\ Len(q) < n
            /\ \A u \in Node : EndsWith(s, u) /\ Len(u) < Len(s) => Len(u) <= Len(q)
        BY <3>3, FailureLongest DEF LongestProper
      <4> HIDE DEF q
      <4>3. q \in Seq(Byte) /\ Append(q, b) \in Seq(Byte)
        BY <4>2, <1>1, AppendProperties
      <4>4. PICK m \in Nat : m = Len(q)
        BY <4>2, <1>1
      <4>5. m \in T
        BY <4>2, <4>4, <1>2
      <4>6. Longest(Append(q, b), r)
        BY <4>2, <4>4, <4>5
      <4> HIDE DEF r
      <4>7. r \in Node /\ r \in Seq(Byte) /\ EndsWith(Append(q, b), r)
            /\ \A u \in Node : EndsWith(Append(q, b), u) => Len(u) <= Len(r)
        BY <4>6, <1>1 DEF Longest
      <4>8. EndsWith(sb, Append(q, b))
        BY <4>2, <4>3, <2>0, EndsWithAppend
      <4>9. EndsWith(sb, r)
        <5> HIDE DEF sb
        <5> QED
          BY <2>0, <4>3, <4>7, <4>8, EndsWithTransitive
      <4>10. ASSUME NEW u \in Node, EndsWith(sb, u) PROVE Len(u) <= Len(r)
        <5>1. CASE u = <<>>
          BY <5>1, <4>7
        <5>2. CASE u # <<>>
          <6>1. PICK w \in Node : u = Append(w, b) /\ EndsWith(s, w) /\ Len(w) < Len(s)
            BY <3>1, <4>10, <5>2
          <6>2. Len(w) <= Len(q) /\ w \in Seq(Byte)
            BY <4>2, <6>1, <1>1
          <6>3. EndsWith(q, w)
            BY <4>2, <4>3, <6>1, <6>2, <2>0, EndsWithNested
          <6>4. EndsWith(Append(q, b), u)
            BY <6>1, <6>2, <6>3, <4>3, EndsWithAppend
          <6> QED
            BY <6>4, <4>7
        <5> QED
          BY <5>1, <5>2
      <4> HIDE DEF sb
      <4>11. Longest(sb, r)
        BY <4>7, <4>9, <4>10 DEF Longest
      <4> QED
        BY <4>1, <4>11 DEF sb
    <3> QED
      BY <3>2, <3>3
  <2> QED
    BY <2>2, <2>3
<1>3. \A n \in Nat : n \in T
  <2> HIDE DEF T
  <2> QED
    BY <1>2, Induction
<1> HIDE DEF T
<1>4. ASSUME NEW s \in Node, NEW b \in Byte PROVE Longest(Append(s, b), StepTo[s][b])
  <2>1. PICK n \in Nat : n = Len(s)
    BY <1>1
  <2>2. n \in T
    BY <1>3
  <2> QED
    BY <2>1, <2>2 DEF T
<1> QED
  BY <1>4

\* If the automaton is at the longest node with which the input ends, it is so
\* after another byte.
LEMMA LongestExtends ==
  ASSUME NEW s \in Seq(Byte), NEW t, Longest(s, t), NEW b \in Byte
  PROVE  Longest(Append(s, b), StepTo[t][b])
<1> DEFINE r == StepTo[t][b]
<1>1. t \in Node /\ t \in Seq(Byte) /\ EndsWith(s, t) /\ \A u \in Node : EndsWith(s, u) => Len(u) <= Len(t)
  BY NodesAreSequences DEF Longest
<1>2. r \in Node /\ EndsWith(Append(t, b), r) /\ \A u \in Node : EndsWith(Append(t, b), u) => Len(u) <= Len(r)
  BY <1>1, StepToLongest DEF Longest
<1> HIDE DEF r
<1>3. Append(t, b) \in Seq(Byte) /\ Append(s, b) \in Seq(Byte) /\ r \in Seq(Byte) /\ Len(r) \in Nat
  BY <1>1, <1>2, NodesAreSequences, AppendProperties
<1>4. EndsWith(Append(s, b), r)
  <2>1. EndsWith(Append(s, b), Append(t, b))
    BY <1>1, EndsWithAppend
  <2> QED
    BY <2>1, <1>2, <1>3, EndsWithTransitive
<1>5. ASSUME NEW u \in Node, EndsWith(Append(s, b), u) PROVE Len(u) <= Len(r)
  <2>1. CASE u = <<>>
    BY <2>1, <1>3
  <2>2. CASE u # <<>>
    <3>1. PICK w \in Node : u = Append(w, b) /\ EndsWith(s, w)
      BY <1>5, <2>2, NodeAtEnd
    <3>2. w \in Seq(Byte) /\ Len(w) <= Len(t)
      BY <3>1, <1>1, NodesAreSequences
    <3>3. EndsWith(t, w)
      BY <1>1, <3>1, <3>2, EndsWithNested
    <3>4. EndsWith(Append(t, b), u)
      BY <1>1, <3>1, <3>2, <3>3, EndsWithAppend
    <3> QED
      BY <3>4, <1>2
  <2> QED
    BY <2>1, <2>2
<1>6. Longest(Append(s, b), r)
  BY <1>2, <1>4, <1>5 DEF Longest
<1> QED
  BY <1>6 DEF r

-----------------------------------------------------------------------------
(***************************************************************************)
(* Scanning.                                                               *)
(***************************************************************************)

\* A sequence that is computed one element after the other.
Iterates(n, e, G, f) == f[0] = e /\ \A i \in 1..n : f[i] = G[i][f[i - 1]]

\* A sequence that is computed one element after the other exists.
LEMMA Iteration ==
  ASSUME NEW n \in Nat, NEW A, NEW e \in A, NEW G \in [1..n -> [A -> A]]
  PROVE  \E f \in [0..n -> A] : Iterates(n, e, G, f)
<1> DEFINE S == 0..n
           B == [i \in S |-> A]
           rank == [i \in S |-> i]
           Z == Typed(S, B)
           F == [f \in Z |-> [i \in S |-> IF i = 0 THEN e ELSE G[i][f[i - 1]]]]
<1>1. Z = [S -> A]
  <2>1. UNION {B[i] : i \in S} = A
    OBVIOUS
  <2>2. \A i \in S : B[i] = A
    OBVIOUS
  <2> HIDE DEF B, S
  <2> QED
    BY <2>1, <2>2 DEF Typed
<1>2. ASSUME NEW f \in [S -> A], NEW i \in S, i # 0
      PROVE  i \in 1..n /\ i - 1 \in S /\ f[i - 1] \in A /\ G[i][f[i - 1]] \in A
  <2>1. i \in 1..n /\ i - 1 \in S
    BY <1>2
  <2>2. f[i - 1] \in A /\ G[i] \in [A -> A]
    BY <2>1
  <2> QED
    BY <2>1, <2>2
<1>3. Functional(S, B, F)
  <2> HIDE DEF S, Z
  <2>1. \A f \in Z : [i \in S |-> IF i = 0 THEN e ELSE G[i][f[i - 1]]] \in Z
    BY <1>1, <1>2
  <2> QED
    BY <2>1 DEF Functional, Z
<1>4. Local(S, B, rank, F)
  <2> SUFFICES ASSUME NEW g \in Z, NEW h \in Z, NEW i \in S, Lower(S, rank, i, g, h)
               PROVE  F[g][i] = F[h][i]
    BY DEF Local
  <2>1. i # 0 => g[i - 1] = h[i - 1]
    <3> SUFFICES ASSUME i # 0 PROVE g[i - 1] = h[i - 1]
      OBVIOUS
    <3>1. i - 1 \in S /\ rank[i - 1] < rank[i]
      OBVIOUS
    <3> QED
      BY <3>1 DEF Lower
  <2> HIDE DEF Z, S
  <2> QED
    BY <2>1
<1>5. Inhabited(S, B) /\ Ranked(S, rank)
  BY DEF Inhabited, Ranked
<1>6. \E f \in Z : f = F[f]
  <2> HIDE DEF S, B, F, rank
  <2>1. Ranked(S, rank) /\ Functional(S, B, F) /\ Inhabited(S, B) /\ Local(S, B, rank, F)
    BY <1>3, <1>4, <1>5
  <2> HIDE DEF Z
  <2>2. \E f \in Typed(S, B) : f = F[f]
    BY <2>1, Recursion, SMT
  <2> QED
    BY <2>2 DEF Z
<1>7. PICK f \in Z : f = F[f]
  BY <1>6
<1>8. f = [i \in S |-> IF i = 0 THEN e ELSE G[i][f[i - 1]]]
  <2> HIDE DEF Z, S
  <2> QED
    BY <1>7
<1>9. \A i \in S : f[i] = IF i = 0 THEN e ELSE G[i][f[i - 1]]
  <2> DEFINE v(i) == IF i = 0 THEN e ELSE G[i][f[i - 1]]
  <2>1. f = [i \in S |-> v(i)]
    BY <1>8
  <2> HIDE DEF v, S
  <2>2. \A i \in S : f[i] = v(i)
    BY <2>1
  <2> QED
    BY <2>2 DEF v
<1>10. Iterates(n, e, G, f)
  BY <1>9 DEF Iterates
<1> HIDE DEF Z
<1> QED
  BY <1>1, <1>7, <1>10

\* A beginning of data is the one before it and a byte more.
LEMMA PrefixExtends ==
  ASSUME NEW X, NEW data \in Seq(X), NEW i \in 1..Len(data)
  PROVE  /\ SubSeq(data, 1, i - 1) \in Seq(X) /\ Len(SubSeq(data, 1, i - 1)) = i - 1
         /\ SubSeq(data, 1, i) \in Seq(X) /\ Len(SubSeq(data, 1, i)) = i
         /\ SubSeq(data, 1, i) = Append(SubSeq(data, 1, i - 1), data[i])
<1>1. /\ \A j \in 1..(i - 1) : data[j] \in X
      /\ \A j \in 1..i : data[j] \in X
      /\ data[i] \in X
  BY ElementOfSeq
<1> DEFINE s == SubSeq(data, 1, i - 1)
           t == SubSeq(data, 1, i)
<1>2. s \in Seq(X) /\ Len(s) = i - 1 /\ \A j \in 1..(i - 1) : s[j] = data[j]
  <2>1. /\ s \in Seq(X)
        /\ Len(s) = (IF 1 <= i - 1 THEN (i - 1) - 1 + 1 ELSE 0)
        /\ \A j \in 1..(i - 1) - 1 + 1 : s[j] = data[1 + j - 1]
    BY <1>1, SubSeqProperties
  <2> HIDE DEF s
  <2> QED
    BY <2>1
<1>3. t \in Seq(X) /\ Len(t) = i /\ \A j \in 1..i : t[j] = data[j]
  <2>1. /\ t \in Seq(X)
        /\ Len(t) = (IF 1 <= i THEN i - 1 + 1 ELSE 0)
        /\ \A j \in 1..i - 1 + 1 : t[j] = data[1 + j - 1]
    BY <1>1, SubSeqProperties
  <2> HIDE DEF t
  <2> QED
    BY <2>1
<1> HIDE DEF s, t
<1>4. /\ Append(s, data[i]) \in Seq(X) /\ Len(Append(s, data[i])) = i
      /\ \A j \in 1..i : Append(s, data[i])[j] = data[j]
  BY <1>1, <1>2, AppendProperties
<1>5. t = Append(s, data[i])
  BY <1>3, <1>4, SeqEqual
<1> QED
  BY <1>2, <1>3, <1>5 DEF s, t

\* A part of a sequence, and its elements.
LEMMA PartIs ==
  ASSUME NEW X, NEW data \in Seq(X), NEW i \in 0..Len(data), NEW j \in i..Len(data)
  PROVE  /\ SubSeq(data, i + 1, j) \in Seq(X) /\ Len(SubSeq(data, i + 1, j)) = j - i
         /\ \A k \in 1..(j - i) : SubSeq(data, i + 1, j)[k] = data[i + k]
<1>1. \A k \in (i + 1)..j : data[k] \in X
  BY ElementOfSeq
<1> DEFINE s == SubSeq(data, i + 1, j)
<1>2. /\ s \in Seq(X)
      /\ Len(s) = (IF i + 1 <= j THEN j - (i + 1) + 1 ELSE 0)
      /\ \A k \in 1..j - (i + 1) + 1 : s[k] = data[(i + 1) + k - 1]
  BY <1>1, SubSeqProperties
<1> HIDE DEF s
<1>3. s \in Seq(X) /\ Len(s) = j - i /\ \A k \in 1..(j - i) : s[k] = data[i + k]
  BY <1>2
<1> QED
  BY <1>3 DEF s

\* With what a beginning of data ends.
LEMMA PrefixEndsWith ==
  ASSUME NEW data \in Seq(Byte), NEW i \in 0..Len(data), NEW u \in Seq(Byte)
  PROVE  EndsWith(SubSeq(data, 1, i), u) <=> Len(u) <= i /\ SubSeq(data, i - Len(u) + 1, i) = u
<1> DEFINE s == SubSeq(data, 0 + 1, i)
<1>1. s \in Seq(Byte) /\ Len(s) = i /\ \A k \in 1..i : s[k] = data[k]
  <2>1. s \in Seq(Byte) /\ Len(s) = i - 0 /\ \A k \in 1..(i - 0) : s[k] = data[0 + k]
    BY PartIs
  <2> HIDE DEF s
  <2> QED
    BY <2>1
<1>0. s = SubSeq(data, 1, i)
  OBVIOUS
<1> HIDE DEF s
<1>7. EndsWith(s, u) => Len(u) <= i
  BY <1>1 DEF EndsWith
<1> SUFFICES ASSUME Len(u) <= i
             PROVE  EndsWith(s, u) <=> SubSeq(data, i - Len(u) + 1, i) = u
  BY <1>0, <1>7, Zenon
<1>2. PICK k \in Nat : k = Len(u) /\ k <= i
  OBVIOUS
<1> DEFINE t == SubSeq(data, (i - k) + 1, i)
<1>3. t \in Seq(Byte) /\ Len(t) = k /\ \A j \in 1..k : t[j] = data[i - k + j]
  <2>1. i - k \in 0..Len(data) /\ i \in (i - k)..Len(data)
    BY <1>2
  <2>2. t \in Seq(Byte) /\ Len(t) = i - (i - k) /\ \A j \in 1..(i - (i - k)) : t[j] = data[(i - k) + j]
    BY <2>1, PartIs
  <2> HIDE DEF t
  <2> QED
    BY <2>2, <1>2
<1> HIDE DEF t
<1>4. \A j \in 1..k : data[i - k + j] = s[i - k + j]
  BY <1>1, <1>2
<1>5. ASSUME EndsWith(s, u) PROVE t = u
  <2>1. \A j \in 1..k : t[j] = u[j]
    BY <1>1, <1>2, <1>3, <1>4, <1>5 DEF EndsWith
  <2> QED
    BY <2>1, <1>2, <1>3, SeqEqual
<1>6. ASSUME t = u PROVE EndsWith(s, u)
  BY <1>1, <1>2, <1>3, <1>4, <1>6 DEF EndsWith
<1>8. SubSeq(data, i - Len(u) + 1, i) = t
  BY <1>2 DEF t
<1> QED
  BY <1>5, <1>6, <1>8

\* After i bytes the automaton is at the longest node with which they end.
LEMMA ReachedIs ==
  ASSUME NEW data \in Seq(Byte)
  PROVE  \A i \in 0..Len(data) : Longest(SubSeq(data, 1, i), Reached(data)[i])
<1> DEFINE n == Len(data)
           G == [i \in 1..n |-> [s \in Node |-> StepTo[s][data[i]]]]
           Eq(at) == at = [i \in 0..n |-> IF i = 0 THEN <<>> ELSE StepTo[at[i - 1]][data[i]]]
<1>0. n \in Nat /\ \A i \in 1..n : data[i] \in Byte
  BY ElementOfSeq
<1>1. G \in [1..n -> [Node -> Node]]
  BY StepToIs, <1>0
<1>2. PICK f \in [0..n -> Node] : Iterates(n, <<>>, G, f)
  <2>1. n \in Nat /\ <<>> \in Node
    BY <1>0, EmptyIsNode
  <2> HIDE DEF n, G
  <2> QED
    BY <2>1, <1>1, Iteration, Zenon
<1>3. \A i \in 0..n : i # 0 => G[i][f[i - 1]] = StepTo[f[i - 1]][data[i]]
  <2> SUFFICES ASSUME NEW i \in 0..n, i # 0 PROVE G[i][f[i - 1]] = StepTo[f[i - 1]][data[i]]
    OBVIOUS
  <2>1. i \in 1..n /\ i - 1 \in 0..n
    BY <1>0
  <2>2. f[i - 1] \in Node
    BY <2>1
  <2> QED
    BY <2>1, <2>2
<1>4. Eq(f)
  <2> DEFINE v(i) == IF i = 0 THEN <<>> ELSE StepTo[f[i - 1]][data[i]]
  <2>1. \A i \in 0..n : f[i] = v(i)
    <3> HIDE DEF G
    <3> QED
      BY <1>0, <1>2, <1>3 DEF Iterates
  <2> HIDE DEF n, G, v
  <2>2. f = [i \in 0..n |-> v(i)]
    BY <1>2, <2>1
  <2> QED
    BY <2>2 DEF v
<1> DEFINE at == Reached(data)
<1>5. at = CHOOSE x : Eq(x)
  BY DEF Reached
<1>6. Eq(at)
  <2> HIDE DEF Eq, at
  <2> QED
    BY <1>4, <1>5
<1> HIDE DEF at, G
<1>7. at[0] = <<>> /\ \A i \in 1..n : at[i] = StepTo[at[i - 1]][data[i]]
  <2> HIDE DEF n
  <2> QED
    BY <1>6, <1>0
<1> HIDE DEF Eq
<1> DEFINE T == {i \in Nat : i <= n => Longest(SubSeq(data, 1, i), at[i])}
<1>8. ASSUME NEW i \in Nat, \A j \in 0..(i - 1) : j \in T
      PROVE  i \in T
  <2> SUFFICES ASSUME i <= n PROVE Longest(SubSeq(data, 1, i), at[i])
    OBVIOUS
  <2>1. CASE i = 0
    <3>1. SubSeq(data, 1, 0) = <<>>
      BY SubSeqEmpty
    <3>2. EndsWith(<<>>, <<>>) /\ Len(<<>>) = 0
      BY EmptySeq, EndsWithTrivial
    <3>3. Longest(<<>>, <<>>)
      BY <3>2, EmptyIsNode DEF Longest, EndsWith
    <3> QED
      BY <3>1, <3>3, <1>7, <2>1
  <2>2. CASE i # 0
    <3>1. i \in 1..n /\ i - 1 \in 0..(i - 1)
      BY <2>2, <1>0
    <3>2. i - 1 \in T
      BY <1>8, <3>1
    <3>3. Longest(SubSeq(data, 1, i - 1), at[i - 1])
      BY <3>1, <3>2
    <3>4. SubSeq(data, 1, i - 1) \in Seq(Byte) /\ SubSeq(data, 1, i) = Append(SubSeq(data, 1, i - 1), data[i])
      BY <3>1, PrefixExtends
    <3>5. Longest(Append(SubSeq(data, 1, i - 1), data[i]), StepTo[at[i - 1]][data[i]])
      BY <3>1, <3>3, <3>4, <1>0, LongestExtends
    <3> QED
      BY <3>1, <3>4, <3>5, <1>7
  <2> QED
    BY <2>1, <2>2
<1>9. \A i \in Nat : i \in T
  <2> HIDE DEF T
  <2> QED
    BY <1>8, Induction
<1> QED
  BY <1>9 DEF at

EndsOf(f, s) == IF s = <<>> THEN {} ELSE {n \in {Len(s)} : s \in Values} \cup f[Failure[s]]

\* Ends satisfies its recursive definition over the failure links.
LEMMA EndsRecursive ==
  \A s \in Node : Ends[s] = EndsOf(Ends, s)
<1> DEFINE A == [s \in Node |-> SUBSET Nat]
           Z == Typed(Node, A)
           F == [g \in Z |-> [s \in Node |-> EndsOf(g, s)]]
<1>1. Z = [Node -> SUBSET Nat]
  <2>1. UNION {A[s] : s \in Node} = SUBSET Nat
    BY EmptyIsNode
  <2>2. \A s \in Node : A[s] = SUBSET Nat
    OBVIOUS
  <2> HIDE DEF A
  <2> QED
    BY <2>1, <2>2 DEF Typed
<1>2. ASSUME NEW g \in [Node -> SUBSET Nat], NEW s \in Node PROVE EndsOf(g, s) \in SUBSET Nat
  <2>1. Failure[s] \in Node /\ Len(s) \in Nat
    BY FailureIs, NodesAreSequences
  <2>2. g[Failure[s]] \subseteq Nat
    BY <2>1
  <2> QED
    BY <2>1, <2>2 DEF EndsOf
<1>3. Functional(Node, A, F)
  <2> HIDE DEF Z
  <2> QED
    BY <1>1, <1>2 DEF Functional, Z
<1>4. Local(Node, A, NodeRank, F)
  <2> SUFFICES ASSUME NEW g \in Z, NEW h \in Z, NEW s \in Node, Lower(Node, NodeRank, s, g, h)
               PROVE  F[g][s] = F[h][s]
    BY DEF Local
  <2>1. s # <<>> => g[Failure[s]] = h[Failure[s]]
    BY FailureIs DEF Lower, NodeRank
  <2> HIDE DEF Z
  <2> QED
    BY <2>1 DEF EndsOf
<1>5. Inhabited(Node, A) /\ Ranked(Node, NodeRank)
  BY NodeRankIs DEF Inhabited, Ranked
<1>6. \E g \in Z : g = F[g]
  <2> HIDE DEF F, A
  <2> QED
    BY <1>3, <1>4, <1>5, Recursion, Zenon
<1> DEFINE Eq(g) == g = [s \in Node |-> EndsOf(g, s)]
<1>7. Ends = CHOOSE g : Eq(g)
  BY DEF Ends, EndsOf
<1>8. \E g : Eq(g)
  <2> HIDE DEF Z
  <2> QED
    BY <1>6
<1>9. Eq(Ends)
  <2> HIDE DEF Eq
  <2> QED
    BY <1>7, <1>8
<1> DEFINE v(s) == EndsOf(Ends, s)
<1>10. Ends = [s \in Node |-> v(s)]
  BY <1>9
<1> HIDE DEF v, Eq
<1>11. \A s \in Node : Ends[s] = v(s)
  BY <1>10
<1> QED
  BY <1>11 DEF v

\* The values with which a node ends are found over its failure links.
LEMMA EndsIs ==
  \A s \in Node : \A k : k \in Ends[s] <=> \E w \in Values : EndsWith(s, w) /\ k = Len(w)
<1> DEFINE Good(s) == \A k : k \in Ends[s] <=> \E w \in Values : EndsWith(s, w) /\ k = Len(w)
           T == {n \in Nat : \A s \in Node : Len(s) = n => Good(s)}
<1>1. /\ \A s \in Node : s \in Seq(Byte) /\ Len(s) \in Nat
      /\ \A w \in Values : w \in Node /\ w \in Seq(Byte) /\ w # <<>> /\ Len(w) \in Nat /\ Len(w) > 0
  BY NodesAreSequences, ValueIsNode, ValuesAreSequences, EmptySeq
<1>2. ASSUME NEW n \in Nat, \A m \in 0..(n - 1) : m \in T
      PROVE  n \in T
  <2> SUFFICES ASSUME NEW s \in Node, Len(s) = n PROVE Good(s)
    OBVIOUS
  <2>1. Ends[s] = EndsOf(Ends, s) /\ s \in Seq(Byte)
    BY <1>1, EndsRecursive
  <2>2. CASE s = <<>>
    <3>1. Ends[s] = {} /\ n = 0
      BY <2>1, <2>2 DEF EndsOf
    <3>2. ~ \E w \in Values : EndsWith(s, w)
      BY <3>1, <1>1 DEF EndsWith
    <3> QED
      BY <3>1, <3>2
  <2>3. CASE s # <<>>
    <3> DEFINE q == Failure[s]
    <3>1. q \in Node /\ q \in Seq(Byte) /\ EndsWith(s, q) /\ Len(q) < n
          /\ \A u \in Node : EndsWith(s, u) /\ Len(u) < n => Len(u) <= Len(q)
      BY <2>3, <1>1, FailureLongest DEF LongestProper
    <3>2. Ends[s] = {m \in {n} : s \in Values} \cup Ends[q]
      BY <2>1, <2>3 DEF EndsOf
    <3> HIDE DEF q
    <3>3. PICK m \in Nat : m = Len(q)
      BY <3>1
    <3>4. m \in T
      BY <3>1, <3>3, <1>2
    <3>5. Good(q)
      BY <3>1, <3>3, <3>4
    <3>6. ASSUME NEW w \in Values
          PROVE  EndsWith(s, w) <=> (w = s \/ EndsWith(q, w))
      <4>1. w \in Node /\ w \in Seq(Byte) /\ Len(w) \in Nat
        BY <1>1
      <4>2. ASSUME EndsWith(s, w), w # s PROVE EndsWith(q, w)
        <5>1. Len(w) <= n /\ Len(w) # n
          BY <2>1, <4>1, <4>2, EndsWithSame DEF EndsWith
        <5>2. Len(w) <= Len(q)
          BY <3>1, <4>1, <4>2, <5>1
        <5> QED
          BY <2>1, <3>1, <4>1, <4>2, <5>2, EndsWithNested
      <4>3. ASSUME EndsWith(q, w) PROVE EndsWith(s, w)
        BY <2>1, <3>1, <4>1, <4>3, EndsWithTransitive
      <4>4. EndsWith(s, s)
        BY <2>1, EndsWithTrivial
      <4> QED
        BY <4>2, <4>3, <4>4
    <3>7. \A k : k \in Ends[s] <=> (k = n /\ s \in Values) \/ k \in Ends[q]
      BY <3>2
    <3> QED
      BY <3>5, <3>6, <3>7
  <2> QED
    BY <2>2, <2>3
<1>3. \A n \in Nat : n \in T
  <2> HIDE DEF T
  <2> QED
    BY <1>2, Induction
<1>4. ASSUME NEW s \in Node PROVE Good(s)
  <2>1. PICK n \in Nat : n = Len(s)
    BY <1>1
  <2>2. n \in T
    BY <1>3
  <2> HIDE DEF Good
  <2> QED
    BY <2>1, <2>2
<1> QED
  BY <1>4

\* The occurrences in data, as numbers.
LEMMA OccurrenceIs ==
  ASSUME NEW data \in Seq(Byte)
  PROVE  \A o : o \in Occurrence(data) <=>
           \E i \in 0..Len(data) : \E j \in 0..Len(data) :
             /\ o = [start |-> i, end |-> j]
             /\ i < j /\ SubSeq(data, i + 1, j) \in Values
BY DEF Occurrence

\* The automaton finds every occurrence, and only occurrences.
LEMMA SpansAreOccurrences ==
  ASSUME NEW data \in Seq(Byte)
  PROVE  Spans(data) = Occurrence(data)
<1> DEFINE n == Len(data)
           at == Reached(data)
<1>1. \A i \in 0..n : Longest(SubSeq(data, 1, i), at[i])
  BY ReachedIs
<1>2. n \in Nat /\ DOMAIN data = 1..n
  BY LenProperties
<1>3. \A o : o \in Spans(data) <=> \E i \in 1..n : \E k \in Ends[at[i]] : o = [start |-> i - k, end |-> i]
  BY <1>2 DEF Spans
<1> HIDE DEF at
<1>4. ASSUME NEW i \in 1..n, NEW w \in Values
      PROVE  EndsWith(at[i], w) <=> Len(w) <= i /\ SubSeq(data, i - Len(w) + 1, i) = w
  <2> DEFINE s == SubSeq(data, 1, i)
  <2>1. s \in Seq(Byte) /\ w \in Seq(Byte) /\ w \in Node
    BY PrefixExtends, ValuesAreSequences, ValueIsNode
  <2>2. EndsWith(s, w) <=> Len(w) <= i /\ SubSeq(data, i - Len(w) + 1, i) = w
    BY <2>1, PrefixEndsWith
  <2>3. at[i] \in Node /\ at[i] \in Seq(Byte) /\ EndsWith(s, at[i])
        /\ \A u \in Node : EndsWith(s, u) => Len(u) <= Len(at[i])
    BY <1>1, NodesAreSequences DEF Longest
  <2> HIDE DEF s
  <2>4. EndsWith(at[i], w) => EndsWith(s, w)
    BY <2>1, <2>3, EndsWithTransitive
  <2>5. EndsWith(s, w) => EndsWith(at[i], w)
    BY <2>1, <2>3, EndsWithNested
  <2> QED
    BY <2>2, <2>4, <2>5
<1>5. \A i \in 1..n : at[i] \in Node
  BY <1>1 DEF Longest
<1>6. ASSUME NEW o, NEW i \in 1..n, NEW k \in Ends[at[i]], o = [start |-> i - k, end |-> i]
      PROVE  o \in Occurrence(data)
  <2>1. PICK w \in Values : EndsWith(at[i], w) /\ k = Len(w)
    BY <1>5, <1>6, EndsIs
  <2>2. k \in Nat /\ k > 0
    BY <2>1, ValuesAreSequences, EmptySeq
  <2>3. k <= i /\ SubSeq(data, i - k + 1, i) \in Values
    BY <1>4, <2>1
  <2>4. i - k \in 0..n /\ i \in 0..n /\ i - k < i
    BY <2>2, <2>3
  <2> QED
    BY <1>6, <2>3, <2>4, OccurrenceIs
<1>7. ASSUME NEW o \in Occurrence(data)
      PROVE  \E i \in 1..n : \E k \in Ends[at[i]] : o = [start |-> i - k, end |-> i]
  <2>1. PICK i \in 0..n : \E j \in 0..n :
             /\ o = [start |-> i, end |-> j]
             /\ i < j /\ SubSeq(data, i + 1, j) \in Values
    BY OccurrenceIs
  <2>2. PICK j \in 0..n :
             /\ o = [start |-> i, end |-> j]
             /\ i < j /\ SubSeq(data, i + 1, j) \in Values
    BY <2>1
  <2>3. PICK w \in Values : w = SubSeq(data, i + 1, j)
    BY <2>2
  <2>4. Len(w) = j - i
    BY <2>2, <2>3, PartIs
  <2>5. j \in 1..n /\ Len(w) <= j /\ j - Len(w) = i
    BY <2>2, <2>4
  <2>6. EndsWith(at[j], w)
    BY <1>4, <2>3, <2>5
  <2>7. Len(w) \in Ends[at[j]]
    BY <1>5, <2>5, <2>6, EndsIs
  <2> QED
    BY <2>2, <2>5, <2>7
<1> QED
  BY <1>3, <1>6, <1>7

\* What is held back is the longest end of data that is a node.
LEMMA HoldIs ==
  ASSUME NEW data \in Seq(Byte)
  PROVE  /\ Hold(data) \in 0..Len(data)
         /\ SubSeq(data, Len(data) - Hold(data) + 1, Len(data)) \in Node
         /\ \A k \in 0..Len(data) : SubSeq(data, Len(data) - k + 1, Len(data)) \in Node => k <= Hold(data)
<1>1. PICK n \in Nat : n = Len(data)
  OBVIOUS
<1> DEFINE u == Reached(data)[n]
           s == SubSeq(data, 1, n)
<1>0. n \in 0..Len(data)
  BY <1>1
<1>2. Longest(s, u)
  BY <1>0, ReachedIs
<1>3. Hold(data) = Len(u)
  BY <1>1 DEF Hold
<1> HIDE DEF u
<1>4. u \in Node /\ u \in Seq(Byte) /\ EndsWith(s, u)
      /\ \A w \in Node : EndsWith(s, w) => Len(w) <= Len(u)
  BY <1>2, NodesAreSequences DEF Longest
<1>5. \A w \in Seq(Byte) : EndsWith(s, w) <=> Len(w) <= n /\ SubSeq(data, n - Len(w) + 1, n) = w
  BY <1>0, PrefixEndsWith
<1> HIDE DEF s
<1>6. PICK h \in Nat : h = Len(u)
  BY <1>4
<1>7. h <= n /\ SubSeq(data, n - h + 1, n) = u
  BY <1>4, <1>5, <1>6
<1>8. ASSUME NEW k \in 0..n, SubSeq(data, n - k + 1, n) \in Node PROVE k <= h
  <2>1. PICK w \in Node : w = SubSeq(data, n - k + 1, n)
    BY <1>8
  <2>2. PICK i \in 0..n : i = n - k
    OBVIOUS
  <2>3. i \in 0..Len(data) /\ n \in i..Len(data)
    BY <1>1
  <2>4. SubSeq(data, i + 1, n) \in Seq(Byte) /\ Len(SubSeq(data, i + 1, n)) = n - i
    BY <2>3, PartIs
  <2>5. w \in Seq(Byte) /\ Len(w) = k
    BY <2>1, <2>2, <2>4
  <2>6. Len(w) <= n /\ SubSeq(data, n - Len(w) + 1, n) = w
    <3>1. SubSeq(data, n - Len(w) + 1, n) = w
      BY <2>1, <2>5, Zenon
    <3> QED
      BY <3>1, <2>5
  <2>7. EndsWith(s, w)
    BY <2>5, <2>6, <1>5
  <2> QED
    BY <2>5, <2>7, <1>4, <1>6
<1>9. Hold(data) = h /\ Len(data) = n
  BY <1>1, <1>3, <1>6
<1>10. \A k \in 0..n : SubSeq(data, n - k + 1, n) \in Node => k <= h
  BY <1>8
<1>11. h \in 0..n
  BY <1>7
<1>12. SubSeq(data, n - h + 1, n) \in Node
  BY <1>4, <1>7, Zenon
<1> QED
  BY <1>9, <1>10, <1>11, <1>12

-----------------------------------------------------------------------------
(***************************************************************************)
(* The order of the spans.                                                 *)
(***************************************************************************)
Span == [start : Nat, end : Nat, label : Nat]

\* The order in which mergeSpans sorts the spans is a strict total order that
\* respects their starts.
LEMMA BeforeIsOrder ==
  /\ \A x \in Span : ~Before(x, x)
  /\ \A x, y \in Span : x = y \/ Before(x, y) \/ Before(y, x)
  /\ \A x, y, z \in Span : Before(x, y) /\ Before(y, z) => Before(x, z)
  /\ \A x, y \in Span : Before(x, y) => x.start <= y.start
<1>1. \A x, y \in Span : x.start = y.start /\ x.end = y.end /\ x.label = y.label => x = y
  BY DEF Span
<1>2. \A x \in Span : x.start \in Nat /\ x.end \in Nat /\ x.label \in Nat
  BY DEF Span
<1> QED
  BY <1>1, <1>2 DEF Before

\* A finite set of spans has a last one in that order.
LEMMA LastSpan ==
  ASSUME NEW Z \in SUBSET Span, IsFiniteSet(Z), Z # {}
  PROVE  \E m \in Z : \A x \in Z : x = m \/ Before(x, m)
<1> DEFINE Good(S) == S = {} \/ \E m \in S : \A x \in S : x = m \/ Before(x, m)
           T == {n \in Nat : \A S \in SUBSET Span : IsFiniteSet(S) /\ Cardinality(S) = n => Good(S)}
<1>1. ASSUME NEW n \in Nat, \A k \in 0..(n - 1) : k \in T
      PROVE  n \in T
  <2> SUFFICES ASSUME NEW S \in SUBSET Span, IsFiniteSet(S), Cardinality(S) = n, S # {}
               PROVE  \E m \in S : \A x \in S : x = m \/ Before(x, m)
    OBVIOUS
  <2>1. PICK y \in S : TRUE
    OBVIOUS
  <2> DEFINE R == S \ {y}
  <2>2. IsFiniteSet(R) /\ Cardinality(R) = n - 1
    BY <2>1, FS_RemoveElement
  <2>3. Cardinality(R) \in Nat
    BY <2>2, FS_CardinalityType
  <2>4. n - 1 \in T
    BY <2>2, <2>3, <1>1
  <2>5. Good(R)
    BY <2>2, <2>4
  <2>6. CASE R = {}
    BY <2>1, <2>6
  <2>7. CASE R # {}
    <3>1. PICK m \in R : \A x \in R : x = m \/ Before(x, m)
      BY <2>5, <2>7
    <3>2. CASE Before(m, y)
      BY <2>1, <3>1, <3>2, BeforeIsOrder
    <3>3. CASE ~Before(m, y)
      BY <2>1, <3>1, <3>3, BeforeIsOrder
    <3> QED
      BY <3>2, <3>3
  <2> QED
    BY <2>6, <2>7
<1>2. \A n \in Nat : n \in T
  <2> HIDE DEF T
  <2> QED
    BY <1>1, Induction
<1>3. Cardinality(Z) \in T
  BY <1>2, FS_CardinalityType
<1> QED
  BY <1>3

Ordered(Z, f) ==
  /\ f \in [1..Cardinality(Z) -> Z]
  /\ \A i, j \in 1..Cardinality(Z) : i < j => Before(f[i], f[j])

\* A finite set of spans can be sorted.
LEMMA OrderExists ==
  ASSUME NEW Z \in SUBSET Span, IsFiniteSet(Z)
  PROVE  \E f : Ordered(Z, f)
<1> DEFINE T == {n \in Nat : \A S \in SUBSET Span :
                   IsFiniteSet(S) /\ Cardinality(S) = n => \E f : Ordered(S, f)}
<1>1. ASSUME NEW n \in Nat, \A k \in 0..(n - 1) : k \in T
      PROVE  n \in T
  <2> SUFFICES ASSUME NEW S \in SUBSET Span, IsFiniteSet(S), Cardinality(S) = n
               PROVE  \E f : Ordered(S, f)
    OBVIOUS
  <2>1. CASE S = {}
    <3>1. n = 0
      BY <2>1, FS_EmptySet
    <3>2. [i \in {} |-> i] \in [1..n -> S]
      BY <2>1, <3>1
    <3>3. \A i, j \in 1..n : FALSE
      BY <3>1
    <3> QED
      BY <3>2, <3>3 DEF Ordered
  <2>2. CASE S # {}
    <3>1. PICK m \in S : \A x \in S : x = m \/ Before(x, m)
      BY <2>2, LastSpan
    <3> DEFINE R == S \ {m}
    <3>2. IsFiniteSet(R) /\ Cardinality(R) = n - 1 /\ R \in SUBSET Span
      BY FS_RemoveElement
    <3>3. n - 1 \in Nat
      BY <3>2, FS_CardinalityType
    <3>4. n - 1 \in T
      BY <3>3, <1>1
    <3>5. PICK f : Ordered(R, f)
      BY <3>2, <3>4
    <3>6. f \in [1..(n - 1) -> R] /\ \A i, j \in 1..(n - 1) : i < j => Before(f[i], f[j])
      BY <3>2, <3>5 DEF Ordered
    <3> DEFINE g == [i \in 1..n |-> IF i = n THEN m ELSE f[i]]
    <3>7. \A i \in 1..n : i # n => i \in 1..(n - 1)
      BY <3>3
    <3>8. g \in [1..n -> S]
      BY <3>6, <3>7
    <3>9. ASSUME NEW i \in 1..n, NEW j \in 1..n, i < j PROVE Before(g[i], g[j])
      <4>1. i # n /\ i \in 1..(n - 1) /\ g[i] = f[i] /\ f[i] \in R
        BY <3>9, <3>6
      <4>2. CASE j = n
        BY <4>1, <4>2, <3>1
      <4>3. CASE j # n
        BY <4>1, <4>3, <3>6, <3>7, <3>9
      <4> QED
        BY <4>2, <4>3
    <3> HIDE DEF g
    <3>10. Ordered(S, g)
      BY <3>8, <3>9 DEF Ordered
    <3> QED
      BY <3>10
  <2> QED
    BY <2>1, <2>2
<1>2. \A n \in Nat : n \in T
  <2> HIDE DEF T
  <2> QED
    BY <1>1, Induction
<1>3. Cardinality(Z) \in T
  BY <1>2, FS_CardinalityType
<1> QED
  BY <1>3

\* Sorted lists each of the spans, in order.
LEMMA SortedIs ==
  ASSUME NEW Z \in SUBSET Span, IsFiniteSet(Z)
  PROVE  /\ Cardinality(Z) \in Nat /\ Sorted(Z) \in [1..Cardinality(Z) -> Z]
         /\ \A i, j \in 1..Cardinality(Z) : i < j => Before(Sorted(Z)[i], Sorted(Z)[j])
         /\ \A z \in Z : \E i \in 1..Cardinality(Z) : Sorted(Z)[i] = z
<1> DEFINE k == Cardinality(Z)
           f == Sorted(Z)
           Good(o) == \A i, j \in DOMAIN o : i < j => Before(o[i], o[j])
<1>1. f = CHOOSE o \in [1..k -> Z] : Good(o)
  BY DEF Sorted
<1>2. k \in Nat
  BY FS_CardinalityType
<1>3. \E o \in [1..k -> Z] : Good(o)
  BY OrderExists DEF Ordered
<1> HIDE DEF f, k, Good
<1>4. f \in [1..k -> Z] /\ Good(f)
  BY <1>1, <1>3
<1>5. \A i, j \in 1..k : i < j => Before(f[i], f[j])
  BY <1>4 DEF Good
<1>6. \A i, j \in 1..k : f[i] = f[j] => i = j
  <2> SUFFICES ASSUME NEW i \in 1..k, NEW j \in 1..k, f[i] = f[j], i # j PROVE FALSE
    OBVIOUS
  <2>1. f[i] \in Span /\ f[j] \in Span
    BY <1>4
  <2>2. i < j \/ j < i
    BY <1>2
  <2> QED
    BY <1>5, <2>1, <2>2, BeforeIsOrder
<1>7. f \in Injection(1..k, Z)
  BY <1>4, <1>6, Fun_IsInj
<1>8. Cardinality(1..k) = k
  <2>1. Cardinality(1..k) = IF 1 > k THEN 0 ELSE k - 1 + 1
    BY <1>2, FS_Interval
  <2> QED
    BY <1>2, <2>1
<1>9. f \in Surjection(1..k, Z)
  BY <1>7, <1>8, FS_Injection DEF k
<1>10. \A z \in Z : \E i \in 1..k : f[i] = z
  BY <1>9 DEF Surjection
<1> QED
  BY <1>2, <1>4, <1>5, <1>10 DEF f, k

-----------------------------------------------------------------------------
(***************************************************************************)
(* The sweep over the ordered spans.                                       *)
(***************************************************************************)
MergedInto(r, s, t, L) ==
  /\ t \in Seq(Span)
  /\ L # 0 /\ s.start < r[L].end =>
       /\ Len(t) = L /\ \A m \in 1..L : m # L => t[m] = r[m]
       /\ t[L].start = r[L].start /\ t[L].label = r[L].label
       /\ t[L].end = IF s.end > r[L].end THEN s.end ELSE r[L].end
  /\ ~(L # 0 /\ s.start < r[L].end) =>
       /\ Len(t) = L + 1 /\ \A m \in 1..L : t[m] = r[m]
       /\ t[L + 1] = s

\* One step of mergeSpans: the span widens the last region if it starts before
\* the end of that, and is a region of its own otherwise.
LEMMA MergeIs ==
  ASSUME NEW r \in Seq(Span), NEW s \in Span, NEW t, t = Merge(r, s), NEW L \in Nat, L = Len(r)
  PROVE  MergedInto(r, s, t, L)
<1>1. r # <<>> <=> L # 0
  BY EmptySeq
<1>2. CASE L # 0 /\ s.start < r[L].end
  <2> DEFINE x == IF s.end > r[L].end THEN s.end ELSE r[L].end
             z == [r[L] EXCEPT !.end = x]
             u == [r EXCEPT ![L] = z]
  <2>1. L \in 1..Len(r) /\ r[L] \in Span
    BY <1>2, ElementOfSeq
  <2>2. t = u
    BY <1>1, <1>2 DEF Merge, Last
  <2>3. x \in Nat
    BY <2>1 DEF Span
  <2>4. z \in Span /\ z.start = r[L].start /\ z.label = r[L].label /\ z.end = x
    <3> HIDE DEF x
    <3> QED
      BY <2>1, <2>3 DEF Span
  <2> HIDE DEF x, z
  <2>5. u \in Seq(Span) /\ Len(u) = Len(r) /\ \A m \in 1..Len(r) : u[m] = IF m = L THEN z ELSE r[m]
    BY <2>1, <2>4, ExceptSeq
  <2> HIDE DEF u
  <2>6. u[L] = z /\ Len(u) = L /\ \A m \in 1..L : m # L => u[m] = r[m]
    BY <2>1, <2>5
  <2> QED
    BY <1>2, <2>2, <2>4, <2>5, <2>6 DEF x, MergedInto
<1>3. CASE ~(L # 0 /\ s.start < r[L].end)
  <2>1. t = Append(r, s)
    BY <1>1, <1>3 DEF Merge, Last
  <2>2. /\ Append(r, s) \in Seq(Span) /\ Len(Append(r, s)) = L + 1
        /\ \A m \in 1..L : Append(r, s)[m] = r[m]
        /\ Append(r, s)[L + 1] = s
    BY AppendProperties
  <2> QED
    BY <1>3, <2>1, <2>2 DEF MergedInto
<1> QED
  BY <1>2, <1>3

\* The regions r stand for the first i of the spans in order.
Opened(order, i, r) ==
  \A m \in 1..Len(r) : \E k \in 1..i :
    /\ r[m].start = order[k].start /\ r[m].label = order[k].label /\ order[k].end <= r[m].end
    /\ \A j \in 1..(k - 1) : order[j].end <= r[m].start
Contained(order, i, r) ==
  \A k \in 1..i : \E m \in 1..Len(r) : r[m].start <= order[k].start /\ order[k].end <= r[m].end
Crossed(order, i, r) ==
  \A m \in 1..Len(r) : \A j \in Nat : r[m].start < j /\ j < r[m].end =>
    \E k \in 1..i : order[k].start < j /\ j < order[k].end
Closed(order, i, r) == \A m \in 1..Len(r) : \E k \in 1..i : r[m].end = order[k].end
Apart(r) == \A m, k \in 1..Len(r) : m < k => r[m].end <= r[k].start
Swept(order, i, r) ==
  /\ r \in Seq(Span)
  /\ Opened(order, i, r) /\ Contained(order, i, r) /\ Crossed(order, i, r)
  /\ Closed(order, i, r) /\ Apart(r)

\* The step keeps what the regions are to the spans seen so far.
LEMMA SweepStep ==
  ASSUME NEW N \in Nat, NEW order \in [1..N -> Span],
         \A k \in 1..N : order[k].start < order[k].end,
         \A j, k \in 1..N : j < k => order[j].start <= order[k].start,
         NEW i \in 1..N, NEW r, Swept(order, i - 1, r)
  PROVE  Swept(order, i, Merge(r, order[i]))
<1>1. r \in Seq(Span)
  BY DEF Swept
<1>2. PICK L \in Nat : L = Len(r)
  BY <1>1
<1>3. PICK s \in Span : s = order[i]
  OBVIOUS
<1>4. PICK t : t = Merge(r, s)
  OBVIOUS
<1>5. MergedInto(r, s, t, L)
  BY <1>1, <1>2, <1>4, MergeIs
<1>6. /\ \A m \in 1..L : r[m].start \in Nat /\ r[m].end \in Nat
      /\ \A k \in 1..N : order[k].start \in Nat /\ order[k].end \in Nat
      /\ s.start \in Nat /\ s.end \in Nat /\ s.start < s.end
  <2>1. \A m \in 1..L : r[m] \in Span
    BY <1>1, <1>2, ElementOfSeq
  <2> QED
    BY <2>1, <1>3 DEF Span
<1>7. \A k \in 1..i : k = i \/ k \in 1..(i - 1)
  OBVIOUS
<1>8. \A k \in 1..(i - 1) : k \in 1..i /\ k \in 1..N
  OBVIOUS
<1>9. \A m \in 1..L : \E k \in 1..(i - 1) :
         /\ r[m].start = order[k].start /\ r[m].label = order[k].label /\ order[k].end <= r[m].end
         /\ \A j \in 1..(k - 1) : order[j].end <= r[m].start
  BY <1>2 DEF Swept, Opened
<1>10. \A k \in 1..(i - 1) : \E m \in 1..L : r[m].start <= order[k].start /\ order[k].end <= r[m].end
  BY <1>2 DEF Swept, Contained
<1>11. \A m \in 1..L : \A j \in Nat : r[m].start < j /\ j < r[m].end =>
          \E k \in 1..(i - 1) : order[k].start < j /\ j < order[k].end
  BY <1>2 DEF Swept, Crossed
<1>12. \A m \in 1..L : \E k \in 1..(i - 1) : r[m].end = order[k].end
  BY <1>2 DEF Swept, Closed
<1>13. \A m, k \in 1..L : m < k => r[m].end <= r[k].start
  BY <1>2 DEF Swept, Apart
<1>14. \A m \in 1..L : r[m].start < r[m].end /\ r[m].start <= s.start
  <2> SUFFICES ASSUME NEW m \in 1..L PROVE r[m].start < r[m].end /\ r[m].start <= s.start
    OBVIOUS
  <2>1. PICK k \in 1..(i - 1) : r[m].start = order[k].start /\ order[k].end <= r[m].end
    BY <1>9
  <2>2. order[k].start < order[k].end /\ order[k].start <= s.start
    BY <1>3, <1>8
  <2> QED
    BY <2>1, <2>2, <1>6, <1>8
<1>15. \A m \in 1..L : r[m].end <= r[L].end
  <2> SUFFICES ASSUME NEW m \in 1..L PROVE r[m].end <= r[L].end
    OBVIOUS
  <2>1. L \in 1..L
    OBVIOUS
  <2>2. r[m].end \in Nat /\ r[L].end \in Nat /\ r[L].start \in Nat
    BY <1>6, <2>1
  <2>3. CASE m # L
    <3>1. r[m].end <= r[L].start /\ r[L].start < r[L].end
      BY <1>13, <1>14, <2>1, <2>3
    <3> QED
      BY <2>2, <3>1
  <2>4. CASE m = L
    BY <2>2, <2>4
  <2> QED
    BY <2>3, <2>4
<1>16. CASE L # 0 /\ s.start < r[L].end
  <2>1. /\ Len(t) = L /\ \A m \in 1..L : m # L => t[m] = r[m]
        /\ t[L].start = r[L].start /\ t[L].label = r[L].label
        /\ t[L].end \in {s.end, r[L].end} /\ s.end <= t[L].end /\ r[L].end <= t[L].end
        /\ L \in 1..L
    <3>1. /\ Len(t) = L /\ \A m \in 1..L : m # L => t[m] = r[m]
          /\ t[L].start = r[L].start /\ t[L].label = r[L].label
          /\ t[L].end = IF s.end > r[L].end THEN s.end ELSE r[L].end
      BY <1>5, <1>16 DEF MergedInto
    <3>2. L \in 1..L /\ s.end \in Nat
      BY <1>6, <1>16
    <3>3. r[L].end \in Nat
      BY <1>6, <3>2
    <3>4. t[L].end \in {s.end, r[L].end} /\ s.end <= t[L].end /\ r[L].end <= t[L].end
      BY <3>1, <3>2, <3>3
    <3> QED
      BY <3>1, <3>2, <3>4
  <2>2. \A m \in 1..L : t[m].start = r[m].start /\ t[m].label = r[m].label /\ r[m].end <= t[m].end
    <3> SUFFICES ASSUME NEW m \in 1..L
                 PROVE  t[m].start = r[m].start /\ t[m].label = r[m].label /\ r[m].end <= t[m].end
      OBVIOUS
    <3>1. r[m].end <= r[m].end
      <4>1. r[m].end \in Nat
        BY <1>6
      <4> QED
        BY <4>1
    <3>2. CASE m = L
      BY <2>1, <3>2
    <3>3. CASE m # L
      <4>1. t[m] = r[m]
        BY <2>1, <3>3, Zenon
      <4> QED
        BY <3>1, <4>1, Zenon
    <3> QED
      BY <3>2, <3>3
  <2>3. Opened(order, i, t)
    <3> SUFFICES ASSUME NEW m \in 1..L
                 PROVE  \E k \in 1..i :
                          /\ t[m].start = order[k].start /\ t[m].label = order[k].label /\ order[k].end <= t[m].end
                          /\ \A j \in 1..(k - 1) : order[j].end <= t[m].start
      BY <2>1 DEF Opened
    <3>1. PICK k \in 1..(i - 1) :
             /\ r[m].start = order[k].start /\ r[m].label = order[k].label /\ order[k].end <= r[m].end
             /\ \A j \in 1..(k - 1) : order[j].end <= r[m].start
      BY <1>9
    <3>2. order[k].end <= t[m].end
      <4>1. order[k].end \in Nat /\ t[m].end \in Nat /\ r[m].end \in Nat
        BY <1>6, <1>8, <2>1
      <4> QED
        BY <4>1, <3>1, <2>2
    <3> QED
      BY <3>1, <3>2, <2>2, <1>8
  <2>4. Contained(order, i, t)
    <3> SUFFICES ASSUME NEW k \in 1..i
                 PROVE  \E m \in 1..L : t[m].start <= order[k].start /\ order[k].end <= t[m].end
      BY <2>1 DEF Contained
    <3>1. CASE k = i
      BY <3>1, <2>1, <1>3, <1>14
    <3>2. CASE k # i
      <4>1. PICK m \in 1..L : r[m].start <= order[k].start /\ order[k].end <= r[m].end
        BY <3>2, <1>7, <1>10
      <4>2. order[k].end \in Nat /\ t[m].end \in Nat /\ r[m].end \in Nat
        BY <1>6, <2>1
      <4> QED
        BY <4>1, <4>2, <2>2
    <3> QED
      BY <3>1, <3>2
  <2>5. Crossed(order, i, t)
    <3> SUFFICES ASSUME NEW m \in 1..L, NEW j \in Nat, t[m].start < j, j < t[m].end
                 PROVE  \E k \in 1..i : order[k].start < j /\ j < order[k].end
      BY <2>1 DEF Crossed
    <3>1. CASE j < r[m].end
      BY <3>1, <1>8, <1>11, <2>2
    <3>2. CASE ~(j < r[m].end)
      <4>1. m = L /\ t[L].end = s.end
        BY <3>2, <2>1, <1>6
      <4>2. order[i].start < j /\ j < order[i].end
        BY <4>1, <3>2, <1>3, <1>6, <1>16
      <4> QED
        BY <4>2
    <3> QED
      BY <3>1, <3>2
  <2>6. Closed(order, i, t)
    BY <2>1, <1>3, <1>8, <1>12 DEF Closed
  <2>7. Apart(t)
    <3> SUFFICES ASSUME NEW m \in 1..L, NEW k \in 1..L, m < k PROVE t[m].end <= t[k].start
      BY <2>1 DEF Apart
    <3>1. m # L
      BY <1>2
    <3> QED
      BY <3>1, <2>1, <2>2, <1>13
  <2> QED
    BY <2>3, <2>4, <2>5, <2>6, <2>7, <1>3, <1>4, <1>5 DEF Swept, MergedInto
<1>17. CASE ~(L # 0 /\ s.start < r[L].end)
  <2>1. /\ Len(t) = L + 1 /\ \A m \in 1..L : t[m] = r[m]
        /\ t[L + 1] = s
    BY <1>5, <1>17 DEF MergedInto
  <2>2. /\ \A m \in 1..(L + 1) : m = L + 1 \/ m \in 1..L
        /\ \A m \in 1..L : m \in 1..(L + 1)
        /\ L + 1 \in 1..(L + 1)
    OBVIOUS
  <2>3. \A m \in 1..L : r[m].end <= s.start
    <3> SUFFICES ASSUME NEW m \in 1..L PROVE r[m].end <= s.start
      OBVIOUS
    <3>1. L \in 1..L
      OBVIOUS
    <3> QED
      BY <3>1, <1>6, <1>15, <1>17
  <2>4. Opened(order, i, t)
    <3> SUFFICES ASSUME NEW m \in 1..(L + 1)
                 PROVE  \E k \in 1..i :
                          /\ t[m].start = order[k].start /\ t[m].label = order[k].label /\ order[k].end <= t[m].end
                          /\ \A j \in 1..(k - 1) : order[j].end <= t[m].start
      BY <2>1 DEF Opened
    <3>1. CASE m = L + 1
      <4>1. \A j \in 1..(i - 1) : order[j].end <= s.start
        <5> SUFFICES ASSUME NEW j \in 1..(i - 1) PROVE order[j].end <= s.start
          OBVIOUS
        <5>1. PICK l \in 1..L : order[j].end <= r[l].end
          BY <1>10
        <5> QED
          BY <5>1, <2>3, <1>6, <1>8
      <4> QED
        BY <3>1, <4>1, <2>1, <1>3, <1>6
    <3>2. CASE m # L + 1
      BY <3>2, <2>1, <2>2, <1>8, <1>9
    <3> QED
      BY <3>1, <3>2
  <2>5. Contained(order, i, t)
    <3> SUFFICES ASSUME NEW k \in 1..i
                 PROVE  \E m \in 1..(L + 1) : t[m].start <= order[k].start /\ order[k].end <= t[m].end
      BY <2>1 DEF Contained
    <3>1. CASE k = i
      BY <3>1, <2>1, <2>2, <1>3, <1>6
    <3>2. CASE k # i
      BY <3>2, <2>1, <2>2, <1>7, <1>10
    <3> QED
      BY <3>1, <3>2
  <2>6. Crossed(order, i, t)
    <3> SUFFICES ASSUME NEW m \in 1..(L + 1), NEW j \in Nat, t[m].start < j, j < t[m].end
                 PROVE  \E k \in 1..i : order[k].start < j /\ j < order[k].end
      BY <2>1 DEF Crossed
    <3>1. CASE m = L + 1
      BY <3>1, <2>1, <1>3
    <3>2. CASE m # L + 1
      BY <3>2, <2>1, <2>2, <1>8, <1>11
    <3> QED
      BY <3>1, <3>2
  <2>7. Closed(order, i, t)
    BY <2>1, <2>2, <1>3, <1>8, <1>12 DEF Closed
  <2>8. Apart(t)
    <3> SUFFICES ASSUME NEW m \in 1..(L + 1), NEW k \in 1..(L + 1), m < k PROVE t[m].end <= t[k].start
      BY <2>1 DEF Apart
    <3>1. m \in 1..L
      OBVIOUS
    <3>2. CASE k = L + 1
      BY <3>1, <3>2, <2>1, <2>3
    <3>3. CASE k # L + 1
      BY <3>1, <3>3, <2>1, <2>2, <1>13
    <3> QED
      BY <3>2, <3>3
  <2> QED
    BY <2>4, <2>5, <2>6, <2>7, <2>8, <1>3, <1>4, <1>5 DEF Swept, MergedInto
<1> QED
  BY <1>16, <1>17

\* The label of an occurrence.
LEMMA LabelIs ==
  ASSUME NEW data \in Seq(Byte), NEW o \in Occurrence(data)
  PROVE  LabelFor(data, o) \in Nat \ {0}
<1>1. PICK i \in 0..Len(data) : \E j \in 0..Len(data) :
         o = [start |-> i, end |-> j] /\ i < j /\ SubSeq(data, i + 1, j) \in Values
  BY OccurrenceIs
<1>2. PICK j \in 0..Len(data) :
         o = [start |-> i, end |-> j] /\ i < j /\ SubSeq(data, i + 1, j) \in Values
  BY <1>1
<1>3. PICK p \in Patterns : p.value = SubSeq(data, i + 1, j)
  BY <1>2 DEF Values
<1> DEFINE T == {q.label : q \in {q \in Patterns : q.value = SubSeq(data, i + 1, j)}}
<1>4. p.label \in T
  BY <1>3
<1>5. \A q \in Patterns : q.label \in Nat \ {0}
  BY RedactAssumption
<1>6. T \subseteq Nat \ {0}
  BY <1>5
<1>7. LabelFor(data, o) = Min(T)
  BY <1>2 DEF LabelFor
<1> HIDE DEF T
<1> QED
  BY <1>4, <1>6, <1>7, MinIs

Labelled(data) ==
  {[start |-> o.start, end |-> o.end, label |-> LabelFor(data, o)] : o \in Occurrence(data)}

\* An occurrence is a part of data that is not empty.
LEMMA OccurrenceType ==
  ASSUME NEW data \in Seq(Byte), NEW o \in Occurrence(data)
  PROVE  /\ o \in [start : 0..Len(data), end : 0..Len(data)]
         /\ o.start \in 0..Len(data) /\ o.end \in 0..Len(data) /\ o.start < o.end
BY DEF Occurrence

\* The labelled spans are the occurrences, each with the label of its value.
LEMMA LabelledIs ==
  ASSUME NEW data \in Seq(Byte)
  PROVE  /\ Labelled(data) \in SUBSET Span /\ IsFiniteSet(Labelled(data))
         /\ \A z \in Labelled(data) : \E o \in Occurrence(data) :
              /\ z.start = o.start /\ z.end = o.end /\ z.label = LabelFor(data, o)
              /\ z.start < z.end /\ z.end <= Len(data) /\ z.label # 0
         /\ \A o \in Occurrence(data) : \E z \in Labelled(data) : z.start = o.start /\ z.end = o.end
<1> DEFINE Occ == Occurrence(data)
           n == Len(data)
           L(o) == [start |-> o.start, end |-> o.end, label |-> LabelFor(data, o)]
           Z == Labelled(data)
<1>1. n \in Nat /\ \A o \in Occ : /\ o \in [start : 0..n, end : 0..n]
                                 /\ o.start \in 0..n /\ o.end \in 0..n /\ o.start < o.end
                                 /\ LabelFor(data, o) \in Nat \ {0}
  BY OccurrenceType, LabelIs
<1>2. Z = {L(o) : o \in Occ}
  BY DEF Labelled
<1> HIDE DEF n, Occ, Z
<1>3. IsFiniteSet(Occ)
  <2> DEFINE f == [o \in Occ |-> <<o.start, o.end>>]
  <2>1. IsFiniteSet((0..n) \X (0..n))
    <3>1. IsFiniteSet(0..n)
      BY <1>1, FS_Interval
    <3> QED
      BY <3>1, FS_Product
  <2>2. f \in [Occ -> (0..n) \X (0..n)]
    BY <1>1
  <2>3. \A x, y \in Occ : f[x] = f[y] => x = y
    <3> SUFFICES ASSUME NEW x \in Occ, NEW y \in Occ, f[x] = f[y] PROVE x = y
      OBVIOUS
    <3>1. x.start = y.start /\ x.end = y.end
      OBVIOUS
    <3>2. x \in [start : 0..n, end : 0..n] /\ y \in [start : 0..n, end : 0..n]
      BY <1>1
    <3> QED
      BY <3>1, <3>2
  <2> HIDE DEF f
  <2>4. f \in Injection(Occ, (0..n) \X (0..n))
    BY <2>2, <2>3, Fun_IsInj
  <2> QED
    BY <2>1, <2>4, FS_Injection
<1>4. IsFiniteSet(Z)
  <2> DEFINE f == [o \in Occ |-> L(o)]
  <2>1. f \in [Occ -> Z] /\ \A z \in Z : \E o \in Occ : f[o] = z
    BY <1>2
  <2>2. f \in Surjection(Occ, Z)
    BY <2>1 DEF Surjection
  <2> QED
    BY <1>3, <2>2, FS_Surjection
<1>5. \A o \in Occ : L(o) \in Span
  BY <1>1 DEF Span
<1>6. Z \in SUBSET Span
  BY <1>2, <1>5
<1>7. \A z \in Z : \E o \in Occ :
        /\ z.start = o.start /\ z.end = o.end /\ z.label = LabelFor(data, o)
        /\ z.start < z.end /\ z.end <= n /\ z.label # 0
  BY <1>1, <1>2
<1>8. \A o \in Occ : \E z \in Z : z.start = o.start /\ z.end = o.end
  <2> SUFFICES ASSUME NEW o \in Occ PROVE \E z \in Z : z.start = o.start /\ z.end = o.end
    OBVIOUS
  <2>1. L(o) \in Z /\ L(o).start = o.start /\ L(o).end = o.end
    BY <1>2
  <2> HIDE DEF L
  <2> QED
    BY <2>1
<1> QED
  BY <1>4, <1>6, <1>7, <1>8 DEF Z, Occ, n

\* The sweep stands for all of the spans at its end.
LEMMA MergedSwept ==
  ASSUME NEW data \in Seq(Byte)
  PROVE  Swept(Sorted(Labelled(data)), Cardinality(Labelled(data)), Merged(data))
<1> DEFINE Z == Labelled(data)
           N == Cardinality(Z)
           order == Sorted(Z)
<1>1. /\ Z \in SUBSET Span /\ IsFiniteSet(Z)
      /\ \A z \in Z : z.start < z.end
  BY LabelledIs
<1>2. /\ N \in Nat /\ order \in [1..N -> Z]
      /\ \A i, j \in 1..N : i < j => Before(order[i], order[j])
  <2> HIDE DEF Z
  <2> QED
    BY <1>1, SortedIs
<1> DEFINE Eq(q) == q = [i \in 0..Len(order) |-> IF i = 0 THEN <<>> ELSE Merge(q[i - 1], order[i])]
           merged == CHOOSE q : Eq(q)
<1>3. Merged(data) = merged[Len(order)]
  BY SpansAreOccurrences DEF Merged, Labelled
<1> HIDE DEF Z, order, N
<1>4. order \in [1..N -> Span] /\ order \in Seq(Span) /\ Len(order) = N
  <2>1. order \in [1..N -> Span]
    BY <1>1, <1>2
  <2> QED
    BY <1>2, <2>1
<1> DEFINE G == [i \in 1..N |-> [r \in Seq(Span) |-> Merge(r, order[i])]]
<1>5. ASSUME NEW i \in 1..N, NEW r \in Seq(Span) PROVE Merge(r, order[i]) \in Seq(Span)
  <2>1. PICK t : t = Merge(r, order[i])
    OBVIOUS
  <2>2. PICK L \in Nat : L = Len(r)
    OBVIOUS
  <2>3. order[i] \in Span
    BY <1>4
  <2>4. MergedInto(r, order[i], t, L)
    BY <2>1, <2>2, <2>3, MergeIs
  <2> QED
    BY <2>1, <2>4 DEF MergedInto
<1>6. G \in [1..N -> [Seq(Span) -> Seq(Span)]]
  BY <1>5
<1>7. PICK f \in [0..N -> Seq(Span)] : Iterates(N, <<>>, G, f)
  <2> DEFINE A == Seq(Span)
  <2>1. N \in Nat /\ <<>> \in A /\ G \in [1..N -> [A -> A]]
    BY <1>2, <1>6
  <2> HIDE DEF G, A
  <2>2. \E f \in [0..N -> A] : Iterates(N, <<>>, G, f)
    BY <2>1, Iteration, SMT
  <2> QED
    BY <2>2 DEF A
<1>8. Eq(f)
  <2> DEFINE v(i) == IF i = 0 THEN <<>> ELSE Merge(f[i - 1], order[i])
  <2>1. \A i \in 1..N : G[i][f[i - 1]] = Merge(f[i - 1], order[i])
    <3> SUFFICES ASSUME NEW i \in 1..N PROVE G[i][f[i - 1]] = Merge(f[i - 1], order[i])
      OBVIOUS
    <3>1. i - 1 \in 0..N
      BY <1>2
    <3>2. f[i - 1] \in Seq(Span)
      BY <3>1
    <3> QED
      BY <3>2
  <2>2. \A i \in 0..N : f[i] = v(i)
    <3> HIDE DEF G
    <3> QED
      BY <2>1, <1>2, <1>7 DEF Iterates
  <2> HIDE DEF G, v
  <2>3. f = [i \in 0..N |-> v(i)]
    BY <1>7, <2>2
  <2> QED
    BY <2>3, <1>4 DEF v
<1>9. Eq(merged)
  <2> HIDE DEF Eq
  <2> QED
    BY <1>8
<1> HIDE DEF merged
<1>10. merged[0] = <<>> /\ \A i \in 1..N : merged[i] = Merge(merged[i - 1], order[i])
  BY <1>9, <1>4, <1>2
<1> DEFINE T == {i \in Nat : i <= N => Swept(order, i, merged[i])}
<1> HIDE DEF Eq, G
<1>11. ASSUME NEW i \in Nat, \A j \in 0..(i - 1) : j \in T
       PROVE  i \in T
  <2> SUFFICES ASSUME i <= N PROVE Swept(order, i, merged[i])
    OBVIOUS
  <2>1. CASE i = 0
    <3>1. merged[i] = <<>> /\ <<>> \in Seq(Span) /\ Len(<<>>) = 0
      BY <2>1, <1>10
    <3> QED
      BY <2>1, <3>1 DEF Swept, Opened, Contained, Crossed, Closed, Apart
  <2>2. CASE i # 0
    <3>1. i \in 1..N /\ i - 1 \in 0..(i - 1) /\ i - 1 \in Nat /\ i - 1 <= N
      BY <2>2, <1>2
    <3>2. i - 1 \in T
      BY <1>11, <3>1
    <3>3. Swept(order, i - 1, merged[i - 1])
      BY <3>1, <3>2
    <3>4. \A k \in 1..N : order[k].start < order[k].end
      BY <1>1, <1>2
    <3>5. \A j, k \in 1..N : j < k => order[j].start <= order[k].start
      BY <1>2, <1>4, BeforeIsOrder
    <3>6. Swept(order, i, Merge(merged[i - 1], order[i]))
      BY <1>2, <1>4, <3>1, <3>3, <3>4, <3>5, SweepStep
    <3> QED
      BY <3>1, <3>6, <1>10
  <2> QED
    BY <2>1, <2>2
<1>12. \A i \in Nat : i \in T
  <2> HIDE DEF T
  <2> QED
    BY <1>11, Induction
<1>13. Swept(order, N, merged[N])
  BY <1>2, <1>12
<1> QED
  BY <1>3, <1>4, <1>13 DEF order, N, Z

\* The label of a region is that of its first and shortest occurrence.
LEMMA LabelAtIs ==
  ASSUME NEW data \in Seq(Byte), NEW o \in Occurrence(data),
         \A x \in Occurrence(data) : x.start = o.start => o.end <= x.end
  PROVE  LabelAt(data, o.start) = LabelFor(data, o)
<1> DEFINE T == {x.end : x \in {x \in Occurrence(data) : x.start = o.start}}
<1>1. T \subseteq Nat /\ o.end \in T /\ \A e \in T : o.end <= e
  BY OccurrenceType
<1>2. Min(T) \in T /\ \A e \in T : Min(T) <= e
  BY <1>1, MinIs
<1>3. Min(T) = o.end
  <2>1. Min(T) \in Nat /\ o.end \in Nat /\ Min(T) <= o.end /\ o.end <= Min(T)
    BY <1>1, <1>2
  <2> QED
    BY <2>1
<1>4. LabelAt(data, o.start) =
        Min({p.label : p \in {q \in Patterns : q.value = SubSeq(data, o.start + 1, Min(T))}})
  BY DEF LabelAt
<1> HIDE DEF T
<1> QED
  BY <1>3, <1>4 DEF LabelFor

\* What Merged returns: regions in their order that do not overlap, each of
\* which begins with an occurrence and whose inner borders all lie in one.
Regions(data, R) ==
  /\ R \in Seq(Span) /\ Apart(R)
  /\ \A m \in 1..Len(R) :
       /\ R[m].start < R[m].end /\ R[m].end <= Len(data) /\ R[m].label # 0
       /\ First(data, R[m].start) /\ R[m].label = LabelAt(data, R[m].start)
  /\ \A o \in Occurrence(data) : \E m \in 1..Len(R) : R[m].start <= o.start /\ o.end <= R[m].end
  /\ \A m \in 1..Len(R) : \A j \in Nat : R[m].start < j /\ j < R[m].end =>
       \E o \in Occurrence(data) : o.start < j /\ j < o.end

\* The regions of Merged are the connected occurrences: apart from each other,
\* in order, covering every occurrence and nothing else.
LEMMA MergedIs ==
  ASSUME NEW data \in Seq(Byte)
  PROVE  Regions(data, Merged(data))
<1> DEFINE Z == Labelled(data)
           Occ == Occurrence(data)
<1>1. PICK R : R = Merged(data)
  OBVIOUS
<1>2. PICK N : N = Cardinality(Z)
  OBVIOUS
<1>3. PICK order : order = Sorted(Z)
  OBVIOUS
<1>4. PICK n \in Nat : n = Len(data)
  OBVIOUS
<1>5. /\ Z \in SUBSET Span /\ IsFiniteSet(Z)
      /\ \A z \in Z : \E o \in Occ :
           /\ z.start = o.start /\ z.end = o.end /\ z.label = LabelFor(data, o)
           /\ z.start < z.end /\ z.end <= n /\ z.label # 0
      /\ \A o \in Occ : \E z \in Z : z.start = o.start /\ z.end = o.end
  BY <1>4, LabelledIs
<1>6. Swept(order, N, R)
  BY <1>1, <1>2, <1>3, MergedSwept
<1>0. \A o \in Occ : o.start \in Nat /\ o.end \in Nat /\ o.start < o.end
  BY OccurrenceType
<1> HIDE DEF Z, Occ
<1>7. /\ N \in Nat /\ order \in [1..N -> Z]
      /\ \A i, j \in 1..N : i < j => Before(order[i], order[j])
      /\ \A z \in Z : \E i \in 1..N : order[i] = z
  BY <1>2, <1>3, <1>5, SortedIs
<1>8. PICK L \in Nat : L = Len(R)
  BY <1>6 DEF Swept
<1>9. R \in Seq(Span) /\ \A m \in 1..L : R[m] \in Span
  BY <1>6, <1>8, ElementOfSeq DEF Swept
<1>10. \A m \in 1..L : R[m].start \in Nat /\ R[m].end \in Nat
  BY <1>9 DEF Span
<1>11. \A k \in 1..N : order[k].start \in Nat /\ order[k].end \in Nat /\ order[k] \in Z
  BY <1>5, <1>7 DEF Span
<1>12. ASSUME NEW m \in 1..L
       PROVE  /\ R[m].start < R[m].end /\ R[m].end <= n /\ R[m].label # 0
              /\ First(data, R[m].start) /\ R[m].label = LabelAt(data, R[m].start)
  <2>1. PICK k \in 1..N :
          /\ R[m].start = order[k].start /\ R[m].label = order[k].label /\ order[k].end <= R[m].end
          /\ \A j \in 1..(k - 1) : order[j].end <= R[m].start
    BY <1>6, <1>8 DEF Swept, Opened
  <2>2. PICK o \in Occ :
          /\ order[k].start = o.start /\ order[k].end = o.end /\ order[k].label = LabelFor(data, o)
          /\ order[k].start < order[k].end /\ order[k].label # 0
    BY <1>5, <1>11
  <2>3. R[m].start < R[m].end
    BY <2>1, <2>2, <1>10, <1>11
  <2>4. R[m].end <= n
    <3>1. PICK e \in 1..N : R[m].end = order[e].end
      BY <1>6, <1>8 DEF Swept, Closed
    <3> QED
      BY <3>1, <1>5, <1>11
  <2>5. ASSUME NEW x \in Occ
        PROVE  /\ x.start = o.start => o.end <= x.end
               /\ ~(x.start < o.start /\ o.start < x.end)
    <3>1. PICK z \in Z : z.start = x.start /\ z.end = x.end
      BY <1>5
    <3>2. PICK j \in 1..N : order[j] = z
      BY <1>7
    <3>3. CASE j < k
      <4>1. j \in 1..(k - 1)
        BY <3>3
      <4>2. x.end <= o.start
        BY <4>1, <2>1, <2>2, <3>1, <3>2
      <4> QED
        BY <4>2, <1>0
    <3>4. CASE j = k
      BY <3>4, <2>2, <3>1, <3>2, <1>0
    <3>5. CASE k < j
      <4>1. Before(order[k], order[j])
        BY <3>5, <1>7
      <4>2. o.start < x.start \/ (o.start = x.start /\ o.end <= x.end)
        BY <4>1, <2>2, <3>1, <3>2, <1>0 DEF Before
      <4> QED
        BY <4>2, <1>0
    <3> QED
      BY <3>3, <3>4, <3>5
  <2>6. First(data, R[m].start)
    BY <2>1, <2>2, <2>5 DEF First, Occ
  <2>7. LabelAt(data, o.start) = LabelFor(data, o)
    BY <2>5, LabelAtIs DEF Occ
  <2> QED
    BY <2>1, <2>2, <2>3, <2>4, <2>6, <2>7
<1>13. ASSUME NEW o \in Occ PROVE \E m \in 1..L : R[m].start <= o.start /\ o.end <= R[m].end
  <2>1. PICK z \in Z : z.start = o.start /\ z.end = o.end
    BY <1>5
  <2>2. PICK k \in 1..N : order[k] = z
    BY <1>7
  <2> QED
    BY <2>1, <2>2, <1>6, <1>8 DEF Swept, Contained
<1>14. ASSUME NEW m \in 1..L, NEW j \in Nat, R[m].start < j, j < R[m].end
       PROVE  \E o \in Occ : o.start < j /\ j < o.end
  <2>1. PICK k \in 1..N : order[k].start < j /\ j < order[k].end
    BY <1>6, <1>8, <1>14 DEF Swept, Crossed
  <2> QED
    BY <2>1, <1>5, <1>11
<1>15. Apart(R)
  BY <1>6 DEF Swept
<1> QED
  BY <1>1, <1>4, <1>8, <1>9, <1>12, <1>13, <1>14, <1>15 DEF Regions, Occ

-----------------------------------------------------------------------------
(***************************************************************************)
(* How much is passed on.                                                  *)
(***************************************************************************)
Reaches(R, m, e) == R[m].start < e /\ e < R[m].end

\* Either no region reaches over the bytes held back, or they are moved to the
\* start of the one that does.
LEMMA EmitEndIs ==
  ASSUME NEW data \in Seq(Byte), NEW n \in Nat, n = Len(data), NEW R, R = Merged(data), NEW L \in Nat, L = Len(R),
         NEW e, e = n - Hold(data)
  PROVE  /\ EmitEnd(data) \in 0..n /\ e \in 0..n
         /\ \/ EmitEnd(data) = e /\ \A m \in 1..L : ~Reaches(R, m, e)
            \/ \E m \in 1..L : Reaches(R, m, e) /\ EmitEnd(data) = R[m].start
<1>1. /\ Apart(R) /\ R \in Seq(Span)
      /\ \A m \in 1..L : R[m].start < R[m].end /\ R[m].end <= n
  BY MergedIs DEF Regions
<1>2. \A m \in 1..L : R[m] \in Span
  BY <1>1, ElementOfSeq
<1>3. \A m \in 1..L : R[m].start \in Nat /\ R[m].end \in Nat
  BY <1>2 DEF Span
<1>4. e \in 0..n
  BY HoldIs
<1> DEFINE Eq(q) == q = [i \in 0..L |-> IF i = 0 THEN e
                                   ELSE IF R[i].start < q[i - 1] /\ q[i - 1] < R[i].end THEN R[i].start
                                   ELSE q[i - 1]]
           end == CHOOSE q : Eq(q)
<1>5. EmitEnd(data) = end[L]
  BY DEF EmitEnd
<1> DEFINE G == [i \in 1..L |-> [x \in Nat |-> IF R[i].start < x /\ x < R[i].end THEN R[i].start ELSE x]]
<1>6. G \in [1..L -> [Nat -> Nat]]
  BY <1>3
<1>7. PICK f \in [0..L -> Nat] : Iterates(L, e, G, f)
  <2> DEFINE A == Nat
             k == L
             a == e
  <2>1. k \in Nat /\ a \in A /\ G \in [1..k -> [A -> A]]
    BY <1>4, <1>6
  <2> HIDE DEF G, A, k, a
  <2>2. \E f \in [0..k -> A] : Iterates(k, a, G, f)
    BY <2>1, Iteration, SMT
  <2> QED
    BY <2>2 DEF A, k, a
<1>8. Eq(f)
  <2> DEFINE v(i) == IF i = 0 THEN e ELSE IF R[i].start < f[i - 1] /\ f[i - 1] < R[i].end THEN R[i].start
                     ELSE f[i - 1]
  <2>1. \A i \in 1..L : G[i][f[i - 1]] = v(i)
    <3> SUFFICES ASSUME NEW i \in 1..L PROVE G[i][f[i - 1]] = v(i)
      OBVIOUS
    <3>1. i - 1 \in 0..L
      OBVIOUS
    <3>2. f[i - 1] \in Nat
      BY <3>1
    <3> QED
      BY <3>2
  <2>2. \A i \in 0..L : f[i] = v(i)
    <3> HIDE DEF G
    <3> QED
      BY <2>1, <1>7 DEF Iterates
  <2> HIDE DEF G, v
  <2>3. f = [i \in 0..L |-> v(i)]
    BY <1>7, <2>2
  <2> QED
    BY <2>3 DEF v
<1>9. Eq(end)
  <2> HIDE DEF Eq
  <2> QED
    BY <1>8
<1> HIDE DEF end
<1>10. /\ end[0] = e
       /\ \A i \in 1..L : end[i] = IF R[i].start < end[i - 1] /\ end[i - 1] < R[i].end THEN R[i].start
                                   ELSE end[i - 1]
  <2> DEFINE v(i) == IF i = 0 THEN e
                     ELSE IF R[i].start < end[i - 1] /\ end[i - 1] < R[i].end THEN R[i].start
                     ELSE end[i - 1]
  <2>1. end = [i \in 0..L |-> v(i)]
    BY <1>9
  <2> HIDE DEF v, Eq
  <2>2. \A i \in 0..L : end[i] = v(i)
    BY <2>1
  <2> QED
    BY <2>2 DEF v
<1> HIDE DEF Eq, G
<1> DEFINE Good(i) == \/ end[i] = e /\ \A m \in 1..i : ~Reaches(R, m, e)
                      \/ \E m \in 1..i : Reaches(R, m, e) /\ end[i] = R[m].start
           T == {i \in Nat : i <= L => Good(i)}
<1>11. ASSUME NEW i \in Nat, \A j \in 0..(i - 1) : j \in T
       PROVE  i \in T
  <2> SUFFICES ASSUME i <= L PROVE Good(i)
    OBVIOUS
  <2>1. CASE i = 0
    BY <2>1, <1>10
  <2>2. CASE i # 0
    <3>1. i \in 1..L /\ i - 1 \in 0..(i - 1) /\ i - 1 \in Nat /\ i - 1 <= L
      BY <2>2
    <3>2. i - 1 \in T
      BY <1>11, <3>1
    <3>3. Good(i - 1)
      BY <3>1, <3>2
    <3>4. \A m \in 1..i : m = i \/ m \in 1..(i - 1)
      OBVIOUS
    <3>5. CASE end[i - 1] = e /\ \A m \in 1..(i - 1) : ~Reaches(R, m, e)
      BY <3>1, <3>4, <3>5, <1>10 DEF Reaches
    <3>6. CASE \E m \in 1..(i - 1) : Reaches(R, m, e) /\ end[i - 1] = R[m].start
      <4>1. PICK m \in 1..(i - 1) : Reaches(R, m, e) /\ end[i - 1] = R[m].start
        BY <3>6
      <4>2. m \in 1..L /\ m < i /\ m \in 1..i
        OBVIOUS
      <4>3. R[m].end <= R[i].start /\ R[m].start < R[m].end
        BY <3>1, <4>2, <1>1 DEF Apart
      <4>4. ~(R[i].start < R[m].start)
        BY <3>1, <4>2, <4>3, <1>3
      <4>5. end[i] = R[m].start
        BY <3>1, <4>1, <4>4, <1>10
      <4> QED
        BY <4>1, <4>2, <4>5
    <3> QED
      BY <3>3, <3>5, <3>6
  <2> QED
    BY <2>1, <2>2
<1>12. \A i \in Nat : i \in T
  <2> HIDE DEF T
  <2> QED
    BY <1>11, Induction
<1>13. Good(L)
  BY <1>12
<1>14. end[L] \in 0..n
  <2>1. CASE end[L] = e
    BY <2>1, <1>4
  <2>2. CASE \E m \in 1..L : end[L] = R[m].start
    <3>1. PICK m \in 1..L : end[L] = R[m].start
      BY <2>2
    <3>2. R[m].start \in Nat /\ R[m].end \in Nat /\ R[m].start < R[m].end /\ R[m].end <= n
      BY <1>1, <1>3
    <3> QED
      BY <3>1, <3>2
  <2> QED
    BY <2>1, <2>2, <1>13
<1> QED
  BY <1>4, <1>5, <1>13, <1>14

-----------------------------------------------------------------------------
(***************************************************************************)
(* Occurrences in a part of the stream.                                    *)
(***************************************************************************)
OccAt(data, i, j) ==
  i \in 0..Len(data) /\ j \in 0..Len(data) /\ i < j /\ SubSeq(data, i + 1, j) \in Values

\* OccAt says of numbers what Occurrence says of records.
LEMMA OccAtIs ==
  ASSUME NEW data \in Seq(Byte)
  PROVE  /\ \A i, j : OccAt(data, i, j) => [start |-> i, end |-> j] \in Occurrence(data)
         /\ \A o \in Occurrence(data) : OccAt(data, o.start, o.end)
BY DEF Occurrence, OccAt

\* The places of an occurrence.
LEMMA OccAtTypes ==
  ASSUME NEW data \in Seq(Byte), NEW i, NEW j, OccAt(data, i, j)
  PROVE  i \in Nat /\ j \in Nat /\ i < j /\ j <= Len(data)
BY DEF OccAt

\* A byte is secret if an occurrence covers it.
LEMMA SecretIs ==
  ASSUME NEW data \in Seq(Byte), NEW x
  PROVE  Secret(data, x) <=> \E i, j \in Nat : OccAt(data, i, j) /\ i <= x /\ x < j
<1>1. ASSUME NEW o \in Occurrence(data), o.start <= x, x < o.end
      PROVE  \E i, j \in Nat : OccAt(data, i, j) /\ i <= x /\ x < j
  BY <1>1, OccAtIs, OccurrenceType
<1>2. ASSUME NEW i \in Nat, NEW j \in Nat, OccAt(data, i, j), i <= x, x < j
      PROVE  \E o \in Occurrence(data) : o.start <= x /\ x < o.end
  <2>1. [start |-> i, end |-> j] \in Occurrence(data)
    BY <1>2, OccAtIs
  <2> QED
    BY <2>1, <1>2
<1> QED
  BY <1>1, <1>2 DEF Secret

\* A byte begins a region if an occurrence starts there and none reaches over
\* its start.
LEMMA FirstIs ==
  ASSUME NEW data \in Seq(Byte), NEW x
  PROVE  First(data, x) <=> /\ \E j \in Nat : OccAt(data, x, j)
                            /\ ~ \E i, j \in Nat : OccAt(data, i, j) /\ i < x /\ x < j
<1>1. (\E o \in Occurrence(data) : o.start = x) <=> \E j \in Nat : OccAt(data, x, j)
  <2>1. ASSUME NEW o \in Occurrence(data), o.start = x
        PROVE  \E j \in Nat : OccAt(data, x, j)
    BY <2>1, OccAtIs, OccurrenceType
  <2>2. ASSUME NEW j \in Nat, OccAt(data, x, j)
        PROVE  \E o \in Occurrence(data) : o.start = x
    <3>1. [start |-> x, end |-> j] \in Occurrence(data)
      BY <2>2, OccAtIs
    <3> QED
      BY <3>1
  <2> QED
    BY <2>1, <2>2
<1>2. (\E o \in Occurrence(data) : o.start < x /\ x < o.end) <=>
        \E i, j \in Nat : OccAt(data, i, j) /\ i < x /\ x < j
  <2>1. ASSUME NEW o \in Occurrence(data), o.start < x, x < o.end
        PROVE  \E i, j \in Nat : OccAt(data, i, j) /\ i < x /\ x < j
    BY <2>1, OccAtIs, OccurrenceType
  <2>2. ASSUME NEW i \in Nat, NEW j \in Nat, OccAt(data, i, j), i < x, x < j
        PROVE  \E o \in Occurrence(data) : o.start < x /\ x < o.end
    <3>1. [start |-> i, end |-> j] \in Occurrence(data)
      BY <2>2, OccAtIs
    <3> QED
      BY <3>1, <2>2
  <2> QED
    BY <2>1, <2>2
<1> QED
  BY <1>1, <1>2 DEF First

\* The label at the start of an occurrence that no other from there is shorter than.
LEMMA LabelAtOcc ==
  ASSUME NEW data \in Seq(Byte), NEW i \in Nat, NEW j \in Nat, OccAt(data, i, j),
         \A k \in Nat : OccAt(data, i, k) => j <= k
  PROVE  LabelAt(data, i) = Min({p.label : p \in {q \in Patterns : q.value = SubSeq(data, i + 1, j)}})
<1> DEFINE o == [start |-> i, end |-> j]
<1>1. o \in Occurrence(data) /\ o.start = i /\ o.end = j
  BY OccAtIs
<1>2. \A x \in Occurrence(data) : x.start = o.start => o.end <= x.end
  BY OccAtIs, OccurrenceType
<1>3. LabelFor(data, o) = Min({p.label : p \in {q \in Patterns : q.value = SubSeq(data, i + 1, j)}})
  BY DEF LabelFor
<1> HIDE DEF o
<1>4. LabelAt(data, o.start) = LabelFor(data, o)
  BY <1>1, <1>2, LabelAtIs
<1> QED
  BY <1>1, <1>3, <1>4

\* Around the byte i of data the occurrences are those around the byte b + i of more.
Alike(data, more, b, i) ==
  /\ \A x, y \in Nat : x <= i =>
       /\ OccAt(data, x, y) <=> OccAt(more, b + x, b + y)
       /\ OccAt(data, x, y) => SubSeq(data, x + 1, y) = SubSeq(more, b + x + 1, b + y)
  /\ \A x, y \in Nat : OccAt(more, x, y) /\ x < b => y <= b

\* What is secret, where a region begins and with which label follows from the
\* occurrences around the byte.
LEMMA AlikeAgree ==
  ASSUME NEW data \in Seq(Byte), NEW more \in Seq(Byte), NEW b \in Nat, NEW i \in Nat,
         Alike(data, more, b, i)
  PROVE  /\ Secret(data, i) <=> Secret(more, b + i)
         /\ First(data, i) <=> First(more, b + i)
         /\ First(data, i) => LabelAt(data, i) = LabelAt(more, b + i)
<1>1. ASSUME NEW x \in Nat, NEW y \in Nat, OccAt(data, x, y), x <= i
      PROVE  OccAt(more, b + x, b + y) /\ SubSeq(data, x + 1, y) = SubSeq(more, b + x + 1, b + y)
  BY <1>1 DEF Alike
<1>2. ASSUME NEW x \in Nat, NEW y \in Nat, OccAt(more, x, y), x <= b + i, b + i < y
      PROVE  \E u, v \in Nat : x = b + u /\ y = b + v /\ OccAt(data, u, v)
  <2>1. ~(x < b)
    BY <1>2 DEF Alike
  <2>2. PICK u \in Nat : x = b + u
    <3>1. x - b \in Nat /\ x = b + (x - b)
      BY <2>1
    <3> QED
      BY <3>1
  <2>3. PICK v \in Nat : y = b + v
    <3>1. y - b \in Nat /\ y = b + (y - b)
      BY <1>2
    <3> QED
      BY <3>1
  <2>4. u <= i
    BY <1>2, <2>2
  <2> QED
    BY <1>2, <2>2, <2>3, <2>4 DEF Alike
<1>3. Secret(data, i) => Secret(more, b + i)
  <2> SUFFICES ASSUME NEW x \in Nat, NEW y \in Nat, OccAt(data, x, y), x <= i, i < y
               PROVE  Secret(more, b + i)
    BY SecretIs
  <2>1. b + x \in Nat /\ b + y \in Nat /\ b + x <= b + i /\ b + i < b + y /\ OccAt(more, b + x, b + y)
    BY <1>1
  <2> QED
    BY <2>1, SecretIs
<1>4. Secret(more, b + i) => Secret(data, i)
  <2> SUFFICES ASSUME NEW x \in Nat, NEW y \in Nat, OccAt(more, x, y), x <= b + i, b + i < y
               PROVE  Secret(data, i)
    BY SecretIs
  <2>1. PICK u \in Nat, v \in Nat : x = b + u /\ y = b + v /\ OccAt(data, u, v)
    BY <1>2
  <2>2. u <= i /\ i < v
    BY <2>1
  <2> QED
    BY <2>1, <2>2, SecretIs
<1>5. ASSUME NEW y \in Nat PROVE OccAt(data, i, y) <=> OccAt(more, b + i, b + y)
  BY DEF Alike
<1>6. (\E x, y \in Nat : OccAt(data, x, y) /\ x < i /\ i < y) <=>
        \E x, y \in Nat : OccAt(more, x, y) /\ x < b + i /\ b + i < y
  <2>1. ASSUME NEW x \in Nat, NEW y \in Nat, OccAt(data, x, y), x < i, i < y
        PROVE  \E u, v \in Nat : OccAt(more, u, v) /\ u < b + i /\ b + i < v
    <3>1. b + x \in Nat /\ b + y \in Nat /\ b + x < b + i /\ b + i < b + y /\ OccAt(more, b + x, b + y)
      BY <1>1, <2>1
    <3> QED
      BY <3>1
  <2>2. ASSUME NEW x \in Nat, NEW y \in Nat, OccAt(more, x, y), x < b + i, b + i < y
        PROVE  \E u, v \in Nat : OccAt(data, u, v) /\ u < i /\ i < v
    <3>1. PICK u \in Nat, v \in Nat : x = b + u /\ y = b + v /\ OccAt(data, u, v)
      BY <1>2, <2>2
    <3>2. u < i /\ i < v
      BY <2>2, <3>1
    <3> QED
      BY <3>1, <3>2
  <2> QED
    BY <2>1, <2>2
<1>7. (\E y \in Nat : OccAt(data, i, y)) <=> \E y \in Nat : OccAt(more, b + i, y)
  <2>1. ASSUME NEW y \in Nat, OccAt(data, i, y) PROVE \E v \in Nat : OccAt(more, b + i, v)
    <3>1. b + y \in Nat /\ OccAt(more, b + i, b + y)
      BY <1>5, <2>1
    <3> QED
      BY <3>1
  <2>2. ASSUME NEW y \in Nat, OccAt(more, b + i, y) PROVE \E v \in Nat : OccAt(data, i, v)
    <3>1. b + i < y
      BY <2>2, OccAtTypes
    <3>2. PICK v \in Nat : y = b + v
      <4>1. y - b \in Nat /\ y = b + (y - b)
        BY <3>1
      <4> QED
        BY <4>1
    <3> QED
      BY <1>5, <2>2, <3>2
  <2> QED
    BY <2>1, <2>2
<1>8. First(data, i) <=> First(more, b + i)
  BY <1>6, <1>7, FirstIs
<1>9. ASSUME First(data, i) PROVE LabelAt(data, i) = LabelAt(more, b + i)
  <2> DEFINE T == {y \in Nat : OccAt(data, i, y)}
  <2>1. T \subseteq Nat /\ T # {}
    BY <1>9, FirstIs
  <2>2. PICK j \in T : \A y \in T : j <= y
    BY <2>1, Least
  <2>3. j \in Nat /\ OccAt(data, i, j) /\ \A y \in Nat : OccAt(data, i, y) => j <= y
    BY <2>2
  <2> HIDE DEF T
  <2>4. OccAt(more, b + i, b + j) /\ SubSeq(data, i + 1, j) = SubSeq(more, b + i + 1, b + j)
    BY <1>1, <2>3
  <2>5. ASSUME NEW y \in Nat, OccAt(more, b + i, y) PROVE b + j <= y
    <3>1. b + i < y
      BY <2>5, OccAtTypes
    <3>2. PICK v \in Nat : y = b + v
      <4>1. y - b \in Nat /\ y = b + (y - b)
        BY <3>1
      <4> QED
        BY <4>1
    <3>3. OccAt(data, i, v)
      BY <1>5, <2>5, <3>2
    <3> QED
      BY <2>3, <3>2, <3>3
  <2>6. LabelAt(data, i) = Min({p.label : p \in {q \in Patterns : q.value = SubSeq(data, i + 1, j)}})
    BY <2>3, LabelAtOcc
  <2>7. PICK c \in Nat : c = b + i
    OBVIOUS
  <2>8. PICK d \in Nat : d = b + j
    BY <2>3
  <2>9. LabelAt(more, c) = Min({p.label : p \in {q \in Patterns : q.value = SubSeq(more, c + 1, d)}})
    BY <2>4, <2>5, <2>7, <2>8, LabelAtOcc
  <2>10. SubSeq(data, i + 1, j) = SubSeq(more, c + 1, d)
    BY <2>4, <2>7, <2>8
  <2> QED
    BY <2>6, <2>7, <2>9, <2>10
<1> QED
  BY <1>3, <1>4, <1>8, <1>9

\* The stream data has grown to more.
Prefix(data, more) == Len(data) <= Len(more) /\ data = SubSeq(more, 1, Len(data))

\* Data can be cut at b: no occurrence reaches over b, and none that goes on
\* behind the end of data can.
Clean(data, b) ==
  /\ b \in 0..Len(data)
  /\ \A x, y \in Nat : OccAt(data, x, y) /\ x < b => y <= b
  /\ \A i \in 0..(Len(data) - 1) : i < b => SubSeq(data, i + 1, Len(data)) \notin Node

\* A beginning of a node is a node.
LEMMA NodePrefix ==
  ASSUME NEW s \in Node, NEW k \in 1..Len(s)
  PROVE  SubSeq(s, 1, k) \in Node
<1>0. s # <<>>
  BY EmptySeq
<1>1. PICK v \in Values : \E n \in 1..Len(v) : s = SubSeq(v, 1, n)
  BY <1>0, NodeIs
<1>2. PICK n \in 1..Len(v) : s = SubSeq(v, 1, n)
  BY <1>1
<1>3. v \in Seq(Byte)
  BY ValuesAreSequences
<1>4. Len(s) = n /\ s \in Seq(Byte)
  BY <1>2, <1>3, PrefixExtends
<1>5. SubSeq(SubSeq(v, 1, n), 1, k) = SubSeq(v, 1 + 1 - 1, 1 + k - 1)
  BY <1>2, <1>3, <1>4, SubSeqOfSubSeq
<1>6. 1 + 1 - 1 = 1 /\ 1 + k - 1 = k
  BY <1>4
<1>7. SubSeq(s, 1, k) = SubSeq(v, 1, k)
  BY <1>2, <1>5, <1>6
<1>8. k \in 1..Len(v)
  BY <1>3, <1>4
<1> QED
  BY <1>7, <1>8, NodeIs

\* A part of a part of the stream is a part of the stream.
LEMMA PartOfPart ==
  ASSUME NEW more \in Seq(Byte), NEW b \in Nat, NEW c \in Nat, b <= c, c <= Len(more),
         NEW data, data = SubSeq(more, b + 1, c), NEW i \in Nat, NEW j \in Nat, i < j, j <= c - b
  PROVE  SubSeq(data, i + 1, j) = SubSeq(more, b + i + 1, b + j)
<1>1. data \in Seq(Byte) /\ Len(data) = c - b
  BY PartIs
<1>2. b + 1 \in 1..Len(more) /\ c \in 1..Len(more)
  OBVIOUS
<1>3. i + 1 \in 1..c - (b + 1) + 1 /\ j \in 1..c - (b + 1) + 1
  OBVIOUS
<1>4. SubSeq(SubSeq(more, b + 1, c), i + 1, j) = SubSeq(more, (b + 1) + (i + 1) - 1, (b + 1) + j - 1)
  BY <1>1, <1>2, <1>3, SubSeqOfSubSeq
<1>5. (b + 1) + (i + 1) - 1 = b + i + 1 /\ (b + 1) + j - 1 = b + j
  OBVIOUS
<1> QED
  BY <1>4, <1>5

\* The occurrences in a beginning of the stream are those of the stream that
\* end in it.
LEMMA PrefixOcc ==
  ASSUME NEW data \in Seq(Byte), NEW more \in Seq(Byte), Prefix(data, more)
  PROVE  \A x, y \in Nat : y <= Len(data) =>
           /\ OccAt(data, x, y) <=> OccAt(more, x, y)
           /\ x < y => SubSeq(data, x + 1, y) = SubSeq(more, x + 1, y)
<1>1. PICK n \in Nat : n = Len(data)
  OBVIOUS
<1>2. data = SubSeq(more, 0 + 1, n) /\ n <= Len(more)
  BY <1>1 DEF Prefix
<1>3. ASSUME NEW x \in Nat, NEW y \in Nat, y <= n, x < y
      PROVE  SubSeq(data, x + 1, y) = SubSeq(more, x + 1, y)
  <2>1. SubSeq(data, x + 1, y) = SubSeq(more, 0 + x + 1, 0 + y)
    BY <1>2, <1>3, PartOfPart
  <2>2. 0 + x + 1 = x + 1 /\ 0 + y = y
    OBVIOUS
  <2> QED
    BY <2>1, <2>2
<1>4. ASSUME NEW x \in Nat, NEW y \in Nat, y <= n
      PROVE  OccAt(data, x, y) <=> OccAt(more, x, y)
  <2>1. CASE x < y
    <3>1. SubSeq(data, x + 1, y) = SubSeq(more, x + 1, y)
      BY <1>3, <1>4, <2>1
    <3>2. x \in 0..Len(data) /\ y \in 0..Len(data) /\ x \in 0..Len(more) /\ y \in 0..Len(more)
      BY <1>1, <1>2, <1>4, <2>1
    <3> QED
      BY <3>1, <3>2, <2>1 DEF OccAt
  <2>2. CASE ~(x < y)
    BY <2>2 DEF OccAt
  <2> QED
    BY <2>1, <2>2
<1> QED
  BY <1>1, <1>3, <1>4

\* A clean cut stays one.
LEMMA CleanExtends ==
  ASSUME NEW data \in Seq(Byte), NEW more \in Seq(Byte), Prefix(data, more), NEW b, Clean(data, b)
  PROVE  Clean(more, b)
<1>1. PICK n \in Nat : n = Len(data)
  OBVIOUS
<1>2. PICK m \in Nat : m = Len(more)
  OBVIOUS
<1>3. n <= m /\ data = SubSeq(more, 0 + 1, n) /\ b \in 0..n /\ b \in Nat
  BY <1>1, <1>2 DEF Prefix, Clean
<1>4. ASSUME NEW i \in Nat, i < n, i < b, NEW k \in Nat, n <= k, k <= m
      PROVE  SubSeq(more, i + 1, k) \notin Node
  <2> SUFFICES ASSUME SubSeq(more, i + 1, k) \in Node PROVE FALSE
    OBVIOUS
  <2>1. PICK s \in Node : s = SubSeq(more, i + 1, k)
    OBVIOUS
  <2>2. i \in 0..Len(more) /\ k \in i..Len(more)
    BY <1>2, <1>4
  <2>3. s \in Seq(Byte) /\ Len(s) = k - i
    BY <2>1, <2>2, PartIs
  <2>4. n - i \in 1..Len(s) /\ n - i \in Nat
    BY <2>3, <1>4
  <2>5. SubSeq(s, 1, n - i) \in Node
    BY <2>4, NodePrefix
  <2>6. SubSeq(s, 0 + 1, n - i) = SubSeq(more, i + 0 + 1, i + (n - i))
    BY <2>1, <2>4, <1>2, <1>4, PartOfPart
  <2>7. i + 0 + 1 = i + 1 /\ i + (n - i) = n /\ 0 + 1 = 1
    BY <1>4
  <2>8. SubSeq(s, 1, n - i) = SubSeq(more, i + 1, n)
    BY <2>6, <2>7
  <2>9. SubSeq(data, i + 1, n) = SubSeq(more, i + 1, n)
    BY <1>1, <1>4, PrefixOcc
  <2>10. i \in 0..(n - 1)
    BY <1>4
  <2> QED
    BY <2>5, <2>8, <2>9, <2>10, <1>1, <1>4 DEF Clean
<1>5. ASSUME NEW x \in Nat, NEW y \in Nat, OccAt(more, x, y), x < b PROVE y <= b
  <2>1. CASE y <= n
    BY <2>1, <1>1, <1>5, PrefixOcc DEF Clean
  <2>2. CASE ~(y <= n)
    <3>1. SubSeq(more, x + 1, y) \in Node /\ y <= m /\ x < n
      BY <1>2, <1>3, <1>5, ValueIsNode DEF OccAt
    <3> QED
      BY <3>1, <2>2, <1>4, <1>5
  <2> QED
    BY <2>1, <2>2
<1>6. ASSUME NEW i \in 0..(m - 1), i < b PROVE SubSeq(more, i + 1, m) \notin Node
  BY <1>3, <1>4, <1>6
<1>7. b \in 0..m
  BY <1>3
<1> QED
  BY <1>2, <1>5, <1>6, <1>7 DEF Clean

\* Before a clean cut the stream looks the same however it goes on.
LEMMA PrefixAlike ==
  ASSUME NEW data \in Seq(Byte), NEW more \in Seq(Byte), Prefix(data, more), NEW b, Clean(data, b),
         NEW i \in Nat, i < b
  PROVE  Alike(data, more, 0, i)
<1>1. PICK n \in Nat : n = Len(data)
  OBVIOUS
<1>2. b \in 0..n
  BY <1>1 DEF Clean
<1>3. Clean(more, b)
  BY CleanExtends
<1>4. ASSUME NEW x \in Nat, NEW y \in Nat, x <= i
      PROVE  OccAt(data, x, y) <=> OccAt(more, x, y)
  <2>1. CASE y <= n
    BY <2>1, <1>1, PrefixOcc
  <2>2. CASE ~(y <= n)
    <3>1. ~OccAt(data, x, y)
      BY <1>1, <2>2 DEF OccAt
    <3>2. ~OccAt(more, x, y)
      BY <1>2, <1>3, <1>4, <2>2 DEF Clean
    <3> QED
      BY <3>1, <3>2
  <2> QED
    BY <2>1, <2>2
<1>5. ASSUME NEW x \in Nat, NEW y \in Nat, OccAt(data, x, y)
      PROVE  SubSeq(data, x + 1, y) = SubSeq(more, x + 1, y)
  BY <1>5, OccAtTypes, PrefixOcc
<1>6. ASSUME NEW x \in Nat, NEW y \in Nat, x <= i
      PROVE  /\ OccAt(data, x, y) <=> OccAt(more, 0 + x, 0 + y)
             /\ OccAt(data, x, y) => SubSeq(data, x + 1, y) = SubSeq(more, 0 + x + 1, 0 + y)
  <2>1. 0 + x = x /\ 0 + y = y /\ 0 + x + 1 = x + 1
    OBVIOUS
  <2> QED
    BY <2>1, <1>4, <1>5, <1>6
<1>7. \A x \in Nat : ~(x < 0)
  OBVIOUS
<1> QED
  BY <1>6, <1>7 DEF Alike

\* Behind a clean cut the rest of the stream looks the same by itself, as the
\* redactor sees it in its buffer.
LEMMA SuffixAlike ==
  ASSUME NEW more \in Seq(Byte), NEW b, Clean(more, b), NEW data, data = SubSeq(more, b + 1, Len(more)),
         NEW i \in Nat
  PROVE  data \in Seq(Byte) /\ Len(data) = Len(more) - b /\ Alike(data, more, b, i)
<1>1. PICK m \in Nat : m = Len(more)
  OBVIOUS
<1>2. b \in 0..m /\ b \in Nat /\ m \in b..m
  BY <1>1 DEF Clean
<1>3. data \in Seq(Byte) /\ Len(data) = m - b
  BY <1>1, <1>2, PartIs
<1>4. ASSUME NEW x \in Nat, NEW y \in Nat, x < y, y <= m - b
      PROVE  SubSeq(data, x + 1, y) = SubSeq(more, b + x + 1, b + y)
  BY <1>1, <1>2, <1>4, PartOfPart
<1>5. ASSUME NEW x \in Nat, NEW y \in Nat
      PROVE  OccAt(data, x, y) <=> OccAt(more, b + x, b + y)
  <2>1. CASE x < y /\ y <= m - b
    <3>1. PICK u \in Nat : u = b + x
      BY <1>2
    <3>2. PICK v \in Nat : v = b + y
      BY <1>2
    <3>3. u \in 0..Len(more) /\ v \in 0..Len(more) /\ u < v /\ x \in 0..Len(data) /\ y \in 0..Len(data)
      BY <1>1, <1>2, <1>3, <2>1, <3>1, <3>2
    <3>4. SubSeq(data, x + 1, y) = SubSeq(more, u + 1, v)
      BY <1>4, <2>1, <3>1, <3>2
    <3>5. OccAt(data, x, y) <=> OccAt(more, u, v)
      BY <2>1, <3>3, <3>4 DEF OccAt
    <3> QED
      BY <3>1, <3>2, <3>5
  <2>2. CASE ~(x < y /\ y <= m - b)
    BY <2>2, <1>1, <1>2, <1>3 DEF OccAt
  <2> QED
    BY <2>1, <2>2
<1>6. ASSUME NEW x \in Nat, NEW y \in Nat, OccAt(data, x, y)
      PROVE  SubSeq(data, x + 1, y) = SubSeq(more, b + x + 1, b + y)
  BY <1>3, <1>4, <1>6, OccAtTypes
<1>7. \A x, y \in Nat : OccAt(more, x, y) /\ x < b => y <= b
  BY DEF Clean
<1>8. Alike(data, more, b, i)
  BY <1>5, <1>6, <1>7 DEF Alike
<1> QED
  BY <1>1, <1>3, <1>8

-----------------------------------------------------------------------------
(***************************************************************************)
(* The pieces.                                                             *)
(***************************************************************************)

\* What a reader may see of the byte at offset i, if the first byte has offset from.
PieceAt(from, data, i) ==
  IF ~Secret(data, i) THEN << [at |-> from + i, label |-> 0] >>
  ELSE IF First(data, i) THEN << [at |-> from + i, label |-> LabelAt(data, i)] >> ELSE <<>>

\* A byte is secret exactly if it lies in a region, which begins at the first
\* of its bytes.
LEMMA RegionOfByte ==
  ASSUME NEW data \in Seq(Byte), NEW R, Regions(data, R), NEW x \in Nat
  PROVE  /\ \A m \in 1..Len(R) : R[m].start <= x /\ x < R[m].end =>
              Secret(data, x) /\ (First(data, x) <=> x = R[m].start)
         /\ Secret(data, x) => \E m \in 1..Len(R) : R[m].start <= x /\ x < R[m].end
<1>1. \A m \in 1..Len(R) : R[m].start \in Nat /\ R[m].end \in Nat
  <2>1. \A m \in 1..Len(R) : R[m] \in Span
    BY ElementOfSeq DEF Regions
  <2> QED
    BY <2>1 DEF Span
<1>2. ASSUME NEW m \in 1..Len(R), R[m].start <= x, x < R[m].end
      PROVE  Secret(data, x) /\ (First(data, x) <=> x = R[m].start)
  <2>1. CASE x = R[m].start
    <3>1. First(data, x)
      BY <2>1 DEF Regions
    <3>2. PICK o \in Occurrence(data) : o.start = x
      BY <3>1 DEF First
    <3>3. Secret(data, x)
      BY <3>2, OccurrenceType DEF Secret
    <3> QED
      BY <2>1, <3>1, <3>3
  <2>2. CASE x # R[m].start
    <3>1. R[m].start < x
      BY <1>1, <1>2, <2>2
    <3>2. PICK o \in Occurrence(data) : o.start < x /\ x < o.end
      BY <1>2, <3>1 DEF Regions
    <3>3. o.start <= x
      BY <3>2, OccurrenceType
    <3> QED
      BY <2>2, <3>2, <3>3 DEF Secret, First
  <2> QED
    BY <2>1, <2>2
<1>3. ASSUME Secret(data, x) PROVE \E m \in 1..Len(R) : R[m].start <= x /\ x < R[m].end
  <2>1. PICK o \in Occurrence(data) : o.start <= x /\ x < o.end
    BY <1>3 DEF Secret
  <2>2. PICK m \in 1..Len(R) : R[m].start <= o.start /\ o.end <= R[m].end
    BY DEF Regions
  <2>3. o.start \in Nat /\ o.end \in Nat
    BY OccurrenceType
  <2> QED
    BY <2>1, <2>2, <2>3, <1>1
<1> QED
  BY <1>2, <1>3

\* The byte at which a region begins has a label.
LEMMA FirstHasLabel ==
  ASSUME NEW data \in Seq(Byte), NEW x \in Nat, First(data, x)
  PROVE  LabelAt(data, x) \in Nat \ {0} /\ Secret(data, x)
<1>1. PICK R : R = Merged(data) /\ Regions(data, R)
  BY MergedIs
<1>2. PICK o \in Occurrence(data) : o.start = x
  BY DEF First
<1>3. Secret(data, x)
  BY <1>2, OccurrenceType DEF Secret
<1>4. PICK m \in 1..Len(R) : R[m].start <= x /\ x < R[m].end
  BY <1>1, <1>3, RegionOfByte
<1>5. x = R[m].start
  BY <1>1, <1>4, RegionOfByte
<1>6. R[m] \in Span /\ R[m].label # 0 /\ R[m].label = LabelAt(data, x)
  BY <1>1, <1>5, ElementOfSeq DEF Regions
<1> QED
  BY <1>3, <1>6 DEF Span

\* A byte is rendered as a reader may see it, if the regions around it are given.
LEMMA PieceIs ==
  ASSUME NEW data \in Seq(Byte), NEW R, Regions(data, R), NEW S, S \subseteq {R[m] : m \in 1..Len(R)},
         NEW i \in Nat, NEW x \in Nat, i = x + 1, NEW from \in Nat,
         \A m \in 1..Len(R) : R[m].start <= x /\ x < R[m].end => R[m] \in S
  PROVE  Piece(from, S, i) = PieceAt(from, data, x)
<1> DEFINE covers == {s \in S : s.start < i /\ i <= s.end}
           cover == CHOOSE s \in covers : TRUE
<1>1. \A m \in 1..Len(R) : R[m].start \in Nat /\ R[m].end \in Nat
  <2>1. \A m \in 1..Len(R) : R[m] \in Span
    BY ElementOfSeq DEF Regions
  <2> QED
    BY <2>1 DEF Span
<1>2. Piece(from, S, i) =
        IF covers = {} THEN << [at |-> from + i - 1, label |-> 0] >>
        ELSE IF cover.start = i - 1 THEN << [at |-> from + i - 1, label |-> cover.label] >>
        ELSE <<>>
  BY DEF Piece
<1>3. from + i - 1 = from + x /\ i - 1 = x
  OBVIOUS
<1>4. \A s \in covers : \E m \in 1..Len(R) : s = R[m] /\ R[m].start <= x /\ x < R[m].end
  <2> SUFFICES ASSUME NEW s \in S, s.start < i, i <= s.end
               PROVE  \E m \in 1..Len(R) : s = R[m] /\ R[m].start <= x /\ x < R[m].end
    OBVIOUS
  <2>1. PICK m \in 1..Len(R) : s = R[m]
    OBVIOUS
  <2> QED
    BY <2>1, <1>1
<1>5. CASE ~Secret(data, x)
  <2>1. covers = {}
    <3> HIDE DEF covers
    <3> QED
      BY <1>4, <1>5, RegionOfByte
  <2> HIDE DEF covers, cover
  <2> QED
    BY <1>2, <1>3, <1>5, <2>1 DEF PieceAt
<1>6. CASE Secret(data, x)
  <2>1. PICK m \in 1..Len(R) : R[m].start <= x /\ x < R[m].end
    BY <1>6, RegionOfByte
  <2>2. R[m] \in covers
    BY <2>1, <1>1
  <2>3. cover \in covers
    BY <2>2
  <2> HIDE DEF covers, cover
  <2>4. PICK k \in 1..Len(R) : cover = R[k] /\ R[k].start <= x /\ x < R[k].end
    BY <2>3, <1>4
  <2>5. First(data, x) <=> cover.start = x
    BY <2>4, RegionOfByte
  <2>6. cover.start = x => cover.label = LabelAt(data, x)
    BY <2>4 DEF Regions
  <2>7. CASE cover.start = x
    <3>1. Piece(from, S, i) = << [at |-> from + x, label |-> LabelAt(data, x)] >>
      BY <1>2, <1>3, <2>2, <2>6, <2>7
    <3> QED
      BY <3>1, <1>6, <2>5, <2>7 DEF PieceAt
  <2>8. CASE cover.start # x
    <3>1. Piece(from, S, i) = <<>>
      BY <1>2, <1>3, <2>2, <2>8
    <3> QED
      BY <3>1, <1>6, <2>5, <2>8 DEF PieceAt
  <2> QED
    BY <2>7, <2>8
<1> QED
  BY <1>5, <1>6

-----------------------------------------------------------------------------
(***************************************************************************)
(* A sequence of sequences as one.                                         *)
(***************************************************************************)
Joins(n, s, h) == h[0] = <<>> /\ \A i \in 1..n : h[i] = h[i - 1] \o s[i]

\* The concatenations of the beginnings of a sequence of sequences.
LEMMA JoinExists ==
  ASSUME NEW X, NEW n \in Nat, NEW s \in [1..n -> Seq(X)]
  PROVE  \E h \in [0..n -> Seq(X)] : Joins(n, s, h)
<1> DEFINE A == Seq(X)
           G == [i \in 1..n |-> [r \in A |-> r \o s[i]]]
           k == n
<1>1. G \in [1..k -> [A -> A]]
  BY ConcatProperties
<1>2. k \in Nat /\ <<>> \in A
  OBVIOUS
<1>3. \E h \in [0..k -> A] : Iterates(k, <<>>, G, h)
  <2> HIDE DEF k, A, G
  <2> QED
    BY <1>1, <1>2, Iteration, SMT
<1>4. PICK h \in [0..n -> A] : Iterates(n, <<>>, G, h)
  BY <1>3
<1>5. \A i \in 1..n : G[i][h[i - 1]] = h[i - 1] \o s[i]
  <2> SUFFICES ASSUME NEW i \in 1..n PROVE G[i][h[i - 1]] = h[i - 1] \o s[i]
    OBVIOUS
  <2>1. i - 1 \in 0..n
    OBVIOUS
  <2>2. h[i - 1] \in A
    BY <2>1
  <2> HIDE DEF A
  <2> QED
    BY <2>2
<1> HIDE DEF G
<1>6. h[0] = <<>> /\ \A i \in 1..n : h[i] = G[i][h[i - 1]]
  BY <1>4 DEF Iterates
<1>7. \A i \in 1..n : h[i] = h[i - 1] \o s[i]
  BY <1>5, <1>6, Zenon
<1>8. Joins(n, s, h)
  BY <1>6, <1>7, Zenon DEF Joins
<1> QED
  BY <1>4, <1>8, Zenon

\* FlattenSeq is the last of these concatenations.
LEMMA FlattenIs ==
  ASSUME NEW X, NEW n \in Nat, NEW s \in [1..n -> Seq(X)], NEW h \in [0..n -> Seq(X)], Joins(n, s, h)
  PROVE  FlattenSeq(s) = h[n]
<1>1. s \in Seq(Seq(X)) /\ Len(s) = n
  OBVIOUS
<1>2. CASE n = 0
  <2>1. FlattenSeq(s) = s
    BY <1>1, <1>2 DEF FlattenSeq
  <2>2. s = <<>>
    BY <1>1, <1>2, EmptySeq
  <2> QED
    BY <1>2, <2>1, <2>2 DEF Joins
<1>3. CASE n # 0
  <2> DEFINE Eq(q) == q = [i \in 1..n |-> IF i = 1 THEN s[i] ELSE q[i - 1] \o s[i]]
             flat == CHOOSE q : Eq(q)
             v(i) == IF i = 1 THEN s[i] ELSE h[i - 1] \o s[i]
             f == [i \in 1..n |-> h[i]]
  <2>1. FlattenSeq(s) = flat[n]
    BY <1>1, <1>3 DEF FlattenSeq
  <2>2. \A i \in 1..n : h[i] = v(i)
    <3> SUFFICES ASSUME NEW i \in 1..n PROVE h[i] = v(i)
      OBVIOUS
    <3>1. CASE i = 1
      <4>0. 1 \in 1..n /\ s[1] \in Seq(X) /\ 1 - 1 = 0
        BY <3>1
      <4>1. h[1] = h[0] \o s[1] /\ h[0] = <<>>
        BY <4>0, Zenon DEF Joins
      <4>2. <<>> \o s[1] = s[1]
        BY <4>1, ConcatEmptySeq
      <4>3. h[1] = s[1]
        BY <4>1, <4>2, Zenon
      <4> QED
        BY <3>1, <4>3
    <3>2. CASE i # 1
      <4>1. h[i] = h[i - 1] \o s[i]
        BY Zenon DEF Joins
      <4> QED
        BY <3>2, <4>1, Zenon
    <3> QED
      BY <3>1, <3>2
  <2>3. Eq(f)
    <3> DEFINE w(i) == IF i = 1 THEN s[i] ELSE f[i - 1] \o s[i]
    <3>1. \A i \in 1..n : i # 1 => f[i - 1] = h[i - 1]
      OBVIOUS
    <3>2. \A i \in 1..n : f[i] = w(i)
      BY <2>2, <3>1
    <3> HIDE DEF w, f
    <3>3. f = [i \in 1..n |-> f[i]]
      BY DEF f
    <3>4. f = [i \in 1..n |-> w(i)]
      BY <3>2, <3>3
    <3> QED
      BY <3>4 DEF w
  <2>4. Eq(flat)
    <3> HIDE DEF Eq, f
    <3> QED
      BY <2>3
  <2> HIDE DEF flat, f
  <2>5. \A i \in 1..n : flat[i] = IF i = 1 THEN s[i] ELSE flat[i - 1] \o s[i]
    <3> DEFINE w(i) == IF i = 1 THEN s[i] ELSE flat[i - 1] \o s[i]
    <3>1. flat = [i \in 1..n |-> w(i)]
      BY <2>4
    <3> HIDE DEF w, Eq
    <3>2. \A i \in 1..n : flat[i] = w(i)
      BY <3>1
    <3> QED
      BY <3>2 DEF w
  <2> HIDE DEF Eq
  <2> DEFINE T == {i \in Nat : i \in 1..n => flat[i] = h[i]}
  <2>6. ASSUME NEW i \in Nat, \A j \in 0..(i - 1) : j \in T
        PROVE  i \in T
    <3> SUFFICES ASSUME i \in 1..n PROVE flat[i] = h[i]
      OBVIOUS
    <3>1. CASE i = 1
      BY <3>1, <2>2, <2>5
    <3>2. CASE i # 1
      <4>1. i - 1 \in 0..(i - 1) /\ i - 1 \in 1..n /\ i - 1 \in Nat
        BY <3>2
      <4>2. i - 1 \in T
        BY <2>6, <4>1
      <4>3. flat[i - 1] = h[i - 1]
        BY <4>1, <4>2
      <4> HIDE DEF T
      <4>4. h[i] = h[i - 1] \o s[i] /\ flat[i] = flat[i - 1] \o s[i]
        BY <3>2, <2>2, <2>5, Zenon
      <4> QED
        BY <4>3, <4>4, Zenon
    <3> QED
      BY <3>1, <3>2
  <2>7. \A i \in Nat : i \in T
    <3> HIDE DEF T
    <3> QED
      BY <2>6, Induction
  <2>8. n \in 1..n
    BY <1>3
  <2>9. flat[n] = h[n]
    BY <2>7, <2>8
  <2> QED
    BY <2>1, <2>9
<1> QED
  BY <1>2, <1>3

\* FlattenSeq of sequences over X is one over X.
LEMMA FlattenType ==
  ASSUME NEW X, NEW n \in Nat, NEW s \in [1..n -> Seq(X)]
  PROVE  FlattenSeq(s) \in Seq(X)
<1>1. PICK h \in [0..n -> Seq(X)] : Joins(n, s, h)
  BY JoinExists
<1>2. FlattenSeq(s) = h[n]
  BY <1>1, FlattenIs
<1> QED
  BY <1>2

\* Concatenation is associative.
LEMMA ConcatIsAssociative ==
  ASSUME NEW X
  PROVE  \A a, b, c \in Seq(X) : (a \o b) \o c = a \o (b \o c)
BY ConcatAssociative

\* The concatenations up to FlattenSeq, for use by name.
LEMMA FlattenExists ==
  ASSUME NEW X, NEW n \in Nat, NEW s \in [1..n -> Seq(X)]
  PROVE  \E h \in [0..n -> Seq(X)] : Joins(n, s, h) /\ FlattenSeq(s) = h[n]
<1>1. PICK h \in [0..n -> Seq(X)] : Joins(n, s, h)
  BY JoinExists
<1>2. FlattenSeq(s) = h[n]
  BY <1>1, FlattenIs
<1> QED
  BY <1>1, <1>2

\* s consists of t and u.
Halves(X, n, k, s, t, u) ==
  /\ n \in Nat /\ k \in Nat
  /\ s \in [1..(n + k) -> Seq(X)] /\ t \in [1..n -> Seq(X)] /\ u \in [1..k -> Seq(X)]
  /\ \A i \in 1..n : t[i] = s[i]
  /\ \A i \in 1..k : u[i] = s[n + i]

\* FlattenSeq of two halves is the concatenation of their FlattenSeqs.
LEMMA FlattenConcat ==
  ASSUME NEW X, NEW n, NEW k, NEW s, NEW t, NEW u, Halves(X, n, k, s, t, u)
  PROVE  FlattenSeq(s) = FlattenSeq(t) \o FlattenSeq(u)
<1> SUFFICES ASSUME n \in Nat, k \in Nat,
                    s \in [1..(n + k) -> Seq(X)], t \in [1..n -> Seq(X)], u \in [1..k -> Seq(X)],
                    \A i \in 1..n : t[i] = s[i],
                    \A i \in 1..k : u[i] = s[n + i]
             PROVE  FlattenSeq(s) = FlattenSeq(t) \o FlattenSeq(u)
  BY Zenon DEF Halves
<1>0. \A a, b, c \in Seq(X) : (a \o b) \o c = a \o (b \o c)
  BY ConcatIsAssociative
<1>1. n + k \in Nat /\ t \in [1..n -> Seq(X)] /\ u \in [1..k -> Seq(X)]
  OBVIOUS
<1>2. PICK h \in [0..(n + k) -> Seq(X)] : Joins(n + k, s, h)
  BY <1>1, JoinExists
<1>3. PICK g \in [0..k -> Seq(X)] : Joins(k, u, g)
  BY <1>1, JoinExists
<1>4. FlattenSeq(s) = h[n + k]
  BY <1>1, <1>2, FlattenIs
<1>5. FlattenSeq(u) = g[k]
  BY <1>1, <1>3, FlattenIs
<1>6. FlattenSeq(t) = h[n]
  <2> DEFINE f == [i \in 0..n |-> h[i]]
  <2>1. f \in [0..n -> Seq(X)]
    OBVIOUS
  <2>2. f[0] = <<>>
    <3>1. h[0] = <<>>
      BY <1>2, Zenon DEF Joins
    <3> QED
      BY <3>1
  <2>3. ASSUME NEW i \in 1..n PROVE f[i] = f[i - 1] \o t[i]
    <3>0. i \in 1..(n + k)
      OBVIOUS
    <3>1. h[i] = h[i - 1] \o s[i]
      BY <3>0, <1>2, Zenon DEF Joins
    <3>2. f[i] = h[i] /\ f[i - 1] = h[i - 1] /\ t[i] = s[i]
      OBVIOUS
    <3> HIDE DEF f
    <3> QED
      BY <3>1, <3>2, Zenon
  <2>4. f[n] = h[n]
    OBVIOUS
  <2> HIDE DEF f
  <2>5. Joins(n, t, f)
    BY <2>2, <2>3, Zenon DEF Joins
  <2> QED
    BY <2>1, <2>4, <2>5, <1>1, FlattenIs
<1>7. h[n] \in Seq(X)
  OBVIOUS
<1>8. \A i \in 1..k : h[n + i] = h[n + (i - 1)] \o u[i]
  <2> SUFFICES ASSUME NEW i \in 1..k PROVE h[n + i] = h[n + (i - 1)] \o u[i]
    OBVIOUS
  <2>1. PICK q : q = n + i
    OBVIOUS
  <2>2. q \in 1..(n + k) /\ q - 1 = n + (i - 1) /\ u[i] = s[q]
    BY <2>1
  <2>3. h[q] = h[q - 1] \o s[q]
    BY <2>2, <1>2, Zenon DEF Joins
  <2> QED
    BY <2>1, <2>2, <2>3, Zenon
<1>9. \A i \in 1..k : g[i] = g[i - 1] \o u[i]
  BY <1>3, Zenon DEF Joins
<1> DEFINE P(j) == h[n + j] = h[n] \o g[j]
           T == {j \in Nat : j <= k => P(j)}
<1>10. P(0)
  <2>1. g[0] = <<>>
    BY <1>3, Zenon DEF Joins
  <2>2. n + 0 = n
    OBVIOUS
  <2>3. h[n] \o <<>> = h[n]
    BY <1>7, ConcatEmptySeq
  <2> QED
    BY <2>1, <2>2, <2>3, Zenon
<1>11. ASSUME NEW i \in 1..k, P(i - 1) PROVE P(i)
  <2>1. g[i - 1] \in Seq(X) /\ u[i] \in Seq(X)
    BY <1>1
  <2>2. (h[n] \o g[i - 1]) \o u[i] = h[n] \o (g[i - 1] \o u[i])
    BY <2>1, <1>7, <1>0, Zenon
  <2>3. h[n + i] = (h[n] \o g[i - 1]) \o u[i]
    BY <1>8, <1>11, Zenon
  <2> QED
    BY <1>9, <2>2, <2>3, Zenon
<1> HIDE DEF P
<1>12. ASSUME NEW j \in Nat, \A i \in 0..(j - 1) : i \in T
       PROVE  j \in T
  <2> SUFFICES ASSUME j <= k PROVE P(j)
    OBVIOUS
  <2>1. CASE j = 0
    BY <2>1, <1>10
  <2>2. CASE j # 0
    <3>1. j - 1 \in 0..(j - 1) /\ j \in 1..k /\ j - 1 <= k
      BY <2>2
    <3>2. P(j - 1)
      BY <1>12, <3>1
    <3> QED
      BY <1>11, <3>1, <3>2
  <2> QED
    BY <2>1, <2>2
<1>13. \A j \in Nat : j \in T
  <2> HIDE DEF T
  <2> QED
    BY <1>12, Induction
<1>14. P(k)
  BY <1>13
<1>15. h[n + k] = h[n] \o g[k]
  BY <1>14, Zenon DEF P
<1> QED
  BY <1>4, <1>5, <1>6, <1>15, Zenon

-----------------------------------------------------------------------------
(***************************************************************************)
(* What Write and Close pass on.                                           *)
(***************************************************************************)

\* The pieces that may be shown when the first b bytes of data have been passed on.
Harmless(data, b) ==
  {p \in [at : Nat, label : Nat] : p.label = 0 => p.at < b /\ ~Secret(data, p.at)}

Part(from, data, k) == FlattenSeq([i \in 1..k |-> PieceAt(from, data, i - 1)])
Whole(data, b) == Part(0, data, b)

\* What is shown of a byte is a label, or the byte itself if it is not secret.
LEMMA PieceAtType ==
  ASSUME NEW data \in Seq(Byte), NEW x \in Nat, NEW from \in Nat,
         NEW H, \A p \in [at : Nat, label : Nat] :
                  p.label # 0 \/ (p.label = 0 /\ p.at = from + x /\ ~Secret(data, x)) => p \in H
  PROVE  PieceAt(from, data, x) \in Seq(H)
<1>1. from + x \in Nat
  OBVIOUS
<1>2. CASE ~Secret(data, x)
  <2> DEFINE p == [at |-> from + x, label |-> 0]
  <2>1. p \in [at : Nat, label : Nat] /\ p.label = 0 /\ p.at = from + x
    BY <1>1
  <2> HIDE DEF p
  <2>2. p \in H
    BY <2>1, <1>2
  <2>3. << p >> \in Seq(H)
    BY <2>2
  <2> QED
    BY <2>3, <1>2 DEF PieceAt, p
<1>3. CASE Secret(data, x) /\ First(data, x)
  <2> DEFINE p == [at |-> from + x, label |-> LabelAt(data, x)]
  <2>0. LabelAt(data, x) \in Nat /\ LabelAt(data, x) # 0
    BY <1>3, FirstHasLabel
  <2>1. p \in [at : Nat, label : Nat] /\ p.label # 0
    BY <1>1, <2>0
  <2> HIDE DEF p
  <2>2. p \in H
    BY <2>1
  <2>3. << p >> \in Seq(H)
    BY <2>2
  <2> QED
    BY <2>3, <1>3 DEF PieceAt, p
<1>4. CASE Secret(data, x) /\ ~First(data, x)
  <2>1. <<>> \in Seq(H)
    OBVIOUS
  <2> QED
    BY <2>1, <1>4 DEF PieceAt
<1> QED
  BY <1>2, <1>3, <1>4

\* What was harmless before a clean cut stays so as the stream goes on.
LEMMA HarmlessGrows ==
  ASSUME NEW data \in Seq(Byte), NEW more \in Seq(Byte), Prefix(data, more), NEW b, Clean(data, b),
         NEW c \in Nat, b <= c
  PROVE  Harmless(data, b) \subseteq Harmless(more, c)
<1> SUFFICES ASSUME NEW p \in [at : Nat, label : Nat], p.label = 0 => p.at < b /\ ~Secret(data, p.at)
             PROVE  p \in Harmless(more, c)
  BY DEF Harmless
<1>1. CASE p.label # 0
  BY <1>1 DEF Harmless
<1>2. CASE p.label = 0
  <2>1. PICK i \in Nat : i = p.at
    OBVIOUS
  <2>2. i < b /\ ~Secret(data, i)
    BY <1>2, <2>1
  <2>3. Alike(data, more, 0, i)
    BY <2>2, PrefixAlike
  <2>4. Secret(data, i) <=> Secret(more, 0 + i)
    BY <2>3, AlikeAgree
  <2>5. 0 + i = i /\ b \in Nat
    BY DEF Clean
  <2>6. i < c
    BY <2>2, <2>5
  <2> QED
    BY <2>1, <2>2, <2>4, <2>5, <2>6 DEF Harmless
<1> QED
  BY <1>1, <1>2

\* The rendering up to a clean cut does not change as the stream goes on.
LEMMA WholeStays ==
  ASSUME NEW data \in Seq(Byte), NEW more \in Seq(Byte), Prefix(data, more), NEW b, Clean(data, b)
  PROVE  Whole(more, b) = Whole(data, b)
<1>1. b \in Nat
  BY DEF Clean
<1>2. ASSUME NEW i \in 1..b PROVE PieceAt(0, more, i - 1) = PieceAt(0, data, i - 1)
  <2>1. PICK x \in Nat : x = i - 1
    BY <1>1
  <2>2. x < b
    BY <1>1, <2>1
  <2>3. Alike(data, more, 0, x)
    BY <2>2, PrefixAlike
  <2>4. 0 + x = x
    OBVIOUS
  <2>5. /\ Secret(data, x) <=> Secret(more, x)
        /\ First(data, x) <=> First(more, x)
        /\ First(data, x) => LabelAt(data, x) = LabelAt(more, x)
    BY <2>3, <2>4, AlikeAgree
  <2>6. PieceAt(0, more, x) = PieceAt(0, data, x)
    BY <2>5 DEF PieceAt
  <2> QED
    BY <2>1, <2>6
<1>3. [i \in 1..b |-> PieceAt(0, more, i - 1)] = [i \in 1..b |-> PieceAt(0, data, i - 1)]
  BY <1>2
<1> QED
  BY <1>3 DEF Whole, Part

\* A byte behind a clean cut is rendered from the buffer as from the stream.
LEMMA PartOfStream ==
  ASSUME NEW more \in Seq(Byte), NEW b, Clean(more, b), NEW data, data = SubSeq(more, b + 1, Len(more)),
         NEW i \in Nat
  PROVE  PieceAt(b, data, i) = PieceAt(0, more, b + i)
<1>1. data \in Seq(Byte) /\ Alike(data, more, b, i)
  BY SuffixAlike
<1>2. b \in Nat
  BY DEF Clean
<1>3. /\ Secret(data, i) <=> Secret(more, b + i)
      /\ First(data, i) <=> First(more, b + i)
      /\ First(data, i) => LabelAt(data, i) = LabelAt(more, b + i)
  BY <1>1, <1>2, AlikeAgree
<1>4. 0 + (b + i) = b + i
  BY <1>2
<1> HIDE DEF Secret, First, LabelAt
<1> QED
  BY <1>3, <1>4 DEF PieceAt

\* A further part of the stream that is rendered follows on what has been.
LEMMA PartsJoin ==
  ASSUME NEW more \in Seq(Byte), NEW b, Clean(more, b), NEW data, data = SubSeq(more, b + 1, Len(more)),
         NEW k \in Nat, NEW c, c = b + k
  PROVE  Whole(more, c) = Whole(more, b) \o Part(b, data, k)
<1>1. b \in Nat /\ c \in Nat /\ data \in Seq(Byte)
  BY SuffixAlike DEF Clean
<1> DEFINE X == [at : Nat, label : Nat]
           s == [i \in 1..c |-> PieceAt(0, more, i - 1)]
           t == [i \in 1..b |-> PieceAt(0, more, i - 1)]
           u == [i \in 1..k |-> PieceAt(b, data, i - 1)]
<1>2. ASSUME NEW i \in 1..c PROVE PieceAt(0, more, i - 1) \in Seq(X)
  <2>1. i - 1 \in Nat
    BY <1>1
  <2> HIDE DEF X
  <2>2. \A p \in [at : Nat, label : Nat] : p \in X
    BY DEF X
  <2> QED
    BY <2>1, <2>2, PieceAtType
<1>3. s \in [1..c -> Seq(X)]
  BY <1>2
<1>4. t \in [1..b -> Seq(X)] /\ \A i \in 1..b : t[i] = s[i]
  <2>1. \A i \in 1..b : i \in 1..c
    BY <1>1
  <2> QED
    BY <2>1, <1>2
<1>5. ASSUME NEW i \in 1..k, NEW q, q = b + i PROVE PieceAt(b, data, i - 1) = PieceAt(0, more, q - 1)
  <2>1. PICK x \in Nat : x = i - 1
    OBVIOUS
  <2>2. q - 1 = b + x
    BY <1>1, <1>5, <2>1
  <2>3. PieceAt(b, data, x) = PieceAt(0, more, b + x)
    BY PartOfStream
  <2> QED
    BY <2>1, <2>2, <2>3, Zenon
<1>6. u \in [1..k -> Seq(X)] /\ \A i \in 1..k : u[i] = s[b + i]
  <2>1. \A i \in 1..k : b + i \in 1..c
    BY <1>1
  <2>2. ASSUME NEW i \in 1..k PROVE PieceAt(b, data, i - 1) = s[b + i]
    <3>1. PICK q \in 1..c : q = b + i
      BY <2>1
    <3>2. s[q] = PieceAt(0, more, q - 1)
      OBVIOUS
    <3> HIDE DEF s, t, u, X
    <3> QED
      BY <1>5, <3>1, <3>2
  <2>3. \A i \in 1..k : s[b + i] \in Seq(X)
    BY <2>1, <1>3
  <2> QED
    BY <2>2, <2>3
<1>7. FlattenSeq(s) = FlattenSeq(t) \o FlattenSeq(u)
  <2> HIDE DEF X, s, t, u
  <2>1. QED
    <3>1. Halves(X, b, k, s, t, u)
      BY <1>1, <1>3, <1>4, <1>6 DEF Halves
    <3> QED
      BY <3>1, FlattenConcat
<1> QED
  BY <1>7, Zenon DEF Whole, Part

\* What is rendered of the bytes behind a clean cut is harmless.
LEMMA PartHarmless ==
  ASSUME NEW more \in Seq(Byte), NEW b, Clean(more, b), NEW data, data = SubSeq(more, b + 1, Len(more)),
         NEW k \in Nat, NEW c, c = b + k
  PROVE  Part(b, data, k) \in Seq(Harmless(more, c))
<1>1. b \in Nat /\ c \in Nat /\ data \in Seq(Byte)
  BY SuffixAlike DEF Clean
<1> DEFINE H == Harmless(more, c)
           u == [i \in 1..k |-> PieceAt(b, data, i - 1)]
<1>2. ASSUME NEW i \in 1..k PROVE PieceAt(b, data, i - 1) \in Seq(H)
  <2>1. PICK x \in Nat : x = i - 1
    OBVIOUS
  <2>2. x < k /\ b + x \in Nat /\ b + x < c
    BY <1>1, <2>1
  <2>3. Secret(data, x) <=> Secret(more, b + x)
    <3>1. Alike(data, more, b, x)
      BY SuffixAlike
    <3> QED
      BY <1>1, <3>1, AlikeAgree
  <2>4. ASSUME NEW p \in [at : Nat, label : Nat],
               p.label # 0 \/ (p.label = 0 /\ p.at = b + x /\ ~Secret(data, x))
        PROVE  p \in H
    BY <2>2, <2>3, <2>4 DEF Harmless
  <2> HIDE DEF H
  <2>5. PieceAt(b, data, x) \in Seq(H)
    BY <1>1, <2>4, PieceAtType
  <2> QED
    BY <2>1, <2>5
<1>3. u \in [1..k -> Seq(H)]
  BY <1>2
<1> HIDE DEF u, H
<1>4. FlattenSeq(u) \in Seq(H)
  BY <1>3, FlattenType
<1> QED
  BY <1>4 DEF Part, u, H

\* The rendering of all of the stream is the reference, Redacted.
LEMMA WholeOfAll ==
  ASSUME NEW data \in Seq(Byte)
  PROVE  Whole(data, Len(data)) = Redacted(data)
<1> DEFINE v(n) == LET i == n - 1
                   IN IF ~Secret(data, i) THEN << [at |-> i, label |-> 0] >>
                      ELSE IF First(data, i) THEN << [at |-> i, label |-> LabelAt(data, i)] >> ELSE <<>>
<1>1. DOMAIN data = 1..Len(data)
  OBVIOUS
<1>2. \A n \in 1..Len(data) : PieceAt(0, data, n - 1) = v(n)
  <2> SUFFICES ASSUME NEW n \in 1..Len(data) PROVE PieceAt(0, data, n - 1) = v(n)
    OBVIOUS
  <2>1. 0 + (n - 1) = n - 1
    OBVIOUS
  <2> QED
    BY <2>1, Zenon DEF PieceAt
<1>3. Redacted(data) = FlattenSeq([n \in 1..Len(data) |-> v(n)])
  BY <1>1 DEF Redacted
<1> HIDE DEF v
<1>4. [n \in 1..Len(data) |-> v(n)] = [n \in 1..Len(data) |-> PieceAt(0, data, n - 1)]
  BY <1>2
<1> QED
  BY <1>3, <1>4 DEF Whole, Part

\* No region reaches over what is passed on.
LEMMA RegionsEnd ==
  ASSUME NEW data \in Seq(Byte), NEW R, R = Merged(data), NEW end, end = EmitEnd(data)
  PROVE  /\ end \in 0..Len(data)
         /\ \A m \in 1..Len(R) : R[m].start \in Nat /\ R[m].end \in Nat /\ R[m].end <= Len(data)
         /\ \A m \in 1..Len(R) : R[m].start < end => R[m].end <= end
<1>0. Regions(data, R)
  BY MergedIs
<1>1. PICK L \in Nat : L = Len(R)
  BY <1>0 DEF Regions
<1>2. PICK e : e = Len(data) - Hold(data)
  OBVIOUS
<1>3. PICK n \in Nat : n = Len(data)
  OBVIOUS
<1>4. /\ end \in 0..n /\ e \in 0..n
      /\ \/ end = e /\ \A m \in 1..L : ~Reaches(R, m, e)
         \/ \E m \in 1..L : Reaches(R, m, e) /\ end = R[m].start
  BY <1>1, <1>2, <1>3, EmitEndIs
<1>5. \A m \in 1..L : R[m].start \in Nat /\ R[m].end \in Nat /\ R[m].start < R[m].end /\ R[m].end <= n
  <2>1. \A m \in 1..L : R[m] \in Span
    BY <1>0, <1>1, ElementOfSeq DEF Regions
  <2>2. \A m \in 1..L : R[m].start < R[m].end /\ R[m].end <= n
    BY <1>0, <1>1, <1>3 DEF Regions
  <2> QED
    BY <2>1, <2>2 DEF Span
<1>6. ASSUME NEW m \in 1..L, R[m].start < end PROVE R[m].end <= end
  <2>1. CASE end = e /\ ~Reaches(R, m, e)
    BY <2>1, <1>4, <1>5, <1>6 DEF Reaches
  <2>2. CASE \E k \in 1..L : Reaches(R, k, e) /\ end = R[k].start
    <3>1. PICK k \in 1..L : end = R[k].start
      BY <2>2
    <3>2. \/ m = k \/ m < k \/ k < m
      OBVIOUS
    <3>3. m < k => R[m].end <= R[k].start
      BY <1>0, <1>1 DEF Regions, Apart
    <3>4. k < m => R[k].end <= R[m].start
      BY <1>0, <1>1 DEF Regions, Apart
    <3>5. R[k].start \in Nat /\ R[k].end \in Nat /\ R[k].start < R[k].end /\ R[m].start \in Nat
      BY <1>5
    <3> QED
      BY <1>6, <3>1, <3>2, <3>3, <3>4, <3>5
  <2> QED
    BY <1>4, <2>1, <2>2
<1> QED
  BY <1>1, <1>3, <1>4, <1>5, <1>6

\* What Write passes on is the rendering of the buffer up to EmitEnd.
LEMMA EmissionIs ==
  ASSUME NEW data \in Seq(Byte), NEW from \in Nat
  PROVE  Emission(from, data) = Part(from, data, EmitEnd(data))
<1>1. PICK R : R = Merged(data)
  OBVIOUS
<1>2. PICK end : end = EmitEnd(data)
  OBVIOUS
<1>3. /\ end \in 0..Len(data)
      /\ \A m \in 1..Len(R) : R[m].start \in Nat /\ R[m].end \in Nat /\ R[m].end <= Len(data)
      /\ \A m \in 1..Len(R) : R[m].start < end => R[m].end <= end
  BY <1>1, <1>2, RegionsEnd
<1>4. Regions(data, R)
  BY <1>1, MergedIs
<1>5. ToSet(R) = {R[m] : m \in 1..Len(R)}
  BY <1>4 DEF ToSet, Regions
<1>6. PICK S : S = {s \in {R[m] : m \in 1..Len(R)} : s.end <= end}
  OBVIOUS
<1>7. S = {s \in ToSet(R) : s.end <= end}
  BY <1>5, <1>6
<1>8. PICK d : d = SubSeq(data, 1, end)
  OBVIOUS
<1>9. DOMAIN d = 1..end
  <2>1. 0 \in 0..Len(data) /\ end \in 0..Len(data)
    BY <1>3
  <2>2. SubSeq(data, 0 + 1, end) \in Seq(Byte) /\ Len(SubSeq(data, 0 + 1, end)) = end - 0
    BY <2>1, PartIs
  <2>3. d \in Seq(Byte) /\ Len(d) = end
    BY <1>3, <1>8, <2>2
  <2> QED
    BY <2>3
<1>10. Emission(from, data) = FlattenSeq([i \in DOMAIN d |-> Piece(from, S, i)])
  BY <1>1, <1>2, <1>7, <1>8 DEF Emission, Render
<1>11. S \subseteq {R[m] : m \in 1..Len(R)}
  BY <1>6
<1>12. ASSUME NEW i \in 1..end PROVE Piece(from, S, i) = PieceAt(from, data, i - 1)
  <2>1. PICK x \in Nat : i = x + 1
    <3>1. i - 1 \in Nat /\ i = (i - 1) + 1
      BY <1>3
    <3> QED
      BY <3>1
  <2>2. x < end /\ i - 1 = x /\ i \in Nat
    BY <1>3, <2>1
  <2>3. ASSUME NEW m \in 1..Len(R), R[m].start <= x, x < R[m].end PROVE R[m] \in S
    <3>1. R[m].end <= end
      BY <1>3, <2>2, <2>3
    <3> QED
      BY <3>1, <1>6
  <2>4. Piece(from, S, i) = PieceAt(from, data, x)
    BY <1>4, <1>11, <2>1, <2>2, <2>3, PieceIs
  <2> QED
    BY <2>2, <2>4
<1>13. [i \in DOMAIN d |-> Piece(from, S, i)] = [i \in 1..end |-> PieceAt(from, data, i - 1)]
  BY <1>9, <1>12
<1> QED
  BY <1>2, <1>10, <1>13 DEF Part

\* What Close passes on is the rendering of all of the buffer.
LEMMA RestIs ==
  ASSUME NEW data \in Seq(Byte), NEW from \in Nat
  PROVE  Rest(from, data) = Part(from, data, Len(data))
<1>1. PICK R : R = Merged(data)
  OBVIOUS
<1>2. PICK end \in Nat : end = Len(data)
  OBVIOUS
<1>4. Regions(data, R)
  BY <1>1, MergedIs
<1>5. ToSet(R) = {R[m] : m \in 1..Len(R)}
  BY <1>4 DEF ToSet, Regions
<1>6. PICK S : S = {R[m] : m \in 1..Len(R)}
  OBVIOUS
<1>9. DOMAIN data = 1..end
  BY <1>2
<1>10. Rest(from, data) = FlattenSeq([i \in DOMAIN data |-> Piece(from, S, i)])
  BY <1>1, <1>5, <1>6 DEF Rest, Render
<1>12. ASSUME NEW i \in 1..end PROVE Piece(from, S, i) = PieceAt(from, data, i - 1)
  <2>1. PICK x \in Nat : i = x + 1
    <3>1. i - 1 \in Nat /\ i = (i - 1) + 1
      OBVIOUS
    <3> QED
      BY <3>1
  <2>2. i - 1 = x /\ i \in Nat
    BY <2>1
  <2>3. S \subseteq {R[m] : m \in 1..Len(R)} /\ \A m \in 1..Len(R) : R[m] \in S
    BY <1>6
  <2>4. Piece(from, S, i) = PieceAt(from, data, x)
    <3>1. \A m \in 1..Len(R) : R[m].start <= x /\ x < R[m].end => R[m] \in S
      BY <2>3
    <3> QED
      BY <1>4, <2>1, <2>2, <2>3, <3>1, PieceIs, SMTT(60)
  <2> QED
    BY <2>2, <2>4
<1>13. [i \in DOMAIN data |-> Piece(from, S, i)] = [i \in 1..end |-> PieceAt(from, data, i - 1)]
  BY <1>9, <1>12
<1> QED
  BY <1>2, <1>10, <1>13 DEF Part

\* A Write continues the rendering of the stream where the last one cut it.
LEMMA EmissionJoins ==
  ASSUME NEW more \in Seq(Byte), NEW b, Clean(more, b), NEW data, data = SubSeq(more, b + 1, Len(more)),
         NEW c, c = b + EmitEnd(data)
  PROVE  /\ c \in b..Len(more)
         /\ Whole(more, c) = Whole(more, b) \o Emission(b, data)
         /\ Emission(b, data) \in Seq(Harmless(more, c))
<1>1. b \in Nat /\ data \in Seq(Byte) /\ Len(data) = Len(more) - b
  BY SuffixAlike DEF Clean
<1>2. PICK k : k = EmitEnd(data)
  OBVIOUS
<1>3. k \in 0..Len(data) /\ k \in Nat
  <2>1. PICK R : R = Merged(data)
    OBVIOUS
  <2>2. k \in 0..Len(data)
    BY <1>1, <1>2, <2>1, RegionsEnd
  <2> QED
    BY <1>1, <2>2
<1>4. Emission(b, data) = Part(b, data, k)
  BY <1>1, <1>2, EmissionIs
<1>5. c = b + k
  BY <1>2
<1>6. c \in b..Len(more)
  BY <1>1, <1>3, <1>5
<1>7. Whole(more, c) = Whole(more, b) \o Part(b, data, k)
  <2>1. \A d : d = b + k => Whole(more, d) = Whole(more, b) \o Part(b, data, k)
    BY <1>3, PartsJoin, Zenon
  <2> QED
    BY <2>1, <1>5, Zenon
<1>8. Part(b, data, k) \in Seq(Harmless(more, c))
  BY <1>1, <1>3, <1>5, PartHarmless, Zenon
<1> QED
  BY <1>4, <1>6, <1>7, <1>8, Zenon

\* Close completes the rendering of the stream.
LEMMA RestJoins ==
  ASSUME NEW more \in Seq(Byte), NEW b, Clean(more, b), NEW data, data = SubSeq(more, b + 1, Len(more))
  PROVE  /\ Redacted(more) = Whole(more, b) \o Rest(b, data)
         /\ Rest(b, data) \in Seq(Harmless(more, Len(more)))
<1>1. b \in Nat /\ data \in Seq(Byte) /\ Len(data) = Len(more) - b
  BY SuffixAlike DEF Clean
<1>2. PICK k : k = Len(data)
  OBVIOUS
<1>3. k \in Nat
  BY <1>1, <1>2
<1>4. Rest(b, data) = Part(b, data, k)
  BY <1>1, <1>2, RestIs
<1>5. Len(more) = b + k
  BY <1>1, <1>2
<1>7. Whole(more, Len(more)) = Whole(more, b) \o Part(b, data, k)
  <2>1. \A d : d = b + k => Whole(more, d) = Whole(more, b) \o Part(b, data, k)
    BY <1>3, PartsJoin, Zenon
  <2> QED
    BY <2>1, <1>5, Zenon
<1>8. Part(b, data, k) \in Seq(Harmless(more, Len(more)))
  BY <1>1, <1>3, <1>5, PartHarmless, Zenon
<1>9. Whole(more, Len(more)) = Redacted(more)
  BY WholeOfAll
<1> QED
  BY <1>4, <1>7, <1>8, <1>9, Zenon

\* The end of what is passed on is at most the beginning of what is held back.
LEMMA EmitEndHolds ==
  ASSUME NEW data \in Seq(Byte), NEW k, k = EmitEnd(data), NEW e, e = Len(data) - Hold(data)
  PROVE  /\ k \in 0..Len(data) /\ e \in 0..Len(data) /\ k <= e
         /\ \A x, y \in Nat : OccAt(data, x, y) /\ x < k => y <= k
         /\ k < e => First(data, k) /\ \A i \in (k + 1)..e : Secret(data, i) /\ ~First(data, i)
<1>1. PICK R : R = Merged(data)
  OBVIOUS
<1>2. PICK L \in Nat : L = Len(R)
  BY <1>1, MergedIs DEF Regions
<1>3. PICK n \in Nat : n = Len(data)
  OBVIOUS
<1>4. /\ k \in 0..n /\ e \in 0..n
      /\ \/ k = e /\ \A m \in 1..L : ~Reaches(R, m, e)
         \/ \E m \in 1..L : Reaches(R, m, e) /\ k = R[m].start
  BY <1>1, <1>2, <1>3, EmitEndIs
<1>5. /\ \A m \in 1..L : R[m].start \in Nat /\ R[m].end \in Nat /\ R[m].end <= n
      /\ \A m \in 1..L : R[m].start < k => R[m].end <= k
  BY <1>1, <1>2, <1>3, RegionsEnd
<1>6. Regions(data, R)
  BY <1>1, MergedIs
<1>7. k <= e
  BY <1>4, <1>5 DEF Reaches
<1>8. ASSUME NEW x \in Nat, NEW y \in Nat, OccAt(data, x, y), x < k PROVE y <= k
  <2>1. PICK o \in Occurrence(data) : o.start = x /\ o.end = y
    <3>1. [start |-> x, end |-> y] \in Occurrence(data)
      BY <1>8, OccAtIs
    <3> QED
      BY <3>1
  <2>2. PICK m \in 1..L : R[m].start <= x /\ y <= R[m].end
    BY <1>2, <1>6, <2>1 DEF Regions
  <2>3. R[m].start < k
    BY <1>4, <1>5, <1>8, <2>2
  <2> QED
    BY <1>4, <1>5, <2>2, <2>3
<1>9. ASSUME k < e PROVE First(data, k) /\ \A i \in (k + 1)..e : Secret(data, i) /\ ~First(data, i)
  <2>1. PICK m \in 1..L : Reaches(R, m, e) /\ k = R[m].start
    BY <1>4, <1>9
  <2>2. k \in Nat /\ R[m].start <= k /\ k < R[m].end
    BY <1>4, <1>5, <2>1 DEF Reaches
  <2>0. m \in 1..Len(R)
    BY <1>2
  <2>5. First(data, R[m].start)
    BY <1>6, <2>0 DEF Regions
  <2>3. First(data, k)
    BY <2>1, <2>5, Zenon
  <2>4. ASSUME NEW i \in (k + 1)..e PROVE Secret(data, i) /\ ~First(data, i)
    <3>1. i \in Nat /\ R[m].start <= i /\ i < R[m].end /\ i # R[m].start
      BY <1>4, <1>5, <2>1 DEF Reaches
    <3> QED
      BY <1>2, <1>6, <3>1, RegionOfByte
  <2> QED
    BY <2>3, <2>4
<1> QED
  BY <1>3, <1>4, <1>7, <1>8, <1>9

\* Write cuts the stream cleanly: no occurrence, whole or begun, is divided.
LEMMA CutIsClean ==
  ASSUME NEW more \in Seq(Byte), NEW b, Clean(more, b), NEW data, data = SubSeq(more, b + 1, Len(more)),
         NEW c, c = b + EmitEnd(data)
  PROVE  Clean(more, c)
<1>1. PICK m \in Nat : m = Len(more)
  OBVIOUS
<1>2. b \in Nat /\ b <= m /\ data \in Seq(Byte) /\ Len(data) = m - b
  BY <1>1, SuffixAlike DEF Clean
<1>3. PICK k : k = EmitEnd(data)
  OBVIOUS
<1>4. PICK e : e = Len(data) - Hold(data)
  OBVIOUS
<1>5. /\ k \in 0..(m - b) /\ e \in 0..(m - b) /\ k <= e
      /\ \A x, y \in Nat : OccAt(data, x, y) /\ x < k => y <= k
  BY <1>2, <1>3, <1>4, EmitEndHolds
<1>6. c = b + k /\ c \in 0..m /\ b <= c
  BY <1>2, <1>3, <1>5
<1>7. ASSUME NEW x \in Nat, NEW y \in Nat, OccAt(more, x, y), x < c PROVE y <= c
  <2>1. CASE x < b
    <3>1. y <= b
      BY <1>7, <2>1 DEF Clean
    <3> QED
      BY <1>2, <1>6, <3>1
  <2>2. CASE ~(x < b)
    <3>1. x < y
      BY <1>7, OccAtTypes
    <3>2. PICK u \in Nat : x = b + u
      <4>1. x - b \in Nat /\ x = b + (x - b)
        BY <1>2, <2>2
      <4> QED
        BY <4>1
    <3>3. PICK v \in Nat : y = b + v
      <4>1. y - b \in Nat /\ y = b + (y - b)
        BY <1>2, <2>2, <3>1
      <4> QED
        BY <4>1
    <3>4. Alike(data, more, b, u)
      BY SuffixAlike
    <3>5. OccAt(data, u, v)
      BY <1>7, <3>2, <3>3, <3>4 DEF Alike
    <3>6. u < k
      BY <1>2, <1>5, <1>6, <1>7, <3>2
    <3>7. v <= k
      BY <1>5, <3>5, <3>6
    <3> QED
      BY <1>2, <1>5, <1>6, <3>3, <3>7
  <2> QED
    BY <2>1, <2>2
<1>8. ASSUME NEW i \in 0..(m - 1), i < c PROVE SubSeq(more, i + 1, m) \notin Node
  <2>1. CASE i < b
    BY <1>1, <2>1 DEF Clean
  <2>2. CASE ~(i < b)
    <3>1. PICK x \in Nat : i = b + x
      <4>1. i - b \in Nat /\ i = b + (i - b)
        BY <1>2, <2>2
      <4> QED
        BY <4>1
    <3>2. PICK h \in Nat : h = m - b - x
      <4>1. m - b - x \in Nat
        BY <1>2, <3>1
      <4> QED
        BY <4>1
    <3>3. Hold(data) \in 0..(m - b) /\ e = m - b - Hold(data)
      BY <1>2, <1>4, HoldIs
    <3>4. h \in 0..Len(data) /\ ~(h <= Hold(data))
      BY <1>2, <1>5, <1>6, <1>8, <3>1, <3>2, <3>3
    <3>5. SubSeq(data, Len(data) - h + 1, Len(data)) \notin Node
      BY <1>2, <3>4, HoldIs
    <3>6. Len(data) - h + 1 = x + 1
      BY <1>2, <3>1, <3>2
    <3>7. PICK j \in Nat : j = m - b
      <4>1. m - b \in Nat
        BY <1>2
      <4> QED
        BY <4>1
    <3>8. SubSeq(data, x + 1, j) = SubSeq(more, b + x + 1, b + j)
      <4>1. x < j /\ j <= m - b
        BY <1>2, <3>1, <3>7
      <4> QED
        BY <1>1, <1>2, <3>7, <4>1, PartOfPart
    <3>9. b + x + 1 = i + 1 /\ b + j = m
      BY <1>2, <3>1, <3>7
    <3>10. SubSeq(data, x + 1, j) = SubSeq(more, i + 1, m)
      BY <3>8, <3>9
    <3> QED
      BY <1>2, <3>5, <3>6, <3>7, <3>10, Zenon
  <2> QED
    BY <2>1, <2>2
<1> QED
  BY <1>1, <1>6, <1>7, <1>8 DEF Clean

\* Beginning is the length of the longest end of data that may begin a value.
LEMMA BeginningIs ==
  ASSUME NEW data \in Seq(Byte), NEW n \in Nat, n = Len(data), NEW h \in 0..n,
         SubSeq(data, n - h + 1, n) \in Node,
         \A k \in 1..n : k > h => SubSeq(data, n - k + 1, n) \notin Node
  PROVE  Beginning(data) = h
<1> DEFINE B(k) == \E v \in Values : k <= Len(v) /\ SubSeq(v, 1, k) = SubSeq(data, n - k + 1, n)
           T == {k \in 0..n : k = 0 \/ B(k)}
<1>1. ASSUME NEW k \in 1..n
      PROVE  k \in T <=> SubSeq(data, n - k + 1, n) \in Node
  <2>1. PICK i \in Nat : i = n - k
    <3>1. n - k \in Nat
      OBVIOUS
    <3> QED
      BY <3>1
  <2>2. i \in 0..Len(data) /\ n \in i..Len(data)
    BY <2>1
  <2>3. SubSeq(data, i + 1, n) \in Seq(Byte) /\ Len(SubSeq(data, i + 1, n)) = n - i
    BY <2>2, PartIs
  <2> DEFINE s == SubSeq(data, n - k + 1, n)
  <2>4. s \in Seq(Byte) /\ Len(s) = k
    BY <2>1, <2>3
  <2> HIDE DEF s
  <2>5. s # <<>>
    BY <2>4, EmptySeq
  <2>6. ASSUME s \in Node PROVE \E v \in Values : k <= Len(v) /\ SubSeq(v, 1, k) = s
    <3>1. PICK v \in Values : \E m \in 1..Len(v) : s = SubSeq(v, 1, m)
      BY <2>5, <2>6, NodeIs
    <3>2. PICK m \in 1..Len(v) : s = SubSeq(v, 1, m)
      BY <3>1
    <3>3. v \in Seq(Byte)
      BY ValuesAreSequences
    <3>4. 0 \in 0..Len(v) /\ m \in 0..Len(v)
      BY <3>3
    <3>5. Len(SubSeq(v, 0 + 1, m)) = m - 0
      BY <3>3, <3>4, PartIs
    <3>6. 0 + 1 = 1
      OBVIOUS
    <3>7. Len(s) = m - 0
      BY <3>2, <3>5, <3>6
    <3>8. m = k /\ k <= Len(v)
      BY <2>4, <3>3, <3>7
    <3>9. SubSeq(v, 1, k) = s
      BY <3>2, <3>8, Zenon
    <3> QED
      BY <3>8, <3>9, Zenon
  <2>7. ASSUME NEW v \in Values, k <= Len(v), SubSeq(v, 1, k) = s PROVE s \in Node
    <3>1. v \in Seq(Byte)
      BY ValuesAreSequences
    <3>2. k \in 1..Len(v)
      BY <2>7, <3>1
    <3> QED
      BY <2>7, <3>2, NodeIs
  <2>8. B(k) <=> \E v \in Values : k <= Len(v) /\ SubSeq(v, 1, k) = s
    BY Zenon DEF s
  <2> HIDE DEF B
  <2>9. k \in T <=> B(k)
    OBVIOUS
  <2> HIDE DEF T
  <2> QED
    BY <2>6, <2>7, <2>8, <2>9 DEF s
<1>2. T \subseteq 0..n /\ 0 \in T
  OBVIOUS
<1>3. Beginning(data) = Max(T)
  BY DEF Beginning
<1> HIDE DEF T
<1>4. Max(T) \in T /\ \A j \in T : j <= Max(T)
  BY <1>2, MaxIs
<1>5. h \in T
  <2>1. CASE h = 0
    BY <2>1, <1>2
  <2>2. CASE h # 0
    <3>1. h \in 1..n
      BY <2>2
    <3> QED
      BY <1>1, <3>1
  <2> QED
    BY <2>1, <2>2
<1>6. \A k \in T : k <= h
  BY <1>1, <1>2
<1>7. Max(T) \in 0..n
  BY <1>2, <1>4
<1>8. Max(T) = h
  BY <1>4, <1>5, <1>6, <1>7
<1> QED
  BY <1>3, <1>8

\* Write leaves no more in the buffer than it has to.
LEMMA CutIsSettled ==
  ASSUME NEW more \in Seq(Byte), NEW b, Clean(more, b), NEW data, data = SubSeq(more, b + 1, Len(more)),
         NEW c, c = b + EmitEnd(data)
  PROVE  Settled(more, c)
<1>1. PICK m \in Nat : m = Len(more)
  OBVIOUS
<1>2. b \in Nat /\ b <= m /\ data \in Seq(Byte) /\ Len(data) = m - b
  BY <1>1, SuffixAlike DEF Clean
<1>3. PICK k : k = EmitEnd(data)
  OBVIOUS
<1>4. PICK h : h = Hold(data)
  OBVIOUS
<1>5. PICK e : e = m - b - h
  OBVIOUS
<1>6. /\ k \in 0..(m - b) /\ e \in 0..(m - b) /\ k <= e
      /\ k < e => First(data, k) /\ \A i \in (k + 1)..e : Secret(data, i) /\ ~First(data, i)
  <2>1. e = Len(data) - Hold(data)
    BY <1>2, <1>4, <1>5
  <2>2. /\ k \in 0..Len(data) /\ e \in 0..Len(data) /\ k <= e
        /\ k < e => First(data, k) /\ \A i \in (k + 1)..e : Secret(data, i) /\ ~First(data, i)
    BY <1>2, <1>3, <2>1, EmitEndHolds
  <2> QED
    BY <1>2, <2>2
<1>7. PICK n \in Nat : n = m - b
  <2>1. m - b \in Nat
    BY <1>2
  <2> QED
    BY <2>1
<1>8. /\ h \in 0..n
      /\ SubSeq(data, n - h + 1, n) \in Node
      /\ \A j \in 0..n : SubSeq(data, n - j + 1, n) \in Node => j <= h
  <2>1. Len(data) = n
    BY <1>2, <1>7
  <2> QED
    BY <1>2, <1>4, <2>1, HoldIs
<1>9. ASSUME NEW j \in 1..n PROVE SubSeq(data, n - j + 1, n) = SubSeq(more, m - j + 1, m)
  <2>1. PICK x \in Nat : x = n - j
    <3>1. n - j \in Nat
      OBVIOUS
    <3> QED
      BY <3>1
  <2>2. x < n /\ n <= m - b
    BY <1>7, <2>1
  <2>3. SubSeq(data, x + 1, n) = SubSeq(more, b + x + 1, b + n)
    BY <1>1, <1>2, <2>2, PartOfPart
  <2>4. b + x + 1 = m - j + 1 /\ b + n = m
    BY <1>2, <1>7, <2>1
  <2>5. SubSeq(data, x + 1, n) = SubSeq(more, m - j + 1, m)
    BY <2>3, <2>4
  <2> QED
    BY <2>1, <2>5
<1>10. h \in 0..m
  BY <1>2, <1>7, <1>8
<1>11. SubSeq(more, m - h + 1, m) \in Node
  <2>1. CASE h = 0
    <3>1. SubSeq(more, m + 1, m) = <<>>
      BY <1>1, SubSeqEmpty
    <3>2. m - h + 1 = m + 1
      BY <2>1
    <3> QED
      BY <3>1, <3>2, EmptyIsNode
  <2>2. CASE h # 0
    <3>1. h \in 1..n
      BY <1>8, <2>2
    <3> QED
      BY <1>8, <1>9, <3>1
  <2> QED
    BY <2>1, <2>2
<1>12. ASSUME NEW j \in 1..m, j > h PROVE SubSeq(more, m - j + 1, m) \notin Node
  <2>1. CASE j <= n
    <3>1. j \in 1..n /\ j \in 0..n /\ ~(j <= h)
      BY <1>8, <1>12, <2>1
    <3> QED
      BY <1>8, <1>9, <3>1
  <2>2. CASE ~(j <= n)
    <3>1. m - j \in 0..(m - 1) /\ m - j < b
      BY <1>2, <1>7, <2>2
    <3> QED
      BY <1>1, <3>1 DEF Clean
  <2> QED
    BY <2>1, <2>2
<1>13. Beginning(more) = h
  BY <1>1, <1>10, <1>11, <1>12, BeginningIs
<1>14. c = b + k /\ Len(more) - Beginning(more) = b + e
  BY <1>1, <1>2, <1>3, <1>5, <1>6, <1>8, <1>13
<1>15. CASE k = e
  BY <1>14, <1>15 DEF Settled
<1>16. CASE k # e
  <2>1. k < e /\ c < b + e /\ k \in Nat /\ e \in Nat
    BY <1>2, <1>6, <1>14, <1>16
  <2>2. First(more, c)
    <3>1. Alike(data, more, b, k)
      BY <2>1, SuffixAlike
    <3>2. First(data, k) <=> First(more, b + k)
      BY <1>2, <2>1, <3>1, AlikeAgree
    <3> QED
      BY <1>6, <1>14, <2>1, <3>2
  <2>3. ASSUME NEW i \in (c + 1)..(b + e) PROVE Secret(more, i) /\ ~First(more, i)
    <3>1. PICK x \in Nat : i = b + x
      <4>1. i - b \in Nat /\ i = b + (i - b)
        BY <1>2, <1>6, <1>14, <2>1
      <4> QED
        BY <4>1
    <3>2. Alike(data, more, b, x)
      BY SuffixAlike
    <3>3. (Secret(data, x) <=> Secret(more, b + x)) /\ (First(data, x) <=> First(more, b + x))
      BY <1>2, <3>2, AlikeAgree
    <3>4. x \in (k + 1)..e
      BY <1>2, <1>6, <1>14, <2>1, <3>1
    <3> QED
      BY <1>6, <2>1, <3>1, <3>3, <3>4
  <2> QED
    BY <1>14, <2>1, <2>2, <2>3 DEF Settled
<1> QED
  BY <1>15, <1>16

-----------------------------------------------------------------------------
(***************************************************************************)
(* The part of the stream that a redactor has been given.                  *)
(***************************************************************************)

\* The beginning of the stream that has been given, and the buffer in it.
LEMMA StreamIs ==
  ASSUME NEW s \in Seq(Byte), NEW g \in 0..Len(s), NEW b \in 0..g
  PROVE  /\ SubSeq(s, 1, g) \in Seq(Byte) /\ Len(SubSeq(s, 1, g)) = g
         /\ SubSeq(s, b + 1, g) = SubSeq(SubSeq(s, 1, g), b + 1, g)
<1>1. PICK t : t = SubSeq(s, 1, g)
  OBVIOUS
<1>2. 0 \in 0..Len(s) /\ g \in 0..Len(s) /\ 0 + 1 = 1 /\ g - 0 = g
  OBVIOUS
<1>3. SubSeq(s, 0 + 1, g) \in Seq(Byte) /\ Len(SubSeq(s, 0 + 1, g)) = g - 0
  BY <1>2, PartIs
<1>4. t \in Seq(Byte) /\ Len(t) = g /\ t = SubSeq(s, 0 + 1, g)
  BY <1>1, <1>2, <1>3
<1>5. CASE b = g
  <2>1. SubSeq(s, g + 1, g) = <<>> /\ SubSeq(t, g + 1, g) = <<>>
    BY <1>4, SubSeqEmpty
  <2> QED
    BY <1>1, <1>4, <1>5, <2>1
<1>6. CASE b # g
  <2>1. b < g /\ g <= g - 0 /\ 0 <= g /\ g <= Len(s) /\ b \in Nat /\ g \in Nat
    BY <1>6
  <2>2. SubSeq(t, b + 1, g) = SubSeq(s, 0 + b + 1, 0 + g)
    BY <1>4, <2>1, PartOfPart
  <2>3. 0 + b + 1 = b + 1 /\ 0 + g = g
    OBVIOUS
  <2>4. SubSeq(t, b + 1, g) = SubSeq(s, b + 1, g)
    BY <2>2, <2>3
  <2> QED
    BY <1>1, <1>4, <2>4, Zenon
<1> QED
  BY <1>5, <1>6

\* What a redactor has been given is a beginning of what it will have been.
LEMMA StreamGrows ==
  ASSUME NEW s \in Seq(Byte), NEW g \in 0..Len(s), NEW h \in g..Len(s)
  PROVE  Prefix(SubSeq(s, 1, g), SubSeq(s, 1, h))
<1>1. h \in 0..Len(s) /\ 0 \in 0..h /\ 0 \in 0..g
  OBVIOUS
<1>2. PICK t : t = SubSeq(s, 1, h)
  OBVIOUS
<1>3. t \in Seq(Byte) /\ Len(t) = h
  BY <1>1, <1>2, StreamIs
<1>4. Len(SubSeq(s, 1, g)) = g
  BY <1>1, StreamIs
<1>5. SubSeq(s, 1, g) = SubSeq(t, 1, g)
  <2>1. CASE g = 0
    <3>1. SubSeq(s, 1, 0) = <<>> /\ SubSeq(t, 1, 0) = <<>>
      BY <1>3, SubSeqEmpty
    <3> QED
      BY <2>1, <3>1
  <2>2. CASE g # 0
    <3>1. 0 < g /\ g <= h - 0 /\ 0 <= h /\ h <= Len(s) /\ h \in Nat /\ g \in Nat
      BY <2>2
    <3>2. t = SubSeq(s, 0 + 1, h)
      BY <1>2
    <3>3. SubSeq(t, 0 + 1, g) = SubSeq(s, 0 + 0 + 1, 0 + g)
      BY <3>1, <3>2, PartOfPart
    <3>4. 0 + 1 = 1 /\ 0 + 0 + 1 = 1 /\ 0 + g = g
      OBVIOUS
    <3> QED
      BY <3>3, <3>4
  <2> QED
    BY <2>1, <2>2
<1> QED
  BY <1>2, <1>3, <1>4, <1>5 DEF Prefix

\* Every stream is a beginning of itself.
LEMMA PrefixTrivial ==
  ASSUME NEW data \in Seq(Byte)
  PROVE  Prefix(data, data)
<1>1. data = SubSeq(data, 1, Len(data))
  BY SubSeqFull
<1> QED
  BY <1>1 DEF Prefix

\* A byte that the command writes changes nothing that was read before.
LEMMA AppendKeeps ==
  ASSUME NEW s \in Seq(Byte), NEW x \in Byte, NEW g \in 0..Len(s), NEW b \in 0..g
  PROVE  SubSeq(Append(s, x), b + 1, g) = SubSeq(s, b + 1, g)
<1>1. PICK t : t = Append(s, x)
  OBVIOUS
<1>2. t \in Seq(Byte) /\ Len(t) = Len(s) + 1 /\ \A i \in 1..Len(s) : t[i] = s[i]
  BY <1>1, AppendProperties
<1> DEFINE u == SubSeq(t, b + 1, g)
           v == SubSeq(s, b + 1, g)
<1>3. b \in 0..Len(s) /\ g \in b..Len(s) /\ b \in 0..Len(t) /\ g \in b..Len(t)
  BY <1>2
<1>4. u \in Seq(Byte) /\ Len(u) = g - b /\ \A k \in 1..(g - b) : u[k] = t[b + k]
  BY <1>2, <1>3, PartIs
<1>5. v \in Seq(Byte) /\ Len(v) = g - b /\ \A k \in 1..(g - b) : v[k] = s[b + k]
  BY <1>3, PartIs
<1>6. \A k \in 1..(g - b) : b + k \in 1..Len(s)
  OBVIOUS
<1> HIDE DEF u, v
<1>7. \A k \in 1..(g - b) : u[k] = v[k]
  BY <1>2, <1>4, <1>5, <1>6
<1>8. u = v
  BY <1>4, <1>5, <1>7, SeqEqual
<1> QED
  BY <1>1, <1>8 DEF u, v

-----------------------------------------------------------------------------
(***************************************************************************)
(* The inductive invariant.                                                *)
(***************************************************************************)

\* What the redactor of d has been given.
Stream(d) == SubSeq(stream, 1, got[d])

Closings == {"close console", "close log"}

\* How far the end of the command, the copier and the redactors have come.
Flow ==
  /\ DOMAIN shown = Destination
  /\ got["log"] = taken
  /\ copier \in {"read", "console"} \/ (copier = "ended" /\ ~copyErr) => got["console"] = taken
  /\ pc = "ran" => mode # "RunGroup"
  /\ result # "none" => pc \in Closings \cup {"returned"}
  /\ "log" \in closed => pc = "returned"
  /\ "console" \in closed => pc \in {"close log", "returned"}
  /\ pc = "close log" => "console" \in closed
  /\ pc = "returned" /\ mode = "RunGroup" /\ result = "exit" => closed = Destination
  /\ pc = "abandoned" => cut
  /\ copier # "ended" /\ (pc \in Closings \/ closed # {}) => cut
  /\ ~reading /\ copier # "ended" => pc = "not started" \/ cut
  /\ copier = "ended" /\ ~cut /\ ~copyErr =>
       \/ pc = "not started" \/ result = "incomplete"
       \/ taken = Len(stream) /\ Started
  /\ copyErr /\ ~cut => failed
  /\ mode = "RunGroup" /\ result = "exit" /\ copyErr /\ ~cut => waitErr = "status"

\* What a destination has, and what its redactor still holds.
Passing(d) ==
  /\ d \notin closed => Clean(Stream(d), base[d])
  /\ (d \in closed /\ cut) \/ shown[d] \in Seq(Harmless(Stream(d), got[d]))
  /\ d \notin closed /\ copier # "ended" => shown[d] \in Seq(Harmless(Stream(d), base[d]))
  /\ d \notin closed /\ ~copyErr => shown[d] = Whole(Stream(d), base[d])
  /\ d \notin closed /\ (copier = "read" \/ (d = "log" /\ copier = "console")) => Settled(Stream(d), base[d])
  /\ copier = d /\ d \notin closed => /\ chunk.out = Emission(base[d], Buffer(d))
                                      /\ chunk.upto = base[d] + EmitEnd(Buffer(d))
  /\ d \in closed /\ ~cut /\ ~copyErr /\ ~closeErr => shown[d] = Redacted(Stream(d))

IInv == TypeOK /\ Accounted /\ Flow /\ \A d \in Destination : Passing(d)

\* A step that concerns neither the stream nor the redactors.
LEMMA Quiet ==
  ASSUME \A d \in Destination : Passing(d),
         UNCHANGED <<stream, base, got, shown, closed, copier, copyErr, chunk, closeErr>>,
         cut => cut'
  PROVE  \A d \in Destination : Passing(d)'
<1> SUFFICES ASSUME NEW d \in Destination PROVE Passing(d)'
  OBVIOUS
<1>1. Stream(d)' = Stream(d) /\ Buffer(d)' = Buffer(d)
  BY DEF Stream, Buffer
<1>2. Passing(d)
  OBVIOUS
<1> QED
  BY <1>1, <1>2 DEF Passing

\* The invariant holds when the command is about to start.
LEMMA InitInv == Init => IInv
<1> SUFFICES ASSUME Init PROVE IInv
  OBVIOUS
<1>1. /\ stream = <<>> /\ Len(stream) = 0 /\ stream \in Seq(Byte)
  BY DEF Init
<1>2. TypeOK
  <2>1. taken \in 0..Len(stream)
    BY <1>1 DEF Init
  <2>2. proc \in [Proc -> {"none", "live", "foreign", "zero", "nonzero", "signal"}]
    BY DEF Init
  <2>3. base \in [Destination -> Nat] /\ got \in [Destination -> Nat]
    BY DEF Init
  <2>4. mode \in Modes
    BY RunGroupAssumption DEF Init
  <2> HIDE DEF Destination
  <2>5. /\ pc \in {"start", "not started", "wait", "ran", "look", "scan", "select", "poll", "scan again",
                   "drain", "abandoned", "close console", "close log", "returned"}
        /\ canceled \in BOOLEAN /\ waitErr \in {"none", "status", "interrupted"}
    BY DEF Init
  <2>6. /\ outside \subseteq Proc /\ unread \subseteq Proc /\ found \in BOOLEAN
        /\ reading \in BOOLEAN /\ copier \in Destination \cup {"read", "ended"}
        /\ closed \subseteq Destination
    BY DEF Init
  <2>7. /\ copyErr \in BOOLEAN /\ closeErr \in BOOLEAN /\ cut \in BOOLEAN /\ failed \in BOOLEAN
        /\ result \in {"none", "exit", "incomplete"}
    BY DEF Init
  <2> QED
    BY <1>1, <2>1, <2>2, <2>3, <2>4, <2>5, <2>6, <2>7 DEF TypeOK
<1>3. Accounted
  BY DEF Init, Accounted, Destination
<1>4. Flow
  BY DEF Init, Flow, Destination, Closings
<1>5. ASSUME NEW d \in Destination PROVE Passing(d)
  <2>1. Stream(d) = <<>>
    <3>1. SubSeq(stream, 1, 0) = <<>>
      BY SubSeqEmpty
    <3> QED
      BY <3>1 DEF Init, Stream
  <2>2. Clean(<<>>, 0)
    <3>1. Len(<<>>) = 0
      OBVIOUS
    <3> QED
      BY <3>1 DEF Clean
  <2>3. Whole(<<>>, 0) = <<>>
    <3> DEFINE s == [i \in 1..0 |-> PieceAt(0, <<>>, i - 1)]
    <3>1. s = <<>>
      OBVIOUS
    <3> HIDE DEF s
    <3>2. Len(s) = 0
      BY <3>1
    <3>3. FlattenSeq(s) = <<>>
      BY <3>1, <3>2 DEF FlattenSeq
    <3> QED
      BY <3>3 DEF Whole, Part, s
  <2>4. Settled(<<>>, 0)
    <3>1. PICK e : e = <<>>
      OBVIOUS
    <3>2. PICK n \in Nat : n = 0
      OBVIOUS
    <3>3. e \in Seq(Byte) /\ n = Len(e) /\ n \in 0..n
      BY <3>1, <3>2
    <3>4. SubSeq(e, n - n + 1, n) \in Node
      <4>1. SubSeq(e, 1, 0) = <<>>
        BY <3>3, SubSeqEmpty
      <4>2. n - n + 1 = 1
        BY <3>2
      <4> QED
        BY <3>2, <4>1, <4>2, EmptyIsNode
    <3>5. \A k \in 1..n : k > n => SubSeq(e, n - k + 1, n) \notin Node
      OBVIOUS
    <3>6. Beginning(e) = n
      BY <3>3, <3>4, <3>5, BeginningIs
    <3> QED
      BY <3>1, <3>2, <3>3, <3>6 DEF Settled
  <2>5. base[d] = 0 /\ shown[d] = <<>> /\ closed = {} /\ copier = "read"
    BY DEF Init
  <2>6. \A H : <<>> \in Seq(H)
    OBVIOUS
  <2> QED
    BY <2>1, <2>2, <2>3, <2>4, <2>5, <2>6 DEF Passing, Destination
<1> QED
  BY <1>2, <1>3, <1>4, <1>5 DEF IInv

\* The types of what concerns the command alone.
ControlType ==
  /\ pc \in {"start", "not started", "wait", "ran", "look", "scan", "select", "poll", "scan again",
             "drain", "abandoned", "close console", "close log", "returned"}
  /\ canceled \in BOOLEAN /\ waitErr \in {"none", "status", "interrupted"}
  /\ proc \in [Proc -> {"none", "live", "foreign", "zero", "nonzero", "signal"}]
  /\ outside \subseteq Proc /\ unread \subseteq Proc /\ found \in BOOLEAN
  /\ result \in {"none", "exit", "incomplete"}

\* The types of what concerns its output.
PipeType ==
  /\ mode \in Modes
  /\ stream \in Seq(Byte) /\ taken \in 0..Len(stream) /\ reading \in BOOLEAN
  /\ copier \in Destination \cup {"read", "ended"}
  /\ base \in [Destination -> Nat] /\ got \in [Destination -> Nat]
  /\ closed \subseteq Destination
  /\ copyErr \in BOOLEAN /\ closeErr \in BOOLEAN /\ cut \in BOOLEAN /\ failed \in BOOLEAN

\* The type invariant in its two parts.
LEMMA TypeParts == TypeOK <=> ControlType /\ PipeType
BY DEF TypeOK, ControlType, PipeType

\* The same after a step, as the proofs need it.
LEMMA TypePartsNext == ControlType' /\ PipeType' => TypeOK'
BY DEF TypeOK, ControlType, PipeType

\* A step that leaves the output alone keeps its types.
LEMMA QuietType ==
  ASSUME TypeOK, ControlType',
         UNCHANGED <<mode, stream, taken, reading, copier, base, got, closed, copyErr, closeErr, cut, failed>>
  PROVE  TypeOK'
BY DEF TypeOK, ControlType

\* A process forks.
LEMMA ForkKeeps ==
  ASSUME IInv, NEW p \in Proc, NEW q \in Proc, Fork(p, q)
  PROVE  IInv'
<1>1. TypeOK'
  <2>1. /\ proc' \in [Proc -> {"none", "live", "foreign", "zero", "nonzero", "signal"}] /\ outside' \subseteq Proc
        /\ UNCHANGED <<pc, canceled, waitErr, unread, found, result>>
    BY DEF IInv, TypeOK, Fork, Processes, groupVars, scanVars, pipeVars, writerVars
  <2>8. UNCHANGED <<mode, stream, taken, reading, copier, base, got, closed, copyErr, closeErr, cut, failed>>
    BY DEF Fork, Processes, groupVars, scanVars, pipeVars, writerVars
  <2>9. ControlType
    BY DEF IInv, TypeOK, ControlType
  <2>10. ControlType'
    BY <2>1, <2>9 DEF ControlType
  <2> QED
    BY <2>8, <2>10, QuietType DEF IInv
<1>2. Accounted'
  BY DEF IInv, Accounted, Fork, Processes, groupVars, scanVars, pipeVars, writerVars
<1>3. Flow'
  BY RunGroupAssumption DEF IInv, TypeOK, Flow, Fork, Processes, Started, Live, Closings, groupVars, scanVars, pipeVars, writerVars
<1>4. \A d \in Destination : Passing(d)'
  <2>1. UNCHANGED <<stream, base, got, shown, closed, copier, copyErr, chunk, closeErr>> /\ (cut => cut')
    BY DEF Fork, Processes, groupVars, scanVars, pipeVars, writerVars
  <2> QED
    BY <2>1, Quiet DEF IInv
<1> QED
  BY <1>1, <1>2, <1>3, <1>4 DEF IInv

\* A process leaves the group.
LEMMA EscapeKeeps ==
  ASSUME IInv, NEW p \in Proc, Escape(p)
  PROVE  IInv'
<1>1. TypeOK'
  <2>1. /\ outside' \subseteq Proc
        /\ UNCHANGED <<pc, canceled, waitErr, proc, unread, found, result>>
    BY DEF IInv, TypeOK, Escape, Processes, groupVars, scanVars, pipeVars, writerVars
  <2>8. UNCHANGED <<mode, stream, taken, reading, copier, base, got, closed, copyErr, closeErr, cut, failed>>
    BY DEF Escape, Processes, groupVars, scanVars, pipeVars, writerVars
  <2>9. ControlType
    BY DEF IInv, TypeOK, ControlType
  <2>10. ControlType'
    BY <2>1, <2>9 DEF ControlType
  <2> QED
    BY <2>8, <2>10, QuietType DEF IInv
<1>2. Accounted'
  BY DEF IInv, Accounted, Escape, Processes, groupVars, scanVars, pipeVars, writerVars
<1>3. Flow'
  BY RunGroupAssumption DEF IInv, TypeOK, Flow, Escape, Processes, Started, Live, Closings, groupVars, scanVars, pipeVars, writerVars
<1>4. \A d \in Destination : Passing(d)'
  <2>1. UNCHANGED <<stream, base, got, shown, closed, copier, copyErr, chunk, closeErr>> /\ (cut => cut')
    BY DEF Escape, Processes, groupVars, scanVars, pipeVars, writerVars
  <2> QED
    BY <2>1, Quiet DEF IInv
<1> QED
  BY <1>1, <1>2, <1>3, <1>4 DEF IInv

\* A process ends.
LEMMA ExitKeeps ==
  ASSUME IInv, NEW p \in Proc, NEW status \in {"zero", "nonzero", "signal"}, Exit(p, status)
  PROVE  IInv'
<1>1. TypeOK'
  <2>1. /\ proc' \in [Proc -> {"none", "live", "foreign", "zero", "nonzero", "signal"}]
        /\ UNCHANGED <<pc, canceled, waitErr, outside, unread, found, result>>
    BY DEF IInv, TypeOK, Exit, Processes, groupVars, scanVars, pipeVars, writerVars
  <2>8. UNCHANGED <<mode, stream, taken, reading, copier, base, got, closed, copyErr, closeErr, cut, failed>>
    BY DEF Exit, Processes, groupVars, scanVars, pipeVars, writerVars
  <2>9. ControlType
    BY DEF IInv, TypeOK, ControlType
  <2>10. ControlType'
    BY <2>1, <2>9 DEF ControlType
  <2> QED
    BY <2>8, <2>10, QuietType DEF IInv
<1>2. Accounted'
  BY DEF IInv, Accounted, Exit, Processes, groupVars, scanVars, pipeVars, writerVars
<1>3. Flow'
  BY RunGroupAssumption DEF IInv, TypeOK, Flow, Exit, Processes, Started, Live, Closings, groupVars, scanVars, pipeVars, writerVars
<1>4. \A d \in Destination : Passing(d)'
  <2>1. UNCHANGED <<stream, base, got, shown, closed, copier, copyErr, chunk, closeErr>> /\ (cut => cut')
    BY DEF Exit, Processes, groupVars, scanVars, pipeVars, writerVars
  <2> QED
    BY <2>1, Quiet DEF IInv
<1> QED
  BY <1>1, <1>2, <1>3, <1>4 DEF IInv

\* The caller cancels.
LEMMA CancelKeeps ==
  ASSUME IInv, Cancel
  PROVE  IInv'
<1>1. TypeOK'
  <2>1. /\ canceled' \in BOOLEAN
        /\ UNCHANGED <<pc, waitErr, proc, outside, unread, found, result>>
    BY DEF IInv, TypeOK, Cancel, Group, groupVars, scanVars, pipeVars, writerVars
  <2>8. UNCHANGED <<mode, stream, taken, reading, copier, base, got, closed, copyErr, closeErr, cut, failed>>
    BY DEF Cancel, Group, groupVars, scanVars, pipeVars, writerVars
  <2>9. ControlType
    BY DEF IInv, TypeOK, ControlType
  <2>10. ControlType'
    BY <2>1, <2>9 DEF ControlType
  <2> QED
    BY <2>8, <2>10, QuietType DEF IInv
<1>2. Accounted'
  BY DEF IInv, Accounted, Cancel, Group, groupVars, scanVars, pipeVars, writerVars
<1>3. Flow'
  BY RunGroupAssumption DEF IInv, TypeOK, Flow, Cancel, Group, Started, Live, Closings, groupVars, scanVars, pipeVars, writerVars
<1>4. \A d \in Destination : Passing(d)'
  <2>1. UNCHANGED <<stream, base, got, shown, closed, copier, copyErr, chunk, closeErr>> /\ (cut => cut')
    BY DEF Cancel, Group, groupVars, scanVars, pipeVars, writerVars
  <2> QED
    BY <2>1, Quiet DEF IInv
<1> QED
  BY <1>1, <1>2, <1>3, <1>4 DEF IInv

\* The pipe cannot be made.
LEMMA OpenFailsKeeps ==
  ASSUME IInv, OpenFails
  PROVE  IInv'
<1>1. TypeOK'
  <2>1. UNCHANGED <<mode, stream, taken, reading, copier, base, got, closed, copyErr, closeErr, cut, failed>>
    BY DEF OpenFails, Group, pipeVars, writerVars
  <2>2. ControlType
    BY DEF IInv, TypeOK, ControlType
  <2>3. ControlType'
    BY <2>2, RunGroupAssumption DEF ControlType, OpenFails, Group, groupVars, scanVars
  <2> QED
    BY <2>1, <2>3, QuietType DEF IInv
<1>2. Accounted'
  BY DEF IInv, Accounted, OpenFails, Group, groupVars, scanVars, pipeVars, writerVars
<1>3. Flow'
  BY RunGroupAssumption DEF IInv, TypeOK, Flow, OpenFails, Group, Started, Live, Closings, groupVars, scanVars, pipeVars, writerVars
<1>4. \A d \in Destination : Passing(d)'
  <2>1. UNCHANGED <<stream, base, got, shown, closed, copier, copyErr, chunk, closeErr>> /\ (cut => cut')
    BY DEF OpenFails, Group, groupVars, scanVars, pipeVars, writerVars
  <2> QED
    BY <2>1, Quiet DEF IInv
<1> QED
  BY <1>1, <1>2, <1>3, <1>4 DEF IInv

\* The command starts.
LEMMA StartKeeps ==
  ASSUME IInv, Start
  PROVE  IInv'
<1>1. TypeOK'
  <2>1. UNCHANGED <<mode, stream, taken, reading, copier, base, got, closed, copyErr, closeErr, cut, failed>>
    BY DEF Start, Group, pipeVars, writerVars
  <2>2. ControlType
    BY DEF IInv, TypeOK, ControlType
  <2>3. ControlType'
    BY <2>2, RunGroupAssumption DEF ControlType, Start, Group, groupVars, scanVars
  <2> QED
    BY <2>1, <2>3, QuietType DEF IInv
<1>2. Accounted'
  BY DEF IInv, Accounted, Start, Group, groupVars, scanVars, pipeVars, writerVars
<1>3. Flow'
  BY RunGroupAssumption DEF IInv, TypeOK, Flow, Start, Group, Started, Live, Closings, groupVars, scanVars, pipeVars, writerVars
<1>4. \A d \in Destination : Passing(d)'
  <2>1. UNCHANGED <<stream, base, got, shown, closed, copier, copyErr, chunk, closeErr>> /\ (cut => cut')
    BY DEF Start, Group, groupVars, scanVars, pipeVars, writerVars
  <2> QED
    BY <2>1, Quiet DEF IInv
<1> QED
  BY <1>1, <1>2, <1>3, <1>4 DEF IInv

\* The command cannot be started.
LEMMA StartFailsKeeps ==
  ASSUME IInv, StartFails
  PROVE  IInv'
<1>1. TypeOK'
  <2>1. ControlType /\ PipeType
    BY TypeParts DEF IInv
  <2>2. ControlType'
    BY <2>1 DEF ControlType, StartFails, groupVars, scanVars
  <2>3. PipeType'
    BY <2>1 DEF PipeType, StartFails, pipeVars, writerVars
  <2> QED
    BY <2>2, <2>3, TypePartsNext
<1>2. Accounted'
  BY DEF IInv, Accounted, StartFails, groupVars, scanVars, pipeVars, writerVars
<1>3. Flow'
  BY RunGroupAssumption DEF IInv, TypeOK, Flow, StartFails, Started, Live, Closings, groupVars, scanVars, pipeVars, writerVars
<1>4. \A d \in Destination : Passing(d)'
  <2>1. UNCHANGED <<stream, base, got, shown, closed, copier, copyErr, chunk, closeErr>> /\ (cut => cut')
    BY DEF StartFails, groupVars, scanVars, pipeVars, writerVars
  <2> QED
    BY <2>1, Quiet DEF IInv
<1> QED
  BY <1>1, <1>2, <1>3, <1>4 DEF IInv

\* The start is abandoned.
LEMMA AbortedKeeps ==
  ASSUME IInv, Aborted
  PROVE  IInv'
<1>1. TypeOK'
  <2>1. UNCHANGED <<mode, stream, taken, reading, copier, base, got, closed, copyErr, closeErr, cut, failed>>
    BY DEF Aborted, Group, pipeVars, writerVars
  <2>2. ControlType
    BY DEF IInv, TypeOK, ControlType
  <2>3. ControlType'
    BY <2>2, RunGroupAssumption DEF ControlType, Aborted, Group, groupVars, scanVars
  <2> QED
    BY <2>1, <2>3, QuietType DEF IInv
<1>2. Accounted'
  BY DEF IInv, Accounted, Aborted, Group, groupVars, scanVars, pipeVars, writerVars
<1>3. Flow'
  BY RunGroupAssumption DEF IInv, TypeOK, Flow, Aborted, Group, Started, Live, Closings, groupVars, scanVars, pipeVars, writerVars
<1>4. \A d \in Destination : Passing(d)'
  <2>1. UNCHANGED <<stream, base, got, shown, closed, copier, copyErr, chunk, closeErr>> /\ (cut => cut')
    BY DEF Aborted, Group, groupVars, scanVars, pipeVars, writerVars
  <2> QED
    BY <2>1, Quiet DEF IInv
<1> QED
  BY <1>1, <1>2, <1>3, <1>4 DEF IInv

\* The leader is killed on cancellation.
LEMMA KillLeaderKeeps ==
  ASSUME IInv, KillLeader
  PROVE  IInv'
<1>1. TypeOK'
  <2>1. UNCHANGED <<mode, stream, taken, reading, copier, base, got, closed, copyErr, closeErr, cut, failed>>
    BY DEF KillLeader, Group, pipeVars, writerVars
  <2>2. ControlType
    BY DEF IInv, TypeOK, ControlType
  <2>3. ControlType'
    BY <2>2, RunGroupAssumption DEF ControlType, KillLeader, Group, groupVars, scanVars
  <2> QED
    BY <2>1, <2>3, QuietType DEF IInv
<1>2. Accounted'
  BY DEF IInv, Accounted, KillLeader, Group, groupVars, scanVars, pipeVars, writerVars
<1>3. Flow'
  BY RunGroupAssumption DEF IInv, TypeOK, Flow, KillLeader, Group, Started, Live, Closings, groupVars, scanVars, pipeVars, writerVars
<1>4. \A d \in Destination : Passing(d)'
  <2>1. UNCHANGED <<stream, base, got, shown, closed, copier, copyErr, chunk, closeErr>> /\ (cut => cut')
    BY DEF KillLeader, Group, groupVars, scanVars, pipeVars, writerVars
  <2> QED
    BY <2>1, Quiet DEF IInv
<1> QED
  BY <1>1, <1>2, <1>3, <1>4 DEF IInv

\* Wait returns.
LEMMA WaitedKeeps ==
  ASSUME IInv, Waited
  PROVE  IInv'
<1>1. TypeOK'
  <2>1. UNCHANGED <<mode, stream, taken, reading, copier, base, got, closed, copyErr, closeErr, cut, failed>>
    BY DEF Waited, Group, pipeVars, writerVars
  <2>2. ControlType
    BY DEF IInv, TypeOK, ControlType
  <2>3. ControlType'
    BY <2>2, RunGroupAssumption DEF ControlType, Waited, Group, groupVars, scanVars
  <2> QED
    BY <2>1, <2>3, QuietType DEF IInv
<1>2. Accounted'
  BY DEF IInv, Accounted, Waited, Group, groupVars, scanVars, pipeVars, writerVars
<1>3. Flow'
  BY RunGroupAssumption DEF IInv, TypeOK, Flow, Waited, Group, Started, Live, Closings, groupVars, scanVars, pipeVars, writerVars
<1>4. \A d \in Destination : Passing(d)'
  <2>1. UNCHANGED <<stream, base, got, shown, closed, copier, copyErr, chunk, closeErr>> /\ (cut => cut')
    BY DEF Waited, Group, groupVars, scanVars, pipeVars, writerVars
  <2> QED
    BY <2>1, Quiet DEF IInv
<1> QED
  BY <1>1, <1>2, <1>3, <1>4 DEF IInv

\* A command that has no group ends.
LEMMA EndRunKeeps ==
  ASSUME IInv, EndRun
  PROVE  IInv'
<1>1. TypeOK'
  <2>1. UNCHANGED <<mode, stream, taken, reading, copier, base, got, closed, copyErr, closeErr, cut, failed>>
    BY DEF EndRun, Group, pipeVars, writerVars
  <2>2. ControlType
    BY DEF IInv, TypeOK, ControlType
  <2>3. ControlType'
    BY <2>2, RunGroupAssumption DEF ControlType, EndRun, Group, KillMembers, groupVars, scanVars
  <2> QED
    BY <2>1, <2>3, QuietType DEF IInv
<1>2. Accounted'
  BY DEF IInv, Accounted, EndRun, Group, KillMembers, groupVars, scanVars, pipeVars, writerVars
<1>3. Flow'
  BY RunGroupAssumption DEF IInv, TypeOK, Flow, EndRun, Group, KillMembers, Started, Live, Closings, groupVars, scanVars, pipeVars, writerVars
<1>4. \A d \in Destination : Passing(d)'
  <2>1. UNCHANGED <<stream, base, got, shown, closed, copier, copyErr, chunk, closeErr>> /\ (cut => cut')
    BY DEF EndRun, Group, KillMembers, groupVars, scanVars, pipeVars, writerVars
  <2> QED
    BY <2>1, Quiet DEF IInv
<1> QED
  BY <1>1, <1>2, <1>3, <1>4 DEF IInv

\* /proc is listed.
LEMMA ListKeeps ==
  ASSUME IInv, List
  PROVE  IInv'
<1>1. TypeOK'
  <2>1. UNCHANGED <<mode, stream, taken, reading, copier, base, got, closed, copyErr, closeErr, cut, failed>>
    BY DEF List, Group, pipeVars, writerVars
  <2>2. ControlType
    BY DEF IInv, TypeOK, ControlType
  <2>3. ControlType'
    BY <2>2, RunGroupAssumption DEF ControlType, List, Group, groupVars, scanVars
  <2> QED
    BY <2>1, <2>3, QuietType DEF IInv
<1>2. Accounted'
  BY DEF IInv, Accounted, List, Group, groupVars, scanVars, pipeVars, writerVars
<1>3. Flow'
  BY RunGroupAssumption DEF IInv, TypeOK, Flow, List, Group, Started, Live, Closings, groupVars, scanVars, pipeVars, writerVars
<1>4. \A d \in Destination : Passing(d)'
  <2>1. UNCHANGED <<stream, base, got, shown, closed, copier, copyErr, chunk, closeErr>> /\ (cut => cut')
    BY DEF List, Group, groupVars, scanVars, pipeVars, writerVars
  <2> QED
    BY <2>1, Quiet DEF IInv
<1> QED
  BY <1>1, <1>2, <1>3, <1>4 DEF IInv

\* The stat of a process is read.
LEMMA ReadStatKeeps ==
  ASSUME IInv, NEW p \in Proc, ReadStat(p)
  PROVE  IInv'
<1>1. TypeOK'
  <2>1. UNCHANGED <<mode, stream, taken, reading, copier, base, got, closed, copyErr, closeErr, cut, failed>>
    BY DEF ReadStat, Group, pipeVars, writerVars
  <2>2. ControlType
    BY DEF IInv, TypeOK, ControlType
  <2>3. ControlType'
    BY <2>2, RunGroupAssumption DEF ControlType, ReadStat, Group, groupVars, scanVars
  <2> QED
    BY <2>1, <2>3, QuietType DEF IInv
<1>2. Accounted'
  BY DEF IInv, Accounted, ReadStat, Group, groupVars, scanVars, pipeVars, writerVars
<1>3. Flow'
  BY RunGroupAssumption DEF IInv, TypeOK, Flow, ReadStat, Group, Started, Live, Closings, groupVars, scanVars, pipeVars, writerVars
<1>4. \A d \in Destination : Passing(d)'
  <2>1. UNCHANGED <<stream, base, got, shown, closed, copier, copyErr, chunk, closeErr>> /\ (cut => cut')
    BY DEF ReadStat, Group, groupVars, scanVars, pipeVars, writerVars
  <2> QED
    BY <2>1, Quiet DEF IInv
<1> QED
  BY <1>1, <1>2, <1>3, <1>4 DEF IInv

\* The kernel is asked about the group.
LEMMA AskKernelKeeps ==
  ASSUME IInv, AskKernel
  PROVE  IInv'
<1>1. TypeOK'
  <2>1. /\ pc' \in {"scan", "scan again"} /\ found' \in BOOLEAN /\ unread' \subseteq Proc
        /\ UNCHANGED <<canceled, waitErr, proc, outside, result>>
    BY DEF IInv, TypeOK, AskKernel, Group, groupVars, scanVars, pipeVars, writerVars
  <2>8. UNCHANGED <<mode, stream, taken, reading, copier, base, got, closed, copyErr, closeErr, cut, failed>>
    BY DEF AskKernel, Group, groupVars, scanVars, pipeVars, writerVars
  <2>9. ControlType
    BY DEF IInv, TypeOK, ControlType
  <2>10. ControlType'
    BY <2>1, <2>9 DEF ControlType
  <2> QED
    BY <2>8, <2>10, QuietType DEF IInv
<1>2. Accounted'
  BY DEF IInv, Accounted, AskKernel, Group, groupVars, scanVars, pipeVars, writerVars
<1>3. Flow'
  BY RunGroupAssumption DEF IInv, TypeOK, Flow, AskKernel, Group, Started, Live, Closings, groupVars, scanVars, pipeVars, writerVars
<1>4. \A d \in Destination : Passing(d)'
  <2>1. UNCHANGED <<stream, base, got, shown, closed, copier, copyErr, chunk, closeErr>> /\ (cut => cut')
    BY DEF AskKernel, Group, groupVars, scanVars, pipeVars, writerVars
  <2> QED
    BY <2>1, Quiet DEF IInv
<1> QED
  BY <1>1, <1>2, <1>3, <1>4 DEF IInv

\* A look for members ends.
LEMMA LookedKeeps ==
  ASSUME IInv, Looked
  PROVE  IInv'
<1>1. TypeOK'
  <2>1. /\ pc' \in {"select", "drain"}
        /\ UNCHANGED <<canceled, waitErr, proc, outside, unread, found, result>>
    BY DEF IInv, TypeOK, Looked, Group, groupVars, scanVars, pipeVars, writerVars
  <2>8. UNCHANGED <<mode, stream, taken, reading, copier, base, got, closed, copyErr, closeErr, cut, failed>>
    BY DEF Looked, Group, groupVars, scanVars, pipeVars, writerVars
  <2>9. ControlType
    BY DEF IInv, TypeOK, ControlType
  <2>10. ControlType'
    BY <2>1, <2>9 DEF ControlType
  <2> QED
    BY <2>8, <2>10, QuietType DEF IInv
<1>2. Accounted'
  BY DEF IInv, Accounted, Looked, Group, groupVars, scanVars, pipeVars, writerVars
<1>3. Flow'
  BY RunGroupAssumption DEF IInv, TypeOK, Flow, Looked, Group, Started, Live, Closings, groupVars, scanVars, pipeVars, writerVars
<1>4. \A d \in Destination : Passing(d)'
  <2>1. UNCHANGED <<stream, base, got, shown, closed, copier, copyErr, chunk, closeErr>> /\ (cut => cut')
    BY DEF Looked, Group, groupVars, scanVars, pipeVars, writerVars
  <2> QED
    BY <2>1, Quiet DEF IInv
<1> QED
  BY <1>1, <1>2, <1>3, <1>4 DEF IInv

\* The scan goes round again.
LEMMA PolledKeeps ==
  ASSUME IInv, Polled
  PROVE  IInv'
<1>1. TypeOK'
  <2>1. UNCHANGED <<mode, stream, taken, reading, copier, base, got, closed, copyErr, closeErr, cut, failed>>
    BY DEF Polled, Group, pipeVars, writerVars
  <2>2. ControlType
    BY DEF IInv, TypeOK, ControlType
  <2>3. ControlType'
    BY <2>2, RunGroupAssumption DEF ControlType, Polled, Group, groupVars, scanVars
  <2> QED
    BY <2>1, <2>3, QuietType DEF IInv
<1>2. Accounted'
  BY DEF IInv, Accounted, Polled, Group, groupVars, scanVars, pipeVars, writerVars
<1>3. Flow'
  BY RunGroupAssumption DEF IInv, TypeOK, Flow, Polled, Group, Started, Live, Closings, groupVars, scanVars, pipeVars, writerVars
<1>4. \A d \in Destination : Passing(d)'
  <2>1. UNCHANGED <<stream, base, got, shown, closed, copier, copyErr, chunk, closeErr>> /\ (cut => cut')
    BY DEF Polled, Group, groupVars, scanVars, pipeVars, writerVars
  <2> QED
    BY <2>1, Quiet DEF IInv
<1> QED
  BY <1>1, <1>2, <1>3, <1>4 DEF IInv

\* The time runs out.
LEMMA TickKeeps ==
  ASSUME IInv, Tick
  PROVE  IInv'
<1>1. TypeOK'
  <2>1. UNCHANGED <<mode, stream, taken, reading, copier, base, got, closed, copyErr, closeErr, cut, failed>>
    BY DEF Tick, Group, pipeVars, writerVars
  <2>2. ControlType
    BY DEF IInv, TypeOK, ControlType
  <2>3. ControlType'
    BY <2>2, RunGroupAssumption DEF ControlType, Tick, Group, groupVars, scanVars
  <2> QED
    BY <2>1, <2>3, QuietType DEF IInv
<1>2. Accounted'
  BY DEF IInv, Accounted, Tick, Group, groupVars, scanVars, pipeVars, writerVars
<1>3. Flow'
  BY RunGroupAssumption DEF IInv, TypeOK, Flow, Tick, Group, Started, Live, Closings, groupVars, scanVars, pipeVars, writerVars
<1>4. \A d \in Destination : Passing(d)'
  <2>1. UNCHANGED <<stream, base, got, shown, closed, copier, copyErr, chunk, closeErr>> /\ (cut => cut')
    BY DEF Tick, Group, groupVars, scanVars, pipeVars, writerVars
  <2> QED
    BY <2>1, Quiet DEF IInv
<1> QED
  BY <1>1, <1>2, <1>3, <1>4 DEF IInv

\* The group is killed.
LEMMA KillGroupKeeps ==
  ASSUME IInv, KillGroup
  PROVE  IInv'
<1>1. TypeOK'
  <2>1. UNCHANGED <<mode, stream, taken, reading, copier, base, got, closed, copyErr, closeErr, cut, failed>>
    BY DEF KillGroup, Group, pipeVars, writerVars
  <2>2. ControlType
    BY DEF IInv, TypeOK, ControlType
  <2>3. ControlType'
    BY <2>2, RunGroupAssumption DEF ControlType, KillGroup, Group, KillMembers, groupVars, scanVars
  <2> QED
    BY <2>1, <2>3, QuietType DEF IInv
<1>2. Accounted'
  BY DEF IInv, Accounted, KillGroup, Group, KillMembers, groupVars, scanVars, pipeVars, writerVars
<1>3. Flow'
  BY RunGroupAssumption DEF IInv, TypeOK, Flow, KillGroup, Group, KillMembers, Started, Live, Closings, groupVars, scanVars, pipeVars, writerVars
<1>4. \A d \in Destination : Passing(d)'
  <2>1. UNCHANGED <<stream, base, got, shown, closed, copier, copyErr, chunk, closeErr>> /\ (cut => cut')
    BY DEF KillGroup, Group, KillMembers, groupVars, scanVars, pipeVars, writerVars
  <2> QED
    BY <2>1, Quiet DEF IInv
<1> QED
  BY <1>1, <1>2, <1>3, <1>4 DEF IInv

\* The copier is abandoned.
LEMMA AbandonKeeps ==
  ASSUME IInv, Abandon
  PROVE  IInv'
<1>1. TypeOK'
  <2>1. ControlType /\ PipeType
    BY TypeParts DEF IInv
  <2>2. ControlType'
    BY <2>1 DEF ControlType, Abandon, Output, groupVars, scanVars
  <2>3. PipeType'
    BY <2>1 DEF PipeType, Abandon, Output, pipeVars, writerVars
  <2> QED
    BY <2>2, <2>3, TypePartsNext
<1>2. Accounted'
  BY DEF IInv, Accounted, Abandon, Output, groupVars, scanVars, pipeVars, writerVars
<1>3. Flow'
  BY RunGroupAssumption DEF IInv, TypeOK, Flow, Abandon, Output, Started, Live, Closings, groupVars, scanVars, pipeVars, writerVars
<1>4. \A d \in Destination : Passing(d)'
  <2>1. UNCHANGED <<stream, base, got, shown, closed, copier, copyErr, chunk, closeErr>> /\ (cut => cut')
    BY DEF Abandon, Output, groupVars, scanVars, pipeVars, writerVars
  <2> QED
    BY <2>1, Quiet DEF IInv
<1> QED
  BY <1>1, <1>2, <1>3, <1>4 DEF IInv

\* The copier has ended.
LEMMA CopiedKeeps ==
  ASSUME IInv, Copied
  PROVE  IInv'
<1>1. TypeOK'
  <2>1. ControlType /\ PipeType
    BY TypeParts DEF IInv
  <2>2. ControlType'
    BY <2>1 DEF ControlType, Copied, Output, Outcome, groupVars, scanVars
  <2>3. PipeType'
    BY <2>1 DEF PipeType, Copied, Output, Outcome, pipeVars, writerVars
  <2> QED
    BY <2>2, <2>3, TypePartsNext
<1>2. Accounted'
  BY DEF IInv, Accounted, Copied, Output, Outcome, groupVars, scanVars, pipeVars, writerVars
<1>3. Flow'
  BY RunGroupAssumption DEF IInv, TypeOK, Flow, Copied, Output, Outcome, Started, Live, Closings, groupVars, scanVars, pipeVars, writerVars
<1>4. \A d \in Destination : Passing(d)'
  <2>1. UNCHANGED <<stream, base, got, shown, closed, copier, copyErr, chunk, closeErr>> /\ (cut => cut')
    BY DEF Copied, Output, Outcome, groupVars, scanVars, pipeVars, writerVars
  <2> QED
    BY <2>1, Quiet DEF IInv
<1> QED
  BY <1>1, <1>2, <1>3, <1>4 DEF IInv

\* The wait is given up.
LEMMA GiveUpKeeps ==
  ASSUME IInv, GiveUp
  PROVE  IInv'
<1>1. TypeOK'
  <2>1. ControlType /\ PipeType
    BY TypeParts DEF IInv
  <2>2. ControlType'
    BY <2>1 DEF ControlType, GiveUp, Output, Outcome, groupVars, scanVars
  <2>3. PipeType'
    BY <2>1 DEF PipeType, GiveUp, Output, Outcome, pipeVars, writerVars
  <2> QED
    BY <2>2, <2>3, TypePartsNext
<1>2. Accounted'
  BY DEF IInv, Accounted, GiveUp, Output, Outcome, groupVars, scanVars, pipeVars, writerVars
<1>3. Flow'
  <2>1. /\ UNCHANGED <<mode, waitErr, copier, got, taken, stream, shown, closed, copyErr, cut, failed, reading, proc>>
        /\ pc = "abandoned" /\ pc' = "close console" /\ copier # "ended"
        /\ result' \in {"exit", "incomplete"} /\ (result' = "exit" => waitErr = "status")
    BY DEF GiveUp, Output, Outcome, groupVars, scanVars, pipeVars, writerVars
  <2>2. Flow
    BY DEF IInv
  <2>3. cut
    BY <2>1, <2>2 DEF Flow
  <2> QED
    BY <2>1, <2>2, <2>3 DEF Flow, Started, Live, Closings
<1>4. \A d \in Destination : Passing(d)'
  <2>1. UNCHANGED <<stream, base, got, shown, closed, copier, copyErr, chunk, closeErr>> /\ (cut => cut')
    BY DEF GiveUp, Output, Outcome, groupVars, scanVars, pipeVars, writerVars
  <2> QED
    BY <2>1, Quiet DEF IInv
<1> QED
  BY <1>1, <1>2, <1>3, <1>4 DEF IInv

\* The buffer of a redactor is the end of what it has been given.
LEMMA Given ==
  ASSUME TypeOK, Accounted, NEW d \in Destination
  PROVE  /\ got[d] \in 0..Len(stream) /\ got[d] \in Nat /\ got[d] <= taken
         /\ base[d] \in 0..got[d] /\ base[d] \in Nat
         /\ Stream(d) \in Seq(Byte) /\ Len(Stream(d)) = got[d]
         /\ Buffer(d) = SubSeq(Stream(d), base[d] + 1, Len(Stream(d)))
<1>1. got["console"] \in Nat /\ got["log"] \in Nat /\ base[d] \in Nat /\ got[d] \in Nat
  BY DEF TypeOK, Destination
<1>2. d = "log" \/ d = "console"
  BY DEF Destination
<1>3. got[d] <= taken /\ base[d] <= got[d] /\ taken <= Len(stream) /\ Len(stream) \in Nat /\ stream \in Seq(Byte) /\ taken \in Nat
  <2>1. stream \in Seq(Byte) /\ taken \in 0..Len(stream)
    BY DEF TypeOK
  <2>2. Len(stream) \in Nat
    BY <2>1
  <2>3. taken \in Nat /\ taken <= Len(stream)
    BY <2>1, <2>2
  <2>4. got["console"] <= got["log"] /\ got["log"] <= taken /\ base[d] <= got[d]
    BY DEF Accounted
  <2>5. got[d] <= taken
    BY <1>1, <1>2, <2>3, <2>4
  <2> QED
    BY <2>1, <2>2, <2>3, <2>4, <2>5
<1>4. PICK g : g = got[d]
  OBVIOUS
<1>5. PICK b : b = base[d]
  OBVIOUS
<1>6. g \in 0..Len(stream) /\ b \in 0..g
  BY <1>1, <1>3, <1>4, <1>5
<1>7. /\ SubSeq(stream, 1, g) \in Seq(Byte) /\ Len(SubSeq(stream, 1, g)) = g
      /\ SubSeq(stream, b + 1, g) = SubSeq(SubSeq(stream, 1, g), b + 1, g)
  BY <1>3, <1>6, StreamIs
<1>8. Stream(d) = SubSeq(stream, 1, g) /\ Buffer(d) = SubSeq(stream, b + 1, g)
  BY <1>4, <1>5 DEF Stream, Buffer
<1>9. Buffer(d) = SubSeq(Stream(d), b + 1, Len(Stream(d)))
  BY <1>7, <1>8, Zenon
<1> QED
  BY <1>1, <1>3, <1>4, <1>5, <1>6, <1>7, <1>8, <1>9

\* A process of the group writes a byte: the redactors do not see it yet.
LEMMA WriteByteKeeps ==
  ASSUME IInv, NEW p \in Proc, NEW b \in Byte, WriteByte(p, b)
  PROVE  IInv'
<1>0. /\ stream' = Append(stream, b) /\ copier # "ended"
      /\ UNCHANGED <<mode, pc, canceled, waitErr, proc, outside, unread, found, taken, reading, copier, chunk,
                     base, got, shown, closed, copyErr, closeErr, cut, failed, result>>
  BY DEF WriteByte, Processes, groupVars, scanVars, writerVars
<1>1. TypeOK /\ Accounted /\ Flow
  BY DEF IInv
<1>2. stream \in Seq(Byte) /\ taken \in 0..Len(stream)
  BY <1>1 DEF TypeOK
<1>3. stream' \in Seq(Byte) /\ Len(stream') = Len(stream) + 1
  BY <1>0, <1>2, AppendProperties
<1>4. taken' \in 0..Len(stream')
  BY <1>0, <1>2, <1>3
<1>5. TypeOK'
  <2>1. ControlType /\ PipeType
    BY <1>1, TypeParts
  <2>2. ControlType'
    BY <1>0, <2>1 DEF ControlType
  <2>3. PipeType'
    BY <1>0, <1>3, <1>4, <2>1 DEF PipeType
  <2> QED
    BY <2>2, <2>3, TypePartsNext
<1>6. Accounted'
  BY <1>0, <1>1 DEF Accounted
<1>7. Flow'
  BY <1>0, <1>1 DEF Flow, Started
<1>8. ASSUME NEW d \in Destination PROVE Passing(d)'
  <2>1. got[d] \in 0..Len(stream) /\ base[d] \in 0..got[d] /\ 0 \in 0..got[d]
    BY <1>1, Given
  <2>2. SubSeq(stream', base[d] + 1, got[d]) = SubSeq(stream, base[d] + 1, got[d])
    BY <1>0, <1>2, <2>1, AppendKeeps
  <2>3. SubSeq(stream', 0 + 1, got[d]) = SubSeq(stream, 0 + 1, got[d])
    BY <1>0, <1>2, <2>1, AppendKeeps
  <2>4. 0 + 1 = 1
    OBVIOUS
  <2>5. Stream(d)' = Stream(d) /\ Buffer(d)' = Buffer(d)
    BY <1>0, <2>2, <2>3, <2>4 DEF Stream, Buffer
  <2>6. Passing(d)
    BY DEF IInv
  <2> QED
    BY <1>0, <2>5, <2>6 DEF Passing
<1> QED
  BY <1>5, <1>6, <1>7, <1>8 DEF IInv

\* The copier meets the end of the pipe: all of the output has been read
\* unless the run gave up before.
LEMMA MeetsEndKeeps ==
  ASSUME IInv, MeetsEnd \/ MeetsClosed
  PROVE  IInv'
<1>0. /\ copier = "read" /\ copier' = "ended"
      /\ (taken = Len(stream) /\ Started) \/ ~reading
      /\ UNCHANGED <<mode, pc, canceled, waitErr, proc, outside, unread, found, stream, taken, reading, chunk,
                     base, got, shown, closed, copyErr, closeErr, cut, failed, result>>
  BY DEF MeetsEnd, MeetsClosed, Copy, groupVars, scanVars
<1>1. TypeOK /\ Accounted /\ Flow
  BY DEF IInv
<1>2. TypeOK'
  <2>1. ControlType /\ PipeType
    BY <1>1, TypeParts
  <2>2. ControlType'
    BY <1>0, <2>1 DEF ControlType
  <2>3. PipeType'
    BY <1>0, <2>1 DEF PipeType
  <2> QED
    BY <2>2, <2>3, TypePartsNext
<1>3. Accounted'
  BY <1>0, <1>1 DEF Accounted
<1>4. Flow'
  BY <1>0, <1>1 DEF Flow, Started, Live
<1>5. ASSUME NEW d \in Destination PROVE Passing(d)'
  <2>1. Passing(d)
    BY DEF IInv
  <2>2. Stream(d)' = Stream(d) /\ Buffer(d)' = Buffer(d)
    BY <1>0 DEF Stream, Buffer
  <2> QED
    BY <1>0, <2>1, <2>2 DEF Passing, Destination
<1> QED
  BY <1>2, <1>3, <1>4, <1>5 DEF IInv

\* A redactor takes bytes into its buffer.
LEMMA TakesMore ==
  ASSUME NEW s \in Seq(Byte), NEW g \in 0..Len(s), NEW h \in g..Len(s), NEW b, Clean(SubSeq(s, 1, g), b),
         NEW out, out \in Seq(Harmless(SubSeq(s, 1, g), b))
  PROVE  /\ Clean(SubSeq(s, 1, h), b)
         /\ out \in Seq(Harmless(SubSeq(s, 1, h), b)) /\ out \in Seq(Harmless(SubSeq(s, 1, h), h))
         /\ Whole(SubSeq(s, 1, h), b) = Whole(SubSeq(s, 1, g), b)
<1>1. h \in 0..Len(s) /\ 0 \in 0..g /\ 0 \in 0..h
  OBVIOUS
<1>2. PICK data : data = SubSeq(s, 1, g)
  OBVIOUS
<1>3. PICK more : more = SubSeq(s, 1, h)
  OBVIOUS
<1>4. data \in Seq(Byte) /\ more \in Seq(Byte) /\ Len(data) = g /\ Len(more) = h
  BY <1>1, <1>2, <1>3, StreamIs
<1>5. Prefix(data, more)
  BY <1>2, <1>3, StreamGrows
<1>6. Clean(data, b) /\ out \in Seq(Harmless(data, b))
  BY <1>2
<1>7. Clean(more, b)
  BY <1>4, <1>5, <1>6, CleanExtends
<1>8. b \in Nat /\ b <= b /\ h \in Nat /\ b <= h
  BY <1>4, <1>6 DEF Clean
<1>9. Harmless(data, b) \subseteq Harmless(more, b) /\ Harmless(data, b) \subseteq Harmless(more, h)
  BY <1>4, <1>5, <1>6, <1>8, HarmlessGrows
<1>10. \A H : Harmless(data, b) \subseteq H => out \in Seq(H)
  <2> SUFFICES ASSUME NEW H, Harmless(data, b) \subseteq H PROVE out \in Seq(H)
    OBVIOUS
  <2>1. \A i \in 1..Len(out) : out[i] \in H
    BY <1>6, ElementOfSeq
  <2> QED
    BY <1>6, <2>1
<1>11. Whole(more, b) = Whole(data, b)
  BY <1>4, <1>5, <1>6, WholeStays
<1> QED
  BY <1>2, <1>3, <1>7, <1>9, <1>10, <1>11

\* A sequence over a set is one over a larger set.
LEMMA SeqMonotone ==
  ASSUME NEW A, NEW B, A \subseteq B, NEW s \in Seq(A)
  PROVE  s \in Seq(B)
<1>1. \A i \in 1..Len(s) : s[i] \in B
  BY ElementOfSeq
<1> QED
  BY <1>1

\* A redactor that still passes on, and is closed, is one of an abandoned copy.
LEMMA OnlyWhenCut ==
  ASSUME IInv, copier # "ended", closed # {}
  PROVE  cut
BY DEF IInv, Flow

\* The redactor of d is given a chunk: what it is about to pass on follows
\* from its buffer.
LEMMA BeginPasses ==
  ASSUME IInv, NEW d \in Destination, NEW n, n \in got[d]..Len(stream),
         copier # "ended", copier' = d, stream' = stream, base'[d] = base[d], shown'[d] = shown[d],
         got'[d] = n, closed' = closed, cut' = cut, copyErr' = copyErr, closeErr' = closeErr,
         chunk'.out = Emission(base[d], SubSeq(stream, base[d] + 1, n)),
         chunk'.upto = base[d] + EmitEnd(SubSeq(stream, base[d] + 1, n))
  PROVE  Passing(d)'
<1>1. TypeOK /\ Accounted /\ Passing(d)
  BY DEF IInv
<1>2. stream \in Seq(Byte) /\ got[d] \in 0..Len(stream)
  BY <1>1, Given DEF TypeOK
<1>3. Stream(d) = SubSeq(stream, 1, got[d]) /\ Stream(d)' = SubSeq(stream, 1, n)
  BY DEF Stream
<1>4. Buffer(d)' = SubSeq(stream, base[d] + 1, n)
  BY DEF Buffer
<1>5. CASE d \in closed
  <2>1. cut
    BY <1>5, OnlyWhenCut
  <2> QED
    BY <1>5, <2>1 DEF Passing
<1>6. CASE d \notin closed
  <2>1. Clean(Stream(d), base[d]) /\ shown[d] \in Seq(Harmless(Stream(d), base[d]))
    BY <1>1, <1>6 DEF Passing
  <2>2. /\ Clean(SubSeq(stream, 1, n), base[d])
        /\ shown[d] \in Seq(Harmless(SubSeq(stream, 1, n), base[d])) /\ shown[d] \in Seq(Harmless(SubSeq(stream, 1, n), n))
        /\ Whole(SubSeq(stream, 1, n), base[d]) = Whole(SubSeq(stream, 1, got[d]), base[d])
    BY <1>2, <1>3, <2>1, TakesMore
  <2>3. ~copyErr => shown[d] = Whole(Stream(d), base[d])
    BY <1>1, <1>6 DEF Passing
  <2>4. d # "read" /\ ~(d = "log" /\ d = "console")
    BY DEF Destination
  <2> QED
    BY <1>3, <1>4, <1>6, <2>2, <2>3, <2>4 DEF Passing
<1> QED
  BY <1>5, <1>6

\* The chunk of d has been written: d has what the redactor has passed on.
LEMMA WritePasses ==
  ASSUME IInv, NEW d \in Destination, copier = d, copier' \in {"read", "console"}, copier' # d,
         stream' = stream, got'[d] = got[d], closed' = closed, cut' = cut, copyErr' = copyErr, closeErr' = closeErr,
         shown'[d] = shown[d] \o chunk.out,
         base'[d] = IF d \in closed THEN base[d] ELSE chunk.upto
  PROVE  Passing(d)' /\ base'[d] \in Nat /\ base'[d] <= got[d]
<1>1. TypeOK /\ Accounted /\ Passing(d) /\ d # "ended"
  BY DEF IInv, Destination
<1>2. /\ got[d] \in Nat /\ base[d] \in 0..got[d]
      /\ Stream(d) \in Seq(Byte) /\ Len(Stream(d)) = got[d]
      /\ Buffer(d) = SubSeq(Stream(d), base[d] + 1, Len(Stream(d)))
  BY <1>1, Given
<1>3. Stream(d)' = Stream(d)
  BY DEF Stream
<1>4. CASE d \in closed
  <2>1. cut
    BY <1>1, <1>4, OnlyWhenCut
  <2>2. d \in closed' /\ cut'
    BY <1>4, <2>1
  <2>3. Passing(d)'
    BY <2>2 DEF Passing
  <2>4. base'[d] = base[d]
    BY <1>4
  <2> QED
    BY <1>2, <2>3, <2>4
<1>5. CASE d \notin closed
  <2>1. PICK G : G = Stream(d)
    OBVIOUS
  <2>2. PICK b : b = base[d]
    OBVIOUS
  <2>3. PICK c : c = chunk.upto
    OBVIOUS
  <2>4. /\ Clean(G, b) /\ shown[d] \in Seq(Harmless(G, b))
        /\ (~copyErr => shown[d] = Whole(G, b))
        /\ chunk.out = Emission(b, Buffer(d)) /\ c = b + EmitEnd(Buffer(d))
    BY <1>1, <1>5, <2>1, <2>2, <2>3 DEF Passing
  <2>5. G \in Seq(Byte) /\ Buffer(d) = SubSeq(G, b + 1, Len(G)) /\ Len(G) = got[d]
    BY <1>2, <2>1, <2>2
  <2>6. /\ c \in b..Len(G)
        /\ Whole(G, c) = Whole(G, b) \o Emission(b, Buffer(d))
        /\ Emission(b, Buffer(d)) \in Seq(Harmless(G, c))
    BY <2>4, <2>5, EmissionJoins
  <2>7. Clean(G, c) /\ Settled(G, c)
    BY <2>4, <2>5, CutIsClean, CutIsSettled
  <2>8. c \in Nat /\ c <= got[d] /\ b <= c /\ Prefix(G, G)
    BY <1>2, <2>2, <2>5, <2>6, PrefixTrivial
  <2>9. Harmless(G, b) \subseteq Harmless(G, c) /\ Harmless(G, c) \subseteq Harmless(G, got[d])
    BY <1>2, <2>4, <2>5, <2>7, <2>8, HarmlessGrows
  <2>10. shown[d] \in Seq(Harmless(G, c))
    BY <2>4, <2>9, SeqMonotone
  <2>11. shown'[d] \in Seq(Harmless(G, c))
    BY <2>4, <2>6, <2>10, ConcatProperties
  <2>12. shown'[d] \in Seq(Harmless(G, got[d]))
    BY <2>9, <2>11, SeqMonotone
  <2>13. ~copyErr => shown'[d] = Whole(G, c)
    BY <2>4, <2>6, Zenon
  <2>14. base'[d] = c
    BY <1>5, <2>3
  <2>15. Passing(d)'
    BY <1>1, <1>3, <1>5, <2>1, <2>7, <2>11, <2>12, <2>13, <2>14 DEF Passing
  <2> QED
    BY <2>8, <2>14, <2>15
<1> QED
  BY <1>4, <1>5

\* A part of what was to be passed on is as harmless as the whole.
LEMMA RefusalPasses ==
  ASSUME IInv, NEW d \in Destination, copier = d, copier' = "ended", copyErr',
         stream' = stream, got'[d] = got[d], base'[d] = base[d], closed' = closed, cut' = cut, closeErr' = closeErr,
         NEW n, n \in 0..(Len(chunk.out) - 1), shown'[d] = shown[d] \o SubSeq(chunk.out, 1, n)
  PROVE  Passing(d)'
<1>1. TypeOK /\ Accounted /\ Passing(d) /\ d # "ended"
  BY DEF IInv, Destination
<1>2. /\ got[d] \in Nat /\ base[d] \in 0..got[d]
      /\ Stream(d) \in Seq(Byte) /\ Len(Stream(d)) = got[d]
      /\ Buffer(d) = SubSeq(Stream(d), base[d] + 1, Len(Stream(d)))
  BY <1>1, Given
<1>3. Stream(d)' = Stream(d)
  BY DEF Stream
<1>4. CASE d \in closed
  <2>1. cut
    BY <1>1, <1>4, OnlyWhenCut
  <2>2. d \in closed' /\ cut'
    BY <1>4, <2>1
  <2>3. Passing(d)'
    BY <2>2 DEF Passing
  <2>4. base'[d] = base[d]
    BY <1>4
  <2> QED
    BY <1>2, <2>3, <2>4
<1>5. CASE d \notin closed
  <2>1. PICK G : G = Stream(d)
    OBVIOUS
  <2>2. PICK b : b = base[d]
    OBVIOUS
  <2>3. PICK c : c = chunk.upto
    OBVIOUS
  <2>4. /\ Clean(G, b) /\ shown[d] \in Seq(Harmless(G, got[d]))
        /\ chunk.out = Emission(b, Buffer(d)) /\ c = b + EmitEnd(Buffer(d))
    BY <1>1, <1>5, <2>1, <2>2, <2>3 DEF Passing
  <2>5. G \in Seq(Byte) /\ Buffer(d) = SubSeq(G, b + 1, Len(G)) /\ Len(G) = got[d]
    BY <1>2, <2>1, <2>2
  <2>0. /\ c \in b..Len(G)
        /\ Emission(b, Buffer(d)) \in Seq(Harmless(G, c))
    BY <2>4, <2>5, EmissionJoins
  <2>6. c \in b..Len(G) /\ chunk.out \in Seq(Harmless(G, c))
    BY <2>4, <2>0, Zenon
  <2>7. Clean(G, c)
    BY <2>4, <2>5, CutIsClean
  <2>8. c <= got[d] /\ Prefix(G, G)
    BY <1>2, <2>2, <2>5, <2>6, PrefixTrivial
  <2>9. Harmless(G, c) \subseteq Harmless(G, got[d])
    BY <1>2, <2>5, <2>7, <2>8, HarmlessGrows
  <2>10. chunk.out \in Seq(Harmless(G, got[d]))
    BY <2>6, <2>9, SeqMonotone
  <2>11. SubSeq(chunk.out, 1, n) \in Seq(Harmless(G, got[d]))
    <3>1. 0 \in 0..Len(chunk.out) /\ n \in 0..Len(chunk.out)
      BY <2>10
    <3>2. SubSeq(chunk.out, 0 + 1, n) \in Seq(Harmless(G, got[d]))
      BY <2>10, <3>1, PartIs
    <3>3. 0 + 1 = 1
      OBVIOUS
    <3> QED
      BY <3>2, <3>3
  <2>12. shown'[d] \in Seq(Harmless(G, got[d]))
    BY <2>4, <2>11, ConcatProperties
  <2> QED
    BY <1>1, <1>3, <1>5, <2>1, <2>2, <2>4, <2>12 DEF Passing
<1> QED
  BY <1>4, <1>5

\* The copier reads from the pipe and gives the bytes to the log.
LEMMA TakeChunkKeeps ==
  ASSUME IInv, TakeChunk
  PROVE  IInv'
<1>1. TypeOK /\ Accounted /\ Flow
  BY DEF IInv
<1>2. PICK n \in (taken + 1)..Len(stream) : taken' = n /\ Begin("log", n)
  BY DEF TakeChunk
<1>3. /\ copier = "read" /\ copier' = "log"
      /\ got' = [got EXCEPT !["log"] = n]
      /\ chunk' = [out |-> Emission(base["log"], SubSeq(stream, base["log"] + 1, n)),
                   upto |-> base["log"] + EmitEnd(SubSeq(stream, base["log"] + 1, n))]
      /\ UNCHANGED <<mode, pc, canceled, waitErr, proc, outside, unread, found, stream, reading, base, shown,
                     closed, copyErr, closeErr, cut, failed, result>>
  BY <1>2 DEF TakeChunk, Begin, Copy, groupVars, scanVars
<1>4. ControlType /\ PipeType
  BY <1>1, TypeParts
<1>5. taken \in Nat /\ Len(stream) \in Nat /\ n \in Nat /\ n \in 0..Len(stream) /\ taken < n
  BY <1>4 DEF PipeType
<1>6. /\ got["log"] = taken /\ got["console"] = taken /\ got'["log"] = n /\ got'["console"] = taken
      /\ got' \in [Destination -> Nat]
  BY <1>1, <1>3, <1>4, <1>5 DEF Flow, PipeType, Destination
<1>7. TypeOK'
  <2>1. ControlType'
    BY <1>3, <1>4 DEF ControlType
  <2>2. PipeType'
    BY <1>2, <1>3, <1>4, <1>5, <1>6 DEF PipeType, Destination
  <2> QED
    BY <2>1, <2>2, TypePartsNext
<1>8. Accounted'
  <2>1. base["log"] <= got["log"] /\ base["console"] <= got["console"] /\ base["log"] \in Nat /\ base["console"] \in Nat
    BY <1>1, <1>4 DEF Accounted, PipeType, Destination
  <2> QED
    BY <1>2, <1>3, <1>5, <1>6, <2>1 DEF Accounted, Destination
<1>9. Flow'
  BY <1>1, <1>2, <1>3, <1>6 DEF Flow, Started, Live
<1>10. Passing("log")'
  <2>1. n \in got["log"]..Len(stream)
    BY <1>5, <1>6
  <2>2. "log" \in Destination
    BY DEF Destination
  <2>3. /\ chunk'.out = Emission(base["log"], SubSeq(stream, base["log"] + 1, n))
        /\ chunk'.upto = base["log"] + EmitEnd(SubSeq(stream, base["log"] + 1, n))
    BY <1>3
  <2> QED
    BY <1>3, <1>6, <2>1, <2>2, <2>3, BeginPasses
<1>11. Passing("console")'
  <2>1. Passing("console")
    BY DEF IInv, Destination
  <2>2. Stream("console")' = Stream("console") /\ Buffer("console")' = Buffer("console")
    BY <1>3, <1>6 DEF Stream, Buffer
  <2> QED
    BY <1>3, <1>6, <2>1, <2>2 DEF Passing
<1> QED
  BY <1>7, <1>8, <1>9, <1>10, <1>11 DEF IInv, Destination

\* A destination refuses a chunk: the copier gives up and says so.
LEMMA RefusedKeeps ==
  ASSUME IInv, NEW kind, Refused(kind)
  PROVE  IInv'
<1>1. TypeOK /\ Accounted /\ Flow
  BY DEF IInv
<1>2. PICK n \in 0..(Len(chunk.out) - 1) : shown' = [shown EXCEPT ![copier] = @ \o SubSeq(chunk.out, 1, n)]
  BY DEF Refused
<1>3. /\ copier \in Destination /\ copier' = "ended" /\ reading' = FALSE /\ copyErr' = TRUE /\ failed' = TRUE
      /\ UNCHANGED <<mode, pc, canceled, waitErr, proc, outside, unread, found, stream, taken, base, got,
                     closed, closeErr, cut, result>>
  BY DEF Refused, Copy, groupVars, scanVars
<1>4. ControlType /\ PipeType
  BY <1>1, TypeParts
<1>5. TypeOK'
  <2>1. ControlType'
    BY <1>3, <1>4 DEF ControlType
  <2>2. PipeType'
    BY <1>3, <1>4 DEF PipeType
  <2> QED
    BY <2>1, <2>2, TypePartsNext
<1>6. Accounted'
  BY <1>1, <1>3 DEF Accounted
<1>7. DOMAIN shown' = Destination
  BY <1>1, <1>2 DEF Flow
<1>8. Flow'
  <2>1. copier # "ended" /\ copier # "read"
    BY <1>3 DEF Destination
  <2>2. mode = "RunGroup" /\ result = "exit" => cut
    BY <1>1, <1>3, <2>1 DEF Flow
  <2> QED
    BY <1>1, <1>3, <1>7, <2>1, <2>2 DEF Flow, Started, Live
<1>9. ASSUME NEW d \in Destination PROVE Passing(d)'
  <2>1. CASE d = copier
    <3>1. shown'[d] = shown[d] \o SubSeq(chunk.out, 1, n)
      BY <1>1, <1>2, <2>1 DEF Flow
    <3> QED
      BY <1>3, <2>1, <3>1, RefusalPasses
  <2>2. CASE d # copier
    <3>1. shown'[d] = shown[d]
      BY <1>1, <1>2, <2>2 DEF Flow
    <3>2. Stream(d)' = Stream(d) /\ Passing(d)
      BY <1>3 DEF Stream, IInv
    <3>3. copier' # d
      BY <1>3 DEF Destination
    <3> QED
      BY <1>3, <3>1, <3>2, <3>3 DEF Passing
  <2> QED
    BY <2>1, <2>2
<1> QED
  BY <1>5, <1>6, <1>8, <1>9 DEF IInv

\* The redactor goes on after a write.
GoesOn ==
  /\ base' = IF copier \in closed THEN base ELSE [base EXCEPT ![copier] = chunk.upto]
  /\ IF copier = "log" THEN Begin("console", taken)
     ELSE copier' = "read" /\ chunk' = NoChunk /\ got' = got
  /\ UNCHANGED <<reading, copyErr>>

\* The redactor keeps what it holds back, and the next destination follows.
LEMMA GoesOnKeeps ==
  ASSUME IInv, Written, GoesOn
  PROVE  IInv'
<1>1. TypeOK /\ Accounted /\ Flow
  BY DEF IInv
<1>2. /\ copier \in Destination /\ shown' = [shown EXCEPT ![copier] = @ \o chunk.out]
      /\ UNCHANGED <<mode, pc, canceled, waitErr, proc, outside, unread, found, stream, taken, reading,
                     closed, copyErr, closeErr, cut, failed, result>>
  BY DEF Written, Copy, groupVars, scanVars, GoesOn
<1>3. ControlType /\ PipeType
  BY <1>1, TypeParts
<1>4. base \in [Destination -> Nat] /\ got \in [Destination -> Nat] /\ DOMAIN shown = Destination
  BY <1>1, <1>3 DEF PipeType, Flow
<1>5. ControlType'
  BY <1>2, <1>3 DEF ControlType
<1>6. /\ DOMAIN shown' = Destination
      /\ shown'[copier] = shown[copier] \o chunk.out
      /\ \A d \in Destination : d # copier => shown'[d] = shown[d] /\ base'[d] = base[d]
  BY <1>2, <1>4 DEF GoesOn
<1>7. base'[copier] = IF copier \in closed THEN base[copier] ELSE chunk.upto
  BY <1>2, <1>4 DEF GoesOn
<1>8. \A d \in Destination : got[d] \in Nat /\ got[d] <= taken /\ base[d] <= got[d] /\ base[d] \in Nat
  <2> SUFFICES ASSUME NEW d \in Destination PROVE got[d] \in Nat /\ got[d] <= taken /\ base[d] <= got[d] /\ base[d] \in Nat
    OBVIOUS
  <2>1. got[d] \in Nat /\ got[d] <= taken /\ base[d] \in 0..got[d] /\ base[d] \in Nat
    BY <1>1, Given
  <2> QED
    BY <2>1
<1>9. taken \in 0..Len(stream) /\ taken \in Nat /\ Len(stream) \in Nat
  BY <1>3 DEF PipeType
<1>10. CASE copier = "log"
  <2>1. /\ copier' = "console" /\ got' = [got EXCEPT !["console"] = taken]
        /\ chunk'.out = Emission(base["console"], SubSeq(stream, base["console"] + 1, taken))
        /\ chunk'.upto = base["console"] + EmitEnd(SubSeq(stream, base["console"] + 1, taken))
    <3>1. "console" # copier /\ "console" \in Destination
      BY <1>10 DEF Destination
    <3>2. base'["console"] = base["console"]
      BY <1>6, <3>1
    <3>3. /\ copier' = "console" /\ got' = [got EXCEPT !["console"] = taken]
          /\ chunk' = [out |-> Emission(base["console"], SubSeq(stream, base["console"] + 1, taken)),
                       upto |-> base["console"] + EmitEnd(SubSeq(stream, base["console"] + 1, taken))]
      BY <1>10 DEF GoesOn, Begin
    <3> QED
      BY <3>3
  <2>2. /\ "log" \in Destination /\ "console" \in Destination /\ "console" # "log"
        /\ \A d \in Destination : d = "log" \/ d = "console"
    BY DEF Destination
  <2>3. got'["console"] = taken /\ got'["log"] = got["log"]
    BY <1>4, <2>1, <2>2
  <2>4. Passing("log")' /\ base'["log"] \in Nat /\ base'["log"] <= got["log"]
    BY <1>2, <1>6, <1>7, <1>10, <2>1, <2>2, <2>3, WritePasses
  <2>5. taken \in got["console"]..Len(stream)
    BY <1>8, <1>9, <2>2
  <2>6. Passing("console")'
    BY <1>2, <1>6, <1>10, <2>1, <2>2, <2>3, <2>5, BeginPasses
  <2>7. got' \in [Destination -> Nat] /\ base' \in [Destination -> Nat]
    <3>1. got' \in [Destination -> Nat]
      BY <1>4, <1>9, <2>1
    <3>2. base' \in [Destination -> Nat]
      BY <1>4, <1>7, <1>10, <2>2, <2>4 DEF GoesOn
    <3> QED
      BY <3>1, <3>2
  <2>8. PipeType'
    BY <1>2, <1>3, <2>1, <2>2, <2>7 DEF PipeType
  <2>9. TypeOK'
    BY <1>5, <2>8, TypePartsNext
  <2>10. got["log"] = taken
    BY <1>1 DEF Flow
  <2>11. Accounted'
    <3>1. base'["console"] = base["console"] /\ base["console"] <= got["console"] /\ got["console"] <= taken
      BY <1>6, <1>8, <1>10, <2>2
    <3>2. base'["console"] <= taken
      BY <1>8, <1>9, <2>2, <3>1
    <3>3. \A d \in Destination : base'[d] <= got'[d]
      BY <2>2, <2>3, <2>4, <3>2
    <3> QED
      BY <1>2, <1>9, <2>3, <2>10, <3>3 DEF Accounted
  <2>12. Flow'
    BY <1>1, <1>2, <1>6, <1>10, <2>1, <2>3, <2>10 DEF Flow, Started, Live
  <2> QED
    BY <2>2, <2>4, <2>6, <2>9, <2>11, <2>12 DEF IInv
<1>11. CASE copier = "console"
  <2>1. copier' = "read" /\ chunk' = NoChunk /\ got' = got
    BY <1>11 DEF GoesOn
  <2>2. /\ "log" \in Destination /\ "console" \in Destination /\ "console" # "log"
        /\ \A d \in Destination : d = "log" \/ d = "console"
    BY DEF Destination
  <2>3. Passing("console")' /\ base'["console"] \in Nat /\ base'["console"] <= got["console"]
    BY <1>2, <1>6, <1>7, <1>11, <2>1, <2>2, WritePasses
  <2>4. shown'["log"] = shown["log"] /\ base'["log"] = base["log"]
    BY <1>6, <1>11, <2>2
  <2>5. Passing("log")'
    <3>1. Passing("log")
      BY <2>2 DEF IInv
    <3>2. Stream("log")' = Stream("log") /\ Buffer("log")' = Buffer("log")
      BY <1>2, <2>1, <2>4 DEF Stream, Buffer
    <3> QED
      BY <1>2, <1>11, <2>1, <2>4, <3>1, <3>2 DEF Passing
  <2>6. base' \in [Destination -> Nat]
    BY <1>4, <1>7, <1>11, <2>2, <2>3 DEF GoesOn
  <2>7. PipeType'
    BY <1>2, <1>3, <2>1, <2>6 DEF PipeType
  <2>8. TypeOK'
    BY <1>5, <2>7, TypePartsNext
  <2>9. Accounted'
    BY <1>1, <1>2, <2>1, <2>2, <2>3, <2>4 DEF Accounted
  <2>10. Flow'
    BY <1>1, <1>2, <1>6, <1>11, <2>1 DEF Flow, Started, Live
  <2> QED
    BY <2>2, <2>3, <2>5, <2>8, <2>9, <2>10 DEF IInv
<1> QED
  BY <1>2, <1>10, <1>11 DEF Destination

\* A destination has taken its chunk.
LEMMA WrittenKeeps ==
  ASSUME IInv, Written
  PROVE  IInv'
<1>1. TypeOK /\ Accounted /\ Flow
  BY DEF IInv
<1>2. CASE GoesOn
  BY <1>2, GoesOnKeeps
<1>3. CASE /\ copier \in closed
           /\ copier' = "ended" /\ chunk' = NoChunk /\ reading' = FALSE /\ copyErr' = TRUE
           /\ UNCHANGED <<base, got>>
  <2>1. /\ copier \in Destination /\ shown' = [shown EXCEPT ![copier] = @ \o chunk.out]
        /\ UNCHANGED <<mode, pc, canceled, waitErr, proc, outside, unread, found, stream, taken,
                       closed, closeErr, cut, failed, result>>
    BY DEF Written, Copy, groupVars, scanVars
  <2>2. cut /\ copier # "ended"
    BY <1>3, <2>1, OnlyWhenCut DEF Destination
  <2>3. ControlType /\ PipeType
    BY <1>1, TypeParts
  <2>4. TypeOK'
    <3>1. ControlType'
      BY <2>1, <2>3 DEF ControlType
    <3>2. PipeType'
      BY <1>3, <2>1, <2>3 DEF PipeType
    <3> QED
      BY <3>1, <3>2, TypePartsNext
  <2>5. Accounted'
    BY <1>1, <1>3, <2>1 DEF Accounted
  <2>6. DOMAIN shown' = Destination
    BY <1>1, <2>1 DEF Flow
  <2>7. Flow'
    BY <1>1, <1>3, <2>1, <2>2, <2>6 DEF Flow, Started, Live
  <2>8. ASSUME NEW d \in Destination PROVE Passing(d)'
    <3>1. CASE d = copier
      BY <1>3, <2>1, <2>2, <3>1 DEF Passing, Destination
    <3>2. CASE d # copier
      <4>1. shown'[d] = shown[d]
        BY <1>1, <2>1, <3>2 DEF Flow
      <4>2. Stream(d)' = Stream(d) /\ Passing(d)
        BY <1>3, <2>1 DEF Stream, IInv
      <4>3. copier' # d
        BY <1>3 DEF Destination
      <4> QED
        BY <1>3, <2>1, <4>1, <4>2, <4>3 DEF Passing
    <3> QED
      BY <3>1, <3>2
  <2> QED
    BY <2>4, <2>5, <2>7, <2>8 DEF IInv
<1> QED
  BY <1>2, <1>3 DEF Written, GoesOn

\* A redactor is closed: it passes on the rest, unless the copier still runs.
LEMMA CloseKeeps ==
  ASSUME IInv, NEW d \in Destination, Close(d)
  PROVE  IInv'
<1>1. TypeOK /\ Accounted /\ Flow
  BY DEF IInv
<1>2. PICK out : out = Rest(base[d], Buffer(d))
  OBVIOUS
<1>3. /\ Closing(d) /\ closed' = closed \cup {d} /\ base' = [base EXCEPT ![d] = got[d]]
      /\ \/ /\ shown' = [shown EXCEPT ![d] = @ \o out]
            /\ UNCHANGED <<closeErr, failed>>
         \/ \E n \in 0..(Len(out) - 1) :
              /\ shown' = [shown EXCEPT ![d] = @ \o SubSeq(out, 1, n)]
              /\ closeErr' = TRUE /\ failed' = TRUE
      /\ pc' = IF d = "console" THEN "close log" ELSE "returned"
      /\ UNCHANGED <<mode, canceled, waitErr, proc, outside, unread, found, stream, taken, reading, copier, chunk,
                     got, copyErr, cut, result>>
  BY <1>2 DEF Close, groupVars, scanVars, pipeVars
<1>4. d \notin closed /\ pc \in Closings
  BY <1>1, <1>3 DEF Flow, Closing, Closings, Destination
<1>5. /\ got[d] \in Nat /\ base[d] \in 0..got[d] /\ base[d] \in Nat
      /\ Stream(d) \in Seq(Byte) /\ Len(Stream(d)) = got[d]
      /\ Buffer(d) = SubSeq(Stream(d), base[d] + 1, Len(Stream(d)))
  BY <1>1, Given
<1>6. ControlType /\ PipeType
  BY <1>1, TypeParts
<1>7. failed' \in BOOLEAN /\ closeErr' \in BOOLEAN /\ (failed => failed') /\ (closeErr => closeErr')
  BY <1>3, <1>6 DEF PipeType
<1>8. DOMAIN shown' = Destination /\ \A e \in Destination : e # d => shown'[e] = shown[e] /\ base'[e] = base[e]
  BY <1>1, <1>3, <1>6 DEF Flow, PipeType
<1>9. base' \in [Destination -> Nat] /\ base'[d] = got[d]
  BY <1>3, <1>5, <1>6 DEF PipeType
<1>10. TypeOK'
  <2>1. ControlType'
    BY <1>3, <1>6 DEF ControlType
  <2>2. PipeType'
    BY <1>3, <1>6, <1>7, <1>9 DEF PipeType
  <2> QED
    BY <2>1, <2>2, TypePartsNext
<1>11. Accounted'
  <2>1. /\ got["console"] <= got["log"] /\ got["log"] <= taken
        /\ \A e \in Destination : base[e] <= got[e]
    BY <1>1 DEF Accounted
  <2>2. ASSUME NEW e \in Destination PROVE base'[e] <= got[e]
    <3>1. CASE e = d
      BY <1>5, <1>9, <3>1
    <3>2. CASE e # d
      BY <1>8, <2>1, <3>2
    <3> QED
      BY <3>1, <3>2
  <2> QED
    BY <1>3, <2>1, <2>2 DEF Accounted
<1>12. Flow'
  <2>1. copier # "ended" => cut
    BY <1>1, <1>4 DEF Flow
  <2>0. /\ DOMAIN shown' = Destination /\ (failed => failed')
        /\ UNCHANGED <<mode, waitErr, proc, stream, taken, reading, copier, got, copyErr, cut, result>>
        /\ closed' = closed \cup {d}
    BY <1>3, <1>7, <1>8
  <2>2. CASE d = "console"
    <3>1. pc = "close console" /\ pc' = "close log"
      BY <1>3, <2>2 DEF Closing
    <3> QED
      BY <1>1, <2>0, <2>1, <2>2, <3>1 DEF Flow, Started, Live, Closings
  <2>3. CASE d = "log"
    <3>1. pc = "close log" /\ pc' = "returned"
      BY <1>3, <2>3 DEF Closing
    <3>2. closed' = Destination
      BY <1>1, <1>6, <2>0, <2>3, <3>1 DEF Flow, PipeType, Destination
    <3> QED
      BY <1>1, <2>0, <2>1, <2>3, <3>1, <3>2 DEF Flow, Started, Live, Closings
  <2> QED
    BY <2>2, <2>3 DEF Destination
<1>13. Passing(d)'
  <2>1. copier # "ended" => cut
    BY <1>1, <1>4 DEF Flow
  <2>2. Stream(d)' = Stream(d) /\ d \in closed' /\ Passing(d)
    BY <1>3 DEF Stream, IInv
  <2>3. CASE cut
    BY <1>3, <2>2, <2>3 DEF Passing
  <2>4. CASE ~cut
    <3>1. PICK G : G = Stream(d)
      OBVIOUS
    <3>2. PICK b : b = base[d]
      OBVIOUS
    <3>3. /\ Clean(G, b) /\ shown[d] \in Seq(Harmless(G, got[d]))
          /\ (~copyErr => shown[d] = Whole(G, b))
      BY <1>4, <2>2, <3>1, <3>2 DEF Passing
    <3>4. G \in Seq(Byte) /\ Buffer(d) = SubSeq(G, b + 1, Len(G)) /\ Len(G) = got[d] /\ out = Rest(b, Buffer(d))
      BY <1>2, <1>5, <3>1, <3>2
    <3>5. /\ Redacted(G) = Whole(G, b) \o Rest(b, Buffer(d))
          /\ Rest(b, Buffer(d)) \in Seq(Harmless(G, Len(G)))
      BY <3>3, <3>4, RestJoins
    <3>6. out \in Seq(Harmless(G, got[d])) /\ Redacted(G) = Whole(G, b) \o out
      BY <3>4, <3>5, Zenon
    <3>7. shown'[d] \in Seq(Harmless(G, got[d]))
      <4>1. CASE shown' = [shown EXCEPT ![d] = @ \o out]
        <5>1. shown'[d] = shown[d] \o out
          BY <1>1, <4>1 DEF Flow
        <5> QED
          BY <3>3, <3>6, <5>1, ConcatProperties
      <4>2. ASSUME NEW n \in 0..(Len(out) - 1), shown' = [shown EXCEPT ![d] = @ \o SubSeq(out, 1, n)]
            PROVE  shown'[d] \in Seq(Harmless(G, got[d]))
        <5>1. 0 \in 0..Len(out) /\ n \in 0..Len(out)
          BY <3>6
        <5>2. SubSeq(out, 0 + 1, n) \in Seq(Harmless(G, got[d]))
          BY <3>6, <5>1, PartIs
        <5>3. 0 + 1 = 1
          OBVIOUS
        <5>4. SubSeq(out, 1, n) \in Seq(Harmless(G, got[d]))
          BY <5>2, <5>3
        <5>5. shown'[d] = shown[d] \o SubSeq(out, 1, n)
          BY <1>1, <4>2 DEF Flow
        <5> QED
          BY <3>3, <5>4, <5>5, ConcatProperties
      <4> QED
        BY <1>3, <4>1, <4>2
    <3>8. ~copyErr /\ ~closeErr' => shown'[d] = Redacted(G)
      <4> SUFFICES ASSUME ~copyErr, ~closeErr' PROVE shown'[d] = Redacted(G)
        OBVIOUS
      <4>1. shown' = [shown EXCEPT ![d] = @ \o out]
        BY <1>3
      <4>2. shown'[d] = shown[d] \o out
        BY <1>1, <4>1 DEF Flow
      <4> QED
        BY <3>3, <3>6, <4>2, Zenon
    <3>9. copier = "ended" /\ d # "ended"
      BY <2>1, <2>4 DEF Destination
    <3> QED
      BY <1>3, <2>2, <2>4, <3>1, <3>7, <3>8, <3>9 DEF Passing
  <2> QED
    BY <2>3, <2>4
<1>14. ASSUME NEW e \in Destination, e # d PROVE Passing(e)'
  <2>1. Passing(e)
    BY DEF IInv
  <2>2. Stream(e)' = Stream(e) /\ Buffer(e)' = Buffer(e) /\ shown'[e] = shown[e] /\ base'[e] = base[e]
    BY <1>3, <1>8, <1>14 DEF Stream, Buffer
  <2>3. e \in closed' <=> e \in closed
    BY <1>3, <1>14
  <2> QED
    BY <1>3, <1>7, <2>1, <2>2, <2>3 DEF Passing
<1> QED
  BY <1>10, <1>11, <1>12, <1>13, <1>14 DEF IInv

\* Every step preserves the invariant.
LEMMA NextKeeps == IInv /\ [Next]_vars => IInv'
<1> SUFFICES ASSUME IInv, [Next]_vars PROVE IInv'
  OBVIOUS
<1>1. CASE Command
  <2>1. ASSUME NEW p \in Proc, NEW q \in Proc, Fork(p, q) PROVE IInv'
    BY <2>1, ForkKeeps
  <2>2. ASSUME NEW p \in Proc, Escape(p) PROVE IInv'
    BY <2>2, EscapeKeeps
  <2>3. ASSUME NEW p \in Proc, NEW status \in {"zero", "nonzero", "signal"}, Exit(p, status) PROVE IInv'
    BY <2>3, ExitKeeps
  <2>4. ASSUME NEW p \in Proc, NEW b \in Byte, WriteByte(p, b) PROVE IInv'
    BY <2>4, WriteByteKeeps
  <2> QED
    BY <1>1, <2>1, <2>2, <2>3, <2>4 DEF Command
<1>2. CASE Cancel
  BY <1>2, CancelKeeps
<1>3. CASE Main
  <2>1. CASE OpenFails \/ Start \/ StartFails \/ Aborted \/ KillLeader \/ Waited \/ EndRun
    BY <2>1, OpenFailsKeeps, StartKeeps, StartFailsKeeps, AbortedKeeps, KillLeaderKeeps, WaitedKeeps, EndRunKeeps
  <2>2. CASE List \/ AskKernel \/ Looked \/ Polled
    BY <2>2, ListKeeps, AskKernelKeeps, LookedKeeps, PolledKeeps
  <2>3. ASSUME NEW p \in Proc, ReadStat(p) PROVE IInv'
    BY <2>3, ReadStatKeeps
  <2>4. CASE Abandon \/ Copied \/ GiveUp
    BY <2>4, AbandonKeeps, CopiedKeeps, GiveUpKeeps
  <2> QED
    BY <1>3, <2>1, <2>2, <2>3, <2>4 DEF Main
<1>4. CASE Tick \/ KillGroup
  BY <1>4, TickKeeps, KillGroupKeeps
<1>5. CASE Copier
  <2>1. CASE TakeChunk \/ Written
    BY <2>1, TakeChunkKeeps, WrittenKeeps
  <2>2. CASE MeetsEnd \/ MeetsClosed
    BY <2>2, MeetsEndKeeps
  <2>3. ASSUME NEW kind \in {"error", "closed"}, Refused(kind) PROVE IInv'
    BY <2>3, RefusedKeeps
  <2> QED
    BY <1>5, <2>1, <2>2, <2>3 DEF Copier
<1>6. ASSUME NEW d \in Destination, Close(d) PROVE IInv'
  BY <1>6, CloseKeeps
<1>7. CASE UNCHANGED vars
  <2>1. /\ UNCHANGED <<mode, pc, canceled, waitErr, proc, outside, unread, found, stream, taken, reading, copier>>
        /\ UNCHANGED <<chunk, base, got, shown, closed, copyErr, closeErr, cut, failed, result>>
    BY <1>7 DEF vars, groupVars, scanVars, pipeVars, writerVars
  <2>2. TypeOK /\ Accounted /\ Flow
    BY DEF IInv
  <2>3. TypeOK'
    <3>1. ControlType'
      BY <2>1, <2>2 DEF TypeOK, ControlType
    <3>2. PipeType'
      BY <2>1, <2>2 DEF TypeOK, PipeType
    <3> QED
      BY <3>1, <3>2, TypePartsNext
  <2>4. Accounted' /\ Flow'
    BY <2>1, <2>2 DEF Accounted, Flow, Started, Live
  <2>5. \A d \in Destination : Passing(d)'
    BY <2>1, Quiet DEF IInv
  <2> QED
    BY <2>3, <2>4, <2>5 DEF IInv
<1> QED
  BY <1>1, <1>2, <1>3, <1>4, <1>5, <1>6, <1>7 DEF Next

\* The invariant holds of every state of RunGroup.
LEMMA IInvHolds == Spec => []IInv
<1>1. Init => IInv
  BY InitInv
<1>2. IInv /\ [Next]_vars => IInv'
  BY NextKeeps
<1> QED
  BY <1>1, <1>2, PTL DEF Spec

\* The type invariant of RunGroup, the marks of the redactors are in order, and
\* a chunk is in the hands of one destination only.
THEOREM GroupSafe == Spec => []GroupInv
<1>1. IInv => GroupInv
  <2> SUFFICES ASSUME IInv PROVE OneUser
    BY DEF IInv, GroupInv
  <2> QED
    BY DEF IInv, Flow, TypeOK, OneUser, Destination
<1> QED
  BY <1>1, IInvHolds, PTL

\* Neither the console nor the log shows a byte of a protected value, however
\* the value is spread over writes, and a redactor holds back no more than it
\* has to (Write, Close and render of the Writer).  Except for a destination
\* that was closed under an abandoned copier, where two use one redactor.
THEOREM StreamsRedacted == Spec => []Redacts
<1>1. IInv => Redacts
  <2> SUFFICES ASSUME IInv PROVE Redacts
    OBVIOUS
  <2>1. ASSUME NEW d \in Destination
        PROVE  \/ d \in closed /\ cut
               \/ \A i \in DOMAIN shown[d] :
                    shown[d][i].label = 0 => ~Secret(SubSeq(stream, 1, got[d]), shown[d][i].at)
    <3>1. CASE d \in closed /\ cut
      BY <3>1
    <3>2. CASE shown[d] \in Seq(Harmless(Stream(d), got[d]))
      <4> SUFFICES ASSUME NEW i \in DOMAIN shown[d]
                   PROVE  shown[d][i].label = 0 => ~Secret(SubSeq(stream, 1, got[d]), shown[d][i].at)
        OBVIOUS
      <4>1. i \in 1..Len(shown[d])
        BY <3>2
      <4>2. shown[d][i] \in Harmless(Stream(d), got[d])
        BY <3>2, <4>1, ElementOfSeq
      <4> QED
        BY <4>2 DEF Harmless, Stream
    <3> QED
      BY <3>1, <3>2 DEF IInv, Passing
  <2>2. HeldBack
    BY DEF IInv, Passing, Stream, HeldBack
  <2> QED
    BY <2>1, <2>2 DEF Redacts, NothingLeaks
<1> QED
  BY <1>1, IInvHolds, PTL

\* A run that reports the exit of its command, with no error on the way, has
\* delivered all of the output, as the reference renders it, to both (the wait
\* for the copier in runGroup, and Close of the redactors after it).
THEOREM OutputArrivesWhole == Spec => []OutputWhole
<1>1. IInv => OutputWhole
  <2> SUFFICES ASSUME IInv, pc = "returned", mode = "RunGroup", result = "exit", ~closeErr, ~cut,
                      failed => waitErr = "none", NEW d \in Destination
               PROVE  shown[d] = Redacted(stream)
    BY DEF OutputWhole
  <2>1. TypeOK /\ Accounted /\ Flow /\ Passing(d)
    BY DEF IInv
  <2>2. ~copyErr
    BY <2>1 DEF Flow
  <2>3. closed = Destination /\ closed # {}
    BY <2>1 DEF Flow, Destination
  <2>4. copier = "ended"
    BY <2>1, <2>3 DEF Flow
  <2>5. taken = Len(stream) /\ got["log"] = taken /\ got["console"] = taken
    BY <2>1, <2>2, <2>4 DEF Flow
  <2>6. got[d] = Len(stream)
    BY <2>5 DEF Destination
  <2>7. stream \in Seq(Byte)
    BY <2>1 DEF TypeOK
  <2>8. Stream(d) = stream
    <3>1. SubSeq(stream, 1, Len(stream)) = stream
      BY <2>7, SubSeqFull
    <3> QED
      BY <2>6, <3>1 DEF Stream
  <2>9. shown[d] = Redacted(Stream(d))
    BY <2>1, <2>2, <2>3 DEF Passing
  <2> QED
    BY <2>8, <2>9
<1> QED
  BY <1>1, IInvHolds, PTL

-----------------------------------------------------------------------------
(***************************************************************************)
(* The processes that are left.                                            *)
(***************************************************************************)
Reaped ==
  /\ ~Started => \A p \in Proc : ~Live(p)
  /\ pc = "ran" => mode # "RunGroup"
  /\ pc \in {"look", "scan", "select", "poll", "scan again", "drain", "abandoned"} \cup Closings => mode = "RunGroup"
  /\ pc \in {"scan", "scan again"} /\ ~ForksDuringScan /\ ~found => Members \subseteq unread
  /\ NoMemberLeft

\* No process is left before the command starts.
LEMMA ReapedInit == Init => Reaped
BY DEF Init, Reaped, Started, Live, Members, Ours, NoMemberLeft, Stopped, Closings

\* Every step preserves it: a member that lives is found or is still to be read.
LEMMA ReapedNext == TypeOK /\ Reaped /\ [Next]_vars => Reaped'
<1> SUFFICES ASSUME TypeOK, Reaped, [Next]_vars PROVE Reaped'
  OBVIOUS
<1> USE DEF Reaped, Started, Live, Members, Ours, NoMemberLeft, Stopped, Closings
<1>1. CASE Command
  <2>1. ASSUME NEW p \in Proc, NEW q \in Proc, Fork(p, q) PROVE Reaped'
    BY <2>1 DEF Fork, Processes, scanVars, TypeOK
  <2>2. ASSUME NEW p \in Proc, Escape(p) PROVE Reaped'
    BY <2>2 DEF Escape, Processes, scanVars
  <2>3. ASSUME NEW p \in Proc, NEW status \in {"zero", "nonzero", "signal"}, Exit(p, status) PROVE Reaped'
    BY <2>3 DEF Exit, Processes, scanVars, TypeOK
  <2>4. ASSUME NEW p \in Proc, NEW b \in Byte, WriteByte(p, b) PROVE Reaped'
    BY <2>4 DEF WriteByte, Processes, groupVars, scanVars
  <2> QED
    BY <1>1, <2>1, <2>2, <2>3, <2>4 DEF Command
<1>2. CASE Cancel
  BY <1>2 DEF Cancel, Group, groupVars, scanVars
<1>3. CASE Main
  <2>1. CASE OpenFails
    BY <2>1 DEF OpenFails, Group, groupVars, scanVars
  <2>2. CASE Start
    BY <2>2 DEF Start, Group, groupVars, scanVars
  <2>3. CASE StartFails
    BY <2>3 DEF StartFails, groupVars, scanVars
  <2>4. CASE Aborted
    BY <2>4 DEF Aborted, Group, groupVars, scanVars
  <2>5. CASE KillLeader
    BY <2>5 DEF KillLeader, Group, groupVars, scanVars, TypeOK
  <2>6. CASE Waited
    BY <2>6 DEF Waited, Group, groupVars, scanVars
  <2>7. CASE EndRun
    BY <2>7 DEF EndRun, Group, groupVars, scanVars, KillMembers, TypeOK
  <2>8. CASE List
    BY <2>8 DEF List, Group, groupVars, scanVars
  <2>9. ASSUME NEW p \in Proc, ReadStat(p) PROVE Reaped'
    BY <2>9 DEF ReadStat, Group, groupVars, scanVars
  <2>10. CASE AskKernel
    BY <2>10 DEF AskKernel, Group, groupVars, scanVars
  <2>11. CASE Looked
    BY <2>11 DEF Looked, Group, groupVars, scanVars
  <2>12. CASE Polled
    BY <2>12 DEF Polled, Group, groupVars, scanVars
  <2>13. CASE Abandon \/ Copied \/ GiveUp
    BY <2>13 DEF Abandon, Copied, GiveUp, Output, groupVars, scanVars
  <2> QED
    BY <1>3, <2>1, <2>2, <2>3, <2>4, <2>5, <2>6, <2>7, <2>8, <2>9, <2>10, <2>11, <2>12, <2>13 DEF Main
<1>4. CASE Tick
  BY <1>4 DEF Tick, Group, groupVars, scanVars
<1>5. CASE KillGroup
  BY <1>5 DEF KillGroup, Group, groupVars, scanVars, KillMembers, TypeOK
<1>6. CASE Copier
  <2>1. UNCHANGED <<mode, pc, waitErr, proc, outside, unread, found>>
    BY <1>6 DEF Copier, TakeChunk, MeetsEnd, MeetsClosed, Written, Refused, Copy, groupVars, scanVars
  <2> QED
    BY <2>1
<1>7. ASSUME NEW d \in Destination, Close(d) PROVE Reaped'
  <2>1. /\ UNCHANGED <<mode, waitErr, proc, outside, unread, found>>
        /\ pc \in Closings /\ pc' \in {"close log", "returned"}
    BY <1>7 DEF Close, Closing, groupVars, scanVars
  <2> QED
    BY <2>1
<1>8. CASE UNCHANGED vars
  BY <1>8 DEF vars, groupVars, scanVars
<1> QED
  BY <1>1, <1>2, <1>3, <1>4, <1>5, <1>6, <1>7, <1>8 DEF Next

\* Past the look for members no live process that configsctl may signal is left
\* in the group of RunGroup, if none forks while the processes are listed, and
\* none in that of a Run that was interrupted (liveMembers, stopGroup).
THEOREM GroupReaped == Spec => []NoMemberLeft
<1>1. Init => TypeOK /\ Reaped
  BY InitInv, ReapedInit DEF IInv
<1>2. TypeOK /\ Reaped /\ [Next]_vars => Reaped'
  BY ReapedNext
<1>3. GroupInv => TypeOK
  BY DEF GroupInv
<1>4. Reaped => NoMemberLeft
  BY DEF Reaped
<1> QED
  BY <1>1, <1>2, <1>3, <1>4, GroupSafe, PTL DEF Spec

=============================================================================
