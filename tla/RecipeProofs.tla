---------------------------- MODULE RecipeProofs ----------------------------
(***************************************************************************)
(* Theorems about RecipeBoot for every set of recipes, requests, worktrees *)
(* and host files.                                                         *)
(*                                                                         *)
(* Paths and lists are data of any length, so the module begins with what  *)
(* cleaning a path, flattening a list and sorting the mounts do for every  *)
(* input: by induction over numbers, which well-founded induction over the *)
(* finite sets gives for a set, no operator being needed.                  *)
(***************************************************************************)
EXTENDS RecipeBoot, SequenceTheorems, FunctionTheorems, FiniteSetTheorems, WellFoundedInduction, TLAPS

\* Among finite sets inclusion is well-founded, so numbers have a least.
LEMMA LeastNumber ==
  ASSUME NEW T \in SUBSET Nat, T # {}
  PROVE  \E n \in T : \A m \in T : n <= m
<1> DEFINE Upto == {0..n : n \in T}
<1>1. Upto \subseteq FiniteSubsetsOf(Nat)
  <2> SUFFICES ASSUME NEW n \in T PROVE 0..n \in FiniteSubsetsOf(Nat)
    OBVIOUS
  <2>1. 0..n \subseteq Nat /\ n \in Int
    OBVIOUS
  <2>2. IsFiniteSet(0..n)
    BY <2>1, FS_Interval
  <2>3. QED BY <2>1, <2>2 DEF FiniteSubsetsOf
<1>2. Upto # {}
  OBVIOUS
<1>3. PICK I \in Upto : \A J \in Upto : <<J, I>> \notin StrictSubsetOrdering(Nat)
  <2>1. IsWellFoundedOn(StrictSubsetOrdering(Nat), FiniteSubsetsOf(Nat))
    BY FS_StrictSubsetOrderingWellFounded
  <2> HIDE DEF Upto
  <2>2. QED BY <1>1, <1>2, <2>1, WFMin
<1>4. PICK n \in T : I = 0..n
  OBVIOUS
<1>5. ASSUME NEW m \in T, m < n
      PROVE  FALSE
  <2>1. 0..m \in Upto /\ 0..m \subseteq 0..n /\ 0..m # 0..n /\ 0..n \subseteq Nat
    <3>1. n \in 0..n /\ n \notin 0..m /\ n \in Nat /\ m \in Nat
      BY <1>5
    <3>2. QED BY <3>1, <1>5
  <2>2. <<0..m, 0..n>> \in StrictSubsetOrdering(Nat)
    BY <2>1 DEF StrictSubsetOrdering
  <2>3. QED BY <2>1, <2>2, <1>3, <1>4
<1>6. QED BY <1>5

\* Induction, of a set of numbers.
LEMMA Induction ==
  ASSUME NEW T, 0 \in T, \A n \in Nat : n \in T => n + 1 \in T
  PROVE  Nat \subseteq T
<1> SUFFICES ASSUME Nat \ T # {} PROVE FALSE
  OBVIOUS
<1>1. PICK n \in Nat \ T : \A m \in Nat \ T : n <= m
  BY LeastNumber
<1>2. n # 0 /\ n - 1 \in Nat /\ n - 1 \in T /\ (n - 1) + 1 = n
  BY <1>1
<1>3. QED BY <1>2, <1>1

\* What is worked out one index after the other exists, and is of one type.
IsIterate(f, n, b, step) ==
  f = [i \in 1..n |-> IF i = 1 THEN b ELSE step[i][f[i - 1]]]

\* What is stepped n times from b has a table of its stages.
LEMMA Iterates ==
  ASSUME NEW S, NEW b \in S, NEW n \in Nat, NEW step \in [Nat -> [S -> S]]
  PROVE  \E f \in [1..n -> S] : IsIterate(f, n, b, step)
<1> DEFINE T == {k \in Nat : \E f \in [1..k -> S] : IsIterate(f, k, b, step)}
<1>1. 0 \in T
  <2>1. [i \in 1..0 |-> b] \in [1..0 -> S] /\ IsIterate([i \in 1..0 |-> b], 0, b, step)
    BY DEF IsIterate
  <2>2. QED BY <2>1
<1>2. ASSUME NEW k \in Nat, k \in T
      PROVE  k + 1 \in T
  <2>1. PICK f \in [1..k -> S] : IsIterate(f, k, b, step)
    BY <1>2
  <2> DEFINE last == IF k = 0 THEN b ELSE step[k + 1][f[k]]
             g == [i \in 1..(k + 1) |-> IF i = k + 1 THEN last ELSE f[i]]
  <2>2. last \in S
    OBVIOUS
  <2>3. g \in [1..(k + 1) -> S]
    BY <2>2
  <2>4. ASSUME NEW i \in 1..(k + 1)
        PROVE  g[i] = IF i = 1 THEN b ELSE step[i][g[i - 1]]
    <3>1. CASE i = k + 1
      BY <3>1
    <3>2. CASE i # k + 1
      <4>1. i \in 1..k /\ g[i] = f[i] /\ (i # 1 => i - 1 \in 1..k /\ g[i - 1] = f[i - 1])
        BY <3>2
      <4>2. f[i] = IF i = 1 THEN b ELSE step[i][f[i - 1]]
        BY <2>1, <4>1 DEF IsIterate
      <4>3. QED BY <4>1, <4>2
    <3>3. QED BY <3>1, <3>2
  <2>5. IsIterate(g, k + 1, b, step)
    <3> HIDE DEF g
    <3>1. QED BY <2>3, <2>4 DEF IsIterate
  <2>6. QED BY <2>3, <2>5
<1>3. n \in T
  <2> HIDE DEF T
  <2>1. QED BY <1>1, <1>2, Induction
<1>4. QED BY <1>3

----------------------------------------------------------------------------
(* Paths. *)

\* A path with one more segment.
LEMMA OneMore ==
  ASSUME NEW p \in Paths, NEW seg \in STRING
  PROVE  /\ Len(p) \in Nat
         /\ p # NoPath => Len(p) # 0
         /\ DOMAIN p = 1..Len(p)
         /\ Append(p, seg) \in Paths
         /\ Append(p, seg) # NoPath
         /\ Len(Append(p, seg)) = Len(p) + 1
         /\ DOMAIN Append(p, seg) = 1..(Len(p) + 1)
         /\ \A i \in 1..Len(p) : Append(p, seg)[i] = p[i]
         /\ Append(p, seg)[Len(p) + 1] = seg
<1>1. p \in Seq(STRING)
  BY DEF Paths
<1>2. Len(p) \in Nat /\ DOMAIN p = 1..Len(p) /\ (p # << >> => Len(p) # 0)
  BY <1>1
<1>3. /\ Append(p, seg) \in Seq(STRING)
      /\ Append(p, seg) # << >>
      /\ Len(Append(p, seg)) = Len(p) + 1
      /\ \A i \in 1..Len(p) : Append(p, seg)[i] = p[i]
      /\ Append(p, seg)[Len(p) + 1] = seg
  BY <1>1, AppendProperties
<1>4. DOMAIN Append(p, seg) = 1..(Len(p) + 1)
  BY <1>2, <1>3
<1>5. QED BY <1>2, <1>3, <1>4 DEF Paths, NoPath

\* Following a segment from a path gives a path with the same head.
LEMMA FollowKeepsHead ==
  ASSUME NEW p \in Paths, p # NoPath, NEW seg \in STRING
  PROVE  /\ Follow(p, seg) \in Paths
         /\ Follow(p, seg) # NoPath
         /\ Follow(p, seg)[1] = p[1]
<1>1. Len(p) \in Nat \ {0}
  BY DEF Paths, NoPath
<1>2. Append(p, seg) \in Paths /\ Append(p, seg) # NoPath /\ Append(p, seg)[1] = p[1]
  <2>1. 1 \in 1..Len(p)
    BY <1>1
  <2>2. QED BY <2>1, OneMore
<1>3. ASSUME Len(p) > 1
      PROVE  Front(p) \in Paths /\ Front(p) # NoPath /\ Front(p)[1] = p[1]
  <2>1. \A i \in 1..(Len(p) - 1) : p[i] \in STRING
    BY <1>1 DEF Paths
  <2>2. /\ Front(p) \in Seq(STRING)
        /\ Len(Front(p)) = Len(p) - 1
        /\ \A i \in 1..(Len(p) - 1) : Front(p)[i] = p[i]
    <3>1. Front(p) = SubSeq(p, 1, Len(p) - 1)
      BY DEF Front
    <3>2. QED BY <3>1, <2>1, <1>1, <1>3, SubSeqProperties
  <2>3. QED BY <2>2, <1>1, <1>3 DEF Paths, NoPath
<1>4. QED BY <1>2, <1>3 DEF Follow

IsCleaning(u, p) ==
  u = [i \in DOMAIN p |-> IF i = 1 THEN << p[1] >> ELSE Follow(u[i - 1], p[i])]

\* A path is cleaned by following its segments, stage by stage.
LEMMA CleanUnfolds ==
  ASSUME NEW p \in Paths, p # NoPath
  PROVE  \E u \in [1..Len(p) -> Paths \ {NoPath}] :
           IsCleaning(u, p) /\ Clean(p) = u[Len(p)]
<1>1. Len(p) \in Nat \ {0} /\ DOMAIN p = 1..Len(p) /\ \A i \in DOMAIN p : p[i] \in STRING
  BY DEF Paths, NoPath
<1> DEFINE u == CHOOSE v : IsCleaning(v, p)
           S == Paths \ {NoPath}
           name(i) == IF i \in DOMAIN p THEN p[i] ELSE p[1]
           step == [i \in Nat |-> [dir \in S |-> Follow(dir, name(i))]]
<1>2. << p[1] >> \in S
  <2>1. p[1] \in STRING
    BY <1>1
  <2>2. QED BY <2>1 DEF Paths, NoPath
<1>3. step \in [Nat -> [S -> S]]
  <2>1. \A i \in DOMAIN p : p[i] \in STRING
    BY <1>1
  <2>2. ASSUME NEW i \in Nat
        PROVE  name(i) \in STRING
    BY <2>1, <1>1
  <2> HIDE DEF name
  <2>3. QED BY <2>2, FollowKeepsHead
<1>4. PICK v \in [1..Len(p) -> S] : IsIterate(v, Len(p), << p[1] >>, step)
  <2> HIDE DEF S, step
  <2>1. QED BY <1>1, <1>2, <1>3, Iterates
<1>5. IsCleaning(v, p)
  <2>1. ASSUME NEW i \in 1..Len(p), i # 1
        PROVE  step[i][v[i - 1]] = Follow(v[i - 1], p[i])
    <3>1. i \in Nat /\ i - 1 \in 1..Len(p) /\ i \in DOMAIN p
      BY <1>1, <2>1
    <3>2. v[i - 1] \in S
      BY <1>4, <3>1
    <3>3. QED BY <3>1, <3>2
  <2>2. ASSUME NEW i \in 1..Len(p)
        PROVE  v[i] = IF i = 1 THEN << p[1] >> ELSE Follow(v[i - 1], p[i])
    <3>1. v[i] = IF i = 1 THEN << p[1] >> ELSE step[i][v[i - 1]]
      <4> HIDE DEF S, step
      <4>1. QED BY <1>4, <1>1 DEF IsIterate
    <3> HIDE DEF S, step
    <3>2. QED BY <3>1, <2>1
  <2> HIDE DEF S, step
  <2>3. QED BY <2>2, <1>1, <1>4 DEF IsCleaning
<1>6. IsCleaning(u, p)
  BY <1>5
<1>7. Clean(p) = u[Len(p)]
  BY DEF Clean, IsCleaning
<1>8. u \in [1..Len(p) -> S]
  <2> HIDE DEF u, S
  <2> DEFINE T == {n \in Nat : n \in 1..Len(p) => u[n] \in S}
  <2>1. 0 \in T
    OBVIOUS
  <2>2. ASSUME NEW n \in Nat, n \in T
        PROVE  n + 1 \in T
    <3>1. CASE n + 1 \notin 1..Len(p)
      BY <3>1
    <3>2. CASE n + 1 \in 1..Len(p)
      <4>1. u[n + 1] = IF n + 1 = 1 THEN << p[1] >> ELSE Follow(u[(n + 1) - 1], p[n + 1])
        BY <1>6, <1>1, <3>2 DEF IsCleaning
      <4>2. CASE n = 0
        BY <4>1, <4>2, <1>2
      <4>3. CASE n # 0
        <5>1. (n + 1) - 1 = n /\ n \in 1..Len(p) /\ u[n] \in S /\ p[n + 1] \in STRING
          BY <4>3, <3>2, <2>2, <1>1
        <5>2. Follow(u[n], p[n + 1]) \in S
          BY <5>1, FollowKeepsHead DEF S
        <5>3. QED BY <5>1, <5>2, <4>1, <4>3
      <4>4. QED BY <4>2, <4>3
    <3>3. QED BY <3>1, <3>2
  <2>3. Nat \subseteq T
    <3> HIDE DEF T
    <3>1. QED BY <2>1, <2>2, Induction
  <2>4. \A i \in 1..Len(p) : u[i] \in S
    BY <2>3
  <2>5. DOMAIN u = 1..Len(p) /\ u = [i \in 1..Len(p) |-> u[i]]
    BY <1>6, <1>1 DEF IsCleaning
  <2>6. QED BY <2>4, <2>5
<1>9. QED BY <1>6, <1>7, <1>8

\* What holds of a segment alone, and of a path when of the path before its
\* last segment, holds of every path.
LEMMA PathInduction ==
  ASSUME NEW T,
         \A seg \in STRING : << seg >> \in T,
         \A p \in Paths \ {NoPath}, seg \in STRING : p \in T => Append(p, seg) \in T
  PROVE  Paths \ {NoPath} \subseteq T
<1> DEFINE Ns == {n \in Nat : \A p \in Paths : Len(p) = n + 1 => p \in T}
<1>1. 0 \in Ns
  <2> SUFFICES ASSUME NEW p \in Paths, Len(p) = 1
               PROVE  p \in T
    OBVIOUS
  <2>1. p[1] \in STRING /\ p = << p[1] >>
    BY DEF Paths
  <2>2. QED BY <2>1
<1>2. ASSUME NEW n \in Nat, n \in Ns
      PROVE  n + 1 \in Ns
  <2> SUFFICES ASSUME NEW p \in Paths, Len(p) = (n + 1) + 1
               PROVE  p \in T
    OBVIOUS
  <2>1. p # << >>
    OBVIOUS
  <2>2. PICK q \in Seq(STRING), seg \in STRING : p = Append(q, seg)
    BY <2>1, SequenceEmptyOrAppend DEF Paths
  <2>3. Len(q) = n + 1 /\ q \in Paths /\ q # NoPath
    <3>1. Len(p) = Len(q) + 1 /\ Len(q) \in Nat
      BY <2>2, AppendProperties
    <3>2. QED BY <3>1 DEF Paths, NoPath
  <2>4. QED BY <2>2, <2>3, <1>2
<1>3. Nat \subseteq Ns
  <2> HIDE DEF Ns
  <2>1. QED BY <1>1, <1>2, Induction
<1>4. ASSUME NEW p \in Paths, p # NoPath
      PROVE  p \in T
  <2>1. Len(p) \in Nat \ {0}
    BY <1>4 DEF Paths, NoPath
  <2>2. Len(p) - 1 \in Ns /\ Len(p) = (Len(p) - 1) + 1
    BY <2>1, <1>3
  <2>3. QED BY <2>2
<1>5. QED BY <1>4

\* One element is a sequence.
LEMMA OneIsASeq ==
  ASSUME NEW S, NEW x \in S
  PROVE  << x >> \in Seq(S)
OBVIOUS

\* One segment is a path.
LEMMA OneSegment ==
  ASSUME NEW seg \in STRING
  PROVE  << seg >> \in Paths /\ << seg >> # NoPath /\ Len(<< seg >>) = 1 /\ << seg >>[1] = seg
<1>1. << seg >> \in Seq(STRING)
  BY OneIsASeq
<1>2. Len(<< seg >>) = 1 /\ Len(<< >>) = 0
  OBVIOUS
<1>3. << seg >>[1] = seg
  OBVIOUS
<1>4. QED BY <1>1, <1>2, <1>3 DEF Paths, NoPath

\* One segment is clean.
LEMMA CleanOfOne ==
  ASSUME NEW seg \in STRING
  PROVE  Clean(<< seg >>) = << seg >>
<1>1. PICK u : IsCleaning(u, << seg >>) /\ Clean(<< seg >>) = u[1]
  BY OneSegment, CleanUnfolds
<1>2. DOMAIN << seg >> = {1}
  OBVIOUS
<1>3. u[1] = << << seg >>[1] >>
  BY <1>1, <1>2 DEF IsCleaning
<1>4. QED BY <1>1, <1>3, OneSegment

\* A path with one more segment is cleaned by following it.
LEMMA CleanOfAppend ==
  ASSUME NEW p \in Paths, p # NoPath, NEW seg \in STRING
  PROVE  Clean(Append(p, seg)) = Follow(Clean(p), seg)
<1> DEFINE q == Append(p, seg)
<1>1. /\ Len(p) \in Nat \ {0}
      /\ DOMAIN p = 1..Len(p)
      /\ q \in Paths /\ q # NoPath /\ Len(q) = Len(p) + 1 /\ DOMAIN q = 1..(Len(p) + 1)
      /\ \A i \in 1..Len(p) : q[i] = p[i]
      /\ q[Len(p) + 1] = seg
  BY OneMore
<1> HIDE DEF q
<1>2. PICK u : IsCleaning(u, p) /\ Clean(p) = u[Len(p)]
  BY CleanUnfolds
<1>3. PICK v : IsCleaning(v, q) /\ Clean(q) = v[Len(p) + 1]
  BY <1>1, CleanUnfolds
<1> DEFINE T == {n \in Nat : n \in 1..Len(p) => u[n] = v[n]}
<1>4. 0 \in T
  OBVIOUS
<1>5. ASSUME NEW n \in Nat, n \in T
      PROVE  n + 1 \in T
  <2> SUFFICES ASSUME n + 1 \in 1..Len(p)
               PROVE  u[n + 1] = v[n + 1]
    OBVIOUS
  <2>1. u[n + 1] = IF n + 1 = 1 THEN << p[1] >> ELSE Follow(u[(n + 1) - 1], p[n + 1])
    BY <1>1, <1>2 DEF IsCleaning
  <2>2. v[n + 1] = IF n + 1 = 1 THEN << q[1] >> ELSE Follow(v[(n + 1) - 1], q[n + 1])
    BY <1>1, <1>3, SMTT(30) DEF IsCleaning
  <2>3. q[1] = p[1] /\ q[n + 1] = p[n + 1] /\ (n + 1) - 1 = n
    BY <1>1
  <2>4. n # 0 => u[n] = v[n]
    BY <1>5
  <2>5. QED BY <2>1, <2>2, <2>3, <2>4
<1>6. Nat \subseteq T
  <2> HIDE DEF T
  <2>1. QED BY <1>4, <1>5, Induction
<1>7. u[Len(p)] = v[Len(p)]
  BY <1>6, <1>1
<1>8. Len(p) + 1 \in DOMAIN q /\ Len(p) + 1 # 1 /\ (Len(p) + 1) - 1 = Len(p)
  BY <1>1
<1>9. v[Len(p) + 1] = Follow(v[(Len(p) + 1) - 1], q[Len(p) + 1])
  BY <1>8, <1>3 DEF IsCleaning
<1>10. QED BY <1>1, <1>2, <1>3, <1>7, <1>8, <1>9 DEF q

\* A path keeps its head when it is cleaned, so an absolute one stays that.
LEMMA CleanKeepsHead ==
  ASSUME NEW p \in Paths, p # NoPath
  PROVE  Clean(p) \in Paths /\ Clean(p) # NoPath /\ Clean(p)[1] = p[1]
<1> DEFINE T == {q \in Paths \ {NoPath} : /\ Clean(q) \in Paths
                                          /\ Clean(q) # NoPath
                                          /\ Clean(q)[1] = q[1]}
<1>1. ASSUME NEW seg \in STRING
      PROVE  << seg >> \in T
  BY CleanOfOne, OneSegment
<1>2. ASSUME NEW q \in Paths \ {NoPath}, NEW seg \in STRING, q \in T
      PROVE  Append(q, seg) \in T
  <2>1. Clean(Append(q, seg)) = Follow(Clean(q), seg)
    BY CleanOfAppend
  <2>2. /\ Follow(Clean(q), seg) \in Paths
        /\ Follow(Clean(q), seg) # NoPath
        /\ Follow(Clean(q), seg)[1] = q[1]
    BY <1>2, FollowKeepsHead
  <2>3. Append(q, seg) \in Paths \ {NoPath} /\ Append(q, seg)[1] = q[1]
    <3>1. Len(q) \in Nat \ {0}
      BY OneMore
    <3>2. 1 \in 1..Len(q)
      BY <3>1
    <3>3. QED BY <3>2, OneMore
  <2>4. QED BY <2>1, <2>2, <2>3
<1>3. Paths \ {NoPath} \subseteq T
  <2> HIDE DEF T
  <2>1. QED BY <1>1, <1>2, PathInduction
<1>4. QED BY <1>3

\* A cleaned absolute path is absolute.
LEMMA CleanStaysAbsolute ==
  ASSUME NEW p \in Paths, IsAbs(p)
  PROVE  IsAbs(Clean(p)) /\ Clean(p) \in Paths
<1>1. p # NoPath /\ p[1] = "/"
  BY DEF IsAbs, Paths, NoPath
<1>2. QED BY <1>1, CleanKeepsHead DEF IsAbs, Paths, NoPath

----------------------------------------------------------------------------
\* Sequences.
IsFlattening(f, seqs) ==
  f = [i \in 1..Len(seqs) |-> IF i = 1 THEN seqs[i] ELSE f[i - 1] \o seqs[i]]

\* Sequences are flattened by joining them one after the other.
LEMMA FlattenUnfolds ==
  ASSUME NEW S, NEW seqs \in Seq(Seq(S)), seqs # << >>
  PROVE  \E f \in [1..Len(seqs) -> Seq(S)] :
           IsFlattening(f, seqs) /\ FlattenSeq(seqs) = f[Len(seqs)]
<1>1. /\ Len(seqs) \in Nat /\ Len(seqs) # 0
      /\ \A i \in 1..Len(seqs) : seqs[i] \in Seq(S)
  OBVIOUS
<1> DEFINE f == CHOOSE g : IsFlattening(g, seqs)
           part(i) == IF i \in 1..Len(seqs) THEN seqs[i] ELSE seqs[1]
           step == [i \in Nat |-> [s \in Seq(S) |-> s \o part(i)]]
<1>2. seqs[1] \in Seq(S)
  BY <1>1
<1>3. step \in [Nat -> [Seq(S) -> Seq(S)]]
  <2>1. ASSUME NEW i \in Nat
        PROVE  part(i) \in Seq(S)
    BY <1>1, <1>2
  <2> HIDE DEF part
  <2>2. \A i \in Nat, s \in Seq(S) : s \o part(i) \in Seq(S)
    BY <2>1, ConcatProperties
  <2>3. QED BY <2>2
<1>4. PICK g \in [1..Len(seqs) -> Seq(S)] : IsIterate(g, Len(seqs), seqs[1], step)
  <2> HIDE DEF step
  <2>1. QED BY <1>1, <1>2, <1>3, Iterates
<1>5. IsFlattening(g, seqs)
  <2>1. ASSUME NEW i \in 1..Len(seqs), i # 1
        PROVE  step[i][g[i - 1]] = g[i - 1] \o seqs[i]
    <3>1. i \in Nat /\ i - 1 \in 1..Len(seqs)
      BY <1>1, <2>1
    <3>2. g[i - 1] \in Seq(S)
      BY <1>4, <3>1
    <3>3. QED BY <3>1, <3>2
  <2>2. ASSUME NEW i \in 1..Len(seqs)
        PROVE  g[i] = IF i = 1 THEN seqs[i] ELSE g[i - 1] \o seqs[i]
    <3>1. g[i] = IF i = 1 THEN seqs[1] ELSE step[i][g[i - 1]]
      <4> HIDE DEF step
      <4>1. QED BY <1>4, <1>1 DEF IsIterate
    <3> HIDE DEF step
    <3>2. QED BY <3>1, <2>1
  <2> HIDE DEF step
  <2>3. QED BY <2>2, <1>4 DEF IsFlattening
<1>6. IsFlattening(f, seqs)
  BY <1>5
<1>7. FlattenSeq(seqs) = f[Len(seqs)]
  BY <1>1 DEF FlattenSeq, IsFlattening
<1>8. f \in [1..Len(seqs) -> Seq(S)]
  <2> HIDE DEF f
  <2> DEFINE T == {n \in Nat : n \in 1..Len(seqs) => f[n] \in Seq(S)}
  <2>1. 0 \in T
    OBVIOUS
  <2>2. ASSUME NEW n \in Nat, n \in T
        PROVE  n + 1 \in T
    <3> SUFFICES ASSUME n + 1 \in 1..Len(seqs)
                 PROVE  f[n + 1] \in Seq(S)
      OBVIOUS
    <3>1. f[n + 1] = IF n + 1 = 1 THEN seqs[n + 1] ELSE f[(n + 1) - 1] \o seqs[n + 1]
      BY <1>6 DEF IsFlattening
    <3>2. seqs[n + 1] \in Seq(S)
      BY <1>1
    <3>3. CASE n = 0
      BY <3>1, <3>2, <3>3
    <3>4. CASE n # 0
      <4>1. (n + 1) - 1 = n /\ n \in 1..Len(seqs) /\ f[n] \in Seq(S)
        BY <3>4, <2>2, <1>1
      <4>2. f[n] \o seqs[n + 1] \in Seq(S)
        BY <4>1, <3>2, ConcatProperties
      <4>3. QED BY <4>1, <4>2, <3>1, <3>4
    <3>5. QED BY <3>3, <3>4
  <2>3. Nat \subseteq T
    <3> HIDE DEF T
    <3>1. QED BY <2>1, <2>2, Induction
  <2>4. \A i \in 1..Len(seqs) : f[i] \in Seq(S)
    BY <2>3
  <2>5. f = [i \in 1..Len(seqs) |-> f[i]]
    BY <1>6 DEF IsFlattening
  <2>6. QED BY <2>4, <2>5
<1>9. QED BY <1>6, <1>7, <1>8

\* A flattened sequence holds what its parts hold, and nothing else.
LEMMA FlattenHolds ==
  ASSUME NEW S, NEW seqs \in Seq(Seq(S))
  PROVE  /\ FlattenSeq(seqs) \in Seq(S)
         /\ Range(FlattenSeq(seqs)) = UNION {Range(seqs[i]) : i \in DOMAIN seqs}
<1>1. CASE seqs = << >>
  <2>1. Len(seqs) = 0 /\ DOMAIN seqs = {}
    BY <1>1
  <2>2. FlattenSeq(seqs) = << >>
    BY <1>1, <2>1 DEF FlattenSeq
  <2>3. Range(<< >>) = {}
    BY DEF Range
  <2>4. QED BY <2>1, <2>2, <2>3
<1>2. CASE seqs # << >>
  <2>1. PICK f \in [1..Len(seqs) -> Seq(S)] :
          IsFlattening(f, seqs) /\ FlattenSeq(seqs) = f[Len(seqs)]
    BY <1>2, FlattenUnfolds
  <2>2. Len(seqs) \in Nat /\ Len(seqs) # 0 /\ DOMAIN seqs = 1..Len(seqs)
    BY <1>2
  <2> DEFINE T == {n \in Nat : n \in 1..Len(seqs) =>
                     Range(f[n]) = UNION {Range(seqs[i]) : i \in 1..n}}
  <2>3. 0 \in T
    OBVIOUS
  <2>4. ASSUME NEW n \in Nat, n \in T
        PROVE  n + 1 \in T
    <3> SUFFICES ASSUME n + 1 \in 1..Len(seqs)
                 PROVE  Range(f[n + 1]) = UNION {Range(seqs[i]) : i \in 1..(n + 1)}
      OBVIOUS
    <3>1. f[n + 1] = IF n + 1 = 1 THEN seqs[n + 1] ELSE f[(n + 1) - 1] \o seqs[n + 1]
      BY <2>1 DEF IsFlattening
    <3>2. seqs[n + 1] \in Seq(S)
      OBVIOUS
    <3>3. CASE n = 0
      <4>1. 1..(n + 1) = {1} /\ n + 1 = 1
        BY <3>3
      <4>2. f[n + 1] = seqs[1]
        BY <3>1, <4>1
      <4>3. QED BY <4>1, <4>2
    <3>4. CASE n # 0
      <4>1. (n + 1) - 1 = n /\ n \in 1..Len(seqs) /\ n + 1 # 1
        BY <3>4, <2>2
      <4>2. f[n] \in Seq(S) /\ f[n + 1] = f[n] \o seqs[n + 1]
        BY <4>1, <3>1
      <4>3. Range(f[n + 1]) = Range(f[n]) \cup Range(seqs[n + 1])
        BY <4>2, <3>2, RangeConcatenation
      <4>4. Range(f[n]) = UNION {Range(seqs[i]) : i \in 1..n}
        BY <4>1, <2>4
      <4>5. 1..(n + 1) = (1..n) \cup {n + 1}
        OBVIOUS
      <4>6. QED BY <4>3, <4>4, <4>5
    <3>5. QED BY <3>3, <3>4
  <2>5. Nat \subseteq T
    <3> HIDE DEF T
    <3>1. QED BY <2>3, <2>4, Induction
  <2>6. Range(f[Len(seqs)]) = UNION {Range(seqs[i]) : i \in 1..Len(seqs)}
    <3>1. Len(seqs) \in T /\ Len(seqs) \in 1..Len(seqs)
      BY SMTT(30), <2>2, <2>5
    <3>2. QED BY <3>1
  <2>7. QED BY SMTT(30), <2>1, <2>2, <2>6
<1>3. QED BY <1>1, <1>2

\* Sorting by depth puts every mount somewhere, none below one that is deeper.
LEMMA SortingKeepsMounts ==
  ASSUME NEW S, NEW mounts \in Seq(S),
         \A i \in DOMAIN mounts : PathDepth(mounts[i].path) \in Nat
  PROVE  /\ SortMountsByDepth(mounts) \in Seq(S)
         /\ Range(SortMountsByDepth(mounts)) = Range(mounts)
         /\ \A k, l \in DOMAIN SortMountsByDepth(mounts) :
              k < l => PathDepth(SortMountsByDepth(mounts)[k].path)
                         <= PathDepth(SortMountsByDepth(mounts)[l].path)
<1> DEFINE n == Len(mounts)
           D == 1..n
           d(i) == PathDepth(mounts[i].path)
           before(i) == {j \in DOMAIN mounts : \/ d(j) < d(i)
                                               \/ d(j) = d(i) /\ j < i}
           place == [i \in D |-> Cardinality(before(i)) + 1]
           at(k) == CHOOSE i \in DOMAIN mounts : Cardinality(before(i)) = k - 1
<1>1. n \in Nat /\ DOMAIN mounts = D /\ \A i \in D : d(i) \in Nat /\ mounts[i] \in S
  OBVIOUS
<1>2. SortMountsByDepth(mounts) = [k \in D |-> mounts[at(k)]]
  BY <1>1 DEF SortMountsByDepth
<1>3. IsFiniteSet(D) /\ Cardinality(D) = n
  BY <1>1, FS_Interval
<1>4. ASSUME NEW i \in D
      PROVE  /\ IsFiniteSet(before(i)) /\ Cardinality(before(i)) \in Nat
             /\ i \notin before(i)
             /\ Cardinality(before(i)) + 1 \in D
  <2>1. before(i) \subseteq D \ {i}
    BY <1>1
  <2>2. IsFiniteSet(D \ {i}) /\ Cardinality(D \ {i}) = n - 1
    BY <1>3, FS_RemoveElement
  <2>3. IsFiniteSet(before(i)) /\ Cardinality(before(i)) <= n - 1
    BY <2>1, <2>2, FS_Subset
  <2>4. Cardinality(before(i)) \in Nat
    BY <2>3, FS_CardinalityType
  <2> HIDE DEF before
  <2>5. QED BY <2>1, <2>3, <2>4, <1>1
<1>5. ASSUME NEW i \in D, NEW j \in D, j \in before(i)
      PROVE  Cardinality(before(j)) < Cardinality(before(i))
  <2>1. before(j) \cup {j} \subseteq before(i)
    BY <1>1, <1>5
  <2>2. IsFiniteSet(before(j)) /\ j \notin before(j) /\ IsFiniteSet(before(i))
    BY <1>4
  <2>3. Cardinality(before(j) \cup {j}) = Cardinality(before(j)) + 1
    BY <2>2, FS_AddElement
  <2>4. Cardinality(before(j) \cup {j}) <= Cardinality(before(i))
    BY <2>1, <2>2, FS_Subset
  <2>5. Cardinality(before(j)) \in Nat /\ Cardinality(before(i)) \in Nat
    BY <1>4
  <2> HIDE DEF before
  <2>6. QED BY <2>3, <2>4, <2>5
<1>6. ASSUME NEW i \in D, NEW j \in D
      PROVE  i = j \/ i \in before(j) \/ j \in before(i)
  BY <1>1
<1>7. place \in Injection(D, D)
  <2>1. place \in [D -> D]
    <3> HIDE DEF before
    <3>1. QED BY <1>4
  <2>2. ASSUME NEW i \in D, NEW j \in D, place[i] = place[j]
        PROVE  i = j
    <3>1. Cardinality(before(i)) = Cardinality(before(j))
      <4>1. Cardinality(before(i)) \in Nat /\ Cardinality(before(j)) \in Nat
        BY <1>4
      <4> HIDE DEF before
      <4>2. QED BY <2>2, <4>1
    <3>2. Cardinality(before(i)) \in Nat
      BY <1>4
    <3> HIDE DEF before
    <3>3. QED BY <3>1, <3>2, <1>5, <1>6
  <2> HIDE DEF place
  <2>3. QED BY <2>1, <2>2, Fun_IsInj
<1>8. place \in Surjection(D, D)
  <2> HIDE DEF place, D
  <2>1. QED BY <1>3, <1>7, FS_Injection
<1>9. ASSUME NEW k \in D
      PROVE  at(k) \in D /\ Cardinality(before(at(k))) = k - 1
  <2>1. PICK i \in D : place[i] = k
    <3> HIDE DEF place, before
    <3>1. QED BY <1>8 DEF Surjection
  <2>2. Cardinality(before(i)) = k - 1
    <3>1. Cardinality(before(i)) \in Nat
      BY <1>4
    <3>2. k = Cardinality(before(i)) + 1
      BY <2>1
    <3> HIDE DEF before
    <3>3. QED BY <3>1, <3>2
  <2> HIDE DEF before
  <2>3. QED BY <2>2, <1>1
<1>10. ASSUME NEW i \in D
       PROVE  \E k \in D : at(k) = i
  <2> DEFINE k == Cardinality(before(i)) + 1
  <2>1. k \in D /\ Cardinality(before(i)) = k - 1
    <3>1. Cardinality(before(i)) \in Nat /\ k \in D
      BY <1>4
    <3> HIDE DEF before
    <3>2. QED BY <3>1
  <2> HIDE DEF k
  <2>2. at(k) \in D /\ Cardinality(before(at(k))) = k - 1
    BY <2>1, <1>9
  <2> HIDE DEF at, before
  <2>3. Cardinality(before(at(k))) = Cardinality(before(i)) /\ Cardinality(before(i)) \in Nat
    BY <2>1, <2>2, <1>4
  <2>4. at(k) = i
    BY <2>2, <2>3, <1>5, <1>6
  <2>5. QED BY <2>1, <2>4
<1> DEFINE sorted == [k \in D |-> mounts[at(k)]]
<1>11. sorted \in [D -> S]
  <2> HIDE DEF at, before
  <2>1. QED BY <1>1, <1>9
<1>12. sorted \in Seq(S) /\ DOMAIN sorted = D
  <2>1. D = 1..n /\ n \in Nat
    BY <1>1
  <2> HIDE DEF sorted, n
  <2>2. QED BY <1>11, <2>1
<1>13. Range(sorted) = Range(mounts)
  <2> HIDE DEF at, before
  <2>1. QED BY <1>1, <1>9, <1>10 DEF Range
<1>14. ASSUME NEW k \in D, NEW l \in D, k < l
       PROVE  PathDepth(sorted[k].path) <= PathDepth(sorted[l].path)
  <2>1. at(k) \in D /\ at(l) \in D
    BY <1>9
  <2>2. at(l) \notin before(at(k))
    <3>1. ASSUME at(l) \in before(at(k))
          PROVE  FALSE
      <4>1. Cardinality(before(at(l))) < Cardinality(before(at(k)))
        <5> HIDE DEF at, before
        <5>1. QED BY <2>1, <3>1, <1>5
      <4>2. Cardinality(before(at(l))) = l - 1 /\ Cardinality(before(at(k))) = k - 1
        BY <1>9
      <4> HIDE DEF at, before
      <4>3. QED BY <4>1, <4>2, <1>14, <1>1
    <3>2. QED BY <3>1
  <2>3. at(k) = at(l) \/ at(k) \in before(at(l))
    BY <2>1, <2>2, <1>6
  <2>4. d(at(k)) <= d(at(l))
    <3>1. d(at(k)) \in Nat /\ d(at(l)) \in Nat
      BY <2>1, <1>1
    <3> HIDE DEF at, d
    <3>2. QED BY <2>3, <3>1
  <2>5. sorted[k] = mounts[at(k)] /\ sorted[l] = mounts[at(l)]
    <3> HIDE DEF at
    <3>1. QED OBVIOUS
  <2> HIDE DEF at, sorted
  <2>6. QED BY <2>4, <2>5
<1> HIDE DEF sorted
<1>15. QED BY <1>2, <1>12, <1>13, <1>14 DEF sorted

----------------------------------------------------------------------------
(* Sources. *)

\* A source made up from one origin is of that kind.
LEMMA KindOfFrom ==
  ASSUME NEW kind \in Kinds, NEW origin \in Paths \ {NoPath}, NEW s, s.origins = From(kind, origin)
  PROVE  Kind(s) = kind /\ Origin(s) = origin
<1> DEFINE set == {k \in Kinds : s.origins[k] # NoPath}
<1>1. set = {kind}
  BY DEF From
<1>2. \A k \in set : k = kind
  BY <1>1
<1>3. Kind(s) = kind
  BY <1>1, <1>2 DEF Kind
<1>4. QED BY <1>3 DEF Origin, From

\* A source made up from its one origin is a source.
LEMMA FromIsTyped ==
  ASSUME NEW kind \in Kinds, NEW origin \in Paths, NEW at \in Paths, NEW path \in Paths,
         NEW ro \in BOOLEAN
  PROVE  [origins |-> From(kind, origin), at |-> at, path |-> path, ro |-> ro] \in Sources
<1>1. NoPath \in Paths
  BY DEF NoPath, Paths
<1>2. From(kind, origin) \in [Kinds -> Paths]
  BY <1>1 DEF From
<1>3. QED BY <1>2 DEF Sources

\* A source made up from its one origin is of that kind and origin.
LEMMA FromOnly ==
  ASSUME NEW kind \in Kinds, NEW origin \in Paths \ {NoPath}, NEW at \in Paths, NEW path \in Paths,
         NEW ro \in BOOLEAN, NEW s,
         s = [origins |-> From(kind, origin), at |-> at, path |-> path, ro |-> ro]
  PROVE  s \in Sources /\ Kind(s) = kind /\ Origin(s) = origin /\ s.path = path /\ s.at = at
<1>1. s \in Sources
  BY FromIsTyped
<1>2. s.origins = From(kind, origin) /\ s.path = path /\ s.at = at
  OBVIOUS
<1>3. QED BY <1>1, <1>2, KindOfFrom

\* A well-formed source has an origin of its kind.
LEMMA KindIsAKind ==
  ASSUME NEW s \in Sources, Kind(s) # "malformed"
  PROVE  Kind(s) \in Kinds /\ Origin(s) \in Paths /\ Origin(s) # NoPath
<1> DEFINE set == {k \in Kinds : s.origins[k] # NoPath}
<1>1. PICK k \in set : set = {k}
  BY DEF Kind
<1>2. \A j \in set : j = k
  BY <1>1
<1>3. Kind(s) = k
  BY <1>1, <1>2 DEF Kind
<1>4. QED BY <1>1, <1>3 DEF Origin, Sources

----------------------------------------------------------------------------
(* Host paths. *)

\* A path joined to another is a path with the head of the first.
LEMMA Joined ==
  ASSUME NEW p \in Paths, p # NoPath, NEW q \in Paths
  PROVE  p \o q \in Paths /\ p \o q # NoPath /\ (p \o q)[1] = p[1]
<1>1. Len(p) \in Nat \ {0} /\ p \in Seq(STRING) /\ q \in Seq(STRING)
  BY DEF Paths, NoPath
<1>2. Len(p \o q) = Len(p) + Len(q) /\ Len(q) \in Nat /\ p \o q \in Seq(STRING) /\ (p \o q)[1] = p[1]
  BY <1>1, ConcatProperties
<1>3. QED BY <1>1, <1>2 DEF Paths, NoPath

\* What follows the head of a path.
LEMMA TailIsAPath ==
  ASSUME NEW p \in Paths, p # NoPath
  PROVE  Tail(p) \in Paths
BY HeadTailProperties DEF Paths, NoPath

\* What is joined to an absolute path is absolute.
LEMMA JoinedIsAbsolute ==
  ASSUME NEW dir \in Paths, IsAbs(dir), NEW p \in Paths
  PROVE  Clean(dir \o p) \in Paths /\ IsAbs(Clean(dir \o p))
<1>1. dir # NoPath /\ dir[1] = "/"
  BY DEF IsAbs, Paths, NoPath
<1>2. dir \o p \in Paths /\ dir \o p # NoPath /\ (dir \o p)[1] = "/"
  BY <1>1, Joined
<1>3. IsAbs(dir \o p)
  BY <1>2 DEF IsAbs, Paths, NoPath
<1>4. QED BY <1>2, <1>3, CleanStaysAbsolute

\* Three elements are a sequence.
LEMMA ThreeAreASeq ==
  ASSUME NEW S, NEW a \in S, NEW b \in S, NEW c \in S
  PROVE  << a, b, c >> \in Seq(S)
OBVIOUS

\* A node's space is an absolute path.
LEMMA SpaceIsAbsolute ==
  ASSUME NEW id \in STRING, NEW space \in STRING
  PROVE  Space(id, space) \in Paths /\ IsAbs(Space(id, space))
<1>1. <<"nodes", id, space>> \in Paths
  <2>1. "nodes" \in STRING
    BY RecipeAssumption DEF OwnNames
  <2>2. QED BY <2>1, ThreeAreASeq DEF Paths
<1>2. Store \in Paths /\ Store # NoPath /\ Store[1] = "/"
  BY RecipeAssumption DEF IsAbs, Paths, NoPath
<1>3. /\ Store \o <<"nodes", id, space>> \in Paths
      /\ Store \o <<"nodes", id, space>> # NoPath
      /\ (Store \o <<"nodes", id, space>>)[1] = "/"
  BY <1>1, <1>2, Joined
<1>4. QED BY <1>3 DEF Space, IsAbs, Paths, NoPath

\* Each variable of dabs's own names an absolute path.
LEMMA OwnVarsAreSpaces ==
  ASSUME NEW id \in STRING, NEW tip \in STRING, NEW v \in DOMAIN Over(NodeVars(id), ParentVars(tip))
  PROVE  LET dir == Over(NodeVars(id), ParentVars(tip))[v] IN dir \in Paths /\ IsAbs(dir)
<1>1. \E x \in {id, tip}, space \in {"volume", "tmp", "held"} :
        Over(NodeVars(id), ParentVars(tip))[v] = Space(x, space)
  <2>1. CASE v \in DOMAIN NodeVars(id)
    <3>1. Over(NodeVars(id), ParentVars(tip))[v] = NodeVars(id)[v]
      BY <2>1 DEF Over
    <3>2. \E space \in {"volume", "tmp", "held"} : NodeVars(id)[v] = Space(id, space)
      BY <2>1 DEF NodeVars
    <3>3. QED BY <3>1, <3>2
  <2>2. CASE v \notin DOMAIN NodeVars(id)
    <3>1. v \in DOMAIN ParentVars(tip) /\ Over(NodeVars(id), ParentVars(tip))[v] = ParentVars(tip)[v]
      BY <2>2 DEF Over
    <3>2. \E space \in {"volume", "tmp", "held"} : ParentVars(tip)[v] = Space(tip, space)
      BY <3>1 DEF ParentVars
    <3>3. QED BY <3>1, <3>2
  <2>3. QED BY <2>1, <2>2
<1>2. {"volume", "tmp", "held"} \subseteq STRING
  BY RecipeAssumption DEF OwnNames
<1>3. QED BY <1>1, <1>2, SpaceIsAbsolute

\* The root is no variable of dabs's own.
LEMMA NoSpaceIsTheRoot ==
  ASSUME NEW id, NEW tip
  PROVE  "/" \notin DOMAIN Over(NodeVars(id), ParentVars(tip))
BY DEF Over, NodeVars, ParentVars

\* A clean absolute path is where it says.
LEMMA ExpandOfClean ==
  ASSUME NEW p \in Paths, IsAbs(p), Clean(p) = p, NEW own, "/" \notin DOMAIN own
  PROVE  Expand(p, own).ok /\ Expand(p, own).path = p /\ AbsPath(Expand(p, own).path) = p
<1>1. Head(p) = "/"
  BY DEF IsAbs
<1>2. Expand(p, own) = [ok |-> TRUE, path |-> p]
  BY <1>1 DEF Expand
<1>3. QED BY <1>2 DEF AbsPath

\* What is written in a space is in that space on the host.
LEMMA ExpandStaysInSpace ==
  ASSUME NEW p \in Paths, p # NoPath, NEW own, Head(p) \in DOMAIN own, Expand(p, own).ok,
         own[Head(p)] \in Paths, IsAbs(own[Head(p)])
  PROVE  /\ WithinRoot(own[Head(p)], Expand(p, own).path)
         /\ AbsPath(Expand(p, own).path) = Expand(p, own).path
<1> DEFINE to == Clean(own[Head(p)] \o Tail(p))
<1>1. Expand(p, own) = [ok |-> WithinRoot(own[Head(p)], to), path |-> to]
  BY DEF Expand
<1>2. IsAbs(to)
  BY TailIsAPath, JoinedIsAbsolute
<1> HIDE DEF to
<1>3. Expand(p, own).path = to /\ WithinRoot(own[Head(p)], to)
  BY <1>1
<1>4. QED BY <1>2, <1>3 DEF AbsPath

----------------------------------------------------------------------------
(* Binding. *)

\* Each source is known to carry the work or not to, and one does.
Workable(in) ==
  /\ \A i \in DOMAIN in : Kind(in[i]) # "malformed" /\ CarriesTheWork(in[i]) \in {"yes", "no"}
  /\ \E i \in DOMAIN in : CarriesTheWork(in[i]) = "yes"

\* A bound recipe is made of sources, none a place to make; the worktree is
\* among them, with its repository's store unless it is only copied.
LEMMA BindHolds ==
  ASSUME NEW in \in Seq(Sources), NEW w \in DOMAIN Worktrees, Workable(in)
  PROVE  LET all == Range(BindWorktree(in, w))
             wt  == Worktrees[w]
         IN /\ BindWorktree(in, w) \in Seq(Sources)
            /\ \A s \in all : Kind(s) # "worktree"
            /\ \E s \in all : Kind(s) \in {"mount", "copy"} /\ Origin(s) = wt.data
            /\ \/ \E s \in all : Kind(s) = "copy"
               \/ \E s \in all : /\ Kind(s) = "mount" /\ Origin(s) = GitDir(wt.repo)
                                 /\ s.path = GitDir(wt.repo)
<1> DEFINE wt == Worktrees[w]
           store == Mounted(GitDir(wt.repo), GitDir(wt.repo), FALSE)
           live == {i \in DOMAIN in : CarriesTheWork(in[i]) # "no" /\ Kind(in[i]) # "copy"}
           data(i) == Mounted(wt.data, in[i].path, in[i].ro)
           copied(i) == Copied(wt.data, in[i].path)
           bound(i) ==
             IF i \in live
             THEN << data(i) >> \o (IF \E j \in live : j < i THEN << >> ELSE << store >>)
             ELSE IF CarriesTheWork(in[i]) = "no" THEN << in[i] >>
             ELSE << copied(i) >>
           parts == [i \in DOMAIN in |-> bound(i)]
<1>1. BindWorktree(in, w) = FlattenSeq(parts)
  BY DEF BindWorktree
<1>2. /\ wt.data \in Paths /\ wt.data # NoPath
      /\ GitDir(wt.repo) \in Paths /\ GitDir(wt.repo) # NoPath
      /\ NoPath \in Paths
  <2>1. wt.data \in Paths /\ IsAbs(wt.data) /\ wt.repo \in Paths
    BY RecipeAssumption
  <2>2. ".git" \in STRING
    BY RecipeAssumption DEF OwnNames
  <2>3. GitDir(wt.repo) \in Paths /\ GitDir(wt.repo) # NoPath
    BY <2>1, <2>2, OneMore DEF GitDir
  <2>4. NoPath \in Paths /\ wt.data # NoPath
    BY <2>1 DEF IsAbs, Paths, NoPath
  <2>5. QED BY <2>1, <2>3, <2>4
<1>3. Len(in) \in Nat /\ DOMAIN in = 1..Len(in) /\ \A i \in DOMAIN in : in[i] \in Sources
  OBVIOUS
<1>4. /\ store \in Sources /\ Kind(store) = "mount" /\ Origin(store) = GitDir(wt.repo)
      /\ store.path = GitDir(wt.repo)
  <2>1. store = [origins |-> From("mount", GitDir(wt.repo)), at |-> NoPath, path |-> GitDir(wt.repo),
                 ro |-> FALSE]
    BY DEF Mounted
  <2>2. "mount" \in Kinds
    BY DEF Kinds
  <2> HIDE DEF store
  <2>3. GitDir(wt.repo) \in Paths \ {NoPath} /\ NoPath \in Paths
    BY <1>2
  <2>4. PICK no \in BOOLEAN :
          store = [origins |-> From("mount", GitDir(wt.repo)), at |-> NoPath,
                   path |-> GitDir(wt.repo), ro |-> no]
    BY <2>1
  <2>5. QED BY <2>2, <2>3, <2>4, FromOnly
<1>5. ASSUME NEW i \in DOMAIN in
      PROVE  /\ data(i) \in Sources /\ Kind(data(i)) = "mount" /\ Origin(data(i)) = wt.data
             /\ copied(i) \in Sources /\ Kind(copied(i)) = "copy" /\ Origin(copied(i)) = wt.data
  <2>1. in[i].path \in Paths /\ in[i].ro \in BOOLEAN
    BY <1>3 DEF Sources
  <2>2. /\ data(i) = [origins |-> From("mount", wt.data), at |-> NoPath, path |-> in[i].path, ro |-> in[i].ro]
        /\ copied(i) = [origins |-> From("copy", wt.data), at |-> NoPath, path |-> in[i].path, ro |-> FALSE]
    BY DEF Mounted, Copied
  <2>3. {"mount", "copy"} \subseteq Kinds
    BY DEF Kinds
  <2> HIDE DEF data, copied
  <2>4. wt.data \in Paths \ {NoPath} /\ NoPath \in Paths
    BY <1>2
  <2>5. data(i) \in Sources /\ Kind(data(i)) = "mount" /\ Origin(data(i)) = wt.data
    BY <2>1, <2>2, <2>3, <2>4, FromOnly
  <2>6. copied(i) \in Sources /\ Kind(copied(i)) = "copy" /\ Origin(copied(i)) = wt.data
    <3>1. PICK no \in BOOLEAN :
            copied(i) = [origins |-> From("copy", wt.data), at |-> NoPath, path |-> in[i].path, ro |-> no]
      BY <2>2
    <3>2. QED BY <2>1, <2>3, <2>4, <3>1, FromOnly
  <2>7. QED BY <2>5, <2>6
<1> HIDE DEF store, data, copied
<1>6. ASSUME NEW i \in DOMAIN in
      PROVE  /\ bound(i) \in Seq(Sources)
             /\ i \in live => data(i) \in Range(bound(i))
             /\ i \in live /\ (\A j \in live : ~(j < i)) => store \in Range(bound(i))
             /\ i \notin live /\ CarriesTheWork(in[i]) = "yes" => copied(i) \in Range(bound(i))
             /\ \A s \in Range(bound(i)) : Kind(s) # "worktree"
  <2>1. CASE i \in live /\ \E j \in live : j < i
    <3>0. << data(i) >> \in Seq(Sources) /\ << data(i) >> \o << >> = << data(i) >>
      BY <1>5
    <3>1. bound(i) = << data(i) >>
      BY <2>1, <3>0
    <3>2. QED BY <1>5, <2>1, <3>1 DEF Range
  <2>2. CASE i \in live /\ ~\E j \in live : j < i
    <3>1. bound(i) = << data(i) >> \o << store >>
      BY <2>2
    <3>2. << data(i) >> \in Seq(Sources) /\ << store >> \in Seq(Sources)
      BY <1>4, <1>5
    <3>3. Range(<< data(i) >>) = {data(i)} /\ Range(<< store >>) = {store}
      BY DEF Range
    <3>4. bound(i) \in Seq(Sources) /\ Range(bound(i)) = {data(i), store}
      <4>1. << data(i) >> \o << store >> \in Seq(Sources)
        BY <3>2, ConcatProperties
      <4>2. Range(<< data(i) >> \o << store >>) = {data(i)} \cup {store}
        <5> DEFINE a == << data(i) >>
                   b == << store >>
        <5>1. a \in Seq(Sources) /\ b \in Seq(Sources) /\ Range(a) = {data(i)} /\ Range(b) = {store}
          BY <3>2, <3>3
        <5> HIDE DEF a, b
        <5>2. Range(a \o b) = {data(i)} \cup {store}
          BY <5>1, RangeConcatenation
        <5>3. QED BY <5>2 DEF a, b
      <4> HIDE DEF bound
      <4>3. QED BY <3>1, <4>1, <4>2
    <3> HIDE DEF bound
    <3>5. QED BY <1>4, <1>5, <2>2, <3>4
  <2>3. CASE i \notin live /\ CarriesTheWork(in[i]) = "no"
    <3>1. bound(i) = << in[i] >> /\ in[i] \in Sources
      BY <2>3, <1>3
    <3>2. Kind(in[i]) # "worktree"
      BY <2>3 DEF CarriesTheWork, MakesPlace
    <3>3. QED BY <2>3, <3>1, <3>2 DEF Range
  <2>4. CASE i \notin live /\ CarriesTheWork(in[i]) # "no"
    <3>1. bound(i) = << copied(i) >>
      BY <2>4
    <3>2. QED BY <1>5, <2>4, <3>1 DEF Range
  <2>5. QED BY <2>1, <2>2, <2>3, <2>4
<1> HIDE DEF bound
<1>7. parts \in Seq(Seq(Sources)) /\ DOMAIN parts = DOMAIN in
  BY <1>3, <1>6
<1>8. /\ FlattenSeq(parts) \in Seq(Sources)
      /\ Range(FlattenSeq(parts)) = UNION {Range(bound(i)) : i \in DOMAIN in}
  <2>1. \A i \in DOMAIN in : parts[i] = bound(i)
    OBVIOUS
  <2> HIDE DEF parts
  <2>2. QED BY <1>7, <2>1, FlattenHolds
<1> DEFINE all == UNION {Range(bound(i)) : i \in DOMAIN in}
<1>9. PICK i \in DOMAIN in : CarriesTheWork(in[i]) = "yes"
  BY DEF Workable
<1>10. \E s \in all : Kind(s) \in {"mount", "copy"} /\ Origin(s) = wt.data
  <2>1. CASE i \in live
    BY <1>5, <1>6, <2>1
  <2>2. CASE i \notin live
    BY <1>5, <1>6, <1>9, <2>2
  <2>3. QED BY <2>1, <2>2
<1>11. \/ \E s \in all : Kind(s) = "copy"
       \/ \E s \in all : /\ Kind(s) = "mount" /\ Origin(s) = GitDir(wt.repo)
                         /\ s.path = GitDir(wt.repo)
  <2>1. CASE i \in live
    <3>1. PICK first \in live : \A j \in live : first <= j
      <4>1. live \in SUBSET Nat /\ live # {}
        BY <1>3, <2>1
      <4> HIDE DEF live
      <4>2. QED BY <4>1, LeastNumber
    <3>2. first \in DOMAIN in /\ \A j \in live : ~(j < first)
      BY <1>3, <3>1
    <3>3. store \in Range(bound(first))
      BY <1>6, <3>1, <3>2
    <3>4. QED BY <1>4, <3>2, <3>3
  <2>2. CASE i \notin live
    BY <1>5, <1>6, <1>9, <2>2
  <2>3. QED BY <2>1, <2>2
<1>12. \A s \in all : Kind(s) # "worktree"
  BY <1>6
<1> HIDE DEF all, parts
<1>13. QED BY <1>1, <1>8, <1>10, <1>11, <1>12 DEF all

----------------------------------------------------------------------------
(* What becomes of a recipe on its way from a file to a boot. *)

\* What a file parses to is recipes that can be booted.
LEMMA ParseKeepsRecipes ==
  ASSUME NEW file \in {Bundled} \cup Globals \cup Projects \cup AtPaths,
         NEW n \in DOMAIN Parse(file).reg.recipes
  PROVE  Bootable(Parse(file).reg.recipes[n])
<1> DEFINE doc == file.recipes[n]
<1>1. n \in DOMAIN file.recipes /\ Parse(file).reg.recipes[n] = RecipeOf(doc).rec
  BY DEF Parse, Gate
<1>2. Bootable(doc)
  BY <1>1, RecipeAssumption
<1> HIDE DEF doc
<1>3. PICK egress, image : RecipeOf(doc).rec = [doc EXCEPT !.egress = egress, !.image = image]
  BY DEF RecipeOf, Decoded
<1>4. Bootable([doc EXCEPT !.egress = egress, !.image = image])
  BY <1>2 DEF Bootable, IsRecipe, Fields
<1>5. QED BY <1>1, <1>3, <1>4

AllBootable(reg) == \A n \in DOMAIN reg.recipes : Bootable(reg.recipes[n])

\* Merging registries makes no new recipe.
LEMMA MergeKeepsRecipes ==
  ASSUME NEW reg, NEW other, AllBootable(reg), AllBootable(other)
  PROVE  AllBootable(Merge(reg, other))
BY DEF Merge, Over, AllBootable

\* A source whose origins are written anew, each as a path, is of its kind.
LEMMA Rewritten ==
  ASSUME NEW s \in Sources, NEW origins \in [Kinds -> Paths],
         \A k \in Kinds : origins[k] = NoPath <=> s.origins[k] = NoPath
  PROVE  /\ [s EXCEPT !.origins = origins] \in Sources
         /\ Kind([s EXCEPT !.origins = origins]) = Kind(s)
         /\ [s EXCEPT !.origins = origins].at = s.at
         /\ [s EXCEPT !.origins = origins].path = s.path
<1> DEFINE t == [s EXCEPT !.origins = origins]
<1>1. t \in Sources /\ t.origins = origins /\ t.at = s.at /\ t.path = s.path
  BY DEF Sources
<1> HIDE DEF t
<1>2. {k \in Kinds : t.origins[k] # NoPath} = {k \in Kinds : s.origins[k] # NoPath}
  BY <1>1
<1>3. Kind(t) = Kind(s)
  BY <1>2 DEF Kind
<1>4. QED BY <1>1, <1>3 DEF t

\* What is joined to a directory is a path.
LEMMA JoinIsAPath ==
  ASSUME NEW dir \in Paths \ {NoPath}, NEW p \in Paths, p # NoPath
  PROVE  Join(dir, p) \in Paths /\ Join(dir, p) # NoPath
BY TailIsAPath, Joined, CleanKeepsHead DEF Join

\* A recipe with its sources rewritten is one as good to boot.
LEMMA SourcesRewritten ==
  ASSUME NEW rec, Bootable(rec), NEW sources \in [DOMAIN rec.sources -> Sources],
         NEW new, DOMAIN new = DOMAIN rec, new.sources = sources, new.sockets = rec.sockets
  PROVE  Bootable(new)
<1>1. rec.sources \in Seq(Sources) /\ Len(rec.sources) <= Len(PlaceIds)
  BY DEF Bootable, IsRecipe
<1>2. Len(rec.sources) \in Nat /\ DOMAIN rec.sources = 1..Len(rec.sources)
  BY <1>1
<1>3. sources \in Seq(Sources) /\ Len(sources) = Len(rec.sources)
  BY <1>2
<1>4. QED BY <1>1, <1>3 DEF Bootable, IsRecipe

\* A recipe anchored on its file is as good to boot.
LEMMA RebasedIsBootable ==
  ASSUME NEW rec, Bootable(rec), NEW dir \in Paths \ {NoPath}
  PROVE  Bootable(RebaseSourcePaths(RebaseImagePaths(rec, dir), dir))
<1> DEFINE img == RebaseImagePaths(rec, dir)
           at(p) == IF IsHostRelative(p) THEN Join(dir, p) ELSE p
           again(s) == [k \in DOMAIN s.origins |-> IF k = "mkmount" THEN s.origins[k] ELSE at(s.origins[k])]
           sources == [i \in DOMAIN rec.sources |-> [rec.sources[i] EXCEPT !.origins = again(rec.sources[i])]]
<1>1. DOMAIN rec = Fields /\ rec.sources \in Seq(Sources)
  BY DEF Bootable, IsRecipe
<1>2. DOMAIN img = Fields /\ img.sources = rec.sources /\ img.sockets = rec.sockets
  BY <1>1 DEF RebaseImagePaths, Fields
<1> HIDE DEF img
<1> DEFINE new == RebaseSourcePaths(img, dir)
<1>3. DOMAIN new = Fields /\ new.sources = sources /\ new.sockets = rec.sockets
  <2>1. PICK egress : new = [img EXCEPT
           !.sources = [i \in DOMAIN img.sources |->
                          [img.sources[i] EXCEPT !.origins = again(img.sources[i])]],
           !.egress = egress]
    BY DEF RebaseSourcePaths
  <2>2. new.sources = [i \in DOMAIN img.sources |->
                          [img.sources[i] EXCEPT !.origins = again(img.sources[i])]]
    <3> HIDE DEF again, at, new
    <3>1. QED BY <1>2, <2>1 DEF Fields
  <2>3. new.sources = sources
    BY <1>2, <2>2
  <2> HIDE DEF at, again
  <2>4. QED BY <1>2, <2>1, <2>3 DEF Fields
<1>4. ASSUME NEW i \in DOMAIN rec.sources
      PROVE  sources[i] \in Sources
  <2>1. rec.sources[i] \in Sources
    BY <1>1
  <2>2. DOMAIN rec.sources[i].origins = Kinds /\ \A k \in Kinds : rec.sources[i].origins[k] \in Paths
    BY <2>1 DEF Sources
  <2>3. \A p \in Paths : at(p) \in Paths /\ (at(p) = NoPath <=> p = NoPath)
    BY JoinIsAPath DEF IsHostRelative
  <2> HIDE DEF at
  <2>4. again(rec.sources[i]) \in [Kinds -> Paths]
        /\ \A k \in Kinds : again(rec.sources[i])[k] = NoPath <=> rec.sources[i].origins[k] = NoPath
    BY <2>2, <2>3
  <2> HIDE DEF again
  <2>5. QED BY <2>1, <2>4, Rewritten
<1> HIDE DEF new
<1>5. sources \in [DOMAIN rec.sources -> Sources]
  <2> HIDE DEF again
  <2>1. QED BY <1>4
<1> HIDE DEF sources
<1>6. Bootable(new)
  BY <1>1, <1>3, <1>5, SourcesRewritten
<1>7. QED BY <1>6 DEF new, img

\* A registry anchored on its file is as good to boot.
LEMMA RebasedKeepsRecipes ==
  ASSUME NEW reg, AllBootable(reg), NEW dir \in Paths \ {NoPath}, "recipes" \in DOMAIN reg
  PROVE  AllBootable(Rebased(reg, dir))
<1> DEFINE anchored == [n \in DOMAIN reg.recipes |->
                          RebaseSourcePaths(RebaseImagePaths(reg.recipes[n], dir), dir)]
<1>1. Rebased(reg, dir).recipes = anchored
  BY DEF Rebased
<1>2. \A n \in DOMAIN reg.recipes : Bootable(anchored[n])
  BY RebasedIsBootable DEF AllBootable
<1> HIDE DEF anchored
<1>3. DOMAIN anchored = DOMAIN reg.recipes
  BY DEF anchored
<1>4. QED BY <1>1, <1>2, <1>3 DEF AllBootable

OnePlace(rec) ==
  \A i, j \in DOMAIN rec.sources :
    MakesPlace(Kind(rec.sources[i])) /\ MakesPlace(Kind(rec.sources[j])) => i = j

\* A boxed recipe that was checked makes at most one place.
LEMMA CheckedHasOnePlace ==
  ASSUME NEW rec, CheckSources(rec), ~Boxless(rec)
  PROVE  OnePlace(rec)
<1>1. \A k : MakesPlace(k) => k # "malformed"
  BY DEF MakesPlace
<1>2. QED BY <1>1 DEF CheckSources, OnePlace

\* Anchoring the origins keeps what was checked.
LEMMA ResolveOriginsKeeps ==
  ASSUME NEW rec, Bootable(rec)
  PROVE  /\ Bootable(ResolveOrigins(rec))
         /\ OnePlace(rec) => OnePlace(ResolveOrigins(rec))
         /\ CheckSockets(rec) => CheckSockets(ResolveOrigins(rec))
         /\ Boxless(rec) <=> Boxless(ResolveOrigins(rec))
<1> DEFINE at(p) == IF IsHostRelative(p) THEN Join(Cwd, p) ELSE p
           again(s) == [k \in DOMAIN s.origins |-> at(s.origins[k])]
           sources == [i \in DOMAIN rec.sources |-> [rec.sources[i] EXCEPT !.origins = again(rec.sources[i])]]
           new == ResolveOrigins(rec)
<1>1. DOMAIN rec = Fields /\ rec.sources \in Seq(Sources)
  BY DEF Bootable, IsRecipe
<1>2. new = [rec EXCEPT !.sources = sources]
  BY DEF ResolveOrigins
<1> HIDE DEF new
<1>3. DOMAIN new = Fields /\ new.sources = sources /\ new.sockets = rec.sockets /\ new.image = rec.image
  <2> HIDE DEF sources
  <2>1. QED BY <1>1, <1>2 DEF Fields
<1>4. ASSUME NEW i \in DOMAIN rec.sources
      PROVE  sources[i] \in Sources /\ Kind(sources[i]) = Kind(rec.sources[i])
  <2>1. rec.sources[i] \in Sources
    BY <1>1
  <2>2. DOMAIN rec.sources[i].origins = Kinds /\ \A k \in Kinds : rec.sources[i].origins[k] \in Paths
    BY <2>1 DEF Sources
  <2>3. Cwd \in Paths \ {NoPath}
    BY RecipeAssumption DEF IsAbs
  <2>4. \A p \in Paths : at(p) \in Paths /\ (at(p) = NoPath <=> p = NoPath)
    BY <2>3, JoinIsAPath DEF IsHostRelative
  <2> HIDE DEF at
  <2>5. again(rec.sources[i]) \in [Kinds -> Paths]
        /\ \A k \in Kinds : again(rec.sources[i])[k] = NoPath <=> rec.sources[i].origins[k] = NoPath
    BY <2>2, <2>4
  <2> HIDE DEF again
  <2>6. QED BY <2>1, <2>5, Rewritten
<1>5. sources \in [DOMAIN rec.sources -> Sources] /\ DOMAIN sources = DOMAIN rec.sources
  <2> HIDE DEF again
  <2>1. QED BY <1>4
<1> HIDE DEF sources
<1>6. Bootable(new)
  BY <1>1, <1>3, <1>5, SourcesRewritten
<1>7. OnePlace(rec) => OnePlace(new)
  BY <1>3, <1>4, <1>5 DEF OnePlace
<1>8. CheckSockets(rec) => CheckSockets(new)
  BY <1>3 DEF CheckSockets
<1>9. Boxless(rec) <=> Boxless(new)
  BY <1>3 DEF Boxless
<1>10. QED BY <1>6, <1>7, <1>8, <1>9 DEF new

----------------------------------------------------------------------------
(* The stages of a boot. *)

Early == {"idle", "loaded", "asked", "checked", "chosen", "confirmed", "bound", "reached", "boxless"}
Ready == {"prepared", "imaged", "mounted", "up"}
Stood == {"placing", "placed"} \cup Ready
Bound == {"bound", "reached", "claimed"} \cup Stood
Chosen == {"chosen", "confirmed"} \cup Bound
Boxed == {"checked"} \cup Chosen
WithRecipe == {"asked", "boxless", "making", "made"} \cup Boxed
FreeReasons == {"no such recipe", "no default", "no file", "parse", "invalid", "checks",
                "worktree", "aborted", "bind", "driver", "image", "boxless"}

Untouched == done = [claimed |-> FALSE, places |-> << >>, image |-> FALSE, box |-> NoBox]

\* What a step leaves behind is known by the step.
Course ==
  /\ "step" \in DOMAIN boot /\ boot.step \in Steps
  /\ DOMAIN done = {"claimed", "places", "image", "box"}
  /\ boot.step \in Early => Untouched
  /\ boot.step = "refused" /\ boot.why \in FreeReasons => Untouched
  /\ done.box.up <=> boot.step = "up"

\* What the boot knows after a step that tells it more.
LEMMA AtKnows ==
  ASSUME NEW step, NEW known, "step" \in DOMAIN boot, "step" \notin DOMAIN known,
         boot' = At(step, known)
  PROVE  /\ DOMAIN boot' = DOMAIN known \cup DOMAIN boot
         /\ boot'.step = step
         /\ \A f \in DOMAIN known : boot'[f] = known[f]
         /\ \A f \in DOMAIN boot \ (DOMAIN known \cup {"step"}) : boot'[f] = boot[f]
<1> DEFINE g == [boot EXCEPT !.step = step]
<1>1. DOMAIN g = DOMAIN boot /\ g["step"] = step /\ \A f \in DOMAIN boot \ {"step"} : g[f] = boot[f]
  OBVIOUS
<1>2. boot' = [x \in (DOMAIN known) \cup (DOMAIN g) |->
                           IF x \in DOMAIN known THEN known[x] ELSE g[x]]
  BY DEF At, Over
<1> HIDE DEF g
<1>3. QED BY <1>1, <1>2

\* What the boot knows after a refusal.
LEMMA AtRefused ==
  ASSUME "step" \in DOMAIN boot, NEW why, boot' = At("refused", [why |-> why])
  PROVE  /\ boot'.step = "refused" /\ boot'.why = why
         /\ DOMAIN boot' = DOMAIN boot \cup {"why"}
         /\ \A f \in DOMAIN boot \ {"step", "why"} : boot'[f] = boot[f]
<1> DEFINE known == [why |-> why]
<1>1. DOMAIN known = {"why"} /\ known["why"] = why
  OBVIOUS
<1> HIDE DEF known
<1>2. boot' = At("refused", known)
  BY DEF known
<1>3. /\ DOMAIN boot' = DOMAIN known \cup DOMAIN boot
      /\ boot'.step = "refused"
      /\ \A f \in DOMAIN known : boot'[f] = known[f]
      /\ \A f \in DOMAIN boot \ (DOMAIN known \cup {"step"}) : boot'[f] = boot[f]
  BY <1>1, <1>2, AtKnows
<1>4. QED BY <1>1, <1>3

\* What the boot knows after a step that tells it nothing.
LEMMA AtMore ==
  ASSUME "step" \in DOMAIN boot, NEW step, boot' = At(step, << >>)
  PROVE  /\ boot'.step = step
         /\ DOMAIN boot' = DOMAIN boot
         /\ \A f \in DOMAIN boot \ {"step"} : boot'[f] = boot[f]
<1> DEFINE known == << >>
<1>1. DOMAIN known = {} /\ boot' = At(step, known)
  OBVIOUS
<1> HIDE DEF known
<1>2. /\ DOMAIN boot' = DOMAIN known \cup DOMAIN boot
      /\ boot'.step = step
      /\ \A f \in DOMAIN boot \ (DOMAIN known \cup {"step"}) : boot'[f] = boot[f]
  BY <1>1, AtKnows
<1>3. QED BY <1>1, <1>2

\* A refusal keeps the course; one for a free reason comes early.
LEMMA Refuses ==
  ASSUME Course, NEW why, Refuse(why), why \in FreeReasons => boot.step \in Early,
         boot.step # "up"
  PROVE  Course' /\ boot'.step = "refused"
<1>1. boot' = At("refused", [why |-> why]) /\ done' = done
  BY DEF Refuse, Goes
<1>2. boot'.step = "refused" /\ boot'.why = why /\ "step" \in DOMAIN boot'
  <2>1. "step" \in DOMAIN boot
    BY DEF Course
  <2>2. QED BY <1>1, <2>1, AtRefused
<1>3. QED BY <1>1, <1>2 DEF Course, Untouched, Early, Steps

\* A step onward that changes nothing but the boot keeps the course.
LEMMA Moves ==
  ASSUME Course, NEW step \in Steps \ {"up", "refused"}, NEW known, "step" \notin DOMAIN known,
         Goes(step, known), step \in Early => boot.step \in Early, boot.step # "up"
  PROVE  Course'
<1>1. boot' = At(step, known) /\ done' = done
  BY DEF Goes
<1>2. boot'.step = step /\ "step" \in DOMAIN boot'
  <2>1. "step" \in DOMAIN boot
    BY DEF Course
  <2>2. boot'.step = step /\ DOMAIN boot' = DOMAIN known \cup DOMAIN boot
    BY <1>1, <2>1, AtKnows
  <2>3. QED BY <2>1, <2>2
<1>3. QED BY <1>1, <1>2 DEF Course, Untouched, Early, Steps

\* So does one that tells the boot nothing.
LEMMA MovesOn ==
  ASSUME Course, NEW step \in Steps \ {"up", "refused"}, Goes(step, << >>),
         step \in Early => boot.step \in Early, boot.step # "up"
  PROVE  Course'
<1>1. boot' = At(step, << >>) /\ done' = done
  BY DEF Goes
<1>2. boot'.step = step /\ "step" \in DOMAIN boot'
  <2>1. "step" \in DOMAIN boot
    BY DEF Course
  <2>2. QED BY <1>1, <2>1, AtMore
<1>3. QED BY <1>1, <1>2 DEF Course, Untouched, Early, Steps

\* Getting the recipe keeps the course.
LEMMA GetCourse ==
  ASSUME Course, boot.step = "loaded", NEW reg, NEW name, NEW dir, Get(reg, name, dir)
  PROVE  Course'
<1>1. CASE Refuse("no such recipe")
  BY <1>1, Refuses DEF Early
<1>2. CASE Goes("asked", [name |-> name, rec |-> reg.recipes[name], dir |-> dir])
  BY <1>2, Moves DEF Early, Steps
<1>3. QED BY <1>1, <1>2 DEF Get

\* Choosing the recipe keeps the course.
LEMMA DispatchCourse ==
  ASSUME Course, Dispatch
  PROVE  Course'
<1>1. boot.step = "loaded"
  BY DEF Dispatch
<1>2. \/ \E why \in FreeReasons : Refuse(why)
      \/ \E reg, name, dir : Get(reg, name, dir)
  BY DEF Dispatch, ResolveRecipe, GetAt, FreeReasons
<1>3. QED BY <1>1, <1>2, Refuses, GetCourse DEF Early

\* The course holds at first.
LEMMA CourseInit == Init => Course
BY DEF Init, Course, Untouched, NoBox, Early, Steps

\* Every step keeps the course.
LEMMA CourseStep == Course /\ [Next]_vars => Course'
<1> SUFFICES ASSUME Course, [Next]_vars
             PROVE  Course'
  OBVIOUS
<1>0. "step" \in DOMAIN boot
  BY DEF Course
<1> USE DEF Early, Steps
<1>1. CASE Ask
  <2>1. boot.step = "idle" /\ done' = done /\ Untouched
    BY <1>1 DEF Ask, Course
  <2>2. boot'.step \in {"refused", "asked", "loaded"} /\ "step" \in DOMAIN boot'
    BY <1>1 DEF Ask
  <2>3. QED BY <2>1, <2>2 DEF Course, Untouched, NoBox
<1>2. CASE Dispatch
  BY <1>2, DispatchCourse
<1>3. CASE Check
  BY <1>3, Refuses, Moves DEF Check
<1>4. CASE ChooseWorktree
  BY <1>4, Refuses, Moves DEF ChooseWorktree
<1>5. CASE Confirm
  BY <1>5, Refuses, MovesOn DEF Confirm
<1>6. CASE Bind
  BY <1>6, Refuses, Moves DEF Bind
<1>7. CASE Reach
  BY <1>7, Refuses, MovesOn DEF Reach
<1>8. CASE Claim
  <2>1. CASE Refuse("image")
    BY <1>8, <2>1, Refuses DEF Claim
  <2>2. CASE ~Refuse("image")
    <3>1. /\ boot.step = "reached" /\ boot' = At("claimed", NoPlace)
          /\ done' = [done EXCEPT !.claimed = boot.req.node # ""]
      BY <1>8, <2>2 DEF Claim
    <3>2. boot'.step = "claimed" /\ "step" \in DOMAIN boot'
      <4>1. DOMAIN NoPlace = {"next", "tip", "hosts"}
        BY DEF NoPlace
      <4>2. QED BY <1>0, <3>1, <4>1, AtKnows
    <3>3. QED BY <3>1, <3>2 DEF Course, Untouched, NoBox
  <2>3. QED BY <2>1, <2>2
<1>9. CASE StandOn
  BY <1>9, Moves DEF StandOn
<1>10. CASE Provision
  <2>1. CASE Refuse("boxless")
    BY <1>10, <2>1, Refuses DEF Provision
  <2>2. CASE ~Refuse("boxless")
    <3> DEFINE known == [next |-> 1, tip |-> "project", hosts |-> << >>, sources |-> boot.rec.sources]
    <3>1. /\ boot.step = "boxless" /\ boot' = At("making", known)
          /\ done' = [done EXCEPT !.claimed = boot.req.node # ""]
      BY <1>10, <2>2 DEF Provision
    <3>2. "step" \notin DOMAIN known
      OBVIOUS
    <3> HIDE DEF known
    <3>3. boot'.step = "making" /\ "step" \in DOMAIN boot'
      BY <1>0, <3>1, <3>2, AtKnows
    <3>4. QED BY <3>1, <3>3 DEF Course, Untouched, NoBox
  <2>3. QED BY <2>1, <2>2
<1>11. CASE PassBy
  BY <1>11, Refuses, Moves DEF PassBy, Placing, FreeReasons
<1>12. CASE CutPlace \/ CopyPlace
  <2>1. boot.step \in {"placing", "making"}
    BY <1>12 DEF CutPlace, CopyPlace, Placing
  <2>2. CASE Refuse("place")
    BY <2>1, <2>2, Refuses DEF FreeReasons
  <2>3. ASSUME NEW kind, NEW at, NEW repo, Made(kind, at, repo)
        PROVE  Course'
    <3> DEFINE known == [next |-> boot.next + 1, tip |-> NodeId(boot.next),
                         hosts |-> Over([i \in {boot.next} |-> at], boot.hosts)]
    <3>1. boot' = At(boot.step, known) /\ \E p : done' = [done EXCEPT !.places = p]
      BY <2>3 DEF Made
    <3>2. boot'.step = boot.step /\ "step" \in DOMAIN boot'
      <4>1. "step" \notin DOMAIN known
        OBVIOUS
      <4> HIDE DEF known
      <4>2. QED BY <1>0, <3>1, <4>1, AtKnows
    <3>3. QED BY <2>1, <3>1, <3>2 DEF Course
  <2>4. ASSUME NEW at, Littered(at)
        PROVE  Course'
    <3>1. boot' = At("refused", [why |-> "place"]) /\ \E p : done' = [done EXCEPT !.places = p]
      BY <2>4 DEF Littered
    <3>2. boot'.step = "refused" /\ "step" \in DOMAIN boot' /\ boot'.why = "place"
      BY <1>0, <3>1, AtRefused
    <3>3. QED BY <2>1, <3>1, <3>2 DEF Course, FreeReasons
  <2>5. \/ Refuse("place")
        \/ \E kind, at, repo : Made(kind, at, repo)
        \/ \E at : Littered(at)
    BY <1>12 DEF CutPlace, CopyPlace
  <2>6. QED BY <2>2, <2>3, <2>4, <2>5
<1>13. CASE Placed
  BY <1>13, Refuses, MovesOn DEF Placed, FreeReasons
<1>14. CASE Prepare
  BY <1>14, Refuses, Moves DEF Prepare, FreeReasons
<1>15. CASE EnsureImage
  <2>1. boot.step = "prepared"
    BY <1>15 DEF EnsureImage
  <2>2. CASE Refuse("build") \/ Goes("imaged", << >>)
    BY <2>1, <2>2, Refuses, MovesOn DEF FreeReasons
  <2>3. CASE boot' = At("imaged", << >>) /\ done' = [done EXCEPT !.image = TRUE]
    <3>1. boot'.step = "imaged" /\ "step" \in DOMAIN boot'
      BY <1>0, <2>3, AtMore
    <3>2. QED BY <2>1, <2>3, <3>1 DEF Course
  <2>4. QED BY <1>15, <2>2, <2>3 DEF EnsureImage
<1>16. CASE MakeMounts
  <2>1. boot.step = "imaged" /\ done' = done
    BY <1>16 DEF MakeMounts
  <2>2. CASE boot' = At("mounted", << >>)
    <3>1. "step" \in DOMAIN boot' /\ boot'.step = "mounted"
      BY <1>0, <2>2, AtMore
    <3>2. QED BY <2>1, <3>1 DEF Course
  <2>3. CASE boot' = At("refused", [why |-> "mounts"])
    <3>1. "step" \in DOMAIN boot' /\ boot'.step = "refused" /\ boot'.why = "mounts"
      BY <1>0, <2>3, AtRefused
    <3>2. QED BY <2>1, <3>1 DEF Course, FreeReasons
  <2>4. QED BY <1>16, <2>2, <2>3 DEF MakeMounts
<1>17. CASE BuildBox
  <2>1. CASE Refuse("socket")
    BY <1>17, <2>1, Refuses DEF BuildBox, FreeReasons
  <2>2. CASE ~Refuse("socket")
    <3>1. /\ boot.step = "mounted" /\ boot' = At("up", << >>)
          /\ \E box : box.up = TRUE /\ done' = [done EXCEPT !.box = box]
      BY <1>17, <2>2 DEF BuildBox
    <3>2. boot'.step = "up" /\ "step" \in DOMAIN boot'
      BY <1>0, <3>1, AtMore
    <3>3. QED BY <3>1, <3>2 DEF Course
  <2>3. QED BY <2>1, <2>2
<1>18. CASE HostMoves \/ UNCHANGED vars
  BY <1>18 DEF HostMoves, vars, Course, Untouched
<1>19. QED
  BY <1>1, <1>2, <1>3, <1>4, <1>5, <1>6, <1>7, <1>8, <1>9, <1>10, <1>11, <1>12, <1>13,
     <1>14, <1>15, <1>16, <1>17, <1>18 DEF Next

\* Whatever recipes, requests and host files there are, a boot refused for a
\* reason it could know beforehand has claimed no name, cut no place, built no
\* image and left no box (RefusedIsFree).
THEOREM RefusalsAreFree == Spec => []RefusedIsFree
<1>1. Course => RefusedIsFree
  <2> SUFFICES ASSUME Course, boot.step = "refused", boot.why \in FreeReasons
               PROVE  ~done.claimed /\ done.places = << >> /\ ~done.image /\ ~done.box.up
    BY DEF RefusedIsFree, FreeReasons
  <2>1. done = [claimed |-> FALSE, places |-> << >>, image |-> FALSE, box |-> [up |-> FALSE]]
    BY DEF Course, Untouched, NoBox
  <2>2. done.claimed = FALSE /\ done.places = << >> /\ done.image = FALSE /\ done.box.up = FALSE
    BY <2>1
  <2>3. QED BY <2>2
<1>2. QED BY <1>1, CourseInit, CourseStep, PTL DEF Spec

----------------------------------------------------------------------------
(* What a boot knows of its request and its recipe. *)

Asked == boot.step # "idle" => "req" \in DOMAIN boot /\ IsRequest(boot.req)

Told ==
  /\ files \in [global : Globals, project : Projects, at : AtPaths]
  /\ boot.step = "loaded" =>
       /\ "reg" \in DOMAIN boot /\ AllBootable(boot.reg)
  /\ boot.step \in WithRecipe => "rec" \in DOMAIN boot /\ Bootable(boot.rec)
  /\ boot.step \in Boxed => OnePlace(boot.rec) /\ CheckSockets(boot.rec)
  /\ boot.step \in Chosen => /\ "worktree" \in DOMAIN boot
                             /\ boot.worktree # "" => boot.worktree \in DOMAIN Worktrees

\* A step that leaves the request, the recipe and the worktree as they were.
LEMMA ToldKept ==
  ASSUME Course, Asked, Told, files' = files, boot.step \notin {"idle", "loaded"},
         boot'.step \notin {"idle", "loaded"},
         \A f \in {"req", "rec", "worktree"} \cap DOMAIN boot : f \in DOMAIN boot' /\ boot'[f] = boot[f],
         boot'.step \in WithRecipe => boot.step \in WithRecipe,
         boot'.step \in Boxed => boot.step \in Boxed,
         boot'.step \in Chosen => boot.step \in Chosen
  PROVE  Asked' /\ Told'
<1>1. "req" \in DOMAIN boot' /\ boot'.req = boot.req
  BY DEF Asked
<1>2. Asked'
  BY <1>1 DEF Asked, IsRequest
<1>3. boot.step \in WithRecipe => "rec" \in DOMAIN boot' /\ boot'.rec = boot.rec
  BY DEF Told
<1>4. boot.step \in Chosen => "worktree" \in DOMAIN boot' /\ boot'.worktree = boot.worktree
  BY DEF Told
<1>5. Boxed \subseteq WithRecipe
  BY DEF WithRecipe
<1>6. QED BY <1>2, <1>3, <1>4, <1>5 DEF Told, OnePlace, CheckSockets

\* A refusal leaves what was told.
LEMMA ToldOnRefuse ==
  ASSUME Course, Asked, Told, boot.step # "idle", NEW why, boot' = At("refused", [why |-> why]),
         files' = files
  PROVE  Asked' /\ Told'
<1>1. "step" \in DOMAIN boot
  BY DEF Course
<1>2. /\ boot'.step = "refused"
      /\ DOMAIN boot' = DOMAIN boot \cup {"why"}
      /\ \A f \in DOMAIN boot \ {"step", "why"} : boot'[f] = boot[f]
  BY <1>1, AtRefused
<1>3. "req" \in DOMAIN boot' /\ boot'.req = boot.req
  BY <1>2 DEF Asked
<1>4. Asked'
  BY <1>3 DEF Asked, IsRequest
<1>5. "refused" \notin WithRecipe
  BY DEF WithRecipe, Boxed, Chosen, Bound, Stood, Ready
<1>6. Told'
  <2>1. boot'.step \notin WithRecipe /\ boot'.step # "loaded"
    BY <1>2, <1>5
  <2>2. Chosen \subseteq Boxed /\ Boxed \subseteq WithRecipe
    BY DEF WithRecipe, Boxed
  <2>3. QED BY <2>1, <2>2 DEF Told
<1>7. QED BY <1>4, <1>6

\* Nothing is asked at first.
LEMMA ToldInit == Init => Asked /\ Told
BY DEF Init, Asked, Told, WithRecipe, Boxed, Chosen, Bound, Stood, Ready

\* The recipe got is one of the registry.
LEMMA ToldOnGet ==
  ASSUME Course, Asked, Told, boot.step = "loaded", NEW reg, AllBootable(reg), NEW name, NEW dir,
         Get(reg, name, dir)
  PROVE  Asked' /\ Told'
<1>1. CASE Refuse("no such recipe")
  BY <1>1, ToldOnRefuse DEF Refuse, Goes
<1>2. CASE name \in DOMAIN reg.recipes
            /\ Goes("asked", [name |-> name, rec |-> reg.recipes[name], dir |-> dir])
  <2> DEFINE known == [name |-> name, rec |-> reg.recipes[name], dir |-> dir]
  <2>1. DOMAIN known = {"name", "rec", "dir"} /\ known["rec"] = reg.recipes[name]
    OBVIOUS
  <2>2. "step" \in DOMAIN boot /\ boot' = At("asked", known) /\ files' = files
    BY <1>2 DEF Course, Goes
  <2>3. /\ boot'.step = "asked" /\ DOMAIN boot' = DOMAIN known \cup DOMAIN boot
        /\ \A f \in DOMAIN known : boot'[f] = known[f]
        /\ \A f \in DOMAIN boot \ (DOMAIN known \cup {"step"}) : boot'[f] = boot[f]
    <3> HIDE DEF known
    <3>1. QED BY <2>1, <2>2, AtKnows
  <2> HIDE DEF known
  <2>4. "req" \in DOMAIN boot' /\ boot'.req = boot.req /\ IsRequest(boot.req)
    BY <2>1, <2>3 DEF Asked
  <2>5. "rec" \in DOMAIN boot' /\ boot'.rec = reg.recipes[name] /\ Bootable(reg.recipes[name])
    BY <1>2, <2>1, <2>3 DEF AllBootable
  <2>6. Asked'
    BY <2>4 DEF Asked, IsRequest
  <2>7. Told'
    BY <2>2, <2>3, <2>5 DEF Told, Boxed, Chosen, Bound, Stood, Ready
  <2>8. QED BY <2>6, <2>7
<1>3. QED BY <1>1, <1>2 DEF Get

\* The layers read hold recipes that can be booted.
LEMMA ToldOnAsk ==
  ASSUME Course, Told, Ask
  PROVE  Asked' /\ Told'
<1>1. PICK req \in Requests :
        IF req.form = "go"
        THEN /\ boot' = IF Boxless(req.rec) \/ ~Validate(req.rec)
                        THEN [step |-> "refused", req |-> req, why |-> "invalid"]
                        ELSE [step |-> "asked", req |-> req, name |-> req.arg, rec |-> req.rec,
                              dir |-> NoPath]
             /\ UNCHANGED <<files, disk, done>>
        ELSE \E parsed \in {[i \in DOMAIN Layers |-> Parse(Layers[i].file)]} :
               /\ boot' = IF \E i \in DOMAIN parsed : ~parsed[i].ok
                          THEN [step |-> "refused", req |-> req, why |-> "parse"]
                          ELSE [step |-> "loaded", req |-> req, reg |-> LoadRegistry(parsed),
                                origins |-> Marks]
               /\ UNCHANGED <<files, disk, done>>
  BY DEF Ask
<1>2. IsRequest(req) /\ files' = files
  BY <1>1, RecipeAssumption
<1>3. boot'.req = req /\ "req" \in DOMAIN boot'
  BY <1>1
<1>4. Asked'
  BY <1>2, <1>3 DEF Asked, IsRequest
<1> USE DEF WithRecipe, Boxed, Chosen, Bound, Stood, Ready
<1>5. CASE boot'.step = "refused"
  BY <1>2, <1>4, <1>5 DEF Told
<1>6. CASE req.form = "go" /\ boot'.step # "refused"
  <2>1. boot' = [step |-> "asked", req |-> req, name |-> req.arg, rec |-> req.rec, dir |-> NoPath]
    BY <1>1, <1>6
  <2>2. Bootable(req.rec)
    BY <1>2, <1>6 DEF IsRequest
  <2>3. QED BY <1>2, <1>4, <2>1, <2>2 DEF Told
<1>7. CASE req.form # "go" /\ boot'.step # "refused"
  <2> DEFINE parsed == [i \in DOMAIN Layers |-> Parse(Layers[i].file)]
  <2>1. boot' = [step |-> "loaded", req |-> req, reg |-> LoadRegistry(parsed), origins |-> Marks]
    BY <1>1, <1>7
  <2>2. ASSUME NEW i \in 1..3
        PROVE  AllBootable(parsed[i].reg)
    <3>1. /\ DOMAIN Layers = 1..3
          /\ Layers[i].file \in {Bundled} \cup Globals \cup Projects \cup AtPaths
      <4>1. /\ DOMAIN Layers = 1..3 /\ Layers[1].file = Bundled
            /\ Layers[2].file = files.global /\ Layers[3].file = files.project
        BY DEF Layers
      <4>2. files.global \in Globals /\ files.project \in Projects
        BY DEF Told
      <4>3. i = 1 \/ i = 2 \/ i = 3
        OBVIOUS
      <4>4. QED BY <4>1, <4>2, <4>3
    <3>2. parsed[i] = Parse(Layers[i].file)
      BY <3>1
    <3> HIDE DEF parsed
    <3>3. QED BY <3>1, <3>2, ParseKeepsRecipes DEF AllBootable
  <2> HIDE DEF parsed
  <2>3. AllBootable(LoadRegistry(parsed))
    BY <2>2, MergeKeepsRecipes DEF LoadRegistry
  <2>4. boot'.step = "loaded" /\ "reg" \in DOMAIN boot' /\ boot'.reg = LoadRegistry(parsed)
    BY <2>1
  <2>5. AllBootable(boot'.reg)
    BY <2>3, <2>4
  <2>6. QED BY <1>2, <1>4, <2>4, <2>5 DEF Told, AllBootable
<1>8. QED BY <1>5, <1>6, <1>7

\* So does what a file named by its path adds to them.
LEMMA ToldOnDispatch ==
  ASSUME Course, Asked, Told, Dispatch
  PROVE  Asked' /\ Told'
<1>1. boot.step = "loaded" /\ AllBootable(boot.reg)
  BY DEF Dispatch, Told
<1>2. CASE \E why : Refuse(why)
  BY <1>1, <1>2, ToldOnRefuse DEF Refuse, Goes
<1>3. CASE \E name, dir : Get(boot.reg, name, dir)
  BY <1>1, <1>3, ToldOnGet
<1>4. CASE ResolveRecipe(boot.reg, boot.req.arg) /\ ~\E why : Refuse(why)
  <2> DEFINE arg == boot.req.arg
             parsed == Parse(files.at)
  <2>1. CASE Get(boot.reg, boot.reg.default, NoPath) \/ Get(boot.reg, arg, NoPath)
    BY <1>1, <2>1, ToldOnGet
  <2>2. CASE /\ arg \in DOMAIN PathArgs
             /\ GetAt(boot.reg, Rebased(parsed.reg, PathArgs[arg]), PathArgs[arg])
    <3> DEFINE other == Rebased(parsed.reg, PathArgs[arg])
    <3>1. AllBootable(parsed.reg) /\ "recipes" \in DOMAIN parsed.reg
      <4>1. files.at \in {Bundled} \cup Globals \cup Projects \cup AtPaths
        BY DEF Told
      <4>2. "recipes" \in DOMAIN parsed.reg
        BY DEF Parse, Gate
      <4>3. QED BY <4>1, <4>2, ParseKeepsRecipes DEF AllBootable
    <3>2. PathArgs[arg] \in Paths \ {NoPath}
      BY <2>2, RecipeAssumption
    <3>3. AllBootable(other)
      BY <3>1, <3>2, RebasedKeepsRecipes
    <3> HIDE DEF other
    <3>4. AllBootable(Merge(boot.reg, other))
      BY <1>1, <3>3, MergeKeepsRecipes
    <3>5. GetAt(boot.reg, other, PathArgs[arg])
      BY <2>2 DEF other
    <3>6. \E name : Get(Merge(boot.reg, other), name, PathArgs[arg])
      BY <3>5, <1>4 DEF GetAt
    <3>7. QED BY <1>1, <3>4, <3>6, ToldOnGet
  <2>3. QED BY <1>4, <2>1, <2>2 DEF ResolveRecipe
<1>5. QED BY <1>2, <1>3, <1>4 DEF Dispatch

\* Every step keeps what the boot was told.
LEMMA ToldStep == Course /\ Asked /\ Told /\ [Next]_vars => Asked' /\ Told'
<1> SUFFICES ASSUME Course, Asked, Told, [Next]_vars
             PROVE  Asked' /\ Told'
  OBVIOUS
<1>0. "step" \in DOMAIN boot
  BY DEF Course
<1> USE DEF WithRecipe, Boxed, Chosen, Bound, Stood, Ready
<1>1. CASE Ask
  BY <1>1, ToldOnAsk
<1>2. CASE Dispatch
  BY <1>2, ToldOnDispatch
<1>r. ASSUME boot.step # "idle", NEW why, Refuse(why)
      PROVE  Asked' /\ Told'
  BY <1>r, ToldOnRefuse DEF Refuse, Goes
<1>m. ASSUME boot.step \notin {"idle", "loaded"}, NEW step \in Steps \ {"idle", "loaded"},
             boot' = At(step, << >>), files' = files,
             step \in WithRecipe => boot.step \in WithRecipe,
             step \in Boxed => boot.step \in Boxed,
             step \in Chosen => boot.step \in Chosen
      PROVE  Asked' /\ Told'
  <2>1. boot'.step = step /\ DOMAIN boot' = DOMAIN boot
        /\ \A f \in DOMAIN boot \ {"step"} : boot'[f] = boot[f]
    BY <1>0, <1>m, AtMore
  <2>2. QED BY <1>m, <2>1, ToldKept
<1>k. ASSUME boot.step \notin {"idle", "loaded"}, NEW step \in Steps \ {"idle", "loaded"}, NEW known,
             boot' = At(step, known), files' = files,
             DOMAIN known \cap {"step", "req", "rec", "worktree"} = {},
             step \in WithRecipe => boot.step \in WithRecipe,
             step \in Boxed => boot.step \in Boxed,
             step \in Chosen => boot.step \in Chosen
      PROVE  Asked' /\ Told'
  <2>1. boot'.step = step /\ DOMAIN boot' = DOMAIN known \cup DOMAIN boot
        /\ \A f \in DOMAIN boot \ (DOMAIN known \cup {"step"}) : boot'[f] = boot[f]
    BY <1>0, <1>k, AtKnows
  <2>2. QED BY <1>k, <2>1, ToldKept
<1>3. CASE Check
  <2>1. boot.step = "asked" /\ Bootable(boot.rec)
    BY <1>3 DEF Check, Told
  <2>2. CASE Refuse("checks")
    BY <1>r, <2>1, <2>2
  <2>3. CASE ~Refuse("checks")
    <3> DEFINE step == IF Boxless(boot.rec) THEN "boxless" ELSE "checked"
               new == IF boot.req.form = "go" THEN boot.rec ELSE ResolveOrigins(boot.rec)
               known == [rec |-> new]
    <3>1. CheckSources(boot.rec) /\ CheckSockets(boot.rec) /\ Goes(step, known)
      BY <1>3, <2>3 DEF Check
    <3>2. Bootable(new) /\ (step = "checked" => OnePlace(new)) /\ CheckSockets(new)
      BY <2>1, <3>1, CheckedHasOnePlace, ResolveOriginsKeeps
    <3>3. DOMAIN known = {"rec"} /\ known["rec"] = new
      OBVIOUS
    <3>4. step \in {"boxless", "checked"} /\ boot' = At(step, known) /\ files' = files
      BY <3>1 DEF Goes
    <3> HIDE DEF known, new, step
    <3>5. /\ boot'.step = step /\ DOMAIN boot' = DOMAIN known \cup DOMAIN boot
          /\ \A f \in DOMAIN known : boot'[f] = known[f]
          /\ \A f \in DOMAIN boot \ (DOMAIN known \cup {"step"}) : boot'[f] = boot[f]
      BY <1>0, <3>3, <3>4, AtKnows
    <3>6. boot'.rec = new /\ "rec" \in DOMAIN boot' /\ boot'.req = boot.req /\ "req" \in DOMAIN boot'
      BY <2>1, <3>3, <3>5 DEF Asked
    <3>7. Asked'
      BY <2>1, <3>6 DEF Asked, IsRequest
    <3>8. Told'
      BY <3>2, <3>4, <3>5, <3>6 DEF Told, OnePlace, CheckSockets
    <3>9. QED BY <3>7, <3>8
  <2>4. QED BY <2>2, <2>3
<1>4. CASE ChooseWorktree
  <2>1. boot.step = "checked" /\ Bootable(boot.rec) /\ OnePlace(boot.rec) /\ CheckSockets(boot.rec)
        /\ "rec" \in DOMAIN boot
    BY <1>4 DEF ChooseWorktree, Told
  <2>2. CASE Refuse("worktree")
    BY <1>r, <2>1, <2>2
  <2>3. CASE ~Refuse("worktree")
    <3>1. PICK arg, w : /\ Goes("chosen", [worktree |-> w])
                        /\ w = IF arg = "" THEN "" ELSE ResolveWorktreeArg(arg).id
                        /\ arg = "" \/ ResolveWorktreeArg(arg).ok
      BY <1>4, <2>3 DEF ChooseWorktree
    <3>2. w = "" \/ w \in DOMAIN Worktrees
      <4>1. CASE arg # "" /\ arg \in DOMAIN Worktrees
        BY <3>1, <4>1 DEF ResolveWorktreeArg
      <4>2. CASE arg # "" /\ arg \notin DOMAIN Worktrees
        <5> DEFINE hits == IF arg \in DOMAIN Prefixed THEN Prefixed[arg] ELSE {}
        <5>1. hits \subseteq DOMAIN Worktrees
          BY RecipeAssumption
        <5> DEFINE got == ResolveWorktreeArg(arg)
        <5>2. got = IF \E v \in hits : hits = {v} THEN [ok |-> TRUE, id |-> CHOOSE v \in hits : TRUE]
                    ELSE [ok |-> FALSE, id |-> ""]
          BY <4>2 DEF ResolveWorktreeArg
        <5>3. got.ok /\ w = got.id
          BY <3>1, <4>2
        <5> HIDE DEF hits, got
        <5>4. CASE \E v \in hits : hits = {v}
          <6>1. got.id = CHOOSE v \in hits : TRUE
            BY <5>2, <5>4
          <6>2. (CHOOSE v \in hits : TRUE) \in hits
            BY <5>4
          <6>3. QED BY <5>1, <5>3, <6>1, <6>2
        <5>5. CASE ~\E v \in hits : hits = {v}
          <6>1. got = [ok |-> FALSE, id |-> ""]
            BY <5>2, <5>5
          <6>2. QED BY <5>3, <6>1
        <5>6. QED BY <5>4, <5>5
      <4>3. QED BY <3>1, <4>1, <4>2
    <3> DEFINE known == [worktree |-> w]
    <3>3. DOMAIN known = {"worktree"} /\ known["worktree"] = w
      OBVIOUS
    <3>4. boot' = At("chosen", known) /\ files' = files
      BY <3>1 DEF Goes
    <3> HIDE DEF known
    <3>5. /\ boot'.step = "chosen" /\ DOMAIN boot' = DOMAIN known \cup DOMAIN boot
          /\ \A f \in DOMAIN known : boot'[f] = known[f]
          /\ \A f \in DOMAIN boot \ (DOMAIN known \cup {"step"}) : boot'[f] = boot[f]
      BY <1>0, <3>3, <3>4, AtKnows
    <3>6. /\ boot'.rec = boot.rec /\ "rec" \in DOMAIN boot' /\ boot'.req = boot.req
          /\ "req" \in DOMAIN boot' /\ boot'.worktree = w /\ "worktree" \in DOMAIN boot'
      BY <2>1, <3>3, <3>5 DEF Asked
    <3>7. Asked'
      BY <2>1, <3>6 DEF Asked, IsRequest
    <3>8. Told'
      BY <2>1, <3>2, <3>4, <3>5, <3>6 DEF Told, OnePlace, CheckSockets
    <3>9. QED BY <3>7, <3>8
  <2>4. QED BY <2>2, <2>3
<1>5. CASE Confirm
  BY <1>5, <1>r, <1>m DEF Confirm, Goes, Steps
<1>6. CASE Bind
  <2>1. boot.step = "confirmed"
    BY <1>6 DEF Bind
  <2>2. CASE Refuse("bind")
    BY <1>r, <2>1, <2>2
  <2>3. ASSUME NEW s, Goes("bound", [sources |-> s])
        PROVE  Asked' /\ Told'
    BY <1>k, <2>1, <2>3 DEF Goes, Steps
  <2>4. QED BY <1>6, <2>2, <2>3 DEF Bind
<1>7. CASE Reach
  BY <1>7, <1>r, <1>m DEF Reach, Goes, Steps
<1>8. CASE Claim
  <2>1. boot.step = "reached"
    BY <1>8 DEF Claim
  <2>2. CASE Refuse("image")
    BY <1>r, <2>1, <2>2
  <2>3. CASE boot' = At("claimed", NoPlace) /\ files' = files
    <3>1. DOMAIN NoPlace = {"next", "tip", "hosts"}
      BY DEF NoPlace
    <3>2. QED BY <1>k, <2>1, <2>3, <3>1 DEF Steps
  <2>4. QED BY <1>8, <2>2, <2>3 DEF Claim
<1>9. CASE StandOn
  BY <1>9, <1>k DEF StandOn, Goes, Steps
<1>10. CASE Provision
  <2>1. boot.step = "boxless"
    BY <1>10 DEF Provision
  <2>2. CASE Refuse("boxless")
    BY <1>r, <2>1, <2>2
  <2>3. CASE ~Refuse("boxless")
    BY <1>10, <1>k, <2>1, <2>3, ZenonT(40) DEF Provision, Steps
  <2>4. QED BY <2>2, <2>3
<1>11. CASE PassBy
  <2>1. boot.step \in {"placing", "making"}
    BY <1>11 DEF PassBy, Placing
  <2>2. CASE Refuse("source")
    BY <1>r, <2>1, <2>2
  <2>3. CASE Goes(boot.step, [next |-> boot.next + 1])
    BY <1>k, <2>1, <2>3 DEF Goes, Steps
  <2>4. QED BY <1>11, <2>2, <2>3 DEF PassBy
<1>12. CASE CutPlace \/ CopyPlace
  <2>1. boot.step \in {"placing", "making"}
    BY <1>12 DEF CutPlace, CopyPlace, Placing
  <2>2. CASE Refuse("place")
    BY <1>r, <2>1, <2>2
  <2>3. ASSUME NEW kind, NEW at, NEW repo, Made(kind, at, repo)
        PROVE  Asked' /\ Told'
    BY <1>k, <2>1, <2>3 DEF Made, Steps
  <2>4. ASSUME NEW at, Littered(at)
        PROVE  Asked' /\ Told'
    BY <2>1, <2>4, ToldOnRefuse DEF Littered
  <2>5. \/ Refuse("place")
        \/ \E kind, at, repo : Made(kind, at, repo)
        \/ \E at : Littered(at)
    BY <1>12 DEF CutPlace, CopyPlace
  <2>6. QED BY <2>2, <2>3, <2>4, <2>5
<1>13. CASE Placed
  BY <1>13, <1>r, <1>m DEF Placed, Goes, Steps
<1>14. CASE Prepare
  <2>1. boot.step = "placed"
    BY <1>14 DEF Prepare
  <2>2. CASE Refuse("sources")
    BY <1>r, <2>1, <2>2
  <2>3. ASSUME NEW s, NEW r, Goes("prepared", [sources |-> s, resolved |-> r])
        PROVE  Asked' /\ Told'
    BY <1>k, <2>1, <2>3 DEF Goes, Steps
  <2>4. QED BY <1>14, <2>2, <2>3 DEF Prepare
<1>15. CASE EnsureImage
  BY <1>15, <1>r, <1>m DEF EnsureImage, Goes, Steps
<1>16. CASE MakeMounts
  <2>1. boot.step = "imaged" /\ files' = files
    BY <1>16 DEF MakeMounts
  <2>2. CASE boot' = At("mounted", << >>)
    BY <1>m, <2>1, <2>2 DEF Steps
  <2>3. CASE boot' = At("refused", [why |-> "mounts"])
    BY <2>1, <2>3, ToldOnRefuse
  <2>4. QED BY <1>16, <2>2, <2>3 DEF MakeMounts
<1>17. CASE BuildBox
  BY <1>17, <1>r, <1>m DEF BuildBox, Steps
<1>18. CASE HostMoves \/ UNCHANGED vars
  BY <1>18 DEF HostMoves, vars, Asked, Told, IsRequest, AllBootable, OnePlace, CheckSockets
<1>19. QED
  BY <1>1, <1>2, <1>3, <1>4, <1>5, <1>6, <1>7, <1>8, <1>9, <1>10, <1>11, <1>12, <1>13,
     <1>14, <1>15, <1>16, <1>17, <1>18 DEF Next

----------------------------------------------------------------------------
(* The sources a boot goes through, and those its box is built of. *)

Log == [origins |-> From("mkmount", Space(BoxId, "tmp")), at |-> NoPath, path |-> LogDir, ro |-> FALSE]
Given == IF boot.worktree = "" THEN boot.rec.sources ELSE BindWorktree(boot.rec.sources, boot.worktree)
Logged == IF Detaching THEN Append(Given, Log) ELSE Given

GivenHolds ==
  boot.step \in Bound =>
    /\ "sources" \in DOMAIN boot
    /\ boot.worktree # "" => Workable(boot.rec.sources)
    /\ boot.sources = IF boot.step \in Ready THEN Logged ELSE Given

\* The id of the box is written in a string.
LEMMA BoxIdIsAString ==
  ASSUME Asked, boot.step # "idle"
  PROVE  BoxId \in STRING
BY RecipeAssumption DEF Asked, IsRequest, BoxId, OwnNames

\* The log of a detached command is a source.
LEMMA LogIsTyped ==
  ASSUME Asked, boot.step # "idle"
  PROVE  Log \in Sources /\ Kind(Log) = "mkmount" /\ Log.path = LogDir
<1>1. Space(BoxId, "tmp") \in Paths /\ Space(BoxId, "tmp") # NoPath
  <2>1. "tmp" \in STRING
    BY RecipeAssumption DEF OwnNames
  <2>2. QED BY <2>1, BoxIdIsAString, SpaceIsAbsolute DEF IsAbs
<1>2. LogDir \in Paths
  <2>1. {"/", "run", "dabs", "log"} \subseteq STRING
    BY RecipeAssumption DEF OwnNames
  <2>2. ASSUME NEW S, NEW a \in S, NEW b \in S, NEW c \in S, NEW d \in S
        PROVE  << a, b, c, d >> \in Seq(S)
    OBVIOUS
  <2>3. QED BY <2>1, <2>2 DEF LogDir, Paths
<1>3. NoPath \in Paths /\ "mkmount" \in Kinds
  BY DEF NoPath, Paths, Kinds
<1>4. PICK no \in BOOLEAN :
        Log = [origins |-> From("mkmount", Space(BoxId, "tmp")), at |-> NoPath, path |-> LogDir, ro |-> no]
  BY DEF Log
<1>5. QED BY <1>1, <1>2, <1>3, <1>4, FromOnly

\* The sources gone through, and those with the log, are sources.
LEMMA GivenIsTyped ==
  ASSUME Asked, Told, GivenHolds, boot.step \in Bound
  PROVE  /\ Given \in Seq(Sources)
         /\ Logged \in Seq(Sources)
         /\ Len(Given) \in Nat
         /\ DOMAIN Given = 1..Len(Given)
         /\ DOMAIN Given \subseteq DOMAIN Logged
         /\ \A i \in DOMAIN Given : Logged[i] = Given[i]
         /\ \A i \in DOMAIN Logged \ DOMAIN Given : Kind(Logged[i]) = "mkmount"
<1>1. boot.rec.sources \in Seq(Sources) /\ boot.step # "idle"
  BY DEF Told, Bootable, IsRecipe, WithRecipe, Boxed, Chosen, Bound, Stood, Ready
<1>2. Given \in Seq(Sources)
  <2>1. CASE boot.worktree = ""
    BY <1>1, <2>1 DEF Given
  <2>2. CASE boot.worktree # ""
    <3>1. boot.worktree \in DOMAIN Worktrees /\ Workable(boot.rec.sources)
      BY <2>2 DEF Told, GivenHolds, Chosen
    <3>2. QED BY <1>1, <2>2, <3>1, BindHolds DEF Given
  <2>3. QED BY <2>1, <2>2
<1>3. Log \in Sources /\ Kind(Log) = "mkmount"
  BY <1>1, LogIsTyped
<1> DEFINE g == Given
           l == Log
<1>4. g \in Seq(Sources) /\ l \in Sources /\ Kind(l) = "mkmount"
  BY <1>2, <1>3
<1>5. Logged \in {g, Append(g, l)}
  BY DEF Logged
<1> HIDE DEF g, l
<1>6. /\ Append(g, l) \in Seq(Sources) /\ Len(g) \in Nat /\ DOMAIN g = 1..Len(g)
      /\ DOMAIN Append(g, l) = 1..(Len(g) + 1)
      /\ \A i \in 1..Len(g) : Append(g, l)[i] = g[i]
      /\ Append(g, l)[Len(g) + 1] = l
  BY <1>4, AppendProperties
<1>7. /\ DOMAIN g \subseteq DOMAIN Append(g, l)
      /\ \A i \in DOMAIN Append(g, l) \ DOMAIN g : i = Len(g) + 1
  BY <1>6
<1>8. /\ Logged \in Seq(Sources)
      /\ DOMAIN g \subseteq DOMAIN Logged
      /\ \A i \in DOMAIN g : Logged[i] = g[i]
      /\ \A i \in DOMAIN Logged \ DOMAIN g : Kind(Logged[i]) = "mkmount"
  BY <1>4, <1>5, <1>6, <1>7
<1>9. QED BY <1>4, <1>6, <1>8 DEF g

\* A step that leaves the request, the recipe, the worktree and the sources.
LEMMA GivenKept ==
  ASSUME Asked, Told, GivenHolds, boot.step \in Bound, boot'.step \in Ready <=> boot.step \in Ready,
         \A f \in {"req", "rec", "worktree", "sources"} \cap DOMAIN boot : f \in DOMAIN boot' /\ boot'[f] = boot[f]
  PROVE  GivenHolds'
<1>1. {"req", "rec", "worktree", "sources"} \subseteq DOMAIN boot
  BY DEF Asked, Told, GivenHolds, WithRecipe, Boxed, Chosen, Bound, Stood, Ready
<1>2. /\ boot'.req = boot.req /\ boot'.rec = boot.rec /\ boot'.worktree = boot.worktree
      /\ boot'.sources = boot.sources /\ "sources" \in DOMAIN boot'
  BY <1>1
<1>3. Given' = Given /\ Logged' = Logged
  BY <1>2 DEF Given, Logged, Log, Detaching, BoxId
<1>4. Workable(boot.rec.sources) => Workable(boot.rec.sources)'
  BY <1>2 DEF Workable, CarriesTheWork, MakesPlace
<1>5. QED BY <1>2, <1>3, <1>4 DEF GivenHolds

\* The stages before a boot's sources are settled.
Before == {"idle", "loaded", "asked", "checked", "chosen", "boxless", "making", "made", "refused"}

\* No source is settled before the recipe is bound.
LEMMA BeforeBound ==
  ASSUME Course, [Next]_vars, boot.step \in Before
  PROVE  boot'.step \notin Bound
<1> USE DEF Bound, Stood, Ready
<1>0. "step" \in DOMAIN boot
  BY DEF Course
<1>1. CASE Ask
  BY <1>1 DEF Ask
<1>2. ASSUME NEW step, step \notin Bound, NEW known, boot' = At(step, known), "step" \notin DOMAIN known
      PROVE  boot'.step \notin Bound
  BY <1>0, <1>2, AtKnows
<1>3. ASSUME NEW why, Refuse(why)
      PROVE  boot'.step \notin Bound
  BY <1>0, <1>3, AtRefused DEF Refuse, Goes
<1>4. CASE Dispatch
  <2>1. \/ \E why : Refuse(why)
        \/ \E reg, name, dir : Get(reg, name, dir)
    BY <1>4 DEF Dispatch, ResolveRecipe, GetAt
  <2>2. \/ \E why : Refuse(why)
        \/ \E reg, name, dir : Goes("asked", [name |-> name, rec |-> reg.recipes[name], dir |-> dir])
    BY <2>1 DEF Get
  <2>3. ASSUME NEW reg, NEW name, NEW dir,
               boot' = At("asked", [name |-> name, rec |-> reg.recipes[name], dir |-> dir])
        PROVE  boot'.step \notin Bound
    BY <1>2, <2>3
  <2>4. QED BY <1>3, <2>2, <2>3 DEF Goes
<1>5. CASE Check
  <2>1. \/ \E why : Refuse(why)
        \/ \E step \in {"boxless", "checked"} : \E rec : Goes(step, [rec |-> rec])
    BY <1>5 DEF Check
  <2>2. ASSUME NEW step \in {"boxless", "checked"}, NEW rec, boot' = At(step, [rec |-> rec])
        PROVE  boot'.step \notin Bound
    BY <1>2, <2>2
  <2>3. QED BY <1>3, <2>1, <2>2 DEF Goes
<1>6. CASE ChooseWorktree
  <2>1. \/ \E why : Refuse(why)
        \/ \E w : Goes("chosen", [worktree |-> w])
    BY <1>6 DEF ChooseWorktree
  <2>2. ASSUME NEW w, boot' = At("chosen", [worktree |-> w])
        PROVE  boot'.step \notin Bound
    BY <1>2, <2>2
  <2>3. QED BY <1>3, <2>1, <2>2 DEF Goes
<1>7. CASE Confirm
  <2>1. boot' = At("confirmed", << >>) => boot'.step = "confirmed"
    BY <1>0, AtMore
  <2>2. QED BY <1>3, <1>7, <2>1 DEF Confirm, Goes
<1>8. CASE Provision
  <2>1. \/ \E why : Refuse(why)
        \/ boot' = At("making", [next |-> 1, tip |-> "project", hosts |-> << >>,
                                 sources |-> boot.rec.sources])
    BY <1>8 DEF Provision
  <2>2. ASSUME boot' = At("making", [next |-> 1, tip |-> "project", hosts |-> << >>,
                                     sources |-> boot.rec.sources])
        PROVE  boot'.step \notin Bound
    BY <1>2, <2>2
  <2>3. QED BY <1>3, <2>1, <2>2
<1>9. CASE boot.step = "making" /\ (PassBy \/ CutPlace \/ CopyPlace)
  <2>1. CASE PassBy
    BY <1>2, <1>3, <1>9, <2>1 DEF PassBy, Goes
  <2>2. CASE CutPlace \/ CopyPlace
    <3>1. \/ \E why : Refuse(why)
          \/ \E kind, at, repo : Made(kind, at, repo)
          \/ \E at : Littered(at)
      BY <2>2 DEF CutPlace, CopyPlace
    <3>2. ASSUME NEW at, boot' = At(boot.step, [next |-> boot.next + 1, tip |-> NodeId(boot.next),
                               hosts |-> Over([i \in {boot.next} |-> at], boot.hosts)])
          PROVE  boot'.step \notin Bound
      BY <1>2, <1>9, <3>2
    <3>3. ASSUME NEW at, Littered(at)
          PROVE  boot'.step \notin Bound
      BY <1>0, <3>3, AtRefused DEF Littered
    <3>4. QED BY <1>3, <3>1, <3>2, <3>3 DEF Made
  <2>3. QED BY <1>9, <2>1, <2>2
<1>10. CASE boot.step = "making" /\ Placed
  <2>1. boot' = At("made", << >>) => boot'.step = "made"
    BY <1>0, AtMore
  <2>2. QED BY <1>3, <1>10, <2>1 DEF Placed, Goes
<1>11. CASE HostMoves \/ UNCHANGED vars
  BY <1>11 DEF HostMoves, vars, Before
<1>12. QED
  BY <1>1, <1>4, <1>5, <1>6, <1>7, <1>8, <1>9, <1>10, <1>11
  DEF Next, Before, Bind, Reach, Claim, StandOn, PassBy, CutPlace, CopyPlace, Placing, Placed, Prepare,
      EnsureImage, MakeMounts, BuildBox

\* No source is settled at first.
LEMMA GivenInit == Init => GivenHolds
BY DEF Init, GivenHolds, Bound, Stood, Ready

\* Every step keeps the boot's sources.
LEMMA GivenStep == Course /\ Asked /\ Told /\ GivenHolds /\ [Next]_vars => GivenHolds'
<1> SUFFICES ASSUME Course, Asked, Told, GivenHolds, [Next]_vars
             PROVE  GivenHolds'
  OBVIOUS
<1>0. "step" \in DOMAIN boot
  BY DEF Course
<1>1. ASSUME boot'.step \notin Bound
      PROVE  GivenHolds'
  BY <1>1 DEF GivenHolds
<1>2. ASSUME NEW why, boot' = At("refused", [why |-> why])
      PROVE  GivenHolds'
  <2>1. boot'.step = "refused"
    BY <1>0, <1>2, AtRefused
  <2>2. QED BY <1>1, <2>1 DEF Bound, Stood, Ready
<1>3. ASSUME boot.step \in Bound, NEW step, boot' = At(step, << >>),
             step \in Ready <=> boot.step \in Ready
      PROVE  GivenHolds'
  <2>1. boot'.step = step /\ DOMAIN boot' = DOMAIN boot
        /\ \A f \in DOMAIN boot \ {"step"} : boot'[f] = boot[f]
    BY <1>0, <1>3, AtMore
  <2>2. QED BY <1>3, <2>1, GivenKept
<1>4. ASSUME boot.step \in Bound, NEW step, NEW known, boot' = At(step, known),
             DOMAIN known \cap {"step", "req", "rec", "worktree", "sources"} = {},
             step \in Ready <=> boot.step \in Ready
      PROVE  GivenHolds'
  <2>1. boot'.step = step /\ DOMAIN boot' = DOMAIN known \cup DOMAIN boot
        /\ \A f \in DOMAIN boot \ (DOMAIN known \cup {"step"}) : boot'[f] = boot[f]
    BY <1>0, <1>4, AtKnows
  <2>2. QED BY <1>4, <2>1, GivenKept
<1>5. CASE boot.step \in Before
  <2>1. boot'.step \notin Bound
    BY <1>5, BeforeBound
  <2>2. QED BY <1>1, <2>1
<1>6. CASE boot.step = "confirmed" /\ Bind
  <2>1. CASE \E why : Refuse(why)
    BY <1>2, <2>1 DEF Refuse, Goes
  <2>2. CASE ~\E why : Refuse(why)
    <3>1. /\ Goes("bound", [sources |-> Given])
          /\ boot.worktree # "" => Workable(boot.rec.sources)
      <4> DEFINE work == [i \in DOMAIN boot.rec.sources |->
                            IF Kind(boot.rec.sources[i]) = "malformed" THEN "error"
                            ELSE CarriesTheWork(boot.rec.sources[i])]
      <4>1. CASE boot.worktree = ""
        BY <1>6, <2>2, <4>1 DEF Bind, Given
      <4>2. CASE boot.worktree # ""
        <5>1. /\ Goes("bound", [sources |-> Given])
              /\ ~("error" \in Range(work) \/ "yes" \notin Range(work))
          BY <1>6, <2>2, <4>2 DEF Bind, Given
        <5>2. \A s : CarriesTheWork(s) \in {"yes", "no", "error"}
          BY DEF CarriesTheWork
        <5>3. Workable(boot.rec.sources)
          BY <5>1, <5>2 DEF Workable, Range
        <5>4. QED BY <5>1, <5>3
      <4>3. QED BY <4>1, <4>2
    <3> DEFINE known == [sources |-> Given]
    <3>2. DOMAIN known = {"sources"} /\ known["sources"] = Given /\ boot' = At("bound", known)
      BY <3>1 DEF Goes
    <3> HIDE DEF known
    <3>3. /\ boot'.step = "bound" /\ DOMAIN boot' = DOMAIN known \cup DOMAIN boot
          /\ \A f \in DOMAIN known : boot'[f] = known[f]
          /\ \A f \in DOMAIN boot \ (DOMAIN known \cup {"step"}) : boot'[f] = boot[f]
      BY <1>0, <3>2, AtKnows
    <3>4. {"rec", "worktree"} \subseteq DOMAIN boot
      BY <1>6 DEF Told, WithRecipe, Boxed, Chosen
    <3>5. /\ boot'.sources = Given /\ "sources" \in DOMAIN boot'
          /\ boot'.rec = boot.rec /\ boot'.worktree = boot.worktree
      BY <3>2, <3>3, <3>4
    <3>6. Given' = Given
      BY <3>5 DEF Given
    <3>7. Workable(boot.rec.sources) => Workable(boot.rec.sources)'
      BY <3>5 DEF Workable, CarriesTheWork, MakesPlace
    <3>8. QED BY <3>1, <3>3, <3>5, <3>6, <3>7 DEF GivenHolds, Ready
  <2>3. QED BY <2>1, <2>2
<1>7. CASE boot.step = "confirmed" /\ ~Bind
  <2>1. boot' = boot
    BY <1>7 DEF Next, vars, Ask, Dispatch, Check, ChooseWorktree, Confirm, Reach, Claim, StandOn, Provision,
       PassBy, CutPlace, CopyPlace, Placing, Placed, Prepare, EnsureImage, MakeMounts, BuildBox, HostMoves
  <2>2. QED BY <1>1, <1>7, <2>1 DEF Bound, Stood, Ready
<1>8. CASE boot.step \in Bound
  <2> USE DEF Bound, Stood, Ready
  <2>1. CASE Reach
    BY <1>2, <1>3, <1>8, <2>1 DEF Reach, Refuse, Goes
  <2>2. CASE Claim
    <3>1. CASE Refuse("image")
      BY <1>2, <3>1 DEF Refuse, Goes
    <3>2. CASE ~Refuse("image")
      <4>1. DOMAIN NoPlace = {"next", "tip", "hosts"}
        BY DEF NoPlace
      <4>2. boot.step = "reached" /\ boot' = At("claimed", NoPlace)
        BY <2>2, <3>2 DEF Claim
      <4>3. QED BY <1>4, <4>1, <4>2
    <3>3. QED BY <3>1, <3>2
  <2>3. CASE StandOn
    BY <1>4, <2>3 DEF StandOn, Goes
  <2>4. CASE PassBy
    <3>1. boot.step = "placing"
      BY <1>8, <2>4 DEF PassBy, Placing
    <3>2. QED BY <1>2, <1>4, <2>4, <3>1 DEF PassBy, Refuse, Goes
  <2>5. CASE CutPlace \/ CopyPlace
    <3>1. boot.step = "placing"
      BY <1>8, <2>5 DEF CutPlace, CopyPlace, Placing
    <3>2. \/ \E why : Refuse(why)
          \/ \E kind, at, repo : Made(kind, at, repo)
          \/ \E at : Littered(at)
      BY <2>5 DEF CutPlace, CopyPlace
    <3>3. QED BY <1>2, <1>4, <3>1, <3>2 DEF Refuse, Goes, Made, Littered
  <2>6. CASE Placed
    <3>1. boot.step = "placing"
      BY <1>8, <2>6 DEF Placed
    <3>2. QED BY <1>2, <1>3, <2>6, <3>1 DEF Placed, Refuse, Goes
  <2>7. CASE Prepare
    <3>1. boot.step = "placed"
      BY <2>7 DEF Prepare
    <3>2. CASE Refuse("sources")
      BY <1>2, <3>2 DEF Refuse, Goes
    <3>3. CASE ~Refuse("sources")
      <4>1. boot.sources = Given
        BY <3>1 DEF GivenHolds
      <4>2. WithLog = Logged
        BY <4>1 DEF WithLog, Logged, Log
      <4> DEFINE known == [sources |-> WithLog, resolved |-> [i \in DOMAIN WithLog |-> Resolved(i)]]
      <4>3. /\ DOMAIN known = {"sources", "resolved"} /\ known["sources"] = Logged
            /\ boot' = At("prepared", known)
        BY <2>7, <3>3, <4>2 DEF Prepare, Goes
      <4> HIDE DEF known
      <4>4. /\ boot'.step = "prepared" /\ DOMAIN boot' = DOMAIN known \cup DOMAIN boot
            /\ \A f \in DOMAIN known : boot'[f] = known[f]
            /\ \A f \in DOMAIN boot \ (DOMAIN known \cup {"step"}) : boot'[f] = boot[f]
        BY <1>0, <4>3, AtKnows
      <4>5. {"req", "rec", "worktree"} \subseteq DOMAIN boot
        BY <3>1 DEF Asked, Told, WithRecipe, Boxed, Chosen
      <4>6. /\ boot'.sources = Logged /\ "sources" \in DOMAIN boot' /\ boot'.req = boot.req
            /\ boot'.rec = boot.rec /\ boot'.worktree = boot.worktree
        BY <4>3, <4>4, <4>5
      <4>7. Logged' = Logged
        BY <4>6 DEF Given, Logged, Log, Detaching, BoxId
      <4>8. Workable(boot.rec.sources) => Workable(boot.rec.sources)'
        BY <4>6 DEF Workable, CarriesTheWork, MakesPlace
      <4>9. QED BY <3>1, <4>4, <4>6, <4>7, <4>8 DEF GivenHolds
    <3>4. QED BY <3>2, <3>3
  <2>8. CASE EnsureImage
    BY <1>2, <1>3, <2>8 DEF EnsureImage, Refuse, Goes
  <2>9. CASE MakeMounts
    BY <1>2, <1>3, <2>9 DEF MakeMounts
  <2>10. CASE BuildBox
    BY <1>2, <1>3, <2>10 DEF BuildBox, Refuse, Goes
  <2>11. CASE HostMoves \/ UNCHANGED vars
    <3>1. boot' = boot
      BY <2>11 DEF HostMoves, vars
    <3>2. QED BY <1>8, <3>1, GivenKept
  <2>12. QED
    BY <1>8, <2>1, <2>2, <2>3, <2>4, <2>5, <2>6, <2>7, <2>8, <2>9, <2>10, <2>11
    DEF Next, Ask, Dispatch, Check, ChooseWorktree, Confirm, Bind, Provision
<1>9. boot.step \in Steps
  BY DEF Course
<1>10. QED
  BY <1>5, <1>6, <1>7, <1>8, <1>9 DEF Steps, Before, Bound, Stood, Ready

----------------------------------------------------------------------------
(* The place a box stands on. *)

\* The boot made a place of its source i, and stands on it.
StandsOn(i, pl) ==
  LET s == boot.rec.sources[i]
  IN /\ i \in DOMAIN boot.rec.sources /\ MakesPlace(Kind(s))
     /\ boot.tip = pl.id /\ pl.id \in STRING
     /\ DOMAIN boot.hosts = {i} /\ boot.hosts[i] = pl.at
     /\ done.places = << pl >>
     /\ pl.kind = "worktree" <=> Kind(s) = "worktree"
     /\ pl.kind = "worktree" => pl.repo \in Paths
     /\ s.at # NoPath => Expand(s.at, NodeVars(pl.id)).ok /\ pl.at = Expand(s.at, NodeVars(pl.id)).path

\* Of the first n sources none makes a place, or the boot stands on its place.
StandsUpTo(n) ==
  \/ /\ boot.tip = "project" /\ DOMAIN boot.hosts = {} /\ done.places = << >>
     /\ \A i \in DOMAIN boot.rec.sources : i <= n => ~MakesPlace(Kind(boot.rec.sources[i]))
  \/ \E i \in 1..n : \E pl : StandsOn(i, pl)

Settled == {"placed"} \cup Ready

Standing ==
  /\ boot.step \in {"claimed", "placing"} \cup Settled => {"next", "tip", "hosts"} \subseteq DOMAIN boot
  /\ boot.step = "claimed" => boot.next = 1 /\ DOMAIN boot.hosts = {} /\ done.places = << >>
  /\ boot.step = "placing" => boot.worktree = "" /\ boot.next \in Nat \ {0} /\ StandsUpTo(boot.next - 1)
  /\ boot.step \in Settled =>
       IF boot.worktree = "" THEN StandsUpTo(Len(boot.rec.sources))
       ELSE boot.tip = boot.worktree /\ DOMAIN boot.hosts = {} /\ done.places = << >>

\* The host has the files it started with, and those a boot made for its mounts.
OnDisk ==
  DOMAIN disk \subseteq DOMAIN Disk
    \cup (IF boot.step \in {"mounted", "up", "refused"} /\ "resolved" \in DOMAIN boot
          THEN {boot.resolved[i] : i \in DOMAIN boot.resolved} ELSE {})

\* Among finitely many paths one is the longest.
LEMMA LongestPath ==
  ASSUME NEW T, IsFiniteSet(T), T # {}, \A p \in T : Len(p) \in Nat
  PROVE  \E p \in T : \A q \in T : Len(q) <= Len(p)
<1> DEFINE longer(p) == {q \in T : Len(q) > Len(p)}
           D == {Cardinality(longer(p)) : p \in T}
<1>1. ASSUME NEW p \in T
      PROVE  IsFiniteSet(longer(p)) /\ Cardinality(longer(p)) \in Nat
  <2>1. IsFiniteSet(longer(p))
    BY FS_Subset
  <2>2. QED BY <2>1, FS_CardinalityType
<1>2. PICK d \in D : \A e \in D : d <= e
  <2>1. D \in SUBSET Nat /\ D # {}
    BY <1>1
  <2> HIDE DEF D
  <2>2. QED BY <2>1, LeastNumber
<1>3. PICK p \in T : d = Cardinality(longer(p))
  OBVIOUS
<1>4. ASSUME NEW q \in T, Len(q) > Len(p)
      PROVE  FALSE
  <2>1. longer(q) \cup {q} \subseteq longer(p) /\ q \notin longer(q)
    BY <1>4
  <2>2. IsFiniteSet(longer(q)) /\ IsFiniteSet(longer(p))
    BY <1>1
  <2>3. Cardinality(longer(q) \cup {q}) = Cardinality(longer(q)) + 1
    BY <2>1, <2>2, FS_AddElement
  <2>4. Cardinality(longer(q) \cup {q}) <= Cardinality(longer(p))
    BY <2>1, <2>2, FS_Subset
  <2>5. Cardinality(longer(q)) \in Nat /\ Cardinality(longer(p)) \in Nat
    BY <1>1
  <2>6. Cardinality(longer(p)) <= Cardinality(longer(q))
    BY <1>2, <1>3
  <2> HIDE DEF longer
  <2>7. QED BY <2>3, <2>4, <2>5, <2>6
<1>5. QED BY <1>4

\* The repository found around a directory is one of the host's paths.
LEMMA ToplevelIsAPath ==
  ASSUME DOMAIN disk \subseteq DOMAIN Disk, NEW host, Toplevels(host) # {}
  PROVE  Toplevel(host) \in Toplevels(host) /\ Toplevel(host) \in Paths
<1>1. Toplevels(host) \subseteq DOMAIN Disk /\ IsFiniteSet(DOMAIN Disk)
  BY RecipeAssumption DEF Toplevels
<1>2. \A p \in DOMAIN Disk : p \in Paths
  BY RecipeAssumption
<1>3. IsFiniteSet(Toplevels(host)) /\ \A p \in Toplevels(host) : Len(p) \in Nat
  BY <1>1, <1>2, FS_Subset DEF Paths
<1>4. \E p \in Toplevels(host) : \A q \in Toplevels(host) : Len(q) <= Len(p)
  BY <1>3, LongestPath
<1>5. Toplevel(host) \in Toplevels(host)
  BY <1>4 DEF Toplevel
<1>6. QED BY <1>1, <1>2, <1>5

\* A step that leaves the recipe, the worktree and the place as they were.
LEMMA StandsKept ==
  ASSUME Told, Standing, boot.step \in {"placing"} \cup Settled, NEW n, StandsUpTo(n),
         \A f \in {"rec", "tip", "hosts"} \cap DOMAIN boot : f \in DOMAIN boot' /\ boot'[f] = boot[f],
         done'.places = done.places
  PROVE  StandsUpTo(n)'
<1>1. {"rec", "tip", "hosts"} \subseteq DOMAIN boot
  BY DEF Told, Standing, WithRecipe, Boxed, Chosen, Bound, Stood, Settled, Ready
<1>2. boot'.rec = boot.rec /\ boot'.tip = boot.tip /\ boot'.hosts = boot.hosts
  BY <1>1
<1>3. QED BY <1>2 DEF StandsUpTo, StandsOn, MakesPlace

\* A step past the placing leaves the place as it was.
LEMMA SettledKept ==
  ASSUME Told, Standing, boot.step \in Settled, boot'.step \in Settled,
         \A f \in {"rec", "worktree", "next", "tip", "hosts"} \cap DOMAIN boot :
            f \in DOMAIN boot' /\ boot'[f] = boot[f],
         done'.places = done.places
  PROVE  Standing'
<1>1. {"rec", "worktree", "next", "tip", "hosts"} \subseteq DOMAIN boot
  BY DEF Told, Standing, WithRecipe, Boxed, Chosen, Bound, Stood, Settled, Ready
<1>2. /\ boot'.rec = boot.rec /\ boot'.tip = boot.tip /\ boot'.hosts = boot.hosts
      /\ boot'.worktree = boot.worktree /\ {"next", "tip", "hosts"} \subseteq DOMAIN boot'
  BY <1>1
<1>3. CASE boot.worktree = ""
  <2>1. StandsUpTo(Len(boot.rec.sources))
    BY <1>3 DEF Standing
  <2>2. StandsUpTo(Len(boot.rec.sources))'
    BY <1>2, <2>1 DEF StandsUpTo, StandsOn, MakesPlace
  <2>3. QED BY <1>2, <1>3, <2>2 DEF Standing, Settled, Ready
<1>4. CASE boot.worktree # ""
  BY <1>2, <1>4 DEF Standing, Settled, Ready
<1>5. QED BY <1>3, <1>4

\* At first there is no place, and the host's own files.
LEMMA StandingInit == Init => Standing /\ OnDisk
BY DEF Init, Standing, OnDisk, Settled, Ready

\* The place cut or copied out becomes the one the boot stands on.
LEMMA StandsOnMade ==
  ASSUME Course, Asked, Told, GivenHolds, Standing, OnDisk, boot.step = "placing",
         boot.next <= Len(boot.sources),
         NEW kind, NEW repo, NEW leaf, Made(kind, Where(leaf).path, repo), Where(leaf).ok,
         MakesPlace(Kind(Source)), kind = "worktree" <=> Kind(Source) = "worktree",
         kind = "worktree" => repo \in Paths
  PROVE  Standing'
<1>1. /\ boot.worktree = "" /\ boot.next \in Nat \ {0} /\ StandsUpTo(boot.next - 1)
      /\ {"next", "tip", "hosts"} \subseteq DOMAIN boot
  BY DEF Standing
<1>2. /\ boot.sources = boot.rec.sources /\ "step" \in DOMAIN boot
      /\ {"rec", "worktree"} \subseteq DOMAIN boot
      /\ Bootable(boot.rec) /\ OnePlace(boot.rec)
  BY <1>1 DEF Course, GivenHolds, Given, Told, WithRecipe, Boxed, Chosen, Bound, Stood, Ready
<1>i. PICK i : i = boot.next
  OBVIOUS
<1>a. PICK at : at = Where(leaf).path
  OBVIOUS
<1>p. PICK pl : pl = Place(kind, at, repo)
  OBVIOUS
<1> DEFINE known == [next |-> i + 1, tip |-> NodeId(i), hosts |-> Over([j \in {i} |-> at], boot.hosts)]
<1>3. boot.rec.sources \in Seq(Sources) /\ Len(boot.rec.sources) <= Len(PlaceIds)
  BY <1>2 DEF Bootable, IsRecipe
<1>4. i \in DOMAIN boot.rec.sources /\ i \in DOMAIN PlaceIds
  <2>1. Len(boot.rec.sources) \in Nat /\ DOMAIN boot.rec.sources = 1..Len(boot.rec.sources)
    BY <1>3
  <2>2. Len(PlaceIds) \in Nat /\ DOMAIN PlaceIds = 1..Len(PlaceIds)
    BY RecipeAssumption
  <2>3. i \in Nat \ {0} /\ i <= Len(boot.rec.sources) /\ i <= Len(PlaceIds)
    <3>1. i <= Len(boot.rec.sources)
      BY <1>2, <1>i
    <3>2. i \in Nat /\ i # 0
      BY <1>1, <1>i
    <3>3. QED BY <1>3, <2>1, <2>2, <3>1, <3>2
  <2>4. QED BY <2>1, <2>2, <2>3
<1>5. NodeId(i) = PlaceIds[i] /\ PlaceIds[i] \in STRING
  BY <1>4, RecipeAssumption DEF NodeId
<1>6. DOMAIN boot.hosts = {} /\ done.places = << >>
  <2>1. ASSUME NEW k \in 1..(i - 1), NEW other, StandsOn(k, other)
        PROVE  FALSE
    <3>1. k \in DOMAIN boot.rec.sources /\ MakesPlace(Kind(boot.rec.sources[k]))
      BY <2>1 DEF StandsOn
    <3>2. MakesPlace(Kind(boot.rec.sources[i]))
      BY <1>2, <1>i DEF Source
    <3>3. k = i
      BY <1>2, <1>4, <3>1, <3>2 DEF OnePlace
    <3>4. i \in Nat
      BY <1>1, <1>i
    <3>5. QED BY <3>3, <3>4
  <2>2. QED BY <1>1, <1>i, <2>1 DEF StandsUpTo
<1>7. /\ DOMAIN known = {"next", "tip", "hosts"} /\ known["next"] = i + 1 /\ known["tip"] = NodeId(i)
      /\ known["hosts"] = Over([j \in {i} |-> at], boot.hosts)
  OBVIOUS
<1>8. boot' = At(boot.step, known) /\ done' = [done EXCEPT !.places = Append(@, pl)]
  BY <1>i, <1>a, <1>p DEF Made
<1>9. pl.id = NodeId(i) /\ pl.kind = kind /\ pl.at = at /\ pl.repo = repo
  BY <1>i, <1>p DEF Place
<1>10. boot.rec.sources[i].at # NoPath =>
         LET x == Expand(boot.rec.sources[i].at, NodeVars(NodeId(i))) IN x.ok /\ at = x.path
  <2>1. Where(leaf) = PlaceAt(boot.rec.sources[i], NodeId(i), leaf)
    BY <1>2, <1>i DEF Where, Source
  <2>2. QED BY <1>a, <2>1 DEF PlaceAt
<1>11. /\ boot'.step = "placing" /\ boot'.next = i + 1 /\ boot'.tip = pl.id
       /\ boot'.hosts = Over([j \in {i} |-> at], boot.hosts)
       /\ boot'.rec = boot.rec /\ boot'.worktree = "" /\ {"next", "tip", "hosts"} \subseteq DOMAIN boot'
  <2>1. boot.step = "placing"
    OBVIOUS
  <2> HIDE DEF known
  <2>2. "step" \in DOMAIN boot /\ "step" \notin DOMAIN known
    BY <1>2, <1>7
  <2>3. /\ boot'.step = boot.step /\ DOMAIN boot' = DOMAIN known \cup DOMAIN boot
        /\ \A f \in DOMAIN known : boot'[f] = known[f]
        /\ \A f \in DOMAIN boot \ (DOMAIN known \cup {"step"}) : boot'[f] = boot[f]
    BY ZenonT(40), <1>8, <2>2, AtKnows
  <2>4. QED BY <1>1, <1>2, <1>7, <1>9, <2>1, <2>3
<1>12. DOMAIN boot'.hosts = {i} /\ boot'.hosts[i] = at
  BY <1>6, <1>11 DEF Over
<1>13. done'.places = << pl >>
  <2>1. done'.places = Append(<< >>, pl)
    BY <1>6, <1>8 DEF Course
  <2>2. QED BY <2>1
<1>14. i \in 1..i /\ (i + 1) - 1 = i /\ i + 1 \in Nat \ {0}
  <2>1. i \in Nat /\ i # 0
    BY <1>1, <1>i
  <2>2. QED BY <2>1
<1>15. StandsOn(i, pl)'
  <2>1. /\ pl.id \in STRING /\ (pl.kind = "worktree" <=> Kind(boot.rec.sources[i]) = "worktree")
        /\ pl.kind = "worktree" => pl.repo \in Paths
        /\ MakesPlace(Kind(boot.rec.sources[i]))
    BY <1>2, <1>5, <1>9, <1>i DEF Source
  <2>2. boot.rec.sources[i].at # NoPath =>
          LET x == Expand(boot.rec.sources[i].at, NodeVars(pl.id)) IN x.ok /\ at = x.path
    BY <1>9, <1>10
  <2>3. QED BY <1>4, <1>9, <1>11, <1>12, <1>13, <2>1, <2>2 DEF StandsOn, MakesPlace
<1>16. StandsUpTo(boot.next - 1)'
  <2>1. boot'.next - 1 = i
    BY <1>11, <1>14
  <2>2. \E k \in 1..(boot'.next - 1) : \E p : StandsOn(k, p)'
    <3>1. QED BY <1>14, <1>15, <2>1
  <2>3. QED BY <2>2 DEF StandsUpTo
<1>17. boot'.next \in Nat \ {0}
  BY <1>11, <1>14
<1>18. QED BY <1>11, <1>16, <1>17 DEF Standing, Settled, Ready

\* The last source is gone through: what stands up to there stands for all.
LEMMA StandsForAll ==
  ASSUME NEW n \in Nat, boot.rec.sources \in Seq(Sources), n >= Len(boot.rec.sources), StandsUpTo(n)
  PROVE  StandsUpTo(Len(boot.rec.sources))
<1>1. Len(boot.rec.sources) \in Nat /\ DOMAIN boot.rec.sources = 1..Len(boot.rec.sources)
  OBVIOUS
<1>2. ASSUME NEW i \in 1..n, NEW pl, StandsOn(i, pl)
      PROVE  i \in 1..Len(boot.rec.sources)
  BY <1>1, <1>2 DEF StandsOn
<1>3. CASE \E i \in 1..n : \E pl : StandsOn(i, pl)
  BY <1>2, <1>3 DEF StandsUpTo
<1>4. CASE ~\E i \in 1..n : \E pl : StandsOn(i, pl)
  <2>1. \A i \in DOMAIN boot.rec.sources : i <= n
    <3> DEFINE m == Len(boot.rec.sources)
    <3>1. m \in Nat /\ n >= m /\ DOMAIN boot.rec.sources = 1..m
      BY <1>1
    <3> HIDE DEF m
    <3>2. QED BY <3>1
  <2>2. QED BY <1>4, <2>1 DEF StandsUpTo
<1>5. QED BY <1>3, <1>4

\* A source that makes no place is passed by.
LEMMA StandsPast ==
  ASSUME NEW n \in Nat, StandsUpTo(n), boot.rec.sources \in Seq(Sources),
         n + 1 \in DOMAIN boot.rec.sources => ~MakesPlace(Kind(boot.rec.sources[n + 1]))
  PROVE  StandsUpTo(n + 1)
<1>1. CASE \E i \in 1..n : \E pl : StandsOn(i, pl)
  <2>1. \A i \in 1..n : i \in 1..(n + 1)
    OBVIOUS
  <2>2. QED BY <1>1, <2>1 DEF StandsUpTo
<1>2. CASE ~\E i \in 1..n : \E pl : StandsOn(i, pl)
  <2>1. ASSUME NEW i \in DOMAIN boot.rec.sources, i <= n + 1
        PROVE  i <= n \/ i = n + 1
    <3>1. i \in Nat
      OBVIOUS
    <3>2. QED BY <2>1, <3>1
  <2>2. QED BY <1>2, <2>1 DEF StandsUpTo
<1>3. QED BY <1>1, <1>2

\* Every step keeps what the box is to stand on.
LEMMA StandingStep ==
  Course /\ Asked /\ Told /\ GivenHolds /\ Standing /\ OnDisk /\ [Next]_vars => Standing'
<1> SUFFICES ASSUME Course, Asked, Told, GivenHolds, Standing, OnDisk, [Next]_vars
             PROVE  Standing'
  OBVIOUS
<1>0. "step" \in DOMAIN boot
  BY DEF Course
<1>1. ASSUME boot'.step \notin {"claimed", "placing"} \cup Settled
      PROVE  Standing'
  BY <1>1 DEF Standing
<1>2. ASSUME NEW why, boot' = At("refused", [why |-> why])
      PROVE  Standing'
  <2>1. boot'.step = "refused"
    BY <1>0, <1>2, AtRefused
  <2>2. QED BY <1>1, <2>1 DEF Settled, Ready
<1>3. ASSUME boot.step \in Settled, NEW step \in Settled, NEW known, boot' = At(step, known),
             DOMAIN known \cap {"step", "rec", "worktree", "next", "tip", "hosts"} = {},
             done'.places = done.places
      PROVE  Standing'
  <2>1. boot'.step = step /\ DOMAIN boot' = DOMAIN known \cup DOMAIN boot
        /\ \A f \in DOMAIN boot \ (DOMAIN known \cup {"step"}) : boot'[f] = boot[f]
    BY <1>0, <1>3, AtKnows
  <2>2. QED BY <1>3, <2>1, SettledKept
<1>4. ASSUME boot.step \in Settled, NEW step \in Settled, boot' = At(step, << >>),
             done'.places = done.places
      PROVE  Standing'
  <2>1. boot'.step = step /\ DOMAIN boot' = DOMAIN boot
        /\ \A f \in DOMAIN boot \ {"step"} : boot'[f] = boot[f]
    BY <1>0, <1>4, AtMore
  <2>2. QED BY <1>4, <2>1, SettledKept
<1>5. CASE boot.step \in Before
  <2>1. boot'.step \notin Bound
    BY <1>5, BeforeBound
  <2>2. QED BY <1>1, <2>1 DEF Bound, Stood, Settled, Ready
<1>6. CASE boot.step \in {"confirmed", "bound"}
  <2>1. CASE Bind \/ Reach
    <3>1. \/ \E why : Refuse(why)
          \/ \E s : Goes("bound", [sources |-> s])
          \/ Goes("reached", << >>)
      BY <2>1 DEF Bind, Reach
    <3>2. ASSUME NEW s, boot' = At("bound", [sources |-> s])
          PROVE  boot'.step = "bound"
      <4> DEFINE known == [sources |-> s]
      <4>1. "step" \notin DOMAIN known /\ boot' = At("bound", known)
        BY <3>2
      <4> HIDE DEF known
      <4>2. QED BY <1>0, <4>1, AtKnows
    <3>3. boot' = At("reached", << >>) => boot'.step = "reached"
      BY <1>0, AtMore
    <3>4. QED BY <1>1, <1>2, <3>1, <3>2, <3>3 DEF Refuse, Goes, Settled, Ready
  <2>2. CASE ~(Bind \/ Reach)
    <3>1. boot' = boot
      BY <1>6, <2>2 DEF Next, vars, Ask, Dispatch, Check, ChooseWorktree, Confirm, Claim, StandOn, Provision,
         PassBy, CutPlace, CopyPlace, Placing, Placed, Prepare, EnsureImage, MakeMounts, BuildBox, HostMoves
    <3>2. QED BY <1>1, <1>6, <3>1 DEF Settled, Ready
  <2>3. QED BY <2>1, <2>2
<1>7. CASE boot.step = "reached"
  <2>1. CASE Claim
    <3>1. CASE Refuse("image")
      BY <1>2, <3>1 DEF Refuse, Goes
    <3>2. CASE ~Refuse("image")
      <4>1. /\ DOMAIN NoPlace = {"next", "tip", "hosts"} /\ "step" \notin DOMAIN NoPlace
            /\ NoPlace["next"] = 1 /\ NoPlace["hosts"] = << >>
        BY DEF NoPlace
      <4>2. boot' = At("claimed", NoPlace) /\ done' = [done EXCEPT !.claimed = boot.req.node # ""]
        BY <2>1, <3>2 DEF Claim
      <4>3. /\ boot'.step = "claimed" /\ DOMAIN boot' = DOMAIN NoPlace \cup DOMAIN boot
            /\ \A f \in DOMAIN NoPlace : boot'[f] = NoPlace[f]
        BY <1>0, <4>1, <4>2, AtKnows
      <4>4. done'.places = << >>
        <5>1. done = [claimed |-> FALSE, places |-> << >>, image |-> FALSE, box |-> NoBox]
          BY <1>7 DEF Course, Untouched, Early
        <5>2. done.places = << >> /\ done'.places = done.places
          BY <4>2, <5>1
        <5>3. QED BY <5>2
      <4>5. DOMAIN << >> = {}
        OBVIOUS
      <4>6. /\ boot'.next = 1 /\ boot'.hosts = << >> /\ {"next", "tip", "hosts"} \subseteq DOMAIN boot'
        BY <4>1, <4>3
      <4>7. QED BY <4>3, <4>4, <4>5, <4>6 DEF Standing, Settled, Ready
    <3>3. QED BY <3>1, <3>2
  <2>2. CASE ~Claim
    <3>1. boot' = boot
      BY <1>7, <2>2 DEF Next, vars, Ask, Dispatch, Check, ChooseWorktree, Confirm, Bind, Reach, StandOn,
         Provision, PassBy, CutPlace, CopyPlace, Placing, Placed, Prepare, EnsureImage, MakeMounts,
         BuildBox, HostMoves
    <3>2. QED BY <1>1, <1>7, <3>1 DEF Settled, Ready
  <2>3. QED BY <2>1, <2>2
<1>8. CASE boot.step = "claimed"
  <2>0. /\ boot.next = 1 /\ DOMAIN boot.hosts = {} /\ done.places = << >>
        /\ {"next", "tip", "hosts", "worktree", "rec"} \subseteq DOMAIN boot
        /\ boot.rec.sources \in Seq(Sources)
    BY <1>8 DEF Standing, Told, Chosen, Bound, Boxed, WithRecipe, Bootable, IsRecipe
  <2>1. CASE StandOn
    <3>1. ASSUME NEW step \in {"placing", "placed"}, NEW tip, Goes(step, [tip |-> tip])
          PROVE  /\ boot'.step = step /\ boot'.next = 1 /\ boot'.tip = tip
                 /\ boot'.hosts = boot.hosts /\ boot'.worktree = boot.worktree
                 /\ boot'.rec = boot.rec
                 /\ {"next", "tip", "hosts"} \subseteq DOMAIN boot' /\ done'.places = << >>
      <4> DEFINE known == [tip |-> tip]
      <4>1. DOMAIN known = {"tip"} /\ known["tip"] = tip /\ boot' = At(step, known) /\ done' = done
        BY <3>1 DEF Goes
      <4> HIDE DEF known
      <4>2. /\ boot'.step = step /\ DOMAIN boot' = DOMAIN known \cup DOMAIN boot
            /\ \A f \in DOMAIN known : boot'[f] = known[f]
            /\ \A f \in DOMAIN boot \ (DOMAIN known \cup {"step"}) : boot'[f] = boot[f]
        BY <1>0, <4>1, AtKnows
      <4>3. QED BY <2>0, <4>1, <4>2
    <3>2. CASE boot.worktree # ""
      <4>1. Goes("placed", [tip |-> boot.worktree])
        BY <2>1, <3>2 DEF StandOn
      <4>2. QED BY <2>0, <3>1, <3>2, <4>1 DEF Standing, Settled, Ready
    <3>3. CASE boot.worktree = ""
      <4>1. Goes("placing", [tip |-> "project"])
        BY <2>1, <3>3 DEF StandOn
      <4>2. /\ boot'.step = "placing" /\ boot'.next = 1 /\ boot'.tip = "project"
            /\ boot'.hosts = boot.hosts /\ boot'.worktree = boot.worktree
            /\ boot'.rec = boot.rec
            /\ {"next", "tip", "hosts"} \subseteq DOMAIN boot' /\ done'.places = << >>
        BY <3>1, <4>1
      <4>3. \A i \in DOMAIN boot'.rec.sources : ~(i <= boot'.next - 1)
        <5>1. boot'.next - 1 = 0 /\ DOMAIN boot'.rec.sources = 1..Len(boot'.rec.sources)
              /\ Len(boot'.rec.sources) \in Nat
          BY <2>0, <4>2
        <5> DEFINE m == Len(boot'.rec.sources)
        <5>2. \A i \in 1..m : ~(i <= 0)
          OBVIOUS
        <5>3. QED BY <5>1, <5>2
      <4>4. StandsUpTo(boot.next - 1)'
        BY <2>0, <4>2, <4>3 DEF StandsUpTo
      <4>5. boot'.next \in Nat \ {0} /\ boot'.worktree = ""
        <5>1. 1 \in Nat \ {0}
          OBVIOUS
        <5>2. boot'.next = 1 /\ boot'.worktree = boot.worktree
          BY <4>2
        <5>3. QED BY <3>3, <5>1, <5>2
      <4>6. QED BY <4>2, <4>4, <4>5 DEF Standing, Settled, Ready
    <3>4. QED BY <3>2, <3>3
  <2>2. CASE ~StandOn
    <3>1. boot' = boot /\ done' = done
      BY <1>8, <2>2 DEF Next, vars, Ask, Dispatch, Check, ChooseWorktree, Confirm, Bind, Reach, Claim,
         Provision, PassBy, CutPlace, CopyPlace, Placing, Placed, Prepare, EnsureImage, MakeMounts,
         BuildBox, HostMoves
    <3>2. QED BY <1>8, <2>0, <3>1 DEF Standing, Settled, Ready
  <2>3. QED BY <2>1, <2>2
<1>9. CASE boot.step = "placing"
  <2>0. /\ boot.worktree = "" /\ boot.next \in Nat \ {0} /\ StandsUpTo(boot.next - 1)
        /\ {"next", "tip", "hosts", "worktree", "rec"} \subseteq DOMAIN boot
        /\ boot.rec.sources \in Seq(Sources) /\ boot.sources = boot.rec.sources
    BY <1>9 DEF Standing, Told, Chosen, Bound, Stood, Boxed, WithRecipe, Bootable, IsRecipe, GivenHolds,
       Given, Ready
  <2>m. PICK m \in Nat \ {0} : m = boot.next
    BY <2>0
  <2>k. PICK n \in Nat : n = boot.next - 1 /\ boot.next = n + 1
    <3>1. m - 1 \in Nat /\ m = (m - 1) + 1
      OBVIOUS
    <3>2. QED BY <2>m, <3>1
  <2>1. CASE PassBy
    <3>1. CASE Refuse("source")
      BY <1>2, <3>1 DEF Refuse, Goes
    <3>2. CASE ~Refuse("source")
      <4> DEFINE known == [next |-> boot.next + 1]
      <4>1. DOMAIN known = {"next"} /\ known["next"] = n + 2 /\ boot' = At("placing", known) /\ done' = done
        BY <1>9, <2>1, <2>k, <3>2 DEF PassBy, Goes
      <4> HIDE DEF known
      <4>2. /\ boot'.step = "placing" /\ DOMAIN boot' = DOMAIN known \cup DOMAIN boot
            /\ \A f \in DOMAIN known : boot'[f] = known[f]
            /\ \A f \in DOMAIN boot \ (DOMAIN known \cup {"step"}) : boot'[f] = boot[f]
        BY <1>0, <4>1, AtKnows
      <4>3. /\ boot'.next = n + 2 /\ boot'.worktree = "" /\ {"next", "tip", "hosts"} \subseteq DOMAIN boot'
            /\ \A f \in {"rec", "tip", "hosts"} : f \in DOMAIN boot' /\ boot'[f] = boot[f]
        BY <2>0, <4>1, <4>2
      <4>4. StandsUpTo(n + 1)
        <5>1. ~MakesPlace(Kind(boot.rec.sources[n + 1]))
          BY <2>0, <2>1, <2>k DEF PassBy, Source
        <5>2. QED BY <2>0, <2>k, <5>1, StandsPast
      <4>5. StandsUpTo(n + 1)'
        BY <1>9, <4>1, <4>3, <4>4, StandsKept
      <4>6. boot'.next - 1 = n + 1 /\ boot'.next \in Nat \ {0}
        <5>1. (n + 2) - 1 = n + 1 /\ n + 2 \in Nat \ {0}
          OBVIOUS
        <5>2. QED BY <4>3, <5>1
      <4>7. StandsUpTo(boot.next - 1)'
        BY <4>5, <4>6
      <4>8. QED BY <4>2, <4>3, <4>6, <4>7 DEF Standing, Settled, Ready
    <3>3. QED BY <3>1, <3>2
  <2>2. CASE CutPlace \/ CopyPlace
    <3>1. boot.next <= Len(boot.sources) /\ MakesPlace(Kind(Source))
      BY <2>2 DEF CutPlace, CopyPlace, Placing, MakesPlace
    <3>2. CASE \E why : Refuse(why)
      BY <1>2, <3>2 DEF Refuse, Goes
    <3>3. CASE \E at : Littered(at)
      BY <1>2, <3>3 DEF Littered
    <3>4. CASE /\ Kind(Source) = "worktree" /\ Where("worktree").ok
               /\ InARepo(HostOf(Source).path)
               /\ Made("worktree", Where("worktree").path, Toplevel(HostOf(Source).path))
      <4>1. DOMAIN disk \subseteq DOMAIN Disk
        BY <1>9 DEF OnDisk
      <4>2. Toplevel(HostOf(Source).path) \in Paths
        BY <3>4, <4>1, ToplevelIsAPath DEF InARepo
      <4>3. QED BY <1>9, <3>1, <3>4, <4>2, StandsOnMade
    <3>5. CASE /\ Kind(Source) = "copy" /\ Where("work").ok
               /\ Made("workdir", Where("work").path, NoPath)
      <4>1. Kind(Source) # "worktree" /\ "workdir" # "worktree"
        BY <3>5
      <4>2. QED BY <1>9, <3>1, <3>5, <4>1, StandsOnMade
    <3>6. QED BY <2>2, <3>2, <3>3, <3>4, <3>5 DEF CutPlace, CopyPlace
  <2>3. CASE Placed
    <3>1. CASE \E why : Refuse(why)
      BY <1>2, <3>1 DEF Refuse, Goes
    <3>2. CASE ~\E why : Refuse(why)
      <4>1. boot' = At("placed", << >>) /\ done' = done /\ boot.next > Len(boot.rec.sources)
        BY <1>9, <2>0, <2>3, <3>2 DEF Placed, Goes
      <4>2. boot'.step = "placed" /\ DOMAIN boot' = DOMAIN boot
            /\ \A f \in DOMAIN boot \ {"step"} : boot'[f] = boot[f]
        BY <1>0, <4>1, AtMore
      <4>3. n >= Len(boot.rec.sources)
        <5>1. PICK l : l = Len(boot.rec.sources)
          OBVIOUS
        <5>2. \A s \in Seq(Sources) : Len(s) \in Nat
          OBVIOUS
        <5>3. l \in Nat /\ n + 1 > l
          BY <2>0, <2>k, <4>1, <5>1, <5>2
        <5>4. n >= l
          BY <5>3
        <5>5. QED BY <5>1, <5>4
      <4>4. StandsUpTo(Len(boot.rec.sources))
        BY <2>0, <2>k, <4>3, StandsForAll
      <4>5. StandsUpTo(Len(boot.rec.sources))'
        <5>1. PICK last : last = Len(boot.rec.sources)
          OBVIOUS
        <5>2. StandsUpTo(last)'
          BY <1>9, <2>0, <4>1, <4>2, <4>4, <5>1, StandsKept
        <5>3. last = Len(boot'.rec.sources)
          BY <2>0, <4>2, <5>1
        <5>4. QED BY <5>2, <5>3
      <4>6. boot'.worktree = "" /\ {"next", "tip", "hosts"} \subseteq DOMAIN boot'
        BY <2>0, <4>2
      <4>7. QED BY <4>2, <4>5, <4>6 DEF Standing, Settled, Ready
    <3>3. QED BY <3>1, <3>2
  <2>4. CASE ~(PassBy \/ CutPlace \/ CopyPlace \/ Placed)
    <3>1. boot' = boot /\ done' = done
      BY <1>9, <2>4 DEF Next, vars, Ask, Dispatch, Check, ChooseWorktree, Confirm, Bind, Reach, Claim,
         StandOn, Provision, Prepare, EnsureImage, MakeMounts, BuildBox, HostMoves
    <3>2. StandsUpTo(n)'
      BY <1>9, <2>0, <2>k, <3>1, StandsKept
    <3>3. StandsUpTo(boot.next - 1)'
      BY <2>k, <3>1, <3>2
    <3>4. QED BY <1>9, <2>0, <3>1, <3>3 DEF Standing, Settled, Ready
  <2>5. QED BY <2>1, <2>2, <2>3, <2>4
<1>10. CASE boot.step \in Settled
  <2> USE DEF Settled, Ready
  <2>1. CASE Prepare
    <3>1. \/ \E why : Refuse(why)
          \/ \E s, r : Goes("prepared", [sources |-> s, resolved |-> r])
      BY <2>1 DEF Prepare
    <3>2. ASSUME NEW s, NEW r, Goes("prepared", [sources |-> s, resolved |-> r])
          PROVE  Standing'
      BY <1>3, <1>10, <3>2 DEF Goes
    <3>3. QED BY <1>2, <3>1, <3>2 DEF Refuse, Goes
  <2>2. CASE EnsureImage
    <3>1. \/ \E why : Refuse(why)
          \/ boot' = At("imaged", << >>) /\ done'.places = done.places
      BY <2>2 DEF EnsureImage, Goes, Course
    <3>2. QED BY <1>2, <1>4, <1>10, <3>1 DEF Refuse, Goes
  <2>3. CASE MakeMounts
    BY <1>2, <1>4, <1>10, <2>3 DEF MakeMounts
  <2>4. CASE BuildBox
    <3>1. \/ \E why : Refuse(why)
          \/ boot' = At("up", << >>) /\ done'.places = done.places
      BY <2>4 DEF BuildBox, Course
    <3>2. QED BY <1>2, <1>4, <1>10, <3>1 DEF Refuse, Goes
  <2>5. CASE ~(Prepare \/ EnsureImage \/ MakeMounts \/ BuildBox)
    <3>1. boot' = boot /\ done' = done
      BY <1>10, <2>5 DEF Next, vars, Ask, Dispatch, Check, ChooseWorktree, Confirm, Bind, Reach, Claim,
         StandOn, Provision, PassBy, CutPlace, CopyPlace, Placing, Placed, HostMoves
    <3>2. QED BY <1>10, <3>1, SettledKept
  <2>6. QED BY <2>1, <2>2, <2>3, <2>4, <2>5
<1>11. boot.step \in Steps
  BY DEF Course
<1>12. QED
  BY <1>5, <1>6, <1>7, <1>8, <1>9, <1>10, <1>11 DEF Steps, Before, Settled, Ready

----------------------------------------------------------------------------
(* What the sources and sockets were found to be, and the box built. *)

\* Where a source is on the host, once it was looked at.
Found(i) ==
  LET s == boot.sources[i]
      x == Expand(Origin(s), OwnVars)
  IN /\ Kind(s) # "malformed" /\ s.path # NoPath
     /\ IF i \in DOMAIN boot.hosts THEN boot.resolved[i] = boot.hosts[i]
        ELSE /\ x.ok
             /\ boot.resolved[i] = IF Kind(s) \in {"mount", "copy"} THEN AbsPath(x.path) ELSE x.path

Looked ==
  boot.step \in Ready =>
    /\ "resolved" \in DOMAIN boot /\ DOMAIN boot.resolved = DOMAIN boot.sources
    /\ \A i \in DOMAIN boot.sources : Found(i)
    /\ \A i \in DOMAIN boot.rec.sockets : ~Overlapped(ExpandBoxPath(boot.rec.sockets[i].path, BoxId))

Built ==
  boot.step = "up" =>
    /\ done.box = [up |-> TRUE, id |-> BoxId, parent |-> boot.tip,
                   mounts |-> SortMountsByDepth(Mounts), sockets |-> Carried \o Door,
                   spec |-> SnapshotRecipe(boot.rec)]
    /\ \A i \in DOMAIN Carried : IsLive(Carried[i].dial)

\* A step that leaves what the boot knows as it was.
LEMMA LookedKept ==
  ASSUME Asked, Told, GivenHolds, Standing, Looked, boot.step \in Ready, boot'.step \in Ready,
         \A f \in DOMAIN boot \ {"step"} : f \in DOMAIN boot' /\ boot'[f] = boot[f]
  PROVE  Looked'
<1>1. {"req", "rec", "tip", "hosts", "sources", "resolved"} \subseteq DOMAIN boot
  BY DEF Asked, Told, GivenHolds, Standing, Looked, WithRecipe, Boxed, Chosen, Bound, Stood, Settled, Ready
<1>2. /\ boot'.req = boot.req /\ boot'.rec = boot.rec /\ boot'.tip = boot.tip /\ boot'.hosts = boot.hosts
      /\ boot'.sources = boot.sources /\ boot'.resolved = boot.resolved /\ "resolved" \in DOMAIN boot'
  BY <1>1
<1>3. BoxId' = BoxId /\ OwnVars' = OwnVars
  BY <1>2 DEF BoxId, OwnVars
<1>4. ASSUME NEW i, Found(i)
      PROVE  Found(i)'
  BY <1>2, <1>3, <1>4 DEF Found
<1>5. \A p : Overlapped(p)' <=> Overlapped(p)
  OBVIOUS
<1>6. QED BY <1>2, <1>3, <1>4, <1>5 DEF Looked

\* Nothing is looked at or built at first.
LEMMA LookedInit == Init => Looked /\ Built
BY DEF Init, Looked, Built, Ready

\* Nothing is ready before it was looked at.
LEMMA ReadyIsReached ==
  ASSUME Course, [Next]_vars, boot.step \notin Ready, ~Prepare
  PROVE  boot'.step \notin Ready
<1>0. "step" \in DOMAIN boot /\ boot.step \in Steps
  BY DEF Course
<1>1. CASE boot.step \in Before
  <2>1. boot'.step \notin Bound
    BY <1>1, BeforeBound
  <2>2. QED BY <2>1 DEF Bound, Stood
<1> USE DEF Ready
<1>2. ASSUME NEW step, step \notin Ready, boot' = At(step, << >>)
      PROVE  boot'.step \notin Ready
  BY <1>0, <1>2, AtMore
<1>3. ASSUME NEW why, boot' = At("refused", [why |-> why])
      PROVE  boot'.step \notin Ready
  BY <1>0, <1>3, AtRefused
<1>4. ASSUME NEW step, step \notin Ready, NEW known, "step" \notin DOMAIN known, boot' = At(step, known)
      PROVE  boot'.step \notin Ready
  BY <1>0, <1>4, AtKnows
<1>5. CASE Bind \/ Reach
  <2>1. \/ \E why : Refuse(why)
        \/ \E s : Goes("bound", [sources |-> s])
        \/ Goes("reached", << >>)
    BY <1>5 DEF Bind, Reach
  <2>2. ASSUME NEW s, boot' = At("bound", [sources |-> s])
        PROVE  boot'.step \notin Ready
    BY <1>4, <2>2
  <2>3. QED BY <1>2, <1>3, <2>1, <2>2 DEF Refuse, Goes
<1>6. CASE Claim
  <2>1. \/ \E why : Refuse(why)
        \/ boot' = At("claimed", NoPlace)
    BY <1>6 DEF Claim
  <2>2. "step" \notin DOMAIN NoPlace
    BY DEF NoPlace
  <2>3. QED BY <1>3, <1>4, <2>1, <2>2 DEF Refuse, Goes
<1>7. CASE StandOn
  <2>1. ASSUME NEW step \in {"placed", "placing"}, NEW tip, boot' = At(step, [tip |-> tip])
        PROVE  boot'.step \notin Ready
    BY <1>4, <2>1
  <2>2. QED BY <1>7, <2>1 DEF StandOn, Goes
<1>8. CASE boot.step = "placing" /\ (PassBy \/ CutPlace \/ CopyPlace \/ Placed)
  <2>1. \/ \E why : Refuse(why)
        \/ boot' = At("placing", [next |-> boot.next + 1])
        \/ \E kind, at, repo : Made(kind, at, repo)
        \/ \E at : Littered(at)
        \/ boot' = At("placed", << >>)
    BY <1>8 DEF PassBy, CutPlace, CopyPlace, Placed, Goes
  <2>2. CASE boot' = At("placing", [next |-> boot.next + 1])
    BY <1>4, <2>2
  <2>3. ASSUME NEW at, boot' = At("placing", [next |-> boot.next + 1, tip |-> NodeId(boot.next),
                               hosts |-> Over([i \in {boot.next} |-> at], boot.hosts)])
        PROVE  boot'.step \notin Ready
    BY <1>4, <2>3
  <2>4. QED BY <1>2, <1>3, <1>8, <2>1, <2>2, <2>3 DEF Refuse, Goes, Made, Littered
<1>9. CASE HostMoves \/ UNCHANGED vars
  BY <1>9 DEF HostMoves, vars
<1>10. QED
  BY <1>0, <1>1, <1>5, <1>6, <1>7, <1>8, <1>9
  DEF Steps, Before, Next, Ask, Dispatch, Check, ChooseWorktree, Confirm, Provision, EnsureImage, MakeMounts,
      BuildBox, PassBy, CutPlace, CopyPlace, Placing, Placed

\* Every step keeps what the sources and sockets were found to be.
LEMMA LookedStep ==
  Course /\ Asked /\ Told /\ GivenHolds /\ Standing /\ Looked /\ [Next]_vars => Looked'
<1> SUFFICES ASSUME Course, Asked, Told, GivenHolds, Standing, Looked, [Next]_vars,
                    boot'.step \in Ready
             PROVE  Looked'
  BY DEF Looked
<1>0. "step" \in DOMAIN boot
  BY DEF Course
<1>1. CASE boot.step \in Ready
  <2>1. \/ \E why : boot' = At("refused", [why |-> why])
        \/ \E step : boot' = At(step, << >>)
        \/ boot' = boot
    BY <1>1 DEF Ready, Next, vars, Ask, Dispatch, Check, ChooseWorktree, Confirm, Bind, Reach, Claim, StandOn,
       Provision, PassBy, CutPlace, CopyPlace, Placing, Placed, Prepare, EnsureImage, MakeMounts, BuildBox,
       HostMoves, Refuse, Goes
  <2>2. ASSUME NEW why, boot' = At("refused", [why |-> why])
        PROVE  FALSE
    BY <1>0, <2>2, AtRefused DEF Ready
  <2>3. ASSUME NEW step, boot' = At(step, << >>)
        PROVE  Looked'
    <3>1. DOMAIN boot' = DOMAIN boot /\ \A f \in DOMAIN boot \ {"step"} : boot'[f] = boot[f]
      BY <1>0, <2>3, AtMore
    <3>2. QED BY <1>1, <3>1, LookedKept
  <2>4. CASE boot' = boot
    BY <1>1, <2>4, LookedKept
  <2>5. QED BY <2>1, <2>2, <2>3, <2>4
<1>2. CASE boot.step \notin Ready
  <2>1. Prepare
    BY <1>2, ReadyIsReached
  <2>2. ~Refuse("sources")
    BY <1>0, AtRefused DEF Refuse, Goes, Ready
  <2>3. /\ boot.step = "placed"
        /\ \A i \in DOMAIN WithLog : ValidateSource(i)
        /\ \A i \in DOMAIN boot.rec.sockets : ResolveSocket(boot.rec.sockets[i])
        /\ Goes("prepared", [sources |-> WithLog, resolved |-> [i \in DOMAIN WithLog |-> Resolved(i)]])
    BY <2>1, <2>2 DEF Prepare
  <2> DEFINE known == [sources |-> WithLog, resolved |-> [i \in DOMAIN WithLog |-> Resolved(i)]]
  <2>4. /\ DOMAIN known = {"sources", "resolved"} /\ known["sources"] = WithLog
        /\ known["resolved"] = [i \in DOMAIN WithLog |-> Resolved(i)]
        /\ boot' = At("prepared", known)
    BY <2>3 DEF Goes
  <2> HIDE DEF known
  <2>5. /\ DOMAIN boot' = DOMAIN known \cup DOMAIN boot
        /\ \A f \in DOMAIN known : boot'[f] = known[f]
        /\ \A f \in DOMAIN boot \ (DOMAIN known \cup {"step"}) : boot'[f] = boot[f]
    BY <1>0, <2>4, AtKnows
  <2>6. {"req", "rec", "tip", "hosts"} \subseteq DOMAIN boot
    BY <2>3 DEF Asked, Told, Standing, WithRecipe, Boxed, Chosen, Bound, Stood, Settled
  <2>7. /\ boot'.req = boot.req /\ boot'.rec = boot.rec /\ boot'.tip = boot.tip /\ boot'.hosts = boot.hosts
        /\ boot'.sources = WithLog /\ boot'.resolved = [i \in DOMAIN WithLog |-> Resolved(i)]
        /\ "resolved" \in DOMAIN boot'
    BY <2>4, <2>5, <2>6
  <2>8. BoxId' = BoxId /\ OwnVars' = OwnVars
    BY <2>7 DEF BoxId, OwnVars
  <2>9. ASSUME NEW i \in DOMAIN WithLog
        PROVE  Found(i)'
    <3>1. ValidateSource(i) /\ boot'.resolved[i] = Resolved(i)
      BY <2>3, <2>7, <2>9
    <3>2. QED BY <2>7, <2>8, <3>1 DEF Found, ValidateSource, Resolved, NeedsBoxPath
  <2>10. QED BY <2>3, <2>7, <2>8, <2>9 DEF Looked, ResolveSocket
<1>3. QED BY <1>1, <1>2

\* Every step leaves the host its own files, and the boot's directories.
LEMMA OnDiskStep == Course /\ Looked /\ OnDisk /\ [Next]_vars => OnDisk'
<1> SUFFICES ASSUME Course, Looked, OnDisk, [Next]_vars
             PROVE  OnDisk'
  OBVIOUS
<1>0. "step" \in DOMAIN boot
  BY DEF Course
<1>1. CASE HostMoves
  <2>1. boot' = boot
    BY <1>1 DEF HostMoves
  <2>2. PICK p \in Fickle : Comes(p) \/ Leaves(p)
    BY <1>1 DEF HostMoves
  <2>3. DOMAIN disk' \subseteq DOMAIN disk \cup {p}
    BY <2>2 DEF Comes, Leaves, Over
  <2>4. p \in DOMAIN Disk
    BY RecipeAssumption
  <2>5. QED BY <2>1, <2>3, <2>4 DEF OnDisk
<1>2. CASE MakeMounts
  <2>1. boot.step = "imaged"
    BY <1>2 DEF MakeMounts
  <2>2. "resolved" \in DOMAIN boot /\ DOMAIN boot.resolved = DOMAIN boot.sources
    BY <2>1 DEF Looked, Ready
  <2>3. DOMAIN disk \subseteq DOMAIN Disk
    BY <2>1 DEF OnDisk
  <2>4. DOMAIN disk' \subseteq DOMAIN disk \cup {boot.resolved[i] : i \in DOMAIN boot.resolved}
    <3>1. PICK made \in SUBSET DOMAIN boot.sources :
            disk' = Over(disk, [p \in {boot.resolved[i] : i \in made} |-> "dir"])
      BY <1>2 DEF MakeMounts
    <3>2. QED BY <2>2, <3>1 DEF Over
  <2>5. /\ boot'.step \in {"mounted", "refused"}
        /\ "resolved" \in DOMAIN boot' /\ boot'.resolved = boot.resolved
    <3>1. CASE boot' = At("mounted", << >>)
      BY <1>0, <2>2, <3>1, AtMore
    <3>2. CASE boot' = At("refused", [why |-> "mounts"])
      BY <1>0, <2>2, <3>2, AtRefused
    <3>3. QED BY <1>2, <3>1, <3>2 DEF MakeMounts
  <2>6. QED BY <2>3, <2>4, <2>5 DEF OnDisk
<1>3. CASE BuildBox
  <2>1. boot.step = "mounted" /\ disk' = disk
    BY <1>3 DEF BuildBox, Refuse, Goes
  <2>2. "resolved" \in DOMAIN boot
    BY <2>1 DEF Looked, Ready
  <2>3. /\ boot'.step \in {"up", "refused"}
        /\ "resolved" \in DOMAIN boot' /\ boot'.resolved = boot.resolved
    <3>1. CASE boot' = At("up", << >>)
      BY <1>0, <2>2, <3>1, AtMore
    <3>2. CASE boot' = At("refused", [why |-> "socket"])
      BY <1>0, <2>2, <3>2, AtRefused
    <3>3. QED BY <1>3, <3>1, <3>2 DEF BuildBox, Refuse, Goes
  <2>4. QED BY <2>1, <2>2, <2>3 DEF OnDisk
<1>4. CASE ~(HostMoves \/ MakeMounts \/ BuildBox) /\ boot' # boot
  <2>1. disk' = disk /\ boot.step \notin {"mounted", "up", "refused"}
    BY <1>4 DEF Next, vars, Ask, Dispatch, Check, ChooseWorktree, Confirm, Bind, Reach, Claim, StandOn, Provision,
       PassBy, CutPlace, CopyPlace, Placing, Placed, Prepare, EnsureImage, Refuse, Goes, Get, GetAt, ResolveRecipe,
       Made, Littered
  <2>2. DOMAIN disk' \subseteq DOMAIN Disk
    BY <2>1 DEF OnDisk
  <2>3. QED BY <2>2 DEF OnDisk
<1>5. CASE ~(HostMoves \/ MakeMounts \/ BuildBox) /\ boot' = boot
  <2>1. disk' = disk
    BY <1>5 DEF Next, vars, Ask, Dispatch, Check, ChooseWorktree, Confirm, Bind, Reach, Claim, StandOn, Provision,
       PassBy, CutPlace, CopyPlace, Placing, Placed, Prepare, EnsureImage, Refuse, Goes, Get, GetAt, ResolveRecipe,
       Made, Littered
  <2>2. QED BY <1>5, <2>1 DEF OnDisk
<1>6. QED BY <1>1, <1>2, <1>3, <1>4, <1>5

\* Every step keeps the box as it was built.
LEMMA BuiltStep ==
  Course /\ Asked /\ Told /\ GivenHolds /\ Standing /\ Looked /\ Built /\ [Next]_vars => Built'
<1> SUFFICES ASSUME Course, Asked, Told, GivenHolds, Standing, Looked, Built, [Next]_vars,
                    boot'.step = "up"
             PROVE  Built'
  BY DEF Built
<1>0. "step" \in DOMAIN boot
  BY DEF Course
<1>1. CASE boot.step = "up"
  <2>1. UNCHANGED vars
    BY <1>1 DEF Next, Ask, Dispatch, Check, ChooseWorktree, Confirm, Bind, Reach, Claim, StandOn, Provision,
       PassBy, CutPlace, CopyPlace, Placing, Placed, Prepare, EnsureImage, MakeMounts, BuildBox, HostMoves,
       Booting
  <2>2. boot' = boot /\ disk' = disk /\ done' = done
    BY <2>1 DEF vars
  <2>3. Mounts' = Mounts /\ Carried' = Carried /\ Door' = Door /\ BoxId' = BoxId
    BY <2>2 DEF Mounts, MountsOf, RepoOf, Carried, SocketHost, OwnVars, Door, BoxId
  <2>4. QED BY <1>1, <2>2, <2>3 DEF Built, IsLive
<1>2. CASE boot.step # "up"
  <2>1. BuildBox
    <3>1. boot.step \in Steps
      BY DEF Course
    <3>2. CASE boot.step \in Ready
      <4>1. CASE EnsureImage \/ MakeMounts
        <5>1. \/ \E why : boot' = At("refused", [why |-> why])
              \/ boot' = At("imaged", << >>)
              \/ boot' = At("mounted", << >>)
          BY <4>1 DEF EnsureImage, MakeMounts, Refuse, Goes
        <5>2. ASSUME NEW why, boot' = At("refused", [why |-> why])
              PROVE  FALSE
          BY <1>0, <5>2, AtRefused
        <5>3. boot' # At("imaged", << >>) /\ boot' # At("mounted", << >>)
          BY <1>0, AtMore
        <5>4. QED BY <5>1, <5>2, <5>3
      <4>2. CASE ~(EnsureImage \/ MakeMounts \/ BuildBox)
        <5>1. boot' = boot
          BY <3>2, <4>2 DEF Ready, Next, vars, Ask, Dispatch, Check, ChooseWorktree, Confirm, Bind, Reach,
             Claim, StandOn, Provision, PassBy, CutPlace, CopyPlace, Placing, Placed, Prepare, HostMoves
        <5>2. QED BY <1>2, <5>1
      <4>3. QED BY <4>1, <4>2
    <3>3. CASE boot.step \notin Ready
      <4>1. Prepare
        BY <3>3, ReadyIsReached DEF Ready
      <4>2. Refuse("sources") \/ \E s, r : Goes("prepared", [sources |-> s, resolved |-> r])
        BY <4>1 DEF Prepare
      <4>3. ~Refuse("sources")
        BY <1>0, AtRefused DEF Refuse, Goes
      <4>4. ASSUME NEW s, NEW r, boot' = At("prepared", [sources |-> s, resolved |-> r])
            PROVE  FALSE
        <5> DEFINE known == [sources |-> s, resolved |-> r]
        <5>1. "step" \notin DOMAIN known /\ boot' = At("prepared", known)
          BY <4>4
        <5> HIDE DEF known
        <5>2. boot'.step = "prepared"
          BY <1>0, <5>1, AtKnows
        <5>3. QED BY <5>2
      <4>5. QED BY <4>2, <4>3, <4>4 DEF Goes
    <3>4. QED BY <3>2, <3>3
  <2>2. ~Refuse("socket")
    BY <1>0, AtRefused DEF Refuse, Goes
  <2>3. /\ boot.step = "mounted" /\ boot' = At("up", << >>) /\ disk' = disk
        /\ \A i \in DOMAIN Carried : IsLive(Carried[i].dial)
        /\ done' = [done EXCEPT !.box =
                        [up |-> TRUE, id |-> BoxId, parent |-> boot.tip,
                         mounts |-> SortMountsByDepth(Mounts), sockets |-> Carried \o Door,
                         spec |-> SnapshotRecipe(boot.rec)]]
    BY <2>1, <2>2 DEF BuildBox
  <2>4. DOMAIN boot' = DOMAIN boot /\ \A f \in DOMAIN boot \ {"step"} : boot'[f] = boot[f]
    BY <1>0, <2>3, AtMore
  <2>5. {"req", "rec", "tip", "sources", "resolved"} \subseteq DOMAIN boot
    BY <2>3 DEF Asked, Told, GivenHolds, Standing, Looked, WithRecipe, Boxed, Chosen, Bound, Stood, Settled, Ready
  <2>6. /\ boot'.req = boot.req /\ boot'.rec = boot.rec /\ boot'.tip = boot.tip
        /\ boot'.sources = boot.sources /\ boot'.resolved = boot.resolved
    BY <2>4, <2>5
  <2>7. /\ done'.places = done.places
        /\ done'.box = [up |-> TRUE, id |-> BoxId, parent |-> boot.tip,
                        mounts |-> SortMountsByDepth(Mounts), sockets |-> Carried \o Door,
                        spec |-> SnapshotRecipe(boot.rec)]
    BY <2>3 DEF Course
  <2>8. Mounts' = Mounts /\ Carried' = Carried /\ Door' = Door /\ BoxId' = BoxId
    <3>1. BoxId' = BoxId /\ OwnVars' = OwnVars
      BY <2>6 DEF BoxId, OwnVars
    <3>2. \A at : RepoOf(at)' = RepoOf(at)
      BY <2>7 DEF RepoOf
    <3>3. \A i : MountsOf(i)' = MountsOf(i)
      BY <2>6, <3>1, <3>2 DEF MountsOf
    <3>4. Mounts' = Mounts
      BY <2>6, <3>3 DEF Mounts
    <3>5. \A s : SocketHost(s)' = SocketHost(s)
      BY <3>1 DEF SocketHost
    <3>6. Carried' = Carried /\ Door' = Door
      BY <2>6, <3>1, <3>5 DEF Carried, Door
    <3>7. QED BY <3>1, <3>4, <3>6
  <2>9. QED BY <2>3, <2>6, <2>7, <2>8 DEF Built, IsLive
<1>3. QED BY <1>1, <1>2

BootInv == Course /\ Asked /\ Told /\ GivenHolds /\ Standing /\ OnDisk /\ Looked /\ Built

\* The inductive invariant: the course of the boot, what it was asked and
\* told, its sources, the place it stands on, what was found of them on the
\* host, and the box built of it all.
THEOREM BootInvHolds == Spec => []BootInv
<1>1. Init => BootInv
  BY CourseInit, ToldInit, GivenInit, StandingInit, LookedInit DEF BootInv
<1>2. BootInv /\ [Next]_vars => BootInv'
  BY CourseStep, ToldStep, GivenStep, StandingStep, LookedStep, OnDiskStep, BuiltStep DEF BootInv
<1>3. QED BY <1>1, <1>2, PTL DEF Spec

\* A boot is at one of its steps, a box is up just at the last, and the host
\* has its own files and the directories the boot made (BootTypeOK).
THEOREM BootTypeCorrect == Spec => []BootTypeOK
<1>1. BootInv => BootTypeOK
  <2> SUFFICES ASSUME BootInv
               PROVE  BootTypeOK
    OBVIOUS
  <2>1. boot.step \in Steps /\ (done.box.up <=> boot.step = "up")
    BY DEF BootInv, Course
  <2>2. DOMAIN disk \subseteq DOMAIN Disk \cup {boot.resolved[i] : i \in
          IF "resolved" \in DOMAIN boot THEN DOMAIN boot.resolved ELSE {}}
    BY DEF BootInv, OnDisk
  <2>3. QED BY <2>1, <2>2 DEF BootTypeOK
<1>2. QED BY <1>1, BootInvHolds, PTL

\* What the sockets of a standing box are.
LEMMA SocketsOf ==
  ASSUME BootInv, boot.step = "up", NEW i \in DOMAIN done.box.sockets,
         done.box.sockets[i].dial # NoPath
  PROVE  \E j \in DOMAIN boot.rec.sockets :
           /\ j \in DOMAIN Carried
           /\ done.box.sockets[i] = Carried[j]
           /\ Carried[j].path = ExpandBoxPath(boot.rec.sockets[j].path, BoxId)
<1> DEFINE n == Len(boot.rec.sockets)
           S == {Carried[j] : j \in DOMAIN boot.rec.sockets} \cup {[dial |-> NoPath, path |-> DoorPath]}
<1>1. boot.rec.sockets \in Seq(Sockets)
  BY DEF BootInv, Told, Bootable, IsRecipe, WithRecipe, Boxed, Chosen, Bound, Stood, Ready
<1>2. n \in Nat /\ DOMAIN boot.rec.sockets = 1..n
  BY <1>1
<1>3. DOMAIN Carried = 1..n
  BY <1>2 DEF Carried
<1>4. \A j \in 1..n : Carried[j] \in S
  BY <1>2
<1>c. PICK c : c = Carried
  OBVIOUS
<1>d. PICK d : d = Door
  OBVIOUS
<1>5. c \in Seq(S) /\ Len(c) = n
  <2>1. c = [j \in 1..n |-> Carried[j]]
    BY <1>c, <1>2 DEF Carried
  <2> HIDE DEF n, S
  <2>2. c \in [1..n -> S]
    BY <1>4, <2>1
  <2>3. QED BY <1>2, <2>2
<1>6. d \in Seq(S) /\ \A j \in DOMAIN d : d[j].dial = NoPath
  <2> DEFINE door == [dial |-> NoPath, path |-> DoorPath]
  <2>1. door \in S /\ door.dial = NoPath
    OBVIOUS
  <2>2. d \in {<< >>, << door >>}
    BY <1>d DEF Door
  <2> HIDE DEF door, S
  <2>3. << door >> \in Seq(S) /\ << >> \in Seq(S) /\ DOMAIN << door >> = {1} /\ << door >>[1] = door
        /\ DOMAIN << >> = {}
    BY <2>1
  <2>4. QED BY <2>1, <2>2, <2>3
<1>7. done.box.sockets = c \o d
  <2>1. \E m, s : done.box = [up |-> TRUE, id |-> BoxId, parent |-> boot.tip,
                   mounts |-> m, sockets |-> c \o d, spec |-> s]
    BY <1>c, <1>d DEF BootInv, Built
  <2>2. QED BY <2>1
<1>8. \/ i \in DOMAIN c /\ (c \o d)[i] = c[i]
      \/ \E j \in DOMAIN d : (c \o d)[i] = d[j]
  <2> HIDE DEF S
  <2>1. /\ Len(c) \in Nat /\ Len(d) \in Nat /\ DOMAIN c = 1..Len(c) /\ DOMAIN d = 1..Len(d)
        /\ DOMAIN (c \o d) = 1..(Len(c) + Len(d))
        /\ \A k \in 1..(Len(c) + Len(d)) : (c \o d)[k] = IF k <= Len(c) THEN c[k] ELSE d[k - Len(c)]
    <3>1. c \in Seq(S) /\ d \in Seq(S)
      BY <1>5, <1>6
    <3>2. /\ c \o d \in Seq(S) /\ Len(c \o d) = Len(c) + Len(d)
          /\ \A k \in 1..(Len(c) + Len(d)) : (c \o d)[k] = IF k <= Len(c) THEN c[k] ELSE d[k - Len(c)]
      BY <3>1, ConcatProperties
    <3>3. /\ Len(c) \in Nat /\ Len(d) \in Nat /\ DOMAIN c = 1..Len(c) /\ DOMAIN d = 1..Len(d)
          /\ DOMAIN (c \o d) = 1..Len(c \o d)
      BY <3>1, <3>2, LenProperties
    <3>4. QED BY <3>2, <3>3
  <2>2. i \in 1..(Len(c) + Len(d))
    BY <1>7, <2>1
  <2>3. CASE i <= Len(c)
    BY <2>1, <2>2, <2>3
  <2>4. CASE ~(i <= Len(c))
    <3>1. i - Len(c) \in 1..Len(d)
      BY <2>1, <2>2, <2>4
    <3>2. QED BY <2>1, <2>2, <2>4, <3>1
  <2>5. QED BY <2>3, <2>4
<1>9. i \in DOMAIN c /\ done.box.sockets[i] = c[i]
  BY <1>6, <1>7, <1>8
<1>10. i \in DOMAIN boot.rec.sockets
  BY <1>2, <1>3, <1>9, <1>c
<1>11. Carried[i].path = ExpandBoxPath(boot.rec.sockets[i].path, BoxId)
  BY <1>10 DEF Carried
<1>12. QED BY <1>9, <1>10, <1>11, <1>c

\* Whatever the recipe and however the host's files come and go, each socket
\* of a standing box was live when the relay was put before it, and only the
\* door is where dabs binds (SocketsStandClear).
THEOREM SocketsStayClear == Spec => []SocketsStandClear
<1>1. BootInv => SocketsStandClear
  <2> SUFFICES ASSUME BootInv, done.box.up, NEW i \in DOMAIN done.box.sockets,
                      done.box.sockets[i].dial # NoPath
               PROVE  IsLive(done.box.sockets[i].dial) /\ ~Overlapped(done.box.sockets[i].path)
    BY DEF SocketsStandClear
  <2>1. boot.step = "up"
    BY DEF BootInv, Course
  <2>2. PICK j \in DOMAIN boot.rec.sockets :
          /\ j \in DOMAIN Carried
          /\ done.box.sockets[i] = Carried[j]
          /\ Carried[j].path = ExpandBoxPath(boot.rec.sockets[j].path, BoxId)
    BY <2>1, SocketsOf
  <2>3. IsLive(Carried[j].dial)
    BY <2>1, <2>2 DEF BootInv, Built
  <2>4. ~Overlapped(ExpandBoxPath(boot.rec.sockets[j].path, BoxId))
    BY <2>1 DEF BootInv, Looked, Ready
  <2>5. QED BY <2>2, <2>3, <2>4
<1>2. QED BY <1>1, BootInvHolds, PTL

\* What a box stands on, be it project, worktree or place, has an id.
LEMMA TipIsAString ==
  ASSUME BootInv, boot.step \in Ready
  PROVE  boot.tip \in STRING
<1>1. CASE boot.worktree = ""
  <2>1. StandsUpTo(Len(boot.rec.sources))
    BY <1>1 DEF BootInv, Standing, Settled
  <2>2. "project" \in STRING
    BY RecipeAssumption DEF OwnNames
  <2>3. QED BY <2>1, <2>2 DEF StandsUpTo, StandsOn
<1>2. CASE boot.worktree # ""
  <2>1. boot.tip = boot.worktree
    BY <1>2 DEF BootInv, Standing, Settled
  <2>2. boot.worktree \in DOMAIN Worktrees
    BY <1>2 DEF BootInv, Told, Chosen, Bound, Stood, Ready
  <2>3. QED BY <2>1, <2>2, RecipeAssumption
<1>3. QED BY <1>1, <1>2

\* The sources a ready box is built of.
LEMMA ReadySources ==
  ASSUME BootInv, boot.step \in Ready
  PROVE  /\ boot.sources \in Seq(Sources)
         /\ DOMAIN Given \subseteq DOMAIN boot.sources
         /\ \A i \in DOMAIN Given : boot.sources[i] = Given[i]
         /\ \A i \in DOMAIN boot.sources \ DOMAIN Given : Kind(boot.sources[i]) = "mkmount"
         /\ boot.rec.sources \in Seq(Sources)
<1>1. boot.step \in Bound /\ boot.sources = Logged
  BY DEF BootInv, GivenHolds, Bound, Stood
<1>2. boot.rec.sources \in Seq(Sources)
  BY DEF BootInv, Told, Bootable, IsRecipe, WithRecipe, Boxed, Chosen, Bound, Stood
<1>3. QED BY <1>1, <1>2, GivenIsTyped DEF BootInv

\* The place stood on is the one a source with a host path of its own makes.
LEMMA HostsAreThePlace ==
  ASSUME BootInv, boot.step \in Ready, NEW i \in DOMAIN boot.hosts
  PROVE  /\ boot.worktree = ""
         /\ \E pl : /\ StandsOn(i, pl)
                    /\ i \in DOMAIN boot.sources /\ boot.sources[i] = boot.rec.sources[i]
<1>1. boot.worktree = ""
  BY DEF BootInv, Standing, Settled
<1>2. StandsUpTo(Len(boot.rec.sources))
  BY <1>1 DEF BootInv, Standing, Settled
<1>3. PICK k, pl : StandsOn(k, pl)
  BY <1>2 DEF StandsUpTo
<1>4. k = i /\ i \in DOMAIN boot.rec.sources
  BY <1>3 DEF StandsOn
<1>5. Given = boot.rec.sources
  BY <1>1 DEF Given
<1>6. QED BY <1>1, <1>3, <1>4, <1>5, ReadySources

\* Whatever a recipe writes after a variable of dabs's own, "..", too, what is
\* mounted is inside that node's space (SpacesHold).
THEOREM SpacesAreKept == Spec => []SpacesHold
<1>1. BootInv => SpacesHold
  <2> SUFFICES ASSUME BootInv, done.box.up, NEW i \in DOMAIN boot.sources
               PROVE  LET p == IF i \in DOMAIN boot.hosts THEN boot.sources[i].at ELSE Origin(boot.sources[i])
                          own == IF i \in DOMAIN boot.hosts THEN NodeVars(boot.tip) ELSE OwnVars
                      IN p # NoPath /\ Head(p) \in DOMAIN own => WithinRoot(own[Head(p)], boot.resolved[i])
    BY DEF SpacesHold
  <2>1. boot.step = "up" /\ boot.step \in Ready
    BY DEF BootInv, Course, Ready
  <2>2. boot.sources[i] \in Sources /\ Found(i)
    <3>1. boot.sources \in Seq(Sources)
      BY <2>1, ReadySources
    <3>2. QED BY <2>1, <3>1 DEF BootInv, Looked
  <2>3. boot.tip \in STRING
    BY <2>1, TipIsAString
  <2>4. CASE i \in DOMAIN boot.hosts
    <3>1. PICK pl : StandsOn(i, pl) /\ boot.sources[i] = boot.rec.sources[i]
      BY <2>1, <2>4, HostsAreThePlace
    <3> DEFINE p == boot.sources[i].at
               own == NodeVars(boot.tip)
    <3>2. boot.resolved[i] = pl.at /\ boot.tip = pl.id
      BY <2>2, <2>4, <3>1 DEF Found, StandsOn
    <3>3. p # NoPath => Expand(p, own).ok /\ pl.at = Expand(p, own).path
      BY <3>1, <3>2 DEF StandsOn
    <3>4. p \in Paths
      BY <2>2 DEF Sources
    <3>5. ASSUME NEW v \in DOMAIN own
          PROVE  own[v] \in Paths /\ IsAbs(own[v])
      <4> DEFINE all == Over(NodeVars(boot.tip), ParentVars(boot.tip))
      <4>1. v \in DOMAIN all /\ all[v] = own[v]
        BY DEF Over
      <4>2. all[v] \in Paths /\ IsAbs(all[v])
        BY <2>3, <4>1, OwnVarsAreSpaces
      <4>3. QED BY <4>1, <4>2
    <3> HIDE DEF p, own
    <3>6. p # NoPath /\ Head(p) \in DOMAIN own => WithinRoot(own[Head(p)], boot.resolved[i])
      BY <3>2, <3>3, <3>4, <3>5, ExpandStaysInSpace
    <3>7. QED BY <2>4, <3>6 DEF p, own
  <2>5. CASE i \notin DOMAIN boot.hosts
    <3> DEFINE p == Origin(boot.sources[i])
               own == OwnVars
    <3>1. /\ Expand(p, own).ok
          /\ boot.resolved[i] \in {Expand(p, own).path, AbsPath(Expand(p, own).path)}
      BY <2>2, <2>5 DEF Found
    <3>2. p \in Paths
      BY <2>2, KindIsAKind DEF Found
    <3>3. BoxId \in STRING
      BY <2>1, BoxIdIsAString DEF BootInv
    <3>4. ASSUME NEW v \in DOMAIN own
          PROVE  own[v] \in Paths /\ IsAbs(own[v])
      BY <2>3, <3>3, OwnVarsAreSpaces DEF OwnVars
    <3> HIDE DEF p, own
    <3>5. p # NoPath /\ Head(p) \in DOMAIN own => WithinRoot(own[Head(p)], boot.resolved[i])
      BY <3>1, <3>2, <3>4, ExpandStaysInSpace
    <3>6. QED BY <2>5, <3>5 DEF p, own
  <2>6. QED BY <2>4, <2>5
<1>2. QED BY <1>1, BootInvHolds, PTL

----------------------------------------------------------------------------
(* The mounts of a box. *)

\* A box path with its id spelled out is a path.
LEMMA ExpandedBoxPath ==
  ASSUME NEW p \in Paths, p # NoPath, NEW id \in STRING
  PROVE  /\ ExpandBoxPath(p, id) \in Paths /\ ExpandBoxPath(p, id) # NoPath
         /\ "$NODE_ID" \notin Range(p) => ExpandBoxPath(p, id) = p
<1> DEFINE x == ExpandBoxPath(p, id)
           n == Len(p)
<1>1. n \in Nat /\ n # 0 /\ DOMAIN p = 1..n /\ p \in [1..n -> STRING]
  BY DEF Paths, NoPath
<1>2. x = [i \in 1..n |-> IF p[i] = "$NODE_ID" THEN id ELSE p[i]]
  BY <1>1 DEF ExpandBoxPath
<1> HIDE DEF x, n
<1>3. x \in [1..n -> STRING]
  BY <1>1, <1>2
<1>4. x \in Paths /\ Len(x) = n
  BY <1>1, <1>3 DEF Paths
<1>5. x # NoPath
  BY <1>1, <1>4 DEF NoPath
<1>6. ASSUME "$NODE_ID" \notin Range(p)
      PROVE  x = p
  <2>1. \A i \in 1..n : p[i] # "$NODE_ID"
    BY <1>1, <1>6 DEF Range
  <2>2. QED BY <1>1, <1>2, <2>1
<1>7. QED BY <1>4, <1>5, <1>6 DEF x

\* A path has a depth.
LEMMA DepthIsANumber ==
  ASSUME NEW p \in Paths, p # NoPath
  PROVE  PathDepth(p) \in Nat
<1> DEFINE c == Clean(p)
<1>1. c \in Paths /\ c # NoPath
  BY CleanKeepsHead
<1> HIDE DEF c
<1>2. Len(c) \in Nat /\ Len(c) # 0
  BY <1>1 DEF Paths, NoPath
<1>3. PathDepth(p) = IF Len(c) = 1 THEN 1 ELSE Len(c) - 1
  BY DEF PathDepth, c
<1>4. QED BY <1>2, <1>3

\* A repository's store is at a path.
LEMMA GitDirIsAPath ==
  ASSUME NEW repo \in Paths
  PROVE  GitDir(repo) \in Paths /\ GitDir(repo) # NoPath
<1>1. ".git" \in STRING
  BY RecipeAssumption DEF OwnNames
<1>2. QED BY <1>1, OneMore DEF GitDir

\* A checkout among the sources is the place made, and its repository is known.
LEMMA CheckoutIsThePlace ==
  ASSUME BootInv, boot.step \in Ready, NEW i \in DOMAIN boot.sources, Kind(boot.sources[i]) = "worktree"
  PROVE  \E pl : StandsOn(i, pl) /\ RepoOf(boot.resolved[i]) = pl.repo /\ pl.repo \in Paths
<1>1. i \in DOMAIN Given /\ boot.sources[i] = Given[i]
  BY ReadySources
<1>2. boot.worktree = ""
  <2>1. SUFFICES ASSUME boot.worktree # ""
                 PROVE  FALSE
    OBVIOUS
  <2>2. boot.worktree \in DOMAIN Worktrees /\ Workable(boot.rec.sources)
    BY <2>1 DEF BootInv, Told, GivenHolds, Chosen, Bound, Stood
  <2>3. \A s \in Range(BindWorktree(boot.rec.sources, boot.worktree)) : Kind(s) # "worktree"
    BY <2>2, BindHolds, ReadySources
  <2>4. Given[i] \in Range(Given)
    BY <1>1 DEF Range
  <2>5. QED BY <1>1, <2>1, <2>3, <2>4 DEF Given
<1>3. i \in DOMAIN boot.rec.sources /\ boot.sources[i] = boot.rec.sources[i]
  BY <1>1, <1>2 DEF Given
<1>4. MakesPlace(Kind(boot.rec.sources[i]))
  BY <1>3 DEF MakesPlace
<1>5. OnePlace(boot.rec)
  BY DEF BootInv, Told, Boxed, Chosen, Bound, Stood
<1>6. StandsUpTo(Len(boot.rec.sources))
  BY <1>2 DEF BootInv, Standing, Settled
<1>7. PICK k, pl : StandsOn(k, pl)
  <2>1. \A j \in DOMAIN boot.rec.sources : j <= Len(boot.rec.sources)
    <3>1. PICK s : s = boot.rec.sources
      OBVIOUS
    <3>2. s \in Seq(Sources)
      BY <3>1, ReadySources
    <3>3. \A j \in DOMAIN s : j <= Len(s)
      BY <3>2
    <3>4. QED BY <3>1, <3>3
  <2>2. QED BY <1>3, <1>4, <1>6, <2>1 DEF StandsUpTo
<1>8. k = i
  BY <1>3, <1>4, <1>5, <1>7 DEF StandsOn, OnePlace
<1>9. boot.resolved[i] = pl.at
  <2>1. Found(i)
    BY DEF BootInv, Looked
  <2>2. QED BY <1>7, <1>8, <2>1 DEF Found, StandsOn
<1>10. pl.kind = "worktree" /\ pl.repo \in Paths /\ Range(done.places) = {pl}
  <2>1. Range(<< pl >>) = {pl}
    BY DEF Range
  <2>2. QED BY <1>3, <1>7, <1>8, <2>1 DEF StandsOn
<1>11. RepoOf(boot.resolved[i]) = pl.repo
  <2>1. (CHOOSE p \in {pl} : p.kind = "worktree" /\ p.at = pl.at) = pl
    BY <1>10
  <2>2. QED BY <1>9, <1>10, <2>1 DEF RepoOf
<1>12. QED BY <1>7, <1>8, <1>10, <1>11

\* What a source is mounted as.
Binding(i) == [host |-> boot.resolved[i], path |-> ExpandBoxPath(boot.sources[i].path, BoxId),
               ro |-> boot.sources[i].ro]
StoreOf(repo) == [host |-> GitDir(repo), path |-> GitDir(repo), ro |-> FALSE]

\* The mounts of one source.
LEMMA MountsOfASource ==
  ASSUME BootInv, boot.step \in Ready, NEW i \in DOMAIN boot.sources
  PROVE  /\ Range(MountsOf(i)) = {Binding(i)} \cup
              (IF Kind(boot.sources[i]) = "worktree" THEN {StoreOf(RepoOf(boot.resolved[i]))} ELSE {})
         /\ \A m \in Range(MountsOf(i)) : m.path \in Paths /\ m.path # NoPath
         /\ \A S : Range(MountsOf(i)) \subseteq S => MountsOf(i) \in Seq(S)
<1>1. Found(i) /\ boot.sources[i] \in Sources
  <2>1. boot.sources \in Seq(Sources)
    BY ReadySources
  <2>2. QED BY <2>1 DEF BootInv, Looked
<1>2. BoxId \in STRING
  BY BoxIdIsAString DEF BootInv, Ready
<1>3. Binding(i).path \in Paths /\ Binding(i).path # NoPath
  <2>1. boot.sources[i].path \in Paths /\ boot.sources[i].path # NoPath
    BY <1>1 DEF Found, Sources
  <2>2. QED BY <1>2, <2>1, ExpandedBoxPath DEF Binding
<1>4. CASE Kind(boot.sources[i]) = "worktree"
  <2> DEFINE a == Binding(i)
             b == StoreOf(RepoOf(boot.resolved[i]))
  <2>1. MountsOf(i) = << a, b >>
    BY <1>4 DEF MountsOf, Binding, StoreOf
  <2>2. b.path \in Paths /\ b.path # NoPath
    BY <1>4, CheckoutIsThePlace, GitDirIsAPath DEF StoreOf
  <2>3. a.path \in Paths /\ a.path # NoPath
    BY <1>3
  <2> HIDE DEF a, b
  <2>4. Range(<< a, b >>) = {a, b}
    BY DEF Range
  <2>5. ASSUME NEW S, a \in S, b \in S
        PROVE  << a, b >> \in Seq(S)
    BY <2>5
  <2>6. QED BY <1>4, <2>1, <2>2, <2>3, <2>4, <2>5 DEF a, b
<1>5. CASE Kind(boot.sources[i]) # "worktree"
  <2> DEFINE a == Binding(i)
  <2>1. MountsOf(i) = << a >>
    BY <1>5 DEF MountsOf, Binding
  <2>2. a.path \in Paths /\ a.path # NoPath
    BY <1>3
  <2> HIDE DEF a
  <2>3. Range(<< a >>) = {a}
    BY DEF Range
  <2>4. ASSUME NEW S, a \in S
        PROVE  << a >> \in Seq(S)
    BY <2>4
  <2>5. QED BY <1>5, <2>1, <2>2, <2>3, <2>4 DEF a
<1>6. QED BY <1>4, <1>5

\* The directory of the CA in a box is a path.
LEMMA CABoxDirIsAPath == CABoxDir \in Paths /\ CABoxDir # NoPath
<1>1. {"/", "run", "dabs", "pub"} \subseteq STRING
  BY RecipeAssumption DEF OwnNames
<1>2. ASSUME NEW S, NEW a \in S, NEW b \in S, NEW c \in S, NEW d \in S
      PROVE  << a, b, c, d >> \in Seq(S)
  OBVIOUS
<1>3. QED BY <1>1, <1>2 DEF CABoxDir, Paths, NoPath

\* The mounts of a box are those of its sources, and the CA of a crossing.
LEMMA MountsAre ==
  ASSUME BootInv, boot.step \in Ready
  PROVE  /\ \A i \in DOMAIN boot.sources : Range(MountsOf(i)) \subseteq Range(Mounts)
         /\ \A m \in Range(Mounts) : m.path \in Paths /\ m.path # NoPath
         /\ \E S : Mounts \in Seq(S) /\ S = Range(Mounts)
<1> DEFINE ca == [host |-> Append(Home, "ca"), path |-> CABoxDir, ro |-> TRUE]
           seqs == [i \in DOMAIN boot.sources |-> MountsOf(i)]
           all == UNION {Range(MountsOf(i)) : i \in DOMAIN boot.sources}
           S == all \cup {ca}
<1>n. PICK n \in Nat : DOMAIN boot.sources = 1..n
  <2>1. boot.sources \in Seq(Sources)
    BY ReadySources
  <2>2. QED BY <2>1
<1>1. seqs \in Seq(Seq(S))
  <2>1. \A i \in DOMAIN boot.sources : MountsOf(i) \in Seq(S)
    <3>1. \A i \in DOMAIN boot.sources : Range(MountsOf(i)) \subseteq S
      OBVIOUS
    <3> HIDE DEF S
    <3>2. QED BY <3>1, MountsOfASource
  <2> HIDE DEF S
  <2>2. seqs \in [1..n -> Seq(S)]
    BY <1>n, <2>1
  <2> HIDE DEF seqs
  <2>3. QED BY <2>2
<1>2. FlattenSeq(seqs) \in Seq(S) /\ Range(FlattenSeq(seqs)) = all
  <2>1. /\ FlattenSeq(seqs) \in Seq(S)
        /\ Range(FlattenSeq(seqs)) = UNION {Range(seqs[i]) : i \in DOMAIN seqs}
    <3> HIDE DEF seqs, S
    <3>1. QED BY <1>1, FlattenHolds
  <2>2. DOMAIN seqs = DOMAIN boot.sources /\ \A i \in DOMAIN boot.sources : seqs[i] = MountsOf(i)
    OBVIOUS
  <2> HIDE DEF seqs
  <2>3. UNION {Range(seqs[i]) : i \in DOMAIN seqs} = all
    BY <2>2
  <2>4. QED BY <2>1, <2>3
<1>f. PICK f : f = FlattenSeq(seqs)
  OBVIOUS
<1>d. PICK d : d = IF EgressMode(boot.rec.egress) = "proxy" THEN << ca >> ELSE << >>
  OBVIOUS
<1>3. Mounts = f \o d
  BY <1>f, <1>d DEF Mounts
<1>4. d \in Seq(S) /\ Range(d) \subseteq {ca}
  <2>1. ca \in S
    OBVIOUS
  <2> HIDE DEF ca, S
  <2>2. << ca >> \in Seq(S) /\ << >> \in Seq(S) /\ Range(<< ca >>) = {ca} /\ Range(<< >>) = {}
    BY <2>1 DEF Range
  <2>3. QED BY <1>d, <2>2
<1>5. f \in Seq(S) /\ Range(f) = all
  BY <1>2, <1>f
<1> HIDE DEF S, seqs
<1>6. Range(f \o d) = Range(f) \cup Range(d) /\ f \o d \in Seq(S)
  BY <1>4, <1>5, RangeConcatenation, ConcatProperties
<1>7. \A i \in DOMAIN boot.sources : Range(MountsOf(i)) \subseteq Range(Mounts)
  BY <1>3, <1>5, <1>6
<1>8. ca.path \in Paths /\ ca.path # NoPath
  BY CABoxDirIsAPath
<1>9. \A m \in all : m.path \in Paths /\ m.path # NoPath
  BY MountsOfASource
<1>10. \A m \in Range(Mounts) : m.path \in Paths /\ m.path # NoPath
  <2> HIDE DEF ca, all
  <2>1. QED BY <1>3, <1>4, <1>5, <1>6, <1>8, <1>9
<1>11. Mounts \in Seq(Range(Mounts))
  <2>1. PICK g \in Seq(S) : g = Mounts
    BY <1>3, <1>6
  <2>2. g \in Seq(Range(g))
    <3>1. g \in [1..Len(g) -> Range(g)] /\ Len(g) \in Nat
      BY DEF Range
    <3>2. QED BY <3>1
  <2>3. QED BY <2>1, <2>2
<1>12. QED BY <1>7, <1>10, <1>11

\* A box is built of those mounts, the shallower before the deeper.
LEMMA BoxMounts ==
  ASSUME BootInv, boot.step = "up"
  PROVE  /\ done.box.mounts \in Seq(Range(Mounts))
         /\ Range(done.box.mounts) = Range(Mounts)
         /\ done.box.parent = boot.tip
         /\ \A k, l \in DOMAIN done.box.mounts :
              k < l => PathDepth(done.box.mounts[k].path) <= PathDepth(done.box.mounts[l].path)
<1>1. PICK S : Mounts \in Seq(S) /\ S = Range(Mounts)
  BY MountsAre DEF Ready
<1>2. ASSUME NEW i \in DOMAIN Mounts
      PROVE  PathDepth(Mounts[i].path) \in Nat
  <2>1. Mounts[i] \in Range(Mounts)
    BY DEF Range
  <2>2. Mounts[i].path \in Paths /\ Mounts[i].path # NoPath
    BY <2>1, MountsAre DEF Ready
  <2>3. QED BY <2>2, DepthIsANumber
<1>3. PICK m : m = SortMountsByDepth(Mounts)
  OBVIOUS
<1>4. /\ m \in Seq(Range(Mounts)) /\ Range(m) = Range(Mounts)
      /\ \A k, l \in DOMAIN m : k < l => PathDepth(m[k].path) <= PathDepth(m[l].path)
  BY <1>1, <1>2, <1>3, SortingKeepsMounts
<1>5. done.box.mounts = m /\ done.box.parent = boot.tip
  <2>1. \E c, s : done.box = [up |-> TRUE, id |-> BoxId, parent |-> boot.tip,
                   mounts |-> m, sockets |-> c, spec |-> s]
    BY <1>3 DEF BootInv, Built
  <2>2. QED BY <2>1
<1>6. QED BY <1>4, <1>5

\* Whatever the recipe, a box has the place it was bound to or cut as its
\* parent and mounted, a checkout with its repository's store
\* (StandsOnItsPlace).  A repository whose path holds the text "$NODE_ID" is
\* left out: the store's path in a bound box is expanded as any box path is, to
\* where no .git file points.
THEOREM PlaceIsMounted ==
  ASSUME \A w \in DOMAIN Worktrees : "$NODE_ID" \notin Range(Worktrees[w].repo)
  PROVE  Spec => []StandsOnItsPlace
<1>1. ASSUME BootInv, done.box.up
      PROVE  StandsOnItsPlace
  <2> DEFINE box == done.box
             hosts == {m.host : m \in Range(box.mounts)}
             store(p) == \E m \in Range(box.mounts) : m.host = GitDir(p) /\ m.path = GitDir(p)
             copies == \E s \in Range(boot.sources) : Kind(s) = "copy"
  <2>1. boot.step = "up" /\ boot.step \in Ready
    BY <1>1 DEF BootInv, Course, Ready
  <2>2. Range(box.mounts) = Range(Mounts) /\ box.parent = boot.tip
    BY <1>1, <2>1, BoxMounts
  <2>3. ASSUME NEW i \in DOMAIN boot.sources
        PROVE  /\ Binding(i) \in Range(box.mounts) /\ boot.resolved[i] \in hosts
               /\ Kind(boot.sources[i]) = "worktree" =>
                    StoreOf(RepoOf(boot.resolved[i])) \in Range(box.mounts)
    <3>1. Range(MountsOf(i)) \subseteq Range(box.mounts)
      BY <1>1, <2>1, <2>2, MountsAre
    <3>2. Range(MountsOf(i)) = {Binding(i)} \cup
              (IF Kind(boot.sources[i]) = "worktree" THEN {StoreOf(RepoOf(boot.resolved[i]))} ELSE {})
      BY <1>1, <2>1, MountsOfASource
    <3>3. Binding(i).host = boot.resolved[i]
      BY DEF Binding
    <3>4. QED BY <3>1, <3>2, <3>3
  <2>4. ASSUME NEW p, StoreOf(p) \in Range(box.mounts)
        PROVE  store(p)
    <3>1. StoreOf(p).host = GitDir(p) /\ StoreOf(p).path = GitDir(p)
      BY DEF StoreOf
    <3>2. QED BY <2>4, <3>1
  <2>5. CASE boot.worktree # ""
    <3> DEFINE wt == Worktrees[boot.worktree]
               all == Range(BindWorktree(boot.rec.sources, boot.worktree))
    <3>1. boot.worktree \in DOMAIN Worktrees /\ Workable(boot.rec.sources)
      BY <1>1, <2>1, <2>5 DEF BootInv, Told, GivenHolds, Chosen, Bound, Stood
    <3>2. DOMAIN boot.hosts = {} /\ boot.tip = boot.worktree
      BY <1>1, <2>1, <2>5 DEF BootInv, Standing, Settled
    <3>3. /\ \E s \in all : Kind(s) \in {"mount", "copy"} /\ Origin(s) = wt.data
          /\ \/ \E s \in all : Kind(s) = "copy"
             \/ \E s \in all : /\ Kind(s) = "mount" /\ Origin(s) = GitDir(wt.repo)
                               /\ s.path = GitDir(wt.repo)
      BY <1>1, <2>1, <3>1, BindHolds, ReadySources
    <3>4. ASSUME NEW s \in all
          PROVE  \E i \in DOMAIN boot.sources : boot.sources[i] = s
      <4>1. Given = BindWorktree(boot.rec.sources, boot.worktree)
        BY <2>5 DEF Given
      <4>2. PICK i \in DOMAIN Given : Given[i] = s
        BY <4>1 DEF Range
      <4>3. QED BY <1>1, <2>1, <4>2, ReadySources
    <3>5. ASSUME NEW i \in DOMAIN boot.sources, Kind(boot.sources[i]) \in {"mount", "copy"},
                 NEW p \in Paths, IsAbs(p), Clean(p) = p, Origin(boot.sources[i]) = p
          PROVE  boot.resolved[i] = p
      <4>1. Found(i)
        BY <1>1, <2>1 DEF BootInv, Looked
      <4>2. "/" \notin DOMAIN OwnVars
        BY NoSpaceIsTheRoot DEF OwnVars
      <4>3. AbsPath(Expand(p, OwnVars).path) = p
        BY <3>5, <4>2, ExpandOfClean
      <4>4. QED BY <3>2, <3>5, <4>1, <4>3 DEF Found
    <3>6. /\ wt.data \in Paths /\ IsAbs(wt.data) /\ Clean(wt.data) = wt.data
          /\ wt.repo \in Paths /\ IsAbs(wt.repo) /\ Clean(wt.repo) = wt.repo
      BY <3>1, RecipeAssumption
    <3>7. wt.data \in hosts
      <4>1. PICK i \in DOMAIN boot.sources :
              Kind(boot.sources[i]) \in {"mount", "copy"} /\ Origin(boot.sources[i]) = wt.data
        BY <3>3, <3>4
      <4>2. boot.resolved[i] = wt.data
        BY <3>5, <3>6, <4>1
      <4>3. QED BY <2>3, <4>2
    <3>8. copies \/ store(wt.repo)
      <4>1. CASE \E s \in all : Kind(s) = "copy"
        <5>1. PICK i \in DOMAIN boot.sources : Kind(boot.sources[i]) = "copy"
          BY <3>4, <4>1
        <5>2. boot.sources[i] \in Range(boot.sources)
          BY DEF Range
        <5>3. QED BY <5>1, <5>2
      <4>2. CASE \E s \in all : /\ Kind(s) = "mount" /\ Origin(s) = GitDir(wt.repo)
                                /\ s.path = GitDir(wt.repo)
        <5> DEFINE g == GitDir(wt.repo)
        <5>1. PICK i \in DOMAIN boot.sources :
                /\ Kind(boot.sources[i]) = "mount" /\ Origin(boot.sources[i]) = g
                /\ boot.sources[i].path = g
          BY <3>4, <4>2
        <5>2. g \in Paths /\ g # NoPath /\ IsAbs(g) /\ Clean(g) = g /\ "$NODE_ID" \notin Range(g)
          <6>1. ".git" \in STRING /\ ".git" # ".." /\ ".git" # "$NODE_ID"
            BY RecipeAssumption DEF OwnNames
          <6>2. PICK r \in Paths : r = wt.repo
            BY <3>6
          <6>3. r # NoPath /\ r[1] = "/" /\ Clean(r) = r /\ "$NODE_ID" \notin Range(r)
            BY <3>1, <3>6, <6>2 DEF IsAbs
          <6>4. Clean(Append(r, ".git")) = Append(r, ".git")
            BY <6>1, <6>3, CleanOfAppend DEF Follow
          <6>5. /\ Append(r, ".git") \in Paths /\ Append(r, ".git") # NoPath
                /\ \A k \in 1..Len(r) : Append(r, ".git")[k] = r[k]
                /\ Len(r) \in Nat /\ Len(r) # 0 /\ DOMAIN r = 1..Len(r)
                /\ DOMAIN Append(r, ".git") = 1..(Len(r) + 1)
                /\ Append(r, ".git")[Len(r) + 1] = ".git"
            BY <6>1, <6>3, OneMore
          <6>6. Append(r, ".git")[1] = "/"
            BY <6>3, <6>5
          <6>7. ASSUME NEW k \in DOMAIN Append(r, ".git")
                PROVE  Append(r, ".git")[k] # "$NODE_ID"
            <7>1. CASE k \in 1..Len(r)
              BY <6>3, <6>5, <7>1 DEF Range
            <7>2. CASE k \notin 1..Len(r)
              <8>1. k = Len(r) + 1
                BY <6>5, <7>2
              <8>2. QED BY <6>1, <6>5, <8>1
            <7>3. QED BY <7>1, <7>2
          <6>8. g = Append(r, ".git")
            BY <6>2 DEF GitDir
          <6>9. QED BY <6>4, <6>5, <6>6, <6>7, <6>8 DEF IsAbs, Range
        <5> HIDE DEF g
        <5>3. boot.resolved[i] = g
          BY <3>5, <5>1, <5>2
        <5>4. BoxId \in STRING
          BY <1>1, <2>1, BoxIdIsAString DEF BootInv
        <5>5. Binding(i).host = g /\ Binding(i).path = g
          BY <5>1, <5>2, <5>3, <5>4, ExpandedBoxPath DEF Binding
        <5>6. \E m \in Range(box.mounts) : m.host = g /\ m.path = g
          BY <2>3, <5>5
        <5>7. QED BY <5>6 DEF g
      <4>3. QED BY <3>3, <4>1, <4>2
    <3>9. QED BY <2>2, <2>5, <3>2, <3>7, <3>8 DEF StandsOnItsPlace
  <2>6. CASE boot.worktree = ""
    <3>1. StandsUpTo(Len(boot.rec.sources))
      BY <1>1, <2>1, <2>6 DEF BootInv, Standing, Settled
    <3>2. CASE \E i, pl : StandsOn(i, pl)
      <4>1. PICK i, pl : StandsOn(i, pl)
        BY <3>2
      <4>2. Last(done.places) = pl /\ done.places # << >>
        <5>1. Last(<< pl >>) = pl /\ << pl >> # << >>
          BY DEF Last
        <5>2. QED BY <4>1, <5>1 DEF StandsOn
      <4>3. /\ i \in DOMAIN boot.hosts /\ boot.hosts[i] = pl.at /\ boot.tip = pl.id
        BY <4>1 DEF StandsOn
      <4>4. i \in DOMAIN boot.sources /\ boot.sources[i] = boot.rec.sources[i]
        BY <1>1, <2>1, <4>3, HostsAreThePlace
      <4>5. boot.resolved[i] = pl.at
        BY <1>1, <2>1, <4>3, <4>4 DEF BootInv, Looked, Found
      <4>6. pl.at \in hosts
        BY <2>3, <4>4, <4>5
      <4>7. ASSUME pl.kind = "worktree"
            PROVE  store(pl.repo)
        <5>1. Kind(boot.sources[i]) = "worktree"
          BY <4>1, <4>4, <4>7 DEF StandsOn
        <5>2. PICK other : StandsOn(i, other) /\ RepoOf(boot.resolved[i]) = other.repo
          BY <1>1, <2>1, <4>4, <5>1, CheckoutIsThePlace
        <5>3. other = pl
          <6>1. << pl >> = << other >>
            BY <4>1, <5>2 DEF StandsOn
          <6>2. QED BY <6>1
        <5>4. StoreOf(pl.repo) \in Range(box.mounts)
          BY <2>3, <4>4, <5>1, <5>2, <5>3
        <5>5. QED BY <2>4, <5>4
      <4>8. QED BY <2>2, <2>6, <4>2, <4>3, <4>6, <4>7 DEF StandsOnItsPlace
    <3>3. CASE ~\E i, pl : StandsOn(i, pl)
      <4>1. boot.tip = "project" /\ done.places = << >>
        BY <3>1, <3>3 DEF StandsUpTo
      <4>2. QED BY <2>2, <2>6, <4>1 DEF StandsOnItsPlace
    <3>4. QED BY <3>2, <3>3
  <2>7. QED BY <2>5, <2>6
<1>2. BootInv => StandsOnItsPlace
  BY <1>1 DEF StandsOnItsPlace
<1>3. QED BY <1>2, BootInvHolds, PTL

\* No two mounts are at one path, and none is at the root.
Apart(mounts) ==
  /\ \A i, j \in DOMAIN mounts : Clean(mounts[i].path) = Clean(mounts[j].path) => i = j
  /\ \A i \in DOMAIN mounts : Len(Clean(mounts[i].path)) # 1

\* A box whose mounts are all at different paths, none of them the root, has
\* none masked by a later one, in whatever order the recipe lists them and the
\* boot adds its own (NothingIsMasked).  Only then: nothing in the code keeps a
\* mount off the root, the spelled-out id of a box off a path written with
\* "$NODE_ID", or a bound store off a path the recipe writes.
THEOREM NothingMaskedApart == Spec => [](done.box.up /\ Apart(done.box.mounts) => NothingIsMasked)
<1>1. ASSUME BootInv, done.box.up, Apart(done.box.mounts)
      PROVE  NothingIsMasked
  <2>1. boot.step = "up" /\ boot.step \in Ready
    BY <1>1 DEF BootInv, Course, Ready
  <2>2. SUFFICES ASSUME NEW i \in DOMAIN done.box.mounts, NEW j \in DOMAIN done.box.mounts, i < j,
                        WithinRoot(done.box.mounts[j].path, done.box.mounts[i].path)
                 PROVE  FALSE
    BY DEF NothingIsMasked
  <2>a. PICK a : a = done.box.mounts[i].path
    OBVIOUS
  <2>b. PICK b : b = done.box.mounts[j].path
    OBVIOUS
  <2>3. a \in Paths /\ a # NoPath /\ b \in Paths /\ b # NoPath
    <3>1. done.box.mounts[i] \in Range(Mounts) /\ done.box.mounts[j] \in Range(Mounts)
      <4>1. Range(done.box.mounts) = Range(Mounts)
        BY <1>1, <2>1, BoxMounts
      <4>2. QED BY <4>1 DEF Range
    <3>2. QED BY <1>1, <2>1, <2>a, <2>b, <3>1, MountsAre
  <2>4. PathDepth(a) <= PathDepth(b)
    BY <1>1, <2>1, <2>2, <2>a, <2>b, BoxMounts
  <2>c. PICK c : c = Clean(a)
    OBVIOUS
  <2>d. PICK d : d = Clean(b)
    OBVIOUS
  <2>5. c \in Paths /\ d \in Paths /\ c # NoPath /\ d # NoPath /\ Len(c) # 1 /\ Len(d) # 1 /\ c # d
    <3>1. c \in Paths /\ d \in Paths /\ c # NoPath /\ d # NoPath
      BY <2>3, <2>c, <2>d, CleanKeepsHead
    <3>2. Len(c) # 1 /\ Len(d) # 1
      BY <1>1, <2>a, <2>b, <2>c, <2>d DEF Apart
    <3>3. i # j
      <4>1. PICK m : m = done.box.mounts
        OBVIOUS
      <4>2. m \in Seq(Range(Mounts))
        BY <1>1, <2>1, <4>1, BoxMounts
      <4>3. DOMAIN m \subseteq Nat
        BY <4>2
      <4>4. QED BY <2>2, <4>1, <4>3
    <3>4. QED BY <1>1, <2>a, <2>b, <2>c, <2>d, <3>1, <3>2, <3>3 DEF Apart
  <2>6. Len(c) \in Nat /\ Len(d) \in Nat
    BY <2>5 DEF Paths
  <2>7. Len(c) <= Len(d)
    <3>1. PathDepth(a) = Len(c) - 1 /\ PathDepth(b) = Len(d) - 1
      BY <2>5, <2>c, <2>d DEF PathDepth
    <3>2. Len(c) - 1 <= Len(d) - 1
      BY <2>4, <3>1
    <3>3. QED BY <2>6, <3>2
  <2>8. Len(d) <= Len(c) /\ SubSeq(d, 1, Len(d)) = SubSeq(c, 1, Len(d))
    BY <2>2, <2>a, <2>b, <2>c, <2>d DEF WithinRoot, IsPrefix
  <2>9. Len(c) = Len(d)
    BY <2>6, <2>7, <2>8
  <2>10. SubSeq(c, 1, Len(c)) = c /\ SubSeq(d, 1, Len(d)) = d
    BY <2>5 DEF Paths
  <2>11. QED BY <2>5, <2>8, <2>9, <2>10
<1>2. BootInv => (done.box.up /\ Apart(done.box.mounts) => NothingIsMasked)
  BY <1>1
<1>3. QED BY <1>2, BootInvHolds, PTL

----------------------------------------------------------------------------
(* The layers. *)

\* What each layer's file is read as.
Parsed == [i \in DOMAIN Layers |-> Parse(Layers[i].file)]

LoadedInv ==
  boot.step = "loaded" =>
    /\ \A i \in DOMAIN Layers : Parsed[i].ok
    /\ boot.reg = LoadRegistry(Parsed) /\ boot.origins = Marks

\* Only a request has the layers read.
LEMMA OnlyAskLoads ==
  ASSUME Course, [Next]_vars, boot'.step = "loaded"
  PROVE  Ask \/ (boot' = boot /\ files' = files)
<1>0. "step" \in DOMAIN boot
  BY DEF Course
<1>1. ASSUME NEW step, step # "loaded", NEW known, "step" \notin DOMAIN known, boot' = At(step, known)
      PROVE  FALSE
  <2>1. boot'.step = step
    BY <1>0, <1>1, AtKnows
  <2>2. QED BY <1>1, <2>1
<1>2. ASSUME NEW why, boot' = At("refused", [why |-> why])
      PROVE  FALSE
  <2>1. boot'.step = "refused"
    BY <1>0, <1>2, AtRefused
  <2>2. QED BY <2>1
<1>3. ASSUME NEW step, step # "loaded", boot' = At(step, << >>)
      PROVE  FALSE
  <2>1. boot'.step = step
    BY <1>0, <1>3, AtMore
  <2>2. QED BY <1>3, <2>1
<1>4. CASE Dispatch
  <2>1. \/ \E why : Refuse(why)
        \/ \E reg, name, dir : Get(reg, name, dir)
    BY <1>4 DEF Dispatch, ResolveRecipe, GetAt
  <2>2. ASSUME NEW reg, NEW name, NEW dir,
               boot' = At("asked", [name |-> name, rec |-> reg.recipes[name], dir |-> dir])
        PROVE  FALSE
    <3> DEFINE known == [name |-> name, rec |-> reg.recipes[name], dir |-> dir]
    <3>1. "step" \notin DOMAIN known /\ boot' = At("asked", known)
      BY <2>2
    <3> HIDE DEF known
    <3>2. QED BY <1>1, <3>1
  <2>3. QED BY <1>2, <2>1, <2>2 DEF Get, Refuse, Goes
<1>5. CASE Check
  <2>1. \/ \E why : Refuse(why)
        \/ \E step \in {"boxless", "checked"} : \E rec : Goes(step, [rec |-> rec])
    BY <1>5 DEF Check
  <2>2. ASSUME NEW step \in {"boxless", "checked"}, NEW rec, boot' = At(step, [rec |-> rec])
        PROVE  FALSE
    <3> DEFINE known == [rec |-> rec]
    <3>1. "step" \notin DOMAIN known /\ boot' = At(step, known) /\ step # "loaded"
      BY <2>2
    <3> HIDE DEF known
    <3>2. QED BY <1>1, <3>1
  <2>3. QED BY <1>2, <2>1, <2>2 DEF Refuse, Goes
<1>6. CASE ChooseWorktree
  <2>1. \/ \E why : Refuse(why)
        \/ \E w : Goes("chosen", [worktree |-> w])
    BY <1>6 DEF ChooseWorktree
  <2>2. ASSUME NEW w, boot' = At("chosen", [worktree |-> w])
        PROVE  FALSE
    BY <1>1, <2>2
  <2>3. QED BY <1>2, <2>1, <2>2 DEF Refuse, Goes
<1>7. CASE Confirm \/ Reach \/ Placed \/ EnsureImage \/ MakeMounts \/ BuildBox
  <2>1. \/ \E why : boot' = At("refused", [why |-> why])
        \/ \E step : step # "loaded" /\ boot' = At(step, << >>)
    BY <1>7 DEF Confirm, Reach, Placed, EnsureImage, MakeMounts, BuildBox, Refuse, Goes
  <2>2. QED BY <1>2, <1>3, <2>1
<1>8. CASE Bind \/ StandOn \/ Prepare
  <2>1. \/ \E why : Refuse(why)
        \/ \E s : Goes("bound", [sources |-> s])
        \/ \E step \in {"placed", "placing"} : \E tip : Goes(step, [tip |-> tip])
        \/ \E s, r : Goes("prepared", [sources |-> s, resolved |-> r])
    BY <1>8 DEF Bind, StandOn, Prepare
  <2>2. ASSUME NEW s, boot' = At("bound", [sources |-> s])
        PROVE  FALSE
    BY <1>1, <2>2
  <2>3. ASSUME NEW step \in {"placed", "placing"}, NEW tip, boot' = At(step, [tip |-> tip])
        PROVE  FALSE
    <3> DEFINE known == [tip |-> tip]
    <3>1. "step" \notin DOMAIN known /\ boot' = At(step, known) /\ step # "loaded"
      BY <2>3
    <3> HIDE DEF known
    <3>2. QED BY <1>1, <3>1
  <2>4. ASSUME NEW s, NEW r, boot' = At("prepared", [sources |-> s, resolved |-> r])
        PROVE  FALSE
    <3> DEFINE known == [sources |-> s, resolved |-> r]
    <3>1. "step" \notin DOMAIN known /\ boot' = At("prepared", known)
      BY <2>4
    <3> HIDE DEF known
    <3>2. QED BY <1>1, <3>1
  <2>5. QED BY <1>2, <2>1, <2>2, <2>3, <2>4 DEF Refuse, Goes
<1>9. CASE Claim
  <2>1. \/ \E why : Refuse(why)
        \/ boot' = At("claimed", NoPlace)
    BY <1>9 DEF Claim
  <2>2. "step" \notin DOMAIN NoPlace
    BY DEF NoPlace
  <2>3. QED BY <1>1, <1>2, <2>1, <2>2 DEF Refuse, Goes
<1>10. CASE Provision
  <2>1. \/ \E why : Refuse(why)
        \/ boot' = At("making", [next |-> 1, tip |-> "project", hosts |-> << >>,
                                 sources |-> boot.rec.sources])
    BY <1>10 DEF Provision
  <2>2. CASE boot' = At("making", [next |-> 1, tip |-> "project", hosts |-> << >>,
                                 sources |-> boot.rec.sources])
    BY <1>1, <2>2
  <2>3. QED BY <1>2, <2>1, <2>2 DEF Refuse, Goes
<1>11. CASE PassBy \/ CutPlace \/ CopyPlace
  <2>1. boot.step # "loaded"
    BY <1>11 DEF PassBy, CutPlace, CopyPlace, Placing
  <2>2. \/ \E why : Refuse(why)
        \/ boot' = At(boot.step, [next |-> boot.next + 1])
        \/ \E kind, at, repo : Made(kind, at, repo)
        \/ \E at : Littered(at)
    BY <1>11 DEF PassBy, CutPlace, CopyPlace, Goes
  <2>3. CASE boot' = At(boot.step, [next |-> boot.next + 1])
    BY <1>1, <2>1, <2>3
  <2>4. ASSUME NEW at, boot' = At(boot.step, [next |-> boot.next + 1, tip |-> NodeId(boot.next),
                               hosts |-> Over([i \in {boot.next} |-> at], boot.hosts)])
        PROVE  FALSE
    BY <1>1, <2>1, <2>4
  <2>5. QED BY <1>2, <2>2, <2>3, <2>4 DEF Refuse, Goes, Made, Littered
<1>12. CASE HostMoves \/ UNCHANGED vars
  BY <1>12 DEF HostMoves, vars
<1>13. QED BY <1>4, <1>5, <1>6, <1>7, <1>8, <1>9, <1>10, <1>11, <1>12 DEF Next

\* Whatever the files hold, each recipe of the merged registry is that of the
\* last layer with its name, and is marked with that layer (OriginIsTheWinner).
THEOREM WinnersAreMarked == Spec => []OriginIsTheWinner
<1>1. Init => LoadedInv
  BY DEF Init, LoadedInv
<1>2. BootInv /\ LoadedInv /\ [Next]_vars => LoadedInv'
  <2> SUFFICES ASSUME BootInv, LoadedInv, [Next]_vars, boot'.step = "loaded"
               PROVE  LoadedInv'
    BY DEF LoadedInv
  <2>1. CASE boot' = boot /\ files' = files
    <3>1. Layers' = Layers
      BY <2>1 DEF Layers
    <3>2. Parsed' = Parsed /\ Marks' = Marks
      BY <3>1 DEF Parsed, Marks
    <3>3. QED BY <2>1, <3>1, <3>2 DEF LoadedInv
  <2>2. CASE Ask
    <3>1. files' = files
      BY <2>2 DEF Ask
    <3>2. Layers' = Layers
      BY <3>1 DEF Layers
    <3>3. Parsed' = Parsed /\ Marks' = Marks
      BY <3>2 DEF Parsed, Marks
    <3>4. PICK req \in Requests :
            /\ req.form # "go"
            /\ boot' = IF \E i \in DOMAIN Parsed : ~Parsed[i].ok
                       THEN [step |-> "refused", req |-> req, why |-> "parse"]
                       ELSE [step |-> "loaded", req |-> req, reg |-> LoadRegistry(Parsed), origins |-> Marks]
      <4>1. PICK req \in Requests :
              IF req.form = "go"
              THEN boot' = IF Boxless(req.rec) \/ ~Validate(req.rec)
                           THEN [step |-> "refused", req |-> req, why |-> "invalid"]
                           ELSE [step |-> "asked", req |-> req, name |-> req.arg, rec |-> req.rec,
                                 dir |-> NoPath]
              ELSE boot' = IF \E i \in DOMAIN Parsed : ~Parsed[i].ok
                           THEN [step |-> "refused", req |-> req, why |-> "parse"]
                           ELSE [step |-> "loaded", req |-> req, reg |-> LoadRegistry(Parsed),
                                 origins |-> Marks]
        BY <2>2 DEF Ask, Parsed
      <4>2. req.form # "go"
        <5>1. [step |-> "refused", req |-> req, why |-> "invalid"].step # "loaded"
          OBVIOUS
        <5>2. [step |-> "asked", req |-> req, name |-> req.arg, rec |-> req.rec, dir |-> NoPath].step # "loaded"
          OBVIOUS
        <5>3. QED BY <4>1, <5>1, <5>2
      <4>3. QED BY <4>1, <4>2
    <3>5. /\ \A i \in DOMAIN Parsed : Parsed[i].ok
          /\ boot'.reg = LoadRegistry(Parsed) /\ boot'.origins = Marks
      <4>1. [step |-> "refused", req |-> req, why |-> "parse"].step # "loaded"
        OBVIOUS
      <4>2. QED BY <3>4, <4>1
    <3>6. DOMAIN Parsed = DOMAIN Layers
      BY DEF Parsed
    <3>7. QED BY <3>2, <3>3, <3>5, <3>6 DEF LoadedInv
  <2>3. QED BY <2>1, <2>2, OnlyAskLoads DEF BootInv
<1>3. LoadedInv => OriginIsTheWinner
  <2> SUFFICES ASSUME LoadedInv, boot.step = "loaded", NEW n \in DOMAIN boot.reg.recipes
               PROVE  \E i \in DOMAIN Layers :
                        /\ n \in DOMAIN Layers[i].file.recipes
                        /\ \A j \in DOMAIN Layers : j > i => n \notin DOMAIN Layers[j].file.recipes
                        /\ boot.reg.recipes[n] = Parse(Layers[i].file).reg.recipes[n]
                        /\ boot.origins[n] = Layers[i].origin
    BY DEF OriginIsTheWinner
  <2>1. DOMAIN Layers = 1..3 /\ Layers \in [1..3 -> {Layers[1], Layers[2], Layers[3]}]
    BY DEF Layers
  <2> DEFINE has(i) == n \in DOMAIN Layers[i].file.recipes
             reads(i) == Parse(Layers[i].file).reg.recipes
  <2>2. \A i \in 1..3 : DOMAIN reads(i) = DOMAIN Layers[i].file.recipes
    BY DEF Parse, Gate
  <2>3. boot.reg.recipes = Over(reads(3), Over(reads(2), reads(1)))
    <3>1. boot.reg = Merge(Merge(Parsed[1].reg, Parsed[2].reg), Parsed[3].reg)
      BY DEF LoadedInv, LoadRegistry
    <3>2. \A i \in 1..3 : Parsed[i].reg.recipes = reads(i)
      BY <2>1 DEF Parsed
    <3>3. \A a, b : Merge(a, b).recipes = Over(b.recipes, a.recipes)
      BY DEF Merge
    <3>4. 1 \in 1..3 /\ 2 \in 1..3 /\ 3 \in 1..3
      OBVIOUS
    <3>5. QED BY <3>1, <3>2, <3>3, <3>4
  <2> DEFINE of(layer) == [m \in DOMAIN layer.file.recipes |-> layer.origin]
  <2>4. boot.origins = Over(of(Layers[3]), Over(of(Layers[2]), of(Layers[1])))
    BY DEF LoadedInv, Marks
  <2>5. 1 \in 1..3 /\ 2 \in 1..3 /\ 3 \in 1..3 /\ \A j \in 1..3 : j = 1 \/ j = 2 \/ j = 3
    OBVIOUS
  <2>6. \A i \in 1..3 : DOMAIN of(Layers[i]) = DOMAIN Layers[i].file.recipes
                        /\ (has(i) => of(Layers[i])[n] = Layers[i].origin)
    OBVIOUS
  <2>7. has(3) \/ has(2) \/ has(1)
    BY <2>2, <2>3, <2>5 DEF Over
  <2> HIDE DEF reads, of
  <2>8. CASE has(3)
    <3>1. boot.reg.recipes[n] = reads(3)[n] /\ boot.origins[n] = Layers[3].origin
      BY <2>2, <2>3, <2>4, <2>5, <2>6, <2>8 DEF Over
    <3>2. \A j \in 1..3 : ~(j > 3)
      OBVIOUS
    <3>3. QED BY <2>1, <2>5, <2>8, <3>1, <3>2 DEF reads
  <2>9. CASE ~has(3) /\ has(2)
    <3>1. boot.reg.recipes[n] = reads(2)[n] /\ boot.origins[n] = Layers[2].origin
      BY <2>2, <2>3, <2>4, <2>5, <2>6, <2>9 DEF Over
    <3>2. \A j \in 1..3 : j > 2 => j = 3
      OBVIOUS
    <3>3. QED BY <2>1, <2>5, <2>9, <3>1, <3>2 DEF reads
  <2>10. CASE ~has(3) /\ ~has(2) /\ has(1)
    <3>1. boot.reg.recipes[n] = reads(1)[n] /\ boot.origins[n] = Layers[1].origin
      BY <2>2, <2>3, <2>4, <2>5, <2>6, <2>10 DEF Over
    <3>2. \A j \in 1..3 : j > 1 => j = 2 \/ j = 3
      OBVIOUS
    <3>3. QED BY <2>1, <2>5, <2>10, <3>1, <3>2 DEF reads
  <2>11. QED BY <2>7, <2>8, <2>9, <2>10
<1>4. QED BY <1>1, <1>2, <1>3, BootInvHolds, PTL DEF Spec
=============================================================================
