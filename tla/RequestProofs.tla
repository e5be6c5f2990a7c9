--------------------------- MODULE RequestProofs ---------------------------
(***************************************************************************)
(* Proofs about Request: what prepare_request() writes is read again by    *)
(* the constructor, for texts of any length over any characters.           *)
(*                                                                         *)
(* Texts are sequences, so most of it is induction over their length. The  *)
(* library's induction theorems take operators, which no prover at hand    *)
(* instantiates; Climb and SeqClimb say the same of sets and follow from   *)
(* the well-foundedness of the numbers. On them rest what FlattenSeq, the  *)
(* tokens, splitting and joining are, which the lemmas on paths, queries,  *)
(* request lines, numbers and header lines use.                            *)
(*                                                                         *)
(* The invariant IInv says that the members are maps of texts, that a path *)
(* that came without a query is formatted, that the keys of the header can *)
(* be read again, and that what was written is what would be written now;  *)
(* the properties of Request follow from it.                               *)
(***************************************************************************)
EXTENDS Request, FiniteSetTheorems, SequenceTheorems, WellFoundedInduction, TLAPS

-----------------------------------------------------------------------------
(* Induction over numbers and over sequences, for sets of them.            *)

\* A set of numbers that is not empty has a least one.
LEMMA Least ==
  ASSUME NEW T \in SUBSET Nat, T # {}
  PROVE  \E m \in T : \A n \in T : m <= n
<1>1. PICK m \in T : \A n \in T : <<n, m>> \notin OpToRel(<, Nat)
  BY NatLessThanWellFounded, WFMin
<1>2. \A n \in T : ~(n < m)
  BY <1>1 DEF OpToRel
<1>3. \A n \in T : n \in Nat /\ m \in Nat
  OBVIOUS
<1> QED BY <1>2, <1>3

\* It is the one that Min chooses.
LEMMA MinIs ==
  ASSUME NEW T \in SUBSET Nat, T # {}
  PROVE  Min(T) \in T /\ \A n \in T : Min(T) <= n
<1>1. \E m \in T : \A n \in T : m <= n
  BY Least
<1> QED
  BY Zenon, <1>1 DEF Min

\* A set with 0, and with k + 1 for every k below N in it, has all up to N.
LEMMA Climb ==
  ASSUME NEW N \in Nat, NEW S, 0 \in S,
         \A k \in 0 .. N - 1 : k \in S => k + 1 \in S
  PROVE  \A k \in 0 .. N : k \in S
<1> DEFINE T == (0 .. N) \ S
<1> SUFFICES ASSUME T # {} PROVE FALSE
  OBVIOUS
<1>1. T \in SUBSET Nat
  OBVIOUS
<1>2. PICK m \in T : \A n \in T : m <= n
  BY <1>1, Least
<1>3. m # 0 /\ m - 1 \in 0 .. N - 1 /\ (m - 1) + 1 = m /\ m - 1 < m
  BY <1>2
<1>4. m - 1 \in S
  BY <1>2, <1>3
<1> QED
  BY <1>2, <1>3, <1>4

\* A set with the empty sequence, and with every extension by one element of a
\* sequence in it, has all sequences.
LEMMA SeqClimb ==
  ASSUME NEW C, NEW G, <<>> \in G,
         \A s \in Seq(C), c \in C : s \in G => Append(s, c) \in G
  PROVE  \A s \in Seq(C) : s \in G
<1> TAKE s \in Seq(C)
<1> DEFINE S == {k \in 0 .. Len(s) : SubSeq(s, 1, k) \in G}
<1>0. Len(s) \in Nat
  OBVIOUS
<1>1. 0 \in S
  <2>1. SubSeq(s, 1, 0) = <<>>
    OBVIOUS
  <2>2. SubSeq(s, 1, 0) \in G
    BY Zenon, <2>1
  <2>3. 0 \in 0 .. Len(s)
    BY <1>0
  <2> QED BY Zenon, <2>2, <2>3
<1>2. ASSUME NEW k \in 0 .. Len(s) - 1, k \in S PROVE k + 1 \in S
  <2>1. SubSeq(s, 1, k) \in Seq(C) /\ s[k + 1] \in C
    BY <1>0
  <2>2. SubSeq(s, 1, k + 1) = Append(SubSeq(s, 1, k), s[k + 1])
    BY <1>0
  <2>3. SubSeq(s, 1, k + 1) \in G
    BY <1>2, <2>1, <2>2
  <2> QED BY <1>0, <2>3
<1> HIDE DEF S
<1>3. \A k \in 0 .. Len(s) : k \in S
  BY <1>0, <1>1, <1>2, Climb
<1>4. Len(s) \in S
  BY <1>0, <1>3
<1>5. SubSeq(s, 1, Len(s)) = s
  OBVIOUS
<1> QED BY <1>4, <1>5 DEF S

\* f begins with base and goes on by steps.
Follows(f, base, n, step) ==
  f[0] = base /\ \A k \in 1 .. n : f[k] = step[<<f[k - 1], k>>]

\* A recursion over 0 .. n that stays in a set defines a function.
LEMMA Recursion ==
  ASSUME NEW A, NEW base \in A, NEW n \in Nat, NEW step \in [A \X (1 .. n) -> A]
  PROVE  \E f \in [0 .. n -> A] : Follows(f, base, n, step)
<1> USE DEF Follows
<1> DEFINE P(m) == \E f \in [0 .. m -> A] :
                     f[0] = base /\ \A k \in 1 .. m : f[k] = step[<<f[k - 1], k>>]
           S == {m \in 0 .. n : P(m)}
<1>1. 0 \in S
  <2> DEFINE f == [k \in 0 .. 0 |-> base]
  <2>1. f \in [0 .. 0 -> A] /\ f[0] = base
    OBVIOUS
  <2>2. \A k \in 1 .. 0 : f[k] = step[<<f[k - 1], k>>]
    OBVIOUS
  <2> HIDE DEF f
  <2>3. P(0)
    BY <2>1, <2>2
  <2> HIDE DEF P
  <2>4. 0 \in 0 .. n
    OBVIOUS
  <2> QED BY Zenon, <2>3, <2>4
<1>2. ASSUME NEW m \in 0 .. n - 1, m \in S PROVE m + 1 \in S
  <2>1. PICK f \in [0 .. m -> A] :
          f[0] = base /\ \A k \in 1 .. m : f[k] = step[<<f[k - 1], k>>]
    BY <1>2
  <2> DEFINE v == step[<<f[m], m + 1>>]
             g == [k \in 0 .. m + 1 |-> IF k = m + 1 THEN v ELSE f[k]]
  <2>2. m \in Nat /\ m + 1 \in 1 .. n /\ f[m] \in A
    BY <2>1
  <2>3. v \in A
    BY <2>2
  <2>4. g \in [0 .. m + 1 -> A]
    BY <2>1, <2>3
  <2>5. (\A k \in 0 .. m : g[k] = f[k]) /\ g[m + 1] = v
    BY <2>2
  <2> HIDE DEF g
  <2>6. g[0] = base
    BY <2>1, <2>2, <2>5
  <2>7. ASSUME NEW k \in 1 .. m + 1 PROVE g[k] = step[<<g[k - 1], k>>]
    <3>1. CASE k = m + 1
      <4>1. g[k - 1] = f[m]
        BY <2>2, <2>5, <3>1
      <4> QED BY <2>5, <3>1, <4>1
    <3>2. CASE k # m + 1
      <4>1. k \in 1 .. m /\ k - 1 \in 0 .. m
        BY <2>2, <3>2
      <4> QED BY <2>1, <2>5, <4>1
    <3> QED BY <3>1, <3>2
  <2>8. P(m + 1)
    BY <2>4, <2>6, <2>7
  <2> QED BY <2>2, <2>8
<1> HIDE DEF S
<1>3. \A m \in 0 .. n : m \in S
  BY <1>1, <1>2, Climb
<1>4. n \in S
  BY <1>3
<1> QED BY <1>4 DEF S

\* A function on 1 .. n is a sequence.
LEMMA IsSeq ==
  ASSUME NEW S, NEW n \in Nat, NEW f \in [1 .. n -> S]
  PROVE  f \in Seq(S) /\ Len(f) = n
<1>1. f \in Seq(S)
  BY SeqDef
<1>2. Len(f) \in Nat /\ DOMAIN f = 1 .. Len(f)
  BY <1>1, LenProperties
<1>3. DOMAIN f = 1 .. n
  OBVIOUS
<1>4. Len(f) = n
  BY <1>2, <1>3
<1> QED BY <1>1, <1>4

\* Append, as a function.
LEMMA AppendIs ==
  ASSUME NEW D, NEW s \in Seq(D), NEW e \in D
  PROVE  Append(s, e) = [k \in 1 .. Len(s) + 1 |-> IF k = Len(s) + 1 THEN e ELSE s[k]]
<1> DEFINE t == Append(s, e)
           n == Len(s) + 1
<1>1. t \in Seq(D) /\ Len(t) = n /\ n \in Nat
      /\ \A k \in 1 .. n : t[k] = IF k = n THEN e ELSE s[k]
  OBVIOUS
<1> HIDE DEF t, n
<1>2. t = [k \in 1 .. n |-> t[k]]
  BY <1>1, LenProperties
<1>3. t = [k \in 1 .. n |-> IF k = n THEN e ELSE s[k]]
  BY <1>1, <1>2
<1> QED BY Zenon, <1>3 DEF t, n

-----------------------------------------------------------------------------
(* FlattenSeq.                                                             *)

\* Two functions that agree at 0, and at k if they do at k - 1, agree.
AgreeByStep(f, g, n) ==
  f[0] = g[0] /\ \A k \in 1 .. n : f[k - 1] = g[k - 1] => f[k] = g[k]

\* Two functions that agree in every step agree.
LEMMA SameByStep ==
  ASSUME NEW n \in Nat, NEW f, NEW g, AgreeByStep(f, g, n)
  PROVE  \A k \in 0 .. n : f[k] = g[k]
<1> USE DEF AgreeByStep
<1> DEFINE S == {k \in 0 .. n : f[k] = g[k]}
<1>1. 0 \in S
  OBVIOUS
<1>2. ASSUME NEW k \in 0 .. n - 1, k \in S PROVE k + 1 \in S
  <2>1. k + 1 \in 1 .. n /\ (k + 1) - 1 = k
    OBVIOUS
  <2> QED BY <1>2, <2>1
<1>3. \A k \in 0 .. n : k \in S
  BY <1>1, <1>2, Climb
<1> QED BY <1>3

\* The concatenations of the first elements, as the recursion demands them.
IsFlat(f, ss) ==
  f = [i \in 1 .. Len(ss) |-> IF i = 1 THEN ss[i] ELSE f[i - 1] \o ss[i]]

\* The concatenation of any sequences exists, step by step.
LEMMA FlatExists ==
  ASSUME NEW C, NEW ss \in Seq(Seq(C))
  PROVE  \E f : IsFlat(f, ss)
<1> DEFINE n == Len(ss)
           A == Seq(C)
           base == <<>>
           step == [p \in A \X (1 .. n) |-> p[1] \o ss[p[2]]]
<1>1. n \in Nat /\ \A k \in 1 .. n : ss[k] \in Seq(C)
  OBVIOUS
<1>2. step \in [A \X (1 .. n) -> A]
  BY <1>1
<1>3. base \in A
  OBVIOUS
<1>4. \A a \in A, k \in 1 .. n : step[<<a, k>>] = a \o ss[k]
  OBVIOUS
<1>5. \E g \in [0 .. n -> A] : Follows(g, base, n, step)
  <2>1. n \in Nat
    BY <1>1
  <2> HIDE DEF step, n, A, base
  <2> QED BY Zenon, <2>1, <1>2, <1>3, Recursion
<1>6. PICK g \in [0 .. n -> A] :
        g[0] = base /\ \A k \in 1 .. n : g[k] = step[<<g[k - 1], k>>]
  BY <1>5 DEF Follows
<1> HIDE DEF step
<1>7. ASSUME NEW k \in 1 .. n
      PROVE  g[k - 1] \in A /\ g[k] = g[k - 1] \o ss[k]
  <2>0. k - 1 \in 0 .. n
    BY <1>1
  <2> HIDE DEF n, A
  <2>1. g[k - 1] \in A
    BY <2>0, <1>6
  <2> QED BY <1>4, <1>6, <2>1
<1> DEFINE f == [i \in 1 .. n |-> g[i]]
<1>8. ASSUME NEW i \in 1 .. n
      PROVE  f[i] = IF i = 1 THEN ss[i] ELSE f[i - 1] \o ss[i]
  <2>1. CASE i = 1
    <3>1. 1 - 1 = 0 /\ 1 \in 1 .. n
      BY <2>1
    <3>2. g[1] = base \o ss[1]
      BY Zenon, <1>6, <1>7, <3>1
    <3>3. base \o ss[1] = ss[1]
      BY <1>1, <3>1
    <3> QED BY <2>1, <3>2, <3>3
  <2>2. CASE i # 1
    <3>1. i - 1 \in 1 .. n
      BY <1>1, <2>2
    <3> QED BY <1>7, <2>2, <3>1
  <2> QED BY <2>1, <2>2
<1>9. IsFlat(f, ss)
  BY <1>8 DEF IsFlat
<1> QED BY <1>9

\* FlattenSeq is the last of them.
LEMMA FlatIs ==
  ASSUME NEW C, NEW ss \in Seq(Seq(C)), Len(ss) # 0
  PROVE  \E f : IsFlat(f, ss) /\ FlattenSeq(ss) = f[Len(ss)]
<1>1. \E f : IsFlat(f, ss)
  BY FlatExists
<1> QED BY Zenon, <1>1 DEF IsFlat, FlattenSeq

\* Of nothing, nothing is concatenated.
LEMMA FlattenEmpty == FlattenSeq(<<>>) = <<>>
<1>1. Len(<<>>) = 0
  OBVIOUS
<1> QED BY Zenon, <1>1 DEF FlattenSeq

\* One more sequence is concatenated at the end.
LEMMA FlattenAppend ==
  ASSUME NEW C, NEW ss \in Seq(Seq(C)), NEW t \in Seq(C)
  PROVE  FlattenSeq(Append(ss, t)) = FlattenSeq(ss) \o t
<1> DEFINE tt == Append(ss, t)
           n == Len(ss)
<1>1. /\ tt \in Seq(Seq(C)) /\ Len(tt) = n + 1 /\ n \in Nat /\ tt[n + 1] = t
      /\ \A k \in 1 .. n : tt[k] = ss[k]
  OBVIOUS
<1>2. PICK f : IsFlat(f, tt) /\ FlattenSeq(tt) = f[n + 1]
  <2> HIDE DEF tt, n
  <2>1. Len(tt) # 0
    BY <1>1
  <2> QED BY <1>1, <2>1, FlatIs
<1>3. \A i \in 1 .. n + 1 : f[i] = IF i = 1 THEN tt[i] ELSE f[i - 1] \o tt[i]
  BY <1>1, <1>2 DEF IsFlat
<1> HIDE DEF tt
<1>4. CASE n = 0
  <2>1. ss = <<>>
    BY <1>4
  <2>2. f[1] = t
    BY <1>1, <1>3, <1>4
  <2>3. <<>> \o t = t
    OBVIOUS
  <2>4. FlattenSeq(ss) = <<>>
    BY Zenon, <2>1, FlattenEmpty
  <2>5. FlattenSeq(tt) = t
    BY <1>2, <1>4, <2>2
  <2> QED BY <2>3, <2>4, <2>5 DEF tt
<1>5. CASE n # 0
  <2>1. PICK g : IsFlat(g, ss) /\ FlattenSeq(ss) = g[n]
    BY <1>5, FlatIs
  <2>2. \A i \in 1 .. n : g[i] = IF i = 1 THEN ss[i] ELSE g[i - 1] \o ss[i]
    BY <2>1 DEF IsFlat
  <2> DEFINE ff == [k \in 0 .. n - 1 |-> f[k + 1]]
             gg == [k \in 0 .. n - 1 |-> g[k + 1]]
  <2>3. ff[0] = gg[0]
    BY <1>1, <1>3, <1>5, <2>2
  <2>4. ASSUME NEW k \in 1 .. n - 1, ff[k - 1] = gg[k - 1] PROVE ff[k] = gg[k]
    <3>1. k - 1 \in 0 .. n - 1 /\ k \in 0 .. n - 1 /\ k + 1 \in 2 .. n
          /\ (k - 1) + 1 = k /\ (k + 1) - 1 = k
      BY <1>1, <2>4
    <3>2. f[k] = g[k]
      BY <2>4, <3>1
    <3>3. f[k + 1] = f[k] \o tt[k + 1] /\ g[k + 1] = g[k] \o ss[k + 1]
          /\ tt[k + 1] = ss[k + 1]
      <4>1. k + 1 \in 1 .. n /\ k + 1 \in 1 .. n + 1 /\ k + 1 # 1
        BY <1>1, <3>1
      <4> QED BY Zenon, <1>1, <1>3, <2>2, <3>1, <4>1
    <3> QED BY Zenon, <3>1, <3>2, <3>3
  <2> HIDE DEF ff, gg
  <2>5. n - 1 \in Nat
    BY <1>1, <1>5
  <2>6. \A k \in 0 .. n - 1 : ff[k] = gg[k]
    <3>1. AgreeByStep(ff, gg, n - 1)
      BY Zenon, <2>3, <2>4 DEF AgreeByStep
    <3> QED BY Zenon, <2>5, <3>1, SameByStep
  <2>7. f[n] = g[n]
    <3>1. n - 1 \in 0 .. n - 1 /\ (n - 1) + 1 = n
      BY <1>1, <1>5
    <3> QED BY <2>6, <3>1 DEF ff, gg
  <2>8. f[n + 1] = f[n] \o t
    <3>1. n + 1 \in 1 .. n + 1 /\ n + 1 # 1 /\ (n + 1) - 1 = n
      BY <1>1, <1>5
    <3> QED BY Zenon, <1>1, <1>3, <3>1
  <2> QED BY Zenon, <1>2, <2>1, <2>7, <2>8 DEF tt
<1> QED BY <1>4, <1>5

\* What is concatenated has the elements of its parts.
LEMMA FlattenType ==
  ASSUME NEW C
  PROVE  \A ss \in Seq(Seq(C)) : FlattenSeq(ss) \in Seq(C)
<1> DEFINE D == Seq(C)
           G == {ss \in Seq(D) : FlattenSeq(ss) \in D}
<1>1. <<>> \in G
  <2>1. <<>> \in Seq(D) /\ <<>> \in D
    OBVIOUS
  <2> QED BY Zenon, <2>1, FlattenEmpty
<1>2. ASSUME NEW ss \in Seq(D), NEW t \in D, ss \in G PROVE Append(ss, t) \in G
  <2>1. FlattenSeq(Append(ss, t)) = FlattenSeq(ss) \o t
    BY Zenon, FlattenAppend
  <2>2. FlattenSeq(ss) \in D
    BY <1>2
  <2>3. FlattenSeq(ss) \o t \in D /\ Append(ss, t) \in Seq(D)
    BY <2>2
  <2> QED BY <2>1, <2>3
<1> HIDE DEF G
<1>3. \A ss \in Seq(D) : ss \in G
  BY Zenon, <1>1, <1>2, SeqClimb
<1> QED BY <1>3 DEF G

-----------------------------------------------------------------------------
(* NotEmpty.                                                               *)

\* A part by itself, if it is one.
One(p) == IF p = <<>> THEN <<>> ELSE <<p>>

\* A part is a sequence of at most one part, which is not empty.
LEMMA OneType ==
  ASSUME NEW D, NEW p \in D
  PROVE  One(p) \in Seq(D) /\ One(p) \in Seq(D \ {<<>>})
<1>1. CASE p = <<>>
  <2>1. One(p) = <<>>
    BY Zenon, <1>1 DEF One
  <2> QED BY <2>1
<1>2. CASE p # <<>>
  <2>1. One(p) = <<p>>
    BY Zenon, <1>2 DEF One
  <2> DEFINE E == D \ {<<>>}
  <2>2. p \in E
    BY Zenon, <1>2
  <2> HIDE DEF E
  <2>3. <<p>> \in Seq(D) /\ <<p>> \in Seq(E)
    BY <2>2
  <2> QED BY <2>1, <2>3 DEF E
<1> QED BY <1>1, <1>2

\* NotEmpty concatenates what is left of each part.
LEMMA NotEmptyIs ==
  ASSUME NEW parts
  PROVE  NotEmpty(parts) = FlattenSeq([k \in DOMAIN parts |-> One(parts[k])])
BY Zenon DEF NotEmpty, One

\* Of no parts, none is left.
LEMMA NotEmptyEmpty == NotEmpty(<<>>) = <<>>
<1>1. [k \in DOMAIN <<>> |-> One(<<>>[k])] = <<>>
  OBVIOUS
<1> QED BY Zenon, <1>1, NotEmptyIs, FlattenEmpty

\* One more part is left at the end, or left out.
LEMMA NotEmptyAppend ==
  ASSUME NEW D, NEW ps \in Seq(D), NEW p \in D
  PROVE  NotEmpty(Append(ps, p)) = NotEmpty(ps) \o One(p)
<1> DEFINE ones == [k \in DOMAIN ps |-> One(ps[k])]
           more == [k \in DOMAIN Append(ps, p) |-> One(Append(ps, p)[k])]
<1>1. \A q \in D : One(q) \in Seq(D)
  BY OneType
<1>2. ones \in Seq(Seq(D)) /\ One(p) \in Seq(D)
  <2>1. \A k \in DOMAIN ps : One(ps[k]) \in Seq(D)
    BY <1>1
  <2>2. DOMAIN ps = 1 .. Len(ps) /\ Len(ps) \in Nat
    OBVIOUS
  <2>3. ones \in [1 .. Len(ps) -> Seq(D)]
    BY <2>1, <2>2
  <2>4. ones \in Seq(Seq(D))
    BY Zenon, <2>2, <2>3, IsSeq
  <2> QED BY <1>1, <2>4
<1>3. more = Append(ones, One(p))
  OBVIOUS
<1> HIDE DEF ones, more
<1>4. FlattenSeq(more) = FlattenSeq(ones) \o One(p)
  BY Zenon, <1>2, <1>3, FlattenAppend
<1> QED BY Zenon, <1>4, NotEmptyIs DEF ones, more

\* The parts that are left are not empty.
LEMMA NotEmptyType ==
  ASSUME NEW D
  PROVE  \A ps \in Seq(D) : NotEmpty(ps) \in Seq(D \ {<<>>})
<1> DEFINE G == {ps \in Seq(D) : NotEmpty(ps) \in Seq(D \ {<<>>})}
<1>1. <<>> \in G
  <2>1. <<>> \in Seq(D) /\ <<>> \in Seq(D \ {<<>>})
    OBVIOUS
  <2> QED BY Zenon, <2>1, NotEmptyEmpty
<1>2. ASSUME NEW ps \in Seq(D), NEW p \in D, ps \in G PROVE Append(ps, p) \in G
  <2>1. NotEmpty(Append(ps, p)) = NotEmpty(ps) \o One(p)
    BY Zenon, NotEmptyAppend
  <2>2. One(p) \in Seq(D \ {<<>>})
    BY Zenon, OneType
  <2>3. NotEmpty(ps) \in Seq(D \ {<<>>})
    BY <1>2
  <2>4. NotEmpty(ps) \o One(p) \in Seq(D \ {<<>>}) /\ Append(ps, p) \in Seq(D)
    BY <2>2, <2>3
  <2> QED BY <2>1, <2>4
<1> HIDE DEF G
<1>3. \A ps \in Seq(D) : ps \in G
  BY Zenon, <1>1, <1>2, SeqClimb
<1> QED BY <1>3 DEF G

\* NotEmpty leaves the parts of both sequences.
LEMMA NotEmptyConcat ==
  ASSUME NEW D, NEW ps \in Seq(D)
  PROVE  \A qs \in Seq(D) : NotEmpty(ps \o qs) = NotEmpty(ps) \o NotEmpty(qs)
<1> DEFINE G == {qs \in Seq(D) : NotEmpty(ps \o qs) = NotEmpty(ps) \o NotEmpty(qs)}
<1>0. NotEmpty(ps) \in Seq(D \ {<<>>})
  BY Zenon, NotEmptyType
<1>1. <<>> \in G
  <2>1. ps \o <<>> = ps /\ <<>> \in Seq(D)
    OBVIOUS
  <2>2. NotEmpty(ps) \o <<>> = NotEmpty(ps)
    BY <1>0
  <2> QED BY Zenon, <2>1, <2>2, NotEmptyEmpty
<1>2. ASSUME NEW qs \in Seq(D), NEW q \in D, qs \in G PROVE Append(qs, q) \in G
  <2>1. ps \o Append(qs, q) = Append(ps \o qs, q) /\ ps \o qs \in Seq(D)
        /\ Append(qs, q) \in Seq(D)
    OBVIOUS
  <2>2. NotEmpty(Append(ps \o qs, q)) = NotEmpty(ps \o qs) \o One(q)
    BY Zenon, <2>1, NotEmptyAppend
  <2>3. NotEmpty(Append(qs, q)) = NotEmpty(qs) \o One(q)
    BY Zenon, NotEmptyAppend
  <2>4. NotEmpty(qs) \in Seq(D \ {<<>>}) /\ One(q) \in Seq(D)
    BY NotEmptyType DEF One
  <2>5. (NotEmpty(ps) \o NotEmpty(qs)) \o One(q)
          = NotEmpty(ps) \o (NotEmpty(qs) \o One(q))
    BY <1>0, <2>4
  <2>6. NotEmpty(ps \o qs) = NotEmpty(ps) \o NotEmpty(qs)
    BY <1>2
  <2> QED BY Zenon, <2>1, <2>2, <2>3, <2>5, <2>6
<1> HIDE DEF G
<1>3. \A qs \in Seq(D) : qs \in G
  BY Zenon, <1>1, <1>2, SeqClimb
<1> QED BY <1>3 DEF G

\* Of parts that are none of them empty all are left.
LEMMA NotEmptySame ==
  ASSUME NEW D
  PROVE  \A ps \in Seq(D \ {<<>>}) : NotEmpty(ps) = ps
<1> DEFINE E == D \ {<<>>}
           G == {ps \in Seq(E) : NotEmpty(ps) = ps}
<1>1. <<>> \in G
  <2>1. <<>> \in Seq(E)
    OBVIOUS
  <2> QED BY Zenon, <2>1, NotEmptyEmpty
<1>2. ASSUME NEW ps \in Seq(E), NEW p \in E, ps \in G PROVE Append(ps, p) \in G
  <2>1. NotEmpty(Append(ps, p)) = NotEmpty(ps) \o One(p)
    BY Zenon, NotEmptyAppend
  <2>2. One(p) = <<p>>
    BY DEF One
  <2>3. NotEmpty(ps) = ps
    BY <1>2
  <2>4. ps \o <<p>> = Append(ps, p) /\ Append(ps, p) \in Seq(E)
    OBVIOUS
  <2> QED BY <2>1, <2>2, <2>3, <2>4
<1> HIDE DEF G
<1>3. \A ps \in Seq(E) : ps \in G
  <2> HIDE DEF E
  <2> QED BY Zenon, <1>1, <1>2, SeqClimb
<1> QED BY <1>3 DEF G

-----------------------------------------------------------------------------
(* Tokens.                                                                 *)

\* Lists of tokens without a delimiter, of which there is always one.
Lists(C, d) == Seq(Seq(C \ {d})) \ {<<>>}

\* One more character makes tokens of tokens.
LEMMA ExtendType ==
  ASSUME NEW C, NEW d, NEW ts \in Lists(C, d), NEW c \in C
  PROVE  Extend(ts, c, d) \in Lists(C, d)
<1> DEFINE D == Seq(C \ {d})
<1>1. ts \in Seq(D) /\ ts # <<>>
  BY DEF Lists
<1>2. CASE c = d
  <2>1. Extend(ts, c, d) = Append(ts, <<>>)
    BY Zenon, <1>2 DEF Extend
  <2>2. <<>> \in D
    OBVIOUS
  <2> HIDE DEF D
  <2>3. Append(ts, <<>>) \in Seq(D) /\ Append(ts, <<>>) # <<>>
    BY <1>1, <2>2
  <2> QED BY <2>1, <2>3 DEF Lists, D
<1>3. CASE c # d
  <2> DEFINE n == Len(ts)
             last == Append(ts[n], c)
  <2>1. n \in 1 .. Len(ts)
    BY <1>1
  <2>2. Extend(ts, c, d) = [ts EXCEPT ![n] = last]
    BY Zenon, <1>3 DEF Extend
  <2>3. c \in C \ {d}
    BY <1>3
  <2>4. ts[n] \in D
    BY <1>1, <2>1
  <2>5. last \in D
    BY <2>3, <2>4
  <2> HIDE DEF D, n, last
  <2>6. /\ [ts EXCEPT ![n] = last] \in Seq(D)
        /\ Len([ts EXCEPT ![n] = last]) = Len(ts)
    BY <1>1, <2>1, <2>5, ExceptSeq
  <2>7. [ts EXCEPT ![n] = last] # <<>>
    BY <1>1, <2>6
  <2> QED BY <2>2, <2>6, <2>7 DEF Lists, D
<1> QED BY <1>2, <1>3

\* The tokens of the first characters, one after the other.
IsReading(f, s, d) ==
  f = [k \in 0 .. Len(s) |->
         IF k = 0 THEN << <<>> >> ELSE Extend(f[k - 1], s[k], d)]

\* The tokens read so far exist, and no delimiter is in one.
LEMMA ReadingExists ==
  ASSUME NEW C, NEW d, NEW s \in Seq(C)
  PROVE  /\ IsReading(Reading(s, d), s, d)
         /\ \A k \in 0 .. Len(s) : Reading(s, d)[k] \in Lists(C, d)
<1> DEFINE n == Len(s)
           A == Lists(C, d)
           base == << <<>> >>
           step == [p \in A \X (1 .. n) |-> Extend(p[1], s[p[2]], d)]
<1>1. n \in Nat /\ \A k \in 1 .. n : s[k] \in C
  OBVIOUS
<1>2. \A ts \in A, c \in C : Extend(ts, c, d) \in A
  BY Zenon, ExtendType
<1>3. base \in A
  <2> DEFINE E == Seq(C \ {d})
             e == <<>>
  <2>1. e \in E
    OBVIOUS
  <2> HIDE DEF E, e
  <2>2. <<e>> \in Seq(E) /\ <<e>> # <<>>
    BY <2>1
  <2> QED BY <2>2 DEF Lists, E, e
<1> HIDE DEF A, base, n
<1>4. step \in [A \X (1 .. n) -> A]
  BY <1>1, <1>2
<1>5. \A a \in A, k \in 1 .. n : step[<<a, k>>] = Extend(a, s[k], d)
  OBVIOUS
<1> HIDE DEF step
<1>6. \E g \in [0 .. n -> A] : Follows(g, base, n, step)
  BY Zenon, <1>1, <1>3, <1>4, Recursion
<1>7. PICK g : /\ g \in [0 .. n -> A]
               /\ g[0] = base
               /\ \A k \in 1 .. n : g[k] = step[<<g[k - 1], k>>]
  BY Zenon, <1>6 DEF Follows
<1>8. ASSUME NEW k \in 0 .. n
      PROVE  g[k] = IF k = 0 THEN base ELSE Extend(g[k - 1], s[k], d)
  <2>1. CASE k = 0
    BY <1>7, <2>1
  <2>2. CASE k # 0
    <3>1. k \in 1 .. n /\ k - 1 \in 0 .. n
      BY <1>1, <2>2
    <3>2. g[k - 1] \in A
      BY <1>7, <3>1
    <3>3. g[k] = Extend(g[k - 1], s[k], d)
      BY Zenon, <1>5, <1>7, <3>1, <3>2
    <3> QED BY Zenon, <2>2, <3>3
  <2> QED BY <2>1, <2>2
<1>9. g = [k \in 0 .. n |-> IF k = 0 THEN base ELSE Extend(g[k - 1], s[k], d)]
  BY <1>7, <1>8
<1>10. \E f : IsReading(f, s, d)
  BY Zenon, <1>9 DEF IsReading, n, base
<1>11. IsReading(Reading(s, d), s, d)
  BY Zenon, <1>10 DEF IsReading, Reading
<1> DEFINE f == Reading(s, d)
<1>12. \A k \in 0 .. n : f[k] = IF k = 0 THEN base ELSE Extend(f[k - 1], s[k], d)
  <2> HIDE DEF f
  <2>1. f = [k \in 0 .. n |-> IF k = 0 THEN base ELSE Extend(f[k - 1], s[k], d)]
    BY Zenon, <1>11 DEF IsReading, n, base, f
  <2> QED BY <2>1
<1> HIDE DEF f
<1>13. f[0] = g[0]
  <2>1. 0 \in 0 .. n
    BY <1>1
  <2> QED BY Zenon, <1>8, <1>12, <2>1
<1>14. ASSUME NEW k \in 1 .. n, f[k - 1] = g[k - 1] PROVE f[k] = g[k]
  <2>1. k \in 0 .. n /\ k # 0
    OBVIOUS
  <2> QED BY Zenon, <1>8, <1>12, <1>14, <2>1
<1>15. \A k \in 0 .. n : f[k] = g[k]
  <2>1. n \in Nat
    BY <1>1
  <2>2. AgreeByStep(f, g, n)
    BY Zenon, <1>13, <1>14 DEF AgreeByStep
  <2> QED BY Zenon, <2>1, <2>2, SameByStep
<1> QED BY <1>7, <1>11, <1>15 DEF A, n, f

\* Reading goes on by one character.
LEMMA ReadingStep ==
  ASSUME NEW C, NEW d, NEW s \in Seq(C)
  PROVE  /\ Reading(s, d)[0] = << <<>> >>
         /\ \A k \in 1 .. Len(s) :
              Reading(s, d)[k] = Extend(Reading(s, d)[k - 1], s[k], d)
<1> DEFINE f == Reading(s, d)
           base == << <<>> >>
<1>1. IsReading(f, s, d)
  BY ReadingExists
<1> HIDE DEF f, base
<1>2. f = [k \in 0 .. Len(s) |-> IF k = 0 THEN base ELSE Extend(f[k - 1], s[k], d)]
  BY Zenon, <1>1 DEF IsReading, base
<1>3. Len(s) \in Nat
  OBVIOUS
<1>4. \A k \in 0 .. Len(s) : f[k] = IF k = 0 THEN base ELSE Extend(f[k - 1], s[k], d)
  BY <1>2
<1>5. 0 \in 0 .. Len(s) /\ \A k \in 1 .. Len(s) : k \in 0 .. Len(s) /\ k # 0
  BY <1>3
<1>6. f[0] = base
  BY Zenon, <1>4, <1>5
<1>7. \A k \in 1 .. Len(s) : f[k] = Extend(f[k - 1], s[k], d)
  BY Zenon, <1>4, <1>5
<1> QED BY Zenon, <1>6, <1>7 DEF f, base

\* There is a token, and no delimiter is in one.
LEMMA TokensType ==
  ASSUME NEW C, NEW d, NEW s \in Seq(C)
  PROVE  Tokens(s, d) \in Lists(C, d)
<1>1. Len(s) \in 0 .. Len(s)
  OBVIOUS
<1> QED BY Zenon, <1>1, ReadingExists DEF Tokens

\* An empty text is one empty token.
LEMMA TokensEmpty ==
  ASSUME NEW d
  PROVE  Tokens(<<>>, d) = << <<>> >>
<1>1. <<>> \in Seq({}) /\ Len(<<>>) = 0
  OBVIOUS
<1> QED BY Zenon, <1>1, ReadingStep DEF Tokens

\* The tokens of a longer text.
LEMMA TokensAppend ==
  ASSUME NEW C, NEW d, NEW s \in Seq(C), NEW c \in C
  PROVE  Tokens(Append(s, c), d) = Extend(Tokens(s, d), c, d)
<1> DEFINE t == Append(s, c)
           n == Len(s)
           f == Reading(s, d)
           g == Reading(t, d)
<1>1. /\ t \in Seq(C) /\ Len(t) = n + 1 /\ n \in Nat /\ t[n + 1] = c
      /\ \A k \in 1 .. n : t[k] = s[k]
  OBVIOUS
<1>2. f[0] = << <<>> >> /\ \A k \in 1 .. n : f[k] = Extend(f[k - 1], s[k], d)
  BY Zenon, ReadingStep
<1>3. g[0] = << <<>> >> /\ \A k \in 1 .. n + 1 : g[k] = Extend(g[k - 1], t[k], d)
  <2> HIDE DEF t, n
  <2> QED BY Zenon, <1>1, ReadingStep
<1> HIDE DEF f, g, t
<1>4. f[0] = g[0]
  BY Zenon, <1>2, <1>3
<1>5. ASSUME NEW k \in 1 .. n, f[k - 1] = g[k - 1] PROVE f[k] = g[k]
  <2>1. k \in 1 .. n + 1
    BY <1>1
  <2> QED BY Zenon, <1>1, <1>2, <1>3, <1>5, <2>1
<1>6. \A k \in 0 .. n : f[k] = g[k]
  <2> HIDE DEF n
  <2>1. n \in Nat
    BY <1>1
  <2>2. AgreeByStep(f, g, n)
    BY Zenon, <1>4, <1>5 DEF AgreeByStep
  <2> QED BY Zenon, <2>1, <2>2, SameByStep
<1>7. f[n] = g[n]
  <2>1. n \in 0 .. n
    BY <1>1
  <2> QED BY <1>6, <2>1
<1>8. g[n + 1] = Extend(g[n], c, d)
  <2>1. n + 1 \in 1 .. n + 1 /\ (n + 1) - 1 = n
    BY <1>1
  <2> QED BY Zenon, <1>1, <1>3, <2>1
<1>9. Tokens(s, d) = f[n] /\ Tokens(t, d) = g[n + 1]
  <2>1. Tokens(t, d) = g[Len(t)]
    BY Zenon DEF Tokens, g
  <2> QED BY Zenon, <1>1, <2>1 DEF Tokens, f
<1> QED BY Zenon, <1>7, <1>8, <1>9 DEF t

\* Only the last of the tokens grows.
LEMMA ExtendConcat ==
  ASSUME NEW C, NEW d, NEW us \in Lists(C, d), NEW ts \in Lists(C, d), NEW c \in C
  PROVE  Extend(us \o ts, c, d) = us \o Extend(ts, c, d)
<1> DEFINE D == Seq(C \ {d})
           both == us \o ts
           n == Len(ts)
           m == Len(us)
<1>1. us \in Seq(D) /\ ts \in Seq(D) /\ ts # <<>>
  BY DEF Lists
<1>2. CASE c = d
  <2>1. Extend(ts, c, d) = Append(ts, <<>>) /\ Extend(both, c, d) = Append(both, <<>>)
    BY Zenon, <1>2 DEF Extend
  <2> DEFINE e == <<>>
  <2>2. e \in D
    OBVIOUS
  <2> HIDE DEF D, e
  <2>3. Append(us \o ts, e) = us \o Append(ts, e)
    BY <1>1, <2>2
  <2> QED BY Zenon, <2>1, <2>3 DEF e
<1>3. CASE c # d
  <2> DEFINE t == Append(ts[n], c)
             l == [ts EXCEPT ![n] = t]
             r == [both EXCEPT ![m + n] = t]
  <2> HIDE DEF D
  <2>1. n \in 1 .. n /\ m \in Nat /\ n \in Nat /\ both \in Seq(D) /\ Len(both) = m + n
        /\ both[m + n] = ts[n] /\ m + n \in 1 .. m + n
    BY <1>1
  <2>2. Extend(ts, c, d) = l
    BY Zenon, <1>3 DEF Extend
  <2>3. Extend(both, c, d) = r
    BY Zenon, <1>3, <2>1 DEF Extend
  <2>4. t \in D
    <3>1. c \in C \ {d}
      BY <1>3
    <3>2. ts[n] \in D
      BY <1>1, <2>1
    <3> QED BY <3>1, <3>2 DEF D
  <2> HIDE DEF t
  <2>5. /\ l \in Seq(D) /\ Len(l) = n
        /\ \A j \in 1 .. n : l[j] = IF j = n THEN t ELSE ts[j]
    BY <1>1, <2>1, <2>4, ExceptSeq
  <2>6. r \in Seq(D) /\ Len(r) = m + n
        /\ \A j \in 1 .. m + n : r[j] = IF j = m + n THEN t ELSE both[j]
    <3> DEFINE p == m + n
    <3>1. p \in 1 .. Len(both) /\ both \in Seq(D) /\ Len(both) = p
      BY <2>1
    <3> HIDE DEF p, both
    <3>2. r \in Seq(D) /\ Len(r) = p
          /\ \A j \in 1 .. p : r[j] = IF j = p THEN t ELSE both[j]
      BY <3>1, <2>4, ExceptSeq DEF p
    <3> QED BY <3>2 DEF p
  <2> HIDE DEF l, r
  <2>7. us \o l \in Seq(D) /\ Len(us \o l) = m + n
    BY <1>1, <2>5
  <2>8. ASSUME NEW j \in 1 .. m + n PROVE r[j] = (us \o l)[j]
    <3>1. CASE j <= m
      <4>1. (us \o l)[j] = us[j] /\ both[j] = us[j] /\ j # m + n
        BY <1>1, <2>1, <2>5, <3>1
      <4> QED BY <2>6, <4>1
    <3>2. CASE ~(j <= m)
      <4>1. j - m \in 1 .. n /\ (j = m + n <=> j - m = n)
        BY <2>1, <3>2
      <4>2. (us \o l)[j] = l[j - m] /\ both[j] = ts[j - m]
        BY <1>1, <2>1, <2>5, <3>2
      <4> HIDE DEF both, n, m
      <4> QED BY Zenon, <2>5, <2>6, <4>1, <4>2
    <3> QED BY <3>1, <3>2
  <2>9. r = us \o l
    <3> HIDE DEF both, n, m
    <3> QED BY <2>6, <2>7, <2>8, SeqEqual
  <2> QED BY Zenon, <2>2, <2>3, <2>9
<1> QED BY <1>2, <1>3

\* What a delimiter parts is read by itself.
LEMMA TokensConcat ==
  ASSUME NEW C, NEW d \in C, NEW a \in Seq(C)
  PROVE  \A b \in Seq(C) :
           Tokens(a \o <<d>> \o b, d) = Tokens(a, d) \o Tokens(b, d)
<1> DEFINE ad == a \o <<d>>
           G == {b \in Seq(C) : Tokens(ad \o b, d) = Tokens(a, d) \o Tokens(b, d)}
<1>0. ad = Append(a, d) /\ ad \in Seq(C)
  OBVIOUS
<1>1. <<>> \in G
  <2>1. ad \o <<>> = ad /\ <<>> \in Seq(C)
    BY <1>0
  <2>2. Tokens(ad, d) = Extend(Tokens(a, d), d, d)
    BY Zenon, <1>0, TokensAppend
  <2>3. Extend(Tokens(a, d), d, d) = Append(Tokens(a, d), <<>>)
    BY Zenon DEF Extend
  <2>4. Append(Tokens(a, d), <<>>) = Tokens(a, d) \o << <<>> >>
    <3> DEFINE e == <<>>
    <3>1. e \in Seq(C \ {d})
      OBVIOUS
    <3>2. Tokens(a, d) \in Seq(Seq(C \ {d}))
      BY Zenon, TokensType DEF Lists
    <3> HIDE DEF e
    <3>3. Append(Tokens(a, d), e) = Tokens(a, d) \o << e >>
      BY <3>1, <3>2
    <3> QED BY Zenon, <3>3 DEF e
  <2> QED BY Zenon, <2>1, <2>2, <2>3, <2>4, TokensEmpty
<1>2. ASSUME NEW b \in Seq(C), NEW c \in C, b \in G PROVE Append(b, c) \in G
  <2>1. ad \o Append(b, c) = Append(ad \o b, c) /\ ad \o b \in Seq(C)
        /\ Append(b, c) \in Seq(C)
    BY <1>0
  <2>2. Tokens(Append(ad \o b, c), d) = Extend(Tokens(ad \o b, d), c, d)
    BY Zenon, <2>1, TokensAppend
  <2>3. Tokens(Append(b, c), d) = Extend(Tokens(b, d), c, d)
    BY Zenon, TokensAppend
  <2>4. Tokens(ad \o b, d) = Tokens(a, d) \o Tokens(b, d)
    BY <1>2
  <2>5. Extend(Tokens(a, d) \o Tokens(b, d), c, d)
          = Tokens(a, d) \o Extend(Tokens(b, d), c, d)
    <3> DEFINE ta == Tokens(a, d)
               tb == Tokens(b, d)
    <3>1. ta \in Lists(C, d) /\ tb \in Lists(C, d)
      BY Zenon, TokensType
    <3> HIDE DEF ta, tb
    <3>2. Extend(ta \o tb, c, d) = ta \o Extend(tb, c, d)
      BY <3>1, ExtendConcat
    <3> QED BY <3>2 DEF ta, tb
  <2> QED BY Zenon, <2>1, <2>2, <2>3, <2>4, <2>5
<1> HIDE DEF G
<1>3. \A b \in Seq(C) : b \in G
  BY Zenon, <1>1, <1>2, SeqClimb
<1> QED BY <1>3 DEF G

\* Without a delimiter there is one token.
LEMMA TokensFree ==
  ASSUME NEW C, NEW d
  PROVE  \A s \in Seq(C \ {d}) : Tokens(s, d) = <<s>>
<1> DEFINE E == C \ {d}
           G == {s \in Seq(E) : Tokens(s, d) = <<s>>}
<1>1. <<>> \in G
  <2>1. <<>> \in Seq(E)
    OBVIOUS
  <2> QED BY Zenon, <2>1, TokensEmpty
<1>2. ASSUME NEW s \in Seq(E), NEW c \in E, s \in G PROVE Append(s, c) \in G
  <2>1. Tokens(Append(s, c), d) = Extend(Tokens(s, d), c, d)
    <3> HIDE DEF E
    <3> QED BY Zenon, TokensAppend
  <2>2. Tokens(s, d) = <<s>>
    BY <1>2
  <2>3. c # d
    OBVIOUS
  <2>4. Extend(<<s>>, c, d)
          = [<<s>> EXCEPT ![Len(<<s>>)] = Append(<<s>>[Len(<<s>>)], c)]
    BY Zenon, <2>3 DEF Extend
  <2>5. [<<s>> EXCEPT ![Len(<<s>>)] = Append(<<s>>[Len(<<s>>)], c)] = <<Append(s, c)>>
    OBVIOUS
  <2>6. Append(s, c) \in Seq(E)
    OBVIOUS
  <2> QED BY Zenon, <2>1, <2>2, <2>4, <2>5, <2>6
<1> HIDE DEF G
<1>3. \A s \in Seq(E) : s \in G
  <2> HIDE DEF E
  <2> QED BY Zenon, <1>1, <1>2, SeqClimb
<1> QED BY <1>3 DEF G

-----------------------------------------------------------------------------
(* Split and Join.                                                         *)

\* Parts: not empty and without a delimiter.
Parts(C, d) == Seq(C \ {d}) \ {<<>>}

\* split_string() leaves no empty part, and no delimiter in one.
LEMMA SplitType ==
  ASSUME NEW C, NEW d, NEW s \in Seq(C)
  PROVE  Split(s, d) \in Seq(Parts(C, d))
<1>1. Tokens(s, d) \in Seq(Seq(C \ {d}))
  BY Zenon, TokensType DEF Lists
<1> QED BY Zenon, <1>1, NotEmptyType DEF Split, Parts

\* An empty text has no part.
LEMMA SplitEmpty ==
  ASSUME NEW d
  PROVE  Split(<<>>, d) = <<>>
<1> DEFINE e == <<>>
<1>1. e \in {e} /\ e \in Seq({e})
  OBVIOUS
<1>2. <<e>> = Append(<<>>, e)
  OBVIOUS
<1>3. NotEmpty(<<e>>) = NotEmpty(<<>>) \o One(e)
  BY Zenon, <1>1, <1>2, NotEmptyAppend
<1>4. One(e) = <<>> /\ NotEmpty(<<>>) = <<>>
  BY Zenon, NotEmptyEmpty DEF One
<1>5. <<>> \o <<>> = <<>>
  OBVIOUS
<1> QED BY Zenon, <1>3, <1>4, <1>5, TokensEmpty DEF Split

\* A delimiter separates the parts before it from those behind it.
LEMMA SplitConcat ==
  ASSUME NEW C, NEW d \in C, NEW a \in Seq(C), NEW b \in Seq(C)
  PROVE  Split(a \o <<d>> \o b, d) = Split(a, d) \o Split(b, d)
<1>1. Tokens(a \o <<d>> \o b, d) = Tokens(a, d) \o Tokens(b, d)
  BY Zenon, TokensConcat
<1>2. Tokens(a, d) \in Seq(Seq(C \ {d})) /\ Tokens(b, d) \in Seq(Seq(C \ {d}))
  BY Zenon, TokensType DEF Lists
<1> QED BY Zenon, <1>1, <1>2, NotEmptyConcat DEF Split

\* A text without a delimiter is one part, if it is not empty.
LEMMA SplitFree ==
  ASSUME NEW C, NEW d, NEW s \in Seq(C \ {d})
  PROVE  Split(s, d) = One(s)
<1>1. Tokens(s, d) = <<s>>
  BY Zenon, TokensFree
<1> DEFINE D == Seq(C \ {d})
<1> HIDE DEF D
<1>2. <<s>> = Append(<<>>, s) /\ <<>> \in Seq(D)
  OBVIOUS
<1>3. NotEmpty(<<s>>) = NotEmpty(<<>>) \o One(s)
  BY Zenon, <1>2, NotEmptyAppend DEF D
<1>4. One(s) \in Seq(D)
  BY Zenon, OneType DEF D
<1>5. <<>> \o One(s) = One(s)
  BY <1>4
<1> QED BY Zenon, <1>1, <1>3, <1>5, NotEmptyEmpty DEF Split

\* Nothing is made of no parts.
LEMMA JoinEmpty ==
  ASSUME NEW d
  PROVE  Join(<<>>, d) = <<>>
<1> DEFINE ps == <<>>
           r == [k \in DOMAIN ps |-> IF k = 1 THEN ps[k] ELSE <<d>> \o ps[k]]
<1>1. r = <<>>
  OBVIOUS
<1> QED BY Zenon, <1>1, FlattenEmpty DEF Join

\* The next part is joined behind a delimiter, the first one is not.
LEMMA JoinAppend ==
  ASSUME NEW C, NEW d \in C, NEW ps \in Seq(Seq(C)), NEW p \in Seq(C)
  PROVE  Join(Append(ps, p), d)
           = Join(ps, d) \o (IF ps = <<>> THEN p ELSE <<d>> \o p)
<1> DEFINE D == Seq(C)
           n == Len(ps)
           qs == Append(ps, p)
           e == IF ps = <<>> THEN p ELSE <<d>> \o p
           old == [k \in DOMAIN ps |-> IF k = 1 THEN ps[k] ELSE <<d>> \o ps[k]]
           new == [k \in DOMAIN qs |-> IF k = 1 THEN qs[k] ELSE <<d>> \o qs[k]]
<1>0. \A q \in D : <<d>> \o q \in D
  OBVIOUS
<1>1. n \in Nat /\ DOMAIN ps = 1 .. n /\ \A k \in 1 .. n : ps[k] \in D
  OBVIOUS
<1>2. old \in Seq(D) /\ Len(old) = n
  <2>1. old \in [1 .. n -> D]
    <3> HIDE DEF n, D
    <3> QED BY <1>0, <1>1
  <2> HIDE DEF old, n, D
  <2> QED BY <1>1, <2>1, IsSeq
<1>3. DOMAIN qs = 1 .. n + 1 /\ qs[n + 1] = p /\ \A k \in 1 .. n : qs[k] = ps[k]
  OBVIOUS
<1>4. e \in D /\ e = IF n + 1 = 1 THEN p ELSE <<d>> \o p
  BY <1>0, <1>1
<1>5. new = Append(old, e)
  <2> HIDE DEF e, qs, D
  <2>1. Append(old, e) = [k \in 1 .. n + 1 |-> IF k = n + 1 THEN e ELSE old[k]]
    <3>1. e \in D
      BY <1>4
    <3> HIDE DEF old, n, e, D
    <3> QED BY <1>2, <3>1, AppendIs
  <2>2. \A k \in 1 .. n + 1 : new[k] = IF k = n + 1 THEN e ELSE old[k]
    <3> TAKE k \in 1 .. n + 1
    <3>1. CASE k = n + 1
      BY <1>3, <1>4, <3>1
    <3>2. CASE k # n + 1
      <4>1. k \in 1 .. n
        BY <1>1, <3>2
      <4> HIDE DEF n
      <4> QED BY <1>1, <1>3, <3>2, <4>1
    <3> QED BY <3>1, <3>2
  <2>3. new = [k \in 1 .. n + 1 |-> IF k = n + 1 THEN e ELSE old[k]]
    <3>1. new = [k \in 1 .. n + 1 |-> new[k]]
      BY <1>3
    <3> HIDE DEF new, old
    <3> QED BY <2>2, <3>1
  <2> QED BY Zenon, <2>1, <2>3
<1>6. FlattenSeq(Append(old, e)) = FlattenSeq(old) \o e
  <2> HIDE DEF old, e
  <2> QED BY Zenon, <1>2, <1>4, FlattenAppend DEF D
<1> QED BY Zenon, <1>5, <1>6 DEF Join

\* Joined parts are a text.
LEMMA JoinType ==
  ASSUME NEW C, NEW d \in C
  PROVE  \A ps \in Seq(Seq(C)) : Join(ps, d) \in Seq(C)
<1> DEFINE D == Seq(C)
           G == {ps \in Seq(D) : Join(ps, d) \in D}
<1>1. <<>> \in G
  <2>1. <<>> \in Seq(D) /\ <<>> \in D
    OBVIOUS
  <2> QED BY Zenon, <2>1, JoinEmpty
<1>2. ASSUME NEW ps \in Seq(D), NEW p \in D, ps \in G PROVE Append(ps, p) \in G
  <2> DEFINE e == IF ps = <<>> THEN p ELSE <<d>> \o p
  <2>1. Join(Append(ps, p), d) = Join(ps, d) \o e
    BY Zenon, JoinAppend
  <2>2. e \in D
    OBVIOUS
  <2>3. Join(ps, d) \in D
    BY <1>2
  <2> HIDE DEF e
  <2>4. Join(ps, d) \o e \in D /\ Append(ps, p) \in Seq(D)
    BY <2>2, <2>3
  <2> QED BY <2>1, <2>4
<1> HIDE DEF G
<1>3. \A ps \in Seq(D) : ps \in G
  BY Zenon, <1>1, <1>2, SeqClimb
<1> QED BY <1>3 DEF G

\* What is joined is read again.
LEMMA SplitJoin ==
  ASSUME NEW C, NEW d \in C
  PROVE  \A ps \in Seq(Parts(C, d)) : Split(Join(ps, d), d) = ps
<1> DEFINE P == Parts(C, d)
           G == {ps \in Seq(P) : Split(Join(ps, d), d) = ps}
<1>0. \A q \in P : q \in Seq(C) /\ q \in Seq(C \ {d}) /\ q # <<>>
  BY DEF Parts
<1>1. <<>> \in G
  <2>1. <<>> \in Seq(P)
    OBVIOUS
  <2> QED BY Zenon, <2>1, JoinEmpty, SplitEmpty
<1>2. ASSUME NEW ps \in Seq(P), NEW p \in P, ps \in G PROVE Append(ps, p) \in G
  <2> HIDE DEF P
  <2>0. ps \in Seq(Seq(C)) /\ p \in Seq(C)
    BY <1>0, SeqMonotonic
  <2>1. Join(Append(ps, p), d)
          = Join(ps, d) \o (IF ps = <<>> THEN p ELSE <<d>> \o p)
    BY Zenon, <2>0, JoinAppend
  <2>2. Split(p, d) = <<p>>
    BY Zenon, <1>0, SplitFree DEF One
  <2>3. Split(Join(ps, d), d) = ps
    BY <1>2
  <2>4. Append(ps, p) \in Seq(P) /\ ps \o <<p>> = Append(ps, p)
    OBVIOUS
  <2>5. Split(Join(Append(ps, p), d), d) = Append(ps, p)
    <3>1. CASE ps = <<>>
      <4>1. Join(Append(ps, p), d) = <<>> \o p
        BY Zenon, <2>1, <3>1, JoinEmpty
      <4>2. <<>> \o p = p /\ Append(ps, p) = <<p>>
        BY <2>0, <3>1
      <4> QED BY Zenon, <2>2, <4>1, <4>2
    <3>2. CASE ps # <<>>
      <4> DEFINE j == Join(ps, d)
      <4>1. j \in Seq(C)
        BY Zenon, <2>0, JoinType
      <4>2. Join(Append(ps, p), d) = j \o (<<d>> \o p)
        BY Zenon, <2>1, <3>2
      <4>3. Split(j \o <<d>> \o p, d) = Split(j, d) \o Split(p, d)
        BY Zenon, <2>0, <4>1, SplitConcat
      <4> HIDE DEF j
      <4>4. j \o (<<d>> \o p) = j \o <<d>> \o p
        BY <2>0, <4>1
      <4> QED BY Zenon, <2>2, <2>3, <2>4, <4>2, <4>3, <4>4 DEF j
    <3> QED BY Zenon, <3>1, <3>2
  <2> QED BY <2>4, <2>5
<1> HIDE DEF G
<1>3. \A ps \in Seq(P) : ps \in G
  <2> HIDE DEF P
  <2> QED BY Zenon, <1>1, <1>2, SeqClimb
<1> QED BY <1>3 DEF G

\* No delimiter at the ends, and no two of them in succession.
Clean(s, d) ==
  /\ s # <<>> => s[1] # d /\ s[Len(s)] # d
  /\ \A k \in 1 .. Len(s) - 1 : ~(s[k] = d /\ s[k + 1] = d)

\* Joined parts have no delimiter too many.
LEMMA JoinClean ==
  ASSUME NEW C, NEW d \in C
  PROVE  \A ps \in Seq(Parts(C, d)) : Clean(Join(ps, d), d)
<1> DEFINE P == Parts(C, d)
           G == {ps \in Seq(P) : /\ Clean(Join(ps, d), d)
                                 /\ ps # <<>> => Join(ps, d) # <<>>}
<1>0. \A q \in P : /\ q \in Seq(C) /\ Len(q) \in Nat \ {0}
                   /\ \A k \in 1 .. Len(q) : q[k] # d
  BY DEF Parts
<1>1. <<>> \in G
  <2>1. <<>> \in Seq(P) /\ Clean(<<>>, d)
    BY DEF Clean
  <2> QED BY Zenon, <2>1, JoinEmpty
<1>2. ASSUME NEW ps \in Seq(P), NEW p \in P, ps \in G PROVE Append(ps, p) \in G
  <2> DEFINE j == Join(ps, d)
             l == Join(Append(ps, p), d)
  <2> HIDE DEF P
  <2>0. ps \in Seq(Seq(C)) /\ p \in Seq(C)
    BY <1>0, SeqMonotonic
  <2>1. l = j \o (IF ps = <<>> THEN p ELSE <<d>> \o p)
    BY Zenon, <2>0, JoinAppend
  <2>2. j \in Seq(C)
    BY Zenon, <2>0, JoinType
  <2>3. Clean(j, d) /\ (ps # <<>> => j # <<>>)
    BY <1>2
  <2>4. Append(ps, p) \in Seq(P)
    OBVIOUS
  <2>5. Clean(p, d) /\ p # <<>>
    BY <1>0 DEF Clean
  <2>6. Clean(l, d) /\ l # <<>>
    <3>1. CASE ps = <<>>
      <4>1. j = <<>>
        BY Zenon, <3>1, JoinEmpty
      <4>2. l = j \o p
        BY Zenon, <2>1, <3>1
      <4> HIDE DEF j, l
      <4>3. l = p
        BY <2>0, <4>1, <4>2
      <4> QED BY Zenon, <2>5, <4>3
    <3>2. CASE ps # <<>>
      <4>1. l = j \o (<<d>> \o p)
        BY Zenon, <2>1, <3>2
      <4> HIDE DEF j, l
      <4> DEFINE m == Len(j)
                 n == Len(p)
      <4>2. m \in Nat \ {0} /\ n \in Nat \ {0}
        BY <1>0, <2>2, <2>3, <3>2
      <4>3. Len(l) = m + 1 + n
        BY <2>0, <2>2, <4>1
      <4>4. \A k \in 1 .. m : l[k] = j[k]
        BY <2>0, <2>2, <4>1
      <4>5. \A k \in m + 2 .. m + 1 + n : l[k] = p[k - (m + 1)]
        BY <2>0, <2>2, <4>1
      <4>6. l[1] # d /\ j[m] # d /\ \A k \in 1 .. m - 1 : ~(j[k] = d /\ j[k + 1] = d)
        BY <2>3, <3>2, <4>2, <4>4 DEF Clean
      <4> HIDE DEF m, n
      <4>7. \A k \in m + 2 .. m + 1 + n : l[k] # d
        <5> TAKE k \in m + 2 .. m + 1 + n
        <5>1. k - (m + 1) \in 1 .. n
          BY <4>2
        <5> QED BY <1>0, <4>5, <5>1 DEF n
      <4>8. ASSUME NEW k \in 1 .. Len(l) - 1 PROVE ~(l[k] = d /\ l[k + 1] = d)
        <5>1. CASE k < m
          <6>1. k \in 1 .. m - 1 /\ k \in 1 .. m /\ k + 1 \in 1 .. m
            BY <4>2, <5>1
          <6> QED BY <4>4, <4>6, <6>1
        <5>2. CASE k = m
          <6>1. k \in 1 .. m
            BY <4>2, <5>2
          <6> QED BY <4>4, <4>6, <5>2, <6>1
        <5>3. CASE k > m
          <6>1. k + 1 \in m + 2 .. m + 1 + n
            BY <4>2, <4>3, <5>3
          <6> QED BY <4>7, <6>1
        <5> QED BY <4>2, <5>1, <5>2, <5>3
      <4>9. Len(l) \in m + 2 .. m + 1 + n
        BY <4>2, <4>3
      <4>10. l[Len(l)] # d
        BY <4>7, <4>9
      <4>11. l # <<>>
        BY <4>2, <4>3
      <4> QED BY <4>6, <4>8, <4>10, <4>11 DEF Clean
    <3> QED BY <3>1, <3>2
  <2> QED BY <2>4, <2>6
<1> HIDE DEF G
<1>3. \A ps \in Seq(P) : ps \in G
  <2> HIDE DEF P
  <2> QED BY Zenon, <1>1, <1>2, SeqClimb
<1> QED BY <1>3 DEF G

\* Parts are texts, and NotEmpty leaves them all.
LEMMA PartsIn ==
  ASSUME NEW C, NEW d
  PROVE  \A ps \in Seq(Parts(C, d)) :
           ps \in Seq(Seq(C)) /\ ps \in Seq(Seq(C \ {d})) /\ NotEmpty(ps) = ps
<1> TAKE ps \in Seq(Parts(C, d))
<1>1. ps \in Seq(Seq(C \ {d}))
  BY SeqMonotonic DEF Parts
<1>2. Parts(C, d) \subseteq Seq(C)
  BY DEF Parts
<1>3. ps \in Seq(Seq(C))
  BY <1>2, SeqMonotonic
<1>4. NotEmpty(ps) = ps
  BY Zenon, NotEmptySame DEF Parts
<1> QED BY <1>1, <1>3, <1>4

\* A path is formatted so that its parts are the same.
LEMMA FormatKeeps ==
  ASSUME NEW C, Slash \in C, NEW s \in Seq(C)
  PROVE  /\ FormatPath(s) \in Seq(C)
         /\ Split(FormatPath(s), Slash) = Split(s, Slash)
         /\ Clean(FormatPath(s), Slash)
<1>1. Split(s, Slash) \in Seq(Parts(C, Slash))
  BY Zenon, SplitType
<1>2. FormatPath(s) \in Seq(C)
  BY Zenon, <1>1, PartsIn, JoinType DEF FormatPath
<1>3. Split(FormatPath(s), Slash) = Split(s, Slash)
  BY Zenon, <1>1, SplitJoin DEF FormatPath
<1>4. Clean(FormatPath(s), Slash)
  BY Zenon, <1>1, JoinClean DEF FormatPath
<1> QED BY <1>2, <1>3, <1>4

\* A delimiter after each of some texts.
Ended(vs, d) == FlattenSeq([k \in DOMAIN vs |-> vs[k] \o <<d>>])

\* One more text and its end.
LEMMA EndedAppend ==
  ASSUME NEW C, NEW d \in C, NEW vs \in Seq(Seq(C)), NEW v \in Seq(C)
  PROVE  /\ Ended(vs, d) \in Seq(C)
         /\ Ended(Append(vs, v), d) = Ended(vs, d) \o (v \o <<d>>)
<1> DEFINE D == Seq(C)
           n == Len(vs)
           ws == Append(vs, v)
           old == [k \in DOMAIN vs |-> vs[k] \o <<d>>]
           new == [k \in DOMAIN ws |-> ws[k] \o <<d>>]
           e == v \o <<d>>
<1>0. (\A q \in D : q \o <<d>> \in D) /\ e \in D
  OBVIOUS
<1>1. n \in Nat /\ DOMAIN vs = 1 .. n /\ \A k \in 1 .. n : vs[k] \in D
  OBVIOUS
<1>2. old \in Seq(D) /\ Len(old) = n
  <2>1. old \in [1 .. n -> D]
    <3> HIDE DEF n, D, e
    <3> QED BY <1>0, <1>1
  <2> HIDE DEF old, n, D, e
  <2> QED BY <1>1, <2>1, IsSeq
<1>3. DOMAIN ws = 1 .. n + 1 /\ ws[n + 1] = v /\ \A k \in 1 .. n : ws[k] = vs[k]
  OBVIOUS
<1>4. new = Append(old, e)
  <2>1. Append(old, e) = [k \in 1 .. n + 1 |-> IF k = n + 1 THEN e ELSE old[k]]
    <3>1. e \in D
      BY <1>0
    <3> HIDE DEF old, n, e, D
    <3> QED BY <1>2, <3>1, AppendIs
  <2> HIDE DEF ws, D
  <2>2. \A k \in 1 .. n + 1 : new[k] = IF k = n + 1 THEN e ELSE old[k]
    <3> TAKE k \in 1 .. n + 1
    <3>1. CASE k = n + 1
      BY <1>3, <3>1
    <3>2. CASE k # n + 1
      <4>1. k \in 1 .. n
        BY <1>1, <3>2
      <4> HIDE DEF n
      <4> QED BY <1>1, <1>3, <3>2, <4>1
    <3> QED BY <3>1, <3>2
  <2>3. new = [k \in 1 .. n + 1 |-> IF k = n + 1 THEN e ELSE old[k]]
    <3>1. new = [k \in 1 .. n + 1 |-> new[k]]
      BY <1>3
    <3> HIDE DEF new, old, e
    <3> QED BY <2>2, <3>1
  <2> QED BY Zenon, <2>1, <2>3
<1>5. FlattenSeq(Append(old, e)) = FlattenSeq(old) \o e
  <2> HIDE DEF old, e
  <2> QED BY Zenon, <1>2, <1>0, FlattenAppend DEF D
<1>6. FlattenSeq(old) \in Seq(C)
  BY Zenon, <1>2, FlattenType
<1> QED BY Zenon, <1>4, <1>5, <1>6 DEF Ended

\* No text has no end.
LEMMA EndedEmpty ==
  ASSUME NEW d
  PROVE  Ended(<<>>, d) = <<>>
<1> DEFINE vs == <<>>
           r == [k \in DOMAIN vs |-> vs[k] \o <<d>>]
<1>1. r = <<>>
  OBVIOUS
<1> QED BY Zenon, <1>1, FlattenEmpty DEF Ended

\* They are read again, but for the empty ones.
LEMMA SplitEnded ==
  ASSUME NEW C, NEW d \in C
  PROVE  \A vs \in Seq(Seq(C \ {d})) : \A p \in Seq(C \ {d}) :
           Split(Ended(vs, d) \o p, d) = NotEmpty(vs) \o One(p)
<1> DEFINE E == Seq(C \ {d})
           G == {vs \in Seq(E) : \A p \in E :
                   Split(Ended(vs, d) \o p, d) = NotEmpty(vs) \o One(p)}
<1>0. \A q \in E : /\ q \in Seq(C) /\ Split(q, d) = One(q)
                   /\ One(q) \in Seq(E) /\ One(q) \in Seq(Seq(C))
  <2> TAKE q \in E
  <2>1. q \in Seq(C)
    OBVIOUS
  <2> QED BY Zenon, <2>1, SplitFree, OneType
<1>1. <<>> \in G
  <2>1. <<>> \in Seq(E)
    OBVIOUS
  <2>2. ASSUME NEW p \in E
        PROVE  Split(Ended(<<>>, d) \o p, d) = NotEmpty(<<>>) \o One(p)
    <3>1. <<>> \o p = p
      BY <1>0
    <3>2. <<>> \o One(p) = One(p)
      BY <1>0
    <3> QED BY Zenon, <1>0, <3>1, <3>2, EndedEmpty, NotEmptyEmpty
  <2> QED BY Zenon, <2>1, <2>2
<1>2. ASSUME NEW vs \in Seq(E), NEW v \in E, vs \in G PROVE Append(vs, v) \in G
  <2>0. vs \in Seq(Seq(C))
    BY <1>0, SeqMonotonic
  <2>1. \A p \in E : Split(Ended(vs, d) \o p, d) = NotEmpty(vs) \o One(p)
    BY <1>2
  <2>2. Append(vs, v) \in Seq(E)
    OBVIOUS
  <2> DEFINE a == Ended(vs, d)
             b == Ended(Append(vs, v), d)
  <2>3. a \in Seq(C) /\ b = a \o (v \o <<d>>)
    BY Zenon, <1>0, <2>0, EndedAppend
  <2>4. NotEmpty(Append(vs, v)) = NotEmpty(vs) \o One(v)
    BY Zenon, NotEmptyAppend
  <2>5. ASSUME NEW p \in E PROVE Split(b \o p, d) = NotEmpty(Append(vs, v)) \o One(p)
    <3>1. v \in Seq(C) /\ p \in Seq(C)
      BY <1>0
    <3>2. b \o p = (a \o v) \o <<d>> \o p /\ a \o v \in Seq(C)
      <4> HIDE DEF a, b
      <4> QED BY <2>3, <3>1
    <3>3. Split((a \o v) \o <<d>> \o p, d) = Split(a \o v, d) \o Split(p, d)
      BY Zenon, <3>1, <3>2, SplitConcat
    <3> QED BY Zenon, <1>0, <2>1, <2>4, <3>2, <3>3
  <2> HIDE DEF b
  <2>6. \A p \in E : Split(b \o p, d) = NotEmpty(Append(vs, v)) \o One(p)
    BY <2>5
  <2> HIDE DEF E
  <2> QED BY Zenon, <2>2, <2>6 DEF b
<1> HIDE DEF G
<1>3. \A vs \in Seq(E) : vs \in G
  <2> HIDE DEF E
  <2> QED BY Zenon, <1>1, <1>2, SeqClimb
<1> QED BY <1>3 DEF G

-----------------------------------------------------------------------------
(* WritePath.                                                              *)

\* The values are texts of some characters.
Filled(ps, C) == \A x \in DOMAIN ps : ps[x] \in Seq(C)

\* What is written of a part is such a text.
LEMMA ValueType ==
  ASSUME NEW C, NEW ps, Filled(ps, C), NEW part \in Seq(C)
  PROVE  ValueOf(part, ps) \in Seq(C)
<1>1. <<>> \in Seq(C)
  OBVIOUS
<1>2. CASE part[1] \notin Holes
  BY <1>2 DEF ValueOf
<1>3. CASE part[1] \in Holes /\ Len(part) = 1 /\ part[1] \in DOMAIN ps
  BY Zenon, <1>3 DEF ValueOf, Filled
<1>4. CASE part[1] \in Holes /\ ~(Len(part) = 1 /\ part[1] \in DOMAIN ps)
  BY Zenon, <1>1, <1>4 DEF ValueOf
<1> QED BY Zenon, <1>2, <1>3, <1>4

\* The values in the places of the parameters.
Put(parts, ps) == [k \in DOMAIN parts |-> ValueOf(parts[k], ps)]

\* Every part is written as a text without a separator.
LEMMA PutType ==
  ASSUME NEW C, NEW ps, Filled(ps, C \ {Slash}), NEW parts \in Seq(Parts(C, Slash))
  PROVE  Put(parts, ps) \in Seq(Seq(C \ {Slash})) /\ Len(Put(parts, ps)) = Len(parts)
<1> DEFINE n == Len(parts)
           E == Seq(C \ {Slash})
<1>1. /\ n \in Nat /\ DOMAIN parts = 1 .. n
      /\ \A k \in 1 .. n : parts[k] \in Parts(C, Slash)
  BY LenProperties
<1>2. \A k \in 1 .. n : ValueOf(parts[k], ps) \in E
  <2> TAKE k \in 1 .. n
  <2>1. parts[k] \in Seq(C \ {Slash})
    BY Zenon, <1>1 DEF Parts
  <2> QED BY Zenon, <2>1, ValueType
<1> HIDE DEF n, E
<1>3. Put(parts, ps) \in [1 .. n -> E]
  BY <1>1, <1>2 DEF Put
<1> QED BY Zenon, <1>1, <1>3, IsSeq DEF n, E

\* The text for part k, with the separator.
WithSeparator(parts, ps) ==
  [k \in DOMAIN parts |->
    ValueOf(parts[k], ps)
      \o (IF parts[k] # Last(parts) THEN <<Slash>> ELSE <<>>)]

\* The parts with their separators are texts.
LEMMA SeparatorType ==
  ASSUME NEW C, Slash \in C, NEW ps, Filled(ps, C), NEW parts \in Seq(Parts(C, Slash))
  PROVE  WithSeparator(parts, ps) \in Seq(Seq(C))
<1> DEFINE n == Len(parts)
           D == Seq(C)
<1>1. /\ n \in Nat /\ DOMAIN parts = 1 .. n
      /\ \A k \in 1 .. n : parts[k] \in Parts(C, Slash)
  BY LenProperties
<1>2. \A q \in Parts(C, Slash) : q \in Seq(C)
  BY SeqMonotonic DEF Parts
<1>3. \A k \in 1 .. n : ValueOf(parts[k], ps) \in D
  BY Zenon, <1>1, <1>2, ValueType
<1> DEFINE sep(k) == IF parts[k] # Last(parts) THEN <<Slash>> ELSE <<>>
<1>4. \A k \in 1 .. n : sep(k) \in D
  OBVIOUS
<1>5. \A a \in D, b \in D : a \o b \in D
  OBVIOUS
<1> HIDE DEF n, D, sep
<1>6. [k \in 1 .. n |-> ValueOf(parts[k], ps) \o sep(k)] \in [1 .. n -> D]
  BY <1>3, <1>4, <1>5
<1>7. WithSeparator(parts, ps) \in [1 .. n -> D]
  BY Zenon, <1>1, <1>6 DEF WithSeparator, sep
<1> QED BY Zenon, <1>1, <1>7, IsSeq DEF D

\* The written parts are a text.
LEMMA WritePartsType ==
  ASSUME NEW C, Slash \in C, NEW ps, Filled(ps, C), NEW parts \in Seq(Parts(C, Slash))
  PROVE  WriteParts(parts, ps) \in Seq(C)
BY Zenon, SeparatorType, FlattenType DEF WriteParts, WithSeparator

\* Only the last part has no separator, if no other equals it.
LEMMA WritePartsRead ==
  ASSUME NEW C, Slash \in C, NEW ps, Filled(ps, C \ {Slash}),
         NEW parts \in Seq(Parts(C, Slash)), LastIsUnique(parts)
  PROVE  Split(WriteParts(parts, ps), Slash) = NotEmpty(Put(parts, ps))
<1> DEFINE n == Len(parts)
           E == Seq(C \ {Slash})
<1>1. n \in Nat /\ DOMAIN parts = 1 .. n /\ Last(parts) = parts[n]
  BY LenProperties DEF Last
<1>2. WriteParts(parts, ps) = FlattenSeq(WithSeparator(parts, ps))
  BY Zenon DEF WriteParts, WithSeparator
<1>3. CASE n = 0
  <2>1. parts = <<>>
    BY <1>3
  <2> DEFINE qs == <<>>
  <2>2. WithSeparator(qs, ps) = <<>> /\ Put(qs, ps) = <<>>
    BY DEF WithSeparator, Put
  <2> QED BY Zenon, <1>2, <2>1, <2>2, FlattenEmpty, SplitEmpty, NotEmptyEmpty
<1>4. CASE n # 0
  <2> DEFINE vs == Put(parts, ps)
             front == [k \in 1 .. n - 1 |-> vs[k]]
             ended == [k \in DOMAIN front |-> front[k] \o <<Slash>>]
  <2>1. vs \in Seq(E) /\ Len(vs) = n
    BY Zenon, PutType
  <2>2. \A k \in 1 .. n : vs[k] = ValueOf(parts[k], ps) /\ vs[k] \in E
    BY <1>1, <2>1 DEF Put
  <2> HIDE DEF vs
  <2>0. n \in Nat
    BY <1>1
  <2> HIDE DEF n, E
  <2>3. n - 1 \in Nat /\ n \in 1 .. n /\ \A k \in 1 .. n - 1 : k \in 1 .. n /\ k # n
    BY <1>4, <2>0
  <2>4. front \in [1 .. n - 1 -> E] /\ \A k \in 1 .. n - 1 : front[k] = vs[k]
    BY <2>2, <2>3
  <2>5. front \in Seq(E) /\ Len(front) = n - 1
    BY Zenon, <2>3, <2>4, IsSeq
  <2>6. vs = Append(front, vs[n])
    <3>1. Append(front, vs[n])
            = [k \in 1 .. n |-> IF k = n THEN vs[n] ELSE front[k]]
      <4>1. Len(front) + 1 = n /\ vs[n] \in E
        BY <1>1, <2>2, <2>3, <2>5
      <4> HIDE DEF front
      <4> QED BY <2>5, <4>1, AppendIs
    <3>2. \A k \in 1 .. n : k # n => k \in 1 .. n - 1
      BY <1>1, <2>3
    <3>3. vs = [k \in 1 .. n |-> vs[k]]
      BY <2>1, LenProperties
    <3>4. \A k \in 1 .. n : vs[k] = IF k = n THEN vs[n] ELSE front[k]
      BY <2>4, <3>2
    <3> HIDE DEF front
    <3> QED BY <3>1, <3>3, <3>4
  <2>7. WithSeparator(parts, ps) = Append(ended, vs[n])
    <3> DEFINE w == WithSeparator(parts, ps)
               S == Seq(C)
    <3>1. ended \in [1 .. n - 1 -> S]
      <4>1. \A q \in E : q \o <<Slash>> \in S
        BY DEF E
      <4>2. DOMAIN front = 1 .. n - 1 /\ \A k \in 1 .. n - 1 : front[k] \in E
        BY <2>4
      <4> HIDE DEF S, front
      <4> QED BY <4>1, <4>2
    <3>2. ended \in Seq(S) /\ Len(ended) = n - 1
      <4> HIDE DEF ended, S
      <4> QED BY Zenon, <2>3, <3>1, IsSeq
    <3>3. vs[n] \in S
      BY <2>2, <2>3 DEF E
    <3>4. Append(ended, vs[n])
            = [k \in 1 .. n |-> IF k = n THEN vs[n] ELSE ended[k]]
      <4> HIDE DEF ended, S
      <4>1. Len(ended) + 1 = n
        BY <2>0, <3>2
      <4> QED BY <3>2, <3>3, <4>1, AppendIs
    <3>5. ASSUME NEW k \in 1 .. n PROVE w[k] = IF k = n THEN vs[n] ELSE ended[k]
      <4>0. w[k] = ValueOf(parts[k], ps)
                     \o (IF parts[k] # Last(parts) THEN <<Slash>> ELSE <<>>)
        BY <1>1 DEF WithSeparator
      <4>1. CASE k = n
        <5>1. w[k] = vs[n] \o <<>>
          BY Zenon, <1>1, <2>2, <4>0, <4>1
        <5>2. vs[n] \o <<>> = vs[n]
          BY <3>3
        <5> QED BY Zenon, <4>1, <5>1, <5>2
      <4>2. CASE k # n
        <5>1. k \in 1 .. n - 1
          BY <1>1, <4>2
        <5>2. parts[k] # Last(parts)
          BY Zenon, <1>1, <5>1 DEF LastIsUnique, n
        <5>3. w[k] = vs[k] \o <<Slash>>
          BY Zenon, <2>2, <4>0, <5>2
        <5>4. ended[k] = vs[k] \o <<Slash>>
          BY <2>4, <5>1
        <5> QED BY Zenon, <4>2, <5>3, <5>4
      <4> QED BY Zenon, <4>1, <4>2
    <3>6. w = [k \in 1 .. n |-> w[k]]
      BY <1>1 DEF WithSeparator
    <3> HIDE DEF w, ended
    <3>7. w = [k \in 1 .. n |-> IF k = n THEN vs[n] ELSE ended[k]]
      BY <3>5, <3>6
    <3> QED BY Zenon, <3>4, <3>7 DEF w
  <2>8. FlattenSeq(Append(ended, vs[n])) = FlattenSeq(ended) \o vs[n]
    <3> DEFINE S == Seq(C)
    <3>1. vs[n] \in S
      BY <2>2, <2>3 DEF E
    <3>2. ended \in [1 .. n - 1 -> S]
      <4>1. \A q \in E : q \o <<Slash>> \in S
        BY DEF E
      <4>2. DOMAIN front = 1 .. n - 1 /\ \A k \in 1 .. n - 1 : front[k] \in E
        BY <2>4
      <4> HIDE DEF S, front
      <4> QED BY <4>1, <4>2
    <3> HIDE DEF ended
    <3>3. ended \in Seq(S)
      <4> HIDE DEF S
      <4> QED BY Zenon, <2>3, <3>2, IsSeq
    <3> QED BY Zenon, <3>1, <3>3, FlattenAppend
  <2>9. WriteParts(parts, ps) = Ended(front, Slash) \o vs[n]
    BY Zenon, <1>2, <2>7, <2>8 DEF Ended
  <2>10. Split(Ended(front, Slash) \o vs[n], Slash) = NotEmpty(front) \o One(vs[n])
    <3> HIDE DEF front
    <3> QED BY Zenon, <2>2, <2>3, <2>5, SplitEnded DEF E
  <2>11. NotEmpty(vs) = NotEmpty(front) \o One(vs[n])
    <3> HIDE DEF front
    <3> QED BY Zenon, <2>2, <2>3, <2>5, <2>6, NotEmptyAppend
  <2> QED BY Zenon, <2>9, <2>10, <2>11 DEF vs
<1> QED BY Zenon, <1>3, <1>4

\* What prepare_request() writes of a path, after its '/', and how it is split.
LEMMA WritePathIs ==
  ASSUME NEW C, Slash \in C, NEW s \in Seq(C), NEW ps, Filled(ps, C), NEW cut \in Cuts(s)
  PROVE  \E r \in Seq(C) :
           /\ WritePath(s, ps, cut) = <<Slash>> \o r
           /\ DOMAIN ps = {} => Split(r, Slash) = Split(s, Slash)
           /\ DOMAIN ps # {} => r = WriteParts(Split(s, Slash), ps)
<1> DEFINE parts == Split(s, Slash)
<1>0. cut \in BOOLEAN
  BY DEF Cuts
<1>1. parts \in Seq(Parts(C, Slash))
  BY Zenon, SplitType
<1>2. CASE DOMAIN ps # {}
  <2>1. WritePath(s, ps, cut) = <<Slash>> \o WriteParts(parts, ps)
    BY Zenon, <1>2 DEF WritePath
  <2> HIDE DEF parts
  <2>2. WriteParts(parts, ps) \in Seq(C)
    BY Zenon, <1>1, WritePartsType
  <2> QED BY Zenon, <1>2, <2>1, <2>2 DEF parts
<1>3. CASE DOMAIN ps = {} /\ cut = TRUE /\ s # <<>>
  <2>0. Last(s) = Slash
    BY <1>3 DEF Cuts
  <2> DEFINE f == SubSeq(s, 1, Len(s) - 1)
             e == <<>>
  <2>1. WritePath(s, ps, cut) = <<Slash>> \o f
    BY Zenon, <1>3 DEF WritePath
  <2>2. f \in Seq(C) /\ s = f \o <<Slash>> \o e
    BY <1>3, <2>0 DEF Last
  <2>3. e \in Seq(C)
    OBVIOUS
  <2> HIDE DEF f, e
  <2>4. Split(f \o <<Slash>> \o e, Slash) = Split(f, Slash) \o Split(e, Slash)
    BY Zenon, <2>2, <2>3, SplitConcat
  <2>5. Split(e, Slash) = <<>>
    BY Zenon, SplitEmpty DEF e
  <2>6. Split(f, Slash) \in Seq(Parts(C, Slash))
    BY Zenon, <2>2, SplitType
  <2>7. Split(f, Slash) \o <<>> = Split(f, Slash)
    BY <2>6
  <2>8. Split(s, Slash) = Split(f, Slash)
    BY Zenon, <2>2, <2>4, <2>5, <2>7
  <2> QED BY Zenon, <1>3, <2>1, <2>2, <2>8
<1>4. CASE DOMAIN ps = {} /\ cut = TRUE /\ s = <<>>
  <2>1. SubSeq(s, 1, Len(s) - 1) = s
    BY <1>4
  <2>2. WritePath(s, ps, cut) = <<Slash>> \o s
    BY Zenon, <1>4, <2>1 DEF WritePath
  <2> QED BY Zenon, <1>4, <2>2
<1>5. CASE DOMAIN ps = {} /\ cut = FALSE
  <2>1. WritePath(s, ps, cut) = <<Slash>> \o FormatPath(s)
    BY Zenon, <1>5 DEF WritePath
  <2> QED BY Zenon, <1>5, <2>1, FormatKeeps
<1> QED BY Zenon, <1>0, <1>2, <1>3, <1>4, <1>5

\* It begins with a '/', and that is split off again.
LEMMA WritePathRead ==
  ASSUME NEW C, Slash \in C, NEW s \in Seq(C), NEW ps, Filled(ps, C), NEW cut \in Cuts(s)
  PROVE  /\ WritePath(s, ps, cut) \in Seq(C) /\ WritePath(s, ps, cut) # <<>>
         /\ DOMAIN ps = {} => Split(WritePath(s, ps, cut), Slash) = Split(s, Slash)
         /\ DOMAIN ps # {} =>
              Split(WritePath(s, ps, cut), Slash)
                = Split(WriteParts(Split(s, Slash), ps), Slash)
<1>1. PICK r \in Seq(C) :
           /\ WritePath(s, ps, cut) = <<Slash>> \o r
           /\ DOMAIN ps = {} => Split(r, Slash) = Split(s, Slash)
           /\ DOMAIN ps # {} => r = WriteParts(Split(s, Slash), ps)
  BY WritePathIs
<1> DEFINE e == <<>>
<1>2. /\ <<Slash>> \o r \in Seq(C) /\ <<Slash>> \o r # <<>> /\ e \in Seq(C)
      /\ <<Slash>> \o r = e \o <<Slash>> \o r
  OBVIOUS
<1> HIDE DEF e
<1>3. Split(e \o <<Slash>> \o r, Slash) = Split(e, Slash) \o Split(r, Slash)
  BY Zenon, <1>2, SplitConcat
<1>4. Split(e, Slash) = <<>>
  BY Zenon, SplitEmpty DEF e
<1>5. Split(r, Slash) \in Seq(Parts(C, Slash))
  BY Zenon, SplitType
<1>6. <<>> \o Split(r, Slash) = Split(r, Slash)
  BY <1>5
<1>7. Split(<<Slash>> \o r, Slash) = Split(r, Slash)
  BY Zenon, <1>2, <1>3, <1>4, <1>6
<1> QED BY Zenon, <1>1, <1>2, <1>7

-----------------------------------------------------------------------------
(* Find, PathOf and QueryOf.                                               *)

\* std::string::find finds the first character, or there is none.
LEMMA FindIs ==
  ASSUME NEW s, Len(s) \in Nat, NEW c, NEW from \in Nat
  PROVE  \/ /\ Find(s, c, from) = -1
            /\ \A k \in from + 1 .. Len(s) : s[k] # c
         \/ /\ Find(s, c, from) \in from .. Len(s) - 1
            /\ s[Find(s, c, from) + 1] = c
            /\ \A k \in from + 1 .. Find(s, c, from) : s[k] # c
<1> DEFINE found == {k \in from + 1 .. Len(s) : s[k] = c}
<1>1. Find(s, c, from) = IF found = {} THEN -1 ELSE Min(found) - 1
  BY Zenon DEF Find
<1>2. CASE found = {}
  <2>1. Find(s, c, from) = -1
    BY <1>1, <1>2
  <2> QED BY <1>2, <2>1
<1>3. CASE found # {}
  <2> DEFINE m == Min(found)
  <2>1. found \in SUBSET Nat
    OBVIOUS
  <2>2. m \in found /\ \A k \in found : m <= k
    BY Zenon, <1>3, <2>1, MinIs
  <2> HIDE DEF m
  <2>3. Find(s, c, from) = m - 1
    BY <1>1, <1>3 DEF m
  <2>4. m \in from + 1 .. Len(s) /\ s[m] = c /\ m - 1 + 1 = m
    BY <2>2
  <2>5. \A k \in from + 1 .. m - 1 : s[k] # c
    <3> TAKE k \in from + 1 .. m - 1
    <3>1. k \in from + 1 .. Len(s) /\ ~(m <= k)
      BY <2>4
    <3> QED BY <2>2, <3>1
  <2>6. m - 1 \in from .. Len(s) - 1
    BY <2>4
  <2> QED BY Zenon, <2>3, <2>4, <2>5, <2>6
<1> QED BY <1>2, <1>3

\* The first one is found.
FirstAt(s, c, from, n) == s[n + 1] = c /\ \A k \in from + 1 .. n : s[k] # c

\* What is the first character is found.
LEMMA FindFirst ==
  ASSUME NEW s, Len(s) \in Nat, NEW c, NEW from \in Nat, NEW n \in from .. Len(s) - 1,
         FirstAt(s, c, from, n)
  PROVE  Find(s, c, from) = n
<1> USE DEF FirstAt
<1> DEFINE f == Find(s, c, from)
<1>1. n + 1 \in from + 1 .. Len(s)
  OBVIOUS
<1>2. /\ f \in from .. Len(s) - 1 /\ s[f + 1] = c
      /\ \A k \in from + 1 .. f : s[k] # c
  BY Zenon, <1>1, FindIs
<1> HIDE DEF f
<1>3. ~(n < f)
  <2>1. n < f => n + 1 \in from + 1 .. f
    BY <1>2
  <2> QED BY <1>2, <2>1
<1>4. ~(f < n)
  <2>1. f < n => f + 1 \in from + 1 .. n
    BY <1>2
  <2> QED BY <1>2, <2>1
<1>5. f = n
  BY <1>2, <1>3, <1>4
<1> QED BY Zenon, <1>5 DEF f

\* A character that is not in a text is not found.
LEMMA FindNone ==
  ASSUME NEW C, NEW c, NEW s \in Seq(C \ {c})
  PROVE  Find(s, c, 0) = -1
<1>1. Len(s) \in Nat /\ \A k \in 0 + 1 .. Len(s) : s[k] # c
  OBVIOUS
<1>2. \A n \in 0 .. Len(s) - 1 : n + 1 \in 0 + 1 .. Len(s)
  BY <1>1
<1>3. 0 \in Nat
  OBVIOUS
<1> QED BY Zenon, <1>1, <1>2, <1>3, FindIs

\* A character is found behind a text that has it not, and what is before
\* and behind it are the two texts around it.
LEMMA FindBehind ==
  ASSUME NEW C, NEW c \in C, NEW a \in Seq(C \ {c}), NEW b \in Seq(C)
  PROVE  /\ Find(a \o <<c>> \o b, c, 0) = Len(a)
         /\ SubSeq(a \o <<c>> \o b, 1, Len(a)) = a
         /\ SubSeq(a \o <<c>> \o b, Len(a) + 2, Len(a \o <<c>> \o b)) = b
<1> DEFINE t == a \o <<c>> \o b
           n == Len(a)
<1>0. a \in Seq(C) /\ \A k \in 1 .. n : a[k] # c
  OBVIOUS
<1>1. /\ t \in Seq(C) /\ Len(t) = n + 1 + Len(b) /\ n \in Nat /\ Len(b) \in Nat
      /\ t[n + 1] = c /\ \A k \in 1 .. n : t[k] = a[k]
      /\ \A k \in 1 .. Len(b) : t[n + 1 + k] = b[k]
  BY <1>0
<1> HIDE DEF t
<1>2. \A k \in 0 + 1 .. n : t[k] # c
  BY <1>0, <1>1
<1>3. Len(t) \in Nat /\ n \in 0 .. Len(t) - 1 /\ 0 \in Nat
  BY <1>1
<1>4. Find(t, c, 0) = n
  <2>1. FirstAt(t, c, 0, n)
    BY Zenon, <1>1, <1>2 DEF FirstAt
  <2> QED BY Zenon, <1>3, <2>1, FindFirst
<1>5. SubSeq(t, 1, n) = a
  BY <1>0, <1>1
<1>6. SubSeq(t, n + 2, Len(t)) = b
  <2> DEFINE u == SubSeq(t, n + 2, Len(t))
  <2>1. /\ u \in Seq(C) /\ Len(u) = Len(b)
        /\ \A k \in 1 .. Len(b) : u[k] = t[n + 2 + k - 1]
    BY <1>1
  <2>2. \A k \in 1 .. Len(b) : n + 2 + k - 1 = n + 1 + k
    BY <1>1
  <2> HIDE DEF u
  <2>3. \A k \in 1 .. Len(b) : u[k] = b[k]
    BY Zenon, <1>1, <2>1, <2>2
  <2>4. u = b
    BY <2>1, <2>3, SeqEqual
  <2> QED BY <2>4 DEF u
<1> QED BY Zenon, <1>4, <1>5, <1>6 DEF t

-----------------------------------------------------------------------------
(* EmplaceAll, and the orders of a map.                                    *)

\* The value of a key is that of the first pair with the key.
LEMMA EmplaceAllIs ==
  ASSUME NEW pairs, DOMAIN pairs \subseteq Nat
  PROVE  /\ DOMAIN EmplaceAll(pairs) = {pairs[k][1] : k \in DOMAIN pairs}
         /\ EmplaceAll(pairs)
              = [key \in DOMAIN EmplaceAll(pairs) |-> EmplaceAll(pairs)[key]]
         /\ \A key \in DOMAIN EmplaceAll(pairs) : \E m \in DOMAIN pairs :
              /\ pairs[m][1] = key /\ EmplaceAll(pairs)[key] = pairs[m][2]
              /\ \A j \in DOMAIN pairs : pairs[j][1] = key => m <= j
<1> DEFINE with(key) == {k \in DOMAIN pairs : pairs[k][1] = key}
           keys == {pairs[k][1] : k \in DOMAIN pairs}
           all == EmplaceAll(pairs)
<1>1. all = [key \in keys |-> pairs[Min(with(key))][2]]
  BY Zenon DEF EmplaceAll
<1>2. ASSUME NEW key \in keys
      PROVE  Min(with(key)) \in with(key) /\ \A j \in with(key) : Min(with(key)) <= j
  <2>1. with(key) \in SUBSET Nat /\ with(key) # {}
    OBVIOUS
  <2> HIDE DEF with
  <2> QED BY <2>1, MinIs
<1> HIDE DEF all
<1>3. DOMAIN all = keys /\ all = [key \in DOMAIN all |-> all[key]]
  <2> HIDE DEF keys, with
  <2> QED BY <1>1
<1>4. ASSUME NEW key \in keys
      PROVE  \E m \in DOMAIN pairs :
              /\ pairs[m][1] = key /\ all[key] = pairs[m][2]
              /\ \A j \in DOMAIN pairs : pairs[j][1] = key => m <= j
  <2> DEFINE m == Min(with(key))
  <2>1. m \in with(key) /\ \A j \in with(key) : m <= j
    BY <1>2
  <2>2. all[key] = pairs[m][2]
    <3> HIDE DEF keys, with
    <3> QED BY <1>1
  <2> HIDE DEF m
  <2>3. /\ m \in DOMAIN pairs /\ pairs[m][1] = key
        /\ \A j \in DOMAIN pairs : pairs[j][1] = key => m <= j
    BY <2>1
  <2> QED BY Zenon, <2>2, <2>3
<1> HIDE DEF keys
<1>5. \A key \in DOMAIN all : \E m \in DOMAIN pairs :
              /\ pairs[m][1] = key /\ all[key] = pairs[m][2]
              /\ \A j \in DOMAIN pairs : pairs[j][1] = key => m <= j
  BY Zenon, <1>3, <1>4
<1> QED BY Zenon, <1>3, <1>5 DEF all, keys

\* A map of finitely many pairs is finite.
LEMMA EmplaceAllFinite ==
  ASSUME NEW pairs, DOMAIN pairs \subseteq Nat, IsFiniteSet(DOMAIN pairs)
  PROVE  IsFiniteSet(DOMAIN EmplaceAll(pairs))
<1> DEFINE keys == {pairs[k][1] : k \in DOMAIN pairs}
           first == [k \in DOMAIN pairs |-> pairs[k][1]]
<1>1. DOMAIN EmplaceAll(pairs) = keys
  BY Zenon, EmplaceAllIs
<1>2. first \in Surjection(DOMAIN pairs, keys)
  BY DEF Surjection
<1> HIDE DEF keys, first
<1>3. IsFiniteSet(keys)
  BY Zenon, <1>2, FS_Surjection
<1> QED BY Zenon, <1>1, <1>3

\* Pairs of keys with what f has for them, before any others.
Begins(pairs, n, keys, f) ==
  /\ DOMAIN pairs \subseteq Nat \ {0} /\ 1 .. n \subseteq DOMAIN pairs
  /\ \A i \in 1 .. n : pairs[i][1] = keys[i] /\ pairs[i][2] = f[keys[i]]

\* Pairs of the keys of a map, without repetition, that come first are kept.
LEMMA EmplaceBegins ==
  ASSUME NEW n \in Nat, NEW keys, NEW f, NEW pairs, Begins(pairs, n, keys, f)
  PROVE  \A i \in 1 .. n : /\ keys[i] \in DOMAIN EmplaceAll(pairs)
                           /\ EmplaceAll(pairs)[keys[i]] = f[keys[i]]
<1> DEFINE all == EmplaceAll(pairs)
<1>1. DOMAIN pairs \subseteq Nat
  BY DEF Begins
<1>2. /\ DOMAIN all = {pairs[k][1] : k \in DOMAIN pairs}
      /\ \A key \in DOMAIN all : \E m \in DOMAIN pairs :
           /\ pairs[m][1] = key /\ all[key] = pairs[m][2]
           /\ \A j \in DOMAIN pairs : pairs[j][1] = key => m <= j
  BY Zenon, <1>1, EmplaceAllIs
<1> HIDE DEF all
<1> SUFFICES ASSUME NEW i \in 1 .. n
             PROVE  keys[i] \in DOMAIN all /\ all[keys[i]] = f[keys[i]]
  BY DEF all
<1>3. i \in DOMAIN pairs /\ pairs[i][1] = keys[i]
  BY DEF Begins
<1>4. keys[i] \in DOMAIN all
  BY <1>2, <1>3
<1>5. PICK m \in DOMAIN pairs :
        /\ pairs[m][1] = keys[i] /\ all[keys[i]] = pairs[m][2]
        /\ \A j \in DOMAIN pairs : pairs[j][1] = keys[i] => m <= j
  BY <1>2, <1>4
<1>6. m <= i /\ m \in Nat \ {0}
  BY <1>3, <1>5 DEF Begins
<1>7. m \in 1 .. n
  BY <1>6
<1>8. keys[m] = keys[i] /\ all[keys[i]] = f[keys[m]]
  BY <1>5, <1>7 DEF Begins
<1> QED BY Zenon, <1>4, <1>8

\* An order of a finite set has all of its elements.
LEMMA OrderIs ==
  ASSUME NEW S, IsFiniteSet(S), NEW keys \in SetToSeqs(S)
  PROVE  /\ keys \in Seq(S) /\ \A x \in S : \E i \in 1 .. Len(keys) : keys[i] = x
         /\ DOMAIN keys = 1 .. Len(keys) /\ Len(keys) \in Nat
<1> DEFINE n == Cardinality(S)
<1>1. n \in Nat
  BY Zenon, FS_CardinalityType
<1>2. keys \in [1 .. n -> S] /\ \A i, j \in 1 .. n : i # j => keys[i] # keys[j]
  BY Zenon DEF SetToSeqs
<1> HIDE DEF n
<1>3. keys \in Seq(S) /\ Len(keys) = n
  BY Zenon, <1>1, <1>2, IsSeq
<1>4. keys \in Injection(1 .. n, S)
  BY <1>2 DEF Injection, IsInjective
<1>5. Cardinality(1 .. n) = n
  BY <1>1, FS_Interval
<1>6. keys \in Surjection(1 .. n, S)
  BY Zenon, <1>4, <1>5, FS_Injection DEF n
<1>7. \A x \in S : \E i \in 1 .. n : keys[i] = x
  BY <1>6 DEF Surjection
<1>8. DOMAIN keys = 1 .. n
  BY <1>2
<1> QED BY <1>1, <1>3, <1>7, <1>8

IsMap(f) == f = [x \in DOMAIN f |-> f[x]] /\ IsFiniteSet(DOMAIN f)

\* The pairs of a map in the order of the keys.
Pairs(keys, f) == [i \in DOMAIN keys |-> <<keys[i], f[keys[i]]>>]

\* A map that is emplaced in any order of its keys is the same map.
LEMMA EmplaceSame ==
  ASSUME NEW f, IsMap(f), NEW keys \in SetToSeqs(DOMAIN f)
  PROVE  EmplaceAll(Pairs(keys, f)) = f
<1> DEFINE pairs == Pairs(keys, f)
           all == EmplaceAll(pairs)
           n == Len(keys)
           S == DOMAIN f
<1>1. /\ keys \in Seq(S) /\ \A x \in S : \E i \in 1 .. n : keys[i] = x
      /\ DOMAIN keys = 1 .. n /\ n \in Nat
  BY Zenon, OrderIs DEF IsMap
<1>2. \A i \in 1 .. n : keys[i] \in S
  BY <1>1
<1> HIDE DEF n, S
<1>3. /\ DOMAIN pairs = 1 .. n /\ DOMAIN pairs \subseteq Nat
      /\ \A i \in 1 .. n : pairs[i][1] = keys[i] /\ pairs[i][2] = f[keys[i]]
  BY <1>1 DEF Pairs
<1> HIDE DEF pairs
<1>4. /\ DOMAIN all = {pairs[k][1] : k \in DOMAIN pairs}
      /\ all = [key \in DOMAIN all |-> all[key]]
  <2>1. DOMAIN pairs \subseteq Nat
    BY Zenon, <1>3
  <2> QED BY <2>1, EmplaceAllIs
<1>5. Begins(pairs, n, keys, f)
  <2>1. 1 .. n \subseteq Nat \ {0} /\ 1 .. n \subseteq 1 .. n
    BY <1>1
  <2> QED BY Zenon, <1>3, <2>1 DEF Begins
<1>6. \A i \in 1 .. n : all[keys[i]] = f[keys[i]]
  <2>1. n \in Nat
    BY <1>1
  <2>2. \A i \in 1 .. n : /\ keys[i] \in DOMAIN EmplaceAll(pairs)
                          /\ EmplaceAll(pairs)[keys[i]] = f[keys[i]]
    BY <1>5, <2>1, EmplaceBegins
  <2> QED BY Zenon, <2>2
<1> HIDE DEF all
<1>7. DOMAIN all = S
  <2> QED BY <1>1, <1>2, <1>3, <1>4
<1>8. \A x \in S : all[x] = f[x]
  BY <1>1, <1>6
<1>9. f = [x \in S |-> f[x]]
  BY DEF S, IsMap
<1> QED BY <1>4, <1>7, <1>8, <1>9 DEF all, pairs

-----------------------------------------------------------------------------
(* The query.                                                              *)

\* The keys and the values are texts of some characters.
Texts(f, C) == \A k \in DOMAIN f : k \in Seq(C) /\ f[k] \in Seq(C)

\* The fields that are written, in the order of the keys.
FieldsIn(f, keys) == [i \in DOMAIN keys |-> keys[i] \o <<"=">> \o f[keys[i]]]

\* The fields of a query are parts of it.
LEMMA FieldsInType ==
  ASSUME NEW C, "=" \in C, NEW d, d # "=", NEW f, NEW keys \in Seq(DOMAIN f),
         Texts(f, C \ {d})
  PROVE  /\ FieldsIn(f, keys) \in Seq(Parts(C, d))
         /\ DOMAIN FieldsIn(f, keys) = DOMAIN keys
<1> DEFINE n == Len(keys)
           P == Parts(C, d)
<1>1. n \in Nat /\ DOMAIN keys = 1 .. n /\ \A i \in 1 .. n : keys[i] \in DOMAIN f
  BY LenProperties
<1>2. ASSUME NEW i \in 1 .. n PROVE keys[i] \o <<"=">> \o f[keys[i]] \in P
  <2> DEFINE E == C \ {d}
             a == keys[i]
             b == f[keys[i]]
  <2>1. a \in Seq(E) /\ b \in Seq(E) /\ "=" \in E
    BY <1>1 DEF Texts
  <2> HIDE DEF E, a, b
  <2>2. a \o <<"=">> \o b \in Seq(E) /\ a \o <<"=">> \o b # <<>>
    BY <2>1
  <2> QED BY <2>2 DEF Parts, E, a, b
<1> HIDE DEF n, P
<1>3. FieldsIn(f, keys) \in [1 .. n -> P]
  BY <1>1, <1>2 DEF FieldsIn
<1>4. FieldsIn(f, keys) \in Seq(P)
  BY Zenon, <1>1, <1>3, IsSeq
<1> QED BY <1>1, <1>3, <1>4 DEF P

\* They are texts.
LEMMA FieldsInText ==
  ASSUME NEW C, "=" \in C, NEW f, NEW keys \in Seq(DOMAIN f), Texts(f, C)
  PROVE  FieldsIn(f, keys) \in Seq(Seq(C))
<1> DEFINE n == Len(keys)
           P == Seq(C)
<1>1. n \in Nat /\ DOMAIN keys = 1 .. n /\ \A i \in 1 .. n : keys[i] \in DOMAIN f
  BY LenProperties
<1>2. ASSUME NEW i \in 1 .. n PROVE keys[i] \o <<"=">> \o f[keys[i]] \in P
  <2> DEFINE a == keys[i]
             b == f[keys[i]]
  <2>1. a \in Seq(C) /\ b \in Seq(C)
    BY <1>1 DEF Texts
  <2> HIDE DEF a, b
  <2>2. a \o <<"=">> \o b \in Seq(C)
    BY <2>1
  <2> QED BY <2>2 DEF a, b
<1> HIDE DEF n, P
<1>3. FieldsIn(f, keys) \in [1 .. n -> P]
  BY <1>1, <1>2 DEF FieldsIn
<1> QED BY Zenon, <1>1, <1>3, IsSeq DEF P

\* Concatenation is associative.
LEMMA ConcatFour ==
  ASSUME NEW D, NEW x \in Seq(D), NEW a \in Seq(D), NEW y \in Seq(D), NEW b \in Seq(D)
  PROVE  x \o a \o y \o b = x \o (a \o y \o b)
<1>1. x \o a \o y = x \o (a \o y) /\ a \o y \in Seq(D)
  OBVIOUS
<1> DEFINE z == a \o y
<1> HIDE DEF z
<1>2. x \o z \o b = x \o (z \o b)
  BY <1>1 DEF z
<1> QED BY <1>1, <1>2 DEF z

\* What prepare_request() writes of a query are its fields, joined.
LEMMA WriteQueryIs ==
  ASSUME NEW C, NEW f, NEW keys \in Seq(DOMAIN f),
         Texts(f, C)
  PROVE  WriteQuery(f, keys) = IF keys = <<>> THEN <<>>
                               ELSE <<"?">> \o Join(FieldsIn(f, keys), "&")
<1> DEFINE text(i) == (IF i = 1 THEN <<>> ELSE <<"&">>)
                        \o keys[i] \o <<"=">> \o f[keys[i]]
           fields == FieldsIn(f, keys)
<1>1. WriteQuery(f, keys)
        = IF keys = <<>> THEN <<>>
          ELSE <<"?">> \o FlattenSeq([i \in DOMAIN keys |-> text(i)])
  BY Zenon DEF WriteQuery, WriteQueryIf
<1>2. DOMAIN fields = DOMAIN keys
      /\ \A i \in DOMAIN keys : fields[i] = keys[i] \o <<"=">> \o f[keys[i]]
  BY DEF FieldsIn
<1>3. \A i \in DOMAIN keys : text(i) = IF i = 1 THEN fields[i] ELSE <<"&">> \o fields[i]
  <2> TAKE i \in DOMAIN keys
  <2> DEFINE a == keys[i]
             b == f[keys[i]]
             D == C \cup {"&", "="}
  <2>1. a \in Seq(D) /\ b \in Seq(D)
    <3>0. keys[i] \in DOMAIN f
      BY LenProperties
    <3>1. a \in Seq(C) /\ b \in Seq(C)
      BY Zenon, <3>0 DEF Texts
    <3> HIDE DEF a, b
    <3> QED BY <3>1, SeqMonotonic
  <2>2. fields[i] = a \o <<"=">> \o b
    BY <1>2
  <2> HIDE DEF a, b, fields
  <2>3. CASE i = 1
    <3>1. text(i) = <<>> \o a \o <<"=">> \o b
      BY Zenon, <2>3 DEF a, b
    <3>2. <<>> \o a \o <<"=">> \o b = a \o <<"=">> \o b
      BY <2>1
    <3> QED BY Zenon, <2>2, <2>3, <3>1, <3>2
  <2>4. CASE i # 1
    <3>1. text(i) = <<"&">> \o a \o <<"=">> \o b
      BY Zenon, <2>4 DEF a, b
    <3>2. "=" \in D /\ "&" \in D
      OBVIOUS
    <3> HIDE DEF D
    <3>3. <<"&">> \in Seq(D) /\ <<"=">> \in Seq(D)
      BY <3>2
    <3>4. <<"&">> \o a \o <<"=">> \o b = <<"&">> \o (a \o <<"=">> \o b)
      BY <2>1, <3>3, ConcatFour
    <3> QED BY Zenon, <2>2, <2>4, <3>1, <3>4
  <2> QED BY Zenon, <2>3, <2>4
<1> HIDE DEF fields, text
<1>4. [i \in DOMAIN keys |-> text(i)]
        = [k \in DOMAIN fields |-> IF k = 1 THEN fields[k] ELSE <<"&">> \o fields[k]]
  BY Zenon, <1>2, <1>3
<1>5. FlattenSeq([i \in DOMAIN keys |-> text(i)]) = Join(fields, "&")
  BY Zenon, <1>4 DEF Join
<1> QED BY Zenon, <1>1, <1>5 DEF fields, text

\* A field is read as it was written, if there is no '=' in its key.
LEMMA QueryFieldIs ==
  ASSUME NEW C, "=" \in C, NEW a \in Seq(C), Find(a, "=", 0) = -1, NEW b \in Seq(C)
  PROVE  QueryField(a \o <<"=">> \o b) = <<a, b>>
<1> DEFINE s == a \o <<"=">> \o b
<1>1. a \in Seq(C \ {"="})
  <2>1. Len(a) \in Nat /\ a \in [1 .. Len(a) -> C] /\ 0 \in Nat
    OBVIOUS
  <2>2. \A k \in 0 + 1 .. Len(a) : a[k] # "="
    <3>1. \A k \in 0 .. Len(a) - 1 : k # -1
      BY <2>1
    <3> QED BY Zenon, <2>1, <3>1, FindIs
  <2>3. a \in [1 .. Len(a) -> C \ {"="}]
    BY <2>1, <2>2
  <2> QED BY <2>1, <2>3, IsSeq
<1>2. /\ Find(s, "=", 0) = Len(a) /\ SubSeq(s, 1, Len(a)) = a
      /\ SubSeq(s, Len(a) + 2, Len(s)) = b
  BY <1>1, FindBehind
<1>3. Len(a) # -1
  BY LenProperties
<1> HIDE DEF s
<1>4. QueryField(s) = <<a, b>>
  BY Zenon, <1>2, <1>3 DEF QueryField
<1> QED BY <1>4 DEF s

\* A path p, a query f and an order of its keys, of characters C.
Fits(p, f, keys, C) ==
  /\ "?" \in C /\ "&" \in C /\ "=" \in C /\ Slash \in C
  /\ p \in Seq(C) /\ p # <<>>
  /\ IsMap(f) /\ Texts(f, C) /\ keys \in SetToSeqs(DOMAIN f)

\* A written target: the path, and the query in the order of the keys.
LEMMA TargetIs ==
  ASSUME NEW C, NEW p, NEW f, NEW keys, Fits(p, f, keys, C)
  PROVE  /\ p \o WriteQuery(f, keys) \in Seq(C)
         /\ keys = <<>> => p \o WriteQuery(f, keys) = p /\ f = NoFields
         /\ keys # <<>> =>
              /\ Join(FieldsIn(f, keys), "&") \in Seq(C)
              /\ p \o WriteQuery(f, keys)
                   = p \o <<"?">> \o Join(FieldsIn(f, keys), "&")
<1> DEFINE S == DOMAIN f
           fields == FieldsIn(f, keys)
<1>0. p \in Seq(C) /\ IsMap(f) /\ Texts(f, C) /\ keys \in SetToSeqs(S)
  BY Zenon DEF Fits
<1>1. IsFiniteSet(S)
  BY Zenon, <1>0 DEF IsMap
<1>2. keys \in Seq(S) /\ \A x \in S : \E i \in 1 .. Len(keys) : keys[i] = x
  BY Zenon, <1>0, <1>1, OrderIs
<1>5. WriteQuery(f, keys) = IF keys = <<>> THEN <<>> ELSE <<"?">> \o Join(fields, "&")
  BY Zenon, <1>0, <1>2, WriteQueryIs
<1>6. CASE keys = <<>>
  <2>1. S = {}
    <3>1. 1 .. Len(keys) = {}
      BY <1>6
    <3> QED BY <1>2, <3>1
  <2>2. f = [x \in {} |-> f[x]]
    BY Zenon, <1>0, <2>1 DEF IsMap
  <2>3. f = NoFields
    BY <2>2 DEF NoFields
  <2>4. p \o <<>> = p
    BY <1>0
  <2>5. p \o WriteQuery(f, keys) = p
    BY Zenon, <1>5, <1>6, <2>4
  <2> QED BY Zenon, <1>0, <1>6, <2>3, <2>5
<1>7. CASE keys # <<>>
  <2>1. "=" \in C /\ "&" \in C /\ "?" \in C
    BY DEF Fits
  <2>3. fields \in Seq(Seq(C))
    BY Zenon, <1>0, <1>2, <2>1, FieldsInText
  <2> DEFINE j == Join(fields, "&")
  <2>4. j \in Seq(C)
    BY Zenon, <2>1, <2>3, JoinType
  <2>5. WriteQuery(f, keys) = <<"?">> \o j
    BY Zenon, <1>5, <1>7
  <2> HIDE DEF j, fields
  <2>6. p \o (<<"?">> \o j) = p \o <<"?">> \o j /\ p \o <<"?">> \o j \in Seq(C)
    BY <1>0, <2>1, <2>4
  <2> QED BY Zenon, <1>7, <2>4, <2>5, <2>6 DEF j, fields
<1> QED BY Zenon, <1>6, <1>7

\* The path is read again, but for its format.
LEMMA TargetPath ==
  ASSUME NEW C, NEW p, NEW f, NEW keys, Fits(p, f, keys, C), p \in Seq(C \ {"?"})
  PROVE  Split(PathOf(p \o WriteQuery(f, keys)), Slash) = Split(p, Slash)
<1> DEFINE t == p \o WriteQuery(f, keys)
<1>0. "?" \in C /\ Slash \in C /\ p \in Seq(C \ {"?"}) /\ p # <<>>
  BY Zenon DEF Fits
<1>1. CASE keys = <<>>
  <2>1. t = p
    BY <1>1, TargetIs
  <2>2. Find(p, "?", 0) = -1
    BY Zenon, <1>0, FindNone
  <2>3. PathOf(p) = FormatPath(p)
    <3>1. ~(-1 > 0)
      OBVIOUS
    <3> QED BY Zenon, <2>2, <3>1 DEF PathOf
  <2>4. p \in Seq(C)
    BY <1>0
  <2>5. Split(FormatPath(p), Slash) = Split(p, Slash)
    BY Zenon, <1>0, <2>4, FormatKeeps
  <2> QED BY Zenon, <2>1, <2>3, <2>5
<1>2. CASE keys # <<>>
  <2> DEFINE j == Join(FieldsIn(f, keys), "&")
  <2>1. j \in Seq(C) /\ t = p \o <<"?">> \o j
    BY <1>2, TargetIs
  <2> HIDE DEF t, j
  <2>2. Find(t, "?", 0) = Len(p) /\ SubSeq(t, 1, Len(p)) = p
    <3> DEFINE c == "?"
               u == p \o <<c>> \o j
    <3>1. c \in C /\ p \in Seq(C \ {c})
      BY <1>0
    <3>0. j \in Seq(C)
      BY <2>1
    <3> HIDE DEF c
    <3>2. Find(u, c, 0) = Len(p) /\ SubSeq(u, 1, Len(p)) = p
      BY <3>0, <3>1, FindBehind
    <3> QED BY <2>1, <3>2 DEF c
  <2>3. Len(p) > 0
    BY <1>0
  <2>4. PathOf(t) = p
    BY Zenon, <2>2, <2>3 DEF PathOf
  <2> QED BY Zenon, <2>4 DEF t
<1> QED BY Zenon, <1>1, <1>2

\* No key has a '=' in it.
NoEquals(f) == \A k \in DOMAIN f : Find(k, "=", 0) = -1

\* The query is read again, if there is no '=' in a key.
LEMMA TargetQuery ==
  ASSUME NEW C, NEW p, NEW f, NEW keys, Fits(p, f, keys, C), p \in Seq(C \ {"?"}),
         Texts(f, C \ {"&"}), NoEquals(f)
  PROVE  QueryOf(p \o WriteQuery(f, keys)) = f
<1> DEFINE t == p \o WriteQuery(f, keys)
           fields == FieldsIn(f, keys)
           pairs == [k \in DOMAIN fields |-> QueryField(fields[k])]
<1>0. /\ "?" \in C /\ "&" \in C /\ "=" \in C /\ p \in Seq(C \ {"?"})
      /\ IsMap(f) /\ Texts(f, C \ {"&"}) /\ keys \in SetToSeqs(DOMAIN f)
  BY Zenon DEF Fits
<1>1. CASE keys = <<>>
  <2>1. t = p /\ f = NoFields
    BY <1>1, TargetIs
  <2>2. Find(p, "?", 0) = -1
    BY Zenon, <1>0, FindNone
  <2> QED BY Zenon, <2>1, <2>2 DEF QueryOf
<1>2. CASE keys # <<>>
  <2> DEFINE j == Join(fields, "&")
  <2>1. /\ fields \in Seq(Parts(C, "&")) /\ j \in Seq(C)
        /\ t = p \o <<"?">> \o j
    <3>1. IsFiniteSet(DOMAIN f)
      BY Zenon, <1>0 DEF IsMap
    <3>2. keys \in Seq(DOMAIN f)
      BY Zenon, <1>0, <3>1, OrderIs
    <3>3. fields \in Seq(Parts(C, "&"))
      BY <1>0, <3>2, FieldsInType
    <3>4. j \in Seq(C) /\ t = p \o <<"?">> \o j
      BY <1>2, TargetIs
    <3> QED BY Zenon, <3>3, <3>4
  <2>2. Split(j, "&") = fields
    BY Zenon, <1>0, <2>1, SplitJoin
  <2>3. DOMAIN fields = DOMAIN keys
        /\ \A i \in DOMAIN keys : fields[i] = keys[i] \o <<"=">> \o f[keys[i]]
    BY DEF FieldsIn
  <2> HIDE DEF t, j, fields
  <2>4. Find(t, "?", 0) = Len(p) /\ SubSeq(t, Len(p) + 2, Len(t)) = j
    <3> DEFINE c == "?"
               u == p \o <<c>> \o j
    <3>1. c \in C /\ p \in Seq(C \ {c})
      BY <1>0
    <3>0. j \in Seq(C)
      BY <2>1
    <3> HIDE DEF c
    <3>2. Find(u, c, 0) = Len(p) /\ SubSeq(u, Len(p) + 2, Len(u)) = j
      BY <3>0, <3>1, FindBehind
    <3> QED BY <2>1, <3>2 DEF c
  <2>5. Len(p) # -1
    BY <1>0, LenProperties
  <2>6. QueryOf(t) = EmplaceAll(pairs)
    BY Zenon, <2>2, <2>4, <2>5 DEF QueryOf
  <2>7. ASSUME NEW i \in DOMAIN keys PROVE pairs[i] = <<keys[i], f[keys[i]]>>
    <3>1. IsFiniteSet(DOMAIN f)
      BY Zenon, <1>0 DEF IsMap
    <3>2. keys \in Seq(DOMAIN f)
      BY Zenon, <1>0, <3>1, OrderIs
    <3>3. keys[i] \in DOMAIN f
      BY <3>2, LenProperties
    <3>4. keys[i] \in Seq(C \ {"&"}) /\ f[keys[i]] \in Seq(C \ {"&"})
      BY Zenon, <1>0, <3>3 DEF Texts
    <3>5. keys[i] \in Seq(C) /\ f[keys[i]] \in Seq(C)
      BY <3>4, SeqMonotonic
    <3>8. Find(keys[i], "=", 0) = -1
      BY Zenon, <3>3 DEF NoEquals
    <3>6. QueryField(keys[i] \o <<"=">> \o f[keys[i]]) = <<keys[i], f[keys[i]]>>
      BY Zenon, <1>0, <3>5, <3>8, QueryFieldIs
    <3>7. pairs[i] = QueryField(fields[i])
      BY <2>3
    <3> QED BY Zenon, <2>3, <3>6, <3>7
  <2>8. pairs = Pairs(keys, f)
    <3>1. pairs = [i \in DOMAIN keys |-> pairs[i]]
      BY <2>3
    <3> HIDE DEF pairs
    <3> QED BY <2>7, <3>1 DEF Pairs
  <2> HIDE DEF pairs
  <2>9. EmplaceAll(pairs) = f
    BY Zenon, <1>0, <2>8, EmplaceSame
  <2> QED BY Zenon, <2>6, <2>9 DEF t
<1> QED BY Zenon, <1>1, <1>2

-----------------------------------------------------------------------------
(* The request line.                                                       *)

\* Two characters, one after the other.
LEMMA TwoIs ==
  ASSUME NEW D, NEW a \in D, NEW b \in D
  PROVE  <<a, b>> = <<a>> \o <<b>> /\ <<a, b>> \in Seq(D) /\ Len(<<a, b>>) = 2
<1> DEFINE t == <<a, b>>
           u == <<a>> \o <<b>>
<1>1. t \in [1 .. 2 -> D] /\ t[1] = a /\ t[2] = b
  OBVIOUS
<1>2. <<a>> \in Seq(D) /\ <<b>> \in Seq(D)
  OBVIOUS
<1>3. u \in Seq(D) /\ Len(u) = 2 /\ u[1] = a /\ u[2] = b
  <2>1. Len(<<a>>) = 1 /\ Len(<<b>>) = 1 /\ <<a>>[1] = a /\ <<b>>[1] = b
    OBVIOUS
  <2> QED BY <1>2, <2>1, ConcatProperties
<1> HIDE DEF t, u
<1>4. t \in Seq(D) /\ Len(t) = 2
  BY <1>1, IsSeq
<1>5. \A i \in 1 .. 2 : t[i] = u[i]
  BY <1>1, <1>3
<1>6. t = u
  BY <1>3, <1>4, <1>5, SeqEqual
<1> QED BY <1>4, <1>6 DEF t, u

\* Three tokens, one after the other, of which a limit of three leaves all.
LEMMA ThreeIs ==
  ASSUME NEW D, NEW a \in D, NEW b \in D, NEW c \in D
  PROVE  /\ <<a>> \o (<<b>> \o <<c>>) = <<a, b, c>> /\ <<a, b, c>> \in Seq(D)
         /\ Len(<<a, b, c>>) = 3 /\ SubSeq(<<a, b, c>>, 1, 3) = <<a, b, c>>
<1> DEFINE t == <<a, b, c>>
           v == <<b, c>>
           u == <<a>> \o v
<1>1. t \in [1 .. 3 -> D] /\ t[1] = a /\ t[2] = b /\ t[3] = c
  OBVIOUS
<1>2. <<a>> \in Seq(D) /\ v \in Seq(D) /\ <<b>> \o <<c>> = v /\ Len(v) = 2
  <2>1. <<a>> \in Seq(D)
    OBVIOUS
  <2> QED BY Zenon, <2>1, TwoIs
<1>3. u \in Seq(D) /\ Len(u) = 3 /\ u[1] = a /\ u[2] = b /\ u[3] = c
  <2>1. Len(<<a>>) = 1 /\ <<a>>[1] = a /\ v[1] = b /\ v[2] = c
    OBVIOUS
  <2> HIDE DEF v
  <2> QED BY <1>2, <2>1, ConcatProperties
<1> HIDE DEF t, u
<1>4. t \in Seq(D) /\ Len(t) = 3
  BY <1>1, IsSeq
<1>5. \A i \in 1 .. 3 : t[i] = u[i]
  BY <1>1, <1>3
<1>6. t = u
  BY <1>3, <1>4, <1>5, SeqEqual
<1>7. SubSeq(t, 1, 3) = t
  BY <1>4, SubSeqFull
<1> QED BY <1>2, <1>4, <1>6, <1>7 DEF t, u

\* Of a method, a target and a version the receiver finds these three parts.
LEMMA LineIs ==
  ASSUME NEW C, NEW m \in C \ {Space}, NEW v \in C \ {Space}, Space \in C,
         NEW target \in Seq(C \ {Space}), target # <<>>
  PROVE  SplitLimit(<<m, Space>> \o target \o <<Space, v>>, Space, 3)
           = << <<m>>, target, <<v>> >>
<1> DEFINE E == C \ {Space}
           one == <<m>>
           last == <<v>>
           rest == target \o <<Space>> \o last
           s == <<m, Space>> \o target \o <<Space, v>>
           D == Seq(E)
<1>1. one \in D /\ last \in D /\ target \in D /\ one # <<>> /\ last # <<>>
  OBVIOUS
<1>2. one \in Seq(C) /\ last \in Seq(C) /\ target \in Seq(C)
  BY <1>1
<1>3. rest \in Seq(C) /\ s = one \o <<Space>> \o rest
  <2>1. rest \in Seq(C)
    <3> HIDE DEF last
    <3> QED BY <1>2
  <2>2. s = one \o <<Space>> \o rest
    <3>1. <<m, Space>> = one \o <<Space>> /\ <<Space, v>> = <<Space>> \o last
      <4>1. m \in C /\ v \in C
        OBVIOUS
      <4> QED BY <4>1, TwoIs
    <3> DEFINE x == one \o <<Space>>
               y == <<Space>>
    <3>3. x \in Seq(C) /\ y \in Seq(C)
      BY <1>2
    <3> HIDE DEF x, y, last
    <3>4. (x \o target) \o (y \o last) = x \o (target \o y \o last)
      BY <1>2, <3>3
    <3> QED BY Zenon, <3>1, <3>4 DEF x, y
  <2> QED BY <2>1, <2>2
<1>4. Tokens(one, Space) = <<one>> /\ Tokens(target, Space) = <<target>>
      /\ Tokens(last, Space) = <<last>>
  BY Zenon, <1>1, TokensFree
<1>5. Tokens(rest, Space) = <<target>> \o <<last>>
  <2>1. Tokens(target \o <<Space>> \o last, Space)
          = Tokens(target, Space) \o Tokens(last, Space)
    <3> HIDE DEF last
    <3> QED BY <1>2, TokensConcat
  <2> QED BY Zenon, <1>4, <2>1
<1>6. Tokens(s, Space) = <<one>> \o (<<target>> \o <<last>>)
  <2> HIDE DEF rest, s, one
  <2>1. Tokens(one \o <<Space>> \o rest, Space)
          = Tokens(one, Space) \o Tokens(rest, Space)
    BY Zenon, <1>2, <1>3, TokensConcat
  <2> QED BY Zenon, <1>3, <1>4, <1>5, <2>1
<1> DEFINE all == <<one, target, last>>
           F == D \ {<<>>}
<1>7. one \in F /\ target \in F /\ last \in F
  BY Zenon, <1>1
<1>8. /\ <<one>> \o (<<target>> \o <<last>>) = all /\ all \in Seq(F)
      /\ Len(all) = 3 /\ SubSeq(all, 1, 3) = all
  <2> HIDE DEF one, last, F
  <2> QED BY <1>7, ThreeIs
<1> HIDE DEF all, D, s, one, last
<1>9. NotEmpty(all) = all
  BY Zenon, <1>8, NotEmptySame
<1>10. Tokens(s, Space) = all
  BY Zenon, <1>6, <1>8
<1>11. ~(3 < 3)
  OBVIOUS
<1>12. SplitLimit(s, Space, 3)
         = NotEmpty(SubSeq(all, 1, IF 3 < Len(all) THEN 3 ELSE Len(all)))
  BY Zenon, <1>10 DEF SplitLimit
<1> QED BY Zenon, <1>8, <1>9, <1>11, <1>12 DEF s, all, one, last

\* Of a line that begins with one character and a space the first part is this
\* character.
LEMMA FirstIs ==
  ASSUME NEW C, Space \in C, NEW m \in C \ {Space}, NEW rest \in Seq(C)
  PROVE  SplitLimit(<<m>> \o <<Space>> \o rest, Space, 3)[1] = <<m>>
<1> DEFINE one == <<m>>
           s == one \o <<Space>> \o rest
           D == Seq(C \ {Space})
           ts == Tokens(rest, Space)
           all == Tokens(s, Space)
           l == IF 3 < Len(all) THEN 3 ELSE Len(all)
           more == SubSeq(ts, 1, l - 1)
<1>1. one \in D /\ one \in Seq(C) /\ one # <<>>
  OBVIOUS
<1>2. ts \in Seq(D)
  BY Zenon, TokensType DEF Lists
<1>3. Tokens(one, Space) = <<one>>
  BY Zenon, <1>1, TokensFree
<1> HIDE DEF one, D
<1>4. all = <<one>> \o ts
  <2>1. Tokens(one \o <<Space>> \o rest, Space)
          = Tokens(one, Space) \o Tokens(rest, Space)
    BY Zenon, <1>1, TokensConcat
  <2> QED BY Zenon, <1>3, <2>1
<1>5. SplitLimit(s, Space, 3) = NotEmpty(SubSeq(all, 1, l))
  BY Zenon DEF SplitLimit
<1> HIDE DEF all, ts
<1>6. Len(all) = Len(ts) + 1 /\ Len(ts) \in Nat /\ l \in 1 .. Len(all)
  BY <1>1, <1>2, <1>4
<1> HIDE DEF l
<1>7. SubSeq(all, 1, l) = <<one>> \o more /\ more \in Seq(D)
  BY <1>1, <1>2, <1>4, <1>6
<1> HIDE DEF more
<1>8. NotEmpty(<<one>> \o more) = NotEmpty(<<one>>) \o NotEmpty(more)
  <2>1. <<one>> \in Seq(D)
    BY <1>1
  <2> QED BY Zenon, <1>7, <2>1, NotEmptyConcat
<1>9. NotEmpty(<<one>>) = <<one>>
  <2>1. <<one>> \in Seq(D \ {<<>>})
    BY <1>1
  <2> QED BY Zenon, <2>1, NotEmptySame
<1>10. NotEmpty(more) \in Seq(D)
  <2>1. NotEmpty(more) \in Seq(D \ {<<>>})
    BY Zenon, <1>7, NotEmptyType
  <2> QED BY <2>1
<1>11. (<<one>> \o NotEmpty(more))[1] = one
  BY <1>1, <1>10
<1> QED BY Zenon, <1>5, <1>7, <1>8, <1>9, <1>11 DEF s, one

\* The parts of a line are texts.
LEMMA PartsOfLine ==
  ASSUME NEW C, NEW s \in Seq(C), NEW d, NEW limit \in Nat
  PROVE  SplitLimit(s, d, limit) \in Seq(Seq(C))
<1> DEFINE ts == Tokens(s, d)
           D == Seq(C)
           l == IF limit < Len(ts) THEN limit ELSE Len(ts)
<1>1. ts \in Seq(D)
  <2>1. ts \in Seq(Seq(C \ {d}))
    BY Zenon, TokensType DEF Lists
  <2> QED BY <2>1, SeqMonotonic
<1>2. SplitLimit(s, d, limit) = NotEmpty(SubSeq(ts, 1, l))
  BY Zenon DEF SplitLimit
<1> HIDE DEF ts, D
<1>3. SubSeq(ts, 1, l) \in Seq(D)
  BY <1>1
<1> HIDE DEF l
<1>4. NotEmpty(SubSeq(ts, 1, l)) \in Seq(D \ {<<>>})
  BY Zenon, <1>3, NotEmptyType
<1>5. NotEmpty(SubSeq(ts, 1, l)) \in Seq(D)
  BY <1>4
<1> QED BY Zenon, <1>2, <1>5 DEF D

\* The name of a method is read as the method, and is no space.
LEMMA MethodIs ==
  ASSUME NEW m \in ToSet(MethodOrder)
  PROVE  /\ MethodOf(<<MethodToString(m)>>) = m
         /\ MethodToString(m) \in ToSet(MethodNames) /\ MethodToString(m) # Space
<1> DEFINE order == MethodOrder
           i == CHOOSE i \in DOMAIN order : order[i] = m
<1>1. \E j \in DOMAIN order : order[j] = m
  BY Zenon DEF ToSet
<1>2. i \in DOMAIN order /\ order[i] = m
  BY Zenon, <1>1
<1>3. MethodToString(m) = MethodNames[i]
  BY Zenon DEF MethodToString
<1> HIDE DEF i
<1>4. i \in 1 .. 10
  BY <1>2 DEF MethodOrder
<1>5. i \in DOMAIN MethodNames
  BY <1>4 DEF MethodNames
<1>6. /\ MethodNames[i] # Space
      /\ MethodOr(MethodNames[i], "None") = order[i]
  <2>1. i \in {1, 2, 3, 4, 5, 6, 7, 8, 9, 10}
    BY <1>4
  <2>2. /\ MethodNames[1] = "NONE" /\ MethodNames[2] = "GET" /\ MethodNames[3] = "POST"
        /\ MethodNames[4] = "PUT" /\ MethodNames[5] = "PATCH"
        /\ MethodNames[6] = "DELETE" /\ MethodNames[7] = "HEAD"
        /\ MethodNames[8] = "OPTIONS" /\ MethodNames[9] = "CONNECT"
        /\ MethodNames[10] = "TRACE"
    BY DEF MethodNames
  <2>3. /\ MethodOrder[1] = "None" /\ MethodOrder[2] = "Get" /\ MethodOrder[3] = "Post"
        /\ MethodOrder[4] = "Put" /\ MethodOrder[5] = "Patch"
        /\ MethodOrder[6] = "Delete" /\ MethodOrder[7] = "Head"
        /\ MethodOrder[8] = "Options" /\ MethodOrder[9] = "Connect"
        /\ MethodOrder[10] = "Trace"
    BY DEF MethodOrder
  <2>4. /\ MethodOr("NONE", "None") = "None" /\ MethodOr("GET", "None") = "Get"
        /\ MethodOr("POST", "None") = "Post" /\ MethodOr("PUT", "None") = "Put"
        /\ MethodOr("PATCH", "None") = "Patch" /\ MethodOr("DELETE", "None") = "Delete"
        /\ MethodOr("HEAD", "None") = "Head" /\ MethodOr("OPTIONS", "None") = "Options"
        /\ MethodOr("CONNECT", "None") = "Connect" /\ MethodOr("TRACE", "None") = "Trace"
    BY DEF MethodOr
  <2>5. MethodOr(MethodNames[i], "None") = order[i]
    BY <2>1, <2>2, <2>3, <2>4
  <2>6. \A x \in {"NONE", "GET", "POST", "PUT", "PATCH", "DELETE", "HEAD", "OPTIONS",
                  "CONNECT", "TRACE"} : x # Space
    BY Zenon DEF Space
  <2>7. MethodNames[i] \in {"NONE", "GET", "POST", "PUT", "PATCH", "DELETE", "HEAD",
                             "OPTIONS", "CONNECT", "TRACE"}
    BY <2>1, <2>2
  <2> QED BY Zenon, <2>5, <2>6, <2>7
<1>7. MethodNames[i] \in ToSet(MethodNames)
  BY Zenon, <1>5 DEF ToSet
<1>8. MethodFromString(MethodToString(m)) = m
  BY Zenon, <1>2, <1>3, <1>6 DEF MethodFromString
<1>9. Len(<<MethodToString(m)>>) = 1 /\ <<MethodToString(m)>>[1] = MethodToString(m)
  OBVIOUS
<1> QED BY Zenon, <1>3, <1>6, <1>7, <1>8, <1>9 DEF MethodOf

\* What is read is one of the enumerators.
LEMMA MethodFromType ==
  ASSUME NEW s
  PROVE  MethodFromString(s) \in ToSet(MethodOrder) /\ "None" \in ToSet(MethodOrder)
<1> DEFINE m == MethodOr(s, "None")
<1>1. m \in {"None", "Get", "Post", "Put", "Patch", "Delete", "Head", "Options",
             "Connect", "Trace"}
  BY DEF MethodOr
<1>2. \A x \in {"None", "Get", "Post", "Put", "Patch", "Delete", "Head", "Options",
                "Connect", "Trace"} : \E j \in DOMAIN MethodOrder : MethodOrder[j] = x
  <2>1. /\ 1 \in DOMAIN MethodOrder /\ 2 \in DOMAIN MethodOrder /\ 3 \in DOMAIN MethodOrder
        /\ 4 \in DOMAIN MethodOrder /\ 5 \in DOMAIN MethodOrder /\ 6 \in DOMAIN MethodOrder
        /\ 7 \in DOMAIN MethodOrder /\ 8 \in DOMAIN MethodOrder /\ 9 \in DOMAIN MethodOrder
        /\ 10 \in DOMAIN MethodOrder
    BY DEF MethodOrder
  <2>2. /\ MethodOrder[1] = "None" /\ MethodOrder[2] = "Get" /\ MethodOrder[3] = "Post"
        /\ MethodOrder[4] = "Put" /\ MethodOrder[5] = "Patch" /\ MethodOrder[6] = "Delete"
        /\ MethodOrder[7] = "Head" /\ MethodOrder[8] = "Options"
        /\ MethodOrder[9] = "Connect" /\ MethodOrder[10] = "Trace"
    BY DEF MethodOrder
  <2> QED BY <2>1, <2>2
<1> QED BY Zenon, <1>1, <1>2 DEF MethodFromString, ToSet

\* And so is what is read of any text.
LEMMA MethodOfType ==
  ASSUME NEW s
  PROVE  MethodOf(s) \in ToSet(MethodOrder)
BY Zenon, MethodFromType DEF MethodOf

-----------------------------------------------------------------------------
(* The numbers.                                                            *)

\* The ten digits are in the order of their values.
LEMMA DigitIs ==
  /\ \A b \in 0 .. 9 : Digits[b + 1] \in ToSet(Digits) /\ DigitOf(Digits[b + 1]) = b
  /\ \A c \in ToSet(Digits) : DigitOf(c) \in 0 .. 9
<1>1. DOMAIN Digits = 1 .. 10
  BY DEF Digits
<1>2. \A b, e \in 0 .. 9 : Digits[b + 1] = Digits[e + 1] => b = e
  <2>1. /\ Digits[1] = "0" /\ Digits[2] = "1" /\ Digits[3] = "2" /\ Digits[4] = "3"
        /\ Digits[5] = "4" /\ Digits[6] = "5" /\ Digits[7] = "6" /\ Digits[8] = "7"
        /\ Digits[9] = "8" /\ Digits[10] = "9"
    BY DEF Digits
  <2> SUFFICES ASSUME NEW b \in 0 .. 9, NEW e \in 0 .. 9, Digits[b + 1] = Digits[e + 1]
               PROVE  b = e
    OBVIOUS
  <2>2. b \in {0, 1, 2, 3, 4, 5, 6, 7, 8, 9} /\ e \in {0, 1, 2, 3, 4, 5, 6, 7, 8, 9}
    OBVIOUS
  <2>3. /\ Digits[0 + 1] = "0" /\ Digits[1 + 1] = "1" /\ Digits[2 + 1] = "2"
        /\ Digits[3 + 1] = "3" /\ Digits[4 + 1] = "4" /\ Digits[5 + 1] = "5"
        /\ Digits[6 + 1] = "6" /\ Digits[7 + 1] = "7" /\ Digits[8 + 1] = "8"
        /\ Digits[9 + 1] = "9"
    BY <2>1
  <2> QED BY <2>2, <2>3
<1>3. ASSUME NEW b \in 0 .. 9
      PROVE  Digits[b + 1] \in ToSet(Digits) /\ DigitOf(Digits[b + 1]) = b
  <2>1. b + 1 \in 1 .. 10
    OBVIOUS
  <2>2. Digits[b + 1] \in ToSet(Digits)
    BY Zenon, <1>1, <2>1 DEF ToSet
  <2> DEFINE d == DigitOf(Digits[b + 1])
  <2>3. d \in 0 .. 9 /\ Digits[d + 1] = Digits[b + 1]
    BY Zenon DEF DigitOf
  <2> HIDE DEF d
  <2>4. d = b
    BY <1>2, <2>3
  <2> QED BY <2>2, <2>4 DEF d
<1>4. ASSUME NEW c \in ToSet(Digits) PROVE DigitOf(c) \in 0 .. 9
  <2>1. PICK i \in DOMAIN Digits : Digits[i] = c
    BY Zenon DEF ToSet
  <2>2. i - 1 \in 0 .. 9 /\ (i - 1) + 1 = i
    BY <1>1
  <2>3. DigitOf(c) = i - 1
    BY Zenon, <1>3, <2>1, <2>2
  <2> QED BY <2>2, <2>3
<1> QED BY <1>3, <1>4

\* The numbers of the first digits, one after the other.
IsCounting(f, s) ==
  f = [k \in 0 .. Len(s) |-> IF k = 0 THEN 0 ELSE 10 * f[k - 1] + DigitOf(s[k])]

\* The number so far grows digit by digit.
LEMMA CountingIs ==
  ASSUME NEW s \in Seq(ToSet(Digits))
  PROVE  /\ Counting(s)[0] = 0 /\ \A k \in 0 .. Len(s) : Counting(s)[k] \in Nat
         /\ \A k \in 1 .. Len(s) :
              Counting(s)[k] = 10 * Counting(s)[k - 1] + DigitOf(s[k])
<1> DEFINE n == Len(s)
           base == 0
           step == [p \in Nat \X (1 .. n) |-> 10 * p[1] + DigitOf(s[p[2]])]
<1>1. n \in Nat /\ \A k \in 1 .. n : s[k] \in ToSet(Digits)
  OBVIOUS
<1>2. \A k \in 1 .. n : DigitOf(s[k]) \in Nat
  <2>1. \A k \in 1 .. n : DigitOf(s[k]) \in 0 .. 9
    BY Zenon, <1>1, DigitIs
  <2> QED BY <2>1
<1> HIDE DEF n
<1>3. step \in [Nat \X (1 .. n) -> Nat]
  BY <1>2
<1>4. \A a \in Nat, k \in 1 .. n : step[<<a, k>>] = 10 * a + DigitOf(s[k])
  OBVIOUS
<1> HIDE DEF step
<1>5. base \in Nat
  OBVIOUS
<1> HIDE DEF base
<1>6. \E g \in [0 .. n -> Nat] : Follows(g, base, n, step)
  BY Zenon, <1>1, <1>3, <1>5, Recursion
<1>7. PICK g : /\ g \in [0 .. n -> Nat]
               /\ g[0] = base
               /\ \A k \in 1 .. n : g[k] = step[<<g[k - 1], k>>]
  BY Zenon, <1>6 DEF Follows
<1>8. ASSUME NEW k \in 0 .. n
      PROVE  g[k] = IF k = 0 THEN base ELSE 10 * g[k - 1] + DigitOf(s[k])
  <2>1. CASE k = 0
    BY <1>7, <2>1
  <2>2. CASE k # 0
    <3>1. k \in 1 .. n /\ k - 1 \in 0 .. n
      BY <1>1, <2>2
    <3>2. g[k - 1] \in Nat
      BY <1>7, <3>1
    <3>3. g[k] = 10 * g[k - 1] + DigitOf(s[k])
      BY Zenon, <1>4, <1>7, <3>1, <3>2
    <3> QED BY Zenon, <2>2, <3>3
  <2> QED BY <2>1, <2>2
<1>9. g = [k \in 0 .. n |-> IF k = 0 THEN base ELSE 10 * g[k - 1] + DigitOf(s[k])]
  BY <1>7, <1>8
<1>10. \E f : IsCounting(f, s)
  BY Zenon, <1>9 DEF IsCounting, n, base
<1> DEFINE f == Counting(s)
<1>11. IsCounting(f, s)
  BY Zenon, <1>10 DEF IsCounting, Counting
<1> HIDE DEF f
<1>12. \A k \in 0 .. n : f[k] = IF k = 0 THEN base ELSE 10 * f[k - 1] + DigitOf(s[k])
  <2>1. f = [k \in 0 .. n |-> IF k = 0 THEN base ELSE 10 * f[k - 1] + DigitOf(s[k])]
    BY Zenon, <1>11 DEF IsCounting, n, base
  <2> QED BY <2>1
<1>13. 0 \in 0 .. n /\ \A k \in 1 .. n : k \in 0 .. n /\ k # 0
  BY <1>1
<1>14. f[0] = g[0]
  BY Zenon, <1>8, <1>12, <1>13
<1>15. ASSUME NEW k \in 1 .. n, f[k - 1] = g[k - 1] PROVE f[k] = g[k]
  BY Zenon, <1>8, <1>12, <1>13, <1>15
<1>16. \A k \in 0 .. n : f[k] = g[k]
  <2>1. n \in Nat
    BY <1>1
  <2>2. AgreeByStep(f, g, n)
    BY Zenon, <1>14, <1>15 DEF AgreeByStep
  <2> QED BY Zenon, <2>1, <2>2, SameByStep
<1>17. f[0] = 0
  BY <1>7, <1>14 DEF base
<1>18. \A k \in 0 .. n : f[k] \in Nat
  BY <1>7, <1>16
<1>19. \A k \in 1 .. n : f[k] = 10 * f[k - 1] + DigitOf(s[k])
  BY Zenon, <1>12, <1>13
<1> QED BY <1>17, <1>18, <1>19 DEF f, n

\* The last digit of a number is that of its text.
LEMMA NumberIs ==
  ASSUME NEW s \in Seq(ToSet(Digits)), s # <<>>
  PROVE  /\ NumberOf(s) \in Nat /\ NumberOf(s) % 10 = DigitOf(s[Len(s)])
         /\ Len(s) = 1 => NumberOf(s) = DigitOf(s[1])
<1> DEFINE n == Len(s)
           f == Counting(s)
           d == DigitOf(s[n])
<1>1. n \in Nat \ {0} /\ n \in 1 .. n /\ n - 1 \in 0 .. n /\ s[n] \in ToSet(Digits)
  OBVIOUS
<1>2. f[0] = 0 /\ f[n - 1] \in Nat /\ f[n] = 10 * f[n - 1] + d
  <2> HIDE DEF f
  <2> QED BY Zenon, <1>1, CountingIs DEF f
<1>3. d \in 0 .. 9
  BY Zenon, <1>1, DigitIs
<1>4. NumberOf(s) = f[n]
  BY Zenon DEF NumberOf
<1> HIDE DEF f, d, n
<1>5. f[n] \in Nat /\ f[n] % 10 = d
  BY <1>2, <1>3
<1>6. n = 1 => f[n] = d
  <2>1. n = 1 => n - 1 = 0
    OBVIOUS
  <2>2. n = 1 => f[n - 1] = 0
    BY Zenon, <1>2, <2>1
  <2> QED BY <1>2, <1>3, <2>2
<1> QED BY Zenon, <1>4, <1>5, <1>6 DEF d, n

\* The digits at the beginning of a text of digits are all of it.
LEMMA LeadingIs ==
  ASSUME NEW s \in Seq(ToSet(Digits))
  PROVE  LeadingDigits(s) = s
<1> DEFINE D == ToSet(Digits)
           others == {k \in DOMAIN s : s[k] \notin D}
<1>1. LeadingDigits(s) = SubSeq(s, 1, IF others = {} THEN Len(s) ELSE Min(others) - 1)
  BY Zenon DEF LeadingDigits
<1>2. others = {}
  <2> HIDE DEF D
  <2>1. \A k \in DOMAIN s : s[k] \in D
    BY DEF D
  <2> QED BY <2>1
<1>3. LeadingDigits(s) = SubSeq(s, 1, Len(s))
  BY Zenon, <1>1, <1>2
<1> QED BY <1>3

\* The length that is written of a short body is read again.
LEMMA LengthIs ==
  ASSUME NEW b \in 0 .. 9
  PROVE  NumberOf(LeadingDigits(<<Digits[b + 1]>>)) = b
<1> DEFINE D == ToSet(Digits)
           d == Digits[b + 1]
           v == <<d>>
<1>1. d \in D /\ DigitOf(d) = b
  BY Zenon, DigitIs
<1> HIDE DEF d, D
<1>2. v \in Seq(D) /\ v # <<>> /\ Len(v) = 1 /\ v[1] = d
  BY <1>1
<1> HIDE DEF v
<1>3. LeadingDigits(v) = v
  BY Zenon, <1>2, LeadingIs DEF D
<1>4. NumberOf(v) = b
  BY Zenon, <1>1, <1>2, NumberIs DEF D
<1> QED BY Zenon, <1>3, <1>4 DEF v, d

-----------------------------------------------------------------------------
(* The header lines.                                                       *)

\* A line of a key and a value that the receiver reads as another key.
IsLine(line, k, v) ==
  /\ ColonOf(line) # -1 /\ ~TooShort(line) /\ ~EndsHeader(line)
  /\ HeaderField(line) = <<k, v>> /\ line \in Seq(Chars)

Lowered(k) == [i \in 1 .. Len(k) |-> Lower(k[i])]

\* What can be a key: the ':' is found behind it, and it is not an end.
CanBeKey(k) ==
  /\ k \in Seq(Chars) /\ Len(k) >= 2 /\ k[1] # CR
  /\ \A i \in 3 .. Len(k) : k[i] # ":"

\* What the two parts of a concatenation are.
LEMMA ConcatAt ==
  ASSUME NEW S, NEW s1 \in Seq(S), NEW s2 \in Seq(S)
  PROVE  /\ s1 \o s2 \in Seq(S) /\ Len(s1 \o s2) = Len(s1) + Len(s2)
         /\ \A i \in 1 .. Len(s1) : (s1 \o s2)[i] = s1[i]
         /\ \A i \in 1 .. Len(s2) : (s1 \o s2)[Len(s1) + i] = s2[i]
<1> DEFINE s == s1 \o s2
<1>1. /\ s \in Seq(S) /\ Len(s) = Len(s1) + Len(s2)
      /\ \A i \in 1 .. Len(s1) + Len(s2) :
           s[i] = IF i <= Len(s1) THEN s1[i] ELSE s2[i - Len(s1)]
  BY Zenon, ConcatProperties
<1>2. Len(s1) \in Nat /\ Len(s2) \in Nat
  OBVIOUS
<1> HIDE DEF s
<1>3. \A i \in 1 .. Len(s1) : s[i] = s1[i]
  BY <1>1, <1>2
<1>4. \A i \in 1 .. Len(s2) : s[Len(s1) + i] = s2[i]
  BY <1>1, <1>2
<1> QED BY <1>1, <1>3, <1>4 DEF s

\* A field that is written as a line is read again.
LEMMA LineIsRead ==
  ASSUME {":", Space, CR} \subseteq Chars, NEW k, CanBeKey(k), NEW v \in Seq(Chars)
  PROVE  IsLine(AsString(k, v), Lowered(k), v)
<1> DEFINE between == <<":", Space>>
           end == <<CR>>
           line == AsString(k, v)
           n == Len(k)
           m == Len(v)
<1>1. ":" \in Chars /\ Space \in Chars /\ CR \in Chars
  BY Zenon
<1>2. /\ between \in Seq(Chars) /\ Len(between) = 2 /\ between[1] = ":"
      /\ end \in Seq(Chars) /\ Len(end) = 1
  BY <1>1, TwoIs
<1>3. k \in Seq(Chars) /\ n \in Nat /\ n >= 2 /\ k[1] # CR /\ m \in Nat
      /\ \A i \in 3 .. n : k[i] # ":"
  BY DEF CanBeKey
<1>4. line = k \o between \o v \o end
  BY Zenon DEF AsString, WriteField
<1> HIDE DEF between, end, line
<1> DEFINE kb == k \o between
           kv == kb \o v
           kl == kv \o end
<1>5. /\ kb \in Seq(Chars) /\ Len(kb) = n + 2
      /\ \A i \in 1 .. n : kb[i] = k[i]
      /\ \A i \in 1 .. 2 : kb[n + i] = between[i]
  <2>1. between \in Seq(Chars) /\ k \in Seq(Chars)
    BY <1>2, <1>3
  <2>2. /\ kb \in Seq(Chars) /\ Len(kb) = Len(k) + Len(between)
        /\ \A i \in 1 .. Len(k) : kb[i] = k[i]
        /\ \A i \in 1 .. Len(between) : kb[Len(k) + i] = between[i]
    BY <2>1, ConcatAt
  <2> HIDE DEF kb
  <2> QED BY <1>2, <2>2
<1> HIDE DEF kb
<1>6. /\ kv \in Seq(Chars) /\ Len(kv) = (n + 2) + m
      /\ \A i \in 1 .. n + 2 : kv[i] = kb[i]
      /\ \A i \in 1 .. m : kv[(n + 2) + i] = v[i]
  <2>1. kb \in Seq(Chars) /\ v \in Seq(Chars)
    BY <1>5
  <2>2. /\ kv \in Seq(Chars) /\ Len(kv) = Len(kb) + Len(v)
        /\ \A i \in 1 .. Len(kb) : kv[i] = kb[i]
        /\ \A i \in 1 .. Len(v) : kv[Len(kb) + i] = v[i]
    BY <2>1, ConcatAt
  <2> HIDE DEF kv
  <2> QED BY <1>5, <2>2
<1> HIDE DEF kv
<1>7. /\ line \in Seq(Chars) /\ Len(line) = ((n + 2) + m) + 1
      /\ \A i \in 1 .. (n + 2) + m : line[i] = kv[i]
  <2>1. line = kl
    BY Zenon, <1>4 DEF kb, kv
  <2>2. /\ kl \in Seq(Chars) /\ Len(kl) = ((n + 2) + m) + 1
        /\ \A i \in 1 .. (n + 2) + m : kl[i] = kv[i]
    <3>1. kv \in Seq(Chars) /\ end \in Seq(Chars)
      BY <1>2, <1>6
    <3>2. /\ kl \in Seq(Chars) /\ Len(kl) = Len(kv) + Len(end)
          /\ \A i \in 1 .. Len(kv) : kl[i] = kv[i]
      BY <3>1, ConcatAt
    <3> HIDE DEF kl
    <3> QED BY <1>2, <1>6, <3>2
  <2> QED BY Zenon, <2>1, <2>2
<1> HIDE DEF kl
<1> HIDE DEF n, m
<1>8. /\ \A i \in 1 .. n : line[i] = k[i]
      /\ line[n + 1] = ":" /\ \A i \in 1 .. m : line[n + 2 + i] = v[i]
  <2>1. \A i \in 1 .. n : i \in 1 .. n + 2 /\ i \in 1 .. n + 2 + m
    BY <1>3
  <2>2. n + 1 \in 1 .. n + 2 /\ n + 1 \in 1 .. n + 2 + m
    BY <1>3
  <2>3. \A i \in 1 .. m : n + 2 + i \in 1 .. n + 2 + m
    BY <1>3
  <2>4. 1 \in 1 .. 2
    OBVIOUS
  <2> QED BY Zenon, <1>2, <1>5, <1>6, <1>7, <2>1, <2>2, <2>3, <2>4
<1>9. ColonOf(line) = n
  <2>1. n \in 2 .. Len(line) - 1 /\ Len(line) \in Nat /\ 2 \in Nat /\ 2 + 1 = 3
    BY <1>3, <1>7
  <2>2. \A i \in 3 .. n : line[i] # ":"
    <3>1. \A i \in 3 .. n : i \in 1 .. n
      BY <1>3
    <3> QED BY <1>3, <1>8, <3>1
  <2>3. FirstAt(line, ":", 2, n)
    BY Zenon, <1>8, <2>1, <2>2 DEF FirstAt
  <2> QED BY Zenon, <2>1, <2>3, FindFirst DEF ColonOf
<1>10. n # -1 /\ ~(n + 2 > Len(line))
  BY <1>3, <1>7
<1>11. ~TooShort(line)
  BY Zenon, <1>9, <1>10 DEF TooShort
<1>12. ~EndsHeader(line)
  <2>1. line[1] # CR
    BY <1>3, <1>8
  <2> QED BY Zenon, <2>1 DEF EndsHeader
<1>13. [i \in 1 .. n |-> Lower(line[i])] = Lowered(k)
  BY Zenon, <1>8 DEF Lowered, n
<1>14. SubSeq(line, n + 3, Len(line) - 1) = v
  <2> DEFINE u == SubSeq(line, n + 3, Len(line) - 1)
  <2> DEFINE b == Len(line) - 1
  <2>0. n + 3 \in Int /\ b \in Int /\ b - (n + 3) + 1 = m /\ (n + 3 <= b <=> m # 0)
    BY <1>3, <1>7
  <2>a. \A i \in n + 3 .. b : line[i] \in Chars
    <3>1. \A i \in n + 3 .. b : i \in 1 .. Len(line)
      BY <1>3, <1>7
    <3> QED BY <1>7, <3>1, ElementOfSeq
  <2> HIDE DEF b
  <2>b. /\ SubSeq(line, n + 3, b) \in Seq(Chars)
        /\ Len(SubSeq(line, n + 3, b)) = IF n + 3 <= b THEN b - (n + 3) + 1 ELSE 0
        /\ \A i \in 1 .. b - (n + 3) + 1 :
             SubSeq(line, n + 3, b)[i] = line[(n + 3) + i - 1]
    <3> DEFINE a == n + 3
    <3>1. a \in Int /\ b \in Int /\ \A i \in a .. b : line[i] \in Chars
      BY <2>0, <2>a
    <3> HIDE DEF a
    <3>2. /\ SubSeq(line, a, b) \in Seq(Chars)
          /\ Len(SubSeq(line, a, b)) = IF a <= b THEN b - a + 1 ELSE 0
          /\ \A i \in 1 .. b - a + 1 : SubSeq(line, a, b)[i] = line[a + i - 1]
      BY <3>1, SubSeqProperties
    <3> QED BY Zenon, <3>2 DEF a
  <2>1. /\ u \in Seq(Chars) /\ Len(u) = m
        /\ \A i \in 1 .. m : u[i] = line[n + 3 + i - 1]
    <3>1. u = SubSeq(line, n + 3, b)
      BY DEF b
    <3> HIDE DEF u
    <3>2. u \in Seq(Chars) /\ \A i \in 1 .. m : u[i] = line[n + 3 + i - 1]
      BY Zenon, <2>0, <2>b, <3>1
    <3>3. Len(u) = IF m # 0 THEN m ELSE 0
      BY Zenon, <2>0, <2>b, <3>1
    <3> QED BY <3>2, <3>3
  <2>2. \A i \in 1 .. m : n + 3 + i - 1 = n + 2 + i
    BY <1>3
  <2> HIDE DEF u
  <2>3. \A i \in 1 .. m : u[i] = v[i]
    BY Zenon, <1>8, <2>1, <2>2
  <2>4. u = v
    BY <2>1, <2>3, SeqEqual DEF m
  <2> QED BY <2>4 DEF u
<1>15. HeaderField(line) = <<Lowered(k), v>>
  BY Zenon, <1>9, <1>13, <1>14 DEF HeaderField
<1> QED BY Zenon, <1>7, <1>9, <1>10, <1>11, <1>12, <1>15 DEF IsLine, line

\* Lines of which all are such are all read.
AllLines(lines, n) == \A i \in 1 .. n : \E k, v : IsLine(lines[i], k, v)

\* They are the fields of the header.
LEMMA FieldsAre ==
  ASSUME NEW lines, NEW n \in Nat, DOMAIN lines = 1 .. n, AllLines(lines, n)
  PROVE  /\ ~Throws(lines)
         /\ FieldsOf(lines) = EmplaceAll([i \in 1 .. n |-> HeaderField(lines[i])])
<1>1. \A i \in 1 .. n : /\ ColonOf(lines[i]) # -1 /\ ~TooShort(lines[i])
                        /\ ~EndsHeader(lines[i])
  BY Zenon DEF AllLines, IsLine
<1>2. ~Throws(lines)
  BY Zenon, <1>1 DEF Throws
<1>3. \A i \in 1 .. n : \A j \in 1 .. i : j \in 1 .. n
  OBVIOUS
<1>4. FieldLines(lines) = 1 .. n
  <2>1. \A i \in 1 .. n : \A j \in 1 .. i : ~EndsHeader(lines[j])
    BY Zenon, <1>1, <1>3
  <2>2. FieldLines(lines) = {k \in 1 .. n : /\ ColonOf(lines[k]) # -1
                                            /\ \A j \in 1 .. k : ~EndsHeader(lines[j])}
    BY Zenon DEF FieldLines
  <2> QED BY <1>1, <2>1, <2>2
<1> QED BY Zenon, <1>2, <1>4 DEF FieldsOf

\* What the request's own symbols are.
LEMMA SymbolsIn ==
  ASSUME Symbols \subseteq Chars
  PROVE  /\ {":", Space, CR, "U", "A", "C", "L", "o", Slash, "?", "&", "="} \subseteq Chars
         /\ \A b \in 0 .. 9 : Digits[b + 1] \in Chars
         /\ ToSet(MethodNames) \subseteq Chars /\ "HTTP/1.1" \in Chars
<1>1. ToSet(Digits) \subseteq Symbols
  BY Zenon DEF Symbols
<1>2. {Slash, Space, CR, "?", "&", "=", ":", "U", "A", "C", "L", "o"} \subseteq Symbols
  BY Zenon DEF Symbols
<1>3. \A b \in 0 .. 9 : Digits[b + 1] \in Chars
  BY Zenon, <1>1, DigitIs
<1>4. ToSet(MethodNames) \subseteq Symbols /\ "HTTP/1.1" \in Symbols
  BY Zenon DEF Symbols
<1> QED BY Zenon, <1>2, <1>3, <1>4

\* The first letters of the keys that are added do not end the header.
LEMMA NotCR == "U" # CR /\ "C" # CR
BY Zenon DEF CR

\* Two letters are a key, of two other letters.
LEMMA TwoLetters ==
  ASSUME NEW a \in Chars, NEW b \in Chars, a # CR
  PROVE  CanBeKey(<<a, b>>) /\ Lowered(<<a, b>>) = <<Lower(a), Lower(b)>>
<1> DEFINE k == <<a, b>>
           la == Lower(a)
           lb == Lower(b)
<1> HIDE DEF la, lb
<1>1. k \in Seq(Chars) /\ Len(k) = 2
  BY TwoIs
<1>2. k[1] = a /\ k[2] = b
  OBVIOUS
<1>3. Lowered(k) = <<la, lb>>
  <2>1. Lowered(k) = [i \in 1 .. 2 |-> Lower(k[i])]
    BY Zenon, <1>1 DEF Lowered
  <2>2. \A i \in 1 .. 2 : Lower(k[i]) = <<la, lb>>[i]
    BY <1>2 DEF la, lb
  <2> DEFINE l == <<la, lb>>
  <2>3. l = [i \in 1 .. 2 |-> l[i]]
    OBVIOUS
  <2> HIDE DEF k, l
  <2>4. [i \in 1 .. 2 |-> Lower(k[i])] = [i \in 1 .. 2 |-> l[i]]
    BY <2>2 DEF l
  <2> QED BY Zenon, <2>1, <2>3, <2>4 DEF l
<1> HIDE DEF k
<1>4. k \in Seq(Chars) /\ Len(k) >= 2 /\ k[1] # CR /\ \A i \in 3 .. Len(k) : k[i] # ":"
  BY <1>1, <1>2
<1> QED BY Zenon, <1>3, <1>4 DEF CanBeKey, k, la, lb

\* The lines that the request adds.
AgentLine == WriteField(<<"U", "A">>, <<"o">>, <<":", Space>>)
LengthLine == WriteField(<<"C", "L">>, <<Digits[body + 1]>>, <<":", Space>>)

\* They are read under the keys user-agent and content-length.
LEMMA OwnLines ==
  ASSUME Symbols \subseteq Chars
  PROVE  /\ IsLine(AgentLine, AgentKey, <<"o">>)
         /\ body \in 0 .. 9 => IsLine(LengthLine, LengthKey, <<Digits[body + 1]>>)
         /\ AgentKey # LengthKey
<1>1. {":", Space, CR} \subseteq Chars /\ "U" \in Chars /\ "A" \in Chars /\ "C" \in Chars
      /\ "L" \in Chars /\ "o" \in Chars
  BY Zenon, SymbolsIn
<1>2. /\ Lower("U") = "u" /\ Lower("A") = "a" /\ Lower("C") = "c" /\ Lower("L") = "l"
  BY DEF Lower
<1>3. CanBeKey(<<"U", "A">>) /\ Lowered(<<"U", "A">>) = AgentKey
  <2>1. CanBeKey(<<"U", "A">>)
        /\ Lowered(<<"U", "A">>) = <<Lower("U"), Lower("A")>>
    BY Zenon, <1>1, TwoLetters, NotCR
  <2> QED BY Zenon, <1>2, <2>1 DEF AgentKey
<1>4. CanBeKey(<<"C", "L">>) /\ Lowered(<<"C", "L">>) = LengthKey
  <2>1. CanBeKey(<<"C", "L">>)
        /\ Lowered(<<"C", "L">>) = <<Lower("C"), Lower("L")>>
    BY Zenon, <1>1, TwoLetters, NotCR
  <2> QED BY Zenon, <1>2, <2>1 DEF LengthKey
<1>5. IsLine(AgentLine, AgentKey, <<"o">>)
  <2>1. <<"o">> \in Seq(Chars)
    BY <1>1
  <2>2. AgentLine = AsString(<<"U", "A">>, <<"o">>)
    BY Zenon DEF AgentLine, AsString
  <2>3. IsLine(AsString(<<"U", "A">>, <<"o">>), Lowered(<<"U", "A">>), <<"o">>)
    BY Zenon, <1>1, <1>3, <2>1, LineIsRead
  <2> QED BY Zenon, <1>3, <2>2, <2>3
<1>6. ASSUME body \in 0 .. 9
      PROVE  IsLine(LengthLine, LengthKey, <<Digits[body + 1]>>)
  <2> DEFINE d == Digits[body + 1]
  <2>1. d \in Chars
    BY Zenon, <1>6, SymbolsIn
  <2>2. LengthLine = AsString(<<"C", "L">>, <<d>>)
    BY Zenon DEF LengthLine, AsString
  <2> HIDE DEF d
  <2>3. <<d>> \in Seq(Chars)
    BY <2>1
  <2>4. IsLine(AsString(<<"C", "L">>, <<d>>), Lowered(<<"C", "L">>), <<d>>)
    BY Zenon, <1>1, <1>4, <2>3, LineIsRead
  <2> QED BY Zenon, <1>4, <2>2, <2>4 DEF d
<1>7. AgentKey # LengthKey
  BY DEF AgentKey, LengthKey
<1> QED BY <1>5, <1>6, <1>7

\* The fields of a request: keys that can be read, in lower case, and texts.
IsHeader(f) ==
  /\ IsMap(f)
  /\ \A k \in DOMAIN f : CanBeKey(k) /\ Lowered(k) = k /\ f[k] \in Seq(Chars)

\* What is written as the first n lines, and behind them.
OwnLine(line) ==
  \/ line = AgentLine
  \/ line = LengthLine /\ body # None

Written(lines, n, keys) ==
  /\ DOMAIN lines = 1 .. Len(lines) /\ Len(lines) \in Nat /\ n \in 0 .. Len(lines)
  /\ \A i \in 1 .. n : lines[i] = AsString(keys[i], headers[keys[i]])
  /\ \A i \in n + 1 .. Len(lines) : OwnLine(lines[i])
  /\ body # None => Len(lines) > n /\ lines[Len(lines)] = LengthLine

\* Those are the lines that prepare_request() writes.
LEMMA WriteLinesAre ==
  ASSUME Symbols \subseteq Chars, IsHeader(headers), body \in (0 .. 9) \cup {None},
         NEW keys \in SetToSeqs(DOMAIN headers)
  PROVE  /\ Written(WriteLines(keys), Len(keys), keys)
         /\ WriteLines(keys) \in Seq(Seq(Chars))
<1> DEFINE T == Seq(Chars)
           base == [i \in DOMAIN keys |-> AsString(keys[i], headers[keys[i]])]
           agent == IF AgentKey \in DOMAIN headers THEN <<>> ELSE <<AgentLine>>
           length == IF body = None THEN <<>> ELSE <<LengthLine>>
           n == Len(keys)
           u == Len(agent)
           l == Len(length)
<1>1. /\ keys \in Seq(DOMAIN headers) /\ DOMAIN keys = 1 .. n /\ n \in Nat
  <2>1. IsFiniteSet(DOMAIN headers)
    BY Zenon DEF IsHeader, IsMap
  <2> QED BY Zenon, <2>1, OrderIs
<1>2. {":", Space, CR} \subseteq Chars
  BY Zenon, SymbolsIn
<1>3. \A i \in 1 .. n : AsString(keys[i], headers[keys[i]]) \in T
  <2> TAKE i \in 1 .. n
  <2>1. keys[i] \in DOMAIN headers
    BY <1>1
  <2>2. CanBeKey(keys[i]) /\ headers[keys[i]] \in Seq(Chars)
    BY Zenon, <2>1 DEF IsHeader
  <2> QED BY Zenon, <1>2, <2>2, LineIsRead DEF IsLine
<1>4. AgentLine \in T /\ (body # None => LengthLine \in T)
  BY Zenon, OwnLines DEF IsLine
<1> HIDE DEF T
<1>5. /\ base \in [1 .. n -> T]
      /\ \A i \in 1 .. n : base[i] = AsString(keys[i], headers[keys[i]])
  BY Zenon, <1>1, <1>3
<1> HIDE DEF base, n
<1>6. base \in Seq(T) /\ Len(base) = n
  BY Zenon, <1>1, <1>5, IsSeq
<1>7. agent \in Seq(T) /\ u \in Nat /\ \A i \in 1 .. u : agent[i] = AgentLine
  BY <1>4
<1>8. /\ length \in Seq(T) /\ l \in Nat /\ l = (IF body = None THEN 0 ELSE 1)
      /\ \A i \in 1 .. l : length[i] = LengthLine /\ body # None
  BY <1>4
<1> DEFINE first == base \o agent
           lines == first \o length
<1>9. WriteLines(keys) = lines
  BY Zenon DEF WriteLines, base, AgentLine, LengthLine
<1> HIDE DEF agent, length, u, l
<1>10. /\ first \in Seq(T) /\ Len(first) = n + u
       /\ \A i \in 1 .. n : first[i] = base[i]
       /\ \A i \in 1 .. u : first[n + i] = agent[i]
  <2>1. /\ first \in Seq(T) /\ Len(first) = Len(base) + Len(agent)
        /\ \A i \in 1 .. Len(base) : first[i] = base[i]
        /\ \A i \in 1 .. Len(agent) : first[Len(base) + i] = agent[i]
    <3>1. base \in Seq(T) /\ agent \in Seq(T)
      BY <1>6, <1>7
    <3> QED BY <3>1, ConcatAt
  <2> HIDE DEF first
  <2> QED BY Zenon, <1>6, <2>1 DEF u
<1> HIDE DEF first
<1>11. /\ lines \in Seq(T) /\ Len(lines) = (n + u) + l
       /\ \A i \in 1 .. n + u : lines[i] = first[i]
       /\ \A i \in 1 .. l : lines[(n + u) + i] = length[i]
  <2>1. /\ lines \in Seq(T) /\ Len(lines) = Len(first) + Len(length)
        /\ \A i \in 1 .. Len(first) : lines[i] = first[i]
        /\ \A i \in 1 .. Len(length) : lines[Len(first) + i] = length[i]
    <3>1. first \in Seq(T) /\ length \in Seq(T)
      BY <1>8, <1>10
    <3> QED BY <3>1, ConcatAt
  <2> HIDE DEF lines
  <2> QED BY Zenon, <1>10, <2>1 DEF l
<1> HIDE DEF lines
<1>12. Len(lines) \in Nat /\ DOMAIN lines = 1 .. Len(lines) /\ n \in 0 .. Len(lines)
  BY <1>1, <1>7, <1>8, <1>11
<1>13. \A i \in 1 .. n : lines[i] = AsString(keys[i], headers[keys[i]])
  <2>1. \A i \in 1 .. n : i \in 1 .. n + u
    BY <1>1, <1>7
  <2> QED BY Zenon, <1>5, <1>10, <1>11, <2>1
<1>14. \A i \in n + 1 .. Len(lines) : OwnLine(lines[i])
  <2> TAKE i \in n + 1 .. Len(lines)
  <2>1. CASE i <= n + u
    <3>1. i \in 1 .. n + u /\ i - n \in 1 .. u /\ n + (i - n) = i
      BY <1>1, <1>7, <1>8, <1>11, <2>1
    <3>2. lines[i] = AgentLine
      BY Zenon, <1>7, <1>10, <1>11, <3>1
    <3> QED BY Zenon, <3>2 DEF OwnLine
  <2>2. CASE i > n + u
    <3>1. i - (n + u) \in 1 .. l /\ (n + u) + (i - (n + u)) = i
      BY <1>1, <1>7, <1>8, <1>11, <2>2
    <3>2. lines[i] = LengthLine /\ body # None
      BY Zenon, <1>8, <1>11, <3>1
    <3> QED BY Zenon, <3>2 DEF OwnLine
  <2>3. i \in Int /\ n + u \in Int
    BY <1>1, <1>7, <1>8, <1>11
  <2> QED BY <2>1, <2>2, <2>3
<1>15. ASSUME body # None PROVE Len(lines) > n /\ lines[Len(lines)] = LengthLine
  <2>1. l = 1 /\ 1 \in 1 .. l /\ Len(lines) = (n + u) + 1
    BY <1>1, <1>7, <1>8, <1>11, <1>15
  <2>2. Len(lines) > n
    BY <1>1, <1>7, <2>1
  <2> QED BY Zenon, <1>8, <1>11, <2>1, <2>2
<1>16. Written(lines, n, keys)
  BY Zenon, <1>12, <1>13, <1>14, <1>15 DEF Written
<1> QED BY Zenon, <1>9, <1>11, <1>16 DEF T, n

\* A written header is read again.
LEMMA WrittenFields ==
  ASSUME Symbols \subseteq Chars, IsHeader(headers), body \in (0 .. 9) \cup {None},
         NEW keys \in SetToSeqs(DOMAIN headers), NEW lines,
         Written(lines, Len(keys), keys)
  PROVE  /\ ~Throws(lines)
         /\ \A k \in DOMAIN headers :
              k \in DOMAIN FieldsOf(lines) /\ FieldsOf(lines)[k] = headers[k]
         /\ DOMAIN FieldsOf(lines) \subseteq DOMAIN headers \cup {AgentKey, LengthKey}
         /\ body # None /\ LengthKey \notin DOMAIN headers =>
              /\ LengthKey \in DOMAIN FieldsOf(lines)
              /\ NumberOf(LeadingDigits(FieldsOf(lines)[LengthKey])) = body
<1> DEFINE n == Len(keys)
           N == Len(lines)
           pairs == [i \in 1 .. N |-> HeaderField(lines[i])]
           received == FieldsOf(lines)
<1>1. /\ n \in Nat /\ \A i \in 1 .. n : keys[i] \in DOMAIN headers
      /\ \A k \in DOMAIN headers : \E i \in 1 .. n : keys[i] = k
  <2>1. IsFiniteSet(DOMAIN headers)
    BY Zenon DEF IsHeader, IsMap
  <2>2. keys \in Seq(DOMAIN headers) /\ n \in Nat
        /\ \A k \in DOMAIN headers : \E i \in 1 .. n : keys[i] = k
    BY Zenon, <2>1, OrderIs
  <2> QED BY <2>2
<1>2. /\ DOMAIN lines = 1 .. N /\ N \in Nat /\ n \in 0 .. N
      /\ \A i \in 1 .. n : lines[i] = AsString(keys[i], headers[keys[i]])
      /\ \A i \in n + 1 .. N : OwnLine(lines[i])
      /\ body # None => N > n /\ lines[N] = LengthLine
  BY Zenon DEF Written
<1> HIDE DEF n, N
<1>3. {":", Space, CR} \subseteq Chars
  BY Zenon, SymbolsIn
<1>4. \A i \in 1 .. n : IsLine(lines[i], keys[i], headers[keys[i]])
  <2> TAKE i \in 1 .. n
  <2>1. /\ CanBeKey(keys[i]) /\ Lowered(keys[i]) = keys[i]
        /\ headers[keys[i]] \in Seq(Chars)
    BY Zenon, <1>1 DEF IsHeader
  <2>2. IsLine(AsString(keys[i], headers[keys[i]]), Lowered(keys[i]), headers[keys[i]])
    BY Zenon, <1>3, <2>1, LineIsRead
  <2> QED BY Zenon, <1>2, <2>1, <2>2
<1>5. IsLine(AgentLine, AgentKey, <<"o">>) /\ AgentKey # LengthKey
  BY Zenon, OwnLines
<1>6. body # None => body \in 0 .. 9
  OBVIOUS
<1>7. body # None => IsLine(LengthLine, LengthKey, <<Digits[body + 1]>>)
  BY Zenon, <1>6, OwnLines
<1>8. \A i \in 1 .. N : i \in 1 .. n \/ i \in n + 1 .. N
  BY <1>1, <1>2
<1>9. AllLines(lines, N)
  <2>1. \A i \in 1 .. n : \E k, v : IsLine(lines[i], k, v)
    BY Zenon, <1>4
  <2>2. \A i \in n + 1 .. N : \E k, v : IsLine(lines[i], k, v)
    <3> TAKE i \in n + 1 .. N
    <3>1. CASE lines[i] = AgentLine
      BY Zenon, <1>5, <3>1
    <3>2. CASE lines[i] = LengthLine /\ body # None
      BY Zenon, <1>7, <3>2
    <3> QED BY Zenon, <1>2, <3>1, <3>2 DEF OwnLine
  <2> QED BY Zenon, <1>8, <2>1, <2>2 DEF AllLines
<1>10. ~Throws(lines) /\ received = EmplaceAll(pairs)
  BY Zenon, <1>2, <1>9, FieldsAre
<1>11. DOMAIN pairs = 1 .. N /\ \A i \in 1 .. N : pairs[i] = HeaderField(lines[i])
  OBVIOUS
<1> HIDE DEF pairs, received
<1>12. \A i \in 1 .. n : pairs[i] = <<keys[i], headers[keys[i]]>>
  <2>1. \A i \in 1 .. n : i \in 1 .. N
    BY <1>1, <1>2
  <2> QED BY Zenon, <1>4, <1>11, <2>1 DEF IsLine
<1>13. \A i \in n + 1 .. N : \/ pairs[i] = <<AgentKey, <<"o">>>>
                             \/ /\ body # None
                                /\ pairs[i] = <<LengthKey, <<Digits[body + 1]>>>>
  <2>1. \A i \in n + 1 .. N : i \in 1 .. N
    BY <1>1, <1>2
  <2> QED BY Zenon, <1>2, <1>5, <1>7, <1>11, <2>1 DEF IsLine, OwnLine
<1>14. \A k \in DOMAIN headers : k \in DOMAIN received /\ received[k] = headers[k]
  <2>1. Begins(pairs, n, keys, headers)
    <3>1. DOMAIN pairs \subseteq Nat \ {0} /\ 1 .. n \subseteq DOMAIN pairs
      BY <1>1, <1>2, <1>11
    <3>2. \A i \in 1 .. n : pairs[i][1] = keys[i] /\ pairs[i][2] = headers[keys[i]]
      BY <1>12
    <3> QED BY Zenon, <3>1, <3>2 DEF Begins
  <2>2. \A i \in 1 .. n : /\ keys[i] \in DOMAIN received
                          /\ received[keys[i]] = headers[keys[i]]
    <3>1. \A i \in 1 .. n : /\ keys[i] \in DOMAIN EmplaceAll(pairs)
                           /\ EmplaceAll(pairs)[keys[i]] = headers[keys[i]]
      BY <1>1, <2>1, EmplaceBegins
    <3> QED BY <1>10, <3>1
  <2> QED BY Zenon, <1>1, <2>2
<1>15. /\ DOMAIN received = {pairs[k][1] : k \in 1 .. N}
       /\ \A k \in DOMAIN received : \E m \in 1 .. N :
            pairs[m][1] = k /\ received[k] = pairs[m][2]
  <2>1. DOMAIN pairs \subseteq Nat
    BY <1>11
  <2>2. /\ DOMAIN EmplaceAll(pairs) = {pairs[k][1] : k \in DOMAIN pairs}
        /\ \A k \in DOMAIN EmplaceAll(pairs) : \E m \in DOMAIN pairs :
             /\ pairs[m][1] = k /\ EmplaceAll(pairs)[k] = pairs[m][2]
             /\ \A j \in DOMAIN pairs : pairs[j][1] = k => m <= j
    BY <2>1, EmplaceAllIs
  <2> QED BY <1>10, <1>11, <2>2
<1>16. DOMAIN received \subseteq DOMAIN headers \cup {AgentKey, LengthKey}
  <2>1. \A i \in n + 1 .. N : pairs[i][1] \in {AgentKey, LengthKey}
    BY <1>13
  <2>2. \A i \in 1 .. n : pairs[i][1] \in DOMAIN headers
    BY <1>1, <1>12
  <2> QED BY Zenon, <1>8, <1>15, <2>1, <2>2
<1>17. ASSUME body # None, LengthKey \notin DOMAIN headers
       PROVE  /\ LengthKey \in DOMAIN received
              /\ NumberOf(LeadingDigits(received[LengthKey])) = body
  <2>1. N \in 1 .. N /\ n \in Nat
    BY <1>1, <1>2, <1>17
  <2>2. pairs[N][1] = LengthKey
    <3>1. pairs[N] = <<LengthKey, <<Digits[body + 1]>>>>
      BY Zenon, <1>2, <1>7, <1>11, <1>17, <2>1 DEF IsLine
    <3> QED BY <3>1
  <2>3. LengthKey \in DOMAIN received
    BY Zenon, <1>15, <2>1, <2>2
  <2>4. PICK m \in 1 .. N : pairs[m][1] = LengthKey /\ received[LengthKey] = pairs[m][2]
    BY Zenon, <1>15, <2>3
  <2>5. m \notin 1 .. n
    <3>1. \A i \in 1 .. n : pairs[i][1] = keys[i] /\ keys[i] \in DOMAIN headers
      BY <1>1, <1>12
    <3> QED BY Zenon, <1>17, <2>4, <3>1
  <2>6. pairs[m] = <<LengthKey, <<Digits[body + 1]>>>>
    <3>1. pairs[m] # <<AgentKey, <<"o">>>>
      BY <1>5, <2>4
    <3> QED BY Zenon, <1>8, <1>13, <2>5, <3>1
  <2>7. received[LengthKey] = <<Digits[body + 1]>>
    BY <2>4, <2>6
  <2> QED BY Zenon, <1>6, <1>17, <2>3, <2>7, LengthIs
<1> QED BY Zenon, <1>10, <1>14, <1>16, <1>17 DEF received

\* A character in lower case is one, it stays so, and is neither an end nor a
\* ':' that the character was not.
LEMMA LowerIs ==
  ASSUME Symbols \subseteq Chars
  PROVE  \A c \in Chars : /\ Lower(c) \in Chars /\ Lower(Lower(c)) = Lower(c)
                          /\ Lower(c) = CR => c = CR
                          /\ Lower(c) = ":" => c = ":"
<1>1. {"a", "c", "l", "u"} \subseteq Chars
  <2>1. "c" \in ToSet(LengthKey) /\ "l" \in ToSet(LengthKey)
    <3>1. LengthKey[1] = "c" /\ LengthKey[2] = "l" /\ DOMAIN LengthKey = 1 .. 2
      BY DEF LengthKey
    <3>2. 1 \in 1 .. 2 /\ 2 \in 1 .. 2
      OBVIOUS
    <3> QED BY Zenon, <3>1, <3>2 DEF ToSet
  <2>2. "u" \in ToSet(AgentKey) /\ "a" \in ToSet(AgentKey)
    <3>1. AgentKey[1] = "u" /\ AgentKey[2] = "a" /\ DOMAIN AgentKey = 1 .. 2
      BY DEF AgentKey
    <3>2. 1 \in 1 .. 2 /\ 2 \in 1 .. 2
      OBVIOUS
    <3> QED BY Zenon, <3>1, <3>2 DEF ToSet
  <2>3. ToSet(LengthKey) \subseteq Symbols /\ ToSet(AgentKey) \subseteq Symbols
    BY Zenon DEF Symbols
  <2> QED BY Zenon, <2>1, <2>2, <2>3
<1>2. "a" # CR /\ "c" # CR /\ "l" # CR /\ "u" # CR
  BY Zenon DEF CR
<1> TAKE c \in Chars
<1>3. Lower(c) \in {"a", "c", "l", "u", c}
  BY DEF Lower
<1>4. Lower(c) \in Chars
  BY Zenon, <1>1, <1>3
<1>5. Lower(Lower(c)) = Lower(c)
  BY DEF Lower
<1>6. Lower(c) = CR => c = CR
  BY Zenon, <1>2, <1>3
<1>7. Lower(c) = ":" => c = ":"
  BY DEF Lower
<1> QED BY <1>4, <1>5, <1>6, <1>7

\* What the constructor makes of a line.
LEMMA HeaderFieldIs ==
  ASSUME Symbols \subseteq Chars, NEW line \in Seq(Chars), ColonOf(line) # -1,
         ~EndsHeader(line)
  PROVE  /\ CanBeKey(HeaderField(line)[1]) /\ HeaderField(line)[2] \in Seq(Chars)
         /\ Lowered(HeaderField(line)[1]) = HeaderField(line)[1]
<1> DEFINE c == ColonOf(line)
           N == Len(line)
           key == [k \in 1 .. c |-> Lower(line[k])]
<1>1. N \in Nat /\ \A k \in 1 .. N : line[k] \in Chars
  OBVIOUS
<1>2. c \in 2 .. N - 1 /\ \A k \in 3 .. c : line[k] # ":"
  <2>1. Len(line) \in Nat /\ 2 \in Nat /\ 2 + 1 = 3
    OBVIOUS
  <2> QED BY Zenon, <2>1, FindIs DEF ColonOf
<1>3. HeaderField(line)[1] = key /\ HeaderField(line)[2] = SubSeq(line, c + 3, N - 1)
  BY DEF HeaderField
<1> HIDE DEF c, N
<1>4. c \in Nat /\ \A k \in 1 .. c : line[k] \in Chars
  BY <1>1, <1>2
<1>5. key \in [1 .. c -> Chars] /\ \A k \in 1 .. c : key[k] = Lower(line[k])
  BY Zenon, <1>4, LowerIs
<1> HIDE DEF key
<1>6. key \in Seq(Chars) /\ Len(key) = c
  BY Zenon, <1>4, <1>5, IsSeq
<1>7. CanBeKey(key)
  <2>1. key[1] # CR
    <3>1. 1 \in 1 .. c /\ 1 \in 1 .. N
      BY <1>1, <1>2
    <3>2. line # <<>>
      BY <1>1, <1>2 DEF N
    <3>3. line[1] # CR /\ line[1] \in Chars
      BY Zenon, <1>1, <3>1, <3>2 DEF EndsHeader
    <3> QED BY Zenon, <1>5, <3>1, <3>3, LowerIs
  <2>2. \A k \in 3 .. c : key[k] # ":"
    <3> TAKE k \in 3 .. c
    <3>1. k \in 1 .. c
      BY <1>4
    <3>2. line[k] \in Chars /\ line[k] # ":" /\ key[k] = Lower(line[k])
      BY Zenon, <1>2, <1>4, <1>5, <3>1
    <3>3. Lower(line[k]) # ":"
      BY Zenon, <3>2, LowerIs
    <3> QED BY Zenon, <3>2, <3>3
  <2>3. Len(key) >= 2
    BY <1>2, <1>1, <1>6
  <2>4. \A k \in 3 .. Len(key) : key[k] # ":"
    BY <1>6, <2>2
  <2> QED BY Zenon, <1>6, <2>1, <2>3, <2>4 DEF CanBeKey
<1>8. Lowered(key) = key
  <2>1. Lowered(key) = [k \in 1 .. c |-> Lower(key[k])]
    BY Zenon, <1>6 DEF Lowered
  <2>2. \A k \in 1 .. c : Lower(key[k]) = key[k]
    BY Zenon, <1>4, <1>5, LowerIs
  <2>3. [k \in 1 .. c |-> Lower(key[k])] = [k \in 1 .. c |-> key[k]]
    BY <2>2
  <2>4. key = [k \in 1 .. c |-> key[k]]
    BY <1>5
  <2> QED BY Zenon, <2>1, <2>3, <2>4
<1>9. SubSeq(line, c + 3, N - 1) \in Seq(Chars)
  <2> DEFINE a == c + 3
             b == N - 1
  <2>1. a \in Int /\ b \in Int /\ \A i \in a .. b : line[i] \in Chars
    <3>1. \A i \in a .. b : i \in 1 .. N
      BY <1>1, <1>2
    <3> QED BY <1>1, <1>2, <3>1
  <2> HIDE DEF a, b
  <2>2. SubSeq(line, a, b) \in Seq(Chars)
    BY <2>1, SubSeqProperties
  <2> QED BY Zenon, <2>2 DEF a, b
<1> QED BY Zenon, <1>3, <1>7, <1>8, <1>9

\* What the constructor makes of any lines can be written and read again.
LEMMA FieldsOfIs ==
  ASSUME Symbols \subseteq Chars, NEW lines \in Seq(Seq(Chars))
  PROVE  IsHeader(FieldsOf(lines))
<1> DEFINE pairs == [k \in FieldLines(lines) |-> HeaderField(lines[k])]
           f == FieldsOf(lines)
<1>1. FieldLines(lines) \subseteq 1 .. Len(lines) /\ Len(lines) \in Nat
  BY DEF FieldLines
<1>2. f = EmplaceAll(pairs)
  BY Zenon DEF FieldsOf
<1>3. \A k \in FieldLines(lines) : /\ lines[k] \in Seq(Chars) /\ ColonOf(lines[k]) # -1
                                   /\ ~EndsHeader(lines[k])
  <2> TAKE k \in FieldLines(lines)
  <2>1. ColonOf(lines[k]) # -1 /\ \A j \in 1 .. k : ~EndsHeader(lines[j])
    BY Zenon DEF FieldLines
  <2>2. k \in 1 .. k /\ lines[k] \in Seq(Chars)
    BY <1>1
  <2> QED BY Zenon, <2>1, <2>2
<1>4. DOMAIN pairs = FieldLines(lines)
      /\ \A k \in FieldLines(lines) : pairs[k] = HeaderField(lines[k])
  BY Zenon
<1> HIDE DEF pairs, f
<1>5. DOMAIN pairs \subseteq Nat
  BY <1>1, <1>4
<1>6. IsFiniteSet(DOMAIN pairs)
  <2>1. IsFiniteSet(1 .. Len(lines))
    BY <1>1, FS_Interval
  <2> QED BY <1>1, <1>4, <2>1, FS_Subset
<1>7. IsMap(EmplaceAll(pairs))
  <2>1. EmplaceAll(pairs)
          = [key \in DOMAIN EmplaceAll(pairs) |-> EmplaceAll(pairs)[key]]
    BY <1>5, EmplaceAllIs
  <2>2. IsFiniteSet(DOMAIN EmplaceAll(pairs))
    BY <1>5, <1>6, EmplaceAllFinite
  <2> QED BY Zenon, <2>1, <2>2 DEF IsMap
<1>8. \A key \in DOMAIN EmplaceAll(pairs) :
        /\ CanBeKey(key) /\ Lowered(key) = key
        /\ EmplaceAll(pairs)[key] \in Seq(Chars)
  <2> TAKE key \in DOMAIN EmplaceAll(pairs)
  <2>1. \E m \in DOMAIN pairs :
          /\ pairs[m][1] = key /\ EmplaceAll(pairs)[key] = pairs[m][2]
          /\ \A j \in DOMAIN pairs : pairs[j][1] = key => m <= j
    BY <1>5, EmplaceAllIs
  <2>2. PICK m \in DOMAIN pairs :
          pairs[m][1] = key /\ EmplaceAll(pairs)[key] = pairs[m][2]
    BY Zenon, <2>1
  <2>3. /\ CanBeKey(pairs[m][1]) /\ pairs[m][2] \in Seq(Chars)
        /\ Lowered(pairs[m][1]) = pairs[m][1]
    <3> DEFINE line == lines[m]
    <3>1. line \in Seq(Chars) /\ ColonOf(line) # -1 /\ ~EndsHeader(line)
      BY Zenon, <1>3, <1>4
    <3>2. pairs[m] = HeaderField(line)
      BY Zenon, <1>4
    <3> HIDE DEF line
    <3>3. /\ CanBeKey(HeaderField(line)[1]) /\ HeaderField(line)[2] \in Seq(Chars)
          /\ Lowered(HeaderField(line)[1]) = HeaderField(line)[1]
      BY Zenon, <3>1, HeaderFieldIs
    <3> QED BY Zenon, <3>2, <3>3
  <2> QED BY Zenon, <2>2, <2>3
<1>9. IsHeader(EmplaceAll(pairs))
  BY Zenon, <1>7, <1>8 DEF IsHeader
<1> QED BY Zenon, <1>2, <1>9 DEF f

-----------------------------------------------------------------------------
(* What the constructor makes of a target.                                 *)

\* A part of a text is one.
LEMMA PartType ==
  ASSUME NEW C, NEW s \in Seq(C), NEW a \in Int, NEW b \in Int, a >= 1, b <= Len(s)
  PROVE  /\ SubSeq(s, a, b) \in Seq(C)
         /\ Len(SubSeq(s, a, b)) = IF a <= b THEN b - a + 1 ELSE 0
         /\ \A i \in 1 .. b - a + 1 : SubSeq(s, a, b)[i] = s[a + i - 1]
<1>1. \A i \in a .. b : s[i] \in C
  <2>1. \A i \in a .. b : i \in 1 .. Len(s)
    OBVIOUS
  <2> QED BY <2>1, ElementOfSeq
<1> QED BY <1>1, SubSeqProperties

\* A text in which a character is not found has it not.
LEMMA NotFound ==
  ASSUME NEW C, NEW c, NEW s \in Seq(C), Find(s, c, 0) = -1
  PROVE  s \in Seq(C \ {c})
<1>1. Len(s) \in Nat /\ 0 \in Nat /\ 0 + 1 = 1
  OBVIOUS
<1>2. ~(-1 \in 0 .. Len(s) - 1)
  BY <1>1
<1>3. \A k \in 1 .. Len(s) : s[k] # c
  <2>1. \/ /\ Find(s, c, 0) = -1
           /\ \A k \in 0 + 1 .. Len(s) : s[k] # c
        \/ /\ Find(s, c, 0) \in 0 .. Len(s) - 1
           /\ s[Find(s, c, 0) + 1] = c
           /\ \A k \in 0 + 1 .. Find(s, c, 0) : s[k] # c
    BY Zenon, FindIs, <1>1
  <2> QED BY <1>1, <1>2, <2>1
<1>4. \A k \in 1 .. Len(s) : s[k] \in C \ {c}
  BY <1>3
<1>5. s \in [1 .. Len(s) -> C \ {c}]
  BY <1>4
<1> QED BY Zenon, <1>1, <1>5, IsSeq

\* What is before the first of a character has it not.
LEMMA Found ==
  ASSUME NEW C, NEW c, NEW s \in Seq(C), Find(s, c, 0) # -1
  PROVE  /\ Find(s, c, 0) \in 0 .. Len(s) - 1 /\ s[Find(s, c, 0) + 1] = c
         /\ SubSeq(s, 1, Find(s, c, 0)) \in Seq(C \ {c})
         /\ Len(SubSeq(s, 1, Find(s, c, 0))) = Find(s, c, 0)
         /\ \A k \in 1 .. Find(s, c, 0) : SubSeq(s, 1, Find(s, c, 0))[k] = s[k]
<1> DEFINE n == Find(s, c, 0)
           p == SubSeq(s, 1, n)
<1>1. Len(s) \in Nat /\ 0 \in Nat /\ 0 + 1 = 1
  OBVIOUS
<1>2. n \in 0 .. Len(s) - 1 /\ s[n + 1] = c /\ \A k \in 1 .. n : s[k] # c
  <2>1. \/ /\ n = -1
           /\ \A k \in 0 + 1 .. Len(s) : s[k] # c
        \/ /\ n \in 0 .. Len(s) - 1
           /\ s[n + 1] = c
           /\ \A k \in 0 + 1 .. n : s[k] # c
    BY Zenon, FindIs, <1>1
  <2> HIDE DEF n
  <2>2. n # -1
    BY Zenon DEF n
  <2> QED BY <1>1, <2>1, <2>2
<1> HIDE DEF n
<1>3. p \in Seq(C) /\ Len(p) = n /\ \A k \in 1 .. n : p[k] = s[k]
  <2>1. /\ p \in Seq(C) /\ Len(p) = IF 1 <= n THEN n - 1 + 1 ELSE 0
        /\ \A k \in 1 .. n - 1 + 1 : p[k] = s[1 + k - 1]
    BY <1>1, <1>2, PartType
  <2> HIDE DEF p
  <2> QED BY <1>1, <1>2, <2>1
<1> HIDE DEF p
<1>4. p \in Seq(C \ {c})
  <2>1. n \in Nat /\ \A k \in 1 .. n : p[k] \in C \ {c}
    BY <1>2, <1>3
  <2>2. p \in [1 .. n -> C \ {c}]
    BY <1>3, <2>1
  <2> QED BY Zenon, <2>1, <2>2, IsSeq
<1> QED BY Zenon, <1>2, <1>3, <1>4 DEF n, p

\* The path of a target is a text, and formatted without a query.
LEMMA PathOfIs ==
  ASSUME NEW C, Slash \in C, NEW t \in Seq(C)
  PROVE  /\ PathOf(t) \in Seq(C)
         /\ Find(t, "?", 0) = -1 => Clean(PathOf(t), Slash)
<1> DEFINE n == Find(t, "?", 0)
<1>1. CASE ~(n > 0)
  <2>1. PathOf(t) = FormatPath(t)
    BY Zenon, <1>1 DEF PathOf
  <2>2. FormatPath(t) \in Seq(C) /\ Clean(FormatPath(t), Slash)
    BY Zenon, FormatKeeps
  <2> QED BY Zenon, <2>1, <2>2
<1>2. CASE n > 0
  <2>0. n # -1
    BY <1>2
  <2>1. n \in 0 .. Len(t) - 1
    BY Zenon, <2>0, Found
  <2>2. PathOf(t) = SubSeq(t, 1, n)
    BY Zenon, <1>2 DEF PathOf
  <2>3. SubSeq(t, 1, n) \in Seq(C)
    <3> HIDE DEF n
    <3>1. 1 \in Int /\ n \in Int /\ 1 >= 1 /\ n <= Len(t)
      BY <2>1
    <3> QED BY Zenon, <3>1, PartType
  <2> QED BY Zenon, <2>0, <2>2, <2>3
<1> QED BY Zenon, <1>1, <1>2

\* The key and the value of a field are texts.
LEMMA QueryFieldType ==
  ASSUME NEW C, NEW s \in Seq(C)
  PROVE  QueryField(s)[1] \in Seq(C) /\ QueryField(s)[2] \in Seq(C)
<1> DEFINE n == Find(s, "=", 0)
<1>1. CASE n = -1
  <2>1. QueryField(s) = <<s, <<>>>>
    BY <1>1 DEF QueryField
  <2>2. <<>> \in Seq(C)
    OBVIOUS
  <2> QED BY <2>1, <2>2
<1>2. CASE n # -1
  <2> DEFINE k == SubSeq(s, 1, n)
             v == SubSeq(s, n + 2, Len(s))
  <2>1. n \in 0 .. Len(s) - 1
    BY Zenon, <1>2, Found
  <2>2. QueryField(s) = <<k, v>>
    BY <1>2 DEF QueryField
  <2>3. k \in Seq(C)
    <3>1. 1 \in Int /\ n \in Int /\ 1 >= 1 /\ n <= Len(s)
      BY <2>1
    <3> QED BY Zenon, <3>1, PartType
  <2>4. v \in Seq(C)
    <3>1. n + 2 \in Int /\ Len(s) \in Int /\ n + 2 >= 1 /\ Len(s) <= Len(s)
      BY <2>1
    <3> QED BY Zenon, <3>1, PartType
  <2> HIDE DEF k, v
  <2> QED BY <2>2, <2>3, <2>4
<1> QED BY Zenon, <1>1, <1>2

\* The empty map.
LEMMA NoFieldsIs ==
  ASSUME NEW C
  PROVE  IsMap(NoFields) /\ Texts(NoFields, C) /\ DOMAIN NoFields = {}
<1>1. DOMAIN NoFields = {} /\ NoFields = [x \in DOMAIN NoFields |-> NoFields[x]]
  BY DEF NoFields
<1> QED BY <1>1, FS_EmptySet DEF IsMap, Texts

\* The query of a target: a map of texts without a '&'.
LEMMA QueryOfIs ==
  ASSUME NEW C, NEW t \in Seq(C)
  PROVE  IsMap(QueryOf(t)) /\ Texts(QueryOf(t), C \ {"&"})
<1> DEFINE n == Find(t, "?", 0)
           D == C \ {"&"}
           s == SubSeq(t, n + 2, Len(t))
           parts == Split(s, "&")
           pairs == [k \in DOMAIN parts |-> QueryField(parts[k])]
<1>1. CASE n = -1
  <2>1. QueryOf(t) = NoFields
    BY Zenon, <1>1 DEF QueryOf
  <2> QED BY Zenon, <2>1, NoFieldsIs
<1>2. CASE n # -1
  <2>1. QueryOf(t) = EmplaceAll(pairs)
    BY Zenon, <1>2 DEF QueryOf
  <2>2. s \in Seq(C)
    <3>1. n \in 0 .. Len(t) - 1
      BY Zenon, <1>2, Found
    <3>2. n + 2 \in Int /\ Len(t) \in Int /\ n + 2 >= 1 /\ Len(t) <= Len(t)
      BY <3>1
    <3> QED BY Zenon, <3>2, PartType
  <2> HIDE DEF s
  <2>3. parts \in Seq(Parts(C, "&"))
    BY Zenon, <2>2, SplitType
  <2> HIDE DEF parts
  <2>4. parts \in Seq(Seq(D)) /\ Len(parts) \in Nat /\ DOMAIN parts = 1 .. Len(parts)
    <3>1. parts \in Seq(Seq(D))
      BY Zenon, <2>3, PartsIn
    <3> HIDE DEF D
    <3> QED BY <3>1
  <2> HIDE DEF D
  <2>5. DOMAIN pairs = DOMAIN parts
        /\ \A k \in DOMAIN parts : pairs[k] = QueryField(parts[k])
    BY Zenon
  <2> HIDE DEF pairs
  <2>6. \A k \in DOMAIN parts : pairs[k][1] \in Seq(D) /\ pairs[k][2] \in Seq(D)
    <3> TAKE k \in DOMAIN parts
    <3>1. parts[k] \in Seq(D)
      BY <2>4
    <3>2. QueryField(parts[k])[1] \in Seq(D) /\ QueryField(parts[k])[2] \in Seq(D)
      BY Zenon, <3>1, QueryFieldType
    <3> QED BY Zenon, <2>5, <3>2
  <2>7. DOMAIN pairs \subseteq Nat
    BY <2>4, <2>5
  <2>8. IsFiniteSet(DOMAIN pairs)
    <3>1. IsFiniteSet(1 .. Len(parts))
      BY <2>4, FS_Interval
    <3> QED BY <2>4, <2>5, <3>1
  <2>9. IsMap(EmplaceAll(pairs))
    <3>1. EmplaceAll(pairs)
            = [key \in DOMAIN EmplaceAll(pairs) |-> EmplaceAll(pairs)[key]]
      BY <2>7, EmplaceAllIs
    <3>2. IsFiniteSet(DOMAIN EmplaceAll(pairs))
      BY <2>7, <2>8, EmplaceAllFinite
    <3> QED BY Zenon, <3>1, <3>2 DEF IsMap
  <2>10. \A key \in DOMAIN EmplaceAll(pairs) :
           key \in Seq(D) /\ EmplaceAll(pairs)[key] \in Seq(D)
    <3> TAKE key \in DOMAIN EmplaceAll(pairs)
    <3>1. \E m \in DOMAIN pairs :
            /\ pairs[m][1] = key /\ EmplaceAll(pairs)[key] = pairs[m][2]
            /\ \A j \in DOMAIN pairs : pairs[j][1] = key => m <= j
      BY <2>7, EmplaceAllIs
    <3> QED BY Zenon, <2>5, <2>6, <3>1
  <2>11. IsMap(EmplaceAll(pairs)) /\ Texts(EmplaceAll(pairs), D)
    BY Zenon, <2>9, <2>10 DEF Texts
  <2> QED BY Zenon, <2>1, <2>11 DEF D
<1> QED BY Zenon, <1>1, <1>2

-----------------------------------------------------------------------------
(* The invariant.                                                          *)

\* The parts of the invariant about the target.
PathInv == path \in Seq(Chars) /\ (plain => Clean(path, Slash))

QueryInv == IsMap(query) /\ Texts(query, Chars)

ParamsInv == DOMAIN params \subseteq Holes /\ Filled(params, Chars)

\* What prepare_request() wrote is what it would write now.
IsWritten(request) ==
  \E keys \in SetToSeqs(DOMAIN query), names \in SetToSeqs(DOMAIN headers),
     cut \in Cuts(path) :
    request = [method |-> MethodToString(method), lines |-> WriteLines(names),
               target |-> WritePath(path, params, cut) \o WriteQuery(query, keys)]

WireInv == wire # None => body # Unsized /\ IsWritten(wire)

IInv ==
  /\ made \in {"sound", "thrown", "undefined"} /\ plain \in BOOLEAN
  /\ method \in ToSet(MethodOrder)
  /\ body \in (0 .. MaxLen) \cup {Unsized, None}
  /\ PathInv /\ QueryInv /\ ParamsInv /\ IsHeader(headers) /\ WireInv

\* What the assumption says of the constants.
LEMMA ConstantsAre ==
  /\ Symbols \subseteq Chars /\ MaxLen \in 0 .. 9
  /\ {Slash, Space, "?", "&", "="} \subseteq Chars
  /\ \A v \in PathValues \cup QueryKeys \cup QueryValues : v \in Seq(Chars)
<1>1. Symbols \subseteq Chars /\ MaxLen \in 0 .. 9
  BY Zenon, RequestAssumption
<1>2. {Slash, Space, "?", "&", "="} \subseteq Chars
  BY Zenon, <1>1, SymbolsIn
<1>3. \A v \in PathValues \cup QueryKeys \cup QueryValues : v \in Seq(Chars)
  BY Zenon, RequestAssumption DEF IsText
<1> QED BY Zenon, <1>1, <1>2, <1>3

\* Texts of some characters are texts of more.
LEMMA TextsMore ==
  ASSUME NEW C, NEW c, NEW f, Texts(f, C \ {c})
  PROVE  Texts(f, C)
<1>1. \A v \in Seq(C \ {c}) : v \in Seq(C)
  OBVIOUS
<1> QED BY Zenon, <1>1 DEF Texts

\* The empty map is a header, and the empty text a path.
LEMMA UnmadeIs ==
  ASSUME Unmade
  PROVE  /\ PathInv /\ QueryInv /\ IsHeader(headers)
         /\ method \in ToSet(MethodOrder) /\ plain \in BOOLEAN
<1>1. /\ method = "None" /\ path = <<>> /\ query = NoFields /\ plain = TRUE
      /\ headers = NoFields
  BY Zenon DEF Unmade
<1>2. PathInv
  BY <1>1 DEF PathInv, Clean
<1>3. QueryInv
  BY Zenon, <1>1, NoFieldsIs DEF QueryInv
<1>4. IsHeader(headers)
  <2>1. IsMap(NoFields) /\ DOMAIN NoFields = {}
    BY Zenon, NoFieldsIs
  <2> QED BY <1>1, <2>1 DEF IsHeader
<1>5. method \in ToSet(MethodOrder)
  BY Zenon, <1>1, MethodFromType
<1> QED BY Zenon, <1>1, <1>2, <1>3, <1>4, <1>5

\* The members are what they are declared to be when the constructor ends.
LEMMA MadeIs ==
  ASSUME NEW parts \in Seq(Seq(Chars)), Len(parts) = 3,
         NEW lines \in Seq(Seq(Chars)), Made(parts, lines)
  PROVE  /\ PathInv /\ QueryInv /\ IsHeader(headers)
         /\ method \in ToSet(MethodOrder) /\ plain \in BOOLEAN
<1> DEFINE t == parts[2]
<1>1. /\ method = MethodOf(parts[1]) /\ path = PathOf(t) /\ query = QueryOf(t)
      /\ plain = (Find(t, "?", 0) = -1) /\ headers = FieldsOf(lines)
  BY Zenon DEF Made
<1>2. t \in Seq(Chars)
  <2>1. 2 \in 1 .. Len(parts)
    OBVIOUS
  <2> QED BY <2>1, ElementOfSeq
<1> HIDE DEF t
<1>3. PathInv
  <2>1. Slash \in Chars
    BY Zenon, ConstantsAre
  <2>2. PathOf(t) \in Seq(Chars) /\ (Find(t, "?", 0) = -1 => Clean(PathOf(t), Slash))
    BY Zenon, <1>2, <2>1, PathOfIs
  <2>3. plain <=> Find(t, "?", 0) = -1
    BY Zenon, <1>1
  <2> QED BY Zenon, <1>1, <2>2, <2>3 DEF PathInv
<1>4. QueryInv
  <2>1. IsMap(QueryOf(t)) /\ Texts(QueryOf(t), Chars \ {"&"})
    BY Zenon, <1>2, QueryOfIs
  <2>2. Texts(QueryOf(t), Chars)
    BY Zenon, <2>1, TextsMore
  <2> QED BY Zenon, <1>1, <2>1, <2>2 DEF QueryInv
<1>5. IsHeader(headers)
  <2>1. IsHeader(FieldsOf(lines))
    BY Zenon, ConstantsAre, FieldsOfIs
  <2> QED BY Zenon, <1>1, <2>1
<1>6. method \in ToSet(MethodOrder) /\ plain \in BOOLEAN
  <2>1. method \in ToSet(MethodOrder)
    BY Zenon, <1>1, MethodOfType
  <2>2. plain \in BOOLEAN
    BY Zenon, <1>1
  <2> QED BY Zenon, <2>1, <2>2
<1> QED BY Zenon, <1>3, <1>4, <1>5, <1>6

\* The invariant holds of a request that was just made, and of one that was not.
LEMMA InitInv == Init => IInv
<1> SUFFICES ASSUME Init PROVE IInv
  OBVIOUS
<1> DEFINE parts(raw) == SplitLimit(raw.line, Space, 3)
<1>1. PICK raw \in RawRequests :
        \/ Len(parts(raw)) < 3 /\ made = "undefined" /\ Unmade
        \/ Len(parts(raw)) = 3 /\ Throws(raw.lines) /\ made = "thrown" /\ Unmade
        \/ Len(parts(raw)) = 3 /\ ~Throws(raw.lines) /\ made = "sound"
             /\ Made(parts(raw), raw.lines)
  BY Zenon DEF Init
<1>2. params = NoFields /\ body = None /\ wire = None
  BY Zenon DEF Init
<1>3. parts(raw) \in Seq(Seq(Chars)) /\ raw.lines \in Seq(Seq(Chars))
  <2>1. raw.line \in Seq(Chars) /\ raw.lines \in Seq(Seq(Chars))
    BY Zenon, RequestAssumption DEF IsText
  <2>2. 3 \in Nat
    OBVIOUS
  <2> QED BY Zenon, <2>1, <2>2, PartsOfLine
<1> HIDE DEF parts
<1>4. /\ PathInv /\ QueryInv /\ IsHeader(headers)
      /\ method \in ToSet(MethodOrder) /\ plain \in BOOLEAN
      /\ made \in {"sound", "thrown", "undefined"}
  BY Zenon, <1>1, <1>3, UnmadeIs, MadeIs
<1>5. ParamsInv
  BY <1>2, NoFieldsIs DEF ParamsInv, Filled
<1> QED BY Zenon, <1>2, <1>4, <1>5 DEF IInv, WireInv

\* An empty value and one that is missing are written alike.
LEMMA EmptyIsMissing ==
  ASSUME NEW s, NEW ps, NEW qs, DOMAIN ps \subseteq DOMAIN qs,
         DOMAIN ps = {} => DOMAIN qs = {},
         \A x \in DOMAIN qs : qs[x] = IF x \in DOMAIN ps THEN ps[x] ELSE <<>>
  PROVE  \A cut : WritePath(s, qs, cut) = WritePath(s, ps, cut)
<1>1. CASE DOMAIN ps = {}
  <2>1. DOMAIN qs = {}
    BY <1>1
  <2> QED BY Zenon, <1>1, <2>1 DEF WritePath
<1>2. CASE DOMAIN ps # {}
  <2>1. DOMAIN qs # {}
    BY <1>2
  <2>2. ASSUME NEW part PROVE ValueOf(part, qs) = ValueOf(part, ps)
    BY DEF ValueOf
  <2>3. ASSUME NEW parts PROVE WriteParts(parts, qs) = WriteParts(parts, ps)
    BY Zenon, <2>2 DEF WriteParts
  <2> QED BY Zenon, <1>2, <2>1, <2>3 DEF WritePath
<1> QED BY Zenon, <1>1, <1>2

\* The lines depend on the fields and on the body only.
LEMMA LinesKeep ==
  ASSUME headers' = headers, body' = body, NEW names
  PROVE  WriteLines(names)' = WriteLines(names)
BY Zenon DEF WriteLines

\* An element of a map is changed or added.
LEMMA AssignIs ==
  ASSUME NEW C, NEW f, IsMap(f), Texts(f, C), NEW k \in Seq(C), NEW v \in Seq(C)
  PROVE  IsMap(Emplace(f, k, v)) /\ Texts(Emplace(f, k, v), C)
<1>1. CASE k \in DOMAIN f
  <2>1. Emplace(f, k, v) = f
    BY <1>1 DEF Emplace
  <2> QED BY Zenon, <2>1
<1>2. CASE k \notin DOMAIN f
  <2> DEFINE g == Emplace(f, k, v)
  <2>1. g = [x \in DOMAIN f \cup {k} |-> IF x = k THEN v ELSE f[x]]
    BY Zenon, <1>2 DEF Emplace, Assign
  <2> HIDE DEF g
  <2>2. g = [x \in DOMAIN g |-> g[x]] /\ DOMAIN g = DOMAIN f \cup {k}
    BY <2>1
  <2>3. IsFiniteSet(DOMAIN g)
    <3>1. IsFiniteSet(DOMAIN f)
      BY Zenon DEF IsMap
    <3> QED BY <2>2, <3>1, FS_AddElement
  <2>4. \A x \in DOMAIN g : x \in Seq(C) /\ g[x] \in Seq(C)
    <3>1. \A x \in DOMAIN f : x \in Seq(C) /\ f[x] \in Seq(C)
      BY Zenon DEF Texts
    <3>2. \A x \in DOMAIN g : g[x] = IF x = k THEN v ELSE f[x]
      BY <2>1
    <3> DEFINE T == Seq(C)
    <3>3. k \in T /\ v \in T /\ \A x \in DOMAIN f : x \in T /\ f[x] \in T
      BY Zenon, <3>1
    <3> HIDE DEF T
    <3>4. \A x \in DOMAIN g : x \in T /\ g[x] \in T
      BY <2>2, <3>2, <3>3
    <3> QED BY Zenon, <3>4 DEF T
  <2>5. IsMap(g) /\ Texts(g, C)
    BY Zenon, <2>2, <2>3, <2>4 DEF IsMap, Texts
  <2> QED BY Zenon, <2>5 DEF g
<1> QED BY Zenon, <1>1, <1>2

\* Every step keeps the invariant.
LEMMA NextInv ==
  ASSUME IInv, [Next]_vars
  PROVE  IInv'
<1>0. /\ made \in {"sound", "thrown", "undefined"} /\ plain \in BOOLEAN
      /\ method \in ToSet(MethodOrder)
      /\ body \in (0 .. MaxLen) \cup {Unsized, None}
      /\ PathInv /\ QueryInv /\ ParamsInv /\ IsHeader(headers) /\ WireInv
  BY Zenon DEF IInv
<1>1. ASSUME NEW x \in Holes, NEW v \in PathValues, EmplaceParam(x, v)
      PROVE  IInv'
  <2>1. /\ params' = Emplace(params, x, v) /\ wire' = None
        /\ UNCHANGED <<made, method, path, query, headers, body, plain>>
    BY Zenon, <1>1 DEF EmplaceParam
  <2>2. v \in Seq(Chars)
    BY Zenon, ConstantsAre
  <2> DEFINE T == Seq(Chars)
  <2>3. DOMAIN params \subseteq Holes /\ \A y \in DOMAIN params : params[y] \in T
    BY <1>0 DEF ParamsInv, Filled
  <2>4. v \in T
    BY Zenon, <2>2
  <2> HIDE DEF T
  <2>5. DOMAIN params' \subseteq Holes /\ \A y \in DOMAIN params' : params'[y] \in T
    BY <2>1, <2>3, <2>4 DEF Emplace, Assign
  <2>6. ParamsInv'
    BY <2>5 DEF ParamsInv, Filled, T
  <2> QED BY Zenon, <1>0, <2>1, <2>6 DEF IInv, PathInv, QueryInv, WireInv
<1>2. ASSUME NEW k \in QueryKeys, ChangeQuery(k)
      PROVE  IInv'
  <2> DEFINE C == Chars
  <2>1. IsMap(query) /\ Texts(query, C) /\ k \in Seq(C) /\ <<>> \in Seq(C)
    <3>1. k \in Seq(C)
      BY Zenon, ConstantsAre
    <3>2. <<>> \in Seq(C)
      OBVIOUS
    <3> QED BY Zenon, <1>0, <3>1, <3>2 DEF QueryInv, C
  <2> HIDE DEF C
  <2>2. ASSUME NEW f, SetQuery(f), IsMap(f), Texts(f, C)
        PROVE  IInv'
    <3>1. /\ query' = f /\ wire' = None
          /\ UNCHANGED <<made, method, path, params, headers, body, plain>>
      BY Zenon, <2>2 DEF SetQuery
    <3>2. QueryInv'
      BY Zenon, <2>2, <3>1 DEF QueryInv, C
    <3> QED BY Zenon, <1>0, <3>1, <3>2 DEF IInv, PathInv, ParamsInv, WireInv
  <2>3. ASSUME NEW v \in QueryValues, SetQuery(Emplace(query, k, v))
        PROVE  IInv'
    <3>1. v \in Seq(C)
      BY Zenon, ConstantsAre DEF C
    <3>2. IsMap(Emplace(query, k, v)) /\ Texts(Emplace(query, k, v), C)
      BY Zenon, <2>1, <3>1, AssignIs
    <3> QED BY Zenon, <2>2, <2>3, <3>2
  <2>4. ASSUME SetQuery(Emplace(query, k, <<>>))
        PROVE  IInv'
    <3>1. IsMap(Emplace(query, k, <<>>)) /\ Texts(Emplace(query, k, <<>>), C)
      BY Zenon, <2>1, AssignIs
    <3> QED BY Zenon, <2>2, <2>4, <3>1
  <2>5. ASSUME SetQuery([x \in DOMAIN query \ {k} |-> query[x]])
        PROVE  IInv'
    <3> DEFINE g == [x \in DOMAIN query \ {k} |-> query[x]]
    <3>1. DOMAIN g = DOMAIN query \ {k} /\ \A x \in DOMAIN g : g[x] = query[x]
      BY Zenon
    <3>2. g = [x \in DOMAIN g |-> g[x]]
      BY Zenon
    <3> HIDE DEF g
    <3>3. IsFiniteSet(DOMAIN g)
      <4>1. IsFiniteSet(DOMAIN query)
        BY Zenon, <2>1 DEF IsMap
      <4> QED BY <3>1, <4>1, FS_Subset
    <3>4. \A x \in DOMAIN g : x \in DOMAIN query
      BY Zenon, <3>1
    <3>5. IsMap(g) /\ Texts(g, C)
      BY Zenon, <2>1, <3>1, <3>2, <3>3, <3>4 DEF IsMap, Texts
    <3>6. SetQuery(g)
      BY Zenon, <2>5 DEF g
    <3> QED BY Zenon, <2>2, <3>5, <3>6
  <2> QED BY Zenon, <1>2, <2>3, <2>4, <2>5 DEF ChangeQuery
<1>3. ASSUME NEW n \in (0 .. MaxLen) \cup {Unsized, None}, SetBody(n)
      PROVE  IInv'
  <2>1. /\ body' = n /\ wire' = None
        /\ UNCHANGED <<made, method, path, query, params, headers, plain>>
    BY Zenon, <1>3 DEF SetBody
  <2> QED BY Zenon, <1>0, <2>1, <1>3 DEF IInv, PathInv, QueryInv, ParamsInv, WireInv
<1>4. ASSUME PrepareRequest
      PROVE  IInv'
  <2>1. /\ params' = [x \in DOMAIN params \cup Asked |->
                        IF x \in DOMAIN params THEN params[x] ELSE <<>>]
        /\ UNCHANGED <<made, method, path, query, headers, body, plain>>
    BY Zenon, <1>4 DEF PrepareRequest
  <2>2. /\ DOMAIN params \subseteq DOMAIN params'
        /\ DOMAIN params = {} => DOMAIN params' = {}
        /\ DOMAIN params' \subseteq DOMAIN params \cup Holes
        /\ \A x \in DOMAIN params' :
             params'[x] = IF x \in DOMAIN params THEN params[x] ELSE <<>>
    <3>1. Asked \subseteq Holes /\ (DOMAIN params = {} => Asked = {})
      BY Zenon DEF Asked
    <3> HIDE DEF Asked
    <3> QED BY <2>1, <3>1
  <2>3. ParamsInv'
    <3> DEFINE T == Seq(Chars)
    <3>1. DOMAIN params \subseteq Holes /\ \A y \in DOMAIN params : params[y] \in T
      BY <1>0 DEF ParamsInv, Filled
    <3>2. <<>> \in T
      OBVIOUS
    <3> HIDE DEF T
    <3>3. DOMAIN params' \subseteq Holes /\ \A y \in DOMAIN params' : params'[y] \in T
      BY <2>2, <3>1, <3>2
    <3> QED BY <3>3 DEF ParamsInv, Filled, T
  <2>4. \A cut : WritePath(path, params', cut) = WritePath(path, params, cut)
    BY Zenon, <2>2, EmptyIsMissing
  <2>5. CASE body = Unsized /\ wire' = None
    BY Zenon, <1>0, <2>1, <2>3, <2>5 DEF IInv, PathInv, QueryInv, WireInv
  <2>6. CASE body # Unsized
    <3>1. PICK keys \in SetToSeqs(DOMAIN query), names \in SetToSeqs(DOMAIN headers),
               cut \in Cuts(path) :
            wire' = [method |-> MethodToString(method), lines |-> WriteLines(names),
                     target |-> WritePath(path, params, cut) \o WriteQuery(query, keys)]
      BY Zenon, <1>4, <2>6 DEF PrepareRequest
    <3>2. WriteLines(names)' = WriteLines(names)
      BY Zenon, <2>1, LinesKeep
    <3>3. wire' = [method |-> MethodToString(method'), lines |-> WriteLines(names)',
                   target |-> WritePath(path', params', cut) \o WriteQuery(query', keys)]
      BY Zenon, <2>1, <2>4, <3>1, <3>2
    <3>4. /\ keys \in SetToSeqs(DOMAIN query') /\ names \in SetToSeqs(DOMAIN headers')
          /\ cut \in Cuts(path')
      BY Zenon, <2>1
    <3>5. IsWritten(wire)'
      BY Zenon, <3>3, <3>4 DEF IsWritten
    <3>6. body' # Unsized
      BY Zenon, <2>1, <2>6
    <3>7. WireInv'
      BY Zenon, <3>5, <3>6 DEF WireInv
    <3> QED BY Zenon, <1>0, <2>1, <2>3, <3>7 DEF IInv, PathInv, QueryInv
  <2> QED BY Zenon, <1>4, <2>5, <2>6 DEF PrepareRequest
<1>5. ASSUME UNCHANGED vars
      PROVE  IInv'
  <2>1. UNCHANGED <<made, method, path, query, params, headers, body, plain, wire>>
    BY Zenon, <1>5 DEF vars
  <2>2. WireInv'
    <3>1. SUFFICES ASSUME wire' # None PROVE body' # Unsized /\ IsWritten(wire)'
      BY Zenon DEF WireInv
    <3>2. wire # None
      BY Zenon, <2>1, <3>1
    <3>3. PICK keys \in SetToSeqs(DOMAIN query), names \in SetToSeqs(DOMAIN headers),
               cut \in Cuts(path) :
            wire = [method |-> MethodToString(method), lines |-> WriteLines(names),
                    target |-> WritePath(path, params, cut) \o WriteQuery(query, keys)]
      BY Zenon, <1>0, <3>2 DEF WireInv, IsWritten
    <3>4. WriteLines(names)' = WriteLines(names)
      BY Zenon, <2>1, LinesKeep
    <3>5. wire' = [method |-> MethodToString(method'), lines |-> WriteLines(names)',
                   target |-> WritePath(path', params', cut) \o WriteQuery(query', keys)]
      BY Zenon, <2>1, <3>3, <3>4
    <3>6. /\ keys \in SetToSeqs(DOMAIN query') /\ names \in SetToSeqs(DOMAIN headers')
          /\ cut \in Cuts(path')
      BY Zenon, <2>1
    <3>7. body' # Unsized
      BY Zenon, <1>0, <2>1, <3>2 DEF WireInv
    <3> QED BY Zenon, <3>5, <3>6, <3>7 DEF IsWritten
  <2> QED BY Zenon, <1>0, <2>1, <2>2 DEF IInv, PathInv, QueryInv, ParamsInv
<1> QED BY Zenon, <1>1, <1>2, <1>3, <1>4, <1>5 DEF Next

-----------------------------------------------------------------------------
(* What the invariant says of a request that was written.                  *)

\* The parts of what was written, as the lemmas on targets and lines need them.
LEMMA WireIs ==
  ASSUME IInv, wire # None
  PROVE  /\ \E keys \in SetToSeqs(DOMAIN query), cut \in Cuts(path) :
              /\ Fits(WritePath(path, params, cut), query, keys, Chars)
              /\ wire.target = WritePath(path, params, cut) \o WriteQuery(query, keys)
         /\ \E names \in SetToSeqs(DOMAIN headers) : wire.lines = WriteLines(names)
         /\ wire.method = MethodToString(method) /\ body # Unsized
         /\ wire.target \in Seq(Chars) /\ wire.target # <<>>
<1>1. PathInv /\ QueryInv /\ ParamsInv /\ WireInv
  BY Zenon DEF IInv
<1>2. PICK keys \in SetToSeqs(DOMAIN query), names \in SetToSeqs(DOMAIN headers),
           cut \in Cuts(path) :
        wire = [method |-> MethodToString(method), lines |-> WriteLines(names),
                target |-> WritePath(path, params, cut) \o WriteQuery(query, keys)]
  BY Zenon, <1>1 DEF WireInv, IsWritten
<1> DEFINE p == WritePath(path, params, cut)
           q == WriteQuery(query, keys)
           j == Join(FieldsIn(query, keys), "&")
<1>3. p \in Seq(Chars) /\ p # <<>>
  <2>1. Slash \in Chars
    BY Zenon, ConstantsAre
  <2>2. path \in Seq(Chars) /\ Filled(params, Chars)
    BY Zenon, <1>1 DEF PathInv, ParamsInv
  <2> QED BY Zenon, <2>1, <2>2, WritePathRead
<1>4. /\ wire.method = MethodToString(method) /\ wire.lines = WriteLines(names)
      /\ wire.target = p \o q
  BY <1>2
<1>5. "?" \in Chars
  BY ConstantsAre
<1> HIDE DEF p
<1>6. Fits(p, query, keys, Chars)
  BY Zenon, <1>1, <1>3, ConstantsAre DEF Fits, QueryInv
<1>7. /\ p \o q \in Seq(Chars)
      /\ keys = <<>> => p \o q = p
      /\ keys # <<>> => j \in Seq(Chars) /\ p \o q = p \o <<"?">> \o j
  BY <1>6, TargetIs
<1> HIDE DEF q, j
<1>8. p \o q # <<>>
  <2>1. CASE keys = <<>>
    BY Zenon, <1>3, <1>7, <2>1
  <2>2. CASE keys # <<>>
    <3>1. j \in Seq(Chars) /\ p \o q = p \o <<"?">> \o j
      BY Zenon, <1>7, <2>2
    <3>2. p \o <<"?">> \o j # <<>>
      BY <1>3, <1>5, <3>1
    <3> QED BY Zenon, <3>1, <3>2
  <2> QED BY Zenon, <2>1, <2>2
<1>9. body # Unsized
  BY Zenon, <1>1 DEF WireInv
<1> QED BY Zenon, <1>4, <1>6, <1>7, <1>8, <1>9 DEF p, q

\* A text in which some character is not.
LEMMA Without ==
  ASSUME NEW C, NEW c, NEW s \in Seq(C), c \notin ToSet(s)
  PROVE  s \in Seq(C \ {c})
<1>1. Len(s) \in Nat /\ \A k \in 1 .. Len(s) : s[k] \in C /\ s[k] \in ToSet(s)
  BY DEF ToSet
<1>2. s \in [1 .. Len(s) -> C \ {c}]
  BY <1>1
<1> QED BY Zenon, <1>1, <1>2, IsSeq

\* The receiver splits a request line without a space in its target into what
\* was put into it.
LEMMA ReceivedIs ==
  ASSUME IInv, wire # None, OneTarget
  PROVE  Received = << <<wire.method>>, wire.target, <<"HTTP/1.1">> >>
<1> DEFINE m == wire.method
           t == wire.target
           v == "HTTP/1.1"
<1>1. m = MethodToString(method) /\ t \in Seq(Chars) /\ t # <<>>
  BY Zenon, WireIs
<1>2. method \in ToSet(MethodOrder)
  BY Zenon DEF IInv
<1>3. m \in Chars \ {Space}
  <2>1. m \in ToSet(MethodNames) /\ m # Space
    BY Zenon, <1>1, <1>2, MethodIs
  <2> QED BY Zenon, <2>1, ConstantsAre, SymbolsIn
<1>4. v \in Chars \ {Space}
  <2>1. v # Space
    BY Zenon DEF Space
  <2> QED BY Zenon, <2>1, ConstantsAre, SymbolsIn
<1>5. Space \in Chars
  BY Zenon, ConstantsAre
<1>6. t \in Seq(Chars \ {Space})
  BY Zenon, <1>1, Without DEF OneTarget
<1>7. Received = SplitLimit(<<m, Space>> \o t \o <<Space, v>>, Space, 3)
  BY Zenon DEF Received
<1> HIDE DEF m, t, v
<1> QED BY Zenon, <1>1, <1>3, <1>4, <1>5, <1>6, <1>7, LineIs DEF m, t, v

\* The first part is the method, whatever the target is.
LEMMA ReceivedFirst ==
  ASSUME IInv, wire # None
  PROVE  Received[1] = <<wire.method>>
<1> DEFINE m == wire.method
           t == wire.target
           v == "HTTP/1.1"
           rest == t \o <<Space, v>>
<1>1. m = MethodToString(method) /\ t \in Seq(Chars)
  BY Zenon, WireIs
<1>2. method \in ToSet(MethodOrder)
  BY Zenon DEF IInv
<1>3. m \in Chars \ {Space}
  <2>1. m \in ToSet(MethodNames) /\ m # Space
    BY Zenon, <1>1, <1>2, MethodIs
  <2> QED BY Zenon, <2>1, ConstantsAre, SymbolsIn
<1>4. v \in Chars /\ Space \in Chars
  BY Zenon, ConstantsAre, SymbolsIn
<1>5. Received = SplitLimit(<<m, Space>> \o t \o <<Space, v>>, Space, 3)
  BY Zenon DEF Received
<1> HIDE DEF m, t, v
<1>6. <<m, Space>> = <<m>> \o <<Space>> /\ <<Space, v>> \in Seq(Chars)
  BY Zenon, <1>3, <1>4, TwoIs
<1>7. rest \in Seq(Chars)
  BY Zenon, <1>1, <1>6, ConcatProperties
<1>8. (<<m>> \o <<Space>>) \o t \o <<Space, v>> = <<m>> \o <<Space>> \o rest
  <2> DEFINE a == <<m>> \o <<Space>>
             b == <<Space, v>>
  <2>1. a \in Seq(Chars) /\ b \in Seq(Chars)
    BY <1>3, <1>4, <1>6
  <2> HIDE DEF a, b
  <2>2. a \o t \o b = a \o (t \o b)
    BY <1>1, <2>1
  <2> QED BY Zenon, <2>2 DEF a, b
<1> HIDE DEF rest
<1>9. Received = SplitLimit(<<m>> \o <<Space>> \o rest, Space, 3)
  BY Zenon, <1>5, <1>6, <1>8
<1> QED BY Zenon, <1>3, <1>4, <1>7, <1>9, FirstIs DEF m

-----------------------------------------------------------------------------
(* The theorems.                                                           *)

(* Every request has the invariant, whatever it was made of, whatever its  *)
(* client changed, and whichever of it was written, again or not.          *)
THEOREM InvAlways == Spec => []IInv
<1>1. IInv /\ [Next]_vars => IInv'
  BY NextInv
<1> QED BY InitInv, <1>1, PTL DEF Spec

\* The keys and values of the header are texts.
LEMMA HeaderTexts ==
  ASSUME IsHeader(headers), NEW k \in DOMAIN headers
  PROVE  k \in Seq(Chars) /\ headers[k] \in Seq(Chars)
BY Zenon DEF IsHeader, CanBeKey

\* The invariant gives the types.
LEMMA TypeFromInv ==
  ASSUME IInv
  PROVE  TypeOK
<1>1. /\ made \in {"sound", "thrown", "undefined"} /\ plain \in BOOLEAN
      /\ method \in ToSet(MethodOrder)
      /\ body \in (0 .. MaxLen) \cup {Unsized, None}
      /\ PathInv /\ QueryInv /\ ParamsInv /\ IsHeader(headers)
  BY Zenon DEF IInv
<1>2. IsText(path)
  BY Zenon, <1>1 DEF PathInv, IsText
<1>3. \A k \in DOMAIN query : IsText(k) /\ IsText(query[k])
  BY Zenon, <1>1 DEF QueryInv, Texts, IsText
<1>4. \A k \in DOMAIN headers : IsText(k) /\ IsText(headers[k])
  BY Zenon, <1>1, HeaderTexts DEF IsText
<1>5. DOMAIN params \subseteq Holes /\ \A x \in DOMAIN params : IsText(params[x])
  BY Zenon, <1>1 DEF ParamsInv, Filled, IsText
<1>6. ASSUME wire # None
      PROVE  /\ wire.method \in ToSet(MethodNames) /\ IsText(wire.target)
             /\ wire.lines \in Seq(Seq(Chars))
  <2>1. /\ wire.method = MethodToString(method) /\ body # Unsized
        /\ wire.target \in Seq(Chars)
    BY Zenon, <1>6, WireIs
  <2>2. wire.method \in ToSet(MethodNames)
    BY Zenon, <1>1, <2>1, MethodIs
  <2>3. PICK names \in SetToSeqs(DOMAIN headers) : wire.lines = WriteLines(names)
    BY Zenon, <1>6, WireIs
  <2>4. body \in (0 .. 9) \cup {None}
    BY <1>1, <2>1, ConstantsAre
  <2>5. WriteLines(names) \in Seq(Seq(Chars))
    BY Zenon, <1>1, <2>4, ConstantsAre, WriteLinesAre
  <2> QED BY Zenon, <2>1, <2>2, <2>3, <2>5 DEF IsText
<1>7. \A f \in {query, headers} : \A k \in DOMAIN f : IsText(k) /\ IsText(f[k])
  <2> TAKE f \in {query, headers}
  <2>1. CASE f = query
    BY Zenon, <1>3, <2>1
  <2>2. CASE f = headers
    BY Zenon, <1>4, <2>2
  <2> QED BY Zenon, <2>1, <2>2
<1> QED BY Zenon, <1>1, <1>2, <1>5, <1>6, <1>7 DEF TypeOK

(* The members of a request are what they were declared to be, and what    *)
(* was written is made of characters only, by any order of the maps.       *)
THEOREM RequestTypes == Spec => []TypeOK
<1>1. IInv => TypeOK
  BY TypeFromInv
<1> QED BY InvAlways, <1>1, PTL

(* The receiver reads the method that was written, for all targets, and    *)
(* finds three parts if there is no space in the target, whatever a client *)
(* gave to its parameters (request.cpp:14-24, 68-104, types.hpp:5-16).     *)
THEOREM MethodIsRead == Spec => []ReceiverReadsMethod
<1>1. ASSUME IInv PROVE ReceiverReadsMethod
  <2> SUFFICES ASSUME wire # None
               PROVE  MethodOf(Received[1]) = method /\ (OneTarget => Len(Received) = 3)
    BY Zenon DEF ReceiverReadsMethod
  <2>1. MethodOf(Received[1]) = method
    <3>1. Received[1] = <<wire.method>>
      BY Zenon, <1>1, ReceivedFirst
    <3>2. wire.method = MethodToString(method)
      BY Zenon, <1>1, WireIs
    <3>3. method \in ToSet(MethodOrder)
      BY Zenon, <1>1 DEF IInv
    <3> QED BY Zenon, <3>1, <3>2, <3>3, MethodIs
  <2>2. ASSUME OneTarget PROVE Len(Received) = 3
    <3>1. Received = << <<wire.method>>, wire.target, <<"HTTP/1.1">> >>
      BY Zenon, <1>1, <2>2, ReceivedIs
    <3> QED BY <3>1
  <2> QED BY Zenon, <2>1, <2>2
<1>2. IInv => ReceiverReadsMethod
  BY <1>1
<1> QED BY InvAlways, <1>2, PTL

\* What has none of some characters.
LEMMA FilledWithout ==
  ASSUME NEW C, NEW c, NEW ps, Filled(ps, C), \A x \in DOMAIN ps : c \notin ToSet(ps[x])
  PROVE  Filled(ps, C \ {c})
BY Zenon, Without DEF Filled

(* It reads the parts of the path that were meant, for paths, values and   *)
(* queries of any length and of any characters but the exceptions that     *)
(* ReceiverReadsPath names: the code escapes nothing (request.cpp:17-22,   *)
(* 68-87).                                                                 *)
THEOREM PathIsRead == Spec => []ReceiverReadsPath
<1>1. ASSUME IInv PROVE ReceiverReadsPath
  <2> DEFINE parts == Split(path, Slash)
             C == Chars \ {"?"}
  <2> SUFFICES ASSUME wire # None, OneTarget,
                      NoneHas({path}, {"?"}), NoneHas(ValuesOf(params), {"?", Slash}),
                      DOMAIN params = {} \/ LastIsUnique(parts)
               PROVE  Split(PathOf(Received[2]), Slash) = Meant
    BY Zenon DEF ReceiverReadsPath
  <2>1. Received[2] = wire.target
    <3>1. Received = << <<wire.method>>, wire.target, <<"HTTP/1.1">> >>
      BY Zenon, <1>1, ReceivedIs
    <3> QED BY <3>1
  <2>2. /\ Slash \in C /\ path \in Seq(C) /\ Filled(params, C)
        /\ Filled(params, C \ {Slash})
    <3>1. Slash \in C
      <4>1. Slash # "?"
        BY DEF Slash
      <4> QED BY Zenon, <4>1, ConstantsAre
    <3>2. path \in Seq(Chars) /\ Filled(params, Chars)
      BY Zenon, <1>1 DEF IInv, PathInv, ParamsInv
    <3>3. "?" \notin ToSet(path)
      BY DEF NoneHas
    <3>4. \A x \in DOMAIN params : "?" \notin ToSet(params[x]) /\ Slash \notin ToSet(params[x])
      BY DEF NoneHas, ValuesOf
    <3>5. path \in Seq(C)
      BY Zenon, <3>2, <3>3, Without
    <3>6. Filled(params, C)
      BY Zenon, <3>2, <3>4, FilledWithout
    <3> HIDE DEF C
    <3>7. Filled(params, C \ {Slash})
      BY Zenon, <3>4, <3>6, FilledWithout
    <3> QED BY Zenon, <3>1, <3>5, <3>6, <3>7
  <2>3. PICK keys \in SetToSeqs(DOMAIN query), cut \in Cuts(path) :
          /\ Fits(WritePath(path, params, cut), query, keys, Chars)
          /\ wire.target = WritePath(path, params, cut) \o WriteQuery(query, keys)
    BY Zenon, <1>1, WireIs
  <2> DEFINE p == WritePath(path, params, cut)
  <2>4. Split(PathOf(wire.target), Slash) = Split(p, Slash)
    <3>1. p \in Seq(Chars \ {"?"})
      <4> HIDE DEF C
      <4>1. p \in Seq(C)
        BY Zenon, <2>2, WritePathRead
      <4> QED BY Zenon, <4>1 DEF C
    <3> HIDE DEF p
    <3>2. Fits(p, query, keys, Chars) /\ wire.target = p \o WriteQuery(query, keys)
      BY Zenon, <2>3 DEF p
    <3>3. Split(PathOf(p \o WriteQuery(query, keys)), Slash) = Split(p, Slash)
      BY <3>1, <3>2, TargetPath
    <3> QED BY Zenon, <3>2, <3>3
  <2> HIDE DEF C
  <2>5. CASE DOMAIN params = {}
    <3>1. Split(p, Slash) = parts
      BY <2>2, <2>5, WritePathRead
    <3>2. parts \in Seq(Parts(C, Slash))
      BY Zenon, <2>2, SplitType
    <3> HIDE DEF parts
    <3>3. NotEmpty(parts) = parts /\ parts \in Seq(Seq(C))
      BY Zenon, <3>2, PartsIn
    <3>4. parts = [k \in DOMAIN parts |-> parts[k]]
      BY <3>3
    <3>5. Meant = NotEmpty([k \in DOMAIN parts |-> parts[k]])
      BY Zenon, <2>5 DEF Meant, parts
    <3>6. Meant = parts
      BY Zenon, <3>3, <3>4, <3>5
    <3> QED BY Zenon, <2>1, <2>4, <3>1, <3>6
  <2>6. CASE DOMAIN params # {}
    <3>1. LastIsUnique(parts)
      BY Zenon, <2>6
    <3>2. Split(p, Slash) = Split(WriteParts(parts, params), Slash)
      BY <2>2, <2>6, WritePathRead
    <3>3. parts \in Seq(Parts(C, Slash))
      BY Zenon, <2>2, SplitType
    <3>4. Meant = NotEmpty(Put(parts, params))
      BY Zenon, <2>6 DEF Meant, Put
    <3> HIDE DEF parts, p
    <3>5. Split(WriteParts(parts, params), Slash) = NotEmpty(Put(parts, params))
      BY Zenon, <2>2, <3>1, <3>3, WritePartsRead
    <3> QED BY Zenon, <2>1, <2>4, <3>2, <3>4, <3>5
  <2> QED BY Zenon, <2>5, <2>6
<1>2. IInv => ReceiverReadsPath
  BY <1>1
<1> QED BY InvAlways, <1>2, PTL

(* It reads the query that was meant, of texts of any length and of any    *)
(* characters but those that ReceiverReadsQuery names, in whatever order   *)
(* they were written (request.cpp:31-55, 89-97).                           *)
THEOREM QueryIsRead == Spec => []ReceiverReadsQuery
<1>1. ASSUME IInv PROVE ReceiverReadsQuery
  <2> DEFINE C == Chars \ {"?"}
  <2> SUFFICES ASSUME wire # None, OneTarget,
                      NoneHas({path} \cup ValuesOf(params), {"?"}),
                      NoneHas(DOMAIN query, {"&", "="}), NoneHas(ValuesOf(query), {"&"})
               PROVE  QueryOf(Received[2]) = query
    BY Zenon DEF ReceiverReadsQuery
  <2>1. Received[2] = wire.target
    <3>1. Received = << <<wire.method>>, wire.target, <<"HTTP/1.1">> >>
      BY Zenon, <1>1, ReceivedIs
    <3> QED BY <3>1
  <2>2. Slash \in C /\ path \in Seq(C) /\ Filled(params, C)
    <3>1. Slash \in C
      <4>1. Slash # "?"
        BY DEF Slash
      <4> QED BY Zenon, <4>1, ConstantsAre
    <3>2. path \in Seq(Chars) /\ Filled(params, Chars)
      BY Zenon, <1>1 DEF IInv, PathInv, ParamsInv
    <3>3. "?" \notin ToSet(path)
      BY DEF NoneHas
    <3>4. \A x \in DOMAIN params : "?" \notin ToSet(params[x])
      BY DEF NoneHas, ValuesOf
    <3>5. path \in Seq(C)
      BY Zenon, <3>2, <3>3, Without
    <3>6. Filled(params, C)
      BY Zenon, <3>2, <3>4, FilledWithout
    <3> QED BY Zenon, <3>1, <3>5, <3>6
  <2>3. PICK keys \in SetToSeqs(DOMAIN query), cut \in Cuts(path) :
          /\ Fits(WritePath(path, params, cut), query, keys, Chars)
          /\ wire.target = WritePath(path, params, cut) \o WriteQuery(query, keys)
    BY Zenon, <1>1, WireIs
  <2> DEFINE p == WritePath(path, params, cut)
  <2>4. p \in Seq(Chars \ {"?"})
    <3> HIDE DEF C
    <3>1. p \in Seq(C)
      BY Zenon, <2>2, WritePathRead
    <3> QED BY Zenon, <3>1 DEF C
  <2>5. Texts(query, Chars)
    BY Zenon, <1>1 DEF IInv, QueryInv
  <2>6. Texts(query, Chars \ {"&"}) /\ NoEquals(query)
    <3> SUFFICES ASSUME NEW k \in DOMAIN query
                 PROVE  /\ k \in Seq(Chars \ {"&"}) /\ query[k] \in Seq(Chars \ {"&"})
                        /\ Find(k, "=", 0) = -1
      BY Zenon DEF Texts, NoEquals
    <3>1. "&" \notin ToSet(k) /\ "=" \notin ToSet(k) /\ "&" \notin ToSet(query[k])
      BY DEF NoneHas, ValuesOf
    <3>2. k \in Seq(Chars) /\ query[k] \in Seq(Chars)
      BY Zenon, <2>5 DEF Texts
    <3>3. k \in Seq(Chars \ {"="})
      BY Zenon, <3>1, <3>2, Without
    <3>4. Find(k, "=", 0) = -1
      BY Zenon, <3>3, FindNone
    <3> QED BY Zenon, <3>1, <3>2, <3>4, Without
  <2> HIDE DEF p
  <2>7. Fits(p, query, keys, Chars) /\ wire.target = p \o WriteQuery(query, keys)
    BY Zenon, <2>3 DEF p
  <2>8. QueryOf(p \o WriteQuery(query, keys)) = query
    BY Zenon, <2>4, <2>6, <2>7, TargetQuery
  <2> QED BY Zenon, <2>1, <2>7, <2>8
<1>2. IInv => ReceiverReadsQuery
  BY <1>1
<1> QED BY InvAlways, <1>2, PTL

(* It reads every header field, of whatever lines the fields were made,    *)
(* and the length of the body (headers.cpp:19-35, request.cpp:100-104).    *)
THEOREM FieldsAreRead == Spec => []ReceiverReadsFields
<1>1. ASSUME IInv PROVE ReceiverReadsFields
  <2> SUFFICES ASSUME wire # None
               PROVE  /\ ~Throws(wire.lines)
                      /\ \A k \in DOMAIN headers :
                           /\ k \in DOMAIN FieldsOf(wire.lines)
                           /\ FieldsOf(wire.lines)[k] = headers[k]
                      /\ DOMAIN FieldsOf(wire.lines)
                           \subseteq DOMAIN headers \cup {AgentKey, LengthKey}
                      /\ body # None /\ LengthKey \notin DOMAIN headers =>
                           /\ LengthKey \in DOMAIN FieldsOf(wire.lines)
                           /\ NumberOf(LeadingDigits(FieldsOf(wire.lines)[LengthKey])) = body
    BY Zenon DEF ReceiverReadsFields
  <2>1. PICK names \in SetToSeqs(DOMAIN headers) : wire.lines = WriteLines(names)
    BY Zenon, <1>1, WireIs
  <2>2. IsHeader(headers) /\ body \in (0 .. MaxLen) \cup {None}
    <3>1. IsHeader(headers) /\ body \in (0 .. MaxLen) \cup {Unsized, None}
      BY Zenon, <1>1 DEF IInv
    <3>2. body # Unsized
      BY Zenon, <1>1, WireIs
    <3> QED BY Zenon, <3>1, <3>2
  <2>3. Symbols \subseteq Chars /\ body \in (0 .. 9) \cup {None}
    BY <2>2, ConstantsAre
  <2>4. Written(wire.lines, Len(names), names)
    BY Zenon, <2>1, <2>2, <2>3, WriteLinesAre
  <2> DEFINE lines == wire.lines
  <2>5. Written(lines, Len(names), names)
    BY Zenon, <2>4
  <2> HIDE DEF lines
  <2>6. /\ ~Throws(lines)
        /\ \A k \in DOMAIN headers :
             k \in DOMAIN FieldsOf(lines) /\ FieldsOf(lines)[k] = headers[k]
        /\ DOMAIN FieldsOf(lines) \subseteq DOMAIN headers \cup {AgentKey, LengthKey}
        /\ body # None /\ LengthKey \notin DOMAIN headers =>
             /\ LengthKey \in DOMAIN FieldsOf(lines)
             /\ NumberOf(LeadingDigits(FieldsOf(lines)[LengthKey])) = body
    BY <2>2, <2>3, <2>5, WrittenFields
  <2> QED BY Zenon, <2>6 DEF lines
<1>2. IInv => ReceiverReadsFields
  BY <1>1
<1> QED BY InvAlways, <1>2, PTL

(* A path that came without a query is formatted (request.cpp:17-22).      *)
THEOREM PlainPathAlways == Spec => []PlainPathIsKey
<1>1. ASSUME IInv PROVE PlainPathIsKey
  <2>1. path \in Seq(Chars) /\ (plain => Clean(path, Slash))
    BY Zenon, <1>1 DEF IInv, PathInv
  <2>2. ASSUME path # <<>> PROVE Head(path) = path[1] /\ Last(path) = path[Len(path)]
    BY <2>1, <2>2 DEF Last
  <2> QED BY Zenon, <2>1, <2>2 DEF PlainPathIsKey, Clean
<1>2. IInv => PlainPathIsKey
  BY <1>1
<1> QED BY InvAlways, <1>2, PTL

=============================================================================
