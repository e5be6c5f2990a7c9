------------------------ MODULE RouteHandlerProofs ------------------------
(***************************************************************************)
(* Proofs about RouteHandler, for every set of paths and every order in    *)
(* which handlers are added.                                               *)
(*                                                                         *)
(* What add_handler() keeps rests on one fact about the tree: every prefix *)
(* of a node is a node.  A conflict at a level then means that the path    *)
(* down to that level was there already, so that the nodes made before the *)
(* exception are not new; and a level can only get a parameter when it has *)
(* none.                                                                   *)
(*                                                                         *)
(* What route() finds rests on what the two containers hold (Stored,       *)
(* LatestStored) and on where its search goes, which is shown part by part *)
(* from the root (Climb).  A leaf that expands a recursive function or a   *)
(* CHOOSE is left to Zenon, which treats both by their definitions.        *)
(***************************************************************************)
EXTENDS RouteHandler, WellFoundedInduction, TLAPS

Keys == Literals \cup Params

\* The nodes form a tree, and no level has two parameters.
Tree ==
  /\ nodes \subseteq Seq(Keys)
  /\ \A n \in nodes : \A k \in 0 .. Len(n) : Prefix(n, k) \in nodes

Inv == Tree /\ OneParameterPerLevel

-----------------------------------------------------------------------------
(* Facts about prefixes.                                                   *)

(* A prefix of a path is a path, of the length asked for.                  *)
LEMMA PrefixType ==
  ASSUME NEW p \in Seq(Keys), NEW k \in 0 .. Len(p)
  PROVE  /\ Prefix(p, k) \in Seq(Keys)
         /\ Len(Prefix(p, k)) = k
         /\ \A j \in 1 .. k : Prefix(p, k)[j] = p[j]
BY DEF Prefix

(* A prefix of a prefix is a prefix.                                       *)
LEMMA PrefixOfPrefix ==
  ASSUME NEW p \in Seq(Keys), NEW k \in 0 .. Len(p), NEW j \in 0 .. k
  PROVE  Prefix(Prefix(p, k), j) = Prefix(p, j)
<1>1. Prefix(p, k) \in Seq(Keys) /\ Len(Prefix(p, k)) = k /\ j \in 0 .. Len(p)
  BY PrefixType
<1>2. Prefix(Prefix(p, k), j) \in Seq(Keys) /\ Len(Prefix(Prefix(p, k), j)) = j
  BY <1>1, PrefixType
<1>3. Prefix(p, j) \in Seq(Keys) /\ Len(Prefix(p, j)) = j
  BY <1>1, PrefixType
<1>4. \A i \in 1 .. j : Prefix(Prefix(p, k), j)[i] = Prefix(p, j)[i]
  BY <1>1, PrefixType
<1> QED
  BY <1>2, <1>3, <1>4

(* A node and its child: the node is a prefix of the child.                *)
LEMMA PrefixOfChild ==
  ASSUME NEW n \in Seq(Keys), NEW x \in Keys, NEW j \in 0 .. Len(n)
  PROVE  Prefix(Append(n, x), j) = Prefix(n, j)
BY DEF Prefix

(* The whole of a path is a prefix of it.                                  *)
LEMMA PrefixWhole ==
  ASSUME NEW n \in Seq(Keys)
  PROVE  Prefix(n, Len(n)) = n
BY DEF Prefix

(* A child of n that is a prefix of p is the next prefix after n.          *)
LEMMA ChildIsPrefix ==
  ASSUME NEW p \in Seq(Keys), NEW n \in Seq(Keys), NEW x \in Keys,
         NEW k \in 1 .. Len(p), Append(n, x) = Prefix(p, k)
  PROVE  Len(n) = k - 1 /\ n = Prefix(p, k - 1) /\ x = p[k]
<1>1. Len(Prefix(p, k)) = k /\ \A j \in 1 .. k : Prefix(p, k)[j] = p[j]
  BY PrefixType
<1>2. Len(Append(n, x)) = Len(n) + 1 /\ Append(n, x)[Len(n) + 1] = x
  OBVIOUS
<1>3. Len(n) = k - 1 /\ x = p[k]
  BY <1>1, <1>2
<1>4. k - 1 \in 0 .. k /\ k \in 0 .. Len(p) /\ k - 1 \in 0 .. Len(n)
  BY <1>3
<1>5. Prefix(Append(n, x), k - 1) = Prefix(p, k - 1)
  BY <1>4, PrefixOfPrefix
<1>6. Prefix(Append(n, x), k - 1) = Prefix(n, k - 1)
  BY <1>4, PrefixOfChild
<1>7. Prefix(n, k - 1) = n
  BY <1>3, PrefixWhole
<1> QED
  BY <1>3, <1>5, <1>6, <1>7

-----------------------------------------------------------------------------
(* The tree under the actions.                                             *)

(* Adding every prefix of a path up to position m keeps the tree a tree.   *)
LEMMA TreeGrows ==
  ASSUME Tree, NEW p \in Seq(Keys), NEW m \in 0 .. Len(p),
         nodes' = nodes \cup {Prefix(p, k) : k \in 1 .. m},
         <<>> \in nodes
  PROVE  Tree'
<1>1. nodes' \subseteq Seq(Keys)
  BY SMTT(30), PrefixType DEF Tree
<1>2. ASSUME NEW n \in nodes', NEW j \in 0 .. Len(n)
      PROVE  Prefix(n, j) \in nodes'
  <2>1. CASE n \in nodes
    BY <2>1 DEF Tree
  <2>2. CASE \E k \in 1 .. m : n = Prefix(p, k)
    <3>1. PICK k \in 1 .. m : n = Prefix(p, k)
      BY <2>2
    <3>2. k \in 0 .. Len(p) /\ Len(n) = k /\ j \in 0 .. k
      BY <3>1, PrefixType
    <3>3. Prefix(n, j) = Prefix(p, j)
      BY <3>1, <3>2, PrefixOfPrefix
    <3>4. CASE j = 0
      <4>1. Prefix(p, 0) = <<>>
        BY DEF Prefix
      <4> QED
        BY <3>3, <3>4, <4>1
    <3>5. CASE j # 0
      <4>1. j \in 1 .. m
        BY <3>2, <3>5
      <4> QED
        BY <3>3, <4>1
    <3> QED
      BY <3>4, <3>5
  <2> QED
    BY <2>1, <2>2
<1> QED
  BY <1>1, <1>2 DEF Tree

(* Where a path conflicts, the tree has its prefixes down to that level.   *)
LEMMA ConflictIsOnPath ==
  ASSUME Tree, RouteAssumption, NEW p \in Paths, NEW k \in DOMAIN p,
         Conflict(p, k)
  PROVE  \A j \in 0 .. k - 1 : Prefix(p, j) \in nodes
<1>1. p \in Seq(Keys) /\ k \in 1 .. Len(p)
  BY DEF RouteAssumption, Keys
<1>2. PICK x \in Params : Append(Prefix(p, k - 1), x) \in nodes
  BY DEF Conflict, ParamKeys
<1> DEFINE n == Prefix(p, k - 1)
<1>3. n \in Seq(Keys) /\ Len(n) = k - 1
  BY <1>1, PrefixType
<1>4. x \in Keys
  BY DEF Keys
<1>5. ASSUME NEW j \in 0 .. k - 1
      PROVE  Prefix(p, j) \in nodes
  <2>1. Prefix(Append(n, x), j) = Prefix(n, j)
    BY <1>3, <1>4, PrefixOfChild
  <2>2. Prefix(n, j) = Prefix(p, j)
    BY <1>1, PrefixOfPrefix
  <2>3. Append(n, x) \in nodes
    BY <1>2
  <2>4. j \in 0 .. Len(Append(n, x))
    BY <1>1, <1>3
  <2>5. Prefix(Append(n, x), j) \in nodes
    BY <2>3, <2>4 DEF Tree
  <2> QED
    BY <2>1, <2>2, <2>5
<1> QED
  BY <1>5

(* An add_handler() that throws leaves the tree as it is.                  *)
LEMMA ThrowKeepsNodes ==
  ASSUME Tree, RouteAssumption, NEW p \in Paths, AddThrows(p)
  PROVE  nodes' = nodes
<1>1. PICK k \in DOMAIN p :
        /\ Conflict(p, k)
        /\ nodes' = nodes \cup {Prefix(p, j) : j \in 1 .. k - 1}
  BY DEF AddThrows
<1>2. \A j \in 0 .. k - 1 : Prefix(p, j) \in nodes
  BY <1>1, ConflictIsOnPath
<1>3. k \in Nat
  BY DEF RouteAssumption
<1>4. \A j \in 1 .. k - 1 : Prefix(p, j) \in nodes
  BY <1>2, <1>3
<1> QED
  BY <1>1, <1>4

(* A path without conflicts brings no second parameter to any level.       *)
LEMMA AddKeepsOneParameter ==
  ASSUME Inv, RouteAssumption, NEW p \in Paths, AddDynamic(p)
  PROVE  OneParameterPerLevel'
<1> SUFFICES ASSUME NEW n \in nodes', NEW x \in Params, NEW y \in Params,
                    Append(n, x) \in nodes', Append(n, y) \in nodes'
             PROVE  x = y
  BY DEF OneParameterPerLevel, ParamKeys
<1>1. p \in Seq(Keys) /\ DOMAIN p = 1 .. Len(p)
  BY DEF RouteAssumption, Keys
<1>2. nodes' = nodes \cup {Prefix(p, k) : k \in 1 .. Len(p)}
  BY <1>1 DEF AddDynamic
<1>3. n \in Seq(Keys) /\ x \in Keys /\ y \in Keys
  BY <1>1, <1>2, PrefixType DEF Inv, Tree, Keys
<1>4. ASSUME NEW v \in Params, NEW u \in Params, Append(n, v) \in nodes,
             NEW k \in 1 .. Len(p), Append(n, u) = Prefix(p, k)
      PROVE  v = u
  <2>1. n = Prefix(p, k - 1) /\ u = p[k]
    BY SMTT(30), <1>1, <1>3, <1>4, ChildIsPrefix DEF Keys
  <2>2. ~Conflict(p, k)
    BY <1>1, <1>4 DEF AddDynamic
  <2>3. ParamKeys(n) \ {u} = {}
    BY <2>1, <2>2 DEF Conflict
  <2> QED
    BY <1>4, <2>3 DEF ParamKeys
<1>5. CASE Append(n, x) \in nodes /\ Append(n, y) \in nodes
  <2>1. Prefix(Append(n, x), Len(n)) = n
    BY <1>3, PrefixOfChild, PrefixWhole
  <2>2. Len(n) \in 0 .. Len(Append(n, x))
    BY <1>3
  <2>3. n \in nodes
    BY <1>5, <2>1, <2>2 DEF Inv, Tree
  <2> QED
    BY <1>5, <2>3 DEF Inv, OneParameterPerLevel, ParamKeys
<1>6. CASE /\ \E k \in 1 .. Len(p) : Append(n, x) = Prefix(p, k)
           /\ \E k \in 1 .. Len(p) : Append(n, y) = Prefix(p, k)
  <2>1. PICK k \in 1 .. Len(p) : Append(n, x) = Prefix(p, k)
    BY <1>6
  <2>2. PICK m \in 1 .. Len(p) : Append(n, y) = Prefix(p, m)
    BY <1>6
  <2>3. Len(n) = k - 1 /\ x = p[k]
    BY <1>1, <1>3, <2>1, ChildIsPrefix
  <2>4. Len(n) = m - 1 /\ y = p[m]
    BY SMTT(30), <1>1, <1>3, <2>2, ChildIsPrefix
  <2> QED
    BY <2>3, <2>4
<1> QED
  BY <1>2, <1>4, <1>5, <1>6

(* The invariant: it holds at first, and every step keeps it.              *)
LEMMA InitInv == Init => Inv /\ <<>> \in nodes
<1> SUFFICES ASSUME Init PROVE Inv /\ <<>> \in nodes
  OBVIOUS
<1>1. \A k \in 0 .. Len(<<>>) : Prefix(<<>>, k) = <<>>
  BY DEF Prefix
<1>2. Tree
  BY <1>1 DEF Init, Tree
<1>3. \A x : Append(<<>>, x) # <<>>
  OBVIOUS
<1>4. OneParameterPerLevel
  BY <1>3 DEF Init, OneParameterPerLevel, ParamKeys
<1> QED
  BY <1>2, <1>4 DEF Init, Inv

LEMMA NextInv ==
  ASSUME Inv, <<>> \in nodes, [Next]_vars, RouteAssumption
  PROVE  Inv' /\ <<>> \in nodes'
<1>1. CASE UNCHANGED vars
  BY <1>1 DEF Inv, Tree, OneParameterPerLevel, ParamKeys, vars
<1>2. ASSUME NEW p \in Paths, AddStatic(p)
      PROVE  Inv' /\ <<>> \in nodes'
  BY <1>2 DEF AddStatic, Inv, Tree, OneParameterPerLevel, ParamKeys
<1>3. ASSUME NEW p \in Paths, AddDynamic(p)
      PROVE  Inv' /\ <<>> \in nodes'
  <2>1. p \in Seq(Keys) /\ Len(p) \in 0 .. Len(p) /\ DOMAIN p = 1 .. Len(p)
    BY DEF RouteAssumption, Keys
  <2>2. nodes' = nodes \cup {Prefix(p, k) : k \in 1 .. Len(p)}
    BY <1>3, <2>1 DEF AddDynamic
  <2>3. Tree'
    BY <2>1, <2>2, TreeGrows DEF Inv
  <2>4. OneParameterPerLevel'
    BY <1>3, AddKeepsOneParameter
  <2> QED
    BY <2>2, <2>3, <2>4 DEF Inv
<1>4. ASSUME NEW p \in Paths, AddThrows(p)
      PROVE  Inv' /\ <<>> \in nodes'
  <2>1. nodes' = nodes
    BY <1>4, ThrowKeepsNodes DEF Inv
  <2> QED
    BY <2>1 DEF Inv, Tree, OneParameterPerLevel, ParamKeys
<1> QED
  BY <1>1, <1>2, <1>3, <1>4 DEF Next

LEMMA Invariance == Spec => [](Inv /\ <<>> \in nodes)
<1>1. Init => Inv /\ <<>> \in nodes
  BY InitInv
<1>2. (Inv /\ <<>> \in nodes) /\ [Next]_vars => (Inv /\ <<>> \in nodes)'
  BY NextInv, RouteAssumption
<1> QED
  BY <1>1, <1>2, PTL DEF Spec

-----------------------------------------------------------------------------
(* The theorems.                                                           *)

(* Whatever is added, in whatever order, a level of the tree has at most   *)
(* one parameter, so that the iteration order of an unordered_map does not *)
(* decide where route() goes (route_handler.hpp:55-66, 90-92).             *)
THEOREM OneParameter == Spec => []OneParameterPerLevel
<1>1. Inv => OneParameterPerLevel
  BY DEF Inv
<1> QED
  BY <1>1, Invariance, PTL

(* add_handler() has the strong exception guarantee: when it throws, the   *)
(* handlers and the tree are what they were before the call                *)
(* (route_handler.hpp:53-68).                                              *)
THEOREM StrongGuarantee == Spec => ThrowChangesNothing
<1>1. ASSUME Inv, [Next]_vars, RouteAssumption
      PROVE  [thrown' => UNCHANGED <<static, nodes, resource>>]_vars
  <2>1. CASE UNCHANGED vars
    BY <2>1
  <2>2. ASSUME NEW p \in Paths, AddStatic(p) \/ AddDynamic(p)
        PROVE  ~thrown'
    BY <2>2 DEF AddStatic, AddDynamic
  <2>3. ASSUME NEW p \in Paths, AddThrows(p)
        PROVE  UNCHANGED <<static, nodes, resource>>
    BY <1>1, <2>3, ThrowKeepsNodes DEF Inv, AddThrows
  <2> QED
    BY <1>1, <2>1, <2>2, <2>3 DEF Next
<1>2. Inv /\ [Next]_vars => [thrown' => UNCHANGED <<static, nodes, resource>>]_vars
  BY <1>1, RouteAssumption
<1> QED
  BY <1>2, Invariance, PTL DEF Spec, ThrowChangesNothing

-----------------------------------------------------------------------------
(* The search.  Walk is a recursive function: that the recursion defines   *)
(* one, and what holds of all its values, is shown by climbing from 0.     *)

\* A set of numbers that is not empty has a least one.
LEMMA Least ==
  ASSUME NEW T \in SUBSET Nat, T # {}
  PROVE  \E m \in T : \A n \in T : ~(n < m)
<1>1. PICK m \in T : \A n \in T : <<n, m>> \notin OpToRel(<, Nat)
  BY NatLessThanWellFounded, WFMin
<1> QED
  BY <1>1 DEF OpToRel

\* A set with 0, and with k + 1 for every k below N in it, has all up to N.
LEMMA Climb ==
  ASSUME NEW N \in Nat, NEW S, 0 \in S,
         \A k \in 0 .. N - 1 : k \in S => k + 1 \in S
  PROVE  \A k \in 0 .. N : k \in S
<1> DEFINE T == (0 .. N) \ S
<1> SUFFICES ASSUME T # {} PROVE FALSE
  OBVIOUS
<1>1. T \in SUBSET Nat
  OBVIOUS
<1>2. PICK m \in T : \A n \in T : ~(n < m)
  BY <1>1, Least
<1>3. m # 0 /\ m - 1 \in 0 .. N - 1 /\ (m - 1) + 1 = m /\ m - 1 < m
  BY <1>2
<1>4. m - 1 \in S
  BY <1>2, <1>3
<1> QED
  BY <1>2, <1>3, <1>4

\* A walk over the first n parts, as the recursion demands it.
IsWalk(f, parts, n) ==
  f = [k \in 0 .. n |-> IF k = 0 THEN <<>>
                        ELSE IF f[k - 1] = None THEN None
                        ELSE Child(f[k - 1], parts[k])]

\* There is one over any number of parts.
LEMMA WalkExists ==
  ASSUME NEW parts, Len(parts) \in Nat
  PROVE  \E f : IsWalk(f, parts, Len(parts))
<1> DEFINE S == {n \in 0 .. Len(parts) : \E f : IsWalk(f, parts, n)}
<1>1. 0 \in S
  <2> DEFINE f == [k \in 0 .. 0 |-> <<>>]
  <2>1. IsWalk(f, parts, 0)
    BY DEF IsWalk
  <2> QED
    BY <2>1
<1>2. ASSUME NEW n \in 0 .. Len(parts) - 1, n \in S
      PROVE  n + 1 \in S
  <2>1. PICK f : IsWalk(f, parts, n)
    BY <1>2
  <2>2. n \in Nat /\ n + 1 \in 0 .. Len(parts)
    OBVIOUS
  <2> DEFINE v == IF f[n] = None THEN None ELSE Child(f[n], parts[n + 1])
             g == [k \in 0 .. n + 1 |-> IF k = n + 1 THEN v ELSE f[k]]
  <2>3. \A k \in 0 .. n : f[k] = IF k = 0 THEN <<>>
                                 ELSE IF f[k - 1] = None THEN None
                                 ELSE Child(f[k - 1], parts[k])
    BY <2>1 DEF IsWalk
  <2>4. \A k \in 0 .. n : g[k] = f[k]
    BY <2>2
  <2>5. g[n + 1] = v
    BY <2>2
  <2>6. ASSUME NEW k \in 0 .. n + 1
        PROVE  g[k] = IF k = 0 THEN <<>>
                      ELSE IF g[k - 1] = None THEN None
                      ELSE Child(g[k - 1], parts[k])
    <3> HIDE DEF g
    <3>1. CASE k = n + 1
      <4>1. k # 0 /\ k - 1 = n /\ n \in 0 .. n
        BY <2>2, <3>1
      <4>2. g[k - 1] = f[n]
        BY <2>4, <4>1
      <4> QED
        BY <2>5, <3>1, <4>1, <4>2
    <3>2. CASE k # n + 1
      <4>1. k \in 0 .. n /\ (k # 0 => k - 1 \in 0 .. n)
        BY <2>2, <3>2
      <4> QED
        BY <2>3, <2>4, <4>1
    <3> QED
      BY <3>1, <3>2
  <2>7. IsWalk(g, parts, n + 1)
    BY <2>6 DEF IsWalk
  <2> QED
    BY <2>2, <2>7
<1> HIDE DEF S
<1>3. \A k \in 0 .. Len(parts) : k \in S
  BY <1>1, <1>2, Climb
<1>4. Len(parts) \in S
  BY <1>3
<1> QED
  BY <1>4 DEF S

\* Walk is that one, node by node.
LEMMA WalkIs ==
  ASSUME NEW parts, Len(parts) \in Nat
  PROVE  /\ Walk(parts)[0] = <<>>
         /\ \A k \in 0 .. Len(parts) - 1 :
              Walk(parts)[k + 1] = IF Walk(parts)[k] = None THEN None
                                   ELSE Child(Walk(parts)[k], parts[k + 1])
<1>1. IsWalk(Walk(parts), parts, Len(parts))
  BY Zenon, WalkExists DEF IsWalk, Walk
<1> DEFINE w == Walk(parts)
<1>2. \A k \in 0 .. Len(parts) : w[k] = IF k = 0 THEN <<>>
                                        ELSE IF w[k - 1] = None THEN None
                                        ELSE Child(w[k - 1], parts[k])
  BY <1>1 DEF IsWalk
<1> HIDE DEF w
<1>3. w[0] = <<>>
  BY <1>2
<1>4. ASSUME NEW k \in 0 .. Len(parts) - 1
      PROVE  w[k + 1] = IF w[k] = None THEN None ELSE Child(w[k], parts[k + 1])
  <2>1. k + 1 \in 0 .. Len(parts) /\ k + 1 # 0 /\ (k + 1) - 1 = k
    OBVIOUS
  <2> QED
    BY <1>2, <2>1
<1> QED
  BY <1>3, <1>4 DEF w

-----------------------------------------------------------------------------
(* What is stored where.                                                   *)

\* Both containers lead from a path to a handler that was added with it: the
\* map from paths without a parameter, the tree from paths with one.
Stored ==
  /\ \A p \in DOMAIN static :
       static[p] \in 1 .. Len(added) /\ added[static[p]] = p /\ ~IsDynamic(p)
  /\ \A p \in DOMAIN resource :
       resource[p] \in 1 .. Len(added) /\ added[resource[p]] = p /\ IsDynamic(p)

\* The last handler that was added with a path is the one that is stored.
LatestStored ==
  \A h \in 1 .. Len(added) : Latest(h) =>
    IF IsDynamic(added[h])
      THEN added[h] \in DOMAIN resource /\ resource[added[h]] = h
      ELSE added[h] \in DOMAIN static /\ static[added[h]] = h

\* All that holds of the two containers between two calls of add_handler().
Routing == TypeOK /\ Inv /\ Stored /\ LatestStored

\* A handler that is added gets the next number, and the old ones keep theirs.
LEMMA NewNumber ==
  ASSUME TypeOK, NEW p \in Paths, added' = Append(added, p)
  PROVE  /\ Len(added) \in Nat /\ Len(added') = Len(added) + 1
         /\ added'[Len(added')] = p
         /\ \A h \in 1 .. Len(added) : added'[h] = added[h]
         /\ \A h \in 1 .. Len(added) : Latest(h)' => Latest(h) /\ added[h] # p
<1>1. added \in Seq(Paths)
  BY DEF TypeOK
<1>2. /\ Len(added) \in Nat /\ Len(added') = Len(added) + 1
      /\ added'[Len(added')] = p
      /\ \A h \in 1 .. Len(added) : added'[h] = added[h]
  BY <1>1
<1>3. ASSUME NEW h \in 1 .. Len(added), Latest(h)'
      PROVE  Latest(h) /\ added[h] # p
  <2>1. \A g \in h + 1 .. Len(added') : added'[g] # added'[h]
    BY <1>3 DEF Latest
  <2>2. Len(added') \in h + 1 .. Len(added')
    BY <1>2
  <2>3. added[h] # p
    BY <1>2, <2>1, <2>2
  <2>4. ASSUME NEW g \in h + 1 .. Len(added)
        PROVE  added[g] # added[h]
    <3>1. g \in 1 .. Len(added) /\ g \in h + 1 .. Len(added')
      BY <1>2
    <3> QED
      BY <1>2, <2>1, <3>1
  <2> QED
    BY <2>3, <2>4 DEF Latest
<1> QED
  BY <1>2, <1>3

\* add_handler() of a path without a parameter.
LEMMA StaticStored ==
  ASSUME Routing, NEW p \in Paths, AddStatic(p)
  PROVE  TypeOK' /\ Stored' /\ LatestStored'
<1>1. TypeOK /\ Stored /\ LatestStored /\ MaxAdds \in Nat
  BY RouteAssumption DEF Routing
<1> DEFINE h == Len(added')
<1>2. /\ ~IsDynamic(p) /\ Len(added) < MaxAdds /\ added' = Append(added, p)
      /\ thrown' = FALSE /\ UNCHANGED <<nodes, resource>>
  BY DEF AddStatic
<1>3. /\ Len(added) \in Nat /\ h = Len(added) + 1 /\ added'[h] = p
      /\ \A g \in 1 .. Len(added) : added'[g] = added[g]
      /\ \A g \in 1 .. Len(added) : Latest(g)' => Latest(g) /\ added[g] # p
  BY <1>1, <1>2, NewNumber
<1>4. /\ DOMAIN static' = DOMAIN static \cup {p} /\ static'[p] = h
      /\ \A x \in DOMAIN static \ {p} : static'[x] = static[x]
  BY DEF AddStatic, Assign
<1> HIDE DEF h
<1>5. TypeOK'
  <2>1. added' \in Seq(Paths) /\ Len(added') <= MaxAdds /\ h \in Handlers
    BY <1>1, <1>2, <1>3 DEF TypeOK, Handlers, h
  <2>2. \A x \in DOMAIN static' : x \in Paths /\ static'[x] \in Handlers
    BY <1>1, <1>4, <2>1 DEF TypeOK
  <2> QED
    BY <1>1, <1>2, <2>1, <2>2 DEF TypeOK
<1>6. Stored'
  <2>1. \A x \in DOMAIN static' :
          static'[x] \in 1 .. Len(added') /\ added'[static'[x]] = x /\ ~IsDynamic(x)
    BY <1>1, <1>2, <1>3, <1>4 DEF Stored, h
  <2>2. \A x \in DOMAIN resource' :
          resource'[x] \in 1 .. Len(added') /\ added'[resource'[x]] = x /\ IsDynamic(x)
    BY <1>1, <1>2, <1>3 DEF Stored, h
  <2> QED
    BY <2>1, <2>2 DEF Stored
<1>7. ASSUME NEW g \in 1 .. Len(added'), Latest(g)'
      PROVE  IF IsDynamic(added'[g])
               THEN added'[g] \in DOMAIN resource' /\ resource'[added'[g]] = g
               ELSE added'[g] \in DOMAIN static' /\ static'[added'[g]] = g
  <2>1. CASE g = h
    BY <1>2, <1>3, <1>4, <2>1
  <2>2. CASE g # h
    <3>1. g \in 1 .. Len(added) /\ Latest(g) /\ added[g] # p /\ added'[g] = added[g]
      BY <1>3, <1>7, <2>2 DEF h
    <3> QED
      BY <1>1, <1>2, <1>4, <3>1 DEF LatestStored
  <2> QED
    BY <2>1, <2>2
<1> QED
  BY <1>5, <1>6, <1>7 DEF LatestStored

\* add_handler() of a path with a parameter.
LEMMA DynamicStored ==
  ASSUME Routing, NEW p \in Paths, AddDynamic(p), Tree', <<>> \in nodes'
  PROVE  TypeOK' /\ Stored' /\ LatestStored'
<1>1. TypeOK /\ Stored /\ LatestStored /\ MaxAdds \in Nat
  BY RouteAssumption DEF Routing
<1> DEFINE h == Len(added')
<1>2. /\ IsDynamic(p) /\ Len(added) < MaxAdds /\ added' = Append(added, p)
      /\ nodes' = nodes \cup {Prefix(p, k) : k \in DOMAIN p}
      /\ thrown' = FALSE /\ UNCHANGED static
  BY DEF AddDynamic
<1>3. /\ Len(added) \in Nat /\ h = Len(added) + 1 /\ added'[h] = p
      /\ \A g \in 1 .. Len(added) : added'[g] = added[g]
      /\ \A g \in 1 .. Len(added) : Latest(g)' => Latest(g) /\ added[g] # p
  BY <1>1, <1>2, NewNumber
<1>4. /\ DOMAIN resource' = DOMAIN resource \cup {p} /\ resource'[p] = h
      /\ \A x \in DOMAIN resource \ {p} : resource'[x] = resource[x]
  BY DEF AddDynamic, Assign
<1> HIDE DEF h
<1>5. TypeOK'
  <2>1. added' \in Seq(Paths) /\ Len(added') <= MaxAdds /\ h \in Handlers
    BY <1>1, <1>2, <1>3 DEF TypeOK, Handlers, h
  <2>2. p \in nodes'
    <3>1. p \in Seq(Keys) /\ DOMAIN p = 1 .. Len(p) /\ Len(p) \in Nat
      BY RouteAssumption DEF RouteAssumption, Keys
    <3>2. Len(p) \in DOMAIN p
      BY <1>2, <3>1 DEF IsDynamic
    <3>3. Prefix(p, Len(p)) = p
      BY <3>1, PrefixWhole
    <3> QED
      BY <1>2, <3>2, <3>3
  <2>3. \A x \in DOMAIN resource' : x \in nodes' /\ resource'[x] \in Handlers
    BY <1>1, <1>2, <1>4, <2>1, <2>2 DEF TypeOK
  <2>4. nodes' \subseteq Seq(Literals \cup Params)
    BY DEF Tree, Keys
  <2> QED
    BY <1>1, <1>2, <2>1, <2>3, <2>4 DEF TypeOK
<1>6. Stored'
  <2>1. \A x \in DOMAIN resource' :
          resource'[x] \in 1 .. Len(added') /\ added'[resource'[x]] = x /\ IsDynamic(x)
    BY <1>1, <1>2, <1>3, <1>4 DEF Stored, h
  <2>2. \A x \in DOMAIN static' :
          static'[x] \in 1 .. Len(added') /\ added'[static'[x]] = x /\ ~IsDynamic(x)
    BY <1>1, <1>2, <1>3 DEF Stored, h
  <2> QED
    BY <2>1, <2>2 DEF Stored
<1>7. ASSUME NEW g \in 1 .. Len(added'), Latest(g)'
      PROVE  IF IsDynamic(added'[g])
               THEN added'[g] \in DOMAIN resource' /\ resource'[added'[g]] = g
               ELSE added'[g] \in DOMAIN static' /\ static'[added'[g]] = g
  <2>1. CASE g = h
    BY <1>2, <1>3, <1>4, <2>1
  <2>2. CASE g # h
    <3>1. g \in 1 .. Len(added) /\ Latest(g) /\ added[g] # p /\ added'[g] = added[g]
      BY <1>3, <1>7, <2>2 DEF h
    <3> QED
      BY <1>1, <1>2, <1>4, <3>1 DEF LatestStored
  <2> QED
    BY <2>1, <2>2
<1> QED
  BY <1>5, <1>6, <1>7 DEF LatestStored

\* At the start nothing is stored.
LEMMA InitRouting == Init => Routing
<1> SUFFICES ASSUME Init PROVE Routing
  OBVIOUS
<1>1. Inv
  BY InitInv
<1>2. /\ DOMAIN static = {} /\ DOMAIN resource = {}
      /\ Len(added) = 0 /\ added \in Seq(Paths)
  BY DEF Init
<1>3. TypeOK
  <2>1. nodes \subseteq Seq(Literals \cup Params) /\ <<>> \in nodes /\ thrown = FALSE
    BY <1>1 DEF Init, Inv, Tree, Keys
  <2>2. Len(added) <= MaxAdds
    BY <1>2, RouteAssumption
  <2> QED
    BY <1>2, <2>1, <2>2 DEF TypeOK
<1>4. Stored /\ LatestStored
  BY <1>2 DEF Stored, LatestStored
<1> QED
  BY <1>1, <1>3, <1>4 DEF Routing

\* Every add_handler() keeps the containers in order, and one that throws
\* does not touch them.
LEMMA NextRouting == Routing /\ [Next]_vars => Routing'
<1> SUFFICES ASSUME Routing, [Next]_vars PROVE Routing'
  OBVIOUS
<1>1. Inv' /\ <<>> \in nodes'
  BY NextInv, RouteAssumption DEF Routing, TypeOK
<1>2. ASSUME UNCHANGED <<static, nodes, resource, added>>, thrown' \in BOOLEAN
      PROVE  TypeOK' /\ Stored' /\ LatestStored'
  BY <1>2 DEF Routing, TypeOK, Stored, LatestStored, Latest
<1>3. CASE UNCHANGED vars
  BY <1>1, <1>2, <1>3 DEF Routing, TypeOK, vars
<1>4. ASSUME NEW p \in Paths, AddThrows(p)
      PROVE  TypeOK' /\ Stored' /\ LatestStored'
  <2>1. nodes' = nodes
    BY <1>4, ThrowKeepsNodes, RouteAssumption DEF Routing, Inv
  <2> QED
    BY <1>2, <1>4, <2>1 DEF AddThrows
<1>5. ASSUME NEW p \in Paths, AddStatic(p) \/ AddDynamic(p)
      PROVE  TypeOK' /\ Stored' /\ LatestStored'
  BY <1>1, <1>5, StaticStored, DynamicStored DEF Inv
<1> QED
  BY <1>1, <1>3, <1>4, <1>5 DEF Next, Routing

\* That holds in every reachable state.
LEMMA RoutingAlways == Spec => []Routing
  BY InitRouting, NextRouting, PTL DEF Spec

-----------------------------------------------------------------------------
(* Where the search ends.                                                  *)

\* The parameter that a level is searched with is one that it has.
LEMMA SomeParameter ==
  ASSUME NEW n, ParamKeys(n) # {}
  PROVE  (CHOOSE x \in ParamKeys(n) : TRUE) \in ParamKeys(n)
BY Zenon

\* The child that a part leads to is a node, by the part itself or a parameter.
LEMMA ChildIsNode ==
  ASSUME NEW n, NEW part, Child(n, part) # None
  PROVE  \E x : /\ Child(n, part) = Append(n, x) /\ Append(n, x) \in nodes
                /\ x = part \/ x \in Params
<1> DEFINE c == CHOOSE x \in ParamKeys(n) : TRUE
<1>1. ParamKeys(n) # {} => c \in ParamKeys(n)
  BY Zenon, SomeParameter
<1>2. Child(n, part) = IF Append(n, part) \in nodes THEN Append(n, part)
                       ELSE IF ParamKeys(n) # {} THEN Append(n, c) ELSE None
  BY Zenon DEF Child
<1> HIDE DEF c
<1>3. ParamKeys(n) # {} => c \in Params /\ Append(n, c) \in nodes
  BY <1>1 DEF ParamKeys
<1> QED
  BY <1>2, <1>3

\* A node that fits the first k parts of a request.
Fits(n, parts, k) ==
  /\ n \in nodes /\ n \in Seq(Keys) /\ Len(n) = k
  /\ \A j \in 1 .. k : n[j] \in Params \/ n[j] = parts[j]

\* What the walk reaches fits the parts it has gone along.
LEMMA WalkFits ==
  ASSUME Tree, <<>> \in nodes, NEW parts, Len(parts) \in Nat
  PROVE  Walk(parts)[Len(parts)] # None =>
           Fits(Walk(parts)[Len(parts)], parts, Len(parts))
<1> DEFINE w == Walk(parts)
           S == {k \in 0 .. Len(parts) : w[k] # None => Fits(w[k], parts, k)}
<1>1. /\ w[0] = <<>>
      /\ \A k \in 0 .. Len(parts) - 1 :
           w[k + 1] = IF w[k] = None THEN None ELSE Child(w[k], parts[k + 1])
  BY WalkIs
<1> HIDE DEF w
<1>2. 0 \in S
  <2>1. Fits(<<>>, parts, 0)
    BY DEF Fits, Tree
  <2> QED
    BY <1>1, <2>1
<1>3. ASSUME NEW k \in 0 .. Len(parts) - 1, k \in S
      PROVE  k + 1 \in S
  <2> SUFFICES ASSUME w[k + 1] # None PROVE Fits(w[k + 1], parts, k + 1)
    OBVIOUS
  <2>1. w[k] # None /\ w[k + 1] = Child(w[k], parts[k + 1])
    BY <1>1
  <2>2. Fits(w[k], parts, k)
    BY <1>3, <2>1
  <2>3. PICK x : /\ w[k + 1] = Append(w[k], x) /\ w[k + 1] \in nodes
                 /\ x = parts[k + 1] \/ x \in Params
    <3>1. PICK n, part : n = w[k] /\ part = parts[k + 1]
      OBVIOUS
    <3>2. PICK x : /\ Child(n, part) = Append(n, x) /\ Append(n, x) \in nodes
                   /\ x = part \/ x \in Params
      BY <2>1, <3>1, ChildIsNode
    <3> QED
      BY <2>1, <3>1, <3>2
  <2>4. w[k + 1] \in Seq(Keys)
    BY <2>3 DEF Tree
  <2>5. k \in Nat /\ w[k] \in Seq(Keys) /\ Len(w[k]) = k
    BY <2>2 DEF Fits
  <2>6. /\ Len(w[k + 1]) = k + 1 /\ w[k + 1][k + 1] = x
        /\ \A j \in 1 .. k : w[k + 1][j] = w[k][j]
    BY <2>3, <2>4, <2>5
  <2> QED
    BY <2>2, <2>3, <2>4, <2>5, <2>6 DEF Fits
<1> HIDE DEF S
<1>4. \A k \in 0 .. Len(parts) : k \in S
  BY <1>2, <1>3, Climb
<1>5. Len(parts) \in S
  BY <1>4
<1> QED
  BY <1>5 DEF S, w

\* A path of the tree is what the parts that match it lead to, where no part
\* that stands for a parameter is a key of its level.
LEMMA WalkFollows ==
  ASSUME Inv, NEW path \in nodes, NEW parts, Matches(path, parts),
         NothingShadows(path, parts), Len(parts) \in Nat, RouteAssumption
  PROVE  Walk(parts)[Len(parts)] = path
<1> DEFINE w == Walk(parts)
           S == {k \in 0 .. Len(parts) : w[k] = Prefix(path, k)}
<1>0. path \in Seq(Keys) /\ Len(path) = Len(parts) /\ DOMAIN path = 1 .. Len(path)
  BY DEF Inv, Tree, Matches
<1>1. /\ w[0] = <<>>
      /\ \A k \in 0 .. Len(parts) - 1 :
           w[k + 1] = IF w[k] = None THEN None ELSE Child(w[k], parts[k + 1])
  BY WalkIs
<1> HIDE DEF w
<1>2. 0 \in S
  <2>1. Prefix(path, 0) = <<>>
    BY <1>0 DEF Prefix
  <2> QED
    BY <1>0, <1>1, <2>1
<1>3. ASSUME NEW k \in 0 .. Len(parts) - 1, k \in S
      PROVE  k + 1 \in S
  <2> DEFINE n == Prefix(path, k)
             x == path[k + 1]
  <2>1. /\ w[k] = n /\ k + 1 \in 1 .. Len(path) /\ k \in 0 .. Len(path)
        /\ k + 1 \in 0 .. Len(path) /\ (k + 1) - 1 = k
    BY <1>0, <1>3
  <2>2. n \in Seq(Keys) /\ n \in nodes /\ Len(n) = k /\ Prefix(path, k + 1) \in nodes
    BY <1>0, <2>1, PrefixType DEF Inv, Tree
  <2>3. n # None
    BY <2>2 DEF RouteAssumption, Keys
  <2>4. x \in Keys
    BY <1>0, <2>1
  <2>5. Append(n, x) = Prefix(path, k + 1)
    <3>1. Prefix(path, k + 1) \in Seq(Keys) /\ Len(Prefix(path, k + 1)) = k + 1
          /\ \A j \in 1 .. k + 1 : Prefix(path, k + 1)[j] = path[j]
      BY <1>0, <2>1, PrefixType
    <3>2. \A j \in 1 .. k : n[j] = path[j]
      BY <1>0, <2>1, PrefixType
    <3>3. Append(n, x) \in Seq(Keys) /\ Len(Append(n, x)) = k + 1
          /\ Append(n, x)[k + 1] = x /\ \A j \in 1 .. k : Append(n, x)[j] = n[j]
      <4> HIDE DEF n, x
      <4> QED
        BY <2>2, <2>4
    <3>4. \A j \in 1 .. k + 1 : Append(n, x)[j] = Prefix(path, k + 1)[j]
      <4>1. ASSUME NEW j \in 1 .. k + 1
            PROVE  Append(n, x)[j] = Prefix(path, k + 1)[j]
        <5>1. CASE j = k + 1
          BY <3>1, <3>3, <5>1
        <5>2. CASE j # k + 1
          <6>1. j \in 1 .. k
            BY <5>2
          <6> QED
            BY <3>1, <3>2, <3>3, <6>1
        <5> QED
          BY <5>1, <5>2
      <4> QED
        BY <4>1
    <3>5. PICK a, b : a = Append(n, x) /\ b = Prefix(path, k + 1)
      OBVIOUS
    <3>6. /\ a \in Seq(Keys) /\ b \in Seq(Keys) /\ Len(a) = Len(b)
          /\ \A j \in 1 .. Len(a) : a[j] = b[j]
      BY <3>1, <3>3, <3>4, <3>5
    <3>7. a = b
      BY <3>6
    <3> QED
      BY <3>5, <3>7
  <2>6. w[k + 1] = Child(n, parts[k + 1])
    BY <1>1, <2>1, <2>3
  <2>7. Child(n, parts[k + 1]) = Append(n, x)
    <3>1. CASE x \notin Params
      <4>1. parts[k + 1] = x
        BY <1>0, <2>1, <3>1 DEF Matches
      <4> QED
        BY Zenon, <2>2, <2>5, <4>1 DEF Child
    <3>2. CASE x \in Params
      <4>1. Append(n, parts[k + 1]) \notin nodes
        BY <1>0, <2>1, <3>2 DEF NothingShadows
      <4>2. x \in ParamKeys(n)
        BY <2>2, <2>5, <3>2 DEF ParamKeys
      <4>3. (CHOOSE y \in ParamKeys(n) : TRUE) = x
        <5>1. PICK c : c = CHOOSE y \in ParamKeys(n) : TRUE
          BY Zenon
        <5>2. c \in ParamKeys(n)
          BY Zenon, <4>2, <5>1, SomeParameter
        <5>3. c = x
          BY <2>2, <4>2, <5>2 DEF Inv, OneParameterPerLevel
        <5> QED
          BY Zenon, <5>1, <5>3
      <4> QED
        BY Zenon, <4>1, <4>2, <4>3 DEF Child
    <3> QED
      BY <3>1, <3>2
  <2> QED
    BY <2>1, <2>5, <2>6, <2>7
<1> HIDE DEF S
<1>4. \A k \in 0 .. Len(parts) : k \in S
  BY <1>2, <1>3, Climb
<1>5. Len(parts) \in S
  BY <1>4
<1>6. Prefix(path, Len(parts)) = path
  BY <1>0, PrefixWhole
<1> QED
  BY <1>5, <1>6 DEF S, w

(* Every variable keeps its type, and every handler in the tree has a node *)
(* of its own (route_handler.hpp:41-74).                                   *)
THEOREM RouteTypes == Spec => []TypeOK
<1>1. Routing => TypeOK
  BY DEF Routing
<1> QED
  BY <1>1, RoutingAlways, PTL

(* A request that reaches a handler matches its path, part by part, and a  *)
(* static handler goes before a dynamic one, whatever was added and tried  *)
(* to be added before (route_handler.hpp:41-103).                          *)
THEOREM MatchesAlways == Spec => []RoutesMatch
<1>1. ASSUME Routing PROVE RoutesMatch
  <2> SUFFICES ASSUME NEW req \in Requests, Route(req) # None
               PROVE  /\ Matches(added[Route(req)], req.parts)
                      /\ StaticHit(req) => ~IsDynamic(added[Route(req)])
    BY DEF RoutesMatch
  <2>1. TypeOK /\ Tree /\ Stored
    BY <1>1 DEF Routing, Inv
  <2>2. req.parts \in Seq(Keys) /\ Len(req.parts) \in Nat
        /\ DOMAIN req.parts = 1 .. Len(req.parts)
    <3>1. req.parts \in Seq(Literals \cup Params)
      BY RouteAssumption DEF Requests, RouteAssumption
    <3> QED
      BY <3>1 DEF Keys
  <2>3. CASE StaticHit(req)
    <3>1. req.parts \in DOMAIN static /\ Route(req) = static[req.parts]
      BY <2>3 DEF StaticHit, Route
    <3>2. added[Route(req)] = req.parts /\ ~IsDynamic(req.parts)
      BY <2>1, <3>1 DEF Stored
    <3> QED
      BY <3>2 DEF Matches
  <2>4. CASE ~StaticHit(req)
    <3> DEFINE n == FindNode(req.parts)
    <3>1. n \in DOMAIN resource /\ Route(req) = resource[n]
      BY Zenon, <2>4 DEF Route
    <3>2. added[Route(req)] = n /\ n \in nodes
      BY <2>1, <3>1 DEF Stored, TypeOK
    <3>3. n # None
      BY <3>2, <2>1, RouteAssumption DEF RouteAssumption, Tree, Keys
    <3>4. Fits(n, req.parts, Len(req.parts))
      BY <2>1, <2>2, <3>3, WalkFits DEF FindNode, TypeOK
    <3> HIDE DEF n
    <3>5. Matches(n, req.parts)
      BY <2>2, <3>4 DEF Fits, Matches
    <3> QED
      BY <2>4, <3>2, <3>5
  <2> QED
    BY <2>3, <2>4
<1> QED
  BY <1>1, RoutingAlways, PTL

(* The handler added last for a path is reached by every request that      *)
(* matches the path, unless a value that stands for a parameter is itself  *)
(* a key of the tree, or a static handler takes the request                *)
(* (route_handler.hpp:78-103).                                             *)
THEOREM ReachedAlways == Spec => []LatestIsReached
<1>1. ASSUME Routing PROVE LatestIsReached
  <2> SUFFICES ASSUME NEW h \in DOMAIN added, Latest(h), NEW req \in Requests
               PROVE  IF IsDynamic(added[h])
                        THEN /\ Matches(added[h], req.parts)
                             /\ NothingShadows(added[h], req.parts)
                             /\ ~StaticHit(req)
                             => Route(req) = h
                        ELSE req = [parts |-> added[h], query |-> FALSE] =>
                               Route(req) = h
    BY DEF LatestIsReached
  <2>1. TypeOK /\ Inv /\ LatestStored /\ h \in 1 .. Len(added)
    BY <1>1 DEF Routing, TypeOK
  <2>2. CASE IsDynamic(added[h])
    <3> SUFFICES ASSUME Matches(added[h], req.parts),
                        NothingShadows(added[h], req.parts), ~StaticHit(req)
                 PROVE  Route(req) = h
      BY <2>2
    <3>1. added[h] \in DOMAIN resource /\ resource[added[h]] = h
      BY <2>1, <2>2 DEF LatestStored
    <3>2. added[h] \in nodes
      BY <2>1, <3>1 DEF TypeOK
    <3>3. Len(req.parts) \in Nat
      <4>1. req.parts \in Seq(Literals \cup Params)
        BY RouteAssumption DEF Requests, RouteAssumption
      <4> QED
        BY <4>1
    <3>4. FindNode(req.parts) = added[h]
      BY <2>1, <3>2, <3>3, WalkFollows, RouteAssumption DEF FindNode
    <3> QED
      BY <3>1, <3>4 DEF Route
  <2>3. CASE ~IsDynamic(added[h]) /\ req = [parts |-> added[h], query |-> FALSE]
    <3>1. added[h] \in DOMAIN static /\ static[added[h]] = h
      BY <2>1, <2>3 DEF LatestStored
    <3> QED
      BY <2>3, <3>1 DEF Route, StaticHit
  <2> QED
    BY <2>2, <2>3
<1> QED
  BY <1>1, RoutingAlways, PTL
=============================================================================
