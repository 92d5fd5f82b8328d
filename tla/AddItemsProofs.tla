---------------------------- MODULE AddItemsProofs ----------------------------
(***************************************************************************)
(* Theorems about AddItems, for every tree, every request and any number   *)
(* of deletions: it keeps its types, and StreamIsTruthful, that nothing is *)
(* lost and nothing counted twice.                                         *)
(*                                                                         *)
(* The invariant says where a result may be (SlotInv, StageInv), what each *)
(* call of getTotals has gathered (CountInv, TotalsInv), that what was     *)
(* uploaded is answered for (AnswerInv), that what is still to do and what *)
(* has a result are apart and leave nothing out (TodoInv), and that the    *)
(* responses count themselves (StreamInv).  Induction over the tree is not *)
(* needed: Below(S) is the least set that is closed, and sums of sizes are *)
(* cardinalities (Weight).                                                 *)
(***************************************************************************)
EXTENDS AddItems, TLAPS, FiniteSetTheorems

-------------------------------------------------------------------------------
(* Sequences of distinct elements *)

\* What ReadDir returns: each path of the folder once.
LEMMA SetToSeqEnumerates ==
  ASSUME NEW S, IsFiniteSet(S)
  PROVE  /\ SetToSeq(S) \in Seq(S) /\ IsInjective(SetToSeq(S)) /\ ToSet(SetToSeq(S)) = S
<1> DEFINE c == Cardinality(S)
           t == SetToSeq(S)
<1>1. c \in Nat /\ \E f \in [1 .. c -> S] : IsInjective(f)
  BY FS_CardinalityType DEF ExistsBijection, Bijection, Injection
<1>2. t \in [1 .. c -> S] /\ IsInjective(t)
  BY <1>1 DEF SetToSeq
<1>3. IsFiniteSet(1 .. c) /\ Cardinality(1 .. c) = c
  BY <1>1, FS_Interval
<1>4. t \in Surjection(1 .. c, S)
  BY <1>2, <1>3, FS_Injection DEF Injection
<1>5. t \in Seq(S) /\ DOMAIN t = 1 .. c
  BY <1>1, <1>2
<1> QED  BY <1>2, <1>4, <1>5 DEF Surjection, ToSet

\* Strict inclusion is well-founded on the subsets of a finite set, so some of
\* the intervals from 1 to a member is the least.
LEMMA LeastIndex ==
  ASSUME NEW n \in Nat, NEW S \in SUBSET (1 .. n), S # {}
  PROVE  \E i \in S : \A j \in S : i <= j
<1> DEFINE U == 1 .. n
           T == {1 .. i : i \in S}
<1>1. IsWellFoundedOn(StrictSubsetOrdering(U), FiniteSubsetsOf(U))
  BY FS_StrictSubsetOrderingWellFounded
<1>2. T \subseteq FiniteSubsetsOf(U) /\ T # {}
  <2>1. \A i \in S : 1 .. i \in SUBSET U /\ IsFiniteSet(1 .. i)
    BY FS_Interval
  <2> QED  BY <2>1 DEF FiniteSubsetsOf
<1>3. PICK x \in T : \A y \in T : <<y, x>> \notin StrictSubsetOrdering(U)
  BY <1>1, <1>2, WFMin
<1>4. PICK i \in S : x = 1 .. i
  OBVIOUS
<1>5. ASSUME NEW j \in S, j < i  PROVE FALSE
  <2>1. 1 .. j \subseteq 1 .. i /\ i \in 1 .. i /\ i \notin 1 .. j
    BY <1>5
  <2>2. 1 .. j \in SUBSET U /\ 1 .. i \in SUBSET U /\ 1 .. j # 1 .. i
    BY <2>1
  <2>3. <<1 .. j, 1 .. i>> \in StrictSubsetOrdering(U)
    BY <2>1, <2>2 DEF StrictSubsetOrdering
  <2> QED  BY <1>3, <1>4, <2>3
<1> QED  BY <1>5

\* The k-th of the first occurrences exists: how many of them come before is
\* different for each of them and less than their number.
LEMMA RemoveDuplicatesIsASet ==
  ASSUME NEW S, NEW s \in Seq(S)
  PROVE  /\ RemoveDuplicates(s) \in Seq(S)
         /\ IsInjective(RemoveDuplicates(s))
         /\ ToSet(RemoveDuplicates(s)) = ToSet(s)
<1> DEFINE first == {i \in DOMAIN s : \A j \in 1 .. i - 1 : s[j] # s[i]}
           before(i) == {j \in first : j < i}
           c == Cardinality(first)
           rank == [i \in first |-> Cardinality(before(i)) + 1]
           nth(k) == CHOOSE i \in first : Cardinality(before(i)) = k - 1
           t == RemoveDuplicates(s)
<1>1. DOMAIN s = 1 .. Len(s) /\ Len(s) \in Nat /\ first \subseteq 1 .. Len(s)
  OBVIOUS
<1>2. IsFiniteSet(first) /\ c \in Nat
  <2>1. IsFiniteSet(1 .. Len(s))
    BY <1>1, FS_Interval
  <2>2. IsFiniteSet(first)
    BY <1>1, <2>1, FS_Subset
  <2> QED  BY <2>2, FS_CardinalityType
<1>3. ASSUME NEW i \in first
      PROVE  /\ IsFiniteSet(before(i)) /\ Cardinality(before(i)) \in Nat
             /\ rank[i] \in 1 .. c
  <2>1. before(i) \in SUBSET (first \ {i}) /\ first \ {i} \in SUBSET first
    BY <1>1
  <2>2. IsFiniteSet(first \ {i}) /\ Cardinality(first \ {i}) = c - 1
    BY <1>2, FS_RemoveElement
  <2>3. IsFiniteSet(before(i)) /\ Cardinality(before(i)) <= c - 1
    BY <2>1, <2>2, FS_Subset
  <2>4. Cardinality(before(i)) \in Nat
    BY <2>3, FS_CardinalityType
  <2>5. Cardinality(before(i)) + 1 \in 1 .. c
    <3> HIDE DEF c, before
    <3> QED  BY <1>2, <2>3, <2>4
  <2>6. rank[i] = Cardinality(before(i)) + 1
    OBVIOUS
  <2> QED  BY <2>3, <2>4, <2>5, <2>6
<1>4. ASSUME NEW i \in first, NEW j \in first, i < j
      PROVE  rank[i] < rank[j]
  <2>1. before(i) \cup {i} \in SUBSET before(j) /\ i \notin before(i)
    BY <1>1, <1>4
  <2>2. Cardinality(before(i) \cup {i}) = Cardinality(before(i)) + 1
    BY <1>3, <2>1, FS_AddElement
  <2>3. Cardinality(before(i) \cup {i}) <= Cardinality(before(j))
    BY <1>3, <2>1, FS_Subset
  <2>4. /\ rank[i] = Cardinality(before(i)) + 1 /\ rank[j] = Cardinality(before(j)) + 1
        /\ Cardinality(before(i)) \in Nat /\ Cardinality(before(j)) \in Nat
    BY <1>3
  <2> HIDE DEF rank, before
  <2> QED  BY <2>2, <2>3, <2>4
<1>5. rank \in Injection(first, 1 .. c)
  <2>1. rank \in [first -> 1 .. c]
    BY <1>3
  <2>2. ASSUME NEW i \in first, NEW j \in first, rank[i] = rank[j]  PROVE i = j
    <3>1. i \in Nat /\ j \in Nat
      BY <1>1
    <3> HIDE DEF rank, c, first
    <3>2. rank[i] \in Nat /\ rank[j] \in Nat
      BY <1>2, <2>1
    <3>3. ~ (i < j) /\ ~ (j < i)
      BY <1>4, <2>2, <3>2
    <3> QED  BY <3>1, <3>3
  <2> QED  BY <2>1, <2>2 DEF Injection, IsInjective
<1>6. rank \in Surjection(first, 1 .. c)
  <2>1. IsFiniteSet(1 .. c) /\ Cardinality(1 .. c) = c
    BY <1>2, FS_Interval
  <2> QED  BY <1>5, <2>1, FS_Injection
<1>7. ASSUME NEW k \in 1 .. c
      PROVE  nth(k) \in first /\ rank[nth(k)] = k
  <2>1. PICK i \in first : rank[i] = k
    BY <1>6 DEF Surjection
  <2>2. \A j \in first : rank[j] = Cardinality(before(j)) + 1
    OBVIOUS
  <2> HIDE DEF rank, before, first
  <2>3. k \in Nat /\ \A j \in first : Cardinality(before(j)) \in Nat
    BY <1>2, <1>3
  <2>4. Cardinality(before(i)) = k - 1
    BY <2>1, <2>2, <2>3
  <2>5. nth(k) \in first /\ Cardinality(before(nth(k))) = k - 1
    BY <2>4
  <2> HIDE DEF nth
  <2> QED  BY <2>2, <2>3, <2>5
<1>8. t = [k \in 1 .. c |-> s[nth(k)]]
  BY DEF RemoveDuplicates
<1> HIDE DEF rank, before
<1>9. \A i \in first : \E k \in 1 .. c : nth(k) = i
  <2> TAKE i \in first
  <2>1. rank[i] \in 1 .. c
    BY <1>5 DEF Injection
  <2>2. nth(rank[i]) \in first /\ rank[nth(rank[i])] = rank[i]
    BY <1>7, <2>1
  <2>3. nth(rank[i]) = i
    BY <1>5, <2>2 DEF Injection, IsInjective
  <2> QED  BY <2>1, <2>3
<1> HIDE DEF nth, t
<1>10. t \in Seq(S) /\ DOMAIN t = 1 .. c
  <2>1. \A k \in 1 .. c : s[nth(k)] \in S
    BY <1>1, <1>7
  <2> QED  BY <1>2, <1>8, <2>1
<1>11. IsInjective(t)
  <2> SUFFICES ASSUME NEW k \in 1 .. c, NEW l \in 1 .. c, t[k] = t[l]  PROVE k = l
    BY <1>10 DEF IsInjective
  <2>1. /\ nth(k) \in first /\ nth(l) \in first /\ s[nth(k)] = s[nth(l)]
        /\ rank[nth(k)] = k /\ rank[nth(l)] = l
    BY <1>7, <1>8
  <2>2. nth(k) = nth(l)
    BY <1>1, <2>1
  <2> QED  BY <2>1, <2>2
<1>12. ToSet(t) = ToSet(s)
  <2>1. ASSUME NEW i \in DOMAIN s  PROVE \E j \in first : s[j] = s[i]
    <3> DEFINE same == {j \in DOMAIN s : s[j] = s[i]}
    <3>1. same \in SUBSET (1 .. Len(s)) /\ i \in same
      BY <1>1
    <3>2. PICK j \in same : \A l \in same : j <= l
      BY <1>1, <3>1, LeastIndex
    <3>3. \A l \in 1 .. j - 1 : s[l] # s[j]
      BY <1>1, <3>2
    <3> QED  BY <3>2, <3>3
  <2>2. first \subseteq DOMAIN s
    BY <1>1
  <2> HIDE DEF first
  <2>3. ASSUME NEW x \in ToSet(t)  PROVE x \in ToSet(s)
    BY <1>7, <1>8, <1>10, <2>2 DEF ToSet
  <2>4. ASSUME NEW x \in ToSet(s)  PROVE x \in ToSet(t)
    <3>1. PICK j \in first : s[j] = x
      BY <2>1 DEF ToSet
    <3>2. PICK k \in 1 .. c : nth(k) = j
      BY <1>9
    <3> QED  BY <1>8, <1>10, <3>1, <3>2 DEF ToSet
  <2> QED  BY <2>3, <2>4
<1> QED  BY <1>10, <1>11, <1>12 DEF t

-------------------------------------------------------------------------------
(* The tree.  Below(S) is the least set that contains S and what is in it,    *)
(* which is all that induction over the tree needs.                           *)

\* What ReadDir finds on a disk nobody touched.
Kids(n) == {m \in Node : Parent[m] = n}

LEMMA BelowIsClosed ==
  ASSUME NEW S \in SUBSET Node
  PROVE  /\ S \subseteq Below(S) /\ Below(S) \subseteq Node
         /\ \A m \in Node : Parent[m] \in Below(S) => m \in Below(S)
  BY DEF Below

LEMMA BelowIsLeast ==
  ASSUME NEW S, NEW C \in SUBSET Node, S \subseteq C,
         \A m \in Node : Parent[m] \in C => m \in C
  PROVE  Below(S) \subseteq C
  BY DEF Below

LEMMA BelowGrows ==
  ASSUME NEW T \in SUBSET Node, NEW S \in SUBSET Below(T)
  PROVE  Below(S) \subseteq Below(T)
  BY BelowIsClosed, BelowIsLeast

LEMMA BelowUnion ==
  ASSUME NEW S \in SUBSET Node, NEW T \in SUBSET Node
  PROVE  Below(S \cup T) = Below(S) \cup Below(T)
<1>1. Below(S) \subseteq Below(S \cup T) /\ Below(T) \subseteq Below(S \cup T)
  <2>1. S \cup T \subseteq Below(S \cup T)
    BY BelowIsClosed
  <2> QED  BY <2>1, BelowGrows
<1>2. Below(S \cup T) \subseteq Below(S) \cup Below(T)
  <2> DEFINE C == Below(S) \cup Below(T)
  <2>1. C \in SUBSET Node /\ S \cup T \subseteq C /\ \A m \in Node : Parent[m] \in C => m \in C
    BY BelowIsClosed
  <2> HIDE DEF C
  <2>2. Below(S \cup T) \subseteq C
    BY <2>1, BelowIsLeast
  <2> QED  BY <2>2 DEF C
<1> QED  BY <1>1, <1>2

LEMMA BelowNothing == Below({}) = {}
<1>1. {} \in SUBSET Node /\ \A m \in Node : Parent[m] \in {} => m \in {}
  OBVIOUS
<1> QED  BY <1>1 DEF Below

\* What is below several nodes is below one of them.
LEMMA BelowOneOf ==
  ASSUME NEW S \in SUBSET Node
  PROVE  Below(S) = {m \in Node : \E n \in S : m \in Below({n})}
<1> DEFINE C == {m \in Node : \E n \in S : m \in Below({n})}
<1>1. \A n \in S : n \in Below({n})
  BY BelowIsClosed
<1>2. \A m \in Node : Parent[m] \in C => m \in C
  BY BelowIsClosed
<1>3. Below(S) \subseteq C
  BY <1>1, <1>2, BelowIsLeast
<1>4. \A n \in S : Below({n}) \subseteq Below(S)
  BY BelowIsClosed, BelowGrows
<1> QED  BY <1>3, <1>4

\* A node that is below S is in S or in a folder that is below S.
LEMMA BelowParent ==
  ASSUME NEW S \in SUBSET Node, NEW n \in Below(S), n \notin S
  PROVE  Parent[n] \in Below(S)
<1> DEFINE C == {m \in Below(S) : m \in S \/ Parent[m] \in Below(S)}
<1>1. C \subseteq Node /\ S \subseteq C /\ \A m \in Node : Parent[m] \in C => m \in C
  BY BelowIsClosed
<1>2. Below(S) \subseteq C
  BY <1>1, BelowIsLeast
<1> QED  BY <1>2

\* A folder has itself and what is below its paths.
LEMMA BelowKids ==
  ASSUME NEW n \in Node
  PROVE  Below({n}) = {n} \cup Below(Kids(n))
<1>1. Kids(n) \subseteq Node
  BY DEF Kids
<1>2. {n} \cup Below(Kids(n)) \subseteq Node
  BY <1>1, BelowIsClosed
<1>3. \A m \in Node : Parent[m] \in {n} \cup Below(Kids(n)) => m \in Below(Kids(n))
  BY <1>1, BelowIsClosed DEF Kids
<1>4. Below({n}) \subseteq {n} \cup Below(Kids(n))
  BY <1>2, <1>3, BelowIsLeast
<1>5. n \in Below({n}) /\ Kids(n) \subseteq Below({n})
  BY BelowIsClosed DEF Kids
<1>6. Below(Kids(n)) \subseteq Below({n})
  BY <1>5, BelowGrows
<1> QED  BY <1>4, <1>5, <1>6

\* There is nothing in a file.
LEMMA BelowFile ==
  ASSUME NEW n \in Node \ Folder
  PROVE  Below({n}) = {n}
<1>1. Kids(n) = {}
  BY AddAssumption DEF Kids
<1> QED  BY <1>1, BelowKids, BelowNothing

\* Everything that can be asked for.
Reach == Below({n \in Node : Parent[n] = Top})

\* A folder is not inside itself.
LEMMA NoCycle ==
  ASSUME NEW n \in Reach
  PROVE  n \notin Below(Kids(n))
<1> DEFINE C == {m \in Reach : m \notin Below(Kids(m))}
           T == {m \in Node : Parent[m] = Top}
<1>1. /\ T \subseteq Reach /\ Reach \subseteq Node
      /\ \A m \in Node : Parent[m] \in Reach => m \in Reach
  BY BelowIsClosed DEF Reach
<1>2. \A m \in Node : Kids(m) \in SUBSET Node /\ Below(Kids(m)) \subseteq Node
  BY BelowIsClosed DEF Kids
<1>3. ASSUME NEW m \in T  PROVE m \notin Below(Kids(m))
  <2>1. m \notin Kids(m) /\ Parent[m] \notin Node
    BY AddAssumption DEF Kids
  <2> QED  BY <1>2, <2>1, BelowParent
<1>4. ASSUME NEW m \in Node, Parent[m] \in C  PROVE m \notin Below(Kids(m))
  <2> DEFINE p == Parent[m]
  <2>1. p \in Node /\ p \notin Below(Kids(p)) /\ m \in Kids(p)
    BY <1>1, <1>4 DEF Kids
  <2>2. Kids(p) \subseteq Below(Kids(p))
    BY <1>2, <2>1, BelowIsClosed
  <2>3. Kids(m) \subseteq Below(Kids(p))
    BY <1>2, <2>1, <2>2, BelowIsClosed DEF Kids
  <2>4. Below(Kids(m)) \subseteq Below(Kids(p))
    BY <1>2, <2>1, <2>3, BelowGrows
  <2>5. m \notin Kids(m)
    BY <2>1, <2>2 DEF Kids
  <2> QED  BY <1>2, <2>1, <2>4, <2>5, BelowParent
<1>5. Reach \subseteq C
  <2>1. C \subseteq Node /\ T \subseteq C /\ \A m \in Node : Parent[m] \in C => m \in C
    BY <1>1, <1>3, <1>4
  <2> HIDE DEF C, T
  <2>2. Below(T) \subseteq C
    BY <2>1, BelowIsLeast
  <2> QED  BY <2>2 DEF Reach, T
<1> QED  BY <1>5

\* Two nodes of a folder have nothing in common.
LEMMA SiblingsApart ==
  ASSUME NEW n \in Reach, NEW m \in Reach, n # m, Parent[n] = Parent[m]
  PROVE  Below({n}) \cap Below({m}) = {}
<1> DEFINE p == Parent[n]
           C == {k \in Below({n}) : k \notin Below({m})}
<1>1. n \in Node /\ m \in Node /\ Reach \subseteq Node
  BY BelowIsClosed DEF Reach
<1>2. p \notin Below({n}) /\ p \notin Below({m})
  <2>1. CASE p = Top
    BY <1>1, <2>1, AddAssumption, BelowIsClosed
  <2>2. CASE p # Top
    <3>1. n \notin {k \in Node : Parent[k] = Top}
      BY <2>2
    <3>2. p \in Reach
      BY <3>1, BelowParent DEF Reach
    <3>3. p \notin Below(Kids(p)) /\ p \in Node /\ Kids(p) \in SUBSET Node
      BY <1>1, <3>2, NoCycle DEF Kids
    <3>4. n \in Below(Kids(p)) /\ m \in Below(Kids(p))
      BY <1>1, <3>3, BelowIsClosed DEF Kids
    <3>5. Below({n}) \subseteq Below(Kids(p)) /\ Below({m}) \subseteq Below(Kids(p))
      BY <3>3, <3>4, BelowGrows
    <3> QED  BY <3>3, <3>5
  <2> QED  BY <2>1, <2>2
<1>3. n \in C
  BY <1>1, <1>2, BelowIsClosed, BelowParent
<1>4. ASSUME NEW k \in Node, Parent[k] \in C  PROVE k \in C
  <2>1. k \in Below({n})
    BY <1>1, <1>4, BelowIsClosed
  <2>2. ASSUME k \in Below({m})  PROVE FALSE
    <3>1. CASE k = m
      BY <1>2, <1>4, <3>1
    <3>2. CASE k # m
      BY <1>1, <1>4, <2>2, <3>2, BelowParent
    <3> QED  BY <3>1, <3>2
  <2> QED  BY <2>1, <2>2
<1>5. Below({n}) \subseteq C
  BY <1>1, <1>3, <1>4, BelowIsClosed, BelowIsLeast
<1> QED  BY <1>5

-------------------------------------------------------------------------------
(* Files and bytes of a set of nodes.  A sum over a set would need induction  *)
(* over it: the bytes are counted one by one.                                 *)

OneByOne == UNION {{n} \X (1 .. Size[n]) : n \in Node}
Weight(S) == Cardinality({b \in OneByOne : b[1] \in S})

LEMMA NodesAreFinite ==
  ASSUME NEW S \in SUBSET Node
  PROVE  IsFiniteSet(S) /\ Cardinality(S) \in Nat
  BY AddAssumption, FS_Subset, FS_CardinalityType

LEMMA BytesAreFinite == IsFiniteSet(OneByOne)
<1> DEFINE of == [n \in Node |-> {n} \X (1 .. Size[n])]
           T == {{n} \X (1 .. Size[n]) : n \in Node}
<1>1. ASSUME NEW n \in Node  PROVE IsFiniteSet({n} \X (1 .. Size[n]))
  <2>1. Size[n] \in Int
    BY AddAssumption
  <2>2. IsFiniteSet({n})
    BY FS_Singleton
  <2>3. IsFiniteSet(1 .. Size[n])
    BY <2>1, FS_Interval
  <2> QED  BY <2>2, <2>3, FS_Product
<1>2. of \in Surjection(Node, T)
  BY DEF Surjection
<1>3. IsFiniteSet(T)
  BY <1>2, AddAssumption, FS_Surjection
<1>4. \A x \in T : IsFiniteSet(x)
  BY <1>1
<1> QED  BY <1>3, <1>4, FS_UNION DEF OneByOne

LEMMA BytesOf ==
  ASSUME NEW S
  PROVE  IsFiniteSet({b \in OneByOne : b[1] \in S}) /\ Weight(S) \in Nat
<1>1. {b \in OneByOne : b[1] \in S} \in SUBSET OneByOne
  OBVIOUS
<1>2. IsFiniteSet({b \in OneByOne : b[1] \in S})
  BY <1>1, BytesAreFinite, FS_Subset
<1> QED  BY <1>2, FS_CardinalityType DEF Weight

LEMMA WeightOfNone == Weight({}) = 0 /\ Cardinality({}) = 0
<1>1. {b \in OneByOne : b[1] \in {}} = {}
  OBVIOUS
<1> QED  BY <1>1, FS_EmptySet DEF Weight

LEMMA WeightOfOne ==
  ASSUME NEW n \in Node
  PROVE  Weight({n}) = Size[n] /\ Cardinality({n}) = 1
<1>1. {b \in OneByOne : b[1] \in {n}} = {n} \X (1 .. Size[n])
  BY DEF OneByOne
<1>2. Size[n] \in Nat
  BY AddAssumption
<1>3. IsFiniteSet({n}) /\ Cardinality({n}) = 1
  BY FS_Singleton
<1>4. IsFiniteSet(1 .. Size[n]) /\ Cardinality(1 .. Size[n]) = Size[n]
  BY <1>2, FS_Interval
<1>5. Cardinality({n} \X (1 .. Size[n])) = 1 * Size[n]
  BY <1>3, <1>4, FS_Product
<1>6. Weight({n}) = 1 * Size[n]
  BY <1>1, <1>5 DEF Weight
<1> QED  BY <1>2, <1>3, <1>6

\* Two sets that have nothing in common: what Collect adds up.
LEMMA WeightAddsUp ==
  ASSUME NEW S \in SUBSET Node, NEW T \in SUBSET Node, S \cap T = {}
  PROVE  /\ Weight(S \cup T) = Weight(S) + Weight(T)
         /\ Cardinality(S \cup T) = Cardinality(S) + Cardinality(T)
<1> DEFINE B(U) == {b \in OneByOne : b[1] \in U}
<1>1. B(S \cup T) = B(S) \cup B(T) /\ B(S) \cap B(T) = {}
  OBVIOUS
<1>2. IsFiniteSet(B(S)) /\ IsFiniteSet(B(T)) /\ Weight(S) \in Nat /\ Weight(T) \in Nat
  BY BytesOf
<1>3. Cardinality({}) = 0
  BY FS_EmptySet
<1>4. Cardinality(B(S) \cup B(T)) = Cardinality(B(S)) + Cardinality(B(T)) - 0
  <2> HIDE DEF B
  <2> QED  BY <1>1, <1>2, <1>3, FS_Union
<1>5. /\ IsFiniteSet(S) /\ IsFiniteSet(T)
      /\ Cardinality(S) \in Nat /\ Cardinality(T) \in Nat
  BY NodesAreFinite
<1>6. Cardinality(S \cup T) = Cardinality(S) + Cardinality(T) - 0
  BY <1>3, <1>5, FS_Union
<1>7. Weight(S \cup T) = Weight(S) + Weight(T) - 0
  BY <1>1, <1>4 DEF Weight
<1> QED  BY <1>2, <1>5, <1>6, <1>7

LEMMA WeightGrows ==
  ASSUME NEW T \in SUBSET Node, NEW S \in SUBSET T
  PROVE  Weight(S) <= Weight(T) /\ Cardinality(S) <= Cardinality(T)
<1>1. {b \in OneByOne : b[1] \in S} \in SUBSET {b \in OneByOne : b[1] \in T}
  OBVIOUS
<1>2. Weight(S) <= Weight(T)
  BY <1>1, BytesOf, FS_Subset DEF Weight
<1> QED  BY <1>2, NodesAreFinite, FS_Subset

-------------------------------------------------------------------------------
(* The invariants *)

\* Results are where the producer, the handler and the notifier say they are.
SlotInv ==
  /\ producer.at \in {"none", "closed"} => producer.left = <<>>
  /\ producer.at \in {"send", "sendFolder", "readDir"} => producer.left # <<>>
  /\ IF producer.at \in {"send", "sendFolder"}
     THEN producer.result \in Result /\ producer.result.node = Path
     ELSE producer.result = NoResult
  /\ producer.at \in {"sendFolder", "readDir"} => Path \in bucket \cap Folder
  /\ IF stage = "select" THEN holding \in Result ELSE holding = NoResult
  /\ IF notifier.at = "send" THEN notifier.result \in Result ELSE notifier.result = NoResult

\* The goroutines of the upload run when the totals are known, and end in order.
StageInv ==
  /\ stage \in {"idle", "totals", "refused"} =>
       producer.at = "none" /\ notifier.at = "none" /\ bucket = {} /\ stream = <<>>
  /\ stage \in {"receive", "select", "wait", "returned"} =>
       producer.at # "none" /\ notifier.at # "none" /\ Top \in summed
  /\ stage \in {"wait", "returned"} => producer.at = "closed"
  /\ stage = "returned" <=> notifier.at = "done"

\* A call of getTotals has one goroutine for each of its paths, which are in the
\* folder it is for, and returns when they are done.
CountInv ==
  /\ stage = "idle" => request = <<>> /\ \A n \in Node : counter[n] = "none"
  /\ stage \notin {"idle", "refused"} => listing[Top] = ToSet(request)
  /\ \A n \in Node :
       /\ counter[n] # "none" => n \in listing[Parent[n]]
       /\ counter[n] \in {"readDir", "call"} => n \in Folder
  /\ \A f \in Frame :
       /\ listing[f] \subseteq Reach \cap Kids(f)
       /\ f \in summed => \A n \in listing[f] : counter[n] = "done"
       /\ f = Top /\ stage = "idle" => listing[f] = {} /\ f \notin summed
       /\ f # Top /\ counter[f] \notin {"call", "sent", "done"} =>
            listing[f] = {} /\ f \notin summed

PlainInv == TypeOK /\ SlotInv /\ StageInv /\ CountInv

\* What the goroutine of path n has sent to the one that collects.
Got(n) ==
  CASE counter[n] \in {"readDir", "call"} -> {n}
    [] counter[n] \in {"sent", "done"} -> Below({n})
    [] OTHER -> {}

Gathered(f) == {m \in Node : \E n \in listing[f] : m \in Got(n)}
TotalsOf(S) == [files |-> Cardinality(S), bytes |-> Weight(S), failed |-> FALSE]

\* Of a tree nobody touched, what was collected is what was gathered.
TotalsInv ==
  Untouched =>
    /\ \A n \in Node :
         /\ counter[n] = "stat" => n \notin Folder
         /\ counter[n] = "call" => listing[n] = Kids(n)
    /\ \A f \in Frame : sum[f] = TotalsOf(Gathered(f))

InFlight == {producer.result, holding, notifier.result}
Streamed == {stream[i].node : i \in DOMAIN stream}

\* What was uploaded is answered for, as long as the client is there, and what
\* is called uploaded was.
AnswerInv ==
  /\ \A r \in InFlight : r.ok => r.node \in bucket
  /\ \A i \in DOMAIN stream : stream[i].ok => stream[i].node \in bucket
  /\ ~ctxDone => \A n \in bucket : n \in Streamed \/ \E r \in InFlight : r.node = n

\* What the producer has still to look at.
Todo ==
  CASE producer.at = "next" -> Below(ToSet(producer.left))
    [] producer.at = "send" -> Below(ToSet(Tail(producer.left)))
    [] producer.at \in {"sendFolder", "readDir"} -> Below(ToSet(producer.left)) \ {Path}
    [] OTHER -> {}

\* An error is on its way, or was sent, for n or for a folder it is in.
Missed(n) ==
  \/ Failed(n)
  \/ \E r \in InFlight : ~r.ok /\ r.node # Top /\ n \in Below({r.node})

\* Nodes that have nothing below them in common.
Apart(s) == \A i, j \in DOMAIN s : i # j => Below({s[i]}) \cap Below({s[j]}) = {}

\* Of a tree nobody touched each node gets one result at most: what is still to
\* do and what has a result are apart.
OneResultInv ==
  /\ ToSet(producer.left) \subseteq Asked /\ Apart(producer.left)
  /\ Todo \cap Streamed = {} /\ Streamed \subseteq Asked
  /\ \A r \in InFlight : r.node # Top => r.node \in Asked /\ r.node \notin Todo \cup Streamed
  /\ producer.result.node = holding.node => holding.node = Top
  /\ producer.result.node = notifier.result.node => notifier.result.node = Top
  /\ holding.node = notifier.result.node => notifier.result.node = Top

\* Nothing is left out.
CoverInv ==
  ~ctxDone /\ producer.at # "none" => \A n \in Asked \ bucket : n \in Todo \/ Missed(n)

TodoInv == Untouched => OneResultInv /\ CoverInv

\* The responses that were sent before and with response i and that were no errors.
Good(i) == {stream[j].node : j \in {k \in 1 .. i : stream[k].ok}}

\* The progress counts the responses, and the bytes of the nodes they are about.
StreamInv ==
  /\ \A i \in DOMAIN stream : stream[i].files = i
  /\ Untouched =>
       /\ \A i, j \in DOMAIN stream : stream[i].node = stream[j].node => i = j
       /\ \A i \in DOMAIN stream : stream[i].bytes = Weight(Good(i))

-------------------------------------------------------------------------------
(* The plain invariant *)

LEMMA RequestType ==
  ASSUME NEW s \in Requests
  PROVE  /\ s \in Seq(Node) /\ ToSet(s) \subseteq Reach \cap Kids(Top)
         /\ RemoveDuplicates(s) \in Seq(Node)
<1>1. s \in Seq({n \in Node : Parent[n] = Top})
  BY AddAssumption
<1>2. {n \in Node : Parent[n] = Top} \subseteq Reach
  BY BelowIsClosed DEF Reach
<1>3. s \in Seq(Node) /\ ToSet(s) \subseteq {n \in Node : Parent[n] = Top}
  BY <1>1 DEF ToSet
<1> QED  BY <1>2, <1>3, RemoveDuplicatesIsASet DEF Kids

LEMMA FrameType ==
  /\ Top \in Frame /\ Top \notin Node /\ Folder \subseteq Node
  /\ \A n \in Node : Parent[n] \in Frame /\ Size[n] \in Nat
  /\ \A n \in Folder : n \in Node /\ n \in Frame /\ Size[n] = 0
  /\ Zero \in [files : Nat, bytes : Nat, failed : BOOLEAN]
  /\ NoResult.node = Top /\ NoResult.ok = FALSE /\ NoResult \notin Result
  BY AddAssumption DEF Frame, Zero, NoResult, Result

LEMMA InitPlain == Init => PlainInv
<1> SUFFICES ASSUME Init  PROVE PlainInv
  OBVIOUS
<1>1. TypeOK
  <2>1. /\ producer \in [at : {"none", "next", "send", "sendFolder", "readDir", "closed"},
                        left : Seq(Node), result : Result \cup {NoResult}]
        /\ notifier \in [at : {"none", "receive", "send", "done"}, result : Result \cup {NoResult}]
        /\ stream \in Seq([node : Node, ok : BOOLEAN, files : Nat, bytes : Nat])
    BY DEF Init
  <2>2. /\ counter \in [Node -> {"none", "begin", "stat", "readDir", "call", "sent", "done"}]
        /\ listing \in [Frame -> SUBSET Node]
        /\ sum \in [Frame -> [files : Nat, bytes : Nat, failed : BOOLEAN]]
    BY FrameType DEF Init
  <2>3. /\ disk \subseteq Node /\ bucket \subseteq Node /\ ctxDone \in BOOLEAN
        /\ request = <<>> /\ stage = "idle" /\ summed \subseteq Frame /\ holding = NoResult
    BY DEF Init
  <2> QED  BY <2>1, <2>2, <2>3 DEF TypeOK
<1>2. SlotInv /\ StageInv
  BY DEF Init, SlotInv, StageInv
<1>3. CountInv
  BY DEF Init, CountInv
<1> QED  BY <1>1, <1>2, <1>3 DEF PlainInv

\* The steps that leave the counting alone.
LEMMA CountStays ==
  ASSUME CountInv, UNCHANGED <<request, counting>>,
         stage' = "idle" => stage = "idle",
         stage \in {"idle", "refused"} => stage' \in {"idle", "refused"}
  PROVE  CountInv'
  BY DEF CountInv, counting

\* Those that leave the upload alone.
LEMMA SlotsStay ==
  ASSUME SlotInv, StageInv, UNCHANGED <<producer, bucket, sending>>, summed \subseteq summed',
         \/ stage' = stage
         \/ stage \in {"idle", "totals"} /\ stage' \in {"totals", "refused"}
  PROVE  SlotInv' /\ StageInv'
  BY DEF SlotInv, StageInv, sending, Path

LEMMA CallKeepsPlain ==
  ASSUME PlainInv, NEW s \in Requests, CallAddItems(s)
  PROVE  PlainInv'
<1> USE DEF PlainInv
<1>1. s \in Seq(Node) /\ ToSet(s) \subseteq Reach \cap Kids(Top) /\ ToSet(s) \subseteq Node
  BY RequestType DEF Kids
<1>2. TypeOK'
  <2>1. UNCHANGED <<disk, ctxDone, sum, summed, producer, bucket, holding, notifier, stream>>
    BY DEF CallAddItems, sending
  <2>2. request' = s /\ stage' \in {"refused", "totals"}
    BY DEF CallAddItems
  <2>3. /\ counter' \in [Node -> {"none", "begin", "stat", "readDir", "call", "sent", "done"}]
        /\ listing' \in [Frame -> SUBSET Node]
    <3>1. ToSet(s) \in SUBSET Node
      BY <1>1
    <3>2. CASE UNCHANGED <<counter, listing>>
      BY <3>2 DEF TypeOK
    <3>3. CASE /\ listing' = [listing EXCEPT ![Top] = ToSet(s)]
               /\ counter' = [n \in Node |-> IF n \in ToSet(s) THEN "begin" ELSE "none"]
      BY <3>1, <3>3 DEF TypeOK
    <3> QED  BY <3>2, <3>3 DEF CallAddItems
  <2> QED  BY <2>1, <2>2, <2>3 DEF TypeOK
<1>3. SlotInv' /\ StageInv'
  BY SlotsStay DEF CallAddItems
<1>4. CountInv'
  <2>1. /\ stage = "idle" /\ summed' = summed /\ stage' # "idle" /\ request' = s
        /\ \A n \in Node : counter[n] = "none"
        /\ \A f \in Frame : listing[f] = {} /\ f \notin summed
    BY FrameType DEF CallAddItems, CountInv, Frame
  <2>2. CASE stage' = "refused"
    <3>1. counter' = counter /\ listing' = listing
      BY <2>2 DEF CallAddItems
    <3> QED  BY <2>1, <2>2, <3>1 DEF CountInv
  <2>3. CASE stage' # "refused"
    <3>1. /\ listing' = [listing EXCEPT ![Top] = ToSet(s)]
          /\ counter' = [n \in Node |-> IF n \in ToSet(s) THEN "begin" ELSE "none"]
      BY <2>3 DEF CallAddItems
    <3>2. listing'[Top] = ToSet(s) /\ \A f \in Frame : f # Top => listing'[f] = {}
      BY <2>1, <3>1, FrameType DEF TypeOK
    <3>3. \A n \in Node : counter'[n] # "none" => n \in ToSet(s) /\ Parent[n] = Top
      BY <1>1, <3>1 DEF Kids
    <3>4. \A n \in Node : counter'[n] \in {"none", "begin"}
      BY <3>1
    <3> QED  BY <1>1, <2>1, <3>2, <3>3, <3>4 DEF CountInv
  <2> QED  BY <2>2, <2>3
<1> QED  BY <1>2, <1>3, <1>4

\* A response of path n changes only what its folder's goroutine has collected.
LEMMA Collecting ==
  ASSUME TypeOK, NEW n \in Node, NEW a \in Nat, NEW b \in Nat, Collect(n, a, b)
  PROVE  /\ sum' \in [Frame -> [files : Nat, bytes : Nat, failed : BOOLEAN]]
         /\ sum'[Parent[n]] = [files |-> sum[Parent[n]].files + a,
                               bytes |-> sum[Parent[n]].bytes + b,
                               failed |-> sum[Parent[n]].failed]
         /\ \A f \in Frame \ {Parent[n]} : sum'[f] = sum[f]
<1> DEFINE p == Parent[n]
<1>1. p \in Frame /\ sum \in [Frame -> [files : Nat, bytes : Nat, failed : BOOLEAN]]
  BY FrameType DEF TypeOK
<1>2. sum' = [sum EXCEPT ![p].files = sum[p].files + a, ![p].bytes = sum[p].bytes + b]
  BY <1>1 DEF Collect
<1>3. /\ sum[p].files + a \in Nat /\ sum[p].bytes + b \in Nat
      /\ sum[p] \in [files : Nat, bytes : Nat, failed : BOOLEAN]
  BY <1>1
<1> HIDE DEF p
<1>4. sum'[p] = [files |-> sum[p].files + a, bytes |-> sum[p].bytes + b,
                 failed |-> sum[p].failed]
  BY <1>1, <1>2, <1>3
<1>5. DOMAIN sum' = Frame /\ \A f \in Frame \ {p} : sum'[f] = sum[f]
  BY <1>1, <1>2
<1>6. sum' = [f \in Frame |-> sum'[f]]
  BY <1>1, <1>2
<1>7. \A f \in Frame : sum'[f] \in [files : Nat, bytes : Nat, failed : BOOLEAN]
  BY <1>1, <1>3, <1>4, <1>5
<1>8. sum' \in [Frame -> [files : Nat, bytes : Nat, failed : BOOLEAN]]
  BY <1>6, <1>7
<1> QED  BY <1>4, <1>5, <1>8 DEF p

LEMMA CollectingError ==
  ASSUME TypeOK, NEW n \in Node, CollectError(n)
  PROVE  sum' \in [Frame -> [files : Nat, bytes : Nat, failed : BOOLEAN]]
  BY FrameType DEF TypeOK, CollectError

\* A goroutine that goes on, other than to start a call of its own.
LEMMA CounterKeepsCounts ==
  ASSUME TypeOK, CountInv, NEW n \in Node, NEW to,
         counter' = [counter EXCEPT ![n] = to],
         counter[n] \notin {"none", "done"}, to # "none",
         to \in {"readDir", "call"} => n \in Folder,
         counter[n] \in {"call", "sent"} => to \in {"call", "sent", "done"},
         UNCHANGED <<request, stage, listing, summed>>
  PROVE  CountInv'
<1>1. counter'[n] = to /\ \A m \in Node \ {n} : counter'[m] = counter[m]
  BY DEF TypeOK
<1>2. n \in listing[Parent[n]] /\ stage # "idle"
  BY DEF CountInv
<1>3. ASSUME NEW m \in Node
      PROVE  /\ counter'[m] # "none" => m \in listing[Parent[m]]
             /\ counter'[m] \in {"readDir", "call"} => m \in Folder
  BY <1>1, <1>2 DEF CountInv
<1>4. ASSUME NEW f \in Frame
      PROVE  /\ listing[f] \subseteq Reach \cap Kids(f)
             /\ f \in summed => \A m \in listing[f] : counter'[m] = "done"
             /\ f # Top /\ counter'[f] \notin {"call", "sent", "done"} =>
                  listing[f] = {} /\ f \notin summed
  <2>1. listing[f] \subseteq Reach \cap Kids(f) /\ listing[f] \subseteq Node
    BY DEF CountInv, Kids
  <2>2. f \in summed => \A m \in listing[f] : counter'[m] = "done"
    BY <1>1, <2>1 DEF CountInv
  <2>3. ASSUME f # Top, counter'[f] \notin {"call", "sent", "done"}
        PROVE  counter[f] \notin {"call", "sent", "done"}
    BY <1>1, <2>3, FrameType DEF Frame
  <2> QED  BY <2>1, <2>2, <2>3 DEF CountInv
<1> QED  BY <1>2, <1>3, <1>4 DEF CountInv

LEMMA CallGetTotalsKeepsCounts ==
  ASSUME TypeOK, CountInv, NEW n \in Node, CallGetTotals(n)
  PROVE  CountInv'
<1>1. /\ n \in Folder /\ n \in Frame /\ n # Top /\ n \in listing[Parent[n]]
      /\ listing[n] = {} /\ n \notin summed /\ stage # "idle"
  BY FrameType DEF CallGetTotals, CountInv
<1>2. Children(n) \subseteq Kids(n) /\ Children(n) \subseteq Node
  BY DEF Children, Kids, TypeOK
<1>3. n \in Reach /\ \A m \in Kids(n) : m \in Reach
  <2>1. n \in Reach
    BY <1>1, FrameType DEF CountInv
  <2> QED  BY <2>1, BelowIsClosed DEF Reach, Kids
<1>4. /\ listing'[n] = Children(n) /\ \A f \in Frame \ {n} : listing'[f] = listing[f]
      /\ counter'[n] = "call"
      /\ \A m \in Node \ {n} :
           counter'[m] = IF m \in Children(n) THEN "begin" ELSE counter[m]
      /\ UNCHANGED <<request, stage, summed>>
  BY <1>1 DEF CallGetTotals, TypeOK
<1>5. \A m \in Kids(n) : counter[m] = "none"
  BY <1>1 DEF CountInv, Kids
<1>6. ASSUME NEW m \in Node
      PROVE  /\ counter'[m] # "none" => m \in listing'[Parent[m]]
             /\ counter'[m] \in {"readDir", "call"} => m \in Folder
  <2>1. CASE m = n
    <3>1. n \in Children(n) => n \in listing'[n]
      BY <1>4
    <3>2. Parent[n] \in Frame
      BY FrameType
    <3>3. n \in listing'[Parent[n]]
      <4>1. CASE Parent[n] = n
        BY <1>1, <4>1
      <4>2. CASE Parent[n] # n
        BY <1>1, <1>4, <3>2, <4>2
      <4> QED  BY <4>1, <4>2
    <3> QED  BY <1>1, <2>1, <3>3
  <2>2. CASE m # n /\ m \in Children(n)
    <3>1. Parent[m] = n /\ counter'[m] = "begin"
      BY <1>2, <1>4, <2>2 DEF Kids
    <3> QED  BY <1>4, <2>2, <3>1
  <2>3. CASE m # n /\ m \notin Children(n)
    <3>1. counter'[m] = counter[m] /\ Parent[m] \in Frame
      BY <1>4, <2>3, FrameType
    <3>2. ASSUME counter[m] # "none"  PROVE Parent[m] # n /\ m \in listing[Parent[m]]
      BY <1>1, <3>2 DEF CountInv
    <3>3. counter'[m] # "none" => m \in listing'[Parent[m]]
      BY <1>4, <3>1, <3>2
    <3> QED  BY <3>1, <3>3 DEF CountInv
  <2> QED  BY <2>1, <2>2, <2>3
<1>7. ASSUME NEW f \in Frame
      PROVE  /\ listing'[f] \subseteq Reach \cap Kids(f)
             /\ f \in summed => \A m \in listing'[f] : counter'[m] = "done"
             /\ f # Top /\ counter'[f] \notin {"call", "sent", "done"} =>
                  listing'[f] = {} /\ f \notin summed
  <2>1. CASE f = n
    BY <1>1, <1>2, <1>3, <1>4, <2>1
  <2>2. CASE f # n
    <3>1. /\ listing'[f] = listing[f] /\ listing[f] \subseteq Reach \cap Kids(f)
          /\ listing[f] \subseteq Node
      BY <1>4, <2>2 DEF CountInv, Kids
    <3>2. ASSUME f \in summed, NEW m \in listing[f]  PROVE counter'[m] = "done"
      <4>1. counter[m] = "done" /\ m \in Node /\ Parent[m] = f
        BY <3>1, <3>2 DEF CountInv, Kids
      <4>2. m # n /\ m \notin Children(n)
        BY <1>2, <2>2, <4>1 DEF CallGetTotals, Kids
      <4> QED  BY <1>4, <4>1, <4>2
    <3>3. ASSUME f # Top, counter'[f] \notin {"call", "sent", "done"}
          PROVE  listing[f] = {} /\ f \notin summed
      <4>1. f \in Node
        BY <3>3, FrameType DEF Frame
      <4>2. counter[f] \notin {"call", "sent", "done"}
        BY <1>2, <1>4, <1>5, <2>2, <3>3, <4>1
      <4> QED  BY <3>3, <4>2 DEF CountInv
    <3> QED  BY <3>1, <3>2, <3>3
  <2> QED  BY <2>1, <2>2
<1>8. stage' # "idle" /\ listing'[Top] = listing[Top] /\ request' = request /\ stage' = stage
      /\ summed' = summed
  BY <1>1, <1>4, FrameType
<1> QED  BY <1>6, <1>7, <1>8 DEF CountInv

LEMMA CountKeepsPlain ==
  ASSUME PlainInv, NEW n \in Node, Count(n)
  PROVE  PlainInv'
<1> USE DEF PlainInv
<1>1. UNCHANGED <<disk, ctxDone, request, stage, summed, producer, bucket, sending>>
  BY DEF Count, CountFolder, NotAFolder, CountFile, CannotRead, CallGetTotals,
         ReturnTotals, WgDone, Counter
<1>2. SlotInv' /\ StageInv'
  BY <1>1, SlotsStay
<1>3. /\ counter' \in [Node -> {"none", "begin", "stat", "readDir", "call", "sent", "done"}]
      /\ listing' \in [Frame -> SUBSET Node]
  <2>1. CASE CallGetTotals(n)
    <3>1. Children(n) \in SUBSET Node
      BY DEF Children, TypeOK
    <3>2. listing' = [listing EXCEPT ![n] = Children(n)]
      BY <2>1 DEF CallGetTotals
    <3>3. counter' = [m \in Node |-> IF m = n THEN "call"
                                     ELSE IF m \in Children(n) THEN "begin" ELSE counter[m]]
      BY <2>1 DEF CallGetTotals
    <3> QED  BY <3>1, <3>2, <3>3 DEF TypeOK
  <2>2. CASE ~ CallGetTotals(n)
    BY <2>2 DEF Count, CountFolder, NotAFolder, CountFile, CannotRead, ReturnTotals,
                WgDone, Counter, TypeOK
  <2> QED  BY <2>1, <2>2
<1>4. sum' \in [Frame -> [files : Nat, bytes : Nat, failed : BOOLEAN]]
  <2>1. CASE sum' = sum
    BY <2>1 DEF TypeOK
  <2>2. CASE CollectError(n)
    BY <2>2, CollectingError
  <2>3. CASE Collect(n, 1, 0) \/ Collect(n, 1, Size[n])
    BY <2>3, FrameType, Collecting
  <2>4. CASE n \in Folder /\ Collect(n, sum[n].files, sum[n].bytes)
    <3>1. sum[n].files \in Nat /\ sum[n].bytes \in Nat
      BY <2>4, FrameType DEF TypeOK
    <3> QED  BY <2>4, <3>1, Collecting
  <2>5. ReturnTotals(n) => n \in Folder
    BY DEF ReturnTotals, Counter, CountInv
  <2> QED  BY <2>1, <2>2, <2>3, <2>4, <2>5
           DEF Count, CountFolder, NotAFolder, CountFile, CannotRead, CallGetTotals,
               ReturnTotals, WgDone
<1>5. TypeOK'
  BY <1>1, <1>3, <1>4 DEF TypeOK, sending
<1>6. CountInv'
  <2>1. CASE CallGetTotals(n)
    BY <2>1, CallGetTotalsKeepsCounts
  <2>2. CASE CountFolder(n)
    BY <2>2, CounterKeepsCounts DEF CountFolder, Counter
  <2>3. CASE NotAFolder(n)
    BY <2>3, CounterKeepsCounts DEF NotAFolder, Counter
  <2>4. CASE CountFile(n)
    BY <2>4, CounterKeepsCounts DEF CountFile, Counter
  <2>5. CASE CannotRead(n)
    BY <2>5, CounterKeepsCounts DEF CannotRead, Counter
  <2>6. CASE ReturnTotals(n)
    BY <2>6, CounterKeepsCounts DEF ReturnTotals, Counter
  <2>7. CASE WgDone(n)
    BY <2>7, CounterKeepsCounts DEF WgDone, Counter
  <2> QED  BY <2>1, <2>2, <2>3, <2>4, <2>5, <2>6, <2>7 DEF Count
<1> QED  BY <1>2, <1>5, <1>6

LEMMA ReturnKeepsPlain ==
  ASSUME PlainInv, NEW f \in Frame, GetTotalsReturns(f)
  PROVE  PlainInv'
<1> USE DEF PlainInv
<1>1. /\ UNCHANGED <<disk, ctxDone, request, stage, counter, listing, sum, producer,
                     bucket, sending>>
      /\ summed' = summed \cup {f} /\ \A n \in listing[f] : counter[n] = "done"
  BY DEF GetTotalsReturns
<1>2. TypeOK'
  BY <1>1 DEF TypeOK, sending
<1>3. SlotInv' /\ StageInv'
  BY <1>1, SlotsStay
<1>4. (f = Top /\ stage # "idle") \/ (f # Top /\ counter[f] = "call")
  BY FrameType DEF GetTotalsReturns, Called
<1>5. CountInv'
  BY <1>1, <1>4 DEF CountInv
<1> QED  BY <1>2, <1>3, <1>5

\* What the producer's path is, whenever it has one.
LEMMA PathType ==
  ASSUME TypeOK, producer.left # <<>>
  PROVE  /\ Path \in Node /\ Tail(producer.left) \in Seq(Node)
         /\ [node |-> Path, ok |-> TRUE] \in Result /\ [node |-> Path, ok |-> FALSE] \in Result
<1>1. producer.left \in Seq(Node)
  BY DEF TypeOK
<1>2. Path \in Node /\ Tail(producer.left) \in Seq(Node)
  BY <1>1 DEF Path
<1> QED  BY <1>2 DEF Result

\* ReadDir returns nodes, each once.
LEMMA KidsOnDisk ==
  ASSUME TypeOK, NEW n
  PROVE  /\ Children(n) \in SUBSET Node /\ IsFiniteSet(Children(n))
         /\ SetToSeq(Children(n)) \in Seq(Node) /\ IsInjective(SetToSeq(Children(n)))
         /\ ToSet(SetToSeq(Children(n))) = Children(n)
<1>1. Children(n) \in SUBSET Node
  BY DEF Children, TypeOK
<1>2. IsFiniteSet(Children(n))
  BY <1>1, NodesAreFinite
<1>3. /\ SetToSeq(Children(n)) \in Seq(Children(n)) /\ IsInjective(SetToSeq(Children(n)))
      /\ ToSet(SetToSeq(Children(n))) = Children(n)
  BY <1>2, SetToSeqEnumerates
<1>4. SetToSeq(Children(n)) \in Seq(Node)
  BY <1>1, <1>3
<1> QED  BY <1>1, <1>2, <1>3, <1>4

LEMMA ProduceKeepsPlain ==
  ASSUME PlainInv, Produce
  PROVE  PlainInv'
<1> USE DEF PlainInv
<1>1. UNCHANGED <<disk, ctxDone, request, stage, counting, sending>>
  BY DEF Produce, UploadFails, createFolder, addFile, addFolderRec, CloseResults, Uploading
<1>2. CountInv'
  BY <1>1, CountStays
<1>3. stage \in {"receive", "select"}
  BY DEF Produce, UploadFails, createFolder, addFile, addFolderRec, CloseResults, Uploading,
         StageInv, TypeOK
<1>4. /\ producer = [at |-> producer.at, left |-> producer.left, result |-> producer.result]
      /\ producer.left \in Seq(Node) /\ producer.result \in Result \cup {NoResult}
  BY DEF TypeOK
<1>5. ASSUME NEW at \in {"send", "sendFolder"}, NEW ok \in BOOLEAN, Offer(at, ok),
             producer.left # <<>>, bucket' \in {bucket, bucket \cup {Path}},
             at = "sendFolder" => Path \in bucket' \cap Folder
      PROVE  PlainInv'
  <2>1. producer' = [at |-> at, left |-> producer.left, result |-> [node |-> Path, ok |-> ok]]
    BY <1>4, <1>5 DEF Offer
  <2>2. [node |-> Path, ok |-> ok] \in Result /\ Path \in Node
    BY <1>5, PathType DEF Result
  <2>3. Path' = Path
    BY <2>1 DEF Path
  <2>4. TypeOK'
    BY <1>1, <1>4, <1>5, <2>1, <2>2 DEF TypeOK, sending, counting
  <2>5. SlotInv'
    BY <1>1, <1>5, <2>1, <2>2, <2>3 DEF SlotInv, sending
  <2>6. StageInv'
    BY <1>1, <1>3, <1>5, <2>1 DEF StageInv, sending, counting
  <2> QED  BY <1>2, <2>4, <2>5, <2>6
<1>6. ASSUME NEW at \in {"next", "closed"}, NEW t \in Seq(Node), bucket' = bucket,
             producer' = [producer EXCEPT !.at = at, !.left = t],
             producer.at \in {"next", "readDir"}, at = "closed" => t = <<>>
      PROVE  PlainInv'
  <2>1. producer' = [at |-> at, left |-> t, result |-> producer.result]
    BY <1>4, <1>6
  <2>2. TypeOK'
    BY <1>1, <1>4, <1>6, <2>1 DEF TypeOK, sending, counting
  <2>3. SlotInv'
    BY <1>1, <1>6, <2>1 DEF SlotInv, sending
  <2>4. StageInv'
    BY <1>1, <1>3, <1>6, <2>1 DEF StageInv, sending, counting
  <2> QED  BY <1>2, <2>2, <2>3, <2>4
<1>7. CASE UploadFails
  BY <1>5, <1>7 DEF UploadFails, Uploading
<1>8. CASE createFolder
  BY <1>5, <1>8 DEF createFolder, Uploading
<1>9. CASE addFile
  BY <1>5, <1>9 DEF addFile, Uploading
<1>10. CASE addFolderRec
  <2>1. producer.at = "readDir" /\ producer.left # <<>> /\ bucket' = bucket
    BY <1>10 DEF addFolderRec, SlotInv
  <2>2. CASE Path \in disk
    <3>1. SetToSeq(Children(Path)) \in Seq(Node) /\ Tail(producer.left) \in Seq(Node)
      BY <2>1, KidsOnDisk, PathType
    <3>2. SetToSeq(Children(Path)) \o Tail(producer.left) \in Seq(Node)
      BY <3>1
    <3>3. producer' = [producer EXCEPT !.at = "next",
                         !.left = SetToSeq(Children(Path)) \o Tail(producer.left)]
      BY <1>10, <2>2 DEF addFolderRec
    <3> QED  BY <1>6, <2>1, <3>2, <3>3
  <2>3. CASE Path \notin disk
    BY <1>5, <1>10, <2>1, <2>3 DEF addFolderRec
  <2> QED  BY <2>2, <2>3
<1>11. CASE CloseResults
  <2>1. producer' = [producer EXCEPT !.at = "closed", !.left = producer.left]
    BY <1>4, <1>11 DEF CloseResults
  <2>2. producer.at = "next" /\ producer.left = <<>> /\ bucket' = bucket
    BY <1>11 DEF CloseResults
  <2> QED  BY <1>4, <1>6, <2>1, <2>2
<1> QED  BY <1>7, <1>8, <1>9, <1>10, <1>11 DEF Produce

LEMMA StartKeepsPlain ==
  ASSUME PlainInv, StartAdding
  PROVE  PlainInv'
<1> USE DEF PlainInv
<1>1. /\ UNCHANGED <<disk, ctxDone, request, counting, bucket, holding, stream>>
      /\ stage = "totals" /\ Top \in summed
  BY DEF StartAdding
<1>2. CountInv'
  BY <1>1, CountStays DEF StartAdding
<1>3. RemoveDuplicates(request) \in Seq(Node)
  <2>1. CASE request \in Requests
    BY <2>1, RequestType
  <2>2. CASE request = <<>>
    <3>1. request \in Seq(Node)
      BY <2>2
    <3> QED  BY <3>1, RemoveDuplicatesIsASet
  <2> QED  BY <2>1, <2>2 DEF TypeOK
<1>4. CASE stage' = "refused" /\ UNCHANGED <<producer, notifier>>
  <2>1. TypeOK'
    BY <1>1, <1>4 DEF TypeOK, counting
  <2>2. SlotInv' /\ StageInv'
    BY <1>1, <1>4, SlotsStay DEF sending, counting
  <2> QED  BY <1>2, <2>1, <2>2
<1>5. CASE /\ stage' = "receive"
           /\ producer' = [producer EXCEPT !.at = "next", !.left = RemoveDuplicates(request)]
           /\ notifier' = [notifier EXCEPT !.at = "receive"]
  <2>1. /\ producer' = [at |-> "next", left |-> RemoveDuplicates(request),
                        result |-> producer.result]
        /\ notifier' = [at |-> "receive", result |-> notifier.result]
    BY <1>5 DEF TypeOK
  <2>2. TypeOK'
    BY <1>1, <1>3, <1>5, <2>1 DEF TypeOK, counting
  <2>3. SlotInv'
    BY <1>1, <1>5, <2>1 DEF SlotInv, StageInv
  <2>4. StageInv'
    BY <1>1, <1>5, <2>1 DEF StageInv, counting
  <2> QED  BY <1>2, <2>2, <2>3, <2>4
<1> QED  BY <1>4, <1>5 DEF StartAdding

LEMMA HandleKeepsPlain ==
  ASSUME PlainInv, ReceiveResult \/ Notify \/ Drop \/ CloseNotifications
  PROVE  PlainInv'
<1> USE DEF PlainInv
<1>1. /\ UNCHANGED <<disk, ctxDone, request, counting, bucket, stream>>
      /\ stage \in {"receive", "select"} /\ stage' \in {"receive", "select", "wait"}
  BY DEF ReceiveResult, Notify, Drop, CloseNotifications, sending
<1>2. CountInv'
  BY <1>1, CountStays
<1>3. CASE ReceiveResult
  <2>1. /\ stage' = "select" /\ holding' = producer.result /\ notifier' = notifier
        /\ producer.at \in {"send", "sendFolder"} /\ producer.result \in Result
        /\ producer.left # <<>>
    BY <1>3 DEF ReceiveResult, SlotInv
  <2>2. Tail(producer.left) \in Seq(Node)
    BY <2>1, PathType
  <2>3. \/ producer.at = "send"
           /\ producer' = [at |-> "next", left |-> Tail(producer.left), result |-> NoResult]
        \/ producer.at = "sendFolder"
           /\ producer' = [at |-> "readDir", left |-> producer.left, result |-> NoResult]
    BY <1>3, <2>1 DEF ReceiveResult, TypeOK
  <2>4. TypeOK'
    <3>1. producer' \in [at : {"none", "next", "send", "sendFolder", "readDir", "closed"},
                         left : Seq(Node), result : Result \cup {NoResult}]
      <4>1. producer.left \in Seq(Node)
        BY DEF TypeOK
      <4>2. CASE producer' = [at |-> "next", left |-> Tail(producer.left), result |-> NoResult]
        BY <2>2, <4>2
      <4>3. CASE producer' = [at |-> "readDir", left |-> producer.left, result |-> NoResult]
        BY <4>1, <4>3
      <4> QED  BY <2>3, <4>2, <4>3
    <3> QED  BY <1>1, <2>1, <3>1 DEF TypeOK, counting
  <2>5. SlotInv'
    <3>1. producer.at = "sendFolder" => Path' = Path /\ Path \in bucket \cap Folder
      BY <2>3 DEF SlotInv, Path
    <3> QED  BY <1>1, <2>1, <2>3, <3>1 DEF SlotInv
  <2>6. StageInv'
    BY <1>1, <2>1, <2>3 DEF StageInv, counting
  <2> QED  BY <1>2, <2>4, <2>5, <2>6
<1>4. CASE Notify
  <2>1. /\ stage = "select" /\ stage' = "receive" /\ holding' = NoResult
        /\ producer' = producer
        /\ notifier.at = "receive" /\ notifier' = [at |-> "send", result |-> holding]
        /\ holding \in Result
    BY <1>4 DEF Notify, SlotInv
  <2>2. TypeOK'
    BY <1>1, <2>1 DEF TypeOK, counting
  <2>3. SlotInv'
    BY <1>1, <2>1 DEF SlotInv, Path
  <2>4. StageInv'
    BY <1>1, <2>1 DEF StageInv, counting
  <2> QED  BY <1>2, <2>2, <2>3, <2>4
<1>5. CASE Drop
  <2>1. /\ stage = "select" /\ stage' = "receive" /\ holding' = NoResult
        /\ UNCHANGED <<producer, notifier>>
    BY <1>5 DEF Drop
  <2>2. TypeOK'
    BY <1>1, <2>1 DEF TypeOK, counting
  <2>3. SlotInv'
    BY <1>1, <2>1 DEF SlotInv, Path
  <2>4. StageInv'
    BY <1>1, <2>1 DEF StageInv, counting
  <2> QED  BY <1>2, <2>2, <2>3, <2>4
<1>6. CASE CloseNotifications
  <2>1. /\ stage = "receive" /\ stage' = "wait" /\ producer.at = "closed"
        /\ UNCHANGED <<producer, holding, notifier>>
    BY <1>6 DEF CloseNotifications, sending
  <2>2. TypeOK'
    BY <1>1, <2>1 DEF TypeOK, counting
  <2>3. SlotInv'
    BY <1>1, <2>1 DEF SlotInv, Path
  <2>4. StageInv'
    BY <1>1, <2>1 DEF StageInv, counting
  <2> QED  BY <1>2, <2>2, <2>3, <2>4
<1> QED  BY <1>3, <1>4, <1>5, <1>6

\* The last response is one of those that were sent.
LEMMA CompletedType ==
  ASSUME TypeOK
  PROVE  /\ Completed.files \in Nat /\ Completed.bytes \in Nat
         /\ stream # <<>> => Completed = stream[Len(stream)] /\ Len(stream) \in DOMAIN stream
         /\ stream = <<>> => Completed = Zero
<1>1. stream \in Seq([node : Node, ok : BOOLEAN, files : Nat, bytes : Nat])
  BY DEF TypeOK
<1>2. stream # <<>> => Completed = stream[Len(stream)] /\ Len(stream) \in DOMAIN stream
  BY <1>1 DEF Completed, Last
<1>3. stream = <<>> => Completed = Zero
  BY DEF Completed
<1>4. stream # <<>> =>
        stream[Len(stream)] \in [node : Node, ok : BOOLEAN, files : Nat, bytes : Nat]
  <2> DEFINE R == [node : Node, ok : BOOLEAN, files : Nat, bytes : Nat]
  <2>1. stream \in Seq(R)
    BY <1>1
  <2> HIDE DEF R
  <2>2. \A i \in DOMAIN stream : stream[i] \in R
    BY <2>1
  <2> QED  BY <1>2, <2>2 DEF R
<1>5. Completed.files \in Nat /\ Completed.bytes \in Nat
  <2>1. CASE stream = <<>>
    BY <1>3, <2>1 DEF Zero
  <2>2. CASE stream # <<>>
    BY <1>2, <1>4, <2>2
  <2> QED  BY <2>1, <2>2
<1> QED  BY <1>2, <1>3, <1>5

LEMMA SendKeepsPlain ==
  ASSUME PlainInv, Send
  PROVE  /\ PlainInv'
         /\ stream' = Append(stream, [node |-> notifier.result.node, ok |-> notifier.result.ok,
                                      files |-> Completed.files + 1,
                                      bytes |-> Completed.bytes + Bytes(notifier.result)])
         /\ notifier.result \in Result
<1> USE DEF PlainInv
<1>1. /\ UNCHANGED <<disk, ctxDone, request, stage, counting, producer, bucket, holding>>
      /\ notifier.at = "send" /\ notifier' = [at |-> "receive", result |-> NoResult]
      /\ notifier.result \in Result
  BY DEF Send, SlotInv
<1>2. CountInv'
  BY <1>1, CountStays
<1>3. Bytes(notifier.result) \in Nat
  BY <1>1, FrameType DEF Bytes, Result
<1>4. stream' = Append(stream, [node |-> notifier.result.node, ok |-> notifier.result.ok,
                                files |-> Completed.files + 1,
                                bytes |-> Completed.bytes + Bytes(notifier.result)])
  BY DEF Send
<1>5. stream' \in Seq([node : Node, ok : BOOLEAN, files : Nat, bytes : Nat])
  <2>1. [node |-> notifier.result.node, ok |-> notifier.result.ok,
         files |-> Completed.files + 1, bytes |-> Completed.bytes + Bytes(notifier.result)]
          \in [node : Node, ok : BOOLEAN, files : Nat, bytes : Nat]
    BY <1>1, <1>3, CompletedType DEF Result
  <2> QED  BY <1>4, <2>1 DEF TypeOK
<1>6. TypeOK'
  BY <1>1, <1>5 DEF TypeOK, counting
<1>7. SlotInv'
  BY <1>1 DEF SlotInv, Path
<1>8. StageInv'
  <2>1. stage \in {"receive", "select", "wait"}
    BY <1>1 DEF StageInv, TypeOK
  <2> QED  BY <1>1, <2>1 DEF StageInv, counting
<1> QED  BY <1>1, <1>2, <1>4, <1>6, <1>7, <1>8

LEMMA RestKeepsPlain ==
  ASSUME PlainInv, Done \/ CancelCtx \/ \E n \in Node : Delete(n)
  PROVE  PlainInv'
<1> USE DEF PlainInv
<1>1. CASE Done
  <2>1. /\ UNCHANGED <<disk, ctxDone, request, counting, producer, bucket, holding, stream>>
        /\ notifier.at = "receive" /\ stage = "wait" /\ stage' = "returned"
        /\ notifier' = [notifier EXCEPT !.at = "done"]
    BY <1>1 DEF Done
  <2>2. notifier' = [at |-> "done", result |-> notifier.result]
    BY <2>1 DEF TypeOK
  <2>3. TypeOK'
    BY <2>1, <2>2 DEF TypeOK, counting
  <2>4. SlotInv'
    BY <2>1, <2>2 DEF SlotInv, Path
  <2>5. StageInv'
    BY <2>1, <2>2 DEF StageInv, counting
  <2>6. CountInv'
    BY <2>1, CountStays
  <2> QED  BY <2>3, <2>4, <2>5, <2>6
<1>2. CASE CancelCtx \/ \E n \in Node : Delete(n)
  <2>1. /\ UNCHANGED <<request, stage, counting, producer, bucket, sending>>
        /\ ctxDone' \in BOOLEAN /\ disk' \subseteq Node
    BY <1>2 DEF CancelCtx, Delete, TypeOK
  <2>2. TypeOK'
    BY <2>1 DEF TypeOK, counting, sending
  <2>3. SlotInv' /\ StageInv'
    BY <2>1, SlotsStay DEF counting
  <2>4. CountInv'
    BY <2>1, CountStays
  <2> QED  BY <2>2, <2>3, <2>4
<1> QED  BY <1>1, <1>2

LEMMA NextKeepsPlain == PlainInv /\ [Next]_vars => PlainInv'
<1> SUFFICES ASSUME PlainInv, [Next]_vars  PROVE PlainInv'
  OBVIOUS
<1>1. CASE UNCHANGED vars
  <2>1. UNCHANGED <<disk, ctxDone, request, stage, counting, producer, bucket, sending>>
    BY <1>1 DEF vars
  <2>2. TypeOK'
    BY <2>1 DEF PlainInv, TypeOK, counting, sending
  <2>3. SlotInv' /\ StageInv' /\ CountInv'
    BY <2>1, SlotsStay, CountStays DEF PlainInv, counting
  <2> QED  BY <2>2, <2>3 DEF PlainInv
<1>2. CASE GetTotals
  BY <1>2, CountKeepsPlain, ReturnKeepsPlain DEF GetTotals
<1>3. CASE Handle
  BY <1>3, StartKeepsPlain, HandleKeepsPlain DEF Handle
<1> QED  BY <1>1, <1>2, <1>3, CallKeepsPlain, ProduceKeepsPlain, SendKeepsPlain,
            RestKeepsPlain DEF Next

LEMMA PlainInvariant == Spec => []PlainInv
  BY InitPlain, NextKeepsPlain, PTL DEF Spec

\* The type invariant: a result is a node's wherever one is handed on, the
\* producer's paths stay a sequence of nodes and the responses count in Nat
\* (services_fs.go:414-700, handlers.go:196-265).
THEOREM TypeCorrect == Spec => []TypeOK
<1>1. PlainInv => TypeOK
  BY DEF PlainInv
<1> QED  BY <1>1, PlainInvariant, PTL

-------------------------------------------------------------------------------
(* Answers *)

\* A result on its way moves on, or another one comes, or the client is gone.
LEMMA AnswersMove ==
  ASSUME TypeOK, AnswerInv, UNCHANGED <<stream, bucket>>, ctxDone => ctxDone',
         InFlight' \subseteq InFlight \cup {NoResult},
         InFlight \subseteq InFlight' \cup {NoResult} \/ ctxDone
  PROVE  AnswerInv'
<1>1. Streamed' = Streamed
  BY DEF Streamed
<1>2. NoResult.ok = FALSE /\ \A n \in bucket : NoResult.node # n
  BY FrameType DEF TypeOK
<1>3. (\A r \in InFlight : r.ok => r.node \in bucket)'
  BY <1>2 DEF AnswerInv
<1>4. (~ctxDone => \A n \in bucket : n \in Streamed \/ \E r \in InFlight : r.node = n)'
  BY <1>1, <1>2 DEF AnswerInv
<1> QED  BY <1>3, <1>4 DEF AnswerInv

LEMMA ProduceKeepsAnswers ==
  ASSUME PlainInv, AnswerInv, Produce
  PROVE  AnswerInv'
<1> USE DEF PlainInv
<1>1. UNCHANGED <<ctxDone, holding, notifier, stream>>
  BY DEF Produce, UploadFails, createFolder, addFile, addFolderRec, CloseResults, Uploading,
         sending
<1>2. producer.at \in {"next", "readDir"} /\ producer.result = NoResult
  BY DEF Produce, UploadFails, createFolder, addFile, addFolderRec, CloseResults, Uploading,
         SlotInv
<1>3. InFlight = {NoResult, holding, notifier.result}
      /\ InFlight' = {producer'.result, holding, notifier.result}
  BY <1>1, <1>2 DEF InFlight
<1>4. ASSUME NEW at, NEW ok \in BOOLEAN, Offer(at, ok),
             bucket' = bucket \/ bucket' = bucket \cup {Path},
             ok => Path \in bucket'
      PROVE  AnswerInv'
  <2>1. producer'.result = [node |-> Path, ok |-> ok]
    BY <1>4 DEF Offer, TypeOK
  <2>2. Streamed' = Streamed
    BY <1>1 DEF Streamed
  <2>3. (\A r \in InFlight : r.ok => r.node \in bucket)'
    BY <1>3, <1>4, <2>1 DEF AnswerInv
  <2>4. ASSUME ~ctxDone', NEW n \in bucket'
        PROVE  n \in Streamed \/ \E r \in InFlight' : r.node = n
    <3>1. CASE n = Path
      BY <1>3, <2>1, <3>1
    <3>2. CASE n # Path
      <4>1. n \in bucket /\ n \in Node
        BY <1>4, <2>4, <3>2 DEF TypeOK
      <4>2. NoResult.node # n
        BY <4>1, FrameType
      <4> QED  BY <1>1, <1>3, <2>4, <4>1, <4>2 DEF AnswerInv
    <3> QED  BY <3>1, <3>2
  <2>5. (\A i \in DOMAIN stream : stream[i].ok => stream[i].node \in bucket)'
    BY <1>1, <1>4 DEF AnswerInv
  <2> QED  BY <2>2, <2>3, <2>4, <2>5 DEF AnswerInv
<1>5. CASE UploadFails
  BY <1>4, <1>5 DEF UploadFails
<1>6. CASE createFolder
  BY <1>4, <1>6 DEF createFolder
<1>7. CASE addFile
  BY <1>4, <1>7 DEF addFile
<1>8. CASE addFolderRec /\ Path \notin disk
  BY <1>4, <1>8 DEF addFolderRec
<1>9. CASE (addFolderRec /\ Path \in disk) \/ CloseResults
  <2>1. bucket' = bucket /\ producer'.result = producer.result
    BY <1>9 DEF addFolderRec, CloseResults, TypeOK
  <2> QED  BY <1>1, <1>2, <1>3, <2>1, AnswersMove
<1> QED  BY <1>5, <1>6, <1>7, <1>8, <1>9 DEF Produce

LEMMA HandleKeepsAnswers ==
  ASSUME PlainInv, AnswerInv, ReceiveResult \/ Notify \/ Drop \/ CloseNotifications
  PROVE  AnswerInv'
<1> USE DEF PlainInv
<1>1. UNCHANGED <<ctxDone, bucket, stream>>
  BY DEF ReceiveResult, Notify, Drop, CloseNotifications, sending
<1>2. CASE ReceiveResult
  <2>1. /\ holding = NoResult /\ holding' = producer.result /\ notifier' = notifier
        /\ producer'.result = NoResult
    BY <1>2 DEF ReceiveResult, SlotInv, TypeOK
  <2> QED  BY <1>1, <2>1, AnswersMove DEF InFlight
<1>3. CASE Notify
  <2>1. /\ notifier.result = NoResult /\ notifier'.result = holding /\ holding' = NoResult
        /\ producer' = producer
    BY <1>3 DEF Notify, SlotInv
  <2> QED  BY <1>1, <2>1, AnswersMove DEF InFlight
<1>4. CASE Drop
  <2>1. ctxDone /\ holding' = NoResult /\ UNCHANGED <<producer, notifier>>
    BY <1>4 DEF Drop
  <2> QED  BY <1>1, <2>1, AnswersMove DEF InFlight
<1>5. CASE CloseNotifications
  <2>1. UNCHANGED <<producer, holding, notifier>>
    BY <1>5 DEF CloseNotifications, sending
  <2> QED  BY <1>1, <2>1, AnswersMove DEF InFlight
<1> QED  BY <1>2, <1>3, <1>4, <1>5

\* What Append does to the responses.
LEMMA SendAppends ==
  ASSUME PlainInv, Send
  PROVE  LET i == Len(stream) + 1
             r == notifier.result
         IN /\ DOMAIN stream = 1 .. Len(stream) /\ Len(stream) \in Nat
            /\ DOMAIN stream' = DOMAIN stream \cup {i} /\ i \notin DOMAIN stream
            /\ DOMAIN stream' = 1 .. i
            /\ \A j \in DOMAIN stream : stream'[j] = stream[j]
            /\ stream'[i] = [node |-> r.node, ok |-> r.ok, files |-> Completed.files + 1,
                             bytes |-> Completed.bytes + Bytes(r)]
            /\ Streamed' = Streamed \cup {r.node}
<1> DEFINE r == notifier.result
           e == [node |-> r.node, ok |-> r.ok, files |-> Completed.files + 1,
                 bytes |-> Completed.bytes + Bytes(r)]
           i == Len(stream) + 1
<1>1. stream' = Append(stream, e)
  BY SendKeepsPlain
<1>2. stream \in Seq([node : Node, ok : BOOLEAN, files : Nat, bytes : Nat])
  BY DEF PlainInv, TypeOK
<1>3. e.node = r.node
  OBVIOUS
<1> HIDE DEF e
<1>4. /\ DOMAIN stream = 1 .. Len(stream) /\ Len(stream) \in Nat
      /\ DOMAIN stream' = 1 .. i
      /\ \A j \in DOMAIN stream : stream'[j] = stream[j]
      /\ stream'[i] = e
  BY <1>1, <1>2
<1>5. DOMAIN stream' = DOMAIN stream \cup {i} /\ i \notin DOMAIN stream
  BY <1>4
<1>6. Streamed' = Streamed \cup {r.node}
  BY <1>3, <1>4, <1>5 DEF Streamed
<1> QED  BY <1>4, <1>5, <1>6 DEF e

LEMMA SendKeepsAnswers ==
  ASSUME PlainInv, AnswerInv, Send
  PROVE  AnswerInv'
<1>1. /\ UNCHANGED <<ctxDone, producer, bucket, holding>> /\ notifier'.result = NoResult
  BY DEF Send
<1>2. /\ InFlight' \subseteq InFlight \cup {NoResult}
      /\ InFlight \subseteq InFlight' \cup {notifier.result}
  BY <1>1 DEF InFlight
<1>3. NoResult.ok = FALSE
  BY FrameType
<1>4. (\A r \in InFlight : r.ok => r.node \in bucket)'
  BY <1>1, <1>2, <1>3 DEF AnswerInv
<1>5. Streamed' = Streamed \cup {notifier.result.node}
  BY SendAppends
<1>6. (~ctxDone => \A n \in bucket : n \in Streamed \/ \E r \in InFlight : r.node = n)'
  BY <1>1, <1>2, <1>5 DEF AnswerInv
<1>7. (\A i \in DOMAIN stream : stream[i].ok => stream[i].node \in bucket)'
  <2>1. notifier.result.ok => notifier.result.node \in bucket
    BY DEF AnswerInv, InFlight
  <2>2. /\ DOMAIN stream' = DOMAIN stream \cup {Len(stream) + 1}
        /\ \A j \in DOMAIN stream : stream'[j] = stream[j]
        /\ stream'[Len(stream) + 1].node = notifier.result.node
        /\ stream'[Len(stream) + 1].ok = notifier.result.ok
    BY SendAppends
  <2> QED  BY <1>1, <2>1, <2>2 DEF AnswerInv
<1> QED  BY <1>4, <1>6, <1>7 DEF AnswerInv

LEMMA NextKeepsAnswers == PlainInv /\ AnswerInv /\ [Next]_vars => AnswerInv'
<1> SUFFICES ASSUME PlainInv, AnswerInv, [Next]_vars  PROVE AnswerInv'
  OBVIOUS
<1>1. CASE Produce
  BY <1>1, ProduceKeepsAnswers
<1>2. CASE ReceiveResult \/ Notify \/ Drop \/ CloseNotifications
  BY <1>2, HandleKeepsAnswers
<1>3. CASE Send
  BY <1>3, SendKeepsAnswers
<1>4. ASSUME UNCHANGED <<producer, bucket, holding, notifier, stream>>, ctxDone => ctxDone'
      PROVE  AnswerInv'
  BY <1>4, AnswersMove DEF InFlight, PlainInv
<1>5. CASE StartAdding \/ Done
  <2>1. /\ UNCHANGED <<ctxDone, bucket, holding, stream>>
        /\ producer'.result = producer.result /\ notifier'.result = notifier.result
    BY <1>5 DEF StartAdding, Done, PlainInv, TypeOK
  <2> QED  BY <2>1, AnswersMove DEF InFlight, PlainInv
<1>6. CASE \/ UNCHANGED vars \/ CancelCtx \/ (\E n \in Node : Delete(n))
           \/ \E s \in Requests : CallAddItems(s)
  <2>1. CASE CancelCtx
    BY <1>4, <2>1 DEF CancelCtx, sending
  <2>2. CASE UNCHANGED vars
    BY <1>4, <2>2 DEF vars, sending
  <2>3. CASE \E n \in Node : Delete(n)
    BY <1>4, <2>3 DEF Delete, sending
  <2>4. CASE \E s \in Requests : CallAddItems(s)
    BY <1>4, <2>4 DEF CallAddItems, sending
  <2> QED  BY <1>6, <2>1, <2>2, <2>3, <2>4
<1>7. CASE GetTotals
  BY <1>4, <1>7 DEF GetTotals, Count, CountFolder, NotAFolder, CountFile, CannotRead,
     CallGetTotals, ReturnTotals, WgDone, Counter, GetTotalsReturns, sending
<1> QED  BY <1>1, <1>2, <1>3, <1>5, <1>6, <1>7 DEF Next, Handle

-------------------------------------------------------------------------------
(* Totals *)

\* What was deleted does not come back.
LEMMA UntouchedWas ==
  ASSUME TypeOK, [Next]_vars, Untouched'
  PROVE  Untouched /\ disk' = disk
<1>1. CASE disk' = disk
  BY <1>1 DEF Untouched
<1>2. ASSUME NEW n \in Node, Delete(n)  PROVE FALSE
  <2>1. n \in Below({n})
    BY BelowIsClosed
  <2> QED  BY <1>2, <2>1 DEF Delete, Untouched
<1>3. CASE GetTotals
  BY <1>1, <1>3 DEF GetTotals, Count, CountFolder, NotAFolder, CountFile, CannotRead,
     CallGetTotals, ReturnTotals, WgDone, Counter, GetTotalsReturns
<1>4. CASE Produce
  BY <1>1, <1>4 DEF Produce, UploadFails, createFolder, addFile, addFolderRec,
     CloseResults, Uploading
<1>5. CASE Handle
  BY <1>1, <1>5 DEF Handle, StartAdding, ReceiveResult, Notify, Drop, CloseNotifications
<1>6. CASE Send \/ Done \/ CancelCtx \/ (\E s \in Requests : CallAddItems(s)) \/ UNCHANGED vars
  BY <1>1, <1>6 DEF Send, Done, CancelCtx, CallAddItems, vars
<1> QED  BY <1>2, <1>3, <1>4, <1>5, <1>6 DEF Next

\* The steps that leave the counting alone.
LEMMA TotalsStay ==
  ASSUME TotalsInv, Untouched' => Untouched, UNCHANGED <<counter, listing, sum>>
  PROVE  TotalsInv'
<1>1. \A f : Gathered(f)' = Gathered(f)
  BY DEF Gathered, Got
<1> QED  BY <1>1 DEF TotalsInv

\* Sums of what two disjoint sets come to.
LEMMA TotalsAddUp ==
  ASSUME NEW S \in SUBSET Node, NEW T \in SUBSET Node, S \cap T = {}
  PROVE  TotalsOf(S \cup T) = [files |-> TotalsOf(S).files + Cardinality(T),
                               bytes |-> TotalsOf(S).bytes + Weight(T),
                               failed |-> FALSE]
  BY WeightAddsUp DEF TotalsOf

\* A goroutine sends nothing but its path and what is below it.
LEMMA GotBelow ==
  ASSUME NEW n \in Node
  PROVE  Got(n) \subseteq Below({n}) /\ Got(n) \subseteq Node
  BY BelowIsClosed DEF Got

\* The goroutine of n gathers X: it is new to n's folder, and nothing to others.
LEMMA Gathering ==
  ASSUME TypeOK, CountInv, NEW n \in Node, n \in listing[Parent[n]],
         \A m \in Node \ {n} : counter'[m] = counter[m], listing' = listing,
         NEW X \in SUBSET Below({n}), Got(n)' = Got(n) \cup X, X \cap Got(n) = {}
  PROVE  /\ Gathered(Parent[n])' = Gathered(Parent[n]) \cup X
         /\ X \cap Gathered(Parent[n]) = {}
         /\ \A f \in Frame \ {Parent[n]} : Gathered(f)' = Gathered(f)
<1> DEFINE p == Parent[n]
<1>1. p \in Frame /\ X \subseteq Node /\ n \in Reach
  BY FrameType, BelowIsClosed DEF CountInv
<1>2. \A m \in Node \ {n} : Got(m)' = Got(m)
  BY DEF Got
<1>3. \A f \in Frame : listing[f] \subseteq Node /\ listing[f] \subseteq Reach
                       /\ \A m \in listing[f] : Parent[m] = f
  BY DEF CountInv, Kids
<1>4. ASSUME NEW f \in Frame \ {p}  PROVE Gathered(f)' = Gathered(f)
  <2>1. n \notin listing[f]
    BY <1>3
  <2>2. \A m \in listing[f] : Got(m)' = Got(m)
    BY <1>2, <1>3, <2>1
  <2> QED  BY <2>2 DEF Gathered
<1>5. Gathered(p)' = Gathered(p) \cup X
  <2>1. \A m \in listing[p] : m # n => Got(m)' = Got(m)
    BY <1>1, <1>2, <1>3
  <2> QED  BY <1>1, <2>1 DEF Gathered
<1>6. ASSUME NEW m \in listing[p], m # n  PROVE X \cap Got(m) = {}
  <2>1. Parent[m] = Parent[n] /\ m \in Node /\ m \in Reach
    BY <1>1, <1>3
  <2>2. Below({n}) \cap Below({m}) = {}
    BY <1>1, <1>6, <2>1, SiblingsApart
  <2>3. Got(m) \subseteq Below({m})
    BY <2>1, GotBelow
  <2> QED  BY <2>2, <2>3
<1>7. X \cap Gathered(p) = {}
  BY <1>6 DEF Gathered
<1> QED  BY <1>4, <1>5, <1>7

\* A step of the goroutine of n that sends what X comes to.
LEMMA CollectKeepsTotals ==
  ASSUME PlainInv, TotalsInv, Untouched, NEW n \in Node, NEW to,
         counter' = [counter EXCEPT ![n] = to], to # "call",
         to = "stat" => n \notin Folder,
         n \in listing[Parent[n]], listing' = listing,
         NEW X \in SUBSET Below({n}), Got(n)' = Got(n) \cup X, X \cap Got(n) = {},
         \/ Collect(n, Cardinality(X), Weight(X))
         \/ X = {} /\ sum' = sum
  PROVE  TotalsInv'
<1> USE DEF PlainInv
<1>1. counter'[n] = to /\ \A m \in Node \ {n} : counter'[m] = counter[m]
  BY DEF TypeOK
<1>2. /\ Gathered(Parent[n])' = Gathered(Parent[n]) \cup X
      /\ X \cap Gathered(Parent[n]) = {}
      /\ \A f \in Frame \ {Parent[n]} : Gathered(f)' = Gathered(f)
  BY <1>1, Gathering
<1>3. /\ Parent[n] \in Frame /\ X \in SUBSET Node /\ Gathered(Parent[n]) \in SUBSET Node
      /\ \A f \in Frame : sum[f] = TotalsOf(Gathered(f))
  BY FrameType, BelowIsClosed DEF TotalsInv, Gathered
<1>4. Cardinality(X) \in Nat /\ Weight(X) \in Nat
  BY <1>3, NodesAreFinite, BytesOf
<1>5. \A f \in Frame : sum'[f] = TotalsOf(Gathered(f)')
  <2>1. CASE Collect(n, Cardinality(X), Weight(X))
    <3>1. /\ sum'[Parent[n]] = [files |-> sum[Parent[n]].files + Cardinality(X),
                                bytes |-> sum[Parent[n]].bytes + Weight(X),
                                failed |-> sum[Parent[n]].failed]
          /\ \A f \in Frame \ {Parent[n]} : sum'[f] = sum[f]
      BY <1>4, <2>1, Collecting
    <3>2. sum[Parent[n]] = TotalsOf(Gathered(Parent[n])) /\ ~ sum[Parent[n]].failed
      BY <1>3 DEF TotalsOf
    <3>3. sum'[Parent[n]] = TotalsOf(Gathered(Parent[n]) \cup X)
      BY <1>2, <1>3, <3>1, <3>2, TotalsAddUp DEF TotalsOf
    <3>4. sum'[Parent[n]] = TotalsOf(Gathered(Parent[n])')
      BY <1>2, <3>3
    <3> QED  BY <1>2, <1>3, <3>1, <3>4
  <2>2. CASE X = {} /\ sum' = sum
    <3>1. \A f \in Frame : Gathered(f)' = Gathered(f)
      BY <1>2, <2>2
    <3> QED  BY <1>3, <2>2, <3>1
  <2> QED  BY <2>1, <2>2
<1>6. \A m \in Node : /\ counter'[m] = "stat" => m \notin Folder
                      /\ counter'[m] = "call" => listing'[m] = Kids(m)
  BY <1>1 DEF TotalsInv
<1>7. \A f \in Frame : (sum[f] = TotalsOf(Gathered(f)))'
  BY <1>5 DEF TotalsOf
<1> QED  BY <1>6, <1>7 DEF TotalsInv

\* The next getTotals begins with nothing gathered: the folder has counted itself.
LEMMA CallGetTotalsKeepsTotals ==
  ASSUME PlainInv, TotalsInv, Untouched, NEW n \in Node, CallGetTotals(n)
  PROVE  TotalsInv'
<1> USE DEF PlainInv
<1>1. /\ n \in Folder /\ n # Top /\ n \in Frame /\ listing[n] = {} /\ Kids(n) \subseteq Node
      /\ Children(n) = Kids(n)
  BY FrameType DEF CallGetTotals, CountInv, Children, Kids, Untouched
<1>2. /\ sum' = sum /\ counter[n] = "readDir"
      /\ listing'[n] = Kids(n) /\ \A f \in Frame \ {n} : listing'[f] = listing[f]
      /\ counter'[n] = "call"
      /\ \A m \in Node \ {n} : counter'[m] = IF m \in Kids(n) THEN "begin" ELSE counter[m]
  BY <1>1 DEF CallGetTotals, TypeOK
<1>3. \A m \in Kids(n) : counter[m] = "none"
  BY <1>1 DEF CountInv, Kids
<1>4. \A f \in Frame : listing[f] \subseteq Node /\ \A m \in listing[f] : Parent[m] = f
  BY DEF CountInv, Kids
<1>5. ASSUME NEW f \in Frame  PROVE Gathered(f)' = Gathered(f)
  <2>1. CASE f = n
    <3>1. n \notin Kids(n)
      BY <1>2, <1>3
    <3>2. \A m \in Kids(n) : Got(m)' = {}
      BY <1>1, <1>2, <3>1 DEF Got
    <3> QED  BY <1>1, <1>2, <2>1, <3>2 DEF Gathered
  <2>2. CASE f # n
    <3>1. ASSUME NEW m \in listing[f]  PROVE Got(m)' = Got(m)
      <4>1. m \in Node /\ m \notin Kids(n)
        BY <1>4, <2>2, <3>1 DEF Kids
      <4>2. CASE m = n
        BY <1>2, <4>2 DEF Got
      <4>3. CASE m # n
        BY <1>2, <4>1, <4>3 DEF Got
      <4> QED  BY <4>2, <4>3
    <3>2. listing'[f] = listing[f]
      BY <1>2, <2>2
    <3> QED  BY <3>1, <3>2 DEF Gathered
  <2> QED  BY <2>1, <2>2
<1>6. ASSUME NEW m \in Node
      PROVE  /\ counter'[m] = "stat" => m \notin Folder
             /\ counter'[m] = "call" => listing'[m] = Kids(m)
  <2>1. CASE m = n
    BY <1>2, <2>1
  <2>2. CASE m # n
    <3>1. counter'[m] \in {"stat", "call"} => counter'[m] = counter[m]
      BY <1>2, <2>2
    <3>2. counter[m] = "call" => m \in Frame
      BY FrameType DEF CountInv
    <3> QED  BY <1>2, <2>2, <3>1, <3>2 DEF TotalsInv
  <2> QED  BY <2>1, <2>2
<1> QED  BY <1>2, <1>5, <1>6 DEF TotalsInv, TotalsOf

LEMMA CountKeepsTotals ==
  ASSUME PlainInv, TotalsInv, Untouched, NEW n \in Node, Count(n)
  PROVE  TotalsInv'
<1> USE DEF PlainInv
<1>1. Children(n) = Kids(n) /\ n \in disk /\ Kids(n) \in SUBSET Node
  BY DEF Children, Kids, Untouched
<1>2. Below({n}) = {n} \cup Below(Kids(n)) /\ n \in Below({n}) /\ Below(Kids(n)) \subseteq Node
  BY <1>1, BelowKids, BelowIsClosed
<1>3. Cardinality({}) = 0 /\ Weight({}) = 0 /\ Cardinality({n}) = 1 /\ Weight({n}) = Size[n]
  BY WeightOfNone, WeightOfOne
<1>4. counter[n] # "none" => n \in listing[Parent[n]]
  BY DEF CountInv
<1>5. \A to : counter' = [counter EXCEPT ![n] = to] => counter'[n] = to
  BY DEF TypeOK
<1>6. CASE CountFolder(n)
  <2>1. /\ counter[n] = "begin" /\ counter' = [counter EXCEPT ![n] = "readDir"]
        /\ listing' = listing
        /\ n \in Folder /\ Collect(n, 1, 0)
    BY <1>6 DEF CountFolder, Counter
  <2>2. Got(n) = {} /\ Got(n)' = {n}
    BY <1>5, <2>1 DEF Got
  <2>3. Collect(n, Cardinality({n}), Weight({n}))
    BY <1>3, <2>1, FrameType
  <2> QED  BY <1>2, <1>4, <2>1, <2>2, <2>3, CollectKeepsTotals
<1>7. CASE NotAFolder(n)
  <2>1. /\ counter[n] = "begin" /\ counter' = [counter EXCEPT ![n] = "stat"]
        /\ listing' = listing
        /\ n \notin Folder /\ sum' = sum
    BY <1>1, <1>7 DEF NotAFolder, Counter
  <2>2. Got(n) = {} /\ Got(n)' = {}
    BY <1>5, <2>1 DEF Got
  <2> QED  BY <1>2, <1>4, <2>1, <2>2, CollectKeepsTotals
<1>8. CASE CountFile(n)
  <2>1. /\ counter[n] = "stat" /\ counter' = [counter EXCEPT ![n] = "sent"]
        /\ listing' = listing
        /\ n \notin Folder /\ Collect(n, 1, Size[n])
    BY <1>1, <1>8 DEF CountFile, Counter, TotalsInv
  <2>2. Got(n) = {} /\ Got(n)' = {n}
    BY <1>5, <2>1, BelowFile DEF Got
  <2>3. Collect(n, Cardinality({n}), Weight({n}))
    BY <1>3, <2>1
  <2> QED  BY <1>2, <1>4, <2>1, <2>2, <2>3, CollectKeepsTotals
<1>9. CASE CannotRead(n)
  BY <1>1, <1>9 DEF CannotRead
<1>10. CASE CallGetTotals(n)
  BY <1>10, CallGetTotalsKeepsTotals
<1>11. CASE ReturnTotals(n)
  <2>1. /\ counter[n] = "call" /\ counter' = [counter EXCEPT ![n] = "sent"]
        /\ listing' = listing
        /\ n \in summed /\ n \in Folder /\ n \in Frame /\ n \in Reach
    BY <1>4, <1>11, FrameType DEF ReturnTotals, Counter, CountInv
  <2>2. listing[n] = Kids(n) /\ \A m \in Kids(n) : counter[m] = "done"
    BY <2>1 DEF TotalsInv, CountInv
  <2>3. Gathered(n) = Below(Kids(n))
    <3>1. \A m \in Kids(n) : Got(m) = Below({m})
      BY <2>2 DEF Got
    <3>2. Below(Kids(n)) = {m \in Node : \E k \in Kids(n) : m \in Below({k})}
      BY <1>1, BelowOneOf
    <3> QED  BY <2>2, <3>1, <3>2 DEF Gathered
  <2>4. sum[n] = TotalsOf(Gathered(n))
    BY <2>1 DEF TotalsInv
  <2>5. /\ ~ sum[n].failed /\ sum[n].files = Cardinality(Gathered(n))
        /\ sum[n].bytes = Weight(Gathered(n))
    BY <2>4 DEF TotalsOf
  <2>6. Collect(n, Cardinality(Below(Kids(n))), Weight(Below(Kids(n))))
    BY <1>11, <2>3, <2>5 DEF ReturnTotals
  <2>7. Got(n) = {n} /\ Got(n)' = {n} \cup Below(Kids(n))
    BY <1>2, <1>5, <2>1 DEF Got
  <2>8. n \notin Below(Kids(n))
    BY <2>1, NoCycle
  <2>9. /\ Below(Kids(n)) \in SUBSET Below({n}) /\ Below(Kids(n)) \cap Got(n) = {}
        /\ Got(n)' = Got(n) \cup Below(Kids(n)) /\ n \in listing[Parent[n]]
    BY <1>2, <1>4, <2>1, <2>7, <2>8
  <2> QED  BY <2>1, <2>6, <2>9, CollectKeepsTotals
<1>12. CASE WgDone(n)
  <2>1. /\ counter[n] = "sent" /\ counter' = [counter EXCEPT ![n] = "done"]
        /\ listing' = listing
        /\ sum' = sum
    BY <1>12 DEF WgDone, Counter
  <2>2. Got(n)' = Got(n)
    BY <1>5, <2>1 DEF Got
  <2>3. /\ {} \in SUBSET Below({n}) /\ {} \cap Got(n) = {}
        /\ Got(n)' = Got(n) \cup {} /\ n \in listing[Parent[n]]
    BY <1>4, <2>1, <2>2
  <2> QED  BY <2>1, <2>3, CollectKeepsTotals
<1> QED  BY <1>6, <1>7, <1>8, <1>9, <1>10, <1>11, <1>12 DEF Count

LEMMA CallKeepsTotals ==
  ASSUME PlainInv, TotalsInv, NEW s \in Requests, CallAddItems(s), Untouched' => Untouched
  PROVE  TotalsInv'
<1> USE DEF PlainInv
<1>1. /\ sum' = sum /\ \A n \in Node : counter[n] = "none"
      /\ \A n \in Node : counter'[n] \in {"none", "begin"}
  BY DEF CallAddItems, CountInv
<1>2. /\ \A f \in Frame : listing[f] \subseteq Node
      /\ \A f \in Frame : listing'[f] \subseteq Node
  <2>1. TypeOK'
    BY CallKeepsPlain
  <2> QED  BY <2>1 DEF TypeOK
<1>3. \A n \in Node : Got(n) = {} /\ Got(n)' = {}
  BY <1>1 DEF Got
<1>4. \A f \in Frame : Gathered(f) = {} /\ Gathered(f)' = {}
  BY <1>2, <1>3 DEF Gathered
<1> QED  BY <1>1, <1>4 DEF TotalsInv, TotalsOf

LEMMA NextKeepsTotals == PlainInv /\ TotalsInv /\ [Next]_vars => TotalsInv'
<1> SUFFICES ASSUME PlainInv, TotalsInv, [Next]_vars  PROVE TotalsInv'
  OBVIOUS
<1>1. Untouched' => Untouched
  BY UntouchedWas DEF PlainInv
<1>2. CASE Untouched' /\ GetTotals
  <2>1. ASSUME NEW f \in Frame, GetTotalsReturns(f)  PROVE TotalsInv'
    BY <1>1, <2>1, TotalsStay DEF GetTotalsReturns
  <2> QED  BY <1>1, <1>2, <2>1, CountKeepsTotals DEF GetTotals
<1>3. CASE ~Untouched'
  BY <1>3 DEF TotalsInv
<1>4. CASE \E s \in Requests : CallAddItems(s)
  BY <1>1, <1>4, CallKeepsTotals
<1>5. CASE Produce
  BY <1>1, <1>5, TotalsStay DEF Produce, UploadFails, createFolder, addFile, addFolderRec,
     CloseResults, Uploading, counting
<1>6. CASE Handle
  BY <1>1, <1>6, TotalsStay DEF Handle, StartAdding, ReceiveResult, Notify, Drop,
     CloseNotifications, counting
<1>7. CASE Send \/ Done \/ CancelCtx \/ (\E n \in Node : Delete(n)) \/ UNCHANGED vars
  BY <1>1, <1>7, TotalsStay DEF Send, Done, CancelCtx, Delete, vars, counting
<1> QED  BY <1>2, <1>3, <1>4, <1>5, <1>6, <1>7 DEF Next

-------------------------------------------------------------------------------
(* What is still to do *)

\* What is below the first path, and what is below the others.
LEMMA ApartTail ==
  ASSUME NEW s \in Seq(Node), s # <<>>, Apart(s)
  PROVE  /\ Head(s) \in Node /\ Tail(s) \in Seq(Node) /\ Apart(Tail(s))
         /\ ToSet(s) = {Head(s)} \cup ToSet(Tail(s)) /\ ToSet(s) \subseteq Node
         /\ ToSet(Tail(s)) \subseteq Node
         /\ Below(ToSet(s)) = Below({Head(s)}) \cup Below(ToSet(Tail(s)))
         /\ Below({Head(s)}) \cap Below(ToSet(Tail(s))) = {}
<1> DEFINE t == Tail(s)
<1>1. /\ Head(s) = s[1] /\ Head(s) \in Node /\ t \in Seq(Node)
      /\ DOMAIN s = 1 .. Len(s) /\ DOMAIN t = 1 .. Len(s) - 1 /\ Len(s) \in Nat \ {0}
      /\ \A i \in DOMAIN t : t[i] = s[i + 1]
  OBVIOUS
<1> HIDE DEF t
<1>2. \A i \in DOMAIN t : i + 1 \in DOMAIN s /\ i + 1 # 1
  BY <1>1
<1>3. Apart(t)
  <2> SUFFICES ASSUME NEW i \in DOMAIN t, NEW j \in DOMAIN t, i # j
               PROVE  Below({t[i]}) \cap Below({t[j]}) = {}
    BY DEF Apart
  <2>1. i + 1 # j + 1 /\ t[i] = s[i + 1] /\ t[j] = s[j + 1]
    BY <1>1
  <2> QED  BY <1>2, <2>1 DEF Apart
<1>4. ToSet(s) = {Head(s)} \cup ToSet(t)
  <2>1. ASSUME NEW i \in DOMAIN s, i # 1  PROVE i - 1 \in DOMAIN t /\ t[i - 1] = s[i]
    BY <1>1, <2>1
  <2>2. ToSet(s) \subseteq {Head(s)} \cup ToSet(t)
    BY <1>1, <2>1 DEF ToSet
  <2>3. {Head(s)} \cup ToSet(t) \subseteq ToSet(s)
    BY <1>1, <1>2 DEF ToSet
  <2> QED  BY <2>2, <2>3
<1>5. ToSet(s) \subseteq Node /\ ToSet(t) \subseteq Node
  BY <1>1, <1>4 DEF ToSet
<1>6. Below(ToSet(s)) = Below({Head(s)}) \cup Below(ToSet(t))
  <2>1. Below({Head(s)} \cup ToSet(t)) = Below({Head(s)}) \cup Below(ToSet(t))
    BY <1>1, <1>5, BelowUnion
  <2> QED  BY <1>4, <2>1
<1>7. Below({Head(s)}) \cap Below(ToSet(t)) = {}
  <2>1. Below(ToSet(t)) = {m \in Node : \E n \in ToSet(t) : m \in Below({n})}
    BY <1>5, BelowOneOf
  <2>2. ASSUME NEW n \in ToSet(t)  PROVE Below({Head(s)}) \cap Below({n}) = {}
    <3>1. PICK i \in DOMAIN t : n = t[i]
      BY DEF ToSet
    <3>2. n = s[i + 1] /\ i + 1 \in DOMAIN s /\ 1 \in DOMAIN s /\ i + 1 # 1
      BY <1>1, <1>2, <3>1
    <3> QED  BY <1>1, <3>2 DEF Apart
  <2> QED  BY <2>1, <2>2
<1> QED  BY <1>1, <1>3, <1>4, <1>5, <1>6, <1>7 DEF t

\* The paths of a folder are put before those that follow it.
LEMMA ApartConcat ==
  ASSUME NEW s \in Seq(Node), NEW t \in Seq(Node), Apart(s), Apart(t),
         Below(ToSet(s)) \cap Below(ToSet(t)) = {}
  PROVE  Apart(s \o t) /\ ToSet(s \o t) = ToSet(s) \cup ToSet(t)
<1> DEFINE u == s \o t
<1>1. /\ DOMAIN u = 1 .. Len(s) + Len(t) /\ Len(s) \in Nat /\ Len(t) \in Nat
      /\ DOMAIN s = 1 .. Len(s) /\ DOMAIN t = 1 .. Len(t)
      /\ \A i \in DOMAIN s : u[i] = s[i]
      /\ \A i \in DOMAIN u : i \notin DOMAIN s => u[i] = t[i - Len(s)]
  OBVIOUS
<1>2. ToSet(s) \subseteq Node /\ ToSet(t) \subseteq Node
  BY DEF ToSet
<1> HIDE DEF u
<1>3. /\ \A i \in DOMAIN s : i \in DOMAIN u
      /\ \A i \in DOMAIN u : i \notin DOMAIN s => i - Len(s) \in DOMAIN t
      /\ \A i \in DOMAIN t : i + Len(s) \in DOMAIN u /\ i + Len(s) \notin DOMAIN s
                             /\ (i + Len(s)) - Len(s) = i
  BY <1>1
<1>4. ToSet(u) = ToSet(s) \cup ToSet(t)
  <2>1. ToSet(u) \subseteq ToSet(s) \cup ToSet(t)
    BY <1>1, <1>3 DEF ToSet
  <2>2. ToSet(s) \subseteq ToSet(u)
    BY <1>1, <1>3 DEF ToSet
  <2>3. ASSUME NEW i \in DOMAIN t  PROVE t[i] \in ToSet(u)
    <3>1. u[i + Len(s)] = t[i] /\ i + Len(s) \in DOMAIN u
      BY <1>1, <1>3
    <3> QED  BY <3>1 DEF ToSet
  <2> QED  BY <2>1, <2>2, <2>3 DEF ToSet
<1>5. ASSUME NEW x \in ToSet(s), NEW y \in ToSet(t)  PROVE Below({x}) \cap Below({y}) = {}
  <2>1. Below({x}) \subseteq Below(ToSet(s)) /\ Below({y}) \subseteq Below(ToSet(t))
    BY <1>2, BelowIsClosed, BelowGrows
  <2> QED  BY <2>1
<1>6. ASSUME NEW i \in DOMAIN u, NEW j \in DOMAIN u, i # j
      PROVE  Below({u[i]}) \cap Below({u[j]}) = {}
  <2>1. CASE i \in DOMAIN s /\ j \in DOMAIN s
    BY <1>1, <1>6, <2>1 DEF Apart
  <2>2. CASE i \in DOMAIN s /\ j \notin DOMAIN s
    <3>1. u[i] \in ToSet(s) /\ u[j] \in ToSet(t)
      BY <1>1, <1>3, <2>2 DEF ToSet
    <3> QED  BY <1>5, <3>1
  <2>3. CASE i \notin DOMAIN s /\ j \in DOMAIN s
    <3>1. u[j] \in ToSet(s) /\ u[i] \in ToSet(t)
      BY <1>1, <1>3, <2>3 DEF ToSet
    <3>2. Below({u[j]}) \cap Below({u[i]}) = {}
      BY <1>5, <3>1
    <3> QED  BY <3>2
  <2>4. CASE i \notin DOMAIN s /\ j \notin DOMAIN s
    <3>1. /\ i - Len(s) \in DOMAIN t /\ j - Len(s) \in DOMAIN t
          /\ u[i] = t[i - Len(s)] /\ u[j] = t[j - Len(s)]
      BY <1>1, <1>3, <2>4
    <3>2. i - Len(s) # j - Len(s)
      BY <1>1, <1>6
    <3> QED  BY <3>1, <3>2 DEF Apart
  <2> QED  BY <2>1, <2>2, <2>3, <2>4
<1> QED  BY <1>4, <1>6 DEF Apart, u

\* Paths of one folder, or of one request.
LEMMA ApartSiblings ==
  ASSUME NEW s \in Seq(Node), IsInjective(s), NEW f, ToSet(s) \subseteq Reach \cap Kids(f)
  PROVE  Apart(s)
<1> SUFFICES ASSUME NEW i \in DOMAIN s, NEW j \in DOMAIN s, i # j
             PROVE  Below({s[i]}) \cap Below({s[j]}) = {}
  BY DEF Apart
<1>1. s[i] \in ToSet(s) /\ s[j] \in ToSet(s) /\ s[i] # s[j]
  BY DEF ToSet, IsInjective
<1>2. s[i] \in Reach /\ s[j] \in Reach /\ Parent[s[i]] = f /\ Parent[s[j]] = f
  BY <1>1 DEF Kids
<1> QED  BY <1>1, <1>2, SiblingsApart

\* A request names paths at the top of the tree.
LEMMA AskedType ==
  ASSUME TypeOK
  PROVE  /\ request \in Seq(Node) /\ ToSet(request) \subseteq Reach \cap Kids(Top)
         /\ Asked \subseteq Reach /\ Asked \subseteq Node /\ Reach \subseteq Node
         /\ \A n \in Asked : Below({n}) \subseteq Asked
<1>1. request \in Seq(Node) /\ ToSet(request) \subseteq Reach \cap Kids(Top)
  <2>1. CASE request \in Requests
    BY <2>1, RequestType
  <2>2. CASE request = <<>>
    BY <2>2 DEF ToSet
  <2> QED  BY <2>1, <2>2 DEF TypeOK
<1>2. Reach \subseteq Node /\ ToSet(request) \subseteq Node
  BY <1>1, BelowIsClosed DEF Reach
<1>3. Asked \subseteq Reach
  <2>1. {n \in Node : Parent[n] = Top} \in SUBSET Node
    OBVIOUS
  <2> QED  BY <1>1, <2>1, BelowGrows DEF Asked, Reach
<1>4. \A n \in Asked : Below({n}) \subseteq Asked
  BY <1>2, BelowGrows DEF Asked
<1> QED  BY <1>1, <1>2, <1>3, <1>4

\* An error stays on its way until it is sent.
LEMMA MissedStays ==
  ASSUME NEW n, Missed(n),
         \A i \in DOMAIN stream : i \in DOMAIN stream' /\ stream'[i] = stream[i],
         \A r \in InFlight : ~r.ok /\ r.node # Top =>
           \/ r \in InFlight'
           \/ r.node \in Node /\ \E i \in DOMAIN stream' : /\ stream'[i].node = r.node
                                                         /\ stream'[i].ok = FALSE
  PROVE  Missed(n)'
  BY DEF Missed, Failed, Reported

\* Results that move on, or that the handler drops as the client is gone.
LEMMA ResultsMove ==
  ASSUME OneResultInv, CoverInv, UNCHANGED <<request, stream, bucket>>, ctxDone => ctxDone',
         ToSet(producer'.left) \subseteq Asked, Apart(producer'.left), Todo' = Todo,
         producer.at = "none" => producer'.at = "none",
         InFlight' \subseteq InFlight \cup {NoResult},
         InFlight \subseteq InFlight' \cup {NoResult} \/ ctxDone',
         producer'.result.node = holding'.node => holding'.node = Top,
         producer'.result.node = notifier'.result.node => notifier'.result.node = Top,
         holding'.node = notifier'.result.node => notifier'.result.node = Top
  PROVE  OneResultInv' /\ CoverInv'
<1>1. Streamed' = Streamed /\ Asked' = Asked
  BY DEF Streamed, Asked
<1>2. NoResult.node = Top /\ NoResult.ok = FALSE
  BY FrameType
<1>3. Apart(producer.left)'
  BY DEF Apart
<1>4. (\A r \in InFlight :
         r.node # Top => r.node \in Asked /\ r.node \notin Todo \cup Streamed)'
  BY <1>1, <1>2 DEF OneResultInv
<1>5. OneResultInv'
  BY <1>1, <1>3, <1>4 DEF OneResultInv
<1>6. ASSUME ~ctxDone', producer'.at # "none", NEW n \in Asked \ bucket
      PROVE  n \in Todo \/ Missed(n)'
  <2>1. n \in Todo \/ Missed(n)
    BY <1>6 DEF CoverInv
  <2>2. ASSUME Missed(n)  PROVE Missed(n)'
    BY <1>2, <1>6, <2>2, MissedStays
  <2> QED  BY <2>1, <2>2
<1>7. CoverInv'
  BY <1>1, <1>6 DEF CoverInv
<1> QED  BY <1>5, <1>7

\* A result for the producer's path, which was still to do.
LEMMA OfferKeepsTodo ==
  ASSUME PlainInv, OneResultInv, CoverInv, producer.at = "next", producer.left # <<>>,
         NEW at \in {"send", "sendFolder"}, NEW ok \in BOOLEAN, Offer(at, ok),
         UNCHANGED <<request, ctxDone, holding, notifier, stream>>,
         bucket' \in {bucket, bucket \cup {Path}}, ok => Path \in bucket',
         at = "send" /\ ok => Path \notin Folder, at = "sendFolder" => ok
  PROVE  OneResultInv' /\ CoverInv'
<1> DEFINE left == producer.left
           R == Below(ToSet(Tail(left)))
           res == [node |-> Path, ok |-> ok]
<1>1. producer' = [at |-> at, left |-> left, result |-> res]
  BY DEF Offer, PlainInv, TypeOK
<1>2. /\ left \in Seq(Node) /\ ToSet(left) \subseteq Asked /\ Apart(left)
      /\ producer.result = NoResult
  BY DEF PlainInv, TypeOK, SlotInv, OneResultInv
<1>3. /\ Path \in Node /\ Path \in ToSet(left) /\ Path \in Asked
      /\ Below(ToSet(left)) = Below({Path}) \cup R /\ Below({Path}) \cap R = {}
      /\ Path \in Below({Path}) /\ Path # Top
  <2>1. /\ Path \in Node /\ ToSet(left) = {Path} \cup ToSet(Tail(left))
        /\ Below(ToSet(left)) = Below({Path}) \cup R /\ Below({Path}) \cap R = {}
    BY <1>2, ApartTail DEF Path
  <2>2. Path \in Below({Path})
    BY <2>1, BelowIsClosed
  <2> QED  BY <1>2, <2>1, <2>2, FrameType
<1>4. /\ Todo = Below(ToSet(left))
      /\ Todo' = IF at = "send" THEN R ELSE Below(ToSet(left)) \ {Path}
  BY <1>1 DEF Todo, Path
<1>5. Todo' \subseteq Todo /\ Path \in Todo /\ Path \notin Todo'
  BY <1>3, <1>4
<1>6. Streamed' = Streamed /\ Asked' = Asked /\ Apart(producer.left)'
  BY <1>1, <1>2 DEF Streamed, Asked, Apart
<1>7. /\ InFlight = {NoResult, holding, notifier.result}
      /\ InFlight' = {res, holding, notifier.result}
  BY <1>1, <1>2 DEF InFlight
<1>8. NoResult.node = Top /\ NoResult.ok = FALSE
  BY FrameType
<1>9. Path # holding.node /\ Path # notifier.result.node
  BY <1>3, <1>5, <1>7 DEF OneResultInv
<1>10. (\A r \in InFlight :
         r.node # Top => r.node \in Asked /\ r.node \notin Todo \cup Streamed)'
  <2>1. Path \notin Streamed
    BY <1>5 DEF OneResultInv
  <2> QED  BY <1>3, <1>5, <1>6, <1>7, <2>1 DEF OneResultInv
<1>11. OneResultInv'
  <2> HIDE DEF res
  <2>1. producer'.result.node = Path /\ producer'.left = left
    BY <1>1 DEF res
  <2>2. holding.node = notifier.result.node => notifier.result.node = Top
    BY DEF OneResultInv
  <2>3. Todo' \cap Streamed = {} /\ Streamed \subseteq Asked
    BY <1>5 DEF OneResultInv
  <2> QED  BY <1>2, <1>6, <1>9, <1>10, <2>1, <2>2, <2>3 DEF OneResultInv
<1>12. ASSUME ~ctxDone', NEW n \in Asked \ bucket'
       PROVE  n \in Todo' \/ Missed(n)'
  <2>1. n \in Todo \/ Missed(n)
    BY <1>12 DEF CoverInv
  <2>2. ASSUME Missed(n)  PROVE Missed(n)'
    BY <1>7, <1>8, <2>2, MissedStays
  <2>3. ASSUME n \in Todo, n \notin Todo'  PROVE Missed(n)'
    <3>1. CASE at = "sendFolder"
      BY <1>4, <1>12, <2>3, <3>1
    <3>2. CASE at = "send"
      <4>1. n \in Below({Path})
        BY <1>3, <1>4, <2>3, <3>2
      <4>2. ~ok
        <5>1. Path \notin Folder => Below({Path}) = {Path}
          BY <1>3, BelowFile
        <5> QED  BY <1>12, <3>2, <4>1, <5>1
      <4>3. res \in InFlight' /\ ~res.ok /\ res.node # Top /\ n \in Below({res.node})
        BY <1>3, <1>7, <4>1, <4>2
      <4> QED  BY <4>3 DEF Missed
    <3> QED  BY <3>1, <3>2
  <2> QED  BY <2>1, <2>2, <2>3
<1>13. CoverInv'
  BY <1>6, <1>12 DEF CoverInv
<1> QED  BY <1>11, <1>13

\* What addFolderRec finds in a folder takes the folder's place.
LEMMA FolderKeepsTodo ==
  ASSUME PlainInv, OneResultInv, CoverInv, addFolderRec, Untouched
  PROVE  OneResultInv' /\ CoverInv'
<1> DEFINE left == producer.left
           R == Below(ToSet(Tail(left)))
           kids == SetToSeq(Children(Path))
<1>1. /\ producer.at = "readDir" /\ left \in Seq(Node) /\ left # <<>>
      /\ ToSet(left) \subseteq Asked /\ Apart(left)
  BY DEF addFolderRec, PlainInv, SlotInv, TypeOK, OneResultInv
<1>2. /\ Path \in Node /\ Path \in ToSet(left) /\ Tail(left) \in Seq(Node) /\ Apart(Tail(left))
      /\ ToSet(Tail(left)) \subseteq ToSet(left) /\ ToSet(Tail(left)) \subseteq Node
      /\ Below(ToSet(left)) = Below({Path}) \cup R /\ Below({Path}) \cap R = {}
  <2>1. /\ Path \in Node /\ Tail(left) \in Seq(Node) /\ Apart(Tail(left))
        /\ ToSet(left) = {Path} \cup ToSet(Tail(left)) /\ ToSet(Tail(left)) \subseteq Node
        /\ Below(ToSet(left)) = Below({Path}) \cup R /\ Below({Path}) \cap R = {}
    BY <1>1, ApartTail DEF Path
  <2> QED  BY <2>1
<1>3. Children(Path) = Kids(Path) /\ Path \in disk
  BY <1>2 DEF Children, Kids, Untouched
<1>4. /\ kids \in Seq(Node) /\ IsInjective(kids)
      /\ ToSet(kids) = Kids(Path) /\ Kids(Path) \subseteq Node
  BY <1>3, KidsOnDisk DEF PlainInv
<1>5. producer' = [at |-> "next", left |-> kids \o Tail(left), result |-> producer.result]
  BY <1>3 DEF addFolderRec, PlainInv, TypeOK
<1>6. /\ Below({Path}) = {Path} \cup Below(Kids(Path))
      /\ Path \notin Below(Kids(Path)) /\ Kids(Path) \subseteq Below(Kids(Path))
      /\ Below({Path}) \subseteq Asked /\ Asked \subseteq Reach
  <2>1. Path \in Asked /\ Asked \subseteq Reach /\ Below({Path}) \subseteq Asked
    BY <1>1, <1>2, AskedType DEF PlainInv
  <2>2. Below({Path}) = {Path} \cup Below(Kids(Path))
    BY <1>2, BelowKids
  <2>3. Path \notin Below(Kids(Path))
    BY <2>1, NoCycle
  <2>4. Kids(Path) \subseteq Below(Kids(Path))
    BY <1>4, BelowIsClosed
  <2> QED  BY <2>1, <2>2, <2>3, <2>4
<1> HIDE DEF kids
<1>7. Apart(kids)
  <2>1. ToSet(kids) \subseteq Reach \cap Kids(Path)
    BY <1>4, <1>6
  <2> QED  BY <1>4, <2>1, ApartSiblings
<1>8. /\ Apart(kids \o Tail(left))
      /\ ToSet(kids \o Tail(left)) = Kids(Path) \cup ToSet(Tail(left))
  <2>1. Below(ToSet(kids)) \cap Below(ToSet(Tail(left))) = {}
    BY <1>2, <1>4, <1>6
  <2>2. /\ Apart(kids \o Tail(left))
        /\ ToSet(kids \o Tail(left)) = ToSet(kids) \cup ToSet(Tail(left))
    BY <1>2, <1>4, <1>7, <2>1, ApartConcat
  <2> QED  BY <1>4, <2>2
<1>9. Todo' = Todo
  <2>1. Todo = Below(ToSet(left)) \ {Path} /\ Todo' = Below(Kids(Path) \cup ToSet(Tail(left)))
    BY <1>1, <1>5, <1>8 DEF Todo
  <2>2. Below(Kids(Path) \cup ToSet(Tail(left))) = Below(Kids(Path)) \cup R
    BY <1>2, <1>4, BelowUnion
  <2>3. Path \notin R
    BY <1>2, <1>6
  <2> QED  BY <1>2, <1>6, <2>1, <2>2, <2>3
<1>10. UNCHANGED <<ctxDone, request, bucket, holding, notifier, stream>>
  BY DEF addFolderRec, sending
<1>11. InFlight' = InFlight /\ producer'.result = producer.result
  BY <1>5, <1>10 DEF InFlight
<1>12. ToSet(producer'.left) \subseteq Asked /\ Apart(producer'.left)
  BY <1>1, <1>2, <1>4, <1>5, <1>6, <1>8
<1>13. /\ producer'.result.node = holding'.node => holding'.node = Top
       /\ producer'.result.node = notifier'.result.node => notifier'.result.node = Top
       /\ holding'.node = notifier'.result.node => notifier'.result.node = Top
  BY <1>10, <1>11 DEF OneResultInv
<1> QED  BY <1>1, <1>9, <1>10, <1>11, <1>12, <1>13, ResultsMove

LEMMA ProduceKeepsTodo ==
  ASSUME PlainInv, OneResultInv, CoverInv, Produce, Untouched
  PROVE  OneResultInv' /\ CoverInv'
<1>1. CASE UploadFails
  BY <1>1, OfferKeepsTodo DEF UploadFails, Uploading, sending
<1>2. CASE createFolder
  BY <1>2, OfferKeepsTodo DEF createFolder, Uploading, sending
<1>3. CASE addFile
  BY <1>3, OfferKeepsTodo DEF addFile, Uploading, sending
<1>4. CASE addFolderRec
  BY <1>4, FolderKeepsTodo
<1>5. CASE CloseResults
  <2>1. /\ UNCHANGED <<ctxDone, request, bucket, holding, notifier, stream>>
        /\ producer.at = "next" /\ producer.left = <<>>
        /\ producer' = [at |-> "closed", left |-> <<>>, result |-> producer.result]
    BY <1>5 DEF CloseResults, sending, PlainInv, TypeOK
  <2>2. ToSet(<<>>) = {}
    BY DEF ToSet
  <2>3. Todo = {} /\ Todo' = {}
    BY <2>1, <2>2, BelowNothing DEF Todo
  <2>4. InFlight' = InFlight
    BY <2>1 DEF InFlight
  <2>5. ToSet(producer'.left) \subseteq Asked /\ Apart(producer'.left)
    BY <2>1, <2>2 DEF Apart
  <2>6. /\ producer'.result.node = holding'.node => holding'.node = Top
        /\ producer'.result.node = notifier'.result.node => notifier'.result.node = Top
        /\ holding'.node = notifier'.result.node => notifier'.result.node = Top
    BY <2>1 DEF OneResultInv
  <2> QED  BY <2>1, <2>3, <2>4, <2>5, <2>6, ResultsMove
<1> QED  BY <1>1, <1>2, <1>3, <1>4, <1>5 DEF Produce

LEMMA HandleKeepsTodo ==
  ASSUME PlainInv, OneResultInv, CoverInv,
         ReceiveResult \/ Notify \/ Drop \/ CloseNotifications \/ Done
  PROVE  OneResultInv' /\ CoverInv'
<1> USE DEF PlainInv
<1>1. /\ UNCHANGED <<ctxDone, request, bucket, stream>>
      /\ ToSet(producer.left) \subseteq Asked /\ Apart(producer.left)
      /\ producer.result.node = holding.node => holding.node = Top
      /\ producer.result.node = notifier.result.node => notifier.result.node = Top
      /\ holding.node = notifier.result.node => notifier.result.node = Top
      /\ NoResult.node = Top
  BY FrameType DEF ReceiveResult, Notify, Drop, CloseNotifications, Done, sending, OneResultInv
<1>2. CASE ReceiveResult
  <2>1. /\ holding = NoResult /\ holding' = producer.result /\ notifier' = notifier
        /\ producer'.result = NoResult
    BY <1>2 DEF ReceiveResult, SlotInv, TypeOK
  <2>2. /\ producer.left \in Seq(Node) /\ producer.left # <<>>
    BY <1>2 DEF ReceiveResult, SlotInv, TypeOK
  <2>3. Apart(Tail(producer.left)) /\ ToSet(Tail(producer.left)) \subseteq ToSet(producer.left)
    <3>1. /\ Apart(Tail(producer.left))
          /\ ToSet(producer.left) = {Head(producer.left)} \cup ToSet(Tail(producer.left))
      BY <1>1, <2>2, ApartTail
    <3> QED  BY <3>1
  <2>4. /\ Todo' = Todo
        /\ producer'.left = producer.left \/ producer'.left = Tail(producer.left)
        /\ producer.at # "none"
    <3>1. CASE producer.at = "send"
      <4>1. producer'.at = "next" /\ producer'.left = Tail(producer.left)
        BY <1>2, <3>1 DEF ReceiveResult, TypeOK
      <4> QED  BY <3>1, <4>1 DEF Todo
    <3>2. CASE producer.at = "sendFolder"
      <4>1. producer'.at = "readDir" /\ producer'.left = producer.left
        BY <1>2, <3>2 DEF ReceiveResult, TypeOK
      <4> QED  BY <3>2, <4>1 DEF Todo, Path
    <3> QED  BY <1>2, <3>1, <3>2 DEF ReceiveResult
  <2>5. ToSet(producer'.left) \subseteq Asked /\ Apart(producer'.left)
    BY <1>1, <2>3, <2>4
  <2>6. /\ InFlight' \subseteq InFlight \cup {NoResult}
        /\ InFlight \subseteq InFlight' \cup {NoResult}
    BY <2>1 DEF InFlight
  <2>7. /\ producer'.result.node = holding'.node => holding'.node = Top
        /\ producer'.result.node = notifier'.result.node => notifier'.result.node = Top
        /\ holding'.node = notifier'.result.node => notifier'.result.node = Top
    BY <1>1, <2>1
  <2> QED  BY <1>1, <2>4, <2>5, <2>6, <2>7, ResultsMove
<1>3. ASSUME producer' = producer,
             notifier'.result = notifier.result \/ notifier'.result = holding,
             notifier'.result # notifier.result => holding' = NoResult,
             holding' = holding \/ holding' = NoResult,
             InFlight \subseteq InFlight' \cup {NoResult} \/ ctxDone
      PROVE  OneResultInv' /\ CoverInv'
  <2>1. Todo' = Todo
    BY <1>3 DEF Todo, Path
  <2>2. InFlight' \subseteq InFlight \cup {NoResult}
    BY <1>3 DEF InFlight
  <2>3. /\ producer'.result.node = holding'.node => holding'.node = Top
        /\ producer'.result.node = notifier'.result.node => notifier'.result.node = Top
        /\ holding'.node = notifier'.result.node => notifier'.result.node = Top
    BY <1>1, <1>3
  <2>4. ToSet(producer'.left) \subseteq Asked /\ Apart(producer'.left)
    BY <1>1, <1>3
  <2> QED  BY <1>1, <1>3, <2>1, <2>2, <2>3, <2>4, ResultsMove
<1>4. CASE Notify
  <2>1. /\ notifier.result = NoResult /\ notifier'.result = holding /\ holding' = NoResult
        /\ producer' = producer
    BY <1>4 DEF Notify, SlotInv
  <2> QED  BY <1>3, <2>1 DEF InFlight
<1>5. CASE Drop
  BY <1>3, <1>5 DEF Drop
<1>6. CASE CloseNotifications
  BY <1>3, <1>6 DEF CloseNotifications, sending, InFlight
<1>7. CASE Done
  <2>1. UNCHANGED <<producer, holding>> /\ notifier'.result = notifier.result
    BY <1>7 DEF Done, TypeOK
  <2> QED  BY <1>3, <2>1 DEF InFlight
<1> QED  BY <1>2, <1>4, <1>5, <1>6, <1>7

LEMMA SendKeepsTodo ==
  ASSUME PlainInv, OneResultInv, CoverInv, Send
  PROVE  OneResultInv' /\ CoverInv'
<1> DEFINE r == notifier.result
<1>1. /\ UNCHANGED <<ctxDone, request, producer, bucket, holding>>
      /\ notifier'.result = NoResult
  BY DEF Send
<1>2. r \in Result /\ r.node # Top
  <2>1. r \in Result
    BY DEF Send, PlainInv, SlotInv
  <2> QED  BY <2>1, FrameType DEF Result
<1>3. Streamed' = Streamed \cup {r.node} /\ Todo' = Todo /\ Asked' = Asked
  <2>1. Streamed' = Streamed \cup {r.node}
    BY SendAppends
  <2> QED  BY <1>1, <2>1 DEF Todo, Asked, Path
<1>4. /\ r.node \in Asked /\ r.node \notin Todo
      /\ r.node # producer.result.node /\ r.node # holding.node
  <2>1. r \in InFlight
    BY DEF InFlight
  <2> QED  BY <1>2, <2>1 DEF OneResultInv
<1>5. NoResult.node = Top
  BY FrameType
<1>6. /\ InFlight' = {producer.result, holding, NoResult}
      /\ InFlight = {producer.result, holding, r}
  BY <1>1 DEF InFlight
<1>7. (\A x \in InFlight :
         x.node # Top => x.node \in Asked /\ x.node \notin Todo \cup Streamed)'
  BY <1>3, <1>4, <1>5, <1>6 DEF OneResultInv
<1>8. OneResultInv'
  <2>1. (ToSet(producer.left) \subseteq Asked /\ Apart(producer.left))'
    BY <1>1, <1>3 DEF OneResultInv, Apart
  <2>2. (Todo \cap Streamed = {} /\ Streamed \subseteq Asked)'
    BY <1>3, <1>4 DEF OneResultInv
  <2>3. (/\ producer.result.node = holding.node => holding.node = Top
         /\ producer.result.node = notifier.result.node => notifier.result.node = Top
         /\ holding.node = notifier.result.node => notifier.result.node = Top)'
    BY <1>1, <1>5 DEF OneResultInv
  <2> QED  BY <1>7, <2>1, <2>2, <2>3 DEF OneResultInv
<1>9. ASSUME NEW n, Missed(n)  PROVE Missed(n)'
  <2>1. /\ DOMAIN stream' = DOMAIN stream \cup {Len(stream) + 1}
        /\ \A j \in DOMAIN stream : stream'[j] = stream[j]
        /\ stream'[Len(stream) + 1].node = r.node /\ stream'[Len(stream) + 1].ok = r.ok
    BY SendAppends
  <2>2. r.node \in Node /\ (~r.ok => r.ok = FALSE)
    BY <1>2 DEF Result
  <2>3. \A i \in DOMAIN stream : i \in DOMAIN stream' /\ stream'[i] = stream[i]
    BY <2>1
  <2>4. ASSUME NEW x \in InFlight, ~x.ok, x.node # Top
        PROVE  \/ x \in InFlight'
               \/ x.node \in Node /\ \E i \in DOMAIN stream' : /\ stream'[i].node = x.node
                                                             /\ stream'[i].ok = FALSE
    <3>1. CASE x = r
      <4>1. Len(stream) + 1 \in DOMAIN stream'
        BY <2>1
      <4> QED  BY <2>1, <2>2, <2>4, <3>1, <4>1
    <3>2. CASE x # r
      BY <1>6, <2>4, <3>2
    <3> QED  BY <3>1, <3>2
  <2> QED  BY <1>9, <2>3, <2>4, MissedStays
<1>10. CoverInv'
  BY <1>1, <1>3, <1>9 DEF CoverInv
<1> QED  BY <1>8, <1>10

\* Before anything was uploaded.
LEMMA NothingYet ==
  ASSUME PlainInv, stage \in {"idle", "totals", "refused"}
  PROVE  /\ producer = [at |-> "none", left |-> <<>>, result |-> NoResult]
         /\ holding = NoResult /\ notifier.result = NoResult /\ bucket = {} /\ stream = <<>>
         /\ InFlight = {NoResult} /\ NoResult.node = Top /\ NoResult.ok = FALSE
         /\ Streamed = {} /\ Todo = {} /\ ToSet(<<>>) = {}
<1>1. /\ producer.at = "none" /\ notifier.at = "none" /\ bucket = {} /\ stream = <<>>
  BY DEF PlainInv, StageInv
<1>2. /\ producer.left = <<>> /\ producer.result = NoResult /\ holding = NoResult
      /\ notifier.result = NoResult
  BY <1>1 DEF PlainInv, SlotInv
<1>3. producer = [at |-> "none", left |-> <<>>, result |-> NoResult]
  BY <1>1, <1>2 DEF PlainInv, TypeOK
<1>4. Streamed = {} /\ Todo = {} /\ InFlight = {NoResult} /\ ToSet(<<>>) = {}
  BY <1>1, <1>2 DEF Streamed, Todo, InFlight, ToSet
<1> QED  BY <1>1, <1>2, <1>3, <1>4, FrameType

LEMMA CallKeepsTodo ==
  ASSUME PlainInv, \E s \in Requests : CallAddItems(s)
  PROVE  OneResultInv' /\ CoverInv'
<1>1. stage = "idle" /\ UNCHANGED <<producer, bucket, holding, notifier, stream>>
  BY DEF CallAddItems, sending
<1>2. /\ producer' = [at |-> "none", left |-> <<>>, result |-> NoResult]
      /\ InFlight = {NoResult} /\ NoResult.node = Top /\ holding = NoResult
      /\ notifier.result = NoResult /\ Streamed = {} /\ Todo = {} /\ ToSet(<<>>) = {}
  BY <1>1, NothingYet
<1>3. Streamed' = {} /\ Todo' = {} /\ InFlight' = {NoResult}
  <2>1. Streamed' = Streamed
    BY <1>1 DEF Streamed
  <2>2. Todo' = {}
    BY <1>2 DEF Todo
  <2>3. InFlight' = InFlight
    BY <1>1 DEF InFlight
  <2> QED  BY <1>2, <2>1, <2>2, <2>3
<1>4. CoverInv'
  BY <1>2 DEF CoverInv
<1>5. (ToSet(producer.left) \subseteq Asked /\ Apart(producer.left))'
  BY <1>2 DEF Apart
<1> QED  BY <1>1, <1>2, <1>3, <1>4, <1>5 DEF OneResultInv

\* The producer starts with everything to do.
LEMMA StartKeepsTodo ==
  ASSUME PlainInv, OneResultInv, CoverInv, StartAdding
  PROVE  OneResultInv' /\ CoverInv'
<1>1. /\ stage = "totals" /\ notifier'.result = notifier.result
      /\ UNCHANGED <<ctxDone, request, bucket, holding, stream>>
  BY DEF StartAdding, PlainInv, TypeOK
<1>2. /\ producer = [at |-> "none", left |-> <<>>, result |-> NoResult]
      /\ holding = NoResult /\ notifier.result = NoResult /\ bucket = {}
      /\ InFlight = {NoResult} /\ NoResult.node = Top /\ Streamed = {} /\ Todo = {}
  BY <1>1, NothingYet
<1>3. Streamed' = {} /\ Asked' = Asked
  BY <1>1, <1>2 DEF Streamed, Asked
<1>4. CASE sum[Top].failed
  <2>1. producer' = producer
    BY <1>4 DEF StartAdding
  <2>2. Todo' = Todo /\ InFlight' = InFlight
    BY <1>1, <2>1 DEF Todo, InFlight, Path
  <2>3. ToSet(producer'.left) \subseteq Asked /\ Apart(producer'.left)
    BY <2>1 DEF OneResultInv
  <2> QED  BY <1>1, <1>2, <2>1, <2>2, <2>3, ResultsMove
<1>5. CASE ~sum[Top].failed
  <2> DEFINE left == RemoveDuplicates(request)
  <2>1. producer' = [at |-> "next", left |-> left, result |-> NoResult]
    BY <1>2, <1>5 DEF StartAdding
  <2>2. request \in Seq(Node) /\ ToSet(request) \subseteq Reach \cap Kids(Top)
    BY AskedType DEF PlainInv
  <2>3. left \in Seq(Node) /\ IsInjective(left) /\ ToSet(left) = ToSet(request)
    BY <2>2, RemoveDuplicatesIsASet
  <2> HIDE DEF left
  <2>4. Apart(left)
    <3>1. ToSet(left) \subseteq Reach \cap Kids(Top)
      BY <2>2, <2>3
    <3> QED  BY <2>3, <3>1, ApartSiblings
  <2>5. ToSet(left) \subseteq Asked
    <3>1. ToSet(request) \subseteq Node
      BY <2>2 DEF Kids
    <3> QED  BY <2>3, <3>1, BelowIsClosed DEF Asked
  <2>6. Todo' = Asked
    BY <2>1, <2>3 DEF Todo, Asked
  <2>7. InFlight' = {NoResult}
    BY <1>1, <1>2, <2>1 DEF InFlight
  <2>8. Apart(producer.left)' /\ ToSet(producer'.left) \subseteq Asked
    BY <2>1, <2>4, <2>5 DEF Apart
  <2>9. OneResultInv'
    BY <1>1, <1>2, <1>3, <2>1, <2>7, <2>8 DEF OneResultInv
  <2>10. CoverInv'
    BY <1>3, <2>6 DEF CoverInv
  <2> QED  BY <2>9, <2>10
<1> QED  BY <1>4, <1>5

LEMMA NextKeepsTodo == PlainInv /\ TodoInv /\ [Next]_vars => TodoInv'
<1> SUFFICES ASSUME PlainInv, TodoInv, [Next]_vars, Untouched'
             PROVE  OneResultInv' /\ CoverInv'
  BY DEF TodoInv
<1>1. Untouched /\ OneResultInv /\ CoverInv
  BY UntouchedWas DEF TodoInv, PlainInv
<1>2. ASSUME UNCHANGED <<request, producer, bucket, holding, notifier, stream>>,
             ctxDone => ctxDone'
      PROVE  OneResultInv' /\ CoverInv'
  <2>1. Todo' = Todo /\ InFlight' = InFlight
    BY <1>2 DEF Todo, InFlight, Path
  <2>2. /\ ToSet(producer'.left) \subseteq Asked /\ Apart(producer'.left)
        /\ producer'.result.node = holding'.node => holding'.node = Top
        /\ producer'.result.node = notifier'.result.node => notifier'.result.node = Top
        /\ holding'.node = notifier'.result.node => notifier'.result.node = Top
    BY <1>1, <1>2 DEF OneResultInv
  <2> QED  BY <1>1, <1>2, <2>1, <2>2, ResultsMove
<1>3. CASE Produce
  BY <1>1, <1>3, ProduceKeepsTodo
<1>4. CASE StartAdding
  BY <1>1, <1>4, StartKeepsTodo
<1>5. CASE ReceiveResult \/ Notify \/ Drop \/ CloseNotifications \/ Done
  BY <1>1, <1>5, HandleKeepsTodo
<1>6. CASE Send
  BY <1>1, <1>6, SendKeepsTodo
<1>7. CASE \E s \in Requests : CallAddItems(s)
  BY <1>7, CallKeepsTodo
<1>8. CASE GetTotals
  BY <1>2, <1>8 DEF GetTotals, Count, CountFolder, NotAFolder, CountFile, CannotRead,
     CallGetTotals, ReturnTotals, WgDone, Counter, GetTotalsReturns, sending
<1>9. CASE CancelCtx \/ UNCHANGED vars
  BY <1>2, <1>9 DEF CancelCtx, vars, sending
<1>10. CASE \E n \in Node : Delete(n)
  BY <1>2, <1>10 DEF Delete, sending
<1> QED  BY <1>3, <1>4, <1>5, <1>6, <1>7, <1>8, <1>9, <1>10 DEF Next, Handle

-------------------------------------------------------------------------------
(* The responses *)

\* Responses are about nodes.
LEMMA GoodType ==
  ASSUME TypeOK, NEW i \in 0 .. Len(stream)
  PROVE  Good(i) \subseteq Streamed /\ Streamed \subseteq Node
<1> DEFINE R == [node : Node, ok : BOOLEAN, files : Nat, bytes : Nat]
<1>1. stream \in Seq(R)
  BY DEF TypeOK
<1> HIDE DEF R
<1>2. /\ DOMAIN stream = 1 .. Len(stream) /\ Len(stream) \in Nat
      /\ \A j \in DOMAIN stream : stream[j] \in R
  BY <1>1
<1>3. 1 .. i \subseteq DOMAIN stream
  BY <1>2
<1>4. Good(i) \subseteq Streamed
  BY <1>3 DEF Good, Streamed
<1>5. Streamed \subseteq Node
  BY <1>2 DEF Streamed, R
<1> QED  BY <1>4, <1>5

\* A response counts one more, and the bytes of a node that was not counted yet.
LEMMA SendKeepsStream ==
  ASSUME PlainInv, TodoInv, StreamInv, Send
  PROVE  StreamInv'
<1>0. PICK n \in Nat : n = Len(stream)
  <2>1. Len(stream) \in Nat
    BY SendAppends
  <2> QED  BY <2>1
<1> DEFINE r == notifier.result
           i == n + 1
<1>1. /\ DOMAIN stream = 1 .. n /\ n \in Nat
      /\ DOMAIN stream' = DOMAIN stream \cup {i} /\ i \notin DOMAIN stream
      /\ DOMAIN stream' = 1 .. i
      /\ \A j \in DOMAIN stream : stream'[j] = stream[j]
      /\ stream'[i].node = r.node /\ stream'[i].ok = r.ok
      /\ stream'[i].files = Completed.files + 1
      /\ stream'[i].bytes = Completed.bytes + Bytes(r)
  BY <1>0, SendAppends
<1>2. r \in Result /\ r.node \in Node /\ r.ok \in BOOLEAN /\ disk' = disk
  <2>1. r \in Result /\ disk' = disk
    BY DEF Send, PlainInv, SlotInv
  <2> QED  BY <2>1 DEF Result
<1> HIDE DEF r
<1>3. Completed.files = n
  <2>1. CASE stream = <<>>
    <3>1. n = 0 /\ Completed = Zero
      BY <2>1, <1>0, CompletedType DEF PlainInv
    <3> QED  BY <3>1 DEF Zero
  <2>2. CASE stream # <<>>
    <3>1. Completed = stream[n] /\ n \in DOMAIN stream
      BY <2>2, <1>0, CompletedType DEF PlainInv
    <3> QED  BY <3>1 DEF StreamInv
  <2> QED  BY <2>1, <2>2
<1>4. (\A j \in DOMAIN stream : stream[j].files = j)'
  BY <1>1, <1>3 DEF StreamInv
<1>5. ASSUME Untouched'
      PROVE  (/\ \A j, k \in DOMAIN stream : stream[j].node = stream[k].node => j = k
              /\ \A j \in DOMAIN stream : stream[j].bytes = Weight(Good(j)))'
  <2>1. Untouched
    BY <1>2, <1>5 DEF Untouched
  <2>2. r.node \notin Streamed
    <3>1. r.node # Top /\ r \in InFlight
      BY <1>2, FrameType DEF InFlight, r
    <3> QED  BY <2>1, <3>1 DEF TodoInv, OneResultInv
  <2>3. (\A j, k \in DOMAIN stream : stream[j].node = stream[k].node => j = k)'
    BY <1>1, <2>1, <2>2 DEF StreamInv, Streamed
  <2>4. ASSUME NEW j \in 0 .. n  PROVE Good(j)' = Good(j)
    <3>1. 1 .. j \subseteq DOMAIN stream
      BY <1>1
    <3> QED  BY <1>1, <3>1 DEF Good
  <2>5. Good(i)' = Good(n) \cup IF r.ok THEN {r.node} ELSE {}
    <3> DEFINE ok == {k \in 1 .. n : stream[k].ok}
               okNow == {k \in 1 .. i : stream'[k].ok}
    <3>1. okNow = ok \cup IF r.ok THEN {i} ELSE {}
      BY <1>1
    <3>2. ok \subseteq DOMAIN stream
      BY <1>1
    <3>3. Good(n) = {stream[j].node : j \in ok} /\ Good(i)' = {stream'[j].node : j \in okNow}
      BY DEF Good
    <3> HIDE DEF ok, okNow
    <3>4. \A j \in ok : stream'[j].node = stream[j].node
      BY <1>1, <3>2
    <3> QED  BY <1>1, <3>1, <3>3, <3>4
  <2>6. Completed.bytes = Weight(Good(n))
    <3>1. CASE stream = <<>>
      <4>1. n = 0 /\ Completed = Zero
        BY <3>1, <1>0, CompletedType DEF PlainInv
      <4>2. Good(0) = {}
        BY DEF Good
      <4> QED  BY <4>1, <4>2, WeightOfNone DEF Zero
    <3>2. CASE stream # <<>>
      <4>1. Completed = stream[n] /\ n \in DOMAIN stream
        BY <3>2, <1>0, CompletedType DEF PlainInv
      <4> QED  BY <2>1, <4>1 DEF StreamInv
    <3> QED  BY <3>1, <3>2
  <2>7. Good(n) \subseteq Node /\ r.node \notin Good(n) /\ Weight(Good(n)) \in Nat
    <3>1. n \in 0 .. Len(stream)
      BY <1>0, <1>1
    <3>2. Good(n) \subseteq Streamed /\ Streamed \subseteq Node
      BY <3>1, GoodType DEF PlainInv
    <3> QED  BY <2>2, <3>2, BytesOf
  <2>8. Weight(Good(i)') = Weight(Good(n)) + Bytes(r)
    <3>1. CASE r.ok
      <4>1. Good(n) \cap {r.node} = {} /\ {r.node} \in SUBSET Node /\ Good(n) \in SUBSET Node
        BY <1>2, <2>7
      <4>2. Weight(Good(n) \cup {r.node}) = Weight(Good(n)) + Weight({r.node})
        BY <4>1, WeightAddsUp
      <4>3. Weight({r.node}) = Bytes(r)
        BY <1>2, <3>1, WeightOfOne DEF Bytes
      <4> QED  BY <2>5, <3>1, <4>2, <4>3
    <3>2. CASE ~r.ok
      <4>1. Good(i)' = Good(n) /\ Bytes(r) = 0
        BY <2>5, <3>2 DEF Bytes
      <4> QED  BY <2>7, <4>1
    <3> QED  BY <3>1, <3>2
  <2>9. ASSUME NEW j \in DOMAIN stream'  PROVE stream'[j].bytes = Weight(Good(j)')
    <3>1. CASE j = i
      BY <1>1, <2>6, <2>8, <3>1
    <3>2. CASE j # i
      <4>1. j \in DOMAIN stream /\ j \in 0 .. n
        BY <1>1, <2>9, <3>2
      <4> QED  BY <1>1, <2>1, <2>4, <4>1 DEF StreamInv
    <3> QED  BY <3>1, <3>2
  <2> QED  BY <2>3, <2>9 DEF Weight
<1> QED  BY <1>4, <1>5 DEF StreamInv

LEMMA NextKeepsStream == PlainInv /\ TodoInv /\ StreamInv /\ [Next]_vars => StreamInv'
<1> SUFFICES ASSUME PlainInv, TodoInv, StreamInv, [Next]_vars  PROVE StreamInv'
  OBVIOUS
<1>1. Untouched' => Untouched
  BY UntouchedWas DEF PlainInv
<1>2. ASSUME stream' = stream  PROVE StreamInv'
  <2>1. \A i : Good(i)' = Good(i)
    BY <1>2 DEF Good
  <2> QED  BY <1>1, <1>2, <2>1 DEF StreamInv, Weight
<1>3. CASE Send
  BY <1>3, SendKeepsStream
<1>4. CASE GetTotals
  BY <1>2, <1>4 DEF GetTotals, Count, CountFolder, NotAFolder, CountFile, CannotRead,
     CallGetTotals, ReturnTotals, WgDone, Counter, GetTotalsReturns, sending
<1>5. CASE Produce
  BY <1>2, <1>5 DEF Produce, UploadFails, createFolder, addFile, addFolderRec,
     CloseResults, Uploading, sending
<1>6. CASE Handle
  BY <1>2, <1>6 DEF Handle, StartAdding, ReceiveResult, Notify, Drop, CloseNotifications,
     sending
<1>7. CASE Done \/ CancelCtx \/ (\E s \in Requests : CallAddItems(s)) \/ UNCHANGED vars
  BY <1>2, <1>7 DEF Done, CancelCtx, CallAddItems, vars, sending
<1>8. CASE \E n \in Node : Delete(n)
  BY <1>2, <1>8 DEF Delete, sending
<1> QED  BY <1>3, <1>4, <1>5, <1>6, <1>7, <1>8 DEF Next

-------------------------------------------------------------------------------
(* The theorem *)

Inv == PlainInv /\ AnswerInv /\ TotalsInv /\ TodoInv /\ StreamInv

LEMMA InitInv == Init => Inv
<1> SUFFICES ASSUME Init  PROVE Inv
  OBVIOUS
<1>1. PlainInv /\ stage = "idle"
  BY InitPlain DEF Init
<1>2. /\ producer = [at |-> "none", left |-> <<>>, result |-> NoResult]
      /\ holding = NoResult /\ notifier.result = NoResult /\ bucket = {} /\ stream = <<>>
      /\ InFlight = {NoResult} /\ NoResult.node = Top /\ NoResult.ok = FALSE
      /\ Streamed = {} /\ Todo = {} /\ ToSet(<<>>) = {}
  BY <1>1, NothingYet
<1>3. AnswerInv
  BY <1>2 DEF AnswerInv
<1>4. OneResultInv
  <2>1. ToSet(producer.left) \subseteq Asked /\ Apart(producer.left)
    BY <1>2 DEF Apart
  <2> QED  BY <1>2, <2>1 DEF OneResultInv
<1>5. CoverInv
  BY <1>2 DEF CoverInv
<1>6. StreamInv
  BY <1>2 DEF StreamInv
<1>7. TotalsInv
  <2>1. \A n \in Node : counter[n] = "none"
    BY DEF Init
  <2>2. ASSUME NEW f \in Frame  PROVE Gathered(f) = {} /\ sum[f] = TotalsOf({})
    <3>1. listing[f] = {} /\ sum[f] = Zero
      BY <2>2 DEF Init
    <3> QED  BY <3>1, WeightOfNone DEF Gathered, TotalsOf, Zero
  <2> QED  BY <2>1, <2>2 DEF TotalsInv
<1> QED  BY <1>1, <1>3, <1>4, <1>5, <1>6, <1>7 DEF Inv, TodoInv

LEMMA NextKeepsInv == Inv /\ [Next]_vars => Inv'
  BY NextKeepsPlain, NextKeepsAnswers, NextKeepsTotals, NextKeepsTodo, NextKeepsStream DEF Inv

\* All parts together.
LEMMA Invariant == Spec => []Inv
<1> QED  BY InitInv, NextKeepsInv, PTL DEF Spec

\* When the handler has returned nothing is on its way and nothing to be done.
LEMMA AllIsSaid ==
  ASSUME PlainInv, stage = "returned"
  PROVE  InFlight = {NoResult} /\ Todo = {} /\ NoResult.node = Top
<1>1. producer.at = "closed" /\ notifier.at = "done"
  BY DEF PlainInv, StageInv
<1>2. producer.result = NoResult /\ holding = NoResult /\ notifier.result = NoResult
  BY <1>1 DEF PlainInv, SlotInv
<1> QED  BY <1>1, <1>2, FrameType DEF InFlight, Todo

\* What was uploaded or missed is in the stream once nothing is on its way.
LEMMA Accounted == Inv => EveryItemIsAccountedFor
<1> SUFFICES ASSUME Inv, stage = "returned", ~ctxDone
             PROVE  /\ \A n \in Node : Reported(n, TRUE) => n \in bucket
                    /\ \A n \in bucket : Reported(n, TRUE) \/ Reported(n, FALSE)
                    /\ Untouched => \A n \in Asked \ bucket : Failed(n)
  BY DEF EveryItemIsAccountedFor
<1> DEFINE R == [node : Node, ok : BOOLEAN, files : Nat, bytes : Nat]
<1>1. InFlight = {NoResult} /\ Todo = {} /\ NoResult.node = Top /\ Top \notin Node
  BY AllIsSaid, FrameType DEF Inv
<1>2. stream \in Seq(R) /\ bucket \subseteq Node
  BY DEF Inv, PlainInv, TypeOK
<1>3. \A i \in DOMAIN stream : stream[i].ok \in BOOLEAN
  <2> HIDE DEF R
  <2>1. \A i \in DOMAIN stream : stream[i] \in R
    BY <1>2
  <2> QED  BY <2>1 DEF R
<1>4. \A n \in Node : Reported(n, TRUE) => n \in bucket
  BY DEF Inv, AnswerInv, Reported
<1>5. ASSUME NEW n \in bucket  PROVE Reported(n, TRUE) \/ Reported(n, FALSE)
  <2>1. n \in Streamed
    BY <1>1, <1>2 DEF Inv, AnswerInv
  <2>2. PICK i \in DOMAIN stream : stream[i].node = n
    BY <2>1 DEF Streamed
  <2> QED  BY <1>3, <2>2 DEF Reported
<1>6. ASSUME Untouched, NEW n \in Asked \ bucket  PROVE Failed(n)
  <2>1. producer.at # "none"
    BY DEF Inv, PlainInv, StageInv
  <2>2. Missed(n)
    BY <1>1, <1>6, <2>1 DEF Inv, TodoInv, CoverInv
  <2> QED  BY <1>1, <2>2 DEF Missed
<1> QED  BY <1>4, <1>5, <1>6

\* What getTotals has found when the uploads begin.
LEMMA TotalsOfAsked ==
  ASSUME Inv, Untouched, stage \in {"receive", "select", "wait", "returned"}
  PROVE  sum[Top] = TotalsOf(Asked)
<1>1. Top \in summed /\ listing[Top] = ToSet(request) /\ Top \in Frame
  BY FrameType DEF Inv, PlainInv, StageInv, CountInv
<1>2. \A n \in ToSet(request) : counter[n] = "done"
  BY <1>1 DEF Inv, PlainInv, CountInv
<1>3. Gathered(Top) = {m \in Node : \E n \in ToSet(request) : m \in Below({n})}
  BY <1>1, <1>2 DEF Gathered, Got
<1>4. ToSet(request) \subseteq Node
  BY AskedType DEF Inv, PlainInv, Kids
<1>5. Gathered(Top) = Asked
  BY <1>3, <1>4, BelowOneOf DEF Asked
<1> QED  BY <1>1, <1>5 DEF Inv, TotalsInv

\* The responses are about as many nodes.
LEMMA StreamedOnce ==
  ASSUME Inv, Untouched
  PROVE  /\ DOMAIN stream = 1 .. Len(stream) /\ Len(stream) \in Nat
         /\ Cardinality(Streamed) = Len(stream) /\ Streamed \subseteq Asked /\ Asked \subseteq Node
<1> DEFINE f == [i \in DOMAIN stream |-> stream[i].node]
<1>1. DOMAIN stream = 1 .. Len(stream) /\ Len(stream) \in Nat
  BY DEF Inv, PlainInv, TypeOK
<1>2. f \in Bijection(1 .. Len(stream), Streamed)
  <2>1. \A i, j \in DOMAIN stream : f[i] = f[j] => i = j
    BY DEF Inv, StreamInv
  <2>2. f \in [1 .. Len(stream) -> Streamed]
    BY <1>1 DEF Streamed
  <2>3. \A n \in Streamed : \E i \in 1 .. Len(stream) : f[i] = n
    BY <1>1 DEF Streamed
  <2> HIDE DEF f
  <2>4. IsInjective(f)
    BY <1>1, <2>1, <2>2 DEF IsInjective
  <2> QED  BY <2>2, <2>3, <2>4 DEF Bijection, Injection, Surjection
<1>3. IsFiniteSet(1 .. Len(stream)) /\ Cardinality(1 .. Len(stream)) = Len(stream)
  <2>1. /\ IsFiniteSet(1 .. Len(stream))
        /\ Cardinality(1 .. Len(stream)) = IF 1 > Len(stream) THEN 0 ELSE Len(stream) - 1 + 1
    <3>1. 1 \in Int /\ Len(stream) \in Int
      BY <1>1
    <3> QED  BY <3>1, FS_Interval
  <2> QED  BY <1>1, <2>1
<1>4. Cardinality(Streamed) = Len(stream)
  <2>1. ExistsBijection(1 .. Len(stream), Streamed)
    BY <1>2 DEF ExistsBijection
  <2> QED  BY <1>3, <2>1, FS_Bijection
<1>5. Streamed \subseteq Asked /\ Asked \subseteq Node
  BY AskedType DEF Inv, TodoInv, OneResultInv, PlainInv
<1> QED  BY <1>1, <1>4, <1>5

\* Different nodes of the request are at most all of them, and with no error all.
LEMMA Progress == Inv => ProgressAddsUp
<1> SUFFICES ASSUME Inv, Untouched
             PROVE  /\ ~sum[Top].failed
                    /\ \A i \in DOMAIN stream : /\ stream[i].files <= sum[Top].files
                                                /\ stream[i].bytes <= sum[Top].bytes
                    /\ stage = "returned" /\ ~ctxDone /\ (\A n \in Node : ~Reported(n, FALSE)) =>
                         Completed.files = sum[Top].files /\ Completed.bytes = sum[Top].bytes
  BY DEF ProgressAddsUp
<1>1. ~sum[Top].failed
  <2>1. sum[Top] = TotalsOf(Gathered(Top))
    BY FrameType DEF Inv, TotalsInv
  <2> QED  BY <2>1 DEF TotalsOf
<1>2. /\ DOMAIN stream = 1 .. Len(stream) /\ Len(stream) \in Nat
      /\ Cardinality(Streamed) = Len(stream) /\ Streamed \subseteq Asked /\ Asked \subseteq Node
  BY StreamedOnce
<1>3. ASSUME NEW i \in DOMAIN stream
      PROVE  stream[i].files <= sum[Top].files /\ stream[i].bytes <= sum[Top].bytes
  <2>1. stage \in {"receive", "select", "wait", "returned"}
    BY <1>3 DEF Inv, PlainInv, StageInv, TypeOK
  <2>2. sum[Top].files = Cardinality(Asked) /\ sum[Top].bytes = Weight(Asked)
    BY <2>1, TotalsOfAsked DEF TotalsOf
  <2>3. i \in 0 .. Len(stream) /\ i <= Len(stream)
    BY <1>2, <1>3
  <2>4. Good(i) \subseteq Asked
    BY <1>2, <2>3, GoodType DEF Inv, PlainInv
  <2>5. Weight(Good(i)) <= Weight(Asked) /\ Cardinality(Streamed) <= Cardinality(Asked)
    BY <1>2, <2>4, WeightGrows
  <2>6. Cardinality(Asked) \in Nat
    BY <1>2, NodesAreFinite
  <2>7. stream[i].files = i /\ stream[i].bytes = Weight(Good(i))
    BY <1>3 DEF Inv, StreamInv
  <2>8. i <= Cardinality(Asked)
    BY <1>2, <2>3, <2>5, <2>6
  <2> QED  BY <2>2, <2>5, <2>7, <2>8
<1>4. ASSUME stage = "returned", ~ctxDone, \A n \in Node : ~Reported(n, FALSE)
      PROVE  Completed.files = sum[Top].files /\ Completed.bytes = sum[Top].bytes
  <2>1. sum[Top].files = Cardinality(Asked) /\ sum[Top].bytes = Weight(Asked)
    BY <1>4, TotalsOfAsked DEF TotalsOf
  <2>2. /\ \A n \in bucket : n \in Node /\ Reported(n, TRUE)
        /\ \A n \in Asked \ bucket : Failed(n)
    BY <1>4, Accounted DEF EveryItemIsAccountedFor, Inv, PlainInv, TypeOK
  <2>3. Asked \subseteq bucket
    BY <1>4, <2>2 DEF Failed
  <2>4. Streamed = Asked
    BY <1>2, <2>2, <2>3 DEF Reported, Streamed
  <2>5. Good(Len(stream)) = Asked
    <3>1. ASSUME NEW n \in Asked  PROVE n \in Good(Len(stream))
      <4>1. PICK i \in DOMAIN stream : stream[i].node = n /\ stream[i].ok = TRUE
        BY <2>2, <2>3 DEF Reported
      <4> QED  BY <1>2, <4>1 DEF Good
    <3>2. Len(stream) \in 0 .. Len(stream)
      BY <1>2
    <3>3. Good(Len(stream)) \subseteq Streamed
      BY <3>2, GoodType DEF Inv, PlainInv
    <3> QED  BY <2>4, <3>1, <3>3
  <2>6. CASE stream = <<>>
    <3>1. Asked = {}
      BY <2>4, <2>6 DEF Streamed
    <3> QED  BY <2>1, <2>6, <3>1, CompletedType, WeightOfNone DEF Inv, PlainInv, Zero
  <2>7. CASE stream # <<>>
    <3>1. Completed = stream[Len(stream)] /\ Len(stream) \in DOMAIN stream
      BY <2>7, CompletedType DEF Inv, PlainInv
    <3>2. Completed.files = Len(stream) /\ Completed.bytes = Weight(Good(Len(stream)))
      BY <3>1 DEF Inv, StreamInv
    <3> QED  BY <1>2, <2>1, <2>4, <2>5, <3>2
  <2> QED  BY <2>6, <2>7
<1> QED  BY <1>1, <1>3, <1>4

\* Of one call to AddItems nothing is lost and nothing is counted twice, for every
\* tree and every request: every upload is answered for, what is missing of a tree
\* nobody touched is covered by an error, and the progress, which the producer and
\* the notifier make node by node, ends with the totals that the goroutines of
\* getTotals have added up (services_fs.go:496-600, handlers.go:201-263).
THEOREM NothingLostOrCountedTwice == Spec => []StreamIsTruthful
<1>1. Inv => StreamIsTruthful
  BY Accounted, Progress DEF StreamIsTruthful
<1> QED  BY <1>1, Invariant, PTL

===============================================================================
