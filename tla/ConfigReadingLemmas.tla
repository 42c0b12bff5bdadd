------------------------ MODULE ConfigReadingLemmas ------------------------
(***************************************************************************)
(* What the reference reading of a file makes of one statement more: which *)
(* statements there are, how deep they stand, in which block, and what     *)
(* each changes of the servers that are read.  The parser takes one        *)
(* statement after the other, so these lemmas take the place of an         *)
(* induction over the file.                                                *)
(***************************************************************************)
EXTENDS ConfigReading, FiniteSetTheorems, SequenceTheorems, WellFoundedInduction, TLAPS

-----------------------------------------------------------------------------
(* Numbers.                                                                *)

\* Among any numbers there is a least one.
LEMMA LeastNumber ==
    ASSUME NEW T, T \subseteq Nat, T # {}
    PROVE  \E i \in T : \A j \in T : i <= j
<1>. DEFINE Less == OpToRel(<, Nat)
<1>1. \A a, b \in Nat : <<a, b>> \in Less <=> a < b
  BY DEF OpToRel
<1>2. IsWellFoundedOn(Less, Nat)
  BY NatLessThanWellFounded
<1>. HIDE DEF Less
<1>3. PICK i \in T : \A j \in T : ~ (<<j, i>> \in Less)
  BY <1>2, WFMin
<1>4. ASSUME NEW j \in T PROVE i <= j
  <2>1. i \in Nat /\ j \in Nat /\ ~ (j < i)
    BY <1>1, <1>3
  <2>. QED  BY <2>1
<1>. QED  BY <1>4

\* Min(T) is the least of T.
LEMMA MinIsLeast ==
    ASSUME NEW T, T \subseteq Nat, T # {}
    PROVE  Min(T) \in T /\ \A j \in T : Min(T) <= j
<1>1. \E i \in T : \A j \in T : i <= j
  BY LeastNumber
<1>. QED  BY <1>1 DEF Min

\* Max(T) is the greatest of T, when T is bounded.
LEMMA MaxIsGreatest ==
    ASSUME NEW n \in Nat, NEW T, T \subseteq 0 .. n, T # {}
    PROVE  Max(T) \in T /\ \A j \in T : j <= Max(T)
<1>. DEFINE below == {n - j : j \in T}
<1>0. \A j \in T : j \in Nat /\ n - j \in Nat
  OBVIOUS
<1>1. below \subseteq Nat /\ below # {}
  BY <1>0
<1>2. PICK i \in below : \A j \in below : i <= j
  <2>. HIDE DEF below
  <2>. QED  BY <1>1, LeastNumber
<1>3. PICK x \in T : i = n - x
  OBVIOUS
<1>4. \A j \in T : n - x <= n - j
  BY <1>2, <1>3
<1>5. \A j \in T : x >= j
  BY <1>0, <1>4
<1>6. \E y \in T : \A j \in T : y >= j
  BY <1>5
<1>7. Max(T) \in T /\ \A j \in T : Max(T) >= j
  BY <1>6 DEF Max
<1>. QED  BY <1>7

\* A greater number is the greatest from then on.
LEMMA MaxOfMore ==
    ASSUME NEW T, NEW p \in Nat, T \subseteq 0 .. p
    PROVE  Max(T \cup {p}) = p
<1>1. T \cup {p} \subseteq 0 .. p /\ T \cup {p} # {}
  OBVIOUS
<1>2. Max(T \cup {p}) \in 0 .. p /\ p <= Max(T \cup {p})
  BY <1>1, MaxIsGreatest
<1>. QED  BY <1>2

-----------------------------------------------------------------------------
(* Numbers in their order.                                                 *)

\* A greater number comes behind all others, which keep their places.
LEMMA OneInFront ==
    ASSUME NEW S, NEW p \in Nat, S \subseteq 0 .. p - 1
    PROVE  /\ IsFiniteSet(S) /\ Cardinality(S) \in Nat
           /\ Cardinality(S \cup {p}) = Cardinality(S) + 1
           /\ \A k \in 1 .. Cardinality(S) : InOrder(S \cup {p})[k] = InOrder(S)[k]
           /\ InOrder(S \cup {p})[Cardinality(S) + 1] = p
<1>. DEFINE m == Cardinality(S)
            Behind(T, i) == {j \in T : j < i}
            Kth(T, k) == CHOOSE i \in T : Cardinality(Behind(T, i)) = k - 1
<1>0. \A i \in S : i \in Nat /\ i < p
  OBVIOUS
<1>1. IsFiniteSet(0 .. p - 1)
  BY FS_Interval
<1>2. IsFiniteSet(S) /\ m \in Nat
  BY <1>1, FS_Subset, FS_CardinalityType
<1>3. p \notin S
  OBVIOUS
<1>4. Cardinality(S \cup {p}) = m + 1
  BY <1>2, <1>3, FS_AddElement
<1>5. \A i \in S : Behind(S \cup {p}, i) = Behind(S, i)
  BY <1>0
<1>6. Behind(S \cup {p}, p) = S
  <2>1. S \subseteq Nat /\ Behind(S \cup {p}, p) \subseteq Nat
    BY <1>0
  <2>2. \A j \in Nat : j \in Behind(S \cup {p}, p) <=> j \in S
    BY <1>0
  <2>. QED  BY <2>1, <2>2
<1>7. ASSUME NEW i \in S PROVE Cardinality(Behind(S, i)) # m
  <2>1. Behind(S, i) \in SUBSET S /\ Behind(S, i) # S
    OBVIOUS
  <2>. QED  BY <1>2, <2>1, FS_Subset
<1>8. ASSUME NEW k \in 1 .. m PROVE InOrder(S \cup {p})[k] = InOrder(S)[k]
  <2>1. k \in 1 .. m + 1 /\ m # k - 1
    BY <1>2
  <2>2. \A i : /\ i \in S \cup {p}
               /\ Cardinality(Behind(S \cup {p}, i)) = k - 1
               <=> i \in S /\ Cardinality(Behind(S, i)) = k - 1
    <3>. TAKE i
    <3>1. CASE i \in S
      BY <1>5, <3>1
    <3>2. CASE i = p
      BY <1>3, <1>6, <2>1, <3>2
    <3>. QED  BY <3>1, <3>2
  <2>3. Kth(S \cup {p}, k) = Kth(S, k)
    BY <2>2
  <2>4. InOrder(S \cup {p})[k] = Kth(S \cup {p}, k) /\ InOrder(S)[k] = Kth(S, k)
    BY <1>4, <2>1 DEF InOrder
  <2>. QED  BY <2>3, <2>4
<1>9. InOrder(S \cup {p})[m + 1] = p
  <2>1. \A i : i \in S \cup {p} /\ Cardinality(Behind(S \cup {p}, i)) = m <=> i = p
    BY <1>3, <1>5, <1>6, <1>7
  <2>2. (m + 1) - 1 = m /\ m + 1 \in 1 .. m + 1
    BY <1>2
  <2>3. Kth(S \cup {p}, m + 1) = p
    BY <2>1, <2>2
  <2>4. InOrder(S \cup {p})[m + 1] = Kth(S \cup {p}, m + 1)
    BY <1>4, <2>2 DEF InOrder
  <2>. QED  BY <2>3, <2>4
<1>. QED  BY <1>2, <1>4, <1>8, <1>9

\* The numbers in their order are the numbers of the set.
LEMMA InOrderAreOf ==
    ASSUME NEW n \in Nat, NEW S, S \subseteq 0 .. n
    PROVE  \A k \in 1 .. Cardinality(S) : InOrder(S)[k] \in S
<1>. DEFINE Of(T) == \A k \in 1 .. Cardinality(T) : InOrder(T)[k] \in T
            Upto(b) == {i \in S : i < b}
            bad == {b \in Nat : ~ Of(Upto(b))}
<1>0. \A i \in S : i \in Nat /\ i < n + 1
  OBVIOUS
<1>. HIDE DEF Upto
<1>u. \A b \in Nat : Upto(b) \subseteq Nat /\ \A i \in Nat : i \in Upto(b) <=> i \in S /\ i < b
  BY <1>0 DEF Upto
<1>1. ASSUME bad # {} PROVE FALSE
  <2>1. PICK b \in bad : \A c \in bad : b <= c
    BY <1>1, LeastNumber
  <2>2. b # 0
    <3>1. Upto(0) = {}
      BY <1>0, <1>u
    <3>2. Of({})
      BY FS_EmptySet
    <3>. QED  BY <2>1, <3>1, <3>2
  <2>3. b - 1 \in Nat /\ Of(Upto(b - 1))
    BY <2>1, <2>2
  <2>4. CASE b - 1 \notin S
    <3>1. Upto(b) = Upto(b - 1)
      <4>1. \A i \in Nat : i \in Upto(b) <=> i \in Upto(b - 1)
        BY <1>u, <2>1, <2>3, <2>4
      <4>. QED  BY <1>u, <2>1, <2>3, <4>1
    <3>. QED  BY <2>1, <2>3, <3>1
  <2>5. CASE b - 1 \in S
    <3>. DEFINE T == Upto(b - 1)
    <3>1. Upto(b) = T \cup {b - 1} /\ T \subseteq 0 .. (b - 1) - 1
      <4>1. \A i \in Nat : i \in Upto(b) <=> i \in T \cup {b - 1}
        BY <1>u, <2>1, <2>3, <2>5
      <4>2. T \subseteq Nat /\ Upto(b) \subseteq Nat
        BY <1>u, <2>1, <2>3
      <4>3. \A i \in Nat : i \in T => i \in 0 .. (b - 1) - 1
        BY <1>u, <2>1, <2>3
      <4>. HIDE DEF T
      <4>4. Upto(b) = T \cup {b - 1}
        BY <2>3, <4>1, <4>2
      <4>. QED  BY <4>2, <4>3, <4>4
    <3>2. Of(T \cup {b - 1})
      <4>. HIDE DEF T
      <4>1. /\ Cardinality(T) \in Nat /\ Cardinality(T \cup {b - 1}) = Cardinality(T) + 1
            /\ \A k \in 1 .. Cardinality(T) : InOrder(T \cup {b - 1})[k] = InOrder(T)[k]
            /\ InOrder(T \cup {b - 1})[Cardinality(T) + 1] = b - 1
        BY <2>3, <3>1, OneInFront
      <4>2. Of(T)
        BY <2>3 DEF T
      <4>3. ASSUME NEW k \in 1 .. Cardinality(T) + 1
            PROVE  InOrder(T \cup {b - 1})[k] \in T \cup {b - 1}
        <5>1. k \in 1 .. Cardinality(T) \/ k = Cardinality(T) + 1
          BY <4>1
        <5>. QED  BY <4>1, <4>2, <5>1
      <4>. QED  BY <4>1, <4>3
    <3>. QED  BY <2>1, <3>1, <3>2
  <2>. QED  BY <2>4, <2>5
<1>2. Of(Upto(n + 1))
  BY <1>1
<1>3. Upto(n + 1) = S
  <2>1. \A i \in Nat : i \in Upto(n + 1) <=> i \in S
    BY <1>0, <1>u
  <2>2. S \subseteq Nat /\ Upto(n + 1) \subseteq Nat
    BY <1>0, <1>u
  <2>. QED  BY <2>1, <2>2
<1>. QED  BY <1>2, <1>3

-----------------------------------------------------------------------------
(* Where statements begin.                                                 *)

\* p is the place behind the file.
IsFile(f, p) == p \in Nat \ {0} /\ Len(f) = p - 1 /\ DOMAIN f = 1 .. p - 1

\* A list ends with the first ; behind its keyword, or with the file.
LEMMA ListEndIs ==
    ASSUME NEW f, NEW p, IsFile(f, p), NEW i \in 1 .. p - 1
    PROVE  /\ ListEnd(f, i) \in Nat /\ i < ListEnd(f, i) /\ ListEnd(f, i) <= p
           /\ ListEnd(f, i) < p => f[ListEnd(f, i)] = ";"
           /\ \A j \in i + 1 .. p - 1 : f[j] = ";" => ListEnd(f, i) <= j
<1>. DEFINE ends == {j \in i + 1 .. p - 1 : f[j] = ";"} \cup {p}
<1>1. p \in Nat /\ i \in Nat /\ i < p
  BY DEF IsFile
<1>2. ListEnd(f, i) = Min(ends)
  <2>1. Len(f) = p - 1 /\ Len(f) + 1 = p
    BY DEF IsFile
  <2>. QED  BY <2>1 DEF ListEnd
<1>r. \A j \in i + 1 .. p - 1 : j \in Nat /\ i < j /\ j <= p
  BY <1>1
<1>3. ASSUME NEW j \in ends PROVE j \in Nat /\ i < j /\ j <= p /\ (j < p => f[j] = ";")
  <2>1. CASE j \in i + 1 .. p - 1 /\ f[j] = ";"
    BY <1>r, <2>1
  <2>2. CASE j = p
    <3>1. j \in Nat /\ i < j /\ j <= p /\ ~ (j < p)
      BY <1>1, <2>2
    <3>. QED  BY <3>1
  <2>. QED  BY <2>1, <2>2
<1>4. p \in ends /\ \A j \in i + 1 .. p - 1 : f[j] = ";" => j \in ends
  OBVIOUS
<1>. HIDE DEF ends
<1>5. Min(ends) \in ends /\ \A j \in ends : Min(ends) <= j
  BY <1>3, <1>4, MinIsLeast
<1>. QED  BY <1>2, <1>3, <1>4, <1>5

\* Every statement has a token.
LEMMA WidthIs ==
    ASSUME NEW f, NEW p, IsFile(f, p), NEW i \in 1 .. p - 1
    PROVE  Width(f, i) \in Nat \ {0}
<1>1. ListEnd(f, i) - i + 1 \in Nat \ {0}
  <2>1. ListEnd(f, i) \in Nat /\ i < ListEnd(f, i)
    BY ListEndIs
  <2>. QED  BY <2>1
<1>2. Width(f, i) \in {1, 2, 3, 4, ListEnd(f, i) - i + 1}
  BY DEF Width
<1>. QED  BY <1>1, <1>2

\* A statement begins at the first token and behind each statement, nowhere else.
Closed(f, p, H) == 1 \in H /\ \A h \in H \cap (1 .. p - 1) : h + Width(f, h) \in H
IsHeads(f, p, H) ==
    /\ H \subseteq Nat \ {0} /\ Closed(f, p, H)
    /\ \A h \in H : h = 1 \/ \E g \in H \cap (1 .. p - 1) : h = g + Width(f, g)

\* There is a set of places where statements begin,
LEMMA SomeAreHeads ==
    ASSUME NEW f, NEW p, IsFile(f, p) PROVE \E H : IsHeads(f, p, H)
<1>. DEFINE All == Nat \ {0}
            H == {h \in All : \A K \in SUBSET All : Closed(f, p, K) => h \in K}
<1>1. Closed(f, p, H)
  <2>1. 1 \in H
    BY DEF Closed
  <2>2. ASSUME NEW h \in H \cap (1 .. p - 1) PROVE h + Width(f, h) \in H
    <3>1. h + Width(f, h) \in All
      <4>1. h \in Nat \ {0} /\ Width(f, h) \in Nat \ {0}
        BY WidthIs
      <4>. QED  BY <4>1
    <3>2. \A K \in SUBSET All : Closed(f, p, K) => h + Width(f, h) \in K
      BY DEF Closed
    <3>. QED  BY <3>1, <3>2
  <2>. QED  BY <2>1, <2>2 DEF Closed
<1>2. ASSUME NEW h \in H, h # 1, ~ \E g \in H \cap (1 .. p - 1) : h = g + Width(f, g)
      PROVE  FALSE
  <2>. DEFINE K == H \ {h}
  <2>1. Closed(f, p, K) /\ K \in SUBSET All
    BY <1>1, <1>2 DEF Closed
  <2>2. h \in K
    BY <2>1
  <2>. QED  BY <2>2
<1>3. H \subseteq All
  OBVIOUS
<1>. HIDE DEF H
<1>4. IsHeads(f, p, H)
  BY <1>1, <1>2, <1>3 DEF IsHeads
<1>. QED  BY <1>4

\* and there is only one,
LEMMA HeadsAreUnique ==
    ASSUME NEW f, NEW p, IsFile(f, p), NEW H, NEW K, IsHeads(f, p, H), IsHeads(f, p, K)
    PROVE  H = K
<1>. DEFINE odd == {h \in Nat : h \in H \cup K /\ ~ (h \in H /\ h \in K)}
<1>1. ASSUME odd # {} PROVE FALSE
  <2>1. PICK h \in odd : \A g \in odd : h <= g
    <3>1. odd \subseteq Nat
      OBVIOUS
    <3>. HIDE DEF odd
    <3>. QED  BY <1>1, <3>1, LeastNumber
  <2>2. h # 1
    BY DEF IsHeads, Closed
  <2>3. PICK g \in 1 .. p - 1 : g \in H \cup K /\ h = g + Width(f, g)
    BY <2>2 DEF IsHeads
  <2>4. g \in Nat /\ h \in Nat /\ ~ (h <= g)
    <3>1. g \in Nat /\ Width(f, g) \in Nat \ {0}
      BY WidthIs
    <3>. QED  BY <2>3, <3>1
  <2>5. g \in H /\ g \in K
    BY <2>1, <2>3, <2>4
  <2>6. h \in H /\ h \in K
    BY <2>3, <2>5 DEF IsHeads, Closed
  <2>. QED  BY <2>6
<1>2. H \subseteq Nat /\ K \subseteq Nat
  BY DEF IsHeads
<1>. QED  BY <1>1, <1>2

\* which the reference calls Heads.
LEMMA HeadsAre ==
    ASSUME NEW f, NEW p, IsFile(f, p) PROVE IsHeads(f, p, Heads(f))
<1>1. PICK H : IsHeads(f, p, H)
  BY SomeAreHeads
<1>. DEFINE n == p - 1
            Grow(before, k) == before \cup {h + Width(f, h) : h \in before \cap {k}}
            Grows(heads) ==
              heads = [k \in 0 .. n |-> IF k = 0 THEN {1} ELSE Grow(heads[k - 1], k)]
            Upto(k) == {h \in H : h = 1 \/ \E g \in H \cap (1 .. k) : h = g + Width(f, g)}
            upto == [k \in 0 .. n |-> Upto(k)]
<1>0. n \in Nat
  BY DEF IsFile
<1>2. Upto(0) = {1}
  BY <1>1 DEF IsHeads, Closed
<1>3. ASSUME NEW k \in 1 .. n PROVE Upto(k) = Grow(Upto(k - 1), k)
  <2>0. p \in Nat
    BY DEF IsFile
  <2>1. k \in H <=> k \in Upto(k - 1)
    <3>1. ASSUME k \in H, k # 1 PROVE \E g \in H \cap (1 .. k - 1) : k = g + Width(f, g)
      <4>1. PICK g \in H \cap (1 .. n) : k = g + Width(f, g)
        BY <1>1, <3>1 DEF IsHeads
      <4>2. g \in Nat \ {0} /\ Width(f, g) \in Nat \ {0}
        BY WidthIs
      <4>3. g \in 1 .. k - 1
        BY <4>1, <4>2
      <4>. QED  BY <4>1, <4>3
    <3>. QED  BY <3>1
  <2>2. \A g \in H : g \in 1 .. k <=> g \in 1 .. k - 1 \/ g = k
    BY <1>1 DEF IsHeads
  <2>3. k \in H => k + Width(f, k) \in H
    BY <1>1 DEF IsHeads, Closed
  <2>4. Upto(k) = Upto(k - 1) \cup {h + Width(f, h) : h \in H \cap {k}}
    BY <2>2, <2>3
  <2>5. H \cap {k} = Upto(k - 1) \cap {k}
    BY <2>1
  <2>. QED  BY <2>4, <2>5
<1>. HIDE DEF Grow, Upto
<1>4. Grows(upto)
  <2>1. \A k \in 0 .. n : upto[k] = IF k = 0 THEN {1} ELSE Grow(upto[k - 1], k)
    <3>. SUFFICES ASSUME NEW k \in 0 .. n
                  PROVE  upto[k] = IF k = 0 THEN {1} ELSE Grow(upto[k - 1], k)
      OBVIOUS
    <3>1. CASE k = 0
      BY <1>2, <3>1
    <3>2. CASE k # 0
      <4>1. k \in 1 .. n /\ k - 1 \in 0 .. n
        BY <1>0, <3>2
      <4>. QED  BY <1>3, <3>2, <4>1
    <3>. QED  BY <3>1, <3>2
  <2>. QED  BY <2>1
<1>5. ASSUME NEW heads, Grows(heads) PROVE heads[n] = H
  <2>. DEFINE wrong == {k \in Nat : k <= n /\ heads[k] # Upto(k)}
  <2>0. heads[0] = {1} /\ \A k \in 1 .. n : heads[k] = Grow(heads[k - 1], k)
    <3>1. \A k \in 0 .. n : heads[k] = IF k = 0 THEN {1} ELSE Grow(heads[k - 1], k)
      BY <1>5
    <3>. HIDE DEF Grows
    <3>. QED  BY <1>0, <3>1
  <2>. HIDE DEF Grows, n
  <2>1. ASSUME wrong # {} PROVE FALSE
    <3>1. PICK k \in wrong : \A j \in wrong : k <= j
      <4>1. wrong \subseteq Nat
        OBVIOUS
      <4>. HIDE DEF wrong
      <4>. QED  BY <2>1, <4>1, LeastNumber
    <3>2. k # 0
      BY <1>2, <2>0
    <3>3. k \in 1 .. n /\ k - 1 \in Nat /\ k - 1 <= n /\ ~ (k <= k - 1)
      BY <1>0, <3>2
    <3>4. heads[k - 1] = Upto(k - 1)
      BY <3>1, <3>3
    <3>5. heads[k] = Upto(k)
      BY <1>3, <2>0, <3>3, <3>4
    <3>. QED  BY <3>5
  <2>2. heads[n] = Upto(n)
    BY <1>0, <2>1
  <2>3. Upto(n) = H
    BY <1>1 DEF IsHeads, Upto, n
  <2>. QED  BY <2>2, <2>3
<1>6. Heads(f) = (CHOOSE heads : Grows(heads))[n]
  <2>1. Len(f) = n
    BY DEF IsFile
  <2>. QED  BY <2>1 DEF Heads, Grow
<1>. HIDE DEF Grows
<1>7. Grows(CHOOSE heads : Grows(heads))
  BY <1>4
<1>8. Heads(f) = H
  BY <1>5, <1>6, <1>7
<1>. QED  BY <1>1, <1>8

-----------------------------------------------------------------------------
(* A file that ends behind a statement, and one that has one statement     *)
(* more.                                                                   *)

Complete(f, p, H) ==
    /\ IsFile(f, p) /\ IsHeads(f, p, H) /\ p \in H /\ H \subseteq 1 .. p
    /\ \A h \in H \cap (1 .. p - 1) : StatementOK(f, H, h)
Adds(f, p, H, g, q, K) ==
    /\ Complete(f, p, H) /\ IsFile(g, q) /\ p < q
    /\ \A i \in 1 .. p - 1 : g[i] = f[i]
    /\ p + Width(g, p) = q /\ K = H \cup {q}

\* A statement of a complete file ends in it, and so does its list of methods.
LEMMA PlaceOfStatement ==
    ASSUME NEW f, NEW p, NEW H, Complete(f, p, H), NEW h \in H \cap (1 .. p - 1)
    PROVE  /\ Width(f, h) \in Nat \ {0} /\ h + Width(f, h) <= p
           /\ f[h] = "allowed_methods" => ListEnd(f, h) < p
<1>1. p \in Nat /\ h \in Nat /\ IsFile(f, p) /\ H \subseteq 1 .. p
  BY DEF Complete, IsFile
<1>2. Width(f, h) \in Nat \ {0}
  BY <1>1, WidthIs
<1>3. h + Width(f, h) <= p
  <2>1. h + Width(f, h) \in H
    BY DEF Complete, IsHeads, Closed
  <2>2. h + Width(f, h) \in 1 .. p
    BY <1>1, <2>1
  <2>. QED  BY <1>1, <2>2
<1>4. ASSUME f[h] = "allowed_methods" PROVE ListEnd(f, h) < p
  <2>1. Width(f, h) = ListEnd(f, h) - h + 1
    BY <1>4 DEF Width, TwoValues
  <2>2. ListEnd(f, h) \in Nat
    BY <1>1, ListEndIs
  <2>. QED  BY <1>1, <1>3, <2>1, <2>2
<1>. QED  BY <1>2, <1>3, <1>4

\* g goes on from f, which is what it has before p.
Extends(f, p, g, q) ==
    /\ IsFile(f, p) /\ IsFile(g, q) /\ p <= q /\ \A i \in 1 .. p - 1 : g[i] = f[i]

\* It ends where it did when the file goes on,
LEMMA WidthKept ==
    ASSUME NEW f, NEW p, NEW H, Complete(f, p, H), NEW g, NEW q, Extends(f, p, g, q),
           NEW h \in H \cap (1 .. p - 1)
    PROVE  /\ Width(g, h) = Width(f, h)
           /\ f[h] = "allowed_methods" => ListEnd(g, h) = ListEnd(f, h)
<1>1. /\ Complete(f, p, H) /\ IsFile(f, p) /\ IsFile(g, q)
      /\ \A i \in 1 .. p - 1 : g[i] = f[i]
  BY DEF Extends
<1>2. p \in Nat /\ q \in Nat /\ p <= q /\ h \in Nat /\ 0 < h /\ h < p
  BY DEF Extends, IsFile
<1>3. ASSUME f[h] = "allowed_methods" PROVE ListEnd(g, h) = ListEnd(f, h)
  <2>. DEFINE e == ListEnd(f, h)
              d == ListEnd(g, h)
  <2>1. e \in Nat /\ h < e /\ e < p
    BY <1>1, <1>3, PlaceOfStatement, ListEndIs
  <2>2. f[e] = ";" /\ \A j \in h + 1 .. p - 1 : f[j] = ";" => e <= j
    BY <1>1, <2>1, ListEndIs
  <2>3. h \in 1 .. q - 1
    BY <1>2
  <2>4. d \in Nat /\ h < d
    BY <1>1, <2>3, ListEndIs
  <2>5. /\ d < q => g[d] = ";"
        /\ \A j \in h + 1 .. q - 1 : g[j] = ";" => d <= j
    BY <1>1, <2>3, ListEndIs
  <2>. HIDE DEF d, e
  <2>6. d <= e
    <3>1. e \in h + 1 .. q - 1 /\ e \in 1 .. p - 1
      BY <1>2, <2>1
    <3>2. g[e] = ";"
      BY <1>1, <2>2, <3>1
    <3>. QED  BY <2>5, <3>1, <3>2
  <2>7. e <= d
    <3>1. d \in h + 1 .. p - 1 /\ d \in 1 .. p - 1 /\ d < q
      BY <1>2, <2>1, <2>4, <2>6
    <3>2. f[d] = ";"
      BY <1>1, <2>5, <3>1
    <3>. QED  BY <2>2, <3>1, <3>2
  <2>8. d = e
    BY <2>1, <2>4, <2>6, <2>7
  <2>. QED  BY <2>8 DEF d, e
<1>4. g[h] = f[h]
  BY <1>1
<1>5. CASE f[h] = "allowed_methods"
  <2>1. /\ Width(g, h) = ListEnd(g, h) - h + 1
        /\ Width(f, h) = ListEnd(f, h) - h + 1
    BY <1>4, <1>5 DEF Width, TwoValues
  <2>. QED  BY <1>3, <1>5, <2>1
<1>6. CASE f[h] # "allowed_methods"
  <2>1. Width(g, h) = Width(f, h)
    BY <1>4, <1>6 DEF Width
  <2>. QED  BY <1>6, <2>1
<1>. QED  BY <1>5, <1>6

\* in particular with one statement.
LEMMA SameWidth ==
    ASSUME NEW f, NEW p, NEW H, NEW g, NEW q, NEW K, Adds(f, p, H, g, q, K),
           NEW h \in H \cap (1 .. p - 1)
    PROVE  /\ Width(g, h) = Width(f, h)
           /\ f[h] = "allowed_methods" => ListEnd(g, h) = ListEnd(f, h)
<1>1. Complete(f, p, H) /\ Extends(f, p, g, q)
  <2>1. p <= q
    BY DEF Adds, Complete, IsFile
  <2>. QED  BY <2>1 DEF Adds, Complete, Extends
<1>. QED  BY <1>1, WidthKept

\* The statements of the longer file are those of the shorter and the one at p.
LEMMA NextHeads ==
    ASSUME NEW f, NEW p, NEW H, NEW g, NEW q, NEW K, Adds(f, p, H, g, q, K)
    PROVE  /\ IsHeads(g, q, K) /\ q \in K /\ K \subseteq 1 .. q
           /\ K \cap (1 .. q - 1) = (H \cap (1 .. p - 1)) \cup {p}
<1>1. p \in Nat \ {0} /\ q \in Nat \ {0} /\ p < q
  BY DEF Adds, Complete, IsFile
<1>2. /\ H \subseteq 1 .. p /\ p \in H /\ IsHeads(f, p, H) /\ K = H \cup {q}
      /\ p + Width(g, p) = q
  BY DEF Adds, Complete
<1>3. K \subseteq 1 .. q /\ K \subseteq Nat \ {0} /\ q \in K
  BY <1>1, <1>2
<1>4. K \cap (1 .. q - 1) = (H \cap (1 .. p - 1)) \cup {p}
  <2>1. \A h \in 1 .. p : h \in 1 .. q - 1 /\ (h \in 1 .. p - 1 \/ h = p)
    BY <1>1
  <2>2. q \notin 1 .. q - 1
    BY <1>1
  <2>. QED  BY <1>2, <2>1, <2>2
<1>5. Closed(g, q, K)
  <2>1. ASSUME NEW h \in K \cap (1 .. q - 1) PROVE h + Width(g, h) \in K
    <3>1. CASE h = p
      BY <1>2, <1>3, <3>1
    <3>2. CASE h \in H \cap (1 .. p - 1)
      <4>1. h + Width(f, h) \in H
        BY <1>2, <3>2 DEF IsHeads, Closed
      <4>. QED  BY <1>2, <3>2, <4>1, SameWidth
    <3>. QED  BY <1>4, <3>1, <3>2
  <2>2. 1 \in K
    BY <1>2 DEF IsHeads, Closed
  <2>. QED  BY <2>1, <2>2 DEF Closed
<1>6. ASSUME NEW h \in K, h # 1
      PROVE  \E k \in K \cap (1 .. q - 1) : h = k + Width(g, k)
  <2>1. CASE h = q
    BY <1>2, <1>4, <2>1
  <2>2. CASE h \in H
    <3>1. PICK k \in H \cap (1 .. p - 1) : h = k + Width(f, k)
      BY <1>2, <1>6, <2>2 DEF IsHeads
    <3>. QED  BY <1>4, <3>1, SameWidth
  <2>. QED  BY <1>2, <2>1, <2>2
<1>. QED  BY <1>3, <1>4, <1>5, <1>6 DEF IsHeads

-----------------------------------------------------------------------------
(* How deep the statements are.                                            *)

Opening(f, h) == f[h] \in {"server", "location"}
Closing(f, h) == f[h] = "}"
Opened(f, H, i) == {h \in H : h < i /\ Opening(f, h)}
Left(f, H, i) == {h \in H : h < i /\ f[h] = "}"}
\* From the statement at h on, the file has not left its block.
Open(f, H, h) == \A j \in H : h < j => Depth(f, H, j) > Depth(f, H, h)

\* How deep a place is, as a difference of two numbers.
LEMMA DepthIsNumber ==
    ASSUME NEW f, NEW p \in Nat, NEW H, H \subseteq 1 .. p, NEW i
    PROVE  /\ IsFiniteSet(Opened(f, H, i)) /\ IsFiniteSet(Left(f, H, i))
           /\ Cardinality(Opened(f, H, i)) \in Nat /\ Cardinality(Left(f, H, i)) \in Nat
           /\ Depth(f, H, i) = Cardinality(Opened(f, H, i)) - Cardinality(Left(f, H, i))
           /\ Depth(f, H, i) \in Int
<1>1. IsFiniteSet(1 .. p)
  BY FS_Interval
<1>2. Opened(f, H, i) \in SUBSET (1 .. p) /\ Left(f, H, i) \in SUBSET (1 .. p)
  BY DEF Opened, Left
<1>3. /\ IsFiniteSet(Opened(f, H, i)) /\ IsFiniteSet(Left(f, H, i))
      /\ Cardinality(Opened(f, H, i)) \in Nat /\ Cardinality(Left(f, H, i)) \in Nat
  BY <1>1, <1>2, FS_Subset, FS_CardinalityType
<1>4. Depth(f, H, i) = Cardinality(Opened(f, H, i)) - Cardinality(Left(f, H, i))
  BY DEF Depth, Opened, Left, Opening
<1>. QED  BY <1>3, <1>4

\* What follows does not change how deep a statement is.
LEMMA DepthKept ==
    ASSUME NEW f, NEW p, NEW H, NEW g, NEW q, NEW K, Adds(f, p, H, g, q, K),
           NEW i \in 1 .. p
    PROVE  Depth(g, K, i) = Depth(f, H, i)
<1>1. p \in Nat /\ q \in Nat /\ p < q /\ i \in Nat /\ i <= p /\ H \subseteq 1 .. p /\ K = H \cup {q}
  BY DEF Adds, Complete, IsFile
<1>2. \A j \in 1 .. p - 1 : g[j] = f[j]
  BY DEF Adds
<1>3. \A h \in K : h < i <=> h \in H /\ h < i
  BY <1>1
<1>4. \A h \in H : h < i => g[h] = f[h]
  <2>1. \A h \in H : h < i => h \in 1 .. p - 1
    BY <1>1
  <2>. QED  BY <1>2, <2>1
<1>5. Opened(g, K, i) = Opened(f, H, i) /\ Left(g, K, i) = Left(f, H, i)
  BY <1>1, <1>3, <1>4 DEF Opened, Left, Opening
<1>7. /\ Depth(f, H, i) = Cardinality(Opened(f, H, i)) - Cardinality(Left(f, H, i))
      /\ Depth(g, K, i) = Cardinality(Opened(g, K, i)) - Cardinality(Left(g, K, i))
  BY DEF Depth, Opened, Left, Opening
<1>. QED  BY <1>5, <1>7

\* How deep the place behind the statement at p is.
LEMMA DepthNext ==
    ASSUME NEW f, NEW p, NEW H, NEW g, NEW q, NEW K, Adds(f, p, H, g, q, K)
    PROVE  /\ Opening(g, p) => Depth(g, K, q) = Depth(f, H, p) + 1
           /\ Closing(g, p) => Depth(g, K, q) = Depth(f, H, p) - 1
           /\ ~ Opening(g, p) /\ ~ Closing(g, p) => Depth(g, K, q) = Depth(f, H, p)
<1>1. p \in Nat /\ q \in Nat /\ p < q
  BY DEF Adds, Complete, IsFile
<1>2. p \in H /\ H \subseteq 1 .. p /\ K = H \cup {q} /\ K \subseteq 1 .. q
  <2>1. p \in H /\ H \subseteq 1 .. p /\ K = H \cup {q}
    BY DEF Adds, Complete
  <2>2. K \subseteq 1 .. q
    BY NextHeads
  <2>. QED  BY <2>1, <2>2
<1>3. \A h \in H : h < p => g[h] = f[h]
  <2>1. \A h \in H : h < p => h \in 1 .. p - 1
    BY <1>1, <1>2
  <2>. QED  BY <2>1 DEF Adds
<1>4. \A h \in K : h < q <=> h = p \/ (h \in H /\ h < p)
  BY <1>1, <1>2
<1>5. ~ (p < p)
  BY <1>1
<1>6. Opened(g, K, q) = Opened(f, H, p) \cup (IF Opening(g, p) THEN {p} ELSE {})
  <2>1. \A h \in K : h \in Opened(g, K, q) <=>
                       h \in Opened(f, H, p) \cup (IF Opening(g, p) THEN {p} ELSE {})
    BY <1>2, <1>3, <1>4, <1>5 DEF Opened, Opening
  <2>2. /\ Opened(g, K, q) \subseteq K
        /\ Opened(f, H, p) \cup (IF Opening(g, p) THEN {p} ELSE {}) \subseteq K
    BY <1>2 DEF Opened
  <2>. QED  BY <2>1, <2>2
<1>7. Left(g, K, q) = Left(f, H, p) \cup (IF Closing(g, p) THEN {p} ELSE {})
  <2>1. \A h \in K : h \in Left(g, K, q) <=>
                       h \in Left(f, H, p) \cup (IF Closing(g, p) THEN {p} ELSE {})
    BY <1>2, <1>3, <1>4, <1>5 DEF Left, Closing
  <2>2. /\ Left(g, K, q) \subseteq K
        /\ Left(f, H, p) \cup (IF Closing(g, p) THEN {p} ELSE {}) \subseteq K
    BY <1>2 DEF Left
  <2>. QED  BY <2>1, <2>2
<1>8. p \notin Opened(f, H, p) /\ p \notin Left(f, H, p)
  BY <1>5 DEF Opened, Left
<1>9. /\ IsFiniteSet(Opened(f, H, p)) /\ IsFiniteSet(Left(f, H, p))
      /\ Cardinality(Opened(f, H, p)) \in Nat /\ Cardinality(Left(f, H, p)) \in Nat
      /\ Depth(f, H, p) = Cardinality(Opened(f, H, p)) - Cardinality(Left(f, H, p))
      /\ Depth(g, K, q) = Cardinality(Opened(g, K, q)) - Cardinality(Left(g, K, q))
  BY <1>1, <1>2, DepthIsNumber
<1>10. Cardinality(Opened(g, K, q)) =
         IF Opening(g, p) THEN Cardinality(Opened(f, H, p)) + 1
                          ELSE Cardinality(Opened(f, H, p))
  BY <1>6, <1>8, <1>9, FS_AddElement
<1>11. Cardinality(Left(g, K, q)) =
         IF Closing(g, p) THEN Cardinality(Left(f, H, p)) + 1 ELSE Cardinality(Left(f, H, p))
  BY <1>7, <1>8, <1>9, FS_AddElement
<1>12. CASE Opening(g, p)
  <2>1. ~ Closing(g, p)
    BY <1>12 DEF Opening, Closing
  <2>2. /\ Cardinality(Opened(g, K, q)) = Cardinality(Opened(f, H, p)) + 1
        /\ Cardinality(Left(g, K, q)) = Cardinality(Left(f, H, p))
    BY <1>10, <1>11, <1>12, <2>1
  <2>3. Depth(g, K, q) = Depth(f, H, p) + 1
    BY <1>9, <2>2
  <2>. QED  BY <1>12, <2>1, <2>3
<1>13. CASE ~ Opening(g, p)
  <2>1. CASE Closing(g, p)
    <3>1. /\ Cardinality(Opened(g, K, q)) = Cardinality(Opened(f, H, p))
          /\ Cardinality(Left(g, K, q)) = Cardinality(Left(f, H, p)) + 1
      BY <1>10, <1>11, <1>13, <2>1
    <3>2. Depth(g, K, q) = Depth(f, H, p) - 1
      BY <1>9, <3>1
    <3>. QED  BY <1>13, <2>1, <3>2
  <2>2. CASE ~ Closing(g, p)
    <3>1. /\ Cardinality(Opened(g, K, q)) = Cardinality(Opened(f, H, p))
          /\ Cardinality(Left(g, K, q)) = Cardinality(Left(f, H, p))
      BY <1>10, <1>11, <1>13, <2>2
    <3>2. Depth(g, K, q) = Depth(f, H, p)
      BY <1>9, <3>1
    <3>. QED  BY <1>13, <2>2, <3>2
  <2>. QED  BY <2>1, <2>2
<1>. QED  BY <1>12, <1>13

\* A block stays open as long as nothing comes back to its depth.
LEMMA OpenNext ==
    ASSUME NEW f, NEW p, NEW H, NEW g, NEW q, NEW K, Adds(f, p, H, g, q, K)
    PROVE  /\ \A h \in H \cap (1 .. p - 1) :
                Open(g, K, h) <=> Open(f, H, h) /\ Depth(g, K, q) > Depth(f, H, h)
           /\ Open(g, K, p) <=> Depth(g, K, q) > Depth(f, H, p)
<1>1. p \in Nat \ {0} /\ q \in Nat /\ p < q /\ p \in H /\ H \subseteq 1 .. p /\ K = H \cup {q}
  BY DEF Adds, Complete, IsFile
<1>2. \A h \in H : Depth(g, K, h) = Depth(f, H, h)
  BY <1>1, DepthKept
<1>3. ASSUME NEW h \in H \cap (1 .. p - 1)
      PROVE  Open(g, K, h) <=> Open(f, H, h) /\ Depth(g, K, q) > Depth(f, H, h)
  <2>1. h < q
    BY <1>1
  <2>. QED  BY <1>1, <1>2, <2>1 DEF Open
<1>4. Open(g, K, p) <=> Depth(g, K, q) > Depth(f, H, p)
  <2>1. \A j \in K : p < j <=> j = q
    BY <1>1
  <2>. QED  BY <1>1, <1>2, <2>1 DEF Open
<1>. QED  BY <1>3, <1>4

\* The statement at p is in the open block one level up, and in no other.
LEMMA InsideNext ==
    ASSUME NEW f, NEW p, NEW H, NEW g, NEW q, NEW K, Adds(f, p, H, g, q, K)
    PROVE  /\ \A h \in H \cap (1 .. p - 1) : \A i :
                i \in Inside(g, K, h) <=>
                  \/ i \in Inside(f, H, h)
                  \/ i = p /\ Depth(f, H, p) = Depth(f, H, h) + 1 /\ Open(f, H, h)
           /\ Inside(g, K, p) = {}
           /\ \A h : Inside(f, H, h) \subseteq H \cap (1 .. p - 1)
<1>1. p \in Nat \ {0} /\ q \in Nat /\ p < q /\ p \in H /\ H \subseteq 1 .. p /\ K = H \cup {q}
  BY DEF Adds, Complete, IsFile
<1>2. \A h \in H : Depth(g, K, h) = Depth(f, H, h) /\ Depth(f, H, h) \in Int
  <2>1. p \in Nat
    BY <1>1
  <2>2. \A h \in H : Depth(f, H, h) \in Int
    BY <1>1, <2>1, DepthIsNumber
  <2>. QED  BY <1>1, <2>2, DepthKept
<1>3. /\ DOMAIN f = 1 .. p - 1 /\ DOMAIN g = 1 .. q - 1
      /\ K \cap (1 .. q - 1) = (H \cap (1 .. p - 1)) \cup {p}
  BY NextHeads DEF Adds, Complete, IsFile
<1>4. ASSUME NEW h \in H \cap (1 .. p - 1), NEW i \in H \cap (1 .. p - 1)
      PROVE  i \in Inside(g, K, h) <=> i \in Inside(f, H, h)
  <2>1. ~ (q < i)
    BY <1>1
  <2>. QED  BY <1>1, <1>2, <1>3, <2>1 DEF Inside
<1>5. ASSUME NEW h \in H \cap (1 .. p - 1)
      PROVE  p \in Inside(g, K, h) <=> Depth(f, H, p) = Depth(f, H, h) + 1 /\ Open(f, H, h)
  <2>1. h < p /\ ~ (q < p) /\ \A j \in H : j < p \/ j = p
    BY <1>1
  <2>2. Depth(f, H, p) = Depth(f, H, h) + 1 => Depth(f, H, p) > Depth(f, H, h)
    BY <1>1, <1>2
  <2>3. p \in Inside(g, K, h) <=>
          /\ Depth(f, H, p) = Depth(f, H, h) + 1
          /\ \A j \in H : h < j /\ j < p => Depth(f, H, j) > Depth(f, H, h)
    BY <1>1, <1>2, <1>3, <2>1 DEF Inside
  <2>. QED  BY <2>1, <2>2, <2>3 DEF Open
<1>6. \A h : Inside(f, H, h) \subseteq H \cap (1 .. p - 1)
  BY <1>3 DEF Inside
<1>7. \A h : Inside(g, K, h) \subseteq (H \cap (1 .. p - 1)) \cup {p}
  BY <1>3 DEF Inside
<1>8. Inside(g, K, p) = {}
  <2>1. \A i \in (H \cap (1 .. p - 1)) \cup {p} : ~ (p < i)
    BY <1>1
  <2>. QED  BY <1>7, <2>1 DEF Inside
<1>9. p \notin H \cap (1 .. p - 1)
  BY <1>1
<1>. QED  BY <1>4, <1>5, <1>6, <1>7, <1>8, <1>9

\* Two blocks of one kind are never open at once.
LEMMA OneOpen ==
    ASSUME NEW f, NEW p, NEW H, Complete(f, p, H), NEW h \in H \cap (1 .. p - 1),
           NEW i \in H \cap (1 .. p - 1), Opening(f, h), f[i] = f[h], Open(f, H, h)
    PROVE  i <= h
<1>1. StatementOK(f, H, h) /\ StatementOK(f, H, i) /\ i \in Nat /\ h \in Nat
  BY DEF Complete
<1>r. Depth(f, H, i) \in Int
  <2>1. p \in Nat /\ H \subseteq 1 .. p
    BY DEF Complete, IsFile
  <2>. QED  BY <2>1, DepthIsNumber
<1>2. Depth(f, H, h) = Depth(f, H, i)
  <2>1. CASE f[h] = "server"
    <3>1. Depth(f, H, h) = 0 /\ Depth(f, H, i) = 0
      BY <1>1, <2>1 DEF StatementOK
    <3>. QED  BY <3>1
  <2>2. CASE f[h] = "location"
    <3>1. Depth(f, H, h) = 1 /\ Depth(f, H, i) = 1
      BY <1>1, <2>2 DEF StatementOK
    <3>. QED  BY <3>1
  <2>. QED  BY <2>1, <2>2 DEF Opening
<1>3. ASSUME h < i PROVE FALSE
  <2>1. Depth(f, H, i) > Depth(f, H, h)
    BY <1>3 DEF Open
  <2>. QED  BY <1>r, <1>2, <2>1
<1>. QED  BY <1>1, <1>3

\* A block with an open block in it is open.
LEMMA OpenInside ==
    ASSUME NEW f, NEW p, NEW H, Complete(f, p, H), NEW h \in H, NEW i \in Inside(f, H, h),
           Open(f, H, i)
    PROVE  Open(f, H, h)
<1>0. H \subseteq 1 .. p /\ p \in Nat
  BY DEF Complete, IsFile
<1>1. \A j \in H : Depth(f, H, j) \in Int /\ j \in Nat
  <2>1. \A j : Depth(f, H, j) \in Int
    BY <1>0, DepthIsNumber
  <2>. QED  BY <1>0, <2>1
<1>2. /\ i \in H /\ h < i /\ Depth(f, H, i) = Depth(f, H, h) + 1
      /\ \A j \in H : h < j /\ j < i => Depth(f, H, j) > Depth(f, H, h)
  BY DEF Inside
<1>3. ASSUME NEW j \in H, h < j PROVE Depth(f, H, j) > Depth(f, H, h)
  <2>1. CASE j < i
    BY <1>2, <1>3, <2>1
  <2>2. CASE j = i
    BY <1>1, <1>2, <2>2
  <2>3. CASE i < j
    <3>1. Depth(f, H, j) > Depth(f, H, i)
      BY <2>3 DEF Open
    <3>. QED  BY <1>1, <1>2, <3>1
  <2>. QED  BY <1>1, <1>2, <2>1, <2>2, <2>3
<1>. QED  BY <1>3 DEF Open

-----------------------------------------------------------------------------
(* What is read already stays.                                             *)

\* The values of the statement at h.
Value1(f, h) == f[h + 1]
Value2(f, h) == f[h + 2]
HasValues(name) == name \notin {"server", "}"}

\* A statement that was all right stays so, and keeps its values.
LEMMA StatementKept ==
    ASSUME NEW f, NEW p, NEW H, NEW g, NEW q, NEW K, Adds(f, p, H, g, q, K),
           NEW h \in H \cap (1 .. p - 1)
    PROVE  /\ StatementOK(g, K, h)
           /\ HasValues(f[h]) =>
                Value1(g, h) = Value1(f, h) /\ Value2(g, h) = Value2(f, h)
<1>. DEFINE w == Width(f, h)
            last == h + w - 1
<1>0. Complete(f, p, H) /\ StatementOK(f, H, h) /\ w = Width(g, h)
  <2>1. w = Width(g, h)
    BY SameWidth
  <2>2. Complete(f, p, H)
    BY DEF Adds
  <2>3. StatementOK(f, H, h)
    BY <2>2 DEF Complete
  <2>. QED  BY <2>1, <2>2, <2>3
<1>1. /\ w \in Nat \ {0} /\ h + w <= p
      /\ p \in Nat /\ q \in Nat /\ p < q /\ h \in Nat /\ h > 0 /\ h < p
  <2>1. p \in Nat /\ q \in Nat /\ p < q
    BY DEF Adds, Complete, IsFile
  <2>2. w \in Nat \ {0} /\ h + w <= p
    BY <1>0, PlaceOfStatement
  <2>. QED  BY <2>1, <2>2
<1>2. /\ DOMAIN f = 1 .. p - 1 /\ DOMAIN g = 1 .. q - 1 /\ \A i \in 1 .. p - 1 : g[i] = f[i]
      /\ g[h] = f[h] /\ Depth(g, K, h) = Depth(f, H, h)
  <2>1. DOMAIN f = 1 .. p - 1 /\ DOMAIN g = 1 .. q - 1
    BY DEF Adds, Complete, IsFile
  <2>2. \A i \in 1 .. p - 1 : g[i] = f[i]
    BY DEF Adds
  <2>3. h \in 1 .. p
    BY <1>1
  <2>4. Depth(g, K, h) = Depth(f, H, h)
    BY <2>3, DepthKept
  <2>. QED  BY <2>1, <2>2, <2>4
<1>3. \A i : \A t : IsAt(f, i, t) => IsAt(g, i, t)
  <2>1. \A i \in 1 .. p - 1 : i \in 1 .. q - 1
    BY <1>1
  <2>. QED  BY <1>2, <2>1 DEF IsAt
<1>4. CASE f[h] = "server"
  BY <1>0, <1>2, <1>3, <1>4 DEF StatementOK, HasValues
<1>5. CASE f[h] = "}"
  BY <1>0, <1>2, <1>5 DEF StatementOK, HasValues
<1>6. ASSUME w >= 3
      PROVE  Value1(g, h) = Value1(f, h) /\ Value2(g, h) = Value2(f, h)
  <2>1. h + 1 \in 1 .. p - 1 /\ h + 2 \in 1 .. p - 1
    BY <1>1, <1>6
  <2>. QED  BY <1>2, <2>1 DEF Value1, Value2
<1>7. CASE f[h] = "location"
  <2>1. w = 3
    BY <1>7 DEF Width, TwoValues
  <2>2. StatementOK(g, K, h)
    BY <1>0, <1>2, <1>3, <1>7 DEF StatementOK
  <2>3. w >= 3
    BY <2>1
  <2>. QED  BY <1>6, <2>2, <2>3
<1>8. CASE f[h] \notin {"server", "location", "}"}
  <2>1. /\ \/ Depth(f, H, h) = 1 /\ f[h] \in ServerDirectives
           \/ Depth(f, H, h) = 2 /\ f[h] \in LocationDirectives
        /\ h + 2 <= last /\ IsAt(f, last, ";")
        /\ Accepts(f[h], f[h + 1])
    BY <1>0, <1>8 DEF StatementOK
  <2>2. w >= 3
    <3>1. h + 2 <= last
      BY <2>1
    <3>. QED  BY <1>1, <3>1
  <2>3. g[h + 1] = f[h + 1]
    BY <1>6, <2>2 DEF Value1
  <2>4. StatementOK(g, K, h)
    BY <1>0, <1>2, <1>3, <1>8, <2>1, <2>3 DEF StatementOK
  <2>. QED  BY <1>6, <2>2, <2>4
<1>. QED  BY <1>4, <1>5, <1>7, <1>8

\* With a statement that is all right the file is complete again.
LEMMA NextComplete ==
    ASSUME NEW f, NEW p, NEW H, NEW g, NEW q, NEW K, Adds(f, p, H, g, q, K),
           StatementOK(g, K, p)
    PROVE  Complete(g, q, K) /\ K = Heads(g)
<1>1. IsFile(g, q)
  BY DEF Adds
<1>2. ASSUME NEW h \in K \cap (1 .. q - 1) PROVE StatementOK(g, K, h)
  <2>1. h \in (H \cap (1 .. p - 1)) \cup {p}
    BY NextHeads
  <2>2. CASE h \in H \cap (1 .. p - 1)
    BY <2>2, StatementKept
  <2>. QED  BY <2>1, <2>2
<1>3. Complete(g, q, K)
  BY <1>1, <1>2, NextHeads DEF Complete
<1>4. K = Heads(g)
  BY <1>1, NextHeads, HeadsAre, HeadsAreUnique
<1>. QED  BY <1>3, <1>4

\* The statements of one name in a block, after one statement more.
LEMMA WithinNext ==
    ASSUME NEW f, NEW p, NEW H, NEW g, NEW q, NEW K, Adds(f, p, H, g, q, K),
           NEW h \in H \cap (1 .. p - 1), NEW name
    PROVE  /\ Within(f, H, h, name) \subseteq H \cap (1 .. p - 1)
           /\ \A i \in Within(f, H, h, name) : f[i] = name
           /\ Within(g, K, h, name) =
                IF p \in Inside(g, K, h) /\ g[p] = name
                THEN Within(f, H, h, name) \cup {p} ELSE Within(f, H, h, name)
<1>1. Inside(f, H, h) \subseteq H \cap (1 .. p - 1)
  BY InsideNext
<1>2. \A i \in H \cap (1 .. p - 1) : g[i] = f[i]
  BY DEF Adds
<1>3. p \notin 1 .. p - 1
  BY DEF Adds, Complete, IsFile
<1>n. \A i : i \in Inside(g, K, h) <=>
               \/ i \in Inside(f, H, h)
               \/ i = p /\ Depth(f, H, p) = Depth(f, H, h) + 1 /\ Open(f, H, h)
  BY InsideNext
<1>4. Inside(g, K, h) = IF p \in Inside(g, K, h) THEN Inside(f, H, h) \cup {p}
                                                 ELSE Inside(f, H, h)
  BY <1>1, <1>3, <1>n
<1>5. Within(g, K, h, name) =
        IF p \in Inside(g, K, h) /\ g[p] = name
        THEN Within(f, H, h, name) \cup {p} ELSE Within(f, H, h, name)
  BY <1>1, <1>2, <1>4 DEF Within
<1>. QED  BY <1>1, <1>5 DEF Within

-----------------------------------------------------------------------------
(* What one statement changes of the settings of a block.                  *)

\* The statement at p stands in the block at h and has this name.
Adding(g, p, K, h, name) == p \in Inside(g, K, h) /\ g[p] = name

\* The last of several, after one statement more,
LEMMA LatestNext ==
    ASSUME NEW f, NEW p, NEW H, NEW g, NEW q, NEW K, Adds(f, p, H, g, q, K),
           NEW h \in H \cap (1 .. p - 1), NEW name
    PROVE  /\ Latest(g, K, h, name) = IF Adding(g, p, K, h, name) THEN p
                                      ELSE Latest(f, H, h, name)
           /\ Latest(f, H, h, name) # 0 =>
                /\ Latest(f, H, h, name) \in H \cap (1 .. p - 1)
                /\ f[Latest(f, H, h, name)] = name
           /\ p # 0
<1>. DEFINE said == Within(f, H, h, name)
<1>1. p \in Nat \ {0} /\ p \in Nat
  BY DEF Adds, Complete, IsFile
<1>2. /\ said \subseteq H \cap (1 .. p - 1) /\ \A i \in said : f[i] = name
      /\ Within(g, K, h, name) = IF Adding(g, p, K, h, name) THEN said \cup {p} ELSE said
  BY WithinNext DEF Adding
<1>. HIDE DEF said
<1>3. said \subseteq 0 .. p
  BY <1>1, <1>2
<1>4. Max(said \cup {p}) = p
  BY <1>1, <1>3, MaxOfMore
<1>5. Latest(f, H, h, name) = IF said = {} THEN 0 ELSE Max(said)
  BY DEF Latest, said
<1>6. said # {} => Max(said) \in said
  BY <1>1, <1>3, MaxIsGreatest
<1>7. Latest(g, K, h, name) = IF Adding(g, p, K, h, name) THEN p
                              ELSE Latest(f, H, h, name)
  <2>1. CASE Adding(g, p, K, h, name)
    BY <1>2, <1>4, <2>1 DEF Latest
  <2>2. CASE ~ Adding(g, p, K, h, name)
    BY <1>2, <1>5, <2>2 DEF Latest
  <2>. QED  BY <2>1, <2>2
<1>. QED  BY <1>1, <1>2, <1>5, <1>6, <1>7

\* and the value it gives,
LEMMA ValueNext ==
    ASSUME NEW f, NEW p, NEW H, NEW g, NEW q, NEW K, Adds(f, p, H, g, q, K),
           NEW h \in H \cap (1 .. p - 1), NEW name, HasValues(name)
    PROVE  /\ Latest(g, K, h, name) = IF Adding(g, p, K, h, name) THEN p
                                      ELSE Latest(f, H, h, name)
           /\ Latest(f, H, h, name) # 0 =>
                Value1(g, Latest(f, H, h, name)) = Value1(f, Latest(f, H, h, name))
           /\ p # 0
<1>. DEFINE i == Latest(f, H, h, name)
<1>1. /\ Latest(g, K, h, name) = IF Adding(g, p, K, h, name) THEN p ELSE i
      /\ i # 0 => i \in H \cap (1 .. p - 1) /\ f[i] = name
      /\ p # 0
  BY LatestNext
<1>. HIDE DEF i
<1>2. ASSUME i # 0 PROVE Value1(g, i) = Value1(f, i)
  <2>1. i \in H \cap (1 .. p - 1) /\ HasValues(f[i])
    BY <1>1, <1>2
  <2>. QED  BY <2>1, StatementKept
<1>3. i # 0 => Value1(g, i) = Value1(f, i)
  BY <1>2
<1>. QED  BY <1>1, <1>3 DEF i

\* which is the setting,
LEMMA SaysNext ==
    ASSUME NEW f, NEW p, NEW H, NEW g, NEW q, NEW K, Adds(f, p, H, g, q, K),
           NEW h \in H \cap (1 .. p - 1), NEW name, HasValues(name), NEW default
    PROVE  Says(g, K, h, name, default) =
             IF Adding(g, p, K, h, name) THEN Value1(g, p) ELSE Says(f, H, h, name, default)
<1>. DEFINE i == Latest(f, H, h, name)
            j == Latest(g, K, h, name)
<1>1. /\ j = IF Adding(g, p, K, h, name) THEN p ELSE i
      /\ i # 0 => Value1(g, i) = Value1(f, i)
      /\ p # 0
  BY ValueNext
<1>2. /\ Says(g, K, h, name, default) = IF j = 0 THEN default ELSE Value1(g, j)
      /\ Says(f, H, h, name, default) = IF i = 0 THEN default ELSE Value1(f, i)
  BY DEF Says, Value1
<1>. HIDE DEF i, j
<1>3. CASE Adding(g, p, K, h, name)
  BY <1>1, <1>2, <1>3
<1>4. CASE ~ Adding(g, p, K, h, name)
  BY <1>1, <1>2, <1>4
<1>. QED  BY <1>3, <1>4

\* also as a size.
LEMMA LimitNext ==
    ASSUME NEW f, NEW p, NEW H, NEW g, NEW q, NEW K, Adds(f, p, H, g, q, K),
           NEW h \in H \cap (1 .. p - 1), NEW default
    PROVE  Limit(g, K, h, default) =
             IF Adding(g, p, K, h, "client_max_body_size") THEN parseSize(Value1(g, p))
             ELSE Limit(f, H, h, default)
<1>. DEFINE name == "client_max_body_size"
            i == Latest(f, H, h, name)
            j == Latest(g, K, h, name)
<1>1. /\ j = IF Adding(g, p, K, h, name) THEN p ELSE i
      /\ i # 0 => Value1(g, i) = Value1(f, i)
      /\ p # 0
  <2>1. HasValues(name)
    BY DEF HasValues
  <2>. HIDE DEF name
  <2>. QED  BY ONLY <2>1, ValueNext, Adds(f, p, H, g, q, K), h \in H \cap (1 .. p - 1)
<1>2. /\ Limit(g, K, h, default) = IF j = 0 THEN default ELSE parseSize(Value1(g, j))
      /\ Limit(f, H, h, default) = IF i = 0 THEN default ELSE parseSize(Value1(f, i))
  BY DEF Limit, Value1
<1>. HIDE DEF i, j
<1>3. CASE Adding(g, p, K, h, name)
  BY <1>1, <1>2, <1>3
<1>4. CASE ~ Adding(g, p, K, h, name)
  BY <1>1, <1>2, <1>4
<1>. QED  BY <1>3, <1>4

\* Files that agree between two places have the same tokens there.
LEMMA SameList ==
    ASSUME NEW f, NEW g, NEW a \in Int, NEW b \in Int, \A i \in a .. b : g[i] = f[i]
    PROVE  SubSeq(g, a, b) = SubSeq(f, a, b)
<1>. DEFINE S == {f[i] : i \in a .. b}
<1>1. \A i \in a .. b : f[i] \in S /\ g[i] \in S
  OBVIOUS
<1>. HIDE DEF S
<1>2. /\ SubSeq(f, a, b) \in Seq(S)
      /\ Len(SubSeq(f, a, b)) = IF a <= b THEN b - a + 1 ELSE 0
      /\ \A i \in 1 .. b - a + 1 : SubSeq(f, a, b)[i] = f[a + i - 1]
  BY <1>1, SubSeqProperties
<1>3. /\ SubSeq(g, a, b) \in Seq(S)
      /\ Len(SubSeq(g, a, b)) = IF a <= b THEN b - a + 1 ELSE 0
      /\ \A i \in 1 .. b - a + 1 : SubSeq(g, a, b)[i] = g[a + i - 1]
  BY <1>1, SubSeqProperties
<1>4. \A i \in 1 .. b - a + 1 : a + i - 1 \in a .. b
  OBVIOUS
<1>5. \A i \in 1 .. Len(SubSeq(f, a, b)) : i \in 1 .. b - a + 1
  BY <1>2
<1>6. \A i \in 1 .. Len(SubSeq(f, a, b)) : SubSeq(g, a, b)[i] = SubSeq(f, a, b)[i]
  BY <1>2, <1>3, <1>4, <1>5
<1>. QED  BY <1>2, <1>3, <1>6, SeqEqual

\* The last list of methods, after one statement more.
LEMMA MethodsNext ==
    ASSUME NEW f, NEW p, NEW H, NEW g, NEW q, NEW K, Adds(f, p, H, g, q, K),
           NEW h \in H \cap (1 .. p - 1)
    PROVE  Methods(g, K, h) =
             IF Adding(g, p, K, h, "allowed_methods") THEN SubSeq(g, p + 1, ListEnd(g, p) - 1)
             ELSE Methods(f, H, h)
<1>. DEFINE i == Latest(f, H, h, "allowed_methods")
<1>1. /\ Latest(g, K, h, "allowed_methods") =
           IF Adding(g, p, K, h, "allowed_methods") THEN p ELSE i
      /\ i # 0 => i \in H \cap (1 .. p - 1) /\ f[i] = "allowed_methods"
      /\ p # 0
  BY LatestNext
<1>2. ASSUME i # 0 PROVE SubSeq(g, i + 1, ListEnd(g, i) - 1) = SubSeq(f, i + 1, ListEnd(f, i) - 1)
  <2>. DEFINE e == ListEnd(f, i)
  <2>. HIDE DEF i
  <2>1. Complete(f, p, H) /\ IsFile(f, p)
    BY DEF Adds, Complete
  <2>2. e < p /\ ListEnd(g, i) = e
    BY <1>1, <1>2, <2>1, SameWidth, PlaceOfStatement
  <2>r. i \in 1 .. p - 1 /\ p \in Nat
    BY <1>1, <1>2, <2>1 DEF IsFile
  <2>3. e \in Nat /\ p \in Nat /\ i \in Nat
    <3>1. e \in Nat
      BY <2>1, <2>r, ListEndIs
    <3>. QED  BY <2>r, <3>1
  <2>. HIDE DEF e
  <2>4. \A j \in i + 1 .. e - 1 : j \in 1 .. p - 1
    BY <2>2, <2>3
  <2>5. \A j \in i + 1 .. e - 1 : g[j] = f[j]
    BY <2>4 DEF Adds
  <2>6. SubSeq(g, i + 1, e - 1) = SubSeq(f, i + 1, e - 1)
    BY <2>3, <2>5, SameList
  <2>. QED  BY <2>2, <2>6 DEF e
<1>. QED  BY <1>1, <1>2 DEF Methods

\* Up to p the files f and g have the same entries at the places W.
SameEntries(f, g, p, W, keys) ==
    /\ p \in Nat \ {0} /\ W \subseteq 1 .. p - 1 /\ DOMAIN keys = W
    /\ \A i \in W : Value2(g, i) = Value2(f, i)
\* There is one more at p.
MoreEntries(p, W, keys, more) ==
    DOMAIN more = W \cup {p} /\ \A i \in W : more[i] = keys[i]

\* A map is the same when nothing was added to what it is made of.
LEMMA EntriesSame ==
    ASSUME NEW f, NEW g, NEW p, NEW W, NEW keys, SameEntries(f, g, p, W, keys)
    PROVE  Entries(g, keys) = Entries(f, keys)
<1>. DEFINE Of(key) == {i \in DOMAIN keys : keys[i] = key}
<1>0. /\ p \in Nat /\ W \subseteq 0 .. p /\ DOMAIN keys = W
      /\ \A i \in W : Value2(g, i) = Value2(f, i)
  BY DEF SameEntries
<1>1. ASSUME NEW key \in Range(keys) PROVE Max(Of(key)) \in W
  <2>1. Of(key) # {} /\ Of(key) \subseteq W
    BY <1>0, <1>1 DEF Range
  <2>. HIDE DEF Of
  <2>2. Of(key) \subseteq 0 .. p
    BY <1>0, <2>1
  <2>. QED  BY <1>0, <2>1, <2>2, MaxIsGreatest
<1>2. \A key \in Range(keys) : Value2(g, Max(Of(key))) = Value2(f, Max(Of(key)))
  BY <1>0, <1>1
<1>3. \A x : Entries(x, keys) = [key \in Range(keys) |-> Value2(x, Max(Of(key)))]
  BY DEF Entries, Value2
<1>. HIDE DEF Of
<1>. QED  BY <1>2, <1>3

\* One entry more is Put behind the others, as operator[] does.
LEMMA EntriesNext ==
    ASSUME NEW f, NEW g, NEW p, NEW W, NEW keys, SameEntries(f, g, p, W, keys),
           NEW more, MoreEntries(p, W, keys, more)
    PROVE  Entries(g, more) = Put(Entries(f, keys), more[p], Value2(g, p))
<1>. DEFINE Of(key) == {i \in DOMAIN keys : keys[i] = key}
            OfMore(key) == {i \in DOMAIN more : more[i] = key}
<1>s. /\ p \in Nat \ {0} /\ W \subseteq 1 .. p - 1 /\ DOMAIN keys = W
      /\ \A i \in W : Value2(g, i) = Value2(f, i)
      /\ DOMAIN more = W \cup {p} /\ \A i \in W : more[i] = keys[i]
  BY DEF SameEntries, MoreEntries
<1>0. p \notin W /\ p \in Nat /\ W \subseteq 0 .. p /\ W \cup {p} \subseteq 0 .. p
  BY <1>s
<1>1. ASSUME NEW key \in Range(keys), key # more[p]
      PROVE  Max(OfMore(key)) \in W /\ Max(OfMore(key)) = Max(Of(key))
  <2>0. Of(key) # {} /\ Of(key) \subseteq W
    BY <1>s, <1>1 DEF Range
  <2>1. Of(key) # {} /\ Of(key) \subseteq W /\ Of(key) \subseteq 0 .. p
    <3>. HIDE DEF Of
    <3>. QED  BY <1>0, <2>0
  <2>2. OfMore(key) = Of(key)
    BY <1>s, <1>1
  <2>. HIDE DEF Of, OfMore
  <2>3. Max(Of(key)) \in W
    BY <1>0, <2>1, MaxIsGreatest
  <2>. QED  BY <2>2, <2>3
<1>2. Max(OfMore(more[p])) = p
  <2>1. OfMore(more[p]) = (OfMore(more[p]) \ {p}) \cup {p} /\ OfMore(more[p]) \subseteq W \cup {p}
    BY <1>s
  <2>2. OfMore(more[p]) \ {p} \subseteq 0 .. p
    <3>. HIDE DEF OfMore
    <3>. QED  BY <1>0, <2>1
  <2>. HIDE DEF OfMore
  <2>. QED  BY <1>0, <2>1, <2>2, MaxOfMore
<1>3. Range(more) = Range(keys) \cup {more[p]}
  <2>1. Range(more) = {more[i] : i \in W \cup {p}} /\ Range(keys) = {keys[i] : i \in W}
    BY <1>s DEF Range
  <2>2. \A i \in W : more[i] = keys[i]
    BY <1>s
  <2>. QED  BY ONLY <2>1, <2>2
<1>4. /\ Entries(f, keys) = [key \in Range(keys) |-> Value2(f, Max(Of(key)))]
      /\ Entries(g, more) = [key \in Range(more) |-> Value2(g, Max(OfMore(key)))]
  BY DEF Entries, Value2
<1>5. ASSUME NEW key \in Range(more)
      PROVE  Value2(g, Max(OfMore(key))) =
               IF key = more[p] THEN Value2(g, p) ELSE Value2(f, Max(Of(key)))
  BY <1>s, <1>1, <1>2, <1>3
<1>. HIDE DEF Of, OfMore
<1>6. Put(Entries(f, keys), more[p], Value2(g, p)) =
        [key \in Range(keys) \cup {more[p]} |->
           IF key = more[p] THEN Value2(g, p) ELSE Value2(f, Max(Of(key)))]
  BY <1>4 DEF Put
<1>. QED  BY <1>3, <1>4, <1>5, <1>6

Cgi(f, H, h) == Entries(f, [i \in Within(f, H, h, "cgi_ext") |-> Value1(f, i)])

\* The interpreters of a location, after one statement more.
LEMMA CgiNext ==
    ASSUME NEW f, NEW p, NEW H, NEW g, NEW q, NEW K, Adds(f, p, H, g, q, K),
           NEW h \in H \cap (1 .. p - 1)
    PROVE  Cgi(g, K, h) =
             IF Adding(g, p, K, h, "cgi_ext")
             THEN Put(Cgi(f, H, h), Value1(g, p), Value2(g, p))
             ELSE Cgi(f, H, h)
<1>. DEFINE W == Within(f, H, h, "cgi_ext")
            V == Within(g, K, h, "cgi_ext")
            keys == [i \in W |-> Value1(f, i)]
            more == [i \in V |-> Value1(g, i)]
<1>0. /\ W \subseteq H \cap (1 .. p - 1) /\ \A i \in W : f[i] = "cgi_ext"
      /\ V = IF Adding(g, p, K, h, "cgi_ext") THEN W \cup {p} ELSE W
  BY WithinNext DEF Adding
<1>1. \A i \in W : HasValues(f[i])
  <2>. HIDE DEF W
  <2>. QED  BY <1>0 DEF HasValues
<1>2. p \in Nat \ {0} /\ p \in Nat /\ W \subseteq 1 .. p - 1
  BY <1>0 DEF Adds, Complete, IsFile
<1>. HIDE DEF W, V
<1>3. \A i \in W : Value1(g, i) = Value1(f, i) /\ Value2(g, i) = Value2(f, i)
  BY <1>0, <1>1, StatementKept
<1>4. Cgi(f, H, h) = Entries(f, keys) /\ Cgi(g, K, h) = Entries(g, more)
  BY DEF Cgi, W, V
<1>5. CASE Adding(g, p, K, h, "cgi_ext")
  <2>1. V = W \cup {p} /\ p \in V
    BY <1>0, <1>5
  <2>2. more[p] = Value1(g, p)
    BY <2>1
  <2>3. SameEntries(f, g, p, W, keys) /\ MoreEntries(p, W, keys, more)
    BY <1>2, <1>3, <2>1 DEF SameEntries, MoreEntries
  <2>. HIDE DEF keys, more
  <2>4. Entries(g, more) = Put(Entries(f, keys), more[p], Value2(g, p))
    BY <2>3, EntriesNext
  <2>. QED  BY <1>4, <1>5, <2>2, <2>4
<1>6. CASE ~ Adding(g, p, K, h, "cgi_ext")
  <2>1. more = keys
    BY <1>0, <1>3, <1>6
  <2>2. SameEntries(f, g, p, W, keys)
    BY <1>2, <1>3 DEF SameEntries
  <2>. HIDE DEF keys, more
  <2>3. Entries(g, keys) = Entries(f, keys)
    BY <2>2, EntriesSame
  <2>. QED  BY <1>4, <1>6, <2>1, <2>3
<1>. QED  BY <1>5, <1>6

Pages(f, H, h) == Entries(f, [i \in Within(f, H, h, "error_page") |-> atoi(Value1(f, i))])

\* The error pages of a server, after one statement more.
LEMMA PagesNext ==
    ASSUME NEW f, NEW p, NEW H, NEW g, NEW q, NEW K, Adds(f, p, H, g, q, K),
           NEW h \in H \cap (1 .. p - 1)
    PROVE  Pages(g, K, h) =
             IF Adding(g, p, K, h, "error_page")
             THEN Put(Pages(f, H, h), atoi(Value1(g, p)), Value2(g, p))
             ELSE Pages(f, H, h)
<1>. DEFINE W == Within(f, H, h, "error_page")
            V == Within(g, K, h, "error_page")
            keys == [i \in W |-> atoi(Value1(f, i))]
            more == [i \in V |-> atoi(Value1(g, i))]
<1>0. /\ W \subseteq H \cap (1 .. p - 1) /\ \A i \in W : f[i] = "error_page"
      /\ V = IF Adding(g, p, K, h, "error_page") THEN W \cup {p} ELSE W
  BY WithinNext DEF Adding
<1>1. \A i \in W : HasValues(f[i])
  <2>. HIDE DEF W
  <2>. QED  BY <1>0 DEF HasValues
<1>2. p \in Nat \ {0} /\ p \in Nat /\ W \subseteq 1 .. p - 1
  BY <1>0 DEF Adds, Complete, IsFile
<1>. HIDE DEF W, V
<1>3. \A i \in W : Value1(g, i) = Value1(f, i) /\ Value2(g, i) = Value2(f, i)
  BY <1>0, <1>1, StatementKept
<1>4. Pages(f, H, h) = Entries(f, keys) /\ Pages(g, K, h) = Entries(g, more)
  BY DEF Pages, W, V
<1>5. CASE Adding(g, p, K, h, "error_page")
  <2>1. V = W \cup {p} /\ p \in V
    BY <1>0, <1>5
  <2>2. more[p] = atoi(Value1(g, p))
    BY <2>1
  <2>3. SameEntries(f, g, p, W, keys) /\ MoreEntries(p, W, keys, more)
    BY <1>2, <1>3, <2>1 DEF SameEntries, MoreEntries
  <2>. HIDE DEF keys, more
  <2>4. Entries(g, more) = Put(Entries(f, keys), more[p], Value2(g, p))
    BY <2>3, EntriesNext
  <2>. QED  BY <1>4, <1>5, <2>2, <2>4
<1>6. CASE ~ Adding(g, p, K, h, "error_page")
  <2>1. more = keys
    BY <1>0, <1>3, <1>6
  <2>2. SameEntries(f, g, p, W, keys)
    BY <1>2, <1>3 DEF SameEntries
  <2>. HIDE DEF keys, more
  <2>3. Entries(g, keys) = Entries(f, keys)
    BY <2>2, EntriesSame
  <2>. QED  BY <1>4, <1>6, <2>1, <2>3
<1>. QED  BY <1>5, <1>6

\* A block with one statement more: its name, its values, the tokens until the ;
LocationWith(old, t, v, w, list) ==
    [path |-> old.path,
     root |-> IF t = "root" THEN v ELSE old.root,
     index |-> IF t = "index" THEN v ELSE old.index,
     methods |-> IF t = "allowed_methods" THEN list ELSE old.methods,
     autoindex |-> IF t = "autoindex" THEN v = "on" ELSE old.autoindex,
     uploadStore |-> IF t = "upload_store" THEN v ELSE old.uploadStore,
     redirect |-> IF t = "return" THEN v ELSE old.redirect,
     cgi |-> IF t = "cgi_ext" THEN Put(old.cgi, v, w) ELSE old.cgi,
     limit |-> IF t = "client_max_body_size" THEN parseSize(v) ELSE old.limit]
ServerWith(old, t, v, w, locations) ==
    [port |-> IF t = "listen" THEN atoi(v) ELSE old.port,
     root |-> IF t = "root" THEN v ELSE old.root,
     index |-> IF t = "index" THEN v ELSE old.index,
     limit |-> IF t = "client_max_body_size" THEN parseSize(v) ELSE old.limit,
     errorPages |-> IF t = "error_page" THEN Put(old.errorPages, atoi(v), w)
                    ELSE old.errorPages,
     locations |-> locations]

\* A location changes by the directive that is added in it.
LEMMA LocationNext ==
    ASSUME NEW f, NEW p, NEW H, NEW g, NEW q, NEW K, Adds(f, p, H, g, q, K),
           NEW h \in H \cap (1 .. p - 1), f[h] = "location"
    PROVE  LocationAt(g, K, h) =
             IF p \in Inside(g, K, h)
             THEN LocationWith(LocationAt(f, H, h), g[p], Value1(g, p), Value2(g, p),
                               SubSeq(g, p + 1, ListEnd(g, p) - 1))
             ELSE LocationAt(f, H, h)
<1>. DEFINE here(name) == Adding(g, p, K, h, name)
            old == LocationAt(f, H, h)
            list == SubSeq(g, p + 1, ListEnd(g, p) - 1)
<1>1. \A x, X : LocationAt(x, X, h) =
        [path |-> Value1(x, h),
         root |-> Says(x, X, h, "root", DefaultRoot),
         index |-> Says(x, X, h, "index", DefaultIndex),
         methods |-> Methods(x, X, h),
         autoindex |-> Says(x, X, h, "autoindex", "off") = "on",
         uploadStore |-> Says(x, X, h, "upload_store", Empty),
         redirect |-> Says(x, X, h, "return", Empty),
         cgi |-> Cgi(x, X, h),
         limit |-> Limit(x, X, h, 0)]
  BY DEF LocationAt, Cgi, Value1
<1>2. Value1(g, h) = Value1(f, h)
  <2>1. HasValues(f[h])
    BY DEF HasValues
  <2>. QED  BY <2>1, StatementKept
<1>3. \A name, default : HasValues(name) =>
        Says(g, K, h, name, default) =
          IF here(name) THEN Value1(g, p) ELSE Says(f, H, h, name, default)
  BY SaysNext
<1>4. /\ HasValues("root") /\ HasValues("index") /\ HasValues("autoindex")
      /\ HasValues("upload_store") /\ HasValues("return")
  BY DEF HasValues
<1>5. /\ old.path = Value1(f, h)
      /\ old.root = Says(f, H, h, "root", DefaultRoot)
      /\ old.index = Says(f, H, h, "index", DefaultIndex)
      /\ old.methods = Methods(f, H, h)
      /\ old.autoindex = (Says(f, H, h, "autoindex", "off") = "on")
      /\ old.uploadStore = Says(f, H, h, "upload_store", Empty)
      /\ old.redirect = Says(f, H, h, "return", Empty)
      /\ old.cgi = Cgi(f, H, h)
      /\ old.limit = Limit(f, H, h, 0)
  BY <1>1
<1>6. LocationAt(g, K, h) =
        [path |-> old.path,
         root |-> IF here("root") THEN Value1(g, p) ELSE old.root,
         index |-> IF here("index") THEN Value1(g, p) ELSE old.index,
         methods |-> IF here("allowed_methods") THEN list ELSE old.methods,
         autoindex |-> IF here("autoindex") THEN Value1(g, p) = "on" ELSE old.autoindex,
         uploadStore |-> IF here("upload_store") THEN Value1(g, p) ELSE old.uploadStore,
         redirect |-> IF here("return") THEN Value1(g, p) ELSE old.redirect,
         cgi |-> IF here("cgi_ext") THEN Put(old.cgi, Value1(g, p), Value2(g, p)) ELSE old.cgi,
         limit |-> IF here("client_max_body_size") THEN parseSize(Value1(g, p))
                   ELSE old.limit]
  <2>. HIDE DEF old, here, list
  <2>1. /\ Methods(g, K, h) = IF here("allowed_methods") THEN list ELSE Methods(f, H, h)
        /\ Cgi(g, K, h) = IF here("cgi_ext") THEN Put(Cgi(f, H, h), Value1(g, p), Value2(g, p))
                          ELSE Cgi(f, H, h)
        /\ Limit(g, K, h, 0) = IF here("client_max_body_size") THEN parseSize(Value1(g, p))
                               ELSE Limit(f, H, h, 0)
    BY MethodsNext, CgiNext, LimitNext DEF here, list
  <2>. QED  BY <1>1, <1>2, <1>3, <1>4, <1>5, <2>1
<1>7. CASE p \in Inside(g, K, h)
  <2>1. \A name : here(name) <=> g[p] = name
    BY <1>7 DEF Adding
  <2>. HIDE DEF old, here, list
  <2>2. LocationAt(g, K, h) = LocationWith(old, g[p], Value1(g, p), Value2(g, p), list)
    BY <1>6, <2>1 DEF LocationWith
  <2>. QED  BY <1>7, <2>2 DEF old, list
<1>8. CASE p \notin Inside(g, K, h)
  <2>1. \A name : ~ here(name)
    BY <1>8 DEF Adding
  <2>. HIDE DEF here, list
  <2>. QED  BY <1>1, <1>6, <1>8, <2>1
<1>. QED  BY <1>7, <1>8

\* The settings of a server change by the directive that is added in it.
LEMMA ServerNext ==
    ASSUME NEW f, NEW p, NEW H, NEW g, NEW q, NEW K, Adds(f, p, H, g, q, K),
           NEW h \in H \cap (1 .. p - 1)
    PROVE  ServerAt(g, K, h) =
             IF p \in Inside(g, K, h)
             THEN ServerWith(ServerAt(f, H, h), g[p], Value1(g, p), Value2(g, p),
                             ServerAt(g, K, h).locations)
             ELSE [ServerAt(f, H, h) EXCEPT !.locations = ServerAt(g, K, h).locations]
<1>. DEFINE here(name) == Adding(g, p, K, h, name)
            old == ServerAt(f, H, h)
            Port(x, X) == IF Latest(x, X, h, "listen") = 0 THEN DefaultPort
                          ELSE atoi(Value1(x, Latest(x, X, h, "listen")))
            Places(x, X) == InOrder(Within(x, X, h, "location"))
            Locations(x, X) == [k \in DOMAIN Places(x, X) |-> LocationAt(x, X, Places(x, X)[k])]
<1>1. \A x, X : ServerAt(x, X, h) =
        [port |-> Port(x, X),
         root |-> Says(x, X, h, "root", DefaultRoot),
         index |-> Says(x, X, h, "index", DefaultIndex),
         limit |-> Limit(x, X, h, DefaultLimit),
         errorPages |-> Pages(x, X, h),
         locations |-> Locations(x, X)]
  BY DEF ServerAt, Pages, Value1
<1>2. Port(g, K) = IF here("listen") THEN atoi(Value1(g, p)) ELSE Port(f, H)
  <2>1. HasValues("listen")
    BY DEF HasValues
  <2>2. /\ Latest(g, K, h, "listen") = IF here("listen") THEN p ELSE Latest(f, H, h, "listen")
        /\ Latest(f, H, h, "listen") # 0 =>
             Value1(g, Latest(f, H, h, "listen")) = Value1(f, Latest(f, H, h, "listen"))
        /\ p # 0
    BY <2>1, ValueNext
  <2>. HIDE DEF here
  <2>. QED  BY <2>2
<1>. HIDE DEF Port, Locations
<1>3. \A name, default : HasValues(name) =>
        Says(g, K, h, name, default) =
          IF here(name) THEN Value1(g, p) ELSE Says(f, H, h, name, default)
  BY SaysNext
<1>4. HasValues("root") /\ HasValues("index")
  BY DEF HasValues
<1>5. /\ old.port = Port(f, H)
      /\ old.root = Says(f, H, h, "root", DefaultRoot)
      /\ old.index = Says(f, H, h, "index", DefaultIndex)
      /\ old.limit = Limit(f, H, h, DefaultLimit)
      /\ old.errorPages = Pages(f, H, h)
  BY <1>1
<1>6. ServerAt(g, K, h) =
        [port |-> IF here("listen") THEN atoi(Value1(g, p)) ELSE old.port,
         root |-> IF here("root") THEN Value1(g, p) ELSE old.root,
         index |-> IF here("index") THEN Value1(g, p) ELSE old.index,
         limit |-> IF here("client_max_body_size") THEN parseSize(Value1(g, p))
                   ELSE old.limit,
         errorPages |-> IF here("error_page")
                        THEN Put(old.errorPages, atoi(Value1(g, p)), Value2(g, p))
                        ELSE old.errorPages,
         locations |-> Locations(g, K)]
  <2>. HIDE DEF old, here
  <2>1. /\ Pages(g, K, h) =
             IF here("error_page") THEN Put(Pages(f, H, h), atoi(Value1(g, p)), Value2(g, p))
             ELSE Pages(f, H, h)
        /\ Limit(g, K, h, DefaultLimit) =
             IF here("client_max_body_size") THEN parseSize(Value1(g, p))
             ELSE Limit(f, H, h, DefaultLimit)
    BY PagesNext, LimitNext DEF here
  <2>. QED  BY <1>1, <1>2, <1>3, <1>4, <1>5, <2>1
<1>7. ServerAt(g, K, h).locations = Locations(g, K)
  BY <1>1
<1>8. CASE p \in Inside(g, K, h)
  <2>1. \A name : here(name) <=> g[p] = name
    BY <1>8 DEF Adding
  <2>. HIDE DEF old, here
  <2>2. ServerAt(g, K, h) = ServerWith(old, g[p], Value1(g, p), Value2(g, p), Locations(g, K))
    BY <1>6, <2>1 DEF ServerWith
  <2>. QED  BY <1>7, <1>8, <2>2 DEF old
<1>9. CASE p \notin Inside(g, K, h)
  <2>1. \A name : ~ here(name)
    BY <1>9 DEF Adding
  <2>. HIDE DEF here
  <2>2. ServerAt(g, K, h) = [old EXCEPT !.locations = Locations(g, K)]
    BY <1>1, <1>6, <2>1
  <2>. QED  BY <1>7, <1>9, <2>2
<1>. QED  BY <1>8, <1>9

-----------------------------------------------------------------------------
(* What the parser has of the file so far.                                 *)

DoneServers(f, H) == {h \in Servers(f, H) : ~ Open(f, H, h)}
DoneLocations(f, H, h) == {i \in Within(f, H, h, "location") : ~ Open(f, H, i)}

AreServers(f, H, list, S) ==
    /\ Len(list) = Cardinality(S)
    /\ \A k \in 1 .. Cardinality(S) : list[k] = ServerAt(f, H, InOrder(S)[k])
AreLocations(f, H, list, S) ==
    /\ Len(list) = Cardinality(S)
    /\ \A k \in 1 .. Cardinality(S) : list[k] = LocationAt(f, H, InOrder(S)[k])

\* Of the block at h, its locations as far as they are closed.
IsServerAt(f, H, h, s) ==
    /\ s = [ServerAt(f, H, h) EXCEPT !.locations = s.locations]
    /\ AreLocations(f, H, s.locations, DoneLocations(f, H, h))

\* At the three levels: between server blocks, in one, and in a location of it.
AtFile(f, p, H, list) ==
    /\ Complete(f, p, H) /\ Depth(f, H, p) = 0
    /\ AreServers(f, H, list, DoneServers(f, H))
InServer(f, p, H, h, s, list) ==
    /\ Complete(f, p, H) /\ AreServers(f, H, list, DoneServers(f, H))
    /\ h \in Servers(f, H) /\ Open(f, H, h) /\ IsServerAt(f, H, h, s)
AtServer(f, p, H, s, list) ==
    Depth(f, H, p) = 1 /\ \E h : InServer(f, p, H, h, s, list)
AtLocation(f, p, H, s, l, list) ==
    /\ Depth(f, H, p) = 2
    /\ \E h : /\ InServer(f, p, H, h, s, list)
             /\ \E i \in Within(f, H, h, "location") :
                  Open(f, H, i) /\ l = LocationAt(f, H, i)

\* Server blocks stand outside, locations in server blocks.
LEMMA DepthOfBlock ==
    ASSUME NEW f, NEW p, NEW H, Complete(f, p, H)
    PROVE  /\ p \in Nat /\ H \subseteq 0 .. p /\ Depth(f, H, p) \in Int
           /\ Servers(f, H) \subseteq H \cap (1 .. p - 1)
           /\ \A h \in Servers(f, H) :
                /\ f[h] = "server" /\ Depth(f, H, h) = 0
                /\ Open(f, H, h) => Depth(f, H, p) > 0
           /\ \A h \in H \cap (1 .. p - 1) : f[h] = "location" =>
                /\ Depth(f, H, h) = 1
                /\ Open(f, H, h) => Depth(f, H, p) > 1
<1>1. /\ p \in Nat /\ p \in H /\ H \subseteq 1 .. p /\ DOMAIN f = 1 .. p - 1
  BY DEF Complete, IsFile
<1>2. Depth(f, H, p) \in Int /\ H \subseteq 0 .. p
  <2>1. Depth(f, H, p) \in Int
    BY <1>1, DepthIsNumber
  <2>2. H \subseteq 0 .. p
    BY <1>1
  <2>. QED  BY <2>1, <2>2
<1>3. /\ Servers(f, H) \subseteq H \cap (1 .. p - 1)
      /\ \A h \in Servers(f, H) : f[h] = "server"
  BY <1>1 DEF Servers
<1>4. \A h \in H \cap (1 .. p - 1) : h < p
  BY <1>1
<1>5. ASSUME NEW h \in H \cap (1 .. p - 1), f[h] = "server" PROVE Depth(f, H, h) = 0
  <2>1. StatementOK(f, H, h)
    BY DEF Complete
  <2>. QED  BY <1>5, <2>1 DEF StatementOK
<1>6. ASSUME NEW h \in H \cap (1 .. p - 1), f[h] = "location" PROVE Depth(f, H, h) = 1
  <2>1. StatementOK(f, H, h)
    BY DEF Complete
  <2>. QED  BY <1>6, <2>1 DEF StatementOK
<1>7. \A h \in H \cap (1 .. p - 1) : Open(f, H, h) => Depth(f, H, p) > Depth(f, H, h)
  BY <1>1, <1>4 DEF Open
<1>8. \A h \in Servers(f, H) : Depth(f, H, h) = 0 /\ (Open(f, H, h) => Depth(f, H, p) > 0)
  BY <1>3, <1>5, <1>7
<1>9. \A h \in H \cap (1 .. p - 1) : f[h] = "location" =>
         Depth(f, H, h) = 1 /\ (Open(f, H, h) => Depth(f, H, p) > 1)
  BY <1>6, <1>7
<1>. QED  BY <1>1, <1>2, <1>3, <1>8, <1>9

\* The server blocks, after one statement more.
LEMMA ServersNext ==
    ASSUME NEW f, NEW p, NEW H, NEW g, NEW q, NEW K, Adds(f, p, H, g, q, K)
    PROVE  Servers(g, K) = IF g[p] = "server" THEN Servers(f, H) \cup {p} ELSE Servers(f, H)
<1>1. K \cap DOMAIN g = (H \cap DOMAIN f) \cup {p}
  BY NextHeads DEF Adds, Complete, IsFile
<1>2. \A h \in H \cap DOMAIN f : g[h] = f[h]
  BY DEF Adds, Complete, IsFile
<1>. QED  BY <1>1, <1>2 DEF Servers

\* A block that is left stays what it was.
LEMMA OldLocations ==
    ASSUME NEW f, NEW p, NEW H, NEW g, NEW q, NEW K, Adds(f, p, H, g, q, K),
           NEW S, S \subseteq H \cap (1 .. p - 1),
           \A i \in S : f[i] = "location" /\ p \notin Inside(g, K, i)
    PROVE  /\ \A k \in 1 .. Cardinality(S) :
                LocationAt(g, K, InOrder(S)[k]) = LocationAt(f, H, InOrder(S)[k])
           /\ \A list : AreLocations(f, H, list, S) => AreLocations(g, K, list, S)
<1>1. p \in Nat /\ S \subseteq 0 .. p
  BY DEF Adds, Complete, IsFile
<1>2. \A k \in 1 .. Cardinality(S) : InOrder(S)[k] \in S
  BY <1>1, InOrderAreOf
<1>3. \A i \in S : LocationAt(g, K, i) = LocationAt(f, H, i)
  BY LocationNext
<1>4. \A k \in 1 .. Cardinality(S) :
        LocationAt(g, K, InOrder(S)[k]) = LocationAt(f, H, InOrder(S)[k])
  BY <1>2, <1>3
<1>. QED  BY <1>4 DEF AreLocations

\* The statement at p is about none of the locations in the block at h.
NoLocationChanges(f, p, H, g, K, h) ==
    /\ ~ Adding(g, p, K, h, "location")
    /\ \A i \in Within(f, H, h, "location") : p \notin Inside(g, K, i)

\* and with them the locations of a server.
LEMMA SameServer ==
    ASSUME NEW f, NEW p, NEW H, NEW g, NEW q, NEW K, Adds(f, p, H, g, q, K),
           NEW h \in H \cap (1 .. p - 1), NoLocationChanges(f, p, H, g, K, h)
    PROVE  ServerAt(g, K, h).locations = ServerAt(f, H, h).locations
<1>. DEFINE S == Within(f, H, h, "location")
            T == Within(g, K, h, "location")
<1>1. S \subseteq H \cap (1 .. p - 1) /\ T = S /\ \A i \in S : f[i] = "location"
  BY WithinNext DEF Adding, NoLocationChanges
<1>2. \A k \in 1 .. Cardinality(S) :
        LocationAt(g, K, InOrder(S)[k]) = LocationAt(f, H, InOrder(S)[k])
  <2>. HIDE DEF S, T
  <2>1. \A i \in S : p \notin Inside(g, K, i)
    BY DEF S, NoLocationChanges
  <2>. QED  BY <1>1, <2>1, OldLocations
<1>3. \A U : DOMAIN InOrder(U) = 1 .. Cardinality(U)
  BY DEF InOrder
<1>4. /\ ServerAt(f, H, h).locations =
           [k \in DOMAIN InOrder(S) |-> LocationAt(f, H, InOrder(S)[k])]
      /\ ServerAt(g, K, h).locations =
           [k \in DOMAIN InOrder(T) |-> LocationAt(g, K, InOrder(T)[k])]
  BY DEF ServerAt
<1>. HIDE DEF S, T
<1>. QED  BY <1>1, <1>2, <1>3, <1>4

\* A server block that is closed stays what it was,
LEMMA OldServer ==
    ASSUME NEW f, NEW p, NEW H, NEW g, NEW q, NEW K, Adds(f, p, H, g, q, K),
           NEW h \in H \cap (1 .. p - 1), ~ Open(f, H, h)
    PROVE  ServerAt(g, K, h) = ServerAt(f, H, h)
<1>1. p \notin Inside(g, K, h) /\ p \notin Inside(f, H, h)
  <2>1. p \notin H \cap (1 .. p - 1)
    BY DEF Adds, Complete, IsFile
  <2>. QED  BY <2>1, InsideNext
<1>2. ASSUME NEW i \in Within(f, H, h, "location") PROVE p \notin Inside(g, K, i)
  <2>1. i \in Inside(f, H, h) /\ i \in H \cap (1 .. p - 1)
    BY InsideNext DEF Within
  <2>2. ~ Open(f, H, i)
    BY <2>1, OpenInside DEF Adds
  <2>3. p \notin Inside(f, H, i)
    <3>1. p \notin H \cap (1 .. p - 1)
      BY DEF Adds, Complete, IsFile
    <3>. QED  BY <3>1, InsideNext
  <2>. QED  BY <2>1, <2>2, <2>3, InsideNext
<1>3. ServerAt(g, K, h).locations = ServerAt(f, H, h).locations
  <2>1. NoLocationChanges(f, p, H, g, K, h)
    BY <1>1, <1>2 DEF Adding, NoLocationChanges
  <2>. QED  BY <2>1, SameServer
<1>4. ServerAt(g, K, h) = [ServerAt(f, H, h) EXCEPT !.locations = ServerAt(g, K, h).locations]
  BY <1>1, ServerNext
<1>5. [ServerAt(f, H, h) EXCEPT !.locations = ServerAt(f, H, h).locations] = ServerAt(f, H, h)
  BY DEF ServerAt
<1>. QED  BY <1>3, <1>4, <1>5

\* and so do all of them.
LEMMA OldServers ==
    ASSUME NEW f, NEW p, NEW H, NEW g, NEW q, NEW K, Adds(f, p, H, g, q, K),
           NEW list, AreServers(f, H, list, DoneServers(f, H))
    PROVE  AreServers(g, K, list, DoneServers(f, H))
<1>. DEFINE S == DoneServers(f, H)
<1>0. Complete(f, p, H)
  BY DEF Adds
<1>1. S \subseteq H \cap (1 .. p - 1) /\ \A h \in S : ~ Open(f, H, h)
  BY <1>0, DepthOfBlock DEF DoneServers
<1>. HIDE DEF S
<1>2. p \in Nat /\ S \subseteq 0 .. p
  BY <1>0, <1>1, DepthOfBlock
<1>3. \A k \in 1 .. Cardinality(S) : InOrder(S)[k] \in S
  BY <1>2, InOrderAreOf
<1>4. \A h \in S : ServerAt(g, K, h) = ServerAt(f, H, h)
  BY <1>1, OldServer
<1>. QED  BY <1>3, <1>4 DEF AreServers, S

\* The statement at p is in a block just when that is open and one level up.
LEMMA AddedInside ==
    ASSUME NEW f, NEW p, NEW H, NEW g, NEW q, NEW K, Adds(f, p, H, g, q, K),
           NEW h \in H \cap (1 .. p - 1)
    PROVE  p \in Inside(g, K, h) <=>
             Depth(f, H, p) = Depth(f, H, h) + 1 /\ Open(f, H, h)
<1>1. p \notin Inside(f, H, h)
  <2>1. p \notin H \cap (1 .. p - 1)
    BY DEF Adds, Complete, IsFile
  <2>. QED  BY <2>1, InsideNext
<1>. QED  BY <1>1, InsideNext

\* Inside an open server block none is begun or closed.
LEMMA SameServers ==
    ASSUME NEW f, NEW p, NEW H, NEW g, NEW q, NEW K, Adds(f, p, H, g, q, K),
           g[p] # "server", Depth(g, K, q) > 0
    PROVE  /\ DoneServers(g, K) = DoneServers(f, H)
           /\ \A h \in Servers(f, H) :
                h \in Servers(g, K) /\ (Open(f, H, h) => Open(g, K, h))
<1>1. Servers(g, K) = Servers(f, H)
  BY ServersNext
<1>2. /\ Servers(f, H) \subseteq H \cap (1 .. p - 1)
      /\ \A h \in Servers(f, H) : Depth(f, H, h) = 0
  BY DepthOfBlock DEF Adds
<1>3. \A h \in Servers(f, H) : Open(g, K, h) <=> Open(f, H, h)
  BY <1>2, OpenNext
<1>. QED  BY <1>1, <1>3 DEF DoneServers

\* What the parser knows of the server block that is open.
LEMMA TheServer ==
    ASSUME NEW f, NEW p, NEW H, Complete(f, p, H), NEW h \in Servers(f, H), Open(f, H, h)
    PROVE  /\ h \in H \cap (1 .. p - 1) /\ Depth(f, H, h) = 0
           /\ DoneServers(f, H) = Servers(f, H) \ {h}
           /\ DoneServers(f, H) \subseteq 0 .. h - 1
<1>1. /\ Servers(f, H) \subseteq H \cap (1 .. p - 1)
      /\ \A i \in Servers(f, H) : f[i] = "server" /\ Depth(f, H, i) = 0
  BY DepthOfBlock
<1>2. h \in H \cap (1 .. p - 1) /\ h \in Nat
  BY <1>1
<1>3. \A i \in Servers(f, H) : Opening(f, i)
  BY <1>1 DEF Opening
<1>4. ASSUME NEW i \in Servers(f, H) PROVE i \in Nat /\ i <= h /\ (Open(f, H, i) => i = h)
  <2>1. i \in H \cap (1 .. p - 1) /\ i \in Nat /\ f[i] = f[h] /\ Opening(f, h) /\ Opening(f, i)
    BY <1>1, <1>3
  <2>2. i <= h
    BY <1>2, <2>1, OneOpen
  <2>3. Open(f, H, i) => h <= i
    BY <1>2, <2>1, OneOpen
  <2>. QED  BY <1>2, <2>1, <2>2, <2>3
<1>5. DoneServers(f, H) = Servers(f, H) \ {h}
  BY <1>4 DEF DoneServers
<1>6. \A i \in Servers(f, H) \ {h} : i \in 0 .. h - 1
  BY <1>2, <1>4
<1>. QED  BY <1>1, <1>2, <1>5, <1>6

\* The open location is the last one, and the only one.
LEMMA TheLocation ==
    ASSUME NEW f, NEW p, NEW H, Complete(f, p, H), NEW h,
           NEW i \in Within(f, H, h, "location"), Open(f, H, i)
    PROVE  /\ i \in H \cap (1 .. p - 1) /\ Depth(f, H, i) = 1 /\ f[i] = "location"
           /\ DoneLocations(f, H, h) = Within(f, H, h, "location") \ {i}
           /\ DoneLocations(f, H, h) \subseteq 0 .. i - 1
           /\ \A j \in H \cap (1 .. p - 1) : f[j] = "location" /\ Open(f, H, j) => j = i
<1>. DEFINE W == Within(f, H, h, "location")
<1>1. /\ W \subseteq H \cap (1 .. p - 1) /\ \A j \in W : f[j] = "location"
  BY DEF Complete, IsFile, Within, Inside
<1>2. i \in H \cap (1 .. p - 1) /\ i \in Nat /\ Opening(f, i) /\ f[i] = "location"
  BY <1>1 DEF Opening
<1>3. ASSUME NEW j \in H \cap (1 .. p - 1), f[j] = "location"
      PROVE  j \in Nat /\ j <= i /\ (Open(f, H, j) => j = i)
  <2>1. f[i] = f[j] /\ Opening(f, j) /\ j \in Nat
    BY <1>2, <1>3 DEF Opening
  <2>2. j <= i
    BY <1>2, <2>1, OneOpen
  <2>3. Open(f, H, j) => i <= j
    BY <1>2, <2>1, OneOpen
  <2>. QED  BY <1>2, <2>1, <2>2, <2>3
<1>4. DoneLocations(f, H, h) = W \ {i}
  BY <1>1, <1>3 DEF DoneLocations
<1>. HIDE DEF W
<1>5. \A j \in W \ {i} : j \in 0 .. i - 1
  BY <1>1, <1>2, <1>3
<1>6. Depth(f, H, i) = 1
  BY <1>2, DepthOfBlock
<1>. QED  BY <1>2, <1>3, <1>4, <1>5, <1>6 DEF W

-----------------------------------------------------------------------------
(* What each statement of the grammar makes of it.                          *)

\* How a server block begins.
BeginsServer(g, p) == IsAt(g, p, "server") /\ IsAt(g, p + 1, "{")

\* A server block without statements is what the constructor makes.
LEMMA EmptyServer ==
    ASSUME NEW g, NEW K, NEW p, \A name : Within(g, K, p, name) = {}
    PROVE  IsServerAt(g, K, p, NewServer)
<1>1. \A name : Latest(g, K, p, name) = 0
  BY DEF Latest
<1>2. Pages(g, K, p) = NoMap
  <2>. DEFINE keys == [i \in Within(g, K, p, "error_page") |-> atoi(Value1(g, i))]
  <2>1. DOMAIN keys = {} /\ Range(keys) = {}
    BY DEF Range
  <2>. HIDE DEF keys
  <2>2. Entries(g, keys) = NoMap
    BY <2>1 DEF Entries, NoMap
  <2>. QED  BY <2>2 DEF Pages, keys
<1>3. NewServer = [ServerAt(g, K, p) EXCEPT !.locations = <<>>]
  <2>1. \A name, default : Says(g, K, p, name, default) = default
    BY <1>1 DEF Says
  <2>2. \A default : Limit(g, K, p, default) = default
    BY <1>1 DEF Limit
  <2>3. /\ ServerAt(g, K, p).port = DefaultPort
        /\ ServerAt(g, K, p).errorPages = Pages(g, K, p)
        /\ ServerAt(g, K, p).root = Says(g, K, p, "root", DefaultRoot)
        /\ ServerAt(g, K, p).index = Says(g, K, p, "index", DefaultIndex)
        /\ ServerAt(g, K, p).limit = Limit(g, K, p, DefaultLimit)
    BY <1>1 DEF ServerAt, Pages, Value1
  <2>4. \E locations : ServerAt(g, K, p) =
          [port |-> ServerAt(g, K, p).port, root |-> ServerAt(g, K, p).root,
           index |-> ServerAt(g, K, p).index, limit |-> ServerAt(g, K, p).limit,
           errorPages |-> ServerAt(g, K, p).errorPages, locations |-> locations]
    BY DEF ServerAt
  <2>. QED  BY <1>2, <2>1, <2>2, <2>3, <2>4 DEF NewServer
<1>4. NewServer.locations = <<>>
  BY DEF NewServer
<1>5. AreLocations(g, K, <<>>, {})
  <2>1. Cardinality({}) = 0
    BY FS_EmptySet
  <2>2. Len(<<>>) = 0 /\ 1 .. 0 = {}
    OBVIOUS
  <2>. QED  BY <2>1, <2>2 DEF AreLocations
<1>6. DoneLocations(g, K, p) = {}
  BY DEF DoneLocations
<1>. QED  BY <1>3, <1>4, <1>5, <1>6 DEF IsServerAt

\* A block that begins is one level deeper.
LEMMA DepthRises ==
    ASSUME NEW f, NEW p, NEW H, NEW g, NEW q, NEW K, Adds(f, p, H, g, q, K), Opening(g, p)
    PROVE  Depth(g, K, q) = Depth(f, H, p) + 1
BY DepthNext

IsServer(g, p) == g[p] = "server"

\* The word server is a server block more.
LEMMA OneServerMore ==
    ASSUME NEW f, NEW p, NEW H, NEW g, NEW q, NEW K, Adds(f, p, H, g, q, K), IsServer(g, p)
    PROVE  Servers(g, K) = Servers(f, H) \cup {p}
BY ServersNext DEF IsServer

\* The words server { begin an empty server block.
LEMMA ServerBegins ==
    ASSUME NEW f, NEW p, NEW H, NEW g, NEW q, NEW K, Adds(f, p, H, g, q, K),
           NEW list, AtFile(f, p, H, list), BeginsServer(g, p)
    PROVE  AtServer(g, q, K, NewServer, list)
<1>0. p \in 1 .. p /\ p \in Nat
  BY DEF Adds, Complete, IsFile
<1>1. Complete(f, p, H) /\ Depth(f, H, p) = 0
  BY DEF AtFile
<1>d. Depth(g, K, p) = 0
  BY <1>0, <1>1, DepthKept
<1>t. g[p] = "server" /\ IsAt(g, p + 1, "{")
  BY DEF BeginsServer, IsAt
<1>2. StatementOK(g, K, p)
  BY <1>d, <1>t DEF StatementOK
<1>3. Complete(g, q, K)
  BY <1>2, NextComplete
<1>4. Depth(g, K, q) = 1
  <2>1. Opening(g, p)
    BY <1>t DEF Opening
  <2>2. Depth(g, K, q) = Depth(f, H, p) + 1
    BY <2>1, DepthRises
  <2>. QED  BY <1>1, <2>2
<1>5. /\ Servers(f, H) \subseteq H \cap (1 .. p - 1)
      /\ \A h \in Servers(f, H) : ~ Open(f, H, h)
  <2>1. \A h \in Servers(f, H) : Open(f, H, h) => Depth(f, H, p) > 0
    BY <1>1, DepthOfBlock
  <2>2. Servers(f, H) \subseteq H \cap (1 .. p - 1)
    BY <1>1, DepthOfBlock
  <2>. QED  BY <1>1, <2>1, <2>2
<1>6. /\ \A h \in Servers(f, H) : ~ Open(g, K, h)
      /\ Open(g, K, p)
  <2>1. \A h \in Servers(f, H) : ~ Open(g, K, h)
    BY <1>5, OpenNext
  <2>2. Depth(g, K, q) > Depth(f, H, p)
    BY <1>1, <1>4
  <2>. QED  BY <2>1, <2>2, OpenNext
<1>7. Servers(g, K) = Servers(f, H) \cup {p}
  <2>1. IsServer(g, p)
    BY <1>t DEF IsServer
  <2>. QED  BY <2>1, OneServerMore
<1>8. DoneServers(g, K) = DoneServers(f, H)
  BY <1>5, <1>6, <1>7 DEF DoneServers
<1>9. AreServers(g, K, list, DoneServers(g, K))
  BY <1>8, OldServers DEF AtFile
<1>10. \A name : Within(g, K, p, name) = {}
  <2>1. Inside(g, K, p) = {}
    BY InsideNext
  <2>. QED  BY <2>1 DEF Within
<1>11. IsServerAt(g, K, p, NewServer)
  BY <1>10, EmptyServer
<1>12. p \in Servers(g, K)
  BY <1>7
<1>. QED  BY <1>3, <1>4, <1>6, <1>9, <1>11, <1>12 DEF AtServer, InServer

\* A statement that leaves the server block that is open as it was opened.
LEMMA ServerStays ==
    ASSUME NEW f, NEW p, NEW H, NEW g, NEW q, NEW K, Adds(f, p, H, g, q, K),
           NEW h, NEW s, NEW list, InServer(f, p, H, h, s, list),
           StatementOK(g, K, p), ~ IsServer(g, p), Depth(g, K, q) > 0,
           NEW t, IsServerAt(g, K, h, t)
    PROVE  InServer(g, q, K, h, t, list)
<1>1. Complete(g, q, K)
  BY NextComplete
<1>2. /\ DoneServers(g, K) = DoneServers(f, H)
      /\ \A i \in Servers(f, H) :
           i \in Servers(g, K) /\ (Open(f, H, i) => Open(g, K, i))
  BY SameServers DEF IsServer
<1>3. AreServers(g, K, list, DoneServers(g, K))
  BY <1>2, OldServers DEF InServer
<1>. QED  BY <1>1, <1>2, <1>3 DEF InServer

\* The locations of the block at h that are closed, after a statement in it.
LEMMA LocationsOf ==
    ASSUME NEW f, NEW p, NEW H, NEW g, NEW q, NEW K, Adds(f, p, H, g, q, K),
           NEW h, NEW s, NEW list, InServer(f, p, H, h, s, list)
    PROVE  /\ h \in H \cap (1 .. p - 1) /\ Depth(f, H, h) = 0 /\ p \in Nat
           /\ Depth(f, H, p) \in Int
           /\ p \in Inside(g, K, h) <=> Depth(f, H, p) = 1
           /\ DoneLocations(f, H, h) \subseteq H \cap (1 .. p - 1)
           /\ AreLocations(g, K, s.locations, DoneLocations(f, H, h))
           /\ \A i \in Within(f, H, h, "location") :
                /\ i \in H \cap (1 .. p - 1) /\ f[i] = "location" /\ Depth(f, H, i) = 1
                /\ p \in Inside(g, K, i) <=> Depth(f, H, p) = 2 /\ Open(f, H, i)
                /\ Open(f, H, i) => Depth(f, H, p) > 1
                /\ Open(g, K, i) <=> Open(f, H, i) /\ Depth(g, K, q) > 1
<1>1. Complete(f, p, H) /\ h \in Servers(f, H) /\ Open(f, H, h)
  BY DEF InServer
<1>2. h \in H \cap (1 .. p - 1) /\ Depth(f, H, h) = 0
  BY <1>1, TheServer
<1>3. p \in Inside(g, K, h) <=> Depth(f, H, p) = 1
  <2>1. p \in Inside(g, K, h) <=> Depth(f, H, p) = Depth(f, H, h) + 1 /\ Open(f, H, h)
    BY <1>2, AddedInside
  <2>. QED  BY <1>1, <1>2, <2>1
<1>4. ASSUME NEW i \in Within(f, H, h, "location")
      PROVE  /\ i \in H \cap (1 .. p - 1) /\ f[i] = "location" /\ Depth(f, H, i) = 1
             /\ p \in Inside(g, K, i) <=> Depth(f, H, p) = 2 /\ Open(f, H, i)
             /\ Open(f, H, i) => Depth(f, H, p) > 1
             /\ Open(g, K, i) <=> Open(f, H, i) /\ Depth(g, K, q) > 1
  <2>1. i \in H \cap (1 .. p - 1) /\ f[i] = "location"
    BY <1>2, WithinNext
  <2>2. Depth(f, H, i) = 1 /\ (Open(f, H, i) => Depth(f, H, p) > 1)
    BY <1>1, <2>1, DepthOfBlock
  <2>3. p \in Inside(g, K, i) <=> Depth(f, H, p) = Depth(f, H, i) + 1 /\ Open(f, H, i)
    BY <2>1, AddedInside
  <2>4. Open(g, K, i) <=> Open(f, H, i) /\ Depth(g, K, q) > Depth(f, H, i)
    BY <2>1, OpenNext
  <2>5. Depth(f, H, i) + 1 = 2
    BY <2>2
  <2>. QED  BY <2>1, <2>2, <2>3, <2>4, <2>5
<1>5. DoneLocations(f, H, h) \subseteq H \cap (1 .. p - 1)
  BY <1>4 DEF DoneLocations
<1>6. AreLocations(g, K, s.locations, DoneLocations(f, H, h))
  <2>. DEFINE S == DoneLocations(f, H, h)
  <2>1. \A i \in S : f[i] = "location" /\ p \notin Inside(g, K, i)
    BY <1>4 DEF DoneLocations
  <2>2. AreLocations(f, H, s.locations, S)
    BY DEF InServer, IsServerAt
  <2>. HIDE DEF S
  <2>3. S \subseteq H \cap (1 .. p - 1)
    BY <1>5 DEF S
  <2>4. AreLocations(g, K, s.locations, S)
    BY <2>1, <2>2, <2>3, OldLocations
  <2>. QED  BY <2>4 DEF S
<1>7. p \in Nat /\ Depth(f, H, p) \in Int
  BY <1>1, DepthOfBlock
<1>. QED  BY <1>2, <1>3, <1>4, <1>5, <1>6, <1>7

\* What push_back makes of a list.
LEMMA Appended ==
    ASSUME NEW list, IsList(list), NEW e
    PROVE  /\ Len(list) \in Nat /\ Len(Append(list, e)) = Len(list) + 1
           /\ list = [k \in 1 .. Len(list) |-> list[k]]
           /\ \A k \in 1 .. Len(list) : Append(list, e)[k] = list[k]
           /\ Append(list, e)[Len(list) + 1] = e
<1>. DEFINE S == Range(list) \cup {e}
<1>1. list \in Seq(S)
  <2>1. list \in Seq(Range(list))
    BY DEF IsList
  <2>2. Range(list) \subseteq S
    OBVIOUS
  <2>. HIDE DEF S
  <2>. QED  BY <2>1, <2>2
<1>2. e \in S
  OBVIOUS
<1>. HIDE DEF S
<1>3. Len(list) \in Nat /\ DOMAIN list = 1 .. Len(list)
  BY <1>1
<1>4. list = [k \in 1 .. Len(list) |-> list[k]]
  BY <1>1
<1>5. /\ Len(Append(list, e)) = Len(list) + 1
      /\ \A k \in 1 .. Len(list) : Append(list, e)[k] = list[k]
      /\ Append(list, e)[Len(list) + 1] = e
  BY <1>1, <1>2
<1>. QED  BY <1>3, <1>4, <1>5

\* The server block that ends is the last of the list.
LEMMA OneServerBehind ==
    ASSUME NEW g, NEW K, NEW list, IsList(list), NEW h \in Nat, NEW S, S \subseteq 0 .. h - 1,
           AreServers(g, K, list, S), NEW s, s = ServerAt(g, K, h)
    PROVE  AreServers(g, K, Append(list, s), S \cup {h})
<1>. DEFINE n == Cardinality(S)
            more == Append(list, s)
<1>1. /\ n \in Nat /\ Cardinality(S \cup {h}) = n + 1
      /\ \A k \in 1 .. n : InOrder(S \cup {h})[k] = InOrder(S)[k]
      /\ InOrder(S \cup {h})[n + 1] = h
  BY OneInFront
<1>2. Len(list) = n /\ \A k \in 1 .. n : list[k] = ServerAt(g, K, InOrder(S)[k])
  BY DEF AreServers
<1>3. /\ Len(more) = n + 1 /\ more[n + 1] = s
      /\ \A k \in 1 .. n : more[k] = list[k]
  BY <1>2, Appended
<1>. HIDE DEF n, more
<1>4. ASSUME NEW k \in 1 .. n + 1 PROVE more[k] = ServerAt(g, K, InOrder(S \cup {h})[k])
  <2>1. k \in 1 .. n \/ k = n + 1
    BY <1>1
  <2>. QED  BY <1>1, <1>2, <1>3, <2>1
<1>. QED  BY <1>1, <1>3, <1>4 DEF AreServers, more

\* The location that ends is the last of its server.
LEMMA OneLocationBehind ==
    ASSUME NEW g, NEW K, NEW list, IsList(list), NEW h \in Nat, NEW S, S \subseteq 0 .. h - 1,
           AreLocations(g, K, list, S), NEW l, l = LocationAt(g, K, h)
    PROVE  AreLocations(g, K, Append(list, l), S \cup {h})
<1>. DEFINE n == Cardinality(S)
            more == Append(list, l)
<1>1. /\ n \in Nat /\ Cardinality(S \cup {h}) = n + 1
      /\ \A k \in 1 .. n : InOrder(S \cup {h})[k] = InOrder(S)[k]
      /\ InOrder(S \cup {h})[n + 1] = h
  BY OneInFront
<1>2. Len(list) = n /\ \A k \in 1 .. n : list[k] = LocationAt(g, K, InOrder(S)[k])
  BY DEF AreLocations
<1>3. /\ Len(more) = n + 1 /\ more[n + 1] = l
      /\ \A k \in 1 .. n : more[k] = list[k]
  BY <1>2, Appended
<1>. HIDE DEF n, more
<1>4. ASSUME NEW k \in 1 .. n + 1 PROVE more[k] = LocationAt(g, K, InOrder(S \cup {h})[k])
  <2>1. k \in 1 .. n \/ k = n + 1
    BY <1>1
  <2>. QED  BY <1>1, <1>2, <1>3, <2>1
<1>. QED  BY <1>1, <1>3, <1>4 DEF AreLocations, more

\* A statement in the block at h that is about none of its settings.
IsSetting(name) == name \in ServerDirectives

\* A statement in the block at h that is about none of its settings.
LEMMA NoSetting ==
    ASSUME NEW f, NEW H, NEW h, NEW t, ~ IsSetting(t), NEW v, NEW w, NEW locations
    PROVE  ServerWith(ServerAt(f, H, h), t, v, w, locations) =
             [ServerAt(f, H, h) EXCEPT !.locations = locations]
<1>. DEFINE old == ServerAt(f, H, h)
<1>1. /\ t # "listen" /\ t # "root" /\ t # "index" /\ t # "client_max_body_size"
      /\ t # "error_page"
  BY DEF IsSetting, ServerDirectives
<1>2. old = [port |-> old.port, root |-> old.root, index |-> old.index, limit |-> old.limit,
             errorPages |-> old.errorPages, locations |-> old.locations]
  BY DEF ServerAt
<1>. HIDE DEF old
<1>3. ServerWith(old, t, v, w, locations) =
        [port |-> old.port, root |-> old.root, index |-> old.index, limit |-> old.limit,
         errorPages |-> old.errorPages, locations |-> locations]
  BY <1>1 DEF ServerWith
<1>4. ServerWith(old, t, v, w, locations) = [old EXCEPT !.locations = locations]
  BY <1>2, <1>3
<1>. QED  BY <1>4 DEF old

\* A } ends the server block, which is pushed behind the others.
LEMMA ServerEnds ==
    ASSUME NEW f, NEW p, NEW H, NEW g, NEW q, NEW K, Adds(f, p, H, g, q, K),
           NEW s, NEW list, AtServer(f, p, H, s, list), Closing(g, p),
           IsList(list), IsList(s.locations)
    PROVE  AtFile(g, q, K, Append(list, s))
<1>1. PICK h : InServer(f, p, H, h, s, list)
  BY DEF AtServer
<1>2. Depth(f, H, p) = 1 /\ Complete(f, p, H) /\ h \in Servers(f, H) /\ Open(f, H, h)
  BY <1>1 DEF AtServer, InServer
<1>3. /\ h \in H \cap (1 .. p - 1) /\ Depth(f, H, h) = 0 /\ p \in Nat /\ h \in Nat
      /\ p \in Inside(g, K, h)
      /\ \A i \in Within(f, H, h, "location") : p \notin Inside(g, K, i) /\ ~ Open(f, H, i)
  BY <1>1, <1>2, LocationsOf
<1>4. ~ Opening(g, p) /\ ~ IsServer(g, p) /\ ~ IsSetting(g[p]) /\ g[p] # "location"
  BY DEF Closing, Opening, IsServer, IsSetting, ServerDirectives
<1>5. Depth(g, K, q) = 0
  <2>1. Depth(g, K, q) = Depth(f, H, p) - 1
    BY DepthNext
  <2>. QED  BY <1>2, <2>1
<1>6. Complete(g, q, K)
  <2>1. Depth(g, K, p) > 0
    <3>1. p \in 1 .. p
      BY <1>3
    <3>. QED  BY <1>2, <3>1, DepthKept
  <2>2. StatementOK(g, K, p)
    <3>1. g[p] = "}"
      BY DEF Closing
    <3>. QED  BY <2>1, <3>1 DEF StatementOK
  <2>. QED  BY <2>2, NextComplete
<1>7. ServerAt(g, K, h) = s
  <2>1. ServerAt(g, K, h).locations = ServerAt(f, H, h).locations
    <3>1. NoLocationChanges(f, p, H, g, K, h)
      BY <1>3, <1>4 DEF NoLocationChanges, Adding
    <3>. QED  BY <1>3, <3>1, SameServer
  <2>2. ServerAt(g, K, h) =
          ServerWith(ServerAt(f, H, h), g[p], Value1(g, p), Value2(g, p),
                     ServerAt(g, K, h).locations)
    BY <1>3, ServerNext
  <2>3. ServerAt(g, K, h) =
          [ServerAt(f, H, h) EXCEPT !.locations = ServerAt(g, K, h).locations]
    BY <1>4, <2>2, NoSetting
  <2>4. [ServerAt(f, H, h) EXCEPT !.locations = ServerAt(f, H, h).locations]
          = ServerAt(f, H, h)
    BY DEF ServerAt
  <2>5. ServerAt(g, K, h) = ServerAt(f, H, h)
    BY <2>1, <2>3, <2>4
  <2>6. s = [ServerAt(f, H, h) EXCEPT !.locations = s.locations]
    BY <1>1 DEF InServer, IsServerAt
  <2>7. s.locations = ServerAt(f, H, h).locations
    <3>. DEFINE W == Within(f, H, h, "location")
                n == Cardinality(W)
    <3>1. DoneLocations(f, H, h) = W
      BY <1>3 DEF DoneLocations
    <3>2. AreLocations(f, H, s.locations, W)
      BY <1>1, <3>1 DEF InServer, IsServerAt
    <3>3. ServerAt(f, H, h).locations =
            [k \in DOMAIN InOrder(W) |-> LocationAt(f, H, InOrder(W)[k])]
      BY DEF ServerAt
    <3>4. DOMAIN InOrder(W) = 1 .. n
      BY DEF InOrder
    <3>5. s.locations = [k \in 1 .. Len(s.locations) |-> s.locations[k]]
      BY Appended
    <3>6. Len(s.locations) = n
          /\ \A k \in 1 .. n : s.locations[k] = LocationAt(f, H, InOrder(W)[k])
      BY <3>2 DEF AreLocations
    <3>. HIDE DEF W, n
    <3>. QED  BY <3>3, <3>4, <3>5, <3>6
  <2>. QED  BY <2>4, <2>5, <2>6, <2>7
<1>8. DoneServers(g, K) = DoneServers(f, H) \cup {h}
  <2>1. DoneServers(f, H) = Servers(f, H) \ {h}
    BY <1>2, TheServer
  <2>2. Servers(g, K) = Servers(f, H)
    BY <1>4, ServersNext DEF IsServer
  <2>3. ASSUME NEW i \in Servers(f, H) PROVE ~ Open(g, K, i)
    <3>1. i \in H \cap (1 .. p - 1) /\ Depth(f, H, i) = 0
      BY <1>2, DepthOfBlock
    <3>2. Open(g, K, i) => Depth(g, K, q) > Depth(f, H, i)
      BY <3>1, OpenNext
    <3>. QED  BY <1>5, <3>1, <3>2
  <2>. QED  BY <1>2, <2>1, <2>2, <2>3 DEF DoneServers
<1>9. AreServers(g, K, Append(list, s), DoneServers(f, H) \cup {h})
  <2>1. DoneServers(f, H) \subseteq 0 .. h - 1
    BY <1>2, TheServer
  <2>2. AreServers(g, K, list, DoneServers(f, H))
    BY <1>1, OldServers DEF InServer
  <2>. QED  BY <1>3, <1>7, <2>1, <2>2, OneServerBehind
<1>. QED  BY <1>5, <1>6, <1>8, <1>9 DEF AtFile

\* A statement that is no setting of the block at h leaves its settings.
LEMMA SettingsKept ==
    ASSUME NEW f, NEW p, NEW H, NEW g, NEW q, NEW K, Adds(f, p, H, g, q, K),
           NEW h \in H \cap (1 .. p - 1), ~ IsSetting(g[p]) \/ p \notin Inside(g, K, h),
           NEW s, s = [ServerAt(f, H, h) EXCEPT !.locations = s.locations], NEW locations
    PROVE  [s EXCEPT !.locations = locations] =
             [ServerAt(g, K, h) EXCEPT !.locations = locations]
<1>. DEFINE old == ServerAt(f, H, h)
            new == ServerAt(g, K, h)
<1>1. new = [old EXCEPT !.locations = new.locations]
  <2>1. CASE p \in Inside(g, K, h)
    <3>1. new = ServerWith(old, g[p], Value1(g, p), Value2(g, p), new.locations)
      BY <2>1, ServerNext
    <3>2. ServerWith(old, g[p], Value1(g, p), Value2(g, p), new.locations) =
            [old EXCEPT !.locations = new.locations]
      BY <2>1, NoSetting
    <3>. QED  BY <3>1, <3>2
  <2>2. CASE p \notin Inside(g, K, h)
    BY <2>2, ServerNext
  <2>. QED  BY <2>1, <2>2
<1>2. old = [port |-> old.port, root |-> old.root, index |-> old.index, limit |-> old.limit,
             errorPages |-> old.errorPages, locations |-> old.locations]
  BY DEF ServerAt
<1>. HIDE DEF old, new
<1>3. [old EXCEPT !.locations = locations] = [new EXCEPT !.locations = locations]
  BY <1>1, <1>2
<1>4. [s EXCEPT !.locations = locations] = [old EXCEPT !.locations = locations]
  <2>1. s = [old EXCEPT !.locations = s.locations]
    BY DEF old
  <2>. QED  BY <1>2, <2>1
<1>. QED  BY <1>3, <1>4 DEF new

\* A statement in a location, or one that opens or closes it.
LEMMA ServerOfLocation ==
    ASSUME NEW f, NEW p, NEW H, NEW g, NEW q, NEW K, Adds(f, p, H, g, q, K),
           NEW h, NEW s, NEW list, InServer(f, p, H, h, s, list),
           ~ IsSetting(g[p]) \/ Depth(f, H, p) # 1,
           NEW locations, AreLocations(g, K, locations, DoneLocations(g, K, h))
    PROVE  IsServerAt(g, K, h, [s EXCEPT !.locations = locations])
<1>. DEFINE t == [s EXCEPT !.locations = locations]
<1>1. h \in H \cap (1 .. p - 1) /\ (p \in Inside(g, K, h) <=> Depth(f, H, p) = 1)
  BY LocationsOf
<1>2. s = [ServerAt(f, H, h) EXCEPT !.locations = s.locations]
  BY DEF InServer, IsServerAt
<1>3. t = [ServerAt(g, K, h) EXCEPT !.locations = locations]
  BY <1>1, <1>2, SettingsKept
<1>4. ServerAt(g, K, h) = [ServerAt(g, K, h) EXCEPT !.locations = ServerAt(g, K, h).locations]
  BY DEF ServerAt
<1>5. t.locations = locations
  <2>1. "locations" \in DOMAIN ServerAt(g, K, h)
    BY DEF ServerAt
  <2>. QED  BY <1>3, <2>1
<1>. HIDE DEF t
<1>6. IsServerAt(g, K, h, t)
  BY <1>3, <1>5 DEF IsServerAt
<1>. QED  BY <1>6 DEF t

\* A server with its own locations is that server.
LEMMA ServerSame ==
    ASSUME NEW f, NEW H, NEW h, NEW s, IsServerAt(f, H, h, s)
    PROVE  [s EXCEPT !.locations = s.locations] = s
<1>. DEFINE old == ServerAt(f, H, h)
<1>1. s = [old EXCEPT !.locations = s.locations]
  BY DEF IsServerAt
<1>2. old = [port |-> old.port, root |-> old.root, index |-> old.index, limit |-> old.limit,
             errorPages |-> old.errorPages, locations |-> old.locations]
  BY DEF ServerAt
<1>. HIDE DEF old
<1>. QED  BY <1>1, <1>2

\* The statements of one name in a block are those before, and perhaps the one at p.
LEMMA OneWithinMore ==
    ASSUME NEW f, NEW p, NEW H, NEW g, NEW q, NEW K, Adds(f, p, H, g, q, K),
           NEW h \in H \cap (1 .. p - 1), NEW name
    PROVE  /\ Adding(g, p, K, h, name) =>
                Within(g, K, h, name) = Within(f, H, h, name) \cup {p}
           /\ ~ Adding(g, p, K, h, name) => Within(g, K, h, name) = Within(f, H, h, name)
BY WithinNext DEF Adding

\* How a location begins, and what is read of it then.
BeginsLocation(g, p) == IsAt(g, p, "location") /\ IsAt(g, p + 2, "{")
Fresh(path) == [NewLocation EXCEPT !.path = path]

\* A location without statements has its path and what the constructor makes.
LEMMA EmptyLocation ==
    ASSUME NEW g, NEW K, NEW p, \A name : Within(g, K, p, name) = {}
    PROVE  LocationAt(g, K, p) = Fresh(Value1(g, p))
<1>1. \A name : Latest(g, K, p, name) = 0
  BY DEF Latest
<1>2. Cgi(g, K, p) = NoMap
  <2>. DEFINE keys == [i \in Within(g, K, p, "cgi_ext") |-> Value1(g, i)]
  <2>1. DOMAIN keys = {} /\ Range(keys) = {}
    BY DEF Range
  <2>. HIDE DEF keys
  <2>2. Entries(g, keys) = NoMap
    BY <2>1 DEF Entries, NoMap
  <2>. QED  BY <2>2 DEF Cgi, keys
<1>3. \A name, default : Says(g, K, p, name, default) = default
  BY <1>1 DEF Says
<1>4. Limit(g, K, p, 0) = 0 /\ Methods(g, K, p) = <<>>
  BY <1>1 DEF Limit, Methods
<1>5. LocationAt(g, K, p) =
        [path |-> Value1(g, p),
         root |-> Says(g, K, p, "root", DefaultRoot),
         index |-> Says(g, K, p, "index", DefaultIndex),
         methods |-> Methods(g, K, p),
         autoindex |-> Says(g, K, p, "autoindex", "off") = "on",
         uploadStore |-> Says(g, K, p, "upload_store", Empty),
         redirect |-> Says(g, K, p, "return", Empty),
         cgi |-> Cgi(g, K, p),
         limit |-> Limit(g, K, p, 0)]
  BY DEF LocationAt, Cgi, Value1
<1>6. (Says(g, K, p, "autoindex", "off") = "on") = FALSE
  BY <1>3
<1>7. LocationAt(g, K, p) =
        [path |-> Value1(g, p), root |-> DefaultRoot, index |-> DefaultIndex,
         methods |-> <<>>, autoindex |-> FALSE, uploadStore |-> Empty,
         redirect |-> Empty, cgi |-> NoMap, limit |-> 0]
  BY <1>2, <1>3, <1>4, <1>5, <1>6
<1>8. Fresh(Value1(g, p)) =
        [path |-> Value1(g, p), root |-> DefaultRoot, index |-> DefaultIndex,
         methods |-> <<>>, autoindex |-> FALSE, uploadStore |-> Empty,
         redirect |-> Empty, cgi |-> NoMap, limit |-> 0]
  <2>. DEFINE none == <<>>
              no == FALSE
              zero == 0
  <2>1. NewLocation =
          [path |-> DefaultPath, root |-> DefaultRoot, index |-> DefaultIndex,
           methods |-> none, autoindex |-> no, uploadStore |-> Empty,
           redirect |-> Empty, cgi |-> NoMap, limit |-> zero]
    BY DEF NewLocation
  <2>. HIDE DEF none, no, zero
  <2>2. Fresh(Value1(g, p)) =
          [path |-> Value1(g, p), root |-> DefaultRoot, index |-> DefaultIndex,
           methods |-> none, autoindex |-> no, uploadStore |-> Empty,
           redirect |-> Empty, cgi |-> NoMap, limit |-> zero]
    BY <2>1 DEF Fresh
  <2>. QED  BY <2>2 DEF none, no, zero
<1>. QED  BY <1>7, <1>8

\* The words location, a path and { begin an empty location.
LEMMA LocationBegins ==
    ASSUME NEW f, NEW p, NEW H, NEW g, NEW q, NEW K, Adds(f, p, H, g, q, K),
           NEW s, NEW list, AtServer(f, p, H, s, list), BeginsLocation(g, p)
    PROVE  AtLocation(g, q, K, s, Fresh(Value1(g, p)), list)
<1>1. PICK h : InServer(f, p, H, h, s, list)
  BY DEF AtServer
<1>2. Depth(f, H, p) = 1 /\ Complete(f, p, H)
  BY <1>1 DEF AtServer, InServer
<1>3. /\ h \in H \cap (1 .. p - 1) /\ Depth(f, H, h) = 0 /\ p \in Nat /\ p \in 1 .. p
      /\ p \in Inside(g, K, h)
      /\ AreLocations(g, K, s.locations, DoneLocations(f, H, h))
      /\ \A i \in Within(f, H, h, "location") : ~ Open(f, H, i) /\ ~ Open(g, K, i)
  <2>1. p \in 1 .. p
    BY DEF Adds, Complete, IsFile
  <2>. QED  BY <1>1, <1>2, <2>1, LocationsOf
<1>4. g[p] = "location" /\ IsAt(g, p + 2, "{")
  BY DEF BeginsLocation, IsAt
<1>5. Opening(g, p) /\ ~ IsServer(g, p) /\ ~ IsSetting(g[p])
  BY <1>4 DEF Opening, IsServer, IsSetting, ServerDirectives
<1>6. Depth(g, K, q) = 2
  <2>1. Depth(g, K, q) = Depth(f, H, p) + 1
    BY <1>5, DepthNext
  <2>. QED  BY <1>2, <2>1
<1>7. StatementOK(g, K, p)
  <2>1. Depth(g, K, p) = 1
    BY <1>2, <1>3, DepthKept
  <2>. QED  BY <1>4, <2>1 DEF StatementOK
<1>8. Within(g, K, h, "location") = Within(f, H, h, "location") \cup {p}
  <2>1. Adding(g, p, K, h, "location")
    BY <1>3, <1>4 DEF Adding
  <2>. QED  BY <1>3, <2>1, OneWithinMore
<1>9. Open(g, K, p)
  <2>1. Depth(g, K, q) > Depth(f, H, p)
    BY <1>2, <1>6
  <2>. QED  BY <2>1, OpenNext
<1>10. DoneLocations(g, K, h) = DoneLocations(f, H, h)
  BY <1>3, <1>8, <1>9 DEF DoneLocations
<1>11. IsServerAt(g, K, h, s)
  <2>1. IsServerAt(g, K, h, [s EXCEPT !.locations = s.locations])
    BY <1>1, <1>3, <1>5, <1>10, ServerOfLocation
  <2>2. IsServerAt(f, H, h, s)
    BY <1>1 DEF InServer
  <2>3. [s EXCEPT !.locations = s.locations] = s
    BY <2>2, ServerSame
  <2>. QED  BY <2>1, <2>3
<1>12. InServer(g, q, K, h, s, list)
  <2>1. Depth(g, K, q) > 0
    BY <1>6
  <2>. QED  BY <1>1, <1>5, <1>7, <1>11, <2>1, ServerStays
<1>13. LocationAt(g, K, p) = Fresh(Value1(g, p))
  <2>1. Inside(g, K, p) = {}
    BY InsideNext
  <2>2. \A name : Within(g, K, p, name) = {}
    BY <2>1 DEF Within
  <2>. QED  BY <2>2, EmptyLocation
<1>14. p \in Within(g, K, h, "location")
  BY <1>8
<1>. QED  BY <1>6, <1>9, <1>12, <1>13, <1>14 DEF AtLocation

\* The settings of a location.
IsLocationSetting(name) == name \in LocationDirectives

\* A statement that is about none of its settings leaves a location.
LEMMA NoLocationSetting ==
    ASSUME NEW f, NEW H, NEW h, NEW t, ~ IsLocationSetting(t), NEW v, NEW w, NEW list
    PROVE  LocationWith(LocationAt(f, H, h), t, v, w, list) = LocationAt(f, H, h)
<1>. DEFINE old == LocationAt(f, H, h)
<1>1. /\ t # "root" /\ t # "index" /\ t # "client_max_body_size" /\ t # "upload_store"
      /\ t # "return" /\ t # "autoindex" /\ t # "cgi_ext" /\ t # "allowed_methods"
  BY DEF IsLocationSetting, LocationDirectives
<1>2. old = [path |-> old.path, root |-> old.root, index |-> old.index,
             methods |-> old.methods, autoindex |-> old.autoindex,
             uploadStore |-> old.uploadStore, redirect |-> old.redirect,
             cgi |-> old.cgi, limit |-> old.limit]
  BY DEF LocationAt
<1>. HIDE DEF old
<1>3. LocationWith(old, t, v, w, list) =
        [path |-> old.path, root |-> old.root, index |-> old.index,
         methods |-> old.methods, autoindex |-> old.autoindex,
         uploadStore |-> old.uploadStore, redirect |-> old.redirect,
         cgi |-> old.cgi, limit |-> old.limit]
  BY <1>1 DEF LocationWith
<1>4. LocationWith(old, t, v, w, list) = old
  BY <1>2, <1>3
<1>. QED  BY <1>4 DEF old

\* A } ends the location, which is pushed behind the others of the server.
LEMMA LocationEnds ==
    ASSUME NEW f, NEW p, NEW H, NEW g, NEW q, NEW K, Adds(f, p, H, g, q, K),
           NEW s, NEW l, NEW list, AtLocation(f, p, H, s, l, list), Closing(g, p),
           IsList(s.locations)
    PROVE  AtServer(g, q, K, [s EXCEPT !.locations = Append(s.locations, l)], list)
<1>. DEFINE t == [s EXCEPT !.locations = Append(s.locations, l)]
<1>1. PICK h : /\ InServer(f, p, H, h, s, list)
               /\ \E i \in Within(f, H, h, "location") :
                     Open(f, H, i) /\ l = LocationAt(f, H, i)
  BY DEF AtLocation
<1>2. PICK i \in Within(f, H, h, "location") : Open(f, H, i) /\ l = LocationAt(f, H, i)
  BY <1>1
<1>3. Depth(f, H, p) = 2 /\ Complete(f, p, H)
  BY <1>1 DEF AtLocation, InServer
<1>4. /\ h \in H \cap (1 .. p - 1) /\ p \in Nat /\ p \in 1 .. p
      /\ AreLocations(g, K, s.locations, DoneLocations(f, H, h))
      /\ \A j \in Within(f, H, h, "location") :
           Open(g, K, j) <=> Open(f, H, j) /\ Depth(g, K, q) > 1
      /\ i \in H \cap (1 .. p - 1) /\ f[i] = "location" /\ i \in Nat
      /\ p \in Inside(g, K, i)
  <2>1. p \in 1 .. p
    BY DEF Adds, Complete, IsFile
  <2>. QED  BY <1>1, <1>2, <1>3, <2>1, LocationsOf
<1>5. /\ ~ Opening(g, p) /\ ~ IsServer(g, p) /\ ~ IsSetting(g[p])
      /\ ~ IsLocationSetting(g[p]) /\ ~ Adding(g, p, K, h, "location") /\ g[p] = "}"
  BY DEF Closing, Opening, IsServer, IsSetting, ServerDirectives, IsLocationSetting,
         LocationDirectives, Adding
<1>6. Depth(g, K, q) = 1
  <2>1. Depth(g, K, q) = Depth(f, H, p) - 1
    BY DepthNext
  <2>. QED  BY <1>3, <2>1
<1>7. StatementOK(g, K, p)
  <2>1. Depth(g, K, p) > 0
    BY <1>3, <1>4, DepthKept
  <2>. QED  BY <1>5, <2>1 DEF StatementOK
<1>8. Within(g, K, h, "location") = Within(f, H, h, "location")
  <2>1. h \in H \cap (1 .. p - 1) /\ ~ Adding(g, p, K, h, "location")
    BY <1>4, <1>5
  <2>. QED  BY <2>1, OneWithinMore
<1>9. /\ DoneLocations(f, H, h) = Within(f, H, h, "location") \ {i}
      /\ DoneLocations(f, H, h) \subseteq 0 .. i - 1
  BY <1>2, <1>3, TheLocation
<1>10. DoneLocations(g, K, h) = DoneLocations(f, H, h) \cup {i}
  <2>1. \A j \in Within(f, H, h, "location") : ~ Open(g, K, j)
    BY <1>4, <1>6
  <2>2. DoneLocations(g, K, h) = Within(f, H, h, "location")
    BY <1>8, <2>1 DEF DoneLocations
  <2>. QED  BY <1>2, <1>9, <2>2
<1>11. LocationAt(g, K, i) = l
  <2>1. LocationAt(g, K, i) =
          LocationWith(LocationAt(f, H, i), g[p], Value1(g, p), Value2(g, p),
                       SubSeq(g, p + 1, ListEnd(g, p) - 1))
    BY <1>4, LocationNext
  <2>2. LocationAt(g, K, i) = LocationAt(f, H, i)
    BY <1>5, <2>1, NoLocationSetting
  <2>. QED  BY <1>2, <2>2
<1>12. AreLocations(g, K, Append(s.locations, l), DoneLocations(g, K, h))
  BY <1>4, <1>9, <1>10, <1>11, OneLocationBehind
<1>13. IsServerAt(g, K, h, t)
  BY <1>1, <1>5, <1>12, ServerOfLocation
<1>14. InServer(g, q, K, h, t, list)
  <2>1. Depth(g, K, q) > 0
    BY <1>6
  <2>. HIDE DEF t
  <2>. QED  BY <1>1, <1>5, <1>7, <1>13, <2>1, ServerStays
<1>. QED  BY <1>6, <1>14 DEF AtServer

\* A directive of a server does not touch its locations.
LEMMA ServerWithKept ==
    ASSUME NEW f, NEW H, NEW h, NEW s,
           s = [ServerAt(f, H, h) EXCEPT !.locations = s.locations],
           NEW t, NEW v, NEW w, NEW a, NEW b, NEW new,
           new = ServerWith(ServerAt(f, H, h), t, v, w, a)
    PROVE  ServerWith(s, t, v, w, b) = [new EXCEPT !.locations = b]
<1>. DEFINE old == ServerAt(f, H, h)
<1>1. old = [port |-> old.port, root |-> old.root, index |-> old.index, limit |-> old.limit,
             errorPages |-> old.errorPages, locations |-> old.locations]
  BY DEF ServerAt
<1>2. s = [old EXCEPT !.locations = s.locations] /\ new = ServerWith(old, t, v, w, a)
  OBVIOUS
<1>. HIDE DEF old
<1>3. /\ s.port = old.port /\ s.root = old.root /\ s.index = old.index
      /\ s.limit = old.limit /\ s.errorPages = old.errorPages
  BY <1>1, <1>2
<1>4. ServerWith(s, t, v, w, b) = ServerWith(old, t, v, w, b)
  BY <1>3 DEF ServerWith
<1>5. ServerWith(old, t, v, w, b) = [ServerWith(old, t, v, w, a) EXCEPT !.locations = b]
  BY DEF ServerWith
<1>. QED  BY <1>2, <1>4, <1>5

\* A directive of a server block sets what the parser sets.
LEMMA ServerDirective ==
    ASSUME NEW f, NEW p, NEW H, NEW g, NEW q, NEW K, Adds(f, p, H, g, q, K),
           NEW s, NEW list, AtServer(f, p, H, s, list), StatementOK(g, K, p),
           IsSetting(g[p])
    PROVE  AtServer(g, q, K,
                    ServerWith(s, g[p], Value1(g, p), Value2(g, p), s.locations), list)
<1>. DEFINE t == ServerWith(s, g[p], Value1(g, p), Value2(g, p), s.locations)
<1>1. PICK h : InServer(f, p, H, h, s, list)
  BY DEF AtServer
<1>2. Depth(f, H, p) = 1 /\ Complete(f, p, H)
  BY <1>1 DEF AtServer, InServer
<1>3. /\ h \in H \cap (1 .. p - 1)
      /\ p \in Inside(g, K, h)
      /\ AreLocations(g, K, s.locations, DoneLocations(f, H, h))
      /\ \A i \in Within(f, H, h, "location") : ~ Open(f, H, i) /\ ~ Open(g, K, i)
  BY <1>1, <1>2, LocationsOf
<1>4. /\ ~ Opening(g, p) /\ ~ Closing(g, p) /\ ~ IsServer(g, p)
      /\ ~ Adding(g, p, K, h, "location")
  BY DEF Closing, Opening, IsServer, IsSetting, ServerDirectives, Adding
<1>5. Depth(g, K, q) = 1
  BY <1>2, <1>4, DepthNext
<1>6. DoneLocations(g, K, h) = DoneLocations(f, H, h)
  <2>1. Within(g, K, h, "location") = Within(f, H, h, "location")
    BY <1>3, <1>4, OneWithinMore
  <2>. QED  BY <1>3, <2>1 DEF DoneLocations
<1>7. IsServerAt(g, K, h, t)
  <2>1. s = [ServerAt(f, H, h) EXCEPT !.locations = s.locations]
    BY <1>1 DEF InServer, IsServerAt
  <2>2. ServerAt(g, K, h) =
          ServerWith(ServerAt(f, H, h), g[p], Value1(g, p), Value2(g, p),
                     ServerAt(g, K, h).locations)
    BY <1>3, ServerNext
  <2>3. t = [ServerAt(g, K, h) EXCEPT !.locations = s.locations]
    BY <2>1, <2>2, ServerWithKept
  <2>4. t.locations = s.locations
    BY DEF ServerWith
  <2>. HIDE DEF t
  <2>. QED  BY <1>3, <1>6, <2>3, <2>4 DEF IsServerAt
<1>8. InServer(g, q, K, h, t, list)
  <2>1. Depth(g, K, q) > 0
    BY <1>5
  <2>. HIDE DEF t
  <2>. QED  BY <1>1, <1>4, <1>7, <2>1, ServerStays
<1>. QED  BY <1>5, <1>8 DEF AtServer

\* A directive of a location sets what the parser sets.
LEMMA LocationDirective ==
    ASSUME NEW f, NEW p, NEW H, NEW g, NEW q, NEW K, Adds(f, p, H, g, q, K),
           NEW s, NEW l, NEW list, AtLocation(f, p, H, s, l, list), StatementOK(g, K, p),
           IsLocationSetting(g[p])
    PROVE  AtLocation(g, q, K, s,
                      LocationWith(l, g[p], Value1(g, p), Value2(g, p),
                                   SubSeq(g, p + 1, ListEnd(g, p) - 1)), list)
<1>. DEFINE m == LocationWith(l, g[p], Value1(g, p), Value2(g, p),
                              SubSeq(g, p + 1, ListEnd(g, p) - 1))
<1>1. PICK h : /\ InServer(f, p, H, h, s, list)
               /\ \E i \in Within(f, H, h, "location") :
                     Open(f, H, i) /\ l = LocationAt(f, H, i)
  BY DEF AtLocation
<1>2. PICK i \in Within(f, H, h, "location") : Open(f, H, i) /\ l = LocationAt(f, H, i)
  BY <1>1
<1>3. Depth(f, H, p) = 2 /\ Complete(f, p, H)
  BY <1>1 DEF AtLocation, InServer
<1>4. /\ ~ Opening(g, p) /\ ~ Closing(g, p) /\ ~ IsServer(g, p)
      /\ ~ Adding(g, p, K, h, "location")
  BY DEF Closing, Opening, IsServer, IsLocationSetting, LocationDirectives, Adding
<1>5. Depth(g, K, q) = 2
  BY <1>3, <1>4, DepthNext
<1>6. /\ h \in H \cap (1 .. p - 1)
      /\ AreLocations(g, K, s.locations, DoneLocations(f, H, h))
      /\ \A j \in Within(f, H, h, "location") : Open(g, K, j) <=> Open(f, H, j)
      /\ i \in H \cap (1 .. p - 1) /\ f[i] = "location"
      /\ p \in Inside(g, K, i)
  BY <1>1, <1>2, <1>3, <1>5, LocationsOf
<1>7. Within(g, K, h, "location") = Within(f, H, h, "location")
  <2>1. h \in H \cap (1 .. p - 1) /\ ~ Adding(g, p, K, h, "location")
    BY <1>4, <1>6
  <2>. QED  BY <2>1, OneWithinMore
<1>8. DoneLocations(g, K, h) = DoneLocations(f, H, h)
  BY <1>6, <1>7 DEF DoneLocations
<1>9. IsServerAt(g, K, h, s)
  <2>1. Depth(f, H, p) # 1
    BY <1>3
  <2>2. IsServerAt(g, K, h, [s EXCEPT !.locations = s.locations])
    BY <1>1, <1>6, <1>8, <2>1, ServerOfLocation
  <2>3. IsServerAt(f, H, h, s)
    BY <1>1 DEF InServer
  <2>4. [s EXCEPT !.locations = s.locations] = s
    BY <2>3, ServerSame
  <2>. QED  BY <2>2, <2>4
<1>10. InServer(g, q, K, h, s, list)
  <2>1. Depth(g, K, q) > 0
    BY <1>5
  <2>. QED  BY <1>1, <1>4, <1>9, <2>1, ServerStays
<1>11. LocationAt(g, K, i) = m
  <2>1. LocationAt(g, K, i) =
          LocationWith(LocationAt(f, H, i), g[p], Value1(g, p), Value2(g, p),
                       SubSeq(g, p + 1, ListEnd(g, p) - 1))
    BY <1>6, LocationNext
  <2>. QED  BY <1>2, <2>1
<1>12. i \in Within(g, K, h, "location") /\ Open(g, K, i)
  BY <1>2, <1>6, <1>7
<1>. HIDE DEF m
<1>13. AtLocation(g, q, K, s, m, list)
  BY <1>5, <1>10, <1>11, <1>12 DEF AtLocation
<1>. QED  BY <1>13 DEF m

=============================================================================
