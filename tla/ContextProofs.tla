---------------------------- MODULE ContextProofs -----------------------------
(***************************************************************************)
(* Proofs about what is kept of a conversation: in the terminal, for any   *)
(* contexts, prompts and commands, and in the window shown to the model,   *)
(* for any calls, bounds of the budgets and keywords.                      *)
(***************************************************************************)
EXTENDS TuiContexts, ContextWindow, FiniteSetTheorems, SequenceTheorems, WellFoundedInduction, TLAPS

(***************************************************************************)
(* Selections: what the k-th of a set of places is.                        *)
(***************************************************************************)

LEMMA LeastNatural ==
    ASSUME NEW T \in SUBSET Nat, T # {}
    PROVE  \E x \in T : \A y \in T : x <= y
<1>1. \E x \in T : \A y \in T : ~ (<<y, x>> \in OpToRel(<, Nat))
  BY NatLessThanWellFounded, WFMin
<1>2. ASSUME NEW x \in T, NEW y \in T, ~ (<<y, x>> \in OpToRel(<, Nat))
      PROVE  x <= y
  <2>1. ~ (y < x)
    BY <1>2 DEF OpToRel
  <2> QED BY <2>1
<1> QED BY <1>1, <1>2

(* A bounded set has a greatest element: the distance to the bound has a    *)
(* least one.                                                               *)
LEMMA GreatestPlace ==
    ASSUME NEW n \in Nat, NEW S \in SUBSET (1..n), S # {}
    PROVE  \E m \in S : \A j \in S : j <= m
<1> DEFINE far == {n - x : x \in S}
<1>1. far \in SUBSET Nat /\ far # {}
  <2>1. \A x \in S : n - x \in Nat
    OBVIOUS
  <2>2. PICK x \in S : TRUE
    OBVIOUS
  <2>3. n - x \in far
    OBVIOUS
  <2> QED BY <2>1, <2>3
<1>2. PICK d \in far : \A e \in far : d <= e
  BY <1>1, LeastNatural
<1>3. PICK m \in S : d = n - m
  OBVIOUS
<1>4. \A j \in S : n - j \in far
  OBVIOUS
<1> HIDE DEF far
<1>5. \A j \in S : j <= m
  BY <1>2, <1>3, <1>4
<1> QED BY <1>5

LEMMA BelowIsFinite ==
    ASSUME NEW n \in Nat, NEW S \in SUBSET (1..n)
    PROVE  /\ IsFiniteSet(S) /\ Cardinality(S) \in Nat
           /\ \A i \in S : i \in Nat
           /\ \A i \in S : IsFiniteSet(Below(S, i)) /\ Cardinality(Below(S, i)) \in Nat
                           /\ Cardinality(Below(S, i)) < Cardinality(S)
<1>1. IsFiniteSet(S)
  <2>1. IsFiniteSet(1..n)
    BY FS_Interval
  <2> QED BY <2>1, FS_Subset
<1>2. ASSUME NEW i \in S
      PROVE  /\ IsFiniteSet(Below(S, i)) /\ Cardinality(Below(S, i)) \in Nat
             /\ Cardinality(Below(S, i)) < Cardinality(S)
  <2> DEFINE b == Below(S, i)
  <2>1. b \in SUBSET S /\ b # S
    BY DEF Below
  <2> HIDE DEF b
  <2>2. IsFiniteSet(b) /\ Cardinality(b) <= Cardinality(S) /\ Cardinality(b) # Cardinality(S)
    BY <1>1, <2>1, FS_Subset
  <2>3. Cardinality(b) \in Nat /\ Cardinality(S) \in Nat
    BY <1>1, <2>2, FS_CardinalityType
  <2>4. Cardinality(b) < Cardinality(S)
    BY <2>2, <2>3
  <2> QED BY <2>2, <2>3, <2>4 DEF b
<1>3. Cardinality(S) \in Nat
  BY <1>1, FS_CardinalityType
<1>4. \A i \in S : i \in Nat
  OBVIOUS
<1> QED BY <1>1, <1>2, <1>3, <1>4

LEMMA BelowGrows ==
    ASSUME NEW n \in Nat, NEW S \in SUBSET (1..n), NEW i \in S, NEW j \in S, i < j
    PROVE  Cardinality(Below(S, i)) < Cardinality(Below(S, j))
<1> DEFINE a == Below(S, i)
           b == Below(S, j)
<1>0. i \in Nat /\ j \in Nat /\ \A x \in S : x \in Nat
  OBVIOUS
<1>1. \A x \in S : x < i => x < j
  BY <1>0
<1>2. ~(i < i)
  BY <1>0
<1>3. a \in SUBSET b /\ a # b
  BY <1>1, <1>2 DEF Below
<1>4. IsFiniteSet(b)
  BY BelowIsFinite
<1> HIDE DEF a, b
<1>5. IsFiniteSet(a) /\ Cardinality(a) <= Cardinality(b) /\ Cardinality(a) # Cardinality(b)
  BY <1>3, <1>4, FS_Subset
<1>6. Cardinality(a) \in Nat /\ Cardinality(b) \in Nat
  BY <1>4, <1>5, FS_CardinalityType
<1>7. Cardinality(a) < Cardinality(b)
  BY <1>5, <1>6
<1> QED BY <1>7 DEF a, b

(* Without its greatest place, a set is what is below that place.           *)
LEMMA GreatestIsLast ==
    ASSUME NEW n \in Nat, NEW S \in SUBSET (1..n), S # {}
    PROVE  \E m \in S : /\ Below(S, m) = S \ {m}
                        /\ Cardinality(Below(S, m)) = Cardinality(S) - 1
<1>1. PICK m \in S : \A j \in S : j <= m
  BY GreatestPlace
<1>2. \A j \in S : j < m <=> j # m
  BY <1>1
<1>3. Below(S, m) = S \ {m}
  BY <1>2 DEF Below
<1>4. IsFiniteSet(S)
  BY BelowIsFinite
<1>5. Cardinality(S \ {m}) = Cardinality(S) - 1
  BY <1>4, FS_RemoveElement
<1> QED BY <1>3, <1>5

(* There is a k-th place: the least with at least k - 1 below it has no     *)
(* more, since the greatest of those below has one less.                    *)
LEMMA NthIsThere ==
    ASSUME NEW n \in Nat, NEW S \in SUBSET (1..n), NEW k \in 1..Cardinality(S)
    PROVE  Nth(S, k) \in S /\ Cardinality(Below(S, Nth(S, k))) = k - 1
<1> DEFINE late == {i \in S : Cardinality(Below(S, i)) >= k - 1}
<1>0. /\ IsFiniteSet(S) /\ Cardinality(S) \in Nat /\ \A i \in S : i \in Nat
      /\ \A i \in S : IsFiniteSet(Below(S, i)) /\ Cardinality(Below(S, i)) \in Nat
  BY BelowIsFinite
<1>a. k \in Nat /\ k >= 1 /\ k <= Cardinality(S)
  BY <1>0
<1>1. late # {} /\ late \in SUBSET Nat
  <2>1. S # {}
    BY <1>0, <1>a, FS_EmptySet
  <2>2. PICK m \in S : Cardinality(Below(S, m)) = Cardinality(S) - 1
    BY <2>1, GreatestIsLast
  <2>3. Cardinality(Below(S, m)) >= k - 1
    BY <1>0, <1>a, <2>2
  <2> QED BY <1>0, <2>3
<1>2. PICK i \in late : \A j \in late : i <= j
  <2> HIDE DEF late
  <2> QED BY <1>1, LeastNatural
<1>3. i \in S /\ i \in Nat /\ Cardinality(Below(S, i)) \in Nat /\ Cardinality(Below(S, i)) >= k - 1
  BY <1>0
<1>4. Cardinality(Below(S, i)) = k - 1
  <2> SUFFICES ASSUME Cardinality(Below(S, i)) # k - 1 PROVE FALSE
    OBVIOUS
  <2> DEFINE b == Below(S, i)
  <2>1. b \in SUBSET (1..n) /\ b \subseteq S /\ IsFiniteSet(b) /\ Cardinality(b) \in Nat
    BY <1>0, <1>3 DEF Below
  <2>2. Cardinality(b) >= k
    BY <1>3, <1>a
  <2>3. b # {}
    <3> HIDE DEF b
    <3> QED BY <1>a, <2>2, FS_EmptySet
  <2>4. PICK m \in b : Below(b, m) = b \ {m} /\ Cardinality(Below(b, m)) = Cardinality(b) - 1
    <3> HIDE DEF b
    <3> QED BY <2>1, <2>3, GreatestIsLast
  <2>5. m \in S /\ m \in Nat /\ m < i
    BY <1>0, <2>1 DEF Below
  <2>6. \A x \in S : x < m => x < i
    BY <1>0, <1>3, <2>5
  <2>7. Below(b, m) = Below(S, m)
    BY <2>6 DEF Below
  <2>8. Cardinality(Below(S, m)) >= k - 1
    <3> HIDE DEF b
    <3>1. Cardinality(Below(S, m)) = Cardinality(b) - 1
      BY <2>4, <2>7
    <3> QED BY <1>a, <2>1, <2>2, <3>1
  <2>9. i <= m
    BY <1>2, <2>5, <2>8
  <2> QED BY <1>3, <2>5, <2>9
<1> QED BY <1>3, <1>4 DEF Nth

(* The places come in order, each once, and none is left out.               *)
LEMMA PlacesInOrder ==
    ASSUME NEW n \in Nat, NEW S \in SUBSET (1..n)
    PROVE  /\ \A k \in 1..Cardinality(S) : Nth(S, k) \in S
           /\ \A k, l \in 1..Cardinality(S) : k < l => Nth(S, k) < Nth(S, l)
           /\ \A i \in S : \E k \in 1..Cardinality(S) : Nth(S, k) = i
<1>1. \A k \in 1..Cardinality(S) : Nth(S, k) \in S /\ Cardinality(Below(S, Nth(S, k))) = k - 1
  BY NthIsThere
<1>2. /\ IsFiniteSet(S) /\ Cardinality(S) \in Nat /\ \A i \in S : i \in Nat
      /\ \A i \in S : Cardinality(Below(S, i)) \in Nat /\ Cardinality(Below(S, i)) < Cardinality(S)
  BY BelowIsFinite
<1>a. \A i, j \in S : i < j => Cardinality(Below(S, i)) < Cardinality(Below(S, j))
  BY BelowGrows
<1>3. ASSUME NEW k \in 1..Cardinality(S), NEW l \in 1..Cardinality(S), k < l
      PROVE  Nth(S, k) < Nth(S, l)
  <2>1. Nth(S, k) \in S /\ Nth(S, l) \in S
    BY <1>1
  <2>2. Nth(S, k) \in Nat /\ Nth(S, l) \in Nat
    BY <1>2, <2>1
  <2>3. Cardinality(Below(S, Nth(S, k))) = k - 1 /\ Cardinality(Below(S, Nth(S, l))) = l - 1
    BY <1>1
  <2>4. k \in Nat /\ l \in Nat
    BY <1>2
  <2>5. Nth(S, k) # Nth(S, l)
    BY <1>3, <2>3, <2>4
  <2>6. ~(Nth(S, l) < Nth(S, k))
    <3> SUFFICES ASSUME Nth(S, l) < Nth(S, k) PROVE FALSE
      OBVIOUS
    <3>1. Cardinality(Below(S, Nth(S, l))) < Cardinality(Below(S, Nth(S, k)))
      BY <1>a, <2>1
    <3> QED BY <1>3, <2>3, <2>4, <3>1
  <2> QED BY <2>2, <2>5, <2>6
<1>4. ASSUME NEW i \in S
      PROVE  \E k \in 1..Cardinality(S) : Nth(S, k) = i
  <2> DEFINE k == Cardinality(Below(S, i)) + 1
  <2>0. k \in Nat /\ k - 1 = Cardinality(Below(S, i))
    BY <1>2
  <2>1. k \in 1..Cardinality(S)
    BY <1>2
  <2> HIDE DEF k
  <2>2. Nth(S, k) \in S /\ Cardinality(Below(S, Nth(S, k))) = Cardinality(Below(S, i))
    BY <1>1, <2>0, <2>1
  <2>3. Nth(S, k) \in Nat /\ i \in Nat /\ Cardinality(Below(S, i)) \in Nat
    BY <1>2, <2>2
  <2>4. ~(Nth(S, k) < i)
    BY <1>a, <2>2, <2>3
  <2>5. ~(i < Nth(S, k))
    BY <1>a, <2>2, <2>3
  <2>6. Nth(S, k) = i
    BY <2>3, <2>4, <2>5
  <2> QED BY <2>1, <2>6
<1> QED BY <1>1, <1>3, <1>4


(* The place before a place.                                                *)
LEMMA PlaceBefore ==
    ASSUME NEW n \in Nat, NEW S \in SUBSET (1..n), NEW i \in S, NEW j \in S, i < j,
           \A x \in S : ~(i < x /\ x < j),
           NEW k \in 1..Cardinality(S), Nth(S, k) = j
    PROVE  k > 1 /\ Nth(S, k - 1) = i
<1>1. /\ \A a \in 1..Cardinality(S) : Nth(S, a) \in S
      /\ \A a, b \in 1..Cardinality(S) : a < b => Nth(S, a) < Nth(S, b)
  BY PlacesInOrder
<1>2. Cardinality(S) \in Nat /\ \A x \in S : x \in Nat
  BY BelowIsFinite
<1>3. PICK l \in 1..Cardinality(S) : Nth(S, l) = i
  BY PlacesInOrder
<1>4. k \in Nat /\ l \in Nat /\ i \in Nat /\ j \in Nat /\ l >= 1
  BY <1>2
<1>5. l < k
  <2>1. k # l
    BY <1>3, <1>4
  <2>2. ~(k < l)
    BY <1>1, <1>3, <1>4
  <2> QED BY <1>4, <2>1, <2>2
<1>6. k - 1 \in 1..Cardinality(S)
  BY <1>2, <1>4, <1>5
<1>7. Nth(S, k - 1) < j /\ Nth(S, k - 1) \in S
  BY <1>1, <1>4, <1>6
<1>8. ~(l < k - 1)
  <2> SUFFICES ASSUME l < k - 1 PROVE FALSE
    OBVIOUS
  <2>1. i < Nth(S, k - 1)
    BY <1>1, <1>3, <1>6
  <2> QED BY <1>7, <2>1
<1>9. l = k - 1
  BY <1>4, <1>5, <1>8
<1> QED BY <1>3, <1>4, <1>5, <1>9

(* A set of numbers with 0 and all successors has them all.                 *)
LEMMA SetInduction ==
    ASSUME NEW S \in SUBSET Nat, 0 \in S, \A n \in S : n + 1 \in S
    PROVE  S = Nat
<1> SUFFICES ASSUME S # Nat PROVE FALSE
  OBVIOUS
<1>1. PICK x \in Nat \ S : \A y \in Nat \ S : x <= y
  BY LeastNatural
<1>2. x # 0
  OBVIOUS
<1>3. x - 1 \in Nat
  BY <1>2
<1>4. x - 1 \in S
  BY <1>1, <1>3
<1>5. (x - 1) + 1 \in S
  BY <1>4
<1> QED BY <1>5

(* What a filter keeps, at its two ends.                                    *)

(* The last entry kept is the one at the greatest place.                    *)
LEMMA LastSelected ==
    ASSUME NEW n \in Nat, NEW S \in SUBSET (1..n), NEW seq, NEW m \in S, \A j \in S : j <= m
    PROVE  Cardinality(S) \in 1..n /\ Selected(seq, S)[Cardinality(S)] = seq[m]
<1> DEFINE c == Cardinality(S)
<1>1. /\ c \in Nat /\ \A i \in S : i \in Nat
      /\ \A i \in S : Cardinality(Below(S, i)) \in Nat /\ Cardinality(Below(S, i)) < c
  BY BelowIsFinite
<1>2. c \in 1..c
  BY <1>1
<1>3. /\ \A k \in 1..c : Nth(S, k) \in S
      /\ \A k, l \in 1..c : k < l => Nth(S, k) < Nth(S, l)
      /\ \A i \in S : \E k \in 1..c : Nth(S, k) = i
  BY PlacesInOrder
<1>4. PICK k \in 1..c : Nth(S, k) = m
  BY <1>3
<1>5. k = c
  <2>1. k \in Nat /\ k <= c
    BY <1>1
  <2>2. ~(k < c)
    <3> SUFFICES ASSUME k < c PROVE FALSE
      OBVIOUS
    <3>1. m < Nth(S, c) /\ Nth(S, c) \in S
      BY <1>2, <1>3, <1>4
    <3>2. m \in Nat /\ Nth(S, c) \in Nat /\ Nth(S, c) <= m
      BY <1>1, <3>1
    <3> QED BY <3>1, <3>2
  <2> QED BY <1>1, <2>1, <2>2
<1>6. c <= n
  <2>1. IsFiniteSet(1..n) /\ Cardinality(1..n) = n
    <3>1. CASE n = 0
      BY <3>1, FS_Interval
    <3>2. CASE n # 0
      BY <3>2, FS_Interval
    <3> QED BY <3>1, <3>2
  <2> QED BY <2>1, FS_Subset
<1>7. Selected(seq, S)[c] = seq[m]
  BY <1>2, <1>4, <1>5 DEF Selected
<1> QED BY <1>1, <1>2, <1>6, <1>7

(* Neighbours that are kept stay neighbours.                                *)
LEMMA PlaceAfter ==
    ASSUME NEW n \in Nat, NEW S \in SUBSET (1..n), NEW p \in 1..Cardinality(S), Nth(S, p) + 1 \in S
    PROVE  p + 1 \in 1..Cardinality(S) /\ Nth(S, p + 1) = Nth(S, p) + 1
<1> DEFINE i == Nth(S, p)
           j == i + 1
<1>1. /\ \A k \in 1..Cardinality(S) : Nth(S, k) \in S
      /\ \A x \in S : \E k \in 1..Cardinality(S) : Nth(S, k) = x
      /\ \A k, l \in 1..Cardinality(S) : k < l => Nth(S, k) < Nth(S, l)
  BY PlacesInOrder
<1>2. i \in S /\ j \in S
  BY <1>1
<1>3. Cardinality(S) \in Nat /\ \A x \in S : x \in Nat
  BY BelowIsFinite
<1>4. PICK k \in 1..Cardinality(S) : Nth(S, k) = j
  BY <1>1, <1>2
<1> HIDE DEF i
<1>5. i < j /\ \A x \in S : ~(i < x /\ x < j)
  BY <1>2, <1>3
<1>6. k > 1 /\ Nth(S, k - 1) = i
  <2> HIDE DEF j
  <2> QED BY <1>2, <1>4, <1>5, PlaceBefore
<1>7. k - 1 \in 1..Cardinality(S) /\ k \in Nat /\ p \in Nat
  BY <1>3, <1>6
<1>8. k - 1 = p
  <2>1. i \in Nat /\ Nth(S, p) = i
    BY <1>2, <1>3 DEF i
  <2>2. ~(k - 1 < p) /\ ~(p < k - 1)
    BY <1>1, <1>6, <1>7, <2>1
  <2> QED BY <1>7, <2>2
<1> QED BY <1>4, <1>7, <1>8 DEF i

-----------------------------------------------------------------------------
(***************************************************************************)
(* The terminal.                                                           *)
(***************************************************************************)

(* A conversation is well formed: what was said stands after its prompt.    *)
RowUpTo(top) == [who : {"user", "tools", "model"}, n : 1..top]

Follows(ms, i) ==
    ms[i].who # "user" =>
        /\ i > 1 /\ ms[i - 1].n = ms[i].n
        /\ ms[i - 1].who \in IF ms[i].who = "tools" THEN {"user"} ELSE {"user", "tools"}

IsConversation(ms, top) ==
    /\ ms \in Seq(RowUpTo(top))
    /\ \A i \in 1..Len(ms) : Follows(ms, i)
    /\ \A i, j \in 1..Len(ms) : i < j => ms[i].n <= ms[j].n

Talks(cs, top) == \A c \in DOMAIN cs : IsConversation(cs[c], top)

Apart(cs) ==
    \A c, d \in DOMAIN cs : c # d =>
        \A i \in 1..Len(cs[c]), j \in 1..Len(cs[d]) : cs[c][i].n # cs[d][j].n

LEMMA LaterIsMore ==
    ASSUME NEW cs, NEW top \in Nat, Talks(cs, top)
    PROVE  Talks(cs, top + 1)
<1>1. RowUpTo(top) \subseteq RowUpTo(top + 1)
  BY DEF RowUpTo
<1>2. ASSUME NEW c \in DOMAIN cs PROVE cs[c] \in Seq(RowUpTo(top + 1))
  BY <1>1 DEF Talks, IsConversation
<1> QED BY <1>2 DEF Talks, IsConversation

LEMMA PromptIsAdded ==
    ASSUME NEW top \in Nat \ {0}, NEW ms, IsConversation(ms, top),
           \A i \in 1..Len(ms) : ms[i].n < top
    PROVE  IsConversation(Append(ms, [who |-> "user", n |-> top]), top)
<1> DEFINE row == [who |-> "user", n |-> top]
           new == Append(ms, row)
<1>1. row \in RowUpTo(top) /\ ms \in Seq(RowUpTo(top)) /\ Len(ms) \in Nat
  BY DEF RowUpTo, IsConversation
<1>2. /\ new \in Seq(RowUpTo(top)) /\ Len(new) = Len(ms) + 1
      /\ \A i \in 1..Len(ms) : new[i] = ms[i]
      /\ new[Len(ms) + 1] = row
  BY <1>1
<1>3. row.who = "user" /\ row.n = top
  OBVIOUS
<1>t. \A i \in 1..Len(ms) : ms[i].n \in Nat
  <2>1. \A r \in RowUpTo(top) : r.n \in Nat
    BY DEF RowUpTo
  <2>2. \A i \in 1..Len(ms) : ms[i] \in RowUpTo(top)
    BY <1>1
  <2> QED BY <2>1, <2>2
<1> HIDE DEF new, row
<1>4. ASSUME NEW i \in 1..Len(new) PROVE Follows(new, i)
  <2>1. CASE i = Len(ms) + 1
    BY <1>2, <1>3, <2>1 DEF Follows
  <2>2. CASE i # Len(ms) + 1
    <3>1. i \in 1..Len(ms) /\ (i > 1 => i - 1 \in 1..Len(ms))
      BY <1>1, <1>2, <2>2
    <3>2. Follows(ms, i)
      BY <3>1 DEF IsConversation
    <3> QED BY <1>2, <3>1, <3>2 DEF Follows
  <2> QED BY <2>1, <2>2
<1>5. ASSUME NEW i \in 1..Len(new), NEW j \in 1..Len(new), i < j PROVE new[i].n <= new[j].n
  <2>1. i \in 1..Len(ms)
    BY <1>1, <1>2, <1>5
  <2>2. CASE j = Len(ms) + 1
    BY <1>2, <1>3, <1>t, <2>1, <2>2
  <2>3. CASE j # Len(ms) + 1
    <3>1. j \in 1..Len(ms)
      BY <1>1, <1>2, <2>3
    <3> QED BY <1>2, <1>5, <2>1, <3>1 DEF IsConversation
  <2> QED BY <2>2, <2>3
<1> QED BY <1>2, <1>4, <1>5 DEF IsConversation, new, row

(* A row of the run at its end, by the same prompt.                         *)
LEMMA RowIsAdded ==
    ASSUME NEW top \in Nat \ {0}, NEW ms, IsConversation(ms, top), Len(ms) > 0,
           ms[Len(ms)].n = top,
           NEW who \in {"tools", "model"},
           ms[Len(ms)].who = "user" \/ (ms[Len(ms)].who = "tools" /\ who = "model")
    PROVE  IsConversation(ms \o <<[who |-> who, n |-> top]>>, top)
<1> DEFINE row == [who |-> who, n |-> top]
           new == ms \o <<row>>
<1>1. row \in RowUpTo(top) /\ ms \in Seq(RowUpTo(top)) /\ Len(ms) \in Nat
  BY DEF RowUpTo, IsConversation
<1>2. /\ new \in Seq(RowUpTo(top)) /\ Len(new) = Len(ms) + 1
      /\ \A i \in 1..Len(ms) : new[i] = ms[i]
      /\ new[Len(ms) + 1] = row
  BY <1>1
<1>3. row.who = who /\ row.n = top
  OBVIOUS
<1>t. \A i \in 1..Len(ms) : ms[i].n \in 1..top
  <2>1. \A r \in RowUpTo(top) : r.n \in 1..top
    BY DEF RowUpTo
  <2>2. \A i \in 1..Len(ms) : ms[i] \in RowUpTo(top)
    BY <1>1
  <2> QED BY <2>1, <2>2
<1> HIDE DEF new, row
<1>4. ASSUME NEW i \in 1..Len(new) PROVE Follows(new, i)
  <2>1. CASE i = Len(ms) + 1
    <3>1. i > 1 /\ i - 1 = Len(ms) /\ new[i - 1] = ms[Len(ms)] /\ new[i] = row
      BY <1>1, <1>2, <2>1
    <3> QED BY <1>3, <3>1 DEF Follows
  <2>2. CASE i # Len(ms) + 1
    <3>1. i \in 1..Len(ms) /\ (i > 1 => i - 1 \in 1..Len(ms))
      BY <1>1, <1>2, <2>2
    <3>2. Follows(ms, i)
      BY <3>1 DEF IsConversation
    <3> QED BY <1>2, <3>1, <3>2 DEF Follows
  <2> QED BY <2>1, <2>2
<1>5. ASSUME NEW i \in 1..Len(new), NEW j \in 1..Len(new), i < j PROVE new[i].n <= new[j].n
  <2>1. i \in 1..Len(ms)
    BY <1>1, <1>2, <1>5
  <2>2. CASE j = Len(ms) + 1
    BY <1>2, <1>3, <1>t, <2>1, <2>2
  <2>3. CASE j # Len(ms) + 1
    <3>1. j \in 1..Len(ms)
      BY <1>1, <1>2, <2>3
    <3> QED BY <1>2, <1>5, <2>1, <3>1 DEF IsConversation
  <2> QED BY <2>2, <2>3
<1> QED BY <1>2, <1>4, <1>5 DEF IsConversation, new, row

Extends(new, ms, top) ==
    /\ IsConversation(new, top)
    /\ \A i \in 1..Len(new) : new[i].n = IF i <= Len(ms) THEN ms[i].n ELSE top

(* What the run said stands after the prompt, and is of this prompt.        *)
LEMMA OutcomeIsAdded ==
    ASSUME NEW top \in Nat \ {0}, tuiTurn.n = top, NEW ms, IsConversation(ms, top), Len(ms) > 0,
           ms[Len(ms)].n = top, ms[Len(ms)].who = "user", NEW result \in Outcomes
    PROVE  Extends(ms \o Said(result), ms, top)
<1> DEFINE row(who) == [who |-> who, n |-> top]
<1>0. ms \in Seq(RowUpTo(top)) /\ Len(ms) \in Nat /\ \A w \in {"tools", "model"} : row(w) \in RowUpTo(top)
  BY DEF IsConversation, RowUpTo
<1>1. CASE result \in {"error", "raises"}
  <2>1. Said(result) = <<>>
    BY <1>1 DEF Said
  <2>2. ms \o Said(result) = ms
    BY <1>0, <2>1
  <2> QED BY <1>0, <2>2 DEF Extends
<1>2. CASE result = "cut"
  <2>1. Said(result) = <<row("tools")>>
    BY <1>2 DEF Said
  <2>2. IsConversation(ms \o <<row("tools")>>, top)
    BY RowIsAdded
  <2>3. /\ Len(ms \o <<row("tools")>>) = Len(ms) + 1
        /\ \A i \in 1..Len(ms) : (ms \o <<row("tools")>>)[i] = ms[i]
        /\ (ms \o <<row("tools")>>)[Len(ms) + 1] = row("tools")
    BY <1>0
  <2> QED BY <1>0, <2>1, <2>2, <2>3 DEF Extends
<1>3. CASE result = "answer"
  <2>1. Said(result) = <<row("model")>>
    BY <1>3 DEF Said
  <2>2. IsConversation(ms \o <<row("model")>>, top)
    BY RowIsAdded
  <2>3. /\ Len(ms \o <<row("model")>>) = Len(ms) + 1
        /\ \A i \in 1..Len(ms) : (ms \o <<row("model")>>)[i] = ms[i]
        /\ (ms \o <<row("model")>>)[Len(ms) + 1] = row("model")
    BY <1>0
  <2> QED BY <1>0, <2>1, <2>2, <2>3 DEF Extends
<1>4. CASE result = "worked"
  <2> DEFINE mid == ms \o <<row("tools")>>
             new == mid \o <<row("model")>>
  <2>1. Said(result) = <<row("tools")>> \o <<row("model")>>
    BY <1>4 DEF Said
  <2>2. ms \o Said(result) = new
    BY <1>0, <2>1
  <2>3. IsConversation(mid, top)
    BY RowIsAdded
  <2>4. /\ mid \in Seq(RowUpTo(top)) /\ Len(mid) = Len(ms) + 1
        /\ \A i \in 1..Len(ms) : mid[i] = ms[i]
        /\ mid[Len(ms) + 1] = row("tools")
    BY <1>0
  <2>5. /\ Len(new) = Len(mid) + 1
        /\ \A i \in 1..Len(mid) : new[i] = mid[i]
        /\ new[Len(mid) + 1] = row("model")
    BY <1>0, <2>4
  <2>6. row("tools").n = top /\ row("model").n = top /\ row("tools").who = "tools"
    OBVIOUS
  <2> HIDE DEF mid
  <2>7. IsConversation(new, top)
    <3>1. mid[Len(mid)] = row("tools") /\ Len(mid) > 0
      BY <1>0, <2>4
    <3> QED BY <2>3, <2>6, <3>1, RowIsAdded
  <2> HIDE DEF new, row
  <2> QED BY <1>0, <2>2, <2>4, <2>5, <2>6, <2>7 DEF Extends
<1> QED BY <1>1, <1>2, <1>3, <1>4 DEF Outcomes

(* What is restored is still a conversation, of the same prompts.           *)
LEMMA RestoredTalks ==
    ASSUME NEW top \in Nat, NEW ms, IsConversation(ms, top)
    PROVE  /\ IsConversation(Restored(ms), top)
           /\ \A k \in 1..Len(Restored(ms)) : \E i \in 1..Len(ms) : Restored(ms)[k] = ms[i]
<1> DEFINE kept == {i \in 1..Len(ms) : ms[i].who # "tools"}
           new == Restored(ms)
<1>0. ms \in Seq(RowUpTo(top)) /\ Len(ms) \in Nat /\ kept \in SUBSET (1..Len(ms))
  BY DEF IsConversation
<1>1. /\ Cardinality(kept) \in Nat
      /\ \A k \in 1..Cardinality(kept) : Nth(kept, k) \in kept
      /\ \A k, l \in 1..Cardinality(kept) : k < l => Nth(kept, k) < Nth(kept, l)
  <2> HIDE DEF kept
  <2> QED BY <1>0, PlacesInOrder, BelowIsFinite
<1>2. /\ DOMAIN new = 1..Cardinality(kept)
      /\ \A k \in 1..Cardinality(kept) : new[k] = ms[Nth(kept, k)]
      /\ new = [k \in 1..Cardinality(kept) |-> ms[Nth(kept, k)]]
  BY DEF Restored, Selected
<1>3. \A i \in kept : i \in 1..Len(ms) /\ ms[i] \in RowUpTo(top) /\ ms[i].who # "tools"
  BY <1>0
<1>i. \A i \in 1..Len(ms) : ms[i].who # "tools" => i \in kept
  OBVIOUS
<1> HIDE DEF new, kept
<1>4. new \in Seq(RowUpTo(top)) /\ Len(new) = Cardinality(kept)
  <2>1. \A k \in 1..Cardinality(kept) : ms[Nth(kept, k)] \in RowUpTo(top)
    BY <1>1, <1>3
  <2> QED BY <1>1, <1>2, <2>1
<1>5. ASSUME NEW k \in 1..Len(new) PROVE Follows(new, k)
  <2> SUFFICES ASSUME new[k].who # "user"
               PROVE  /\ k > 1 /\ new[k - 1].n = new[k].n
                      /\ new[k - 1].who \in {"user"} /\ new[k].who = "model"
    BY DEF Follows
  <2> DEFINE i == Nth(kept, k)
  <2>1. i \in kept /\ new[k] = ms[i] /\ k \in 1..Cardinality(kept)
    BY <1>1, <1>2, <1>4
  <2> HIDE DEF i
  <2>2. i \in 1..Len(ms) /\ ms[i].who = "model" /\ Follows(ms, i)
    BY <1>3, <2>1 DEF RowUpTo, IsConversation
  <2>3. i > 1 /\ i - 1 \in 1..Len(ms) /\ ms[i - 1].n = ms[i].n /\ ms[i - 1].who \in {"user", "tools"}
    BY <1>0, <2>2 DEF Follows
  <2>4. ASSUME NEW h \in kept, h < i, \A x \in kept : ~(h < x /\ x < i)
        PROVE  k > 1 /\ new[k - 1] = ms[h]
    <3>1. k > 1 /\ Nth(kept, k - 1) = h
      <4>1. Nth(kept, k) = i
        BY DEF i
      <4>2. ASSUME NEW a \in kept, NEW b \in kept, a < b, \A x \in kept : ~(a < x /\ x < b),
                   NEW c \in 1..Cardinality(kept), Nth(kept, c) = b
            PROVE  c > 1 /\ Nth(kept, c - 1) = a
        BY <1>0, <4>2, PlaceBefore
      <4> QED BY <2>1, <2>4, <4>1, <4>2
    <3>2. k - 1 \in 1..Cardinality(kept)
      BY <1>1, <2>1, <3>1
    <3> QED BY <1>2, <3>1, <3>2
  <2>5. CASE ms[i - 1].who = "user"
    <3>1. i - 1 \in kept /\ i - 1 < i
      BY <1>i, <2>2, <2>3, <2>5
    <3>2. \A x \in kept : ~(i - 1 < x /\ x < i)
      BY <1>3, <2>2
    <3> QED BY <2>1, <2>2, <2>3, <2>4, <2>5, <3>1, <3>2
  <2>6. CASE ms[i - 1].who = "tools"
    <3>1. Follows(ms, i - 1)
      BY <2>3 DEF IsConversation
    <3>2. i - 1 > 1 /\ ms[i - 2].n = ms[i - 1].n /\ ms[i - 2].who = "user"
      BY <2>2, <2>3, <2>6, <3>1 DEF Follows
    <3>3. i - 2 \in 1..Len(ms) /\ i - 2 < i
      BY <1>0, <2>2, <3>2
    <3>4. i - 2 \in kept /\ i - 1 \notin kept
      BY <1>i, <1>3, <2>6, <3>2, <3>3
    <3>5. \A x \in kept : ~(i - 2 < x /\ x < i)
      BY <1>3, <2>2, <3>4
    <3> QED BY <2>1, <2>2, <2>3, <2>4, <3>2, <3>3, <3>4, <3>5
  <2> QED BY <2>3, <2>5, <2>6
<1>6. ASSUME NEW k \in 1..Len(new), NEW l \in 1..Len(new), k < l PROVE new[k].n <= new[l].n
  <2>1. Nth(kept, k) < Nth(kept, l) /\ Nth(kept, k) \in 1..Len(ms) /\ Nth(kept, l) \in 1..Len(ms)
    BY <1>1, <1>3, <1>4, <1>6
  <2>2. new[k] = ms[Nth(kept, k)] /\ new[l] = ms[Nth(kept, l)]
    BY <1>2, <1>4
  <2> QED BY <2>1, <2>2 DEF IsConversation
<1>7. ASSUME NEW k \in 1..Len(new) PROVE \E i \in 1..Len(ms) : new[k] = ms[i]
  <2>1. Nth(kept, k) \in 1..Len(ms) /\ new[k] = ms[Nth(kept, k)]
    BY <1>1, <1>2, <1>3, <1>4
  <2> QED BY <2>1
<1>8. IsConversation(new, top)
  BY <1>4, <1>5, <1>6 DEF IsConversation
<1> QED BY <1>7, <1>8 DEF new

-----------------------------------------------------------------------------
(* The prompts of the conversations are all older than n.                   *)
NothingFrom(cs, n) == \A c \in DOMAIN cs : \A i \in 1..Len(cs[c]) : cs[c][i].n < n

IsWritten(file) ==
    file = [st |-> file.st, chats |-> file.chats, usage |-> file.usage, active |-> file.active]

ChatsAreGood == active \in DOMAIN chats /\ Talks(chats, tuiTurns) /\ Apart(chats)

FileIsGood ==
    stateFile.st # "missing" =>
        /\ IsWritten(stateFile) /\ stateFile.active \in DOMAIN stateFile.chats
        /\ Talks(stateFile.chats, tuiTurns) /\ Apart(stateFile.chats)

SavedIsTorn == app \in {"saving", "leaving"} => stateFile.st = "torn"

NoTurnAtRest == app \in {"saving", "down"} => tuiTurn = NoTuiTurn

TurnIsLast == tuiTurn.st # "none" => tuiTurn.n = tuiTurns /\ tuiTurns > 0

NotYetAsked == tuiTurn.st \in {"submitted", "picked"} => NothingFrom(chats, tuiTurns)

ChatIsThere == tuiTurn.st \in {"picked", "running"} => tuiTurn.chat \in DOMAIN chats

BaseIsChat ==
    tuiTurn.st = "running" =>
        /\ tuiTurn.base = chats[tuiTurn.chat] /\ Len(tuiTurn.base) > 0
        /\ tuiTurn.base[Len(tuiTurn.base)] = [who |-> "user", n |-> tuiTurns]

(* The invariant: what is in memory and what is in the file are separate    *)
(* conversations; a prompt's number stands nowhere before it is asked, and  *)
(* while it runs its conversation is the one the outcome will replace.      *)
TuiInv ==
    /\ tuiTurns \in Nat /\ ChatsAreGood /\ FileIsGood /\ SavedIsTorn /\ NoTurnAtRest
    /\ TurnIsLast /\ NotYetAsked /\ ChatIsThere /\ BaseIsChat

LEMMA TuiStart == TuiInit => TuiInv
<1> SUFFICES ASSUME TuiInit PROVE TuiInv
  OBVIOUS
<1>1. /\ chats = Fresh /\ active = DefaultContext /\ tuiTurn = NoTuiTurn /\ app = "up"
      /\ stateFile = NoFile /\ tuiTurns = 0
  BY DEF TuiInit
<1>2. DOMAIN chats = {DefaultContext} /\ chats[DefaultContext] = <<>>
  BY <1>1 DEF Fresh
<1>3. \A c \in DOMAIN chats : chats[c] = <<>> /\ chats[c] \in Seq(RowUpTo(0)) /\ Len(chats[c]) = 0
  BY <1>2
<1>4. Talks(chats, 0)
  BY <1>3 DEF Talks, IsConversation
<1>5. Apart(chats)
  BY <1>2 DEF Apart
<1>6. tuiTurn.st = "none" /\ stateFile.st = "missing"
  BY <1>1 DEF NoTuiTurn, NoFile
<1> QED
  BY <1>1, <1>2, <1>4, <1>5, <1>6
  DEF TuiInv, ChatsAreGood, FileIsGood, SavedIsTorn, NoTurnAtRest, TurnIsLast, NotYetAsked,
      ChatIsThere, BaseIsChat

(* A new prompt has a number that stands nowhere yet.                       *)
LEMMA SubmitKeeps == TuiInv /\ SubmitPrompt => TuiInv'
<1> SUFFICES ASSUME TuiInv, SubmitPrompt PROVE TuiInv'
  OBVIOUS
<1>1. /\ tuiTurns' = tuiTurns + 1 /\ tuiTurns \in Nat /\ app' = "up"
      /\ tuiTurn' = [st |-> "submitted", n |-> tuiTurns + 1]
      /\ UNCHANGED <<chats, active, app, stateFile>>
  BY DEF SubmitPrompt, AtPrompt, TuiInv
<1>2. tuiTurn'.st = "submitted" /\ tuiTurn'.n = tuiTurns'
  BY <1>1
<1>3. ChatsAreGood'
  <2>1. Talks(chats, tuiTurns + 1)
    BY <1>1, LaterIsMore DEF TuiInv, ChatsAreGood
  <2> QED BY <1>1, <2>1 DEF TuiInv, ChatsAreGood
<1>4. FileIsGood'
  <2> SUFFICES ASSUME stateFile.st # "missing"
               PROVE  /\ IsWritten(stateFile) /\ stateFile.active \in DOMAIN stateFile.chats
                      /\ Talks(stateFile.chats, tuiTurns + 1) /\ Apart(stateFile.chats)
    BY <1>1 DEF FileIsGood
  <2>1. Talks(stateFile.chats, tuiTurns)
    BY DEF TuiInv, FileIsGood
  <2>2. Talks(stateFile.chats, tuiTurns + 1)
    BY <1>1, <2>1, LaterIsMore
  <2> QED BY <2>2 DEF TuiInv, FileIsGood
<1>5. NothingFrom(chats, tuiTurns + 1)
  <2> SUFFICES ASSUME NEW c \in DOMAIN chats, NEW i \in 1..Len(chats[c])
               PROVE  chats[c][i].n < tuiTurns + 1
    BY DEF NothingFrom
  <2>1. chats[c] \in Seq(RowUpTo(tuiTurns))
    BY DEF TuiInv, ChatsAreGood, Talks, IsConversation
  <2>2. chats[c][i] \in RowUpTo(tuiTurns)
    BY <2>1
  <2>3. chats[c][i].n \in 1..tuiTurns
    BY <2>2 DEF RowUpTo
  <2> QED BY <1>1, <2>3
<1> QED
  BY <1>1, <1>2, <1>3, <1>4, <1>5
  DEF TuiInv, SavedIsTorn, NoTurnAtRest, TurnIsLast, NotYetAsked, ChatIsThere, BaseIsChat

LEMMA PickKeeps == TuiInv /\ PickChat => TuiInv'
<1> SUFFICES ASSUME TuiInv, PickChat PROVE TuiInv'
  OBVIOUS
<1>1. /\ tuiTurn' = [st |-> "picked", n |-> tuiTurn.n, chat |-> active]
      /\ tuiTurn.st = "submitted"
      /\ UNCHANGED <<chats, active, app, stateFile, tuiTurns>>
  BY DEF PickChat
<1>2. tuiTurn'.st = "picked" /\ tuiTurn'.n = tuiTurn.n /\ tuiTurn'.chat = active
  BY <1>1
<1>3. tuiTurn # NoTuiTurn
  BY <1>1 DEF NoTuiTurn
<1>4. app \notin {"saving", "down"}
  BY <1>3 DEF TuiInv, NoTurnAtRest
<1>5. ChatsAreGood' /\ FileIsGood' /\ SavedIsTorn'
  BY <1>1 DEF TuiInv, ChatsAreGood, FileIsGood, SavedIsTorn
<1> QED
  BY <1>1, <1>2, <1>4, <1>5
  DEF TuiInv, ChatsAreGood, NoTurnAtRest, TurnIsLast, NotYetAsked, ChatIsThere, BaseIsChat

(* The prompt is put at the end of one conversation.                        *)
LEMMA BeginRunKeeps == TuiInv /\ BeginRun => TuiInv'
<1> SUFFICES ASSUME TuiInv, BeginRun PROVE TuiInv'
  OBVIOUS
<1> DEFINE to == tuiTurn.chat
           row == [who |-> "user", n |-> tuiTurns]
           new == Append(chats[to], row)
<1>1. /\ tuiTurn.st = "picked" /\ tuiTurn.n = tuiTurns /\ tuiTurns \in Nat \ {0}
      /\ to \in DOMAIN chats /\ NothingFrom(chats, tuiTurns)
      /\ Talks(chats, tuiTurns) /\ Apart(chats)
  BY DEF BeginRun, TuiInv, TurnIsLast, NotYetAsked, ChatIsThere, ChatsAreGood
<1>2. /\ chats' = [chats EXCEPT ![to] = new]
      /\ tuiTurn' = [st |-> "running", n |-> tuiTurns, chat |-> to, root |-> active,
                     base |-> chats'[to]]
      /\ UNCHANGED <<active, app, stateFile, tuiTurns>>
  BY <1>1 DEF BeginRun
<1>3. /\ DOMAIN chats' = DOMAIN chats /\ chats'[to] = new
      /\ \A c \in DOMAIN chats : c # to => chats'[c] = chats[c]
  BY <1>1, <1>2
<1>4. /\ tuiTurn'.st = "running" /\ tuiTurn'.n = tuiTurns /\ tuiTurn'.chat = to
      /\ tuiTurn'.base = chats'[to]
  BY <1>2
<1>5. IsConversation(chats[to], tuiTurns) /\ \A i \in 1..Len(chats[to]) : chats[to][i].n < tuiTurns
  BY <1>1 DEF Talks, NothingFrom
<1>6. IsConversation(new, tuiTurns)
  BY <1>1, <1>5, PromptIsAdded
<1>7. /\ Len(new) = Len(chats[to]) + 1 /\ new[Len(chats[to]) + 1] = row
      /\ \A i \in 1..Len(chats[to]) : new[i] = chats[to][i]
      /\ Len(chats[to]) \in Nat
  BY <1>5 DEF IsConversation
<1>8. row.n = tuiTurns
  OBVIOUS
<1>c. \A c \in DOMAIN chats : \A i \in 1..Len(chats[c]) : chats[c][i].n < tuiTurns
  BY <1>1 DEF NothingFrom
<1> HIDE DEF new, to, row
<1>n. ~(tuiTurns < tuiTurns)
  BY <1>1
<1>9. Talks(chats', tuiTurns)
  BY <1>1, <1>3, <1>6 DEF Talks
<1>10. Apart(chats')
  <2> SUFFICES ASSUME NEW c \in DOMAIN chats, NEW d \in DOMAIN chats, c # d,
                      NEW i \in 1..Len(chats'[c]), NEW j \in 1..Len(chats'[d])
               PROVE  chats'[c][i].n # chats'[d][j].n
    BY <1>3 DEF Apart
  <2>1. CASE c = to
    <3>1. chats'[d] = chats[d] /\ chats'[c] = new
      BY <1>3, <2>1
    <3>2. chats[d][j].n < tuiTurns
      BY <1>c, <3>1
    <3>3. CASE i = Len(chats[to]) + 1
      BY <1>7, <1>8, <1>n, <3>1, <3>2, <3>3
    <3>4. CASE i # Len(chats[to]) + 1
      <4>1. i \in 1..Len(chats[to])
        BY <1>7, <3>1, <3>4
      <4>2. chats[to][i].n # chats[d][j].n
        BY <1>1, <2>1, <3>1, <4>1 DEF Apart
      <4> QED BY <1>7, <3>1, <4>1, <4>2
    <3> QED BY <3>3, <3>4
  <2>2. CASE d = to
    <3>1. chats'[c] = chats[c] /\ chats'[d] = new
      BY <1>3, <2>2
    <3>2. chats[c][i].n < tuiTurns
      BY <1>c, <3>1
    <3>3. CASE j = Len(chats[to]) + 1
      BY <1>7, <1>8, <1>n, <3>1, <3>2, <3>3
    <3>4. CASE j # Len(chats[to]) + 1
      <4>1. j \in 1..Len(chats[to])
        BY <1>7, <3>1, <3>4
      <4>2. chats[c][i].n # chats[to][j].n
        BY <1>1, <2>2, <3>1, <4>1 DEF Apart
      <4> QED BY <1>7, <3>1, <4>1, <4>2
    <3> QED BY <3>3, <3>4
  <2>3. CASE c # to /\ d # to
    <3>1. chats'[c] = chats[c] /\ chats'[d] = chats[d]
      BY <1>3, <2>3
    <3> QED BY <1>1, <3>1 DEF Apart
  <2> QED BY <2>1, <2>2, <2>3
<1>11. tuiTurn # NoTuiTurn
  BY <1>1 DEF NoTuiTurn
<1>12. app \notin {"saving", "down"}
  BY <1>11 DEF TuiInv, NoTurnAtRest
<1>13. ChatsAreGood'
  BY <1>2, <1>3, <1>9, <1>10 DEF TuiInv, ChatsAreGood
<1>14. FileIsGood' /\ SavedIsTorn' /\ NoTurnAtRest' /\ tuiTurns' \in Nat
  BY <1>2, <1>12 DEF TuiInv, FileIsGood, SavedIsTorn, NoTurnAtRest
<1>15. BaseIsChat'
  <2>1. tuiTurn'.base = new /\ Len(new) > 0 /\ new[Len(new)] = row
    BY <1>3, <1>4, <1>7
  <2> QED BY <1>2, <1>3, <1>4, <2>1 DEF BaseIsChat, row
<1> QED
  BY <1>1, <1>2, <1>3, <1>4, <1>13, <1>14, <1>15
  DEF TuiInv, TurnIsLast, NotYetAsked, ChatIsThere

(* What the run said is put where its prompt is, and is of its prompt.      *)
LEMMA EndRunKeeps == ASSUME TuiInv, NEW result \in Outcomes, EndRun(result) PROVE TuiInv'
<1> DEFINE to == tuiTurn.chat
           base == tuiTurn.base
           new == base \o Said(result)
<1>1. /\ tuiTurn.st = "running" /\ tuiTurn.n = tuiTurns /\ tuiTurns \in Nat \ {0}
      /\ to \in DOMAIN chats /\ base = chats[to] /\ Len(base) > 0
      /\ base[Len(base)] = [who |-> "user", n |-> tuiTurns]
      /\ Talks(chats, tuiTurns) /\ Apart(chats)
  BY DEF EndRun, TuiInv, TurnIsLast, ChatIsThere, BaseIsChat, ChatsAreGood
<1>2. /\ chats' = IF result = "raises" THEN chats ELSE [chats EXCEPT ![to] = new]
      /\ tuiTurn' = [st |-> "ended", n |-> tuiTurns, spent |-> result \in {"answer", "worked"}]
      /\ UNCHANGED <<active, app, stateFile, tuiTurns>>
  BY <1>1 DEF EndRun
<1>3. tuiTurn'.st = "ended" /\ tuiTurn'.n = tuiTurns
  BY <1>2
<1>4. IsConversation(base, tuiTurns) /\ Len(base) \in Nat
  BY <1>1 DEF Talks, IsConversation
<1>5. /\ IsConversation(new, tuiTurns)
      /\ \A i \in 1..Len(new) : new[i].n = IF i <= Len(base) THEN base[i].n ELSE tuiTurns
  <2>1. base[Len(base)].n = tuiTurns /\ base[Len(base)].who = "user"
    BY <1>1
  <2> HIDE DEF base
  <2>2. Extends(base \o Said(result), base, tuiTurns)
    BY <1>1, <1>4, <2>1, OutcomeIsAdded
  <2> QED BY <2>2 DEF Extends
<1>6. base[Len(base)].n = tuiTurns /\ Len(base) \in 1..Len(base)
  BY <1>1, <1>4
<1>7. \A i \in 1..Len(new) : \E j \in 1..Len(base) : new[i].n = base[j].n
  BY <1>4, <1>5, <1>6, SMTT(30)
<1> HIDE DEF new, base, to
<1>8. ChatsAreGood'
  <2>1. CASE result = "raises"
    BY <1>2, <2>1 DEF TuiInv, ChatsAreGood
  <2>2. CASE result # "raises"
    <3>1. /\ DOMAIN chats' = DOMAIN chats /\ chats'[to] = new
          /\ \A c \in DOMAIN chats : c # to => chats'[c] = chats[c]
      BY <1>1, <1>2, <2>2
    <3>2. Talks(chats', tuiTurns)
      BY <1>1, <1>5, <3>1 DEF Talks
    <3>3. \A c \in DOMAIN chats : \A i \in 1..Len(chats'[c]) :
              \E j \in 1..Len(chats[c]) : chats'[c][i].n = chats[c][j].n
      BY <1>1, <1>7, <3>1
    <3>4. Apart(chats')
      BY <1>1, <3>1, <3>3 DEF Apart
    <3> QED BY <1>2, <3>1, <3>2, <3>4 DEF TuiInv, ChatsAreGood
  <2> QED BY <2>1, <2>2
<1>9. tuiTurn # NoTuiTurn
  BY <1>1 DEF NoTuiTurn
<1>10. app \notin {"saving", "down"}
  BY <1>9 DEF TuiInv, NoTurnAtRest
<1>11. FileIsGood' /\ SavedIsTorn' /\ NoTurnAtRest' /\ tuiTurns' \in Nat
  BY <1>2, <1>10 DEF TuiInv, FileIsGood, SavedIsTorn, NoTurnAtRest
<1> QED
  BY <1>1, <1>2, <1>3, <1>8, <1>11
  DEF TuiInv, TurnIsLast, NotYetAsked, ChatIsThere, BaseIsChat

LEMMA ShowKeeps == TuiInv /\ ShowResult => TuiInv'
<1> SUFFICES ASSUME TuiInv, ShowResult PROVE TuiInv'
  OBVIOUS
<1>1. tuiTurn' = NoTuiTurn /\ UNCHANGED <<chats, active, app, stateFile, tuiTurns>>
  BY DEF ShowResult
<1>2. tuiTurn'.st = "none"
  BY <1>1 DEF NoTuiTurn
<1> QED
  BY <1>1, <1>2
  DEF TuiInv, ChatsAreGood, FileIsGood, SavedIsTorn, NoTurnAtRest, TurnIsLast, NotYetAsked,
      ChatIsThere, BaseIsChat

LEMMA SwitchKeeps == ASSUME TuiInv, NEW c \in Contexts, SwitchTo(c) PROVE TuiInv'
<1>1. active' \in DOMAIN chats /\ UNCHANGED <<chats, tuiTurn, app, stateFile, tuiTurns>>
  BY DEF SwitchTo, Select
<1> QED
  BY <1>1
  DEF TuiInv, ChatsAreGood, FileIsGood, SavedIsTorn, NoTurnAtRest, TurnIsLast, NotYetAsked,
      ChatIsThere, BaseIsChat

LEMMA NewContextKeeps == ASSUME TuiInv, NEW c \in Contexts, NewContext(c) PROVE TuiInv'
<1>1. /\ tuiTurn = NoTuiTurn /\ c \notin DOMAIN chats
      /\ chats' = [d \in DOMAIN chats \cup {c} |-> IF d = c THEN <<>> ELSE chats[d]]
      /\ UNCHANGED <<active, tuiTurn, app, stateFile, tuiTurns>>
  BY DEF NewContext, AtPrompt
<1>2. tuiTurn.st = "none"
  BY <1>1 DEF NoTuiTurn
<1>3. /\ DOMAIN chats' = DOMAIN chats \cup {c} /\ chats'[c] = <<>>
      /\ \A d \in DOMAIN chats : chats'[d] = chats[d]
  BY <1>1
<1>4. Len(chats'[c]) = 0 /\ chats'[c] \in Seq(RowUpTo(tuiTurns))
  BY <1>3
<1>5. IsConversation(chats'[c], tuiTurns)
  BY <1>4 DEF IsConversation
<1>6. Talks(chats', tuiTurns)
  BY <1>3, <1>5 DEF Talks, TuiInv, ChatsAreGood
<1>7. Apart(chats')
  BY <1>3, <1>4 DEF Apart, TuiInv, ChatsAreGood
<1> QED
  BY <1>1, <1>2, <1>3, <1>6, <1>7
  DEF TuiInv, ChatsAreGood, FileIsGood, SavedIsTorn, NoTurnAtRest, TurnIsLast, NotYetAsked,
      ChatIsThere, BaseIsChat

LEMMA RenameKeeps == ASSUME TuiInv, NEW c \in Contexts, RenameActive(c) PROVE TuiInv'
<1> DEFINE was(d) == IF d = c THEN active ELSE d
<1>1. /\ tuiTurn = NoTuiTurn /\ c \notin DOMAIN chats /\ active \in DOMAIN chats
      /\ chats' = [d \in (DOMAIN chats \ {active}) \cup {c} |->
                      IF d = c THEN chats[active] ELSE chats[d]]
      /\ active' = c
      /\ UNCHANGED <<tuiTurn, app, stateFile, tuiTurns>>
  BY DEF RenameActive, AtPrompt, Renamed, TuiInv, ChatsAreGood
<1>2. tuiTurn.st = "none"
  BY <1>1 DEF NoTuiTurn
<1>3. /\ c \in DOMAIN chats'
      /\ \A d \in DOMAIN chats' : was(d) \in DOMAIN chats /\ chats'[d] = chats[was(d)]
      /\ \A d, e \in DOMAIN chats' : d # e => was(d) # was(e)
  BY <1>1
<1> HIDE DEF was
<1>4. Talks(chats', tuiTurns)
  BY <1>3 DEF Talks, TuiInv, ChatsAreGood
<1>5. Apart(chats')
  <2> SUFFICES ASSUME NEW d \in DOMAIN chats', NEW e \in DOMAIN chats', d # e,
                      NEW i \in 1..Len(chats'[d]), NEW j \in 1..Len(chats'[e])
               PROVE  chats'[d][i].n # chats'[e][j].n
    BY DEF Apart
  <2>1. /\ was(d) \in DOMAIN chats /\ was(e) \in DOMAIN chats /\ was(d) # was(e)
        /\ chats'[d] = chats[was(d)] /\ chats'[e] = chats[was(e)]
    BY <1>3
  <2>2. i \in 1..Len(chats[was(d)]) /\ j \in 1..Len(chats[was(e)])
    BY <2>1
  <2>3. Apart(chats)
    BY DEF TuiInv, ChatsAreGood
  <2>4. chats[was(d)][i].n # chats[was(e)][j].n
    BY <2>1, <2>2, <2>3 DEF Apart
  <2> QED BY <2>1, <2>4
<1> QED
  BY <1>1, <1>2, <1>3, <1>4, <1>5
  DEF TuiInv, ChatsAreGood, FileIsGood, SavedIsTorn, NoTurnAtRest, TurnIsLast, NotYetAsked,
      ChatIsThere, BaseIsChat

LEMMA BeginSaveKeeps ==
    ASSUME TuiInv, NEW next \in {"saving", "leaving"}, BeginSave(next) PROVE TuiInv'
<1>1. /\ next = "saving" => tuiTurn = NoTuiTurn
      /\ app' = next /\ stateFile' = [st |-> "torn", chats |-> chats, usage |-> usage, active |-> active]
      /\ UNCHANGED <<chats, active, tuiTurn, tuiTurns>>
  BY DEF BeginSave, Payload
<1>2. /\ stateFile'.st = "torn" /\ stateFile'.chats = chats /\ stateFile'.active = active
      /\ IsWritten(stateFile')
  BY <1>1 DEF IsWritten
<1> QED
  BY <1>1, <1>2
  DEF TuiInv, ChatsAreGood, FileIsGood, SavedIsTorn, NoTurnAtRest, TurnIsLast, NotYetAsked,
      ChatIsThere, BaseIsChat

LEMMA EndSaveKeeps == TuiInv /\ EndSave => TuiInv'
<1> SUFFICES ASSUME TuiInv, EndSave PROVE TuiInv'
  OBVIOUS
<1>1. /\ app \in {"saving", "leaving"}
      /\ stateFile' = [stateFile EXCEPT !.st = "whole"]
      /\ app' = IF app = "saving" THEN "up" ELSE "down"
      /\ tuiTurn' = IF app = "saving" THEN tuiTurn ELSE NoTuiTurn
      /\ UNCHANGED <<chats, active, tuiTurns>>
  BY DEF EndSave
<1>2. /\ stateFile.st = "torn" /\ IsWritten(stateFile) /\ stateFile.active \in DOMAIN stateFile.chats
      /\ Talks(stateFile.chats, tuiTurns) /\ Apart(stateFile.chats)
  BY <1>1 DEF TuiInv, SavedIsTorn, FileIsGood
<1>3. stateFile' = [st |-> "whole", chats |-> stateFile.chats, usage |-> stateFile.usage,
                    active |-> stateFile.active]
  BY <1>1, <1>2 DEF IsWritten
<1>4. /\ stateFile'.st = "whole" /\ stateFile'.chats = stateFile.chats
      /\ stateFile'.active = stateFile.active /\ IsWritten(stateFile')
  BY <1>3 DEF IsWritten
<1>5. tuiTurn' = NoTuiTurn
  BY <1>1 DEF TuiInv, NoTurnAtRest
<1>6. tuiTurn'.st = "none"
  BY <1>5 DEF NoTuiTurn
<1>7. FileIsGood' /\ ChatsAreGood'
  BY <1>1, <1>2, <1>4 DEF TuiInv, FileIsGood, ChatsAreGood
<1>8. app' \in {"up", "down"}
  BY <1>1
<1> QED
  BY <1>1, <1>5, <1>6, <1>7, <1>8
  DEF TuiInv, SavedIsTorn, NoTurnAtRest, TurnIsLast, NotYetAsked, ChatIsThere, BaseIsChat

LEMMA KilledKeeps == TuiInv /\ Killed => TuiInv'
<1> SUFFICES ASSUME TuiInv, Killed PROVE TuiInv'
  OBVIOUS
<1>1. app' = "down" /\ tuiTurn' = NoTuiTurn /\ UNCHANGED <<chats, active, stateFile, tuiTurns>>
  BY DEF Killed
<1>2. tuiTurn'.st = "none"
  BY <1>1 DEF NoTuiTurn
<1> QED
  BY <1>1, <1>2
  DEF TuiInv, ChatsAreGood, FileIsGood, SavedIsTorn, NoTurnAtRest, TurnIsLast, NotYetAsked,
      ChatIsThere, BaseIsChat

(* What is read back are conversations of the same prompts.                 *)
LEMMA StartKeeps == TuiInv /\ StartTui => TuiInv'
<1> SUFFICES ASSUME TuiInv, StartTui PROVE TuiInv'
  OBVIOUS
<1>1. tuiTurns \in Nat /\ app = "down" /\ app' = "up" /\ UNCHANGED <<tuiTurn, stateFile, tuiTurns>>
  BY DEF StartTui, TuiInv
<1>2. tuiTurn' = NoTuiTurn
  BY <1>1 DEF TuiInv, NoTurnAtRest
<1>3. tuiTurn'.st = "none"
  BY <1>2 DEF NoTuiTurn
<1>4. ChatsAreGood'
  <2>1. CASE stateFile.st # "whole"
    <3>1. chats' = Fresh /\ active' = DefaultContext
      BY <2>1 DEF StartTui
    <3>2. DOMAIN chats' = {DefaultContext} /\ chats'[DefaultContext] = <<>>
      BY <3>1 DEF Fresh
    <3>3. /\ Len(chats'[DefaultContext]) = 0
          /\ chats'[DefaultContext] \in Seq(RowUpTo(tuiTurns))
      BY <3>2
    <3>4. Talks(chats', tuiTurns)
      BY <3>2, <3>3 DEF Talks, IsConversation
    <3>5. Apart(chats')
      BY <3>2 DEF Apart
    <3> QED BY <1>1, <3>1, <3>2, <3>4, <3>5 DEF ChatsAreGood
  <2>2. CASE stateFile.st = "whole"
    <3> DEFINE old == stateFile.chats
    <3>1. /\ chats' = [c \in DOMAIN old |-> Restored(old[c])] /\ active' = stateFile.active
          /\ Talks(old, tuiTurns) /\ Apart(old) /\ stateFile.active \in DOMAIN old
      BY <2>2 DEF StartTui, TuiInv, FileIsGood
    <3> HIDE DEF old
    <3>2. DOMAIN chats' = DOMAIN old /\ \A c \in DOMAIN old : chats'[c] = Restored(old[c])
      BY <3>1
    <3>3. ASSUME NEW c \in DOMAIN old
          PROVE  /\ IsConversation(chats'[c], tuiTurns)
                 /\ \A k \in 1..Len(chats'[c]) : \E i \in 1..Len(old[c]) : chats'[c][k] = old[c][i]
      <4>1. IsConversation(old[c], tuiTurns)
        BY <3>1 DEF Talks
      <4>2. /\ IsConversation(Restored(old[c]), tuiTurns)
            /\ \A k \in 1..Len(Restored(old[c])) : \E i \in 1..Len(old[c]) : Restored(old[c])[k] = old[c][i]
        BY <1>1, <4>1, RestoredTalks
      <4> QED BY <3>2, <4>2
    <3>4. Talks(chats', tuiTurns)
      BY <3>2, <3>3 DEF Talks
    <3>5. Apart(chats')
      <4> SUFFICES ASSUME NEW c \in DOMAIN old, NEW d \in DOMAIN old, c # d,
                          NEW k \in 1..Len(chats'[c]), NEW l \in 1..Len(chats'[d])
                   PROVE  chats'[c][k].n # chats'[d][l].n
        BY <3>2 DEF Apart
      <4>1. PICK i \in 1..Len(old[c]) : chats'[c][k] = old[c][i]
        BY <3>3
      <4>2. PICK j \in 1..Len(old[d]) : chats'[d][l] = old[d][j]
        BY <3>3
      <4>3. old[c][i].n # old[d][j].n
        BY <3>1 DEF Apart
      <4> QED BY <4>1, <4>2, <4>3
    <3> QED BY <1>1, <3>1, <3>2, <3>4, <3>5 DEF ChatsAreGood
  <2> QED BY <2>1, <2>2
<1> QED
  BY <1>1, <1>2, <1>3, <1>4
  DEF TuiInv, FileIsGood, SavedIsTorn, NoTurnAtRest, TurnIsLast, NotYetAsked, ChatIsThere,
      BaseIsChat

LEMMA TuiShows == TuiInv => ConversationsAreApart
<1> SUFFICES ASSUME TuiInv PROVE ConversationsAreApart
  OBVIOUS
<1>1. Talks(chats, tuiTurns) /\ Apart(chats) /\ tuiTurns \in Nat
  BY DEF TuiInv, ChatsAreGood
<1>2. \A c \in DOMAIN chats : DOMAIN chats[c] = 1..Len(chats[c]) /\ Len(chats[c]) \in Nat
  BY <1>1 DEF Talks, IsConversation
<1>3. ASSUME NEW c \in DOMAIN chats, NEW i \in 1..Len(chats[c])
      PROVE  /\ chats[c][i].who # "user" =>
                   /\ i > 1 /\ chats[c][i - 1].n = chats[c][i].n
                   /\ chats[c][i - 1].who \in {"user", "tools"}
             /\ i > 1 => chats[c][i - 1].n <= chats[c][i].n
  <2>1. IsConversation(chats[c], tuiTurns) /\ Follows(chats[c], i)
    BY <1>1 DEF Talks, IsConversation
  <2>2. i > 1 => i - 1 \in 1..Len(chats[c]) /\ i - 1 < i
    BY <1>2
  <2>3. i > 1 => chats[c][i - 1].n <= chats[c][i].n
    BY <2>1, <2>2 DEF IsConversation
  <2> QED BY <2>1, <2>3 DEF Follows
<1>4. \A c, d \in DOMAIN chats : c # d =>
          \A i \in DOMAIN chats[c], j \in DOMAIN chats[d] : chats[c][i].n # chats[d][j].n
  BY <1>1, <1>2 DEF Apart
<1> QED BY <1>2, <1>3, <1>4 DEF ConversationsAreApart

(* However contexts are switched, renamed and restored by                   *)
(* tui_context_manager.py and tui_context_persistence.py, a prompt and what *)
(* its run said stand in one conversation, in order.                        *)
THEOREM PromptsStayApart == TuiSpec => []ConversationsAreApart
<1>1. TuiInv /\ [TuiNext]_tuiVars => TuiInv'
  <2> SUFFICES ASSUME TuiInv, [TuiNext]_tuiVars PROVE TuiInv'
    OBVIOUS
  <2>1. CASE UNCHANGED tuiVars
    BY <2>1
    DEF tuiVars, TuiInv, ChatsAreGood, FileIsGood, SavedIsTorn, NoTurnAtRest, TurnIsLast,
        NotYetAsked, ChatIsThere, BaseIsChat
  <2>2. CASE SubmitPrompt \/ PickChat \/ BeginRun \/ ShowResult
    BY <2>2, SubmitKeeps, PickKeeps, BeginRunKeeps, ShowKeeps
  <2>3. CASE EndSave \/ Killed \/ StartTui
    BY <2>3, EndSaveKeeps, KilledKeeps, StartKeeps
  <2>4. CASE \E r \in Outcomes : EndRun(r)
    BY <2>4, EndRunKeeps
  <2>5. CASE \E c \in Contexts : SwitchTo(c) \/ NewContext(c) \/ RenameActive(c)
    BY <2>5, SwitchKeeps, NewContextKeeps, RenameKeeps
  <2>6. CASE \E next \in {"saving", "leaving"} : BeginSave(next)
    BY <2>6, BeginSaveKeeps
  <2> QED BY <2>1, <2>2, <2>3, <2>4, <2>5, <2>6 DEF TuiNext
<1> QED BY <1>1, TuiStart, TuiShows, PTL DEF TuiSpec

-----------------------------------------------------------------------------
(***************************************************************************)
(* The window.  A request is whole because the messages are: no call       *)
(* without its replies but at the end, while a batch is open; replies only *)
(* after their calls, so that a last message with calls is not answered;   *)
(* and the read that is shown last is the last that was noted.             *)
(***************************************************************************)

(* What shrinking does to a batch, step by step: the recursion has a        *)
(* function, and an error stays one or is omitted.                          *)
RunOf(h, m, calls, forms) ==
    h = [n \in 0..m |-> IF n = 0 THEN forms ELSE Squeeze(calls, h[n - 1])]

LEMMA RunUnfolds ==
    ASSUME NEW m \in Nat, NEW h, NEW calls, NEW forms, RunOf(h, m, calls, forms)
    PROVE  /\ h[0] = forms
           /\ \A n \in 0..m : n # 0 => h[n] = Squeeze(calls, h[n - 1])
<1> DEFINE k == [n \in 0..m |-> IF n = 0 THEN forms ELSE Squeeze(calls, h[n - 1])]
<1>1. h = k
  BY DEF RunOf
<1>2. k[0] = forms /\ \A n \in 0..m : n # 0 => k[n] = Squeeze(calls, h[n - 1])
  OBVIOUS
<1> HIDE DEF k
<1> QED BY <1>1, <1>2

LEMMA RunsAgree ==
    ASSUME NEW calls, NEW forms, NEW m1 \in Nat, NEW h1, RunOf(h1, m1, calls, forms),
           NEW m2 \in Nat, NEW h2, RunOf(h2, m2, calls, forms)
    PROVE  \A n \in Nat : n <= m1 /\ n <= m2 => h1[n] = h2[n]
<1> DEFINE S == {n \in Nat : n <= m1 /\ n <= m2 => h1[n] = h2[n]}
<1>1. /\ h1[0] = forms /\ h2[0] = forms
      /\ \A n \in 0..m1 : n # 0 => h1[n] = Squeeze(calls, h1[n - 1])
      /\ \A n \in 0..m2 : n # 0 => h2[n] = Squeeze(calls, h2[n - 1])
  BY RunUnfolds
<1>2. 0 \in S
  BY <1>1
<1>3. ASSUME NEW n \in S PROVE n + 1 \in S
  <2> SUFFICES ASSUME n + 1 <= m1, n + 1 <= m2 PROVE h1[n + 1] = h2[n + 1]
    OBVIOUS
  <2>1. n \in Nat /\ h1[n] = h2[n] /\ n + 1 \in 0..m1 /\ n + 1 \in 0..m2 /\ n + 1 # 0 /\ (n + 1) - 1 = n
    OBVIOUS
  <2>2. h1[n + 1] = Squeeze(calls, h1[n]) /\ h2[n + 1] = Squeeze(calls, h2[n])
    BY <1>1, <2>1
  <2> QED BY <2>1, <2>2
<1>4. S = Nat
  <2>1. S \in SUBSET Nat
    OBVIOUS
  <2> HIDE DEF S
  <2> QED BY <1>2, <1>3, <2>1, SetInduction
<1> QED BY <1>4

LEMMA RunsAreThere ==
    ASSUME NEW calls, NEW forms
    PROVE  \A m \in Nat : \E h : RunOf(h, m, calls, forms)
<1> DEFINE S == {m \in Nat : \E h : RunOf(h, m, calls, forms)}
<1>1. 0 \in S
  <2> DEFINE h == [n \in 0..0 |-> forms]
  <2>1. h = [n \in 0..0 |-> IF n = 0 THEN forms ELSE Squeeze(calls, h[n - 1])]
    OBVIOUS
  <2>2. RunOf(h, 0, calls, forms)
    BY <2>1 DEF RunOf
  <2> QED BY <2>2
<1>2. ASSUME NEW m \in S PROVE m + 1 \in S
  <2>1. PICK h : RunOf(h, m, calls, forms)
    OBVIOUS
  <2> DEFINE g == [n \in 0..(m + 1) |-> IF n = m + 1 THEN Squeeze(calls, h[m]) ELSE h[n]]
  <2>2. m \in Nat
    OBVIOUS
  <2>3. /\ h[0] = forms
        /\ \A n \in 0..m : n # 0 => h[n] = Squeeze(calls, h[n - 1])
    BY <2>1, <2>2, RunUnfolds
  <2>4. ASSUME NEW n \in 0..(m + 1)
        PROVE  g[n] = IF n = 0 THEN forms ELSE Squeeze(calls, g[n - 1])
    <3>1. CASE n = m + 1
      <4>1. g[n] = Squeeze(calls, h[m]) /\ n # 0 /\ n - 1 = m
        BY <2>2, <3>1
      <4>2. g[m] = h[m]
        BY <2>2
      <4> QED BY <4>1, <4>2
    <3>2. CASE n # m + 1
      <4>1. n \in 0..m /\ (n # 0 => n - 1 \in 0..m)
        BY <2>2, <3>2
      <4>2. g[n] = h[n] /\ (n # 0 => g[n - 1] = h[n - 1])
        BY <2>2, <4>1
      <4> HIDE DEF g
      <4> QED BY <2>3, <4>1, <4>2
    <3> QED BY <3>1, <3>2
  <2>5. g = [n \in 0..(m + 1) |-> g[n]]
    OBVIOUS
  <2>6. RunOf(g, m + 1, calls, forms)
    <3> HIDE DEF g
    <3> QED BY <2>4, <2>5 DEF RunOf
  <2> QED BY <2>2, <2>6
<1>3. S = Nat
  <2>1. S \in SUBSET Nat
    OBVIOUS
  <2> HIDE DEF S
  <2> QED BY <1>1, <1>2, <2>1, SetInduction
<1> QED BY <1>3

IsSqueezing(g, calls, forms) ==
    g = [n \in Nat |-> IF n = 0 THEN forms ELSE Squeeze(calls, g[n - 1])]

LEMMA SqueezingIsDefined ==
    ASSUME NEW calls, NEW forms
    PROVE  \E g : IsSqueezing(g, calls, forms)
<1> DEFINE H(m) == CHOOSE h : RunOf(h, m, calls, forms)
           g == [n \in Nat |-> H(n)[n]]
<1>1. \A m \in Nat : RunOf(H(m), m, calls, forms)
  BY RunsAreThere
<1> HIDE DEF H
<1>2. ASSUME NEW n \in Nat
      PROVE  g[n] = IF n = 0 THEN forms ELSE Squeeze(calls, g[n - 1])
  <2>0. g[n] = H(n)[n]
    OBVIOUS
  <2>1. CASE n = 0
    <3>1. H(0)[0] = forms
      BY <1>1, RunUnfolds
    <3> QED BY <2>0, <2>1, <3>1
  <2>2. CASE n # 0
    <3>1. n - 1 \in Nat /\ n \in 0..n /\ n - 1 <= n
      BY <2>2
    <3>2. H(n)[n] = Squeeze(calls, H(n)[n - 1])
      BY <1>1, <2>2, <3>1, RunUnfolds
    <3>3. H(n)[n - 1] = H(n - 1)[n - 1]
      BY <1>1, <3>1, RunsAgree
    <3>4. g[n - 1] = H(n - 1)[n - 1]
      BY <3>1
    <3> HIDE DEF g
    <3> QED BY <2>0, <2>2, <3>2, <3>3, <3>4
  <2> QED BY <2>1, <2>2
<1>3. g = [n \in Nat |-> g[n]]
  OBVIOUS
<1> HIDE DEF g
<1>4. IsSqueezing(g, calls, forms)
  BY <1>2, <1>3 DEF IsSqueezing
<1> QED BY <1>4

(* Squeezing hides an error at most, leaves what says that a file is        *)
(* unchanged, and makes nothing look like either.                           *)
Faithful(forms, f, k) ==
    /\ forms[k] = "error" => f[k] \in {"error", "omitted"}
    /\ forms[k] = "same" => f[k] = "same"
    /\ f[k] \in {"error", "same"} => forms[k] = f[k]

LEMMA SqueezedForms ==
    ASSUME NEW N, NEW calls, Len(calls) \in Nat, NEW forms \in [N -> Forms]
    PROVE  /\ Squeezed(calls, forms) \in [N -> Forms]
           /\ \A k \in N : Faithful(forms, Squeezed(calls, forms), k)
<1> DEFINE squeeze == CHOOSE g : g = [n \in Nat |-> IF n = 0 THEN forms ELSE Squeeze(calls, g[n - 1])]
<1>1. IsSqueezing(squeeze, calls, forms)
  <2>1. \E g : IsSqueezing(g, calls, forms)
    BY SqueezingIsDefined
  <2> QED BY <2>1 DEF IsSqueezing
<1>2. Squeezed(calls, forms) = squeeze[2 * Len(calls) + 1]
  BY DEF Squeezed
<1>3. /\ squeeze[0] = forms
      /\ \A n \in Nat : squeeze[n + 1] = Squeeze(calls, squeeze[n])
  <2> HIDE DEF squeeze
  <2> DEFINE k == [n \in Nat |-> IF n = 0 THEN forms ELSE Squeeze(calls, squeeze[n - 1])]
  <2>1. squeeze = k
    BY <1>1 DEF IsSqueezing
  <2>2. k[0] = forms
    OBVIOUS
  <2>3. ASSUME NEW n \in Nat PROVE k[n + 1] = Squeeze(calls, squeeze[n])
    <3>1. n + 1 # 0 /\ (n + 1) - 1 = n /\ n + 1 \in Nat
      OBVIOUS
    <3> QED BY <3>1
  <2> HIDE DEF k
  <2> QED BY <2>1, <2>2, <2>3
<1> HIDE DEF squeeze
<1> DEFINE good(f) == f \in [N -> Forms] /\ \A k \in N : Faithful(forms, f, k)
           S == {n \in Nat : good(squeeze[n])}
<1>4. ASSUME NEW f, good(f) PROVE good(Squeeze(calls, f))
  <2> DEFINE at == Longest(f)
             new == [f EXCEPT ![at] = Shrunk(calls[at], f[at])]
  <2>1. Squeeze(calls, f) = f \/ (Squeeze(calls, f) = new /\ Size(f[at]) # 1)
    BY DEF Squeeze
  <2>0. Size(f[at]) # 1 => f[at] # "same"
    BY DEF Size
  <2>2. Shrunk(calls[at], f[at]) \in Forms
    BY DEF Shrunk, Forms
  <2>3. /\ f[at] \in {"error", "omitted"} => Shrunk(calls[at], f[at]) = "omitted"
        /\ Shrunk(calls[at], f[at]) \notin {"error", "same"}
    BY DEF Shrunk
  <2> HIDE DEF at
  <2>4. new \in [N -> Forms]
    BY <1>4, <2>2
  <2>5. ASSUME NEW k \in N, f[at] # "same" PROVE Faithful(forms, new, k)
    <3>0. Faithful(forms, f, k)
      BY <1>4
    <3>1. CASE k = at
      <4>1. new[k] = Shrunk(calls[at], f[at])
        BY <1>4, <3>1
      <4> HIDE DEF new
      <4> QED BY <2>3, <2>5, <3>0, <3>1, <4>1 DEF Faithful
    <3>2. CASE k # at
      <4>1. new[k] = f[k]
        BY <1>4, <3>2
      <4> HIDE DEF new
      <4> QED BY <3>0, <4>1 DEF Faithful
    <3> QED BY <3>1, <3>2
  <2>6. CASE Squeeze(calls, f) = f
    BY <1>4, <2>6
  <2>7. CASE Squeeze(calls, f) = new /\ Size(f[at]) # 1
    <3>1. f[at] # "same"
      BY <2>0, <2>7 DEF at
    <3>2. \A k \in N : Faithful(forms, new, k)
      BY <2>5, <3>1
    <3> HIDE DEF new
    <3> QED BY <2>4, <2>7, <3>2
  <2> QED BY <2>1, <2>6, <2>7 DEF at
<1>5. 0 \in S
  BY <1>3 DEF Faithful
<1>6. \A n \in S : n + 1 \in S
  <2> HIDE DEF good
  <2> QED BY <1>3, <1>4
<1>7. S = Nat
  <2>1. S \in SUBSET Nat
    OBVIOUS
  <2> HIDE DEF S
  <2> QED BY <1>5, <1>6, <2>1, SetInduction
<1>8. 2 * Len(calls) + 1 \in Nat
  OBVIOUS
<1>9. good(squeeze[2 * Len(calls) + 1])
  <2> HIDE DEF good
  <2> QED BY <1>7, <1>8
<1> QED BY <1>2, <1>9

-----------------------------------------------------------------------------
(* Requests whose calls are answered.                                       *)

(* The replies to the calls at place i of w.                                *)
Replied(w, i) ==
    \A k \in 1..Len(w[i].calls) :
        /\ i + k <= Len(w)
        /\ w[i + k].role = "tool"
        /\ w[i + k].call = w[i].calls[k]

Roles == {"user", "system", "assistant", "tool"}

Texts == [role : Roles, calls : Seq(Nat), call : Nat, form : Forms \cup {""}]

LEMMA TextFields ==
    ASSUME NEW m \in Texts
    PROVE  /\ m.calls \in Seq(Nat) /\ Len(m.calls) \in Nat /\ DOMAIN m.calls = 1..Len(m.calls)
           /\ m.role \in Roles /\ m.call \in Nat
<1>1. m.calls \in Seq(Nat) /\ m.role \in Roles /\ m.call \in Nat
  BY DEF Texts
<1> QED BY <1>1

LEMMA FollowsByPlace ==
    ASSUME NEW w \in Seq(Texts)
    PROVE  AnswersFollow(w) <=> \A i \in 1..Len(w) : Calling(w[i]) => Replied(w, i)
<1>1. DOMAIN w = 1..Len(w)
  OBVIOUS
<1>2. ASSUME NEW i \in 1..Len(w) PROVE DOMAIN w[i].calls = 1..Len(w[i].calls)
  <2>1. w[i] \in Texts
    OBVIOUS
  <2> QED BY <2>1, TextFields
<1> QED BY <1>1, <1>2 DEF AnswersFollow, Replied

(* The last messages of a chat that is answered are answered.               *)
LEMMA TailIsAnswered ==
    ASSUME NEW w \in Seq(Texts), AnswersFollow(w)
    PROVE  TailOf(w) \in Seq(Texts) /\ AnswersFollow(TailOf(w))
<1> DEFINE m == Min({TailMax, Len(w)})
           off == Len(w) - m
           t == TailOf(w)
<1>1. m \in Nat /\ m <= Len(w)
  <2>1. TailMax \in Nat
    BY WindowAssumption
  <2>2. \E x \in {TailMax, Len(w)} : \A y \in {TailMax, Len(w)} : x <= y
    BY <2>1
  <2>3. m \in {TailMax, Len(w)} /\ \A y \in {TailMax, Len(w)} : m <= y
    BY <2>2 DEF Min
  <2> QED BY <2>1, <2>3
<1> HIDE DEF m
<1>2. off \in Nat /\ off <= Len(w)
  BY <1>1
<1>3. t = SubSeq(w, off + 1, Len(w))
  BY DEF TailOf, m
<1> HIDE DEF off
<1>4. /\ t \in Seq(Texts) /\ Len(t) = Len(w) - off
      /\ \A i \in 1..Len(t) : t[i] = w[off + i] /\ off + i \in 1..Len(w)
  <2> HIDE DEF t
  <2>1. t \in Seq(Texts) /\ Len(t) = Len(w) - off
    BY <1>2, <1>3
  <2>2. ASSUME NEW i \in 1..Len(t) PROVE t[i] = w[off + i] /\ off + i \in 1..Len(w)
    BY <1>2, <1>3, <2>1
  <2> QED BY <2>1, <2>2
<1> HIDE DEF t
<1>5. ASSUME NEW i \in 1..Len(t), Calling(t[i])
      PROVE  Replied(t, i)
  <2>1. off + i \in 1..Len(w) /\ t[i] = w[off + i]
    BY <1>4
  <2>2. Replied(w, off + i)
    BY <1>5, <2>1, FollowsByPlace
  <2>3. ASSUME NEW k \in 1..Len(t[i].calls)
        PROVE  i + k <= Len(t) /\ t[i + k].role = "tool" /\ t[i + k].call = t[i].calls[k]
    <3>1. t[i] \in Texts
      BY <1>4
    <3>2. k \in Nat /\ k >= 1
      BY <3>1, TextFields
    <3>3. off + i + k <= Len(w) /\ w[off + i + k].role = "tool" /\ w[off + i + k].call = t[i].calls[k]
      BY <2>1, <2>2 DEF Replied
    <3>4. i + k \in 1..Len(t) /\ off + (i + k) = off + i + k
      BY <1>2, <1>4, <3>2, <3>3
    <3>5. t[i + k] = w[off + i + k]
      BY <1>4, <3>4
    <3> QED BY <3>3, <3>4, <3>5
  <2> QED BY <2>3 DEF Replied
<1> QED BY <1>4, <1>5, FollowsByPlace DEF t

(* A filter that keeps the replies with their calls keeps a request whole.  *)
LEMMA SelectionIsAnswered ==
    ASSUME NEW w \in Seq(Texts), AnswersFollow(w), NEW S \in SUBSET (1..Len(w)),
           \A i \in S : Calling(w[i]) => \A k \in 1..Len(w[i].calls) : i + k \in S
    PROVE  AnswersFollow(Selected(w, S))
<1> DEFINE c == Cardinality(S)
           t == Selected(w, S)
<1>0. Len(w) \in Nat
  OBVIOUS
<1>1. c \in Nat /\ \A x \in S : x \in Nat
  BY <1>0, BelowIsFinite
<1>2. \A p \in 1..c : Nth(S, p) \in S
  BY <1>0, PlacesInOrder
<1>3. \A p \in 1..c : t[p] = w[Nth(S, p)] /\ Nth(S, p) \in 1..Len(w)
  BY <1>2 DEF Selected
<1>4. t \in Seq(Texts) /\ Len(t) = c
  <2>1. \A p \in 1..c : w[Nth(S, p)] \in Texts
    BY <1>3
  <2>2. t = [p \in 1..c |-> w[Nth(S, p)]]
    BY DEF Selected
  <2> HIDE DEF t, c
  <2> QED BY <1>1, <2>1, <2>2
<1> HIDE DEF t, c
<1>5. ASSUME NEW p \in 1..c, Calling(t[p])
      PROVE  Replied(t, p)
  <2> DEFINE i == Nth(S, p)
             n == Len(w[i].calls)
             N == {k \in Nat : k <= n => p + k \in 1..c /\ Nth(S, p + k) = i + k}
  <2>1. i \in S /\ i \in Nat /\ i \in 1..Len(w) /\ t[p] = w[i]
    BY <1>1, <1>2, <1>3
  <2>2. Replied(w, i)
    BY <1>5, <2>1, FollowsByPlace
  <2>3. n \in Nat
    <3>1. w[i] \in Texts
      BY <2>1
    <3> QED BY <3>1, TextFields
  <2>4. \A k \in 1..n : i + k \in S
    BY <1>5, <2>1
  <2>0. i = Nth(S, p)
    OBVIOUS
  <2> HIDE DEF i, n
  <2>5. 0 \in N
    BY <1>1, <2>0, <2>1
  <2>6. ASSUME NEW k \in N PROVE k + 1 \in N
    <3> SUFFICES ASSUME k + 1 <= n
                 PROVE  p + (k + 1) \in 1..c /\ Nth(S, p + (k + 1)) = i + (k + 1)
      OBVIOUS
    <3>1. k \in Nat /\ k <= n /\ k + 1 \in 1..n
      BY <2>3
    <3>2. p + k \in 1..c /\ Nth(S, p + k) = i + k
      BY <3>1
    <3>3. i + (k + 1) \in S /\ (i + k) + 1 = i + (k + 1)
      BY <2>1, <2>4, <3>1
    <3> DEFINE q == p + k
    <3>4. q \in 1..c /\ Nth(S, q) + 1 \in S /\ q + 1 = p + (k + 1)
      BY <1>1, <3>1, <3>2, <3>3
    <3> HIDE DEF q
    <3>5. q + 1 \in 1..c /\ Nth(S, q + 1) = Nth(S, q) + 1
      BY <1>0, <3>4, PlaceAfter DEF c
    <3>6. Nth(S, q) = i + k
      BY <3>2 DEF q
    <3> QED BY <3>3, <3>4, <3>5, <3>6
  <2>7. N = Nat
    <3>1. N \in SUBSET Nat
      OBVIOUS
    <3> HIDE DEF N
    <3> QED BY <2>5, <2>6, <3>1, SetInduction
  <2>8. ASSUME NEW k \in 1..n
        PROVE  p + k <= Len(t) /\ t[p + k].role = "tool" /\ t[p + k].call = t[p].calls[k]
    <3>1. k \in N /\ k <= n
      BY <2>3, <2>7, SMTT(30)
    <3>2. p + k \in 1..c /\ Nth(S, p + k) = i + k
      BY <3>1
    <3>3. t[p + k] = w[i + k]
      BY <1>3, <3>2
    <3>4. w[i + k].role = "tool" /\ w[i + k].call = w[i].calls[k]
      BY <2>2 DEF Replied, n
    <3> QED BY <1>1, <1>4, <2>1, <3>2, <3>3, <3>4
  <2> QED BY <2>1, <2>8 DEF Replied, n
<1> QED BY <1>4, <1>5, FollowsByPlace DEF t

(* What the shortlist keeps has the replies of every call it keeps.         *)
LEMMA ShortlistIsAnswered ==
    ASSUME NEW w \in Seq(Texts), AnswersFollow(w), NEW hits \in SUBSET DOMAIN w
    PROVE  AnswersFollow(Shortlisted(w, hits))
<1> DEFINE users == {i \in DOMAIN w : w[i].role = "user"}
           keep == hits \cup {i \in DOMAIN w : w[i].role = "system"}
                        \cup (IF users = {} THEN {} ELSE {Max(users)})
           parents == {i \in DOMAIN w : Calling(w[i]) /\
                         (i \in keep \/ \E k \in keep : w[k].role = "tool" /\ k > i /\ w[k].call \in Range(w[i].calls))}
           S == keep \cup parents \cup UNION {RepliesOf(w, i) : i \in parents}
<1>0. DOMAIN w = 1..Len(w) /\ Len(w) \in Nat
  OBVIOUS
<1>1. keep \in SUBSET (1..Len(w))
  <2>1. CASE users = {}
    BY <1>0, <2>1
  <2>2. CASE users # {}
    <3>1. users \in SUBSET (1..Len(w))
      BY <1>0
    <3> HIDE DEF users
    <3>2. PICK m \in users : \A j \in users : j <= m
      BY <1>0, <2>2, <3>1, GreatestPlace
    <3>3. \A j \in users : j \in Nat
      BY <3>1
    <3>4. \E x \in users : \A y \in users : x >= y
      BY <3>2, <3>3
    <3>5. Max(users) \in users
      BY <3>4 DEF Max
    <3> QED BY <1>0, <3>1, <3>5
  <2> QED BY <2>1, <2>2
<1>2. Shortlisted(w, hits) = Selected(w, S)
  BY DEF Shortlisted, Linked
<1> HIDE DEF keep
<1>3. S \in SUBSET (1..Len(w))
  <2>1. parents \in SUBSET (1..Len(w))
    BY <1>0
  <2>2. \A i \in 1..Len(w) : RepliesOf(w, i) \in SUBSET (1..Len(w))
    BY <1>0 DEF RepliesOf
  <2> HIDE DEF parents
  <2> QED BY <1>1, <2>1, <2>2
<1>4. ASSUME NEW i \in S, Calling(w[i])
      PROVE  i \in parents
  <2>1. CASE i \in keep
    BY <1>0, <1>3, <1>4, <2>1
  <2>2. CASE i \in parents
    BY <2>2
  <2>3. CASE \E a \in parents : i \in RepliesOf(w, a)
    <3>1. PICK a \in parents : i \in RepliesOf(w, a)
      BY <2>3
    <3>2. i \in a + 1..i
      <4>1. a \in Nat /\ i \in Nat /\ i \in a + 1..Len(w)
        BY <1>0, <1>3, <3>1 DEF RepliesOf
      <4> QED BY <4>1
    <3>3. w[i].role = "tool"
      BY <3>1, <3>2 DEF RepliesOf
    <3> QED BY <1>4, <3>3 DEF Calling
  <2> HIDE DEF parents
  <2> QED BY <2>1, <2>2, <2>3
<1>5. ASSUME NEW i \in S, Calling(w[i]), NEW k \in 1..Len(w[i].calls)
      PROVE  i + k \in S
  <2>1. i \in parents /\ i \in 1..Len(w)
    BY <1>3, <1>4, <1>5
  <2>2. Replied(w, i)
    BY <1>5, <2>1, FollowsByPlace
  <2>3. /\ Len(w[i].calls) \in Nat /\ DOMAIN w[i].calls = 1..Len(w[i].calls)
        /\ k \in Nat /\ k >= 1 /\ i \in Nat
    <3>1. w[i] \in Texts
      BY <2>1
    <3>2. Len(w[i].calls) \in Nat /\ DOMAIN w[i].calls = 1..Len(w[i].calls)
      BY <3>1, TextFields
    <3> QED BY <2>1, <3>2
  <2>4. i + k \in i + 1..Len(w)
    BY <2>2, <2>3 DEF Replied
  <2>5. ASSUME NEW j \in i + 1..i + k PROVE w[j].role = "tool"
    <3>1. j - i \in 1..Len(w[i].calls) /\ i + (j - i) = j
      BY <2>3
    <3> QED BY <2>2, <3>1 DEF Replied
  <2>6. w[i + k].call \in Range(w[i].calls)
    <3>1. w[i + k].call = w[i].calls[k] /\ k \in DOMAIN w[i].calls
      BY <2>2, <2>3 DEF Replied
    <3> QED BY <3>1 DEF Range
  <2>7. i + k \in RepliesOf(w, i)
    BY <2>4, <2>5, <2>6 DEF RepliesOf
  <2> HIDE DEF parents
  <2> QED BY <2>1, <2>7
<1> HIDE DEF S
<1>6. AnswersFollow(Selected(w, S))
  BY <1>3, <1>5, SelectionIsAnswered
<1> QED BY <1>2, <1>6

-----------------------------------------------------------------------------
(* The inductive invariant of the window, over the parts of the state it    *)
(* reads.                                                                   *)

(* A call named by a message was made.                                      *)
NamesCalls(ms, ts) ==
    \A i \in 1..Len(ms) :
        /\ ms[i].role = "tool" => ms[i].call \in 1..Len(ts)
        /\ \A k \in 1..Len(ms[i].calls) : ms[i].calls[k] \in 1..Len(ts)

(* Every call has its replies; the last message may wait for them.          *)
Answered(ms, waiting) ==
    \A i \in 1..Len(ms) :
        Calling(ms[i]) => Replied(ms, i) \/ (waiting /\ i = Len(ms))

RepliesComeLater(ms) ==
    \A i \in 1..Len(ms) : \A j \in 1..Len(ms) :
        (Calling(ms[i]) /\ ms[j].role = "tool") =>
            \A k \in 1..Len(ms[i].calls) : ms[j].call = ms[i].calls[k] => i < j

IsLastRead(ms, ts, rn, i) ==
    /\ ms[i].role = "tool" /\ ts[ms[i].call] = "read" /\ ms[i].call \in rn
    /\ ms[i].form \notin {"error", "same", "omitted", "pruned"}
    /\ \A j \in 1..Len(ms) :
          (ms[j].role = "tool" /\ j > i /\ ts[ms[j].call] = "read") => ms[j].form \in {"error", "same"}

LastReadIsNoted(ms, ts, rs, rn) ==
    \A i \in 1..Len(ms) :
        IsLastRead(ms, ts, rn, i) => Len(rs) >= 1 /\ rs[Len(rs)] = ms[i].call

(* The calls asked for last all have a reply, or none has.                  *)
HasReply(ms, c) == \E j \in 1..Len(ms) : ms[j].role = "tool" /\ ms[j].call = c

WholeBatch(ms) ==
    \A i \in 1..Len(ms) :
        (Calling(ms[i]) /\ \A j \in 1..Len(ms) : j > i => ~Calling(ms[j])) =>
            \/ \A k \in 1..Len(ms[i].calls) : HasReply(ms, ms[i].calls[k])
            \/ \A k \in 1..Len(ms[i].calls) : ~HasReply(ms, ms[i].calls[k])

WindowInv ==
    /\ messages \in Seq(Texts) /\ tools \in Seq(Tools) /\ reads \in Seq(Nat) /\ left \in BOOLEAN
    /\ WholeBatch(messages)
    /\ NamesCalls(messages, tools)
    /\ ~left => Answered(messages, loopAt \notin {"idle", "ready"})
    /\ RepliesComeLater(messages)
    /\ LastReadIsNoted(messages, tools, reads, ran)

(* A message that is neither a reply nor has calls.                         *)
IsRemark(m) == m \in Texts /\ m.role # "tool" /\ m.calls = <<>>

LEMMA RemarksAreTexts ==
    /\ IsRemark(User) /\ IsRemark(System) /\ IsRemark(Says(<<>>))
    /\ \A calls \in Seq(Nat) : Says(calls) \in Texts /\ Says(calls).role = "assistant" /\ Says(calls).calls = calls
    /\ \A call \in Nat, form \in Forms :
          /\ ReplyTo(call, form) \in Texts /\ ReplyTo(call, form).role = "tool"
          /\ ReplyTo(call, form).call = call /\ ReplyTo(call, form).form = form
          /\ ReplyTo(call, form).calls = <<>>
<1>1. <<>> \in Seq(Nat)
  OBVIOUS
<1>2. \A calls \in Seq(Nat) : Says(calls) \in Texts /\ Says(calls).role = "assistant" /\ Says(calls).calls = calls
  BY DEF Says, Message, Texts, Roles
<1>3. IsRemark(User) /\ IsRemark(System) /\ IsRemark(Says(<<>>))
  BY <1>1 DEF IsRemark, User, System, Says, Message, Texts, Roles
<1>4. \A call \in Nat, form \in Forms :
          /\ ReplyTo(call, form) \in Texts /\ ReplyTo(call, form).role = "tool"
          /\ ReplyTo(call, form).call = call /\ ReplyTo(call, form).form = form
          /\ ReplyTo(call, form).calls = <<>>
  BY <1>1 DEF ReplyTo, Message, Texts, Roles
<1> QED BY <1>2, <1>3, <1>4

(* Replies that are there stay where messages are added after them.         *)
LEMMA RepliesStay ==
    ASSUME NEW ms \in Seq(Texts), NEW new \in Seq(Texts), Len(ms) <= Len(new),
           \A i \in 1..Len(ms) : new[i] = ms[i],
           NEW i \in 1..Len(ms), Replied(ms, i)
    PROVE  Replied(new, i)
<1>1. ms[i] \in Texts
  OBVIOUS
<1>2. Len(ms[i].calls) \in Nat
  BY <1>1, TextFields
<1>3. ASSUME NEW k \in 1..Len(ms[i].calls)
      PROVE  i + k <= Len(new) /\ new[i + k].role = "tool" /\ new[i + k].call = ms[i].calls[k]
  <2>1. i + k <= Len(ms) /\ ms[i + k].role = "tool" /\ ms[i + k].call = ms[i].calls[k]
    BY DEF Replied
  <2>2. i + k \in 1..Len(ms)
    BY <1>2, <2>1
  <2> QED BY <2>1, <2>2
<1>4. new[i] = ms[i]
  OBVIOUS
<1> QED BY <1>3, <1>4 DEF Replied

(* What a remark at the end leaves as it was.                               *)
LEMMA RemarkIsAdded ==
    ASSUME NEW ms \in Seq(Texts), NEW m, IsRemark(m), NEW ts, NEW rs, NEW rn
    PROVE  /\ Append(ms, m) \in Seq(Texts)
           /\ NamesCalls(ms, ts) => NamesCalls(Append(ms, m), ts)
           /\ Answered(ms, FALSE) => Answered(Append(ms, m), FALSE)
           /\ RepliesComeLater(ms) => RepliesComeLater(Append(ms, m))
           /\ LastReadIsNoted(ms, ts, rs, rn) => LastReadIsNoted(Append(ms, m), ts, rs, rn)
<1> DEFINE new == Append(ms, m)
           n == Len(ms)
<1>1. /\ new \in Seq(Texts) /\ Len(new) = n + 1 /\ n \in Nat
      /\ \A i \in 1..n : new[i] = ms[i]
      /\ new[n + 1] = m
  BY DEF IsRemark
<1>2. m.role # "tool" /\ Len(m.calls) = 0 /\ ~Calling(m)
  BY DEF IsRemark, Calling
<1> HIDE DEF new
<1>3. \A i \in 1..Len(new) : i \in 1..n \/ i = n + 1
  BY <1>1
<1>4. ASSUME NamesCalls(ms, ts) PROVE NamesCalls(new, ts)
  <2>1. ASSUME NEW i \in 1..Len(new)
        PROVE  /\ new[i].role = "tool" => new[i].call \in 1..Len(ts)
               /\ \A k \in 1..Len(new[i].calls) : new[i].calls[k] \in 1..Len(ts)
    <3>1. CASE i \in 1..n
      BY <1>1, <1>4, <3>1 DEF NamesCalls
    <3>2. CASE i = n + 1
      BY <1>1, <1>2, <3>2
    <3> QED BY <1>3, <3>1, <3>2
  <2> QED BY <2>1 DEF NamesCalls
<1>5. ASSUME Answered(ms, FALSE) PROVE Answered(new, FALSE)
  <2>1. ASSUME NEW i \in 1..Len(new), Calling(new[i]) PROVE Replied(new, i)
    <3>1. i \in 1..n /\ new[i] = ms[i]
      BY <1>1, <1>2, <1>3, <2>1
    <3>2. Replied(ms, i)
      BY <1>5, <2>1, <3>1 DEF Answered
    <3>3. n <= Len(new)
      BY <1>1
    <3> QED BY <1>1, <3>1, <3>2, <3>3, RepliesStay
  <2> QED BY <2>1 DEF Answered
<1>6. ASSUME RepliesComeLater(ms) PROVE RepliesComeLater(new)
  <2>1. ASSUME NEW i \in 1..Len(new), NEW j \in 1..Len(new), Calling(new[i]), new[j].role = "tool",
               NEW k \in 1..Len(new[i].calls), new[j].call = new[i].calls[k]
        PROVE  i < j
    <3>1. i \in 1..n /\ new[i] = ms[i] /\ j \in 1..n /\ new[j] = ms[j]
      BY <1>1, <1>2, <1>3, <2>1
    <3> QED BY <1>6, <2>1, <3>1 DEF RepliesComeLater
  <2> QED BY <2>1 DEF RepliesComeLater
<1>7. ASSUME LastReadIsNoted(ms, ts, rs, rn) PROVE LastReadIsNoted(new, ts, rs, rn)
  <2>1. ASSUME NEW i \in 1..Len(new), IsLastRead(new, ts, rn, i)
        PROVE  Len(rs) >= 1 /\ rs[Len(rs)] = new[i].call
    <3>1. i \in 1..n /\ new[i] = ms[i]
      BY <1>1, <1>2, <1>3, <2>1 DEF IsLastRead
    <3>2. 1..n \subseteq 1..Len(new)
      BY <1>1
    <3>3. IsLastRead(ms, ts, rn, i)
      BY <1>1, <2>1, <3>1, <3>2 DEF IsLastRead
    <3> QED BY <1>7, <3>1, <3>3 DEF LastReadIsNoted
  <2> QED BY <2>1 DEF LastReadIsNoted
<1> QED BY <1>1, <1>4, <1>5, <1>6, <1>7 DEF new

(* The last message that has calls.                                         *)
LEMMA LastAsking ==
    ASSUME messages \in Seq(Texts), NEW i \in 1..Len(messages), Calling(messages[i])
    PROVE  \E m \in 1..Len(messages) :
               /\ Calling(messages[m]) /\ LastCalls = messages[m].calls
               /\ \A j \in 1..Len(messages) : Calling(messages[j]) => j <= m
<1> DEFINE n == Len(messages)
           asking == {j \in DOMAIN messages : Calling(messages[j])}
<1>1. n \in Nat /\ DOMAIN messages = 1..n
  OBVIOUS
<1>2. asking \in SUBSET (1..n) /\ asking # {}
  BY <1>1
<1>3. LastCalls = messages[Max(asking)].calls
  BY <1>2 DEF LastCalls
<1>4. Max(asking) \in asking /\ \A j \in asking : j <= Max(asking)
  <2> HIDE DEF asking
  <2>1. PICK m \in asking : \A j \in asking : j <= m
    BY <1>1, <1>2, GreatestPlace
  <2>2. \A j \in asking : j \in Nat
    BY <1>2
  <2>3. \E x \in asking : \A y \in asking : x >= y
    BY <2>1, <2>2
  <2>4. Max(asking) \in asking /\ \A y \in asking : Max(asking) >= y
    BY <2>3 DEF Max
  <2> QED BY <2>2, <2>4
<1> QED BY <1>1, <1>3, <1>4

LEMMA CallsOfMessages ==
    ASSUME messages \in Seq(Texts), NEW i \in 1..Len(messages)
    PROVE  /\ messages[i].calls \in Seq(Nat) /\ Len(messages[i].calls) \in Nat
           /\ DOMAIN messages[i].calls = 1..Len(messages[i].calls)
<1>1. messages[i] \in Texts
  OBVIOUS
<1> QED BY <1>1, TextFields

(* What is unanswered are calls that were made.                             *)
LEMMA UnansweredWereMade ==
    ASSUME WindowInv
    PROVE  /\ Unanswered \in Seq(Nat)
           /\ \A k \in 1..Len(Unanswered) : Unanswered[k] \in 1..Len(tools)
<1>0. messages \in Seq(Texts) /\ NamesCalls(messages, tools)
  BY DEF WindowInv
<1>1. CASE Unanswered = <<>>
  BY <1>1
<1>2. CASE Unanswered # <<>>
  <2>1. Unanswered = LastCalls /\ LastCalls # <<>>
    BY <1>2 DEF Unanswered
  <2>2. PICK i \in DOMAIN messages : Calling(messages[i])
    BY <2>1 DEF LastCalls
  <2>3. DOMAIN messages = 1..Len(messages)
    BY <1>0
  <2>4. PICK m \in 1..Len(messages) : LastCalls = messages[m].calls
    BY <1>0, <2>2, <2>3, LastAsking
  <2>5. messages[m].calls \in Seq(Nat)
    BY <1>0, CallsOfMessages
  <2> QED BY <1>0, <2>1, <2>4, <2>5 DEF NamesCalls
<1> QED BY <1>1, <1>2

(* Without an answer, the last message has the calls; with one for each     *)
(* call asked for last, no message waits at the end.                        *)
LEMMA WhoWaits ==
    ASSUME WindowInv
    PROVE  /\ Unanswered = <<>> => (Len(messages) = 0 \/ ~Calling(messages[Len(messages)]))
           /\ (~left /\ Unanswered # <<>>) =>
                  /\ Len(messages) >= 1 /\ Calling(messages[Len(messages)])
                  /\ Unanswered = messages[Len(messages)].calls
<1> DEFINE n == Len(messages)
<1>0. messages \in Seq(Texts)
  BY DEF WindowInv
<1>1. n \in Nat /\ DOMAIN messages = 1..n
  BY <1>0
<1>a. RepliesComeLater(messages)
  BY DEF WindowInv
<1>b. ~left => \A i \in 1..n : Calling(messages[i]) => Replied(messages, i) \/ i = n
  BY DEF WindowInv, Answered
<1>4. ASSUME Unanswered = <<>>, n # 0, Calling(messages[n]) PROVE FALSE
  <2>1. n \in 1..n
    BY <1>1, <1>4
  <2>2. PICK m \in 1..n : LastCalls = messages[m].calls /\ n <= m
    BY <1>0, <1>4, <2>1, LastAsking
  <2>3. LastCalls = messages[n].calls /\ LastCalls # <<>>
    <3>0. n <= m
      BY <2>2
    <3>1. m = n
      <4> HIDE DEF n
      <4> QED BY <1>1, <3>0
    <3> QED BY <1>4, <2>2, <3>1 DEF Calling
  <2>4. \A k \in DOMAIN LastCalls : \E i \in DOMAIN messages :
            messages[i].role = "tool" /\ messages[i].call = LastCalls[k]
    BY <1>4, <2>3 DEF Unanswered
  <2>6. LastCalls \in Seq(Nat)
    BY <1>0, <2>1, <2>3, CallsOfMessages
  <2>7. 1 \in DOMAIN LastCalls /\ 1 \in 1..Len(messages[n].calls)
    BY <2>3, <2>6
  <2>8. PICK j \in 1..n : messages[j].role = "tool" /\ messages[j].call = messages[n].calls[1]
    BY <1>1, <2>3, <2>4, <2>7
  <2>9. n < j
    BY <1>a, <1>4, <2>1, <2>7, <2>8 DEF RepliesComeLater
  <2> QED BY <1>1, <2>9
<1>5. ASSUME ~left, Unanswered # <<>>
      PROVE  n >= 1 /\ Calling(messages[n]) /\ Unanswered = messages[n].calls
  <2>1. Unanswered = LastCalls /\ LastCalls # <<>>
        /\ ~ \A k \in DOMAIN LastCalls : \E i \in DOMAIN messages :
                messages[i].role = "tool" /\ messages[i].call = LastCalls[k]
    BY <1>5 DEF Unanswered
  <2>2. \E i \in 1..n : Calling(messages[i])
    BY <1>1, <2>1 DEF LastCalls
  <2>3. PICK m \in 1..n : Calling(messages[m]) /\ LastCalls = messages[m].calls
    BY <1>0, <2>2, LastAsking
  <2>4. ~ Replied(messages, m)
    <3> SUFFICES ASSUME Replied(messages, m) PROVE FALSE
      OBVIOUS
    <3>1. ASSUME NEW k \in DOMAIN LastCalls
          PROVE  \E i \in DOMAIN messages : messages[i].role = "tool" /\ messages[i].call = LastCalls[k]
      <4>1. k \in 1..Len(messages[m].calls) /\ k \in Nat /\ k >= 1
        <5>1. DOMAIN messages[m].calls = 1..Len(messages[m].calls) /\ Len(messages[m].calls) \in Nat
          BY <1>0, CallsOfMessages
        <5> QED BY <2>3, <5>1
      <4>2. m + k <= n /\ messages[m + k].role = "tool" /\ messages[m + k].call = LastCalls[k]
        BY <2>3, <4>1 DEF Replied
      <4>3. m + k \in 1..n
        BY <1>1, <4>1, <4>2
      <4> QED BY <1>1, <4>2, <4>3
    <3> QED BY <2>1, <3>1
  <2>5. m = n
    BY <1>b, <1>5, <2>3, <2>4
  <2> QED BY <1>1, <2>1, <2>3, <2>5
<1> QED BY <1>4, <1>5

LEMMA WaitingOrNot ==
    ASSUME NEW ms \in Seq(Texts)
    PROVE  /\ Answered(ms, FALSE) => Answered(ms, TRUE)
           /\ (Len(ms) = 0 \/ ~Calling(ms[Len(ms)])) => (Answered(ms, TRUE) => Answered(ms, FALSE))
<1>1. Answered(ms, FALSE) => Answered(ms, TRUE)
  BY DEF Answered
<1>2. ASSUME Len(ms) = 0 \/ ~Calling(ms[Len(ms)]), Answered(ms, TRUE) PROVE Answered(ms, FALSE)
  <2>1. ASSUME NEW i \in 1..Len(ms), Calling(ms[i]) PROVE Replied(ms, i)
    <3>1. i # Len(ms)
      BY <1>2, <2>1
    <3> QED BY <1>2, <2>1, <3>1 DEF Answered
  <2> QED BY <2>1 DEF Answered
<1> QED BY <1>1, <1>2

(* Pruning replaces texts, and nothing a reply is known by.                 *)
LEMMA PruneReplacesTexts ==
    ASSUME messages \in Seq(Texts)
    PROVE  /\ Prune \in Seq(Texts) /\ Len(Prune) = Len(messages)
           /\ \A i \in 1..Len(messages) :
                 /\ Prune[i].role = messages[i].role /\ Prune[i].calls = messages[i].calls
                 /\ Prune[i].call = messages[i].call
                 /\ Prune[i].form = messages[i].form \/ Prune[i].form = "pruned"
<1> DEFINE cond(i) == /\ i \in ToolMessages
                      /\ Cardinality({j \in ToolMessages : j > i}) >= PruneKeep
                      /\ tools[messages[i].call] # "write"
           new(i) == IF cond(i) THEN [messages[i] EXCEPT !.form = "pruned"] ELSE messages[i]
<1>1. DOMAIN messages = 1..Len(messages) /\ Len(messages) \in Nat
  OBVIOUS
<1>2. CASE Len(messages) < PruneMin
  <2>1. Prune = messages
    BY <1>2 DEF Prune
  <2> QED BY <2>1
<1>3. CASE ~(Len(messages) < PruneMin)
  <2>1. Prune = [i \in 1..Len(messages) |-> new(i)]
    BY <1>1, <1>3 DEF Prune
  <2>2. ASSUME NEW i \in 1..Len(messages)
        PROVE  /\ new(i) \in Texts /\ new(i).role = messages[i].role /\ new(i).calls = messages[i].calls
               /\ new(i).call = messages[i].call
               /\ new(i).form = messages[i].form \/ new(i).form = "pruned"
    <3>1. messages[i] \in Texts
      OBVIOUS
    <3> DEFINE m == messages[i]
               p == [m EXCEPT !.form = "pruned"]
    <3>2. new(i) = m \/ new(i) = p
      OBVIOUS
    <3>3. "pruned" \in Forms \cup {""}
      BY DEF Forms
    <3> HIDE DEF m
    <3>4. p \in Texts /\ p.role = m.role /\ p.calls = m.calls /\ p.call = m.call /\ p.form = "pruned"
      BY <3>1, <3>3 DEF Texts, m
    <3> HIDE DEF p, new
    <3> QED BY <3>1, <3>2, <3>4 DEF m
  <2> HIDE DEF new
  <2>3. Prune \in Seq(Texts) /\ Len(Prune) = Len(messages)
    BY <1>1, <2>1, <2>2
  <2>4. \A i \in 1..Len(messages) : Prune[i] = new(i)
    BY <2>1
  <2> QED BY <2>2, <2>3, <2>4
<1> QED BY <1>2, <1>3

LEMMA PruneKeepsOrder ==
    ASSUME NEW ms \in Seq(Texts), NEW new \in Seq(Texts), Len(new) = Len(ms),
           \A i \in 1..Len(ms) :
               /\ new[i].role = ms[i].role /\ new[i].calls = ms[i].calls
               /\ new[i].call = ms[i].call
               /\ new[i].form = ms[i].form \/ new[i].form = "pruned",
           NEW ts, NEW rs, NEW rn
    PROVE  /\ NamesCalls(ms, ts) => NamesCalls(new, ts)
           /\ Answered(ms, TRUE) => Answered(new, TRUE)
           /\ Answered(ms, FALSE) => Answered(new, FALSE)
           /\ RepliesComeLater(ms) => RepliesComeLater(new)
           /\ LastReadIsNoted(ms, ts, rs, rn) => LastReadIsNoted(new, ts, rs, rn)
<1>1. \A i \in 1..Len(ms) : Calling(new[i]) <=> Calling(ms[i])
  BY DEF Calling
<1>2. ASSUME NEW i \in 1..Len(ms), Replied(ms, i) PROVE Replied(new, i)
  <2>1. ms[i] \in Texts
    OBVIOUS
  <2>2. Len(ms[i].calls) \in Nat
    BY <2>1, TextFields
  <2>3. ASSUME NEW k \in 1..Len(ms[i].calls)
        PROVE  i + k <= Len(ms) /\ new[i + k].role = "tool" /\ new[i + k].call = ms[i].calls[k]
    <3>1. i + k <= Len(ms) /\ ms[i + k].role = "tool" /\ ms[i + k].call = ms[i].calls[k]
      BY <1>2 DEF Replied
    <3>2. i + k \in 1..Len(ms)
      BY <2>2, <3>1
    <3> QED BY <3>1, <3>2
  <2> QED BY <2>3 DEF Replied
<1>3. NamesCalls(ms, ts) => NamesCalls(new, ts)
  BY DEF NamesCalls
<1>4. Answered(ms, TRUE) => Answered(new, TRUE)
  BY <1>1, <1>2 DEF Answered
<1>5. Answered(ms, FALSE) => Answered(new, FALSE)
  BY <1>1, <1>2 DEF Answered
<1>6. RepliesComeLater(ms) => RepliesComeLater(new)
  BY <1>1 DEF RepliesComeLater
<1>7. ASSUME LastReadIsNoted(ms, ts, rs, rn) PROVE LastReadIsNoted(new, ts, rs, rn)
  <2>1. ASSUME NEW i \in 1..Len(ms), IsLastRead(new, ts, rn, i) PROVE IsLastRead(ms, ts, rn, i)
    BY <2>1 DEF IsLastRead
  <2> QED BY <1>7, <2>1 DEF LastReadIsNoted
<1> QED BY <1>3, <1>4, <1>5, <1>6, <1>7

(* Calls that are made later change nothing of those made before.           *)
LEMMA MoreCalls ==
    ASSUME NEW ms \in Seq(Texts), NEW ts \in Seq(Tools), NEW kinds \in Seq(Tools), NEW rs, NEW rn,
           NamesCalls(ms, ts)
    PROVE  /\ NamesCalls(ms, ts \o kinds)
           /\ LastReadIsNoted(ms, ts, rs, rn) => LastReadIsNoted(ms, ts \o kinds, rs, rn)
<1> DEFINE more == ts \o kinds
<1>1. /\ Len(more) = Len(ts) + Len(kinds) /\ Len(ts) \in Nat /\ Len(kinds) \in Nat
      /\ \A c \in 1..Len(ts) : more[c] = ts[c]
  OBVIOUS
<1> HIDE DEF more
<1>2. \A c \in 1..Len(ts) : c \in 1..Len(more)
  BY <1>1
<1>3. NamesCalls(ms, more)
  BY <1>2 DEF NamesCalls
<1>4. \A i \in 1..Len(ms) : ms[i].role = "tool" => more[ms[i].call] = ts[ms[i].call]
  BY <1>1 DEF NamesCalls
<1>5. ASSUME LastReadIsNoted(ms, ts, rs, rn) PROVE LastReadIsNoted(ms, more, rs, rn)
  <2>1. ASSUME NEW i \in 1..Len(ms), IsLastRead(ms, more, rn, i) PROVE IsLastRead(ms, ts, rn, i)
    BY <1>4, <2>1 DEF IsLastRead
  <2> QED BY <1>5, <2>1 DEF LastReadIsNoted
<1> QED BY <1>3, <1>5 DEF more

(* A message with new calls waits at the end.                               *)
LEMMA CallsAreAsked ==
    ASSUME NEW ms \in Seq(Texts), NEW ts \in Seq(Tools), NEW kinds \in Seq(Tools), NEW rs, NEW rn,
           NEW m \in Texts, m.role = "assistant", Len(m.calls) = Len(kinds),
           \A k \in 1..Len(kinds) : m.calls[k] = Len(ts) + k,
           NamesCalls(ms, ts), RepliesComeLater(ms), LastReadIsNoted(ms, ts, rs, rn)
    PROVE  /\ Append(ms, m) \in Seq(Texts)
           /\ NamesCalls(Append(ms, m), ts \o kinds)
           /\ Answered(ms, FALSE) => Answered(Append(ms, m), TRUE)
           /\ RepliesComeLater(Append(ms, m))
           /\ LastReadIsNoted(Append(ms, m), ts \o kinds, rs, rn)
<1> DEFINE new == Append(ms, m)
           n == Len(ms)
           more == ts \o kinds
<1>1. /\ new \in Seq(Texts) /\ Len(new) = n + 1 /\ n \in Nat
      /\ \A i \in 1..n : new[i] = ms[i]
      /\ new[n + 1] = m
  OBVIOUS
<1>2. Len(more) = Len(ts) + Len(kinds) /\ Len(ts) \in Nat /\ Len(kinds) \in Nat
  OBVIOUS
<1>3. NamesCalls(ms, more) /\ LastReadIsNoted(ms, more, rs, rn)
  BY MoreCalls
<1> HIDE DEF new, more
<1>4. \A i \in 1..Len(new) : i \in 1..n \/ i = n + 1
  BY <1>1
<1>5. NamesCalls(new, more)
  <2>1. ASSUME NEW i \in 1..Len(new)
        PROVE  /\ new[i].role = "tool" => new[i].call \in 1..Len(more)
               /\ \A k \in 1..Len(new[i].calls) : new[i].calls[k] \in 1..Len(more)
    <3>1. CASE i \in 1..n
      BY <1>1, <1>3, <3>1 DEF NamesCalls
    <3>2. CASE i = n + 1
      <4>1. ASSUME NEW k \in 1..Len(kinds) PROVE m.calls[k] \in 1..Len(more)
        BY <1>2
      <4> QED BY <1>1, <3>2, <4>1
    <3> QED BY <1>4, <3>1, <3>2
  <2> QED BY <2>1 DEF NamesCalls
<1>6. ASSUME Answered(ms, FALSE) PROVE Answered(new, TRUE)
  <2>1. ASSUME NEW i \in 1..Len(new), Calling(new[i]), i # Len(new) PROVE Replied(new, i)
    <3>1. i \in 1..n /\ new[i] = ms[i]
      BY <1>1, <1>4, <2>1
    <3>2. Replied(ms, i)
      BY <1>6, <2>1, <3>1 DEF Answered
    <3>3. n <= Len(new)
      BY <1>1
    <3> QED BY <1>1, <3>1, <3>2, <3>3, RepliesStay
  <2> QED BY <2>1 DEF Answered
<1>7. RepliesComeLater(new)
  <2>1. ASSUME NEW i \in 1..Len(new), NEW j \in 1..Len(new), Calling(new[i]), new[j].role = "tool",
               NEW k \in 1..Len(new[i].calls), new[j].call = new[i].calls[k]
        PROVE  i < j
    <3>1. j \in 1..n /\ new[j] = ms[j]
      BY <1>1, <1>4, <2>1
    <3>2. CASE i \in 1..n
      BY <1>1, <2>1, <3>1, <3>2, ZenonT(30) DEF RepliesComeLater
    <3>3. CASE i = n + 1
      <4>1. new[j].call = Len(ts) + k /\ k >= 1 /\ k \in Nat
        BY <1>1, <1>2, <2>1, <3>3
      <4>2. new[j].call \in 1..Len(ts)
        BY <2>1, <3>1 DEF NamesCalls
      <4> QED BY <1>2, <4>1, <4>2
    <3> QED BY <1>4, <3>2, <3>3
  <2> QED BY <2>1 DEF RepliesComeLater
<1>8. LastReadIsNoted(new, more, rs, rn)
  <2>1. ASSUME NEW i \in 1..Len(new), IsLastRead(new, more, rn, i)
        PROVE  Len(rs) >= 1 /\ rs[Len(rs)] = new[i].call
    <3>1. i \in 1..n /\ new[i] = ms[i]
      BY <1>1, <1>4, <2>1 DEF IsLastRead
    <3>2. 1..n \subseteq 1..Len(new)
      BY <1>1
    <3>3. IsLastRead(ms, more, rn, i)
      BY <1>1, <2>1, <3>1, <3>2 DEF IsLastRead
    <3> QED BY <1>3, <3>1, <3>3 DEF LastReadIsNoted
  <2> QED BY <2>1 DEF LastReadIsNoted
<1> QED BY <1>1, <1>5, <1>6, <1>7, <1>8 DEF new, more

(* The calls of an answer, and those that may be asked for.                 *)
LEMMA NewCallsAreFresh ==
    ASSUME tools \in Seq(Tools), NEW kinds \in Batches
    PROVE  /\ kinds \in Seq(Tools)
           /\ NewCalls(Len(kinds)) \in Seq(Nat) /\ Len(NewCalls(Len(kinds))) = Len(kinds)
           /\ \A k \in 1..Len(kinds) : NewCalls(Len(kinds))[k] = Len(tools) + k
<1>1. PICK n \in 1..BatchMax : kinds \in [1..n -> Tools]
  BY DEF Batches
<1>2. BatchMax \in Nat
  BY WindowAssumption
<1>3. n \in Nat
  BY <1>1, <1>2
<1>4. kinds \in Seq(Tools)
  BY <1>1, <1>3
<1> DEFINE l == Len(kinds)
<1>5. l \in Nat /\ Len(tools) \in Nat
  BY <1>4
<1> HIDE DEF l
<1>6. NewCalls(l) \in Seq(Nat) /\ Len(NewCalls(l)) = l
  <2> DEFINE f == [k \in 1..l |-> Len(tools) + k]
  <2>1. \A k \in 1..l : Len(tools) + k \in Nat
    BY <1>5
  <2>2. f \in Seq(Nat) /\ Len(f) = l
    BY <1>5, <2>1
  <2> QED BY <2>2 DEF NewCalls
<1>7. \A k \in 1..l : NewCalls(l)[k] = Len(tools) + k
  BY DEF NewCalls
<1> QED BY <1>4, <1>6, <1>7 DEF l

(* A list after another.                                                    *)
LEMMA Joined ==
    ASSUME NEW T, NEW s \in Seq(T), NEW t \in Seq(T)
    PROVE  /\ s \o t \in Seq(T) /\ Len(s \o t) = Len(s) + Len(t)
           /\ \A i \in 1..Len(s) : (s \o t)[i] = s[i]
           /\ \A k \in 1..Len(t) : (s \o t)[Len(s) + k] = t[k]
<1>1. s \o t \in Seq(T) /\ Len(s \o t) = Len(s) + Len(t) /\ Len(s) \in Nat /\ Len(t) \in Nat
  OBVIOUS
<1>2. ASSUME NEW i \in 1..Len(s) PROVE (s \o t)[i] = s[i]
  <2>1. i \in 1..Len(s) + Len(t) /\ i <= Len(s)
    BY <1>1
  <2> QED BY <2>1
<1>3. ASSUME NEW k \in 1..Len(t) PROVE (s \o t)[Len(s) + k] = t[k]
  <2>1. Len(s) + k \in 1..Len(s) + Len(t) /\ ~(Len(s) + k <= Len(s)) /\ Len(s) + k - Len(s) = k
    BY <1>1
  <2> QED BY <1>1, <2>1
<1> QED BY <1>1, <1>2, <1>3

(* The outcomes of a batch, in the places of its calls: an error is seen    *)
(* in what becomes of it.                                                   *)
LEMMA ErrorsAreSeen ==
    ASSUME NEW calls \in Seq(Nat), NEW outcome \in [Range(calls) -> {"long", "short", "same", "error"}],
           NEW before, before = [k \in DOMAIN calls |-> Paged(calls[k], outcome[calls[k]])]
    PROVE  /\ Squeezed(calls, before) \in [1..Len(calls) -> Forms]
           /\ \A k \in 1..Len(calls) : outcome[calls[k]] \in {"error", "same"} =>
                 Squeezed(calls, before)[k] \in {"error", "same", "omitted"}
           /\ \A k \in 1..Len(calls) : Squeezed(calls, before)[k] \in {"error", "same"} =>
                 outcome[calls[k]] \in {"error", "same"}
<1>1. DOMAIN calls = 1..Len(calls) /\ Len(calls) \in Nat
  OBVIOUS
<1>2. \A k \in 1..Len(calls) : calls[k] \in Range(calls)
  BY <1>1 DEF Range
<1>3. \A k \in 1..Len(calls) : outcome[calls[k]] \in {"long", "short", "same", "error"}
  BY <1>2
<1>4. \A k \in 1..Len(calls) : Paged(calls[k], outcome[calls[k]]) \in Forms
  BY <1>3 DEF Paged, Forms
<1>5. before \in [1..Len(calls) -> Forms]
  BY <1>1, <1>4
<1>6. \A k \in 1..Len(calls) :
         /\ outcome[calls[k]] \in {"error", "same"} => before[k] = outcome[calls[k]]
         /\ before[k] \in {"error", "same"} => outcome[calls[k]] = before[k]
  BY <1>1 DEF Paged
<1> DEFINE N == 1..Len(calls)
<1> HIDE DEF N
<1>7. before \in [N -> Forms]
  BY <1>5 DEF N
<1>8. /\ Squeezed(calls, before) \in [N -> Forms]
      /\ \A k \in N : Faithful(before, Squeezed(calls, before), k)
  BY <1>1, <1>7, SqueezedForms
<1> HIDE DEF N
<1>9. \A k \in N : /\ before[k] \in {"error", "same"} => Squeezed(calls, before)[k] \in {"error", "same", "omitted"}
                   /\ Squeezed(calls, before)[k] \in {"error", "same"} => before[k] \in {"error", "same"}
  BY <1>8 DEF Faithful
<1> QED BY <1>6, <1>8, <1>9 DEF N

(* The last asking message, all of whose calls or none have a reply.        *)
LEMMA RemarkKeepsBatch ==
    ASSUME NEW ms \in Seq(Texts), NEW m, IsRemark(m), WholeBatch(ms)
    PROVE  WholeBatch(Append(ms, m))
<1> DEFINE new == Append(ms, m)
           n == Len(ms)
<1>1. /\ Len(new) = n + 1 /\ n \in Nat
      /\ \A i \in 1..n : new[i] = ms[i]
      /\ new[n + 1] = m
  BY DEF IsRemark
<1>2. m.role # "tool" /\ ~Calling(m)
  BY DEF IsRemark, Calling
<1> HIDE DEF new
<1>3. \A i \in 1..Len(new) : i \in 1..n \/ i = n + 1
  BY <1>1
<1>4. 1..n \subseteq 1..Len(new)
  BY <1>1
<1>5. ASSUME NEW c PROVE HasReply(new, c) <=> HasReply(ms, c)
  BY <1>1, <1>2, <1>3, <1>4 DEF HasReply
<1>6. ASSUME NEW i \in 1..Len(new), Calling(new[i]), \A j \in 1..Len(new) : j > i => ~Calling(new[j])
      PROVE  \/ \A k \in 1..Len(new[i].calls) : HasReply(new, new[i].calls[k])
             \/ \A k \in 1..Len(new[i].calls) : ~HasReply(new, new[i].calls[k])
  <2>1. i \in 1..n /\ new[i] = ms[i]
    BY <1>1, <1>2, <1>3, <1>6
  <2>2. \A j \in 1..n : j > i => ~Calling(ms[j])
    BY <1>1, <1>4, <1>6
  <2>3. \/ \A k \in 1..Len(ms[i].calls) : HasReply(ms, ms[i].calls[k])
        \/ \A k \in 1..Len(ms[i].calls) : ~HasReply(ms, ms[i].calls[k])
    BY <1>6, <2>1, <2>2 DEF WholeBatch
  <2> QED BY <1>5, <2>1, <2>3
<1>7. WholeBatch(new)
  BY <1>6 DEF WholeBatch
<1> QED BY <1>7 DEF new

LEMMA PlacesKeepBatch ==
    ASSUME NEW ms \in Seq(Texts), NEW new \in Seq(Texts), Len(new) = Len(ms),
           \A i \in 1..Len(ms) :
               /\ new[i].role = ms[i].role /\ new[i].calls = ms[i].calls
               /\ new[i].call = ms[i].call
               /\ new[i].form = ms[i].form \/ new[i].form = "pruned",
           WholeBatch(ms)
    PROVE  WholeBatch(new)
<1>1. \A i \in 1..Len(ms) : Calling(new[i]) <=> Calling(ms[i])
  BY DEF Calling
<1>2. ASSUME NEW c PROVE HasReply(new, c) <=> HasReply(ms, c)
  BY DEF HasReply
<1>3. ASSUME NEW i \in 1..Len(ms), Calling(new[i]), \A j \in 1..Len(ms) : j > i => ~Calling(new[j])
      PROVE  \/ \A k \in 1..Len(new[i].calls) : HasReply(new, new[i].calls[k])
             \/ \A k \in 1..Len(new[i].calls) : ~HasReply(new, new[i].calls[k])
  <2>1. \/ \A k \in 1..Len(ms[i].calls) : HasReply(ms, ms[i].calls[k])
        \/ \A k \in 1..Len(ms[i].calls) : ~HasReply(ms, ms[i].calls[k])
    BY <1>1, <1>3 DEF WholeBatch
  <2>2. new[i].calls = ms[i].calls
    OBVIOUS
  <2> QED BY <1>2, <2>1, <2>2
<1> QED BY <1>3 DEF WholeBatch

(* New calls have no reply yet.                                             *)
LEMMA AskedIsWhole ==
    ASSUME NEW ms \in Seq(Texts), NEW ts \in Seq(Tools), NEW m \in Texts, NamesCalls(ms, ts),
           m.role = "assistant", Calling(m),
           \A k \in 1..Len(m.calls) : m.calls[k] = Len(ts) + k
    PROVE  WholeBatch(Append(ms, m))
<1> DEFINE new == Append(ms, m)
           n == Len(ms)
<1>1. /\ Len(new) = n + 1 /\ n \in Nat /\ Len(ts) \in Nat
      /\ \A i \in 1..n : new[i] = ms[i]
      /\ new[n + 1] = m
  OBVIOUS
<1> HIDE DEF new
<1>2. \A i \in 1..Len(new) : i \in 1..n \/ i = n + 1
  BY <1>1
<1>3. ASSUME NEW k \in 1..Len(m.calls) PROVE ~HasReply(new, m.calls[k])
  <2> SUFFICES ASSUME NEW j \in 1..Len(new), new[j].role = "tool", new[j].call = m.calls[k] PROVE FALSE
    BY DEF HasReply
  <2>1. j \in 1..n /\ new[j] = ms[j]
    BY <1>1, <1>2
  <2>2. ms[j].call \in 1..Len(ts)
    BY <2>1 DEF NamesCalls
  <2>3. ms[j].call = Len(ts) + k /\ k \in Nat /\ k >= 1
    <3>1. Len(m.calls) \in Nat
      BY TextFields
    <3> QED BY <2>1, <3>1
  <2> QED BY <1>1, <2>2, <2>3
<1>4. ASSUME NEW i \in 1..Len(new), \A j \in 1..Len(new) : j > i => ~Calling(new[j])
      PROVE  new[i] = m
  <2>1. n + 1 \in 1..Len(new)
    BY <1>1
  <2>2. ~(n + 1 > i)
    BY <1>1, <1>4, <2>1
  <2>3. i = n + 1
    BY <1>1, <1>2, <2>2
  <2> QED BY <1>1, <2>3
<1>5. WholeBatch(new)
  BY <1>3, <1>4 DEF WholeBatch
<1> QED BY <1>5 DEF new

(* What is unanswered has no reply at all: the batch is whole.              *)
LEMMA NotYetReplied ==
    ASSUME WindowInv, NEW k \in 1..Len(Unanswered)
    PROVE  ~HasReply(messages, Unanswered[k])
<1>1. messages \in Seq(Texts) /\ WholeBatch(messages)
  BY DEF WindowInv
<1>2. Unanswered \in Seq(Nat)
  BY UnansweredWereMade
<1>3. Unanswered # <<>>
  BY <1>2
<1>4. Unanswered = LastCalls /\ LastCalls # <<>>
      /\ ~ \A l \in DOMAIN LastCalls : \E i \in DOMAIN messages :
              messages[i].role = "tool" /\ messages[i].call = LastCalls[l]
  BY <1>3 DEF Unanswered
<1>5. DOMAIN messages = 1..Len(messages) /\ DOMAIN LastCalls = 1..Len(LastCalls) /\ Len(messages) \in Nat
  BY <1>1, <1>2, <1>4
<1>6. \E i \in 1..Len(messages) : Calling(messages[i])
  BY <1>4, <1>5 DEF LastCalls
<1>7. PICK m \in 1..Len(messages) :
          /\ Calling(messages[m]) /\ LastCalls = messages[m].calls
          /\ \A j \in 1..Len(messages) : Calling(messages[j]) => j <= m
  BY <1>1, <1>6, LastAsking
<1>8. \A j \in 1..Len(messages) : j > m => ~Calling(messages[j])
  <2>1. \A j \in 1..Len(messages) : j > m => ~(j <= m)
    BY <1>5
  <2> QED BY <1>7, <2>1
<1>9. \/ \A l \in 1..Len(LastCalls) : HasReply(messages, LastCalls[l])
      \/ \A l \in 1..Len(LastCalls) : ~HasReply(messages, LastCalls[l])
  BY <1>1, <1>7, <1>8 DEF WholeBatch
<1>10. PICK l \in 1..Len(LastCalls) : ~HasReply(messages, LastCalls[l])
  BY <1>4, <1>5 DEF HasReply
<1> QED BY <1>4, <1>9, <1>10

(* With the replies of the batch, each of its calls has one.                *)
LEMMA RepliedIsWhole ==
    ASSUME WindowInv, NEW calls, calls = Unanswered,
           NEW replies \in Seq(Texts), Len(replies) = Len(calls),
           \A k \in 1..Len(calls) :
              replies[k].role = "tool" /\ replies[k].call = calls[k] /\ replies[k].calls = <<>>
    PROVE  WholeBatch(messages \o replies)
<1> DEFINE new == messages \o replies
           n == Len(messages)
<1>1. messages \in Seq(Texts) /\ WholeBatch(messages) /\ n \in Nat
  BY DEF WindowInv
<1>2. calls \in Seq(Nat) /\ Len(calls) \in Nat
  BY UnansweredWereMade
<1>3. /\ Len(new) = n + Len(calls)
      /\ \A i \in 1..n : new[i] = messages[i]
      /\ \A k \in 1..Len(calls) : new[n + k] = replies[k]
  <2>1. /\ Len(messages \o replies) = Len(messages) + Len(replies)
        /\ \A i \in 1..Len(messages) : (messages \o replies)[i] = messages[i]
        /\ \A k \in 1..Len(replies) : (messages \o replies)[Len(messages) + k] = replies[k]
    <3>1. messages \in Seq(Texts) /\ replies \in Seq(Texts)
      BY <1>1
    <3> QED BY ONLY <3>1, Joined
  <2> HIDE DEF new, n
  <2>2. new = messages \o replies /\ n = Len(messages)
    BY DEF new, n
  <2> QED BY <2>1, <2>2
<1> HIDE DEF new
<1>4. \A i \in 1..n : i \in 1..Len(new)
  BY <1>1, <1>2, <1>3
<1>5. ASSUME NEW i \in 1..Len(new), Calling(new[i]) PROVE i \in 1..n /\ new[i] = messages[i]
  <2>1. CASE i \in 1..n
    BY <1>3, <2>1
  <2>2. CASE i \notin 1..n
    <3>1. i - n \in 1..Len(calls) /\ n + (i - n) = i
      BY <1>1, <1>2, <1>3, <2>2
    <3>2. new[i].role = "tool"
      BY <1>3, <3>1
    <3> QED BY <1>5, <3>2 DEF Calling
  <2> QED BY <2>1, <2>2
<1>6. ASSUME NEW c, HasReply(messages, c) PROVE HasReply(new, c)
  BY <1>3, <1>4, <1>6 DEF HasReply
<1>7. ASSUME NEW k \in 1..Len(calls) PROVE HasReply(new, calls[k])
  <2>1. n + k \in 1..Len(new) /\ new[n + k].role = "tool" /\ new[n + k].call = calls[k]
    BY <1>1, <1>2, <1>3
  <2> QED BY <2>1 DEF HasReply
<1>8. ASSUME NEW i \in 1..Len(new), Calling(new[i]), \A j \in 1..Len(new) : j > i => ~Calling(new[j]),
             NEW k \in 1..Len(new[i].calls)
      PROVE  HasReply(new, new[i].calls[k])
  <2>1. i \in 1..n /\ new[i] = messages[i]
    BY <1>5, <1>8
  <2>2. PICK m \in 1..n : /\ Calling(messages[m]) /\ LastCalls = messages[m].calls
                          /\ \A j \in 1..n : Calling(messages[j]) => j <= m
    BY <1>1, <1>8, <2>1, LastAsking
  <2>3. m = i
    <3>1. i <= m
      BY <1>8, <2>1, <2>2
    <3>2. ~(m > i)
      BY <1>3, <1>4, <1>8, <2>2
    <3> QED BY <1>1, <2>1, <3>1, <3>2
  <2>4. LastCalls = new[i].calls
    BY <2>1, <2>2, <2>3
  <2>5. CASE calls = <<>>
    <3>1. LastCalls # <<>>
      BY <1>8, <2>4 DEF Calling
    <3>2. LastCalls \in Seq(Nat)
      BY <1>1, <2>2, CallsOfMessages
    <3>3. k \in DOMAIN LastCalls
      BY <2>4, <3>2
    <3>4. \A l \in DOMAIN LastCalls : \E j \in DOMAIN messages :
              messages[j].role = "tool" /\ messages[j].call = LastCalls[l]
      BY <2>5, <3>1 DEF Unanswered
    <3>5. DOMAIN messages = 1..n
      BY <1>1
    <3>6. HasReply(messages, LastCalls[k])
      BY <3>3, <3>4, <3>5 DEF HasReply
    <3> QED BY <1>6, <2>4, <3>6
  <2>6. CASE calls # <<>>
    <3>1. calls = LastCalls
      BY <2>6 DEF Unanswered
    <3> QED BY <1>7, <2>4, <3>1
  <2> QED BY <2>5, <2>6
<1>9. WholeBatch(new)
  BY <1>8 DEF WholeBatch
<1> QED BY <1>9 DEF new

(* The reads that are noted of a batch.                                     *)
LEMMA ObservedReads ==
    ASSUME NEW calls \in Seq(Nat), NEW outcome
    PROVE  /\ Observed(calls, outcome) \in Seq(Nat)
           /\ (\A k \in 1..Len(calls) : tools[calls[k]] = "read" => outcome[calls[k]] \in {"error", "same"})
                 => Observed(calls, outcome) = <<>>
           /\ \A k \in 1..Len(calls) :
                 (/\ tools[calls[k]] = "read" /\ outcome[calls[k]] \notin {"error", "same"}
                  /\ \A l \in 1..Len(calls) :
                        l > k /\ tools[calls[l]] = "read" => outcome[calls[l]] \in {"error", "same"})
                 => /\ Len(Observed(calls, outcome)) >= 1
                    /\ Observed(calls, outcome)[Len(Observed(calls, outcome))] = calls[k]
<1> DEFINE S == {k \in 1..Len(calls) : tools[calls[k]] = "read" /\ outcome[calls[k]] \notin {"error", "same"}}
           c == Cardinality(S)
           o == Observed(calls, outcome)
<1>0. Len(calls) \in Nat /\ DOMAIN calls = 1..Len(calls) /\ S \in SUBSET (1..Len(calls))
  OBVIOUS
<1>1. o = Selected(calls, S)
  BY DEF Observed
<1> HIDE DEF S
<1>2. c \in Nat
  BY <1>0, BelowIsFinite
<1>3. \A p \in 1..c : Nth(S, p) \in S
  BY <1>0, PlacesInOrder
<1>4. \A p \in 1..c : calls[Nth(S, p)] \in Nat
  <2>1. \A k \in 1..Len(calls) : calls[k] \in Nat
    BY <1>0
  <2> QED BY <1>0, <1>3, <2>1
<1>5. o = [p \in 1..c |-> calls[Nth(S, p)]]
  BY <1>1 DEF Selected
<1> HIDE DEF o, c
<1>6. o \in Seq(Nat) /\ Len(o) = c
  BY <1>2, <1>4, <1>5
<1>7. ASSUME \A k \in 1..Len(calls) : tools[calls[k]] = "read" => outcome[calls[k]] \in {"error", "same"}
      PROVE  o = <<>>
  <2>1. S = {}
    BY <1>7 DEF S
  <2>2. c = 0
    BY <2>1, FS_EmptySet DEF c
  <2> QED BY <1>6, <2>2
<1>8. ASSUME NEW k \in 1..Len(calls), tools[calls[k]] = "read", outcome[calls[k]] \notin {"error", "same"},
             \A l \in 1..Len(calls) : l > k /\ tools[calls[l]] = "read" => outcome[calls[l]] \in {"error", "same"}
      PROVE  Len(o) >= 1 /\ o[Len(o)] = calls[k]
  <2>1. k \in S
    BY <1>8 DEF S
  <2>2. \A j \in S : j <= k
    <3>1. \A j \in S : j \in 1..Len(calls) /\ ~(j > k)
      BY <1>8 DEF S
    <3> QED BY <1>0, <3>1
  <2>3. Cardinality(S) \in 1..Len(calls) /\ Selected(calls, S)[Cardinality(S)] = calls[k]
    BY <1>0, <2>1, <2>2, LastSelected
  <2> QED BY <1>1, <1>6, <2>3 DEF c
<1> QED BY <1>6, <1>7, <1>8 DEF o

AreRepliesTo(replies, calls, ts) ==
    /\ Len(replies) = Len(calls)
    /\ \A k \in 1..Len(calls) :
          /\ replies[k].role = "tool" /\ replies[k].call = calls[k] /\ replies[k].calls = <<>>
          /\ calls[k] \in 1..Len(ts)

(* The replies of a batch come last, and are the answer to what waits.      *)
LEMMA RepliesAreAdded ==
    ASSUME NEW ms \in Seq(Texts), NEW calls \in Seq(Nat), NEW replies \in Seq(Texts),
           NEW ts, AreRepliesTo(replies, calls, ts),
           NamesCalls(ms, ts), RepliesComeLater(ms)
    PROVE  /\ ms \o replies \in Seq(Texts)
           /\ NamesCalls(ms \o replies, ts)
           /\ RepliesComeLater(ms \o replies)
           /\ (Answered(ms, TRUE) /\ (Len(ms) = 0 \/ ~Calling(ms[Len(ms)]) \/ calls = ms[Len(ms)].calls))
                 => Answered(ms \o replies, FALSE)
<1> DEFINE new == ms \o replies
           n == Len(ms)
           b == Len(calls)
<1>1. /\ new \in Seq(Texts) /\ Len(new) = n + b /\ n \in Nat /\ b \in Nat
      /\ \A i \in 1..n : new[i] = ms[i]
      /\ \A k \in 1..b : new[n + k] = replies[k]
  <2>1. /\ ms \o replies \in Seq(Texts) /\ Len(ms \o replies) = Len(ms) + Len(replies)
        /\ \A i \in 1..Len(ms) : (ms \o replies)[i] = ms[i]
        /\ \A k \in 1..Len(replies) : (ms \o replies)[Len(ms) + k] = replies[k]
    BY Joined
  <2>2. Len(ms) \in Nat /\ Len(calls) \in Nat
    OBVIOUS
  <2> HIDE DEF new, n, b
  <2>3. new = ms \o replies /\ n = Len(ms) /\ b = Len(calls) /\ b = Len(replies)
    BY DEF new, n, b, AreRepliesTo
  <2> QED BY <2>1, <2>2, <2>3
<1> HIDE DEF new, b
<1>2. ASSUME NEW i \in 1..Len(new), i \notin 1..n
      PROVE  /\ i - n \in 1..b /\ new[i] = replies[i - n] /\ new[i].role = "tool"
             /\ new[i].call = calls[i - n] /\ new[i].calls = <<>> /\ ~Calling(new[i])
  <2>1. i - n \in 1..b /\ n + (i - n) = i
    BY <1>1, <1>2
  <2>2. new[i] = replies[i - n]
    BY <1>1, <2>1
  <2>3. replies[i - n].role = "tool" /\ replies[i - n].call = calls[i - n] /\ replies[i - n].calls = <<>>
    BY <2>1 DEF b, AreRepliesTo
  <2> QED BY <2>1, <2>2, <2>3 DEF Calling
<1>3. NamesCalls(new, ts)
  <2>1. ASSUME NEW i \in 1..Len(new)
        PROVE  /\ new[i].role = "tool" => new[i].call \in 1..Len(ts)
               /\ \A k \in 1..Len(new[i].calls) : new[i].calls[k] \in 1..Len(ts)
    <3>1. CASE i \in 1..n
      BY <1>1, <3>1 DEF NamesCalls
    <3>2. CASE i \notin 1..n
      <4>1. i - n \in 1..b /\ new[i].call = calls[i - n] /\ new[i].calls = <<>>
        BY <1>2, <3>2
      <4>2. calls[i - n] \in 1..Len(ts)
        BY <4>1 DEF b, AreRepliesTo
      <4> QED BY <4>1, <4>2
    <3> QED BY <3>1, <3>2
  <2> QED BY <2>1 DEF NamesCalls
<1>4. RepliesComeLater(new)
  <2>1. ASSUME NEW i \in 1..Len(new), NEW j \in 1..Len(new), Calling(new[i]), new[j].role = "tool",
               NEW k \in 1..Len(new[i].calls), new[j].call = new[i].calls[k]
        PROVE  i < j
    <3>1. i \in 1..n /\ new[i] = ms[i]
      BY <1>1, <1>2, <2>1
    <3>2. CASE j \in 1..n
      BY <1>1, <2>1, <3>1, <3>2 DEF RepliesComeLater
    <3>3. CASE j \notin 1..n
      BY <1>1, <3>1, <3>3
    <3> QED BY <3>2, <3>3
  <2> QED BY <2>1 DEF RepliesComeLater
<1>5. ASSUME Answered(ms, TRUE), Len(ms) = 0 \/ ~Calling(ms[Len(ms)]) \/ calls = ms[Len(ms)].calls
      PROVE  Answered(new, FALSE)
  <2>1. ASSUME NEW i \in 1..Len(new), Calling(new[i]) PROVE Replied(new, i)
    <3>1. i \in 1..n /\ new[i] = ms[i]
      BY <1>1, <1>2, <2>1
    <3>2. CASE Replied(ms, i)
      <4>1. n <= Len(new)
        BY <1>1
      <4> QED BY <1>1, <3>1, <3>2, <4>1, RepliesStay
    <3>3. CASE ~Replied(ms, i)
      <4>1. i = n
        BY <1>5, <2>1, <3>1, <3>3 DEF Answered
      <4>2. n # 0 /\ Calling(ms[n])
        BY <2>1, <3>1, <4>1
      <4>3. new[i].calls = calls
        BY <1>5, <3>1, <4>1, <4>2
      <4>4. ASSUME NEW k \in 1..b
            PROVE  i + k <= Len(new) /\ new[i + k].role = "tool" /\ new[i + k].call = calls[k]
        <5>1. i + k <= Len(new)
          BY <1>1, <4>1
        <5>2. new[i + k] = replies[k]
          BY <1>1, <4>1
        <5>3. replies[k].role = "tool" /\ replies[k].call = calls[k]
          BY DEF b, AreRepliesTo
        <5> QED BY <5>1, <5>2, <5>3
      <4> QED BY <4>3, <4>4 DEF Replied, b
    <3> QED BY <3>2, <3>3
  <2> QED BY <2>1 DEF Answered
<1> QED BY <1>1, <1>3, <1>4, <1>5 DEF new

LEMMA BatchIsNoted ==
    ASSUME WindowInv, AppendToolResults
    PROVE  WindowInv'
<1> DEFINE calls == Unanswered
           n == Len(messages)
           b == Len(calls)
<1>1. PICK outcome \in [Range(calls) -> {"long", "short", "same", "error"}] :
          /\ messages' = messages \o [k \in DOMAIN calls |-> ReplyTo(calls[k],
                 Squeezed(calls, [l \in DOMAIN calls |-> Paged(calls[l], outcome[calls[l]])])[k])]
          /\ reads' = reads \o Observed(calls, outcome)
  BY DEF AppendToolResults
<1>2. ran' = ran \cup Range(calls) /\ tools' = tools /\ left' = left /\ loopAt' = "top" /\ loopAt = "batch"
  BY DEF AppendToolResults
<1>3. /\ messages \in Seq(Texts) /\ tools \in Seq(Tools) /\ reads \in Seq(Nat) /\ left \in BOOLEAN
      /\ NamesCalls(messages, tools) /\ RepliesComeLater(messages)
      /\ LastReadIsNoted(messages, tools, reads, ran)
      /\ ~left => Answered(messages, TRUE)
  BY <1>2 DEF WindowInv
<1>4. calls \in Seq(Nat) /\ \A k \in 1..b : calls[k] \in 1..Len(tools)
  BY UnansweredWereMade
<1>5. ~left => (n = 0 \/ ~Calling(messages[n]) \/ calls = messages[n].calls)
  BY WhoWaits
<1>6. DOMAIN calls = 1..b /\ b \in Nat
  BY <1>4
<1> DEFINE before == [l \in DOMAIN calls |-> Paged(calls[l], outcome[calls[l]])]
           after == Squeezed(calls, before)
           replies == [k \in 1..b |-> ReplyTo(calls[k], after[k])]
           noted == Observed(calls, outcome)
<1>a. messages' = messages \o replies /\ reads' = reads \o noted
  BY <1>1, <1>6
<1>b. calls = Unanswered
  OBVIOUS
<1> HIDE DEF calls
<1>7. /\ after \in [1..b -> Forms]
      /\ \A k \in 1..b : outcome[calls[k]] \in {"error", "same"} => after[k] \in {"error", "same", "omitted"}
      /\ \A k \in 1..b : after[k] \in {"error", "same"} => outcome[calls[k]] \in {"error", "same"}
  BY <1>4, ErrorsAreSeen
<1> HIDE DEF after
<1>8. /\ replies \in Seq(Texts) /\ Len(replies) = b
      /\ \A k \in 1..b : /\ replies[k].role = "tool" /\ replies[k].call = calls[k]
                         /\ replies[k].calls = <<>> /\ replies[k].form = after[k]
  <2>1. ASSUME NEW k \in 1..b
        PROVE  /\ ReplyTo(calls[k], after[k]) \in Texts
               /\ ReplyTo(calls[k], after[k]).role = "tool" /\ ReplyTo(calls[k], after[k]).call = calls[k]
               /\ ReplyTo(calls[k], after[k]).calls = <<>> /\ ReplyTo(calls[k], after[k]).form = after[k]
    <3>1. calls[k] \in Nat /\ after[k] \in Forms
      BY <1>4, <1>7
    <3> QED BY <3>1, RemarksAreTexts
  <2> HIDE DEF b
  <2>2. replies \in Seq(Texts) /\ Len(replies) = b
    BY <1>6, <2>1
  <2> QED BY <2>1, <2>2
<1>9. /\ noted \in Seq(Nat)
      /\ (\A k \in 1..b : tools[calls[k]] = "read" => outcome[calls[k]] \in {"error", "same"}) => noted = <<>>
      /\ \A k \in 1..b :
            (/\ tools[calls[k]] = "read" /\ outcome[calls[k]] \notin {"error", "same"}
             /\ \A l \in 1..b : l > k /\ tools[calls[l]] = "read" => outcome[calls[l]] \in {"error", "same"})
            => Len(noted) >= 1 /\ noted[Len(noted)] = calls[k]
  BY <1>4, ObservedReads
<1> HIDE DEF replies, noted
<1>d. AreRepliesTo(replies, calls, tools)
  BY <1>4, <1>8 DEF AreRepliesTo
<1>10. /\ messages' \in Seq(Texts) /\ NamesCalls(messages', tools) /\ RepliesComeLater(messages')
       /\ ~left => Answered(messages', FALSE)
  BY <1>a, <1>d, <1>3, <1>4, <1>5, <1>8, RepliesAreAdded
<1>11. reads' \in Seq(Nat)
  BY <1>a, <1>3, <1>9
<1>12. /\ Len(messages') = n + b /\ n \in Nat
       /\ \A i \in 1..n : messages'[i] = messages[i]
       /\ \A k \in 1..b : messages'[n + k] = replies[k]
  <2> HIDE DEF b
  <2>1. /\ messages \o replies \in Seq(Texts) /\ Len(messages \o replies) = Len(messages) + Len(replies)
        /\ \A i \in 1..Len(messages) : (messages \o replies)[i] = messages[i]
        /\ \A k \in 1..Len(replies) : (messages \o replies)[Len(messages) + k] = replies[k]
    BY <1>3, <1>8, Joined
  <2>2. Len(messages) \in Nat
    BY <1>3
  <2>0. Len(replies) = b /\ messages' = messages \o replies
    BY <1>a, <1>8
  <2>3. n = Len(messages)
    OBVIOUS
  <2> HIDE DEF n
  <2> QED BY <2>0, <2>1, <2>2, <2>3
<1> DEFINE new == messages'
<1>c. /\ Len(new) = n + b
      /\ \A i \in 1..n : new[i] = messages[i]
      /\ \A k \in 1..b : new[n + k] = replies[k]
  BY <1>12
<1> HIDE DEF new
<1>13. ASSUME NEW i \in 1..Len(new), IsLastRead(new, tools, ran', i)
       PROVE  Len(reads') >= 1 /\ reads'[Len(reads')] = new[i].call
  <2>0. /\ new[i].role = "tool" /\ tools[new[i].call] = "read" /\ new[i].call \in ran'
        /\ new[i].form \notin {"error", "same", "omitted", "pruned"}
        /\ \A j \in 1..Len(new) :
              (new[j].role = "tool" /\ j > i /\ tools[new[j].call] = "read") => new[j].form \in {"error", "same"}
    BY <1>13 DEF IsLastRead
  <2>1. CASE i \in 1..n
    <3>1. ASSUME NEW k \in 1..b, tools[calls[k]] = "read" PROVE outcome[calls[k]] \in {"error", "same"}
      <4>1. n + k \in 1..Len(new) /\ n + k > i
        BY <1>c, <1>6, <1>12, <2>1
      <4>2. new[n + k].role = "tool" /\ new[n + k].call = calls[k] /\ new[n + k].form = after[k]
        BY <1>c, <1>8
      <4>3. after[k] \in {"error", "same"}
        BY <2>0, <3>1, <4>1, <4>2
      <4> QED BY <1>7, <4>3
    <3>2. noted = <<>>
      BY <1>9, <3>1
    <3>3. reads' = reads
      BY <1>a, <1>3, <3>2
    <3>4. new[i].call \in ran
      <4>1. new[i].role = "tool" /\ new[i] = messages[i]
        BY <1>c, <2>0, <2>1
      <4>2. new[i].call \notin Range(calls)
        <5> SUFFICES ASSUME NEW k \in 1..b, messages[i].call = calls[k] PROVE FALSE
          BY <1>6, <4>1 DEF Range
        <5>1. ~HasReply(messages, calls[k])
          BY <1>b, NotYetReplied
        <5> QED BY <2>1, <2>0, <4>1, <5>1 DEF HasReply
      <4> QED BY <1>2, <2>0, <4>2
    <3>5. 1..n \subseteq 1..Len(new)
      BY <1>c, <1>6, <1>12
    <3>6. IsLastRead(messages, tools, ran, i)
      BY <1>c, <2>0, <2>1, <3>4, <3>5 DEF IsLastRead
    <3> QED BY <1>c, <1>3, <2>1, <3>3, <3>6 DEF LastReadIsNoted
  <2>2. CASE i \notin 1..n
    <3> DEFINE k == i - n
    <3>1. k \in 1..b /\ i = n + k /\ k \in Nat
      BY <1>c, <1>6, <1>12, <2>2
    <3> HIDE DEF k
    <3>2. new[i].call = calls[k] /\ new[i].form = after[k]
      BY <1>c, <1>8, <3>1
    <3>3. tools[calls[k]] = "read" /\ outcome[calls[k]] \notin {"error", "same"}
      BY <1>7, <2>0, <3>1, <3>2
    <3>4. ASSUME NEW l \in 1..b, l > k, tools[calls[l]] = "read" PROVE outcome[calls[l]] \in {"error", "same"}
      <4>1. n + l \in 1..Len(new) /\ n + l > i
        BY <1>c, <1>6, <1>12, <3>1, <3>4
      <4>2. new[n + l].role = "tool" /\ new[n + l].call = calls[l] /\ new[n + l].form = after[l]
        BY <1>c, <1>8
      <4>3. after[l] \in {"error", "same"}
        BY <2>0, <3>4, <4>1, <4>2
      <4> QED BY <1>7, <4>3
    <3>5. Len(noted) >= 1 /\ noted[Len(noted)] = calls[k]
      BY <1>9, <3>1, <3>3, <3>4
    <3>6. Len(reads') = Len(reads) + Len(noted) /\ Len(reads) \in Nat /\ Len(noted) \in Nat
          /\ \A q \in 1..Len(noted) : reads'[Len(reads) + q] = noted[q]
      BY <1>a, <1>3, <1>9
    <3>7. Len(noted) \in 1..Len(noted)
      BY <3>5, <3>6
    <3> QED BY <3>2, <3>5, <3>6, <3>7
  <2> QED BY <2>1, <2>2
<1>14. LastReadIsNoted(messages', tools, reads', ran')
  BY <1>13 DEF LastReadIsNoted, new
<1>15. left' \in BOOLEAN /\ tools' \in Seq(Tools) /\ loopAt' \notin {"idle", "ready"}
  BY <1>2, <1>3
<1>16. ~left' => Answered(messages', TRUE)
  BY <1>2, <1>10, WaitingOrNot
<1>17. NamesCalls(messages', tools') /\ LastReadIsNoted(messages', tools', reads', ran')
  BY <1>2, <1>10, <1>14
<1>18. WholeBatch(messages')
  <2>1. messages' = messages \o replies /\ calls = Unanswered
    BY <1>a, <1>b
  <2>2. \A k \in 1..Len(calls) :
           replies[k].role = "tool" /\ replies[k].call = calls[k] /\ replies[k].calls = <<>>
    BY <1>8
  <2>3. replies \in Seq(Texts) /\ Len(replies) = Len(calls)
    BY <1>8
  <2>4. WholeBatch(messages \o replies)
    <3> HIDE DEF n, b
    <3> QED BY <2>1, <2>2, <2>3, RepliedIsWhole
  <2> QED BY <2>1, <2>4
<1> QED BY <1>10, <1>11, <1>15, <1>16, <1>17, <1>18 DEF WindowInv

LEMMA WindowStarts == WindowInit => WindowInv
<1> SUFFICES ASSUME WindowInit PROVE WindowInv
  OBVIOUS
<1>1. messages = <<>> /\ tools = <<>> /\ reads = <<>> /\ left = FALSE
  BY DEF WindowInit
<1>2. messages \in Seq(Texts) /\ tools \in Seq(Tools) /\ reads \in Seq(Nat) /\ left \in BOOLEAN
  <2>1. <<>> \in Seq(Texts) /\ <<>> \in Seq(Tools) /\ <<>> \in Seq(Nat)
    OBVIOUS
  <2> QED BY <1>1, <2>1
<1>3. 1..Len(messages) = {}
  BY <1>1
<1>4. NamesCalls(messages, tools)
  BY <1>3 DEF NamesCalls
<1>5. Answered(messages, loopAt \notin {"idle", "ready"})
  BY <1>3 DEF Answered
<1>6. RepliesComeLater(messages)
  BY <1>3 DEF RepliesComeLater
<1>7. LastReadIsNoted(messages, tools, reads, ran)
  BY <1>3 DEF LastReadIsNoted
<1>8. WholeBatch(messages)
  BY <1>3 DEF WholeBatch
<1> QED BY <1>2, <1>4, <1>5, <1>6, <1>7, <1>8 DEF WindowInv

(* Nothing has run yet, so nothing has been read.                           *)
LEMMA NothingRan ==
    ASSUME NEW ms, NEW ts, NEW rs
    PROVE  LastReadIsNoted(ms, ts, rs, {})
BY DEF LastReadIsNoted, IsLastRead

LEMMA WindowSteps == WindowInv /\ [WindowNext]_windowVars => WindowInv'
<1> SUFFICES ASSUME WindowInv, [WindowNext]_windowVars PROVE WindowInv'
  OBVIOUS
<1>t. /\ messages \in Seq(Texts) /\ tools \in Seq(Tools) /\ reads \in Seq(Nat) /\ left \in BOOLEAN
      /\ NamesCalls(messages, tools) /\ RepliesComeLater(messages)
      /\ LastReadIsNoted(messages, tools, reads, ran) /\ WholeBatch(messages)
  BY DEF WindowInv
<1>a. ~left /\ loopAt \in {"idle", "ready"} => Answered(messages, FALSE)
  BY DEF WindowInv
<1>b. ~left => Answered(messages, TRUE)
  <2>1. ~left /\ loopAt \notin {"idle", "ready"} => Answered(messages, TRUE)
    BY DEF WindowInv
  <2> QED BY <1>a, <1>t, <2>1, WaitingOrNot
<1>1. CASE UserPrompt
  <2>1. /\ messages' = Append(messages, User) /\ tools' = tools /\ left' = left
        /\ reads' = <<>> /\ ran' = {} /\ loopAt = "idle" /\ loopAt' = "top"
    BY <1>1 DEF UserPrompt, StartWindowRun
  <2>2. IsRemark(User)
    BY RemarksAreTexts
  <2>3. /\ messages' \in Seq(Texts) /\ NamesCalls(messages', tools)
        /\ Answered(messages, FALSE) => Answered(messages', FALSE)
        /\ RepliesComeLater(messages')
    BY <1>t, <2>1, <2>2, RemarkIsAdded
  <2>4. ~left => Answered(messages', TRUE)
    BY <1>a, <2>1, <2>3, WaitingOrNot
  <2>5. LastReadIsNoted(messages', tools, <<>>, {})
    BY NothingRan
  <2>6. <<>> \in Seq(Nat)
    OBVIOUS
  <2>7. WholeBatch(messages')
    BY <1>t, <2>1, <2>2, RemarkKeepsBatch
  <2> QED BY <1>t, <2>1, <2>3, <2>4, <2>5, <2>6, <2>7 DEF WindowInv
<1>2. CASE StopRun
  <2>1. /\ messages' = messages /\ tools' = tools /\ reads' = reads /\ ran' = ran
        /\ loopAt' = "idle" /\ left' = (left \/ Unanswered # <<>>)
    BY <1>2 DEF StopRun
  <2>2. ~left' => Answered(messages, FALSE)
    <3> SUFFICES ASSUME ~left' PROVE Answered(messages, FALSE)
      OBVIOUS
    <3>1. ~left /\ Unanswered = <<>>
      BY <2>1
    <3>2. Len(messages) = 0 \/ ~Calling(messages[Len(messages)])
      BY <3>1, WhoWaits
    <3> QED BY <1>b, <1>t, <3>1, <3>2, WaitingOrNot
  <2>3. left' \in BOOLEAN
    BY <2>1
  <2> QED BY <1>t, <2>1, <2>2, <2>3 DEF WindowInv
<1>3. CASE AppendToolResults
  BY <1>3, BatchIsNoted
<1>4. CASE AskApproval
  <2>1. /\ messages' = messages /\ tools' = tools /\ reads' = reads /\ ran' = ran /\ left' = left
        /\ loopAt' = "asking"
    BY <1>4 DEF AskApproval
  <2> QED BY <1>b, <1>t, <2>1 DEF WindowInv
<1>5. CASE Rerun
  <2>1. /\ messages' = messages /\ tools' = tools /\ reads' = reads /\ ran' = {} /\ left' = left
        /\ loopAt' = "top"
    BY <1>5 DEF Rerun, StartWindowRun
  <2>2. LastReadIsNoted(messages, tools, reads, {})
    BY NothingRan
  <2> QED BY <1>b, <1>t, <2>1, <2>2 DEF WindowInv
<1>6. CASE BeginWindowTurn
  <2>1. /\ messages' = Prune /\ tools' = tools /\ reads' = reads /\ ran' = ran /\ left' = left
        /\ loopAt' = IF Unanswered # <<>> THEN "batch" ELSE "ready"
    BY <1>6 DEF BeginWindowTurn
  <2>2. /\ messages' \in Seq(Texts) /\ NamesCalls(messages', tools)
        /\ Answered(messages, TRUE) => Answered(messages', TRUE)
        /\ Answered(messages, FALSE) => Answered(messages', FALSE)
        /\ RepliesComeLater(messages')
        /\ LastReadIsNoted(messages', tools, reads, ran)
        /\ WholeBatch(messages')
    <3>1. /\ Prune \in Seq(Texts) /\ Len(Prune) = Len(messages)
          /\ \A i \in 1..Len(messages) :
                /\ Prune[i].role = messages[i].role /\ Prune[i].calls = messages[i].calls
                /\ Prune[i].call = messages[i].call
                /\ Prune[i].form = messages[i].form \/ Prune[i].form = "pruned"
      BY <1>t, PruneReplacesTexts
    <3> DEFINE new == Prune
    <3>2. /\ new \in Seq(Texts) /\ Len(new) = Len(messages)
          /\ \A i \in 1..Len(messages) :
                /\ new[i].role = messages[i].role /\ new[i].calls = messages[i].calls
                /\ new[i].call = messages[i].call
                /\ new[i].form = messages[i].form \/ new[i].form = "pruned"
      BY <3>1
    <3> HIDE DEF new
    <3>3. /\ NamesCalls(messages, tools) => NamesCalls(new, tools)
          /\ Answered(messages, TRUE) => Answered(new, TRUE)
          /\ Answered(messages, FALSE) => Answered(new, FALSE)
          /\ RepliesComeLater(messages) => RepliesComeLater(new)
          /\ LastReadIsNoted(messages, tools, reads, ran) => LastReadIsNoted(new, tools, reads, ran)
      BY <1>t, <3>2, PruneKeepsOrder
    <3>4. messages' = new
      BY <2>1 DEF new
    <3>5. WholeBatch(new)
      BY <1>t, <3>2, PlacesKeepBatch
    <3> QED BY <1>t, <3>2, <3>3, <3>4, <3>5
  <2>3. CASE Unanswered # <<>>
    <3>1. loopAt' = "batch"
      BY <2>1, <2>3
    <3> QED BY <1>b, <1>t, <2>1, <2>2, <3>1 DEF WindowInv
  <2>4. CASE Unanswered = <<>>
    <3>1. loopAt' = "ready"
      BY <2>1, <2>4
    <3>2. Len(messages) = 0 \/ ~Calling(messages[Len(messages)])
      BY <2>4, WhoWaits
    <3>3. ~left => Answered(messages, FALSE)
      BY <1>b, <1>t, <3>2, WaitingOrNot
    <3>4. ~left => Answered(messages', FALSE)
      BY <2>2, <3>3
    <3> QED BY <1>t, <2>1, <2>2, <3>1, <3>4 DEF WindowInv
  <2> QED BY <2>3, <2>4
<1>7. CASE AutoSearch
  <2>1. /\ messages' = Append(messages, System) /\ tools' = tools /\ left' = left
        /\ reads' = reads /\ ran' = ran /\ loopAt = "ready" /\ loopAt' = "ready"
    BY <1>7 DEF AutoSearch
  <2>2. IsRemark(System)
    BY RemarksAreTexts
  <2>3. /\ messages' \in Seq(Texts) /\ NamesCalls(messages', tools)
        /\ Answered(messages, FALSE) => Answered(messages', FALSE)
        /\ RepliesComeLater(messages')
        /\ LastReadIsNoted(messages', tools, reads, ran)
    BY <1>t, <2>1, <2>2, RemarkIsAdded
  <2>4. ~left => Answered(messages', FALSE)
    BY <1>a, <2>1, <2>3
  <2>5. WholeBatch(messages')
    BY <1>t, <2>1, <2>2, RemarkKeepsBatch
  <2> QED BY <1>t, <2>1, <2>3, <2>4, <2>5 DEF WindowInv
<1>8. CASE ModelSays
  <2>1. /\ messages' = Append(messages, Says(<<>>)) /\ tools' = tools /\ left' = left
        /\ reads' = reads /\ ran' = ran /\ loopAt = "ready" /\ loopAt' = "idle"
    BY <1>8 DEF ModelSays
  <2>2. IsRemark(Says(<<>>))
    BY RemarksAreTexts
  <2>3. /\ messages' \in Seq(Texts) /\ NamesCalls(messages', tools)
        /\ Answered(messages, FALSE) => Answered(messages', FALSE)
        /\ RepliesComeLater(messages')
        /\ LastReadIsNoted(messages', tools, reads, ran)
    BY <1>t, <2>1, <2>2, RemarkIsAdded
  <2>4. ~left => Answered(messages', FALSE)
    BY <1>a, <2>1, <2>3
  <2>5. WholeBatch(messages')
    BY <1>t, <2>1, <2>2, RemarkKeepsBatch
  <2> QED BY <1>t, <2>1, <2>3, <2>4, <2>5 DEF WindowInv
<1>9. ASSUME NEW kinds \in Batches, ModelAsksFor(kinds) \/ ModelRepeats(kinds)
      PROVE  WindowInv'
  <2> DEFINE m == Says(NewCalls(Len(kinds)))
             new == Append(messages, m)
  <2>1. /\ kinds \in Seq(Tools)
        /\ NewCalls(Len(kinds)) \in Seq(Nat) /\ Len(NewCalls(Len(kinds))) = Len(kinds)
        /\ \A k \in 1..Len(kinds) : NewCalls(Len(kinds))[k] = Len(tools) + k
    BY <1>t, NewCallsAreFresh
  <2>2. m \in Texts /\ m.role = "assistant" /\ m.calls = NewCalls(Len(kinds))
    BY <2>1, RemarksAreTexts
  <2>3. Len(m.calls) = Len(kinds) /\ \A k \in 1..Len(kinds) : m.calls[k] = Len(tools) + k
    BY <2>1, <2>2
  <2> HIDE DEF m
  <2>4. /\ new \in Seq(Texts)
        /\ NamesCalls(new, tools \o kinds)
        /\ Answered(messages, FALSE) => Answered(new, TRUE)
        /\ RepliesComeLater(new)
        /\ LastReadIsNoted(new, tools \o kinds, reads, ran)
    BY <1>t, <2>1, <2>2, <2>3, CallsAreAsked
  <2>8. WholeBatch(new)
    <3>1. Len(kinds) >= 1
      BY <2>1 DEF Batches
    <3>2. Calling(m) /\ \A k \in 1..Len(m.calls) : m.calls[k] = Len(tools) + k
      BY <2>2, <2>3, <3>1 DEF Calling
    <3> HIDE DEF new
    <3>3. WholeBatch(Append(messages, m))
      BY <1>t, <2>2, <3>2, AskedIsWhole
    <3> QED BY <3>3 DEF new
  <2>5. tools \o kinds \in Seq(Tools)
    BY <1>t, <2>1
  <2> HIDE DEF new
  <2>6. CASE ModelAsksFor(kinds)
    <3>1. /\ messages' = new /\ tools' = tools \o kinds /\ left' = left
          /\ reads' = reads /\ ran' = ran /\ loopAt = "ready" /\ loopAt' = "batch"
      BY <2>6 DEF ModelAsksFor, new, m
    <3>2. ~left' => Answered(messages', TRUE)
      BY <1>a, <2>4, <3>1
    <3> QED BY <1>t, <2>4, <2>5, <2>8, <3>1, <3>2 DEF WindowInv
  <2>7. CASE ModelRepeats(kinds)
    <3>1. /\ messages' = messages \o <<m, Says(<<>>)>> /\ tools' = tools \o kinds /\ left' = TRUE
          /\ reads' = reads /\ ran' = ran
      BY <2>7 DEF ModelRepeats, m
    <3>2. IsRemark(Says(<<>>))
      BY RemarksAreTexts
    <3> DEFINE last == Says(<<>>)
    <3>3. messages \o <<m, last>> = Append(new, last)
      <4>1. last \in Texts
        BY <3>2 DEF IsRemark
      <4> HIDE DEF last
      <4> QED BY <1>t, <2>2, <4>1 DEF new
    <3>4. /\ messages' \in Seq(Texts) /\ NamesCalls(messages', tools \o kinds)
          /\ RepliesComeLater(messages')
          /\ LastReadIsNoted(messages', tools \o kinds, reads, ran) /\ WholeBatch(messages')
      <4> HIDE DEF last
      <4>1. IsRemark(last) /\ messages' = Append(new, last)
        BY <3>1, <3>2, <3>3 DEF last
      <4>2. WholeBatch(messages')
        BY <2>4, <2>8, <4>1, RemarkKeepsBatch
      <4> QED BY <2>4, <4>1, <4>2, RemarkIsAdded
    <3> QED BY <1>t, <2>5, <3>1, <3>4 DEF WindowInv
  <2> QED BY <1>9, <2>6, <2>7
<1>10. CASE UNCHANGED windowVars
  <2>1. /\ messages' = messages /\ tools' = tools /\ reads' = reads /\ ran' = ran /\ left' = left
        /\ loopAt' = loopAt
    BY <1>10 DEF windowVars
  <2>2. ~left => Answered(messages, loopAt \notin {"idle", "ready"})
    BY DEF WindowInv
  <2> QED BY <1>t, <2>1, <2>2 DEF WindowInv
<1> QED BY <1>1, <1>2, <1>3, <1>4, <1>5, <1>6, <1>7, <1>8, <1>9, <1>10 DEF WindowNext

LEMMA WindowIsWhole == WindowInv => RequestIsWhole
<1> SUFFICES ASSUME WindowInv PROVE RequestIsWhole
  OBVIOUS
<1>t. messages \in Seq(Texts) /\ reads \in Seq(Nat) /\ LastReadIsNoted(messages, tools, reads, ran)
  BY DEF WindowInv
<1>1. ASSUME loopAt = "ready", ~left
      PROVE  /\ AnswersFollow(Window)
             /\ \A hits \in SUBSET DOMAIN Window : AnswersFollow(Shortlisted(Window, hits))
  <2>1. Answered(messages, FALSE)
    BY <1>1 DEF WindowInv
  <2>2. \A i \in 1..Len(messages) : Calling(messages[i]) => Replied(messages, i)
    BY <2>1 DEF Answered
  <2>3. AnswersFollow(messages)
    BY <1>t, <2>2, FollowsByPlace
  <2>4. Window \in Seq(Texts) /\ AnswersFollow(Window)
    BY <1>t, <2>3, TailIsAnswered DEF Window
  <2>5. \A hits \in SUBSET DOMAIN Window : AnswersFollow(Shortlisted(Window, hits))
    BY <2>4, ShortlistIsAnswered
  <2> QED BY <2>4, <2>5
<1>2. CallsAreAnswered
  BY <1>1 DEF CallsAreAnswered
<1>3. ASSUME IsCut, NEW i \in ToolMessages,
             tools[messages[i].call] = "read", messages[i].call \in ran,
             messages[i].form \notin {"error", "same", "omitted", "pruned"},
             \A j \in ToolMessages :
                j > i /\ tools[messages[j].call] = "read" => messages[j].form \in {"error", "same"}
      PROVE  messages[i].call \in RestoredFiles
  <2>1. \A j \in 1..Len(messages) : j \in ToolMessages <=> messages[j].role = "tool"
    BY <1>t DEF ToolMessages
  <2>2. i \in 1..Len(messages) /\ messages[i].role = "tool"
    BY <1>t, <1>3 DEF ToolMessages
  <2>3. IsLastRead(messages, tools, ran, i)
    BY <1>3, <2>1, <2>2 DEF IsLastRead
  <2>4. Len(reads) >= 1 /\ reads[Len(reads)] = messages[i].call
    BY <1>t, <2>2, <2>3 DEF LastReadIsNoted
  <2> DEFINE m == Min({RestoreMax, Len(reads)})
             shown == SubSeq(reads, Len(reads) - m + 1, Len(reads))
  <2>5. RestoreMax \in Nat /\ RestoreMax >= 1 /\ Len(reads) \in Nat
    BY <1>t, WindowAssumption
  <2>6. m \in Nat /\ m >= 1 /\ m <= Len(reads)
    <3>1. \E x \in {RestoreMax, Len(reads)} : \A y \in {RestoreMax, Len(reads)} : x <= y
      BY <2>5
    <3>2. m \in {RestoreMax, Len(reads)} /\ \A y \in {RestoreMax, Len(reads)} : m <= y
      BY <3>1 DEF Min
    <3> QED BY <2>4, <2>5, <3>2
  <2>7. RestoredFiles = Range(shown)
    BY <1>3 DEF RestoredFiles
  <2> HIDE DEF m
  <2>8. m \in DOMAIN shown /\ shown[m] = reads[Len(reads)]
    <3>1. Len(reads) - m + 1 \in Nat /\ Len(reads) - m + 1 >= 1
      BY <2>5, <2>6
    <3> DEFINE from == Len(reads) - m + 1
    <3>2. from + m - 1 = Len(reads) /\ Len(reads) - from + 1 = m /\ from \in Nat /\ from >= 1 /\ from <= Len(reads)
      BY <2>5, <2>6
    <3> HIDE DEF from
    <3>3. Len(SubSeq(reads, from, Len(reads))) = m /\ SubSeq(reads, from, Len(reads)) \in Seq(Nat)
      BY <1>t, <2>5, <3>2
    <3>4. SubSeq(reads, from, Len(reads))[m] = reads[Len(reads)]
      BY <1>t, <2>5, <2>6, <3>2, <3>3, SMTT(30)
    <3> QED BY <2>6, <3>3, <3>4 DEF from
  <2> QED BY <2>4, <2>7, <2>8 DEF Range
<1>4. LastReadIsRestored
  BY <1>3 DEF LastReadIsRestored
<1> QED BY <1>2, <1>4 DEF RequestIsWhole

(* Whatever the session loop prunes, pages, squeezes, restores or leaves    *)
(* out for want of a keyword (loop.py: _prepare_context), a request made    *)
(* before any batch was left has all replies of its calls, and one from     *)
(* which messages were cut has the last text that a read of this run        *)
(* returned, whatever reads failed or returned none since.                  *)
THEOREM RequestsAreWhole == WindowSpec => []RequestIsWhole
<1>1. WindowInv => RequestIsWhole
  BY WindowIsWhole
<1> QED BY WindowStarts, WindowSteps, <1>1, PTL DEF WindowSpec

=============================================================================
