---------------------------- MODULE FiguresProofs ----------------------------
(*****************************************************************************)
(* The theorems about figures: the ranking of themes after a day, the charts *)
(* of a stock and the live sectors, after lemmas about sums over finite sets *)
(* and places in an order, which the ledger of a portfolio needs as well. A  *)
(* behaviour of UserRequests about one of these subjects is one of the       *)
(* specification its part begins with.                                       *)
(*****************************************************************************)
EXTENDS IndustryStrength, Technicals, RealtimeStrength, FiniteSetTheorems,
        WellFoundedInduction, TLAPS

-----------------------------------------------------------------------------
(* A set of numbers that is not empty has a least element.                 *)
LEMMA LeastOfSome ==
  ASSUME NEW S \in SUBSET Nat, S # {}
  PROVE  \E m \in S : \A n \in S : m <= n
<1> DEFINE R == OpToRel(<, Nat)
<1>1. IsWellFoundedOn(OpToRel(<, Nat), Nat)
  BY NatLessThanWellFounded
<1>2. \A x, y \in Nat : x < y => <<x, y>> \in R
  BY DEF OpToRel
<1> HIDE DEF R
<1>3. PICK m \in S : \A n \in S : ~ (<<n, m>> \in R)
  BY <1>1, WFMin DEF R
<1>4. \A n \in S : ~ (n < m)
  BY <1>2, <1>3
<1> QED BY <1>4

(* One that is also finite has a greatest.                                 *)
LEMMA GreatestOfSome ==
  ASSUME NEW b \in Nat, NEW S \in SUBSET (0 .. b), S # {}
  PROVE  \E m \in S : \A n \in S : n <= m
<1> DEFINE T == {b - n : n \in S}
<1>1. T \in SUBSET Nat /\ T # {}
  <2>1. \A n \in S : b - n \in Nat
    OBVIOUS
  <2> QED BY <2>1
<1>2. PICK m \in T : \A n \in T : m <= n
  <2> HIDE DEF T
  <2> QED BY <1>1, LeastOfSome
<1>3. PICK k \in S : m = b - k
  BY <1>2
<1>4. \A n \in S : b - k <= b - n
  BY <1>2, <1>3
<1> QED BY <1>4

-----------------------------------------------------------------------------
(*****************************************************************************)
(* Sums over finite sets, reasoned about by induction along the parts of a   *)
(* set; and the places of the elements of a finite set in a strict order.    *)
(*****************************************************************************)
(* How a sum over the parts of a set is made, part by part.                *)
Sums(f, S, g) ==
    g = [s \in SUBSET S |-> IF s = {} THEN 0
                            ELSE f[CHOOSE x \in s : TRUE] + g[s \ {CHOOSE x \in s : TRUE}]]

NumberSums(f, S, g) == f \in [S -> Int] /\ g \in [SUBSET S -> Int] /\ Sums(f, S, g)

(* Where a sum can be made part by part, the library's sum is so made.     *)
LEMMA SumIs ==
  ASSUME NEW f, \E g : Sums(f, DOMAIN f, g)
  PROVE  \E g : Sums(f, DOMAIN f, g) /\ SumFunction(f) = g[DOMAIN f]
<1> DEFINE S == DOMAIN f
           h == CHOOSE g : g = [s \in SUBSET S |-> IF s = {} THEN 0
                            ELSE f[CHOOSE x \in s : TRUE] + g[s \ {CHOOSE x \in s : TRUE}]]
<1>1. SumFunction(f) = h[S]
  BY DEF SumFunction, SumFunctionOnSet, FoldFunctionOnSet, MapThenFoldSet
<1>2. Sums(f, S, h)
  BY DEF Sums
<1> QED
  BY <1>1, <1>2

(* Of some parts of a finite set, one contains no other.                   *)
LEMMA SmallestOfSome ==
  ASSUME NEW S, IsFiniteSet(S), NEW Sets \in SUBSET (SUBSET S), Sets # {}
  PROVE  \E s \in Sets : \A t \in Sets : t \subseteq s => t = s
<1> DEFINE R == StrictSubsetOrdering(S)
<1>0. IsWellFoundedOn(R, FiniteSubsetsOf(S)) /\ Sets \subseteq FiniteSubsetsOf(S)
  BY FS_StrictSubsetOrderingWellFounded, FS_Subset DEF FiniteSubsetsOf
<1> HIDE DEF R
<1>1. PICK s \in Sets : \A t \in Sets : ~ (<<t, s>> \in R)
  BY <1>0, WFMin
<1> QED
  BY <1>1 DEF StrictSubsetOrdering, R

(* Whole numbers over a finite set can be summed so.                       *)
LEMMA SumsExist ==
  ASSUME NEW S, IsFiniteSet(S), NEW f \in [S -> Int]
  PROVE  \E g \in [SUBSET S -> Int] : Sums(f, S, g)
<1> DEFINE Small(k) == {s \in SUBSET S : Cardinality(s) <= k}
           First(s) == CHOOSE x \in s : TRUE
           Good(k, g) == \A s \in Small(k) :
                           g[s] = IF s = {} THEN 0 ELSE f[First(s)] + g[s \ {First(s)}]
           Bad == {k \in Nat : ~ \E g \in [Small(k) -> Int] : Good(k, g)}
<1>1. \A s \in SUBSET S : IsFiniteSet(s) /\ Cardinality(s) \in Nat
  BY FS_Subset, FS_CardinalityType
<1>2. ASSUME NEW s \in SUBSET S, s # {}
      PROVE  /\ First(s) \in s /\ s \ {First(s)} \in SUBSET S
             /\ Cardinality(s \ {First(s)}) = Cardinality(s) - 1
  BY <1>1, <1>2, FS_RemoveElement
<1> HIDE DEF First
<1>3. Bad = {}
  <2> SUFFICES ASSUME Bad # {} PROVE FALSE
    OBVIOUS
  <2>1. PICK m \in Bad : \A n \in Bad : m <= n
    <3> HIDE DEF Bad
    <3>1. Bad \in SUBSET Nat
      BY DEF Bad
    <3> QED BY <3>1, LeastOfSome
  <2>2. m \in Nat
    OBVIOUS
  <2>3. CASE m = 0
    <3> DEFINE g == [s \in Small(0) |-> 0]
    <3>1. \A s \in Small(0) : s = {}
      BY <1>1, FS_EmptySet
    <3>2. g \in [Small(0) -> Int] /\ Good(0, g)
      BY <3>1
    <3> QED
      BY <2>3, <3>2
  <2>4. CASE m # 0
    <3>0. m - 1 \in Nat /\ ~ (m <= m - 1)
      BY <2>2, <2>4
    <3>1. m - 1 \in Nat /\ m - 1 \notin Bad
      <4> HIDE DEF Bad
      <4> QED BY <2>1, <3>0
    <3>2. PICK h \in [Small(m - 1) -> Int] : Good(m - 1, h)
      BY <3>1
    <3> DEFINE g == [s \in Small(m) |-> IF Cardinality(s) = m
                                        THEN f[First(s)] + h[s \ {First(s)}] ELSE h[s]]
    <3>3. ASSUME NEW s \in Small(m), Cardinality(s) = m
          PROVE  /\ s # {} /\ s \ {First(s)} \in Small(m - 1) /\ s \ {First(s)} \in Small(m)
                 /\ f[First(s)] \in Int /\ h[s \ {First(s)}] \in Int
                 /\ g[s] = f[First(s)] + h[s \ {First(s)}]
                 /\ g[s \ {First(s)}] = h[s \ {First(s)}]
      <4>1. s # {}
        BY <2>4, <3>3, FS_EmptySet
      <4>2. /\ First(s) \in s /\ s \ {First(s)} \in SUBSET S
            /\ Cardinality(s \ {First(s)}) = m - 1
        BY <1>2, <3>3, <4>1
      <4>3. s \ {First(s)} \in Small(m - 1) /\ s \ {First(s)} \in Small(m)
        BY <2>2, <4>2
      <4>4. Cardinality(s \ {First(s)}) # m
        BY <2>2, <4>2
      <4> HIDE DEF Small
      <4> QED
        BY <3>3, <4>1, <4>2, <4>3, <4>4 DEF Small
    <3>4. ASSUME NEW s \in Small(m), Cardinality(s) # m
          PROVE  /\ s \in Small(m - 1) /\ g[s] = h[s] /\ h[s] \in Int
                 /\ s # {} => /\ s \ {First(s)} \in Small(m - 1)
                              /\ s \ {First(s)} \in Small(m)
                              /\ g[s \ {First(s)}] = h[s \ {First(s)}]
      <4>1. Cardinality(s) \in Nat /\ Cardinality(s) <= m - 1
        BY <1>1, <2>2, <3>4
      <4>2. s \in Small(m - 1)
        BY <4>1
      <4>3. ASSUME s # {}
            PROVE  /\ s \ {First(s)} \in Small(m - 1) /\ s \ {First(s)} \in Small(m)
                   /\ Cardinality(s \ {First(s)}) # m
        BY <1>2, <2>2, <4>1, <4>3
      <4>4. g[s] = h[s] /\ h[s] \in Int
        BY <3>4, <4>2
      <4>5. ASSUME s # {} PROVE g[s \ {First(s)}] = h[s \ {First(s)}]
        BY <4>3, <4>5
      <4> QED
        BY <4>2, <4>3, <4>4, <4>5
    <3>5. g \in [Small(m) -> Int]
      <4> SUFFICES ASSUME NEW s \in Small(m) PROVE g[s] \in Int
        OBVIOUS
      <4> HIDE DEF g, Small
      <4>1. CASE Cardinality(s) = m
        <5>1. /\ f[First(s)] \in Int /\ h[s \ {First(s)}] \in Int
              /\ g[s] = f[First(s)] + h[s \ {First(s)}]
          BY <3>3, <4>1
        <5> QED BY <5>1
      <4>2. CASE Cardinality(s) # m
        BY <3>4, <4>2
      <4> QED
        BY <4>1, <4>2
    <3>6. Good(m, g)
      <4> SUFFICES ASSUME NEW s \in Small(m)
                   PROVE  g[s] = IF s = {} THEN 0 ELSE f[First(s)] + g[s \ {First(s)}]
        OBVIOUS
      <4> HIDE DEF g, Small
      <4>1. CASE Cardinality(s) = m
        BY <3>3, <4>1
      <4>2. CASE Cardinality(s) # m
        BY <3>2, <3>4, <4>2
      <4> QED
        BY <4>1, <4>2
    <3> QED
      BY <3>5, <3>6
  <2> QED
    BY <2>3, <2>4
<1> DEFINE k == Cardinality(S)
<1>4. k \in Nat /\ Small(k) = SUBSET S
  BY <1>1, FS_Subset
<1>5. PICK g \in [Small(k) -> Int] : Good(k, g)
  BY <1>3, <1>4
<1>6. g \in [SUBSET S -> Int]
  BY <1>4
<1>7. Sums(f, S, g)
  BY <1>4, <1>5, <1>6 DEF Sums, First
<1> QED
  BY <1>6, <1>7

(* A part is summed the same way, whatever set it is a part of.            *)
LEMMA SumsAgree ==
  ASSUME NEW S, IsFiniteSet(S), NEW T \in SUBSET S, NEW f, NEW e, \A x \in T : e[x] = f[x],
         NEW g, Sums(f, S, g), NEW h, Sums(e, T, h)
  PROVE  \A s \in SUBSET T : g[s] = h[s]
<1> DEFINE Bad == {s \in SUBSET T : g[s] # h[s]}
           First(s) == CHOOSE x \in s : TRUE
<1> SUFFICES ASSUME Bad # {} PROVE FALSE
  OBVIOUS
<1>1. PICK s \in Bad : \A t \in Bad : t \subseteq s => t = s
  <2> HIDE DEF Bad
  <2>1. Bad \in SUBSET (SUBSET S)
    BY DEF Bad
  <2> QED BY <2>1, SmallestOfSome
<1>2. s \in SUBSET T /\ s \in SUBSET S
  OBVIOUS
<1>3. g[s] = IF s = {} THEN 0 ELSE f[First(s)] + g[s \ {First(s)}]
  BY <1>2 DEF Sums
<1>4. h[s] = IF s = {} THEN 0 ELSE e[First(s)] + h[s \ {First(s)}]
  BY <1>2 DEF Sums
<1>5. s # {} /\ First(s) \in s
  BY <1>3, <1>4
<1>6. g[s \ {First(s)}] = h[s \ {First(s)}]
  <2>1. s \ {First(s)} \notin Bad
    BY <1>1, <1>5
  <2> QED BY <1>2, <2>1
<1>7. e[First(s)] = f[First(s)]
  BY <1>2, <1>5
<1> QED
  BY <1>3, <1>4, <1>6, <1>7

(* The element a part is taken apart at makes no difference.               *)
LEMMA SumsApart ==
  ASSUME NEW S, IsFiniteSet(S), NEW f, NEW g, NumberSums(f, S, g),
         NEW t \in SUBSET S, NEW z \in t
  PROVE  g[t] = f[z] + g[t \ {z}]
<1> DEFINE Bad == {s \in SUBSET S : \E x \in s : g[s] # f[x] + g[s \ {x}]}
<1> SUFFICES ASSUME Bad # {} PROVE FALSE
  OBVIOUS
<1>0. f \in [S -> Int] /\ g \in [SUBSET S -> Int] /\ Sums(f, S, g)
  BY DEF NumberSums
<1>1. PICK s \in Bad : \A u \in Bad : u \subseteq s => u = s
  <2> HIDE DEF Bad
  <2>1. Bad \in SUBSET (SUBSET S)
    BY DEF Bad
  <2> QED BY <2>1, SmallestOfSome
<1>2. s \in SUBSET S
  OBVIOUS
<1>3. PICK x \in s : g[s] # f[x] + g[s \ {x}]
  OBVIOUS
<1> DEFINE c == CHOOSE y \in s : TRUE
<1>4. c \in s /\ g[s] = f[c] + g[s \ {c}]
  BY <1>0, <1>2, <1>3 DEF Sums
<1> HIDE DEF c
<1>5. x # c
  BY <1>3, <1>4
<1>6. s \ {c} \notin Bad /\ s \ {x} \notin Bad
  BY <1>1, <1>4
<1>7. g[s \ {c}] = f[x] + g[(s \ {c}) \ {x}]
  BY <1>2, <1>5, <1>6
<1>8. g[s \ {x}] = f[c] + g[(s \ {x}) \ {c}]
  BY <1>2, <1>4, <1>5, <1>6
<1>9. (s \ {x}) \ {c} = (s \ {c}) \ {x} /\ (s \ {x}) \ {c} \in SUBSET S
  BY <1>2
<1>10. f[x] \in Int /\ f[c] \in Int /\ g[(s \ {x}) \ {c}] \in Int
  BY <1>0, <1>2, <1>4, <1>9
<1> DEFINE r == (s \ {c}) \ {x}
<1>11. /\ g[s] = f[c] + (f[x] + g[r]) /\ g[s \ {x}] = f[c] + g[r]
       /\ f[x] \in Int /\ f[c] \in Int /\ g[r] \in Int
  BY <1>4, <1>7, <1>8, <1>9, <1>10
<1> HIDE DEF r, Bad
<1> QED
  BY <1>3, <1>11

(* A sum over a finite set, and over the set without one of its elements.  *)
LEMMA SumOf ==
  ASSUME NEW S, IsFiniteSet(S), NEW f, f = [x \in S |-> f[x]], \A x \in S : f[x] \in Int
  PROVE  /\ SumFunction(f) \in Int
         /\ S = {} => SumFunction(f) = 0
         /\ \A x \in S : SumFunction(f) = f[x] + SumFunction([y \in S \ {x} |-> f[y]])
<1>0. f \in [S -> Int]
  OBVIOUS
<1>1. PICK g \in [SUBSET S -> Int] : Sums(f, S, g)
  BY <1>0, SumsExist
<1>2. ASSUME NEW T \in SUBSET S, NEW e, e = [y \in T |-> f[y]] PROVE SumFunction(e) = g[T]
  <2>1. IsFiniteSet(T) /\ e \in [T -> Int] /\ DOMAIN e = T
    BY <1>0, <1>2, FS_Subset
  <2>2. \E h : Sums(e, DOMAIN e, h)
    BY <2>1, SumsExist
  <2>3. PICK h : Sums(e, T, h) /\ SumFunction(e) = h[T]
    BY <2>1, <2>2, SumIs
  <2>4. \A x \in T : e[x] = f[x]
    BY <1>2
  <2>5. \A s \in SUBSET T : g[s] = h[s]
    BY <1>1, <2>3, <2>4, SumsAgree
  <2> QED
    BY <2>3, <2>5
<1>3. SumFunction(f) = g[S]
  BY <1>2
<1>4. S = {} => g[S] = 0
  BY <1>1 DEF Sums
<1>5. ASSUME NEW x \in S PROVE g[S] = f[x] + SumFunction([y \in S \ {x} |-> f[y]])
  <2>1. SumFunction([y \in S \ {x} |-> f[y]]) = g[S \ {x}]
    BY <1>2
  <2>2. S \in SUBSET S /\ NumberSums(f, S, g)
    BY <1>0, <1>1 DEF NumberSums
  <2>3. g[S] = f[x] + g[S \ {x}]
    BY <2>2, SumsApart
  <2> QED
    BY <2>1, <2>3
<1> QED
  BY <1>1, <1>3, <1>4, <1>5

(* The sum of the values of f on T.                                        *)
SumOver(f, T) == SumFunction([x \in T |-> f[x]])

(* Nothing sums to nothing, and each element adds its value.               *)
LEMMA SumOverIs ==
  ASSUME NEW S, IsFiniteSet(S), NEW f, \A x \in S : f[x] \in Int
  PROVE  /\ SumOver(f, S) \in Int
         /\ SumOver(f, {}) = 0
         /\ \A x \in S : SumOver(f, S) = f[x] + SumOver(f, S \ {x})
<1> DEFINE e == [x \in S |-> f[x]]
           none == [x \in {} |-> f[x]]
<1>1. /\ e = [x \in S |-> e[x]] /\ \A x \in S : e[x] \in Int
      /\ none = [x \in {} |-> none[x]] /\ IsFiniteSet({})
  BY FS_EmptySet
<1>2. SumFunction(e) \in Int /\ \A x \in S : SumFunction(e) = e[x] + SumFunction([y \in S \ {x} |-> e[y]])
  <2> HIDE DEF e
  <2> QED BY <1>1, SumOf
<1>3. SumFunction(none) = 0
  <2> HIDE DEF none
  <2> QED BY <1>1, SumOf
<1>4. ASSUME NEW x \in S PROVE e[x] = f[x] /\ [y \in S \ {x} |-> e[y]] = [y \in S \ {x} |-> f[y]]
  OBVIOUS
<1> QED
  BY <1>2, <1>3, <1>4 DEF SumOver

(* Sums of the same values are the same.                                   *)
LEMMA SameSum ==
  ASSUME NEW S, NEW f, NEW e, \A x \in S : f[x] = e[x]
  PROVE  SumOver(f, S) = SumOver(e, S)
<1>1. [x \in S |-> f[x]] = [x \in S |-> e[x]]
  OBVIOUS
<1> QED BY <1>1 DEF SumOver

(* The sum of differences is the difference of the sums.                   *)
LEMMA SumOfDifferences ==
  ASSUME NEW S, IsFiniteSet(S), NEW f, NEW e, NEW d,
         \A x \in S : f[x] \in Int /\ e[x] \in Int /\ d[x] = f[x] - e[x]
  PROVE  SumOver(d, S) = SumOver(f, S) - SumOver(e, S)
<1> DEFINE Bad == {T \in SUBSET S : SumOver(d, T) # SumOver(f, T) - SumOver(e, T)}
<1> SUFFICES ASSUME Bad # {} PROVE FALSE
  OBVIOUS
<1>1. PICK T \in Bad : \A U \in Bad : U \subseteq T => U = T
  <2> HIDE DEF Bad
  <2>1. Bad \in SUBSET (SUBSET S)
    BY DEF Bad
  <2> QED BY <2>1, SmallestOfSome
<1>2. T \in SUBSET S /\ IsFiniteSet(T)
  BY FS_Subset
<1>3. \A x \in T : f[x] \in Int /\ e[x] \in Int /\ d[x] \in Int
  BY <1>2
<1>4. T # {}
  <2>1. SumOver(d, {}) = 0 /\ SumOver(f, {}) = 0 /\ SumOver(e, {}) = 0
    BY <1>2, <1>3, SumOverIs
  <2>2. SumOver(d, T) # SumOver(f, T) - SumOver(e, T)
    OBVIOUS
  <2>3. 0 = 0 - 0
    OBVIOUS
  <2> HIDE DEF Bad
  <2> QED BY <2>1, <2>2, <2>3
<1>5. PICK x \in T : TRUE
  BY <1>4
<1>6. T \ {x} \notin Bad /\ IsFiniteSet(T \ {x})
  BY <1>1, <1>2, FS_Subset
<1>7. SumOver(d, T \ {x}) = SumOver(f, T \ {x}) - SumOver(e, T \ {x})
  BY <1>2, <1>6
<1>8. /\ SumOver(d, T) = d[x] + SumOver(d, T \ {x})
      /\ SumOver(f, T) = f[x] + SumOver(f, T \ {x})
      /\ SumOver(e, T) = e[x] + SumOver(e, T \ {x})
  BY <1>2, <1>3, SumOverIs, ZenonT(40)
<1>9. SumOver(f, T \ {x}) \in Int /\ SumOver(e, T \ {x}) \in Int
  BY <1>3, <1>6, SumOverIs
<1>10. d[x] = f[x] - e[x] /\ f[x] \in Int /\ e[x] \in Int
  BY <1>2
<1>11. SumOver(d, T) = SumOver(f, T) - SumOver(e, T)
  <2> HIDE DEF Bad
  <2> QED BY <1>7, <1>8, <1>9, <1>10
<1> QED
  BY <1>11

(* What is nothing can be left out of a sum.                               *)
LEMMA SumOfPart ==
  ASSUME NEW S, IsFiniteSet(S), NEW f, NEW T \in SUBSET S,
         \A x \in S : f[x] \in Int, \A x \in S \ T : f[x] = 0
  PROVE  SumOver(f, S) = SumOver(f, T)
<1> DEFINE Bad == {U \in SUBSET S : T \subseteq U /\ SumOver(f, U) # SumOver(f, T)}
<1> SUFFICES ASSUME Bad # {} PROVE FALSE
  OBVIOUS
<1>1. PICK U \in Bad : \A V \in Bad : V \subseteq U => V = U
  <2> HIDE DEF Bad
  <2>1. Bad \in SUBSET (SUBSET S)
    BY DEF Bad
  <2> QED BY <2>1, SmallestOfSome
<1>2. U \in SUBSET S /\ IsFiniteSet(U) /\ T \subseteq U /\ U # T
  BY FS_Subset
<1>3. PICK x \in U : x \notin T
  BY <1>2
<1>4. SumOver(f, U \ {x}) = SumOver(f, T)
  BY <1>1, <1>2, <1>3
<1>5. SumOver(f, U) = f[x] + SumOver(f, U \ {x}) /\ f[x] = 0
  BY <1>2, <1>3, SumOverIs
<1>6. SumOver(f, U \ {x}) \in Int
  BY <1>2, FS_Subset, SumOverIs
<1>7. SumOver(f, U) = SumOver(f, T)
  <2> HIDE DEF Bad
  <2> QED BY <1>4, <1>5, <1>6
<1> QED
  BY <1>7

(* One value changes.                                                      *)
LEMMA SumAfter ==
  ASSUME NEW S, IsFiniteSet(S), NEW f, NEW e, NEW x \in S,
         \A y \in S : f[y] \in Int /\ e[y] \in Int, \A y \in S \ {x} : e[y] = f[y]
  PROVE  SumOver(e, S) = SumOver(f, S) + (e[x] - f[x])
<1>1. SumOver(e, S) = e[x] + SumOver(e, S \ {x}) /\ SumOver(f, S) = f[x] + SumOver(f, S \ {x})
  BY SumOverIs
<1>2. SumOver(e, S \ {x}) = SumOver(f, S \ {x})
  BY SameSum
<1>3. SumOver(f, S \ {x}) \in Int
  BY FS_Subset, SumOverIs
<1>4. e[x] \in Int /\ f[x] \in Int
  OBVIOUS
<1> QED
  BY <1>1, <1>2, <1>3, <1>4

(* A sum of values that are at least b each.                               *)
LEMMA SumAtLeast ==
  ASSUME NEW S, IsFiniteSet(S), NEW f, NEW b \in Int, \A x \in S : f[x] \in Int /\ b <= f[x]
  PROVE  b * Cardinality(S) <= SumOver(f, S)
<1> DEFINE Bad == {T \in SUBSET S : ~ (b * Cardinality(T) <= SumOver(f, T))}
<1> SUFFICES ASSUME Bad # {} PROVE FALSE
  OBVIOUS
<1>1. PICK T \in Bad : \A U \in Bad : U \subseteq T => U = T
  <2> HIDE DEF Bad
  <2>1. Bad \in SUBSET (SUBSET S)
    BY DEF Bad
  <2> QED BY <2>1, SmallestOfSome
<1>2. T \in SUBSET S /\ IsFiniteSet(T) /\ ~ (b * Cardinality(T) <= SumOver(f, T))
  BY FS_Subset
<1>3. \A x \in T : f[x] \in Int
  BY <1>2
<1>4. T # {}
  <2>1. SumOver(f, {}) = 0 /\ Cardinality({}) = 0
    BY <1>2, <1>3, SumOverIs, FS_EmptySet
  <2>2. b * 0 <= 0
    OBVIOUS
  <2> HIDE DEF Bad
  <2> QED BY <1>2, <2>1, <2>2
<1>5. PICK x \in T : TRUE
  BY <1>4
<1>6. T \ {x} \notin Bad /\ IsFiniteSet(T \ {x}) /\ Cardinality(T \ {x}) = Cardinality(T) - 1
  BY <1>1, <1>2, FS_Subset, FS_RemoveElement
<1>7. b * Cardinality(T \ {x}) <= SumOver(f, T \ {x})
  BY <1>2, <1>6
<1>8. SumOver(f, T) = f[x] + SumOver(f, T \ {x}) /\ SumOver(f, T \ {x}) \in Int
  BY <1>2, <1>3, <1>6, SumOverIs
<1>9. f[x] \in Int /\ b <= f[x] /\ Cardinality(T) \in Nat
  BY <1>2, FS_CardinalityType
<1> DEFINE k == Cardinality(T)
<1>10. b * (k - 1) = b * k - b
  BY <1>9
<1> HIDE DEF Bad
<1> QED
  BY <1>2, <1>6, <1>7, <1>8, <1>9, <1>10

(* A sum can be scaled before or after it is made.                         *)
LEMMA SumOfScaled ==
  ASSUME NEW k \in Int, NEW S, IsFiniteSet(S), NEW f, NEW e,
         \A x \in S : f[x] \in Int /\ e[x] = k * f[x]
  PROVE  SumOver(e, S) = k * SumOver(f, S)
<1> DEFINE Bad == {T \in SUBSET S : SumOver(e, T) # k * SumOver(f, T)}
<1> SUFFICES ASSUME Bad # {} PROVE FALSE
  OBVIOUS
<1>1. PICK T \in Bad : \A U \in Bad : U \subseteq T => U = T
  <2> HIDE DEF Bad
  <2>1. Bad \in SUBSET (SUBSET S)
    BY DEF Bad
  <2> QED BY <2>1, SmallestOfSome
<1>2. T \in SUBSET S /\ IsFiniteSet(T) /\ SumOver(e, T) # k * SumOver(f, T)
  BY FS_Subset
<1>3. \A x \in T : f[x] \in Int /\ e[x] \in Int /\ e[x] = k * f[x]
  BY <1>2
<1>4. T # {}
  <2>1. SumOver(f, {}) = 0 /\ SumOver(e, {}) = 0
    BY <1>2, <1>3, SumOverIs
  <2>2. 0 = k * 0
    OBVIOUS
  <2> HIDE DEF Bad
  <2> QED BY <1>2, <2>1, <2>2
<1>5. PICK x \in T : TRUE
  BY <1>4
<1>6. T \ {x} \notin Bad /\ IsFiniteSet(T \ {x})
  BY <1>1, <1>2, FS_Subset
<1>7. SumOver(e, T \ {x}) = k * SumOver(f, T \ {x})
  BY <1>2, <1>6
<1>8. SumOver(f, T) = f[x] + SumOver(f, T \ {x}) /\ SumOver(e, T) = e[x] + SumOver(e, T \ {x})
  BY <1>2, <1>3, SumOverIs
<1>9. SumOver(f, T \ {x}) \in Int /\ f[x] \in Int /\ e[x] = k * f[x]
  BY <1>3, <1>6, SumOverIs
<1> DEFINE a == f[x]
           b == SumOver(f, T \ {x})
<1>10. k * (a + b) = k * a + k * b
  BY <1>9
<1> HIDE DEF Bad
<1> QED
  BY <1>2, <1>7, <1>8, <1>9, <1>10

(* The places of the elements of a finite set in a strict order of all.    *)
Line(D, R) ==
    /\ \A x \in D : <<x, x>> \notin R
    /\ \A x, y \in D : x = y \/ <<x, y>> \in R \/ <<y, x>> \in R
    /\ \A x, y, z \in D : <<x, y>> \in R /\ <<y, z>> \in R => <<x, z>> \in R
PlaceIn(D, R, x) == 1 + Cardinality({y \in D : <<y, x>> \in R})

LEMMA InALine ==
  ASSUME NEW D, IsFiniteSet(D), NEW R, Line(D, R),
         NEW place, place = [x \in D |-> PlaceIn(D, R, x)]
  PROVE  /\ Cardinality(D) \in Nat
         /\ \A x \in D : place[x] \in 1 .. Cardinality(D)
         /\ \A x, y \in D : <<x, y>> \in R => place[x] < place[y]
         /\ \A x, y \in D : place[x] = place[y] => x = y
         /\ {place[x] : x \in D} = 1 .. Cardinality(D)
<1> DEFINE Until(x) == {y \in D : <<y, x>> \in R}
           n == Cardinality(D)
<1>0. /\ \A x \in D : <<x, x>> \notin R
      /\ \A x, y \in D : x = y \/ <<x, y>> \in R \/ <<y, x>> \in R
      /\ \A x, y, z \in D : <<x, y>> \in R /\ <<y, z>> \in R => <<x, z>> \in R
  BY DEF Line
<1>1. n \in Nat
  BY FS_CardinalityType
<1>2. ASSUME NEW x \in D
      PROVE  /\ IsFiniteSet(Until(x)) /\ Cardinality(Until(x)) \in 0 .. n - 1
             /\ x \notin Until(x)
  <2>1. Until(x) \subseteq D \ {x}
    BY <1>0
  <2>2. IsFiniteSet(D \ {x}) /\ Cardinality(D \ {x}) = n - 1
    BY FS_RemoveElement
  <2> HIDE DEF Until
  <2>3. IsFiniteSet(Until(x)) /\ Cardinality(Until(x)) <= n - 1 /\ Cardinality(Until(x)) \in Nat
    BY <2>1, <2>2, FS_Subset, FS_CardinalityType
  <2> QED
    BY <1>1, <2>1, <2>3
<1>3. ASSUME NEW x \in D, NEW y \in D, <<x, y>> \in R
      PROVE  Cardinality(Until(x)) < Cardinality(Until(y))
  <2>1. Until(x) \cup {x} \subseteq Until(y)
    BY <1>0, <1>3
  <2> HIDE DEF Until
  <2>2. Cardinality(Until(x) \cup {x}) = Cardinality(Until(x)) + 1
    BY <1>2, FS_AddElement
  <2>3. Cardinality(Until(x) \cup {x}) <= Cardinality(Until(y))
    BY <1>2, <2>1, FS_Subset
  <2>4. Cardinality(Until(x)) \in Nat /\ Cardinality(Until(y)) \in Nat
    BY <1>2
  <2> QED
    BY <2>2, <2>3, <2>4
<1>4. \A x \in D : place[x] = 1 + Cardinality(Until(x))
  BY DEF PlaceIn
<1> HIDE DEF Until
<1>5. \A x \in D : place[x] \in 1 .. n
  BY <1>1, <1>2, <1>4
<1>6. \A x, y \in D : <<x, y>> \in R => place[x] < place[y]
  <2> SUFFICES ASSUME NEW x \in D, NEW y \in D, <<x, y>> \in R PROVE place[x] < place[y]
    OBVIOUS
  <2>1. Cardinality(Until(x)) \in Nat /\ Cardinality(Until(y)) \in Nat
    BY <1>2
  <2> QED
    BY <1>3, <1>4, <2>1
<1>7. \A x, y \in D : place[x] = place[y] => x = y
  <2> SUFFICES ASSUME NEW x \in D, NEW y \in D, place[x] = place[y] PROVE x = y
    OBVIOUS
  <2>1. place[x] \in Nat /\ place[y] \in Nat
    BY <1>1, <1>5
  <2>2. ~ (place[x] < place[y]) /\ ~ (place[y] < place[x])
    BY <2>1
  <2> QED
    BY <1>0, <1>6, <2>2
<1>8. place \in Injection(D, 1 .. n)
  BY <1>5, <1>7 DEF Injection, IsInjective
<1>9. IsFiniteSet(1 .. n) /\ Cardinality(1 .. n) = n
  BY <1>1, FS_Interval
<1>10. place \in Surjection(D, 1 .. n)
  BY <1>1, <1>8, <1>9, FS_Injection
<1>11. {place[x] : x \in D} = 1 .. n
  <2>1. place \in [D -> 1 .. n] /\ \A i \in 1 .. n : \E x \in D : place[x] = i
    BY <1>10 DEF Surjection
  <2>2. {place[x] : x \in D} \subseteq 1 .. n
    BY <1>5
  <2>3. 1 .. n \subseteq {place[x] : x \in D}
    BY <2>1
  <2> QED
    BY <2>2, <2>3
<1> QED
  BY <1>1, <1>5, <1>6, <1>7, <1>11

-----------------------------------------------------------------------------
(*****************************************************************************)
(* The ranking of themes, for any number of stocks and themes: rounding and  *)
(* percentiles keep the order of what is measured, the ranks are the places  *)
(* of the themes in the order of a calculation, and nothing else writes them.*)
(*****************************************************************************)
RankSpec == RInit /\ [][RankNext]_ranking

(* Rounding keeps the order of what is rounded.                            *)
LEMMA HalfUpGrows ==
  ASSUME NEW a \in Nat, NEW b \in Nat, a <= b, NEW d \in Nat, d > 0
  PROVE  HalfUp(a, d) \in Nat /\ HalfUp(a, d) <= HalfUp(b, d)
<1> DEFINE e == 2 * d
           x == 2 * a + d
           y == 2 * b + d
<1>1. e \in Nat /\ e > 0 /\ x \in Nat /\ y \in Nat /\ x <= y
  OBVIOUS
<1>2. HalfUp(a, d) = x \div e /\ HalfUp(b, d) = y \div e
  BY DEF HalfUp
<1> HIDE DEF e, x, y
<1>3. x \div e \in Nat /\ x \div e <= y \div e
  BY <1>1
<1> QED
  BY <1>2, <1>3

(* An average is no less than what each value is at least.                 *)
LEMMA HalfUpAtLeast ==
  ASSUME NEW a \in Int, NEW d \in Nat, d > 0, -10000 * d <= a
  PROVE  HalfUp(a, d) \in Int /\ HalfUp(a, d) >= -10000
<1>1. CASE a >= 0
  BY <1>1, HalfUpGrows
<1>2. CASE a < 0
  <2> DEFINE e == 2 * d
             x == d - 2 * a
  <2>1. HalfUp(a, d) = -(x \div e)
    BY <1>2 DEF HalfUp
  <2>2. e \in Nat /\ e > 0 /\ x \in Nat /\ x <= 10000 * e + d /\ d < e
    BY <1>2
  <2> HIDE DEF e, x
  <2>3. x \div e \in Nat /\ x \div e <= 10000
    BY <2>2
  <2> QED
    BY <2>1, <2>3
<1> QED
  BY <1>1, <1>2

(* The sum of the four components that are always there, and of all five.  *)
Steady == Components \ {"turnover"}

LEMMA SumOfFive ==
  ASSUME NEW f, \A c \in Components : f[c] \in Int
  PROVE  /\ SumOver(f, Steady)
               = f["momentum"] + (f["breadth"] + (f["technical"] + f["institutional"]))
         /\ SumOver(f, Components) = f["turnover"] + SumOver(f, Steady)
<1> DEFINE A == {"breadth", "technical", "institutional"}
           B == {"technical", "institutional"}
           C == {"institutional"}
<1>1. /\ IsFiniteSet(C) /\ IsFiniteSet(B) /\ IsFiniteSet(A) /\ IsFiniteSet(Steady)
      /\ IsFiniteSet(Components)
  <2>1. IsFiniteSet({})
    BY FS_EmptySet
  <2>2. IsFiniteSet({} \cup {"institutional"})
    BY <2>1, FS_AddElement
  <2>3. IsFiniteSet(C) /\ IsFiniteSet(C \cup {"technical"})
    BY <2>2, FS_AddElement
  <2>4. IsFiniteSet(B)
    <3>1. B = C \cup {"technical"}
      OBVIOUS
    <3> QED BY <2>3, <3>1
  <2>5. IsFiniteSet(A)
    <3>1. A = B \cup {"breadth"}
      OBVIOUS
    <3> HIDE DEF A, B
    <3> QED BY <2>4, <3>1, FS_AddElement
  <2>6. IsFiniteSet(Steady)
    <3>1. Steady = A \cup {"momentum"}
      BY DEF Steady, Components
    <3> HIDE DEF A
    <3> QED BY <2>5, <3>1, FS_AddElement
  <2>7. IsFiniteSet(Components)
    <3>1. Components = Steady \cup {"turnover"}
      BY DEF Steady, Components
    <3> QED BY <2>6, <3>1, FS_AddElement
  <2> QED BY <2>3, <2>4, <2>5, <2>6, <2>7
<1>2. /\ Components \ {"turnover"} = Steady /\ Steady \ {"momentum"} = A
      /\ A \ {"breadth"} = B /\ B \ {"technical"} = C /\ C \ {"institutional"} = {}
      /\ "turnover" \in Components /\ "momentum" \in Steady /\ "breadth" \in A
      /\ "technical" \in B /\ "institutional" \in C
      /\ C \subseteq B /\ B \subseteq A /\ A \subseteq Steady /\ Steady \subseteq Components
  BY DEF Steady, Components
<1> HIDE DEF A, B, C
<1>3. \A T \in {Components, Steady, A, B, C} : \A c \in T : f[c] \in Int
  BY <1>2
<1>4. SumOver(f, Components) = f["turnover"] + SumOver(f, Steady)
  BY <1>1, <1>2, <1>3, SumOverIs
<1>5. SumOver(f, Steady) = f["momentum"] + SumOver(f, A)
  BY <1>1, <1>2, <1>3, SumOverIs
<1>6. SumOver(f, A) = f["breadth"] + SumOver(f, B)
  BY <1>1, <1>2, <1>3, SumOverIs
<1>7. SumOver(f, B) = f["technical"] + SumOver(f, C)
  BY <1>1, <1>2, <1>3, SumOverIs
<1>8. SumOver(f, C) = f["institutional"] + SumOver(f, {}) /\ SumOver(f, {}) = 0
  BY <1>1, <1>2, <1>3, SumOverIs
<1>9. SumOver(f, C) = f["institutional"]
  <2>1. f["institutional"] \in Int
    BY <1>2
  <2> QED BY <1>8, <2>1
<1> QED
  BY <1>4, <1>5, <1>6, <1>7, <1>9

(* What a theme is measured by: only the turnover may be missing.          *)
Measured(m) ==
    /\ \A c \in Components : m[c] \in Int
    /\ \A c \in Steady : m[c] # NoValue
Cross(metrics, D) ==
    /\ D \subseteq Nat /\ IsFiniteSet(D) /\ DOMAIN metrics = D
    /\ \A i \in D : Measured(metrics[i])

(* The percentiles of a component follow the order of its values.          *)
LEMMA Percentiles ==
  ASSUME NEW D, NEW metrics, Cross(metrics, D), NEW c \in Components
  PROVE  /\ \A i \in D : IF metrics[i][c] = NoValue THEN Percentile(metrics, c, i) = NoValue
                         ELSE Percentile(metrics, c, i) \in Nat
         /\ \A i, j \in D : metrics[i][c] # NoValue /\ metrics[j][c] # NoValue
                              /\ Below(metrics, c, i, j)
                => Percentile(metrics, c, j) <= Percentile(metrics, c, i)
<1> DEFINE having == {j \in D : metrics[j][c] # NoValue}
           Under(i) == {j \in having : Below(metrics, c, i, j)}
           d == Cardinality(having) - 1
<1>1. /\ D \subseteq Nat /\ IsFiniteSet(D) /\ DOMAIN metrics = D
      /\ \A i \in D : metrics[i][c] \in Int
  BY DEF Cross, Measured
<1>2. IsFiniteSet(having) /\ Cardinality(having) \in Nat
  BY <1>1, FS_Subset, FS_CardinalityType
<1>3. ASSUME NEW i \in having
      PROVE  /\ having # {i} => d \in Nat /\ d > 0
             /\ IsFiniteSet(Under(i)) /\ Cardinality(Under(i)) \in Nat
  <2>1. IsFiniteSet(Under(i)) /\ Cardinality(Under(i)) \in Nat
    BY <1>2, FS_Subset, FS_CardinalityType
  <2>2. ASSUME having # {i} PROVE d \in Nat /\ d > 0
    <3> HIDE DEF having
    <3>1. PICK j \in having : j # i
      BY <1>3, <2>2
    <3>2. Cardinality({i, j}) <= Cardinality(having) /\ Cardinality({i, j}) = 2
      <4>1. {i, j} \subseteq having /\ Cardinality({i}) = 1 /\ IsFiniteSet({i})
        BY <1>3, FS_Singleton
      <4>2. {i, j} = {i} \cup {j} /\ j \notin {i}
        BY <3>1
      <4>3. Cardinality({i, j}) = Cardinality({i}) + 1
        BY <4>1, <4>2, FS_AddElement
      <4> QED
        BY <1>2, <4>1, <4>3, FS_Subset
    <3> QED
      BY <1>2, <3>2
  <2> QED
    BY <2>1, <2>2
<1>4. ASSUME NEW i \in D
      PROVE  Percentile(metrics, c, i)
               = IF i \notin having THEN NoValue
                 ELSE IF having = {i} THEN 5000 ELSE HalfUp(10000 * Cardinality(Under(i)), d)
  BY <1>1 DEF Percentile
<1> HIDE DEF d
<1>5. ASSUME NEW i \in D
      PROVE  IF metrics[i][c] = NoValue THEN Percentile(metrics, c, i) = NoValue
             ELSE Percentile(metrics, c, i) \in Nat
  <2>1. CASE metrics[i][c] = NoValue
    <3>1. i \notin having
      BY <2>1
    <3> HIDE DEF having, Under
    <3> QED
      BY <1>4, <2>1, <3>1
  <2>2. CASE metrics[i][c] # NoValue
    <3>1. i \in having
      BY <2>2
    <3> HIDE DEF having, Under
    <3>2. CASE having = {i}
      BY <1>4, <2>2, <3>1, <3>2
    <3>3. CASE having # {i}
      <4> DEFINE a == 10000 * Cardinality(Under(i))
      <4>1. a \in Nat /\ a <= a /\ d \in Nat /\ d > 0
        BY <1>3, <3>1, <3>3
      <4>2. HalfUp(a, d) \in Nat
        <5> HIDE DEF a
        <5> QED BY <4>1, HalfUpGrows
      <4> QED
        BY <1>4, <2>2, <3>1, <3>3, <4>2
    <3> QED
      BY <3>2, <3>3
  <2> QED
    BY <2>1, <2>2
<1>6. ASSUME NEW i \in D, NEW j \in D, metrics[i][c] # NoValue, metrics[j][c] # NoValue,
             Below(metrics, c, i, j)
      PROVE  Percentile(metrics, c, j) <= Percentile(metrics, c, i)
  <2>1. i \in having /\ j \in having /\ i # j
    BY <1>1, <1>6 DEF Below
  <2>2. Under(j) \subseteq Under(i)
    <3> SUFFICES ASSUME NEW k \in having, Below(metrics, c, j, k) PROVE Below(metrics, c, i, k)
      OBVIOUS
    <3>1. /\ metrics[i][c] \in Int /\ metrics[j][c] \in Int /\ metrics[k][c] \in Int
          /\ i \in Nat /\ j \in Nat /\ k \in Nat
      BY <1>1
    <3> QED
      BY <1>6, <3>1 DEF Below
  <2>3. having # {i} /\ having # {j}
    BY <2>1
  <2> DEFINE a == 10000 * Cardinality(Under(j))
             b == 10000 * Cardinality(Under(i))
  <2>4. a \in Nat /\ b \in Nat /\ a <= b /\ d \in Nat /\ d > 0
    <3> HIDE DEF having, Under
    <3>1. Cardinality(Under(j)) <= Cardinality(Under(i))
      BY <1>3, <2>1, <2>2, FS_Subset
    <3> QED
      BY <1>3, <2>1, <2>3, <3>1
  <2>5. HalfUp(a, d) <= HalfUp(b, d)
    <3> HIDE DEF a, b
    <3> QED BY <2>4, HalfUpGrows
  <2>6. Percentile(metrics, c, j) = HalfUp(a, d) /\ Percentile(metrics, c, i) = HalfUp(b, d)
    <3> HIDE DEF having, Under
    <3> QED BY <1>4, <2>1, <2>3
  <2> QED
    BY <2>5, <2>6
<1> QED
  BY <1>5, <1>6

(* One theme leads another.                                                *)
LeadsIn(metrics, i, j) ==
    /\ \A c \in Steady : metrics[i][c] > metrics[j][c]
    /\ metrics[i].turnover = metrics[j].turnover
    /\ metrics[i].turnover = NoValue \/ j < i

(* A score is the percentiles there are, weighted (score_group).           *)
LEMMA ScoreIs ==
  ASSUME NEW D, NEW metrics, Cross(metrics, D), NEW i \in D,
         NEW p, p = [c \in Components |-> Percentile(metrics, c, i)]
  PROVE  /\ \A c \in Steady : p[c] \in Nat
         /\ LET four == 30 * p["momentum"] + (25 * p["breadth"]
                           + (20 * p["technical"] + 15 * p["institutional"]))
            IN  Score(metrics, i) = IF metrics[i].turnover = NoValue THEN HalfUp(four, 90)
                                    ELSE HalfUp(10 * p["turnover"] + four, 100)
         /\ metrics[i].turnover # NoValue => p["turnover"] \in Nat
<1> DEFINE available == {c \in Components : Percentile(metrics, c, i) # NoValue}
           w == [c \in Components |-> Weight[c] * p[c]]
           four == 30 * p["momentum"] + (25 * p["breadth"]
                           + (20 * p["technical"] + 15 * p["institutional"]))
<1> SUFFICES /\ \A c \in Steady : p[c] \in Nat
             /\ Score(metrics, i) = IF metrics[i].turnover = NoValue THEN HalfUp(four, 90)
                                    ELSE HalfUp(10 * p["turnover"] + four, 100)
             /\ metrics[i].turnover # NoValue => p["turnover"] \in Nat
  OBVIOUS
<1>1. /\ \A c \in Components : metrics[i][c] \in Int
      /\ \A c \in Steady : metrics[i][c] # NoValue
  BY DEF Cross, Measured
<1>2. \A c \in Components : IF metrics[i][c] = NoValue THEN p[c] = NoValue ELSE p[c] \in Nat
  BY Percentiles
<1>3. /\ \A c \in Components : p[c] \in Int
      /\ \A c \in Steady : p[c] \in Nat /\ p[c] # NoValue
      /\ metrics[i].turnover = NoValue => p["turnover"] = NoValue
      /\ metrics[i].turnover # NoValue => p["turnover"] \in Nat /\ p["turnover"] # NoValue
  BY <1>1, <1>2 DEF Components, Steady, NoValue
<1>4. available = IF metrics[i].turnover = NoValue THEN Steady ELSE Components
  <2>1. \A c \in Components : c \in available <=> p[c] # NoValue
    OBVIOUS
  <2>2. \A c \in Components : c \in Steady \/ c = "turnover"
    BY DEF Components, Steady
  <2>3. available \subseteq Components /\ Steady \subseteq Components /\ "turnover" \in Components
        /\ "turnover" \notin Steady
    BY DEF Components, Steady
  <2> HIDE DEF available
  <2> QED
    BY <1>3, <2>1, <2>2, <2>3
<1>5. /\ Weight["momentum"] = 30 /\ Weight["breadth"] = 25 /\ Weight["technical"] = 20
      /\ Weight["institutional"] = 15 /\ Weight["turnover"] = 10
      /\ \A c \in Components : Weight[c] \in Nat
  BY DEF Weight, Components
<1>6. SumOver(Weight, Steady) = 90 /\ SumOver(Weight, Components) = 100
  BY <1>5, SumOfFive
<1>7. /\ \A c \in Components : w[c] \in Int
      /\ w["momentum"] = 30 * p["momentum"] /\ w["breadth"] = 25 * p["breadth"]
      /\ w["technical"] = 20 * p["technical"] /\ w["institutional"] = 15 * p["institutional"]
      /\ w["turnover"] = 10 * p["turnover"]
  BY <1>3, <1>5 DEF Components
<1>8. SumOver(w, Steady) = four /\ SumOver(w, Components) = 10 * p["turnover"] + four
  <2> HIDE DEF w
  <2> QED
    BY <1>7, SumOfFive
<1>9. Score(metrics, i) = IF SumOver(Weight, available) >= 60
                          THEN HalfUp(SumOver(w, available), SumOver(Weight, available))
                          ELSE NoValue
  <2>1. [c \in available |-> Weight[c] * Percentile(metrics, c, i)] = [c \in available |-> w[c]]
    OBVIOUS
  <2> HIDE DEF w
  <2> QED
    BY <2>1 DEF Score, Total, SumOver
<1> HIDE DEF available, w, four
<1>10. CASE metrics[i].turnover = NoValue
  BY <1>3, <1>4, <1>6, <1>8, <1>9, <1>10
<1>11. CASE metrics[i].turnover # NoValue
  BY <1>3, <1>4, <1>6, <1>8, <1>9, <1>11
<1> QED
  BY <1>10, <1>11

(* Every theme has a score, and one that leads another no lower one.       *)
LEMMA Scores ==
  ASSUME NEW D, NEW metrics, Cross(metrics, D)
  PROVE  /\ \A i \in D : Score(metrics, i) \in Nat
         /\ \A i, j \in D : LeadsIn(metrics, i, j) => Score(metrics, j) <= Score(metrics, i)
<1> DEFINE p(i) == [c \in Components |-> Percentile(metrics, c, i)]
           Four(q) == 30 * q["momentum"] + (25 * q["breadth"]
                           + (20 * q["technical"] + 15 * q["institutional"]))
<1>1. ASSUME NEW i \in D
      PROVE  /\ \A c \in Steady : p(i)[c] \in Nat
             /\ Score(metrics, i) = IF metrics[i].turnover = NoValue THEN HalfUp(Four(p(i)), 90)
                                    ELSE HalfUp(10 * p(i)["turnover"] + Four(p(i)), 100)
             /\ metrics[i].turnover # NoValue => p(i)["turnover"] \in Nat
  <2> DEFINE q == p(i)
  <2>1. q = [c \in Components |-> Percentile(metrics, c, i)]
    OBVIOUS
  <2> HIDE DEF q, p
  <2>2. /\ \A c \in Steady : q[c] \in Nat
        /\ Score(metrics, i) = IF metrics[i].turnover = NoValue THEN HalfUp(Four(q), 90)
                                    ELSE HalfUp(10 * q["turnover"] + Four(q), 100)
        /\ metrics[i].turnover # NoValue => q["turnover"] \in Nat
    BY <2>1, ScoreIs
  <2> QED
    BY <2>2 DEF q
<1>2. Steady = {"momentum", "breadth", "technical", "institutional"}
  BY DEF Steady, Components
<1>3. ASSUME NEW i \in D, NEW j \in D, LeadsIn(metrics, i, j)
      PROVE  /\ \A c \in Steady : p(j)[c] <= p(i)[c]
             /\ metrics[i].turnover # NoValue => p(j)["turnover"] <= p(i)["turnover"]
  <2>1. \A c \in Steady : /\ metrics[i][c] # NoValue /\ metrics[j][c] # NoValue
                          /\ Below(metrics, c, i, j)
    BY <1>3 DEF LeadsIn, Below, Cross, Measured, Steady
  <2>2. metrics[i].turnover # NoValue => /\ metrics[j].turnover # NoValue
                                         /\ Below(metrics, "turnover", i, j)
    BY <1>3 DEF LeadsIn, Below
  <2>3. Steady \subseteq Components /\ "turnover" \in Components
    BY DEF Steady, Components
  <2> QED
    BY <2>1, <2>2, <2>3, Percentiles
<1> HIDE DEF p
<1>4. \A i \in D : Four(p(i)) \in Nat
  <2> SUFFICES ASSUME NEW i \in D PROVE Four(p(i)) \in Nat
    OBVIOUS
  <2>1. /\ p(i)["momentum"] \in Nat /\ p(i)["breadth"] \in Nat /\ p(i)["technical"] \in Nat
        /\ p(i)["institutional"] \in Nat
    BY <1>1, <1>2
  <2> QED
    BY <2>1
<1>5. ASSUME NEW i \in D, NEW j \in D, LeadsIn(metrics, i, j)
      PROVE  Four(p(j)) <= Four(p(i))
  <2>1. /\ p(i)["momentum"] \in Nat /\ p(i)["breadth"] \in Nat /\ p(i)["technical"] \in Nat
        /\ p(i)["institutional"] \in Nat
        /\ p(j)["momentum"] \in Nat /\ p(j)["breadth"] \in Nat /\ p(j)["technical"] \in Nat
        /\ p(j)["institutional"] \in Nat
    BY <1>1, <1>2
  <2>2. /\ p(j)["momentum"] <= p(i)["momentum"] /\ p(j)["breadth"] <= p(i)["breadth"]
        /\ p(j)["technical"] <= p(i)["technical"]
        /\ p(j)["institutional"] <= p(i)["institutional"]
    BY <1>2, <1>3, <1>5
  <2> QED
    BY <2>1, <2>2
<1> HIDE DEF Four
<1>6. ASSUME NEW i \in D PROVE Score(metrics, i) \in Nat
  <2>1. CASE metrics[i].turnover = NoValue
    <3> DEFINE a == Four(p(i))
    <3>1. a \in Nat /\ a <= a
      BY <1>4
    <3>2. HalfUp(a, 90) \in Nat
      <4> HIDE DEF a
      <4> QED BY <3>1, HalfUpGrows
    <3> QED
      BY <1>1, <2>1, <3>2
  <2>2. CASE metrics[i].turnover # NoValue
    <3> DEFINE a == 10 * p(i)["turnover"] + Four(p(i))
    <3>1. a \in Nat /\ a <= a
      BY <1>1, <1>4, <2>2
    <3>2. HalfUp(a, 100) \in Nat
      <4> HIDE DEF a
      <4> QED BY <3>1, HalfUpGrows
    <3> QED
      BY <1>1, <2>2, <3>2
  <2> QED
    BY <2>1, <2>2
<1>7. ASSUME NEW i \in D, NEW j \in D, LeadsIn(metrics, i, j)
      PROVE  Score(metrics, j) <= Score(metrics, i)
  <2>0. metrics[i].turnover = metrics[j].turnover
    BY <1>7 DEF LeadsIn
  <2>1. CASE metrics[i].turnover = NoValue
    <3> DEFINE a == Four(p(j))
               b == Four(p(i))
    <3>1. a \in Nat /\ b \in Nat /\ a <= b
      BY <1>4, <1>5, <1>7
    <3>2. HalfUp(a, 90) <= HalfUp(b, 90)
      <4> HIDE DEF a, b
      <4> QED BY <3>1, HalfUpGrows
    <3> QED
      BY <1>1, <2>0, <2>1, <3>2
  <2>2. CASE metrics[i].turnover # NoValue
    <3> DEFINE a == 10 * p(j)["turnover"] + Four(p(j))
               b == 10 * p(i)["turnover"] + Four(p(i))
    <3>1. a \in Nat /\ b \in Nat /\ a <= b
      <4>1. /\ p(i)["turnover"] \in Nat /\ p(j)["turnover"] \in Nat
            /\ p(j)["turnover"] <= p(i)["turnover"]
        BY <1>1, <1>3, <1>7, <2>0, <2>2
      <4>2. Four(p(j)) \in Nat /\ Four(p(i)) \in Nat /\ Four(p(j)) <= Four(p(i))
        BY <1>4, <1>5, <1>7
      <4> QED BY <4>1, <4>2
    <3>2. HalfUp(a, 100) <= HalfUp(b, 100)
      <4> HIDE DEF a, b
      <4> QED BY <3>1, HalfUpGrows
    <3> QED
      BY <1>1, <2>0, <2>2, <3>2
  <2> QED
    BY <2>1, <2>2
<1> QED
  BY <1>6, <1>7

-----------------------------------------------------------------------------
(* The rows of a date.                                                     *)
Priceable(row) ==
    /\ {row.close, row.base, row.ma} \subseteq (Nat \ {0}) \cup {NoValue}
    /\ row.net \in Int /\ row.net * Cardinality(Listed) > NoValue

MetricsOf == [i \in Themes |-> strength[i].metrics]

(* The ranks of the last calculation are one to the number of themes, in   *)
(* the order of the scores and of what is measured; and a theme that has   *)
(* not been ranked has a row that the lists leave out.                     *)
RankInv ==
    /\ \A m \in Listed : Priceable(day[m])
    /\ members \in [Themes -> SUBSET Listed]
    /\ ranked \subseteq Themes
    /\ DOMAIN strength = Themes /\ \A i \in Themes : strength[i].score \in Int
    /\ \A i \in ranked : strength[i].rank # NoValue
    /\ {strength[i].rank : i \in ranked} = 1 .. Cardinality(ranked)
    /\ \A i, j \in ranked :
          LeadsIn(MetricsOf, i, j) \/ strength[i].score > strength[j].score
             => strength[i].rank < strength[j].rank

(* A share is a number, and a mean of returns no less than losing all.     *)
LEMMA RatioIsCounted ==
  ASSUME NEW B, IsFiniteSet(B), NEW A, A \subseteq B
  PROVE  Ratio(A, B) \in Nat
<1>1. IsFiniteSet(A) /\ Cardinality(A) \in Nat /\ Cardinality(B) \in Nat
  BY FS_Subset, FS_CardinalityType
<1>2. CASE B = {}
  BY <1>2 DEF Ratio
<1>3. CASE B # {}
  <2> DEFINE a == 10000 * Cardinality(A)
             d == Cardinality(B)
  <2>1. a \in Nat /\ a <= a /\ d \in Nat /\ d > 0
    BY <1>1, <1>3, FS_EmptySet
  <2>2. HalfUp(a, d) \in Nat
    <3> HIDE DEF a, d
    <3> QED BY <2>1, HalfUpGrows
  <2> QED
    BY <1>3, <2>2 DEF Ratio
<1> QED
  BY <1>2, <1>3

LEMMA MeanOfReturns ==
  ASSUME NEW Q, IsFiniteSet(Q), Q # {}, NEW f, \A m \in Q : f[m] \in Int /\ -10000 <= f[m]
  PROVE  /\ HalfUp(SumOver(f, Q), Cardinality(Q)) \in Int
         /\ HalfUp(SumOver(f, Q), Cardinality(Q)) >= -10000
<1> DEFINE d == Cardinality(Q)
           b == -10000
           s == SumOver(f, Q)
<1>1. d \in Nat /\ d > 0
  BY FS_CardinalityType, FS_EmptySet
<1>2. s \in Int
  BY SumOverIs
<1>3. b \in Int /\ \A m \in Q : f[m] \in Int /\ b <= f[m]
  OBVIOUS
<1> HIDE DEF b
<1>4. b * d <= s
  BY <1>3, SumAtLeast
<1>5. b = -10000
  BY DEF b
<1> HIDE DEF s, d
<1>6. -10000 * d <= s
  BY <1>1, <1>2, <1>4, <1>5
<1>7. HalfUp(s, d) \in Int /\ HalfUp(s, d) >= -10000
  BY <1>1, <1>2, <1>6, HalfUpAtLeast
<1> QED
  BY <1>7 DEF s, d

(* What a theme is measured by is a number, and not the one for no value.  *)
LEMMA MetricsAreMeasured ==
  ASSUME NEW i \in Themes, members[i] \in SUBSET Listed,
         \A m \in Listed : Priceable(day[m])
  PROVE  Measured(Metrics(i))
<1> DEFINE S == members[i]
           N == Cardinality(Listed)
<1>1. /\ S \subseteq Listed /\ IsFiniteSet(S) /\ IsFiniteSet(Listed)
      /\ N \in Nat /\ Cardinality(S) \in Nat /\ Cardinality(S) <= N
  BY StrengthAssumption, FS_Subset, FS_CardinalityType
<1> HIDE DEF S
<1>2. ASSUME NEW A, NEW B \in SUBSET S, A \subseteq B PROVE Ratio(A, B) \in Nat
  <2>1. IsFiniteSet(B)
    BY <1>1, FS_Subset
  <2> QED
    BY <1>2, <2>1, RatioIsCounted
<1>3. AdvanceRatio(S) \in Nat
  <2>1. {m \in Priced(S) : Return(m) > 0} \subseteq Priced(S) /\ Priced(S) \in SUBSET S
    BY DEF Priced
  <2> QED
    BY <1>2, <2>1 DEF AdvanceRatio
<1>4. AboveMaPct(S) \in Nat
  <2> DEFINE valid == {m \in S : day[m].close # NoValue /\ day[m].ma # NoValue}
  <2>1. {m \in valid : day[m].close >= day[m].ma} \subseteq valid /\ valid \in SUBSET S
    OBVIOUS
  <2> QED
    BY <1>2, <2>1 DEF AboveMaPct
<1>5. EqualWeightReturn(S) \in Int /\ EqualWeightReturn(S) >= -10000
  <2>1. CASE Priced(S) = {}
    BY <2>1 DEF EqualWeightReturn
  <2>2. CASE Priced(S) # {}
    <3> DEFINE Q == Priced(S)
               f == [m \in Q |-> Return(m)]
               d == Cardinality(Q)
    <3>1. IsFiniteSet(Q) /\ d \in Nat /\ d > 0
      BY <1>1, <2>2, FS_Subset, FS_CardinalityType, FS_EmptySet DEF Priced
    <3>2. \A m \in Q : f[m] \in Int /\ -10000 <= f[m]
      <4> SUFFICES ASSUME NEW m \in Q PROVE f[m] \in Int /\ -10000 <= f[m]
        OBVIOUS
      <4>1. day[m].close \in Nat /\ day[m].base \in Nat \ {0}
        BY <1>1 DEF Priced, Priceable
      <4>2. f[m] = (10000 * day[m].close) \div day[m].base - 10000
        BY DEF Return
      <4> DEFINE a == 10000 * day[m].close
                 b == day[m].base
      <4>3. a \in Nat /\ b \in Nat /\ b > 0
        BY <4>1
      <4>4. a \div b \in Nat
        <5> HIDE DEF a, b
        <5> QED BY <4>3
      <4> QED
        BY <4>2, <4>4
    <3>3. EqualWeightReturn(S) = HalfUp(SumOver(f, Q), d)
      <4>1. [m \in Q |-> f[m]] = [m \in Q |-> Return(m)]
        OBVIOUS
      <4> HIDE DEF f, Q
      <4> QED
        BY <2>2, <4>1 DEF EqualWeightReturn, Total, SumOver, Q
    <3> HIDE DEF f, Q
    <3>4. /\ HalfUp(SumOver(f, Q), Cardinality(Q)) \in Int
          /\ HalfUp(SumOver(f, Q), Cardinality(Q)) >= -10000
      BY <2>2, <3>1, <3>2, MeanOfReturns DEF Q
    <3> QED
      BY <3>3, <3>4
  <2> QED
    BY <2>1, <2>2
<1>6. Total(Net, S) \in Int /\ Total(Net, S) # NoValue
  <2> DEFINE f == [m \in S |-> Net(m)]
             e == [m \in S |-> N * Net(m)]
             s == SumOver(f, S)
             k == Cardinality(S)
  <2>1. Total(Net, S) = s
    <3>1. [m \in S |-> f[m]] = [m \in S |-> Net(m)]
      OBVIOUS
    <3> HIDE DEF f
    <3> QED BY <3>1 DEF Total, SumOver
  <2>2. \A m \in S : /\ f[m] \in Int /\ e[m] = N * f[m]
                     /\ e[m] \in Int /\ -99999 <= e[m]
    BY <1>1 DEF Net, Priceable, NoValue
  <2> HIDE DEF f, e
  <2>3. s \in Int /\ (S = {} => s = 0)
    BY <1>1, <2>2, SumOverIs
  <2>4. SumOver(e, S) = N * s
    BY <1>1, <2>2, SumOfScaled
  <2>5. -99999 * k <= SumOver(e, S)
    <3>1. -99999 \in Int
      OBVIOUS
    <3> QED BY <1>1, <2>2, <3>1, SumAtLeast
  <2>6. S # {} => k > 0
    BY <1>1, FS_EmptySet
  <2> HIDE DEF s, k
  <2>7. CASE S = {}
    BY <2>1, <2>3, <2>7 DEF NoValue
  <2>8. CASE S # {}
    <3>1. N > 0 /\ k > 0 /\ k <= N /\ k \in Nat /\ N \in Nat
      BY <1>1, <2>6, <2>8 DEF k
    <3>2. -99999 * k <= N * s
      BY <2>4, <2>5
    <3>3. ASSUME s <= -100000 PROVE N * s <= -100000 * N
      BY <1>1, <2>3, <3>1, <3>3
    <3> HIDE DEF N
    <3>4. ~ (s <= -100000)
      BY <2>3, <3>1, <3>2, <3>3
    <3> QED
      BY <2>1, <2>3, <3>4 DEF NoValue
  <2> QED
    BY <2>7, <2>8
<1> QED
  <2> DEFINE m == Metrics(i)
  <2>1. /\ m.momentum = EqualWeightReturn(S) /\ m.breadth = AdvanceRatio(S)
        /\ m.technical = AboveMaPct(S) /\ m.institutional = Total(Net, S)
        /\ m.turnover \in {1, NoValue}
    BY DEF Metrics, S
  <2> HIDE DEF m
  <2> QED
    BY <1>3, <1>4, <1>5, <1>6, <2>1 DEF Measured, Components, Steady, NoValue, m

(* A table is the function that its rows are of.                          *)
LEMMA TableIs ==
  ASSUME NEW S, NEW g, NEW table, table = {<<i, g[i]>> : i \in S}
  PROVE  [i \in S |-> (CHOOSE row \in table : row[1] = i)[2]] = [i \in S |-> g[i]]
<1> SUFFICES ASSUME NEW i \in S PROVE (CHOOSE row \in table : row[1] = i)[2] = g[i]
  OBVIOUS
<1> DEFINE r == CHOOSE row \in table : row[1] = i
<1>1. <<i, g[i]>> \in table /\ <<i, g[i]>>[1] = i
  OBVIOUS
<1>2. r \in table /\ r[1] = i
  BY <1>1
<1> HIDE DEF r
<1>3. PICK j \in S : r = <<j, g[j]>>
  BY <1>2
<1>4. r[1] = j /\ r[2] = g[j]
  BY <1>3
<1> QED
  BY <1>2, <1>4 DEF r

(* A calculation ranks as the invariant says.                              *)
LEMMA CalculateStep == RankInv /\ Calculate => RankInv'
<1> SUFFICES ASSUME RankInv, Calculate PROVE RankInv'
  OBVIOUS
<1> DEFINE full == {i \in Themes : members[i] # {}}
           metrics == [i \in full |-> Metrics(i)]
           scores == [i \in full |-> Score(metrics, i)]
           R == {p \in full \X full : Ahead(metrics, scores, p[1], p[2])}
           place == [i \in full |-> PlaceIn(full, R, i)]
<1>1. /\ strength' = [i \in Themes |->
              IF i \in full THEN [score |-> scores[i], rank |-> Rank(metrics, scores, i),
                                  metrics |-> metrics[i]]
              ELSE strength[i]]
      /\ ranked' = full /\ members' = members /\ day' = day
  <2> DEFINE of == {<<i, Metrics(i)>> : i \in full}
             m == [i \in full |-> (CHOOSE row \in of : row[1] = i)[2]]
             for == {<<i, Score(m, i)>> : i \in full}
             s == [i \in full |-> (CHOOSE row \in for : row[1] = i)[2]]
  <2>1. /\ strength' = [i \in Themes |->
              IF i \in full THEN [score |-> s[i], rank |-> Rank(m, s, i), metrics |-> m[i]]
              ELSE strength[i]]
        /\ ranked' = full /\ members' = members /\ day' = day
    BY DEF Calculate, Table
  <2>2. m = metrics
    <3>1. of = {<<i, metrics[i]>> : i \in full} /\ metrics = [i \in full |-> metrics[i]]
      OBVIOUS
    <3> HIDE DEF of, metrics, full
    <3> QED
      BY <3>1, TableIs
  <2> HIDE DEF m, metrics, full
  <2>3. s = scores
    <3>1. for = {<<i, scores[i]>> : i \in full} /\ scores = [i \in full |-> scores[i]]
      BY <2>2
    <3> HIDE DEF for, scores
    <3> QED
      BY <3>1, TableIs
  <2> HIDE DEF s, scores
  <2> QED
    BY <2>1, <2>2, <2>3
<1>2. Cross(metrics, full)
  <2>1. \A i \in full : Measured(metrics[i])
    BY MetricsAreMeasured DEF RankInv
  <2>2. full \subseteq Nat /\ IsFiniteSet(full) /\ DOMAIN metrics = full
    BY StrengthAssumption, FS_Subset
  <2> HIDE DEF full, metrics
  <2> QED
    BY <2>1, <2>2 DEF Cross
<1>3. full \subseteq Themes /\ \A i \in full : members[i] # {}
  OBVIOUS
<1>4. DOMAIN metrics = full /\ DOMAIN scores = full
  OBVIOUS
<1> HIDE DEF full, metrics
<1>5. /\ \A i \in full : scores[i] \in Nat
      /\ \A i, j \in full : LeadsIn(metrics, i, j) => scores[j] <= scores[i]
  BY <1>2, Scores
<1>6. \A i \in full : i \in Nat /\ metrics[i].momentum \in Int
  BY <1>2 DEF Cross, Measured, Components
<1>7. \A i, j \in full : <<j, i>> \in R <=> Ahead(metrics, scores, j, i)
  OBVIOUS
<1> HIDE DEF scores, R
<1>8. \A x \in full : <<x, x>> \notin R
  BY <1>5, <1>6, <1>7 DEF Ahead
<1>9. \A x, y \in full : x = y \/ <<x, y>> \in R \/ <<y, x>> \in R
  <2> SUFFICES ASSUME NEW x \in full, NEW y \in full, x # y
               PROVE  Ahead(metrics, scores, x, y) \/ Ahead(metrics, scores, y, x)
    BY <1>7
  <2>1. /\ scores[x] \in Nat /\ scores[y] \in Nat /\ x \in Nat /\ y \in Nat
        /\ metrics[x].momentum \in Int /\ metrics[y].momentum \in Int
    BY <1>5, <1>6
  <2> QED
    BY <2>1 DEF Ahead
<1>10. \A x, y, z \in full : <<x, y>> \in R /\ <<y, z>> \in R => <<x, z>> \in R
  BY <1>5, <1>6, <1>7 DEF Ahead
<1>11. /\ \A x \in full : place[x] \in 1 .. Cardinality(full)
       /\ \A x, y \in full : <<x, y>> \in R => place[x] < place[y]
       /\ {place[x] : x \in full} = 1 .. Cardinality(full)
       /\ Cardinality(full) \in Nat
  <2>1. IsFiniteSet(full) /\ place = [x \in full |-> PlaceIn(full, R, x)]
    BY <1>2 DEF Cross
  <2>2. Line(full, R)
    BY <1>8, <1>9, <1>10 DEF Line
  <2> HIDE DEF place
  <2> QED
    BY <2>1, <2>2, InALine
<1>12. \A i \in full : Rank(metrics, scores, i) = place[i]
  <2> SUFFICES ASSUME NEW i \in full PROVE Rank(metrics, scores, i) = place[i]
    OBVIOUS
  <2>1. scores[i] # NoValue
    BY <1>5 DEF NoValue
  <2>2. {j \in full : Ahead(metrics, scores, j, i)} = {j \in full : <<j, i>> \in R}
    BY <1>7
  <2> QED
    BY <1>4, <2>1, <2>2 DEF Rank, PlaceIn
<1> HIDE DEF place
<1>13. \A i \in full : /\ strength'[i].score = scores[i] /\ strength'[i].rank = place[i]
                       /\ strength'[i].metrics = metrics[i]
  BY <1>1, <1>3, <1>12
<1>14. DOMAIN strength' = Themes /\ \A i \in Themes : strength'[i].score \in Int
  BY <1>1, <1>5 DEF RankInv
<1>15. ASSUME NEW i \in full, NEW j \in full,
              LeadsIn(MetricsOf', i, j) \/ strength'[i].score > strength'[j].score
       PROVE  strength'[i].rank < strength'[j].rank
  <2>1. CASE LeadsIn(MetricsOf', i, j)
    <3>1. MetricsOf'[i] = metrics[i] /\ MetricsOf'[j] = metrics[j]
      BY <1>3, <1>13 DEF MetricsOf
    <3>2. LeadsIn(metrics, i, j)
      BY <2>1, <3>1 DEF LeadsIn
    <3>3. metrics[i].momentum > metrics[j].momentum
      BY <3>2 DEF LeadsIn, Steady, Components
    <3>4. Ahead(metrics, scores, i, j)
      BY <1>5, <3>2, <3>3 DEF Ahead
    <3> QED
      BY <1>7, <1>11, <1>13, <3>4
  <2>2. CASE strength'[i].score > strength'[j].score
    <3>1. Ahead(metrics, scores, i, j)
      BY <1>13, <2>2 DEF Ahead
    <3> QED
      BY <1>7, <1>11, <1>13, <3>1
  <2> QED
    BY <1>15, <2>1, <2>2
<1>16. \A i \in ranked' : strength'[i].rank # NoValue
  BY <1>1, <1>11, <1>13 DEF NoValue
<1>17. {strength'[i].rank : i \in ranked'} = 1 .. Cardinality(ranked')
  <2>1. {strength'[i].rank : i \in full} = {place[i] : i \in full}
    BY <1>13
  <2> QED
    BY <1>1, <1>11, <2>1
<1> QED
  BY <1>1, <1>3, <1>14, <1>15, <1>16, <1>17 DEF RankInv

(* Nothing but a calculation touches what the invariant is about.          *)
LEMMA RankStep == RankInv /\ [RankNext]_ranking => RankInv'
<1> SUFFICES ASSUME RankInv, [RankNext]_ranking PROVE RankInv'
  OBVIOUS
<1>1. CASE Calculate
  BY <1>1, CalculateStep
<1>2. ASSUME NEW found \in [Listed -> DayRows], StoreRows(found) PROVE RankInv'
  <2>1. \A m \in Listed : Priceable(day'[m])
    BY <1>2, StrengthAssumption DEF StoreRows, Priceable
  <2>2. members' = members /\ strength' = strength /\ ranked' = ranked
    BY <1>2 DEF StoreRows
  <2> QED
    BY <2>1, <2>2 DEF RankInv, MetricsOf
<1>3. ASSUME NEW m \in Listed, NEW i \in Themes, AddMember(m, i) \/ RemoveMember(m, i)
      PROVE  RankInv'
  <2>1. day' = day /\ strength' = strength /\ ranked' = ranked
    BY <1>3 DEF AddMember, RemoveMember
  <2>2. members' \in [Themes -> SUBSET Listed]
    BY <1>3 DEF AddMember, RemoveMember, RankInv
  <2> QED
    BY <2>1, <2>2 DEF RankInv, MetricsOf
<1>4. CASE UNCHANGED ranking
  BY <1>4 DEF ranking, RankInv, MetricsOf
<1> QED
  BY <1>1, <1>2, <1>3, <1>4 DEF RankNext

(* What has the higher score has the earlier place in the list.            *)
LEMMA PlaceFollowsScore ==
  ASSUME RankInv, NEW i \in Themes, NEW j \in Themes,
         strength[i].rank # NoValue, strength[i].score > strength[j].score
  PROVE  Place(i) < Place(j)
<1> DEFINE Earlier(k) == {l \in Themes : strength[l].rank # NoValue /\
                (\/ strength[l].score > strength[k].score
                 \/ (strength[l].score = strength[k].score /\ l < k))}
<1>1. IsFiniteSet(Earlier(i)) /\ IsFiniteSet(Earlier(j))
  BY StrengthAssumption, FS_Subset
<1>2. Themes \subseteq Nat /\ \A k \in Themes : strength[k].score \in Int
  BY StrengthAssumption DEF RankInv
<1>3. Earlier(i) \subseteq Earlier(j) /\ i \in Earlier(j) /\ i \notin Earlier(i)
  <2>1. i \in Earlier(j)
    OBVIOUS
  <2>2. i \notin Earlier(i)
    BY <1>2
  <2>3. ASSUME NEW l \in Earlier(i) PROVE l \in Earlier(j)
    <3>1. /\ strength[l].score \in Int /\ strength[i].score \in Int
          /\ strength[j].score \in Int /\ strength[l].score >= strength[i].score
      BY <1>2
    <3> QED
      BY <3>1
  <2> HIDE DEF Earlier
  <2> QED
    BY <2>1, <2>2, <2>3
<1>4. Place(i) = 1 + Cardinality(Earlier(i)) /\ Place(j) = 1 + Cardinality(Earlier(j))
  BY DEF Place
<1> HIDE DEF Earlier
<1>5. Earlier(i) \cup {i} \subseteq Earlier(j)
  BY <1>3
<1>6. /\ Cardinality(Earlier(i) \cup {i}) = Cardinality(Earlier(i)) + 1
      /\ Cardinality(Earlier(i) \cup {i}) <= Cardinality(Earlier(j))
      /\ Cardinality(Earlier(i)) \in Nat /\ Cardinality(Earlier(j)) \in Nat
  BY <1>1, <1>3, <1>5, FS_AddElement, FS_Subset, FS_CardinalityType
<1> QED
  BY <1>4, <1>6

(* Nothing has been ranked at first.                                       *)
LEMMA RankInitially == RInit => RankInv
<1> SUFFICES ASSUME RInit PROVE RankInv
  OBVIOUS
<1>1. \A m \in Listed : Priceable(day[m])
  <2>1. Cardinality(Listed) \in Nat
    BY StrengthAssumption, FS_CardinalityType
  <2> QED
    BY <2>1 DEF RInit, NoRows, Priceable, NoValue
<1>2. {strength[i].rank : i \in ranked} = 1 .. Cardinality(ranked)
  <2>1. ranked = {} /\ Cardinality(ranked) = 0
    BY FS_EmptySet DEF RInit
  <2> QED
    BY <2>1
<1>3. \A i \in Themes : strength[i].score \in Int
  BY DEF RInit, NoRow, NoValue
<1> QED
  BY <1>1, <1>2, <1>3, StrengthAssumption DEF RInit, RankInv

(* Only a calculation writes ranks, and it ranks all themes with members   *)
(* at once (industry_strength_scoring.py score_group 45,                   *)
(* industry_strength_calculation.py calculate_for_date).                   *)
THEOREM RankInvariant == RankSpec => []RankInv
<1> QED
  BY RankInitially, RankStep, PTL DEF RankSpec

(* The ranks are one to the number of the themes ranked, a theme that      *)
(* leads another in return, breadth, participation and flow, and that      *)
(* turnover is not against, is ranked before it, and so is one of a higher *)
(* score, which the list by score shows before it as well                  *)
(* (industry_strength_scoring.py 28-36, 144-160).                          *)
THEOREM RanksFollowScores == RankSpec => []StrengthRanks
<1>1. RankInv => StrengthRanks
  <2> SUFFICES ASSUME RankInv PROVE StrengthRanks
    OBVIOUS
  <2>1. ranked \subseteq Themes
    BY DEF RankInv
  <2>2. ASSUME NEW i \in ranked, NEW j \in ranked,
               \A c \in Components \ {"turnover"} :
                    strength[i].metrics[c] > strength[j].metrics[c],
               strength[i].metrics.turnover = strength[j].metrics.turnover,
               strength[i].metrics.turnover = NoValue \/ j < i
        PROVE  strength[i].rank < strength[j].rank
    <3>1. LeadsIn(MetricsOf, i, j)
      BY <2>1, <2>2 DEF LeadsIn, MetricsOf, Steady
    <3> QED
      BY <3>1 DEF RankInv
  <2>3. ASSUME NEW i \in ranked, NEW j \in ranked, strength[i].score > strength[j].score
        PROVE  Place(i) < Place(j) /\ strength[i].rank < strength[j].rank
    <3>1. i \in Themes /\ j \in Themes /\ strength[i].rank # NoValue
      BY <2>1 DEF RankInv
    <3> QED
      BY <2>3, <3>1, PlaceFollowsScore DEF RankInv
  <2>4. {strength[i].rank : i \in ranked} = 1 .. Cardinality(ranked)
    BY DEF RankInv
  <2> QED
    BY <2>2, <2>3, <2>4 DEF StrengthRanks
<1> QED
  BY <1>1, RankInvariant, PTL

-----------------------------------------------------------------------------
(*****************************************************************************)
(* The charts of a stock, for any number of days, any bars and any periods.  *)
(* Every series of a calculation is shown to depend, up to an index, on no   *)
(* more than the candles up to that index; the series that follow a          *)
(* recursion do so because no index can be the first at which they differ.   *)
(*****************************************************************************)
ChartSpec == TInit /\ [][ChartNext]_chart

(* Two series agree up to an index.                                        *)
Series(v) == \E n \in Nat : DOMAIN v = 1 .. n
Agree(v, w, m) ==
    /\ Series(v) /\ Series(w) /\ m \in Nat
    /\ 1 .. m \subseteq DOMAIN v /\ 1 .. m \subseteq DOMAIN w
    /\ \A i \in 1 .. m : v[i] = w[i]

(* A mean is of the values of its window.                                  *)
LEMMA MeanAgrees ==
  ASSUME NEW m, NEW v, NEW w, Agree(v, w, m), NEW a \in Int, NEW b \in Int, 1 <= a, b <= m
  PROVE  Mean(v, a, b) = Mean(w, a, b)
<1>1. \A i \in a .. b : v[i] = w[i]
  BY DEF Agree
<1>2. [i \in a .. b |-> v[i]] = [i \in a .. b |-> w[i]]
  BY <1>1
<1> QED
  BY <1>2 DEF Mean, Sum

(* So a moving average up to an index is of the values up to it.           *)
LEMMA SmaAgrees ==
  ASSUME NEW m, NEW v, NEW w, Agree(v, w, m), NEW p \in Nat \ {0}
  PROVE  Agree(Sma(v, p), Sma(w, p), m)
<1>1. /\ m \in Nat /\ Series(v) /\ Series(w) /\ 1 .. m \subseteq DOMAIN v /\ 1 .. m \subseteq DOMAIN w
  BY DEF Agree
<1>2. DOMAIN Sma(v, p) = DOMAIN v /\ DOMAIN Sma(w, p) = DOMAIN w
  BY DEF Sma
<1>3. ASSUME NEW i \in 1 .. m PROVE Sma(v, p)[i] = Sma(w, p)[i]
  <2>1. /\ Sma(v, p)[i] = IF i < p THEN NoFigure ELSE Mean(v, i - p + 1, i)
        /\ Sma(w, p)[i] = IF i < p THEN NoFigure ELSE Mean(w, i - p + 1, i)
    BY <1>1 DEF Sma
  <2>2. CASE i < p
    BY <2>1, <2>2
  <2>3. CASE ~ (i < p)
    <3>1. i - p + 1 \in Int /\ i \in Int /\ 1 <= i - p + 1 /\ i <= m
      BY <1>1, <2>3
    <3>2. Mean(v, i - p + 1, i) = Mean(w, i - p + 1, i)
      BY <3>1, MeanAgrees
    <3> QED
      BY <2>1, <2>3, <3>2
  <2> QED
    BY <2>2, <2>3
<1> QED
  BY <1>1, <1>2, <1>3 DEF Agree, Series

(* An average follows its recursion.                                       *)
SmoothedAt(v, from, p, way, e, i) ==
    IF i < from + p - 1 THEN NoFigure
    ELSE IF i = from + p - 1 THEN Seed(v, from, p) ELSE Follow(way, p, e[i - 1], v[i])

LEMMA SmoothedIs ==
  ASSUME NEW v, Series(v), NEW from \in Nat \ {0}, NEW p \in Nat \ {0}, NEW way,
         NEW e, e = Smoothed(v, from, p, way)
  PROVE  DOMAIN e = DOMAIN v /\ \A i \in DOMAIN v : e[i] = SmoothedAt(v, from, p, way, e, i)
<1> DEFINE Good(k, g) == DOMAIN g = 1 .. k
                         /\ \A i \in 1 .. k : g[i] = SmoothedAt(v, from, p, way, g, i)
           Bad == {k \in Nat : ~ \E g : Good(k, g)}
<1>1. Bad = {}
  <2> SUFFICES ASSUME Bad # {} PROVE FALSE
    OBVIOUS
  <2>1. PICK m \in Bad : \A k \in Bad : m <= k
    <3> HIDE DEF Bad
    <3>1. Bad \in SUBSET Nat
      BY DEF Bad
    <3> QED BY <3>1, LeastOfSome
  <2>2. m \in Nat
    OBVIOUS
  <2>3. CASE m = 0
    <3>1. Good(0, [i \in 1 .. 0 |-> 0])
      OBVIOUS
    <3> HIDE DEF Good
    <3> QED
      BY <2>3, <3>1
  <2>4. CASE m # 0
    <3>1. m - 1 \in Nat /\ ~ (m <= m - 1)
      BY <2>2, <2>4
    <3>2. m - 1 \notin Bad
      <4> HIDE DEF Bad
      <4> QED BY <2>1, <3>1
    <3>3. PICK g : Good(m - 1, g)
      <4> HIDE DEF Good
      <4> QED BY <3>1, <3>2
    <3> DEFINE h == [i \in 1 .. m |-> IF i = m THEN SmoothedAt(v, from, p, way, g, m) ELSE g[i]]
    <3>4. ASSUME NEW i \in 1 .. m PROVE h[i] = SmoothedAt(v, from, p, way, h, i)
      <4>1. i > from + p - 1 => i - 1 \in 1 .. m - 1 /\ h[i - 1] = g[i - 1]
        BY <2>2
      <4>2. SmoothedAt(v, from, p, way, h, i) = SmoothedAt(v, from, p, way, g, i)
        <5> HIDE DEF h
        <5>1. CASE i > from + p - 1
          BY <4>1, <5>1 DEF SmoothedAt
        <5>2. CASE ~ (i > from + p - 1)
          BY <2>2, <5>2 DEF SmoothedAt
        <5> QED
          BY <5>1, <5>2
      <4>3. CASE i = m
        BY <4>2, <4>3
      <4>4. CASE i # m
        <5>1. h[i] = g[i] /\ i \in 1 .. m - 1
          BY <2>2, <4>4
        <5> HIDE DEF h
        <5> QED
          BY <3>3, <4>2, <5>1
      <4> QED
        BY <4>3, <4>4
    <3>5. Good(m, h)
      <4>1. DOMAIN h = 1 .. m
        OBVIOUS
      <4> HIDE DEF h
      <4> QED BY <3>4, <4>1
    <3> HIDE DEF Good, h
    <3> QED
      BY <3>5
  <2> QED
    BY <2>3, <2>4
<1>2. PICK n \in Nat : DOMAIN v = 1 .. n
  BY DEF Series
<1>3. PICK g : Good(n, g)
  <2> HIDE DEF Good
  <2> QED BY <1>1, <1>2
<1>4. \E a : a = [i \in DOMAIN v |-> SmoothedAt(v, from, p, way, a, i)]
  <2> DEFINE a == [i \in 1 .. n |-> g[i]]
  <2>1. \A i \in 1 .. n : a[i] = SmoothedAt(v, from, p, way, a, i)
    <3> SUFFICES ASSUME NEW i \in 1 .. n PROVE a[i] = SmoothedAt(v, from, p, way, a, i)
      OBVIOUS
    <3>1. a[i] = SmoothedAt(v, from, p, way, g, i)
      BY <1>3
    <3>2. i > from + p - 1 => a[i - 1] = g[i - 1]
      OBVIOUS
    <3> HIDE DEF a
    <3>3. CASE i > from + p - 1
      BY <3>1, <3>2, <3>3 DEF SmoothedAt
    <3>4. CASE ~ (i > from + p - 1)
      BY <3>1, <3>4 DEF SmoothedAt
    <3> QED
      BY <3>3, <3>4
  <2>2. a = [i \in 1 .. n |-> a[i]]
    OBVIOUS
  <2> HIDE DEF a
  <2>3. a = [i \in 1 .. n |-> SmoothedAt(v, from, p, way, a, i)]
    BY <2>1, <2>2
  <2> QED
    BY <1>2, <2>3
<1> DEFINE chosen == CHOOSE a : a = [i \in DOMAIN v |->
                        IF i < from + p - 1 THEN NoFigure
                        ELSE IF i = from + p - 1 THEN Seed(v, from, p)
                             ELSE Follow(way, p, a[i - 1], v[i])]
<1>5. e = chosen
  BY DEF Smoothed
<1>6. chosen = [i \in DOMAIN v |-> SmoothedAt(v, from, p, way, chosen, i)]
  BY <1>4 DEF SmoothedAt
<1> HIDE DEF chosen
<1> QED
  BY <1>5, <1>6

(* An average that follows the values up to an index is of those values.   *)
LEMMA SmoothedAgrees ==
  ASSUME NEW m, NEW v, NEW w, Agree(v, w, m),
         NEW from \in Nat \ {0}, NEW p \in Nat \ {0}, NEW way
  PROVE  Agree(Smoothed(v, from, p, way), Smoothed(w, from, p, way), m)
<1> DEFINE e == Smoothed(v, from, p, way)
           f == Smoothed(w, from, p, way)
           Bad == {i \in Nat : i \in 1 .. m /\ e[i] # f[i]}
<1>1. /\ Series(v) /\ Series(w) /\ m \in Nat /\ 1 .. m \subseteq DOMAIN v /\ 1 .. m \subseteq DOMAIN w
      /\ \A i \in 1 .. m : v[i] = w[i]
  BY DEF Agree
<1>2. /\ DOMAIN e = DOMAIN v /\ \A i \in DOMAIN v : e[i] = SmoothedAt(v, from, p, way, e, i)
      /\ DOMAIN f = DOMAIN w /\ \A i \in DOMAIN w : f[i] = SmoothedAt(w, from, p, way, f, i)
  <2> HIDE DEF e, f
  <2>1. e = Smoothed(v, from, p, way) /\ f = Smoothed(w, from, p, way)
    BY DEF e, f
  <2>2. Series(v) /\ Series(w)
    BY <1>1
  <2>3. DOMAIN e = DOMAIN v /\ \A i \in DOMAIN v : e[i] = SmoothedAt(v, from, p, way, e, i)
    BY <2>1, <2>2, SmoothedIs
  <2>4. DOMAIN f = DOMAIN w /\ \A i \in DOMAIN w : f[i] = SmoothedAt(w, from, p, way, f, i)
    BY <2>1, <2>2, SmoothedIs
  <2> QED
    BY <2>3, <2>4
<1> HIDE DEF e, f
<1>3. Bad = {}
  <2> SUFFICES ASSUME Bad # {} PROVE FALSE
    OBVIOUS
  <2>1. PICK i \in Bad : \A k \in Bad : i <= k
    <3> HIDE DEF Bad
    <3>1. Bad \in SUBSET Nat
      BY DEF Bad
    <3> QED BY <3>1, LeastOfSome
  <2>2. i \in 1 .. m /\ e[i] # f[i] /\ i \in Nat
    OBVIOUS
  <2>3. i > from + p - 1 => e[i - 1] = f[i - 1]
    <3> SUFFICES ASSUME i > from + p - 1 PROVE e[i - 1] = f[i - 1]
      OBVIOUS
    <3>1. i - 1 \in Nat /\ i - 1 \in 1 .. m /\ ~ (i <= i - 1)
      BY <1>1, <2>2
    <3> QED
      BY <2>1, <3>1
  <2> HIDE DEF Bad
  <2>4. e[i] = SmoothedAt(v, from, p, way, e, i) /\ f[i] = SmoothedAt(w, from, p, way, f, i)
        /\ v[i] = w[i]
    BY <1>1, <1>2, <2>2
  <2>5. i = from + p - 1 => Seed(v, from, p) = Seed(w, from, p)
    <3> SUFFICES ASSUME i = from + p - 1 PROVE Seed(v, from, p) = Seed(w, from, p)
      OBVIOUS
    <3>1. from \in Int /\ from + p - 1 \in Int /\ 1 <= from /\ from + p - 1 <= m
      BY <1>1, <2>2
    <3> QED
      BY <3>1, MeanAgrees DEF Seed
  <2>6. CASE i > from + p - 1
    BY <2>2, <2>3, <2>4, <2>6 DEF SmoothedAt
  <2>7. CASE ~ (i > from + p - 1)
    BY <2>2, <2>4, <2>5, <2>7 DEF SmoothedAt
  <2> QED
    BY <2>6, <2>7
<1>4. \A i \in 1 .. m : e[i] = f[i]
  BY <1>1, <1>3
<1> QED
  BY <1>1, <1>2, <1>4 DEF Agree, Series, e, f

(* K and D follow theirs.                                                  *)
KdAt(cs, e, i) ==
    IF i < P.kd THEN [k |-> 5000, d |-> 5000, known |-> FALSE] ELSE KdAfter(cs, i, e[i - 1])

LEMMA StochasticIs ==
  ASSUME NEW cs, Series(cs), NEW e, e = Stochastic(cs)
  PROVE  \A i \in DOMAIN cs \cup {0} : e[i] = KdAt(cs, e, i)
<1> DEFINE Good(k, g) == DOMAIN g = 0 .. k /\ \A i \in 0 .. k : g[i] = KdAt(cs, g, i)
           Bad == {k \in Nat : ~ \E g : Good(k, g)}
<1>0. P.kd \in Nat /\ P.kd > 0
  BY ChartAssumption DEF P
<1>1. Bad = {}
  <2> SUFFICES ASSUME Bad # {} PROVE FALSE
    OBVIOUS
  <2>1. PICK m \in Bad : \A k \in Bad : m <= k
    <3> HIDE DEF Bad
    <3>1. Bad \in SUBSET Nat
      BY DEF Bad
    <3> QED BY <3>1, LeastOfSome
  <2>2. m \in Nat
    OBVIOUS
  <2>3. CASE m = 0
    <3>1. Good(0, [i \in 0 .. 0 |-> [k |-> 5000, d |-> 5000, known |-> FALSE]])
      BY <1>0 DEF KdAt
    <3> HIDE DEF Good
    <3> QED
      BY <2>3, <3>1
  <2>4. CASE m # 0
    <3>1. m - 1 \in Nat /\ ~ (m <= m - 1)
      BY <2>2, <2>4
    <3>2. m - 1 \notin Bad
      <4> HIDE DEF Bad
      <4> QED BY <2>1, <3>1
    <3>3. PICK g : Good(m - 1, g)
      <4> HIDE DEF Good
      <4> QED BY <3>1, <3>2
    <3> DEFINE h == [i \in 0 .. m |-> IF i = m THEN KdAt(cs, g, m) ELSE g[i]]
    <3>4. ASSUME NEW i \in 0 .. m PROVE h[i] = KdAt(cs, h, i)
      <4>1. i >= P.kd => i - 1 \in 0 .. m - 1 /\ h[i - 1] = g[i - 1]
        BY <1>0, <2>2
      <4>2. KdAt(cs, h, i) = KdAt(cs, g, i)
        <5> HIDE DEF h
        <5>1. CASE i >= P.kd
          BY <4>1, <5>1 DEF KdAt
        <5>2. CASE ~ (i >= P.kd)
          BY <1>0, <2>2, <5>2 DEF KdAt
        <5> QED
          BY <5>1, <5>2
      <4>3. CASE i = m
        BY <4>2, <4>3
      <4>4. CASE i # m
        <5>1. h[i] = g[i] /\ i \in 0 .. m - 1
          BY <2>2, <4>4
        <5> HIDE DEF h
        <5> QED
          BY <3>3, <4>2, <5>1
      <4> QED
        BY <4>3, <4>4
    <3>5. Good(m, h)
      <4>1. DOMAIN h = 0 .. m
        OBVIOUS
      <4> HIDE DEF h
      <4> QED BY <3>4, <4>1
    <3> HIDE DEF Good, h
    <3> QED
      BY <3>5
  <2> QED
    BY <2>3, <2>4
<1>2. PICK n \in Nat : DOMAIN cs = 1 .. n
  BY DEF Series
<1>3. PICK g : Good(n, g)
  <2> HIDE DEF Good
  <2> QED BY <1>1, <1>2
<1>4. DOMAIN cs \cup {0} = 0 .. n
  BY <1>2
<1>5. \E a : a = [i \in DOMAIN cs \cup {0} |-> KdAt(cs, a, i)]
  <2> DEFINE a == [i \in 0 .. n |-> g[i]]
  <2>1. \A i \in 0 .. n : a[i] = KdAt(cs, a, i)
    <3> SUFFICES ASSUME NEW i \in 0 .. n PROVE a[i] = KdAt(cs, a, i)
      OBVIOUS
    <3>1. a[i] = KdAt(cs, g, i)
      BY <1>3
    <3>2. i >= P.kd => a[i - 1] = g[i - 1]
      BY <1>0
    <3> HIDE DEF a
    <3>3. CASE i >= P.kd
      BY <3>1, <3>2, <3>3 DEF KdAt
    <3>4. CASE ~ (i >= P.kd)
      BY <1>0, <3>1, <3>4 DEF KdAt
    <3> QED
      BY <3>3, <3>4
  <2>2. a = [i \in 0 .. n |-> a[i]]
    OBVIOUS
  <2> HIDE DEF a
  <2>3. a = [i \in 0 .. n |-> KdAt(cs, a, i)]
    BY <2>1, <2>2
  <2> QED
    BY <1>4, <2>3
<1> DEFINE S == DOMAIN cs \cup {0}
           chosen == CHOOSE a : a = [i \in S |-> KdAt(cs, a, i)]
<1>6. e = chosen
  BY DEF Stochastic, KdAt
<1>7. \E a : a = [i \in S |-> KdAt(cs, a, i)]
  BY <1>5
<1> HIDE DEF S
<1>8. chosen = [i \in S |-> KdAt(cs, chosen, i)]
  BY <1>7
<1> HIDE DEF chosen
<1> QED
  BY <1>6, <1>8 DEF S

(* The extremes of a window, and what follows from them.                   *)
LEMMA WindowsAgree ==
  ASSUME NEW m, NEW cs, NEW ds, Agree(cs, ds, m), NEW p \in Nat \ {0},
         NEW i \in 1 .. m, i >= p
  PROVE  Highest(cs, i, p) = Highest(ds, i, p) /\ Lowest(cs, i, p) = Lowest(ds, i, p)
<1>1. \A j \in i - p + 1 .. i : cs[j] = ds[j]
  BY DEF Agree
<1>2. /\ {cs[j].high : j \in i - p + 1 .. i} = {ds[j].high : j \in i - p + 1 .. i}
      /\ {cs[j].low : j \in i - p + 1 .. i} = {ds[j].low : j \in i - p + 1 .. i}
  BY <1>1
<1> QED
  BY <1>2 DEF Highest, Lowest

(* K and D up to an index are of the candles up to it.                     *)
LEMMA StochasticAgrees ==
  ASSUME NEW m, NEW cs, NEW ds, Agree(cs, ds, m)
  PROVE  \A i \in 1 .. m : Stochastic(cs)[i] = Stochastic(ds)[i]
<1> DEFINE e == Stochastic(cs)
           f == Stochastic(ds)
           Bad == {i \in Nat : i \in 0 .. m /\ e[i] # f[i]}
<1>0. P.kd \in Nat \ {0}
  BY ChartAssumption DEF P
<1>1. /\ Series(cs) /\ Series(ds) /\ m \in Nat /\ 1 .. m \subseteq DOMAIN cs /\ 1 .. m \subseteq DOMAIN ds
      /\ \A i \in 1 .. m : cs[i] = ds[i]
  BY DEF Agree
<1>2. /\ \A i \in DOMAIN cs \cup {0} : e[i] = KdAt(cs, e, i)
      /\ \A i \in DOMAIN ds \cup {0} : f[i] = KdAt(ds, f, i)
  <2> HIDE DEF e, f
  <2>1. e = Stochastic(cs) /\ f = Stochastic(ds)
    BY DEF e, f
  <2> QED
    BY <1>1, <2>1, StochasticIs
<1> HIDE DEF e, f
<1>3. Bad = {}
  <2> SUFFICES ASSUME Bad # {} PROVE FALSE
    OBVIOUS
  <2>1. PICK i \in Bad : \A k \in Bad : i <= k
    <3> HIDE DEF Bad
    <3>1. Bad \in SUBSET Nat
      BY DEF Bad
    <3> QED BY <3>1, LeastOfSome
  <2>2. i \in 0 .. m /\ e[i] # f[i] /\ i \in Nat
    OBVIOUS
  <2>3. e[i] = KdAt(cs, e, i) /\ f[i] = KdAt(ds, f, i)
    BY <1>1, <1>2, <2>2
  <2>4. CASE i >= P.kd
    <3>1. i - 1 \in Nat /\ i - 1 \in 0 .. m /\ ~ (i <= i - 1) /\ i \in 1 .. m
      BY <1>0, <1>1, <2>2, <2>4
    <3>2. e[i - 1] = f[i - 1]
      BY <2>1, <3>1
    <3> HIDE DEF Bad
    <3>3. Highest(cs, i, P.kd) = Highest(ds, i, P.kd) /\ Lowest(cs, i, P.kd) = Lowest(ds, i, P.kd)
      BY <1>0, <2>4, <3>1, WindowsAgree
    <3>4. KdAfter(cs, i, e[i - 1]) = KdAfter(ds, i, e[i - 1])
      <4> DEFINE b == e[i - 1]
                 K(high, low, close) ==
                    LET rsv == (10000 * (close - low)) \div (high - low)
                        k == (b.k * (P.k - 1) + rsv) \div P.k
                    IN  IF high = low THEN [b EXCEPT !.known = FALSE]
                        ELSE [k |-> k, d |-> (b.d * (P.d - 1) + k) \div P.d, known |-> TRUE]
      <4>1. /\ KdAfter(cs, i, b) = K(Highest(cs, i, P.kd), Lowest(cs, i, P.kd), cs[i].close)
            /\ KdAfter(ds, i, b) = K(Highest(ds, i, P.kd), Lowest(ds, i, P.kd), ds[i].close)
        <5> HIDE DEF b
        <5> QED BY DEF KdAfter
      <4>2. cs[i].close = ds[i].close
        BY <1>1, <3>1
      <4> HIDE DEF K
      <4> QED
        BY <3>3, <4>1, <4>2
    <3>5. e[i] = KdAfter(cs, i, e[i - 1]) /\ f[i] = KdAfter(ds, i, f[i - 1])
      BY <1>0, <2>2, <2>3, <2>4 DEF KdAt
    <3> QED
      BY <2>2, <3>2, <3>4, <3>5
  <2> HIDE DEF Bad
  <2>5. CASE ~ (i >= P.kd)
    BY <1>0, <2>2, <2>3, <2>5 DEF KdAt
  <2> QED
    BY <2>4, <2>5
<1>4. \A i \in 1 .. m : e[i] = f[i]
  BY <1>1, <1>3
<1> QED
  BY <1>4 DEF e, f

(* The strength of the gains up to an index is of the values up to it.     *)
LEMMA RsiAgrees ==
  ASSUME NEW m, NEW v, NEW w, Agree(v, w, m), NEW p \in Nat \ {0}
  PROVE  \A i \in 1 .. m : Rsi(v, p)[i] = Rsi(w, p)[i]
<1> DEFINE Changes(x) == [i \in {i \in DOMAIN x : i + 1 \in DOMAIN x} |-> x[i + 1] - x[i]]
           Up(c) == [i \in DOMAIN c |-> 100 * Larger(c[i], 0)]
           Down(c) == [i \in DOMAIN c |-> 100 * Larger(-c[i], 0)]
           n == IF m = 0 THEN 0 ELSE m - 1
<1>1. /\ Series(v) /\ Series(w) /\ m \in Nat /\ 1 .. m \subseteq DOMAIN v /\ 1 .. m \subseteq DOMAIN w
      /\ \A i \in 1 .. m : v[i] = w[i]
  BY DEF Agree
<1>2. ASSUME NEW x, Series(x) PROVE Series(Changes(x))
  <2>1. PICK k \in Nat : DOMAIN x = 1 .. k
    BY <1>2 DEF Series
  <2>2. CASE k = 0
    <3>1. DOMAIN Changes(x) = 1 .. 0
      BY <2>1, <2>2
    <3> HIDE DEF Changes
    <3> QED BY <3>1 DEF Series
  <2>3. CASE k # 0
    <3>1. DOMAIN Changes(x) = 1 .. k - 1 /\ k - 1 \in Nat
      BY <2>1, <2>3
    <3> HIDE DEF Changes
    <3> QED BY <3>1 DEF Series
  <2> QED
    BY <2>2, <2>3
<1>3. Agree(Changes(v), Changes(w), n)
  <2>1. n \in Nat
    BY <1>1
  <2>2. \A i \in 1 .. n : i \in 1 .. m /\ i + 1 \in 1 .. m
    BY <1>1
  <2>3. 1 .. n \subseteq DOMAIN Changes(v) /\ 1 .. n \subseteq DOMAIN Changes(w)
    BY <1>1, <2>2
  <2>4. \A i \in 1 .. n : Changes(v)[i] = Changes(w)[i]
    BY <1>1, <2>2, <2>3
  <2>5. Series(Changes(v)) /\ Series(Changes(w))
    BY <1>1, <1>2
  <2> HIDE DEF Changes, n
  <2> QED
    BY <2>1, <2>3, <2>4, <2>5 DEF Agree
<1> DEFINE c == Changes(v)
           d == Changes(w)
<1> HIDE DEF Changes
<1>4. Agree(Up(c), Up(d), n) /\ Agree(Down(c), Down(d), n)
  <2> HIDE DEF c, d, n
  <2>1. /\ Series(c) /\ Series(d) /\ n \in Nat /\ 1 .. n \subseteq DOMAIN c /\ 1 .. n \subseteq DOMAIN d
        /\ \A i \in 1 .. n : c[i] = d[i]
    BY <1>3 DEF Agree, c, d
  <2> QED
    BY <2>1 DEF Agree, Series
<1> DEFINE g == Wilder(Up(c), p)
           h == Wilder(Up(d), p)
           k == Wilder(Down(c), p)
           l == Wilder(Down(d), p)
<1>5. Agree(g, h, n) /\ Agree(k, l, n)
  <2> HIDE DEF Up, Down, c, d, n
  <2> QED BY <1>4, SmoothedAgrees DEF Wilder
<1>6. \A i \in 1 .. n : g[i] = h[i] /\ k[i] = l[i]
  <2> HIDE DEF g, h, k, l, n
  <2> QED BY <1>5, SMTT(30) DEF Agree
<1>7. ASSUME NEW i \in 1 .. m
      PROVE  /\ Rsi(v, p)[i] = IF i <= p THEN NoFigure ELSE IF k[i - 1] = 0 THEN 10000
                               ELSE (10000 * g[i - 1]) \div (g[i - 1] + k[i - 1])
             /\ Rsi(w, p)[i] = IF i <= p THEN NoFigure ELSE IF l[i - 1] = 0 THEN 10000
                               ELSE (10000 * h[i - 1]) \div (h[i - 1] + l[i - 1])
  BY <1>1 DEF Rsi, Changes
<1> HIDE DEF g, h, k, l
<1>8. ASSUME NEW i \in 1 .. m, ~ (i <= p) PROVE i - 1 \in 1 .. n
  BY <1>1, <1>8
<1> HIDE DEF n
<1> QED
  BY <1>1, <1>6, <1>7, <1>8

(* So are differences,                                                     *)
LEMMA MinusAgrees ==
  ASSUME NEW m, NEW a, NEW b, NEW c, NEW d, Agree(a, b, m), Agree(c, d, m)
  PROVE  Agree(Minus(a, c), Minus(b, d), m)
BY DEF Agree, Series, Minus

(* prices at the close,                                                    *)
LEMMA ClosesAgree ==
  ASSUME NEW m, NEW cs, NEW ds, Agree(cs, ds, m)
  PROVE  Agree(Closes(cs), Closes(ds), m)
BY DEF Agree, Series, Closes

(* true ranges,                                                            *)
LEMMA AtrAgrees ==
  ASSUME NEW m, NEW cs, NEW ds, Agree(cs, ds, m)
  PROVE  \A i \in 1 .. m : Atr(cs)[i] = Atr(ds)[i]
<1> DEFINE Span(x, i) ==
              IF i = 1 THEN x[1].high - x[1].low
              ELSE Max({x[i].high - x[i].low, Abs(x[i].high - x[i - 1].close),
                        Abs(x[i].low - x[i - 1].close)})
<1>1. /\ Series(cs) /\ Series(ds) /\ m \in Nat /\ 1 .. m \subseteq DOMAIN cs /\ 1 .. m \subseteq DOMAIN ds
      /\ \A i \in 1 .. m : cs[i] = ds[i]
  BY DEF Agree
<1>2. ASSUME NEW i \in 1 .. m PROVE Span(cs, i) = Span(ds, i)
  <2>1. CASE i = 1
    BY <1>1, <2>1
  <2>2. CASE i # 1
    <3>1. i - 1 \in 1 .. m
      BY <1>1, <2>2
    <3>2. cs[i] = ds[i] /\ cs[i - 1] = ds[i - 1]
      BY <1>1, <3>1
    <3> QED
      BY <2>2, <3>2
  <2> QED
    BY <2>1, <2>2
<1>3. TrueRanges(cs) = [i \in DOMAIN cs |-> Span(cs, i)]
      /\ TrueRanges(ds) = [i \in DOMAIN ds |-> Span(ds, i)]
  BY DEF TrueRanges
<1> HIDE DEF Span
<1>4. Agree(TrueRanges(cs), TrueRanges(ds), m)
  BY <1>1, <1>2, <1>3 DEF Agree, Series
<1>5. P.atr \in Nat \ {0}
  BY ChartAssumption DEF P
<1>6. Agree(Atr(cs), Atr(ds), m)
  BY <1>4, <1>5, SmoothedAgrees DEF Atr, Wilder
<1> QED
  BY <1>6 DEF Agree

(* volumes on balance,                                                     *)
LEMMA ObvAgrees ==
  ASSUME NEW m, NEW cs, NEW ds, Agree(cs, ds, m)
  PROVE  \A i \in 1 .. m : Obv(cs)[i] = Obv(ds)[i]
<1> DEFINE Flow(x, i) == IF i = 1 \/ x[i].volume = NoFigure THEN 0
                         ELSE IF x[i].close > x[i - 1].close THEN x[i].volume
                         ELSE IF x[i].close < x[i - 1].close THEN -x[i].volume ELSE 0
           Flows(x, i) == [j \in 1 .. i |-> Flow(x, j)]
<1>1. /\ m \in Nat /\ 1 .. m \subseteq DOMAIN cs /\ 1 .. m \subseteq DOMAIN ds
      /\ \A i \in 1 .. m : cs[i] = ds[i]
  BY DEF Agree
<1>2. ASSUME NEW i \in 1 .. m PROVE Flow(cs, i) = Flow(ds, i)
  <2>1. CASE i = 1
    BY <2>1
  <2>2. CASE i # 1
    <3>1. i - 1 \in 1 .. m
      BY <1>1, <2>2
    <3>2. cs[i] = ds[i] /\ cs[i - 1] = ds[i - 1]
      BY <1>1, <3>1
    <3> QED
      BY <2>2, <3>2
  <2> QED
    BY <2>1, <2>2
<1> SUFFICES ASSUME NEW i \in 1 .. m PROVE Obv(cs)[i] = Obv(ds)[i]
  OBVIOUS
<1>3. /\ Obv(cs)[i] = IF i > 1 /\ cs[i].volume = NoFigure THEN NoFigure
                      ELSE SumFunction(Flows(cs, i))
      /\ Obv(ds)[i] = IF i > 1 /\ ds[i].volume = NoFigure THEN NoFigure
                      ELSE SumFunction(Flows(ds, i))
  BY <1>1 DEF Obv
<1> HIDE DEF Flow
<1>4. Flows(cs, i) = Flows(ds, i)
  <2>1. \A j \in 1 .. i : j \in 1 .. m
    BY <1>1
  <2> QED
    BY <1>2, <2>1
<1> HIDE DEF Flows
<1> QED
  BY <1>1, <1>3, <1>4

(* deviations from the mean of a window                                    *)
LEMMA DeviationAgrees ==
  ASSUME NEW m, NEW v, NEW w, Agree(v, w, m), NEW p \in Nat \ {0}, NEW i \in 1 .. m, i >= p
  PROVE  Deviation(v, i, p) = Deviation(w, i, p)
<1> DEFINE a == i - p + 1
           mean == Mean(v, a, i)
           Squares(x) == [j \in DOMAIN x |-> (x[j] - mean) * (x[j] - mean)]
<1>1. /\ Series(v) /\ Series(w) /\ m \in Nat /\ 1 .. m \subseteq DOMAIN v /\ 1 .. m \subseteq DOMAIN w
      /\ \A j \in 1 .. m : v[j] = w[j]
  BY DEF Agree
<1>2. a \in Int /\ i \in Int /\ 1 <= a /\ i <= m
  BY <1>1
<1>3. Mean(w, a, i) = mean
  <2> HIDE DEF a
  <2> QED BY <1>2, MeanAgrees
<1> HIDE DEF mean, a
<1>4. Agree(Squares(v), Squares(w), m)
  <2>1. \A j \in 1 .. m : Squares(v)[j] = Squares(w)[j]
    <3> SUFFICES ASSUME NEW j \in 1 .. m PROVE Squares(v)[j] = Squares(w)[j]
      OBVIOUS
    <3>1. j \in DOMAIN v /\ j \in DOMAIN w /\ v[j] = w[j]
      BY <1>1
    <3> QED BY <3>1
  <2>2. DOMAIN Squares(v) = DOMAIN v /\ DOMAIN Squares(w) = DOMAIN w
    OBVIOUS
  <2> HIDE DEF Squares
  <2> QED
    BY <1>1, <2>1, <2>2 DEF Agree, Series
<1>5. Deviation(v, i, p) = Root(Mean(Squares(v), a, i))
  BY DEF Deviation, mean, a
<1>6. Deviation(w, i, p) = Root(Mean(Squares(w), a, i))
  BY <1>3 DEF Deviation, a
<1> HIDE DEF Squares
<1>7. Mean(Squares(v), a, i) = Mean(Squares(w), a, i)
  BY <1>2, <1>4, MeanAgrees
<1> QED
  BY <1>5, <1>6, <1>7

(* and places in the range of a window.                                    *)
LEMMA WilliamsAgrees ==
  ASSUME NEW m, NEW cs, NEW ds, Agree(cs, ds, m)
  PROVE  \A i \in 1 .. m : WilliamsR(cs)[i] = WilliamsR(ds)[i]
<1>0. P.williams \in Nat \ {0}
  BY ChartAssumption DEF P
<1>1. /\ m \in Nat /\ 1 .. m \subseteq DOMAIN cs /\ 1 .. m \subseteq DOMAIN ds
      /\ \A i \in 1 .. m : cs[i] = ds[i]
  BY DEF Agree
<1> SUFFICES ASSUME NEW i \in 1 .. m PROVE WilliamsR(cs)[i] = WilliamsR(ds)[i]
  OBVIOUS
<1> DEFINE W(high, low, close) ==
              IF i < P.williams \/ high = low THEN NoFigure
              ELSE (-10000 * (high - close)) \div (high - low)
<1>2. /\ WilliamsR(cs)[i] = W(Highest(cs, i, P.williams), Lowest(cs, i, P.williams), cs[i].close)
      /\ WilliamsR(ds)[i] = W(Highest(ds, i, P.williams), Lowest(ds, i, P.williams), ds[i].close)
  BY <1>1 DEF WilliamsR
<1>3. CASE i < P.williams
  BY <1>2, <1>3
<1>4. CASE ~ (i < P.williams)
  <2>1. i >= P.williams
    BY <1>0, <1>1, <1>4
  <2>2. /\ Highest(cs, i, P.williams) = Highest(ds, i, P.williams)
        /\ Lowest(cs, i, P.williams) = Lowest(ds, i, P.williams)
    BY <1>0, <2>1, WindowsAgree
  <2>3. cs[i].close = ds[i].close
    BY <1>1
  <2> HIDE DEF W
  <2> QED
    BY <1>2, <2>2, <2>3
<1> QED
  BY <1>3, <1>4

(* The indicators of a candle are of the candles up to it.                 *)
LEMMA IndicatorsAgree ==
  ASSUME NEW m, NEW cs, NEW ds, Agree(cs, ds, m)
  PROVE  \A i \in 1 .. m : Indicators(cs)[i] = Indicators(ds)[i]
<1> DEFINE v == Closes(cs)
           w == Closes(ds)
<1>1. Agree(v, w, m)
  BY ClosesAgree
<1> HIDE DEF v, w
<1>2. /\ P.ma \in Nat \ {0} /\ P.ema \in Nat \ {0} /\ P.rsi \in Nat \ {0} /\ P.fast \in Nat \ {0}
      /\ P.slow \in Nat \ {0} /\ P.signal \in Nat \ {0} /\ P.bollinger \in Nat \ {0}
      /\ 1 \in Nat \ {0}
  BY ChartAssumption DEF P
<1>3. Agree(Sma(v, P.ma), Sma(w, P.ma), m) /\ Agree(Sma(v, P.bollinger), Sma(w, P.bollinger), m)
  BY <1>1, <1>2, SmaAgrees
<1>4. ASSUME NEW p \in Nat \ {0} PROVE Agree(Ema(v, p), Ema(w, p), m)
  BY <1>1, <1>2, SmoothedAgrees DEF Ema, Exponential
<1>5. Agree(MacdLine(v), MacdLine(w), m)
  BY <1>2, <1>4, MinusAgrees DEF MacdLine
<1>6. Agree(MacdSignal(v), MacdSignal(w), m)
  BY <1>2, <1>5, SmoothedAgrees DEF MacdSignal, Exponential
<1>7. Agree(Minus(MacdLine(v), MacdSignal(v)), Minus(MacdLine(w), MacdSignal(w)), m)
  BY <1>5, <1>6, MinusAgrees
<1>8. \A i \in 1 .. m : Rsi(v, P.rsi)[i] = Rsi(w, P.rsi)[i]
  BY <1>1, <1>2, RsiAgrees
<1> SUFFICES ASSUME NEW i \in 1 .. m PROVE Indicators(cs)[i] = Indicators(ds)[i]
  OBVIOUS
<1> DEFINE Width(x) == IF i < P.bollinger THEN 0 ELSE P.stddev * Deviation(x, i, P.bollinger)
           Kd(x) == IF Stochastic(x)[i].known THEN <<Stochastic(x)[i].k, Stochastic(x)[i].d>>
                    ELSE <<NoFigure, NoFigure>>
           RowOf(x, y) ==
              [ma |-> Sma(y, P.ma)[i], ema |-> Ema(y, P.ema)[i], rsi |-> Rsi(y, P.rsi)[i],
               macd |-> MacdLine(y)[i], signal |-> MacdSignal(y)[i],
               histogram |-> Minus(MacdLine(y), MacdSignal(y))[i], kd |-> Kd(x),
               atr |-> Atr(x)[i], obv |-> Obv(x)[i], middle |-> Sma(y, P.bollinger)[i],
               width |-> Width(y), williams |-> WilliamsR(x)[i]]
<1>9. i \in DOMAIN cs /\ i \in DOMAIN ds
  BY DEF Agree
<1>10. Indicators(cs)[i] = RowOf(cs, v) /\ Indicators(ds)[i] = RowOf(ds, w)
  BY <1>9 DEF Indicators, v, w
<1>11. /\ Sma(v, P.ma)[i] = Sma(w, P.ma)[i] /\ Ema(v, P.ema)[i] = Ema(w, P.ema)[i]
       /\ Sma(v, P.bollinger)[i] = Sma(w, P.bollinger)[i]
       /\ MacdLine(v)[i] = MacdLine(w)[i] /\ MacdSignal(v)[i] = MacdSignal(w)[i]
       /\ Minus(MacdLine(v), MacdSignal(v))[i] = Minus(MacdLine(w), MacdSignal(w))[i]
  BY <1>2, <1>3, <1>4, <1>5, <1>6, <1>7 DEF Agree
<1>12. Width(v) = Width(w)
  <2>1. CASE i < P.bollinger
    BY <2>1
  <2>2. CASE ~ (i < P.bollinger)
    <3>1. i >= P.bollinger
      BY <1>2, <2>2
    <3>2. Deviation(v, i, P.bollinger) = Deviation(w, i, P.bollinger)
      BY <1>1, <1>2, <3>1, DeviationAgrees
    <3> QED
      BY <3>2
  <2> QED
    BY <2>1, <2>2
<1>13. Kd(cs) = Kd(ds) /\ Atr(cs)[i] = Atr(ds)[i] /\ Obv(cs)[i] = Obv(ds)[i]
       /\ WilliamsR(cs)[i] = WilliamsR(ds)[i]
  BY StochasticAgrees, AtrAgrees, ObvAgrees, WilliamsAgrees
<1> HIDE DEF Width, Kd
<1> QED
  BY <1>8, <1>10, <1>11, <1>12, <1>13

(* The candles of a table of prices, and what a request makes of them.     *)
TradedOf(q, to) == {d \in Days : d <= to /\ q[d].close # NoFigure}
CandlesOf(q, to) ==
    [k \in 1 .. Cardinality(TradedOf(q, to)) |->
        q[CHOOSE d \in TradedOf(q, to) : Cardinality(TradedOf(q, d)) = k]]
RequestedOf(q, to) ==
    [d \in TradedOf(q, to) |-> Indicators(CandlesOf(q, to))[Cardinality(TradedOf(q, d))]]

(* They are the model's, for the prices that are stored.                   *)
LEMMA RequestedIs == \A to : Traded(to) = TradedOf(prices, to)
                             /\ Requested(to) = RequestedOf(prices, to)
BY DEF Traded, Candles, Requested, TradedOf, CandlesOf, RequestedOf

(* Days are counted from one.                                              *)
LEMMA DaysAre == /\ IsFiniteSet(Days) /\ Days \subseteq Nat
                 /\ Max(Days) \in Days /\ \A d \in Days : d <= Max(Days)
<1> DEFINE n == Cardinality(Days)
<1>1. n \in Nat /\ n # 0 /\ Days = 1 .. n /\ IsFiniteSet(Days)
  BY ChartAssumption, FS_CardinalityType, FS_EmptySet
<1>2. Max(Days) = CHOOSE x \in Days : \A y \in Days : x >= y
  BY DEF Max
<1> HIDE DEF n
<1>3. n \in Days /\ Days \subseteq Nat /\ \A d \in Days : n >= d
  BY <1>1
<1>4. Max(Days) \in Days /\ \A y \in Days : Max(Days) >= y
  BY <1>2, <1>3
<1> QED
  BY <1>1, <1>3, <1>4

(* A day that is traded is the candle of its number, in every request.     *)
LEMMA CandleOfDay ==
  ASSUME NEW q, NEW to \in Days, NEW d \in Days, d <= to,
         NEW k \in 1 .. Cardinality(TradedOf(q, d))
  PROVE  /\ Cardinality(TradedOf(q, d)) \in Nat
         /\ Cardinality(TradedOf(q, d)) <= Cardinality(TradedOf(q, to))
         /\ Cardinality(TradedOf(q, to)) \in Nat
         /\ (CHOOSE e \in TradedOf(q, to) : Cardinality(TradedOf(q, e)) = k)
              \in TradedOf(q, d)
         /\ (CHOOSE e \in TradedOf(q, to) : Cardinality(TradedOf(q, e)) = k)
              = (CHOOSE e \in TradedOf(q, d) : Cardinality(TradedOf(q, e)) = k)
<1> DEFINE D == TradedOf(q, to)
           R == {p \in D \X D : p[1] < p[2]}
           place == [x \in D |-> PlaceIn(D, R, x)]
           Number(x) == Cardinality(TradedOf(q, x))
<1>1. IsFiniteSet(Days) /\ \A x \in Days : x \in Nat
  BY DaysAre
<1>2. ASSUME NEW x \in Days
      PROVE  IsFiniteSet(TradedOf(q, x)) /\ Number(x) \in Nat
  <2>1. TradedOf(q, x) \subseteq Days
    BY DEF TradedOf
  <2> QED
    BY <1>1, <2>1, FS_Subset, FS_CardinalityType
<1>3. D \subseteq Days /\ IsFiniteSet(D) /\ \A x \in D : x <= to /\ q[x].close # NoFigure
  BY <1>2 DEF TradedOf
<1>4. ASSUME NEW x \in D PROVE place[x] = Number(x)
  <2> DEFINE B == {y \in D : <<y, x>> \in R}
  <2>a. \A y : y \in B <=> y \in D /\ y < x
    BY <1>4
  <2>b. x \in Days /\ x \in Nat /\ to \in Nat /\ x <= to
    BY <1>1, <1>3, <1>4
  <2>c. \A y : y \in TradedOf(q, x) <=> y \in Days /\ y <= x /\ q[y].close # NoFigure
    BY DEF TradedOf
  <2>d. \A y : y \in D <=> y \in Days /\ y <= to /\ q[y].close # NoFigure
    BY DEF TradedOf
  <2>1. B \cup {x} = TradedOf(q, x)
    <3> HIDE DEF B, D
    <3>1. ASSUME NEW y \in TradedOf(q, x) PROVE y \in B \cup {x}
      <4>1. y \in Days /\ y \in Nat /\ y <= x /\ q[y].close # NoFigure
        BY <1>1, <2>c, <3>1
      <4> QED
        BY <2>a, <2>b, <2>d, <4>1
    <3>2. ASSUME NEW y \in B PROVE y \in TradedOf(q, x)
      <4>1. y \in Days /\ y \in Nat /\ y < x /\ q[y].close # NoFigure
        BY <1>1, <2>a, <2>d, <3>2
      <4> QED
        BY <2>b, <2>c, <4>1
    <3>3. x \in TradedOf(q, x)
      BY <1>4, <2>b, <2>c, <2>d
    <3> QED
      BY <3>1, <3>2, <3>3
  <2>2. x \notin B
    <3> HIDE DEF B, D
    <3> QED BY <2>a, <2>b
  <2>3. IsFiniteSet(B) /\ Cardinality(B) \in Nat
    <3>1. B \subseteq D
      OBVIOUS
    <3> HIDE DEF B
    <3> QED BY <1>3, <3>1, FS_Subset, FS_CardinalityType
  <2>4. place[x] = 1 + Cardinality(B)
    BY <1>4 DEF PlaceIn
  <2> HIDE DEF B
  <2>5. Cardinality(B \cup {x}) = Cardinality(B) + 1
    BY <2>2, <2>3, FS_AddElement DEF B
  <2>6. Number(x) = Cardinality(B \cup {x})
    BY <2>1
  <2> HIDE DEF place, Number
  <2> QED
    BY <2>3, <2>4, <2>5, <2>6
<1>5. Line(D, R)
  <2>1. \A x, y \in D : <<x, y>> \in R <=> x < y
    OBVIOUS
  <2>2. D \subseteq Nat
    BY <1>1, <1>3
  <2> HIDE DEF D, R
  <2> QED
    BY <2>1, <2>2 DEF Line
<1>6. /\ \A x, y \in D : place[x] = place[y] => x = y
      /\ {place[x] : x \in D} = 1 .. Cardinality(D)
  <2>1. place = [x \in D |-> PlaceIn(D, R, x)]
    OBVIOUS
  <2> HIDE DEF place, R, D
  <2> QED
    BY <1>3, <1>5, <2>1, InALine
<1> HIDE DEF place, R
<1>7. \A x, y \in D : Number(x) = Number(y) => x = y
  BY <1>4, <1>6
<1>9. Number(d) \in Nat /\ Number(to) \in Nat /\ Number(d) <= Number(to)
  <2>1. TradedOf(q, d) \subseteq TradedOf(q, to)
    <3> SUFFICES ASSUME NEW y \in Days, y <= d, q[y].close # NoFigure
                 PROVE  y \in TradedOf(q, to)
      BY DEF TradedOf
    <3>1. y \in Nat /\ d \in Nat /\ to \in Nat
      BY <1>1
    <3> QED
      BY <3>1 DEF TradedOf
  <2> QED
    BY <1>2, <2>1, FS_Subset
<1>10. PICK x \in D : Number(x) = k
  BY <1>4, <1>6, <1>9
<1>11. x \in TradedOf(q, d)
  <2>1. CASE x <= d
    BY <1>3, <2>1 DEF TradedOf
  <2>2. CASE ~ (x <= d)
    <3>a. x \in Days /\ x \in Nat /\ d \in Nat /\ q[x].close # NoFigure
      BY <1>1, <1>3
    <3>b. ASSUME NEW y \in TradedOf(q, d) PROVE y \in TradedOf(q, x)
      <4>1. y \in Days /\ y \in Nat /\ y <= d /\ q[y].close # NoFigure
        BY <1>1, <3>b DEF TradedOf
      <4> QED
        BY <2>2, <3>a, <4>1 DEF TradedOf
    <3>c. x \in TradedOf(q, x)
      BY <3>a DEF TradedOf
    <3>1. TradedOf(q, d) \cup {x} \subseteq TradedOf(q, x) /\ x \notin TradedOf(q, d)
      <4>1. x \notin TradedOf(q, d)
        BY <2>2 DEF TradedOf
      <4> QED
        BY <3>b, <3>c, <4>1
    <3>2. /\ Cardinality(TradedOf(q, d) \cup {x}) = Number(d) + 1
          /\ Cardinality(TradedOf(q, d) \cup {x}) <= Number(x)
      BY <1>2, <1>3, <3>1, FS_AddElement, FS_Subset
    <3> QED
      BY <1>9, <1>10, <3>2
  <2> QED
    BY <2>1, <2>2
<1>12. TradedOf(q, d) \subseteq D
  <2> SUFFICES ASSUME NEW y \in Days, y <= d, q[y].close # NoFigure
               PROVE  y \in D
    BY DEF TradedOf
  <2>1. y \in Nat /\ d \in Nat /\ to \in Nat
    BY <1>1
  <2> QED
    BY <2>1 DEF TradedOf
<1> HIDE DEF D
<1>13. \A e \in D : Number(e) = k => e = x
  BY <1>7, <1>10
<1>14. (CHOOSE e \in D : Number(e) = k) = x
  BY <1>10, <1>13
<1>15. (CHOOSE e \in TradedOf(q, d) : Number(e) = k) = x
  BY <1>10, <1>11, <1>12, <1>13
<1> QED
  BY <1>9, <1>11, <1>14, <1>15 DEF D

(* Two tables of prices are the same up to a day.                          *)
SameUpTo(q, r, d) == \A e \in Days : e <= d => q[e] = r[e]

(* Requests of prices that agree up to a day agree on that day.            *)
LEMMA RequestsAgree ==
  ASSUME NEW q, NEW r, NEW d \in Days, SameUpTo(q, r, d),
         NEW a \in Days, d <= a, NEW b \in Days, d <= b, d \in TradedOf(q, a)
  PROVE  d \in TradedOf(r, b) /\ RequestedOf(q, a)[d] = RequestedOf(r, b)[d]
<1> DEFINE m == Cardinality(TradedOf(q, d))
<1>1. IsFiniteSet(Days) /\ \A e \in Days : e \in Nat
  BY DaysAre
<1>2. ASSUME NEW e \in Days, e <= d PROVE TradedOf(q, e) = TradedOf(r, e)
  <2>1. ASSUME NEW x \in Days, x <= e PROVE q[x] = r[x]
    <3>1. x \in Nat /\ e \in Nat /\ d \in Nat
      BY <1>1
    <3> QED BY <1>2, <2>1, <3>1 DEF SameUpTo
  <2> QED
    BY <2>1 DEF TradedOf
<1>3. d \in TradedOf(r, b) /\ d \in TradedOf(q, d)
  <2>1. d \in Nat /\ q[d] = r[d] /\ q[d].close # NoFigure
    BY <1>1 DEF TradedOf, SameUpTo
  <2> QED
    BY <2>1 DEF TradedOf
<1>4. IsFiniteSet(TradedOf(q, d)) /\ m \in Nat /\ m > 0
  <2>1. IsFiniteSet(TradedOf(q, d))
    <3>1. TradedOf(q, d) \subseteq Days
      BY DEF TradedOf
    <3> QED BY <1>1, <3>1, FS_Subset
  <2> QED
    BY <1>3, <2>1, FS_CardinalityType, FS_EmptySet
<1>5. TradedOf(r, d) = TradedOf(q, d)
  <2>1. d \in Nat
    BY <1>1
  <2> QED BY <1>2, <2>1
<1> DEFINE DayAt(p, to, k) == CHOOSE e \in TradedOf(p, to) : Cardinality(TradedOf(p, e)) = k
<1>6. ASSUME NEW k \in 1 .. m
      PROVE  /\ DayAt(q, a, k) \in TradedOf(q, d) /\ DayAt(q, a, k) = DayAt(q, d, k)
             /\ DayAt(r, b, k) \in TradedOf(q, d) /\ DayAt(r, b, k) = DayAt(r, d, k)
             /\ m <= Cardinality(TradedOf(q, a)) /\ m <= Cardinality(TradedOf(r, b))
             /\ Cardinality(TradedOf(q, a)) \in Nat /\ Cardinality(TradedOf(r, b)) \in Nat
  <2>1. k \in 1 .. Cardinality(TradedOf(q, d)) /\ k \in 1 .. Cardinality(TradedOf(r, d))
    BY <1>5
  <2>2. /\ DayAt(q, a, k) \in TradedOf(q, d) /\ DayAt(q, a, k) = DayAt(q, d, k)
        /\ m <= Cardinality(TradedOf(q, a)) /\ Cardinality(TradedOf(q, a)) \in Nat
    BY <2>1, CandleOfDay
  <2>3. /\ DayAt(r, b, k) \in TradedOf(r, d) /\ DayAt(r, b, k) = DayAt(r, d, k)
        /\ Cardinality(TradedOf(r, d)) <= Cardinality(TradedOf(r, b))
        /\ Cardinality(TradedOf(r, b)) \in Nat
    BY <2>1, CandleOfDay
  <2> QED
    BY <1>5, <2>2, <2>3
<1>7. ASSUME NEW k \in 1 .. m PROVE DayAt(q, d, k) = DayAt(r, d, k)
  <2>1. \A e \in TradedOf(q, d) : TradedOf(q, e) = TradedOf(r, e)
    BY <1>2 DEF TradedOf
  <2>2. \A e \in TradedOf(q, d) : Cardinality(TradedOf(q, e)) = k <=> Cardinality(TradedOf(r, e)) = k
    BY <2>1
  <2> QED
    BY <1>5, <2>2
<1>8. \A k \in 1 .. m : q[DayAt(q, a, k)] = r[DayAt(r, b, k)]
  <2> SUFFICES ASSUME NEW k \in 1 .. m PROVE q[DayAt(q, a, k)] = r[DayAt(r, b, k)]
    OBVIOUS
  <2>1. DayAt(q, a, k) = DayAt(r, b, k) /\ DayAt(q, a, k) \in TradedOf(q, d)
    BY <1>6, <1>7
  <2>2. DayAt(q, a, k) \in Days /\ DayAt(q, a, k) <= d
    BY <2>1 DEF TradedOf
  <2> HIDE DEF DayAt
  <2> QED
    BY <2>1, <2>2 DEF SameUpTo
<1>9. 1 \in 1 .. m
  BY <1>4
<1>10. Agree(CandlesOf(q, a), CandlesOf(r, b), m)
  <2> DEFINE na == Cardinality(TradedOf(q, a))
             nb == Cardinality(TradedOf(r, b))
  <2>1. na \in Nat /\ nb \in Nat /\ m <= na /\ m <= nb
    BY <1>6, <1>9
  <2>2. /\ CandlesOf(q, a) = [k \in 1 .. na |-> q[DayAt(q, a, k)]]
        /\ CandlesOf(r, b) = [k \in 1 .. nb |-> r[DayAt(r, b, k)]]
    BY DEF CandlesOf
  <2> HIDE DEF DayAt, na, nb, m
  <2>3. Series(CandlesOf(q, a)) /\ Series(CandlesOf(r, b))
    BY <2>1, <2>2 DEF Series
  <2>4. 1 .. m \subseteq 1 .. na /\ 1 .. m \subseteq 1 .. nb
    BY <1>4, <2>1
  <2>5. \A k \in 1 .. m : CandlesOf(q, a)[k] = CandlesOf(r, b)[k]
    BY <1>8, <2>2, <2>4
  <2> QED
    BY <1>4, <2>2, <2>3, <2>4, <2>5 DEF Agree
<1>11. Indicators(CandlesOf(q, a))[m] = Indicators(CandlesOf(r, b))[m]
  <2>1. m \in 1 .. m
    BY <1>4
  <2> HIDE DEF m
  <2> QED BY <1>10, <2>1, IndicatorsAgree
<1> QED
  BY <1>3, <1>5, <1>11 DEF RequestedOf

-----------------------------------------------------------------------------
(* What is stored is what a request of the prices it was calculated from   *)
(* would give.                                                             *)
ChartInv == technicals = RequestedOf(calculated, Max(Days))

(* A calculation replaces the rows of all days, those of days that lost    *)
(* their price included, so what is stored is always one calculation of    *)
(* one table of prices, however the prices were corrected since            *)
(* (recalculate of daily_price_ingestion.py 181-205, replace_technicals of *)
(* sql_price.py 173-201).                                                  *)
THEOREM ChartInvariant == ChartSpec => []ChartInv
<1>1. TInit => ChartInv
  <2> SUFFICES ASSUME TInit PROVE ChartInv
    OBVIOUS
  <2>1. TradedOf(calculated, Max(Days)) = {}
    BY DEF TInit, TradedOf, NoDay, NoBar
  <2> QED
    BY <2>1 DEF TInit, ChartInv, RequestedOf, NotCalculated
<1>2. ChartInv /\ [ChartNext]_chart => ChartInv'
  <2> SUFFICES ASSUME ChartInv, [ChartNext]_chart PROVE ChartInv'
    OBVIOUS
  <2>a. ASSUME calculated' = calculated
        PROVE  RequestedOf(calculated, Max(Days))' = RequestedOf(calculated, Max(Days))
    <3>1. RequestedOf(calculated, Max(Days))' = RequestedOf(calculated', Max(Days))
      BY DEF RequestedOf, CandlesOf, TradedOf
    <3> QED
      BY <2>a, <3>1
  <2>1. ASSUME NEW d \in Days, NEW bar, StorePrice(d, bar) PROVE ChartInv'
    <3>1. technicals' = technicals /\ calculated' = calculated
      BY <2>1 DEF StorePrice
    <3> QED
      BY <3>1, <2>a DEF ChartInv
  <2>2. CASE Recalculate
    <3>1. technicals' = RequestedOf(prices, Max(Days)) /\ calculated' = prices
      BY <2>2, RequestedIs DEF Recalculate
    <3>2. RequestedOf(calculated, Max(Days))' = RequestedOf(calculated', Max(Days))
      BY DEF RequestedOf, CandlesOf, TradedOf
    <3> QED
      BY <3>1, <3>2 DEF ChartInv
  <2>3. CASE UNCHANGED chart
    BY <2>a, <2>3 DEF chart, ChartInv
  <2> QED
    BY <2>1, <2>2, <2>3 DEF ChartNext
<1> QED
  BY <1>1, <1>2, PTL DEF ChartSpec

(* Nothing looks ahead: a request up to any date gives, for every day up   *)
(* to which the prices are those of the last calculation, the stored       *)
(* indicators, whatever was stored or corrected later, and a week that is  *)
(* over is the same candle from every later date (technical_indicators.py  *)
(* 16-171, candle_aggregation.py 37-57, get_technicals of securities.py).  *)
THEOREM NothingLooksAhead == ChartSpec => []SeriesNeverLookAhead
<1>1. ChartInv => SeriesNeverLookAhead
  <2> SUFFICES ASSUME ChartInv, NEW to \in Days
               PROVE  /\ \A d \in DOMAIN Requested(to) :
                           (\A e \in Days : e <= d => prices[e] = calculated[e]) =>
                              /\ d \in DOMAIN technicals
                              /\ Requested(to)[d] = technicals[d]
                      /\ \A w \in DOMAIN Weeks(to) :
                           WeekOf(to + 1) > w => Weeks(to)[w] = Weeks(Max(Days))[w]
    BY DEF SeriesNeverLookAhead
  <2> DEFINE last == Max(Days)
  <2>1. last \in Days /\ \A d \in Days : d <= last
    BY DaysAre
  <2>2. (\A d \in Days : d \in Nat) /\ DaysOfWeek \in Nat /\ DaysOfWeek > 0
    BY ChartAssumption, DaysAre
  <2>3. Requested(to) = RequestedOf(prices, to) /\ technicals = RequestedOf(calculated, last)
    BY RequestedIs DEF ChartInv
  <2> HIDE DEF last
  <2>4. DOMAIN Requested(to) = TradedOf(prices, to) /\ DOMAIN technicals = TradedOf(calculated, last)
    BY <2>3 DEF RequestedOf
  <2>5. ASSUME NEW d \in TradedOf(prices, to), \A e \in Days : e <= d => prices[e] = calculated[e]
        PROVE  d \in TradedOf(calculated, last) /\ Requested(to)[d] = technicals[d]
    <3>1. d \in Days /\ d <= to
      BY DEF TradedOf
    <3>2. d <= last
      BY <2>1, <3>1
    <3>3. /\ d \in TradedOf(calculated, last)
          /\ RequestedOf(prices, to)[d] = RequestedOf(calculated, last)[d]
      <4>1. SameUpTo(prices, calculated, d)
        BY <2>5 DEF SameUpTo
      <4> QED
        BY <2>1, <2>5, <3>1, <3>2, <4>1, RequestsAgree
    <3> QED
      BY <2>3, <3>3
  <2>6. ASSUME NEW w \in DOMAIN Weeks(to), WeekOf(to + 1) > w
        PROVE  Weeks(to)[w] = Weeks(last)[w]
    <3> DEFINE Of(x) == {d \in Traded(x) : WeekOf(d) = w}
    <3>1. \A x : Weeks(x) = [y \in {WeekOf(d) : d \in Traded(x)} |->
                               Merge({d \in Traded(x) : WeekOf(d) = y})]
      BY DEF Weeks
    <3>2. w \in {WeekOf(d) : d \in Traded(to)}
      BY <2>6, <3>1
    <3>3. Traded(to) \subseteq Traded(last)
      BY <2>1, <2>2 DEF Traded
    <3>4. w \in {WeekOf(d) : d \in Traded(last)}
      BY <3>2, <3>3
    <3>5. Of(last) \subseteq Of(to)
      <4> SUFFICES ASSUME NEW d \in Traded(last), WeekOf(d) = w PROVE d \in Traded(to)
        OBVIOUS
      <4>1. d \in Days /\ d \in Nat /\ to \in Nat
        BY <2>2 DEF Traded
      <4>2. CASE d <= to
        BY <4>1, <4>2 DEF Traded
      <4>3. CASE ~ (d <= to)
        <5> DEFINE x == d - 1
                   y == to
                   k == DaysOfWeek
        <5>1. x \in Nat /\ y \in Nat /\ y <= x /\ k \in Nat /\ k > 0
          BY <2>2, <4>1, <4>3
        <5>2. WeekOf(d) = x \div k /\ WeekOf(to + 1) = y \div k
          BY <4>1 DEF WeekOf
        <5> HIDE DEF x, y, k
        <5>3. y \div k <= x \div k /\ y \div k \in Int /\ x \div k \in Int
          BY <5>1
        <5> QED
          BY <2>6, <5>2, <5>3
      <4> QED
        BY <4>2, <4>3
    <3>6. Of(last) = Of(to)
      BY <3>3, <3>5
    <3> HIDE DEF Of
    <3>7. Weeks(to)[w] = Merge(Of(to)) /\ Weeks(last)[w] = Merge(Of(last))
      BY <3>1, <3>2, <3>4 DEF Of
    <3> QED
      BY <3>6, <3>7
  <2> QED
    BY <2>4, <2>5, <2>6 DEF last
<1> QED
  BY <1>1, ChartInvariant, PTL

-----------------------------------------------------------------------------
(*****************************************************************************)
(* The live sectors, for any stocks, sectors and quotes, and failures of     *)
(* Redis at any step. The invariant says which sectors' snapshots are those  *)
(* of the last quotes, that a type whose last scoring was not cut short is   *)
(* ranked as a whole, and that what is published is one whole ranking.       *)
(*****************************************************************************)
LiveSpec == LInit /\ [][LiveNext]_live

(* A snapshot of a sector: a return and a breadth if members have a price, *)
(* and live only if enough have.                                           *)
Fields == {"momentum", "breadth", "technical", "turnover", "valid", "quoted", "status",
           "score", "rank"}
Fair(row, i) ==
    /\ DOMAIN row = Fields
    /\ row.valid \in Nat /\ row.momentum \in Int /\ row.breadth \in Int
    /\ row.technical = NoValue /\ row.turnover = NoValue
    /\ row.valid = 0 <=> row.momentum = NoValue
    /\ row.valid = 0 <=> row.breadth = NoValue
    /\ row.status = "LIVE" => 10 * row.valid >= 6 * Cardinality(MembersOf[i])

QuotesOK(quotes) ==
    /\ DOMAIN quotes = ActiveStocks
    /\ \A s \in ActiveStocks : quotes[s] = Unseen \/ quotes[s] \in Quotes

(* Aggregating a sector gives such a snapshot, whatever the quotes are.     *)
LEMMA AggregateIsFair ==
  ASSUME NEW quotes, QuotesOK(quotes), NEW i \in Sectors, NEW q
  PROVE  Fair(Aggregate(quotes, i, q), i)
<1> DEFINE M == MembersOf[i]
           usable == Usable(quotes, M)
           f == [s \in usable |-> Move(quotes[s])]
           rise == {s \in usable : Move(quotes[s]) > 0}
           row == Aggregate(quotes, i, q)
<1>1. M \subseteq ActiveStocks /\ usable \subseteq M
  BY DEF MembersOf, Usable, Quoted
<1>2. IsFiniteSet(M) /\ IsFiniteSet(usable) /\ Cardinality(usable) \in Nat
  BY <1>1, LiveAssumption, FS_Subset, FS_CardinalityType
<1>3. ASSUME NEW s \in usable PROVE f[s] \in Int /\ -10000 <= f[s]
  <2>1. quotes[s] \in Quotes /\ quotes[s].previous # NoValue /\ quotes[s].previous # 0
    BY <1>1, <1>3 DEF Usable, Quoted, QuotesOK
  <2> DEFINE a == 10000 * quotes[s].last
             b == quotes[s].previous
  <2>2. a \in Nat /\ b \in Nat /\ b > 0
    BY <2>1, LiveAssumption
  <2>3. f[s] = a \div b - 10000
    BY <1>3 DEF Move
  <2> HIDE DEF a, b, f
  <2>4. a \div b \in Nat
    BY <2>2
  <2> QED
    BY <2>3, <2>4
<1>4. rise \subseteq usable
  OBVIOUS
<1>5. SumOver(f, usable) = SumFunction([s \in usable |-> Move(quotes[s])])
  <2>1. [s \in usable |-> f[s]] = [s \in usable |-> Move(quotes[s])]
    OBVIOUS
  <2> HIDE DEF f, usable
  <2> QED BY <2>1 DEF SumOver
<1>6. /\ DOMAIN row = Fields
      /\ row.momentum = IF usable # {} THEN HalfUp(SumOver(f, usable), Cardinality(usable))
                        ELSE NoValue
      /\ row.breadth = IF usable # {} THEN Ratio(rise, usable) ELSE NoValue
      /\ row.technical = NoValue /\ row.turnover = NoValue
      /\ row.valid = Cardinality(usable)
      /\ row.status = IF Covered(usable, M) THEN q.status ELSE "STALE"
  <2> HIDE DEF f, usable
  <2> QED BY <1>5 DEF Aggregate, Fields, Total, usable
<1> HIDE DEF row, f, usable, rise
<1>7. usable = {} <=> Cardinality(usable) = 0
  BY <1>2, FS_EmptySet
<1>8. usable # {} => /\ row.momentum \in Int /\ row.momentum >= -10000
                     /\ row.breadth \in Nat
  BY <1>2, <1>3, <1>4, <1>6, MeanOfReturns, RatioIsCounted
<1>9. row.status = "LIVE" => 10 * row.valid >= 6 * Cardinality(M)
  BY <1>6 DEF Covered
<1> QED
  BY <1>2, <1>6, <1>7, <1>8, <1>9 DEF Fair, NoValue, row

(* Aggregating sees no more than the quotes of a sector's members.         *)
SeenFields == {"momentum", "breadth", "valid", "quoted"}

LEMMA AggregateSees ==
  ASSUME NEW p, NEW r, NEW i, \A s \in MembersOf[i] : p[s] = r[s], NEW a, NEW b
  PROVE  \A f \in SeenFields : Aggregate(p, i, a)[f] = Aggregate(r, i, b)[f]
<1> DEFINE M == MembersOf[i]
           u == Usable(p, M)
<1>1. Quoted(p, M) = Quoted(r, M)
  BY DEF Quoted
<1>2. Usable(p, M) = Usable(r, M)
  BY <1>1 DEF Usable, Quoted
<1>3. \A s \in u : Move(p[s]) = Move(r[s])
  BY DEF Usable, Quoted
<1>4. /\ [s \in u |-> Move(p[s])] = [s \in u |-> Move(r[s])]
      /\ {s \in u : Move(p[s]) > 0} = {s \in u : Move(r[s]) > 0}
  BY <1>3
<1> HIDE DEF u
<1>5. \A w : Aggregate(w, i, a).quoted = Cardinality(Quoted(w, M))
             /\ Aggregate(w, i, b).quoted = Cardinality(Quoted(w, M))
  BY DEF Aggregate
<1>6. /\ Aggregate(p, i, a).valid = Cardinality(u) /\ Aggregate(r, i, b).valid = Cardinality(u)
      /\ Aggregate(p, i, a).momentum
            = IF u # {} THEN HalfUp(SumFunction([s \in u |-> Move(p[s])]), Cardinality(u)) ELSE NoValue
      /\ Aggregate(r, i, b).momentum
            = IF u # {} THEN HalfUp(SumFunction([s \in u |-> Move(r[s])]), Cardinality(u)) ELSE NoValue
      /\ Aggregate(p, i, a).breadth
            = IF u # {} THEN Ratio({s \in u : Move(p[s]) > 0}, u) ELSE NoValue
      /\ Aggregate(r, i, b).breadth
            = IF u # {} THEN Ratio({s \in u : Move(r[s]) > 0}, u) ELSE NoValue
  BY <1>2 DEF Aggregate, Total, u
<1> HIDE DEF M
<1> QED
  BY <1>1, <1>4, <1>5, <1>6 DEF SeenFields

-----------------------------------------------------------------------------
(* The scoring of a table of fair snapshots.                               *)
FairTable(table, D) ==
    /\ DOMAIN table = D /\ D \subseteq Nat /\ IsFiniteSet(D)
    /\ \A i \in D : Fair(table[i], i)

(* A place is given to those with a value, and no lower one to more.        *)
LEMMA LivePercentiles ==
  ASSUME NEW D, NEW table, FairTable(table, D), NEW c \in {"momentum", "breadth"}
  PROVE  /\ \A i \in D : IF table[i][c] = NoValue THEN LivePercentile(table, c, i) = NoValue
                         ELSE LivePercentile(table, c, i) \in Nat
         /\ \A i, j \in D : table[i][c] # NoValue /\ table[j][c] # NoValue
                              /\ table[i][c] > table[j][c]
                => LivePercentile(table, c, j) <= LivePercentile(table, c, i)
<1> DEFINE having == {j \in D : table[j][c] # NoValue}
           Below1(i) == {j \in having : table[j][c] < table[i][c]}
           Tied1(i) == {j \in having : table[j][c] = table[i][c]}
           d == 2 * (Cardinality(having) - 1)
           Num(i) == 10000 * (2 * Cardinality(Below1(i)) + Cardinality(Tied1(i)) - 1)
<1>1. DOMAIN table = D /\ IsFiniteSet(D) /\ \A i \in D : table[i][c] \in Int
  BY DEF FairTable, Fair
<1>2. IsFiniteSet(having) /\ Cardinality(having) \in Nat
  BY <1>1, FS_Subset, FS_CardinalityType
<1>3. ASSUME NEW i \in having
      PROVE  /\ having # {i} => d \in Nat /\ d > 0
             /\ IsFiniteSet(Below1(i)) /\ Cardinality(Below1(i)) \in Nat
             /\ IsFiniteSet(Tied1(i)) /\ Cardinality(Tied1(i)) \in Nat
             /\ Cardinality(Tied1(i)) > 0
             /\ Num(i) \in Nat
  <2>1. /\ IsFiniteSet(Below1(i)) /\ Cardinality(Below1(i)) \in Nat
        /\ IsFiniteSet(Tied1(i)) /\ Cardinality(Tied1(i)) \in Nat
    <3>1. Below1(i) \subseteq having /\ Tied1(i) \subseteq having
      OBVIOUS
    <3> HIDE DEF Below1, Tied1
    <3> QED BY <1>2, <3>1, FS_Subset, FS_CardinalityType
  <2>2. i \in Tied1(i)
    OBVIOUS
  <2>3. ASSUME having # {i} PROVE d \in Nat /\ d > 0
    <3> HIDE DEF having
    <3>1. PICK j \in having : j # i
      BY <1>3, <2>3
    <3>2. Cardinality({i, j}) <= Cardinality(having) /\ Cardinality({i, j}) = 2
      <4>1. {i, j} \subseteq having /\ Cardinality({i}) = 1 /\ IsFiniteSet({i})
        BY <1>3, FS_Singleton
      <4>2. {i, j} = {i} \cup {j} /\ j \notin {i}
        BY <3>1
      <4>3. Cardinality({i, j}) = Cardinality({i}) + 1
        BY <4>1, <4>2, FS_AddElement
      <4> QED
        BY <1>2, <4>1, <4>3, FS_Subset
    <3> QED
      BY <1>2, <3>2
  <2> HIDE DEF Below1, Tied1, having
  <2>4. Cardinality(Tied1(i)) # 0
    BY <2>1, <2>2, FS_EmptySet
  <2>5. Num(i) \in Nat
    BY <2>1, <2>4
  <2> QED
    BY <2>1, <2>3, <2>4, <2>5
<1>4. ASSUME NEW i \in D
      PROVE  LivePercentile(table, c, i)
               = IF i \notin having THEN NoValue
                 ELSE IF having = {i} THEN 5000 ELSE HalfUp(Num(i), d)
  BY <1>1 DEF LivePercentile
<1> HIDE DEF d
<1>5. ASSUME NEW i \in D
      PROVE  IF table[i][c] = NoValue THEN LivePercentile(table, c, i) = NoValue
             ELSE LivePercentile(table, c, i) \in Nat
  <2>1. CASE table[i][c] = NoValue
    <3>1. i \notin having
      BY <2>1
    <3> HIDE DEF having, Num
    <3> QED
      BY <1>4, <2>1, <3>1
  <2>2. CASE table[i][c] # NoValue
    <3>1. i \in having
      BY <2>2
    <3> HIDE DEF having, Num
    <3>2. CASE having = {i}
      BY <1>4, <2>2, <3>1, <3>2
    <3>3. CASE having # {i}
      <4> DEFINE a == Num(i)
      <4>a. a \in Nat /\ d \in Nat /\ d > 0
        BY <1>3, <3>1, <3>3
      <4> HIDE DEF a
      <4>1. a \in Nat /\ a <= a /\ d \in Nat /\ d > 0
        BY <4>a
      <4>2. HalfUp(a, d) \in Nat
        BY <4>1, HalfUpGrows
      <4> QED
        BY <1>4, <2>2, <3>1, <3>3, <4>2 DEF a
    <3> QED
      BY <3>2, <3>3
  <2> QED
    BY <2>1, <2>2
<1>6. ASSUME NEW i \in D, NEW j \in D, table[i][c] # NoValue, table[j][c] # NoValue,
             table[i][c] > table[j][c]
      PROVE  LivePercentile(table, c, j) <= LivePercentile(table, c, i)
  <2>0. table[i][c] \in Int /\ table[j][c] \in Int
    BY <1>1
  <2>1. i \in having /\ j \in having /\ i # j
    BY <1>6, <2>0
  <2>2. Below1(j) \cup Tied1(j) \subseteq Below1(i) /\ Below1(j) \cap Tied1(j) = {}
    <3>1. ASSUME NEW k \in having, table[k][c] <= table[j][c] PROVE table[k][c] < table[i][c]
      <4>1. table[k][c] \in Int
        BY <1>1
      <4> QED BY <1>6, <2>0, <3>1, <4>1
    <3>2. \A k \in having : table[k][c] \in Int
      BY <1>1
    <3> QED BY <2>0, <3>1, <3>2
  <2>3. having # {i} /\ having # {j}
    BY <2>1
  <2> HIDE DEF having, Below1, Tied1
  <2>4. Cardinality(Below1(j)) + Cardinality(Tied1(j)) <= Cardinality(Below1(i))
    <3>1. IsFiniteSet(Below1(j)) /\ IsFiniteSet(Tied1(j)) /\ IsFiniteSet(Below1(i))
      BY <1>3, <2>1
    <3>2. Cardinality(Below1(j) \cup Tied1(j)) = Cardinality(Below1(j)) + Cardinality(Tied1(j))
      <4>1. Cardinality(Below1(j) \cup Tied1(j))
              = Cardinality(Below1(j)) + Cardinality(Tied1(j)) - Cardinality(Below1(j) \cap Tied1(j))
        BY <3>1, FS_Union
      <4>2. Cardinality(Below1(j) \cap Tied1(j)) = 0
        BY <2>2, FS_EmptySet
      <4>3. Cardinality(Below1(j)) \in Nat /\ Cardinality(Tied1(j)) \in Nat
        BY <1>3, <2>1
      <4> QED BY <4>1, <4>2, <4>3
    <3>3. Cardinality(Below1(j) \cup Tied1(j)) <= Cardinality(Below1(i))
      BY <2>2, <3>1, FS_Subset
    <3> QED BY <3>2, <3>3
  <2>5. Num(j) \in Nat /\ Num(i) \in Nat /\ Num(j) <= Num(i) /\ d \in Nat /\ d > 0
    <3> DEFINE bi == Cardinality(Below1(i))
               bj == Cardinality(Below1(j))
               ti == Cardinality(Tied1(i))
               tj == Cardinality(Tied1(j))
    <3>1. bi \in Nat /\ bj \in Nat /\ ti \in Nat /\ tj \in Nat /\ ti > 0 /\ bj + tj <= bi
      BY <1>3, <2>1, <2>4
    <3>2. Num(i) = 10000 * (2 * bi + ti - 1) /\ Num(j) = 10000 * (2 * bj + tj - 1)
      OBVIOUS
    <3> HIDE DEF bi, bj, ti, tj, Num
    <3>3. Num(j) <= Num(i)
      BY <3>1, <3>2
    <3> QED
      BY <1>3, <2>1, <2>3, <3>3
  <2> HIDE DEF Num
  <2>6. HalfUp(Num(j), d) <= HalfUp(Num(i), d)
    BY <2>5, HalfUpGrows
  <2>7. LivePercentile(table, c, j) = HalfUp(Num(j), d) /\ LivePercentile(table, c, i) = HalfUp(Num(i), d)
    BY <1>4, <2>1, <2>3
  <2> QED
    BY <2>6, <2>7
<1> QED
  BY <1>5, <1>6

(* What is filled in of a score's components: the other two never are.      *)
Two == {"momentum", "breadth"}

(* So a sum over the components is one of two numbers,                      *)
LEMMA SumOfTwo ==
  ASSUME NEW f, \A c \in Two : f[c] \in Int
  PROVE  SumOver(f, Two) = f["momentum"] + f["breadth"] /\ SumOver(f, {}) = 0
<1> DEFINE B == {"breadth"}
<1>1. IsFiniteSet(B) /\ IsFiniteSet(Two)
  <2>1. IsFiniteSet(B)
    BY FS_Singleton
  <2>2. Two = B \cup {"momentum"}
    BY DEF Two
  <2> HIDE DEF B
  <2> QED BY <2>1, <2>2, FS_AddElement
<1>2. /\ Two \ {"momentum"} = B /\ B \ {"breadth"} = {}
      /\ "momentum" \in Two /\ "breadth" \in B /\ B \subseteq Two
  BY DEF Two
<1> HIDE DEF B
<1>3. \A T \in {Two, B} : \A c \in T : f[c] \in Int
  BY <1>2
<1>4. SumOver(f, Two) = f["momentum"] + SumOver(f, B)
  BY <1>1, <1>2, <1>3, SumOverIs
<1>5. SumOver(f, B) = f["breadth"] + SumOver(f, {}) /\ SumOver(f, {}) = 0
  BY <1>1, <1>2, <1>3, SumOverIs
<1>6. f["breadth"] \in Int
  BY DEF Two
<1> QED
  BY <1>4, <1>5, <1>6

(* and a score is the weighted mean of two places.                          *)
LEMMA LiveScoreIs ==
  ASSUME NEW D, NEW table, FairTable(table, D), NEW i \in D,
         NEW p, p = [c \in Two |-> LivePercentile(table, c, i)]
  PROVE  IF table[i].valid = 0 THEN LiveScore(table, i) = NoValue
         ELSE /\ p["momentum"] \in Nat /\ p["breadth"] \in Nat
              /\ LiveScore(table, i) = HalfUp(35 * p["momentum"] + 30 * p["breadth"], 65)
<1> DEFINE q == [c \in LiveComponents |-> LivePercentile(table, c, i)]
           available == {c \in LiveComponents : q[c] # NoValue}
           w == [c \in Two |-> LiveWeight[c] * p[c]]
<1>1. /\ table[i].technical = NoValue /\ table[i].turnover = NoValue
      /\ table[i].valid = 0 <=> table[i].momentum = NoValue
      /\ table[i].valid = 0 <=> table[i].breadth = NoValue
      /\ DOMAIN table = D
  BY DEF FairTable, Fair
<1>2. LivePercentile(table, "technical", i) = NoValue
  <2> DEFINE c == "technical"
             having == {j \in DOMAIN table : table[j][c] # NoValue}
  <2>1. i \notin having
    BY <1>1
  <2> QED
    BY <2>1 DEF LivePercentile
<1>3. LivePercentile(table, "turnover", i) = NoValue
  <2> DEFINE c == "turnover"
             having == {j \in DOMAIN table : table[j][c] # NoValue}
  <2>1. i \notin having
    BY <1>1
  <2> QED
    BY <2>1 DEF LivePercentile
<1>4. /\ table[i].valid = 0 => p["momentum"] = NoValue /\ p["breadth"] = NoValue
      /\ table[i].valid # 0 => p["momentum"] \in Nat /\ p["breadth"] \in Nat
  <2>1. /\ p["momentum"] = LivePercentile(table, "momentum", i)
        /\ p["breadth"] = LivePercentile(table, "breadth", i)
    BY DEF Two
  <2>2. \A c \in {"momentum", "breadth"} :
            IF table[i][c] = NoValue THEN LivePercentile(table, c, i) = NoValue
            ELSE LivePercentile(table, c, i) \in Nat
    BY LivePercentiles
  <2> QED
    BY <1>1, <2>1, <2>2
<1>5. available = IF table[i].valid = 0 THEN {} ELSE Two
  <2>1. /\ q["technical"] = NoValue /\ q["turnover"] = NoValue
        /\ q["momentum"] = p["momentum"] /\ q["breadth"] = p["breadth"]
    BY <1>2, <1>3 DEF LiveComponents, Two
  <2>2. \A x \in Nat : x # NoValue
    BY DEF NoValue
  <2> HIDE DEF q
  <2> QED
    BY <1>4, <2>1, <2>2 DEF LiveComponents, Two
<1>6. LiveScore(table, i) = IF SumOver(LiveWeight, available) >= 60
                            THEN HalfUp(SumOver([c \in available |-> LiveWeight[c] * q[c]], available),
                                        SumOver(LiveWeight, available))
                            ELSE NoValue
  <2> DEFINE lines == {<<c, LivePercentile(table, c, i)>> : c \in LiveComponents}
             rows1 == {<<c, q[c]>> : c \in LiveComponents}
             g == [c \in LiveComponents |-> (CHOOSE row \in lines : row[1] = c)[2]]
  <2>1. lines = rows1
    OBVIOUS
  <2>2. g = q
    <3>1. q = [c \in LiveComponents |-> q[c]]
      OBVIOUS
    <3> HIDE DEF q, lines
    <3> QED BY <2>1, <3>1, TableIs
  <2> DEFINE a == {c \in LiveComponents : g[c] # NoValue}
  <2>3. LiveScore(table, i) = IF SumFunction([c \in a |-> LiveWeight[c]]) >= 60
                              THEN HalfUp(SumFunction([c \in a |-> LiveWeight[c] * g[c]]),
                                          SumFunction([c \in a |-> LiveWeight[c]]))
                              ELSE NoValue
    BY DEF LiveScore, Table, Total
  <2> HIDE DEF g, q
  <2>4. a = available
    BY <2>2
  <2>5. [c \in available |-> [x \in available |-> LiveWeight[x] * q[x]][c]]
           = [c \in available |-> LiveWeight[c] * q[c]]
    OBVIOUS
  <2> HIDE DEF a, available
  <2> QED
    BY <2>2, <2>3, <2>4, <2>5 DEF SumOver
<1>7. LiveWeight["momentum"] = 35 /\ LiveWeight["breadth"] = 30 /\ \A c \in Two : LiveWeight[c] \in Nat
  BY DEF LiveWeight, Two
<1>8. SumOver(LiveWeight, Two) = 65 /\ SumOver(LiveWeight, {}) = 0
  BY <1>7, SumOfTwo
<1>9. CASE table[i].valid = 0
  <2>1. available = {}
    BY <1>5, <1>9
  <2> HIDE DEF available, q, w
  <2>2. SumOver(LiveWeight, available) = 0
    BY <1>8, <2>1
  <2>3. LiveScore(table, i) = NoValue
    BY <1>6, <2>2
  <2> QED
    BY <1>9, <2>3
<1>10. CASE table[i].valid # 0
  <2>1. [c \in Two |-> LiveWeight[c] * q[c]] = w
    BY DEF LiveComponents, Two
  <2>2. \A c \in Two : w[c] \in Int
    BY <1>4, <1>7, <1>10 DEF Two
  <2>3. w["momentum"] = 35 * p["momentum"] /\ w["breadth"] = 30 * p["breadth"]
    BY <1>7 DEF Two
  <2> HIDE DEF w, q
  <2>4. SumOver(w, Two) = w["momentum"] + w["breadth"]
    BY <2>2, SumOfTwo
  <2>5. available = Two
    BY <1>5, <1>10
  <2> HIDE DEF available
  <2>6. LiveScore(table, i) = HalfUp(SumOver(w, Two), 65)
    BY <1>6, <1>8, <2>1, <2>5
  <2> QED
    BY <1>4, <1>10, <2>3, <2>4, <2>6
<1> QED
  BY <1>9, <1>10

(* A sector that leads another has no lower score.                         *)
LEMMA LiveScores ==
  ASSUME NEW D, NEW table, FairTable(table, D)
  PROVE  /\ \A i \in D : IF table[i].valid = 0 THEN LiveScore(table, i) = NoValue
                         ELSE LiveScore(table, i) \in Nat
         /\ \A i, j \in D : /\ table[i].valid # 0 /\ table[j].valid # 0
                            /\ table[i].momentum > table[j].momentum
                            /\ table[i].breadth > table[j].breadth
                 => LiveScore(table, j) <= LiveScore(table, i)
<1> DEFINE p(i) == [c \in Two |-> LivePercentile(table, c, i)]
           Sum2(i) == 35 * p(i)["momentum"] + 30 * p(i)["breadth"]
<1>1. ASSUME NEW i \in D
      PROVE  IF table[i].valid = 0 THEN LiveScore(table, i) = NoValue
             ELSE /\ p(i)["momentum"] \in Nat /\ p(i)["breadth"] \in Nat
                  /\ LiveScore(table, i) = HalfUp(Sum2(i), 65)
  <2> DEFINE q == p(i)
  <2>1. q = [c \in Two |-> LivePercentile(table, c, i)]
    OBVIOUS
  <2> HIDE DEF q, p
  <2>2. IF table[i].valid = 0 THEN LiveScore(table, i) = NoValue
        ELSE /\ q["momentum"] \in Nat /\ q["breadth"] \in Nat
             /\ LiveScore(table, i) = HalfUp(35 * q["momentum"] + 30 * q["breadth"], 65)
    BY <2>1, LiveScoreIs
  <2> QED
    BY <2>2 DEF q
<1>2. \A i \in D : p(i)["momentum"] = LivePercentile(table, "momentum", i)
                   /\ p(i)["breadth"] = LivePercentile(table, "breadth", i)
  BY DEF Two
<1> HIDE DEF p
<1>3. ASSUME NEW i \in D, table[i].valid # 0 PROVE Sum2(i) \in Nat /\ Sum2(i) <= Sum2(i)
  BY <1>1, <1>3
<1>4. ASSUME NEW i \in D
      PROVE  IF table[i].valid = 0 THEN LiveScore(table, i) = NoValue
                         ELSE LiveScore(table, i) \in Nat
  <2> DEFINE a == Sum2(i)
  <2>1. table[i].valid # 0 => a \in Nat /\ a <= a
    BY <1>3
  <2>2. table[i].valid # 0 => LiveScore(table, i) = HalfUp(a, 65)
    BY <1>1
  <2> HIDE DEF a
  <2> QED
    BY <1>1, <2>1, <2>2, HalfUpGrows
<1>5. ASSUME NEW i \in D, NEW j \in D, table[i].valid # 0, table[j].valid # 0,
             table[i].momentum > table[j].momentum, table[i].breadth > table[j].breadth
      PROVE  LiveScore(table, j) <= LiveScore(table, i)
  <2> DEFINE a == Sum2(j)
             b == Sum2(i)
  <2>1. /\ table[i].momentum # NoValue /\ table[j].momentum # NoValue
        /\ table[i].breadth # NoValue /\ table[j].breadth # NoValue
    BY <1>5 DEF FairTable, Fair
  <2>2. \A c \in {"momentum", "breadth"} : LivePercentile(table, c, j) <= LivePercentile(table, c, i)
    BY <1>5, <2>1, LivePercentiles
  <2>3. p(j)["momentum"] <= p(i)["momentum"] /\ p(j)["breadth"] <= p(i)["breadth"]
    BY <1>2, <2>2
  <2>4. a \in Nat /\ b \in Nat /\ a <= b
    BY <1>1, <1>5, <2>3
  <2>5. LiveScore(table, j) = HalfUp(a, 65) /\ LiveScore(table, i) = HalfUp(b, 65)
    BY <1>1, <1>5
  <2> HIDE DEF a, b
  <2> QED
    BY <2>4, <2>5, HalfUpGrows
<1> QED
  BY <1>4, <1>5

(* The ranking of a table by its scores: the strict order, the places in   *)
(* it, the rows and their sequence.                                        *)
ScoresOf(table) == [i \in DOMAIN table |-> LiveScore(table, i)]
LeadingPair(table, scores, p) == Leading(table, scores, p[1], p[2])
OrderOf(table, scores) == {p \in (DOMAIN table) \X (DOMAIN table) : LeadingPair(table, scores, p)}
PlacesOf(table, R) == [i \in DOMAIN table |-> PlaceIn(DOMAIN table, R, i)]
RowOf(row, score, place) ==
    IF score = NoValue
    THEN [row EXCEPT !.score = NoValue, !.rank = NoValue, !.status = "STALE"]
    ELSE [row EXCEPT !.score = score, !.rank = place]
ScoredRows(table) ==
    LET scores == ScoresOf(table)
        place == PlacesOf(table, OrderOf(table, scores))
    IN  [i \in DOMAIN table |-> RowOf(table[i], scores[i], place[i])]
SequenceOf(table, scores, place) ==
    LET Entry(i) == [id |-> i, row |-> RowOf(table[i], scores[i], place[i])]
    IN  [n \in 1 .. Cardinality(DOMAIN table) |-> Entry(CHOOSE i \in DOMAIN table : place[i] = n)]

(* They are the model's.                                                    *)
LEMMA ScoredIs ==
  ASSUME NEW table, NEW scores, scores = ScoresOf(table),
         NEW R, R = OrderOf(table, scores), NEW place, place = PlacesOf(table, R)
  PROVE  Scored(table) = SequenceOf(table, scores, place)
<1> DEFINE D == DOMAIN table
           N == 1 .. Cardinality(D)
           s0 == [i \in D |-> (CHOOSE row \in {<<k, LiveScore(table, k)>> : k \in D} : row[1] = i)[2]]
           pl == [i \in D |-> (CHOOSE row \in {<<k, 1 + Cardinality({j \in D : Leading(table, s0, j, k)})>> : k \in D} : row[1] = i)[2]]
           I(n) == CHOOSE k \in D : place[k] = n
           entry == [n \in N |-> [id |-> I(n), row |-> RowOf(table[I(n)], scores[I(n)], place[I(n)])]]
<1>1. s0 = scores
  <2> DEFINE lines == {<<k, LiveScore(table, k)>> : k \in D}
  <2>1. lines = {<<k, scores[k]>> : k \in D}
    BY DEF ScoresOf
  <2>2. scores = [i \in D |-> scores[i]]
    BY DEF ScoresOf
  <2>3. s0 = [i \in D |-> (CHOOSE row \in lines : row[1] = i)[2]]
    OBVIOUS
  <2> HIDE DEF lines, s0, D
  <2> QED
    BY <2>1, <2>2, <2>3, TableIs
<1> HIDE DEF s0
<1>2. \A k \in D : place[k] = 1 + Cardinality({j \in D : Leading(table, scores, j, k)})
  <2> SUFFICES ASSUME NEW k \in D
               PROVE  place[k] = 1 + Cardinality({j \in D : Leading(table, scores, j, k)})
    OBVIOUS
  <2>1. {j \in D : <<j, k>> \in R} = {j \in D : Leading(table, scores, j, k)}
    <3>1. ASSUME NEW j \in D PROVE <<j, k>> \in R <=> Leading(table, scores, j, k)
      <4>1. <<j, k>>[1] = j /\ <<j, k>>[2] = k /\ <<j, k>> \in D \X D
        OBVIOUS
      <4>2. <<j, k>> \in R <=> LeadingPair(table, scores, <<j, k>>)
        BY <4>1 DEF OrderOf
      <4> QED
        BY <4>1, <4>2 DEF LeadingPair
    <3> HIDE DEF D
    <3> QED BY <3>1
  <2>2. place[k] = 1 + Cardinality({j \in D : <<j, k>> \in R})
    BY DEF PlacesOf, PlaceIn
  <2> QED
    BY <2>1, <2>2
<1>3. pl = place
  <2> DEFINE lines == {<<k, 1 + Cardinality({j \in D : Leading(table, s0, j, k)})>> : k \in D}
  <2>1. lines = {<<k, place[k]>> : k \in D}
    BY <1>1, <1>2
  <2>2. place = [i \in D |-> place[i]]
    BY DEF PlacesOf
  <2>3. pl = [i \in D |-> (CHOOSE row \in lines : row[1] = i)[2]]
    OBVIOUS
  <2> HIDE DEF lines, pl, D
  <2> QED
    BY <2>1, <2>2, <2>3, TableIs
<1> HIDE DEF pl
<1>4. Scored(table)
         = [n \in N |-> (CHOOSE row \in {<<k, [id |-> CHOOSE x \in D : pl[x] = k,
                                              row |-> RowOf(table[CHOOSE x \in D : pl[x] = k],
                                                            s0[CHOOSE x \in D : pl[x] = k],
                                                            pl[CHOOSE x \in D : pl[x] = k])]>> : k \in N} :
                              row[1] = n)[2]]
  BY DEF Scored, Table, RowOf, s0, pl
<1>5. Scored(table) = entry
  <2> DEFINE lines == {<<k, [id |-> CHOOSE x \in D : pl[x] = k,
                            row |-> RowOf(table[CHOOSE x \in D : pl[x] = k],
                                          s0[CHOOSE x \in D : pl[x] = k],
                                          pl[CHOOSE x \in D : pl[x] = k])]>> : k \in N}
  <2>1. lines = {<<k, entry[k]>> : k \in N}
    BY <1>1, <1>3
  <2>2. entry = [n \in N |-> entry[n]]
    OBVIOUS
  <2>3. Scored(table) = [n \in N |-> (CHOOSE row \in lines : row[1] = n)[2]]
    BY <1>4
  <2> HIDE DEF lines, entry, N
  <2> QED
    BY <2>1, <2>2, <2>3, TableIs
<1> QED
  BY <1>5 DEF SequenceOf

(* The order is one of all sectors of a table.                              *)
LEMMA LeadingIsALine ==
  ASSUME NEW D, NEW table, FairTable(table, D), NEW scores, scores = ScoresOf(table),
         NEW R, R = OrderOf(table, scores)
  PROVE  /\ Line(D, R)
         /\ \A i, j \in D : <<i, j>> \in R <=> Leading(table, scores, i, j)
         /\ \A i \in D : scores[i] = IF table[i].valid = 0 THEN NoValue ELSE LiveScore(table, i)
         /\ \A i \in D : table[i].valid # 0 => scores[i] \in Nat
<1> DEFINE moved == [i \in D |-> OrZero(table[i].momentum)]
<1>1. DOMAIN table = D /\ D \subseteq Nat /\ \A i \in D : moved[i] \in Int
  BY DEF FairTable, Fair, OrZero
<1>2. ASSUME NEW i \in D
      PROVE  /\ scores[i] = IF table[i].valid = 0 THEN NoValue ELSE LiveScore(table, i)
             /\ table[i].valid # 0 => scores[i] \in Nat
  <2>1. scores[i] = LiveScore(table, i)
    BY <1>1 DEF ScoresOf
  <2> QED
    BY <2>1, LiveScores
<1>3. ASSUME NEW i \in D, NEW j \in D PROVE <<i, j>> \in R <=> Leading(table, scores, i, j)
  <2>1. <<i, j>>[1] = i /\ <<i, j>>[2] = j /\ <<i, j>> \in (DOMAIN table) \X (DOMAIN table)
    BY <1>1
  <2>2. <<i, j>> \in R <=> LeadingPair(table, scores, <<i, j>>)
    BY <2>1 DEF OrderOf
  <2> QED
    BY <2>1, <2>2 DEF LeadingPair
<1>4. ASSUME NEW i \in D, NEW j \in D
      PROVE  <<i, j>> \in R <=>
                \/ scores[i] # NoValue /\ scores[j] = NoValue
                \/ scores[j] # NoValue /\ scores[i] > scores[j]
                \/ scores[i] = scores[j] /\ moved[i] > moved[j]
                \/ scores[i] = scores[j] /\ moved[i] = moved[j] /\ i < j
  BY <1>3 DEF Leading
<1>5. \A i \in D : scores[i] = -100000 \/ scores[i] \in Nat
  BY <1>2 DEF NoValue
<1> HIDE DEF moved
<1>6. ASSUME NEW i \in D PROVE <<i, i>> \notin R
  <2>1. scores[i] \in Int /\ moved[i] \in Int /\ i \in Nat
    BY <1>1, <1>5
  <2> QED
    BY <1>4, <2>1
<1>7. ASSUME NEW i \in D, NEW j \in D PROVE i = j \/ <<i, j>> \in R \/ <<j, i>> \in R
  <2>1. /\ scores[i] \in Int /\ moved[i] \in Int /\ i \in Nat
        /\ scores[j] \in Int /\ moved[j] \in Int /\ j \in Nat
    BY <1>1, <1>5
  <2> QED
    BY <1>4, <2>1
<1>8. ASSUME NEW i \in D, NEW j \in D, NEW k \in D, <<i, j>> \in R, <<j, k>> \in R
      PROVE  <<i, k>> \in R
  <2> DEFINE a == scores[i]
             b == scores[j]
             c == scores[k]
             x == moved[i]
             y == moved[j]
             z == moved[k]
  <2>1. /\ a = -100000 \/ a \in Nat
        /\ b = -100000 \/ b \in Nat
        /\ c = -100000 \/ c \in Nat
        /\ x \in Int /\ y \in Int /\ z \in Int
        /\ i \in Nat /\ j \in Nat /\ k \in Nat
    BY <1>1, <1>5
  <2>2. /\ \/ a # NoValue /\ b = NoValue
           \/ b # NoValue /\ a > b
           \/ a = b /\ x > y
           \/ a = b /\ x = y /\ i < j
        /\ \/ b # NoValue /\ c = NoValue
           \/ c # NoValue /\ b > c
           \/ b = c /\ y > z
           \/ b = c /\ y = z /\ j < k
    BY <1>4, <1>8
  <2>3. <<i, k>> \in R <=>
           \/ a # NoValue /\ c = NoValue
           \/ c # NoValue /\ a > c
           \/ a = c /\ x > z
           \/ a = c /\ x = z /\ i < k
    BY <1>4
  <2> HIDE DEF a, b, c, x, y, z
  <2> QED
    BY <2>1, <2>2, <2>3 DEF NoValue
<1> QED
  BY <1>2, <1>3, <1>6, <1>7, <1>8 DEF Line

(* What a ranking shows: ranks one to the number of the sectors with a     *)
(* score, in the order of scores and of what is measured.                  *)
RanksFit(table) ==
    LET scored == {i \in DOMAIN table : table[i].score # NoValue}
    IN  /\ {table[i].rank : i \in scored} = 1 .. Cardinality(scored)
        /\ \A i \in DOMAIN table :
              /\ table[i].status = "LIVE" =>
                    i \in scored /\ 10 * table[i].valid >= 6 * Cardinality(MembersOf[i])
              /\ (table[i].valid = 0) = (i \notin scored)
        /\ \A i, j \in scored :
              table[i].momentum > table[j].momentum /\ table[i].breadth > table[j].breadth
                  => table[i].rank < table[j].rank
ScoresFit(table) ==
    /\ \A i \in DOMAIN table : table[i].score \in Nat \cup {NoValue}
    /\ \A i, j \in DOMAIN table :
          table[i].score > table[j].score /\ table[j].score # NoValue
              => table[i].rank < table[j].rank

(* The rows a scoring gives fit, and change nothing of what is measured.    *)
LEMMA RankedFit ==
  ASSUME NEW D, NEW table, FairTable(table, D), NEW lines, lines = ScoredRows(table)
  PROVE  /\ DOMAIN lines = D
         /\ \A i \in D : Fair(lines[i], i) /\ \A f \in SeenFields : lines[i][f] = table[i][f]
         /\ RanksFit(lines) /\ ScoresFit(lines)
<1> DEFINE scores == ScoresOf(table)
           R == OrderOf(table, scores)
           place == PlacesOf(table, R)
           A == {i \in D : table[i].valid # 0}
           pl == [x \in A |-> PlaceIn(A, R, x)]
<1>1. DOMAIN table = D /\ D \subseteq Nat /\ IsFiniteSet(D) /\ \A i \in D : Fair(table[i], i)
  BY DEF FairTable
<1>2. /\ Line(D, R)
      /\ \A i, j \in D : <<i, j>> \in R <=> Leading(table, scores, i, j)
      /\ \A i \in D : scores[i] = IF table[i].valid = 0 THEN NoValue ELSE LiveScore(table, i)
      /\ \A i \in D : table[i].valid # 0 => scores[i] \in Nat
  BY LeadingIsALine
<1>3. lines = [i \in D |-> RowOf(table[i], scores[i], place[i])]
  BY <1>1 DEF ScoredRows
<1>4. place = [i \in D |-> PlaceIn(D, R, i)]
  BY <1>1 DEF PlacesOf
<1>5. /\ \A i, j \in D : <<i, j>> \in R => place[i] < place[j]
      /\ \A i \in D : place[i] \in 1 .. Cardinality(D)
  <2>1. Line(D, R) /\ IsFiniteSet(D) /\ place = [x \in D |-> PlaceIn(D, R, x)]
    BY <1>1, <1>2, <1>4
  <2> HIDE DEF place, R
  <2> QED BY <2>1, InALine
<1>6. A \subseteq D /\ IsFiniteSet(A)
  BY <1>1, FS_Subset
<1>7. \A i \in D : scores[i] # NoValue <=> i \in A
  BY <1>2 DEF NoValue
<1> HIDE DEF place, scores, R
<1>8. ASSUME NEW i \in A PROVE place[i] = pl[i]
  <2>1. ASSUME NEW y \in D, <<y, i>> \in R PROVE y \in A
    <3>1. scores[i] \in Nat /\ i \in D
      BY <1>2, <1>8
    <3>2. Leading(table, scores, y, i)
      BY <1>2, <2>1, <3>1
    <3>3. scores[y] # NoValue
      BY <3>1, <3>2 DEF Leading, NoValue
    <3> QED
      BY <1>7, <3>3
  <2> HIDE DEF A
  <2>2. {y \in D : <<y, i>> \in R} = {y \in A : <<y, i>> \in R}
    BY <1>6, <2>1
  <2> QED
    BY <1>4, <1>6, <1>8, <2>2 DEF PlaceIn
<1>9. {place[i] : i \in A} = 1 .. Cardinality(A)
  <2> HIDE DEF A
  <2>1. Line(A, R)
    BY <1>2, <1>6 DEF Line
  <2>2. pl = [x \in A |-> PlaceIn(A, R, x)]
    OBVIOUS
  <2> HIDE DEF pl
  <2>3. {pl[i] : i \in A} = 1 .. Cardinality(A)
    BY <1>6, <2>1, <2>2, InALine
  <2> QED
    BY <1>8, <2>3
<1>10. ASSUME NEW i \in D
       PROVE  /\ Fair(lines[i], i)
              /\ \A f \in SeenFields : lines[i][f] = table[i][f]
              /\ lines[i].score = scores[i]
              /\ i \in A => lines[i].rank = place[i]
              /\ i \notin A => lines[i].status = "STALE"
  <2>1. lines[i] = RowOf(table[i], scores[i], place[i]) /\ Fair(table[i], i)
    BY <1>1, <1>3
  <2>2. /\ DOMAIN lines[i] = Fields
        /\ \A f \in Fields \ {"score", "rank", "status"} : lines[i][f] = table[i][f]
        /\ lines[i].score = scores[i]
        /\ scores[i] # NoValue => lines[i].rank = place[i] /\ lines[i].status = table[i].status
        /\ scores[i] = NoValue => lines[i].status = "STALE"
    BY <2>1 DEF RowOf, Fair, Fields
  <2> HIDE DEF A
  <2>3. /\ lines[i].momentum = table[i].momentum /\ lines[i].breadth = table[i].breadth
        /\ lines[i].technical = table[i].technical /\ lines[i].turnover = table[i].turnover
        /\ lines[i].valid = table[i].valid /\ lines[i].quoted = table[i].quoted
    BY <2>2 DEF Fields
  <2>4. lines[i].status = "LIVE" => table[i].status = "LIVE"
    BY <2>2
  <2>5. Fair(lines[i], i)
    BY <2>1, <2>2, <2>3, <2>4 DEF Fair
  <2> QED
    BY <1>7, <2>2, <2>3, <2>5 DEF SeenFields
<1>11. \A i, j \in D : scores[i] > scores[j] /\ scores[j] # NoValue => place[i] < place[j]
  BY <1>2, <1>5 DEF Leading
<1>12. ASSUME NEW i \in A, NEW j \in A,
              table[i].momentum > table[j].momentum, table[i].breadth > table[j].breadth
       PROVE  place[i] < place[j]
  <2>1. i \in D /\ j \in D /\ table[i].valid # 0 /\ table[j].valid # 0
    OBVIOUS
  <2>2. scores[j] <= scores[i] /\ scores[i] \in Nat /\ scores[j] \in Nat
    BY <1>2, <1>12, <2>1, LiveScores
  <2>3. OrZero(table[i].momentum) > OrZero(table[j].momentum)
    BY <1>1, <1>12, <2>1 DEF Fair, OrZero
  <2>4. Leading(table, scores, i, j)
    BY <2>2, <2>3 DEF Leading, NoValue
  <2> QED
    BY <1>2, <1>5, <2>1, <2>4
<1> HIDE DEF A
<1>13. DOMAIN lines = D
  BY <1>3
<1>14. {i \in DOMAIN lines : lines[i].score # NoValue} = A
  BY <1>6, <1>7, <1>10, <1>13
<1>15. {lines[i].rank : i \in A} = 1 .. Cardinality(A)
  BY <1>6, <1>9, <1>10
<1>16. ASSUME NEW i \in D
       PROVE  /\ lines[i].status = "LIVE" =>
                    i \in A /\ 10 * lines[i].valid >= 6 * Cardinality(MembersOf[i])
              /\ (lines[i].valid = 0) = (i \notin A)
  <2>1. lines[i].valid = table[i].valid
    BY <1>10 DEF SeenFields
  <2> QED
    BY <1>10, <2>1 DEF Fair, A
<1>17. ASSUME NEW i \in A, NEW j \in A, lines[i].momentum > lines[j].momentum,
              lines[i].breadth > lines[j].breadth
       PROVE  lines[i].rank < lines[j].rank
  <2>1. /\ lines[i].momentum = table[i].momentum /\ lines[i].breadth = table[i].breadth
        /\ lines[j].momentum = table[j].momentum /\ lines[j].breadth = table[j].breadth
    BY <1>6, <1>10 DEF SeenFields
  <2> QED
    BY <1>6, <1>10, <1>12, <1>17, <2>1
<1>18. RanksFit(lines)
  BY <1>13, <1>14, <1>15, <1>16, <1>17 DEF RanksFit
<1>19. ScoresFit(lines)
  <2>1. \A i \in D : scores[i] \in Nat \cup {NoValue} /\ scores[i] \in Int
    BY <1>2 DEF NoValue
  <2>2. ASSUME NEW i \in D, NEW j \in D, lines[i].score > lines[j].score,
               lines[j].score # NoValue
        PROVE  lines[i].rank < lines[j].rank
    <3>1. scores[i] > scores[j] /\ j \in A
      BY <1>7, <1>10, <2>2
    <3>2. scores[j] \in Nat /\ scores[i] \in Int
      BY <1>2, <1>6, <2>1, <3>1 DEF A
    <3>3. i \in A
      BY <1>7, <3>1, <3>2 DEF NoValue
    <3> QED
      BY <1>7, <1>10, <1>11, <3>1, <3>3
  <2> QED
    BY <1>10, <1>13, <2>1, <2>2 DEF ScoresFit
<1> QED
  BY <1>10, <1>13, <1>18, <1>19

(* The sequence a scoring gives holds the row of each sector once.          *)
LEMMA ListingOf ==
  ASSUME NEW D, NEW table, FairTable(table, D), NEW lines, lines = ScoredRows(table),
         NEW r, r = Scored(table)
  PROVE  /\ Cardinality(D) \in Nat /\ DOMAIN r = 1 .. Cardinality(D)
         /\ \A k \in DOMAIN r : r[k].id \in D /\ r[k].row = lines[r[k].id]
         /\ \A j, k \in DOMAIN r : r[j].id = r[k].id => j = k
         /\ \A i \in D : \E k \in DOMAIN r : r[k].id = i
<1> DEFINE scores == ScoresOf(table)
           R == OrderOf(table, scores)
           place == PlacesOf(table, R)
           N == 1 .. Cardinality(D)
           I(n) == CHOOSE i \in D : place[i] = n
<1>1. DOMAIN table = D /\ IsFiniteSet(D)
  BY DEF FairTable
<1>2. lines = [i \in D |-> RowOf(table[i], scores[i], place[i])]
  BY <1>1 DEF ScoredRows
<1>3. place = [i \in D |-> PlaceIn(D, R, i)]
  BY <1>1 DEF PlacesOf
<1>4. Line(D, R)
  BY LeadingIsALine
<1>5. /\ DOMAIN r = N
      /\ \A n \in N : r[n] = [id |-> I(n), row |-> RowOf(table[I(n)], scores[I(n)], place[I(n)])]
  <2>1. scores = ScoresOf(table) /\ R = OrderOf(table, scores) /\ place = PlacesOf(table, R)
    OBVIOUS
  <2> HIDE DEF scores, R, place
  <2>2. r = SequenceOf(table, scores, place)
    BY <2>1, ScoredIs
  <2> QED
    BY <1>1, <2>2 DEF SequenceOf
<1> HIDE DEF scores, R, place
<1>6. /\ Cardinality(D) \in Nat
      /\ \A i \in D : place[i] \in N
      /\ \A x, y \in D : place[x] = place[y] => x = y
      /\ {place[x] : x \in D} = N
  BY <1>1, <1>3, <1>4, InALine
<1>7. ASSUME NEW n \in N PROVE I(n) \in D /\ place[I(n)] = n
  <2>1. \E i \in D : place[i] = n
    BY <1>6
  <2> QED
    BY <2>1
<1>8. \A i \in D : I(place[i]) = i
  BY <1>6, <1>7
<1> HIDE DEF I
<1>9. ASSUME NEW n \in N PROVE r[n].id = I(n) /\ r[n].row = lines[I(n)]
  BY <1>2, <1>5, <1>7
<1>10. \A j, k \in N : r[j].id = r[k].id => j = k
  BY <1>7, <1>9
<1>11. ASSUME NEW i \in D PROVE \E k \in N : r[k].id = i
  BY <1>6, <1>8, <1>9
<1> QED
  BY <1>5, <1>6, <1>7, <1>9, <1>10, <1>11

(* The table of entries that are rows of one table.                         *)
LEMMA RowsOfIs ==
  ASSUME NEW E, NEW g, \A e \in E : e.row = g[e.id]
  PROVE  /\ DOMAIN RowsOf(E) = {e.id : e \in E}
         /\ \A i \in DOMAIN RowsOf(E) : RowsOf(E)[i] = g[i]
<1>1. RowsOf(E) = [i \in {e.id : e \in E} |-> (CHOOSE e \in E : e.id = i).row]
  BY DEF RowsOf
<1>2. ASSUME NEW i \in {e.id : e \in E} PROVE (CHOOSE e \in E : e.id = i).row = g[i]
  <2>1. \E e \in E : e.id = i
    BY <1>2
  <2> DEFINE c == CHOOSE e \in E : e.id = i
  <2>2. c \in E /\ c.id = i
    BY <2>1
  <2> HIDE DEF c
  <2>3. c.row = g[i]
    BY <2>2
  <2> QED
    BY <2>3 DEF c
<1> QED
  BY <1>1, <1>2

(* What Redis has of a ranking.                                            *)
Listing(r) ==
    /\ \E n \in Nat : DOMAIN r = 1 .. n
    /\ \A k \in DOMAIN r : r[k].id \in Nat /\ r[k].row.score \in Nat \cup {NoValue}
    /\ \A j, k \in DOMAIN r : r[j].id = r[k].id => j = k
    /\ RanksFit(RowsOf(Range(r)))
    /\ \A j, k \in DOMAIN r :
          r[j].row.score > r[k].row.score /\ r[k].row.score # NoValue
              => r[j].row.rank < r[k].row.rank

(* A scoring gives a ranking Redis may have.                                *)
LEMMA ScoredIsAListing ==
  ASSUME NEW D, NEW table, FairTable(table, D)
  PROVE  Listing(Scored(table))
<1> DEFINE lines == ScoredRows(table)
           r == Scored(table)
<1>1. /\ Cardinality(D) \in Nat /\ DOMAIN r = 1 .. Cardinality(D)
      /\ \A k \in DOMAIN r : r[k].id \in D /\ r[k].row = lines[r[k].id]
      /\ \A j, k \in DOMAIN r : r[j].id = r[k].id => j = k
      /\ \A i \in D : \E k \in DOMAIN r : r[k].id = i
  BY ListingOf
<1>2. DOMAIN lines = D /\ RanksFit(lines) /\ ScoresFit(lines) /\ D \subseteq Nat
  BY RankedFit DEF FairTable
<1>3. lines = [i \in D |-> lines[i]]
  BY <1>2 DEF ScoredRows
<1> HIDE DEF lines, r
<1>4. RowsOf(Range(r)) = lines
  <2> DEFINE E == Range(r)
  <2>1. \A e \in E : e.row = lines[e.id]
    BY <1>1 DEF Range
  <2>2. {e.id : e \in E} = D
    BY <1>1 DEF Range
  <2> HIDE DEF E
  <2>a. /\ DOMAIN RowsOf(E) = {e.id : e \in E}
        /\ \A i \in DOMAIN RowsOf(E) : RowsOf(E)[i] = lines[i]
    BY <2>1, RowsOfIs
  <2>3. DOMAIN RowsOf(E) = D /\ \A i \in D : RowsOf(E)[i] = lines[i]
    BY <2>2, <2>a
  <2>4. RowsOf(E) = [i \in {e.id : e \in E} |-> RowsOf(E)[i]]
    BY DEF RowsOf
  <2> QED
    BY <1>3, <2>2, <2>3, <2>4 DEF E
<1>5. \A k \in DOMAIN r : r[k].id \in D /\ r[k].row = lines[r[k].id]
                          /\ r[k].row.score \in Nat \cup {NoValue}
  BY <1>1, <1>2 DEF ScoresFit
<1>6. \A j, k \in DOMAIN r : r[j].row.score > r[k].row.score /\ r[k].row.score # NoValue
              => r[j].row.rank < r[k].row.rank
  BY <1>1, <1>2 DEF ScoresFit
<1> QED
  BY <1>1, <1>2, <1>4, <1>5, <1>6 DEF Listing, r

(* The ranking asked for by strength is in the order of its ranks.         *)
AskedFits(asked) ==
    \A m, n \in DOMAIN asked :
        asked[m].row.score > asked[n].row.score /\ asked[n].row.score # NoValue
            => m < n /\ asked[m].row.rank < asked[n].row.rank

LEMMA AskedByStrength ==
  ASSUME NEW t, Listing(live.ranking[t])
  PROVE  AskedFits(RankingResponse(t, "score"))
<1> DEFINE r == live.ranking[t]
           D == DOMAIN r
           key == [k \in D |-> IF r[k].row.score = NoValue THEN <<1, 0>> ELSE <<0, -r[k].row.score>>]
           R == {p \in D \X D : \/ key[p[1]][1] < key[p[2]][1]
                                \/ key[p[1]][1] = key[p[2]][1] /\ key[p[1]][2] < key[p[2]][2]
                                \/ key[p[1]] = key[p[2]] /\ r[p[1]].id < r[p[2]].id}
           Earlier(j, k) == \/ key[j][1] < key[k][1]
                            \/ key[j][1] = key[k][1] /\ key[j][2] < key[k][2]
                            \/ key[j] = key[k] /\ r[j].id < r[k].id
           place == [k \in D |-> PlaceIn(D, R, k)]
           I(m) == CHOOSE k \in D : place[k] = m
           asked == RankingResponse(t, "score")
<1>1. PICK n \in Nat : D = 1 .. n
  BY DEF Listing
<1>2. /\ \A k \in D : r[k].id \in Nat /\ r[k].row.score \in Nat \cup {NoValue}
      /\ \A j, k \in D : r[j].id = r[k].id => j = k
      /\ \A j, k \in D : r[j].row.score > r[k].row.score /\ r[k].row.score # NoValue
              => r[j].row.rank < r[k].row.rank
  BY DEF Listing
<1> HIDE DEF r
<1>3. ASSUME NEW j \in D, NEW k \in D PROVE <<j, k>> \in R <=> Earlier(j, k)
  <2>1. <<j, k>> \in D \X D /\ <<j, k>>[1] = j /\ <<j, k>>[2] = k
    OBVIOUS
  <2> HIDE DEF D, key
  <2> QED
    BY <2>1
<1>4. asked = [m \in D |-> r[I(m)]]
  <2> DEFINE Key(k) == IF r[k].row.score = NoValue THEN <<1, 0>> ELSE <<0, -r[k].row.score>>
             Sooner(j, k) == \/ Key(j)[1] < Key(k)[1]
                             \/ Key(j)[1] = Key(k)[1] /\ Key(j)[2] < Key(k)[2]
                             \/ Key(j) = Key(k) /\ r[j].id < r[k].id
             pl == [k \in D |-> 1 + Cardinality({j \in D : Sooner(j, k)})]
  <2>1. asked = [m \in D |-> r[CHOOSE k \in D : pl[k] = m]]
    BY DEF RankingResponse, r
  <2>2. \A k \in D : key[k] = Key(k)
    OBVIOUS
  <2>3. \A j, k \in D : Sooner(j, k) <=> Earlier(j, k)
    <3> HIDE DEF key, Key
    <3> QED BY <2>2
  <2> HIDE DEF Sooner, Earlier, D
  <2>4. ASSUME NEW k \in D PROVE place[k] = 1 + Cardinality({j \in D : Sooner(j, k)})
    <3>1. {j \in D : <<j, k>> \in R} = {j \in D : Sooner(j, k)}
      <4> HIDE DEF R
      <4> QED BY <1>3, <2>3
    <3> HIDE DEF R
    <3> QED
      BY <3>1 DEF PlaceIn
  <2>5. pl = place
    <3>1. place = [k \in D |-> place[k]]
      OBVIOUS
    <3> HIDE DEF place
    <3> QED BY <2>4, <3>1
  <2> HIDE DEF pl, place
  <2> QED
    BY <2>1, <2>5, SMTT(30)
<1>5. ASSUME NEW k \in D
      PROVE  /\ key[k][1] \in {0, 1} /\ key[k][2] \in Int
             /\ key[k][1] = 1 => key[k][2] = 0
             /\ r[k].row.score = NoValue => key[k][1] = 1
             /\ r[k].row.score # NoValue => key[k][1] = 0 /\ key[k][2] = -r[k].row.score
             /\ r[k].id \in Nat
  BY <1>2 DEF NoValue
<1>6. \A j, k \in D : key[j] = key[k] <=> key[j][1] = key[k][1] /\ key[j][2] = key[k][2]
  BY <1>2 DEF NoValue
<1>7. Line(D, R)
  <2> DEFINE a == [k \in D |-> key[k][1]]
             b == [k \in D |-> key[k][2]]
             c == [k \in D |-> r[k].id]
  <2>1. \A k \in D : a[k] \in Int /\ b[k] \in Int /\ c[k] \in Int
    BY <1>5
  <2>2. \A j, k \in D : c[j] = c[k] => j = k
    BY <1>2
  <2>3. \A j, k \in D : <<j, k>> \in R <=>
            \/ a[j] < a[k]
            \/ a[j] = a[k] /\ b[j] < b[k]
            \/ a[j] = a[k] /\ b[j] = b[k] /\ c[j] < c[k]
    <3> HIDE DEF key, R, D
    <3> QED BY <1>3, <1>6, ZenonT(40)
  <2> HIDE DEF D, R, a, b, c
  <2>4. ASSUME NEW j \in D PROVE <<j, j>> \notin R
    BY <2>1, <2>3
  <2>5. ASSUME NEW j \in D, NEW k \in D PROVE j = k \/ <<j, k>> \in R \/ <<k, j>> \in R
    BY <2>1, <2>2, <2>3
  <2>6. ASSUME NEW i \in D, NEW j \in D, NEW k \in D, <<i, j>> \in R, <<j, k>> \in R
        PROVE  <<i, k>> \in R
    BY <2>1, <2>3, <2>6
  <2> QED
    BY <2>4, <2>5, <2>6 DEF Line
<1>8. /\ \A x, y \in D : <<x, y>> \in R => place[x] < place[y]
      /\ {place[x] : x \in D} = D
  <2>1. IsFiniteSet(D) /\ Cardinality(D) = n
    BY <1>1, FS_Interval
  <2>2. place = [x \in D |-> PlaceIn(D, R, x)]
    OBVIOUS
  <2> HIDE DEF place, R, D
  <2>3. /\ \A x, y \in D : <<x, y>> \in R => place[x] < place[y]
        /\ {place[x] : x \in D} = 1 .. Cardinality(D)
    BY <1>7, <2>1, <2>2, InALine
  <2> QED
    BY <1>1, <2>1, <2>3
<1> HIDE DEF place, R
<1>9. ASSUME NEW m \in D PROVE I(m) \in D /\ place[I(m)] = m
  <2>1. \E k \in D : place[k] = m
    BY <1>8
  <2> HIDE DEF D
  <2> QED
    BY <2>1
<1> HIDE DEF I, asked
<1>10. DOMAIN asked = D
  BY <1>4
<1>11. ASSUME NEW m \in D, NEW k \in D, asked[m].row.score > asked[k].row.score,
              asked[k].row.score # NoValue
       PROVE  m < k /\ asked[m].row.rank < asked[k].row.rank
  <2> DEFINE x == I(m)
             y == I(k)
  <2>1. x \in D /\ y \in D /\ place[x] = m /\ place[y] = k
    BY <1>9
  <2>2. asked[m] = r[x] /\ asked[k] = r[y]
    BY <1>4
  <2> HIDE DEF x, y, D, key
  <2>3. /\ r[x].row.score > r[y].row.score /\ r[y].row.score # NoValue
        /\ r[x].row.score \in Nat \cup {NoValue} /\ r[y].row.score \in Nat \cup {NoValue}
    BY <1>2, <1>11, <2>1, <2>2
  <2>4. r[x].row.score # NoValue
    BY <2>3 DEF NoValue
  <2>5. r[x].row.score \in Nat /\ r[y].row.score \in Nat
    BY <2>3, <2>4
  <2>6. Earlier(x, y)
    BY <1>5, <2>1, <2>3, <2>4, <2>5
  <2>7. place[x] < place[y]
    <3> HIDE DEF Earlier
    <3> QED BY <1>3, <1>8, <2>1, <2>6
  <2> QED
    BY <1>2, <2>1, <2>2, <2>3, <2>7
<1> QED
  BY <1>10, <1>11 DEF AskedFits, asked

-----------------------------------------------------------------------------
(* What a quote does, by the rows it changes.                              *)
TypeTable(table, t) == [i \in {j \in DOMAIN table : TypeOf[j] = t} |-> table[i]]
RankedRow(table, i) == ScoredRows(TypeTable(table, TypeOf[i]))[i]
FairSnapshots(table) ==
    DOMAIN table \subseteq Sectors /\ \A i \in DOMAIN table : Fair(table[i], i)
LiveFields == {"quotes", "snapshots", "market", "kept", "ranking", "rested", "behind", "torn",
               "taken", "broken"}

(* The snapshots of a type are a table that can be scored.                  *)
LEMMA TypeTableIsFair ==
  ASSUME NEW A, FairSnapshots(A), NEW t
  PROVE  FairTable(TypeTable(A, t), {i \in DOMAIN A : TypeOf[i] = t})
<1> DEFINE D == {i \in DOMAIN A : TypeOf[i] = t}
<1>1. D \subseteq Sectors /\ D \subseteq Nat /\ IsFiniteSet(D)
  <2>1. D \subseteq Sectors
    BY DEF FairSnapshots
  <2> HIDE DEF D
  <2> QED
    BY <2>1, LiveAssumption, FS_Subset
<1> QED
  BY <1>1 DEF FairTable, TypeTable, FairSnapshots

(* What is aggregated, as a function,                                       *)
LEMMA AggregatedIs ==
  ASSUME NEW quotes, NEW s, NEW q
  PROVE  Aggregated(quotes, s, q)
           = Overlaid([i \in SectorsOf[s] |-> Aggregate(quotes, i, q)], live.snapshots)
<1> DEFINE touched == SectorsOf[s]
           f == [i \in touched |-> Aggregate(quotes, i, q)]
           lines == {<<k, Aggregate(quotes, k, q)>> : k \in touched}
           f0 == [i \in touched |-> (CHOOSE row \in lines : row[1] = i)[2]]
<1>1. lines = {<<k, f[k]>> : k \in touched} /\ f = [i \in touched |-> f[i]]
  OBVIOUS
<1>2. Aggregated(quotes, s, q) = Overlaid(f0, live.snapshots)
  BY DEF Aggregated, Table
<1> HIDE DEF lines, f, touched
<1>3. [i \in touched |-> (CHOOSE row \in lines : row[1] = i)[2]] = [i \in touched |-> f[i]]
  BY ONLY <1>1, TableIs
<1> QED
  BY <1>1, <1>2, <1>3 DEF f, touched

(* what is ranked,                                                          *)
LEMMA RankingsAre ==
  ASSUME NEW A, NEW types
  PROVE  Rankings(A, types) = [t \in types |-> Scored(TypeTable(A, t))]
<1> DEFINE T0(t) == [i \in {j \in DOMAIN A : TypeOf[j] = t}
                        |-> (CHOOSE row \in {<<k, A[k]>> : k \in {j \in DOMAIN A : TypeOf[j] = t}} : row[1] = i)[2]]
           scored == [t \in types |-> Scored(TypeTable(A, t))]
           lines == {<<k, Scored(T0(k))>> : k \in types}
<1>1. ASSUME NEW t PROVE T0(t) = TypeTable(A, t)
  <2> DEFINE D == {j \in DOMAIN A : TypeOf[j] = t}
             g == TypeTable(A, t)
             has == {<<k, A[k]>> : k \in D}
  <2>1. g = [i \in D |-> g[i]] /\ has = {<<k, g[k]>> : k \in D}
    BY DEF TypeTable
  <2>2. T0(t) = [i \in D |-> (CHOOSE row \in has : row[1] = i)[2]]
    OBVIOUS
  <2> HIDE DEF has, g, D, T0
  <2>3. [i \in D |-> (CHOOSE row \in has : row[1] = i)[2]] = [i \in D |-> g[i]]
    BY ONLY <2>1, TableIs
  <2>4. T0(t) = g
    BY ONLY <2>1, <2>2, <2>3
  <2> QED
    BY <2>4 DEF g
<1>2. Rankings(A, types) = [t \in types |-> (CHOOSE row \in lines : row[1] = t)[2]]
  BY DEF Rankings, Table
<1> HIDE DEF T0
<1>3. lines = {<<k, scored[k]>> : k \in types} /\ scored = [t \in types |-> scored[t]]
  BY <1>1
<1> HIDE DEF lines, scored
<1>4. [t \in types |-> (CHOOSE row \in lines : row[1] = t)[2]] = [t \in types |-> scored[t]]
  BY ONLY <1>3, TableIs
<1> QED
  BY <1>2, <1>3, <1>4 DEF scored

(* and what a quote makes of the memory and of Redis.                       *)
LEMMA AcceptIs ==
  ASSUME NEW s, NEW q, NEW done, NEW cut, NEW n, NEW unsaved,
         Accept(s, q, done, cut, n, unsaved), DOMAIN live = LiveFields,
         NEW quotes, quotes = [live.quotes EXCEPT ![s] = q],
         NEW A, A = Aggregated(quotes, s, q),
         NEW scored, scored = Rankings(A, TypesOf(s))
  PROVE  /\ \A t \in cut : n \in DOMAIN scored[t]
         /\ DOMAIN live' = LiveFields
         /\ live'.quotes = quotes
         /\ live'.snapshots = Overlaid(RowsOf(Reached(scored, done, cut, n)), A)
         /\ live'.kept = Overlaid(RowsOf(Reached(scored, done, cut, n - unsaved)), live.kept)
         /\ live'.ranking = [t \in Types |-> IF t \in done \cap live.rested THEN scored[t]
                                             ELSE live.ranking[t]]
         /\ live'.behind = live.behind \ SectorsOf[s]
         /\ live'.torn = (live.torn \cup TypesOf(s)) \ done
  BY DEF Accept, LiveFields

(* The entries that are reached are ranked rows, all of a type that is done. *)
LEMMA ReachedRows ==
  ASSUME NEW A, FairSnapshots(A), NEW types, NEW scored, scored = Rankings(A, types),
         NEW done \in SUBSET types, NEW cut \in SUBSET types, NEW n \in Int,
         NEW m \in Int, m <= n, \A t \in cut : n \in DOMAIN scored[t],
         NEW placed, placed = RowsOf(Reached(scored, done, cut, m))
  PROVE  /\ \A i \in DOMAIN placed : i \in DOMAIN A /\ TypeOf[i] \in types
                                   /\ placed[i] = RankedRow(A, i)
         /\ \A i \in DOMAIN A : TypeOf[i] \in done => i \in DOMAIN placed
<1> DEFINE E == Reached(scored, done, cut, m)
           g == [i \in DOMAIN A |-> RankedRow(A, i)]
           D(t) == {i \in DOMAIN A : TypeOf[i] = t}
<1>1. \A t \in types : scored[t] = Scored(TypeTable(A, t))
  BY RankingsAre
<1>2. ASSUME NEW t \in types
      PROVE  /\ Cardinality(D(t)) \in Nat /\ DOMAIN scored[t] = 1 .. Cardinality(D(t))
             /\ \A k \in DOMAIN scored[t] : scored[t][k].id \in D(t)
                    /\ scored[t][k].row = g[scored[t][k].id]
             /\ \A i \in D(t) : \E k \in DOMAIN scored[t] : scored[t][k].id = i
  <2> DEFINE S == D(t)
             T == TypeTable(A, t)
             R == ScoredRows(T)
             r == scored[t]
  <2>1. FairTable(T, S)
    BY TypeTableIsFair
  <2>2. r = Scored(T) /\ R = ScoredRows(T)
    BY <1>1
  <2>3. \A i \in S : g[i] = R[i]
    BY DEF RankedRow
  <2> HIDE DEF S, T, R, r, g
  <2>4. /\ Cardinality(S) \in Nat /\ DOMAIN r = 1 .. Cardinality(S)
        /\ \A k \in DOMAIN r : r[k].id \in S /\ r[k].row = R[r[k].id]
        /\ \A i \in S : \E k \in DOMAIN r : r[k].id = i
    BY <2>1, <2>2, ListingOf
  <2> QED
    BY <2>3, <2>4 DEF S, r
<1> HIDE DEF g
<1>3. \A e \in E : \E t \in types : \E k \in DOMAIN scored[t] : e = scored[t][k]
  <2>1. \A t \in done : t \in types /\ \A e \in Range(scored[t]) : \E k \in DOMAIN scored[t] : e = scored[t][k]
    BY DEF Range
  <2>2. \A t \in cut : t \in types /\ \A k \in 1 .. m : k \in DOMAIN scored[t]
    <3> SUFFICES ASSUME NEW t \in cut, NEW k \in 1 .. m PROVE t \in types /\ k \in DOMAIN scored[t]
      OBVIOUS
    <3> DEFINE c == Cardinality(D(t))
    <3>1. c \in Nat /\ DOMAIN scored[t] = 1 .. c /\ n \in DOMAIN scored[t]
      BY <1>2
    <3> HIDE DEF c
    <3> QED
      BY <3>1
  <2> HIDE DEF D
  <2> QED
    BY <2>1, <2>2 DEF Reached
<1>4. ASSUME NEW e \in E
      PROVE  e.row = g[e.id] /\ e.id \in DOMAIN A /\ TypeOf[e.id] \in types
  <2>1. PICK t \in types : \E k \in DOMAIN scored[t] : e = scored[t][k]
    BY <1>3
  <2>2. PICK k \in DOMAIN scored[t] : e = scored[t][k]
    BY <2>1
  <2>a. \A j \in DOMAIN scored[t] : scored[t][j].id \in D(t)
                                    /\ scored[t][j].row = g[scored[t][j].id]
    BY <1>2
  <2>3. e.id \in D(t) /\ e.row = g[e.id]
    <3> HIDE DEF D
    <3> QED BY <2>2, <2>a
  <2> QED
    BY <2>3
<1>5. ASSUME NEW i \in DOMAIN A, TypeOf[i] \in done PROVE \E e \in E : e.id = i
  <2> DEFINE t == TypeOf[i]
  <2>0. t \in types /\ i \in D(t)
    BY <1>5
  <2>a. \A j \in D(t) : \E k \in DOMAIN scored[t] : scored[t][k].id = j
    BY <1>2, <2>0
  <2>1. PICK k \in DOMAIN scored[t] : scored[t][k].id = i
    BY <2>0, <2>a
  <2>2. scored[t][k] \in Range(scored[t])
    BY DEF Range
  <2>3. scored[t][k] \in E
    BY <1>5, <2>2 DEF Reached
  <2> QED
    BY <2>1, <2>3
<1> HIDE DEF E, D
<1>6. /\ DOMAIN RowsOf(E) = {e.id : e \in E}
      /\ \A i \in DOMAIN RowsOf(E) : RowsOf(E)[i] = g[i]
  <2>1. \A e \in E : e.row = g[e.id]
    BY <1>4
  <2> QED
    BY <2>1, RowsOfIs
<1>7. placed = RowsOf(E)
  BY DEF E
<1>8. \A i \in DOMAIN placed : i \in DOMAIN A /\ TypeOf[i] \in types /\ placed[i] = g[i]
  BY <1>4, <1>6, <1>7
<1>9. \A i \in DOMAIN A : TypeOf[i] \in done => i \in DOMAIN placed
  BY <1>5, <1>6, <1>7
<1>10. \A i \in DOMAIN A : g[i] = RankedRow(A, i)
  BY DEF g
<1> QED
  BY <1>8, <1>9, <1>10

(* The inductive invariant.                                                *)
Agreeing(quotes, snapshots, i) ==
    LET now == Aggregate(quotes, i, [status |-> "LIVE"])
    IN  IF i \in DOMAIN snapshots THEN \A f \in SeenFields : snapshots[i][f] = now[f]
        ELSE now.quoted = 0
Published(snapshots, kept, t) ==
    /\ RanksFit(TypeTable(snapshots, t))
    /\ \A i \in DOMAIN kept : TypeOf[i] = t => kept[i] = snapshots[i]
LiveInv ==
    /\ DOMAIN live = LiveFields
    /\ QuotesOK(live.quotes)
    /\ FairSnapshots(live.snapshots) /\ DOMAIN live.kept \subseteq DOMAIN live.snapshots
    /\ \A i \in Sectors \ live.behind : Agreeing(live.quotes, live.snapshots, i)
    /\ \A t \in Types \ live.torn : Published(live.snapshots, live.kept, t)
    /\ DOMAIN live.ranking = Types /\ \A t \in Types : Listing(live.ranking[t])

(* Nothing is ranked before the first quote.                                *)
LEMMA NoSectorFits ==
  ASSUME NEW table, DOMAIN table = {}
  PROVE  RanksFit(table)
<1> DEFINE scored == {i \in DOMAIN table : table[i].score # NoValue}
<1>1. scored = {} /\ Cardinality(scored) = 0
  BY FS_EmptySet
<1>2. {table[i].rank : i \in {}} = 1 .. 0
  OBVIOUS
<1> QED
  BY <1>1, <1>2 DEF RanksFit

LEMMA NoListing ==
  Listing(<<>>)
<1>1. DOMAIN <<>> = {} /\ Range(<<>>) = {}
  BY DEF Range
<1>2. DOMAIN RowsOf({}) = {}
  BY DEF RowsOf
<1>3. RanksFit(RowsOf(Range(<<>>)))
  BY <1>1, <1>2, NoSectorFits
<1>4. \E n \in Nat : DOMAIN <<>> = 1 .. n
  <2>1. DOMAIN <<>> = 1 .. 0 /\ 0 \in Nat
    OBVIOUS
  <2> QED
    BY <2>1
<1> QED
  BY <1>1, <1>3, <1>4 DEF Listing

LEMMA LiveStarts ==
  ASSUME LInit
  PROVE  LiveInv
<1>1. /\ DOMAIN live = LiveFields
      /\ live.quotes = [s \in ActiveStocks |-> Unseen]
      /\ live.snapshots = <<>> /\ live.kept = <<>>
      /\ live.ranking = [t \in Types |-> <<>>]
  BY DEF LInit, LiveFields
<1>2. DOMAIN <<>> = {}
  OBVIOUS
<1>3. QuotesOK(live.quotes)
  BY <1>1 DEF QuotesOK
<1>4. FairSnapshots(live.snapshots) /\ DOMAIN live.kept \subseteq DOMAIN live.snapshots
  BY <1>1, <1>2 DEF FairSnapshots
<1>5. ASSUME NEW i \in Sectors PROVE Agreeing(live.quotes, live.snapshots, i)
  <2> DEFINE now == Aggregate(live.quotes, i, [status |-> "LIVE"])
  <2>1. Quoted(live.quotes, MembersOf[i]) = {}
    BY <1>1 DEF Quoted, MembersOf
  <2>2. now.quoted = Cardinality({})
    BY <2>1 DEF Aggregate
  <2>3. Cardinality({}) = 0
    BY FS_EmptySet
  <2> QED
    BY <1>1, <1>2, <2>2, <2>3 DEF Agreeing
<1>6. ASSUME NEW t \in Types PROVE Published(live.snapshots, live.kept, t)
  <2>1. DOMAIN TypeTable(live.snapshots, t) = {}
    BY <1>1, <1>2 DEF TypeTable
  <2> QED
    BY <1>1, <1>2, <2>1, NoSectorFits DEF Published
<1> QED
  BY <1>1, <1>3, <1>4, <1>5, <1>6, NoListing DEF LiveInv
(* A quote of a stock changes what is aggregated only of its sectors.      *)
LEMMA OthersAgree ==
  ASSUME LiveInv, NEW s \in ActiveStocks, NEW q,
         NEW quotes, quotes = [live.quotes EXCEPT ![s] = q],
         NEW i \in Sectors, i \notin SectorsOf[s], NEW table,
         Agreeing(live.quotes, table, i)
  PROVE  Agreeing(quotes, table, i)
<1> DEFINE a == [status |-> "LIVE"]
<1>1. s \notin MembersOf[i]
  BY DEF SectorsOf
<1>2. \A x \in MembersOf[i] : quotes[x] = live.quotes[x]
  BY <1>1 DEF LiveInv, QuotesOK, MembersOf
<1>3. \A f \in SeenFields : Aggregate(quotes, i, a)[f] = Aggregate(live.quotes, i, a)[f]
  <2> DEFINE before == live.quotes
  <2>1. \A x \in MembersOf[i] : quotes[x] = before[x]
    BY <1>2
  <2> HIDE DEF a, before
  <2>2. \A f \in SeenFields : Aggregate(quotes, i, a)[f] = Aggregate(before, i, a)[f]
    BY ONLY <2>1, AggregateSees
  <2> QED
    BY <2>2 DEF before
<1> HIDE DEF a
<1>4. Aggregate(quotes, i, a).quoted = Aggregate(live.quotes, i, a).quoted
  BY <1>3 DEF SeenFields
<1> QED
  BY <1>3, <1>4 DEF Agreeing, a

(* A quote that is taken is a quote.                                        *)
LEMMA QuotesStay ==
  ASSUME LiveInv, NEW s \in ActiveStocks, NEW q \in Quotes
  PROVE  QuotesOK([live.quotes EXCEPT ![s] = q])
BY DEF LiveInv, QuotesOK

(* A quote keeps the invariant, whichever Redis command fails: what is      *)
(* aggregated is of the quotes as they are now, and a type that is done is  *)
(* ranked as a whole in memory and in Redis.                                *)
LEMMA AcceptKeeps ==
  ASSUME LiveInv, NEW s \in ActiveStocks, NEW q \in Quotes,
         NEW done \in SUBSET TypesOf(s), NEW cut \in SUBSET TypesOf(s),
         NEW n \in Int, NEW unsaved \in {0, 1},
         Accept(s, q, done, cut, n, unsaved)
  PROVE  LiveInv'
<1> DEFINE touched == SectorsOf[s]
           types == TypesOf(s)
           quotes == [live.quotes EXCEPT ![s] = q]
           old == live.snapshots
           A == Aggregated(quotes, s, q)
           scored == Rankings(A, types)
           B == live'.snapshots
           K == live'.kept
           there == RowsOf(Reached(scored, done, cut, n))
           saved == RowsOf(Reached(scored, done, cut, n - unsaved))
           Of(t) == {i \in DOMAIN A : TypeOf[i] = t}
<1>1. /\ \A t \in cut : n \in DOMAIN scored[t]
      /\ DOMAIN live' = LiveFields
      /\ live'.quotes = quotes
      /\ B = Overlaid(there, A)
      /\ K = Overlaid(saved, live.kept)
      /\ live'.ranking = [t \in Types |-> IF t \in done \cap live.rested THEN scored[t]
                                             ELSE live.ranking[t]]
      /\ live'.behind = live.behind \ touched
      /\ live'.torn = (live.torn \cup types) \ done
  <2>1. DOMAIN live = LiveFields
    BY DEF LiveInv
  <2> HIDE DEF quotes, A, scored
  <2>2. quotes = [live.quotes EXCEPT ![s] = q] /\ A = Aggregated(quotes, s, q)
        /\ scored = Rankings(A, TypesOf(s))
    BY DEF quotes, A, scored
  <2> QED
    BY <2>1, <2>2, AcceptIs
<1>2. /\ QuotesOK(quotes) /\ FairSnapshots(old) /\ DOMAIN live.kept \subseteq DOMAIN old
      /\ touched \subseteq Sectors
  BY QuotesStay DEF LiveInv, SectorsOf
<1>3. /\ A = Overlaid([i \in touched |-> Aggregate(quotes, i, q)], old)
      /\ DOMAIN A = touched \cup DOMAIN old
      /\ \A i \in touched : A[i] = Aggregate(quotes, i, q)
      /\ \A i \in DOMAIN old \ touched : A[i] = old[i]
  <2> HIDE DEF quotes, touched
  <2>1. A = Overlaid([i \in touched |-> Aggregate(quotes, i, q)], old)
    BY AggregatedIs DEF touched
  <2> HIDE DEF A
  <2> QED
    BY <2>1 DEF Overlaid
<1> HIDE DEF quotes
<1>4. FairSnapshots(A)
  <2>1. \A i \in touched : Fair(Aggregate(quotes, i, q), i)
    BY <1>2, AggregateIsFair
  <2> HIDE DEF A, touched
  <2> QED
    BY <1>2, <1>3, <2>1 DEF FairSnapshots
<1> HIDE DEF A
<1>5. /\ \A i \in DOMAIN there : i \in DOMAIN A /\ TypeOf[i] \in types
                                 /\ there[i] = RankedRow(A, i)
      /\ \A i \in DOMAIN A : TypeOf[i] \in done => i \in DOMAIN there
  <2>1. scored = Rankings(A, types) /\ there = RowsOf(Reached(scored, done, cut, n)) /\ n <= n
    OBVIOUS
  <2>2. done \in SUBSET types /\ cut \in SUBSET types /\ n \in Int
    OBVIOUS
  <2>3. \A t \in cut : n \in DOMAIN scored[t]
    BY <1>1
  <2> HIDE DEF scored, there, types
  <2> QED
    BY ONLY <1>4, <2>1, <2>2, <2>3, ReachedRows, SMTT(30)
<1>6. /\ \A i \in DOMAIN saved : i \in DOMAIN A /\ TypeOf[i] \in types
                                 /\ saved[i] = RankedRow(A, i)
      /\ \A i \in DOMAIN A : TypeOf[i] \in done => i \in DOMAIN saved
  <2> DEFINE m == n - unsaved
  <2>1. scored = Rankings(A, types) /\ saved = RowsOf(Reached(scored, done, cut, m))
    OBVIOUS
  <2>2. done \in SUBSET types /\ cut \in SUBSET types /\ n \in Int
        /\ m \in Int /\ m <= n
    OBVIOUS
  <2>3. \A t \in cut : n \in DOMAIN scored[t]
    BY <1>1
  <2> HIDE DEF scored, saved, types, m
  <2> QED
    BY ONLY <1>4, <2>1, <2>2, <2>3, ReachedRows
<1> HIDE DEF scored
<1>7. ASSUME NEW i \in DOMAIN A
      PROVE  /\ Fair(RankedRow(A, i), i)
             /\ \A f \in SeenFields : RankedRow(A, i)[f] = A[i][f]
  <2> DEFINE t == TypeOf[i]
             D == Of(t)
             T == TypeTable(A, t)
             lines == ScoredRows(T)
  <2>1. FairTable(T, D) /\ i \in D /\ T[i] = A[i]
    BY <1>4, TypeTableIsFair DEF TypeTable
  <2>2. RankedRow(A, i) = lines[i] /\ lines = ScoredRows(T)
    BY DEF RankedRow
  <2> HIDE DEF D, T, lines
  <2>3. \A j \in D : Fair(lines[j], j) /\ \A f \in SeenFields : lines[j][f] = T[j][f]
    BY <2>1, <2>2, RankedFit
  <2> QED
    BY <2>1, <2>2, <2>3
<1> HIDE DEF there, saved
<1>8. /\ DOMAIN B = DOMAIN A
      /\ \A i \in DOMAIN A : B[i] = A[i] \/ B[i] = RankedRow(A, i)
      /\ \A i \in DOMAIN A : TypeOf[i] \notin types => B[i] = A[i]
      /\ \A i \in DOMAIN A : TypeOf[i] \in done => B[i] = RankedRow(A, i)
  <2> HIDE DEF types, B
  <2> QED BY <1>1, <1>5 DEF Overlaid
<1>9. /\ DOMAIN K \subseteq DOMAIN A
      /\ \A i \in DOMAIN K : TypeOf[i] \notin types => i \in DOMAIN live.kept /\ K[i] = live.kept[i]
      /\ \A i \in DOMAIN K : TypeOf[i] \in done => K[i] = RankedRow(A, i)
  <2> HIDE DEF types, K, touched
  <2> QED BY <1>1, <1>2, <1>3, <1>6 DEF Overlaid
<1> HIDE DEF B, K, touched, types, old
<1>10. FairSnapshots(B) /\ \A i \in DOMAIN A : \A f \in SeenFields : B[i][f] = A[i][f]
  BY <1>4, <1>7, <1>8 DEF FairSnapshots
<1>11. ASSUME NEW i \in Sectors \ live'.behind PROVE Agreeing(quotes, B, i)
  <2>1. CASE i \in touched
    <3> DEFINE a == [status |-> "LIVE"]
    <3>1. \A f \in SeenFields : Aggregate(quotes, i, q)[f] = Aggregate(quotes, i, a)[f]
      BY AggregateSees
    <3> HIDE DEF a
    <3>2. \A f \in SeenFields : B[i][f] = Aggregate(quotes, i, a)[f]
      BY <1>3, <1>10, <2>1, <3>1
    <3> QED
      BY <1>3, <1>8, <2>1, <3>2 DEF Agreeing, a
  <2>2. CASE i \notin touched
    <3>1. Agreeing(live.quotes, old, i)
      BY <1>1, <1>11, <2>2 DEF LiveInv, old
    <3>2. Agreeing(quotes, old, i)
      BY <2>2, <3>1, OthersAgree DEF quotes, touched
    <3>3. i \in DOMAIN old <=> i \in DOMAIN B
      BY <1>3, <1>8, <2>2
    <3>4. i \in DOMAIN old => \A f \in SeenFields : B[i][f] = old[i][f]
      BY <1>3, <1>10, <2>2
    <3> QED
      BY <3>2, <3>3, <3>4 DEF Agreeing
  <2> QED
    BY <2>1, <2>2
<1>12. ASSUME NEW t \in Types \ live'.torn PROVE Published(B, K, t)
  <2>1. CASE t \in done
    <3> DEFINE D == Of(t)
               T == TypeTable(A, t)
               lines == ScoredRows(T)
    <3>1. FairTable(T, D) /\ lines = ScoredRows(T)
      BY <1>4, TypeTableIsFair
    <3>2. \A i \in D : RankedRow(A, i) = lines[i]
      BY DEF RankedRow
    <3>3. DOMAIN lines = DOMAIN T /\ lines = [i \in DOMAIN T |-> lines[i]]
      BY DEF ScoredRows
    <3>4. D \subseteq DOMAIN A /\ \A i \in DOMAIN A : i \in D <=> TypeOf[i] = t
      OBVIOUS
    <3>5. TypeTable(B, t) = [i \in {j \in DOMAIN B : TypeOf[j] = t} |-> B[i]]
      BY DEF TypeTable
    <3> HIDE DEF T, lines, D
    <3>6. DOMAIN lines = D /\ RanksFit(lines)
      BY <3>1, RankedFit
    <3>7. TypeTable(B, t) = lines
      <4>1. {j \in DOMAIN B : TypeOf[j] = t} = D
        BY <1>8, <3>4
      <4>2. \A i \in D : B[i] = lines[i]
        BY <1>8, <2>1, <3>2, <3>4
      <4> QED
        BY <3>3, <3>5, <3>6, <4>1, <4>2
    <3>8. \A i \in DOMAIN K : TypeOf[i] = t => K[i] = B[i]
      BY <1>8, <1>9, <2>1
    <3> QED
      BY <3>6, <3>7, <3>8 DEF Published
  <2>2. CASE t \notin done
    <3>1. t \notin types /\ t \notin live.torn
      BY <1>1, <1>12, <2>2
    <3>2. Published(old, live.kept, t)
      BY <3>1 DEF LiveInv, old
    <3>3. \A i \in touched : TypeOf[i] \in types
      BY DEF touched, types, TypesOf
    <3>4. \A i \in DOMAIN A : TypeOf[i] = t => i \in DOMAIN old /\ B[i] = old[i]
      BY <1>3, <1>8, <3>1, <3>3
    <3>5. TypeTable(B, t) = TypeTable(old, t)
      <4>1. {j \in DOMAIN B : TypeOf[j] = t} = {j \in DOMAIN old : TypeOf[j] = t}
        BY <1>3, <1>8, <3>4
      <4> QED
        BY <1>3, <3>4, <4>1 DEF TypeTable
    <3>6. \A i \in DOMAIN K : TypeOf[i] = t => K[i] = B[i]
      BY <1>8, <1>9, <3>1, <3>2, <3>4 DEF Published
    <3> QED
      BY <3>2, <3>5, <3>6 DEF Published
  <2> QED
    BY <2>1, <2>2
<1>13. ASSUME NEW t \in Types PROVE Listing(live'.ranking[t])
  <2>1. CASE t \in done \cap live.rested
    <3> DEFINE D == Of(t)
               T == TypeTable(A, t)
    <3>1. FairTable(T, D)
      BY <1>4, TypeTableIsFair
    <3>2. t \in types
      BY <2>1 DEF types
    <3>3. scored[t] = Scored(T)
      BY <3>2, RankingsAre DEF scored
    <3> HIDE DEF D, T
    <3>4. Listing(Scored(T))
      BY <3>1, ScoredIsAListing
    <3> QED
      BY <1>1, <2>1, <3>3, <3>4
  <2>2. CASE t \notin done \cap live.rested
    BY <1>1, <2>2 DEF LiveInv
  <2> QED
    BY <2>1, <2>2
<1>14. DOMAIN K \subseteq DOMAIN B /\ DOMAIN live'.ranking = Types
  BY <1>1, <1>8, <1>9
<1>15. LiveInv' = /\ DOMAIN live' = LiveFields
                  /\ QuotesOK(live'.quotes)
                  /\ FairSnapshots(B) /\ DOMAIN K \subseteq DOMAIN B
                  /\ \A i \in Sectors \ live'.behind : Agreeing(live'.quotes, B, i)
                  /\ \A t \in Types \ live'.torn : Published(B, K, t)
                  /\ DOMAIN live'.ranking = Types /\ \A t \in Types : Listing(live'.ranking[t])
  BY DEF LiveInv, B, K
<1> QED
  BY <1>1, <1>2, <1>10, <1>11, <1>12, <1>13, <1>14, <1>15

(* So does what happens between quotes.                                     *)
LEMMA OtherLiveSteps ==
  ASSUME LiveInv,
         \/ \E s \in ActiveStocks, q \in Quotes : MarketUnsaved(s, q)
         \/ Rest \/ Forget
  PROVE  LiveInv'
<1>1. ASSUME NEW s \in ActiveStocks, NEW q \in Quotes, MarketUnsaved(s, q) PROVE LiveInv'
  <2> DEFINE quotes == [live.quotes EXCEPT ![s] = q]
  <2>1. /\ DOMAIN live' = LiveFields /\ live'.quotes = quotes
        /\ live'.behind = live.behind \cup SectorsOf[s]
        /\ live'.snapshots = live.snapshots /\ live'.kept = live.kept
        /\ live'.torn = live.torn /\ live'.ranking = live.ranking
    BY <1>1 DEF MarketUnsaved, LiveInv, LiveFields
  <2>2. QuotesOK(quotes)
    BY QuotesStay
  <2>3. ASSUME NEW i \in Sectors \ live'.behind PROVE Agreeing(quotes, live.snapshots, i)
    <3>1. i \in Sectors /\ i \notin SectorsOf[s] /\ i \notin live.behind
      BY <2>1, <2>3
    <3>2. Agreeing(live.quotes, live.snapshots, i)
      BY <3>1 DEF LiveInv
    <3> QED
      BY <3>1, <3>2, OthersAgree
  <2> HIDE DEF quotes
  <2> QED
    BY <2>1, <2>2, <2>3 DEF LiveInv
<1>2. CASE Rest
  BY <1>2 DEF Rest, LiveInv, LiveFields
<1>3. CASE Forget
  <2>1. /\ DOMAIN live' = LiveFields /\ live'.quotes = live.quotes
        /\ live'.behind = live.behind /\ live'.torn = live.torn
        /\ live'.snapshots = live.snapshots /\ live'.kept = <<>>
        /\ live'.ranking = [t \in Types |-> <<>>]
    BY <1>3 DEF Forget, LiveInv, LiveFields
  <2>2. DOMAIN <<>> = {}
    OBVIOUS
  <2> QED
    BY <2>1, <2>2, NoListing DEF LiveInv, Published
<1> QED
  BY <1>1, <1>2, <1>3

(* The snapshots of sectors that no failure left behind are those of the    *)
(* last quotes of their members, and every type that no failure tore is     *)
(* ranked as a whole, the same in memory and in Redis                       *)
(* (RealtimeTaxonomyAggregator.accept of realtime_strength.py 185-211).     *)
THEOREM LiveInvariant ==
  LiveSpec => []LiveInv
<1>1. LInit => LiveInv
  BY LiveStarts
<1>2. LiveInv /\ [LiveNext]_live => LiveInv'
  <2> SUFFICES ASSUME LiveInv, [LiveNext]_live PROVE LiveInv'
    OBVIOUS
  <2>1. ASSUME NEW s \in ActiveStocks, NEW q \in Quotes, Accept(s, q, TypesOf(s), {}, 0, 0)
        PROVE  LiveInv'
    <3>1. TypesOf(s) \in SUBSET TypesOf(s) /\ {} \in SUBSET TypesOf(s)
      OBVIOUS
    <3> QED
      BY <2>1, <3>1, AcceptKeeps
  <2>2. ASSUME NEW s \in ActiveStocks, NEW q \in Quotes, NEW t \in TypesOf(s),
               NEW done \in SUBSET (TypesOf(s) \ {t}), NEW n \in 1 .. Cardinality(Sectors),
               NEW unsaved \in {0, 1}, Accept(s, q, done, {t}, n, unsaved)
        PROVE  LiveInv'
    <3>1. done \in SUBSET TypesOf(s) /\ {t} \in SUBSET TypesOf(s) /\ n \in Int
      OBVIOUS
    <3> QED
      BY <2>2, <3>1, AcceptKeeps
  <2>3. CASE UNCHANGED live
    BY <2>3 DEF LiveInv
  <2>4. ASSUME NEW s \in ActiveStocks, NEW q \in Quotes,
               \E t \in TypesOf(s) : \E done \in SUBSET (TypesOf(s) \ {t}),
                  n \in 1 .. Cardinality(Sectors), unsaved \in {0, 1} :
                      Accept(s, q, done, {t}, n, unsaved)
        PROVE  LiveInv'
    <3>1. PICK t \in TypesOf(s) : \E done \in SUBSET (TypesOf(s) \ {t}),
               n \in 1 .. Cardinality(Sectors), unsaved \in {0, 1} :
                   Accept(s, q, done, {t}, n, unsaved)
      BY <2>4
    <3> QED
      BY <2>2, <3>1
  <2>5. CASE \/ \E s \in ActiveStocks, q \in Quotes : MarketUnsaved(s, q)
             \/ Rest \/ Forget
    BY <2>5, OtherLiveSteps
  <2>6. LiveNext => \/ \E s \in ActiveStocks, q \in Quotes :
                          \/ Accept(s, q, TypesOf(s), {}, 0, 0)
                          \/ \E t \in TypesOf(s) : \E done \in SUBSET (TypesOf(s) \ {t}),
                                n \in 1 .. Cardinality(Sectors), unsaved \in {0, 1} :
                                    Accept(s, q, done, {t}, n, unsaved)
                    \/ \E s \in ActiveStocks, q \in Quotes : MarketUnsaved(s, q)
                    \/ Rest \/ Forget
    BY DEF LiveNext
  <2> QED
    BY <2>1, <2>3, <2>4, <2>5, <2>6
<1> QED
  BY <1>1, <1>2, PTL DEF LiveSpec

(* What is shown follows from it.                                           *)
LEMMA LiveRanks ==
  ASSUME LiveInv
  PROVE  LiveRanksAreOfTheQuotes
<1>1. ASSUME NEW i \in Sectors \ live.behind
      PROVE  LET now == Aggregate(live.quotes, i, [status |-> "LIVE"])
             IN  IF i \in DOMAIN live.snapshots
                 THEN \A f \in {"momentum", "breadth", "valid", "quoted"} :
                         live.snapshots[i][f] = now[f]
                 ELSE now.quoted = 0
  BY DEF LiveInv, Agreeing, SeenFields
<1>2. ASSUME NEW t \in Types \ live.torn
      PROVE  /\ RanksFit([i \in {j \in DOMAIN live.snapshots : TypeOf[j] = t} |-> live.snapshots[i]])
             /\ \A i \in DOMAIN [i \in {j \in DOMAIN live.kept : TypeOf[j] = t} |-> live.kept[i]] :
                   live.kept[i] = live.snapshots[i]
  <2>1. Published(live.snapshots, live.kept, t)
    BY DEF LiveInv
  <2> QED
    BY <2>1 DEF Published, TypeTable
<1>3. ASSUME NEW t \in Types
      PROVE  RanksFit(RowsOf(Range(live.ranking[t]))) /\ AskedFits(RankingResponse(t, "score"))
  <2>1. Listing(live.ranking[t])
    BY DEF LiveInv
  <2> QED
    BY <2>1, AskedByStrength DEF Listing
<1> QED
  BY <1>1, <1>2, <1>3 DEF LiveRanksAreOfTheQuotes, RanksFit, AskedFits

(* The live ranks are one to the number of the sectors with a score, a      *)
(* sector that leads another in return and in breadth is ranked before it,  *)
(* nothing is live whose members are not covered, and the ranking by        *)
(* strength shows a higher score first (score 44-110 and _aggregate 213-264 *)
(* of realtime_strength.py, _ranking_response of realtime.py 104-121).      *)
THEOREM LiveRanksFollow ==
  LiveSpec => []LiveRanksAreOfTheQuotes
BY LiveInvariant, LiveRanks, PTL
==============================================================================

