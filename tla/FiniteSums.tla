------------------------------ MODULE FiniteSums ------------------------------
(***************************************************************************)
(* What SumFunctionOnSet gives on finite sets of integers: the facts that   *)
(* the proofs about ledgers and reservations need.  The sum is a recursive  *)
(* function over subsets which removes a chosen element; each fact is       *)
(* proved by taking a smallest subset at which it fails.                   *)
(***************************************************************************)
EXTENDS Integers, FiniteSets, Functions, FiniteSetTheorems, WellFoundedInduction, TLAPS

(* Every nonempty family of subsets of a finite set has a smallest member.  *)
LEMMA SmallestSubset ==
  ASSUME NEW S, IsFiniteSet(S), NEW F, F \subseteq SUBSET S, F # {}
  PROVE  \E m \in F : \A y \in F : y \subseteq m => y = m
<1> DEFINE R == StrictSubsetOrdering(S)
<1>1. IsWellFoundedOn(R, SUBSET S)
  BY FS_StrictSubsetOrderingWellFounded, FS_FiniteSubsetsOfFinite
<1>2. \E m \in F : \A y \in F : ~ (<<y, m>> \in R)
  <2> HIDE DEF R
  <2> QED BY <1>1, WFMin
<1> QED BY <1>2 DEF StrictSubsetOrdering

(* The element that the sum removes first.                                 *)
Picked(s) == CHOOSE x \in s : TRUE

(* g is the recursive function behind the sums of f over subsets of T.      *)
Summing(f, g, T) ==
  g = [s \in SUBSET T |-> IF s = {} THEN 0 ELSE f[Picked(s)] + g[s \ {Picked(s)}]]

LEMMA PickedIn ==
  ASSUME NEW S, S # {}
  PROVE  Picked(S) \in S
BY DEF Picked

LEMMA SummingStep ==
  ASSUME NEW f, NEW g, NEW T, Summing(f, g, T), NEW s \in SUBSET T
  PROVE  /\ s = {} => g[s] = 0
         /\ s # {} => g[s] = f[Picked(s)] + g[s \ {Picked(s)}]
BY DEF Summing

(* Two of them agree wherever both are defined.                            *)
LEMMA SummingAgree ==
  ASSUME NEW f, NEW S, IsFiniteSet(S), NEW T, NEW g, NEW h,
         Summing(f, g, S), Summing(f, h, T), NEW u \in SUBSET S, u \subseteq T
  PROVE  g[u] = h[u]
<1> SUFFICES ASSUME g[u] # h[u] PROVE FALSE
  OBVIOUS
<1> DEFINE F == {s \in SUBSET S : s \subseteq T /\ g[s] # h[s]}
<1>1. PICK m \in F : \A y \in F : y \subseteq m => y = m
  <2>1. F \subseteq SUBSET S /\ u \in F
    OBVIOUS
  <2> HIDE DEF F
  <2> QED BY <2>1, SmallestSubset
<1>2. m # {}
  BY SummingStep
<1> DEFINE n == m \ {Picked(m)}
<1>3. n \subseteq m /\ n # m /\ n \in SUBSET S /\ n \subseteq T
  BY <1>2, PickedIn
<1>4. g[n] = h[n]
  BY <1>1, <1>3
<1>5. g[m] = f[Picked(m)] + g[n] /\ h[m] = f[Picked(m)] + h[n]
  BY <1>2, SummingStep
<1> QED BY <1>1, <1>4, <1>5

(* There is one for every finite set.                                      *)
LEMMA SummingExists ==
  ASSUME NEW f, NEW S, IsFiniteSet(S)
  PROVE  \E g : Summing(f, g, S)
<1> SUFFICES ASSUME ~ \E g : Summing(f, g, S) PROVE FALSE
  OBVIOUS
<1> DEFINE F == {s \in SUBSET S : ~ \E g : Summing(f, g, s)}
<1>1. PICK m \in F : \A y \in F : y \subseteq m => y = m
  <2>1. F \subseteq SUBSET S /\ S \in F
    OBVIOUS
  <2> HIDE DEF F
  <2> QED BY <2>1, SmallestSubset
<1>2. \A y \in SUBSET m : y # m => \E g : Summing(f, g, y)
  BY <1>1
<1> DEFINE G(y) == CHOOSE g : Summing(f, g, y)
           v(y) == IF y = {} THEN 0 ELSE f[Picked(y)] + G(y \ {Picked(y)})[y \ {Picked(y)}]
           g == [y \in SUBSET m |-> v(y)]
<1>3. \A y \in SUBSET m : y # m => Summing(f, G(y), y)
  BY <1>2
<1>4. ASSUME NEW y \in SUBSET m, y # {}
      PROVE  g[y \ {Picked(y)}] = G(y \ {Picked(y)})[y \ {Picked(y)}]
  <2> DEFINE n == y \ {Picked(y)}
  <2>1. n \in SUBSET m /\ n # m
    BY <1>4, PickedIn
  <2>2. Summing(f, G(n), n)
    BY <1>3, <2>1
  <2>3. CASE n = {}
    BY <2>1, <2>2, <2>3, SummingStep
  <2>4. CASE n # {}
    <3> DEFINE k == n \ {Picked(n)}
    <3>1. k \in SUBSET m /\ k # m /\ k \in SUBSET n
      BY <2>1, <2>4, PickedIn
    <3>2. Summing(f, G(k), k)
      BY <1>3, <3>1
    <3>3. IsFiniteSet(k)
      BY <3>1, FS_Subset
    <3>4. G(k)[k] = G(n)[k]
      <4> HIDE DEF G, k, n
      <4> QED BY <2>2, <3>1, <3>2, <3>3, SummingAgree
    <3>5. G(n)[n] = f[Picked(n)] + G(n)[k]
      <4> HIDE DEF G, n
      <4>1. n \in SUBSET n
        OBVIOUS
      <4> QED BY <2>2, <2>4, <4>1, SummingStep
    <3>6. g[n] = f[Picked(n)] + G(k)[k]
      BY <2>1, <2>4
    <3> QED BY <3>4, <3>5, <3>6
  <2> QED BY <2>3, <2>4
<1>5. Summing(f, g, m)
  <2> HIDE DEF G
  <2>1. \A y \in SUBSET m : v(y) = IF y = {} THEN 0 ELSE f[Picked(y)] + g[y \ {Picked(y)}]
    BY <1>4
  <2> QED BY <2>1 DEF Summing
<1> QED BY <1>1, <1>5

(* The sum is the value of that function.                                  *)
LEMMA SumIsSumming ==
  ASSUME NEW f, NEW S, NEW T, IsFiniteSet(T), S \in SUBSET T, NEW g, Summing(f, g, T)
  PROVE  SumFunctionOnSet(f, S) = g[S]
<1>1. IsFiniteSet(S)
  BY FS_Subset
<1>2. SumFunctionOnSet(f, S) = (CHOOSE h : Summing(f, h, S))[S]
  BY Zenon DEF SumFunctionOnSet, FoldFunctionOnSet, MapThenFoldSet, Summing, Picked
<1>3. Summing(f, CHOOSE h : Summing(f, h, S), S)
  BY <1>1, SummingExists
<1> QED BY <1>1, <1>2, <1>3, SummingAgree

-----------------------------------------------------------------------------
(* Sums of a function f whose values on S are integers.                    *)
IntOn(f, S) == \A x \in S : f[x] \in Int

(* Taking away the element that the sum removes first.                     *)
LEMMA SumPicked ==
  ASSUME NEW f, NEW S, IsFiniteSet(S)
  PROVE  /\ S = {} => SumFunctionOnSet(f, S) = 0
         /\ S # {} => SumFunctionOnSet(f, S)
                        = f[Picked(S)] + SumFunctionOnSet(f, S \ {Picked(S)})
<1>1. PICK g : Summing(f, g, S)
  BY SummingExists
<1> DEFINE n == S \ {Picked(S)}
<1>2. S \in SUBSET S /\ n \in SUBSET S
  OBVIOUS
<1>3. SumFunctionOnSet(f, S) = g[S] /\ SumFunctionOnSet(f, n) = g[n]
  BY <1>1, <1>2, SumIsSumming
<1> QED BY <1>1, <1>2, <1>3, SummingStep

(* Two functions that agree on a set have the same sum over it.            *)
LEMMA SumSame ==
  ASSUME NEW f, NEW g, NEW S, IsFiniteSet(S), \A x \in S : f[x] = g[x]
  PROVE  SumFunctionOnSet(f, S) = SumFunctionOnSet(g, S)
<1> SUFFICES ASSUME SumFunctionOnSet(f, S) # SumFunctionOnSet(g, S) PROVE FALSE
  OBVIOUS
<1> DEFINE F == {s \in SUBSET S : SumFunctionOnSet(f, s) # SumFunctionOnSet(g, s)}
<1>1. PICK m \in F : \A y \in F : y \subseteq m => y = m
  <2>1. F \subseteq SUBSET S /\ S \in F
    OBVIOUS
  <2> HIDE DEF F
  <2> QED BY <2>1, SmallestSubset
<1>2. IsFiniteSet(m)
  BY FS_Subset
<1>3. m # {}
  BY <1>2, SumPicked
<1>4. Picked(m) \in m
  BY <1>3, PickedIn
<1>5. m \ {Picked(m)} \notin F
  BY <1>1, <1>4
<1> QED BY <1>2, <1>3, <1>4, <1>5, SumPicked

(* The sum is an integer, and a natural number when all the values are.     *)
LEMMA SumType ==
  ASSUME NEW f, NEW S, IsFiniteSet(S), IntOn(f, S)
  PROVE  SumFunctionOnSet(f, S) \in Int
<1> SUFFICES ASSUME SumFunctionOnSet(f, S) \notin Int PROVE FALSE
  OBVIOUS
<1> DEFINE F == {s \in SUBSET S : SumFunctionOnSet(f, s) \notin Int}
<1>1. PICK m \in F : \A y \in F : y \subseteq m => y = m
  <2>1. F \subseteq SUBSET S /\ S \in F
    OBVIOUS
  <2> HIDE DEF F
  <2> QED BY <2>1, SmallestSubset
<1>2. IsFiniteSet(m)
  BY FS_Subset
<1>3. m # {}
  <2>1. SumFunctionOnSet(f, m) # 0
    BY 0 \in Nat
  <2> QED BY <1>2, <2>1, SumPicked
<1>4. Picked(m) \in m /\ f[Picked(m)] \in Int
  BY <1>3, PickedIn DEF IntOn
<1>5. SumFunctionOnSet(f, m \ {Picked(m)}) \in Int
  BY <1>1, <1>4
<1> QED BY <1>2, <1>3, <1>4, <1>5, SumPicked

LEMMA SumNat ==
  ASSUME NEW f, NEW S, IsFiniteSet(S), \A x \in S : f[x] \in Nat
  PROVE  SumFunctionOnSet(f, S) \in Nat
<1> SUFFICES ASSUME SumFunctionOnSet(f, S) \notin Nat PROVE FALSE
  OBVIOUS
<1> DEFINE F == {s \in SUBSET S : SumFunctionOnSet(f, s) \notin Nat}
<1>1. PICK m \in F : \A y \in F : y \subseteq m => y = m
  <2>1. F \subseteq SUBSET S /\ S \in F
    OBVIOUS
  <2> HIDE DEF F
  <2> QED BY <2>1, SmallestSubset
<1>2. IsFiniteSet(m)
  BY FS_Subset
<1>3. m # {}
  <2>1. SumFunctionOnSet(f, m) # 0
    BY 0 \in Nat
  <2> QED BY <1>2, <2>1, SumPicked
<1>4. Picked(m) \in m /\ f[Picked(m)] \in Nat
  BY <1>3, PickedIn
<1>5. SumFunctionOnSet(f, m \ {Picked(m)}) \in Nat
  BY <1>1, <1>4
<1> QED BY <1>2, <1>3, <1>4, <1>5, SumPicked

LEMMA SumEmpty ==
  ASSUME NEW f
  PROVE  SumFunctionOnSet(f, {}) = 0
BY SumPicked, FS_EmptySet

(* One more element adds its value, whichever the sum removes first.        *)
LEMMA SumAdd ==
  ASSUME NEW f, NEW S, IsFiniteSet(S), NEW e, e \notin S, IntOn(f, S), f[e] \in Int
  PROVE  SumFunctionOnSet(f, S \cup {e}) = SumFunctionOnSet(f, S) + f[e]
<1> DEFINE sum(s) == SumFunctionOnSet(f, s)
           Fails(s, x) == x \notin s /\ f[x] \in Int /\ sum(s \cup {x}) # sum(s) + f[x]
           F == {s \in SUBSET S : \E x : Fails(s, x)}
<1> SUFFICES ASSUME Fails(S, e) PROVE FALSE
  OBVIOUS
<1>1. PICK m \in F : \A y \in F : y \subseteq m => y = m
  <2>1. F \subseteq SUBSET S /\ S \in F
    OBVIOUS
  <2> HIDE DEF F
  <2> QED BY <2>1, SmallestSubset
<1>2. PICK x : Fails(m, x)
  OBVIOUS
<1> DEFINE a == m \cup {x}
           p == Picked(a)
           n == m \ {p}
<1>3. IsFiniteSet(m) /\ IsFiniteSet(a) /\ IsFiniteSet(n) /\ m \subseteq S
  BY FS_Subset, FS_AddElement
<1>4. p \in a
  BY PickedIn
<1>5. sum(a) = f[p] + sum(a \ {p})
  BY <1>3, SumPicked
<1>6. sum(m) \in Int /\ sum(n) \in Int /\ f[x] \in Int
  BY <1>2, <1>3, SumType DEF IntOn
<1>7. p # x
  <2> SUFFICES ASSUME p = x PROVE FALSE
    OBVIOUS
  <2>1. a \ {p} = m
    BY <1>2
  <2>2. sum(a) = f[x] + sum(m)
    BY <1>5, <2>1
  <2>3. sum(a) # sum(m) + f[x]
    BY <1>2
  <2> HIDE DEF sum
  <2> QED BY <1>6, <2>2, <2>3
<1>8. p \in m /\ a \ {p} = n \cup {x} /\ n \cup {p} = m /\ f[p] \in Int
  BY <1>2, <1>3, <1>4, <1>7 DEF IntOn
<1>9. n \notin F /\ n \in SUBSET S
  BY <1>1, <1>3, <1>8
<1>10. sum(n \cup {x}) = sum(n) + f[x] /\ sum(m) = sum(n) + f[p]
  BY <1>2, <1>6, <1>8, <1>9
<1>11. sum(a) = f[p] + (sum(n) + f[x]) /\ sum(a) # (sum(n) + f[p]) + f[x]
  BY <1>2, <1>5, <1>8, <1>10
<1> HIDE DEF sum
<1> QED BY <1>6, <1>8, <1>11

LEMMA SumRemove ==
  ASSUME NEW f, NEW S, IsFiniteSet(S), NEW e \in S, IntOn(f, S)
  PROVE  SumFunctionOnSet(f, S) = SumFunctionOnSet(f, S \ {e}) + f[e]
<1>1. IsFiniteSet(S \ {e}) /\ e \notin S \ {e} /\ IntOn(f, S \ {e}) /\ f[e] \in Int
  BY FS_Subset DEF IntOn
<1>2. (S \ {e}) \cup {e} = S
  OBVIOUS
<1> QED BY <1>1, <1>2, SumAdd

LEMMA SumSingleton ==
  ASSUME NEW f, NEW e, f[e] \in Int
  PROVE  SumFunctionOnSet(f, {e}) = f[e]
<1>1. IsFiniteSet({}) /\ IntOn(f, {}) /\ {} \cup {e} = {e}
  BY FS_EmptySet DEF IntOn
<1>2. SumFunctionOnSet(f, {} \cup {e}) = SumFunctionOnSet(f, {}) + f[e]
  BY <1>1, SumAdd
<1> QED BY <1>1, <1>2, SumEmpty

(* Disjoint sets add up.                                                   *)
LEMMA SumUnion ==
  ASSUME NEW f, NEW S, NEW T, IsFiniteSet(S), IsFiniteSet(T), S \cap T = {},
         IntOn(f, S), IntOn(f, T)
  PROVE  SumFunctionOnSet(f, S \cup T) = SumFunctionOnSet(f, S) + SumFunctionOnSet(f, T)
<1> DEFINE sum(s) == SumFunctionOnSet(f, s)
           F == {s \in SUBSET T : sum(S \cup s) # sum(S) + sum(s)}
<1> SUFFICES ASSUME T \in F PROVE FALSE
  OBVIOUS
<1>1. PICK m \in F : \A y \in F : y \subseteq m => y = m
  <2>1. F \subseteq SUBSET T /\ T \in F
    OBVIOUS
  <2> HIDE DEF F
  <2> QED BY <2>1, SmallestSubset
<1>2. IsFiniteSet(m) /\ IntOn(f, m) /\ m \subseteq T
  BY FS_Subset DEF IntOn
<1>3. sum(S) \in Int
  BY SumType
<1>4. m # {}
  <2>1. S \cup {} = S /\ sum({}) = 0
    BY SumEmpty
  <2>2. sum(S \cup {}) = sum(S) + sum({})
    <3> HIDE DEF sum
    <3> QED BY <1>3, <2>1
  <2> QED BY <2>2
<1>5. PICK e : e \in m
  BY <1>4
<1> DEFINE n == m \ {e}
<1>6. IsFiniteSet(n) /\ IntOn(f, n) /\ n \in SUBSET T /\ n \notin F
  BY <1>1, <1>2, <1>5, FS_Subset DEF IntOn
<1>7. sum(S \cup n) = sum(S) + sum(n) /\ sum(n) \in Int /\ f[e] \in Int
  BY <1>2, <1>5, <1>6, SumType DEF IntOn
<1>8. sum(m) = sum(n) + f[e]
  BY <1>2, <1>5, SumRemove
<1>9. sum(S \cup m) = sum(S \cup n) + f[e]
  <2>1. IsFiniteSet(S \cup n) /\ IntOn(f, S \cup n) /\ e \notin S \cup n
    BY <1>2, <1>5, <1>6, FS_Union DEF IntOn
  <2>2. (S \cup n) \cup {e} = S \cup m
    BY <1>5
  <2>3. sum((S \cup n) \cup {e}) = sum(S \cup n) + f[e]
    BY <1>7, <2>1, SumAdd
  <2> QED BY <2>2, <2>3
<1>10. sum(S \cup m) # sum(S) + sum(m)
  OBVIOUS
<1> HIDE DEF sum
<1> QED BY <1>3, <1>7, <1>8, <1>9, <1>10

(* Elements whose value is 0 do not count.                                 *)
LEMMA SumZero ==
  ASSUME NEW f, NEW S, IsFiniteSet(S), \A x \in S : f[x] = 0
  PROVE  SumFunctionOnSet(f, S) = 0
<1> DEFINE F == {s \in SUBSET S : SumFunctionOnSet(f, s) # 0}
<1> SUFFICES ASSUME S \in F PROVE FALSE
  OBVIOUS
<1>1. PICK m \in F : \A y \in F : y \subseteq m => y = m
  <2>1. F \subseteq SUBSET S /\ S \in F
    OBVIOUS
  <2> HIDE DEF F
  <2> QED BY <2>1, SmallestSubset
<1>2. IsFiniteSet(m) /\ m \subseteq S
  BY FS_Subset
<1>3. m # {}
  BY <1>2, SumPicked
<1>4. Picked(m) \in m
  BY <1>3, PickedIn
<1>5. m \ {Picked(m)} \notin F
  BY <1>1, <1>4
<1> QED BY <1>2, <1>3, <1>4, <1>5, SumPicked

LEMMA SumSupport ==
  ASSUME NEW f, NEW S, NEW T, IsFiniteSet(S), T \subseteq S, IntOn(f, S),
         \A x \in S \ T : f[x] = 0
  PROVE  SumFunctionOnSet(f, S) = SumFunctionOnSet(f, T)
<1>1. /\ IsFiniteSet(T) /\ IsFiniteSet(S \ T) /\ T \cap (S \ T) = {}
      /\ T \cup (S \ T) = S /\ IntOn(f, T) /\ IntOn(f, S \ T)
  BY FS_Subset DEF IntOn
<1>2. SumFunctionOnSet(f, S) = SumFunctionOnSet(f, T) + SumFunctionOnSet(f, S \ T)
  <2>1. SumFunctionOnSet(f, T \cup (S \ T)) = SumFunctionOnSet(f, T) + SumFunctionOnSet(f, S \ T)
    BY <1>1, SumUnion
  <2> QED BY <1>1, <2>1
<1>3. SumFunctionOnSet(f, S \ T) = 0 /\ SumFunctionOnSet(f, T) \in Int
  BY <1>1, SumZero, SumType
<1> QED BY <1>2, <1>3

(* A larger set of natural numbers has a larger sum, and so has each of its *)
(* members.                                                                *)
LEMMA SumGrows ==
  ASSUME NEW f, NEW S, NEW T, IsFiniteSet(S), T \subseteq S, \A x \in S : f[x] \in Nat
  PROVE  SumFunctionOnSet(f, T) <= SumFunctionOnSet(f, S)
<1>1. /\ IsFiniteSet(T) /\ IsFiniteSet(S \ T) /\ T \cap (S \ T) = {}
      /\ T \cup (S \ T) = S /\ IntOn(f, T) /\ IntOn(f, S \ T)
  BY FS_Subset DEF IntOn
<1>2. SumFunctionOnSet(f, S) = SumFunctionOnSet(f, T) + SumFunctionOnSet(f, S \ T)
  <2>1. SumFunctionOnSet(f, T \cup (S \ T)) = SumFunctionOnSet(f, T) + SumFunctionOnSet(f, S \ T)
    BY <1>1, SumUnion
  <2> QED BY <1>1, <2>1
<1>3. SumFunctionOnSet(f, S \ T) \in Nat /\ SumFunctionOnSet(f, T) \in Nat
  BY <1>1, SumNat
<1> QED BY <1>2, <1>3

(* Changing f to g on a part T of S changes the sum by as much as over T.   *)
LEMMA SumChange ==
  ASSUME NEW f, NEW g, NEW S, NEW T, IsFiniteSet(S), T \subseteq S, IntOn(f, S), IntOn(g, S),
         \A x \in S \ T : f[x] = g[x]
  PROVE  SumFunctionOnSet(g, S) - SumFunctionOnSet(f, S)
           = SumFunctionOnSet(g, T) - SumFunctionOnSet(f, T)
<1>1. /\ IsFiniteSet(T) /\ IsFiniteSet(S \ T) /\ T \cap (S \ T) = {} /\ T \cup (S \ T) = S
      /\ IntOn(f, T) /\ IntOn(f, S \ T) /\ IntOn(g, T) /\ IntOn(g, S \ T)
  BY FS_Subset DEF IntOn
<1>2. /\ SumFunctionOnSet(f, S) = SumFunctionOnSet(f, T) + SumFunctionOnSet(f, S \ T)
      /\ SumFunctionOnSet(g, S) = SumFunctionOnSet(g, T) + SumFunctionOnSet(g, S \ T)
  <2>1. SumFunctionOnSet(f, T \cup (S \ T)) = SumFunctionOnSet(f, T) + SumFunctionOnSet(f, S \ T)
    BY <1>1, SumUnion
  <2>2. SumFunctionOnSet(g, T \cup (S \ T)) = SumFunctionOnSet(g, T) + SumFunctionOnSet(g, S \ T)
    BY <1>1, SumUnion
  <2> QED BY <1>1, <2>1, <2>2
<1>3. SumFunctionOnSet(f, S \ T) = SumFunctionOnSet(g, S \ T)
  BY <1>1, SumSame
<1>4. /\ SumFunctionOnSet(f, T) \in Int /\ SumFunctionOnSet(g, T) \in Int
      /\ SumFunctionOnSet(f, S \ T) \in Int
  BY <1>1, SumType
<1> QED BY <1>2, <1>3, <1>4

(* A set of integers that is finite and not empty has a greatest member.    *)
LEMMA GreatestMember ==
  ASSUME NEW S, IsFiniteSet(S), S # {}, \A x \in S : x \in Int
  PROVE  \E x \in S : \A y \in S : y <= x
<1> DEFINE F == {s \in SUBSET S : s # {} /\ ~ \E x \in s : \A y \in s : y <= x}
<1> SUFFICES ASSUME S \in F PROVE FALSE
  OBVIOUS
<1>1. PICK m \in F : \A y \in F : y \subseteq m => y = m
  <2>1. F \subseteq SUBSET S /\ F # {}
    OBVIOUS
  <2> HIDE DEF F
  <2> QED BY <2>1, SmallestSubset
<1>2. PICK e : e \in m
  OBVIOUS
<1> DEFINE n == m \ {e}
<1>3. n \notin F /\ n \in SUBSET S
  BY <1>1, <1>2
<1>4. CASE n = {}
  BY <1>2, <1>4
<1>5. CASE n # {}
  <2>1. PICK x \in n : \A y \in n : y <= x
    BY <1>3, <1>5
  <2>2. x \in Int /\ e \in Int /\ x \in m
    BY <1>2
  <2>3. CASE e <= x
    BY <2>1, <2>2, <2>3
  <2>4. CASE x < e
    <3>1. \A y \in m : y <= e
      BY <2>1, <2>2, <2>4
    <3> QED BY <1>2, <3>1
  <2> QED BY <2>2, <2>3, <2>4
<1> QED BY <1>4, <1>5

===============================================================================
