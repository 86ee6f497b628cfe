--------------------------------- MODULE Sums ---------------------------------
(***************************************************************************)
(* Sums over finite sets, as the models take them with MapThenSumSet: F      *)
(* gives each element its weight.  The library's induction over finite sets   *)
(* takes an operator, which the provers cannot instantiate; its place is      *)
(* taken by a smallest set without the property.                              *)
(***************************************************************************)
EXTENDS Integers, FiniteSetTheorems, TLAPS

Pick(s) == CHOOSE x \in s : TRUE

\* A function that adds up all subsets of S one element at a time
AddsUp(F, g, S) ==
    g = [s \in SUBSET S |-> IF s = {} THEN 0 ELSE F[Pick(s)] + g[s \ {Pick(s)}]]

Total(F, S) == (CHOOSE g : AddsUp(F, g, S))[S]

\* A smallest set without a property among the subsets of a finite one: what
\* stands here for induction.
LEMMA SmallestOf ==
  ASSUME NEW S, IsFiniteSet(S), NEW Bad \in SUBSET SUBSET S, Bad # {}
  PROVE  \E B \in Bad : \A T \in SUBSET B : T # B => T \notin Bad
<1>1. IsWellFoundedOn(StrictSubsetOrdering(S), FiniteSubsetsOf(S))
  BY FS_StrictSubsetOrderingWellFounded
<1>2. Bad \subseteq FiniteSubsetsOf(S)
  BY FS_Subset DEF FiniteSubsetsOf
<1>3. PICK B \in Bad : \A T \in Bad : <<T, B>> \notin StrictSubsetOrdering(S)
  BY <1>1, <1>2, WFMin
<1>4. ASSUME NEW T \in SUBSET B, T # B, T \in Bad PROVE FALSE
  BY <1>3, <1>4 DEF StrictSubsetOrdering
<1> QED
  BY <1>4

\* Two functions that add up agree where both do.
LEMMA AddsUpOnce ==
  ASSUME NEW F, NEW S, IsFiniteSet(S), NEW T \in SUBSET S, NEW U \in SUBSET S, NEW g, NEW h,
         AddsUp(F, g, T), AddsUp(F, h, U), NEW s \in SUBSET (T \cap U)
  PROVE  g[s] = h[s]
<1> DEFINE Bad == {x \in SUBSET (T \cap U) : g[x] # h[x]}
<1> SUFFICES ASSUME Bad # {} PROVE FALSE
  OBVIOUS
<1>1. Bad \in SUBSET SUBSET S
  OBVIOUS
<1>2. PICK B \in Bad : \A x \in SUBSET B : x # B => x \notin Bad
  <2> HIDE DEF Bad
  <2> QED
    BY <1>1, SmallestOf
<1>3. B # {}
  BY DEF AddsUp
<1>4. Pick(B) \in B
  BY <1>3 DEF Pick
<1>5. g[B \ {Pick(B)}] = h[B \ {Pick(B)}]
  BY <1>2, <1>4
<1>6. /\ g[B] = F[Pick(B)] + g[B \ {Pick(B)}]
      /\ h[B] = F[Pick(B)] + h[B \ {Pick(B)}]
  BY <1>3 DEF AddsUp
<1> QED
  BY <1>5, <1>6

\* ... on a whole set, when the other adds up more.
LEMMA AddsUpPart ==
  ASSUME NEW F, NEW U, IsFiniteSet(U), NEW W \in SUBSET U, NEW g, NEW h,
         AddsUp(F, g, U), AddsUp(F, h, W)
  PROVE  g[W] = h[W]
<1>1. W \in SUBSET U /\ U \in SUBSET U /\ W \in SUBSET (U \cap W)
  OBVIOUS
<1> QED
  BY <1>1, AddsUpOnce

\* A finite set of weights can be added up, to numbers.
LEMMA AddsUpSome ==
  ASSUME NEW F, NEW S, IsFiniteSet(S), \A x \in S : F[x] \in Nat
  PROVE  \E g \in [SUBSET S -> Nat] : AddsUp(F, g, S)
<1> DEFINE Adder(T) == \E g \in [SUBSET T -> Nat] : AddsUp(F, g, T)
           Bad == {T \in SUBSET S : ~Adder(T)}
<1>1. Bad = {}
  <2> SUFFICES ASSUME Bad # {} PROVE FALSE
    OBVIOUS
  <2>1. PICK T \in Bad : \A U \in SUBSET T : U # T => U \notin Bad
    <3>1. Bad \in SUBSET SUBSET S
      OBVIOUS
    <3> HIDE DEF Bad
    <3> QED
      BY <3>1, SmallestOf
  <2> DEFINE At(U) == CHOOSE g : g \in [SUBSET U -> Nat] /\ AddsUp(F, g, U)
  <2>2. ASSUME NEW U \in SUBSET T, U # T PROVE At(U) \in [SUBSET U -> Nat] /\ AddsUp(F, At(U), U)
    BY <2>1, <2>2
  <2> HIDE DEF At
  <2> DEFINE h == [s \in SUBSET T |-> IF s = {} THEN 0
                                      ELSE F[Pick(s)] + At(s \ {Pick(s)})[s \ {Pick(s)}]]
  <2>3. ASSUME NEW s \in SUBSET T, s # {}
        PROVE  /\ Pick(s) \in s /\ s \ {Pick(s)} \in SUBSET T /\ s \ {Pick(s)} # T
               /\ F[Pick(s)] \in Nat
    <3>1. Pick(s) \in s
      BY <2>3 DEF Pick
    <3> QED
      BY <2>3, <3>1
  <2>4. h \in [SUBSET T -> Nat]
    <3>1. ASSUME NEW s \in SUBSET T, s # {}
          PROVE  F[Pick(s)] + At(s \ {Pick(s)})[s \ {Pick(s)}] \in Nat
      <4>1. At(s \ {Pick(s)})[s \ {Pick(s)}] \in Nat
        <5> DEFINE W == s \ {Pick(s)}
        <5>1. W \in SUBSET T /\ W # T
          BY <2>3, <3>1
        <5> HIDE DEF W
        <5>2. At(W)[W] \in Nat
          BY <2>2, <5>1
        <5> QED
          BY <5>2 DEF W
      <4> QED
        BY <2>3, <3>1, <4>1
    <3> QED
      BY <3>1
  <2>5. ASSUME NEW U \in SUBSET T, U # T PROVE At(U)[U] = h[U]
    <3>1. CASE U = {}
      BY <2>2, <2>5, <3>1 DEF AddsUp
    <3>2. CASE U # {}
      <4> DEFINE W == U \ {Pick(U)}
      <4>1. W \in SUBSET T /\ W # T /\ W \in SUBSET U
        BY <2>3, <3>2
      <4>2. At(U)[U] = F[Pick(U)] + At(U)[W]
        BY <2>2, <2>5, <3>2 DEF AddsUp
      <4>3. At(U)[W] = At(W)[W]
        <5>1. /\ AddsUp(F, At(U), U) /\ AddsUp(F, At(W), W) /\ W \in SUBSET U
              /\ IsFiniteSet(U)
          BY <2>2, <2>5, <4>1, FS_Subset
        <5> HIDE DEF W, h
        <5> QED
          BY <5>1, AddsUpPart
      <4>4. h[U] = F[Pick(U)] + At(W)[W]
        BY <3>2
      <4> QED
        BY <4>2, <4>3, <4>4
    <3> QED
      BY <3>1, <3>2
  <2>6. AddsUp(F, h, T)
    <3>1. ASSUME NEW s \in SUBSET T, s # {}
          PROVE  h[s] = F[Pick(s)] + h[s \ {Pick(s)}]
      BY <2>3, <2>5, <3>1
    <3>2. h[{}] = 0
      OBVIOUS
    <3>3. h = [s \in SUBSET T |-> h[s]]
      OBVIOUS
    <3> HIDE DEF h
    <3> QED
      BY <3>1, <3>2, <3>3 DEF AddsUp
  <2> HIDE DEF h
  <2> QED
    BY <2>4, <2>6
<1> QED
  BY <1>1

\* Whatever adds up gives the total.
LEMMA TotalIs ==
  ASSUME NEW F, NEW S, IsFiniteSet(S), NEW g, AddsUp(F, g, S)
  PROVE  g[S] = Total(F, S)
<1>1. PICK f : AddsUp(F, f, S) /\ Total(F, S) = f[S]
  BY DEF Total
<1> QED
  BY <1>1, AddsUpOnce

\* The total is a number.
LEMMA TotalIsNat ==
  ASSUME NEW F, NEW S, IsFiniteSet(S), \A x \in S : F[x] \in Nat
  PROVE  Total(F, S) \in Nat
<1>1. PICK g \in [SUBSET S -> Nat] : AddsUp(F, g, S)
  BY AddsUpSome
<1> QED
  BY <1>1, TotalIs

\* Part of what adds up a set adds up its subsets.
LEMMA PartAddsUp ==
  ASSUME NEW F, NEW S, IsFiniteSet(S), NEW g, AddsUp(F, g, S), NEW T \in SUBSET S,
         \A x \in S : F[x] \in Nat
  PROVE  g[T] = Total(F, T)
<1>1. IsFiniteSet(T)
  BY FS_Subset
<1>2. PICK h : AddsUp(F, h, T)
  BY <1>1, AddsUpSome
<1>3. h[T] = Total(F, T)
  BY <1>1, <1>2, TotalIs
<1>4. T \in SUBSET (T \cap S)
  OBVIOUS
<1> QED
  BY <1>2, <1>3, <1>4, AddsUpOnce

\* Nothing adds up to nothing, and a set to one element and the others.
LEMMA TotalSteps ==
  ASSUME NEW F, NEW S, IsFiniteSet(S), \A x \in S : F[x] \in Nat
  PROVE  /\ S = {} => Total(F, S) = 0
         /\ S # {} => Pick(S) \in S /\ Total(F, S) = F[Pick(S)] + Total(F, S \ {Pick(S)})
<1>1. PICK g : AddsUp(F, g, S)
  BY AddsUpSome
<1>2. g[S] = Total(F, S)
  BY <1>1, TotalIs
<1>3. CASE S = {}
  BY <1>1, <1>2, <1>3 DEF AddsUp
<1>4. CASE S # {}
  <2>1. Pick(S) \in S
    BY <1>4 DEF Pick
  <2>2. g[S \ {Pick(S)}] = Total(F, S \ {Pick(S)})
    BY <1>1, PartAddsUp
  <2>3. g[S] = F[Pick(S)] + g[S \ {Pick(S)}]
    BY <1>1, <1>4 DEF AddsUp
  <2> QED
    BY <1>2, <1>4, <2>1, <2>2, <2>3
<1> QED
  BY <1>3, <1>4

\* It does not matter which element is taken first.
LEMMA TotalWithout ==
  ASSUME NEW F, NEW S, IsFiniteSet(S), \A x \in S : F[x] \in Nat, NEW x \in S
  PROVE  Total(F, S) = Total(F, S \ {x}) + F[x]
<1> DEFINE Bad == {T \in SUBSET S : \E y \in T : Total(F, T) # Total(F, T \ {y}) + F[y]}
<1> SUFFICES ASSUME Bad # {} PROVE FALSE
  OBVIOUS
<1>1. PICK B \in Bad : \A T \in SUBSET B : T # B => T \notin Bad
  <2>1. Bad \in SUBSET SUBSET S
    OBVIOUS
  <2> HIDE DEF Bad
  <2> QED
    BY <2>1, SmallestOf
<1>2. PICK y \in B : Total(F, B) # Total(F, B \ {y}) + F[y]
  OBVIOUS
<1>s. ASSUME NEW T \in SUBSET S
      PROVE  /\ IsFiniteSet(T) /\ Total(F, T) \in Nat
             /\ T # {} => Pick(T) \in T /\ Total(F, T) = F[Pick(T)] + Total(F, T \ {Pick(T)})
  <2>1. IsFiniteSet(T) /\ \A z \in T : F[z] \in Nat
    BY FS_Subset
  <2> QED
    BY <2>1, TotalIsNat, TotalSteps
<1>p. PICK p : p = Pick(B)
  OBVIOUS
<1>3. p \in B /\ Total(F, B) = F[p] + Total(F, B \ {p})
  BY <1>2, <1>s, <1>p
<1>4. Total(F, B \ {p}) \in Nat /\ F[p] \in Nat /\ F[y] \in Nat /\ Total(F, B \ {y}) \in Nat
      /\ Total(F, (B \ {p}) \ {y}) \in Nat
  BY <1>s, <1>3
<1>5. p # y
  BY <1>2, <1>3, <1>4
<1>6. Total(F, B \ {p}) = Total(F, (B \ {p}) \ {y}) + F[y]
  <2>1. B \ {p} \in SUBSET B /\ B \ {p} # B /\ y \in B \ {p}
    BY <1>3, <1>5
  <2> QED
    BY <1>1, <2>1
<1>7. Total(F, B \ {y}) = Total(F, (B \ {p}) \ {y}) + F[p]
  <2>1. B \ {y} \in SUBSET B /\ B \ {y} # B /\ p \in B \ {y}
    BY <1>3, <1>5
  <2>2. Total(F, B \ {y}) = Total(F, (B \ {y}) \ {p}) + F[p]
    BY <1>1, <2>1
  <2>3. (B \ {y}) \ {p} = (B \ {p}) \ {y}
    OBVIOUS
  <2> QED
    BY <2>2, <2>3
<1> DEFINE whole == Total(F, B)
           nop == Total(F, B \ {p})
           noy == Total(F, B \ {y})
           rest == Total(F, (B \ {p}) \ {y})
<1>8. /\ whole # noy + F[y] /\ whole = F[p] + nop /\ nop = rest + F[y] /\ noy = rest + F[p]
      /\ nop \in Nat /\ noy \in Nat /\ rest \in Nat /\ F[p] \in Nat /\ F[y] \in Nat
  BY <1>2, <1>3, <1>4, <1>6, <1>7
<1> HIDE DEF whole, nop, noy, rest
<1> QED
  BY <1>8

\* One element adds its weight.
LEMMA TotalOfOne ==
  ASSUME NEW F, NEW x, F[x] \in Nat
  PROVE  Total(F, {x}) = F[x]
<1>1. IsFiniteSet({x}) /\ IsFiniteSet({}) /\ {x} \ {x} = {}
  BY FS_Singleton, FS_EmptySet
<1>2. Total(F, {}) = 0
  BY <1>1, TotalSteps
<1>3. Total(F, {x}) = Total(F, {x} \ {x}) + F[x]
  BY <1>1, TotalWithout
<1>4. Total(F, {x} \ {x}) = 0
  BY <1>1, <1>2
<1> QED
  BY <1>3, <1>4

\* Only the weights of the set matter.
LEMMA TotalSame ==
  ASSUME NEW F, NEW G, NEW S, IsFiniteSet(S), \A x \in S : F[x] \in Nat /\ G[x] = F[x]
  PROVE  Total(G, S) = Total(F, S)
<1>1. PICK g : AddsUp(F, g, S)
  BY AddsUpSome
<1>2. \A s \in SUBSET S : s # {} => Pick(s) \in s
  BY DEF Pick
<1>3. AddsUp(G, g, S)
  BY <1>1, <1>2 DEF AddsUp
<1> QED
  BY <1>1, <1>3, TotalIs

\* Two sets apart add up together.
LEMMA TotalUnion ==
  ASSUME NEW F, NEW S, NEW R, IsFiniteSet(S), IsFiniteSet(R), S \cap R = {},
         \A x \in S \cup R : F[x] \in Nat
  PROVE  Total(F, S \cup R) = Total(F, S) + Total(F, R)
<1> DEFINE Bad == {T \in SUBSET R : Total(F, S \cup T) # Total(F, S) + Total(F, T)}
<1> SUFFICES ASSUME Bad # {} PROVE FALSE
  OBVIOUS
<1>1. PICK B \in Bad : \A T \in SUBSET B : T # B => T \notin Bad
  <2>1. Bad \in SUBSET SUBSET R
    OBVIOUS
  <2> HIDE DEF Bad
  <2> QED
    BY <2>1, SmallestOf
<1>2. Total(F, S) \in Nat /\ IsFiniteSet(B) /\ IsFiniteSet(S \cup B)
  BY TotalIsNat, FS_Subset, FS_Union
<1>3. B # {}
  <2>1. Total(F, {}) = 0 /\ S \cup {} = S
    BY TotalSteps, FS_EmptySet
  <2> QED
    BY <1>2, <2>1
<1>4. PICK x \in B : TRUE
  BY <1>3
<1>5. B \ {x} \in SUBSET B /\ B \ {x} # B /\ x \in S \cup B
      /\ (S \cup B) \ {x} = S \cup (B \ {x})
  BY <1>4
<1>6. Total(F, S \cup B) = Total(F, S \cup (B \ {x})) + F[x]
  <2>1. \A z \in S \cup B : F[z] \in Nat
    OBVIOUS
  <2>2. Total(F, S \cup B) = Total(F, (S \cup B) \ {x}) + F[x]
    BY <1>2, <1>5, <2>1, TotalWithout
  <2> QED
    BY <1>5, <2>2
<1>7. Total(F, B) = Total(F, B \ {x}) + F[x]
  BY <1>2, <1>4, TotalWithout
<1>8. Total(F, S \cup (B \ {x})) = Total(F, S) + Total(F, B \ {x})
  BY <1>1, <1>5
<1>9. F[x] \in Nat /\ Total(F, B \ {x}) \in Nat
  BY <1>2, <1>4, TotalIsNat, FS_Subset
<1> QED
  BY <1>2, <1>6, <1>7, <1>8, <1>9

\* Elements counted one each are as many as there are.
LEMMA TotalCounts ==
  ASSUME NEW F, NEW S, IsFiniteSet(S), \A x \in S : F[x] = 1
  PROVE  Total(F, S) = Cardinality(S)
<1> DEFINE Bad == {T \in SUBSET S : Total(F, T) # Cardinality(T)}
<1> SUFFICES ASSUME Bad # {} PROVE FALSE
  OBVIOUS
<1>1. PICK B \in Bad : \A T \in SUBSET B : T # B => T \notin Bad
  <2>1. Bad \in SUBSET SUBSET S
    OBVIOUS
  <2> HIDE DEF Bad
  <2> QED
    BY <2>1, SmallestOf
<1>2. IsFiniteSet(B) /\ \A x \in B : F[x] = 1 /\ F[x] \in Nat
  BY FS_Subset
<1>3. B # {}
  BY <1>2, TotalSteps, FS_EmptySet
<1>4. PICK x \in B : TRUE
  BY <1>3
<1>5. Total(F, B) = Total(F, B \ {x}) + 1
  BY <1>2, <1>4, TotalWithout
<1>6. Cardinality(B \ {x}) = Cardinality(B) - 1 /\ Cardinality(B) \in Nat
  BY <1>2, <1>4, FS_RemoveElement, FS_CardinalityType
<1>7. Total(F, B \ {x}) = Cardinality(B \ {x})
  BY <1>1, <1>4
<1> QED
  BY <1>5, <1>6, <1>7

\* A sheet has a row R[k] for each key k in D, whose value under V is the total of
\* the elements with that key
RowsOf(F, S, K, D, R, V) ==
    /\ IsFiniteSet(D) /\ \A x \in S : K[x] \in D
    /\ \A k, j \in D : R[k] = R[j] => k = j
    /\ \A k \in D : V[R[k]] = Total(F, {x \in S : K[x] = k})

\* The rows of a sheet add up to all elements.
LEMMA TotalOfRows ==
  ASSUME NEW F, NEW S, IsFiniteSet(S), \A x \in S : F[x] \in Nat,
         NEW K, NEW D, NEW R, NEW V, RowsOf(F, S, K, D, R, V)
  PROVE  Total(V, {R[k] : k \in D}) = Total(F, S)
<1> USE DEF RowsOf
<1> DEFINE Of(T) == {x \in S : K[x] \in T}
           Rows(T) == {R[k] : k \in T}
           Bad == {T \in SUBSET D : Total(V, Rows(T)) # Total(F, Of(T))}
<1>1. ASSUME NEW T \in SUBSET D
      PROVE  /\ IsFiniteSet(Of(T)) /\ IsFiniteSet(Rows(T)) /\ Total(F, Of(T)) \in Nat
             /\ \A r \in Rows(T) : V[r] \in Nat
  <2>1. IsFiniteSet(Of(T)) /\ IsFiniteSet(T)
    BY FS_Subset
  <2>2. IsFiniteSet(Rows(T))
    <3> DEFINE f == [k \in T |-> R[k]]
    <3>1. Rows(T) = {f[k] : k \in T}
      OBVIOUS
    <3>2. IsFiniteSet({f[k] : k \in T})
      <4>1. f \in Surjection(T, {f[k] : k \in T})
        BY DEF Surjection
      <4> HIDE DEF f
      <4> QED
        BY <2>1, <4>1, FS_Surjection
    <3> QED
      BY <3>1, <3>2
  <2>3. Total(F, Of(T)) \in Nat
    BY <2>1, TotalIsNat
  <2>4. ASSUME NEW k \in T PROVE V[R[k]] \in Nat
    <3>1. IsFiniteSet({x \in S : K[x] = k})
      BY FS_Subset
    <3>2. Total(F, {x \in S : K[x] = k}) \in Nat
      BY <3>1, TotalIsNat
    <3> QED
      BY <3>2
  <2> QED
    BY <2>1, <2>2, <2>3, <2>4
<1>2. Bad = {}
  <2> SUFFICES ASSUME Bad # {} PROVE FALSE
    OBVIOUS
  <2>1. PICK B \in Bad : \A T \in SUBSET B : T # B => T \notin Bad
    <3>1. Bad \in SUBSET SUBSET D
      OBVIOUS
    <3> HIDE DEF Bad
    <3> QED
      BY <3>1, SmallestOf
  <2>2. B # {}
    <3>1. Of({}) = {} /\ Rows({}) = {}
      OBVIOUS
    <3>2. Total(F, {}) = 0 /\ Total(V, {}) = 0
      BY TotalSteps, FS_EmptySet
    <3> QED
      BY <3>1, <3>2
  <2>3. PICK k \in B : TRUE
    BY <2>2
  <2> DEFINE T == B \ {k}
             Mine == {x \in S : K[x] = k}
  <2>4. /\ T \in SUBSET D /\ B \in SUBSET D /\ T \in SUBSET B /\ T # B
        /\ Rows(B) \ {R[k]} = Rows(T) /\ R[k] \in Rows(B)
        /\ Of(B) = Of(T) \cup Mine /\ Of(T) \cap Mine = {}
    BY <2>3
  <2>5. Total(V, Rows(T)) = Total(F, Of(T))
    BY <2>1, <2>4
  <2>6. V[R[k]] = Total(F, Mine)
    BY <2>3
  <2>7. Total(V, Rows(B)) = Total(V, Rows(T)) + V[R[k]]
    <3>1. Total(V, Rows(B)) = Total(V, Rows(B) \ {R[k]}) + V[R[k]]
      <4> HIDE DEF Rows, T
      <4> QED
        BY <1>1, <2>4, TotalWithout
    <3> QED
      BY <2>4, <3>1
  <2>8. Total(F, Of(B)) = Total(F, Of(T)) + Total(F, Mine)
    <3>1. IsFiniteSet(Mine) /\ IsFiniteSet(Of(T)) /\ \A x \in Of(T) \cup Mine : F[x] \in Nat
      BY FS_Subset
    <3>2. Total(F, Of(T) \cup Mine) = Total(F, Of(T)) + Total(F, Mine)
      <4> HIDE DEF Of, T, Mine
      <4> QED
        BY <2>4, <3>1, TotalUnion
    <3> QED
      BY <2>4, <3>2
  <2> HIDE DEF Rows, Of, T, Mine
  <2>9. Total(V, Rows(B)) # Total(F, Of(B))
    BY <2>1
  <2> QED
    BY <2>5, <2>6, <2>7, <2>8, <2>9
<1>3. Of(D) = S
  OBVIOUS
<1>4. Total(V, Rows(D)) = Total(F, Of(D))
  BY <1>2
<1> QED
  BY <1>3, <1>4
=============================================================================
