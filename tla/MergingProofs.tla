--------------------------- MODULE MergingProofs ---------------------------
(***************************************************************************)
(* Proofs about Merging: for any number of children, sessions, keys,       *)
(* callers and tasks, and any pages.                                       *)
(***************************************************************************)
EXTENDS Merging, MergeOrder, FiniteSetTheorems, SequenceTheorems, TLAPS

(***************************************************************************)
(* MergeResolution. Every invariant is a loop invariant: it speaks of the  *)
(* children merged so far.                                                 *)
(***************************************************************************)

\* The loop's variables keep their types.
THEOREM TypeCorrect == Spec => []TypeOK
<1>1. Init => TypeOK
  <2>1. 0 \in 0 .. N
    BY CountAssumption
  <2> QED BY <2>1 DEF Init, TypeOK
<1>2. TypeOK /\ [Next]_vars => TypeOK'
  <2> SUFFICES ASSUME TypeOK, [Next]_vars PROVE TypeOK'
    OBVIOUS
  <2> USE CountAssumption DEF TypeOK
  <2>1. CASE Skip
    BY <2>1 DEF Skip, input
  <2>2. CASE Take
    <3>1. i + 1 \in Children /\ Incoming \in Values
      BY <2>2 DEF Take, Incoming, Children, Merge
    <3> QED BY <2>2, <3>1 DEF Take, input
  <2>3. CASE Resolve
    <3>1. i + 1 \in Children /\ Incoming \in Values
      BY <2>3 DEF Resolve, Incoming, Children, Merge
    <3> QED BY <2>3, <3>1 DEF Resolve, input
  <2>4. CASE UNCHANGED vars
    BY <2>4 DEF vars
  <2> QED BY <2>1, <2>2, <2>3, <2>4 DEF Next
<1> QED BY <1>1, <1>2, PTL DEF Spec

-----------------------------------------------------------------------------
\* What a step adds to the children seen.
LEMMA SeenBySkip ==
  ASSUME TypeOK, Skip
  PROVE  Seen' = Seen
BY CountAssumption DEF TypeOK, Skip, Seen, Incoming, input, Children

\* A child whose value is taken or resolved is seen from then on.
LEMMA SeenByValue ==
  ASSUME TypeOK, Take \/ Resolve
  PROVE  /\ Seen' = Seen \cup {i + 1}
         /\ i + 1 \notin Seen
         /\ \A k \in Seen : k \in Children /\ k < i + 1
         /\ merges' = merges /\ policy' = policy /\ override' = override
         /\ merges[i + 1].value = Incoming /\ Incoming \in Values /\ Incoming # None
BY CountAssumption DEF TypeOK, Take, Resolve, Seen, Incoming, input, Children, Merge

\* What was seen stays so when nothing changes.
LEMMA SeenUnchanged ==
  ASSUME TypeOK, UNCHANGED vars
  PROVE  Seen' = Seen
BY DEF vars, Seen, Children

-----------------------------------------------------------------------------
\* The current value is that of the child source_map names.
THEOREM SourceCorrect == Spec => []SourceTruthful
<1>1. Init => SourceTruthful
  BY CountAssumption DEF Init, SourceTruthful, Seen, Children
<1>2. TypeOK /\ SourceTruthful /\ [Next]_vars => SourceTruthful'
  <2> SUFFICES ASSUME TypeOK, SourceTruthful, [Next]_vars PROVE SourceTruthful'
    OBVIOUS
  <2>1. CASE Skip
    BY <2>1, SeenBySkip DEF SourceTruthful, Skip, input
  <2>2. CASE Take
    <3>1. source' = i + 1 /\ resolved' = Incoming
      BY <2>2 DEF Take
    <3>2. i + 1 # None
      BY NoneAssumption, CountAssumption DEF TypeOK
    <3> QED BY <2>2, <3>1, <3>2, SeenByValue DEF SourceTruthful
  <2>3. CASE Resolve
    <3>1. i + 1 # None
      BY NoneAssumption, CountAssumption DEF TypeOK
    <3>2. \/ source' = source /\ resolved' = resolved
          \/ source' = i + 1 /\ resolved' = Incoming
      BY <2>3 DEF Resolve
    <3>3. source # None
      BY <2>3 DEF Resolve, SourceTruthful
    <3> QED BY <2>3, <3>1, <3>2, <3>3, SeenByValue DEF SourceTruthful
  <2>4. CASE UNCHANGED vars
    BY <2>4, SeenUnchanged DEF SourceTruthful, vars
  <2> QED BY <2>1, <2>2, <2>3, <2>4 DEF Next
<1> QED BY <1>1, <1>2, TypeCorrect, PTL DEF Spec

\* No conflict is on record while all agree, and one is as soon as two differ.
Agreement ==
  /\ conflicts = {} => \A k \in Seen : merges[k].value = resolved
  /\ conflicts # {} => \E j, k \in Seen : merges[j].value # merges[k].value

\* "clean" is reported of a key exactly when the children agree on it.
THEOREM CleanCorrect == Spec => []CleanMeansAgreed
<1>1. Init => Agreement
  BY CountAssumption DEF Init, Agreement, Seen, Children
<1>2. TypeOK /\ SourceTruthful /\ Agreement /\ [Next]_vars => Agreement'
  <2> SUFFICES ASSUME TypeOK, SourceTruthful, Agreement, [Next]_vars PROVE Agreement'
    OBVIOUS
  <2>1. CASE Skip
    BY <2>1, SeenBySkip DEF Agreement, Skip, input
  <2>2. CASE Take
    <3>1. resolved' = Incoming /\ conflicts' = conflicts
      BY <2>2 DEF Take
    <3>2. resolved = None => Seen = {}
      <4>1. \A k \in Children : merges[k].value = None => k \notin Seen
        BY DEF Seen
      <4> QED BY <4>1 DEF SourceTruthful, TypeOK, Seen
    <3>3. resolved = None \/ resolved = Incoming
      BY <2>2 DEF Take
    <3> QED BY <2>2, <3>1, <3>2, <3>3, SeenByValue DEF Agreement
  <2>3. CASE Resolve
    <3>1. conflicts' # {}
      BY <2>3 DEF Resolve
    <3>2. source \in Seen /\ merges[source].value = resolved /\ resolved # Incoming
      BY <2>3 DEF Resolve, SourceTruthful
    <3>3. source \in Seen' /\ i + 1 \in Seen' /\ merges'[source].value # merges'[i + 1].value
      BY <2>3, <3>2, SeenByValue
    <3> QED BY <3>1, <3>3 DEF Agreement
  <2>4. CASE UNCHANGED vars
    BY <2>4, SeenUnchanged DEF Agreement, vars
  <2> QED BY <2>1, <2>2, <2>3, <2>4 DEF Next
<1>3. Agreement => CleanMeansAgreed
  BY DEF Agreement, CleanMeansAgreed, ReviewStatus
<1> QED BY <1>1, <1>2, <1>3, TypeCorrect, SourceCorrect, PTL DEF Spec

-----------------------------------------------------------------------------
\* Without an override, no child is named.
LEMMA NobodyNamed ==
  ASSUME TypeOK, override = None, NEW k \in Children
  PROVE  ~Named(k)
BY NoneAssumption DEF TypeOK, Named, Children, Merge

\* While nothing is resolved, no child has been seen.
LEMMA UnresolvedUnseen ==
  ASSUME TypeOK, SourceTruthful, resolved = None
  PROVE  Seen = {}
BY DEF TypeOK, SourceTruthful, Seen

\* One step of the loop keeps what the policy promises.
LEMMA PolicyStep ==
  ASSUME TypeOK, SourceTruthful, PolicyHonoured, Take \/ Resolve, override = None
  PROVE  PolicyHonoured'
<1> USE SeenByValue
<1> DEFINE V(k) == merges[k].value
<1>1. \A k \in Seen : V(k) \in Values
  BY DEF Seen, TypeOK, Merge
<1>2. CASE Take
  <2>1. resolved' = Incoming /\ resolved \in {None, Incoming}
    BY <1>2 DEF Take
  <2>2. resolved = None => Seen = {}
    BY UnresolvedUnseen
  <2>3. CASE Seen = {}
    <3>1. Seen' = {i + 1}
      BY <1>2, <2>3
    <3>2. source' = i + 1 /\ merges' = merges /\ i + 1 \in Children
      BY <1>2, CountAssumption DEF Take, input, TypeOK, Children
    <3>3. Priority[merges[i + 1].worker] \in Nat
      BY <3>2, RankAssumption DEF TypeOK, Merge
    <3> QED BY <1>2, <2>1, <3>1, <3>2, <3>3 DEF PolicyHonoured
  <2>4. CASE Seen # {}
    <3>1. resolved = Incoming /\ resolved' = resolved
      BY <2>1, <2>2, <2>4
    <3>2. source \in Seen /\ V(source) = Incoming
      BY <3>1, <2>4 DEF SourceTruthful
    <3>3. i + 1 \notin Seen /\ Seen' = Seen \cup {i + 1} /\ merges' = merges
      BY <1>2, CountAssumption DEF Seen, TypeOK, Take
    <3>4. ~AllDiffer'
      BY <3>2, <3>3 DEF AllDiffer, Incoming
    <3> QED BY <1>1, <1>2, <2>4, <3>1, <3>4 DEF PolicyHonoured
  <2> QED BY <2>3, <2>4
<1>3. CASE Resolve
  <2>1. source \in Seen /\ V(source) = resolved /\ resolved \in Values /\ Seen # {}
    BY <1>1, <1>3 DEF Resolve, SourceTruthful
  <2>2. i + 1 \in Children /\ source \in Children
    BY <1>3, <2>1, CountAssumption DEF Resolve, TypeOK, Children
  <2>3. resolved' = IF Retains(source, resolved, i + 1, Incoming) THEN resolved ELSE Incoming
    BY <1>3, <2>2, NobodyNamed DEF Resolve
  <2>s. Seen' = Seen \cup {i + 1} /\ merges' = merges /\ policy' = policy /\ i \in Nat
    BY <1>3, CountAssumption DEF TypeOK
  <2>o. \A k \in Seen : k \in Nat /\ k < i + 1
    BY <1>3, CountAssumption DEF Children
  <2>4. ASSUME policy = "last_child_wins" PROVE PolicyHonoured'
    <3>1. resolved' = Incoming
      BY <2>3, <2>4 DEF Retains
    <3>2. ASSUME NEW k \in Seen', \A j \in Seen' : j <= k PROVE resolved' = V(k)
      <4>1. i + 1 <= k
        BY <2>s, <3>2
      <4>2. k = i + 1
        BY <4>1, <2>s, <2>o
      <4> QED BY <1>3, <3>1, <4>2
    <3> QED BY <2>s, <2>4, <3>2 DEF PolicyHonoured
  <2>5. ASSUME policy = "first_child_wins" PROVE PolicyHonoured'
    <3>1. resolved' = resolved
      BY <2>3, <2>5 DEF Retains
    <3>2. ASSUME NEW k \in Seen', \A j \in Seen' : k <= j PROVE resolved' = V(k)
      <4>1. k <= source
        BY <2>s, <2>1, <3>2
      <4>2. k \in Seen
        BY <4>1, <2>s, <2>o, <2>1
      <4> QED BY <2>1, <2>5, <2>s, <3>1, <3>2, <4>2 DEF PolicyHonoured
    <3> QED BY <2>s, <2>5, <3>2 DEF PolicyHonoured
  <2>6. ASSUME policy = "prefer_non_null" PROVE PolicyHonoured'
    <3>1. resolved' = IF resolved \notin Empty /\ Incoming \in Empty THEN resolved ELSE Incoming
      BY <2>3, <2>6 DEF Retains
    <3> QED BY <1>3, <2>1, <2>6, <3>1 DEF PolicyHonoured
  <2>7. ASSUME policy = "prefer_richer_value" PROVE PolicyHonoured'
    <3>1. resolved' = IF Richness[resolved] > Richness[Incoming] THEN resolved ELSE Incoming
      BY <2>3, <2>7 DEF Retains
    <3>2. \A v \in Values : Richness[v] \in Nat
      BY RankAssumption
    <3>3. ASSUME NEW k \in Seen',
                 \A j \in Seen' : \/ Richness[V(j)] < Richness[V(k)]
                                  \/ Richness[V(j)] = Richness[V(k)] /\ j <= k
          PROVE  resolved' = V(k)
      <4>1. V(i + 1) = Incoming /\ Incoming \in Values
        BY <1>3
      <4>2. CASE k = i + 1
        <5>1. \/ Richness[V(source)] < Richness[V(k)]
              \/ Richness[V(source)] = Richness[V(k)]
          BY <2>s, <2>1, <3>3
        <5> QED BY <5>1, <4>1, <4>2, <2>1, <3>1, <3>2
      <4>3. CASE k \in Seen
        <5>1. resolved = V(k)
          BY <4>3, <2>s, <3>3, <2>1, <2>7 DEF PolicyHonoured
        <5>2. \/ Richness[V(i + 1)] < Richness[V(k)]
              \/ i + 1 <= k
          BY <2>s, <3>3
        <5>3. Richness[Incoming] < Richness[resolved]
          BY <5>1, <5>2, <4>1, <4>3, <2>o, <2>s
        <5> QED BY <5>1, <5>3, <4>1, <2>1, <3>1, <3>2
      <4> QED BY <4>2, <4>3, <2>s
    <3> QED BY <2>s, <2>7, <3>3 DEF PolicyHonoured
  <2>8. ASSUME policy = "prefer_worker_priority" PROVE PolicyHonoured'
    <3>1. source' = IF Priority[merges[source].worker] > Priority[merges[i + 1].worker]
                    THEN source ELSE i + 1
      BY <1>3, <2>2, <2>8, NobodyNamed DEF Resolve, Retains
    <3>2. \A k \in Children : Priority[merges[k].worker] \in Nat
      BY RankAssumption DEF TypeOK, Merge
    <3>3. Seen \subseteq Children
      BY DEF Seen
    <3>4. ASSUME AllDiffer', NEW k \in Seen'
          PROVE  Priority[merges[k].worker] <= Priority[merges[source'].worker]
      <4>1. AllDiffer
        BY <3>4, <2>s DEF AllDiffer
      <4>2. \A j \in Seen : Priority[merges[j].worker] <= Priority[merges[source].worker]
        BY <4>1, <2>8, <2>1, <1>3 DEF PolicyHonoured, Resolve
      <4>3. k \in Seen \/ k = i + 1
        BY <2>s
      <4> QED BY <3>1, <3>2, <3>3, <4>2, <4>3, <2>1, <2>2
    <3> QED BY <2>s, <2>8, <3>4 DEF PolicyHonoured
  <2> QED BY <2>4, <2>5, <2>6, <2>7, <2>8 DEF TypeOK, Policies
<1> QED BY <1>2, <1>3

\* Each policy picks what its description promises.
THEOREM PolicyCorrect == Spec => []PolicyHonoured
<1>1. Init => PolicyHonoured
  BY CountAssumption DEF Init, PolicyHonoured, Seen, Children
<1>2. TypeOK /\ SourceTruthful /\ PolicyHonoured /\ [Next]_vars => PolicyHonoured'
  <2> SUFFICES ASSUME TypeOK, SourceTruthful, PolicyHonoured, [Next]_vars PROVE PolicyHonoured'
    OBVIOUS
  <2>1. CASE Skip
    BY <2>1, SeenBySkip DEF PolicyHonoured, AllDiffer, Skip, input
  <2>2. CASE Take \/ Resolve
    <3>1. CASE override = None
      BY <2>2, <3>1, PolicyStep
    <3>2. CASE override # None
      BY <2>2, <3>2, SeenByValue DEF PolicyHonoured
    <3> QED BY <3>1, <3>2
  <2>3. CASE UNCHANGED vars
    BY <2>3, SeenUnchanged DEF PolicyHonoured, AllDiffer, vars
  <2> QED BY <2>1, <2>2, <2>3 DEF Next
<1> QED BY <1>1, <1>2, TypeCorrect, SourceCorrect, PTL DEF Spec

\* An override prevails wherever the named child comes in the order, as long as
\* no two children agree.
THEOREM OverrideCorrect == Spec => []OverridePrevails
<1>1. Init => OverridePrevails
  BY CountAssumption DEF Init, OverridePrevails, AllDiffer, Seen, Children
<1>2. TypeOK /\ SourceTruthful /\ OverridePrevails /\ [Next]_vars => OverridePrevails'
  <2> SUFFICES ASSUME TypeOK, SourceTruthful, OverridePrevails, [Next]_vars
               PROVE  OverridePrevails'
    OBVIOUS
  <2>1. CASE Skip
    BY <2>1, SeenBySkip DEF OverridePrevails, AllDiffer, Named, Skip, input
  <2>2. CASE Take
    <3>1. source' = i + 1 /\ resolved \in {None, Incoming}
      BY <2>2 DEF Take
    <3>2. CASE Seen = {}
      BY <2>2, <3>1, <3>2, SeenByValue DEF OverridePrevails, AllDiffer, Named
    <3>3. CASE Seen # {}
      <4>1. source \in Seen /\ merges[source].value = Incoming
        BY <3>1, <3>3, UnresolvedUnseen DEF SourceTruthful
      <4> QED BY <2>2, <4>1, SeenByValue DEF OverridePrevails, AllDiffer
    <3> QED BY <3>2, <3>3
  <2>3. CASE Resolve
    <3>1. source \in Seen
      BY <2>3 DEF Resolve, SourceTruthful
    <3>2. CASE \E k \in Seen : Named(k)
      <4>1. ASSUME Named(source) PROVE source' = source
        BY <2>3, <4>1 DEF Resolve
      <4> QED BY <2>3, <3>1, <3>2, <4>1, SeenByValue DEF OverridePrevails, AllDiffer, Named
    <3>3. CASE ~\E k \in Seen : Named(k)
      <4>1. ~Named(source)
        BY <3>1, <3>3
      <4>2. ASSUME Named(i + 1) PROVE source' = i + 1
        BY <2>3, <4>1, <4>2 DEF Resolve
      <4> QED BY <2>3, <3>3, <4>2, SeenByValue DEF OverridePrevails, AllDiffer, Named
    <3> QED BY <3>2, <3>3
  <2>4. CASE UNCHANGED vars
    BY <2>4, SeenUnchanged DEF OverridePrevails, AllDiffer, Named, vars
  <2> QED BY <2>1, <2>2, <2>3, <2>4 DEF Next
<1> QED BY <1>1, <1>2, TypeCorrect, SourceCorrect, PTL DEF Spec

(***************************************************************************)
(* Places in an order.                                                     *)
(***************************************************************************)

\* The place of x among S by descending f.
PlaceBy(S, f, x) == Cardinality({y \in S : f[y] >= f[x]})

\* Distinct numbers in S.
Numbered(S, f) ==
  /\ IsFiniteSet(S)
  /\ \A x \in S : f[x] \in Int
  /\ \A x, y \in S : f[x] = f[y] => x = y

\* The places are 1 to the number of the elements, each of one element.
LEMMA PlacesInOrder ==
  ASSUME NEW S, NEW f, Numbered(S, f)
  PROVE  /\ Cardinality(S) \in Nat
         /\ \A x \in S : PlaceBy(S, f, x) \in 1 .. Cardinality(S)
         /\ \A x, y \in S : f[x] > f[y] => PlaceBy(S, f, x) < PlaceBy(S, f, y)
         /\ \A x, y \in S : PlaceBy(S, f, x) = PlaceBy(S, f, y) => x = y
         /\ \A n \in 1 .. Cardinality(S) : \E x \in S : PlaceBy(S, f, x) = n
<1> DEFINE Above(x) == {y \in S : f[y] >= f[x]}
           n == Cardinality(S)
<1>1. n \in Nat
  BY FS_CardinalityType DEF Numbered
<1>2. ASSUME NEW x \in S
      PROVE  /\ IsFiniteSet(Above(x)) /\ Cardinality(Above(x)) \in 1 .. n
  <2>1. x \in Above(x) /\ Above(x) \in SUBSET S
    BY DEF Numbered
  <2>2. IsFiniteSet(Above(x)) /\ Cardinality(Above(x)) <= n
    BY <2>1, FS_Subset DEF Numbered
  <2>3. Cardinality(Above(x)) \in Nat /\ Cardinality(Above(x)) # 0
    BY <2>1, <2>2, FS_CardinalityType, FS_EmptySet
  <2> QED BY <1>1, <2>2, <2>3
<1>3. ASSUME NEW x \in S, NEW y \in S, f[x] > f[y]
      PROVE  Cardinality(Above(x)) < Cardinality(Above(y))
  <2>1. Above(x) \in SUBSET Above(y) /\ y \in Above(y) /\ y \notin Above(x)
    BY <1>3 DEF Numbered
  <2>2. /\ Cardinality(Above(x)) <= Cardinality(Above(y))
        /\ Cardinality(Above(x)) # Cardinality(Above(y))
    BY <1>2, <2>1, FS_Subset
  <2> QED BY <1>2, <2>2
<1>4. ASSUME NEW x \in S, NEW y \in S, Cardinality(Above(x)) = Cardinality(Above(y))
      PROVE  x = y
  <2>1. ~(f[x] > f[y]) /\ ~(f[y] > f[x])
    BY <1>2, <1>3, <1>4
  <2> QED BY <2>1 DEF Numbered
<1>5. ASSUME NEW k \in 1 .. n PROVE \E x \in S : Cardinality(Above(x)) = k
  <2> DEFINE g == [x \in S |-> Cardinality(Above(x))]
  <2>1. g \in Injection(S, 1 .. n)
    BY <1>2, <1>4 DEF Injection, IsInjective
  <2>2. IsFiniteSet(1 .. n) /\ Cardinality(1 .. n) = n
    BY <1>1, FS_Interval
  <2>3. g \in Surjection(S, 1 .. n)
    BY <2>1, <2>2, FS_Injection
  <2> QED BY <2>3 DEF Surjection
<1>6. \A x : PlaceBy(S, f, x) = Cardinality(Above(x))
  BY DEF PlaceBy
<1> HIDE DEF Above, n
<1>7. n = Cardinality(S)
  BY DEF n
<1> QED BY <1>1, <1>2, <1>3, <1>4, <1>5, <1>6, <1>7

\* Between two places there are no more elements than places.
LEMMA PlacesBetween ==
  ASSUME NEW S, NEW f, Numbered(S, f), NEW a \in Int, NEW b \in Int, a <= b,
         NEW T \in SUBSET S, \A x \in T : a < PlaceBy(S, f, x) /\ PlaceBy(S, f, x) <= b
  PROVE  IsFiniteSet(T) /\ Cardinality(T) <= b - a
<1> DEFINE g == [x \in T |-> PlaceBy(S, f, x)]
<1>1. \A x \in T : PlaceBy(S, f, x) \in a + 1 .. b
  BY PlacesInOrder
<1>2. g \in Injection(T, a + 1 .. b)
  BY <1>1, PlacesInOrder DEF Injection, IsInjective
<1>3. \A l \in Int : IsFiniteSet(l .. b) /\ Cardinality(l .. b) = IF l > b THEN 0 ELSE b - l + 1
  BY FS_Interval
<1>4. IsFiniteSet(a + 1 .. b) /\ Cardinality(a + 1 .. b) = b - a
  BY <1>3
<1> HIDE DEF g
<1> QED BY <1>2, <1>4, FS_Injection

\* What is left of a sequence without c: the elements that are not c, each kept
\* once for every place it had.
LEMMA WithoutLeaves ==
  ASSUME NEW T, NEW s \in Seq(T), NEW c
  PROVE  /\ Without(s, c) \in Seq(T)
         /\ \A n \in DOMAIN Without(s, c) :
              Without(s, c)[n] # c /\ \E m \in DOMAIN s : Without(s, c)[n] = s[m]
         /\ IsInjective(s) => IsInjective(Without(s, c))
<1> DEFINE K == Kept(s, c)
           f == [m \in K |-> -m]
<1>1. K \in SUBSET (1 .. Len(s)) /\ \A m \in K : s[m] \in T /\ s[m] # c /\ m \in DOMAIN s
  BY DEF Kept
<1>2. IsFiniteSet(K)
  BY <1>1, FS_Interval, FS_Subset
<1>3. Numbered(K, f)
  BY <1>1, <1>2 DEF Numbered
<1>4. ASSUME NEW m \in K PROVE PlaceBy(K, f, m) = Cardinality({l \in K : l <= m})
  <2>1. {l \in K : f[l] >= f[m]} = {l \in K : l <= m}
    BY <1>1
  <2> QED BY <2>1 DEF PlaceBy
<1>5. Cardinality(K) \in Nat
  BY <1>3, PlacesInOrder
<1>6. ASSUME NEW n \in 1 .. Cardinality(K)
      PROVE  Nth(s, c, n) \in K /\ Cardinality({l \in K : l <= Nth(s, c, n)}) = n
  <2>1. \E m \in K : Cardinality({l \in K : l <= m}) = n
    BY <1>3, <1>4, PlacesInOrder
  <2> QED BY <2>1 DEF Nth
<1>7. Without(s, c) = [n \in 1 .. Cardinality(K) |-> s[Nth(s, c, n)]]
  BY DEF Without
<1> HIDE DEF K, f
<1>8. \A n \in 1 .. Cardinality(K) : Without(s, c)[n] \in T
  BY <1>1, <1>6, <1>7
<1>9. Without(s, c) \in Seq(T) /\ DOMAIN Without(s, c) = 1 .. Cardinality(K)
  BY <1>5, <1>7, <1>8, IsASeq
<1>10. ASSUME IsInjective(s), NEW a \in DOMAIN Without(s, c), NEW b \in DOMAIN Without(s, c),
              Without(s, c)[a] = Without(s, c)[b]
       PROVE  a = b
  <2>1. s[Nth(s, c, a)] = s[Nth(s, c, b)]
    BY <1>7, <1>9, <1>10
  <2>2. Nth(s, c, a) = Nth(s, c, b)
    BY <1>1, <1>6, <1>9, <1>10, <2>1 DEF IsInjective
  <2> DEFINE Upto(m) == Cardinality({l \in K : l <= m})
  <2>3. Upto(Nth(s, c, a)) = a /\ Upto(Nth(s, c, b)) = b
    BY <1>6, <1>9
  <2> HIDE DEF Upto
  <2> QED BY <2>2, <2>3
<1> QED BY <1>1, <1>6, <1>7, <1>9, <1>10 DEF IsInjective

\* What r holds is c, or was in s.
OfThem(r, s, c) == \A m \in DOMAIN r : r[m] = c \/ \E n \in DOMAIN s : r[m] = s[n]

\* The child that is merged takes its one place at the end.
LEMMA MergedLast ==
  ASSUME NEW T, NEW s \in Seq(T), NEW c \in T
  PROVE  /\ Append(Without(s, c), c) \in Seq(T)
         /\ OfThem(Append(Without(s, c), c), s, c)
         /\ IsInjective(s) => IsInjective(Append(Without(s, c), c))
<1> DEFINE w == Without(s, c)
           r == Append(w, c)
<1>1. /\ w \in Seq(T)
      /\ \A n \in DOMAIN w : w[n] # c /\ \E m \in DOMAIN s : w[n] = s[m]
      /\ IsInjective(s) => IsInjective(w)
  BY WithoutLeaves
<1> HIDE DEF w
<1>2. /\ r \in Seq(T) /\ DOMAIN r = 1 .. Len(w) + 1 /\ Len(w) \in Nat /\ DOMAIN w = 1 .. Len(w)
      /\ \A n \in DOMAIN w : r[n] = w[n]
      /\ r[Len(w) + 1] = c
  BY <1>1
<1> HIDE DEF r
<1>3. \A m \in DOMAIN r : m \in DOMAIN w \/ m = Len(w) + 1
  BY <1>2
<1>4. OfThem(r, s, c)
  BY <1>1, <1>2, <1>3 DEF OfThem
<1>5. IsInjective(s) => IsInjective(r)
  BY <1>1, <1>2, <1>3 DEF IsInjective
<1>6. r = Append(Without(s, c), c)
  BY DEF r, w
<1> QED BY <1>2, <1>4, <1>5, <1>6

(***************************************************************************)
(* WorkerHandoff.                                                          *)
(***************************************************************************)

\* A session that works on a child has one; no merges a session has read, or the
\* parent holds, name a child twice.
HandoffInv ==
  /\ Handoff!TypeOK
  /\ \A s \in Sessions :
       /\ handoff[s].pc \in {"run", "work", "read", "sync", "list", "write"} =>
            handoff[s].todo # <<>>
       /\ handoff[s].pc = "store" => handoff[s].seen # None
       /\ IsInjective(handoff[s].prior)
  /\ IsInjective(childMerges)

\* WorkerHandoff's merges are in the order of MergeOrder.
LEMMA HandoffOrder == \A s, c : Handoff!Without(s, c) = Without(s, c)
BY DEF Handoff!Without, Handoff!Nth, Handoff!Kept, Handoff!Cardinality, Handoff!IsFiniteSet,
       Without, Nth, Kept, Cardinality, IsFiniteSet

\* The instance's IsInjective is that of Functions.
LEMMA HandoffInjective == \A s : Handoff!IsInjective(s) <=> IsInjective(s)
BY DEF Handoff!IsInjective, IsInjective

\* A session that keeps the invariant's terms.
HandoffSession(r) ==
  /\ r \in Handoff!Session
  /\ r.pc \in {"run", "work", "read", "sync", "list", "write"} => r.todo # <<>>
  /\ r.pc = "store" => r.seen # None
  /\ IsInjective(r.prior)

\* What follows the first of several elements.
LEMMA TailRemains ==
  ASSUME NEW T, NEW q \in Seq(T), Len(q) > 1
  PROVE  Tail(q) \in Seq(T) /\ Tail(q) # <<>>
<1>1. q # <<>>
  OBVIOUS
<1>2. Tail(q) \in Seq(T) /\ Len(Tail(q)) = Len(q) - 1
  BY <1>1, HeadTailProperties
<1>3. Len(<<>>) = 0
  BY EmptySeq
<1>4. Len(Tail(q)) # 0
  BY <1>2
<1> QED BY <1>2, <1>3, <1>4

\* The names of points and kinds that the steps go through.
LEMMA HandoffNames ==
  /\ {"idle", "spawn", "run", "work", "read", "sync", "list", "write", "end", "store"}
       \subseteq Handoff!Points
  /\ {"handoff", "batch", "resume", "gateway"} \subseteq Handoff!Kinds
  /\ <<>> \in Seq(Handoff!Children) /\ IsInjective(<<>>)
BY DEF Handoff!Points, Handoff!Kinds, IsInjective

\* An idle session works on nothing.
LEMMA HandoffIdle ==
  /\ HandoffSession(Handoff!Idle)
  /\ Handoff!Idle.todo = <<>> /\ Handoff!Idle.prior = <<>>
BY DEF HandoffSession, Handoff!Idle, Handoff!Session, Handoff!Points, Handoff!Kinds, IsInjective

\* The invariant, by its parts.
LEMMA HandoffByParts ==
  HandoffInv <=>
    /\ Handoff!TypeOK
    /\ \A s \in Sessions : HandoffSession(handoff[s])
    /\ IsInjective(childMerges)
BY DEF HandoffInv, HandoffSession, Handoff!TypeOK

\* A step that gives session s another record, and leaves the parent's merges or
\* gives it some that name no child twice.
LEMMA HandoffStep ==
  ASSUME HandoffInv, NEW s \in Sessions, NEW r, HandoffSession(r),
         handoff' = [handoff EXCEPT ![s] = r],
         status' \in Handoff!Statuses,
         delegation' \in {"none", "blocked_on_child", "awaiting_merge"},
         waits' \in Handoff!Children \cup {None},
         nested' \in BOOLEAN,
         child' \in [Handoff!Children -> Handoff!Statuses \cup {None}],
         childMerges' \in Seq(Handoff!Children),
         IsInjective(childMerges')
  PROVE  HandoffInv'
<1>1. handoff' \in [Sessions -> Handoff!Session]
  BY DEF HandoffInv, Handoff!TypeOK, HandoffSession
<1>2. \A t \in Sessions : HandoffSession(handoff'[t])
  BY HandoffByParts DEF Handoff!TypeOK
<1>3. Handoff!TypeOK'
  BY <1>1 DEF Handoff!TypeOK
<1> QED BY <1>1, <1>2, <1>3 DEF HandoffInv, HandoffSession

\* After a child a session has nothing, the next child, or its command to end.
LEMMA HandoffThen ==
  ASSUME HandoffInv, NEW s \in Sessions, Handoff!Then(s), handoff[s].todo # <<>>
  PROVE  \E r : HandoffSession(r) /\ handoff' = [handoff EXCEPT ![s] = r]
<1> DEFINE h == handoff[s]
           r == CASE h.kind = "resume" -> Handoff!Idle
                  [] h.kind = "batch" /\ Len(h.todo) > 1 ->
                       [Handoff!Idle EXCEPT !.pc = "run", !.kind = "batch", !.todo = Tail(h.todo)]
                  [] OTHER -> [h EXCEPT !.pc = "end", !.prior = <<>>, !.active = {}]
<1>1. handoff' = [handoff EXCEPT ![s] = r]
  BY DEF Handoff!Then
<1>2. h \in Handoff!Session
  BY DEF HandoffInv, Handoff!TypeOK
<1>3. CASE h.kind = "resume"
  BY <1>3, <1>1, HandoffIdle
<1>4. CASE h.kind = "batch" /\ Len(h.todo) > 1
  <2>1. Tail(h.todo) \in Seq(Handoff!Children) /\ Tail(h.todo) # <<>>
    <3>1. h.todo \in Seq(Handoff!Children)
      BY <1>2 DEF Handoff!Session
    <3> QED BY <1>4, <3>1, TailRemains
  <2>2. HandoffSession([Handoff!Idle EXCEPT !.pc = "run", !.kind = "batch", !.todo = Tail(h.todo)])
    BY <2>1, HandoffIdle, HandoffNames DEF HandoffSession, Handoff!Session
  <2>3. r = [Handoff!Idle EXCEPT !.pc = "run", !.kind = "batch", !.todo = Tail(h.todo)]
    BY <1>4
  <2> QED BY <1>1, <2>2, <2>3
<1>5. CASE h.kind # "resume" /\ ~(h.kind = "batch" /\ Len(h.todo) > 1)
  <2>1. HandoffSession([h EXCEPT !.pc = "end", !.prior = <<>>, !.active = {}])
    BY <1>2, HandoffNames DEF HandoffSession, Handoff!Session
  <2>2. r = [h EXCEPT !.pc = "end", !.prior = <<>>, !.active = {}]
    BY <1>5
  <2> QED BY <1>1, <2>1, <2>2
<1> QED BY <1>3, <1>4, <1>5

\* A step of a session keeps the invariant.
LEMMA HandoffSessionStep ==
  ASSUME HandoffInv, NEW s \in Sessions, Handoff!Step(s)
  PROVE  HandoffInv'
<1> DEFINE h == handoff[s]
           Gives(r) == HandoffSession(r) /\ handoff' = [handoff EXCEPT ![s] = r]
<1> USE DEF Handoff!parent
<1>1. /\ h \in Handoff!Session /\ HandoffSession(h)
      /\ status \in Handoff!Statuses
      /\ delegation \in {"none", "blocked_on_child", "awaiting_merge"}
      /\ waits \in Handoff!Children \cup {None}
      /\ nested \in BOOLEAN
      /\ child \in [Handoff!Children -> Handoff!Statuses \cup {None}]
      /\ childMerges \in Seq(Handoff!Children) /\ IsInjective(childMerges)
  BY HandoffByParts DEF HandoffInv, Handoff!TypeOK
<1>2. {"queued", "running", "completed", "failed", "waiting_approval", "blocked", "cancelled"}
        \subseteq Handoff!Statuses
  BY DEF Handoff!Statuses, Handoff!Active, Handoff!Outcomes
<1>3. h.todo # <<>> => Head(h.todo) \in Handoff!Children
  BY <1>1 DEF Handoff!Session
<1>4. CASE Handoff!Start(s)
  <2> PICK kind \in {"handoff", "batch"} :
        handoff' = [handoff EXCEPT ![s] = [Handoff!Idle EXCEPT !.pc = "spawn", !.kind = kind]]
    BY <1>4 DEF Handoff!Start
  <2>1. HandoffSession([Handoff!Idle EXCEPT !.pc = "spawn", !.kind = kind])
    BY HandoffIdle, HandoffNames DEF HandoffSession, Handoff!Session
  <2> QED BY <1>1, <1>2, <1>4, <2>1, HandoffStep DEF Handoff!Start
<1>5. CASE Handoff!Spawn(s)
  <2> PICK c \in Handoff!Children :
        /\ child' = [child EXCEPT ![c] = "queued"]
        /\ handoff' = [handoff EXCEPT ![s].todo = Append(@, c)]
    BY <1>5 DEF Handoff!Spawn
  <2>1. HandoffSession([h EXCEPT !.todo = Append(h.todo, c)])
    <3>1. Append(h.todo, c) \in Seq(Handoff!Children) /\ h.pc = "spawn"
      BY <1>1, <1>5 DEF Handoff!Session, Handoff!Spawn
    <3> QED BY <1>1, <3>1 DEF HandoffSession, Handoff!Session
  <2>2. handoff' = [handoff EXCEPT ![s] = [h EXCEPT !.todo = Append(h.todo, c)]]
    OBVIOUS
  <2>3. child' \in [Handoff!Children -> Handoff!Statuses \cup {None}]
    BY <1>1, <1>2
  <2> QED BY <1>1, <1>5, <2>1, <2>2, <2>3, HandoffStep DEF Handoff!Spawn
<1>6. CASE Handoff!SpawnFails(s)
  <2>1. HandoffSession([Handoff!Idle EXCEPT !.pc = "store", !.seen = "failed"])
    BY <1>2, HandoffIdle, HandoffNames, RowsAssumption DEF HandoffSession, Handoff!Session
  <2> QED BY <1>1, <1>6, <2>1, HandoffStep DEF Handoff!SpawnFails
<1>7. CASE Handoff!Wait(s)
  <2>1. h.todo # <<>>
    BY <1>1, <1>7, BatchAssumption DEF Handoff!Wait, Handoff!Size, Handoff!Session
  <2>2. HandoffSession([h EXCEPT !.pc = "run"])
    BY <1>1, <2>1 DEF HandoffSession, Handoff!Session, Handoff!Points
  <2>3. handoff' = [handoff EXCEPT ![s] = [h EXCEPT !.pc = "run"]]
    BY <1>7 DEF Handoff!Wait
  <2> QED BY <1>1, <1>2, <1>3, <1>7, <2>1, <2>2, <2>3, HandoffStep DEF Handoff!Wait
<1>8. CASE Handoff!End(s)
  <2> PICK seen \in Handoff!Statuses, prior \in Seq(Handoff!Children) :
        /\ IsInjective(prior)
        /\ handoff' = [handoff EXCEPT ![s] =
             [Handoff!Idle EXCEPT !.pc = "store", !.seen = seen, !.prior = prior]]
    <3> DEFINE own == h.kind = "handoff"
               good == own => h.seen = "completed"
               e == IF own THEN IF good THEN "completed" ELSE "blocked" ELSE Handoff!Inferred
               p == IF good /\ ~nested THEN childMerges ELSE <<>>
    <3>1. e \in Handoff!Statuses
      BY <1>1, <1>2 DEF Handoff!Inferred
    <3>2. p \in Seq(Handoff!Children) /\ IsInjective(p)
      BY <1>1 DEF IsInjective
    <3>3. handoff' = [handoff EXCEPT ![s] = [Handoff!Idle EXCEPT !.pc = "store", !.seen = e, !.prior = p]]
      BY <1>8 DEF Handoff!End
    <3> QED BY <3>1, <3>2, <3>3
  <2>1. HandoffSession([Handoff!Idle EXCEPT !.pc = "store", !.seen = seen, !.prior = prior])
    BY HandoffIdle, HandoffNames, RowsAssumption DEF HandoffSession, Handoff!Session
  <2> QED BY <1>1, <1>8, <2>1, HandoffStep DEF Handoff!End
<1>9. CASE Handoff!Store(s)
  <2>1. h.pc = "store" => h.seen \in Handoff!Statuses
    BY <1>1 DEF Handoff!Session, HandoffSession
  <2> QED BY <1>1, <1>9, <2>1, HandoffIdle, HandoffStep DEF Handoff!Store, HandoffSession, Handoff!Session
<1>10. CASE \E c \in Handoff!Children : Handoff!Resume(s, c)
  <2> PICK c \in Handoff!Children, kind \in {"resume", "gateway"} :
        handoff' = [handoff EXCEPT ![s] =
          [Handoff!Idle EXCEPT !.pc = "run", !.kind = kind, !.todo = <<c>>]]
    BY <1>10 DEF Handoff!Resume
  <2>1. <<c>> \in Seq(Handoff!Children) /\ <<c>> # <<>>
    OBVIOUS
  <2>2. HandoffSession([Handoff!Idle EXCEPT !.pc = "run", !.kind = kind, !.todo = <<c>>])
    BY <2>1, HandoffIdle, HandoffNames DEF HandoffSession, Handoff!Session
  <2> QED BY <1>1, <1>10, <2>2, HandoffStep DEF Handoff!Resume
<1>11. CASE Handoff!Begin(s)
  <2>1. HandoffSession([h EXCEPT !.pc = "work"])
    BY <1>1, <1>11 DEF HandoffSession, Handoff!Session, Handoff!Points, Handoff!Begin
  <2>2. handoff' = [handoff EXCEPT ![s] = [h EXCEPT !.pc = "work"]]
    BY <1>11 DEF Handoff!Begin
  <2>3. child' \in [Handoff!Children -> Handoff!Statuses \cup {None}]
    BY <1>1, <1>2, <1>11 DEF Handoff!Begin
  <2> QED BY <1>1, <1>11, <2>1, <2>2, <2>3, HandoffStep DEF Handoff!Begin
<1>12. CASE Handoff!Finish(s)
  <2>1. PICK r : Gives(r)
    <3>1. HandoffSession([h EXCEPT !.pc = "read"])
      BY <1>1, <1>12 DEF HandoffSession, Handoff!Session, Handoff!Points, Handoff!Finish
    <3>2. \/ handoff' = [handoff EXCEPT ![s] = Handoff!Idle]
          \/ handoff' = [handoff EXCEPT ![s] = [h EXCEPT !.pc = "read"]]
      BY <1>12 DEF Handoff!Finish
    <3> QED BY <3>1, <3>2, HandoffIdle
  <2>2. child' \in [Handoff!Children -> Handoff!Statuses \cup {None}]
    BY <1>1, <1>2, <1>12 DEF Handoff!Finish, Handoff!Outcomes
  <2> QED BY <1>1, <1>12, <2>1, <2>2, HandoffStep DEF Handoff!Finish
<1>13. CASE Handoff!Reread(s)
  <2>1. HandoffSession([h EXCEPT !.pc = "sync", !.seen = child[Head(h.todo)]])
    BY <1>1, <1>3, <1>13 DEF HandoffSession, Handoff!Session, Handoff!Points, Handoff!Reread
  <2>2. handoff' = [handoff EXCEPT ![s] = [h EXCEPT !.pc = "sync", !.seen = child[Head(h.todo)]]]
    BY <1>13 DEF Handoff!Reread
  <2> QED BY <1>1, <1>13, <2>1, <2>2, HandoffStep DEF Handoff!Reread
<1>14. CASE Handoff!SyncBlock(s)
  <2>1. h.todo # <<>>
    BY <1>1, <1>14 DEF HandoffSession, Handoff!SyncBlock
  <2>2. PICK r : Gives(r)
    BY <1>14, <2>1, HandoffThen DEF Handoff!SyncBlock
  <2> QED BY <1>1, <1>2, <1>3, <1>14, <2>1, <2>2, HandoffStep DEF Handoff!SyncBlock
<1>15. CASE Handoff!SyncRead(s)
  <2> DEFINE p == IF nested THEN <<>> ELSE childMerges
  <2>1. p \in Seq(Handoff!Children) /\ IsInjective(p)
    BY <1>1 DEF IsInjective
  <2>2. handoff' = [handoff EXCEPT ![s] = [h EXCEPT !.pc = "list", !.prior = p]]
    BY <1>15 DEF Handoff!SyncRead
  <2> HIDE DEF p
  <2>3. HandoffSession([h EXCEPT !.pc = "list", !.prior = p])
    BY <1>1, <1>15, <2>1 DEF HandoffSession, Handoff!Session, Handoff!Points, Handoff!SyncRead
  <2> QED BY <1>1, <1>15, <2>2, <2>3, HandoffStep DEF Handoff!SyncRead
<1>16. CASE Handoff!SyncList(s)
  <2> PICK active \in SUBSET Handoff!Children :
        handoff' = [handoff EXCEPT ![s].pc = "write", ![s].active = active]
    BY <1>16 DEF Handoff!SyncList
  <2>1. HandoffSession([h EXCEPT !.pc = "write", !.active = active])
    BY <1>1, <1>16 DEF HandoffSession, Handoff!Session, Handoff!Points, Handoff!SyncList
  <2>2. handoff' = [handoff EXCEPT ![s] = [h EXCEPT !.pc = "write", !.active = active]]
    OBVIOUS
  <2> QED BY <1>1, <1>16, <2>1, <2>2, HandoffStep DEF Handoff!SyncList
<1>17. CASE Handoff!SyncWrite(s)
  <2>1. h.todo # <<>> /\ h.prior \in Seq(Handoff!Children) /\ IsInjective(h.prior)
    BY <1>1, <1>17 DEF HandoffSession, Handoff!SyncWrite, Handoff!Session
  <2>2. PICK r : Gives(r)
    BY <1>17, <2>1, HandoffThen DEF Handoff!SyncWrite
  <2>3. childMerges' = Append(Without(h.prior, Head(h.todo)), Head(h.todo))
    BY <1>17, HandoffOrder DEF Handoff!SyncWrite
  <2>4. childMerges' \in Seq(Handoff!Children) /\ IsInjective(childMerges')
    BY <1>3, <2>1, <2>3, MergedLast
  <2>5. status' \in Handoff!Statuses /\ delegation' \in {"blocked_on_child", "awaiting_merge"}
        /\ waits' \in Handoff!Children \cup {None}
    BY <1>1, <1>2, <1>17 DEF Handoff!SyncWrite, Handoff!Session
  <2> QED BY <1>1, <1>17, <2>2, <2>4, <2>5, HandoffStep DEF Handoff!SyncWrite
<1>18. CASE Handoff!Crash(s)
  BY <1>1, <1>18, HandoffIdle, HandoffStep DEF Handoff!Crash
<1> QED BY <1>4, <1>5, <1>6, <1>7, <1>8, <1>9, <1>10, <1>11, <1>12, <1>13, <1>14, <1>15, <1>16,
           <1>17, <1>18 DEF Handoff!Step

\* Every session is idle, and nothing is merged.
LEMMA HandoffStarts == Handoff!Init => HandoffInv
<1> SUFFICES ASSUME Handoff!Init PROVE HandoffInv
  OBVIOUS
<1>1. Handoff!TypeOK
  BY HandoffIdle, HandoffNames DEF Handoff!Init, Handoff!TypeOK, HandoffSession, Handoff!Statuses, Handoff!Active
<1> QED BY <1>1, HandoffIdle, HandoffNames, HandoffByParts DEF Handoff!Init

\* Every step of WorkerHandoff preserves the invariant.
LEMMA HandoffKept == HandoffInv /\ [Handoff!Next]_handoffVars => HandoffInv'
<1> SUFFICES ASSUME HandoffInv, [Handoff!Next]_handoffVars PROVE HandoffInv'
  OBVIOUS
<1>1. CASE \E s \in Sessions : Handoff!Step(s)
  BY <1>1, HandoffSessionStep
<1>2. ASSUME NEW c \in Handoff!Children, Handoff!CancelChild(c) PROVE HandoffInv'
  BY <1>2 DEF Handoff!CancelChild, HandoffInv, Handoff!TypeOK, Handoff!parent, Handoff!Statuses
<1>3. CASE Handoff!CancelParent
  BY <1>3 DEF Handoff!CancelParent, HandoffInv, Handoff!TypeOK, Handoff!Statuses
<1>4. CASE UNCHANGED handoffVars
  BY <1>4 DEF handoffVars, HandoffInv, Handoff!TypeOK
<1> QED BY <1>1, <1>2, <1>3, <1>4 DEF Handoff!Next

\* What a step of Merging is to one of its modules.
LEMMA MergingSteps ==
  [MergingNext]_<<part, vars, handoffVars, reviewVars, taskVars, artifactVars>> =>
    /\ [Handoff!Next]_handoffVars
    /\ [Review!Next]_reviewVars
    /\ [Tasks!Next]_taskVars
    /\ [Artifacts!Next]_artifactVars
BY DEF MergingNext

\* The records of a parent and of its children have their types, and its merges
\* name each child once (_sync_parent_after_child).
THEOREM HandoffInvariant == MergingSpec => []HandoffInv
<1>1. MergingInit => HandoffInv
  BY HandoffStarts DEF MergingInit
<1>2. HandoffInv /\ [MergingNext]_<<part, vars, handoffVars, reviewVars, taskVars, artifactVars>>
        => HandoffInv'
  BY HandoffKept, MergingSteps
<1> QED BY <1>1, <1>2, PTL DEF MergingSpec

\* However many sessions merge a child, its result is merged once.
THEOREM MergedOnceCorrect == MergingSpec => []MergedOnce
<1>1. HandoffInv => MergedOnce
  BY HandoffInjective DEF HandoffInv, MergedOnce, Handoff!MergedOnce
<1> QED BY <1>1, HandoffInvariant, PTL

(***************************************************************************)
(* MergeReview.                                                            *)
(***************************************************************************)

\* What a decision may say: of a key that one of the kids returns, one of them.
Admitted(overrides, kids) ==
  \A k \in Keys : overrides[k] # None =>
    overrides[k] \in kids /\ \E c \in kids : k \in Returns(c)

\* A session is about to write such a decision, and computes its report, as long
\* as nobody has disturbed it, from the one on record.
Deciding(r, kids, onRecord) ==
  /\ r \in Review!Session
  /\ Admitted(r.next.overrides, kids)
  /\ r.pc = "report" /\ r.alone => r.next = onRecord

ReviewInv ==
  /\ payload \in Review!Decision /\ report \in Review!Decision
  /\ merged \in SUBSET Kids /\ ever \in SUBSET Kids
  /\ merged \subseteq ever
  /\ Admitted(payload.overrides, ever)
  /\ review \in [Sessions -> Review!Session]
  /\ \A s \in Sessions : Deciding(review[s], ever, payload)

\* Nothing is decided to begin with, or by a session that has decided nothing.
LEMMA ReviewNothing ==
  /\ Review!NoItems \in [Keys -> Kids \cup {None}]
  /\ Review!Nothing \in Review!Decision
  /\ \A kids : Admitted(Review!Nothing.overrides, kids)
  /\ \A kids, onRecord : Deciding(Review!Idle, kids, onRecord)
  /\ Review!Idle.pc = "idle"
<1>1. Review!Default \in Settings
  BY SettingsAssumption DEF Review!Default
<1>2. /\ Review!NoItems \in [Keys -> Kids \cup {None}]
      /\ Review!Nothing \in Review!Decision
      /\ Review!Nothing.overrides = Review!NoItems
  BY <1>1 DEF Review!NoItems, Review!Nothing, Review!Decision
<1>3. \A kids : Admitted(Review!NoItems, kids)
  BY DEF Admitted, Review!NoItems
<1>4. Review!Idle \in Review!Session
  BY <1>2 DEF Review!Idle, Review!Session
<1>5. Review!Idle.next = Review!Nothing /\ Review!Idle.pc = "idle"
  BY DEF Review!Idle
<1> QED BY <1>2, <1>3, <1>4, <1>5 DEF Deciding

\* A decision is admitted for more kids too.
LEMMA AdmittedForMore ==
  ASSUME NEW overrides, NEW few, NEW many, few \subseteq many, Admitted(overrides, few)
  PROVE  Admitted(overrides, many)
BY DEF Admitted

\* A step of a session that writes nothing.
LEMMA ReviewStep ==
  ASSUME ReviewInv, NEW s \in Sessions, NEW r, Deciding(r, ever, payload),
         review' = [review EXCEPT ![s] = r], UNCHANGED <<payload, merged, report, ever>>
  PROVE  ReviewInv'
<1>1. review' \in [Sessions -> Review!Session]
  BY DEF ReviewInv, Deciding
<1>2. \A t \in Sessions : Deciding(review'[t], ever, payload)
  BY DEF ReviewInv
<1> QED BY <1>1, <1>2 DEF ReviewInv

\* An operation that begins.
LEMMA ReviewBegins ==
  ASSUME ReviewInv, NEW s \in Sessions, NEW pc \in {"check", "write", "refresh", "report"},
         NEW items \in [Keys -> Kids \cup {None}], NEW next \in Review!Decision,
         NEW refresh \in BOOLEAN, NEW found \in SUBSET Kids,
         Review!Start(s, pc, items, next, refresh, found),
         Admitted(next.overrides, ever), pc = "report" => next = payload,
         UNCHANGED <<payload, merged, report, ever>>
  PROVE  ReviewInv'
<1> DEFINE r == [pc |-> pc, items |-> items, next |-> next, refresh |-> refresh,
                 found |-> found, alone |-> TRUE]
<1>1. r \in Review!Session
  BY DEF Review!Session
<1>2. Deciding(r, ever, payload)
  BY <1>1 DEF Deciding
<1>3. review' = [review EXCEPT ![s] = r]
  BY DEF Review!Start
<1> HIDE DEF r
<1> QED BY <1>2, <1>3, ReviewStep

\* A step that writes gives the session another record and disturbs the others.
LEMMA ReviewWrite ==
  ASSUME ReviewInv, NEW s \in Sessions, NEW r, Review!Wrote(s, r),
         Deciding(r, ever', payload'), r.pc # "report",
         payload' \in Review!Decision, report' \in Review!Decision,
         merged' \in SUBSET Kids, ever' \in SUBSET Kids,
         merged' \subseteq ever', ever \subseteq ever',
         Admitted(payload'.overrides, ever')
  PROVE  ReviewInv'
<1> DEFINE disturbed(t) == [review[t] EXCEPT !.alone = review[t].pc = "idle"]
<1>1. review' = [t \in Sessions |-> IF t = s THEN r ELSE disturbed(t)]
  BY DEF Review!Wrote
<1>2. ASSUME NEW t \in Sessions
      PROVE  /\ disturbed(t) \in Review!Session
             /\ disturbed(t).next = review[t].next
             /\ disturbed(t).pc = "report" => ~disturbed(t).alone
  <2>1. review[t] \in Review!Session
    BY DEF ReviewInv
  <2>2. disturbed(t) \in Review!Session
    BY <2>1 DEF Review!Session
  <2> QED BY <2>1, <2>2 DEF Review!Session
<1>3. ASSUME NEW t \in Sessions PROVE Deciding(disturbed(t), ever', payload')
  <2>1. Admitted(review[t].next.overrides, ever')
    BY AdmittedForMore DEF ReviewInv, Deciding
  <2> QED BY <1>2, <2>1 DEF Deciding
<1> HIDE DEF disturbed
<1>4. \A t \in Sessions : Deciding(review'[t], ever', payload')
  BY <1>1, <1>3
<1>5. review' \in [Sessions -> Review!Session]
  BY <1>1, <1>2 DEF Deciding
<1> QED BY <1>4, <1>5 DEF ReviewInv

\* An operation begins: it decides the policy, or to clear overrides, by what is on
\* record, or it is going to check what it was asked for.
LEMMA ReviewAsks ==
  ASSUME ReviewInv, NEW s \in Sessions
  PROVE  (Review!SetPolicy(s) \/ Review!Ask(s) \/ Review!ResolveAll(s)
            \/ Review!Clear(s) \/ Review!Reapply(s) \/ Review!Sync(s))
           => ReviewInv'
<1>1. /\ payload \in Review!Decision /\ Admitted(payload.overrides, ever)
      /\ merged \in SUBSET Kids /\ {} \in SUBSET Kids
  BY DEF ReviewInv
<1>2. /\ Review!NoItems \in [Keys -> Kids \cup {None}]
      /\ Review!Nothing \in Review!Decision
      /\ Admitted(Review!Nothing.overrides, ever)
  BY ReviewNothing
<1>3. ASSUME NEW pc \in {"check", "write", "refresh"}, NEW items \in [Keys -> Kids \cup {None}],
             NEW next \in Review!Decision, NEW refresh \in BOOLEAN,
             Admitted(next.overrides, ever),
             Review!Start(s, pc, items, next, refresh, {}),
             UNCHANGED <<payload, merged, report, ever>>
      PROVE  ReviewInv'
  BY <1>1, <1>3, ReviewBegins
<1>4. ASSUME Review!SetPolicy(s) PROVE ReviewInv'
  <2>1. PICK p \in Settings, refresh \in BOOLEAN :
          Review!Start(s, "write", Review!NoItems, [payload EXCEPT !.policy = p], refresh, {})
    BY <1>4 DEF Review!SetPolicy
  <2>2. /\ [payload EXCEPT !.policy = p] \in Review!Decision
        /\ [payload EXCEPT !.policy = p].overrides = payload.overrides
    BY <1>1 DEF Review!Decision
  <2>3. UNCHANGED <<payload, merged, report, ever>>
    BY <1>4 DEF Review!SetPolicy, Review!Begins
  <2> QED BY <1>1, <1>2, <1>3, <2>1, <2>2, <2>3
<1>5. ASSUME Review!Ask(s) PROVE ReviewInv'
  <2>1. PICK items \in [Keys -> Kids \cup {None}] :
          Review!Start(s, "check", items, Review!Nothing, TRUE, {})
    BY <1>5 DEF Review!Ask
  <2>2. UNCHANGED <<payload, merged, report, ever>>
    BY <1>5 DEF Review!Ask, Review!Begins
  <2> QED BY <1>2, <1>3, <2>1, <2>2
<1>6. ASSUME Review!ResolveAll(s) PROVE ReviewInv'
  <2> DEFINE keys == IF Review!Pending # {} THEN Review!Pending ELSE Review!KnownKeys
             items(c) == [k \in Keys |-> IF k \in keys THEN c ELSE None]
  <2>1. PICK c \in Kids : Review!Start(s, "check", items(c), Review!Nothing, TRUE, {})
    BY <1>6 DEF Review!ResolveAll
  <2>2. items(c) \in [Keys -> Kids \cup {None}]
    OBVIOUS
  <2>3. UNCHANGED <<payload, merged, report, ever>>
    BY <1>6 DEF Review!ResolveAll, Review!Begins
  <2> HIDE DEF items
  <2> QED BY <1>2, <1>3, <2>1, <2>2, <2>3
<1>7. ASSUME Review!Clear(s) PROVE ReviewInv'
  <2> DEFINE next(keys) ==
        [payload EXCEPT !.overrides = [k \in Keys |-> IF k \in keys THEN None ELSE @[k]]]
  <2>1. PICK keys : Review!Start(s, "write", Review!NoItems, next(keys), TRUE, {})
    BY <1>7 DEF Review!Clear
  <2>2. next(keys) = [policy |-> payload.policy,
          overrides |-> [k \in Keys |-> IF k \in keys THEN None ELSE payload.overrides[k]]]
    BY <1>1 DEF Review!Decision
  <2>3. next(keys) \in Review!Decision /\ Admitted(next(keys).overrides, ever)
    BY <1>1, <2>2 DEF Review!Decision, Admitted
  <2>4. UNCHANGED <<payload, merged, report, ever>>
    BY <1>7 DEF Review!Clear, Review!Begins
  <2> HIDE DEF next
  <2> QED BY <1>2, <1>3, <2>1, <2>3, <2>4
<1>8. ASSUME Review!Reapply(s) PROVE ReviewInv'
  <2>1. Review!Start(s, "refresh", Review!NoItems, Review!Nothing, TRUE, {})
    BY <1>8 DEF Review!Reapply
  <2>2. UNCHANGED <<payload, merged, report, ever>>
    BY <1>8 DEF Review!Reapply, Review!Begins
  <2> QED BY <1>2, <1>3, <2>1, <2>2
<1>9. ASSUME Review!Sync(s) PROVE ReviewInv'
  <2>1. PICK c \in Kids :
          Review!Start(s, "report", Review!NoItems, payload, TRUE, merged \cup {c})
    BY <1>9 DEF Review!Sync
  <2>2. UNCHANGED <<payload, merged, report, ever>>
    BY <1>9 DEF Review!Sync, Review!Begins
  <2>3. merged \cup {c} \in SUBSET Kids
    BY <1>1
  <2> QED BY <1>1, <1>2, <2>1, <2>2, <2>3, ReviewBegins
<1> QED BY <1>4, <1>5, <1>6, <1>7, <1>8, <1>9

\* It goes on, and what it decides names a key and a child that were merged when it
\* looked.
LEMMA ReviewGoesOn ==
  ASSUME ReviewInv, NEW s \in Sessions,
         \/ Review!Check(s) \/ Review!Write(s) \/ Review!Refresh(s)
         \/ Review!Report(s) \/ Review!Abort(s)
  PROVE  ReviewInv'
<1>1. /\ payload \in Review!Decision /\ report \in Review!Decision
      /\ merged \in SUBSET Kids /\ ever \in SUBSET Kids /\ merged \subseteq ever
      /\ Admitted(payload.overrides, ever)
      /\ review[s] \in Review!Session
      /\ Deciding(review[s], ever, payload)
  BY DEF ReviewInv
<1>2. CASE Review!Check(s)
  <2> DEFINE next == [payload EXCEPT !.overrides = Review!Decided(s)]
             r == [review[s] EXCEPT !.pc = "write", !.items = Review!NoItems, !.next = next]
  <2>1. review' = [review EXCEPT ![s] = IF Review!Accepted(s) THEN r ELSE Review!Idle]
    BY <1>2 DEF Review!Check
  <2>2. ASSUME Review!Accepted(s) PROVE Deciding(r, ever, payload)
    <3>1. review[s].items \in [Keys -> Kids \cup {None}]
      BY <1>1 DEF Review!Session
    <3>2. Review!Decided(s) \in [Keys -> Kids \cup {None}]
      BY <1>1, <3>1 DEF Review!Decided, Review!Decision
    <3>3. next \in Review!Decision /\ next.overrides = Review!Decided(s)
      BY <1>1, <3>2 DEF Review!Decision
    <3>4. ASSUME NEW k \in Review!Asked(s)
          PROVE  review[s].items[k] \in ever /\ \E c \in ever : k \in Returns(c)
      BY <1>1, <2>2, <3>4 DEF Review!Accepted, Review!KnownKeys
    <3>5. Admitted(Review!Decided(s), ever)
      BY <1>1, <3>4 DEF Admitted, Review!Decided
    <3> HIDE DEF next
    <3>6. r \in Review!Session /\ r.next = next /\ r.pc = "write"
      BY <1>1, <3>3, ReviewNothing DEF Review!Session
    <3> QED BY <3>3, <3>5, <3>6 DEF Deciding
  <2> HIDE DEF r
  <2> QED BY <1>2, <2>1, <2>2, ReviewNothing, ReviewStep DEF Review!Check
<1>3. CASE Review!Write(s)
  <2> DEFINE r == [review[s] EXCEPT !.pc = "refresh", !.next = Review!Nothing]
  <2>1. Review!Wrote(s, IF review[s].refresh THEN r ELSE Review!Idle)
    BY <1>3 DEF Review!Write
  <2>2. r \in Review!Session /\ r.next = Review!Nothing /\ r.pc = "refresh"
    BY <1>1, ReviewNothing DEF Review!Session
  <2>3. Deciding(r, ever', payload')
    BY <2>2, ReviewNothing DEF Deciding
  <2>4. review[s].next \in Review!Decision /\ Admitted(review[s].next.overrides, ever)
    BY <1>1 DEF Deciding, Review!Session
  <2> HIDE DEF r
  <2> QED BY <1>1, <1>3, <2>1, <2>2, <2>3, <2>4, ReviewNothing, ReviewWrite DEF Review!Write
<1>4. CASE Review!Refresh(s)
  <2> DEFINE r == [review[s] EXCEPT !.pc = "report", !.next = payload, !.found = merged]
  <2>1. review' = [review EXCEPT ![s] = IF merged = {} THEN Review!Idle ELSE r]
    BY <1>4 DEF Review!Refresh
  <2>2. r \in Review!Session /\ r.next = payload
    BY <1>1 DEF Review!Session
  <2>3. Deciding(r, ever, payload)
    BY <1>1, <2>2 DEF Deciding
  <2> HIDE DEF r
  <2> QED BY <1>4, <2>1, <2>3, ReviewNothing, ReviewStep DEF Review!Refresh
<1>5. CASE Review!Report(s)
  <2>1. review[s].next \in Review!Decision /\ review[s].found \in SUBSET Kids
    BY <1>1 DEF Review!Session
  <2>2. Admitted(payload'.overrides, ever')
    BY <1>1, <1>5, AdmittedForMore DEF Review!Report
  <2> QED BY <1>1, <1>5, <2>1, <2>2, ReviewNothing, ReviewWrite DEF Review!Report
<1>6. CASE Review!Abort(s)
  BY <1>6, ReviewNothing, ReviewStep DEF Review!Abort
<1> QED BY <1>2, <1>3, <1>4, <1>5, <1>6

\* Every step of MergeReview preserves the invariant.
LEMMA ReviewKept == ReviewInv /\ [Review!Next]_reviewVars => ReviewInv'
<1> SUFFICES ASSUME ReviewInv, [Review!Next]_reviewVars PROVE ReviewInv'
  OBVIOUS
<1>1. CASE UNCHANGED reviewVars
  BY <1>1 DEF reviewVars, ReviewInv
<1>2. ASSUME NEW s \in Sessions,
             \/ Review!SetPolicy(s) \/ Review!Ask(s) \/ Review!ResolveAll(s)
             \/ Review!Clear(s) \/ Review!Reapply(s) \/ Review!Sync(s)
      PROVE  ReviewInv'
  BY <1>2, ReviewAsks
<1>3. ASSUME NEW s \in Sessions,
             \/ Review!Check(s) \/ Review!Write(s) \/ Review!Refresh(s)
             \/ Review!Report(s) \/ Review!Abort(s)
      PROVE  ReviewInv'
  BY <1>3, ReviewGoesOn
<1> QED BY <1>1, <1>2, <1>3 DEF Review!Next

\* What operators have decided, and what their sessions are about to write, has its
\* type and names keys and children that were merged.
THEOREM ReviewInvariant == MergingSpec => []ReviewInv
<1>1. MergingInit => ReviewInv
  <2> SUFFICES ASSUME Review!Init PROVE ReviewInv
    BY DEF MergingInit
  <2>1. /\ review = [s \in Sessions |-> Review!Idle] /\ ever = {} /\ merged = {}
        /\ payload = Review!Nothing /\ report = Review!Nothing
    BY DEF Review!Init
  <2>2. Review!Idle \in Review!Session
    BY ReviewNothing DEF Deciding
  <2> QED BY <2>1, <2>2, ReviewNothing DEF ReviewInv
<1>2. ReviewInv /\ [MergingNext]_<<part, vars, handoffVars, reviewVars, taskVars, artifactVars>>
        => ReviewInv'
  BY ReviewKept, MergingSteps
<1> QED BY <1>1, <1>2, PTL DEF MergingSpec

\* An override names a key and a child of the task's merges, however the sessions
\* that check and write overrides overlap (task_merge_service.resolve_many).
THEOREM OverridesCorrect == MergingSpec => []OverridesAdmitted
<1>1. ReviewInv => OverridesAdmitted
  BY DEF ReviewInv, OverridesAdmitted, Review!OverridesAdmitted, Admitted
<1> QED BY <1>1, ReviewInvariant, PTL

\* A session that ends with its report, undisturbed, leaves the report that follows
\* from the decisions on record (_refresh_task_merge_review).
THEOREM ReviewFollowsCorrect == MergingSpec => ReviewFollows
<1> DEFINE Follows == \A s \in Sessions :
      (review[s].pc = "report" /\ review[s].alone /\ report' # report /\ review'[s].pc = "idle")
        => report' = payload'
<1>1. ASSUME ReviewInv, [Review!Next]_reviewVars PROVE Follows
  <2> SUFFICES ASSUME NEW s \in Sessions, review[s].pc = "report", review[s].alone,
                      report' # report, review'[s].pc = "idle"
               PROVE  report' = payload'
    OBVIOUS
  <2>1. PICK t \in Sessions : Review!Report(t)
    BY <1>1 DEF Review!Next, reviewVars, Review!SetPolicy, Review!Ask, Review!ResolveAll,
      Review!Clear, Review!Reapply, Review!Sync, Review!Begins, Review!Check, Review!Write,
      Review!Refresh, Review!Abort
  <2>2. t = s
    <3>1. SUFFICES ASSUME t # s PROVE FALSE
      OBVIOUS
    <3>2. review'[s] = [review[s] EXCEPT !.alone = review[s].pc = "idle"]
      BY <2>1, <3>1 DEF Review!Report, Review!Wrote
    <3>3. review[s] \in Review!Session
      BY <1>1 DEF ReviewInv
    <3>4. review'[s].pc = review[s].pc
      BY <3>2, <3>3 DEF Review!Session
    <3> QED BY <3>4
  <2>3. review[s].next = payload
    BY <1>1 DEF ReviewInv, Deciding
  <2> QED BY <2>1, <2>2, <2>3 DEF Review!Report
<1>2. ReviewInv /\ [MergingNext]_<<part, vars, handoffVars, reviewVars, taskVars, artifactVars>>
        => [Follows]_reviewVars
  BY <1>1, MergingSteps
<1>3. [][Follows]_reviewVars => ReviewFollows
  BY DEF ReviewFollows, Review!ReviewFollows, Review!vars, reviewVars
<1> HIDE DEF Follows
<1> QED BY <1>2, <1>3, ReviewInvariant, PTL DEF MergingSpec

(***************************************************************************)
(* GatewayTasks.                                                           *)
(***************************************************************************)

\* Of the tasks that are due, those whose place is not after the offset: no later
\* page of the list will have them.
Passed(due, scope, f, offset) == {k \in due : PlaceBy(scope, f, k) <= offset}

\* What a request owes its caller of a scope: as long as it reads, the tasks that
\* are passed are slips, and so are those that came after it counted; once it is
\* answered, all that are due.
OwedBy(r, scope, f) ==
  /\ r.op \in {"list", "count"} =>
       /\ r.due \subseteq scope
       /\ Cardinality(Passed(r.due, scope, f, r.offset)) <= r.slips
  /\ r.op = "count" =>
       Cardinality(Passed(r.due, scope, f, r.offset)) + Cardinality(scope) <= r.total + r.slips
  /\ r.op = "listed" => IsFiniteSet(r.due) /\ Cardinality(r.due) <= r.slips

\* The instance's Cardinality is that of FiniteSets.
LEMMA TasksCardinality == \A S : Tasks!Cardinality(S) = Cardinality(S)
BY DEF Tasks!Cardinality, Tasks!IsFiniteSet, Cardinality, IsFiniteSet

\* A row moves to a lower place by at most the rows that have left its scope.
LEMMA PlacesMove ==
  ASSUME NEW old, NEW new, NEW f, NEW g, Numbered(old, f), Numbered(new, g),
         \A x \in old \cap new : f[x] = g[x], NEW x \in old \cap new
  PROVE  PlaceBy(old, f, x) <= PlaceBy(new, g, x) + Cardinality(old \ new)
<1> DEFINE A == {y \in old : f[y] >= f[x]}
           B == {y \in new : g[y] >= g[x]}
           G == old \ new
<1>1. A \subseteq B \cup G
  OBVIOUS
<1>2. IsFiniteSet(B) /\ IsFiniteSet(G)
  <2>1. B \in SUBSET new /\ G \in SUBSET old
    OBVIOUS
  <2> QED BY <2>1, FS_Subset DEF Numbered
<1>3. /\ IsFiniteSet(B \cup G)
      /\ Cardinality(B \cup G) = Cardinality(B) + Cardinality(G) - Cardinality(B \cap G)
  BY <1>2, FS_Union
<1>4. Cardinality(B) \in Nat /\ Cardinality(G) \in Nat
  BY <1>2, FS_CardinalityType
<1>5. IsFiniteSet(B \cap G) /\ Cardinality(B \cap G) \in Nat
  BY <1>2, FS_Subset, FS_CardinalityType
<1>6. Cardinality(A) <= Cardinality(B \cup G) /\ Cardinality(B \cup G) \in Nat /\ Cardinality(A) \in Nat
  BY <1>1, <1>3, FS_Subset, FS_CardinalityType
<1>7. PlaceBy(old, f, x) = Cardinality(A) /\ PlaceBy(new, g, x) = Cardinality(B)
  BY DEF PlaceBy
<1> HIDE DEF A, B, G
<1>8. Cardinality(A) <= Cardinality(B) + Cardinality(G)
  BY <1>3, <1>4, <1>5, <1>6
<1> QED BY <1>7, <1>8 DEF G

\* What a change of its scope does to a list that is being read.
SlippedBy(q, r, old, new) ==
  /\ q.op = r.op /\ q.due = r.due \cap new /\ q.offset = r.offset /\ q.total = r.total
  /\ q.slips = r.slips + Cardinality(old \ new)
                 + (IF r.op = "count" THEN Cardinality(new \ old) ELSE 0)

\* Such a change makes a request owe no more than the slips it counts.
LEMMA OwedAfterChange ==
  ASSUME NEW old, NEW new, NEW f, NEW g, Numbered(old, f), Numbered(new, g),
         \A x \in old \cap new : f[x] = g[x],
         NEW r, r.op \in {"list", "count"}, r.offset \in Nat, r.total \in Nat, r.slips \in Nat,
         OwedBy(r, old, f),
         NEW q, SlippedBy(q, r, old, new)
  PROVE  OwedBy(q, new, g)
<1> DEFINE P == Passed(r.due, old, f, r.offset)
           Q == Passed(q.due, new, g, q.offset)
           d == Cardinality(old \ new)
           e == Cardinality(new \ old)
           B == {k \in r.due : r.offset < PlaceBy(old, f, k) /\ PlaceBy(old, f, k) <= r.offset + d}
<1>0. /\ q.op = r.op /\ q.due = r.due \cap new /\ q.offset = r.offset /\ q.total = r.total
      /\ q.slips = r.slips + d + (IF r.op = "count" THEN e ELSE 0)
  BY DEF SlippedBy
<1>1. IsFiniteSet(old) /\ IsFiniteSet(new)
  BY DEF Numbered
<1>2. d \in Nat /\ e \in Nat
  BY <1>1, FS_Subset, FS_CardinalityType
<1>3. r.due \subseteq old
  BY DEF OwedBy
<1>4. IsFiniteSet(P) /\ Cardinality(P) \in Nat
  BY <1>1, <1>3, FS_Subset, FS_CardinalityType DEF Passed
<1>5. IsFiniteSet(B) /\ Cardinality(B) <= d /\ Cardinality(B) \in Nat
  <2> DEFINE b == r.offset + d
  <2>1. r.offset \in Int /\ b \in Int /\ r.offset <= b
    BY <1>2
  <2>2. B \in SUBSET old
    BY <1>3
  <2>3. \A x \in B : r.offset < PlaceBy(old, f, x) /\ PlaceBy(old, f, x) <= b
    OBVIOUS
  <2> HIDE DEF B, b
  <2>4. IsFiniteSet(B) /\ Cardinality(B) <= b - r.offset
    BY <2>1, <2>2, <2>3, PlacesBetween
  <2> QED BY <1>2, <2>4, FS_CardinalityType DEF b
<1>6. Q \subseteq P \cup B
  <2> SUFFICES ASSUME NEW k \in Q PROVE k \in P \cup B
    OBVIOUS
  <2>1. k \in r.due /\ k \in old \cap new /\ PlaceBy(new, g, k) <= r.offset
    BY <1>0, <1>3 DEF Passed
  <2>2. PlaceBy(old, f, k) <= PlaceBy(new, g, k) + d
    BY <2>1, PlacesMove
  <2>3. PlaceBy(old, f, k) \in Nat /\ PlaceBy(new, g, k) \in Nat
    BY <2>1, PlacesInOrder
  <2>4. PlaceBy(old, f, k) <= r.offset + d
    BY <1>2, <2>1, <2>2, <2>3
  <2>5. k \in P \/ r.offset < PlaceBy(old, f, k)
    BY <2>1, <2>3 DEF Passed
  <2> QED BY <2>1, <2>4, <2>5
<1>7. Cardinality(Q) <= Cardinality(P) + d /\ Cardinality(Q) \in Nat
  <2>1. /\ IsFiniteSet(P \cup B)
        /\ Cardinality(P \cup B) = Cardinality(P) + Cardinality(B) - Cardinality(P \cap B)
    BY <1>4, <1>5, FS_Union
  <2>2. Cardinality(P \cap B) \in Nat
    BY <1>4, FS_Subset, FS_CardinalityType
  <2>3. Cardinality(Q) <= Cardinality(P \cup B) /\ Cardinality(Q) \in Nat
    BY <1>6, <2>1, FS_Subset, FS_CardinalityType
  <2> HIDE DEF P, Q, B, d
  <2> QED BY <1>2, <1>4, <1>5, <2>1, <2>2, <2>3
<1>8. Cardinality(new) = Cardinality(old) - d + e /\ Cardinality(old) \in Nat
  <2> DEFINE both == Cardinality(old \cap new)
  <2>1. d = Cardinality(old) - both
    BY <1>1, FS_Difference
  <2>2. e = Cardinality(new) - both
    <3>1. new \cap old = old \cap new
      OBVIOUS
    <3>2. Cardinality(new \ old) = Cardinality(new) - Cardinality(new \cap old)
      BY <1>1, FS_Difference
    <3>3. Cardinality(new \cap old) = both
      BY <3>1
    <3> QED BY <3>2, <3>3
  <2>3. Cardinality(old) \in Nat /\ Cardinality(new) \in Nat /\ both \in Nat
    BY <1>1, FS_Subset, FS_CardinalityType
  <2> HIDE DEF d, e, both
  <2> QED BY <2>1, <2>2, <2>3
<1>9. q.due \subseteq new
  BY <1>0
<1>10. Cardinality(P) <= r.slips
  BY DEF OwedBy
<1>11. r.op = "count" => Cardinality(P) + Cardinality(old) <= r.total + r.slips
  BY DEF OwedBy
<1>12. OwedBy(q, new, g) <=>
         /\ Cardinality(Q) <= q.slips
         /\ q.op = "count" => Cardinality(Q) + Cardinality(new) <= q.total + q.slips
  BY <1>0, <1>9 DEF OwedBy
<1> HIDE DEF P, Q, d, e
<1> QED BY <1>0, <1>2, <1>4, <1>7, <1>8, <1>10, <1>11, <1>12

\* A request to make a task knows a sound parent's tenant; the task it has inserted
\* is there, is not settled before it has its tenant, and has it when the context
\* is saved.
Sound(r, table, done) ==
  /\ r.op \in Tasks!Creations /\ r.sound /\ r.parent # None =>
       r.parent \in done /\ r.org = table[r.parent].org
  /\ r.op \in {"child", "save"} =>
       r.task \in Ids /\ table[r.task] # None /\ table[r.task].parent = r.parent
  /\ r.op = "child" => r.task \notin done
  /\ r.op = "save" => table[r.task].org = r.org

\* A settled task's context is of its tenant, and a settled child has one, and its
\* parent's tenant.
InTenant(k, table, contexts, done) ==
  /\ contexts[k] # None => contexts[k].org = table[k].org
  /\ table[k].parent # None =>
       /\ table[k].parent \in done
       /\ table[k].org = table[table[k].parent].org
       /\ contexts[k] # None

\* Rows have distinct dates, none later than their number.
Dated(live, f) ==
  /\ IsFiniteSet(live)
  /\ \A k \in live : f[k] \in 1 .. Cardinality(live)
  /\ \A k, l \in live : f[k] = f[l] => k = l

TasksInv ==
  /\ Tasks!TypeOK
  /\ Dated(Tasks!Live, made)
  /\ \A t, u \in Sessions :
       request[t].op \in {"child", "save"} /\ request[u].op \in {"child", "save"}
         /\ request[t].task = request[u].task => t = u
  /\ \A t \in Sessions : Sound(request[t], task, settled)
  /\ \A k \in settled : InTenant(k, task, context, settled)
  /\ \A k \in Ids : context[k] # None => k \in Tasks!Live
  /\ \A t \in Sessions : OwedBy(request[t], Tasks!InScope(request[t].caller, task), made)

Looking == [op: {"cancel", "review"}, caller: Callers, task: Ids]

Creating ==
  [op: {"parent", "child", "save"}, task: Ids \cup {None}, parent: Ids \cup {None},
   org: Tasks!Orgs, who: Tasks!Whos, sound: BOOLEAN]

Reading ==
  [op: {"list", "count"}, caller: Callers, offset: Nat, total: Nat, due: SUBSET Ids, slips: Nat]

Answered == [op: {"listed"}, due: SUBSET Ids, slips: Nat]

\* A request is of one of four kinds, or idle, by its operation.
LEMMA RequestKinds ==
  /\ Tasks!Request = {Tasks!Idle} \cup Looking \cup Creating \cup Reading \cup Answered
  /\ \A r \in Tasks!Request :
       /\ r.op = "idle" => r = Tasks!Idle
       /\ r.op \in {"cancel", "review"} => r \in Looking
       /\ r.op \in {"parent", "child", "save"} => r \in Creating
       /\ r.op \in {"list", "count"} => r \in Reading
       /\ r.op = "listed" => r \in Answered
  /\ Tasks!Idle.op = "idle"
<1>1. Tasks!Request = {Tasks!Idle} \cup Looking \cup Creating \cup Reading \cup Answered
  BY DEF Tasks!Request, Tasks!Operations, Tasks!Creations, Looking, Creating, Reading, Answered
<1>2. Tasks!Idle.op = "idle"
  BY DEF Tasks!Idle
<1>3. \A r \in Looking : r.op \in {"cancel", "review"}
  BY DEF Looking
<1>4. \A r \in Creating : r.op \in {"parent", "child", "save"}
  BY DEF Creating
<1>5. \A r \in Reading : r.op \in {"list", "count"}
  BY DEF Reading
<1>6. \A r \in Answered : r.op = "listed"
  BY DEF Answered
<1> QED BY <1>1, <1>2, <1>3, <1>4, <1>5, <1>6

\* What TypeOK says of the rows and of the requests; what is in a scope is a row.
LEMMA TasksTyped ==
  ASSUME TasksInv
  PROVE  /\ \A k \in Tasks!Live : k \in Ids /\ task[k].org \in Tasks!Orgs
              /\ task[k].who \in Tasks!Whos /\ task[k].parent \in Ids \cup {None}
         /\ \A c : Tasks!InScope(c, task) \in SUBSET Tasks!Live
         /\ \A c : Numbered(Tasks!InScope(c, task), made)
         /\ settled \in SUBSET Tasks!Live
         /\ \A t \in Sessions : request[t] \in Tasks!Request
<1>1. task \in [Ids -> [org: Tasks!Orgs, who: Tasks!Whos, parent: Ids \cup {None}] \cup {None}]
  BY DEF TasksInv, Tasks!TypeOK
<1>2. \A k \in Tasks!Live : k \in Ids /\ task[k].org \in Tasks!Orgs
        /\ task[k].who \in Tasks!Whos /\ task[k].parent \in Ids \cup {None}
  BY <1>1 DEF Tasks!Live
<1>3. \A c : Tasks!InScope(c, task) \in SUBSET Tasks!Live
  BY DEF Tasks!InScope, Tasks!Live
<1>4. ASSUME NEW c PROVE Numbered(Tasks!InScope(c, task), made)
  <2>1. IsFiniteSet(Tasks!Live) /\ \A k \in Tasks!Live : made[k] \in Int
    BY DEF TasksInv, Dated
  <2>2. IsFiniteSet(Tasks!InScope(c, task))
    BY <1>3, <2>1, FS_Subset
  <2>3. \A k, l \in Tasks!Live : made[k] = made[l] => k = l
    BY DEF TasksInv, Dated
  <2> QED BY <1>3, <2>1, <2>2, <2>3 DEF Numbered
<1>5. settled \in SUBSET Tasks!Live /\ \A t \in Sessions : request[t] \in Tasks!Request
  BY DEF TasksInv, Tasks!TypeOK
<1> QED BY <1>2, <1>3, <1>4, <1>5

\* A step that changes nothing but what a request is in the middle of, and inserts
\* no task.
LEMMA TasksRequest ==
  ASSUME TasksInv, NEW t \in Sessions, NEW r \in Tasks!Request,
         request' = [request EXCEPT ![t] = r], UNCHANGED <<task, context, made, settled>>,
         r.op \notin {"child", "save"}, Sound(r, task, settled),
         OwedBy(r, Tasks!InScope(r.caller, task), made)
  PROVE  TasksInv'
<1>1. request \in [Sessions -> Tasks!Request]
  BY DEF TasksInv, Tasks!TypeOK
<1>2. request' \in [Sessions -> Tasks!Request]
  BY <1>1
<1>3. Tasks!Live' = Tasks!Live
  BY DEF Tasks!Live
<1>4. Tasks!TypeOK'
  BY <1>2, <1>3 DEF TasksInv, Tasks!TypeOK
<1>5. \A u \in Sessions : request'[u] = request[u] \/ request'[u] = r
  BY <1>1
<1>6. \A u \in Sessions : Sound(request'[u], task, settled)
  BY <1>5 DEF TasksInv
<1>7. \A u \in Sessions : OwedBy(request'[u], Tasks!InScope(request'[u].caller, task), made)
  BY <1>1 DEF TasksInv
<1>8. \A u, v \in Sessions :
        request'[u].op \in {"child", "save"} /\ request'[v].op \in {"child", "save"}
          /\ request'[u].task = request'[v].task => u = v
  BY <1>1 DEF TasksInv
<1>9. \A u \in Sessions : Tasks!InScope(request[u].caller, task)' = Tasks!InScope(request'[u].caller, task)
  BY DEF Tasks!InScope
<1> QED BY <1>3, <1>4, <1>6, <1>7, <1>8, <1>9 DEF TasksInv

\* A request that has nothing yet, or is about a task that is there.
LEMMA TasksAsk ==
  ASSUME TasksInv, NEW t \in Sessions
  PROVE  /\ \A c \in Callers, p \in Ids : Tasks!AskChild(t, c, p) => TasksInv'
         /\ \A c \in Callers, k \in Ids : Tasks!AskCancel(t, c, k) => TasksInv'
         /\ \A c \in Callers, k \in Ids : Tasks!AskReview(t, c, k) => TasksInv'
         /\ Tasks!Leave(t) => TasksInv'
<1>1. ASSUME NEW c \in Callers, NEW p \in Ids, Tasks!AskChild(t, c, p) PROVE TasksInv'
  <2> DEFINE of == IF context[p] # None THEN context[p] ELSE task[p]
             r == [op |-> "parent", task |-> None, parent |-> p, org |-> of.org,
                   who |-> of.who, sound |-> p \in settled]
  <2>1. request' = [request EXCEPT ![t] = r] /\ UNCHANGED <<task, context, made, settled>>
    BY <1>1 DEF Tasks!AskChild
  <2>2. p \in Tasks!Live
    BY <1>1 DEF Tasks!AskChild, Tasks!Visible
  <2>3. context[p] # None => context[p].org \in Tasks!Orgs /\ context[p].who \in Tasks!Whos
    BY DEF TasksInv, Tasks!TypeOK
  <2>4. of.org \in Tasks!Orgs /\ of.who \in Tasks!Whos
    BY <2>2, <2>3, TasksTyped
  <2>5. p \in settled => of.org = task[p].org
    BY DEF TasksInv, InTenant
  <2> HIDE DEF of
  <2>6. r \in Tasks!Request /\ r.op = "parent"
    BY <2>4, RequestKinds DEF Creating
  <2>7. Sound(r, task, settled)
    BY <2>5 DEF Sound
  <2>8. OwedBy(r, Tasks!InScope(r.caller, task), made)
    BY <2>6 DEF OwedBy
  <2> HIDE DEF r
  <2> QED BY <2>1, <2>6, <2>7, <2>8, TasksRequest
<1>2. ASSUME NEW c \in Callers, NEW k \in Ids, NEW op \in {"cancel", "review"},
             Tasks!Begin(t, c, k, op)
      PROVE  TasksInv'
  <2> DEFINE r == [op |-> op, caller |-> c, task |-> k]
  <2>1. request' = [request EXCEPT ![t] = r] /\ UNCHANGED <<task, context, made, settled>>
    BY <1>2 DEF Tasks!Begin
  <2>2. r \in Tasks!Request /\ r.op \in {"cancel", "review"}
    BY RequestKinds DEF Looking
  <2>3. Sound(r, task, settled) /\ OwedBy(r, Tasks!InScope(r.caller, task), made)
    BY <2>2 DEF Sound, OwedBy, Tasks!Creations
  <2> HIDE DEF r
  <2> QED BY <2>1, <2>2, <2>3, TasksRequest
<1>3. ASSUME Tasks!Leave(t) PROVE TasksInv'
  <2> DEFINE r == Tasks!Idle
  <2>1. r \in Tasks!Request /\ r.op = "idle"
    BY RequestKinds
  <2> HIDE DEF r
  <2>2. Sound(r, task, settled) /\ OwedBy(r, Tasks!InScope(r.caller, task), made)
    BY <2>1 DEF Sound, OwedBy, Tasks!Creations
  <2>3. request' = [request EXCEPT ![t] = r] /\ UNCHANGED <<task, context, made, settled>>
    BY <1>3 DEF Tasks!Leave, r
  <2> QED BY <2>1, <2>2, <2>3, TasksRequest
<1> QED BY <1>1, <1>2, <1>3 DEF Tasks!AskCancel, Tasks!AskReview

\* A list begins, owing the whole scope, no row of which is before its offset; and
\* counts the scope.
LEMMA TasksList ==
  ASSUME TasksInv, NEW t \in Sessions
  PROVE  /\ \A c \in Callers : Tasks!List(t, c) => TasksInv'
         /\ Tasks!CountRows(t) => TasksInv'
<1>1. ASSUME NEW c \in Callers, Tasks!List(t, c) PROVE TasksInv'
  <2> DEFINE scope == Tasks!InScope(c, task)
             r == [op |-> "list", caller |-> c, offset |-> 0, total |-> 0, due |-> scope, slips |-> 0]
  <2>1. request' = [request EXCEPT ![t] = r] /\ UNCHANGED <<task, context, made, settled>>
    BY <1>1 DEF Tasks!List
  <2>2. scope \in SUBSET Ids
    BY TasksTyped
  <2>3. r \in Tasks!Request /\ r.op = "list"
    BY <2>2, RequestKinds DEF Reading
  <2>4. Passed(scope, scope, made, 0) = {}
    <3>1. \A k \in scope : PlaceBy(scope, made, k) \in 1 .. Cardinality(scope)
      BY TasksTyped, PlacesInOrder
    <3>2. Cardinality(scope) \in Nat
      BY TasksTyped, PlacesInOrder
    <3> HIDE DEF scope
    <3> QED BY <3>1, <3>2 DEF Passed
  <2>5. Cardinality(Passed(scope, scope, made, 0)) = 0
    BY <2>4, FS_EmptySet
  <2>6. OwedBy(r, scope, made)
    BY <2>5 DEF OwedBy
  <2>7. Sound(r, task, settled) /\ r.caller = c
    BY DEF Sound, Tasks!Creations
  <2> HIDE DEF r
  <2> QED BY <2>1, <2>3, <2>6, <2>7, TasksRequest
<1>2. ASSUME Tasks!CountRows(t) PROVE TasksInv'
  <2> DEFINE scope == Tasks!InScope(request[t].caller, task)
             n == Cardinality(scope)
             r == [request[t] EXCEPT !.op = "count", !.total = n]
  <2>1. request \in [Sessions -> Tasks!Request]
    BY DEF TasksInv, Tasks!TypeOK
  <2>2. request' = [request EXCEPT ![t] = r] /\ UNCHANGED <<task, context, made, settled>>
    BY <1>2, <2>1, TasksCardinality DEF Tasks!CountRows
  <2>3. request[t] \in Reading /\ request[t].op = "list"
    BY <1>2, <2>1, RequestKinds DEF Tasks!CountRows
  <2>4. n \in Nat
    BY TasksTyped, PlacesInOrder
  <2>5. OwedBy(request[t], scope, made)
    BY DEF TasksInv
  <2> HIDE DEF n
  <2>6. /\ r \in Reading /\ r.op = "count" /\ r.caller = request[t].caller /\ r.total = n
        /\ r.due = request[t].due /\ r.offset = request[t].offset /\ r.slips = request[t].slips
    BY <2>3, <2>4 DEF Reading
  <2> HIDE DEF r
  <2>7. Sound(r, task, settled)
    BY <2>6 DEF Sound, Tasks!Creations
  <2>8. r.slips \in Nat /\ Cardinality(Passed(r.due, scope, made, r.offset)) \in Nat
    <3>1. Passed(r.due, scope, made, r.offset) \in SUBSET scope /\ IsFiniteSet(scope)
      BY <2>3, <2>5, <2>6, TasksTyped DEF OwedBy, Passed, Numbered
    <3> QED BY <2>6, <3>1, FS_Subset, FS_CardinalityType DEF Reading
  <2>9. OwedBy(r, scope, made)
    BY <2>3, <2>4, <2>5, <2>6, <2>8 DEF OwedBy, n
  <2> QED BY <2>2, <2>6, <2>7, <2>9, RequestKinds, TasksRequest
<1> QED BY <1>1, <1>2

\* The rows of the page after an offset.
OnPage(scope, f, offset) ==
  {k \in scope : PlaceBy(scope, f, k) \in offset + 1 .. offset + ListPage}

\* Where the next page begins.
Reached(scope, f, offset) == offset + Cardinality(OnPage(scope, f, offset))

\* A page moves the offset over nothing but its own rows; after the last page, which
\* is empty or reaches the total, nothing is due but slips.
LEMMA PageRead ==
  ASSUME NEW scope, NEW f, Numbered(scope, f),
         NEW r \in Reading, r.op = "count", OwedBy(r, scope, f)
  PROVE  /\ Reached(scope, f, r.offset) \in Nat
         /\ Cardinality(Passed(r.due \ OnPage(scope, f, r.offset), scope, f,
                               Reached(scope, f, r.offset))) <= r.slips
         /\ OnPage(scope, f, r.offset) = {} \/ Reached(scope, f, r.offset) >= r.total =>
              /\ IsFiniteSet(r.due \ OnPage(scope, f, r.offset))
              /\ Cardinality(r.due \ OnPage(scope, f, r.offset)) <= r.slips
<1> DEFINE due == r.due
           offset == r.offset
           total == r.total
           slips == r.slips
           batch == OnPage(scope, f, offset)
           reached == Reached(scope, f, offset)
           P == Passed(due, scope, f, offset)
           Q == Passed(due \ batch, scope, f, reached)
           R == {k \in due \ batch : PlaceBy(scope, f, k) > reached}
           n == Cardinality(scope)
           pl(k) == PlaceBy(scope, f, k)
<1>a. /\ offset \in Nat /\ total \in Nat /\ slips \in Nat
      /\ due \in SUBSET scope
      /\ Cardinality(P) <= slips /\ Cardinality(P) + n <= total + slips
  BY DEF Reading, OwedBy
<1>b. reached = offset + Cardinality(batch)
  BY DEF Reached
<1>0. batch = {k \in scope : pl(k) \in offset + 1 .. offset + ListPage}
  BY DEF OnPage
<1> HIDE DEF due, offset, total, slips, batch, reached
<1>1. /\ n \in Nat /\ IsFiniteSet(scope)
      /\ \A k \in scope : pl(k) \in 1 .. n
      /\ \A m \in 1 .. n : \E k \in scope : pl(k) = m
  BY PlacesInOrder DEF Numbered
<1>2. ListPage \in Nat \ {0}
  BY PageAssumption
<1>3. Cardinality(batch) \in Nat /\ Cardinality(batch) <= ListPage
  <2> DEFINE b == offset + ListPage
  <2>1. offset \in Int /\ b \in Int /\ offset <= b
    BY <1>2, <1>a
  <2>2. batch \in SUBSET scope /\ \A k \in batch : offset < pl(k) /\ pl(k) <= b
    BY <1>0, <1>1, <1>2, <1>a
  <2> HIDE DEF b
  <2>3. IsFiniteSet(batch) /\ Cardinality(batch) <= b - offset
    BY <2>1, <2>2, PlacesBetween
  <2> QED BY <1>2, <1>a, <2>3, FS_CardinalityType DEF b
<1>4. reached \in Nat /\ offset <= reached /\ reached <= offset + ListPage
  BY <1>2, <1>3, <1>a, <1>b
<1>5. IsFiniteSet(P) /\ Cardinality(P) \in Nat
  BY <1>1, <1>a, FS_Subset, FS_CardinalityType DEF Passed
<1>6. Q \subseteq P
  <2> SUFFICES ASSUME NEW k \in Q PROVE k \in P
    OBVIOUS
  <2>1. k \in due /\ k \notin batch /\ k \in scope /\ pl(k) <= reached
    BY <1>a DEF Passed
  <2>2. pl(k) \in Nat /\ pl(k) \notin offset + 1 .. offset + ListPage
    BY <1>0, <1>1, <2>1
  <2> HIDE DEF pl
  <2>3. pl(k) <= offset
    BY <1>2, <1>4, <1>a, <2>1, <2>2
  <2> QED BY <2>1, <2>3 DEF Passed, pl
<1>7. Cardinality(Q) <= Cardinality(P) /\ Cardinality(Q) \in Nat
  BY <1>5, <1>6, FS_Subset, FS_CardinalityType
<1>8. ASSUME batch = {} PROVE due \ batch \subseteq P
  <2>1. ~(n > offset)
    <3>1. SUFFICES ASSUME n > offset PROVE FALSE
      OBVIOUS
    <3>2. offset + 1 \in 1 .. n /\ offset + 1 \in offset + 1 .. offset + ListPage
      BY <1>1, <1>2, <1>a, <3>1
    <3>3. PICK k \in scope : pl(k) = offset + 1
      BY <1>1, <3>2
    <3>4. k \in batch
      BY <1>0, <3>2, <3>3
    <3> QED BY <1>8, <3>4
  <2>2. \A k \in due : k \in scope /\ pl(k) <= offset
    BY <1>1, <1>a, <2>1
  <2> QED BY <2>2 DEF Passed
<1>9. ASSUME reached >= total
      PROVE  IsFiniteSet(due \ batch) /\ Cardinality(due \ batch) <= slips
  <2>1. due \ batch = Q \cup R
    <3>1. \A k \in due \ batch : pl(k) \in Int
      BY <1>1, <1>a
    <3>2. \A k \in due \ batch : pl(k) <= reached \/ pl(k) > reached
      BY <1>4, <3>1
    <3> QED BY <3>2 DEF Passed
  <2>2. IsFiniteSet(Q) /\ IsFiniteSet(R)
    BY <1>1, <1>a, FS_Subset DEF Passed
  <2>3. CASE n < reached
    <3>1. R = {}
      BY <1>1, <1>4, <1>a, <2>3
    <3>2. due \ batch = Q
      BY <2>1, <3>1
    <3> HIDE DEF P, Q, R
    <3> QED BY <1>5, <1>7, <1>a, <2>2, <3>2
  <2>4. CASE reached <= n
    <3>1. R \in SUBSET scope /\ \A k \in R : reached < pl(k) /\ pl(k) <= n
      BY <1>1, <1>4, <1>a
    <3>2. Cardinality(R) <= n - reached /\ Cardinality(R) \in Nat
      <4> HIDE DEF R, n
      <4>1. Cardinality(R) <= n - reached
        BY <1>1, <1>4, <2>4, <3>1, PlacesBetween
      <4> QED BY <2>2, <4>1, FS_CardinalityType
    <3>3. /\ IsFiniteSet(Q \cup R)
          /\ Cardinality(Q \cup R) = Cardinality(Q) + Cardinality(R) - Cardinality(Q \cap R)
      BY <2>2, FS_Union
    <3>4. Cardinality(Q \cap R) \in Nat
      BY <2>2, FS_Subset, FS_CardinalityType
    <3>5. Cardinality(P) + n <= total + slips /\ total \in Nat /\ slips \in Nat
      BY <1>a
    <3> HIDE DEF P, Q, R, n
    <3>6. Cardinality(Q \cup R) <= slips
      BY <1>1, <1>4, <1>5, <1>7, <1>9, <3>2, <3>3, <3>4, <3>5
    <3> QED BY <2>1, <3>3, <3>6
  <2> QED BY <1>1, <1>4, <2>3, <2>4
<1>10. ASSUME batch = {}
       PROVE  IsFiniteSet(due \ batch) /\ Cardinality(due \ batch) <= slips
  <2>1. /\ IsFiniteSet(due \ batch) /\ Cardinality(due \ batch) <= Cardinality(P)
        /\ Cardinality(due \ batch) \in Nat
    BY <1>5, <1>8, <1>10, FS_Subset, FS_CardinalityType
  <2>2. Cardinality(P) <= slips /\ slips \in Nat
    BY <1>a
  <2> HIDE DEF P
  <2> QED BY <1>5, <2>1, <2>2
<1>11. Cardinality(Q) <= slips
  <2>1. Cardinality(P) <= slips /\ slips \in Nat
    BY <1>a
  <2> HIDE DEF P, Q
  <2> QED BY <1>5, <1>7, <2>1
<1> QED BY <1>4, <1>9, <1>10, <1>11 DEF due, offset, total, slips, batch, reached

\* A page is read, whose tasks are no longer due.
LEMMA TasksPage ==
  ASSUME TasksInv, NEW t \in Sessions, Tasks!ReadPage(t)
  PROVE  TasksInv'
<1> DEFINE scope == Tasks!InScope(request[t].caller, task)
           batch == OnPage(scope, made, request[t].offset)
           reached == Reached(scope, made, request[t].offset)
           due == request[t].due \ batch
           more == [request[t] EXCEPT !.op = "list", !.due = due, !.offset = reached]
           last == [op |-> "listed", due |-> due, slips |-> request[t].slips]
           r == IF batch = {} \/ reached >= request[t].total THEN last ELSE more
<1>1. request[t] \in Reading /\ request[t].op = "count"
  BY TasksTyped, RequestKinds DEF Tasks!ReadPage
<1>2. \A k : Tasks!Place(scope, k) = PlaceBy(scope, made, k)
  BY TasksCardinality DEF Tasks!Place, PlaceBy
<1>3. request' = [request EXCEPT ![t] = r] /\ UNCHANGED <<task, context, made, settled>>
  <2>1. batch = {k \in scope : Tasks!Place(scope, k)
                                 \in request[t].offset + 1 .. request[t].offset + ListPage}
    BY <1>2 DEF OnPage
  <2>2. Tasks!Cardinality(batch) = Cardinality(batch)
    BY TasksCardinality
  <2>3. reached = request[t].offset + Tasks!Cardinality(batch)
    BY <2>2 DEF Reached
  <2> QED BY <2>1, <2>3 DEF Tasks!ReadPage
<1>4. OwedBy(request[t], scope, made) /\ Numbered(scope, made)
  BY TasksTyped DEF TasksInv
<1>5. /\ request[t].offset \in Nat /\ request[t].total \in Nat /\ request[t].slips \in Nat
      /\ request[t].due \in SUBSET Ids
  BY <1>1 DEF Reading
<1>6. /\ request[t].due \in SUBSET scope
      /\ Cardinality(Passed(request[t].due, scope, made, request[t].offset)) <= request[t].slips
      /\ Cardinality(Passed(request[t].due, scope, made, request[t].offset)) + Cardinality(scope)
           <= request[t].total + request[t].slips
  BY <1>1, <1>4 DEF OwedBy
<1>7. /\ reached \in Nat
      /\ Cardinality(Passed(due, scope, made, reached)) <= request[t].slips
      /\ batch = {} \/ reached >= request[t].total
           => IsFiniteSet(due) /\ Cardinality(due) <= request[t].slips
  <2>1. Numbered(scope, made) /\ OwedBy(request[t], scope, made)
    BY <1>4
  <2> HIDE DEF scope
  <2> QED BY <1>1, <2>1, PageRead
<1> HIDE DEF scope
<1>8. due \in SUBSET Ids /\ due \subseteq scope
  BY <1>5, <1>6
<1> HIDE DEF reached, due, batch
<1>9. /\ more \in Reading /\ more.op = "list" /\ more.caller = request[t].caller
      /\ more.due = due /\ more.offset = reached /\ more.slips = request[t].slips
  BY <1>1, <1>7, <1>8 DEF Reading
<1>10. last \in Answered /\ last.op = "listed" /\ last.due = due /\ last.slips = request[t].slips
  BY <1>5, <1>8 DEF Answered
<1> HIDE DEF more, last
<1>11. Sound(more, task, settled) /\ OwedBy(more, Tasks!InScope(more.caller, task), made)
  BY <1>7, <1>8, <1>9 DEF Sound, OwedBy, Tasks!Creations, scope
<1>12. CASE batch = {} \/ reached >= request[t].total
  <2>1. Sound(last, task, settled) /\ OwedBy(last, Tasks!InScope(last.caller, task), made)
    BY <1>7, <1>10, <1>12 DEF Sound, OwedBy, Tasks!Creations
  <2> QED BY <1>3, <1>10, <1>12, <2>1, RequestKinds, TasksRequest
<1>13. CASE ~(batch = {} \/ reached >= request[t].total)
  BY <1>3, <1>9, <1>11, <1>13, RequestKinds, TasksRequest
<1> QED BY <1>12, <1>13

\* A step that changes rows: the lists that are being read count what it costs them,
\* and the other requests are as they were.
LEMMA TasksSlip ==
  ASSUME TasksInv, NEW t \in Sessions, NEW q \in Tasks!Request,
         q.op \in {"idle", "child", "save"},
         request' = [Tasks!Slipped(task') EXCEPT ![t] = q],
         task' \in [Ids -> [org: Tasks!Orgs, who: Tasks!Whos, parent: Ids \cup {None}] \cup {None}],
         context' = context,
         made' \in [Ids -> Nat], \A k \in Tasks!Live : made'[k] = made[k],
         Tasks!Live \in SUBSET Tasks!Live', Dated(Tasks!Live, made)',
         settled' \in SUBSET Tasks!Live'
  PROVE  /\ Tasks!TypeOK'
         /\ request'[t] = q
         /\ \A u \in Sessions \ {t} :
              request'[u] = request[u] \/ request'[u].op \in {"list", "count"}
         /\ (\A u \in Sessions : OwedBy(request[u], Tasks!InScope(request[u].caller, task), made))'
         /\ \A k \in Ids : context'[k] # None => k \in Tasks!Live'
<1> DEFINE now(c) == Tasks!InScope(c, task')
           old(c) == Tasks!InScope(c, task)
<1>1. \A c : now(c) \in SUBSET Tasks!Live'
  BY DEF Tasks!InScope, Tasks!Live
<1>2. ASSUME NEW c PROVE Numbered(now(c), made')
  <2>1. IsFiniteSet(Tasks!Live') /\ \A k \in Tasks!Live' : made'[k] \in Int
    BY DEF Dated
  <2>2. IsFiniteSet(now(c))
    BY <1>1, <2>1, FS_Subset
  <2>3. \A k, l \in Tasks!Live' : made'[k] = made'[l] => k = l
    BY DEF Dated
  <2> HIDE DEF now
  <2> QED BY <1>1, <2>1, <2>2, <2>3 DEF Numbered
<1>3. \A c : old(c) \in SUBSET Tasks!Live /\ Numbered(old(c), made)
  BY TasksTyped
<1>4. ASSUME NEW u \in Sessions, request[u].op \in {"list", "count"}
      PROVE  /\ Tasks!Slipped(task')[u] \in Reading
             /\ Tasks!Slipped(task')[u].op = request[u].op
             /\ OwedBy(Tasks!Slipped(task')[u], now(Tasks!Slipped(task')[u].caller), made')
  <2> DEFINE r == request[u]
             c == request[u].caller
             due == r.due \cap now(c)
             slips == r.slips + Cardinality(old(c) \ now(c))
                        + (IF r.op = "count" THEN Cardinality(now(c) \ old(c)) ELSE 0)
             s == [r EXCEPT !.due = due, !.slips = slips]
  <2>1. r \in Reading
    BY <1>4, TasksTyped, RequestKinds
  <2>2. Tasks!Slipped(task')[u] = s
    <3>1. Tasks!Slipped(task')[u] =
            [r EXCEPT !.due = @ \cap now(c),
                      !.slips = @ + Tasks!Cardinality(old(c) \ now(c))
                                  + (IF r.op = "count" THEN Tasks!Cardinality(now(c) \ old(c)) ELSE 0)]
      BY <1>4 DEF Tasks!Slipped
    <3> HIDE DEF now, old
    <3> QED BY <2>1, <3>1, TasksCardinality DEF Reading
  <2>3. OwedBy(r, old(c), made)
    BY DEF TasksInv
  <2>4. \A x \in old(c) \cap now(c) : made[x] = made'[x]
    BY <1>3
  <2>5. r.offset \in Nat /\ r.total \in Nat /\ r.slips \in Nat /\ r.due \in SUBSET Ids
    BY <2>1 DEF Reading
  <2> HIDE DEF now, old
  <2>6. slips \in Nat
    <3>1. IsFiniteSet(old(c)) /\ IsFiniteSet(now(c))
      BY <1>2, <1>3 DEF Numbered
    <3>2. Cardinality(old(c) \ now(c)) \in Nat /\ Cardinality(now(c) \ old(c)) \in Nat
      BY <3>1, FS_Subset, FS_CardinalityType
    <3> QED BY <2>5, <3>2
  <2>7. slips = r.slips + Cardinality(old(c) \ now(c))
                  + (IF r.op = "count" THEN Cardinality(now(c) \ old(c)) ELSE 0)
    OBVIOUS
  <2> HIDE DEF slips
  <2>8. /\ s \in Reading /\ s.op = r.op /\ s.due = r.due \cap now(c) /\ s.offset = r.offset
        /\ s.total = r.total /\ s.slips = slips /\ s.caller = c
    BY <2>1, <2>5, <2>6 DEF Reading
  <2> HIDE DEF s
  <2>9. SlippedBy(s, r, old(c), now(c))
    BY <2>7, <2>8 DEF SlippedBy
  <2>10. Numbered(old(c), made) /\ Numbered(now(c), made')
    BY <1>2, <1>3
  <2> HIDE DEF r, c
  <2>11. OwedBy(s, now(c), made')
    BY <1>4, <2>3, <2>4, <2>5, <2>9, <2>10, OwedAfterChange DEF r
  <2> QED BY <2>2, <2>8, <2>11 DEF r
<1>5. ASSUME NEW u \in Sessions, request[u].op \notin {"list", "count"}
      PROVE  Tasks!Slipped(task')[u] = request[u]
  BY <1>5 DEF Tasks!Slipped
<1>6. DOMAIN Tasks!Slipped(task') = Sessions
  BY DEF Tasks!Slipped
<1>7. request'[t] = q /\ \A u \in Sessions \ {t} : request'[u] = Tasks!Slipped(task')[u]
  BY <1>6
<1>8. \A u \in Sessions : Tasks!Slipped(task')[u] \in Tasks!Request
  BY <1>4, <1>5, TasksTyped, RequestKinds
<1>9. request' \in [Sessions -> Tasks!Request]
  <2> DEFINE F == Tasks!Slipped(task')
  <2>1. F = [u \in Sessions |-> F[u]]
    BY DEF Tasks!Slipped
  <2>2. F \in [Sessions -> Tasks!Request]
    BY <1>8, <2>1
  <2> HIDE DEF F
  <2>3. request' = [F EXCEPT ![t] = q]
    BY DEF F
  <2> QED BY <2>2, <2>3
<1>10. Tasks!TypeOK'
  BY <1>9 DEF TasksInv, Tasks!TypeOK
<1>11. ASSUME NEW u \in Sessions
       PROVE  OwedBy(request'[u], now(request'[u].caller), made')
  <2>1. CASE u = t
    BY <1>7, <2>1 DEF OwedBy
  <2>2. CASE u # t /\ request[u].op \in {"list", "count"}
    BY <1>4, <1>7, <2>2
  <2>3. CASE u # t /\ request[u].op \notin {"list", "count"}
    <3>1. request'[u] = request[u]
      BY <1>5, <1>7, <2>3
    <3>2. OwedBy(request[u], old(request[u].caller), made)
      BY DEF TasksInv
    <3> HIDE DEF now, old
    <3> QED BY <2>3, <3>1, <3>2 DEF OwedBy
  <2> QED BY <2>1, <2>2, <2>3
<1>12. (\A u \in Sessions : OwedBy(request[u], Tasks!InScope(request[u].caller, task), made))'
  <2>1. \A u \in Sessions :
          Tasks!InScope(request[u].caller, task)' = Tasks!InScope(request'[u].caller, task')
    BY DEF Tasks!InScope
  <2> QED BY <1>11, <2>1
<1>13. \A k \in Ids : context'[k] # None => k \in Tasks!Live'
  BY DEF TasksInv
<1> QED BY <1>4, <1>5, <1>7, <1>10, <1>12, <1>13

\* A row is inserted after all others.
LEMMA TasksInserted ==
  ASSUME TasksInv, NEW k \in Ids, k \notin Tasks!Live,
         NEW row \in [org: Tasks!Orgs, who: Tasks!Whos, parent: Ids \cup {None}],
         Tasks!Inserted(k, row)
  PROVE  /\ task' \in [Ids -> [org: Tasks!Orgs, who: Tasks!Whos, parent: Ids \cup {None}] \cup {None}]
         /\ task'[k] = row /\ \A l \in Ids \ {k} : task'[l] = task[l]
         /\ made' \in [Ids -> Nat]
         /\ \A l \in Tasks!Live : made'[l] = made[l]
         /\ Tasks!Live' = Tasks!Live \cup {k}
         /\ Dated(Tasks!Live, made)'
<1> DEFINE n == Cardinality(Tasks!Live)
<1>1. task \in [Ids -> [org: Tasks!Orgs, who: Tasks!Whos, parent: Ids \cup {None}] \cup {None}]
  BY DEF TasksInv, Tasks!TypeOK
<1>2. task' = [task EXCEPT ![k] = row] /\ made' = [made EXCEPT ![k] = n + 1]
  BY TasksCardinality DEF Tasks!Inserted
<1>3. made \in [Ids -> Nat] /\ Dated(Tasks!Live, made)
  BY DEF TasksInv, Tasks!TypeOK
<1>4. n \in Nat /\ IsFiniteSet(Tasks!Live)
  BY <1>3, FS_CardinalityType DEF Dated
<1>5. /\ task' \in [Ids -> [org: Tasks!Orgs, who: Tasks!Whos, parent: Ids \cup {None}] \cup {None}]
      /\ task'[k] = row /\ \A l \in Ids \ {k} : task'[l] = task[l]
  BY <1>1, <1>2
<1>6. /\ made' \in [Ids -> Nat]
      /\ made'[k] = n + 1 /\ \A l \in Ids \ {k} : made'[l] = made[l]
  <2> HIDE DEF n
  <2> QED BY <1>2, <1>3, <1>4
<1>7. row # None
  BY RowsAssumption
<1>8. Tasks!Live' = Tasks!Live \cup {k} /\ Tasks!Live \in SUBSET Ids
  BY <1>5, <1>7 DEF Tasks!Live
<1>9. IsFiniteSet(Tasks!Live \cup {k}) /\ Cardinality(Tasks!Live \cup {k}) = n + 1
  BY <1>4, FS_AddElement
<1>10. \A l \in Tasks!Live : made[l] \in 1 .. n
  BY <1>3 DEF Dated
<1> HIDE DEF n
<1>11. \A l \in Tasks!Live \cup {k} : made'[l] \in 1 .. n + 1
  BY <1>4, <1>6, <1>8, <1>10
<1>12. \A l, m \in Tasks!Live \cup {k} : made'[l] = made'[m] => l = m
  <2>1. \A l, m \in Tasks!Live : made[l] = made[m] => l = m
    BY <1>3 DEF Dated
  <2> QED BY <1>4, <1>6, <1>8, <1>10, <2>1
<1>13. Dated(Tasks!Live, made)'
  BY <1>8, <1>9, <1>11, <1>12 DEF Dated
<1> QED BY <1>5, <1>6, <1>8, <1>13

\* A task is created, of its creator's tenant, or a child inserted, of none.
LEMMA TasksCreate ==
  ASSUME TasksInv, NEW t \in Sessions, NEW k \in Ids
  PROVE  /\ \A c \in Callers : Tasks!CreateTask(t, c, k) => TasksInv'
         /\ Tasks!InsertChild(t, k) => TasksInv'
<1>1. ASSUME NEW row \in [org: Tasks!Orgs, who: Tasks!Whos, parent: Ids \cup {None}],
             k \notin Tasks!Live, Tasks!Inserted(k, row), context' = context,
             settled' = settled \/ (settled' = settled \cup {k} /\ row.parent = None),
             NEW q \in Tasks!Request, q.op \in {"child", "save"}, q.task = k,
             Sound(q, task', settled'),
             request' = [Tasks!Slipped(task') EXCEPT ![t] = q]
      PROVE  TasksInv'
  <2>1. /\ task' \in [Ids -> [org: Tasks!Orgs, who: Tasks!Whos, parent: Ids \cup {None}] \cup {None}]
        /\ task'[k] = row /\ \A l \in Ids \ {k} : task'[l] = task[l]
        /\ made' \in [Ids -> Nat]
        /\ \A l \in Tasks!Live : made'[l] = made[l]
        /\ Tasks!Live' = Tasks!Live \cup {k}
        /\ Dated(Tasks!Live, made)'
    BY <1>1, TasksInserted
  <2>2. settled \in SUBSET Tasks!Live /\ Tasks!Live \in SUBSET Ids
    BY TasksTyped DEF Tasks!Live
  <2>3. Tasks!Live \in SUBSET Tasks!Live' /\ settled' \in SUBSET Tasks!Live'
    BY <1>1, <2>1, <2>2
  <2>4. /\ Tasks!TypeOK'
        /\ request'[t] = q
        /\ \A u \in Sessions \ {t} : request'[u] = request[u] \/ request'[u].op \in {"list", "count"}
        /\ (\A u \in Sessions : OwedBy(request[u], Tasks!InScope(request[u].caller, task), made))'
        /\ \A l \in Ids : context'[l] # None => l \in Tasks!Live'
    BY <1>1, <2>1, <2>3, TasksSlip
  <2>5. \A u \in Sessions : request[u].op \in {"child", "save"} => request[u].task \in Tasks!Live
    BY DEF TasksInv, Sound, Tasks!Live
  <2>6. \A u, v \in Sessions :
          request'[u].op \in {"child", "save"} /\ request'[v].op \in {"child", "save"}
            /\ request'[u].task = request'[v].task => u = v
    BY <1>1, <2>4, <2>5 DEF TasksInv
  <2>7. \A l \in Tasks!Live : l # k /\ task'[l] = task[l]
    BY <1>1, <2>1, <2>2
  <2>8. ASSUME NEW u \in Sessions PROVE Sound(request'[u], task', settled')
    <3>1. CASE u = t
      BY <1>1, <2>4, <3>1
    <3>2. CASE request'[u].op \in {"list", "count"}
      BY <3>2 DEF Sound, Tasks!Creations
    <3>3. CASE request'[u] = request[u]
      <4>1. Sound(request[u], task, settled)
        BY DEF TasksInv
      <4>2. Sound(request[u], task', settled')
        BY <1>1, <2>2, <2>5, <2>7, <4>1 DEF Sound
      <4> QED BY <3>3, <4>2
    <3> QED BY <2>4, <3>1, <3>2, <3>3
  <2>9. context[k] = None
    BY <1>1 DEF TasksInv
  <2>10. ASSUME NEW l \in settled' PROVE InTenant(l, task', context', settled')
    <3>1. CASE l \in settled
      <4>1. InTenant(l, task, context, settled)
        BY <3>1 DEF TasksInv
      <4> QED BY <1>1, <2>2, <2>7, <3>1, <4>1 DEF InTenant
    <3>2. CASE l \notin settled
      BY <1>1, <2>1, <2>9, <2>10, <3>2 DEF InTenant
    <3> QED BY <3>1, <3>2
  <2> QED BY <2>1, <2>4, <2>6, <2>8, <2>10 DEF TasksInv
<1>2. ASSUME NEW c \in Callers, Tasks!CreateTask(t, c, k) PROVE TasksInv'
  <2> DEFINE row == [org |-> c.org, who |-> c.who, parent |-> None]
             q == [op |-> "save", task |-> k, parent |-> None, org |-> c.org, who |-> c.who,
                   sound |-> TRUE]
  <2>1. c.org \in Tasks!Orgs /\ c.who \in Tasks!Whos
    BY DEF Tasks!Orgs, Tasks!Whos
  <2>2. row \in [org: Tasks!Orgs, who: Tasks!Whos, parent: Ids \cup {None}] /\ row.parent = None
    BY <2>1
  <2>3. q \in Tasks!Request /\ q.op = "save" /\ q.task = k
    BY <2>1, RequestKinds DEF Creating
  <2>4. /\ k \notin Tasks!Live /\ Tasks!Inserted(k, row) /\ context' = context
        /\ settled' = settled \cup {k}
        /\ request' = [Tasks!Slipped(task') EXCEPT ![t] = q]
    BY <1>2 DEF Tasks!CreateTask
  <2>5. task'[k] = row
    BY <2>2, <2>4, TasksInserted
  <2>6. row # None /\ row.org = c.org
    BY <2>2, RowsAssumption
  <2>7. q.parent = None /\ q.org = c.org
    OBVIOUS
  <2> HIDE DEF row, q
  <2>8. Sound(q, task', settled')
    BY <2>2, <2>3, <2>5, <2>6, <2>7 DEF Sound
  <2> QED BY <1>1, <2>2, <2>3, <2>4, <2>8
<1>3. ASSUME Tasks!InsertChild(t, k) PROVE TasksInv'
  <2> DEFINE r == request[t]
             row == [org |-> DefaultOrg, who |-> r.who, parent |-> r.parent]
             q == [r EXCEPT !.op = "child", !.task = k]
  <2>1. r \in Creating /\ r.op = "parent"
    BY <1>3, TasksTyped, RequestKinds DEF Tasks!InsertChild
  <2>2. row \in [org: Tasks!Orgs, who: Tasks!Whos, parent: Ids \cup {None}]
    BY <2>1 DEF Creating, Tasks!Orgs
  <2>3. /\ q \in Creating /\ q.op = "child" /\ q.task = k
        /\ q.parent = r.parent /\ q.org = r.org /\ q.sound = r.sound
    BY <2>1 DEF Creating
  <2>4. /\ k \notin Tasks!Live /\ Tasks!Inserted(k, row) /\ context' = context
        /\ settled' = settled
    BY <1>3 DEF Tasks!InsertChild
  <2>5. request' = [Tasks!Slipped(task') EXCEPT ![t] = q]
    <3> DEFINE F == Tasks!Slipped(task')
    <3>1. F[t] = r /\ t \in DOMAIN F
      BY <2>1 DEF Tasks!Slipped
    <3>2. request' = [F EXCEPT ![t].op = "child", ![t].task = k]
      BY <1>3 DEF Tasks!InsertChild
    <3> HIDE DEF F, r
    <3>3. request' = [F EXCEPT ![t] = [r EXCEPT !.op = "child", !.task = k]]
      BY <3>1, <3>2
    <3> QED BY <3>3 DEF F
  <2>6. task'[k] = row /\ \A l \in Ids \ {k} : task'[l] = task[l]
    BY <2>2, <2>4, TasksInserted
  <2>7. Sound(r, task, settled) /\ settled \in SUBSET Tasks!Live /\ Tasks!Live \in SUBSET Ids
    BY TasksTyped DEF TasksInv, Tasks!Live
  <2>8. row # None /\ row.parent = r.parent
    BY <2>2, RowsAssumption
  <2> HIDE DEF row, q
  <2>9. Sound(q, task', settled')
    <3>1. r.op \in Tasks!Creations /\ q.op \in Tasks!Creations
      BY <2>1, <2>3 DEF Tasks!Creations
    <3>2. \A l \in settled : task'[l] = task[l]
      BY <2>4, <2>6, <2>7
    <3> QED BY <2>3, <2>4, <2>6, <2>7, <2>8, <3>1, <3>2 DEF Sound
  <2> QED BY <1>1, <2>2, <2>3, <2>4, <2>5, <2>9, RequestKinds
<1> QED BY <1>2, <1>3

\* A row is changed, but not its parent, nor its tenant once it is settled, or
\* somebody else relies on it.
LEMMA TasksChanged ==
  ASSUME TasksInv, NEW t \in Sessions, NEW k \in Tasks!Live,
         NEW row \in [org: Tasks!Orgs, who: Tasks!Whos, parent: Ids \cup {None}],
         row.parent = task[k].parent,
         task' = [task EXCEPT ![k] = row], UNCHANGED <<context, made, settled>>,
         row.org # task[k].org =>
           /\ k \notin settled
           /\ \A u \in Sessions \ {t} : request[u].op \in {"child", "save"} => request[u].task # k,
         NEW q \in Tasks!Request, q.op \in {"idle", "save"},
         q.op = "save" => request[t].op = "child" /\ q.task = request[t].task,
         Sound(q, task', settled),
         request' = [Tasks!Slipped(task') EXCEPT ![t] = q]
  PROVE  TasksInv'
<1>1. task \in [Ids -> [org: Tasks!Orgs, who: Tasks!Whos, parent: Ids \cup {None}] \cup {None}]
  BY DEF TasksInv, Tasks!TypeOK
<1>2. k \in Ids /\ settled \in SUBSET Tasks!Live /\ Tasks!Live \in SUBSET Ids
  BY TasksTyped DEF Tasks!Live
<1>3. /\ task' \in [Ids -> [org: Tasks!Orgs, who: Tasks!Whos, parent: Ids \cup {None}] \cup {None}]
      /\ task'[k] = row /\ \A l \in Ids \ {k} : task'[l] = task[l]
  BY <1>1, <1>2
<1>4. row # None
  BY RowsAssumption
<1>5. Tasks!Live' = Tasks!Live
  BY <1>2, <1>3, <1>4 DEF Tasks!Live
<1>6. made' \in [Ids -> Nat] /\ Dated(Tasks!Live, made)'
  BY <1>5 DEF TasksInv, Tasks!TypeOK, Dated
<1>7. /\ Tasks!TypeOK'
      /\ request'[t] = q
      /\ \A u \in Sessions \ {t} : request'[u] = request[u] \/ request'[u].op \in {"list", "count"}
      /\ (\A u \in Sessions : OwedBy(request[u], Tasks!InScope(request[u].caller, task), made))'
      /\ \A l \in Ids : context'[l] # None => l \in Tasks!Live'
  <2>1. /\ Tasks!Live \in SUBSET Tasks!Live' /\ settled' \in SUBSET Tasks!Live'
        /\ \A l \in Tasks!Live : made'[l] = made[l]
    BY <1>2, <1>5
  <2> QED BY <1>3, <1>6, <2>1, TasksSlip
<1>8. \A u, v \in Sessions :
        request'[u].op \in {"child", "save"} /\ request'[v].op \in {"child", "save"}
          /\ request'[u].task = request'[v].task => u = v
  <2>1. \A u \in Sessions : request'[u].op \in {"child", "save"} =>
          request[u].op \in {"child", "save"} /\ request'[u].task = request[u].task
    BY <1>7
  <2> QED BY <2>1 DEF TasksInv
<1>9. \A l \in Tasks!Live : task'[l].parent = task[l].parent /\ task'[l] # None
  BY <1>2, <1>3, <1>4 DEF Tasks!Live
<1>10. \A l \in settled : task'[l].org = task[l].org
  BY <1>2, <1>3
<1>11. ASSUME NEW u \in Sessions PROVE Sound(request'[u], task', settled')
  <2>1. CASE u = t
    BY <1>7, <2>1
  <2>2. CASE request'[u].op \in {"list", "count"}
    BY <2>2 DEF Sound, Tasks!Creations
  <2>3. CASE u # t /\ request'[u] = request[u]
    <3>1. Sound(request[u], task, settled)
      BY DEF TasksInv
    <3>2. request[u].op \in {"child", "save"} =>
            request[u].task \in Tasks!Live /\ task'[request[u].task].org = task[request[u].task].org
      BY <1>3, <2>3, <3>1 DEF Sound, Tasks!Live
    <3>3. Sound(request[u], task', settled)
      BY <1>9, <1>10, <3>1, <3>2 DEF Sound
    <3> QED BY <2>3, <3>3
  <2> QED BY <1>7, <2>1, <2>2, <2>3
<1>12. ASSUME NEW l \in settled PROVE InTenant(l, task', context', settled')
  <2>1. InTenant(l, task, context, settled)
    BY DEF TasksInv
  <2> QED BY <1>2, <1>9, <1>10, <2>1 DEF InTenant
<1> QED BY <1>6, <1>7, <1>8, <1>11, <1>12 DEF TasksInv

\* A child gets its tenant, and a caller who cancels or reviews a task writes its
\* name.
LEMMA TasksWrite ==
  ASSUME TasksInv, NEW t \in Sessions
  PROVE  /\ Tasks!AdoptChild(t) => TasksInv'
         /\ Tasks!Cancel(t) => TasksInv'
         /\ Tasks!Review(t) => TasksInv'
<1>1. task \in [Ids -> [org: Tasks!Orgs, who: Tasks!Whos, parent: Ids \cup {None}] \cup {None}]
  BY DEF TasksInv, Tasks!TypeOK
<1>2. \A k \in Tasks!Live : k \in Ids
        /\ task[k] \in [org: Tasks!Orgs, who: Tasks!Whos, parent: Ids \cup {None}]
  BY <1>1 DEF Tasks!Live
<1>3. ASSUME Tasks!AdoptChild(t) PROVE TasksInv'
  <2> DEFINE r == request[t]
             k == r.task
             row == [task[k] EXCEPT !.org = r.org]
             q == [r EXCEPT !.op = "save"]
  <2>1. r \in Creating /\ r.op = "child"
    BY <1>3, TasksTyped, RequestKinds DEF Tasks!AdoptChild
  <2>2. Sound(r, task, settled)
    BY DEF TasksInv
  <2>3. k \in Tasks!Live /\ k \notin settled /\ task[k].parent = r.parent
    BY <2>1, <2>2 DEF Sound, Tasks!Live
  <2>4. /\ row \in [org: Tasks!Orgs, who: Tasks!Whos, parent: Ids \cup {None}]
        /\ row.org = r.org /\ row.parent = task[k].parent
    BY <1>2, <2>1, <2>3 DEF Creating
  <2>5. /\ q \in Creating /\ q.op = "save" /\ q.task = k
        /\ q.parent = r.parent /\ q.org = r.org /\ q.sound = r.sound
    BY <2>1 DEF Creating
  <2>6. task' = [task EXCEPT ![k] = row] /\ UNCHANGED <<context, made, settled>>
    BY <1>1, <1>3, <2>3 DEF Tasks!AdoptChild
  <2>7. request' = [Tasks!Slipped(task') EXCEPT ![t] = q]
    <3> DEFINE F == Tasks!Slipped(task')
    <3>1. F[t] = r /\ t \in DOMAIN F
      BY <2>1 DEF Tasks!Slipped
    <3>2. request' = [F EXCEPT ![t].op = "save"]
      BY <1>3 DEF Tasks!AdoptChild
    <3> HIDE DEF F, r
    <3>3. request' = [F EXCEPT ![t] = [r EXCEPT !.op = "save"]]
      BY <3>1, <3>2
    <3> QED BY <3>3 DEF F
  <2>8. \A u \in Sessions \ {t} : request[u].op \in {"child", "save"} => request[u].task # k
    BY <2>1 DEF TasksInv
  <2>9. k \in Ids /\ settled \in SUBSET Tasks!Live
    BY <1>2, <2>3, TasksTyped
  <2>10. row # None
    BY <2>4, RowsAssumption
  <2> HIDE DEF row, q, k
  <2>11. task'[k] = row /\ \A l \in settled : task'[l] = task[l]
    BY <1>1, <2>3, <2>6, <2>9 DEF k
  <2>12. Sound(q, task', settled)
    <3>1. r.op \in Tasks!Creations
      BY <2>1 DEF Tasks!Creations
    <3> QED BY <2>2, <2>3, <2>4, <2>5, <2>9, <2>10, <2>11, <3>1 DEF Sound
  <2>13. q \in Tasks!Request /\ request[t].op = "child" /\ q.task = request[t].task
    BY <2>1, <2>5, RequestKinds DEF k
  <2> QED BY <2>3, <2>4, <2>5, <2>6, <2>7, <2>8, <2>12, <2>13, TasksChanged
<1>4. ASSUME Tasks!Written(t), request[t].op \in {"cancel", "review"},
             Tasks!Visible(request[t].caller, request[t].task)
      PROVE  TasksInv'
  <2> DEFINE k == request[t].task
             row == [task[k] EXCEPT !.who = request[t].caller.who]
             q == Tasks!Idle
  <2>1. request[t] \in Looking
    BY <1>4, TasksTyped, RequestKinds
  <2>2. request[t].caller.who \in Tasks!Whos
    BY <2>1 DEF Looking, Tasks!Whos
  <2>3. k \in Tasks!Live
    BY <1>4 DEF Tasks!Visible
  <2>4. /\ row \in [org: Tasks!Orgs, who: Tasks!Whos, parent: Ids \cup {None}]
        /\ row.org = task[k].org /\ row.parent = task[k].parent
    BY <1>2, <2>2, <2>3
  <2>5. q \in Tasks!Request /\ q.op = "idle"
    BY RequestKinds
  <2>6. task' = [task EXCEPT ![k] = row] /\ UNCHANGED <<context, made, settled>>
    BY <1>1, <1>2, <1>4, <2>3 DEF Tasks!Written
  <2>7. request' = [Tasks!Slipped(task') EXCEPT ![t] = q]
    BY <1>4 DEF Tasks!Written
  <2> HIDE DEF row, q, k
  <2>8. Sound(q, task', settled)
    BY <2>5 DEF Sound, Tasks!Creations
  <2> QED BY <2>3, <2>4, <2>5, <2>6, <2>7, <2>8, TasksChanged
<1>5. Tasks!Cancel(t) => TasksInv'
  BY <1>4 DEF Tasks!Cancel
<1>6. Tasks!Review(t) => TasksInv'
  <2>1. request[t].op = "review" => request[t] \in Looking
    BY TasksTyped, RequestKinds
  <2>2. request[t].op = "review" => request[t].task \in Tasks!Family(request[t].task)
    BY <2>1 DEF Tasks!Family, Looking
  <2> QED BY <1>4, <2>2 DEF Tasks!Review, Tasks!FamilyAuthorized
<1> QED BY <1>3, <1>5, <1>6

\* The context of a task is saved, which is of its tenant and settles a sound child.
LEMMA TasksSave ==
  ASSUME TasksInv, NEW t \in Sessions, Tasks!SaveContext(t)
  PROVE  TasksInv'
<1> DEFINE r == request[t]
           k == request[t].task
<1>1. r \in Creating /\ r.op = "save"
  BY TasksTyped, RequestKinds DEF Tasks!SaveContext
<1>2. Sound(r, task, settled)
  BY DEF TasksInv
<1>3. k \in Ids /\ k \in Tasks!Live /\ task[k].parent = r.parent /\ task[k].org = r.org
  BY <1>1, <1>2 DEF Sound, Tasks!Live
<1>4. /\ request \in [Sessions -> Tasks!Request]
      /\ context \in [Ids -> [org: Tasks!Orgs, who: Tasks!Whos] \cup {None}]
      /\ settled \in SUBSET Tasks!Live /\ Tasks!Live \in SUBSET Ids
  BY TasksTyped DEF TasksInv, Tasks!TypeOK, Tasks!Live
<1>5. /\ context' = [context EXCEPT ![k] = [org |-> r.org, who |-> r.who]]
      /\ settled' = IF r.sound THEN settled \cup {k} ELSE settled
      /\ request' = [request EXCEPT ![t] = Tasks!Idle]
      /\ UNCHANGED <<task, made>>
  BY DEF Tasks!SaveContext
<1>6. /\ context' \in [Ids -> [org: Tasks!Orgs, who: Tasks!Whos] \cup {None}]
      /\ context'[k].org = r.org /\ context'[k] # None
      /\ \A l \in Ids \ {k} : context'[l] = context[l]
  <2>1. [org |-> r.org, who |-> r.who] \in [org: Tasks!Orgs, who: Tasks!Whos]
    BY <1>1 DEF Creating
  <2>2. [org |-> r.org, who |-> r.who] # None
    BY <2>1, RowsAssumption
  <2> QED BY <1>3, <1>4, <1>5, <2>1, <2>2
<1>7. Tasks!Live' = Tasks!Live /\ Dated(Tasks!Live, made)'
  BY <1>5 DEF TasksInv, Tasks!Live, Dated
<1>8. request' \in [Sessions -> Tasks!Request] /\ settled' \in SUBSET Tasks!Live'
  BY <1>3, <1>4, <1>5, <1>7, RequestKinds
<1>9. Tasks!TypeOK'
  BY <1>5, <1>6, <1>8 DEF TasksInv, Tasks!TypeOK
<1>10. /\ request'[t].op = "idle"
       /\ \A u \in Sessions \ {t} : request'[u] = request[u]
  BY <1>4, <1>5, RequestKinds
<1>11. \A u, v \in Sessions :
         request'[u].op \in {"child", "save"} /\ request'[v].op \in {"child", "save"}
           /\ request'[u].task = request'[v].task => u = v
  BY <1>10 DEF TasksInv
<1>12. \A u \in Sessions \ {t} : request[u].op = "child" => request[u].task # k
  BY <1>1 DEF TasksInv
<1> HIDE DEF r, k
<1>13. ASSUME NEW u \in Sessions PROVE Sound(request'[u], task', settled')
  <2>1. CASE u = t
    BY <1>10, <2>1 DEF Sound, Tasks!Creations
  <2>2. CASE u # t
    <3>1. Sound(request[u], task, settled)
      BY DEF TasksInv
    <3>2. Sound(request[u], task, settled')
      BY <1>5, <1>12, <2>2, <3>1 DEF Sound
    <3> QED BY <1>5, <1>10, <2>2, <3>2
  <2> QED BY <2>1, <2>2
<1>14. ASSUME NEW l \in settled' PROVE InTenant(l, task', context', settled')
  <2>1. CASE l \in settled
    <3>1. InTenant(l, task, context, settled)
      BY <2>1 DEF TasksInv
    <3>2. l \in Ids
      BY <1>4, <2>1
    <3> QED BY <1>3, <1>5, <1>6, <3>1, <3>2 DEF InTenant
  <2>2. CASE l \notin settled
    <3>1. l = k /\ r.sound
      BY <1>5, <1>14, <2>2
    <3>2. r.parent # None => r.parent \in settled /\ r.org = task[r.parent].org
      BY <1>1, <1>2, <3>1 DEF Sound, Tasks!Creations
    <3> QED BY <1>3, <1>5, <1>6, <3>1, <3>2 DEF InTenant
  <2> QED BY <2>1, <2>2
<1>15. \A l \in Ids : context'[l] # None => l \in Tasks!Live'
  BY <1>3, <1>6, <1>7 DEF TasksInv
<1>16. (\A u \in Sessions : OwedBy(request[u], Tasks!InScope(request[u].caller, task), made))'
  <2>1. \A u \in Sessions :
          Tasks!InScope(request[u].caller, task)' = Tasks!InScope(request'[u].caller, task)
    BY <1>5 DEF Tasks!InScope
  <2>2. ASSUME NEW u \in Sessions
        PROVE  OwedBy(request'[u], Tasks!InScope(request'[u].caller, task), made)
    <3>1. CASE u = t
      BY <1>10, <3>1 DEF OwedBy
    <3>2. CASE u # t
      BY <1>10, <3>2 DEF TasksInv
    <3> QED BY <3>1, <3>2
  <2> QED BY <1>5, <2>1, <2>2
<1> QED BY <1>7, <1>9, <1>11, <1>13, <1>14, <1>15, <1>16 DEF TasksInv

\* There is no task, and no request.
LEMMA TasksStart == Tasks!Init => TasksInv
<1> SUFFICES ASSUME Tasks!Init PROVE TasksInv
  OBVIOUS
<1>1. Tasks!Live = {}
  BY DEF Tasks!Init, Tasks!Live
<1>2. Dated(Tasks!Live, made)
  BY <1>1, FS_EmptySet DEF Dated
<1>3. request = [t \in Sessions |-> Tasks!Idle] /\ settled = {}
  BY DEF Tasks!Init
<1>4. \A t \in Sessions : request[t] = Tasks!Idle /\ request[t].op = "idle"
  BY <1>3, RequestKinds
<1>5. Tasks!Idle \in Tasks!Request
  BY RequestKinds
<1>6. Tasks!TypeOK
  BY <1>3, <1>5 DEF Tasks!TypeOK, Tasks!Init
<1>7. \A t \in Sessions : Sound(request[t], task, settled)
                            /\ OwedBy(request[t], Tasks!InScope(request[t].caller, task), made)
  BY <1>4 DEF Sound, OwedBy, Tasks!Creations
<1>8. \A k \in Ids : context[k] = None
  BY DEF Tasks!Init
<1>9. \A t, u \in Sessions : ~(request[t].op \in {"child", "save"})
  BY <1>4
<1> QED BY <1>2, <1>3, <1>6, <1>7, <1>8, <1>9 DEF TasksInv

\* Every step of GatewayTasks preserves the invariant.
LEMMA TasksKept == TasksInv /\ [Tasks!Next]_taskVars => TasksInv'
<1> SUFFICES ASSUME TasksInv, [Tasks!Next]_taskVars PROVE TasksInv'
  OBVIOUS
<1>1. CASE UNCHANGED taskVars
  BY <1>1 DEF taskVars, TasksInv, Tasks!TypeOK, Tasks!Live, Tasks!InScope
<1>2. CASE Tasks!Next
  <2> SUFFICES ASSUME NEW t \in Sessions,
        \/ \E c \in Callers :
             \/ Tasks!List(t, c)
             \/ \E k \in Ids :
                  \/ Tasks!CreateTask(t, c, k)
                  \/ Tasks!AskChild(t, c, k)
                  \/ Tasks!AskCancel(t, c, k) \/ Tasks!AskReview(t, c, k)
        \/ \E k \in Ids : Tasks!InsertChild(t, k)
        \/ Tasks!AdoptChild(t) \/ Tasks!SaveContext(t)
        \/ Tasks!Cancel(t) \/ Tasks!Review(t)
        \/ Tasks!CountRows(t) \/ Tasks!ReadPage(t)
        \/ Tasks!Leave(t)
      PROVE TasksInv'
    BY <1>2 DEF Tasks!Next
  <2>1. \A c \in Callers : Tasks!List(t, c) => TasksInv'
    BY TasksList
  <2>2. \A c \in Callers, k \in Ids : Tasks!CreateTask(t, c, k) => TasksInv'
    BY TasksCreate
  <2>3. \A c \in Callers, k \in Ids :
          Tasks!AskChild(t, c, k) \/ Tasks!AskCancel(t, c, k) \/ Tasks!AskReview(t, c, k) => TasksInv'
    BY TasksAsk
  <2>4. \A k \in Ids : Tasks!InsertChild(t, k) => TasksInv'
    BY TasksCreate
  <2>5. Tasks!AdoptChild(t) \/ Tasks!Cancel(t) \/ Tasks!Review(t) => TasksInv'
    BY TasksWrite
  <2>6. Tasks!SaveContext(t) => TasksInv'
    BY TasksSave
  <2>7. Tasks!CountRows(t) => TasksInv'
    BY TasksList
  <2>8. Tasks!ReadPage(t) => TasksInv'
    BY TasksPage
  <2>9. Tasks!Leave(t) => TasksInv'
    BY TasksAsk
  <2> QED BY <2>1, <2>2, <2>3, <2>4, <2>5, <2>6, <2>7, <2>8, <2>9
<1> QED BY <1>1, <1>2

\* Rows, contexts and requests have their types; a settled child, and the request
\* that makes one, have the parent's tenant; and a request that reads a list owes
\* no more than its slips.
THEOREM TasksInvariant == MergingSpec => []TasksInv
<1>1. MergingInit => TasksInv
  BY TasksStart DEF MergingInit
<1>2. TasksInv /\ [MergingNext]_<<part, vars, handoffVars, reviewVars, taskVars, artifactVars>>
        => TasksInv'
  BY TasksKept, MergingSteps
<1> QED BY <1>1, <1>2, PTL DEF MergingSpec

\* A child task is of its parent's tenant, in its row and in its context, once both
\* have been made (_create_worker_child_task).
THEOREM ChildrenInTenantCorrect == MergingSpec => []ChildrenInTenant
<1>1. TasksInv => ChildrenInTenant
  BY DEF TasksInv, InTenant, ChildrenInTenant, Tasks!ChildrenInTenant
<1> QED BY <1>1, TasksInvariant, PTL

\* A list read in pages lacks no more tasks than have left its scope or were counted
\* too late (collect_task_records).
THEOREM ListsCompleteCorrect == MergingSpec => []ListsComplete
<1>1. TasksInv => ListsComplete
  BY TasksCardinality DEF TasksInv, OwedBy, ListsComplete, Tasks!ListsComplete
<1> QED BY <1>1, TasksInvariant, PTL

(***************************************************************************)
(* TaskArtifacts.                                                          *)
(***************************************************************************)

\* The row of an artifact of c that is linked to the parent.
LinkOf(c, row) == row.linked /\ row.file.of = c

\* What the rows of the parent hold of a child's, by what its session is doing:
\* nothing before the link; what the link knows, and what it has done so far; and
\* all from then on.
Linked(c, s, mine, parents) ==
  /\ s.pc \in {"idle", "run", "sync"} => \A n \in DOMAIN parents : ~LinkOf(c, parents[n])
  /\ s.pc = "link" =>
       /\ \A n \in DOMAIN s.todo : LinkOf(c, s.todo[n])
       /\ \A n \in DOMAIN parents : LinkOf(c, parents[n]) => parents[n] \in s.known
       /\ \A key \in s.known : \E n \in DOMAIN parents : parents[n] = key
       /\ \A key \in mine : (\E n \in DOMAIN s.todo : s.todo[n] = key)
                              \/ \E n \in DOMAIN parents : parents[n] = key
  /\ s.pc \in {"store", "done"} =>
       \A key \in mine : \E n \in DOMAIN parents : parents[n] = key

\* A merge is of children whose links are done.
OfLinked(m, sessions) ==
  /\ m \in Artifacts!Merge
  /\ \A n \in DOMAIN m.merges : sessions[m.merges[n]].pc \in {"store", "done"}

\* A child's own rows are of its own files.
OwnRows(own) ==
  \A c \in Delegates : \A n \in DOMAIN own[c] : ~own[c][n].linked /\ own[c][n].file.of = c

\* The parent links no artifact twice.
LinksOnce(parents) ==
  \A m, n \in DOMAIN parents : parents[m].linked /\ parents[m] = parents[n] => m = n

\* The parent's own rows are of reports that have been written, of linked children.
ReportsWritten(parents, files, sessions) ==
  /\ \A n \in DOMAIN parents : ~parents[n].linked =>
       parents[n].file.kind \in {"merge", "review"} /\ files[parents[n].file] # None
  /\ \A f \in Artifacts!Files :
       f.kind \in {"merge", "review"} /\ files[f] # None => OfLinked(files[f], sessions)

\* A session has a merge where it needs one, of linked children, as the result is.
Holding(t, s, sessions) ==
  /\ s.prior # None => OfLinked(s.prior, sessions)
  /\ s.merge # None => OfLinked(s.merge, sessions)
  /\ s.pc \in {"build", "record", "store"} => s.merge # None
  /\ t = Artifacts!Parent => s.pc \in {"idle", "build", "record"}

ArtifactsInv ==
  /\ Artifacts!TypeOK
  /\ OwnRows(artifacts)
  /\ LinksOnce(artifacts[Artifacts!Parent])
  /\ \A c \in Delegates :
       Linked(c, sync[c], Artifacts!Linking(c), artifacts[Artifacts!Parent])
  /\ ReportsWritten(artifacts[Artifacts!Parent], file, sync)
  /\ outcome # None => OfLinked(outcome, sync)
  /\ \A t \in Artifacts!Tasks : Holding(t, sync[t], sync)

\* What TypeOK says.
LEMMA ArtifactsTyped ==
  ASSUME ArtifactsInv
  PROVE  /\ artifacts \in [Artifacts!Tasks -> Seq(Artifacts!Key)]
         /\ sync \in [Artifacts!Tasks -> Artifacts!Sync]
         /\ outcome \in Artifacts!Merge \cup {None}
         /\ kid \in [Delegates -> [status: {"running", "completed", "failed"},
                                   attempts: 1 .. Attempts]]
         /\ DOMAIN file = Artifacts!Files
         /\ Delegates \in SUBSET Artifacts!Tasks /\ Artifacts!Parent \in Artifacts!Tasks
BY DEF ArtifactsInv, Artifacts!TypeOK, Artifacts!Tasks

\* An idle session has its type.
LEMMA ArtifactsIdle ==
  /\ Artifacts!Idle \in Artifacts!Sync
  /\ Artifacts!Idle.pc = "idle" /\ Artifacts!Idle.prior = None /\ Artifacts!Idle.merge = None
BY EmptySeq DEF Artifacts!Idle, Artifacts!Sync

\* A session goes on; the links that were done are still done.
LEMMA ArtifactsSession ==
  ASSUME ArtifactsInv, NEW t \in Artifacts!Tasks, NEW r \in Artifacts!Sync,
         sync' = [sync EXCEPT ![t] = r],
         sync[t].pc \in {"store", "done"} => r.pc \in {"store", "done"}
  PROVE  /\ sync' \in [Artifacts!Tasks -> Artifacts!Sync]
         /\ sync'[t] = r /\ \A u \in Artifacts!Tasks \ {t} : sync'[u] = sync[u]
         /\ \A m : OfLinked(m, sync) => OfLinked(m, sync')
         /\ Holding(t, r, sync') => \A u \in Artifacts!Tasks : Holding(u, sync'[u], sync')
<1>1. /\ sync' \in [Artifacts!Tasks -> Artifacts!Sync]
      /\ sync'[t] = r /\ \A u \in Artifacts!Tasks \ {t} : sync'[u] = sync[u]
  BY ArtifactsTyped
<1>2. ASSUME NEW m, OfLinked(m, sync) PROVE OfLinked(m, sync')
  <2>1. m.merges \in Seq(Delegates)
    BY <1>2 DEF OfLinked, Artifacts!Merge
  <2>2. \A n \in DOMAIN m.merges : m.merges[n] \in Artifacts!Tasks
    BY <2>1, ArtifactsTyped
  <2> QED BY <1>1, <1>2, <2>2 DEF OfLinked
<1>3. ASSUME Holding(t, r, sync'), NEW u \in Artifacts!Tasks PROVE Holding(u, sync'[u], sync')
  <2>1. CASE u = t
    BY <1>1, <1>3, <2>1
  <2>2. CASE u # t
    <3>1. Holding(u, sync[u], sync)
      BY DEF ArtifactsInv
    <3>2. sync'[u] = sync[u]
      BY <1>1, <2>2
    <3> QED BY <1>2, <3>1, <3>2 DEF Holding
  <2> QED BY <2>1, <2>2
<1> QED BY <1>1, <1>2, <1>3

\* A step that adds no row and writes no file.
LEMMA ArtifactsQuiet ==
  ASSUME ArtifactsInv, NEW t \in Artifacts!Tasks, NEW r \in Artifacts!Sync,
         sync' = [sync EXCEPT ![t] = r],
         sync[t].pc \in {"store", "done"} => r.pc \in {"store", "done"},
         UNCHANGED <<file, artifacts>>,
         kid' \in [Delegates -> [status: {"running", "completed", "failed"},
                                 attempts: 1 .. Attempts]],
         outcome' \in Artifacts!Merge \cup {None},
         outcome' # None => OfLinked(outcome', sync'),
         Holding(t, r, sync'),
         t \in Delegates => Linked(t, r, Artifacts!Linking(t), artifacts[Artifacts!Parent])
  PROVE  ArtifactsInv'
<1>1. /\ sync' \in [Artifacts!Tasks -> Artifacts!Sync]
      /\ sync'[t] = r /\ \A u \in Artifacts!Tasks \ {t} : sync'[u] = sync[u]
      /\ \A m : OfLinked(m, sync) => OfLinked(m, sync')
      /\ \A u \in Artifacts!Tasks : Holding(u, sync'[u], sync')
  BY ArtifactsSession
<1>2. Artifacts!TypeOK'
  BY <1>1 DEF ArtifactsInv, Artifacts!TypeOK
<1>3. \A c : Artifacts!Linking(c)' = Artifacts!Linking(c)
  BY DEF Artifacts!Linking
<1>4. \A c \in Delegates : Linked(c, sync'[c], Artifacts!Linking(c), artifacts[Artifacts!Parent])
  BY <1>1, ArtifactsTyped DEF ArtifactsInv
<1>5. ReportsWritten(artifacts[Artifacts!Parent], file, sync')
  BY <1>1 DEF ArtifactsInv, ReportsWritten
<1>6. OwnRows(artifacts) /\ LinksOnce(artifacts[Artifacts!Parent])
  BY DEF ArtifactsInv
<1> QED BY <1>1, <1>2, <1>3, <1>4, <1>5, <1>6 DEF ArtifactsInv

\* The reports that are read, and what is loaded, are merges of linked children.
LEMMA ArtifactsLoaded ==
  ASSUME ArtifactsInv
  PROVE  /\ \A m \in Artifacts!Reports : OfLinked(m, sync)
         /\ \A m \in Artifacts!Loaded : OfLinked(m, sync)
<1>1. ASSUME NEW m \in Artifacts!Reports PROVE OfLinked(m, sync)
  <2>1. PICK n \in DOMAIN artifacts[Artifacts!Parent] :
          ~artifacts[Artifacts!Parent][n].linked /\ m = file[artifacts[Artifacts!Parent][n].file]
    BY DEF Artifacts!Reports, Artifacts!ToSet
  <2>2. artifacts[Artifacts!Parent][n] \in Artifacts!Key
    BY ArtifactsTyped
  <2>3. artifacts[Artifacts!Parent][n].file \in Artifacts!Files
    BY <2>2 DEF Artifacts!Key
  <2> QED BY <2>1, <2>3 DEF ArtifactsInv, ReportsWritten
<1>2. \A m \in Artifacts!Loaded : m \in Artifacts!Reports \/ (outcome # None /\ m = outcome)
  BY DEF Artifacts!Loaded
<1> QED BY <1>1, <1>2 DEF ArtifactsInv

\* What is built of merges and links is a merge.
LEMMA ArtifactsBuilt ==
  ASSUME NEW kids \in Seq(Delegates), NEW links \in Seq(Nat)
  PROVE  /\ Artifacts!Built(kids, links) \in Artifacts!Merge
         /\ Artifacts!Built(kids, links).merges = kids
         /\ Artifacts!Built(kids, links) # None
<1> DEFINE of(st) == {k \in Delegates : kid[k].status = st}
<1>1. ASSUME NEW st PROVE Artifacts!Cardinality(of(st)) \in Nat
  <2>1. Artifacts!Cardinality(of(st)) = Cardinality(of(st))
    BY DEF Artifacts!Cardinality, Artifacts!IsFiniteSet, Cardinality, IsFiniteSet
  <2>2. IsFiniteSet(Delegates) /\ of(st) \in SUBSET Delegates
    BY DelegatesAssumption
  <2> HIDE DEF of
  <2> QED BY <2>1, <2>2, FS_Subset, FS_CardinalityType
<1>2. Artifacts!Built(kids, links) =
        [merges |-> kids, completed |-> Artifacts!Cardinality(of("completed")),
         active |-> Artifacts!Cardinality(of("running")), linked |-> links]
  BY DEF Artifacts!Built
<1> HIDE DEF of
<1>3. Artifacts!Built(kids, links) \in Artifacts!Merge /\ Artifacts!Built(kids, links).merges = kids
  BY <1>1, <1>2 DEF Artifacts!Merge
<1> QED BY <1>3, RowsAssumption

\* Steps that read: a failed child is resumed, and what is loaded, rebuilt or built
\* is of linked children.
LEMMA ArtifactsReads ==
  ASSUME ArtifactsInv
  PROVE  /\ \A c \in Delegates : Artifacts!Resume(c) => ArtifactsInv'
         /\ \A c \in Delegates : Artifacts!Store(c) => ArtifactsInv'
         /\ Artifacts!Overwrite => ArtifactsInv'
         /\ Artifacts!Refresh => ArtifactsInv'
         /\ Artifacts!Rebuild => ArtifactsInv'
<1> DEFINE P == Artifacts!Parent
<1>1. /\ sync \in [Artifacts!Tasks -> Artifacts!Sync]
      /\ \A c \in Delegates : c \in Artifacts!Tasks
      /\ P \in Artifacts!Tasks /\ P \notin Delegates
  BY ArtifactsTyped, RowsAssumption
<1>2. ASSUME NEW c \in Delegates, Artifacts!Resume(c) PROVE ArtifactsInv'
  <2> DEFINE r == [sync[c] EXCEPT !.pc = "run"]
  <2>1. sync[c] \in Artifacts!Sync /\ sync[c].pc = "idle"
    BY <1>1, <1>2 DEF Artifacts!Resume
  <2>2. /\ r \in Artifacts!Sync /\ r.pc = "run"
        /\ r.prior = sync[c].prior /\ r.merge = sync[c].merge
    BY <2>1 DEF Artifacts!Sync
  <2>3. sync' = [sync EXCEPT ![c] = r] /\ UNCHANGED <<file, artifacts, outcome>>
    BY <1>1, <1>2 DEF Artifacts!Resume
  <2>4. kid' \in [Delegates -> [status: {"running", "completed", "failed"},
                                attempts: 1 .. Attempts]]
    <3>1. /\ kid \in [Delegates -> [status: {"running", "completed", "failed"},
                                    attempts: 1 .. Attempts]]
          /\ kid[c].attempts \in 1 .. Attempts /\ kid[c].attempts < Attempts
      BY <1>2, ArtifactsTyped DEF Artifacts!Resume
    <3>2. kid' = [kid EXCEPT ![c] = [status |-> "running", attempts |-> kid[c].attempts + 1]]
      BY <1>2 DEF Artifacts!Resume
    <3>3. kid[c].attempts + 1 \in 1 .. Attempts
      BY <3>1, DelegatesAssumption
    <3> QED BY <3>1, <3>2, <3>3
  <2> HIDE DEF r
  <2>5. \A m : OfLinked(m, sync) => OfLinked(m, sync')
    BY <1>1, <2>1, <2>2, <2>3, ArtifactsSession
  <2>6. Holding(c, sync[c], sync) /\ outcome' \in Artifacts!Merge \cup {None}
        /\ (outcome' # None => OfLinked(outcome', sync'))
    BY <1>1, <2>3, <2>5, ArtifactsTyped DEF ArtifactsInv
  <2>7. Holding(c, r, sync')
    BY <1>1, <2>2, <2>5, <2>6 DEF Holding
  <2>8. Linked(c, r, Artifacts!Linking(c), artifacts[P])
    BY <2>1, <2>2 DEF ArtifactsInv, Linked
  <2> QED BY <1>1, <2>1, <2>2, <2>3, <2>4, <2>6, <2>7, <2>8, ArtifactsQuiet
<1>3. ASSUME NEW c \in Delegates, Artifacts!Store(c) PROVE ArtifactsInv'
  <2> DEFINE r == [Artifacts!Idle EXCEPT !.pc = "done"]
  <2>1. sync[c] \in Artifacts!Sync /\ sync[c].pc = "store"
    BY <1>1, <1>3 DEF Artifacts!Store
  <2>2. r \in Artifacts!Sync /\ r.pc = "done" /\ r.prior = None /\ r.merge = None
    BY ArtifactsIdle DEF Artifacts!Sync
  <2>3. /\ sync' = [sync EXCEPT ![c] = r] /\ UNCHANGED <<file, artifacts, kid>>
        /\ outcome' = sync[c].merge
    BY <1>3 DEF Artifacts!Store
  <2> HIDE DEF r
  <2>4. \A m : OfLinked(m, sync) => OfLinked(m, sync')
    BY <1>1, <2>1, <2>2, <2>3, ArtifactsSession
  <2>5. OfLinked(sync[c].merge, sync)
    BY <1>1, <2>1 DEF ArtifactsInv, Holding
  <2>6. outcome' \in Artifacts!Merge \cup {None} /\ OfLinked(outcome', sync')
    BY <2>3, <2>4, <2>5 DEF OfLinked
  <2>7. Holding(c, r, sync')
    BY <1>1, <2>2 DEF Holding
  <2>8. Linked(c, r, Artifacts!Linking(c), artifacts[P])
    BY <2>1, <2>2 DEF ArtifactsInv, Linked
  <2>9. kid' \in [Delegates -> [status: {"running", "completed", "failed"},
                                attempts: 1 .. Attempts]]
    BY <2>3, ArtifactsTyped
  <2> QED BY <1>1, <2>2, <2>3, <2>6, <2>7, <2>8, <2>9, ArtifactsQuiet
<1>4. ASSUME Artifacts!Overwrite PROVE ArtifactsInv'
  <2> DEFINE r == sync[P]
  <2>1. r \in Artifacts!Sync /\ Holding(P, r, sync)
    BY <1>1 DEF ArtifactsInv
  <2>2. /\ sync' = [sync EXCEPT ![P] = r] /\ UNCHANGED <<file, artifacts, kid>>
        /\ outcome' = None /\ sync' = sync
    BY <1>1, <1>4 DEF Artifacts!Overwrite
  <2>3. kid' \in [Delegates -> [status: {"running", "completed", "failed"},
                                attempts: 1 .. Attempts]]
    BY <2>2, ArtifactsTyped
  <2> QED BY <1>1, <2>1, <2>2, <2>3, ArtifactsQuiet
<1>5. ASSUME NEW r \in Artifacts!Sync, r.pc \in {"build", "record"}, r.merge # None,
             OfLinked(r.merge, sync), r.prior = sync[P].prior,
             sync' = [sync EXCEPT ![P] = r], UNCHANGED <<file, artifacts, kid>>,
             outcome' = outcome \/ outcome' = r.merge
      PROVE  ArtifactsInv'
  <2>1. sync[P].pc \in {"idle", "build", "record"} /\ Holding(P, sync[P], sync)
    BY <1>1 DEF ArtifactsInv, Holding
  <2>2. \A m : OfLinked(m, sync) => OfLinked(m, sync')
    BY <1>1, <1>5, <2>1, ArtifactsSession
  <2>3. OfLinked(r.merge, sync')
    BY <1>5, <2>2
  <2>4. Holding(P, r, sync')
    BY <1>5, <2>1, <2>2, <2>3 DEF Holding
  <2>5. outcome' \in Artifacts!Merge \cup {None} /\ (outcome' # None => OfLinked(outcome', sync'))
    BY <1>5, <2>2, <2>3, ArtifactsTyped DEF ArtifactsInv, OfLinked
  <2>6. kid' \in [Delegates -> [status: {"running", "completed", "failed"},
                                attempts: 1 .. Attempts]]
    BY <1>5, ArtifactsTyped
  <2> QED BY <1>1, <1>5, <2>1, <2>4, <2>5, <2>6, ArtifactsQuiet
<1>6. ASSUME Artifacts!Refresh PROVE ArtifactsInv'
  <2>1. PICK m \in Artifacts!Loaded :
          sync' = [sync EXCEPT ![P] = [sync[P] EXCEPT !.pc = "build", !.merge = m]]
    BY <1>6 DEF Artifacts!Refresh
  <2> DEFINE r == [sync[P] EXCEPT !.pc = "build", !.merge = m]
  <2>2. OfLinked(m, sync) /\ m \in Artifacts!Merge /\ m # None
    BY ArtifactsLoaded, RowsAssumption DEF OfLinked
  <2>3. sync[P] \in Artifacts!Sync
    BY <1>1
  <2>4. r \in Artifacts!Sync /\ r.pc = "build" /\ r.merge = m /\ r.prior = sync[P].prior
    BY <2>2, <2>3 DEF Artifacts!Sync
  <2>5. UNCHANGED <<file, artifacts, kid, outcome>>
    BY <1>6 DEF Artifacts!Refresh
  <2>6. sync' = [sync EXCEPT ![P] = r]
    BY <2>1
  <2> HIDE DEF r, P
  <2> QED BY <1>5, <2>2, <2>4, <2>5, <2>6
<1>7. ASSUME Artifacts!Rebuild PROVE ArtifactsInv'
  <2> DEFINE old == sync[P].merge
             m == Artifacts!Built(old.merges, old.linked)
             r == [sync[P] EXCEPT !.pc = "record", !.merge = m]
  <2>1. OfLinked(old, sync)
    BY <1>1, <1>7 DEF ArtifactsInv, Holding, Artifacts!Rebuild
  <2>2. old.merges \in Seq(Delegates) /\ old.linked \in Seq(Nat)
    BY <2>1 DEF OfLinked, Artifacts!Merge
  <2>3. sync' = [sync EXCEPT ![P] = r] /\ outcome' = m /\ UNCHANGED <<file, artifacts, kid>>
    BY <1>7 DEF Artifacts!Rebuild
  <2> HIDE DEF m
  <2>4. m \in Artifacts!Merge /\ m.merges = old.merges /\ m # None
    BY <2>2, ArtifactsBuilt DEF m
  <2>5. OfLinked(m, sync)
    BY <2>1, <2>4 DEF OfLinked
  <2>6. sync[P] \in Artifacts!Sync
    BY <1>1
  <2>7. r \in Artifacts!Sync /\ r.pc = "record" /\ r.merge = m /\ r.prior = sync[P].prior
    BY <2>4, <2>6 DEF Artifacts!Sync
  <2> HIDE DEF r, P
  <2> QED BY <1>5, <2>3, <2>4, <2>5, <2>7
<1> QED BY <1>2, <1>3, <1>4, <1>6, <1>7

\* The first rows of a child, and their links.
LEMMA ArtifactsFirst ==
  ASSUME ArtifactsInv, NEW t \in Artifacts!Tasks, NEW k \in Nat
  PROVE  /\ DOMAIN Artifacts!First(artifacts[t], k) \in SUBSET DOMAIN artifacts[t]
         /\ \E n \in Nat : DOMAIN Artifacts!First(artifacts[t], k) = 1 .. n
         /\ \A n \in DOMAIN Artifacts!First(artifacts[t], k) :
              Artifacts!First(artifacts[t], k)[n] = artifacts[t][n]
<1> DEFINE s == artifacts[t]
           m == IF Len(s) < k THEN Len(s) ELSE k
<1>1. s \in Seq(Artifacts!Key)
  BY ArtifactsTyped
<1>2. Len(s) \in Nat /\ m \in Nat /\ m <= Len(s) /\ DOMAIN s = 1 .. Len(s)
  BY <1>1
<1>3. Artifacts!First(s, k) = SubSeq(s, 1, m)
  BY DEF Artifacts!First
<1> HIDE DEF s, m
<1>4. SubSeq(s, 1, m) = [n \in 1 .. m |-> s[n]]
  BY <1>1, <1>2
<1> QED BY <1>2, <1>3, <1>4 DEF s

\* A link begins, with all the child's rows still to do, and knowing the parent's.
LEMMA ArtifactsStart ==
  ASSUME ArtifactsInv, NEW c \in Delegates, Artifacts!StartLink(c)
  PROVE  ArtifactsInv'
<1> DEFINE P == Artifacts!Parent
           firsts == Artifacts!First(artifacts[c], LinkPage)
           todo == [n \in DOMAIN firsts |-> [artifacts[c][n] EXCEPT !.linked = TRUE]]
           known == Artifacts!ToSet(Artifacts!First(artifacts[P], 2 * LinkPage))
           r == [sync[c] EXCEPT !.pc = "link", !.prior = outcome, !.todo = todo, !.known = known]
<1>1. /\ c \in Artifacts!Tasks /\ P \in Artifacts!Tasks /\ P \notin Delegates
      /\ sync[c] \in Artifacts!Sync /\ sync[c].pc = "sync"
      /\ artifacts[c] \in Seq(Artifacts!Key) /\ artifacts[P] \in Seq(Artifacts!Key)
      /\ outcome \in Artifacts!Merge \cup {None}
      /\ LinkPage \in Nat /\ 2 * LinkPage \in Nat
  BY ArtifactsTyped, RowsAssumption, PageAssumption DEF Artifacts!StartLink
<1>2. sync' = [sync EXCEPT ![c] = r] /\ UNCHANGED <<file, artifacts, outcome, kid>>
  BY DEF Artifacts!StartLink
<1>3. /\ DOMAIN firsts \in SUBSET DOMAIN artifacts[c] /\ \E n \in Nat : DOMAIN firsts = 1 .. n
      /\ \A n \in DOMAIN firsts : firsts[n] = artifacts[c][n]
  BY <1>1, ArtifactsFirst
<1>4. \A key \in known : key \in Artifacts!Key /\ \E n \in DOMAIN artifacts[P] : artifacts[P][n] = key
  <2> DEFINE seen == Artifacts!First(artifacts[P], 2 * LinkPage)
  <2>1. /\ DOMAIN seen \in SUBSET DOMAIN artifacts[P]
        /\ \A n \in DOMAIN seen : seen[n] = artifacts[P][n]
    BY <1>1, ArtifactsFirst
  <2>2. \A key \in known : \E n \in DOMAIN seen : seen[n] = key
    BY DEF Artifacts!ToSet
  <2> HIDE DEF seen, known
  <2> QED BY <1>1, <2>1, <2>2
<1>5. ASSUME NEW n \in DOMAIN firsts
      PROVE  todo[n] \in Artifacts!Key /\ todo[n] = [artifacts[c][n] EXCEPT !.linked = TRUE]
               /\ LinkOf(c, todo[n])
  <2>1. artifacts[c][n] \in Artifacts!Key /\ artifacts[c][n].file.of = c
    BY <1>1, <1>3 DEF ArtifactsInv, OwnRows
  <2>2. todo[n] = [artifacts[c][n] EXCEPT !.linked = TRUE]
    OBVIOUS
  <2> HIDE DEF todo, firsts
  <2> QED BY <2>1, <2>2 DEF Artifacts!Key, LinkOf
<1>6. todo \in Seq(Artifacts!Key) /\ DOMAIN todo = DOMAIN firsts
  <2> HIDE DEF firsts
  <2>1. PICK m \in Nat : DOMAIN firsts = 1 .. m
    BY <1>3
  <2>2. todo \in [1 .. m -> Artifacts!Key]
    BY <1>5, <2>1
  <2> QED BY <2>1, <2>2
<1>7. \A key \in Artifacts!Linking(c) : \E n \in DOMAIN todo : todo[n] = key
  <2> SUFFICES ASSUME NEW key \in Artifacts!Linking(c) PROVE \E n \in DOMAIN todo : todo[n] = key
    OBVIOUS
  <2>1. PICK n \in DOMAIN firsts : key = [firsts[n] EXCEPT !.linked = TRUE]
    BY DEF Artifacts!Linking, Artifacts!ToSet
  <2> HIDE DEF firsts
  <2> QED BY <1>3, <1>6, <2>1
<1> HIDE DEF todo, known, firsts
<1>8. /\ r \in Artifacts!Sync /\ r.pc = "link" /\ r.prior = outcome /\ r.merge = sync[c].merge
      /\ r.todo = todo /\ r.known = known
  BY <1>1, <1>4, <1>6 DEF Artifacts!Sync
<1> HIDE DEF r
<1>9. \A m : OfLinked(m, sync) => OfLinked(m, sync')
  BY <1>1, <1>2, <1>8, ArtifactsSession
<1>10. outcome' \in Artifacts!Merge \cup {None} /\ (outcome' # None => OfLinked(outcome', sync'))
  BY <1>1, <1>2, <1>9 DEF ArtifactsInv
<1>11. Holding(c, r, sync')
  <2>1. Holding(c, sync[c], sync)
    BY <1>1 DEF ArtifactsInv
  <2> QED BY <1>1, <1>2, <1>8, <1>9, <1>10, <2>1 DEF Holding
<1>12. Linked(c, r, Artifacts!Linking(c), artifacts[P])
  <2>1. \A n \in DOMAIN artifacts[P] : ~LinkOf(c, artifacts[P][n])
    BY <1>1 DEF ArtifactsInv, Linked
  <2> QED BY <1>4, <1>5, <1>6, <1>7, <1>8, <2>1 DEF Linked
<1>13. kid' \in [Delegates -> [status: {"running", "completed", "failed"},
                               attempts: 1 .. Attempts]]
  BY <1>2, ArtifactsTyped
<1> QED BY <1>1, <1>2, <1>8, <1>10, <1>11, <1>12, <1>13, ArtifactsQuiet

\* A row is added to the parent's, and perhaps its file written.
Added(row) ==
  artifacts' = [artifacts EXCEPT ![Artifacts!Parent] = Append(artifacts[Artifacts!Parent], row)]

Filed(row, m) == file' = [file EXCEPT ![row.file] = m]

\* What a row that is added to the parent's leaves as it was.
LEMMA ArtifactsAppended ==
  ASSUME ArtifactsInv, NEW row \in Artifacts!Key, Added(row)
  PROVE  /\ artifacts' \in [Artifacts!Tasks -> Seq(Artifacts!Key)]
         /\ \A c \in Delegates : artifacts'[c] = artifacts[c]
         /\ \A c \in Delegates : Artifacts!Linking(c)' = Artifacts!Linking(c)
         /\ \A n \in DOMAIN artifacts[Artifacts!Parent] :
              /\ n \in DOMAIN artifacts'[Artifacts!Parent]
              /\ artifacts'[Artifacts!Parent][n] = artifacts[Artifacts!Parent][n]
         /\ \E last \in DOMAIN artifacts'[Artifacts!Parent] :
              /\ artifacts'[Artifacts!Parent][last] = row
              /\ DOMAIN artifacts'[Artifacts!Parent]
                   = DOMAIN artifacts[Artifacts!Parent] \cup {last}
<1> DEFINE P == Artifacts!Parent
           old == artifacts[P]
           new == Append(old, row)
<1>1. P \in Artifacts!Tasks /\ P \notin Delegates /\ Delegates \in SUBSET Artifacts!Tasks
  BY ArtifactsTyped, RowsAssumption
<1>2. old \in Seq(Artifacts!Key)
  BY <1>1, ArtifactsTyped
<1>3. /\ new \in Seq(Artifacts!Key) /\ Len(old) \in Nat
      /\ DOMAIN old = 1 .. Len(old) /\ DOMAIN new = 1 .. Len(old) + 1
      /\ \A n \in DOMAIN old : new[n] = old[n]
      /\ new[Len(old) + 1] = row
  BY <1>2
<1>4. /\ artifacts' \in [Artifacts!Tasks -> Seq(Artifacts!Key)]
      /\ artifacts'[P] = new
      /\ \A c \in Delegates : artifacts'[c] = artifacts[c]
  BY <1>1, <1>3, ArtifactsTyped DEF Added
<1>5. \A c \in Delegates : Artifacts!Linking(c)' = Artifacts!Linking(c)
  BY <1>4 DEF Artifacts!Linking
<1> HIDE DEF old, new
<1>6. \A n \in DOMAIN old : n \in DOMAIN new /\ new[n] = old[n]
  BY <1>3
<1>7. \E last \in DOMAIN new : new[last] = row /\ DOMAIN new = DOMAIN old \cup {last}
  <2>1. Len(old) + 1 \in DOMAIN new /\ DOMAIN new = DOMAIN old \cup {Len(old) + 1}
    BY <1>3
  <2> QED BY <1>3, <2>1
<1> QED BY <1>4, <1>5, <1>6, <1>7 DEF old

\* What the sessions of other children know is so when a row is added that is not
\* theirs.
LEMMA LinkedAppended ==
  ASSUME NEW c, NEW s, NEW mine, NEW old, NEW new, NEW row, NEW last,
         Linked(c, s, mine, old), ~LinkOf(c, row),
         \A n \in DOMAIN old : n \in DOMAIN new /\ new[n] = old[n],
         DOMAIN new = DOMAIN old \cup {last}, new[last] = row
  PROVE  Linked(c, s, mine, new)
BY DEF Linked

\* An artifact is skipped, if its key is known, or linked: the first time it is.
LEMMA ArtifactsLink ==
  ASSUME ArtifactsInv, NEW c \in Delegates, Artifacts!Link(c)
  PROVE  ArtifactsInv'
<1> DEFINE P == Artifacts!Parent
           s == sync[c]
           key == Head(s.todo)
           rest == Tail(s.todo)
<1>1. /\ c \in Artifacts!Tasks /\ P \in Artifacts!Tasks /\ P \notin Delegates
      /\ s \in Artifacts!Sync /\ s.pc = "link" /\ s.todo # <<>>
      /\ artifacts[P] \in Seq(Artifacts!Key)
      /\ UNCHANGED <<kid, file, outcome>>
  BY ArtifactsTyped, RowsAssumption DEF Artifacts!Link
<1>2. /\ s.todo \in Seq(Artifacts!Key) /\ s.known \in SUBSET Artifacts!Key
      /\ s.linked \in Seq(Nat) /\ s.added \in Seq(Nat)
  BY <1>1 DEF Artifacts!Sync
<1>3. /\ key \in Artifacts!Key /\ rest \in Seq(Artifacts!Key)
      /\ \A n \in DOMAIN rest : n + 1 \in DOMAIN s.todo /\ rest[n] = s.todo[n + 1]
      /\ 1 \in DOMAIN s.todo /\ key = s.todo[1]
      /\ \A n \in DOMAIN s.todo : n = 1 \/ \E m \in DOMAIN rest : n = m + 1
  <2>1. /\ Len(s.todo) \in Nat \ {0} /\ DOMAIN s.todo = 1 .. Len(s.todo)
        /\ rest \in Seq(Artifacts!Key) /\ Len(rest) = Len(s.todo) - 1
        /\ key \in Artifacts!Key /\ key = s.todo[1]
        /\ \A n \in 1 .. Len(rest) : rest[n] = s.todo[n + 1]
    BY <1>1, <1>2, HeadTailProperties, EmptySeq
  <2>2. DOMAIN rest = 1 .. Len(rest)
    BY <2>1
  <2> HIDE DEF rest, key, s
  <2>3. \A n \in DOMAIN s.todo : n = 1 \/ (n - 1 \in DOMAIN rest /\ n = (n - 1) + 1)
    BY <2>1, <2>2
  <2> QED BY <2>1, <2>2, <2>3
<1>4. /\ \A n \in DOMAIN s.todo : LinkOf(c, s.todo[n])
      /\ \A n \in DOMAIN artifacts[P] : LinkOf(c, artifacts[P][n]) => artifacts[P][n] \in s.known
      /\ \A k \in s.known : \E n \in DOMAIN artifacts[P] : artifacts[P][n] = k
      /\ \A k \in Artifacts!Linking(c) : (\E n \in DOMAIN s.todo : s.todo[n] = k)
                                           \/ \E n \in DOMAIN artifacts[P] : artifacts[P][n] = k
  BY <1>1 DEF ArtifactsInv, Linked
<1>5. \A k : (\E n \in DOMAIN s.todo : s.todo[n] = k) => k = key \/ \E n \in DOMAIN rest : rest[n] = k
  <2> HIDE DEF rest, key, s
  <2> QED BY <1>3
<1>6. \A n \in DOMAIN rest : LinkOf(c, rest[n])
  <2> HIDE DEF rest, key, s
  <2> QED BY <1>3, <1>4
<1>7. LinkOf(c, key)
  BY <1>3, <1>4
<1>8. Holding(c, s, sync)
  BY <1>1 DEF ArtifactsInv
<1>9. CASE key \in s.known
  <2> DEFINE r == [s EXCEPT !.todo = rest]
  <2>1. sync' = [sync EXCEPT ![c] = r] /\ artifacts' = artifacts
    BY <1>1, <1>9, ArtifactsTyped DEF Artifacts!Link
  <2> HIDE DEF rest, key, s
  <2>2. /\ r \in Artifacts!Sync /\ r.pc = "link" /\ r.prior = s.prior /\ r.merge = s.merge
        /\ r.todo = rest /\ r.known = s.known
    BY <1>1, <1>3 DEF Artifacts!Sync
  <2> HIDE DEF r
  <2>3. \A m : OfLinked(m, sync) => OfLinked(m, sync')
    BY <1>1, <2>1, <2>2, ArtifactsSession DEF s
  <2>4. outcome' \in Artifacts!Merge \cup {None} /\ (outcome' # None => OfLinked(outcome', sync'))
    BY <1>1, <2>3, ArtifactsTyped DEF ArtifactsInv
  <2>5. Holding(c, r, sync')
    BY <1>1, <1>8, <2>2, <2>3 DEF Holding
  <2>6. Linked(c, r, Artifacts!Linking(c), artifacts[P])
    BY <1>4, <1>5, <1>6, <1>9, <2>2 DEF Linked
  <2>7. kid' \in [Delegates -> [status: {"running", "completed", "failed"},
                                attempts: 1 .. Attempts]]
    BY <1>1, ArtifactsTyped
  <2> QED BY <1>1, <2>1, <2>2, <2>4, <2>5, <2>6, <2>7, ArtifactsQuiet DEF s
<1>10. CASE key \notin s.known
  <2> DEFINE r == [s EXCEPT !.todo = rest, !.known = s.known \cup {key},
                           !.linked = Append(s.linked, Artifacts!Returned(P)),
                           !.added = Append(s.added, Len(artifacts[P]) + 1)]
  <2>1. /\ sync' = [sync EXCEPT ![c] = r]
        /\ Added(key)
    BY <1>1, <1>10 DEF Artifacts!Link, Added
  <2> HIDE DEF rest, key
  <2>2. /\ r \in Artifacts!Sync /\ r.pc = "link" /\ r.prior = s.prior /\ r.merge = s.merge
        /\ r.todo = rest /\ r.known = s.known \cup {key}
    <3>1. Append(s.linked, Artifacts!Returned(P)) \in Seq(Nat)
      BY <1>2 DEF Artifacts!Returned
    <3>2. Len(artifacts[P]) + 1 \in Nat
      BY <1>1
    <3>3. Append(s.added, Len(artifacts[P]) + 1) \in Seq(Nat)
      BY <1>2, <3>2
    <3>4. s.known \cup {key} \in SUBSET Artifacts!Key
      BY <1>2, <1>3
    <3> HIDE DEF s
    <3> QED BY <1>1, <1>3, <3>1, <3>3, <3>4 DEF Artifacts!Sync
  <2> HIDE DEF r
  <2>3. /\ sync' \in [Artifacts!Tasks -> Artifacts!Sync]
        /\ sync'[c] = r /\ \A u \in Artifacts!Tasks \ {c} : sync'[u] = sync[u]
        /\ \A m : OfLinked(m, sync) => OfLinked(m, sync')
        /\ Holding(c, r, sync') => \A u \in Artifacts!Tasks : Holding(u, sync'[u], sync')
    BY <1>1, <2>1, <2>2, ArtifactsSession
  <2>4. Holding(c, r, sync')
    BY <1>1, <1>8, <2>2, <2>3 DEF Holding
  <2>5. /\ artifacts' \in [Artifacts!Tasks -> Seq(Artifacts!Key)]
        /\ \A d \in Delegates : artifacts'[d] = artifacts[d]
        /\ \A d \in Delegates : Artifacts!Linking(d)' = Artifacts!Linking(d)
        /\ \A n \in DOMAIN artifacts[P] : n \in DOMAIN artifacts'[P] /\ artifacts'[P][n] = artifacts[P][n]
    BY <1>3, <2>1, ArtifactsAppended
  <2>6. PICK last \in DOMAIN artifacts'[P] :
          artifacts'[P][last] = key /\ DOMAIN artifacts'[P] = DOMAIN artifacts[P] \cup {last}
    BY <1>3, <2>1, ArtifactsAppended
  <2>7. Artifacts!TypeOK'
    BY <1>1, <2>3, <2>5 DEF ArtifactsInv, Artifacts!TypeOK
  <2>8. OwnRows(artifacts')
    BY <2>5 DEF ArtifactsInv, OwnRows
  <2>9. LinksOnce(artifacts'[P])
    <3>1. \A n \in DOMAIN artifacts[P] : artifacts[P][n] # key
      BY <1>4, <1>7, <1>10
    <3> QED BY <2>5, <2>6, <3>1 DEF ArtifactsInv, LinksOnce
  <2>10. ASSUME NEW d \in Delegates
         PROVE  Linked(d, sync'[d], Artifacts!Linking(d), artifacts'[P])
    <3>1. CASE d = c
      <4> HIDE DEF s, P
      <4>a. \A n \in DOMAIN artifacts'[P] : n = last \/ artifacts'[P][n] = artifacts[P][n]
        BY <2>5, <2>6
      <4>b. \A n \in DOMAIN artifacts'[P] : LinkOf(c, artifacts'[P][n]) => artifacts'[P][n] \in r.known
        BY <1>4, <2>2, <2>6, <4>a
      <4>c. \A k \in r.known : \E n \in DOMAIN artifacts'[P] : artifacts'[P][n] = k
        BY <1>4, <2>2, <2>5, <2>6
      <4>d. \A k \in Artifacts!Linking(c) : (\E n \in DOMAIN rest : rest[n] = k)
                                               \/ \E n \in DOMAIN artifacts'[P] : artifacts'[P][n] = k
        BY <1>4, <1>5, <2>5, <2>6
      <4>1. Linked(c, r, Artifacts!Linking(c), artifacts'[P])
        BY <1>6, <2>2, <4>b, <4>c, <4>d DEF Linked
      <4> QED BY <2>3, <3>1, <4>1
    <3>2. CASE d # c
      <4>1. ~LinkOf(d, key)
        BY <1>7, <3>2 DEF LinkOf
      <4>2. sync'[d] = sync[d]
        BY <2>3, <3>2, ArtifactsTyped
      <4>3. Linked(d, sync[d], Artifacts!Linking(d), artifacts[P])
        BY DEF ArtifactsInv
      <4> HIDE DEF P, s
      <4>4. Linked(d, sync[d], Artifacts!Linking(d), artifacts'[P])
        BY <2>5, <2>6, <4>1, <4>3, LinkedAppended
      <4> QED BY <4>2, <4>4
    <3> QED BY <3>1, <3>2
  <2>11. ReportsWritten(artifacts'[P], file', sync')
    <3>1. ReportsWritten(artifacts[P], file, sync)
      BY DEF ArtifactsInv
    <3>2. key.linked
      BY <1>7 DEF LinkOf
    <3> HIDE DEF P, s
    <3> QED BY <1>1, <2>3, <2>5, <2>6, <3>1, <3>2 DEF ReportsWritten
  <2>12. outcome' # None => OfLinked(outcome', sync')
    BY <1>1, <2>3 DEF ArtifactsInv
  <2>13. \A d \in Delegates : Linked(d, sync[d], Artifacts!Linking(d), artifacts[P])'
    BY <2>5, <2>10
  <2> QED BY <2>3, <2>4, <2>7, <2>8, <2>9, <2>11, <2>12, <2>13 DEF ArtifactsInv
<1> QED BY <1>9, <1>10

\* A report is written, of linked children, and its row added to the parent's.
LEMMA ArtifactsReported ==
  ASSUME ArtifactsInv, NEW t \in Artifacts!Tasks, NEW r \in Artifacts!Sync,
         sync' = [sync EXCEPT ![t] = r],
         sync[t].pc \in {"store", "done"} => r.pc \in {"store", "done"},
         Holding(t, r, sync'),
         t \in Delegates => Linked(t, r, Artifacts!Linking(t), artifacts[Artifacts!Parent]),
         UNCHANGED <<kid, outcome>>,
         NEW row \in Artifacts!Key, ~row.linked, row.file.kind \in {"merge", "review"},
         Added(row), NEW m, m # None, OfLinked(m, sync'), Filed(row, m)
  PROVE  ArtifactsInv'
<1> DEFINE P == Artifacts!Parent
<1>1. /\ sync' \in [Artifacts!Tasks -> Artifacts!Sync]
      /\ sync'[t] = r /\ \A u \in Artifacts!Tasks \ {t} : sync'[u] = sync[u]
      /\ \A k : OfLinked(k, sync) => OfLinked(k, sync')
      /\ \A u \in Artifacts!Tasks : Holding(u, sync'[u], sync')
  BY ArtifactsSession
<1>2. /\ artifacts' \in [Artifacts!Tasks -> Seq(Artifacts!Key)]
      /\ \A c \in Delegates : artifacts'[c] = artifacts[c]
      /\ \A c \in Delegates : Artifacts!Linking(c)' = Artifacts!Linking(c)
      /\ \A n \in DOMAIN artifacts[P] : n \in DOMAIN artifacts'[P] /\ artifacts'[P][n] = artifacts[P][n]
  BY ArtifactsAppended
<1>3. PICK last \in DOMAIN artifacts'[P] :
        artifacts'[P][last] = row /\ DOMAIN artifacts'[P] = DOMAIN artifacts[P] \cup {last}
  BY ArtifactsAppended
<1>4. /\ row.file \in Artifacts!Files /\ DOMAIN file = Artifacts!Files
      /\ DOMAIN file' = Artifacts!Files /\ file'[row.file] = m
      /\ \A f \in Artifacts!Files \ {row.file} : file'[f] = file[f]
  <2>1. row.file \in Artifacts!Files /\ DOMAIN file = Artifacts!Files
    BY ArtifactsTyped DEF Artifacts!Key
  <2> QED BY <2>1 DEF Filed
<1>5. Artifacts!TypeOK'
  BY <1>1, <1>2, <1>4 DEF ArtifactsInv, Artifacts!TypeOK
<1>6. OwnRows(artifacts')
  BY <1>2 DEF ArtifactsInv, OwnRows
<1>7. LinksOnce(artifacts'[P])
  BY <1>2, <1>3 DEF ArtifactsInv, LinksOnce
<1>8. ASSUME NEW d \in Delegates
      PROVE  Linked(d, sync'[d], Artifacts!Linking(d), artifacts'[P])
  <2>1. Linked(d, sync'[d], Artifacts!Linking(d), artifacts[P])
    BY <1>1, ArtifactsTyped DEF ArtifactsInv
  <2>2. ~LinkOf(d, row)
    BY DEF LinkOf
  <2> HIDE DEF P
  <2> QED BY <1>2, <1>3, <2>1, <2>2, LinkedAppended
<1>9. ReportsWritten(artifacts'[P], file', sync')
  <2>1. ReportsWritten(artifacts[P], file, sync)
    BY DEF ArtifactsInv
  <2>2. \A n \in DOMAIN artifacts[P] : artifacts[P][n].file \in Artifacts!Files
    <3>1. artifacts[P] \in Seq(Artifacts!Key)
      BY ArtifactsTyped
    <3>2. \A k \in Artifacts!Key : k.file \in Artifacts!Files
      BY DEF Artifacts!Key
    <3> QED BY <3>1, <3>2
  <2> HIDE DEF P
  <2>3. \A n \in DOMAIN artifacts'[P] : ~artifacts'[P][n].linked =>
          artifacts'[P][n].file.kind \in {"merge", "review"} /\ file'[artifacts'[P][n].file] # None
    BY <1>2, <1>3, <1>4, <2>1, <2>2 DEF ReportsWritten
  <2>4. \A f \in Artifacts!Files :
          f.kind \in {"merge", "review"} /\ file'[f] # None => OfLinked(file'[f], sync')
    BY <1>1, <1>4, <2>1 DEF ReportsWritten
  <2> QED BY <2>3, <2>4 DEF ReportsWritten
<1>10. outcome' # None => OfLinked(outcome', sync')
  BY <1>1 DEF ArtifactsInv
<1>11. \A d \in Delegates : Linked(d, sync[d], Artifacts!Linking(d), artifacts[P])'
  BY <1>2, <1>8
<1> QED BY <1>1, <1>5, <1>6, <1>7, <1>9, <1>10, <1>11 DEF ArtifactsInv

\* The instance's order of merges is that of MergeOrder.
LEMMA ArtifactsOrder == \A s, c : Artifacts!Without(s, c) = Without(s, c)
BY DEF Artifacts!Without, Artifacts!Nth, Artifacts!Kept, Artifacts!Cardinality,
  Artifacts!IsFiniteSet, Without, Nth, Kept, Cardinality, IsFiniteSet

\* The merge is built, of the child, whose link is done, and of those before it; its
\* report may be written.
LEMMA ArtifactsBuild ==
  ASSUME ArtifactsInv, NEW c \in Delegates, Artifacts!Build(c)
  PROVE  ArtifactsInv'
<1> DEFINE P == Artifacts!Parent
           s == sync[c]
           before == Artifacts!Prior(s.prior)
           kids == Append(Artifacts!Without(before, c), c)
           m == Artifacts!Built(kids, s.linked)
           row == Artifacts!Row(c, "merge", 0)
           r == [Artifacts!Idle EXCEPT !.pc = "store", !.merge = m]
<1>1. /\ c \in Artifacts!Tasks /\ P \notin Delegates
      /\ s \in Artifacts!Sync /\ s.pc = "link" /\ s.todo = <<>>
      /\ UNCHANGED <<kid, outcome>>
  BY ArtifactsTyped, RowsAssumption DEF Artifacts!Build
<1>2. /\ sync' = [sync EXCEPT ![c] = r]
      /\ (Filed(row, m) /\ Added(row)) \/ UNCHANGED <<file, artifacts>>
  BY DEF Artifacts!Build, Filed, Added
<1>3. Holding(c, s, sync)
  BY <1>1 DEF ArtifactsInv
<1>4. /\ before \in Seq(Delegates)
      /\ \A n \in DOMAIN before : sync[before[n]].pc \in {"store", "done"}
  <2>1. CASE s.prior = None
    <3>1. before = <<>>
      BY <2>1 DEF Artifacts!Prior
    <3>2. DOMAIN before = {}
      BY <3>1
    <3> QED BY <3>1, <3>2, EmptySeq
  <2>2. CASE s.prior # None
    <3>1. before = s.prior.merges /\ OfLinked(s.prior, sync)
      BY <1>3, <2>2 DEF Artifacts!Prior, Holding
    <3> HIDE DEF before, s
    <3> QED BY <3>1 DEF OfLinked, Artifacts!Merge
  <2> QED BY <2>1, <2>2
<1> HIDE DEF before
<1>5. /\ kids \in Seq(Delegates)
      /\ \A k \in DOMAIN kids : kids[k] = c \/ \E n \in DOMAIN before : kids[k] = before[n]
  <2> DEFINE w == Append(Without(before, c), c)
  <2>1. w \in Seq(Delegates) /\ OfThem(w, before, c)
    BY <1>4, MergedLast
  <2>2. Artifacts!Without(before, c) = Without(before, c)
    BY ArtifactsOrder
  <2>3. kids = w
    BY <2>2
  <2> HIDE DEF w, kids
  <2> QED BY <2>1, <2>3 DEF OfThem
<1>6. s.linked \in Seq(Nat)
  BY <1>1 DEF Artifacts!Sync
<1> HIDE DEF kids, s, m
<1>7. m \in Artifacts!Merge /\ m.merges = kids /\ m # None
  BY <1>5, <1>6, ArtifactsBuilt DEF m
<1>8. r \in Artifacts!Sync /\ r.pc = "store" /\ r.merge = m /\ r.prior = None
  BY <1>7, ArtifactsIdle DEF Artifacts!Sync
<1> HIDE DEF r
<1>9. /\ sync'[c] = r /\ \A u \in Artifacts!Tasks \ {c} : sync'[u] = sync[u]
      /\ sync[c].pc \notin {"store", "done"}
  BY <1>1, <1>2, <1>8, ArtifactsTyped DEF s
<1>10. OfLinked(m, sync')
  <2>1. \A n \in DOMAIN before : before[n] \in Artifacts!Tasks
    BY <1>4, ArtifactsTyped
  <2>2. \A n \in DOMAIN before : sync'[before[n]].pc \in {"store", "done"}
    BY <1>4, <1>8, <1>9, <2>1
  <2> QED BY <1>5, <1>7, <1>8, <1>9, <2>2 DEF OfLinked
<1>11. Holding(c, r, sync')
  BY <1>1, <1>7, <1>8, <1>10 DEF Holding
<1>12. Linked(c, r, Artifacts!Linking(c), artifacts[P])
  <2>1. Linked(c, s, Artifacts!Linking(c), artifacts[P])
    BY DEF ArtifactsInv, s
  <2>2. DOMAIN s.todo = {}
    BY <1>1
  <2> QED BY <1>1, <1>8, <2>1, <2>2 DEF Linked
<1>13. CASE Filed(row, m) /\ Added(row)
  <2>1. row \in Artifacts!Key /\ ~row.linked /\ row.file.kind = "merge"
    BY DEF Artifacts!Row, Artifacts!Key, Artifacts!Files
  <2> HIDE DEF row
  <2> QED BY <1>1, <1>2, <1>7, <1>8, <1>9, <1>10, <1>11, <1>12, <1>13, <2>1, ArtifactsReported
<1>14. CASE UNCHANGED <<file, artifacts>>
  <2>1. \A k : OfLinked(k, sync) => OfLinked(k, sync')
    BY <1>1, <1>2, <1>8, <1>9, ArtifactsSession
  <2>2. outcome' \in Artifacts!Merge \cup {None} /\ (outcome' # None => OfLinked(outcome', sync'))
    BY <1>1, <2>1, ArtifactsTyped DEF ArtifactsInv
  <2>3. kid' \in [Delegates -> [status: {"running", "completed", "failed"},
                                attempts: 1 .. Attempts]]
    BY <1>1, ArtifactsTyped
  <2> QED BY <1>1, <1>2, <1>8, <1>9, <1>11, <1>12, <1>14, <2>2, <2>3, ArtifactsQuiet
<1> QED BY <1>2, <1>13, <1>14

\* The report of an operator's decision.
LEMMA ArtifactsReviewed ==
  ASSUME ArtifactsInv, Artifacts!Report
  PROVE  ArtifactsInv'
<1> DEFINE P == Artifacts!Parent
           row == Artifacts!Row(P, "review", 0)
           m == sync[P].merge
           r == Artifacts!Idle
<1>1. /\ P \in Artifacts!Tasks /\ P \notin Delegates
      /\ sync[P].pc = "record" /\ UNCHANGED <<kid, outcome>>
      /\ sync' = [sync EXCEPT ![P] = r] /\ Filed(row, m) /\ Added(row)
  BY ArtifactsTyped, RowsAssumption DEF Artifacts!Report, Filed, Added
<1>2. /\ r \in Artifacts!Sync /\ r.pc = "idle" /\ r.prior = None /\ r.merge = None
  BY ArtifactsIdle
<1> HIDE DEF r
<1>3. row \in Artifacts!Key /\ ~row.linked /\ row.file.kind = "review"
  BY DEF Artifacts!Row, Artifacts!Key, Artifacts!Files
<1>4. Holding(P, sync[P], sync)
  BY <1>1 DEF ArtifactsInv
<1>5. m # None /\ OfLinked(m, sync)
  BY <1>1, <1>4 DEF Holding
<1>6. OfLinked(m, sync')
  BY <1>1, <1>2, <1>5, ArtifactsSession
<1>7. Holding(P, r, sync')
  BY <1>2 DEF Holding
<1> HIDE DEF row, m
<1> QED BY <1>1, <1>2, <1>3, <1>5, <1>6, <1>7, ArtifactsReported

\* Two elements are added to a sequence.
LEMMA TwoAdded ==
  ASSUME NEW T, NEW s \in Seq(T), NEW a \in T, NEW b \in T
  PROVE  /\ s \o <<a, b>> \in Seq(T)
         /\ \A n \in DOMAIN (s \o <<a, b>>) :
              \/ (s \o <<a, b>>)[n] = a \/ (s \o <<a, b>>)[n] = b
              \/ \E o \in DOMAIN s : (s \o <<a, b>>)[n] = s[o]
OBVIOUS

\* A child's work adds rows of its own, before anything of it is linked.
LEMMA ArtifactsWork ==
  ASSUME ArtifactsInv, NEW c \in Delegates, Artifacts!Work(c)
  PROVE  ArtifactsInv'
<1> DEFINE P == Artifacts!Parent
           fresh == Artifacts!Row(c, "payload", kid[c].attempts)
           same == Artifacts!Row(c, "eval", 0)
           new == artifacts[c] \o <<fresh, same>>
           r(pc) == [sync[c] EXCEPT !.pc = pc]
           k(st) == [kid[c] EXCEPT !.status = st]
<1>1. /\ c \in Artifacts!Tasks /\ P \in Artifacts!Tasks /\ P \notin Delegates /\ c # P
      /\ sync[c] \in Artifacts!Sync /\ sync[c].pc = "run"
      /\ artifacts[c] \in Seq(Artifacts!Key)
      /\ kid[c] \in [status: {"running", "completed", "failed"}, attempts: 1 .. Attempts]
      /\ UNCHANGED outcome
  BY ArtifactsTyped, RowsAssumption DEF Artifacts!Work
<1>2. PICK pc \in {"sync", "idle"}, st \in {"completed", "failed"} :
        sync' = [sync EXCEPT ![c] = r(pc)] /\ kid' = [kid EXCEPT ![c] = k(st)]
  BY <1>1, ArtifactsTyped DEF Artifacts!Work
<1>3. /\ file' = [file EXCEPT ![fresh.file] = kid[c].attempts, ![same.file] = kid[c].attempts]
      /\ artifacts' = [artifacts EXCEPT ![c] = new]
  BY DEF Artifacts!Work
<1>4. /\ r(pc) \in Artifacts!Sync /\ r(pc).pc = pc
      /\ r(pc).prior = sync[c].prior /\ r(pc).merge = sync[c].merge
  BY <1>1 DEF Artifacts!Sync
<1>5. kid' \in [Delegates -> [status: {"running", "completed", "failed"}, attempts: 1 .. Attempts]]
  <2>1. k(st) \in [status: {"running", "completed", "failed"}, attempts: 1 .. Attempts]
    BY <1>1
  <2> QED BY <1>2, <2>1, ArtifactsTyped
<1> HIDE DEF r, k
<1>6. /\ sync' \in [Artifacts!Tasks -> Artifacts!Sync]
      /\ sync'[c] = r(pc) /\ \A u \in Artifacts!Tasks \ {c} : sync'[u] = sync[u]
      /\ \A m : OfLinked(m, sync) => OfLinked(m, sync')
      /\ Holding(c, r(pc), sync') => \A u \in Artifacts!Tasks : Holding(u, sync'[u], sync')
  BY <1>1, <1>2, <1>4, ArtifactsSession
<1>7. \A u \in Artifacts!Tasks : Holding(u, sync'[u], sync')
  <2>1. Holding(c, sync[c], sync)
    BY <1>1 DEF ArtifactsInv
  <2>2. Holding(c, r(pc), sync')
    BY <1>1, <1>4, <1>6, <2>1 DEF Holding
  <2> QED BY <1>6, <2>2
<1>8. /\ fresh \in Artifacts!Key /\ ~fresh.linked /\ fresh.file.of = c /\ fresh.file.kind = "payload"
      /\ same \in Artifacts!Key /\ ~same.linked /\ same.file.of = c /\ same.file.kind = "eval"
  BY <1>1 DEF Artifacts!Row, Artifacts!Key, Artifacts!Files
<1> HIDE DEF fresh, same
<1>9. new \in Seq(Artifacts!Key) /\ \A n \in DOMAIN new :
        new[n] = fresh \/ new[n] = same \/ \E o \in DOMAIN artifacts[c] : new[n] = artifacts[c][o]
  BY <1>1, <1>8, TwoAdded
<1> HIDE DEF new
<1>10. /\ artifacts' \in [Artifacts!Tasks -> Seq(Artifacts!Key)]
       /\ artifacts'[c] = new /\ \A u \in Artifacts!Tasks \ {c} : artifacts'[u] = artifacts[u]
  BY <1>1, <1>3, <1>9, ArtifactsTyped
<1>11. /\ DOMAIN file' = Artifacts!Files
       /\ \A f \in Artifacts!Files : f.kind \in {"merge", "review"} => file'[f] = file[f]
  BY <1>3, <1>8, ArtifactsTyped
<1>12. Artifacts!TypeOK'
  BY <1>1, <1>5, <1>6, <1>10, <1>11 DEF ArtifactsInv, Artifacts!TypeOK
<1>13. OwnRows(artifacts')
  <2> SUFFICES ASSUME NEW d \in Delegates, NEW n \in DOMAIN artifacts'[d]
               PROVE  ~artifacts'[d][n].linked /\ artifacts'[d][n].file.of = d
    BY DEF OwnRows
  <2>1. OwnRows(artifacts)
    BY DEF ArtifactsInv
  <2>2. CASE d # c
    BY <1>10, <2>1, <2>2, ArtifactsTyped DEF OwnRows
  <2>3. CASE d = c
    BY <1>8, <1>9, <1>10, <2>1, <2>3 DEF OwnRows
  <2> QED BY <2>2, <2>3
<1>14. artifacts'[P] = artifacts[P]
  BY <1>1, <1>10
<1>15. ASSUME NEW d \in Delegates
       PROVE  Linked(d, sync[d], Artifacts!Linking(d), artifacts[P])'
  <2>1. Linked(d, sync[d], Artifacts!Linking(d), artifacts[P])
    BY DEF ArtifactsInv
  <2>2. CASE d # c
    <3>1. artifacts'[d] = artifacts[d] /\ sync'[d] = sync[d]
      BY <1>6, <1>10, <2>2, ArtifactsTyped
    <3>2. Artifacts!Linking(d)' = Artifacts!Linking(d)
      BY <3>1 DEF Artifacts!Linking
    <3> QED BY <1>14, <2>1, <3>1, <3>2
  <2>3. CASE d = c
    <3>1. \A n \in DOMAIN artifacts[P] : ~LinkOf(c, artifacts[P][n])
      BY <1>1, <2>1, <2>3 DEF Linked
    <3> QED BY <1>4, <1>6, <1>14, <2>3, <3>1 DEF Linked
  <2> QED BY <2>2, <2>3
<1>16. ReportsWritten(artifacts'[P], file', sync')
  <2>1. ReportsWritten(artifacts[P], file, sync)
    BY DEF ArtifactsInv
  <2>2. \A n \in DOMAIN artifacts[P] : artifacts[P][n].file \in Artifacts!Files
    <3>1. artifacts[P] \in Seq(Artifacts!Key)
      BY <1>1, ArtifactsTyped
    <3>2. \A key \in Artifacts!Key : key.file \in Artifacts!Files
      BY DEF Artifacts!Key
    <3> QED BY <3>1, <3>2
  <2> QED BY <1>6, <1>11, <1>14, <2>1, <2>2 DEF ReportsWritten
<1>17. LinksOnce(artifacts'[P])
  BY <1>14 DEF ArtifactsInv
<1>18. outcome' # None => OfLinked(outcome', sync')
  BY <1>1, <1>6 DEF ArtifactsInv
<1> QED BY <1>7, <1>12, <1>13, <1>15, <1>16, <1>17, <1>18 DEF ArtifactsInv

\* Nothing is linked, written or merged at first.
LEMMA ArtifactsStarts == Artifacts!Init => ArtifactsInv
<1> SUFFICES ASSUME Artifacts!Init PROVE ArtifactsInv
  OBVIOUS
<1> DEFINE P == Artifacts!Parent
           first(t) == [Artifacts!Idle EXCEPT !.pc = IF t = P THEN "idle" ELSE "run"]
<1>1. /\ artifacts = [t \in Artifacts!Tasks |-> <<>>] /\ outcome = None
      /\ file = [f \in Artifacts!Files |-> None]
      /\ kid = [c \in Delegates |-> [status |-> "running", attempts |-> 1]]
      /\ sync = [t \in Artifacts!Tasks |-> first(t)]
  BY DEF Artifacts!Init
<1>2. ASSUME NEW t \in Artifacts!Tasks
      PROVE  /\ first(t) \in Artifacts!Sync
             /\ first(t).pc = IF t = P THEN "idle" ELSE "run"
             /\ first(t).prior = None /\ first(t).merge = None
  BY ArtifactsIdle DEF Artifacts!Sync
<1> HIDE DEF first
<1>3. P \in Artifacts!Tasks /\ P \notin Delegates /\ \A c \in Delegates : c \in Artifacts!Tasks
  BY RowsAssumption DEF Artifacts!Tasks
<1>4. <<>> \in Seq(Artifacts!Key) /\ DOMAIN <<>> = {}
  BY EmptySeq
<1>5. \A t \in Artifacts!Tasks : artifacts[t] = <<>> /\ sync[t] = first(t)
  BY <1>1
<1>6. Artifacts!TypeOK
  <2>1. 1 \in 1 .. Attempts
    BY DelegatesAssumption
  <2> QED BY <1>1, <1>2, <1>4, <2>1 DEF Artifacts!TypeOK
<1>7. OwnRows(artifacts) /\ LinksOnce(artifacts[P])
  BY <1>3, <1>4, <1>5 DEF OwnRows, LinksOnce
<1>8. \A c \in Delegates : Linked(c, sync[c], Artifacts!Linking(c), artifacts[P])
  BY <1>2, <1>3, <1>4, <1>5 DEF Linked
<1>9. ReportsWritten(artifacts[P], file, sync)
  BY <1>1, <1>3, <1>4, <1>5 DEF ReportsWritten
<1>10. \A t \in Artifacts!Tasks : Holding(t, sync[t], sync)
  BY <1>2, <1>5 DEF Holding
<1> QED BY <1>1, <1>6, <1>7, <1>8, <1>9, <1>10 DEF ArtifactsInv

\* Every step of TaskArtifacts preserves the invariant.
LEMMA ArtifactsKept == ArtifactsInv /\ [Artifacts!Next]_artifactVars => ArtifactsInv'
<1> SUFFICES ASSUME ArtifactsInv, [Artifacts!Next]_artifactVars PROVE ArtifactsInv'
  OBVIOUS
<1>1. CASE Artifacts!Next
  BY <1>1, ArtifactsWork, ArtifactsReads, ArtifactsStart, ArtifactsLink, ArtifactsBuild,
    ArtifactsReviewed DEF Artifacts!Next
<1>2. CASE UNCHANGED artifactVars
  BY <1>2 DEF artifactVars, ArtifactsInv, Artifacts!TypeOK, Artifacts!Linking
<1> QED BY <1>1, <1>2

\* What is linked and merged has its type, a child's session has linked what the
\* merges it is in say it has, and no artifact is linked twice.
THEOREM ArtifactsInvariant == MergingSpec => []ArtifactsInv
<1>1. MergingInit => ArtifactsInv
  BY ArtifactsStarts DEF MergingInit
<1>2. ArtifactsInv /\ [MergingNext]_<<part, vars, handoffVars, reviewVars, taskVars, artifactVars>>
        => ArtifactsInv'
  BY ArtifactsKept, MergingSteps
<1> QED BY <1>1, <1>2, PTL DEF MergingSpec

\* Each artifact of a child whose merge the parent's result or a report shows is
\* linked to the parent, and once (link_artifacts_from_task).
THEOREM LinkedOnceCorrect == MergingSpec => []LinkedOnce
<1>1. ASSUME ArtifactsInv PROVE LinkedOnce
  <2> DEFINE P == Artifacts!Parent
             places(key) == {n \in DOMAIN artifacts[P] : artifacts[P][n] = key}
  <2> SUFFICES ASSUME NEW c \in Artifacts!Merged, NEW key \in Artifacts!Linking(c)
               PROVE  Artifacts!Cardinality(places(key)) = 1
    BY DEF LinkedOnce, Artifacts!LinkedOnce
  <2>1. PICK m \in (Artifacts!Reports \cup {outcome}) \ {None} : c \in Artifacts!ToSet(m.merges)
    BY DEF Artifacts!Merged
  <2>2. OfLinked(m, sync)
    <3>1. CASE m \in Artifacts!Reports
      BY <1>1, <3>1, ArtifactsLoaded
    <3>2. CASE m = outcome
      BY <1>1, <2>1, <3>2 DEF ArtifactsInv
    <3> QED BY <2>1, <3>1, <3>2
  <2>3. c \in Delegates /\ sync[c].pc \in {"store", "done"}
    <3>1. PICK n \in DOMAIN m.merges : c = m.merges[n]
      BY <2>1 DEF Artifacts!ToSet
    <3> QED BY <2>2, <3>1 DEF OfLinked, Artifacts!Merge
  <2>4. PICK n \in DOMAIN artifacts[P] : artifacts[P][n] = key
    <3>1. Linked(c, sync[c], Artifacts!Linking(c), artifacts[P])
      BY <1>1, <2>3 DEF ArtifactsInv
    <3> QED BY <2>3, <3>1 DEF Linked
  <2>5. key.linked
    <3>1. PICK row \in Artifacts!ToSet(Artifacts!First(artifacts[c], LinkPage)) :
            key = [row EXCEPT !.linked = TRUE]
      BY DEF Artifacts!Linking
    <3>2. row \in Artifacts!Key
      <4>1. /\ c \in Artifacts!Tasks
            /\ \A l \in DOMAIN Artifacts!First(artifacts[c], LinkPage) :
                 /\ l \in DOMAIN artifacts[c]
                 /\ Artifacts!First(artifacts[c], LinkPage)[l] = artifacts[c][l]
        BY <1>1, <2>3, ArtifactsTyped, ArtifactsFirst, PageAssumption
      <4>2. artifacts[c] \in Seq(Artifacts!Key)
        BY <1>1, <4>1, ArtifactsTyped
      <4> QED BY <3>1, <4>1, <4>2 DEF Artifacts!ToSet
    <3> QED BY <3>1, <3>2 DEF Artifacts!Key
  <2>6. places(key) = {n}
    BY <1>1, <2>4, <2>5 DEF ArtifactsInv, LinksOnce
  <2>7. Artifacts!Cardinality({n}) = Cardinality({n})
    BY DEF Artifacts!Cardinality, Artifacts!IsFiniteSet, Cardinality, IsFiniteSet
  <2>8. Cardinality({n}) = 1
    BY FS_Singleton
  <2> QED BY <2>6, <2>7, <2>8
<1> QED BY <1>1, ArtifactsInvariant, PTL

(***************************************************************************)
(* The composite.                                                          *)
(***************************************************************************)

\* A behaviour of Merging is, seen through the variables of any of its modules, a
\* behaviour of that module: what the modules promise, Merging keeps.
THEOREM MergingImplements ==
  MergingSpec => Spec /\ Handoff!Spec /\ Review!Spec /\ Tasks!Spec /\ Artifacts!Spec
<1> DEFINE all == <<part, vars, handoffVars, reviewVars, taskVars, artifactVars>>
<1>1. MergingInit => Init /\ Handoff!Init /\ Review!Init /\ Tasks!Init /\ Artifacts!Init
  BY DEF MergingInit
<1>2. [MergingNext]_all => [Next]_vars
  BY DEF MergingNext
<1>3. [MergingNext]_all => [Handoff!Next]_(Handoff!vars)
  BY MergingSteps DEF handoffVars, Handoff!vars, Handoff!parent
<1>4. [MergingNext]_all => [Review!Next]_(Review!vars)
  BY MergingSteps DEF reviewVars, Review!vars
<1>5. [MergingNext]_all => [Tasks!Next]_(Tasks!vars)
  BY MergingSteps DEF taskVars, Tasks!vars
<1>6. [MergingNext]_all => [Artifacts!Next]_(Artifacts!vars)
  BY MergingSteps DEF artifactVars, Artifacts!vars
<1> QED
  BY <1>1, <1>2, <1>3, <1>4, <1>5, <1>6, PTL
     DEF MergingSpec, Spec, Handoff!Spec, Review!Spec, Tasks!Spec, Artifacts!Spec

\* What MergeResolution promises of a merge holds of every behaviour of Merging.
THEOREM ResolutionCorrect ==
  MergingSpec => [](CleanMeansAgreed /\ PolicyHonoured /\ OverridePrevails /\ SourceTruthful)
BY MergingImplements, CleanCorrect, PolicyCorrect, OverrideCorrect, SourceCorrect, PTL
=============================================================================
