---------------------- MODULE CustomerIdentitiesProofs ----------------------
(***************************************************************************)
(* Theorems about CustomerIdentities for any ids, orders, clues and calls, *)
(* and any number of edits and restarts.                                   *)
(***************************************************************************)
EXTENDS CustomerIdentities, FiniteSetTheorems, WellFoundedInduction, TLAPS

(***************************************************************************)
(* What a customer stands for, in any table cu of customers.  ActiveOf     *)
(* goes from a merged customer to the one it went into and stops at one it *)
(* has visited: a recursion over the set of those visited.                 *)
(***************************************************************************)
Follows(cu, d) == cu[d].status = "merged" /\ cu[d].into # None

\* One step of the recursion, and the functions it leaves alone.
Onward(cu, f) ==
    [seen \in SUBSET Ids |->
        [d \in Ids |-> IF Follows(cu, d) /\ d \notin seen
                       THEN f[seen \cup {d}][cu[d].into] ELSE d]]
Solves(cu, f) == f = Onward(cu, f)
Solution(cu) == CHOOSE f : Solves(cu, f)
EndOf(cu, c) == Solution(cu)[{}][c]

\* A merged customer names a customer or none.
Named(cu) == \A d \in Ids : cu[d].into \in Ids \cup {None}

LEMMA ActiveIsEnd ==
    ASSUME NEW c
    PROVE  ActiveOf(c) = EndOf(customer, c) /\ ActiveOf(c)' = EndOf(customer', c)
<1>1. ActiveOf(c) = EndOf(customer, c)
  BY Zenon DEF ActiveOf, EndOf, Solution, Solves, Onward, Follows
<1>2. ActiveOf(c)' = EndOf(customer', c)
  BY Zenon DEF ActiveOf, EndOf, Solution, Solves, Onward, Follows
<1>. QED BY <1>1, <1>2

\* Among the members of a set of subsets of a finite set one contains no other.
LEMMA SmallestOf ==
    ASSUME NEW S, IsFiniteSet(S), NEW T \in SUBSET (SUBSET S), T # {}
    PROVE  \E m \in T : \A i \in T : i \subseteq m => i = m
<1>1. T \subseteq FiniteSubsetsOf(S)
  BY FS_Subset DEF FiniteSubsetsOf
<1>2. PICK m \in T : \A i \in T : ~ (<<i, m>> \in StrictSubsetOrdering(S))
  BY <1>1, FS_StrictSubsetOrderingWellFounded, WFMin
<1>. QED BY <1>1, <1>2 DEF StrictSubsetOrdering, FiniteSubsetsOf

\* So a set of numbers has a least one: the intervals below its members have one
\* that contains no other.
LEMMA Least ==
    ASSUME NEW S \in SUBSET Nat, S # {}
    PROVE  \E m \in S : \A i \in S : m <= i
<1>1. PICK n \in S : TRUE
  OBVIOUS
<1>. DEFINE Below == {0 .. k : k \in {i \in S : i <= n}}
<1>2. Below \in SUBSET (SUBSET (0 .. n)) /\ Below # {}
  <2>1. ASSUME NEW k \in S, k <= n PROVE 0 .. k \subseteq 0 .. n
    BY <2>1
  <2>. QED BY <1>1, <2>1
<1>3. IsFiniteSet(0 .. n)
  BY FS_Interval
<1>4. PICK U \in Below : \A V \in Below : V \subseteq U => V = U
  <2>1. PICK S0 : S0 = 0 .. n
    OBVIOUS
  <2>2. PICK T0 : T0 = Below
    OBVIOUS
  <2>3. IsFiniteSet(S0) /\ T0 \in SUBSET (SUBSET S0) /\ T0 # {}
    BY <1>2, <1>3, <2>1, <2>2
  <2>4. \E m \in T0 : \A i \in T0 : i \subseteq m => i = m
    BY ONLY <2>3, SmallestOf
  <2>. QED BY <2>4, <2>2
<1>5. PICK m \in S : U = 0 .. m /\ m <= n
  OBVIOUS
<1>6. ASSUME NEW i \in S, i < m PROVE FALSE
  <2>1. 0 .. i \in Below
    BY <1>5, <1>6
  <2>2. 0 .. i \subseteq U /\ m \in U /\ m \notin 0 .. i
    BY <1>5, <1>6
  <2>. QED BY <1>4, <2>1, <2>2
<1>. QED BY <1>6

\* The sets visited grow until they hold every id.
LEMMA NothingBeyondAll ==
    ASSUME IsFiniteSet(Ids), NEW B \in SUBSET SUBSET Ids,
           \A s \in B : \E d \in Ids \ s : s \cup {d} \in B
    PROVE  B = {}
<1>1. SUFFICES ASSUME B # {} PROVE FALSE
  OBVIOUS
<1>2. PICK Rest : Rest = {Ids \ s : s \in B}
  OBVIOUS
<1>3. Rest \in SUBSET SUBSET Ids /\ Rest # {}
  <2>1. \A i \in Rest : i \subseteq Ids
    BY ONLY <1>2
  <2>2. PICK s \in B : TRUE
    BY <1>1
  <2>3. Ids \ s \in Rest
    BY <1>2
  <2>. QED BY <2>1, <2>3
<1>4. PICK m \in Rest : \A i \in Rest : i \subseteq m => i = m
  BY <1>3, SmallestOf
<1>5. PICK s \in B : m = Ids \ s
  BY <1>2, <1>4
<1>6. PICK d \in Ids \ s : s \cup {d} \in B
  BY <1>5
<1>7. Ids \ (s \cup {d}) \in Rest /\ Ids \ (s \cup {d}) \subseteq m
  BY <1>2, <1>5, <1>6
<1>. QED BY <1>4, <1>5, <1>6, <1>7

\* The sets with at most n ids left to visit.
Upto(n) == {s \in SUBSET Ids : Cardinality(Ids \ s) <= n}

LEMMA OneLess ==
    ASSUME IsFiniteSet(Ids), NEW n \in Nat, NEW s \in Upto(n + 1), NEW d \in Ids \ s
    PROVE  s \cup {d} \in Upto(n)
<1>1. IsFiniteSet(Ids \ s) /\ Cardinality(Ids \ s) \in Nat
  BY FS_Subset, FS_CardinalityType
<1>2. Cardinality((Ids \ s) \ {d}) = Cardinality(Ids \ s) - 1
  BY <1>1, FS_RemoveElement
<1>3. Ids \ (s \cup {d}) = (Ids \ s) \ {d} /\ s \cup {d} \in SUBSET Ids
  BY DEF Upto
<1>4. Cardinality(Ids \ (s \cup {d})) = Cardinality(Ids \ s) - 1
  BY <1>2, <1>3
<1>. QED BY <1>1, <1>3, <1>4 DEF Upto

\* n steps of the recursion answer for every set with at most n ids left.
Answers(cu, n) ==
    \E f \in [SUBSET Ids -> [Ids -> Ids]] : \A s \in Upto(n) : Onward(cu, f)[s] = f[s]

LEMMA OnwardType ==
    ASSUME NEW cu, Named(cu), NEW f \in [SUBSET Ids -> [Ids -> Ids]]
    PROVE  Onward(cu, f) \in [SUBSET Ids -> [Ids -> Ids]]
<1>1. ASSUME NEW s \in SUBSET Ids, NEW d \in Ids, Follows(cu, d)
      PROVE  f[s \cup {d}][cu[d].into] \in Ids
  <2>1. s \cup {d} \in SUBSET Ids /\ cu[d].into \in Ids
    BY <1>1 DEF Named, Follows
  <2>. QED BY <2>1
<1>. QED BY <1>1 DEF Onward

LEMMA NothingLeft ==
    ASSUME IsFiniteSet(Ids), NEW cu
    PROVE  Answers(cu, 0)
<1>1. Upto(0) = {Ids}
  <2>1. ASSUME NEW s \in SUBSET Ids, Cardinality(Ids \ s) <= 0 PROVE s = Ids
    <3>1. IsFiniteSet(Ids \ s) /\ Cardinality(Ids \ s) \in Nat
      BY FS_Subset, FS_CardinalityType
    <3>2. Ids \ s = {}
      BY <2>1, <3>1, FS_EmptySet
    <3>. QED BY <3>2
  <2>2. Cardinality(Ids \ Ids) = 0
    <3>1. Ids \ Ids = {}
      OBVIOUS
    <3>. QED BY <3>1, FS_EmptySet
  <2>. QED BY <2>1, <2>2 DEF Upto
<1>2. PICK f : f = [s \in SUBSET Ids |-> [d \in Ids |-> d]]
  OBVIOUS
<1>3. Onward(cu, f)[Ids] = f[Ids] /\ f \in [SUBSET Ids -> [Ids -> Ids]]
  BY <1>2 DEF Onward
<1>. QED BY <1>1, <1>3 DEF Answers

LEMMA OneMore ==
    ASSUME IsFiniteSet(Ids), NEW cu, Named(cu), NEW n \in Nat, Answers(cu, n)
    PROVE  Answers(cu, n + 1)
<1>1. PICK f \in [SUBSET Ids -> [Ids -> Ids]] : \A s \in Upto(n) : Onward(cu, f)[s] = f[s]
  BY DEF Answers
<1>2. PICK g : g = Onward(cu, f)
  OBVIOUS
<1>3. g \in [SUBSET Ids -> [Ids -> Ids]]
  BY <1>2, OnwardType
<1>4. ASSUME NEW s \in Upto(n + 1), NEW d \in Ids \ s
      PROVE  g[s \cup {d}] = f[s \cup {d}]
  BY <1>1, <1>2, <1>4, OneLess
<1>5. ASSUME NEW s \in Upto(n + 1) PROVE Onward(cu, g)[s] = g[s]
  <2>1. s \in SUBSET Ids
    BY DEF Upto
  <2>2. /\ g[s] = [d \in Ids |-> IF Follows(cu, d) /\ d \notin s
                                 THEN f[s \cup {d}][cu[d].into] ELSE d]
        /\ Onward(cu, g)[s] = [d \in Ids |-> IF Follows(cu, d) /\ d \notin s
                                             THEN g[s \cup {d}][cu[d].into] ELSE d]
    BY <1>2, <2>1 DEF Onward
  <2>3. \A d \in Ids : d \notin s => g[s \cup {d}][cu[d].into] = f[s \cup {d}][cu[d].into]
    BY <1>4
  <2>. QED BY <2>2, <2>3
<1>. QED BY <1>3, <1>5 DEF Answers

LEMMA HasSolution ==
    ASSUME IsFiniteSet(Ids), NEW cu, Named(cu)
    PROVE  Solves(cu, Solution(cu))
<1>1. PICK Bad : Bad = {n \in Nat : ~Answers(cu, n)}
  OBVIOUS
<1>2. ASSUME Bad # {} PROVE FALSE
  <2>1. PICK m \in Bad : \A i \in Bad : m <= i
    BY <1>1, <1>2, Least
  <2>2. m \in Nat /\ m # 0
    BY <1>1, NothingLeft
  <2>3. m - 1 \in Nat /\ Answers(cu, m - 1)
    BY <1>1, <2>1, <2>2
  <2>4. Answers(cu, (m - 1) + 1)
    BY <2>3, OneMore
  <2>. QED BY <1>1, <2>2, <2>4
<1>3. Cardinality(Ids) \in Nat /\ Upto(Cardinality(Ids)) = SUBSET Ids
  BY FS_Subset, FS_CardinalityType DEF Upto
<1>4. PICK f \in [SUBSET Ids -> [Ids -> Ids]] : \A s \in SUBSET Ids : Onward(cu, f)[s] = f[s]
  BY <1>1, <1>2, <1>3 DEF Answers
<1>5. Solves(cu, f)
  <2>1. Onward(cu, f) \in [SUBSET Ids -> [Ids -> Ids]]
    BY OnwardType
  <2>. QED BY <1>4, <2>1 DEF Solves
<1>. QED BY <1>5 DEF Solution

\* The recursion, one customer at a time.
LEMMA Unfold ==
    ASSUME IsFiniteSet(Ids), NEW cu, Named(cu), NEW s \in SUBSET Ids, NEW d \in Ids
    PROVE  /\ Follows(cu, d) /\ d \notin s
                => Solution(cu)[s][d] = Solution(cu)[s \cup {d}][cu[d].into]
           /\ ~Follows(cu, d) \/ d \in s => Solution(cu)[s][d] = d
<1>1. PICK f, g : f = Solution(cu) /\ g = Solution(cu)
  OBVIOUS
<1>2. f = Onward(cu, g)
  BY <1>1, HasSolution DEF Solves
<1>3. f[s][d] = IF Follows(cu, d) /\ d \notin s THEN g[s \cup {d}][cu[d].into] ELSE d
  BY ONLY <1>2, s \in SUBSET Ids, d \in Ids DEF Onward
<1>. QED BY <1>1, <1>3

LEMMA EndType ==
    ASSUME IsFiniteSet(Ids), NEW cu, Named(cu), NEW c \in Ids
    PROVE  EndOf(cu, c) \in Ids
<1>1. PICK B : B = {s \in SUBSET Ids : \E d \in Ids : Solution(cu)[s][d] \notin Ids}
  OBVIOUS
<1>2. ASSUME NEW s \in B PROVE \E d \in Ids \ s : s \cup {d} \in B
  <2>1. s \in SUBSET Ids
    BY <1>1
  <2>2. PICK d \in Ids : Solution(cu)[s][d] \notin Ids
    BY <1>1
  <2>3. Follows(cu, d) /\ d \notin s /\ Solution(cu)[s \cup {d}][cu[d].into] \notin Ids
    <3>1. /\ Follows(cu, d) /\ d \notin s
               => Solution(cu)[s][d] = Solution(cu)[s \cup {d}][cu[d].into]
          /\ ~Follows(cu, d) \/ d \in s => Solution(cu)[s][d] = d
      BY <2>1, Unfold
    <3>. QED BY <2>2, <3>1
  <2>4. PICK e \in Ids : e = cu[d].into
    BY <2>3 DEF Named, Follows
  <2>5. s \cup {d} \in SUBSET Ids /\ Solution(cu)[s \cup {d}][e] \notin Ids
    BY <2>1, <2>3, <2>4
  <2>6. s \cup {d} \in B
    BY ONLY <1>1, <2>5, e \in Ids
  <2>. QED BY <2>3, <2>6
<1>3. B = {}
  <2>1. B \in SUBSET SUBSET Ids
    BY <1>1
  <2>. QED BY <1>2, <2>1, NothingBeyondAll
<1>. QED BY <1>1, <1>3 DEF EndOf

(***************************************************************************)
(* Merges make a forest: however many customers are merged, one of them    *)
(* went into a customer that is not among them.                            *)
(***************************************************************************)
Forest(cu) ==
    \A S \in SUBSET Ids :
        S # {} /\ (\A x \in S : Follows(cu, x)) => \E x \in S : cu[x].into \notin S

\* The customers met on the way from d: those in every set that holds d and,
\* with a merged customer, the one it went into.
Leads(cu, R) == \A x \in R : Follows(cu, x) => cu[x].into \in R
Path(cu, d) == {y \in Ids : \A R \in SUBSET Ids : Leads(cu, R) /\ d \in R => y \in R}

LEMMA PathWithin ==
    ASSUME NEW cu, NEW d \in Ids, NEW R \in SUBSET Ids, Leads(cu, R), d \in R
    PROVE  Path(cu, d) \subseteq R
BY DEF Path

LEMMA PathLeads ==
    ASSUME NEW cu, Named(cu), NEW d \in Ids
    PROVE  Path(cu, d) \in SUBSET Ids /\ d \in Path(cu, d) /\ Leads(cu, Path(cu, d))
<1>1. Path(cu, d) \in SUBSET Ids /\ d \in Path(cu, d)
  BY DEF Path
<1>2. ASSUME NEW x \in Path(cu, d), Follows(cu, x) PROVE cu[x].into \in Path(cu, d)
  <2>1. cu[x].into \in Ids
    BY <1>1, <1>2 DEF Named, Follows
  <2>2. ASSUME NEW R \in SUBSET Ids, Leads(cu, R), d \in R PROVE cu[x].into \in R
    <3>1. x \in R
      BY <1>2, <2>2 DEF Path
    <3>. QED BY <1>2, <2>2, <3>1 DEF Leads
  <2>. QED BY <2>1, <2>2 DEF Path
<1>. QED BY <1>1, <1>2 DEF Leads

LEMMA PathOfMember ==
    ASSUME NEW cu, Named(cu), NEW d \in Ids, NEW x \in Path(cu, d)
    PROVE  Path(cu, x) \subseteq Path(cu, d)
BY PathLeads, PathWithin

LEMMA PathOfNext ==
    ASSUME NEW cu, Named(cu), NEW d \in Ids, Follows(cu, d)
    PROVE  /\ cu[d].into \in Ids
           /\ Path(cu, cu[d].into) \subseteq Path(cu, d)
           /\ Path(cu, d) \subseteq {d} \cup Path(cu, cu[d].into)
<1>1. cu[d].into \in Ids
  BY DEF Named, Follows
<1>2. cu[d].into \in Path(cu, d)
  BY PathLeads DEF Leads
<1>3. /\ {d} \cup Path(cu, cu[d].into) \in SUBSET Ids
      /\ Leads(cu, {d} \cup Path(cu, cu[d].into))
  BY <1>1, PathLeads DEF Leads
<1>4. Path(cu, d) \subseteq {d} \cup Path(cu, cu[d].into)
  BY <1>3, PathWithin
<1>. QED BY <1>1, <1>2, <1>4, PathOfMember

\* No way leads back: the customers between d and itself would all be merged into
\* each other.
LEMMA NoWayBack ==
    ASSUME NEW cu, Named(cu), Forest(cu), NEW d \in Ids, Follows(cu, d)
    PROVE  d \notin Path(cu, cu[d].into)
<1>1. cu[d].into \in Ids
  BY PathOfNext
<1>. SUFFICES ASSUME d \in Path(cu, cu[d].into) PROVE FALSE
  OBVIOUS
<1>2. PICK S : S = {x \in Path(cu, cu[d].into) : d \in Path(cu, x)}
  OBVIOUS
<1>3. S \in SUBSET Ids /\ d \in S
  BY <1>1, <1>2, PathLeads
<1>4. ASSUME NEW x \in S PROVE Follows(cu, x) /\ cu[x].into \in S
  <2>1. x \in Ids /\ d \in Path(cu, x)
    BY <1>2, <1>3
  <2>2. CASE x = d
    BY <1>1, <1>2, <2>2, PathLeads
  <2>3. CASE x # d
    <3>1. Follows(cu, x)
      <4>. SUFFICES ASSUME ~Follows(cu, x) PROVE FALSE
        OBVIOUS
      <4>1. {x} \in SUBSET Ids /\ Leads(cu, {x})
        BY <2>1 DEF Leads
      <4>. QED BY <2>1, <2>3, <4>1, PathWithin
    <3>2. d \in Path(cu, cu[x].into)
      BY <2>1, <2>3, <3>1, PathOfNext
    <3>3. cu[x].into \in Path(cu, cu[d].into)
      BY <1>1, <1>2, <3>1, PathLeads DEF Leads
    <3>. QED BY <1>2, <3>1, <3>2, <3>3
  <2>. QED BY <2>2, <2>3
<1>. QED BY <1>3, <1>4 DEF Forest

LEMMA EndOfRoot ==
    ASSUME IsFiniteSet(Ids), NEW cu, Named(cu), NEW d \in Ids, ~Follows(cu, d)
    PROVE  EndOf(cu, d) = d
<1>1. {} \in SUBSET Ids
  OBVIOUS
<1>. QED BY <1>1, Unfold DEF EndOf

\* What was visited before does not matter where no way leads back to it.
LEMMA VisitedElsewhere ==
    ASSUME IsFiniteSet(Ids), NEW cu, Named(cu), Forest(cu),
           NEW d \in Ids, NEW s1 \in SUBSET Ids, NEW s2 \in SUBSET Ids,
           s1 \cap Path(cu, d) = {}, s2 \cap Path(cu, d) = {}
    PROVE  Solution(cu)[s1][d] = Solution(cu)[s2][d]
<1>. DEFINE Same(x) == \A r1, r2 \in SUBSET Ids :
                          r1 \cap Path(cu, x) = {} /\ r2 \cap Path(cu, x) = {}
                            => Solution(cu)[r1][x] = Solution(cu)[r2][x]
<1>1. PICK S : S = {x \in Ids : ~Same(x)}
  OBVIOUS
<1>2. ASSUME NEW x \in Ids, ~Follows(cu, x) PROVE Same(x)
  <2>1. \A r \in SUBSET Ids : Solution(cu)[r][x] = x
    BY <1>2, Unfold
  <2>. QED BY <2>1
<1>3. ASSUME NEW x \in Ids, Follows(cu, x), Same(cu[x].into) PROVE Same(x)
  <2>. SUFFICES ASSUME NEW r1 \in SUBSET Ids, NEW r2 \in SUBSET Ids,
                       r1 \cap Path(cu, x) = {}, r2 \cap Path(cu, x) = {}
                PROVE  Solution(cu)[r1][x] = Solution(cu)[r2][x]
    OBVIOUS
  <2>1. x \in Path(cu, x) /\ x \notin Path(cu, cu[x].into)
        /\ Path(cu, cu[x].into) \subseteq Path(cu, x)
    BY <1>3, PathLeads, PathOfNext, NoWayBack
  <2>2. /\ Solution(cu)[r1][x] = Solution(cu)[r1 \cup {x}][cu[x].into]
        /\ Solution(cu)[r2][x] = Solution(cu)[r2 \cup {x}][cu[x].into]
    BY <1>3, <2>1, Unfold
  <2>3. /\ r1 \cup {x} \in SUBSET Ids /\ (r1 \cup {x}) \cap Path(cu, cu[x].into) = {}
        /\ r2 \cup {x} \in SUBSET Ids /\ (r2 \cup {x}) \cap Path(cu, cu[x].into) = {}
    BY <2>1
  <2>. QED BY <1>3, <2>2, <2>3
<1>4. S = {}
  <2>. HIDE DEF Same
  <2>1. S \in SUBSET Ids /\ \A x \in S : Follows(cu, x)
    BY <1>1, <1>2
  <2>2. \A x \in S : cu[x].into \in S
    <3>1. TAKE x \in S
    <3>2. x \in Ids /\ Follows(cu, x) /\ cu[x].into \in Ids
      BY <2>1, PathOfNext
    <3>. QED BY <1>1, <1>3, <3>2
  <2>. QED BY <2>1, <2>2 DEF Forest
<1>5. Same(d)
  BY <1>1, <1>4
<1>. QED BY <1>5

LEMMA EndOfMerged ==
    ASSUME IsFiniteSet(Ids), NEW cu, Named(cu), Forest(cu), NEW d \in Ids, Follows(cu, d)
    PROVE  EndOf(cu, d) = EndOf(cu, cu[d].into)
<1>1. cu[d].into \in Ids /\ d \notin Path(cu, cu[d].into)
  BY PathOfNext, NoWayBack
<1>2. Solution(cu)[{}][d] = Solution(cu)[{} \cup {d}][cu[d].into]
  BY Unfold
<1>3. Solution(cu)[{} \cup {d}][cu[d].into] = Solution(cu)[{}][cu[d].into]
  BY <1>1, VisitedElsewhere
<1>. QED BY <1>2, <1>3 DEF EndOf

\* A customer stands for one on its way that is not merged.
LEMMA EndIsReached ==
    ASSUME IsFiniteSet(Ids), NEW cu, Named(cu), Forest(cu), NEW d \in Ids
    PROVE  EndOf(cu, d) \in Path(cu, d) /\ ~Follows(cu, EndOf(cu, d))
<1>. DEFINE Good(x) == EndOf(cu, x) \in Path(cu, x) /\ ~Follows(cu, EndOf(cu, x))
<1>1. PICK S : S = {x \in Ids : ~Good(x)}
  OBVIOUS
<1>2. ASSUME NEW x \in Ids, ~Follows(cu, x) PROVE Good(x)
  BY <1>2, EndOfRoot, PathLeads
<1>3. ASSUME NEW x \in Ids, Follows(cu, x), Good(cu[x].into) PROVE Good(x)
  BY <1>3, EndOfMerged, PathOfNext
<1>4. S = {}
  <2>. HIDE DEF Good
  <2>1. S \in SUBSET Ids /\ \A x \in S : Follows(cu, x)
    BY <1>1, <1>2
  <2>2. \A x \in S : cu[x].into \in S
    <3>1. TAKE x \in S
    <3>2. x \in Ids /\ Follows(cu, x) /\ cu[x].into \in Ids
      BY <2>1, PathOfNext
    <3>. QED BY <1>1, <1>3, <3>2
  <2>. QED BY <2>1, <2>2 DEF Forest
<1>5. Good(d)
  BY <1>1, <1>4
<1>. QED BY <1>5

\* Customers on the way from one another stand for the same.
LEMMA EndAlongPath ==
    ASSUME IsFiniteSet(Ids), NEW cu, Named(cu), Forest(cu), NEW d \in Ids, NEW x \in Path(cu, d)
    PROVE  EndOf(cu, x) = EndOf(cu, d)
<1>1. PICK R : R = {y \in Ids : EndOf(cu, y) = EndOf(cu, d)}
  OBVIOUS
<1>2. ASSUME NEW y \in R, Follows(cu, y) PROVE cu[y].into \in R
  BY <1>1, <1>2, EndOfMerged, PathOfNext
<1>3. Path(cu, d) \subseteq R
  BY <1>1, <1>2, PathWithin DEF Leads
<1>. QED BY <1>1, <1>3

LEMMA PathGrows ==
    ASSUME NEW cu, NEW cv, Named(cu), Named(cv), NEW a \in Ids,
           \A x \in Path(cu, a) : Follows(cu, x) => Follows(cv, x) /\ cv[x].into = cu[x].into
    PROVE  Path(cu, a) \subseteq Path(cv, a)
<1>1. PICK R : R = Path(cv, a) \cap Path(cu, a)
  OBVIOUS
<1>2. R \in SUBSET Ids /\ a \in R
  BY <1>1, PathLeads
<1>3. ASSUME NEW x \in R, Follows(cu, x) PROVE cu[x].into \in R
  BY <1>1, <1>3, PathLeads DEF Leads
<1>4. Path(cu, a) \subseteq R
  BY <1>2, <1>3, PathWithin DEF Leads
<1>. QED BY <1>1, <1>4

(***************************************************************************)
(* How the table changes: no customer that was there comes back, and the   *)
(* way from one that stays goes on as it went.                             *)
(***************************************************************************)
Real(cu, c) == cu[c].status \in {"active", "merged"}

Merges(cu) ==
    /\ Forest(cu)
    /\ \A d \in Ids : cu[d].status = "merged" => cu[d].into \in Ids /\ Real(cu, cu[d].into)

SameAt(cu, cv, d) == cv[d].status = cu[d].status /\ cv[d].into = cu[d].into

\* Only clues are written; a customer is created; s is merged into t; c is erased.
SameTree(cu, cv) == \A d \in Ids : SameAt(cu, cv, d)
NewRoot(cu, cv, n) ==
    /\ cu[n].status = "unused" /\ cv[n].status = "active" /\ cv[n].into = None
    /\ \A d \in Ids \ {n} : SameAt(cu, cv, d)
Joined(cu, cv, s, t) ==
    /\ s # t /\ cu[s].status = "active" /\ cu[t].status = "active"
    /\ cv[s].status = "merged" /\ cv[s].into = t
    /\ \A d \in Ids \ {s} : SameAt(cu, cv, d)
Cut(cu, cv, c) ==
    /\ \A d \in Ids : cu[d].into # c
    /\ Real(cu, c) /\ cv[c].status = "deleted" /\ cv[c].into = None
    /\ \A d \in Ids \ {c} : SameAt(cu, cv, d)

Evolves(cu, cv) ==
    /\ \A d \in Ids : cu[d].status # "unused" =>
          cv[d].status # "unused" /\ (Real(cv, d) => Real(cu, d))
    /\ \A d \in Ids : cu[d].status = "deleted" => cv[d].status = "deleted"
    /\ \A d \in Ids : cu[d].status = "merged" =>
          cv[d].status = "deleted" \/ (cv[d].status = "merged" /\ cv[d].into = cu[d].into)
    /\ \A a \in Ids : Real(cu, a) /\ Real(cv, a) => Path(cu, a) \subseteq Path(cv, a)

\* A customer that exists stands for an active one.
LEMMA EndIsActive ==
    ASSUME IsFiniteSet(Ids), NEW cu, Named(cu), Merges(cu), NEW c \in Ids, Real(cu, c)
    PROVE  EndOf(cu, c) \in Ids /\ cu[EndOf(cu, c)].status = "active"
<1>1. PICK R : R = {y \in Ids : Real(cu, y)}
  OBVIOUS
<1>2. ASSUME NEW y \in R, Follows(cu, y) PROVE cu[y].into \in R
  BY <1>1, <1>2 DEF Merges, Follows
<1>3. Path(cu, c) \subseteq R
  BY <1>1, <1>2, PathWithin DEF Leads
<1>4. EndOf(cu, c) \in R /\ ~Follows(cu, EndOf(cu, c))
  BY <1>3, EndIsReached DEF Merges
<1>5. cu[EndOf(cu, c)].status # "merged"
  BY <1>1, <1>4, CluesAssumption DEF Merges, Follows
<1>. QED BY <1>1, <1>4, <1>5 DEF Real

LEMMA CluesEvolve ==
    ASSUME NEW cu, NEW cv, Named(cu), Named(cv), Merges(cu), SameTree(cu, cv)
    PROVE  Merges(cv) /\ Evolves(cu, cv)
<1>1. \A d \in Ids : /\ Follows(cv, d) <=> Follows(cu, d)
                     /\ Real(cv, d) <=> Real(cu, d)
                     /\ cv[d].status = cu[d].status /\ cv[d].into = cu[d].into
  BY DEF SameTree, SameAt, Follows, Real
<1>2. Forest(cv)
  BY <1>1 DEF Forest, Merges
<1>3. \A a \in Ids : Path(cu, a) \subseteq Path(cv, a)
  BY <1>1, PathGrows, PathLeads
<1>. QED BY <1>1, <1>2, <1>3 DEF Merges, Evolves

LEMMA RootEvolves ==
    ASSUME NEW cu, NEW cv, Named(cu), Named(cv), Merges(cu), NEW n \in Ids, NewRoot(cu, cv, n)
    PROVE  Merges(cv) /\ Evolves(cu, cv)
<1>1. \A d \in Ids \ {n} : /\ Follows(cv, d) <=> Follows(cu, d)
                           /\ Real(cv, d) <=> Real(cu, d)
                           /\ cv[d].status = cu[d].status /\ cv[d].into = cu[d].into
  BY DEF NewRoot, SameAt, Follows, Real
<1>2. ~Follows(cu, n) /\ ~Follows(cv, n) /\ ~Real(cu, n) /\ Real(cv, n)
  BY DEF NewRoot, Follows, Real
<1>3. Forest(cv)
  BY <1>1, <1>2 DEF Forest, Merges
<1>4. \A a \in Ids : Path(cu, a) \subseteq Path(cv, a)
  BY <1>1, <1>2, PathGrows, PathLeads
<1>5. \A d \in Ids : cv[d].status = "merged" => cv[d].into \in Ids /\ Real(cv, cv[d].into)
  BY <1>1, <1>2 DEF Merges, NewRoot
<1>. QED BY <1>1, <1>2, <1>3, <1>4, <1>5 DEF Merges, Evolves, NewRoot

LEMMA JoinEvolves ==
    ASSUME NEW cu, NEW cv, Named(cu), Named(cv), Merges(cu),
           NEW s \in Ids, NEW t \in Ids, Joined(cu, cv, s, t)
    PROVE  Merges(cv) /\ Evolves(cu, cv)
<1>1. \A d \in Ids \ {s} : /\ Follows(cv, d) <=> Follows(cu, d)
                           /\ Real(cv, d) <=> Real(cu, d)
                           /\ cv[d].status = cu[d].status /\ cv[d].into = cu[d].into
  BY DEF Joined, SameAt, Follows, Real
<1>2. /\ s # t /\ ~Follows(cu, s) /\ ~Follows(cu, t) /\ ~Follows(cv, t) /\ cv[s].into = t
      /\ Real(cu, s) /\ Real(cv, s) /\ Real(cv, t)
      /\ cu[s].status = "active" /\ cv[s].status = "merged"
  BY <1>1 DEF Joined, Follows, Real
<1>3. ASSUME NEW S \in SUBSET Ids, S # {}, \A x \in S : Follows(cv, x)
      PROVE  \E x \in S : cv[x].into \notin S
  <2>1. CASE s \in S
    BY <1>2, <1>3, <2>1
  <2>2. CASE s \notin S
    <3>1. \A x \in S : Follows(cu, x)
      BY <1>1, <1>3, <2>2
    <3>2. PICK x \in S : cu[x].into \notin S
      BY <1>3, <3>1 DEF Merges, Forest
    <3>. QED BY <1>1, <2>2, <3>2
  <2>. QED BY <2>1, <2>2
<1>4. Forest(cv)
  BY <1>3 DEF Forest
<1>5. \A a \in Ids : Path(cu, a) \subseteq Path(cv, a)
  BY <1>1, <1>2, PathGrows, PathLeads
<1>6. \A d \in Ids : cv[d].status = "merged" => cv[d].into \in Ids /\ Real(cv, cv[d].into)
  <2>. TAKE d \in Ids
  <2>1. CASE d = s
    BY <1>2, <2>1
  <2>2. CASE d # s
    BY <1>1, <1>2, <2>2 DEF Merges
  <2>. QED BY <2>1, <2>2
<1>. QED BY <1>1, <1>2, <1>4, <1>5, <1>6 DEF Merges, Evolves

LEMMA CutEvolves ==
    ASSUME NEW cu, NEW cv, Named(cu), Named(cv), Merges(cu), NEW c \in Ids, Cut(cu, cv, c)
    PROVE  Merges(cv) /\ Evolves(cu, cv)
<1>1. \A d \in Ids \ {c} : /\ Follows(cv, d) <=> Follows(cu, d)
                           /\ Real(cv, d) <=> Real(cu, d)
                           /\ cv[d].status = cu[d].status /\ cv[d].into = cu[d].into
  BY DEF Cut, SameAt, Follows, Real
<1>2. /\ ~Follows(cv, c) /\ Real(cu, c) /\ ~Real(cv, c) /\ cv[c].status = "deleted"
      /\ \A d \in Ids : cu[d].into # c
  BY DEF Cut, Follows, Real
<1>3. Forest(cv)
  <2>. SUFFICES ASSUME NEW S \in SUBSET Ids, S # {}, \A x \in S : Follows(cv, x)
                PROVE  \E x \in S : cv[x].into \notin S
    BY DEF Forest
  <2>1. c \notin S /\ \A x \in S : Follows(cu, x)
    BY <1>1, <1>2
  <2>2. PICK x \in S : cu[x].into \notin S
    BY <2>1 DEF Merges, Forest
  <2>. QED BY <1>1, <2>1, <2>2
<1>4. ASSUME NEW a \in Ids, Real(cv, a) PROVE Path(cu, a) \subseteq Path(cv, a)
  <2>1. PICK R : R = Path(cu, a) \ {c}
    OBVIOUS
  <2>2. R \in SUBSET Ids /\ a \in R /\ Leads(cu, R)
    BY <1>2, <1>4, <2>1, PathLeads DEF Leads
  <2>3. c \notin Path(cu, a)
    BY <2>1, <2>2, PathWithin
  <2>. QED BY <1>1, <2>3, PathGrows, PathLeads
<1>5. \A d \in Ids : cv[d].status = "merged" => cv[d].into \in Ids /\ Real(cv, cv[d].into)
  BY <1>1, <1>2 DEF Merges
<1>. QED BY <1>1, <1>2, <1>3, <1>4, <1>5 DEF Merges, Evolves

(***************************************************************************)
(* What the table must be, and what each write of the service makes of it. *)
(***************************************************************************)
Customer == [status : {"unused", "active", "merged", "deleted"},
             into : Ids \cup {None}, clues : SUBSET Clues]

GoodTable(cu) ==
    /\ cu \in [Ids -> Customer]
    /\ Unique(cu) /\ \A c \in Ids : OnePerKind(cu[c].clues)
    /\ \A c \in Ids : ~Real(cu, c) => cu[c].clues = {}
    /\ \A c \in Ids : cu[c].into # None => Real(cu, cu[c].into)

LEMMA GoodIsNamed == ASSUME NEW cu, GoodTable(cu) PROVE Named(cu)
BY DEF GoodTable, Customer, Named

\* Following merges never leaves the customers that exist.
LEMMA EndIsReal ==
    ASSUME IsFiniteSet(Ids), NEW cu, GoodTable(cu), NEW c \in Ids, Real(cu, c)
    PROVE  Real(cu, EndOf(cu, c))
<1>1. PICK B : B = {s \in SUBSET Ids : \E d \in Ids : Real(cu, d) /\ ~Real(cu, Solution(cu)[s][d])}
  OBVIOUS
<1>2. Named(cu)
  BY GoodIsNamed
<1>3. ASSUME NEW s \in B PROVE \E d \in Ids \ s : s \cup {d} \in B
  <2>1. s \in SUBSET Ids
    BY <1>1
  <2>2. PICK d \in Ids : Real(cu, d) /\ ~Real(cu, Solution(cu)[s][d])
    BY <1>1
  <2>3. Solution(cu)[s][d] # d
    BY <2>2
  <2>4. /\ Follows(cu, d) /\ d \notin s
        /\ Solution(cu)[s][d] = Solution(cu)[s \cup {d}][cu[d].into]
    BY <1>2, <2>1, <2>3, Unfold
  <2>5. cu[d].into \in Ids /\ Real(cu, cu[d].into)
    BY <1>2, <2>4 DEF Named, Follows, GoodTable
  <2>. QED BY <1>1, <2>1, <2>2, <2>4, <2>5
<1>4. B = {}
  <2>1. B \in SUBSET SUBSET Ids
    BY <1>1
  <2>. QED BY <1>3, <2>1, NothingBeyondAll
<1>. QED BY <1>1, <1>4 DEF EndOf

\* A clue owned by c alone, or by nobody, is in no other record.
LEMMA OwnedElsewhere ==
    ASSUME NEW c \in Ids, NEW d \in Ids, c # d, NEW x, Owners(x) \subseteq {c}
    PROVE  x \notin customer[d].clues
BY DEF Owners

LEMMA EnrichedTable ==
    ASSUME GoodTable(customer), NEW c \in Ids, Real(customer, c), NEW seen, NEW o \in Orders
    PROVE  GoodTable(Enriched(c, seen, o)) /\ SameTree(customer, Enriched(c, seen, o))
<1>1. PICK added : added = {x \in OrderClues[o] :
                              KindOf[x] \notin Kinds(seen) /\ Owners(x) \subseteq {c}}
  OBVIOUS
<1>2. PICK kept : kept = {x \in customer[c].clues : KindOf[x] \notin Kinds(added)}
  OBVIOUS
<1>3. PICK cv : cv = Enriched(c, seen, o)
  OBVIOUS
<1>4. cv = [customer EXCEPT ![c].clues = kept \cup added]
  BY <1>1, <1>2, <1>3 DEF Enriched
<1>5. added \subseteq Clues /\ OnePerKind(added)
  BY <1>1, CluesAssumption DEF OnePerKind
<1>6. kept \subseteq customer[c].clues /\ kept \subseteq Clues
  BY <1>2 DEF GoodTable, Customer
<1>7. cv \in [Ids -> Customer]
  BY <1>4, <1>5, <1>6 DEF GoodTable, Customer
<1>8. /\ cv[c].clues = kept \cup added
      /\ \A d \in Ids \ {c} : cv[d] = customer[d]
      /\ \A d \in Ids : cv[d].status = customer[d].status /\ cv[d].into = customer[d].into
  BY <1>4 DEF GoodTable, Customer
<1>9. \A d \in Ids \ {c} : cv[d].clues \cap cv[c].clues = {}
  <2>1. \A d \in Ids \ {c} : customer[d].clues \cap customer[c].clues = {}
    BY DEF GoodTable, Unique
  <2>2. \A d \in Ids \ {c} : customer[d].clues \cap added = {}
    BY <1>1, OwnedElsewhere
  <2>. QED BY <1>6, <1>8, <2>1, <2>2
<1>10. Unique(cv)
  BY <1>8, <1>9 DEF Unique, GoodTable
<1>11. OnePerKind(kept \cup added)
  <2>1. \A x, y \in kept : KindOf[x] = KindOf[y] => x = y
    BY <1>6 DEF GoodTable, OnePerKind
  <2>2. \A x \in kept, y \in added : KindOf[x] # KindOf[y]
    BY <1>2 DEF Kinds
  <2>. QED BY <1>5, <2>1, <2>2 DEF OnePerKind
<1>12. \A d \in Ids : OnePerKind(cv[d].clues)
  BY <1>8, <1>11 DEF GoodTable
<1>13. \A d \in Ids : ~Real(cv, d) => cv[d].clues = {}
  BY <1>8 DEF GoodTable, Real
<1>14. \A d \in Ids : cv[d].into # None => Real(cv, cv[d].into)
  BY <1>8 DEF GoodTable, Customer, Real
<1>. QED BY <1>3, <1>7, <1>8, <1>10, <1>12, <1>13, <1>14 DEF GoodTable, SameTree, SameAt

LEMMA CreatedTable ==
    ASSUME GoodTable(customer), NEW n \in Ids, customer[n].status = "unused",
           NEW clues \in SUBSET Clues, OnePerKind(clues), \A x \in clues : Owners(x) = {}
    PROVE  GoodTable(Created(n, clues)) /\ NewRoot(customer, Created(n, clues), n)
<1>1. PICK cv : cv = Created(n, clues)
  OBVIOUS
<1>2. cv = [customer EXCEPT ![n] = [status |-> "active", into |-> None, clues |-> clues]]
  BY <1>1 DEF Created
<1>3. /\ cv[n] = [status |-> "active", into |-> None, clues |-> clues]
      /\ \A d \in Ids \ {n} : cv[d] = customer[d]
      /\ cv \in [Ids -> Customer]
  BY <1>2 DEF GoodTable, Customer
<1>4. \A d \in Ids \ {n} : customer[d].clues \cap clues = {}
  BY OwnedElsewhere
<1>5. Unique(cv)
  BY <1>3, <1>4 DEF Unique, GoodTable
<1>6. \A d \in Ids : OnePerKind(cv[d].clues) /\ (~Real(cv, d) => cv[d].clues = {})
  BY <1>3 DEF GoodTable, Real
<1>7. NewRoot(customer, cv, n)
  BY <1>3 DEF NewRoot, SameAt
<1>8. \A d \in Ids : cv[d].into # None => Real(cv, cv[d].into)
  <2>. SUFFICES ASSUME NEW d \in Ids, cv[d].into # None PROVE Real(cv, cv[d].into)
    OBVIOUS
  <2>1. d # n /\ cv[d].into = customer[d].into /\ customer[d].into \in Ids
    BY <1>3 DEF GoodTable, Customer
  <2>2. Real(customer, customer[d].into) /\ customer[d].into # n
    BY <2>1 DEF GoodTable, Real
  <2>. QED BY <1>3, <2>1, <2>2 DEF Real
<1>. QED BY <1>1, <1>3, <1>5, <1>6, <1>7, <1>8 DEF GoodTable

LEMMA MergedTable ==
    ASSUME GoodTable(customer), NEW s \in Ids, NEW t \in Ids, Real(customer, s), Real(customer, t),
           NEW sSeen \in SUBSET Clues, NEW tSeen, OnePerKind(sSeen),
           Unique(Merged(s, sSeen, t, tSeen))
    PROVE  /\ GoodTable(Merged(s, sSeen, t, tSeen))
           /\ s # t /\ customer[s].status = "active" /\ customer[t].status = "active"
                => Joined(customer, Merged(s, sSeen, t, tSeen), s, t)
           /\ Merged(s, sSeen, t, tSeen)[s].status = "merged"
           /\ Merged(s, sSeen, t, tSeen)[s].into = t
           /\ Real(Merged(s, sSeen, t, tSeen), t)
<1>1. PICK moved : moved = {x \in sSeen : KindOf[x] \notin Kinds(tSeen)}
  OBVIOUS
<1>. DEFINE without(clues) == {x \in clues : KindOf[x] \notin Kinds(moved)}
<1>2. PICK given : given = [customer EXCEPT ![s].clues = without(@)]
  OBVIOUS
<1>3. PICK taken : taken = [given EXCEPT ![t].clues = without(@) \cup moved]
  OBVIOUS
<1>4. PICK cv : cv = Merged(s, sSeen, t, tSeen)
  OBVIOUS
<1>5. cv = [taken EXCEPT ![s].status = "merged", ![s].into = t]
  BY <1>1, <1>2, <1>3, <1>4 DEF Merged
<1>6. moved \subseteq Clues /\ OnePerKind(moved)
  BY <1>1 DEF OnePerKind
<1>7. /\ given \in [Ids -> Customer]
      /\ given[s].clues = without(customer[s].clues)
      /\ given[s].status = customer[s].status /\ given[s].into = customer[s].into
      /\ \A d \in Ids \ {s} : given[d] = customer[d]
  BY <1>2 DEF GoodTable, Customer
<1>8. /\ taken \in [Ids -> Customer]
      /\ taken[t].clues = without(given[t].clues) \cup moved
      /\ taken[t].status = given[t].status /\ taken[t].into = given[t].into
      /\ \A d \in Ids \ {t} : taken[d] = given[d]
  BY <1>3, <1>6, <1>7 DEF Customer
<1>9. /\ cv \in [Ids -> Customer]
      /\ cv[s].clues = taken[s].clues /\ cv[s].status = "merged" /\ cv[s].into = t
      /\ \A d \in Ids \ {s} : cv[d] = taken[d]
  BY <1>5, <1>8 DEF Customer
<1>10. \A d \in Ids : given[d].clues \subseteq customer[d].clues
  BY <1>7
<1>11. \A d \in Ids : OnePerKind(given[d].clues)
  BY <1>10 DEF GoodTable, OnePerKind
<1>12. OnePerKind(without(given[t].clues) \cup moved)
  <2>1. \A x \in without(given[t].clues), y \in moved : KindOf[x] # KindOf[y]
    BY DEF Kinds
  <2>2. OnePerKind(without(given[t].clues))
    BY <1>11 DEF OnePerKind
  <2>. HIDE DEF without
  <2>. QED BY <1>6, <2>1, <2>2 DEF OnePerKind
<1>. HIDE DEF without
<1>13. \A d \in Ids : OnePerKind(cv[d].clues)
  <2>1. \A d \in Ids : OnePerKind(taken[d].clues)
    BY <1>8, <1>11, <1>12
  <2>. QED BY <1>9, <2>1
<1>14. \A d \in Ids : ~Real(cv, d) => cv[d].clues = {}
  <2>. TAKE d \in Ids
  <2>1. CASE d = s
    BY <1>9, <2>1 DEF Real
  <2>2. CASE d = t /\ d # s
    BY <1>7, <1>8, <1>9, <2>2 DEF Real
  <2>3. CASE d # t /\ d # s
    BY <1>7, <1>8, <1>9, <2>3 DEF Real, GoodTable
  <2>. QED BY <2>1, <2>2, <2>3
<1>15. \A d \in Ids : Real(customer, d) => Real(cv, d)
  BY <1>7, <1>8, <1>9 DEF Real
<1>16. \A d \in Ids : cv[d].into # None => Real(cv, cv[d].into)
  <2>. SUFFICES ASSUME NEW d \in Ids, cv[d].into # None PROVE Real(cv, cv[d].into)
    OBVIOUS
  <2>1. CASE d = s
    BY <1>9, <1>15, <2>1
  <2>2. CASE d # s
    <3>1. cv[d].into = customer[d].into /\ customer[d].into \in Ids
      BY <1>7, <1>8, <1>9, <2>2 DEF GoodTable, Customer
    <3>. QED BY <1>15, <3>1 DEF GoodTable
  <2>. QED BY <2>1, <2>2
<1>17. GoodTable(cv)
  BY <1>4, <1>9, <1>13, <1>14, <1>16 DEF GoodTable
<1>18. ASSUME s # t, customer[s].status = "active", customer[t].status = "active"
       PROVE  Joined(customer, cv, s, t)
  BY <1>7, <1>8, <1>9, <1>18 DEF Joined, SameAt
<1>. QED BY <1>4, <1>9, <1>15, <1>17, <1>18

LEMMA EditedTable ==
    ASSUME GoodTable(customer), NEW c \in Ids, Real(customer, c),
           NEW clues \in SUBSET Clues, OnePerKind(clues),
           Unique([customer EXCEPT ![c].clues = clues])
    PROVE  /\ GoodTable([customer EXCEPT ![c].clues = clues])
           /\ SameTree(customer, [customer EXCEPT ![c].clues = clues])
<1>1. PICK cv : cv = [customer EXCEPT ![c].clues = clues]
  OBVIOUS
<1>2. /\ cv \in [Ids -> Customer] /\ cv[c].clues = clues
      /\ \A d \in Ids \ {c} : cv[d] = customer[d]
      /\ \A d \in Ids : cv[d].status = customer[d].status /\ cv[d].into = customer[d].into
  BY <1>1 DEF GoodTable, Customer
<1>3. \A d \in Ids : cv[d].into # None => Real(cv, cv[d].into)
  BY <1>2 DEF GoodTable, Customer, Real
<1>. QED BY <1>1, <1>2, <1>3 DEF GoodTable, Real, SameTree, SameAt

Erased(c) ==
    [d \in Ids |-> IF d = c THEN [status |-> "deleted", into |-> None, clues |-> {}]
                   ELSE [customer[d] EXCEPT !.into = IF @ = c THEN None ELSE @]]

LEMMA ErasedTable ==
    ASSUME GoodTable(customer), NEW c \in Ids, Real(customer, c)
    PROVE  /\ GoodTable(Erased(c))
           /\ (\A d \in Ids : customer[d].into # c) => Cut(customer, Erased(c), c)
<1>1. PICK cv : cv = Erased(c)
  OBVIOUS
<1>2. cv[c] = [status |-> "deleted", into |-> None, clues |-> {}]
  BY <1>1 DEF Erased
<1>3. ASSUME NEW d \in Ids \ {c}
      PROVE  /\ cv[d].status = customer[d].status /\ cv[d].clues = customer[d].clues
             /\ cv[d].into = IF customer[d].into = c THEN None ELSE customer[d].into
             /\ cv[d] \in Customer
  BY <1>1 DEF Erased, GoodTable, Customer
<1>4. cv \in [Ids -> Customer]
  <2>1. cv[c] \in Customer
    BY <1>2 DEF Customer
  <2>. QED BY <1>1, <1>3, <2>1 DEF Erased
<1>5. \A d \in Ids : cv[d].clues \subseteq customer[d].clues
  BY <1>2, <1>3
<1>6. Unique(cv) /\ \A d \in Ids : OnePerKind(cv[d].clues)
  BY <1>5 DEF GoodTable, Unique, OnePerKind
<1>7. \A d \in Ids : ~Real(cv, d) => cv[d].clues = {}
  BY <1>2, <1>3 DEF GoodTable, Real
<1>8. (\A d \in Ids : customer[d].into # c) => Cut(customer, cv, c)
  BY <1>2, <1>3 DEF Cut, SameAt
<1>9. \A d \in Ids : cv[d].into # None => Real(cv, cv[d].into)
  <2>. SUFFICES ASSUME NEW d \in Ids, cv[d].into # None PROVE Real(cv, cv[d].into)
    OBVIOUS
  <2>1. d # c /\ cv[d].into = customer[d].into /\ customer[d].into \in Ids \ {c}
    BY <1>2, <1>3 DEF GoodTable, Customer
  <2>. QED BY <1>3, <2>1 DEF GoodTable, Real
<1>. QED BY <1>1, <1>4, <1>6, <1>7, <1>8, <1>9 DEF GoodTable

LEMMA NewIdUnused ==
    ASSUME HasNewId
    PROVE  NewId \in Ids /\ customer[NewId].status = "unused"
BY DEF HasNewId, NewId

(***************************************************************************)
(* Where every call stands: what it holds, and what has become of the      *)
(* order it is for.                                                        *)
(***************************************************************************)
\* The conflict of the order has its answer, or had it before the order entered.
Decided(o) == o \in early \/ (o \in Placed /\ conflict[o] \notin {"none", "open"})

Course(k) ==
    LET r == call[k]
    IN  /\ r.op = "create" <=> r.step \in {"write", "enter"}
        /\ r.op = "create" => r.order \in Orders /\ link[r.order] = NotPlaced
        /\ r.step = "enter" /\ r.held = None => conflict[r.order] = "open" \/ r.order \in early
        /\ r.step = "commit" => /\ r.held \in Ids /\ r.other \in Ids
                                /\ OnePerKind(r.seen) /\ OnePerKind(r.otherSeen)
        /\ r.step = "reassign" => r.held \in Ids /\ r.other \in Ids
        /\ r.step = "mark" => /\ r.order \in Orders /\ r.op \in {"ignore", "assign"}
                              /\ r.op = "assign" => r.held \in Ids
                              /\ r.op = "ignore" => r.held = None
        /\ r.step = "apply" => r.order \in Orders
        /\ r.step \in {"reassign", "apply"} /\ r.order # None => Decided(r.order)
        /\ r.step = "store" => r.held \in Ids /\ OnePerKind(r.seen)
        /\ r.step = "erase" => r.held \in Ids /\ r.other = r.held

\* An order is created by one call at a time, and no call is served while the API
\* starts.
Courses ==
    /\ \A k \in Calls : Course(k)
    /\ \A j, k \in Calls :
          call[j].op = "create" /\ call[k].op = "create" /\ call[j].order = call[k].order
             => j = k
    /\ todo # {} => \A k \in Calls : call[k] = Idle

Links == {NotPlaced, InConflict, Unlinked} \cup {Linked(c) : c \in Ids}
Typed ==
    /\ GoodTable(customer)
    /\ conflict \in [Orders -> {"none", "open", "ignored", "resolved", "merged"}]
    /\ link \in [Orders -> Links]
    /\ call \in [Calls -> Record]
    /\ todo \subseteq Placed
    /\ assigned \in [Orders -> Ids \cup {None}]

Base == Typed /\ Courses

LEMMA TypedIsTypeOK == Typed => TypeOK
BY DEF Typed, TypeOK, GoodTable, Customer, Links

LEMMA Fields ==
    ASSUME NEW r \in Record
    PROVE  /\ r.order \in Orders \cup {None} /\ r.found \subseteq Ids
           /\ r.held \in Ids \cup {None} /\ r.seen \subseteq Clues
           /\ r.other \in Ids \cup {None} /\ r.otherSeen \subseteq Clues
BY DEF Record

LEMMA IdleFields ==
    /\ Idle \in Record /\ Idle.op = "none" /\ Idle.step = "none" /\ Idle.order = None
    /\ Idle.held = None /\ Idle.other = None
BY DEF Idle, Record

Steps == {"none", "write", "enter", "commit", "reassign", "mark", "apply", "store", "erase"}

LEMMA Turn ==
    ASSUME call \in [Calls -> Record], NEW k \in Calls, NEW r \in Record,
           call' = [call EXCEPT ![k] = r]
    PROVE  /\ call' \in [Calls -> Record] /\ call'[k] = r
           /\ \A j \in Calls \ {k} : call'[j] = call[j]
OBVIOUS

LEMMA Acting ==
    ASSUME Base, NEW k \in Calls, call[k].step # "none"
    PROVE  todo = {}
BY IdleFields DEF Base, Courses

\* What the orders keep for the calls that are for them.
Forward == \A o \in Orders : Decided(o) => Decided(o)'
Out(o) == link[o] = NotPlaced
Opened(o) == conflict[o] = "open" \/ o \in early
StillOut(o) == Out(o) => Out(o)' /\ (Opened(o) => Opened(o)')

LEMMA SameOrders ==
    ASSUME UNCHANGED <<link, conflict, early>>
    PROVE  Forward /\ \A o \in Orders : StillOut(o)
BY DEF Forward, StillOut, Decided, Placed, Out, Opened

LEMMA CourseKept ==
    ASSUME NEW k \in Calls, Course(k), call'[k] = call[k], call[k] \in Record, Forward,
           call[k].op = "create" => StillOut(call[k].order)
    PROVE  Course(k)'
<1>1. PICK o : o = call[k].order /\ o = call'[k].order
  OBVIOUS
<1>2. o # None => o \in Orders
  BY <1>1, Fields
<1>3. o # None /\ Decided(o) => Decided(o)'
  BY <1>2 DEF Forward
<1>4. call'[k].step \in {"reassign", "apply"} /\ o # None => Decided(o)'
  BY <1>1, <1>3 DEF Course
<1>5. call'[k].step \in {"reassign", "apply"} /\ call'[k].order # None => Decided(call[k].order)'
  BY <1>1, <1>4 DEF Decided
<1>6. call'[k].op = "create" => Out(call[k].order)' /\ (Opened(call[k].order) => Opened(call[k].order)')
  BY DEF Course, StillOut, Out, Opened
<1>. QED BY <1>5, <1>6 DEF Course, Out, Opened

LEMMA CoursesStep ==
    ASSUME Base, call' \in [Calls -> Record], todo = {}, todo' = {},
           NEW k \in Calls, \A j \in Calls \ {k} : call'[j] = call[j],
           Forward, \A j \in Calls \ {k} : call[j].op = "create" => StillOut(call[j].order),
           Course(k)',
           call'[k].op = "create" =>
              \A j \in Calls \ {k} : call[j].op = "create" => call[j].order # call'[k].order
    PROVE  Courses'
<1>1. ASSUME NEW j \in Calls \ {k} PROVE Course(j)'
  BY CourseKept DEF Base, Typed, Courses
<1>2. \A j \in Calls : Course(j)'
  BY <1>1
<1>3. \A i, j \in Calls :
         call'[i].op = "create" /\ call'[j].op = "create" /\ call'[i].order = call'[j].order
            => i = j
  <2>. SUFFICES ASSUME NEW i \in Calls, NEW j \in Calls, call'[i].op = "create",
                       call'[j].op = "create", call'[i].order = call'[j].order, i # j
                PROVE  FALSE
    OBVIOUS
  <2>1. CASE i = k
    BY <2>1
  <2>2. CASE j = k
    BY <2>2
  <2>3. CASE i # k /\ j # k
    BY <2>3 DEF Base, Courses
  <2>. QED BY <2>1, <2>2, <2>3
<1>. QED BY <1>2, <1>3 DEF Courses

\* A call that goes on for the same order, or ends, is no new creation.
LEMMA CreationsApart ==
    ASSUME Base, NEW k \in Calls, NEW r,
           r.op = "create" => call[k].op = "create" /\ r.order = call[k].order
    PROVE  r.op = "create" =>
              \A j \in Calls \ {k} : call[j].op = "create" => call[j].order # r.order
BY DEF Base, Courses

\* An idle call begins.
LEMMA Starts ==
    ASSUME Base, NEW k \in Calls, NEW r \in Record, Begin(k, r),
           UNCHANGED <<customer, conflict, link, todo, assigned, early>>, Course(k)',
           r.op = "create" => \A j \in Calls : ~(call[j].op = "create" /\ call[j].order = r.order)
    PROVE  Base'
<1>1. call' \in [Calls -> Record] /\ call'[k] = r /\ \A j \in Calls \ {k} : call'[j] = call[j]
  BY Turn DEF Begin, Base, Typed
<1>2. Forward /\ \A o \in Orders : StillOut(o)
  BY SameOrders
<1>3. \A j \in Calls : call[j].op = "create" => StillOut(call[j].order)
  BY <1>2 DEF Base, Courses, Course
<1>4. Courses'
  BY <1>1, <1>2, <1>3, CoursesStep DEF Begin, Serving
<1>5. Typed'
  BY <1>1 DEF Base, Typed, Placed
<1>. QED BY <1>4, <1>5 DEF Base

\* A call goes on or ends.
LEMMA GoesOn ==
    ASSUME Base, NEW k \in Calls, NEW r \in Record, call[k].step # "none",
           call' = [call EXCEPT ![k] = r], UNCHANGED todo,
           Forward, \A o \in Orders : o = call[k].order \/ StillOut(o),
           call[k].op = "create" \/ \A o \in Orders : StillOut(o),
           Course(k)', r.op = "create" => call[k].op = "create" /\ r.order = call[k].order
    PROVE  Courses' /\ call' \in [Calls -> Record] /\ todo' = {}
<1>1. call' \in [Calls -> Record] /\ call'[k] = r /\ \A j \in Calls \ {k} : call'[j] = call[j]
  BY Turn DEF Base, Typed
<1>2. todo = {}
  BY Acting
<1>3. r.op = "create" =>
        \A j \in Calls \ {k} : call[j].op = "create" => call[j].order # r.order
  BY CreationsApart
<1>4. ASSUME NEW j \in Calls \ {k}, call[j].op = "create" PROVE StillOut(call[j].order)
  <2>1. call[j].order \in Orders
    BY <1>4 DEF Base, Courses, Course
  <2>2. call[k].op = "create" => call[j].order # call[k].order
    BY <1>4 DEF Base, Courses
  <2>. QED BY <2>1, <2>2
<1>. QED BY <1>1, <1>2, <1>3, <1>4, CoursesStep

LEMMA IdleCourse ==
    ASSUME NEW k \in Calls, call'[k] = Idle
    PROVE  Course(k)'
BY IdleFields DEF Course

\* A call ends, and what it did is no concern of the calls for other orders.
LEMMA Ends ==
    ASSUME Base, NEW k \in Calls, call[k].step # "none", Finish(k), UNCHANGED todo,
           Forward, \A o \in Orders : o = call[k].order \/ StillOut(o),
           call[k].op = "create" \/ \A o \in Orders : StillOut(o)
    PROVE  Courses' /\ call' \in [Calls -> Record] /\ todo' = {}
<1>1. call' = [call EXCEPT ![k] = Idle] /\ call'[k] = Idle
  BY DEF Finish, Base, Typed
<1>2. Course(k)'
  BY <1>1, IdleCourse
<1>. QED BY <1>1, <1>2, IdleFields, GoesOn

----------------------------------------------------------------------------
LEMMA ActiveType ==
    ASSUME IsFiniteSet(Ids), Base, NEW c \in Ids
    PROVE  ActiveOf(c) \in Ids /\ customer[ActiveOf(c)].clues \subseteq Clues
           /\ OnePerKind(customer[ActiveOf(c)].clues)
<1>1. ActiveOf(c) \in Ids
  BY ActiveIsEnd, GoodIsNamed, EndType DEF Base, Typed
<1>. QED BY <1>1 DEF Base, Typed, GoodTable, Customer

LEMMA CandidatesType ==
    ASSUME IsFiniteSet(Ids), Base, NEW o \in Orders
    PROVE  /\ Candidates(o) \subseteq Ids
           /\ UNION {customer[c].clues : c \in Candidates(o)} \subseteq Clues
<1>1. Candidates(o) \subseteq Ids
  BY ActiveType DEF Candidates, Owners
<1>2. \A c \in Ids : customer[c].clues \subseteq Clues
  BY DEF Base, Typed, GoodTable, Customer
<1>. QED BY <1>1, <1>2

LEMMA BaseResolve ==
    ASSUME IsFiniteSet(Ids), Base, NEW k \in Calls, NEW o \in Orders,
           resolveCustomerFromOrderSnapshot(k, o)
    PROVE  Base'
<1>1. PICK r : r = [Idle EXCEPT !.op = "create", !.step = "write", !.order = o,
                             !.found = Candidates(o),
                             !.seen = UNION {customer[c].clues : c \in Candidates(o)}]
  OBVIOUS
<1>2. r \in Record /\ r.op = "create" /\ r.step = "write" /\ r.order = o
  BY <1>1, CandidatesType DEF Idle, Record
<1>3. Begin(k, r) /\ UNCHANGED <<customer, conflict, link, todo, assigned, early>>
  BY <1>1 DEF resolveCustomerFromOrderSnapshot, rows, history
<1>4. call'[k] = r
  BY <1>2, <1>3, Turn DEF Begin, Base, Typed
<1>5. Course(k)'
  BY <1>2, <1>3, <1>4 DEF Course, resolveCustomerFromOrderSnapshot
<1>6. \A j \in Calls : ~(call[j].op = "create" /\ call[j].order = r.order)
  BY <1>2 DEF resolveCustomerFromOrderSnapshot
<1>. QED BY <1>2, <1>3, <1>5, <1>6, Starts

LEMMA MergeRequestType ==
    ASSUME IsFiniteSet(Ids), Base, NEW s \in Ids, NEW t \in Ids, NEW o \in Orders \cup {None},
           NEW r, r = MergeRequest(s, t, o)
    PROVE  /\ r \in Record /\ r.op = "merge" /\ r.step = "commit" /\ r.order = o
           /\ r.held = ActiveOf(s) /\ r.other = ActiveOf(t)
           /\ r.seen = customer[ActiveOf(s)].clues /\ r.otherSeen = customer[ActiveOf(t)].clues
BY ActiveType DEF MergeRequest, Record

LEMMA BaseMergeStarts ==
    ASSUME IsFiniteSet(Ids), Base, NEW k \in Calls, NEW s \in Ids, NEW t \in Ids,
           NEW o \in Orders \cup {None}, Begin(k, MergeRequest(s, t, o)),
           UNCHANGED <<rows, link, todo, history>>
    PROVE  Base'
<1>1. PICK r : r = MergeRequest(s, t, o)
  OBVIOUS
<1>2. /\ r \in Record /\ r.op = "merge" /\ r.step = "commit"
      /\ r.held = ActiveOf(s) /\ r.other = ActiveOf(t)
      /\ r.seen = customer[ActiveOf(s)].clues /\ r.otherSeen = customer[ActiveOf(t)].clues
  BY <1>1, MergeRequestType
<1>3. Begin(k, r) /\ UNCHANGED <<customer, conflict, link, todo, assigned, early>>
  BY <1>1 DEF rows, history
<1>4. call'[k] = r
  BY <1>2, <1>3, Turn DEF Begin, Base, Typed
<1>5. r.held \in Ids /\ r.other \in Ids /\ OnePerKind(r.seen) /\ OnePerKind(r.otherSeen)
  BY <1>2, ActiveType
<1>6. Course(k)'
  BY <1>2, <1>4, <1>5 DEF Course
<1>. QED BY <1>2, <1>3, <1>6, Starts

LEMMA BaseIgnoreStarts ==
    ASSUME Base, NEW k \in Calls, NEW o \in Orders, DecideIgnore(k, o)
    PROVE  Base'
<1>1. PICK r : r = [Idle EXCEPT !.op = "ignore", !.step = "mark", !.order = o]
  OBVIOUS
<1>2. r \in Record /\ r.op = "ignore" /\ r.step = "mark" /\ r.order = o /\ r.held = None
  BY <1>1 DEF Idle, Record
<1>3. Begin(k, r) /\ UNCHANGED <<customer, conflict, link, todo, assigned, early>>
  BY <1>1 DEF DecideIgnore, rows, history
<1>4. call'[k] = r
  BY <1>2, <1>3, Turn DEF Begin, Base, Typed
<1>5. Course(k)'
  BY <1>2, <1>4 DEF Course
<1>. QED BY <1>2, <1>3, <1>5, Starts

LEMMA BaseAssignStarts ==
    ASSUME IsFiniteSet(Ids), Base, NEW k \in Calls, NEW o \in Orders, NEW w \in Ids,
           DecideAssign(k, o, w)
    PROVE  Base'
<1>1. PICK r : r = [Idle EXCEPT !.op = "assign", !.step = "mark", !.order = o,
                             !.held = ActiveOf(w),
                             !.seen = customer[ActiveOf(w)].clues]
  OBVIOUS
<1>2. r \in Record /\ r.op = "assign" /\ r.step = "mark" /\ r.order = o /\ r.held \in Ids
  BY <1>1, ActiveType DEF Idle, Record
<1>3. Begin(k, r) /\ UNCHANGED <<customer, conflict, link, todo, assigned, early>>
  BY <1>1 DEF DecideAssign, rows, history
<1>4. call'[k] = r
  BY <1>2, <1>3, Turn DEF Begin, Base, Typed
<1>5. Course(k)'
  BY <1>2, <1>4 DEF Course
<1>. QED BY <1>2, <1>3, <1>5, Starts

LEMMA BaseEditStarts ==
    ASSUME Base, NEW k \in Calls, NEW c \in Ids, NEW clues \in Contacts, updateCustomer(k, c, clues)
    PROVE  Base'
<1>1. PICK r : r = [Idle EXCEPT !.op = "edit", !.step = "store", !.held = c, !.seen = clues]
  OBVIOUS
<1>2. clues \in SUBSET Clues /\ OnePerKind(clues)
  BY DEF Contacts
<1>3. r \in Record /\ r.op = "edit" /\ r.step = "store" /\ r.held = c /\ r.seen = clues
  BY <1>1, <1>2 DEF Idle, Record
<1>4. Begin(k, r) /\ UNCHANGED <<customer, conflict, link, todo, assigned, early>>
  BY <1>1 DEF updateCustomer, rows, history
<1>5. call'[k] = r
  BY <1>3, <1>4, Turn DEF Begin, Base, Typed
<1>6. Course(k)'
  BY <1>2, <1>3, <1>5 DEF Course
<1>. QED BY <1>3, <1>4, <1>6, Starts

LEMMA BaseDeleteStarts ==
    ASSUME Base, NEW k \in Calls, NEW c \in Ids, deleteCustomer(k, c)
    PROVE  Base'
<1>1. PICK r : r = [Idle EXCEPT !.op = "delete", !.step = "erase", !.held = c,
                             !.other = IF Unreferenced(c) THEN c ELSE None]
  OBVIOUS
<1>2. Unreferenced(c)
  BY DEF deleteCustomer, Deletable
<1>3. r \in Record /\ r.op = "delete" /\ r.step = "erase" /\ r.held = c /\ r.other = c
  BY <1>1, <1>2 DEF Idle, Record
<1>4. Begin(k, r) /\ UNCHANGED <<customer, conflict, link, todo, assigned, early>>
  BY <1>1 DEF deleteCustomer, rows, history
<1>5. call'[k] = r
  BY <1>3, <1>4, Turn DEF Begin, Base, Typed
<1>6. Course(k)'
  BY <1>3, <1>5 DEF Course
<1>. QED BY <1>3, <1>4, <1>6, Starts

----------------------------------------------------------------------------
\* Steps of a call.  What call[k] becomes, and that Base is kept.
Moved(k, r) ==
    /\ call'[k] = r /\ r \in Record
    /\ call' \in [Calls -> Record]
    /\ \A j \in Calls \ {k} : call'[j] = call[j]

\* r is call[k], gone on to another step with another customer.
Given(k, r, step, held) ==
    /\ call' = [call EXCEPT ![k] = r] /\ Moved(k, r)
    /\ r.step = step /\ r.held = held
    /\ r.op = call[k].op /\ r.order = call[k].order /\ r.other = call[k].other
    /\ r.seen = call[k].seen /\ r.otherSeen = call[k].otherSeen

LEMMA GivesStep ==
    ASSUME Base, NEW k \in Calls, NEW step \in Steps, NEW held \in Ids \cup {None},
           \/ Give(k, [call[k] EXCEPT !.step = step, !.held = held])
           \/ Give(k, [call[k] EXCEPT !.step = step]) /\ held = call[k].held
    PROVE  \E r \in Record : Given(k, r, step, held)
<1>1. call[k] \in Record /\ call \in [Calls -> Record]
  BY DEF Base, Typed
<1>. PICK x \in Record : x = call[k]
  BY <1>1
<1>2. PICK r : /\ call' = [call EXCEPT ![k] = r]
               /\ \/ r = [x EXCEPT !.step = step, !.held = held]
                  \/ r = [x EXCEPT !.step = step] /\ held = x.held
  BY DEF Give
<1>3. /\ r \in Record /\ r.step = step /\ r.held = held
      /\ r.op = x.op /\ r.order = x.order /\ r.other = x.other
      /\ r.seen = x.seen /\ r.otherSeen = x.otherSeen
  <2>1. CASE r = [x EXCEPT !.step = step, !.held = held]
    BY ONLY <2>1, x \in Record, step \in Steps, held \in Ids \cup {None} DEF Record, Steps
  <2>2. CASE r = [x EXCEPT !.step = step] /\ held = x.held
    BY ONLY <2>2, x \in Record, step \in Steps, held \in Ids \cup {None} DEF Record, Steps
  <2>. QED BY <1>2, <2>1, <2>2
<1>4. Moved(k, r)
  BY <1>1, <1>2, <1>3, Turn DEF Moved
<1>. QED BY <1>2, <1>3, <1>4 DEF Given

LEMMA Creating ==
    ASSUME Base, NEW k \in Calls, call[k].step \in {"write", "enter"}
    PROVE  /\ call[k].op = "create" /\ call[k].order \in Orders
           /\ link[call[k].order] = NotPlaced /\ call[k].order \notin Placed
BY DEF Base, Courses, Course, Placed, NotPlaced

LEMMA BaseOpenConflict ==
    ASSUME Base, NEW k \in Calls, OpenConflict(k)
    PROVE  Base'
<1>1. PICK o \in Orders : o = call[k].order
  BY Creating DEF OpenConflict, At
<1>2. call[k].step = "write" /\ call[k].op = "create" /\ link[o] = NotPlaced /\ o \notin Placed
  BY <1>1, Creating DEF OpenConflict, At
<1>3. PICK r \in Record : /\ call' = [call EXCEPT ![k] = r] /\ Moved(k, r)
                          /\ r.step = "enter" /\ r.held = None
                          /\ r.op = "create" /\ r.order = o
  <2>1. Give(k, [call[k] EXCEPT !.step = "enter", !.held = None]) /\ "enter" \in Steps
    BY DEF OpenConflict, Steps
  <2>2. PICK r \in Record : Given(k, r, "enter", None)
    BY <2>1, GivesStep
  <2>. QED BY <1>1, <1>2, <2>2 DEF Given
<1>4. /\ conflict' = [conflict EXCEPT ![o] = "open"]
      /\ UNCHANGED <<customer, link, todo, assigned, early>>
  BY <1>1 DEF OpenConflict, Reopened
<1>5. conflict'[o] = "open" /\ \A x \in Orders \ {o} : conflict'[x] = conflict[x]
  BY <1>4 DEF Base, Typed
<1>6. Forward /\ \A x \in Orders : StillOut(x)
  BY <1>2, <1>4, <1>5 DEF Forward, Decided, Placed, StillOut, Out, Opened
<1>7. Course(k)'
  BY <1>1, <1>2, <1>3, <1>4, <1>5 DEF Course, Moved
<1>8. Courses' /\ call' \in [Calls -> Record]
  BY <1>1, <1>2, <1>3, <1>4, <1>6, <1>7, GoesOn
<1>9. Typed'
  BY <1>4, <1>8 DEF Base, Typed, Placed
<1>. QED BY <1>8, <1>9 DEF Base

\* A step of a creation that writes the table and holds c from now on.
LEMMA BaseHolds ==
    ASSUME Base, NEW k \in Calls, call[k].step = "write", NEW c \in Ids,
           Give(k, [call[k] EXCEPT !.step = "enter", !.held = c]),
           UNCHANGED <<conflict, link, todo, assigned, early>>, GoodTable(customer')
    PROVE  Base'
<1>1. call[k].op = "create" /\ call[k].order \in Orders /\ link[call[k].order] = NotPlaced
  BY Creating
<1>2. PICK r \in Record : /\ call' = [call EXCEPT ![k] = r] /\ Moved(k, r)
                          /\ r.step = "enter" /\ r.held = c
                          /\ r.op = "create" /\ r.order = call[k].order
  <2>1. "enter" \in Steps
    BY DEF Steps
  <2>2. PICK r \in Record : Given(k, r, "enter", c)
    BY <2>1, GivesStep
  <2>. QED BY <1>1, <2>2 DEF Given
<1>3. Forward /\ \A x \in Orders : StillOut(x)
  BY SameOrders
<1>4. Course(k)'
  BY <1>1, <1>2, CluesAssumption DEF Course, Moved
<1>5. Courses' /\ call' \in [Calls -> Record]
  BY <1>1, <1>2, <1>3, <1>4, GoesOn
<1>6. Typed'
  BY <1>5 DEF Base, Typed, Placed
<1>. QED BY <1>5, <1>6 DEF Base

LEMMA UseEffect ==
    ASSUME IsFiniteSet(Ids), Base, NEW k \in Calls, UseCandidate(k)
    PROVE  /\ call[k].step = "write"
           /\ \E c \in Ids : /\ Exists(c)
                             /\ Give(k, [call[k] EXCEPT !.step = "enter", !.held = c])
                             /\ GoodTable(customer') /\ SameTree(customer, customer')
<1>1. call[k].step = "write" /\ call[k].order \in Orders
  BY Creating DEF UseCandidate, At
<1>2. PICK c \in call[k].found :
        /\ Exists(c) /\ customer' = Enriched(c, call[k].seen, call[k].order)
        /\ Give(k, [call[k] EXCEPT !.step = "enter", !.held = c])
  BY DEF UseCandidate
<1>3. c \in Ids
  BY Fields DEF Base, Typed
<1>4. GoodTable(customer') /\ SameTree(customer, customer')
  BY <1>1, <1>2, <1>3, EnrichedTable DEF Base, Typed, Exists, Real
<1>. QED BY <1>1, <1>2, <1>3, <1>4

LEMMA BaseUseCandidate ==
    ASSUME IsFiniteSet(Ids), Base, NEW k \in Calls, UseCandidate(k)
    PROVE  Base'
BY UseEffect, BaseHolds DEF UseCandidate, history

\* An owner of a clue exists.
LEMMA OwnersExist ==
    ASSUME Base, NEW x, NEW c \in Owners(x)
    PROVE  c \in Ids /\ Exists(c)
BY DEF Owners, Base, Typed, GoodTable, Exists, Real

LEMMA MaterializeEffect ==
    ASSUME Base, NEW k \in Calls, materializeCustomerFromOrder(k)
    PROVE  /\ call[k].step = "write"
           /\ \E c \in Ids : /\ Give(k, [call[k] EXCEPT !.step = "enter", !.held = c])
                             /\ GoodTable(customer') /\ Exists(c)'
                             /\ SameTree(customer, customer') \/ NewRoot(customer, customer', c)
<1>1. PICK o \in Orders : o = call[k].order
  BY Creating DEF materializeCustomerFromOrder, At
<1>2. call[k].step = "write"
  BY DEF materializeCustomerFromOrder, At
<1>3. CASE \E c \in ByContact(o) :
               /\ customer' = Enriched(c, customer[c].clues, o)
               /\ Give(k, [call[k] EXCEPT !.step = "enter", !.held = c])
  <2>1. PICK c \in ByContact(o) :
               /\ customer' = Enriched(c, customer[c].clues, o)
               /\ Give(k, [call[k] EXCEPT !.step = "enter", !.held = c])
    BY <1>3
  <2>2. c \in Ids /\ Exists(c)
    BY OwnersExist DEF ByContact
  <2>3. GoodTable(customer') /\ SameTree(customer, customer')
    BY <2>1, <2>2, EnrichedTable DEF Base, Typed, Exists, Real
  <2>4. Exists(c)'
    BY <2>2, <2>3 DEF SameTree, SameAt, Exists
  <2>. QED BY <1>2, <2>1, <2>2, <2>3, <2>4
<1>4. CASE /\ HasNewId
           /\ \A x \in OrderClues[o] : Owners(x) = {}
           /\ customer' = Created(NewId, OrderClues[o])
           /\ Give(k, [call[k] EXCEPT !.step = "enter", !.held = NewId])
  <2>1. PICK n \in Ids : n = NewId /\ customer[n].status = "unused"
    BY <1>4, NewIdUnused
  <2>2. OrderClues[o] \in SUBSET Clues /\ OnePerKind(OrderClues[o])
    BY CluesAssumption
  <2>3. GoodTable(customer') /\ NewRoot(customer, customer', n)
    BY <1>4, <2>1, <2>2, CreatedTable DEF Base, Typed
  <2>4. Exists(n)'
    BY <2>3 DEF NewRoot, Exists
  <2>. QED BY <1>2, <1>4, <2>1, <2>3, <2>4
<1>. QED BY <1>1, <1>3, <1>4 DEF materializeCustomerFromOrder

LEMMA BaseMaterialize ==
    ASSUME Base, NEW k \in Calls, materializeCustomerFromOrder(k)
    PROVE  Base'
BY MaterializeEffect, BaseHolds DEF materializeCustomerFromOrder, history

\* A call that ends without touching an order.
LEMMA BaseEnds ==
    ASSUME Base, NEW k \in Calls, call[k].step # "none", Finish(k),
           UNCHANGED <<conflict, link, todo, assigned, early>>, GoodTable(customer')
    PROVE  Base'
<1>1. Courses' /\ call' \in [Calls -> Record]
  BY SameOrders, Ends
<1>2. Typed'
  BY <1>1 DEF Base, Typed, Placed
<1>. QED BY <1>1, <1>2 DEF Base

LEMMA BaseFails ==
    ASSUME Base, NEW k \in Calls, ResolutionFails(k)
    PROVE  Base'
BY BaseEnds DEF ResolutionFails, At, rows, history, Base, Typed

\* The order enters: what it names, and what becomes of its conflict.
LEMMA EnterEffect ==
    ASSUME Base, NEW k \in Calls, EnterOrder(k)
    PROVE  \E o \in Orders :
              /\ o = call[k].order /\ link[o] = NotPlaced /\ o \notin Placed
              /\ call[k].step = "enter" /\ call[k].op = "create" /\ Finish(k)
              /\ link' \in [Orders -> Links] /\ \A x \in Orders \ {o} : link'[x] = link[x]
              /\ conflict' \in [Orders -> {"none", "open", "ignored", "resolved", "merged"}]
              /\ \A x \in Orders \ {o} : conflict'[x] = conflict[x]
              /\ \/ /\ call[k].held = None /\ link'[o] = InConflict
                    /\ conflict'[o] = conflict[o] /\ (conflict[o] = "open" \/ o \in early)
                 \/ /\ call[k].held \in Ids /\ link'[o] = Linked(call[k].held)
                    /\ conflict'[o] # "open"
<1>1. PICK o \in Orders : o = call[k].order
  BY Creating DEF EnterOrder, At
<1>2. /\ call[k].step = "enter" /\ call[k].op = "create" /\ Finish(k)
      /\ link[o] = NotPlaced /\ o \notin Placed /\ Course(k)
  BY <1>1, Creating DEF EnterOrder, At, Base, Courses
<1>3. link \in [Orders -> Links]
      /\ conflict \in [Orders -> {"none", "open", "ignored", "resolved", "merged"}]
  BY DEF Base, Typed
<1>4. CASE call[k].held = None
  <2>1. link' = [link EXCEPT ![o] = InConflict] /\ conflict' = conflict
    BY <1>1, <1>4 DEF EnterOrder
  <2>2. conflict[o] = "open" \/ o \in early
    BY <1>1, <1>2, <1>4 DEF Course
  <2>. QED BY <1>1, <1>2, <1>3, <1>4, <2>1, <2>2 DEF Links
<1>5. CASE call[k].held # None
  <2>1. link' = [link EXCEPT ![o] = Linked(call[k].held)] /\ conflict' = Closed(o)
    BY <1>1, <1>5 DEF EnterOrder
  <2>2. call[k].held \in Ids
    BY <1>5, Fields DEF Base, Typed
  <2>3. Linked(call[k].held) \in Links
    BY <2>2 DEF Links
  <2>4. /\ conflict' \in [Orders -> {"none", "open", "ignored", "resolved", "merged"}]
        /\ conflict'[o] # "open" /\ \A x \in Orders \ {o} : conflict'[x] = conflict[x]
    BY <1>3, <2>1 DEF Closed
  <2>5. /\ link' \in [Orders -> Links] /\ link'[o] = Linked(call[k].held)
        /\ \A x \in Orders \ {o} : link'[x] = link[x]
    BY <1>3, <2>1, <2>3
  <2>. QED BY <1>1, <1>2, <2>2, <2>4, <2>5
<1>. QED BY <1>4, <1>5

LEMMA BaseEnterOrder ==
    ASSUME Base, NEW k \in Calls, EnterOrder(k)
    PROVE  Base'
<1>1. PICK o \in Orders :
              /\ o = call[k].order /\ link[o] = NotPlaced /\ o \notin Placed
              /\ call[k].step = "enter" /\ call[k].op = "create" /\ Finish(k)
              /\ link' \in [Orders -> Links] /\ \A x \in Orders \ {o} : link'[x] = link[x]
              /\ conflict' \in [Orders -> {"none", "open", "ignored", "resolved", "merged"}]
              /\ \A x \in Orders \ {o} : conflict'[x] = conflict[x]
  BY EnterEffect
<1>2. UNCHANGED <<customer, todo, assigned, early>>
  BY DEF EnterOrder, history
<1>3. Forward /\ \A x \in Orders \ {o} : StillOut(x)
  BY <1>1, <1>2 DEF Forward, StillOut, Out, Opened, Decided, Placed, NotPlaced
<1>4. Courses' /\ call' \in [Calls -> Record] /\ todo' = {}
  BY <1>1, <1>2, <1>3, Ends
<1>. QED BY <1>1, <1>2, <1>4 DEF Base, Typed

\* What the transaction of a merge does to the table; nothing, when it fails.
LEMMA CommitEffect ==
    ASSUME Base, NEW k \in Calls, MergeCommit(k)
    PROVE  \E s, t \in Ids :
              /\ s = call[k].held /\ t = call[k].other /\ call[k].step = "commit"
              /\ \/ /\ Exists(s) /\ Exists(t) /\ GoodTable(customer')
                    /\ customer'[s].status = "merged" /\ customer'[s].into = t
                    /\ Exists(s)' /\ Exists(t)'
                    /\ ~tangled' => ~tangled /\ Joined(customer, customer', s, t)
                    /\ conflict' = IF call[k].order = None THEN conflict
                                   ELSE [conflict EXCEPT ![call[k].order] = "merged"]
                    /\ Give(k, [call[k] EXCEPT !.step = "reassign"])
                 \/ UNCHANGED <<rows, tangled>> /\ Finish(k)
<1>1. Course(k) /\ call[k].step = "commit" /\ GoodTable(customer)
  BY DEF MergeCommit, At, Base, Courses, Typed
<1>2. PICK s \in Ids, t \in Ids : s = call[k].held /\ t = call[k].other
  BY <1>1 DEF Course
<1>3. PICK after : after = Merged(s, call[k].seen, t, call[k].otherSeen)
  OBVIOUS
<1>4. CASE ~(Exists(s) /\ Exists(t) /\ Unique(after))
  <2>1. Finish(k) /\ UNCHANGED <<rows, tangled>>
    BY <1>2, <1>3, <1>4 DEF MergeCommit
  <2>. QED BY <1>1, <1>2, <2>1
<1>5. CASE Exists(s) /\ Exists(t) /\ Unique(after)
  <2>1. /\ customer' = after
        /\ conflict' = IF call[k].order = None THEN conflict
                       ELSE [conflict EXCEPT ![call[k].order] = "merged"]
        /\ tangled' = (tangled \/ s = t \/ {customer[s].status, customer[t].status} # {"active"})
        /\ Give(k, [call[k] EXCEPT !.step = "reassign"])
    BY <1>2, <1>3, <1>5 DEF MergeCommit
  <2>2. call[k].seen \in SUBSET Clues /\ OnePerKind(call[k].seen)
    BY <1>1, Fields DEF Course, Base, Typed
  <2>3. /\ GoodTable(after)
        /\ s # t /\ customer[s].status = "active" /\ customer[t].status = "active"
             => Joined(customer, after, s, t)
        /\ after[s].status = "merged" /\ after[s].into = t /\ Real(after, t)
    BY <1>1, <1>3, <1>5, <2>2, MergedTable DEF Exists, Real
  <2>4. ~tangled' => ~tangled /\ Joined(customer, customer', s, t)
    <3>. SUFFICES ASSUME ~tangled' PROVE ~tangled /\ Joined(customer, customer', s, t)
      OBVIOUS
    <3>1. ~tangled /\ s # t /\ {customer[s].status, customer[t].status} = {"active"}
      BY <2>1
    <3>. QED BY <2>1, <2>3, <3>1
  <2>5. customer'[s].status = "merged" /\ customer'[s].into = t /\ Exists(s)' /\ Exists(t)'
    BY <2>1, <2>3 DEF Exists, Real
  <2>. QED BY <1>1, <1>2, <1>5, <2>1, <2>3, <2>4, <2>5
<1>. QED BY <1>4, <1>5

LEMMA BaseMergeCommit ==
    ASSUME Base, NEW k \in Calls, MergeCommit(k)
    PROVE  Base'
<1>1. /\ early' = early \cup ({call[k].order} \ (Placed \cup {None}))
      /\ UNCHANGED <<link, todo, assigned>>
  BY DEF MergeCommit
<1>2. PICK s \in Ids, t \in Ids :
        /\ s = call[k].held /\ t = call[k].other /\ call[k].step = "commit"
        /\ \/ /\ GoodTable(customer')
              /\ conflict' = IF call[k].order = None THEN conflict
                             ELSE [conflict EXCEPT ![call[k].order] = "merged"]
              /\ Give(k, [call[k] EXCEPT !.step = "reassign"])
           \/ UNCHANGED rows /\ Finish(k)
  BY CommitEffect DEF rows
<1>3. PICK o \in Orders \cup {None} : o = call[k].order
  BY Fields DEF Base, Typed
<1>4. call[k].op # "create" /\ conflict \in [Orders -> {"none", "open", "ignored", "resolved", "merged"}]
  BY <1>2 DEF Base, Courses, Course, Typed
<1>5. CASE UNCHANGED rows /\ Finish(k)
  <2>1. Forward /\ \A x \in Orders : StillOut(x)
    BY <1>1, <1>5 DEF rows, Forward, Decided, Placed, StillOut, Out, Opened
  <2>2. Courses' /\ call' \in [Calls -> Record]
    BY <1>1, <1>2, <1>5, <2>1, Ends
  <2>. QED BY <1>1, <1>5, <2>2 DEF Base, Typed, rows, Placed
<1>6. CASE /\ GoodTable(customer')
           /\ conflict' = IF o = None THEN conflict ELSE [conflict EXCEPT ![o] = "merged"]
           /\ Give(k, [call[k] EXCEPT !.step = "reassign"])
  <2>1. /\ conflict' \in [Orders -> {"none", "open", "ignored", "resolved", "merged"}]
        /\ o # None => conflict'[o] = "merged"
        /\ \A x \in Orders \ {o} : conflict'[x] = conflict[x]
    BY <1>4, <1>6
  <2>2. Forward /\ \A x \in Orders : StillOut(x)
    <3>1. ASSUME NEW x \in Orders, Decided(x) PROVE Decided(x)'
      <4>1. CASE x \in early
        BY <1>1, <4>1 DEF Decided
      <4>2. CASE x \in Placed /\ conflict[x] \notin {"none", "open"}
        BY <1>1, <2>1, <4>2, CluesAssumption DEF Decided, Placed
      <4>. QED BY <3>1, <4>1, <4>2 DEF Decided
    <3>2. ASSUME NEW x \in Orders, Out(x) PROVE Out(x)' /\ (Opened(x) => Opened(x)')
      <4>1. x \notin Placed /\ x # None
        BY <3>2, CluesAssumption DEF Out, NotPlaced, Placed
      <4>2. x = o => x \in early'
        BY <1>1, <1>3, <4>1
      <4>. QED BY <1>1, <2>1, <3>2, <4>2 DEF Out, Opened
    <3>. QED BY <3>1, <3>2 DEF Forward, StillOut
  <2>3. PICK r \in Record : Given(k, r, "reassign", call[k].held)
    <3>1. "reassign" \in Steps /\ call[k].held \in Ids \cup {None}
      BY <1>2 DEF Steps
    <3>. QED BY <1>6, <3>1, GivesStep
  <2>4. o # None => Decided(o)'
    <3>1. o # None => o \in early' \/ o \in Placed
      BY <1>1, <1>3
    <3>. QED BY <1>1, <2>1, <3>1 DEF Decided, Placed
  <2>5. Course(k)'
    <3>1. /\ call'[k].op # "create" /\ call'[k].step = "reassign" /\ call'[k].order = o
          /\ call'[k].held \in Ids /\ call'[k].other \in Ids
      BY <1>2, <1>3, <1>4, <2>3 DEF Given, Moved
    <3>2. call'[k].order # None => Decided(call[k].order)'
      BY <2>4, <3>1 DEF Decided
    <3>. QED BY <3>1, <3>2 DEF Course
  <2>6. Courses' /\ call' \in [Calls -> Record]
    BY <1>1, <1>2, <1>4, <2>2, <2>3, <2>5, GoesOn DEF Given
  <2>. QED BY <1>1, <1>6, <2>1, <2>6 DEF Base, Typed, Placed
<1>. QED BY <1>2, <1>3, <1>5, <1>6

\* The orders of the source name the target, and the call goes on or ends.
LEMMA ReassignEffect ==
    ASSUME Base, NEW k \in Calls, reassignMergedCustomer(k)
    PROVE  \E s, t \in Ids :
              /\ s = call[k].held /\ t = call[k].other /\ call[k].step = "reassign"
              /\ link' \in [Orders -> Links]
              /\ \A o \in Orders : link'[o] = IF link[o] = Linked(s) THEN Linked(t) ELSE link[o]
              /\ \/ call[k].order = None /\ Finish(k)
                 \/ /\ call[k].order # None
                    /\ \E r \in Record : Given(k, r, "apply", t)
<1>1. Course(k) /\ call[k].step = "reassign" /\ link \in [Orders -> Links]
  BY DEF reassignMergedCustomer, At, Base, Courses, Typed
<1>2. PICK s \in Ids, t \in Ids : s = call[k].held /\ t = call[k].other
  BY <1>1 DEF Course
<1>3. link' = [o \in Orders |-> IF link[o] = Linked(s) THEN Linked(t) ELSE link[o]]
  BY <1>2 DEF reassignMergedCustomer
<1>4. link' \in [Orders -> Links]
  BY <1>1, <1>3 DEF Links
<1>5. CASE call[k].order = None
  BY <1>1, <1>2, <1>3, <1>4, <1>5 DEF reassignMergedCustomer
<1>6. CASE call[k].order # None
  <2>1. Give(k, [call[k] EXCEPT !.step = "apply", !.held = t]) /\ "apply" \in Steps
    BY <1>2, <1>6 DEF reassignMergedCustomer, Steps
  <2>2. \E r \in Record : Given(k, r, "apply", t)
    BY <2>1, GivesStep
  <2>. QED BY <1>1, <1>2, <1>3, <1>4, <1>6, <2>2
<1>. QED BY <1>5, <1>6

LEMMA BaseReassign ==
    ASSUME Base, NEW k \in Calls, reassignMergedCustomer(k)
    PROVE  Base'
<1>1. PICK s \in Ids, t \in Ids :
              /\ s = call[k].held /\ t = call[k].other /\ call[k].step = "reassign"
              /\ link' \in [Orders -> Links]
              /\ \A o \in Orders : link'[o] = IF link[o] = Linked(s) THEN Linked(t) ELSE link[o]
              /\ \/ call[k].order = None /\ Finish(k)
                 \/ /\ call[k].order # None
                    /\ \E r \in Record : Given(k, r, "apply", t)
  BY ReassignEffect
<1>2. UNCHANGED <<customer, conflict, todo, assigned, early>>
  BY DEF reassignMergedCustomer, rows, history
<1>3. Placed' = Placed
  BY <1>1 DEF Placed, Linked
<1>4. Forward /\ \A x \in Orders : StillOut(x)
  <2>1. \A x \in Orders : Out(x) => Out(x)'
    BY <1>1 DEF Out, NotPlaced, Linked
  <2>. QED BY <1>2, <1>3, <2>1 DEF Forward, Decided, StillOut, Opened
<1>5. Course(k) /\ call[k].op # "create"
  BY <1>1 DEF Base, Courses, Course
<1>6. Courses' /\ call' \in [Calls -> Record]
  <2>1. CASE Finish(k)
    BY <1>1, <1>2, <1>4, <2>1, Ends
  <2>2. CASE call[k].order # None /\ \E r \in Record : Given(k, r, "apply", t)
    <3>1. PICK r \in Record : Given(k, r, "apply", t)
      BY <2>2
    <3>2. PICK o \in Orders : o = call[k].order
      BY <2>2, Fields DEF Base, Typed
    <3>3. call'[k].op # "create" /\ call'[k].step = "apply" /\ call'[k].order = o
      BY <1>5, <3>1, <3>2 DEF Given, Moved
    <3>4. Decided(o)'
      BY <1>1, <1>4, <1>5, <2>2, <3>2 DEF Course, Forward
    <3>5. Decided(call[k].order)'
      BY <3>3, <3>4 DEF Decided
    <3>6. Course(k)'
      BY <3>3, <3>5 DEF Course
    <3>. QED BY <1>1, <1>2, <1>4, <1>5, <3>1, <3>6, GoesOn DEF Given
  <2>. QED BY <1>1, <2>1, <2>2
<1>. QED BY <1>1, <1>2, <1>3, <1>6 DEF Base, Typed

\* The decision on a conflict is written, or its winner is gone.
LEMMA MarkEffect ==
    ASSUME Base, NEW k \in Calls, MarkConflict(k)
    PROVE  \E o \in Orders :
              /\ o = call[k].order /\ call[k].step = "mark" /\ call[k].op # "create"
              /\ \/ /\ \E r \in Record : Given(k, r, "apply", call[k].held)
                    /\ call[k].held # None => call[k].held \in Ids /\ Exists(call[k].held)
                    /\ GoodTable(customer') /\ SameTree(customer, customer')
                    /\ conflict' \in [Orders -> {"none", "open", "ignored", "resolved", "merged"}]
                    /\ conflict'[o] \in {"ignored", "resolved"}
                    /\ \A x \in Orders \ {o} : conflict'[x] = conflict[x]
                 \/ Finish(k) /\ UNCHANGED rows
<1>1. /\ Course(k) /\ call[k].step = "mark" /\ GoodTable(customer)
      /\ conflict \in [Orders -> {"none", "open", "ignored", "resolved", "merged"}]
  BY DEF MarkConflict, At, Base, Courses, Typed
<1>2. PICK o \in Orders : o = call[k].order
  BY <1>1 DEF Course
<1>3. call[k].op # "create" /\ "apply" \in Steps /\ call[k].held \in Ids \cup {None}
  BY <1>1, Fields DEF Course, Steps, Base, Typed
<1>4. Give(k, [call[k] EXCEPT !.step = "apply"]) => \E r \in Record : Given(k, r, "apply", call[k].held)
  BY <1>3, GivesStep
<1>5. CASE /\ call[k].op = "ignore"
           /\ conflict' = [conflict EXCEPT ![o] = "ignored"]
           /\ Give(k, [call[k] EXCEPT !.step = "apply"])
           /\ UNCHANGED customer
  <2>1. call[k].held = None
    BY <1>1, <1>5 DEF Course
  <2>2. GoodTable(customer') /\ SameTree(customer, customer')
    BY <1>1, <1>5 DEF SameTree, SameAt
  <2>3. /\ conflict' \in [Orders -> {"none", "open", "ignored", "resolved", "merged"}]
        /\ conflict'[o] = "ignored" /\ \A x \in Orders \ {o} : conflict'[x] = conflict[x]
    BY <1>1, <1>5
  <2>. QED BY <1>1, <1>2, <1>3, <1>4, <1>5, <2>1, <2>2, <2>3
<1>6. CASE /\ call[k].op = "assign" /\ Exists(call[k].held)
           /\ customer' = IF o \in Placed THEN Enriched(call[k].held, call[k].seen, o) ELSE customer
           /\ conflict' = [conflict EXCEPT ![o] = "resolved"]
           /\ Give(k, [call[k] EXCEPT !.step = "apply"])
  <2>1. call[k].held \in Ids
    BY <1>1, <1>6 DEF Course
  <2>2. GoodTable(customer') /\ SameTree(customer, customer')
    <3>1. CASE o \in Placed
      BY <1>1, <1>6, <2>1, <3>1, EnrichedTable DEF Exists, Real
    <3>2. CASE o \notin Placed
      BY <1>1, <1>6, <3>2 DEF SameTree, SameAt
    <3>. QED BY <3>1, <3>2
  <2>3. /\ conflict' \in [Orders -> {"none", "open", "ignored", "resolved", "merged"}]
        /\ conflict'[o] = "resolved" /\ \A x \in Orders \ {o} : conflict'[x] = conflict[x]
    BY <1>1, <1>6
  <2>. QED BY <1>1, <1>2, <1>3, <1>4, <1>6, <2>1, <2>2, <2>3
<1>7. CASE Finish(k) /\ UNCHANGED rows
  BY <1>1, <1>2, <1>3, <1>7
<1>. QED BY <1>2, <1>5, <1>6, <1>7 DEF MarkConflict

LEMMA BaseMark ==
    ASSUME Base, NEW k \in Calls, MarkConflict(k)
    PROVE  Base'
<1>1. /\ early' = early \cup ({call[k].order} \ Placed)
      /\ UNCHANGED <<link, todo, assigned>>
  BY DEF MarkConflict
<1>2. PICK o \in Orders :
              /\ o = call[k].order /\ call[k].step = "mark" /\ call[k].op # "create"
              /\ \/ /\ \E r \in Record : Given(k, r, "apply", call[k].held)
                    /\ GoodTable(customer') /\ SameTree(customer, customer')
                    /\ conflict' \in [Orders -> {"none", "open", "ignored", "resolved", "merged"}]
                    /\ conflict'[o] \in {"ignored", "resolved"}
                    /\ \A x \in Orders \ {o} : conflict'[x] = conflict[x]
                 \/ Finish(k) /\ UNCHANGED rows
  BY MarkEffect
<1>3. CASE Finish(k) /\ UNCHANGED rows
  <2>1. Forward /\ \A x \in Orders : StillOut(x)
    BY <1>1, <1>3 DEF rows, Forward, Decided, Placed, StillOut, Out, Opened
  <2>2. Courses' /\ call' \in [Calls -> Record]
    BY <1>1, <1>2, <1>3, <2>1, Ends
  <2>. QED BY <1>1, <1>3, <2>2 DEF Base, Typed, rows, Placed
<1>4. CASE /\ \E r \in Record : Given(k, r, "apply", call[k].held)
           /\ GoodTable(customer') /\ SameTree(customer, customer')
           /\ conflict' \in [Orders -> {"none", "open", "ignored", "resolved", "merged"}]
           /\ conflict'[o] \in {"ignored", "resolved"}
           /\ \A x \in Orders \ {o} : conflict'[x] = conflict[x]
  <2>1. Forward /\ \A x \in Orders : StillOut(x)
    <3>1. ASSUME NEW x \in Orders, Decided(x) PROVE Decided(x)'
      BY <1>1, <1>4, <3>1 DEF Decided, Placed
    <3>2. ASSUME NEW x \in Orders, Out(x) PROVE Out(x)' /\ (Opened(x) => Opened(x)')
      <4>1. x \notin Placed
        BY <3>2 DEF Out, NotPlaced, Placed
      <4>2. x = o => x \in early'
        BY <1>1, <1>2, <4>1
      <4>. QED BY <1>1, <1>4, <3>2, <4>2 DEF Out, Opened
    <3>. QED BY <3>1, <3>2 DEF Forward, StillOut
  <2>2. PICK r \in Record : Given(k, r, "apply", call[k].held)
    BY <1>4
  <2>3. call'[k].op # "create" /\ call'[k].step = "apply" /\ call'[k].order = o
    BY <1>2, <2>2 DEF Given, Moved
  <2>4. Decided(o)'
    <3>1. o \in early' \/ o \in Placed
      BY <1>1, <1>2
    <3>. QED BY <1>1, <1>4, <3>1 DEF Decided, Placed
  <2>5. Course(k)'
    <3>1. Decided(call[k].order)'
      BY <2>3, <2>4 DEF Decided
    <3>. QED BY <2>3, <3>1 DEF Course
  <2>6. Courses' /\ call' \in [Calls -> Record]
    BY <1>1, <1>2, <2>1, <2>2, <2>5, GoesOn DEF Given
  <2>. QED BY <1>1, <1>4, <2>6 DEF Base, Typed, Placed
<1>. QED BY <1>2, <1>3, <1>4

\* The answer reaches the order, if there is one.
LEMMA ApplyEffect ==
    ASSUME Base, NEW k \in Calls, applyCustomerResolution(k)
    PROVE  \E o \in Orders, c \in Ids \cup {None} :
              /\ o = call[k].order /\ c = call[k].held /\ call[k].step = "apply"
              /\ Finish(k) /\ Decided(o)
              /\ IF o \in Placed
                   THEN /\ link' \in [Orders -> Links]
                        /\ link'[o] = IF c = None THEN Unlinked ELSE Linked(c)
                        /\ \A x \in Orders \ {o} : link'[x] = link[x]
                        /\ assigned' = [assigned EXCEPT ![o] = c]
                        /\ reopened' = reopened \ {o}
                   ELSE UNCHANGED <<link, assigned, reopened>>
<1>1. Course(k) /\ call[k].step = "apply" /\ link \in [Orders -> Links]
  BY DEF applyCustomerResolution, At, Base, Courses, Typed
<1>2. PICK o \in Orders : o = call[k].order
  BY <1>1 DEF Course
<1>3. PICK c \in Ids \cup {None} : c = call[k].held
  BY Fields DEF Base, Typed
<1>4. Finish(k) /\ Decided(o)
  BY <1>1, <1>2, CluesAssumption DEF applyCustomerResolution, Course
<1>5. CASE o \in Placed
  <2>1. /\ link' = [link EXCEPT ![o] = IF c = None THEN Unlinked ELSE Linked(c)]
        /\ assigned' = [assigned EXCEPT ![o] = c]
        /\ reopened' = reopened \ {o}
    BY <1>2, <1>3, <1>5 DEF applyCustomerResolution
  <2>2. (IF c = None THEN Unlinked ELSE Linked(c)) \in Links
    BY <1>3 DEF Links
  <2>. QED BY <1>1, <1>2, <1>3, <1>4, <1>5, <2>1, <2>2
<1>6. CASE o \notin Placed
  BY <1>1, <1>2, <1>3, <1>4, <1>6 DEF applyCustomerResolution
<1>. QED BY <1>5, <1>6

LEMMA BaseApply ==
    ASSUME Base, NEW k \in Calls, applyCustomerResolution(k)
    PROVE  Base'
<1>1. PICK o \in Orders, c \in Ids \cup {None} :
              /\ o = call[k].order /\ c = call[k].held /\ call[k].step = "apply"
              /\ Finish(k)
              /\ IF o \in Placed
                   THEN /\ link' \in [Orders -> Links]
                        /\ link'[o] = IF c = None THEN Unlinked ELSE Linked(c)
                        /\ \A x \in Orders \ {o} : link'[x] = link[x]
                        /\ assigned' = [assigned EXCEPT ![o] = c]
                   ELSE UNCHANGED <<link, assigned>>
  BY ApplyEffect
<1>2. UNCHANGED <<customer, conflict, todo, early>>
  BY DEF applyCustomerResolution, rows
<1>3. /\ link' \in [Orders -> Links] /\ assigned' \in [Orders -> Ids \cup {None}]
      /\ \A x \in Orders : link'[x] = link[x] \/ (x \in Placed /\ x \in Placed')
  BY <1>1 DEF Base, Typed, Placed, Unlinked, Linked
<1>4. Placed' = Placed
  BY <1>3 DEF Placed
<1>5. Forward /\ \A x \in Orders : StillOut(x)
  <2>1. \A x \in Orders : Out(x) => Out(x)'
    BY <1>3 DEF Out, NotPlaced, Placed
  <2>. QED BY <1>2, <1>4, <2>1 DEF Forward, Decided, StillOut, Opened
<1>6. Courses' /\ call' \in [Calls -> Record]
  BY <1>1, <1>2, <1>5, Ends
<1>. QED BY <1>2, <1>3, <1>4, <1>6 DEF Base, Typed

LEMMA BaseStill ==
    ASSUME Base, UNCHANGED <<call, conflict, link, todo, assigned, early>>, GoodTable(customer')
    PROVE  Base'
BY DEF Base, Typed, Courses, Course, Placed, Decided

LEMMA CreateEffect ==
    ASSUME Base, NEW clues \in Contacts, createCustomer(clues)
    PROVE  \E n \in Ids : GoodTable(customer') /\ NewRoot(customer, customer', n)
<1>1. NewId \in Ids /\ customer[NewId].status = "unused"
  BY NewIdUnused DEF createCustomer
<1>2. clues \in SUBSET Clues /\ OnePerKind(clues)
  BY DEF Contacts
<1>. QED BY <1>1, <1>2, CreatedTable DEF createCustomer, Base, Typed

LEMMA StoreEffect ==
    ASSUME Base, NEW k \in Calls, StoreEdit(k)
    PROVE  GoodTable(customer') /\ SameTree(customer, customer')
<1>1. Course(k) /\ call[k].step = "store" /\ GoodTable(customer)
  BY DEF StoreEdit, At, Base, Courses, Typed
<1>2. PICK c \in Ids, clues \in SUBSET Clues : c = call[k].held /\ clues = call[k].seen /\ OnePerKind(clues)
  BY <1>1, Fields DEF Course, Base, Typed
<1>3. customer' = IF Exists(c) /\ Unique([customer EXCEPT ![c].clues = clues])
                  THEN [customer EXCEPT ![c].clues = clues] ELSE customer
  BY <1>2 DEF StoreEdit
<1>4. SameTree(customer, customer)
  BY DEF SameTree, SameAt
<1>. QED BY <1>1, <1>2, <1>3, <1>4, EditedTable DEF Exists, Real

\* What is erased leaves no reference behind, and what still held it is noted.
LEMMA EraseEffect ==
    ASSUME Base, NEW k \in Calls, EraseAccount(k)
    PROVE  \E c \in Ids :
              /\ c = call[k].held /\ call[k].step = "erase" /\ Finish(k)
              /\ \/ UNCHANGED <<customer, orphaned, tangled>>
                 \/ /\ Exists(c) /\ GoodTable(customer')
                    /\ ~tangled' => ~tangled /\ Cut(customer, customer', c)
                    /\ orphaned \subseteq orphaned'
                    /\ HeldByCall(c) \/ ~Unreferenced(c) => c \in orphaned'
<1>1. Course(k) /\ call[k].step = "erase" /\ GoodTable(customer)
  BY DEF EraseAccount, At, Base, Courses, Typed
<1>2. PICK c \in Ids : c = call[k].held /\ c = call[k].other
  BY <1>1 DEF Course
<1>3. CASE ~Exists(c)
  BY <1>1, <1>2, <1>3 DEF EraseAccount
<1>4. CASE Exists(c)
  <2>1. /\ customer' = Erased(c)
        /\ orphaned' = IF HeldByCall(c) \/ ~Unreferenced(c) THEN orphaned \cup {c} ELSE orphaned
        /\ tangled' = (tangled \/ \E d \in Ids : customer[d].into = c)
    BY <1>2, <1>4 DEF EraseAccount, Erased
  <2>2. /\ GoodTable(customer')
        /\ (\A d \in Ids : customer[d].into # c) => Cut(customer, customer', c)
    BY <1>1, <1>4, <2>1, ErasedTable DEF Exists, Real
  <2>3. Finish(k)
    BY DEF EraseAccount
  <2>. QED BY <1>1, <1>2, <1>4, <2>1, <2>2, <2>3
<1>. QED BY <1>3, <1>4

LEMMA BaseErase ==
    ASSUME Base, NEW k \in Calls, EraseAccount(k)
    PROVE  Base'
<1>1. call[k].step # "none" /\ Finish(k) /\ GoodTable(customer')
  BY EraseEffect DEF Base, Typed
<1>. QED BY <1>1, BaseEnds DEF EraseAccount

\* All calls are idle: nothing binds an order.
LEMMA AllIdle ==
    ASSUME \A k \in Calls : call'[k] = Idle
    PROVE  Courses'
BY IdleCourse, IdleFields DEF Courses

LEMMA BaseRestart == ASSUME Base, Restart PROVE Base'
<1>1. call' \in [Calls -> Record] /\ \A k \in Calls : call'[k] = Idle
  BY IdleFields DEF Restart
<1>. QED BY <1>1, AllIdle DEF Restart, Base, Typed, rows, history, Placed

LEMMA CandidatesExist ==
    ASSUME IsFiniteSet(Ids), Base, NEW o \in Orders, NEW c \in Candidates(o)
    PROVE  c \in Ids /\ Exists(c)
<1>1. GoodTable(customer)
  BY DEF Base, Typed
<1>2. PICK d : /\ d \in ({link[o].customer} \cap {x \in Ids : Exists(x)})
                          \cup UNION {Owners(x) : x \in OrderClues[o]}
               /\ c = ActiveOf(d)
  BY DEF Candidates
<1>3. d \in Ids /\ Exists(d)
  BY <1>2, OwnersExist
<1>4. c = EndOf(customer, d) /\ c \in Ids
  BY <1>2, <1>3, ActiveIsEnd, ActiveType
<1>5. Real(customer, c)
  BY <1>1, <1>3, <1>4, EndIsReal DEF Exists, Real
<1>. QED BY <1>4, <1>5 DEF Exists, Real

\* Without candidates nobody owns a clue of the order, and the customer it names is
\* gone.
LEMMA NoCandidates ==
    ASSUME NEW o \in Orders, Candidates(o) = {}
    PROVE  /\ \A x \in OrderClues[o] : Owners(x) = {}
           /\ ~(link[o].customer \in Ids /\ Exists(link[o].customer))
<1>1. ({link[o].customer} \cap {x \in Ids : Exists(x)})
         \cup UNION {Owners(x) : x \in OrderClues[o]} = {}
  BY DEF Candidates
<1>. QED BY <1>1

LEMMA ReconcileEffect ==
    ASSUME IsFiniteSet(Ids), Base, NEW o \in Orders, Reconcile(o)
    PROVE  /\ o \in todo /\ o \in Placed /\ todo' = todo \ {o} /\ GoodTable(customer')
           /\ conflict' \in [Orders -> {"none", "open", "ignored", "resolved", "merged"}]
           /\ \A x \in Orders \ {o} : conflict'[x] = conflict[x]
           /\ link' \in [Orders -> Links] /\ \A x \in Orders \ {o} : link'[x] = link[x]
           /\ \/ /\ conflict'[o] = "open" /\ link'[o] = InConflict /\ UNCHANGED customer
                 /\ reopened' = IF conflict[o] \in {"none", "open"} THEN reopened
                                ELSE reopened \cup {o}
              \/ /\ conflict'[o] = IF conflict[o] \in {"open", "ignored"} THEN "resolved"
                                   ELSE conflict[o]
                 /\ reopened' = reopened
                 /\ \E c \in Ids :
                      /\ link'[o] = Linked(c) /\ Exists(c)'
                      /\ \/ Candidates(o) = {c} /\ SameTree(customer, customer')
                         \/ Candidates(o) = {} /\ NewRoot(customer, customer', c)
<1>1. o \in todo /\ o \in Placed /\ todo' = todo \ {o}
  BY DEF Reconcile, Base, Typed
<1>2. /\ conflict \in [Orders -> {"none", "open", "ignored", "resolved", "merged"}]
      /\ link \in [Orders -> Links] /\ GoodTable(customer)
      /\ InConflict \in Links /\ \A c \in Ids : Linked(c) \in Links
  BY DEF Base, Typed, Links
<1>3. CASE /\ Reopened(o)
           /\ link' = [link EXCEPT ![o] = InConflict]
           /\ UNCHANGED customer
  BY <1>1, <1>2, <1>3 DEF Reopened
<1>4. Closed(o) \in [Orders -> {"none", "open", "ignored", "resolved", "merged"}]
      /\ Closed(o)[o] = (IF conflict[o] \in {"open", "ignored"} THEN "resolved" ELSE conflict[o])
      /\ \A x \in Orders \ {o} : Closed(o)[x] = conflict[x]
  BY <1>2 DEF Closed
<1>5. ASSUME NEW c \in Ids, link' = [link EXCEPT ![o] = Linked(c)]
      PROVE  link' \in [Orders -> Links] /\ link'[o] = Linked(c)
             /\ \A x \in Orders \ {o} : link'[x] = link[x]
  BY <1>2, <1>5
<1>6. CASE /\ \E c \in Candidates(o) :
                /\ Candidates(o) = {c}
                /\ customer' = Enriched(c, customer[c].clues, o)
                /\ link' = [link EXCEPT ![o] = Linked(c)]
           /\ conflict' = Closed(o)
           /\ UNCHANGED reopened
  <2>1. PICK c \in Candidates(o) :
                /\ Candidates(o) = {c}
                /\ customer' = Enriched(c, customer[c].clues, o)
                /\ link' = [link EXCEPT ![o] = Linked(c)]
    BY <1>6
  <2>2. c \in Ids /\ Exists(c)
    BY CandidatesExist
  <2>3. GoodTable(customer') /\ SameTree(customer, customer')
    BY <1>2, <2>1, <2>2, EnrichedTable DEF Exists, Real
  <2>4. Exists(c)'
    BY <2>2, <2>3 DEF SameTree, SameAt, Exists
  <2>. QED BY <1>1, <1>4, <1>5, <1>6, <2>1, <2>2, <2>3, <2>4
<1>7. CASE /\ Candidates(o) = {} /\ HasNewId
           /\ customer' = Created(NewId, OrderClues[o])
           /\ link' = [link EXCEPT ![o] = Linked(NewId)]
           /\ conflict' = Closed(o)
           /\ UNCHANGED reopened
  <2>1. PICK n \in Ids : n = NewId /\ customer[n].status = "unused"
    BY <1>7, NewIdUnused
  <2>2. /\ OrderClues[o] \in SUBSET Clues /\ OnePerKind(OrderClues[o])
        /\ \A x \in OrderClues[o] : Owners(x) = {}
    BY <1>7, NoCandidates, CluesAssumption
  <2>3. GoodTable(customer') /\ NewRoot(customer, customer', n)
    BY <1>2, <1>7, <2>1, <2>2, CreatedTable
  <2>4. Exists(n)'
    BY <2>3 DEF NewRoot, Exists
  <2>. QED BY <1>1, <1>4, <1>5, <1>7, <2>1, <2>3, <2>4
<1>. QED BY <1>3, <1>6, <1>7 DEF Reconcile

LEMMA BaseReconcile ==
    ASSUME IsFiniteSet(Ids), Base, NEW o \in Orders, Reconcile(o)
    PROVE  Base'
<1>1. /\ o \in todo /\ o \in Placed /\ todo' = todo \ {o} /\ GoodTable(customer')
      /\ conflict' \in [Orders -> {"none", "open", "ignored", "resolved", "merged"}]
      /\ link' \in [Orders -> Links] /\ \A x \in Orders \ {o} : link'[x] = link[x]
      /\ link'[o] = InConflict \/ \E c \in Ids : link'[o] = Linked(c)
  BY ReconcileEffect
<1>2. call' = call /\ assigned' = assigned
  BY DEF Reconcile
<1>3. \A k \in Calls : call'[k] = Idle
  BY <1>1, <1>2 DEF Base, Courses
<1>4. todo' \subseteq Placed'
  <2>1. \A x \in todo' : x \in Placed /\ x # o
    BY <1>1 DEF Base, Typed
  <2>. QED BY <1>1, <2>1 DEF Placed
<1>. QED BY <1>1, <1>2, <1>3, <1>4, AllIdle DEF Base, Typed

----------------------------------------------------------------------------
LEMMA BaseInit == Init => Base
<1>. SUFFICES ASSUME Init PROVE Base
  OBVIOUS
<1>1. ASSUME NEW c \in Ids
      PROVE  /\ customer[c] \in Customer /\ customer[c].into = None
             /\ customer[c].clues = IF c \in DOMAIN Registered THEN Registered[c] ELSE {}
             /\ customer[c].status = IF c \in DOMAIN Registered THEN "active" ELSE "unused"
  BY CluesAssumption DEF Init, Customer
<1>2. customer \in [Ids -> Customer]
  BY <1>1 DEF Init
<1>3. Unique(customer)
  BY <1>1, CluesAssumption DEF Unique
<1>4. GoodTable(customer)
  BY <1>1, <1>2, <1>3, CluesAssumption DEF GoodTable, Real, OnePerKind
<1>5. /\ conflict \in [Orders -> {"none", "open", "ignored", "resolved", "merged"}]
      /\ link \in [Orders -> Links] /\ todo = {} /\ assigned \in [Orders -> Ids \cup {None}]
      /\ call \in [Calls -> Record]
  BY IdleFields DEF Init, Links
<1>6. \A k \in Calls : Course(k)
  BY IdleFields DEF Init, Course
<1>7. Courses
  BY <1>5, <1>6, IdleFields DEF Init, Courses
<1>. QED BY <1>4, <1>5, <1>7 DEF Base, Typed

LEMMA BaseStep ==
    ASSUME IsFiniteSet(Ids), Base, [Next]_vars
    PROVE  Base'
<1>1. ASSUME NEW k \in Calls, Checkout(k) PROVE Base'
  BY <1>1, BaseResolve, BaseOpenConflict, BaseUseCandidate, BaseMaterialize, BaseFails,
     BaseEnterOrder DEF Checkout
<1>2. ASSUME NEW k \in Calls, Crm(k) PROVE Base'
  <2>1. ASSUME NEW s \in Ids, NEW t \in Ids, mergeCustomers(k, s, t) PROVE Base'
    BY <2>1, BaseMergeStarts DEF mergeCustomers
  <2>2. ASSUME NEW o \in Orders, NEW s \in Ids, NEW t \in Ids, DecideMerge(k, o, s, t) PROVE Base'
    BY <2>2, BaseMergeStarts DEF DecideMerge
  <2>3. ASSUME StoreEdit(k) PROVE Base'
    BY <2>3, StoreEffect, BaseEnds DEF StoreEdit, At, history
  <2>. QED
    BY <1>2, <2>1, <2>2, <2>3, BaseMergeCommit, BaseReassign, BaseIgnoreStarts, BaseAssignStarts,
       BaseMark, BaseApply, BaseEditStarts, BaseDeleteStarts, BaseErase DEF Crm
<1>3. ASSUME NEW clues \in Contacts, createCustomer(clues) PROVE Base'
  BY <1>3, CreateEffect, BaseStill DEF createCustomer, history
<1>4. ASSUME NEW o \in Orders, Reconcile(o) PROVE Base'
  BY <1>4, BaseReconcile
<1>5. CASE UNCHANGED vars
  BY <1>5, BaseStill DEF vars, rows, history, Base, Typed
<1>. QED BY <1>1, <1>2, <1>3, <1>4, <1>5, BaseRestart DEF Next

LEMMA BaseInvariant == ASSUME IsFiniteSet(Ids) PROVE Spec => []Base
<1>1. Base /\ [Next]_vars => Base'
  BY BaseStep
<1>. QED BY <1>1, BaseInit, PTL DEF Spec

\* Every variable keeps its shape, every clue has one owner at most and no customer
\* has two clues of a kind, whatever writes of creations, merges, edits and
\* decisions run between each other's awaits (updateCustomerFromOrder,
\* mergeCustomersInternal, updateCustomer).
THEOREM TypeCorrect == ASSUME IsFiniteSet(Ids) PROVE Spec => []TypeOK
BY BaseInvariant, TypedIsTypeOK, PTL DEF Base

(***************************************************************************)
(* The conflicts and the orders, one order at a time.                      *)
(***************************************************************************)
Filed(o) ==
    o \in Placed \ (todo \cup early) =>
        Deciding(o) \/ (link[o] = InConflict <=> conflict[o] = "open")

\* A decision on an order leaves its conflict answered until it is opened again.
Answered(o) ==
    /\ o \notin Placed => assigned[o] = None
    /\ o \in Placed \ (reopened \cup early) /\ assigned[o] # None
         => conflict[o] \notin {"none", "open"}

Booked(o) == Filed(o) /\ Answered(o)
Books == \A o \in Orders : Booked(o)

LEMMA BookedKept ==
    ASSUME NEW o \in Orders, Booked(o), conflict'[o] = conflict[o], assigned'[o] = assigned[o],
           o \in Placed' <=> o \in Placed, link'[o] = InConflict <=> link[o] = InConflict,
           o \in todo => o \in todo', o \in early => o \in early',
           o \in reopened => o \in reopened', Deciding(o) => Deciding(o)'
    PROVE  Booked(o)'
BY DEF Booked, Filed, Answered

\* The calls that decide an order go on deciding it.
LEMMA DecidingKept ==
    ASSUME NEW k \in Calls, NEW o \in Orders, \A j \in Calls \ {k} : call'[j] = call[j],
           \/ call[k].step \notin {"reassign", "apply"}
           \/ call[k].order # o
           \/ call'[k].order = o /\ call'[k].step \in {"reassign", "apply"},
           Deciding(o)
    PROVE  Deciding(o)'
BY DEF Deciding

LEMMA BooksOfOthers ==
    ASSUME Base, Books, NEW k \in Calls, \A j \in Calls \ {k} : call'[j] = call[j],
           call[k].step \notin {"reassign", "apply"},
           UNCHANGED <<conflict, link, todo, assigned, reopened, early>>
    PROVE  Books'
BY BookedKept, DecidingKept DEF Books, Placed

LEMMA TurnOf ==
    ASSUME Base, NEW k \in Calls,
           \/ Finish(k)
           \/ \E r : call' = [call EXCEPT ![k] = r]
    PROVE  \A j \in Calls \ {k} : call'[j] = call[j]
BY DEF Finish, Base, Typed

LEMMA BooksCheckout ==
    ASSUME IsFiniteSet(Ids), Base, Books, NEW k \in Calls, Checkout(k)
    PROVE  Books'
<1>1. ASSUME NEW o \in Orders, resolveCustomerFromOrderSnapshot(k, o) PROVE Books'
  BY <1>1, IdleFields, TurnOf, BooksOfOthers
     DEF resolveCustomerFromOrderSnapshot, Begin, rows, history
<1>2. ASSUME OpenConflict(k) PROVE Books'
  <2>1. PICK o \in Orders : o = call[k].order /\ o \notin Placed
    BY <1>2, Creating DEF OpenConflict, At
  <2>2. call[k].step = "write" /\ \A j \in Calls \ {k} : call'[j] = call[j]
    BY <1>2, TurnOf DEF OpenConflict, At, Give
  <2>3. /\ conflict' = [conflict EXCEPT ![o] = "open"] /\ reopened \subseteq reopened'
        /\ UNCHANGED <<link, todo, assigned, early>>
    BY <1>2, <2>1 DEF OpenConflict, Reopened
  <2>4. \A x \in Orders \ {o} : conflict'[x] = conflict[x]
    BY <2>3 DEF Base, Typed
  <2>5. ASSUME NEW x \in Orders \ {o} PROVE Booked(x)'
    BY <2>2, <2>3, <2>4, BookedKept, DecidingKept DEF Books, Placed
  <2>6. Booked(o)'
    BY <2>1, <2>3 DEF Books, Booked, Filed, Answered, Placed
  <2>. QED BY <2>5, <2>6 DEF Books
<1>3. ASSUME UseCandidate(k) \/ materializeCustomerFromOrder(k) \/ ResolutionFails(k) PROVE Books'
  <2>1. /\ call[k].step = "write" /\ UNCHANGED <<conflict, link, todo, assigned, reopened, early>>
        /\ Finish(k) \/ \E r : call' = [call EXCEPT ![k] = r]
    BY <1>3 DEF UseCandidate, materializeCustomerFromOrder, ResolutionFails, At, Give, rows, history
  <2>. QED BY <2>1, TurnOf, BooksOfOthers
<1>4. ASSUME EnterOrder(k) PROVE Books'
  <2>1. PICK o \in Orders :
              /\ o = call[k].order /\ link[o] = NotPlaced /\ o \notin Placed
              /\ call[k].step = "enter" /\ call[k].op = "create" /\ Finish(k)
              /\ link' \in [Orders -> Links] /\ \A x \in Orders \ {o} : link'[x] = link[x]
              /\ conflict' \in [Orders -> {"none", "open", "ignored", "resolved", "merged"}]
              /\ \A x \in Orders \ {o} : conflict'[x] = conflict[x]
              /\ \/ /\ call[k].held = None /\ link'[o] = InConflict
                    /\ conflict'[o] = conflict[o] /\ (conflict[o] = "open" \/ o \in early)
                 \/ /\ call[k].held \in Ids /\ link'[o] = Linked(call[k].held)
                    /\ conflict'[o] # "open"
    BY <1>4, EnterEffect
  <2>2. UNCHANGED <<todo, assigned, reopened, early>> /\ \A j \in Calls \ {k} : call'[j] = call[j]
    BY <1>4, TurnOf DEF EnterOrder, history
  <2>3. ASSUME NEW x \in Orders \ {o} PROVE Booked(x)'
    <3>1. x \in Placed' <=> x \in Placed
      BY <2>1 DEF Placed
    <3>. QED BY <2>1, <2>2, <3>1, BookedKept, DecidingKept DEF Books
  <2>4. Booked(o)'
    <3>1. assigned'[o] = None
      BY <2>1, <2>2 DEF Books, Booked, Answered
    <3>2. o \notin early' => (link'[o] = InConflict <=> conflict'[o] = "open")
      BY <2>1, <2>2 DEF Linked, InConflict
    <3>. QED BY <3>1, <3>2 DEF Booked, Filed, Answered
  <2>. QED BY <2>3, <2>4 DEF Books
<1>. QED BY <1>1, <1>2, <1>3, <1>4 DEF Checkout

LEMMA BooksCommit ==
    ASSUME Base, Books, NEW k \in Calls, MergeCommit(k)
    PROVE  Books'
<1>1. /\ early \subseteq early' /\ UNCHANGED <<link, todo, assigned, reopened>>
  BY DEF MergeCommit
<1>2. /\ call[k].step = "commit"
      /\ \/ /\ conflict' = IF call[k].order = None THEN conflict
                           ELSE [conflict EXCEPT ![call[k].order] = "merged"]
            /\ Give(k, [call[k] EXCEPT !.step = "reassign"])
         \/ UNCHANGED conflict /\ Finish(k)
  BY CommitEffect DEF rows
<1>3. \A j \in Calls \ {k} : call'[j] = call[j]
  BY <1>2, TurnOf DEF Give
<1>4. \A x \in Orders : Deciding(x) => Deciding(x)'
  BY <1>2, <1>3, DecidingKept
<1>5. ASSUME NEW x \in Orders, conflict'[x] = conflict[x] PROVE Booked(x)'
  BY <1>1, <1>4, <1>5, BookedKept DEF Books, Placed
<1>6. ASSUME NEW o \in Orders, o = call[k].order, conflict'[o] = "merged",
             Give(k, [call[k] EXCEPT !.step = "reassign"])
      PROVE  Booked(o)'
  <2>1. PICK r \in Record : Given(k, r, "reassign", call[k].held)
    <3>1. "reassign" \in Steps /\ call[k].held \in Ids \cup {None}
      BY Fields DEF Steps, Base, Typed
    <3>. QED BY <1>6, <3>1, GivesStep
  <2>2. Deciding(o)'
    BY <1>6, <2>1 DEF Given, Moved, Deciding
  <2>3. o \notin Placed' => assigned'[o] = None
    BY <1>1 DEF Books, Booked, Answered, Placed
  <2>. QED BY <1>6, <2>2, <2>3 DEF Booked, Filed, Answered
<1>7. ASSUME NEW x \in Orders PROVE Booked(x)'
  <2>1. CASE conflict'[x] = conflict[x]
    BY <1>5, <2>1
  <2>2. CASE conflict'[x] # conflict[x]
    <3>1. /\ call[k].order # None /\ conflict' = [conflict EXCEPT ![call[k].order] = "merged"]
          /\ Give(k, [call[k] EXCEPT !.step = "reassign"])
      BY <1>2, <2>2
    <3>2. x = call[k].order /\ conflict'[x] = "merged"
      BY <2>2, <3>1 DEF Base, Typed
    <3>. QED BY <1>6, <3>1, <3>2
  <2>. QED BY <2>1, <2>2
<1>. QED BY <1>7 DEF Books

LEMMA BooksReassign ==
    ASSUME Base, Books, NEW k \in Calls, reassignMergedCustomer(k)
    PROVE  Books'
<1>1. PICK s \in Ids, t \in Ids :
              /\ call[k].step = "reassign"
              /\ \A o \in Orders : link'[o] = IF link[o] = Linked(s) THEN Linked(t) ELSE link[o]
              /\ \/ call[k].order = None /\ Finish(k)
                 \/ /\ call[k].order # None
                    /\ \E r \in Record : Given(k, r, "apply", t)
  BY ReassignEffect
<1>2. UNCHANGED <<conflict, todo, assigned, reopened, early>>
  BY DEF reassignMergedCustomer, rows, history
<1>3. /\ \A j \in Calls \ {k} : call'[j] = call[j]
      /\ call[k].order = None \/ (call'[k].order = call[k].order /\ call'[k].step = "apply")
  BY <1>1, TurnOf DEF Given, Moved
<1>4. ASSUME NEW x \in Orders PROVE Booked(x)'
  <2>1. Deciding(x) => Deciding(x)'
    BY <1>3, CluesAssumption, DecidingKept
  <2>2. (x \in Placed' <=> x \in Placed) /\ (link'[x] = InConflict <=> link[x] = InConflict)
    BY <1>1 DEF Placed, Linked, InConflict
  <2>. QED BY <1>2, <2>1, <2>2, BookedKept DEF Books
<1>. QED BY <1>4 DEF Books

LEMMA BooksMark ==
    ASSUME Base, Books, NEW k \in Calls, MarkConflict(k)
    PROVE  Books'
<1>1. /\ early \subseteq early' /\ UNCHANGED <<link, todo, assigned, reopened>>
  BY DEF MarkConflict
<1>2. PICK o \in Orders :
              /\ o = call[k].order /\ call[k].step = "mark"
              /\ \/ /\ \E r \in Record : Given(k, r, "apply", call[k].held)
                    /\ conflict'[o] \in {"ignored", "resolved"}
                    /\ \A x \in Orders \ {o} : conflict'[x] = conflict[x]
                 \/ Finish(k) /\ UNCHANGED rows
  BY MarkEffect
<1>3. \A j \in Calls \ {k} : call'[j] = call[j]
  BY <1>2, TurnOf DEF Given, Moved
<1>4. \A x \in Orders : Deciding(x) => Deciding(x)'
  BY <1>2, <1>3, DecidingKept
<1>5. ASSUME NEW x \in Orders, conflict'[x] = conflict[x] PROVE Booked(x)'
  BY <1>1, <1>4, <1>5, BookedKept DEF Books, Placed
<1>6. CASE Finish(k) /\ UNCHANGED rows
  BY <1>5, <1>6 DEF Books, rows
<1>7. CASE /\ \E r \in Record : Given(k, r, "apply", call[k].held)
           /\ conflict'[o] \in {"ignored", "resolved"}
           /\ \A x \in Orders \ {o} : conflict'[x] = conflict[x]
  <2>1. Deciding(o)'
    BY <1>2, <1>7 DEF Given, Moved, Deciding
  <2>2. o \notin Placed' => assigned'[o] = None
    BY <1>1 DEF Books, Booked, Answered, Placed
  <2>3. Booked(o)'
    BY <1>7, <2>1, <2>2 DEF Booked, Filed, Answered
  <2>. QED BY <1>5, <1>7, <2>3 DEF Books
<1>. QED BY <1>2, <1>6, <1>7

LEMMA BooksApply ==
    ASSUME Base, Books, NEW k \in Calls, applyCustomerResolution(k)
    PROVE  Books'
<1>1. PICK o \in Orders, c \in Ids \cup {None} :
              /\ o = call[k].order /\ call[k].step = "apply" /\ Finish(k) /\ Decided(o)
              /\ IF o \in Placed
                   THEN /\ link'[o] = IF c = None THEN Unlinked ELSE Linked(c)
                        /\ \A x \in Orders \ {o} : link'[x] = link[x]
                        /\ assigned' = [assigned EXCEPT ![o] = c]
                        /\ reopened' = reopened \ {o}
                   ELSE UNCHANGED <<link, assigned, reopened>>
  BY ApplyEffect
<1>2. UNCHANGED <<conflict, todo, early>>
  BY DEF applyCustomerResolution, rows
<1>3. ASSUME NEW x \in Orders \ {o} PROVE Booked(x)'
  <2>1. Deciding(x) => Deciding(x)'
    BY <1>1, TurnOf, DecidingKept
  <2>2. /\ link'[x] = link[x] /\ assigned'[x] = assigned[x]
        /\ x \in reopened => x \in reopened'
    BY <1>1 DEF Base, Typed
  <2>. QED BY <1>2, <2>1, <2>2, BookedKept DEF Books, Placed
<1>4. Booked(o)'
  <2>1. CASE o \in Placed
    <3>1. o \notin early' => conflict'[o] \notin {"none", "open"}
      BY <1>1, <1>2, <2>1 DEF Decided
    <3>2. link'[o] # InConflict /\ o \in Placed'
      BY <1>1, <2>1 DEF Unlinked, Linked, InConflict, Placed
    <3>. QED BY <3>1, <3>2 DEF Booked, Filed, Answered
  <2>2. CASE o \notin Placed
    BY <1>1, <1>2, <2>2 DEF Books, Booked, Filed, Answered, Placed
  <2>. QED BY <2>1, <2>2
<1>. QED BY <1>3, <1>4 DEF Books

LEMMA BooksReconcile ==
    ASSUME IsFiniteSet(Ids), Base, Books, NEW o \in Orders, Reconcile(o)
    PROVE  Books'
<1>1. /\ o \in todo /\ o \in Placed /\ todo' = todo \ {o}
      /\ \A x \in Orders \ {o} : conflict'[x] = conflict[x] /\ link'[x] = link[x]
      /\ \/ /\ conflict'[o] = "open" /\ link'[o] = InConflict
            /\ reopened' = IF conflict[o] \in {"none", "open"} THEN reopened
                           ELSE reopened \cup {o}
         \/ /\ conflict'[o] = IF conflict[o] \in {"open", "ignored"} THEN "resolved"
                              ELSE conflict[o]
            /\ reopened' = reopened
            /\ \E c \in Ids : link'[o] = Linked(c)
  BY ReconcileEffect
<1>2. UNCHANGED <<call, assigned, early>>
  BY DEF Reconcile
<1>3. ASSUME NEW x \in Orders \ {o} PROVE Booked(x)'
  <2>1. Deciding(x) => Deciding(x)'
    BY <1>2 DEF Deciding
  <2>2. x \in Placed' <=> x \in Placed
    BY <1>1 DEF Placed
  <2>. QED BY <1>1, <1>2, <2>1, <2>2, BookedKept DEF Books
<1>4. Booked(o)'
  <2>1. \/ link'[o] = InConflict /\ conflict'[o] = "open"
        \/ (\E c \in Ids : link'[o] = Linked(c)) /\ conflict'[o] # "open"
    BY <1>1
  <2>4. InConflict.status = "conflict" /\ \A c : Linked(c).status = "linked"
    BY DEF Linked, InConflict
  <2>5. link'[o] = InConflict \/ (link'[o] # InConflict /\ link'[o].status = "linked")
    BY <2>1, <2>4
  <2>3. o \in Placed' /\ (link'[o] = InConflict <=> conflict'[o] = "open")
    <3>1. o \in Placed'
      BY <2>4, <2>5 DEF Placed
    <3>. QED BY <2>1, <2>4, <3>1
  <2>2. o \notin reopened' \cup early' /\ assigned'[o] # None => conflict'[o] \notin {"none", "open"}
    BY <1>1, <1>2 DEF Books, Booked, Answered
  <2>. QED BY <2>2, <2>3 DEF Booked, Filed, Answered
<1>. QED BY <1>3, <1>4 DEF Books

LEMMA BooksInit == Init => Books
BY DEF Init, Books, Booked, Filed, Answered, Placed, NotPlaced

LEMMA BooksStep ==
    ASSUME IsFiniteSet(Ids), Base, Books, [Next]_vars
    PROVE  Books'
<1>1. ASSUME NEW k \in Calls, Checkout(k) PROVE Books'
  BY <1>1, BooksCheckout
<1>2. ASSUME NEW k \in Calls, Crm(k) PROVE Books'
  <2>1. ASSUME \/ \E s, t \in Ids : mergeCustomers(k, s, t)
               \/ \E o \in Orders : DecideIgnore(k, o)
               \/ \E o \in Orders, w \in Ids : DecideAssign(k, o, w)
               \/ \E o \in Orders, s, t \in Ids : DecideMerge(k, o, s, t)
               \/ \E c \in Ids, clues \in Contacts : updateCustomer(k, c, clues)
               \/ \E c \in Ids : deleteCustomer(k, c)
        PROVE  Books'
    <3>1. /\ call[k] = Idle /\ \E r : call' = [call EXCEPT ![k] = r]
          /\ UNCHANGED <<conflict, link, todo, assigned, reopened, early>>
      BY <2>1 DEF mergeCustomers, DecideIgnore, DecideAssign, DecideMerge, updateCustomer,
         deleteCustomer, Begin, rows, history
    <3>. QED BY <3>1, IdleFields, TurnOf, BooksOfOthers
  <2>2. ASSUME StoreEdit(k) \/ EraseAccount(k) PROVE Books'
    <3>1. /\ call[k].step \in {"store", "erase"} /\ Finish(k)
          /\ UNCHANGED <<conflict, link, todo, assigned, reopened, early>>
      BY <2>2 DEF StoreEdit, EraseAccount, At, history
    <3>. QED BY <3>1, TurnOf, BooksOfOthers
  <2>. QED BY <1>2, <2>1, <2>2, BooksCommit, BooksReassign, BooksMark, BooksApply DEF Crm
<1>3. CASE UNCHANGED <<conflict, link, call, todo, assigned, reopened, early>>
  BY <1>3 DEF Books, Booked, Filed, Answered, Deciding, Placed
<1>4. ASSUME Restart PROVE Books'
  BY <1>4 DEF Restart, rows, history, Books, Booked, Filed, Answered, Placed
<1>5. ASSUME NEW o \in Orders, Reconcile(o) PROVE Books'
  BY <1>5, BooksReconcile
<1>. QED BY <1>1, <1>2, <1>3, <1>4, <1>5 DEF Next, createCustomer, vars, rows, history

LEMMA BooksInvariant == ASSUME IsFiniteSet(Ids) PROVE Spec => [](Base /\ Books)
<1>1. Base /\ Books /\ [Next]_vars => (Base /\ Books)'
  BY BaseStep, BooksStep
<1>. QED BY <1>1, BaseInit, BooksInit, PTL DEF Spec

\* The orders without a customer because of their clues are exactly those CRM lists
\* as open conflicts, across creations, decisions and restarts in the middle of a
\* decision (upsertCustomerConflict, closeConflictForOrder, resolveCustomerConflict).
THEOREM OrdersInConflictAreListed == ASSUME IsFiniteSet(Ids) PROVE Spec => []ConflictsListed
<1>1. Books => ConflictsListed
  BY DEF Books, Booked, Filed, ConflictsListed, Placed
<1>. QED BY <1>1, BooksInvariant, PTL


(***************************************************************************)
(* What orders and calls hold.  Unless a merge was applied to customers no *)
(* longer active, merges form a forest, a customer a call or an order      *)
(* holds exists or was seen to be erased under it, and an order given to a *)
(* customer names one met on the way from it.                              *)
(***************************************************************************)
Alive(c) == c \in orphaned \/ Exists(c)
Used(c) == customer[c].status # "unused"

\* The customer a call goes on to write into an order or a decision, and the two
\* of a merge whose orders are still to be moved.
Holds(k) ==
    /\ call[k].step \in {"enter", "apply"} /\ call[k].held # None => Alive(call[k].held)
    /\ call[k].step = "apply" /\ call[k].held # None => Used(call[k].held)
    /\ call[k].step = "reassign" =>
          /\ Alive(call[k].other) /\ Used(call[k].other)
          /\ \/ customer[call[k].held].status = "deleted"
             \/ /\ customer[call[k].held].status = "merged"
                /\ customer[call[k].held].into = call[k].other

LinkAlive(o) == \A c \in Ids : link[o] = Linked(c) => Alive(c)

\* The customer an operator gave the order to leads through the one it names.
Stays(o) ==
    assigned[o] # None =>
       /\ Used(assigned[o])
       /\ o \in Placed \ (reopened \cup early) /\ Exists(assigned[o]) =>
             \E c \in Path(customer, assigned[o]) : link[o] = Linked(c)

Sane ==
    ~tangled => /\ Merges(customer)
                /\ \A k \in Calls : Holds(k)
                /\ \A o \in Orders : LinkAlive(o) /\ Stays(o)

\* A step of the table takes no customer away from a call or an order unseen.
Moves ==
    /\ Evolves(customer, customer')
    /\ orphaned \subseteq orphaned'
    /\ \A c \in Ids : Exists(c) /\ ~Exists(c)' =>
          c \in orphaned' \/ (~HeldByCall(c) /\ \A o \in Orders : link[o] # Linked(c))

LEMMA TableMoves ==
    ASSUME GoodTable(customer), GoodTable(customer'), Merges(customer), orphaned \subseteq orphaned',
           \/ SameTree(customer, customer')
           \/ \E n \in Ids : NewRoot(customer, customer', n)
           \/ \E s, t \in Ids : Joined(customer, customer', s, t)
           \/ \E c \in Ids : /\ Cut(customer, customer', c)
                             /\ HeldByCall(c) \/ ~Unreferenced(c) => c \in orphaned'
    PROVE  Merges(customer') /\ Moves
<1>1. Named(customer) /\ Named(customer')
  BY GoodIsNamed
<1>2. Merges(customer') /\ Evolves(customer, customer')
  BY <1>1, CluesEvolve, RootEvolves, JoinEvolves, CutEvolves
<1>3. ASSUME NEW d \in Ids, Exists(d), ~Exists(d)'
      PROVE  d \in orphaned' \/ (~HeldByCall(d) /\ \A o \in Orders : link[o] # Linked(d))
  <2>1. PICK c \in Ids : /\ Cut(customer, customer', c)
                         /\ HeldByCall(c) \/ ~Unreferenced(c) => c \in orphaned'
    BY <1>3 DEF SameTree, NewRoot, Joined, SameAt, Exists
  <2>2. c = d
    BY <1>3, <2>1 DEF Cut, SameAt, Exists
  <2>. QED BY <2>1, <2>2 DEF Unreferenced
<1>. QED BY <1>2, <1>3 DEF Moves

LEMMA StillMoves ==
    ASSUME GoodTable(customer), UNCHANGED <<customer, orphaned>>, Merges(customer)
    PROVE  Merges(customer') /\ Moves
<1>1. SameTree(customer, customer')
  BY DEF SameTree, SameAt
<1>. QED BY <1>1, TableMoves

LEMMA HoldsKept ==
    ASSUME Base, Moves, NEW k \in Calls, Holds(k), call'[k] = call[k]
    PROVE  Holds(k)'
<1>1. call[k].held \in Ids \cup {None} /\ call[k].other \in Ids \cup {None}
  BY Fields DEF Base, Typed
<1>2. call[k].step = "reassign" => call[k].held \in Ids /\ call[k].other \in Ids
  BY DEF Base, Courses, Course
<1>3. ASSUME NEW c \in Ids, c \in {call[k].held, call[k].other}, Alive(c),
             call[k].step \in {"enter", "apply", "reassign"}
      PROVE  Alive(c)'
  BY <1>3 DEF Alive, Moves, HeldByCall
<1>4. ASSUME NEW c \in Ids, Used(c) PROVE Used(c)'
  BY <1>4 DEF Used, Moves, Evolves
<1>5. call'[k].step \in {"enter", "apply"} /\ call'[k].held # None => Alive(call[k].held)'
  BY <1>1, <1>3 DEF Holds
<1>6. call'[k].step = "apply" /\ call'[k].held # None => Used(call[k].held)'
  BY <1>1, <1>4 DEF Holds
<1>7. ASSUME call[k].step = "reassign"
      PROVE  /\ Alive(call[k].other)' /\ Used(call[k].other)'
             /\ \/ customer'[call[k].held].status = "deleted"
                \/ /\ customer'[call[k].held].status = "merged"
                   /\ customer'[call[k].held].into = call[k].other
  BY <1>2, <1>3, <1>4, <1>7 DEF Holds, Moves, Evolves
<1>. QED BY <1>5, <1>6, <1>7 DEF Holds

LEMMA HoldsNone ==
    ASSUME NEW k \in Calls, call'[k].step \notin {"enter", "apply", "reassign"}
    PROVE  Holds(k)'
BY DEF Holds

LEMMA LinkAliveKept ==
    ASSUME Moves, NEW o \in Orders, LinkAlive(o), link'[o] = link[o]
    PROVE  LinkAlive(o)'
BY DEF LinkAlive, Alive, Moves

LEMMA StaysKept ==
    ASSUME Base, Moves, NEW o \in Orders, Stays(o), link'[o] = link[o], assigned'[o] = assigned[o],
           o \in reopened => o \in reopened', o \in early => o \in early'
    PROVE  Stays(o)'
<1>1. SUFFICES ASSUME assigned[o] # None PROVE Stays(o)'
  BY DEF Stays
<1>2. PICK a : a = assigned[o]
  OBVIOUS
<1>3. a \in Ids /\ Used(a)
  BY <1>1, <1>2 DEF Base, Typed, Stays
<1>4. Used(a)' /\ (Exists(a)' => Exists(a))
  BY <1>3 DEF Used, Moves, Evolves, Exists, Real
<1>5. ASSUME o \in Placed' \ (reopened' \cup early'), Exists(a)'
      PROVE  \E c \in Path(customer', a) : link'[o] = Linked(c)
  <2>1. PICK c \in Path(customer, a) : link[o] = Linked(c)
    BY <1>1, <1>2, <1>4, <1>5 DEF Stays, Placed
  <2>2. Path(customer, a) \subseteq Path(customer', a)
    BY <1>3, <1>4, <1>5 DEF Moves, Evolves, Exists, Real
  <2>. QED BY <2>1, <2>2
<1>. QED BY <1>2, <1>4, <1>5 DEF Stays

\* A step is sane when what it changes is.
LEMMA SaneKept ==
    ASSUME Base, Sane, ~tangled, Merges(customer') /\ Moves,
           \A k \in Calls : call'[k] = call[k] \/ Holds(k)',
           \A o \in Orders :
              \/ /\ link'[o] = link[o] /\ assigned'[o] = assigned[o]
                 /\ o \in reopened => o \in reopened'
                 /\ o \in early => o \in early'
              \/ LinkAlive(o)' /\ Stays(o)'
    PROVE  Sane'
<1>1. \A k \in Calls : Holds(k)'
  BY HoldsKept DEF Sane
<1>2. \A o \in Orders : LinkAlive(o)' /\ Stays(o)'
  BY LinkAliveKept, StaysKept DEF Sane
<1>. QED BY <1>1, <1>2 DEF Sane


LEMMA SaneStarts ==
    ASSUME Base, Sane, ~tangled, NEW k \in Calls, NEW r \in Record,
           call' = [call EXCEPT ![k] = r], r.step \notin {"enter", "apply", "reassign"},
           UNCHANGED <<customer, link, history>>
    PROVE  Sane'
<1>1. Merges(customer') /\ Moves
  BY StillMoves DEF Sane, Base, Typed, history
<1>2. call'[k] = r /\ \A j \in Calls \ {k} : call'[j] = call[j]
  BY Turn DEF Base, Typed
<1>3. Holds(k)'
  BY <1>2, HoldsNone
<1>. QED BY <1>1, <1>2, <1>3, SaneKept DEF history

\* A call that finishes, or gives itself a customer that is there, over a table
\* that moved.
LEMMA SaneMoves ==
    ASSUME Base, Sane, ~tangled, Merges(customer') /\ Moves, NEW k \in Calls,
           \A j \in Calls \ {k} : call'[j] = call[j],
           Holds(k)',
           UNCHANGED <<link, assigned>>, reopened \subseteq reopened', early \subseteq early'
    PROVE  Sane'
BY SaneKept

LEMMA FinishHolds ==
    ASSUME Base, NEW k \in Calls, Finish(k)
    PROVE  Holds(k)' /\ \A j \in Calls \ {k} : call'[j] = call[j]
<1>1. call'[k] = Idle
  BY DEF Finish, Base, Typed
<1>. QED BY <1>1, IdleFields, HoldsNone, TurnOf

LEMMA SaneOpenConflict ==
    ASSUME Base, Sane, ~tangled, NEW k \in Calls, OpenConflict(k)
    PROVE  Sane'
<1>1. Merges(customer') /\ Moves
  BY StillMoves DEF Sane, Base, Typed, OpenConflict
<1>2. PICK r \in Record : Given(k, r, "enter", None)
  <2>1. Give(k, [call[k] EXCEPT !.step = "enter", !.held = None])
    BY DEF OpenConflict
  <2>. QED BY <2>1, GivesStep DEF Steps
<1>3. Holds(k)'
  BY <1>2 DEF Given, Moved, Holds
<1>4. /\ UNCHANGED <<link, assigned, early>> /\ reopened \subseteq reopened'
      /\ \A j \in Calls \ {k} : call'[j] = call[j]
  BY <1>2 DEF OpenConflict, Reopened, Given, Moved
<1>. QED BY <1>1, <1>3, <1>4, SaneMoves

LEMMA SaneHolds ==
    ASSUME Base, Sane, ~tangled, NEW k \in Calls, NEW c \in Ids, Exists(c)',
           Give(k, [call[k] EXCEPT !.step = "enter", !.held = c]),
           UNCHANGED <<link, history>>, GoodTable(customer'),
           SameTree(customer, customer') \/ NewRoot(customer, customer', c)
    PROVE  Sane'
<1>1. Merges(customer') /\ Moves
  BY TableMoves DEF Sane, Base, Typed, history
<1>2. PICK r \in Record : Given(k, r, "enter", c)
  BY GivesStep DEF Steps
<1>3. Holds(k)'
  BY <1>2 DEF Given, Moved, Holds, Alive
<1>. QED BY <1>1, <1>2, <1>3, SaneMoves DEF Given, Moved, history

LEMMA SaneEnterOrder ==
    ASSUME Base, Books, Sane, ~tangled, NEW k \in Calls, EnterOrder(k)
    PROVE  Sane'
<1>1. PICK o \in Orders :
              /\ o = call[k].order /\ o \notin Placed
              /\ call[k].step = "enter" /\ Finish(k)
              /\ \A x \in Orders \ {o} : link'[x] = link[x]
              /\ \/ call[k].held = None /\ link'[o] = InConflict
                 \/ call[k].held \in Ids /\ link'[o] = Linked(call[k].held)
  BY EnterEffect
<1>2. UNCHANGED <<customer, history>>
  BY DEF EnterOrder
<1>3. Merges(customer') /\ Moves
  BY <1>2, StillMoves DEF Sane, Base, Typed, history
<1>4. LinkAlive(o)'
  <2>1. PICK h : h = call[k].held
    OBVIOUS
  <2>2. CASE h = None /\ link'[o] = InConflict
    BY <2>2 DEF LinkAlive, Linked, InConflict
  <2>3. CASE h \in Ids /\ link'[o] = Linked(h)
    <3>1. Alive(h)
      BY <1>1, <2>1, <2>3, CluesAssumption DEF Sane, Holds
    <3>2. Alive(h)'
      BY <1>2, <3>1 DEF Alive, Exists, history
    <3>3. \A c : Linked(h) = Linked(c) => c = h
      BY DEF Linked
    <3>. QED BY <2>3, <3>2, <3>3 DEF LinkAlive
  <2>. QED BY <1>1, <2>1, <2>2, <2>3
<1>5. Stays(o)'
  <2>1. assigned'[o] = None
    BY <1>1, <1>2 DEF Books, Booked, Answered, history
  <2>. QED BY <2>1 DEF Stays
<1>6. \A j \in Calls : call'[j] = call[j] \/ Holds(j)'
  BY <1>1, FinishHolds
<1>. QED BY <1>1, <1>2, <1>3, <1>4, <1>5, <1>6, SaneKept DEF history

LEMMA SaneCheckout ==
    ASSUME IsFiniteSet(Ids), Base, Books, Sane, ~tangled, NEW k \in Calls, Checkout(k)
    PROVE  Sane'
<1>1. ASSUME NEW o \in Orders, resolveCustomerFromOrderSnapshot(k, o) PROVE Sane'
  <2>1. PICK r : /\ r = [Idle EXCEPT !.op = "create", !.step = "write", !.order = o,
                                     !.found = Candidates(o),
                                     !.seen = UNION {customer[c].clues : c \in Candidates(o)}]
                 /\ call' = [call EXCEPT ![k] = r]
    BY <1>1 DEF resolveCustomerFromOrderSnapshot, Begin
  <2>2. r \in Record /\ r.step = "write"
    BY <2>1, CandidatesType, IdleFields DEF Idle, Record
  <2>3. UNCHANGED <<customer, link, history>>
    BY <1>1 DEF resolveCustomerFromOrderSnapshot, rows
  <2>. QED BY <2>1, <2>2, <2>3, SaneStarts
<1>2. ASSUME UseCandidate(k) PROVE Sane'
  <2>1. UNCHANGED <<link, history>>
    BY <1>2 DEF UseCandidate
  <2>2. PICK c \in Ids : /\ Exists(c)
                         /\ Give(k, [call[k] EXCEPT !.step = "enter", !.held = c])
                         /\ GoodTable(customer') /\ SameTree(customer, customer')
    BY <1>2, UseEffect
  <2>3. Exists(c)'
    BY <2>2 DEF SameTree, SameAt, Exists
  <2>. QED BY <2>1, <2>2, <2>3, SaneHolds
<1>3. ASSUME materializeCustomerFromOrder(k) PROVE Sane'
  <2>1. UNCHANGED <<link, history>>
    BY <1>3 DEF materializeCustomerFromOrder
  <2>. QED BY <1>3, <2>1, MaterializeEffect, SaneHolds
<1>4. ASSUME ResolutionFails(k) PROVE Sane'
  <2>1. Finish(k) /\ UNCHANGED <<customer, link, history>>
    BY <1>4 DEF ResolutionFails, rows
  <2>. QED BY <2>1, IdleFields, SaneStarts DEF Finish
<1>. QED BY <1>1, <1>2, <1>3, <1>4, SaneOpenConflict, SaneEnterOrder DEF Checkout


LEMMA SaneMergeCommit ==
    ASSUME Base, Sane, ~tangled, ~tangled', NEW k \in Calls, MergeCommit(k)
    PROVE  Sane'
<1>1. PICK s \in Ids, t \in Ids :
              /\ s = call[k].held /\ t = call[k].other /\ call[k].step = "commit"
              /\ \/ /\ GoodTable(customer')
                    /\ customer'[s].status = "merged" /\ customer'[s].into = t
                    /\ Exists(t)'
                    /\ Joined(customer, customer', s, t)
                    /\ Give(k, [call[k] EXCEPT !.step = "reassign"])
                 \/ UNCHANGED <<rows, tangled>> /\ Finish(k)
  BY CommitEffect
<1>2. UNCHANGED <<link, assigned, reopened, orphaned>> /\ early \subseteq early'
  BY DEF MergeCommit
<1>3. Merges(customer') /\ Moves
  BY <1>1, <1>2, TableMoves, StillMoves DEF Sane, Base, Typed, rows
<1>4. Holds(k)' /\ \A j \in Calls \ {k} : call'[j] = call[j]
  <2>1. CASE Finish(k)
    BY <2>1, FinishHolds
  <2>2. CASE /\ customer'[s].status = "merged" /\ customer'[s].into = t
             /\ Exists(t)' /\ Give(k, [call[k] EXCEPT !.step = "reassign"])
    <3>1. PICK r \in Record : Given(k, r, "reassign", s)
      BY <1>1, <2>2, GivesStep DEF Steps
    <3>2. /\ call'[k].step = "reassign" /\ call'[k].held = s /\ call'[k].other = t
          /\ \A j \in Calls \ {k} : call'[j] = call[j]
      BY <1>1, <3>1 DEF Given, Moved
    <3>3. Alive(t)' /\ Used(t)'
      BY <2>2 DEF Alive, Used, Exists
    <3>. QED BY <2>2, <3>2, <3>3 DEF Holds, Alive, Used
  <2>. QED BY <1>1, <2>1, <2>2
<1>. QED BY <1>2, <1>3, <1>4, SaneMoves

\* The customers met from one that exists exist.
LEMMA PathIsReal ==
    ASSUME NEW cu, Merges(cu), NEW a \in Ids, Real(cu, a), NEW x \in Path(cu, a)
    PROVE  x \in Ids /\ Real(cu, x)
<1>1. PICK R : R = {y \in Ids : Real(cu, y)}
  OBVIOUS
<1>2. Leads(cu, R)
  BY <1>1 DEF Leads, Follows, Merges
<1>. QED BY <1>1, <1>2, PathWithin

LEMMA SaneReassign ==
    ASSUME Base, Sane, ~tangled, NEW k \in Calls, reassignMergedCustomer(k)
    PROVE  Sane'
<1>1. PICK s \in Ids, t \in Ids :
              /\ s = call[k].held /\ t = call[k].other /\ call[k].step = "reassign"
              /\ \A o \in Orders : link'[o] = IF link[o] = Linked(s) THEN Linked(t) ELSE link[o]
              /\ \/ call[k].order = None /\ Finish(k)
                 \/ \E r \in Record : Given(k, r, "apply", t)
  BY ReassignEffect
<1>2. UNCHANGED <<customer, history>>
  BY DEF reassignMergedCustomer, rows
<1>3. Merges(customer') /\ Moves
  BY <1>2, StillMoves DEF Sane, Base, Typed, history
<1>4. /\ Alive(t) /\ Used(t)
      /\ customer[s].status = "deleted" \/ (customer[s].status = "merged" /\ customer[s].into = t)
  BY <1>1 DEF Sane, Holds
<1>5. Alive(t)' /\ Used(t)'
  BY <1>2, <1>4 DEF Alive, Used, Exists, history
<1>6. Holds(k)' /\ \A j \in Calls \ {k} : call'[j] = call[j]
  <2>1. CASE Finish(k)
    BY <2>1, FinishHolds
  <2>2. ASSUME NEW r \in Record, Given(k, r, "apply", t)
        PROVE  Holds(k)' /\ \A j \in Calls \ {k} : call'[j] = call[j]
    <3>1. /\ call'[k].step = "apply" /\ call'[k].held = t
          /\ \A j \in Calls \ {k} : call'[j] = call[j]
      BY <2>2 DEF Given, Moved
    <3>. QED BY <1>5, <3>1 DEF Holds, Alive, Used
  <2>. QED BY <1>1, <2>1, <2>2
<1>7. ASSUME NEW o \in Orders, link[o] = Linked(s) PROVE LinkAlive(o)' /\ Stays(o)'
  <2>1. link'[o] = Linked(t) /\ link[o].status = "linked"
    BY <1>1, <1>7 DEF Linked
  <2>2. LinkAlive(o)'
    <3>1. \A c : Linked(t) = Linked(c) => c = t
      BY DEF Linked
    <3>. QED BY <1>5, <2>1, <3>1 DEF LinkAlive
  <2>3. PICK a : a = assigned[o]
    OBVIOUS
  <2>4. ASSUME a # None PROVE a \in Ids /\ Used(a)'
    <3>1. a \in Ids /\ Used(a)
      BY <2>3, <2>4 DEF Base, Typed, Sane, Stays
    <3>. QED BY <1>2, <3>1 DEF Used
  <2>5. ASSUME a # None, o \in Placed' \ (reopened' \cup early'), Exists(a)'
        PROVE  t \in Path(customer', a)
    <3>1. Exists(a) /\ o \in Placed \ (reopened \cup early)
      BY <1>2, <2>1, <2>5 DEF Exists, Placed, history
    <3>2. PICK x \in Path(customer, a) : link[o] = Linked(x)
      BY <2>3, <2>5, <3>1 DEF Sane, Stays
    <3>3. x = s
      BY <1>7, <3>2 DEF Linked
    <3>4. Real(customer, s)
      BY <2>4, <2>5, <3>1, <3>2, <3>3, PathIsReal DEF Sane, Exists, Real
    <3>5. Follows(customer, s) /\ customer[s].into = t
      BY <1>4, <3>4, CluesAssumption DEF Real, Follows
    <3>6. Leads(customer, Path(customer, a))
      BY <2>4, <2>5, PathLeads, GoodIsNamed DEF Base, Typed
    <3>7. t \in Path(customer, a)
      BY <3>2, <3>3, <3>5, <3>6 DEF Leads
    <3>. QED BY <1>2, <3>7
  <2>6. assigned'[o] = a
    BY <1>2, <2>3 DEF history
  <2>7. Stays(o)'
    BY <2>1, <2>4, <2>5, <2>6 DEF Stays
  <2>. QED BY <2>2, <2>7
<1>8. ASSUME NEW o \in Orders, link[o] # Linked(s)
      PROVE  /\ link'[o] = link[o] /\ assigned'[o] = assigned[o]
             /\ o \in reopened => o \in reopened'
             /\ o \in early => o \in early'
  BY <1>1, <1>2, <1>8 DEF history
<1>. QED BY <1>3, <1>6, <1>7, <1>8, SaneKept

LEMMA SaneMark ==
    ASSUME Base, Sane, ~tangled, NEW k \in Calls, MarkConflict(k)
    PROVE  Sane'
<1>1. \/ /\ \E r \in Record : Given(k, r, "apply", call[k].held)
         /\ call[k].held # None => call[k].held \in Ids /\ Exists(call[k].held)
         /\ GoodTable(customer') /\ SameTree(customer, customer')
      \/ Finish(k) /\ UNCHANGED rows
  BY MarkEffect
<1>2. UNCHANGED <<link, assigned, reopened, orphaned>> /\ early \subseteq early'
  BY DEF MarkConflict
<1>3. Merges(customer') /\ Moves
  BY <1>1, <1>2, TableMoves, StillMoves DEF Sane, Base, Typed, rows
<1>4. Holds(k)' /\ \A j \in Calls \ {k} : call'[j] = call[j]
  <2>1. CASE Finish(k)
    BY <2>1, FinishHolds
  <2>2. ASSUME NEW r \in Record, Given(k, r, "apply", call[k].held),
               call[k].held # None => call[k].held \in Ids /\ Exists(call[k].held),
               SameTree(customer, customer')
        PROVE  Holds(k)' /\ \A j \in Calls \ {k} : call'[j] = call[j]
    <3>1. PICK h : h = call[k].held
      OBVIOUS
    <3>2. /\ call'[k].step = "apply" /\ call'[k].held = h
          /\ \A j \in Calls \ {k} : call'[j] = call[j]
      BY <2>2, <3>1 DEF Given, Moved
    <3>3. h # None => Alive(h)' /\ Used(h)'
      BY <2>2, <3>1 DEF SameTree, SameAt, Alive, Used, Exists
    <3>. QED BY <3>2, <3>3 DEF Holds, Alive, Used
  <2>. QED BY <1>1, <2>1, <2>2
<1>. QED BY <1>2, <1>3, <1>4, SaneMoves

LEMMA SaneApply ==
    ASSUME Base, Sane, ~tangled, NEW k \in Calls, applyCustomerResolution(k)
    PROVE  Sane'
<1>1. PICK o \in Orders, c \in Ids \cup {None} :
              /\ c = call[k].held /\ call[k].step = "apply" /\ Finish(k)
              /\ IF o \in Placed
                   THEN /\ link'[o] = IF c = None THEN Unlinked ELSE Linked(c)
                        /\ \A x \in Orders \ {o} : link'[x] = link[x]
                        /\ assigned' = [assigned EXCEPT ![o] = c]
                        /\ reopened' = reopened \ {o}
                   ELSE UNCHANGED <<link, assigned, reopened>>
  BY ApplyEffect
<1>2. UNCHANGED <<customer, early, tangled, orphaned>>
  BY DEF applyCustomerResolution, rows
<1>3. Merges(customer') /\ Moves
  BY <1>2, StillMoves DEF Sane, Base, Typed
<1>4. \A j \in Calls : call'[j] = call[j] \/ Holds(j)'
  BY <1>1, FinishHolds
<1>5. ASSUME NEW x \in Orders, x # o \/ o \notin Placed
      PROVE  /\ link'[x] = link[x] /\ assigned'[x] = assigned[x]
             /\ x \in reopened => x \in reopened'
             /\ x \in early => x \in early'
  BY <1>1, <1>2, <1>5 DEF Base, Typed
<1>6. ASSUME o \in Placed PROVE LinkAlive(o)' /\ Stays(o)'
  <2>1. assigned'[o] = c /\ link'[o] = IF c = None THEN Unlinked ELSE Linked(c)
    BY <1>1, <1>6 DEF Base, Typed
  <2>2. CASE c = None
    BY <2>1, <2>2 DEF LinkAlive, Stays, Linked, Unlinked
  <2>3. CASE c # None
    <3>1. c \in Ids /\ Alive(c) /\ Used(c)
      BY <1>1, <2>3 DEF Sane, Holds
    <3>2. Alive(c)' /\ Used(c)'
      BY <1>2, <3>1 DEF Alive, Used, Exists
    <3>3. c \in Path(customer', c)
      BY <1>2, <3>1, PathLeads, GoodIsNamed DEF Base, Typed
    <3>4. \A x : Linked(c) = Linked(x) => x = c
      BY DEF Linked
    <3>5. LinkAlive(o)'
      BY <2>1, <2>3, <3>2, <3>4 DEF LinkAlive
    <3>6. Stays(o)'
      BY <2>1, <2>3, <3>2, <3>3 DEF Stays
    <3>. QED BY <3>5, <3>6
  <2>. QED BY <2>2, <2>3
<1>. QED BY <1>3, <1>4, <1>5, <1>6, SaneKept


LEMMA SaneErase ==
    ASSUME Base, Sane, ~tangled, ~tangled', NEW k \in Calls, EraseAccount(k)
    PROVE  Sane'
<1>1. PICK c \in Ids :
              /\ Finish(k)
              /\ \/ UNCHANGED <<customer, orphaned, tangled>>
                 \/ /\ GoodTable(customer') /\ Cut(customer, customer', c)
                    /\ orphaned \subseteq orphaned'
                    /\ HeldByCall(c) \/ ~Unreferenced(c) => c \in orphaned'
  BY EraseEffect
<1>2. UNCHANGED <<link, assigned, reopened, early>>
  BY DEF EraseAccount
<1>3. Merges(customer') /\ Moves
  BY <1>1, TableMoves, StillMoves DEF Sane, Base, Typed
<1>. QED BY <1>1, <1>2, <1>3, FinishHolds, SaneMoves

LEMMA SaneCrm ==
    ASSUME IsFiniteSet(Ids), Base, Sane, ~tangled, ~tangled', NEW k \in Calls, Crm(k)
    PROVE  Sane'
<1>1. ASSUME NEW s \in Ids, NEW t \in Ids, NEW o \in Orders \cup {None},
             Begin(k, MergeRequest(s, t, o)), UNCHANGED <<customer, link, history>>
      PROVE  Sane'
  <2>1. PICK r : r = MergeRequest(s, t, o)
    OBVIOUS
  <2>2. r \in Record /\ r.step = "commit"
    BY <2>1, MergeRequestType
  <2>3. call' = [call EXCEPT ![k] = r]
    BY <1>1, <2>1 DEF Begin
  <2>. QED BY <1>1, <2>2, <2>3, SaneStarts
<1>2. ASSUME NEW s \in Ids, NEW t \in Ids, mergeCustomers(k, s, t) PROVE Sane'
  BY <1>1, <1>2 DEF mergeCustomers, rows
<1>3. ASSUME NEW o \in Orders, NEW s \in Ids, NEW t \in Ids, DecideMerge(k, o, s, t) PROVE Sane'
  BY <1>1, <1>3 DEF DecideMerge, rows
<1>4. ASSUME NEW r \in Record, r.step \in {"mark", "store", "erase"},
             call' = [call EXCEPT ![k] = r], UNCHANGED <<customer, link, history>>
      PROVE  Sane'
  BY <1>4, SaneStarts
<1>5. ASSUME NEW o \in Orders, DecideIgnore(k, o) PROVE Sane'
  <2>1. PICK r : /\ r = [Idle EXCEPT !.op = "ignore", !.step = "mark", !.order = o]
                 /\ call' = [call EXCEPT ![k] = r]
    BY <1>5 DEF DecideIgnore, Begin
  <2>2. r \in Record /\ r.step = "mark"
    BY <2>1, IdleFields DEF Idle, Record
  <2>. QED BY <1>4, <1>5, <2>1, <2>2 DEF DecideIgnore, rows
<1>6. ASSUME NEW o \in Orders, NEW w \in Ids, DecideAssign(k, o, w) PROVE Sane'
  <2>1. PICK r : /\ r = [Idle EXCEPT !.op = "assign", !.step = "mark", !.order = o,
                                     !.held = ActiveOf(w),
                                     !.seen = customer[ActiveOf(w)].clues]
                 /\ call' = [call EXCEPT ![k] = r]
    BY <1>6 DEF DecideAssign, Begin
  <2>2. r \in Record /\ r.step = "mark"
    BY <2>1, ActiveType, IdleFields DEF Idle, Record
  <2>. QED BY <1>4, <1>6, <2>1, <2>2 DEF DecideAssign, rows
<1>7. ASSUME NEW c \in Ids, NEW clues \in Contacts, updateCustomer(k, c, clues) PROVE Sane'
  <2>1. PICK r : /\ r = [Idle EXCEPT !.op = "edit", !.step = "store", !.held = c, !.seen = clues]
                 /\ call' = [call EXCEPT ![k] = r]
    BY <1>7 DEF updateCustomer, Begin
  <2>2. r \in Record /\ r.step = "store"
    BY <2>1, IdleFields DEF Idle, Record, Contacts
  <2>. QED BY <1>4, <1>7, <2>1, <2>2 DEF updateCustomer, rows
<1>8. ASSUME NEW c \in Ids, deleteCustomer(k, c) PROVE Sane'
  <2>1. PICK r : /\ r = [Idle EXCEPT !.op = "delete", !.step = "erase", !.held = c,
                                     !.other = IF Unreferenced(c) THEN c ELSE None]
                 /\ call' = [call EXCEPT ![k] = r]
    BY <1>8 DEF deleteCustomer, Begin
  <2>2. r \in Record /\ r.step = "erase"
    BY <2>1, IdleFields DEF Idle, Record
  <2>. QED BY <1>4, <1>8, <2>1, <2>2 DEF deleteCustomer, rows
<1>9. ASSUME StoreEdit(k) PROVE Sane'
  <2>1. Finish(k) /\ UNCHANGED <<link, history>>
    BY <1>9 DEF StoreEdit
  <2>2. Merges(customer') /\ Moves
    BY <1>9, <2>1, StoreEffect, TableMoves DEF Sane, Base, Typed, history
  <2>. QED BY <2>1, <2>2, FinishHolds, SaneMoves DEF history
<1>. QED
  BY <1>2, <1>3, <1>5, <1>6, <1>7, <1>8, <1>9, SaneMergeCommit, SaneReassign, SaneMark, SaneApply,
     SaneErase DEF Crm

LEMMA SaneReconcile ==
    ASSUME IsFiniteSet(Ids), Base, Books, Sane, ~tangled, NEW o \in Orders, Reconcile(o)
    PROVE  Sane'
<1>1. /\ o \in Placed /\ GoodTable(customer')
      /\ \A x \in Orders \ {o} : link'[x] = link[x]
      /\ \/ /\ conflict'[o] = "open" /\ link'[o] = InConflict /\ UNCHANGED customer
            /\ reopened' = IF conflict[o] \in {"none", "open"} THEN reopened
                           ELSE reopened \cup {o}
         \/ /\ reopened' = reopened
            /\ \E c \in Ids :
                 /\ link'[o] = Linked(c) /\ Exists(c)'
                 /\ \/ Candidates(o) = {c} /\ SameTree(customer, customer')
                    \/ Candidates(o) = {} /\ NewRoot(customer, customer', c)
  BY ReconcileEffect
<1>2. UNCHANGED <<call, assigned, early, tangled, orphaned>>
  BY DEF Reconcile
<1>3. Merges(customer') /\ Moves
  BY <1>1, <1>2, TableMoves, StillMoves DEF Sane, Base, Typed
<1>4. PICK a : a = assigned[o]
  OBVIOUS
<1>5. a # None => a \in Ids /\ Used(a) /\ Used(a)' /\ (Exists(a)' => Exists(a))
  <2>1. a # None => a \in Ids /\ Used(a)
    BY <1>4 DEF Base, Typed, Sane, Stays
  <2>. QED BY <1>3, <2>1 DEF Used, Moves, Evolves, Exists, Real
<1>6. CASE /\ conflict'[o] = "open" /\ link'[o] = InConflict
           /\ reopened' = IF conflict[o] \in {"none", "open"} THEN reopened
                          ELSE reopened \cup {o}
  <2>1. LinkAlive(o)'
    BY <1>6 DEF LinkAlive, Linked, InConflict
  <2>2. o \in reopened' \cup early' \/ a = None
    BY <1>1, <1>2, <1>4, <1>6 DEF Books, Booked, Answered
  <2>3. Stays(o)'
    BY <1>2, <1>4, <1>5, <2>2 DEF Stays
  <2>4. \A x \in Orders \ {o} : x \in reopened => x \in reopened'
    BY <1>6
  <2>. QED BY <1>1, <1>2, <1>3, <2>1, <2>3, <2>4, SaneKept
<1>7. ASSUME reopened' = reopened, NEW c \in Ids, link'[o] = Linked(c), Exists(c)',
             \/ Candidates(o) = {c} /\ SameTree(customer, customer')
             \/ Candidates(o) = {} /\ NewRoot(customer, customer', c)
      PROVE  Sane'
  <2>1. LinkAlive(o)'
    <3>1. \A x : Linked(c) = Linked(x) => x = c
      BY DEF Linked
    <3>. QED BY <1>7, <3>1 DEF LinkAlive, Alive
  <2>2. ASSUME a # None, o \in Placed' \ (reopened' \cup early'), Exists(a)'
        PROVE  c \in Path(customer', a)
    <3>1. PICK b \in Path(customer, a) : link[o] = Linked(b)
      BY <1>1, <1>2, <1>4, <1>5, <1>7, <2>2 DEF Sane, Stays
    <3>2. b \in Ids /\ Real(customer, b)
      BY <1>5, <2>2, <3>1, PathIsReal DEF Sane, Exists, Real
    <3>3. link[o].customer = b /\ Exists(b)
      BY <3>1, <3>2 DEF Linked, Exists, Real
    <3>4. Candidates(o) = {c}
      BY <1>7, <3>2, <3>3, NoCandidates
    <3>5. ActiveOf(b) \in Candidates(o)
      BY <3>2, <3>3 DEF Candidates
    <3>6. Named(customer)
      BY GoodIsNamed DEF Base, Typed
    <3>7. c \in Path(customer, b)
      BY <3>2, <3>4, <3>5, <3>6, ActiveIsEnd, EndIsReached DEF Sane, Merges
    <3>8. Path(customer, b) \subseteq Path(customer, a)
      BY <1>5, <2>2, <3>1, <3>6, PathOfMember
    <3>9. Path(customer, a) \subseteq Path(customer', a)
      BY <1>3, <1>5, <2>2 DEF Moves, Evolves, Exists, Real
    <3>. QED BY <3>7, <3>8, <3>9
  <2>3. Stays(o)'
    BY <1>2, <1>4, <1>5, <1>7, <2>2 DEF Stays
  <2>. QED BY <1>1, <1>2, <1>3, <1>7, <2>1, <2>3, SaneKept
<1>. QED BY <1>1, <1>6, <1>7


LEMMA SaneInit == Init => Sane
<1>. SUFFICES ASSUME Init PROVE Merges(customer) /\ (\A k \in Calls : Holds(k))
                                /\ (\A o \in Orders : LinkAlive(o) /\ Stays(o))
  BY DEF Sane
<1>1. \A d \in Ids : customer[d].status # "merged"
  BY DEF Init
<1>2. Merges(customer)
  <2>1. Forest(customer)
    BY <1>1 DEF Forest, Follows
  <2>. QED BY <1>1, <2>1 DEF Merges
<1>3. \A k \in Calls : Holds(k)
  BY IdleFields DEF Init, Holds
<1>4. ASSUME NEW o \in Orders PROVE LinkAlive(o) /\ Stays(o)
  <2>1. link[o] = NotPlaced /\ assigned[o] = None
    BY DEF Init
  <2>. QED BY <2>1 DEF LinkAlive, Stays, NotPlaced, Linked
<1>. QED BY <1>2, <1>3, <1>4

\* Once a merge met customers no longer active, that is remembered.
LEMMA TangledStays ==
    ASSUME [Next]_vars, ~tangled'
    PROVE  ~tangled
<1>1. ASSUME NEW k \in Calls, Checkout(k) PROVE UNCHANGED tangled
  BY <1>1 DEF Checkout, resolveCustomerFromOrderSnapshot, OpenConflict, UseCandidate,
     materializeCustomerFromOrder, ResolutionFails, EnterOrder, history
<1>2. ASSUME NEW k \in Calls, Crm(k) PROVE ~tangled
  <2>1. CASE MergeCommit(k) \/ EraseAccount(k)
    BY <2>1 DEF MergeCommit, EraseAccount
  <2>2. CASE MarkConflict(k) \/ applyCustomerResolution(k) \/ StoreEdit(k)
             \/ reassignMergedCustomer(k)
    BY <2>2 DEF MarkConflict, applyCustomerResolution, StoreEdit, reassignMergedCustomer, history
  <2>3. CASE \/ \E s, t \in Ids : mergeCustomers(k, s, t)
             \/ \E o \in Orders : DecideIgnore(k, o)
             \/ \E o \in Orders, w \in Ids : DecideAssign(k, o, w)
             \/ \E o \in Orders, s, t \in Ids : DecideMerge(k, o, s, t)
             \/ \E c \in Ids, clues \in Contacts : updateCustomer(k, c, clues)
             \/ \E c \in Ids : deleteCustomer(k, c)
    BY <2>3 DEF mergeCustomers, DecideIgnore, DecideAssign, DecideMerge, updateCustomer,
       deleteCustomer, history
  <2>. QED BY <1>2, <2>1, <2>2, <2>3 DEF Crm
<1>3. CASE \/ UNCHANGED vars \/ Restart
           \/ \E clues \in Contacts : createCustomer(clues)
           \/ \E o \in Orders : Reconcile(o)
  BY <1>3 DEF vars, Restart, createCustomer, Reconcile, history
<1>. QED BY <1>1, <1>2, <1>3 DEF Next

LEMMA SaneStep ==
    ASSUME IsFiniteSet(Ids), Base, Books, Sane, [Next]_vars
    PROVE  Sane'
<1>. SUFFICES ASSUME ~tangled' PROVE Sane'
  BY DEF Sane
<1>1. ~tangled
  BY TangledStays
<1>2. ASSUME NEW k \in Calls, Checkout(k) PROVE Sane'
  BY <1>1, <1>2, SaneCheckout
<1>3. ASSUME NEW k \in Calls, Crm(k) PROVE Sane'
  BY <1>1, <1>3, SaneCrm
<1>4. ASSUME NEW clues \in Contacts, createCustomer(clues) PROVE Sane'
  <2>1. UNCHANGED <<link, call, history>>
    BY <1>4 DEF createCustomer
  <2>2. Merges(customer') /\ Moves
    BY <1>1, <1>4, <2>1, CreateEffect, TableMoves DEF Sane, Base, Typed, history
  <2>. QED BY <1>1, <2>1, <2>2, SaneKept DEF history
<1>5. ASSUME Restart PROVE Sane'
  <2>1. UNCHANGED <<customer, link, history>> /\ \A k \in Calls : call'[k] = Idle
    BY <1>5 DEF Restart, rows
  <2>2. Merges(customer') /\ Moves
    BY <1>1, <2>1, StillMoves DEF Sane, Base, Typed, history
  <2>3. \A k \in Calls : Holds(k)'
    BY <2>1, IdleFields, HoldsNone
  <2>. QED BY <1>1, <2>1, <2>2, <2>3, SaneKept DEF history
<1>6. ASSUME NEW o \in Orders, Reconcile(o) PROVE Sane'
  BY <1>1, <1>6, SaneReconcile
<1>7. CASE UNCHANGED vars
  <2>1. UNCHANGED <<customer, link, call, history>>
    BY <1>7 DEF vars, rows
  <2>2. Merges(customer') /\ Moves
    BY <1>1, <2>1, StillMoves DEF Sane, Base, Typed, history
  <2>. QED BY <1>1, <2>1, <2>2, SaneKept DEF history
<1>. QED BY <1>2, <1>3, <1>4, <1>5, <1>6, <1>7 DEF Next

LEMMA SaneInvariant == ASSUME IsFiniteSet(Ids) PROVE Spec => [](Base /\ Books /\ Sane)
<1>1. Init => Base /\ Books /\ Sane
  BY BaseInit, BooksInit, SaneInit
<1>2. Base /\ Books /\ Sane /\ [Next]_vars => (Base /\ Books /\ Sane)'
  BY BaseStep, BooksStep, SaneStep
<1>. QED BY <1>1, <1>2, PTL DEF Spec

LEMMA ExistingEndActive ==
    ASSUME IsFiniteSet(Ids), Base, Sane, ~tangled, NEW c \in Ids, Exists(c)
    PROVE  customer[ActiveOf(c)].status = "active"
BY ActiveIsEnd, EndIsActive, GoodIsNamed DEF Base, Typed, Sane, Exists, Real

\* A merged customer always leads to an active one, however merges follow each other
\* and whatever is deleted (mergeCustomersInternal, resolveActiveCustomerRecord,
\* deleteCustomer): no circle of merges forms and no end of one is deleted, while the
\* transactions of merges find their customers active.
THEOREM MergesEndActive == ASSUME IsFiniteSet(Ids) PROVE Spec => []MergedEndActive
<1>1. Base /\ Sane => MergedEndActive
  BY ExistingEndActive DEF MergedEndActive, Exists
<1>. QED BY <1>1, SaneInvariant, PTL

\* An order that names a customer names one that leads to an active customer, unless
\* that customer was erased while an order or a call held it: through creations that
\* resolve a customer being merged or deleted, merges whose reassignment comes later
\* and restarts between the two (setOrderCustomerLink, reassignMergedCustomer).
THEOREM OrdersLeadToActive == ASSUME IsFiniteSet(Ids) PROVE Spec => []LinksResolve
<1>1. ASSUME Base, Sane PROVE LinksResolve
  <2>1. ASSUME ~tangled, NEW o \in Orders, NEW c \in Ids \ orphaned, link[o] = Linked(c)
        PROVE  customer[ActiveOf(c)].status = "active"
    BY <1>1, <2>1, ExistingEndActive DEF Sane, LinkAlive, Alive
  <2>. QED BY <2>1 DEF LinksResolve
<1>. QED BY <1>1, SaneInvariant, PTL

\* An order given to a customer by an operator stays with that person: merges take it
\* along, and only a restart that opens its conflict again takes it away
\* (applyCustomerResolution, reassignMergedCustomer, reconcileCustomerLinks).
THEOREM DecisionsStay == ASSUME IsFiniteSet(Ids) PROVE Spec => []DecisionKept
<1>1. ASSUME Base, Sane PROVE DecisionKept
  <2>1. ASSUME ~tangled, NEW o \in Placed \ (reopened \cup early) PROVE Kept(o)
    <3>1. SUFFICES ASSUME assigned[o] # None, Exists(assigned[o]) PROVE Kept(o)
      BY DEF Kept
    <3>2. PICK a : a = assigned[o]
      OBVIOUS
    <3>3. o \in Orders /\ a \in Ids
      BY <1>1, <3>1, <3>2 DEF Base, Typed, Placed
    <3>4. PICK c \in Path(customer, a) : link[o] = Linked(c)
      BY <1>1, <2>1, <3>1, <3>2, <3>3 DEF Sane, Stays
    <3>5. Named(customer) /\ Forest(customer)
      BY <1>1, <2>1, GoodIsNamed DEF Base, Typed, Sane, Merges
    <3>6. c \in Ids /\ ActiveOf(c) = ActiveOf(a)
      BY <3>3, <3>4, <3>5, ActiveIsEnd, EndAlongPath DEF Path
    <3>. QED BY <3>2, <3>4, <3>6 DEF Kept
  <2>. QED BY <2>1 DEF DecisionKept
<1>. QED BY <1>1, SaneInvariant, PTL
=============================================================================
