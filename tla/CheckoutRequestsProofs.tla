----------------------- MODULE CheckoutRequestsProofs -----------------------
(***************************************************************************)
(* A request has one order, an order its unit, a page its own answer and   *)
(* an account its points, whatever is lost, edited, deleted or restarted:  *)
(* theorems about CheckoutRequests and the LoyaltyAccounts it extends.     *)
(* They need no number of shoppers, calls, orders, units or movements.     *)
(***************************************************************************)
EXTENDS CheckoutRequests, FiniteSetTheorems, SequenceTheorems, TLAPS

----------------------------------------------------------------------------
\* Among the members of a set of subsets of a finite set one contains no other.
LEMMA SmallestOf ==
    ASSUME NEW S, IsFiniteSet(S), NEW T \in SUBSET (SUBSET S), T # {}
    PROVE  \E m \in T : \A i \in T : i \subseteq m => i = m
<1>1. T \subseteq FiniteSubsetsOf(S)
  BY FS_Subset DEF FiniteSubsetsOf
<1>2. PICK m \in T : \A i \in T : ~ (<<i, m>> \in StrictSubsetOrdering(S))
  BY <1>1, FS_StrictSubsetOrderingWellFounded, WFMin
<1>. QED BY <1>1, <1>2 DEF StrictSubsetOrdering, FiniteSubsetsOf

\* So a set of numbers has a least one: the intervals below its members have one
\* that contains no other.
LEMMA Least ==
    ASSUME NEW S \in SUBSET Nat, S # {}
    PROVE  \E m \in S : \A i \in S : m <= i
<1>1. PICK n \in S : TRUE
  OBVIOUS
<1>. DEFINE Below == {0 .. k : k \in {i \in S : i <= n}}
<1>2. Below \in SUBSET (SUBSET (0 .. n)) /\ Below # {}
  <2>1. ASSUME NEW k \in S, k <= n PROVE 0 .. k \subseteq 0 .. n
    BY <2>1
  <2>. QED BY <1>1, <2>1
<1>3. IsFiniteSet(0 .. n)
  BY FS_Interval
<1>4. PICK U \in Below : \A V \in Below : V \subseteq U => V = U
  <2>1. PICK S0 : S0 = 0 .. n
    OBVIOUS
  <2>2. PICK T0 : T0 = Below
    OBVIOUS
  <2>3. IsFiniteSet(S0) /\ T0 \in SUBSET (SUBSET S0) /\ T0 # {}
    BY <1>2, <1>3, <2>1, <2>2
  <2>4. \E m \in T0 : \A i \in T0 : i \subseteq m => i = m
    BY ONLY <2>3, SmallestOf
  <2>. QED BY <2>4, <2>2
<1>5. PICK m \in S : U = 0 .. m /\ m <= n
  OBVIOUS
<1>6. ASSUME NEW i \in S, i < m PROVE FALSE
  <2>1. 0 .. i \in Below
    BY <1>5, <1>6
  <2>2. 0 .. i \subseteq U /\ m \in U /\ m \notin 0 .. i
    BY <1>5, <1>6
  <2>. QED BY <1>4, <2>1, <2>2
<1>. QED BY <1>6

LEMMA Greatest ==
    ASSUME NEW n \in Nat, NEW S \in SUBSET (0 .. n), S # {}
    PROVE  \E m \in S : \A i \in S : i <= m
<1>. DEFINE Gaps == {n - i : i \in S}
<1>0. \A i \in S : i \in Nat /\ n - i \in Nat
  OBVIOUS
<1>1. Gaps \in SUBSET Nat /\ Gaps # {}
  BY <1>0
<1>2. PICK k \in Gaps : \A j \in Gaps : k <= j
  <2>. HIDE DEF Gaps
  <2>. QED BY <1>1, Least
<1>3. PICK m \in S : k = n - m
  OBVIOUS
<1>4. ASSUME NEW i \in S PROVE i <= m
  <2>1. n - m <= n - i
    BY <1>2, <1>3
  <2>. QED BY <2>1, <1>0
<1>. QED BY <1>4

LEMMA MaxGreatest ==
    ASSUME NEW n \in Nat, NEW S \in SUBSET (0 .. n), S # {}
    PROVE  Max(S) \in S /\ \A i \in S : i <= Max(S)
<1>1. PICK m \in S : \A i \in S : i <= m
  BY Greatest
<1>2. \A x \in S : x \in Int
  OBVIOUS
<1>3. \E x \in S : \A y \in S : x >= y
  BY <1>1, <1>2
<1>. QED BY <1>2, <1>3 DEF Max

----------------------------------------------------------------------------
\* A sum is the number of tokens, one for each point; one record more adds its
\* points.
LEMMA Pile ==
    ASSUME NEW i, NEW n \in Nat
    PROVE  IsFiniteSet({i} \X (1 .. n)) /\ Cardinality({i} \X (1 .. n)) = n
<1>1. IsFiniteSet(1 .. n) /\ Cardinality(1 .. n) = n
  BY FS_Interval
<1>2. IsFiniteSet({i}) /\ Cardinality({i}) = 1
  BY FS_Singleton
<1>3. /\ IsFiniteSet({i} \X (1 .. n))
      /\ Cardinality({i} \X (1 .. n)) = Cardinality({i}) * Cardinality(1 .. n)
  BY <1>1, <1>2, FS_Product, Zenon
<1>. QED BY <1>1, <1>2, <1>3

LEMMA TokensFinite ==
    ASSUME NEW S, IsFiniteSet(S), NEW n \in [S -> Nat]
    PROVE  IsFiniteSet(Tokens(n))
<1>. DEFINE piles == {{i} \X (1 .. n[i]) : i \in S}
            f == [i \in S |-> {i} \X (1 .. n[i])]
<1>1. f \in Surjection(S, piles)
  BY DEF Surjection
<1>2. \A P \in piles : IsFiniteSet(P)
  <2>1. ASSUME NEW i \in S PROVE IsFiniteSet({i} \X (1 .. n[i]))
    <3>1. n[i] \in Nat
      OBVIOUS
    <3>. QED BY <3>1, Pile
  <2>. QED BY <2>1
<1>3. Tokens(n) = UNION piles
  BY DEF Tokens
<1>. HIDE DEF f, piles
<1>4. IsFiniteSet(piles)
  BY <1>1, FS_Surjection
<1>. QED BY <1>2, <1>3, <1>4, FS_UNION

LEMMA SumOne ==
    ASSUME NEW s, NEW S \in SUBSET DOMAIN s, IsFiniteSet(S), NEW i \in DOMAIN s \ S,
           \A j \in DOMAIN s : s[j].points \in Nat
    PROVE  /\ Sum(s, S) \in Nat
           /\ Sum(s, S \cup {i}) = Sum(s, S) + s[i].points
<1>. DEFINE n == [j \in S |-> s[j].points]
            m == [j \in S \cup {i} |-> s[j].points]
            own == {i} \X (1 .. s[i].points)
<1>1. n \in [S -> Nat] /\ s[i].points \in Nat
  OBVIOUS
<1>2. Tokens(m) = Tokens(n) \cup own
  BY DEF Tokens
<1>3. Tokens(n) \cap own = {}
  BY DEF Tokens
<1>4. IsFiniteSet(own) /\ Cardinality(own) = s[i].points
  BY <1>1, Pile
<1>5. Sum(s, S) = Cardinality(Tokens(n)) /\ Sum(s, S \cup {i}) = Cardinality(Tokens(m))
  BY DEF Sum, Tally
<1>. HIDE DEF own, n, m
<1>6. IsFiniteSet(Tokens(n))
  BY <1>1, TokensFinite
<1>7. Cardinality(Tokens(n) \cup own)
         = Cardinality(Tokens(n)) + Cardinality(own) - Cardinality(Tokens(n) \cap own)
  BY <1>4, <1>6, FS_Union, Zenon
<1>8. Cardinality(Tokens(n) \cap own) = 0 /\ Cardinality(Tokens(n)) \in Nat
  BY <1>3, <1>6, FS_EmptySet, FS_CardinalityType
<1>. QED BY <1>1, <1>2, <1>4, <1>5, <1>7, <1>8

LEMMA SumType ==
    ASSUME NEW s, NEW S \in SUBSET DOMAIN s, IsFiniteSet(S),
           \A j \in DOMAIN s : s[j].points \in Nat
    PROVE  Sum(s, S) \in Nat
<1>1. [j \in S |-> s[j].points] \in [S -> Nat]
  OBVIOUS
<1>. QED BY <1>1, TokensFinite, FS_CardinalityType DEF Sum, Tally

\* Only the points of the records summed matter.
LEMMA SumSame ==
    ASSUME NEW s, NEW t, NEW S, \A i \in S : s[i].points = t[i].points
    PROVE  Sum(s, S) = Sum(t, S)
BY DEF Sum

LEMMA SumNone ==
    ASSUME NEW s
    PROVE  Sum(s, {}) = 0
<1>1. Tokens([i \in {} |-> s[i].points]) = {}
  BY DEF Tokens
<1>. QED BY <1>1, FS_EmptySet DEF Sum, Tally


\* Two sequences that differ at one place only have sums that differ by what that
\* place counts for.
Share(s, S, i) == IF i \in S THEN s[i].points ELSE 0

\* The change of a sum: what it counted at i goes, what it counts there comes.
Changes(s, S, t, T, i) ==
    /\ Sum(s, S) \in Nat /\ Sum(t, T) \in Nat
    /\ Share(s, S, i) \in Nat /\ Share(t, T, i) \in Nat
    /\ Share(s, S, i) <= Sum(s, S)
    /\ Sum(t, T) + Share(s, S, i) = Sum(s, S) + Share(t, T, i)

\* Two sums of points over the same places, but for i.
Comparable(s, S, t, T, i) ==
    /\ IsFiniteSet(DOMAIN s) /\ IsFiniteSet(DOMAIN t)
    /\ \A j \in DOMAIN s : s[j].points \in Nat
    /\ \A j \in DOMAIN t : t[j].points \in Nat
    /\ S \in SUBSET DOMAIN s /\ T \in SUBSET DOMAIN t
    /\ S \ {i} = T \ {i} /\ \A j \in S \ {i} : s[j].points = t[j].points

LEMMA SumMove ==
    ASSUME NEW s, NEW t, NEW S, NEW T, NEW i, Comparable(s, S, t, T, i)
    PROVE  Changes(s, S, t, T, i)
<1>0. /\ IsFiniteSet(DOMAIN s) /\ IsFiniteSet(DOMAIN t)
      /\ \A j \in DOMAIN s : s[j].points \in Nat
      /\ \A j \in DOMAIN t : t[j].points \in Nat
      /\ S \in SUBSET DOMAIN s /\ T \in SUBSET DOMAIN t
      /\ S \ {i} = T \ {i} /\ \A j \in S \ {i} : s[j].points = t[j].points
  BY DEF Comparable
<1>. USE <1>0
<1>. DEFINE U == S \ {i}
<1>1. IsFiniteSet(U) /\ U \subseteq DOMAIN s /\ U \subseteq DOMAIN t
  BY FS_Subset
<1>2. Sum(s, U) = Sum(t, U)
  BY SumSame
<1>3. Sum(s, U) \in Nat /\ Sum(s, S) = Sum(s, U) + Share(s, S, i)
  <2>2. CASE i \in S
    <3>1. i \in DOMAIN s \ U /\ S = U \cup {i}
      BY <2>2
    <3>. HIDE DEF U
    <3>. QED BY <1>1, <2>2, <3>1, SumOne DEF Share
  <2>3. CASE i \notin S
    <3>1. S = U
      BY <2>3
    <3>. QED BY <1>1, <2>3, <3>1, SumType DEF Share
  <2>. QED BY <2>2, <2>3
<1>4. Sum(t, U) \in Nat /\ Sum(t, T) = Sum(t, U) + Share(t, T, i)
  <2>2. CASE i \in T
    <3>1. i \in DOMAIN t \ U /\ T = U \cup {i}
      BY <2>2
    <3>. HIDE DEF U
    <3>. QED BY <1>1, <2>2, <3>1, SumOne DEF Share
  <2>3. CASE i \notin T
    <3>1. T = U
      BY <2>3
    <3>. QED BY <1>1, <2>3, <3>1, SumType DEF Share
  <2>. QED BY <2>2, <2>3
<1>5. Share(s, S, i) \in Nat /\ Share(t, T, i) \in Nat
  BY DEF Share
<1>. HIDE DEF U
<1>. QED BY <1>2, <1>3, <1>4, <1>5 DEF Changes

----------------------------------------------------------------------------
\* The accounts.  What each sum of LoyaltyAccounts runs over:
CreditIds(s, c, statuses) ==
    {i \in DOMAIN s : s[i].of = c /\ s[i].kind # "redeem" /\ s[i].status \in statuses}
HandIds(s, c) ==
    {i \in DOMAIN s : s[i].of = c /\ s[i].kind = "redeem" /\ s[i].source = "manual"}
RedeemedIds(s, c, statuses) ==
    {i \in DOMAIN s : s[i].of = c /\ s[i].status \in statuses}

CreditsIn(s, c, statuses) == Sum(s, CreditIds(s, c, statuses))
HandIn(s, c) == Sum(s, HandIds(s, c))
RedeemedIn(s, c, statuses) == Sum(s, RedeemedIds(s, c, statuses))

\* Two histories that differ at place i only.
SameBut(s, t, i) ==
    /\ DOMAIN s \ {i} = DOMAIN t \ {i}
    /\ \A j \in DOMAIN s \ {i} : s[j] = t[j]

LEMMA MovementsCounted ==
    ASSUME NEW s \in Seq(Movement)
    PROVE  IsFiniteSet(DOMAIN s) /\ \A j \in DOMAIN s : s[j] \in Movement /\ s[j].points \in Nat
<1>1. DOMAIN s = 1 .. Len(s) /\ Len(s) \in Nat /\ s \in [1 .. Len(s) -> Movement]
  BY LenProperties
<1>2. IsFiniteSet(1 .. Len(s))
  BY <1>1, FS_Interval
<1>3. \A j \in DOMAIN s : s[j] \in Movement /\ s[j].points \in Nat
  BY <1>1 DEF Movement
<1>. QED BY <1>1, <1>2, <1>3

LEMMA RedemptionsCounted ==
    ASSUME NEW s \in Seq(Redemption)
    PROVE  IsFiniteSet(DOMAIN s) /\ \A j \in DOMAIN s : s[j] \in Redemption /\ s[j].points \in Nat
<1>1. DOMAIN s = 1 .. Len(s) /\ Len(s) \in Nat /\ s \in [1 .. Len(s) -> Redemption]
  BY LenProperties
<1>2. IsFiniteSet(1 .. Len(s))
  BY <1>1, FS_Interval
<1>3. \A j \in DOMAIN s : s[j] \in Redemption /\ s[j].points \in Nat
  BY <1>1 DEF Redemption
<1>. QED BY <1>1, <1>2, <1>3

LEMMA CreditsMove ==
    ASSUME NEW s \in Seq(Movement), NEW t \in Seq(Movement), NEW i, SameBut(s, t, i),
           NEW c, NEW statuses
    PROVE  Changes(s, CreditIds(s, c, statuses), t, CreditIds(t, c, statuses), i)
<1>. DEFINE S == CreditIds(s, c, statuses)
            T == CreditIds(t, c, statuses)
<1>1. /\ IsFiniteSet(DOMAIN s) /\ IsFiniteSet(DOMAIN t)
      /\ \A j \in DOMAIN s : s[j].points \in Nat
      /\ \A j \in DOMAIN t : t[j].points \in Nat
  BY MovementsCounted
<1>2. S \in SUBSET DOMAIN s /\ T \in SUBSET DOMAIN t
  BY DEF CreditIds
<1>3. S \ {i} = T \ {i} /\ \A j \in S \ {i} : s[j].points = t[j].points
  BY DEF CreditIds, SameBut
<1>. HIDE DEF S, T
<1>4. Comparable(s, S, t, T, i)
  BY <1>1, <1>2, <1>3 DEF Comparable
<1>5. Changes(s, S, t, T, i)
  BY <1>4, SumMove
<1>. QED BY <1>5 DEF S, T

LEMMA HandMove ==
    ASSUME NEW s \in Seq(Movement), NEW t \in Seq(Movement), NEW i, SameBut(s, t, i), NEW c
    PROVE  Changes(s, HandIds(s, c), t, HandIds(t, c), i)
<1>. DEFINE S == HandIds(s, c)
            T == HandIds(t, c)
<1>1. /\ IsFiniteSet(DOMAIN s) /\ IsFiniteSet(DOMAIN t)
      /\ \A j \in DOMAIN s : s[j].points \in Nat
      /\ \A j \in DOMAIN t : t[j].points \in Nat
  BY MovementsCounted
<1>2. S \in SUBSET DOMAIN s /\ T \in SUBSET DOMAIN t
  BY DEF HandIds
<1>3. S \ {i} = T \ {i} /\ \A j \in S \ {i} : s[j].points = t[j].points
  BY DEF HandIds, SameBut
<1>. HIDE DEF S, T
<1>4. Comparable(s, S, t, T, i)
  BY <1>1, <1>2, <1>3 DEF Comparable
<1>5. Changes(s, S, t, T, i)
  BY <1>4, SumMove
<1>. QED BY <1>5 DEF S, T

LEMMA RedeemedMove ==
    ASSUME NEW s \in Seq(Redemption), NEW t \in Seq(Redemption), NEW i, SameBut(s, t, i),
           NEW c, NEW statuses
    PROVE  Changes(s, RedeemedIds(s, c, statuses), t, RedeemedIds(t, c, statuses), i)
<1>. DEFINE S == RedeemedIds(s, c, statuses)
            T == RedeemedIds(t, c, statuses)
<1>1. /\ IsFiniteSet(DOMAIN s) /\ IsFiniteSet(DOMAIN t)
      /\ \A j \in DOMAIN s : s[j].points \in Nat
      /\ \A j \in DOMAIN t : t[j].points \in Nat
  BY RedemptionsCounted
<1>2. S \in SUBSET DOMAIN s /\ T \in SUBSET DOMAIN t
  BY DEF RedeemedIds
<1>3. S \ {i} = T \ {i} /\ \A j \in S \ {i} : s[j].points = t[j].points
  BY DEF RedeemedIds, SameBut
<1>. HIDE DEF S, T
<1>4. Comparable(s, S, t, T, i)
  BY <1>1, <1>2, <1>3 DEF Comparable
<1>5. Changes(s, S, t, T, i)
  BY <1>4, SumMove
<1>. QED BY <1>5 DEF S, T


\* What one movement or one redemption counts for.
Credit(m, c, statuses) ==
    IF m.of = c /\ m.kind # "redeem" /\ m.status \in statuses THEN m.points ELSE 0
Hand(m, c) == IF m.of = c /\ m.kind = "redeem" /\ m.source = "manual" THEN m.points ELSE 0
Redeem(r, c, statuses) == IF r.of = c /\ r.status \in statuses THEN r.points ELSE 0

\* The parts of the invariant about the accounts; that only a credit names an order
\* is what keeps settling and reversing it from touching a redemption's movement.
LoyaltyTyped ==
    /\ account \in [Customers -> Account]
    /\ movements \in Seq(Movement)
    /\ redemptions \in Seq(Redemption)
    /\ uneven \subseteq Customers
    /\ \A i \in DOMAIN movements : movements[i].order # NoNumber => movements[i].kind = "earn"

LEMMA SumsAreNumbers ==
    ASSUME LoyaltyTyped, NEW c, NEW statuses
    PROVE  CreditsIn(movements, c, statuses) \in Nat /\ HandIn(movements, c) \in Nat /\ RedeemedIn(redemptions, c, statuses) \in Nat
<1>1. SameBut(movements, movements, 0) /\ SameBut(redemptions, redemptions, 0)
  BY DEF SameBut
<1>2. movements \in Seq(Movement) /\ redemptions \in Seq(Redemption)
  BY DEF LoyaltyTyped
<1>3. /\ Sum(movements, CreditIds(movements, c, statuses)) \in Nat
      /\ Sum(movements, HandIds(movements, c)) \in Nat
      /\ Sum(redemptions, RedeemedIds(redemptions, c, statuses)) \in Nat
  BY <1>1, <1>2, CreditsMove, HandMove, RedeemedMove DEF Changes
<1>. QED BY <1>3 DEF CreditsIn, HandIn, RedeemedIn

LEMMA AppendMovement ==
    ASSUME LoyaltyTyped, NEW m \in Movement, movements' = Append(movements, m), NEW c
    PROVE  /\ movements' \in Seq(Movement)
           /\ \A statuses : CreditsIn(movements', c, statuses) = CreditsIn(movements, c, statuses) + Credit(m, c, statuses)
           /\ HandIn(movements', c) = HandIn(movements, c) + Hand(m, c)
<1>. DEFINE s == movements
            t == movements'
            i == Len(movements) + 1
<1>1. s \in Seq(Movement) /\ Len(s) \in Nat /\ DOMAIN s = 1 .. Len(s)
  BY LenProperties DEF LoyaltyTyped
<1>2. /\ t \in Seq(Movement) /\ DOMAIN t = 1 .. (Len(s) + 1) /\ t[i] = m
      /\ \A j \in 1 .. Len(s) : t[j] = s[j]
  BY <1>1, AppendProperties, LenProperties
<1>3. SameBut(s, t, i) /\ i \notin DOMAIN s /\ i \in DOMAIN t
  BY <1>1, <1>2 DEF SameBut
<1>4. m.points \in Nat
  BY DEF Movement
<1>5. ASSUME NEW statuses PROVE CreditsIn(movements', c, statuses) = CreditsIn(movements, c, statuses) + Credit(m, c, statuses)
  <2>1. Changes(s, CreditIds(s, c, statuses), t, CreditIds(t, c, statuses), i)
    BY <1>1, <1>2, <1>3, CreditsMove
  <2>2. Share(s, CreditIds(s, c, statuses), i) = 0
    BY <1>3 DEF Share, CreditIds
  <2>3. Share(t, CreditIds(t, c, statuses), i) = Credit(m, c, statuses)
    BY <1>2, <1>3 DEF Share, CreditIds, Credit
  <2>4. /\ CreditsIn(movements, c, statuses) = Sum(s, CreditIds(s, c, statuses))
        /\ CreditsIn(movements', c, statuses) = Sum(t, CreditIds(t, c, statuses))
    BY DEF CreditsIn
  <2>. QED BY <2>1, <2>2, <2>3, <2>4 DEF Changes
<1>6. HandIn(movements', c) = HandIn(movements, c) + Hand(m, c)
  <2>1. Changes(s, HandIds(s, c), t, HandIds(t, c), i)
    BY <1>1, <1>2, <1>3, HandMove
  <2>2. Share(s, HandIds(s, c), i) = 0
    BY <1>3 DEF Share, HandIds
  <2>3. Share(t, HandIds(t, c), i) = Hand(m, c)
    BY <1>2, <1>3 DEF Share, HandIds, Hand
  <2>4. HandIn(movements, c) = Sum(s, HandIds(s, c)) /\ HandIn(movements', c) = Sum(t, HandIds(t, c))
    BY DEF HandIn
  <2>. QED BY <2>1, <2>2, <2>3, <2>4 DEF Changes
<1>. QED BY <1>2, <1>5, <1>6

\* The change of the sums of a customer when x takes the place of m.
Recounts(s, t, m, x, c) ==
    /\ HandIn(t, c) \in Nat
    /\ HandIn(t, c) + Hand(m, c) = HandIn(s, c) + Hand(x, c)
    /\ \A statuses :
          /\ CreditsIn(t, c, statuses) \in Nat
          /\ CreditsIn(t, c, statuses) + Credit(m, c, statuses)
                = CreditsIn(s, c, statuses) + Credit(x, c, statuses)
          /\ Credit(m, c, statuses) <= CreditsIn(s, c, statuses)

LEMMA ChangeMovement ==
    ASSUME LoyaltyTyped, NEW i \in DOMAIN movements, NEW m \in Movement,
           movements' = [movements EXCEPT ![i] = m], NEW c
    PROVE  /\ movements' \in Seq(Movement)
           /\ Recounts(movements, movements', movements[i], m, c)
<1>. DEFINE s == movements
            t == movements'
<1>1. s \in Seq(Movement) /\ Len(s) \in Nat /\ DOMAIN s = 1 .. Len(s)
  BY LenProperties DEF LoyaltyTyped
<1>2. /\ t \in Seq(Movement) /\ DOMAIN t = DOMAIN s /\ t[i] = m
      /\ \A j \in DOMAIN s \ {i} : t[j] = s[j]
  BY <1>1, ExceptSeq, LenProperties
<1>3. SameBut(s, t, i)
  BY <1>1, <1>2 DEF SameBut
<1>4. m.points \in Nat /\ s[i].points \in Nat
  BY <1>1, MovementsCounted DEF Movement
<1>5. ASSUME NEW statuses
      PROVE  /\ CreditsIn(movements', c, statuses) + Credit(s[i], c, statuses)
                   = CreditsIn(movements, c, statuses) + Credit(m, c, statuses)
             /\ Credit(s[i], c, statuses) <= CreditsIn(movements, c, statuses)
             /\ CreditsIn(movements', c, statuses) \in Nat
  <2>1. Changes(s, CreditIds(s, c, statuses), t, CreditIds(t, c, statuses), i)
    BY <1>1, <1>2, <1>3, CreditsMove
  <2>2. Share(s, CreditIds(s, c, statuses), i) = Credit(s[i], c, statuses)
    BY DEF Share, CreditIds, Credit
  <2>3. Share(t, CreditIds(t, c, statuses), i) = Credit(m, c, statuses)
    BY <1>2 DEF Share, CreditIds, Credit
  <2>4. /\ CreditsIn(movements, c, statuses) = Sum(s, CreditIds(s, c, statuses))
        /\ CreditsIn(movements', c, statuses) = Sum(t, CreditIds(t, c, statuses))
    BY DEF CreditsIn
  <2>. QED BY <2>1, <2>2, <2>3, <2>4 DEF Changes
<1>6. HandIn(movements', c) + Hand(s[i], c) = HandIn(movements, c) + Hand(m, c) /\ HandIn(movements', c) \in Nat
  <2>1. Changes(s, HandIds(s, c), t, HandIds(t, c), i)
    BY <1>1, <1>2, <1>3, HandMove
  <2>2. Share(s, HandIds(s, c), i) = Hand(s[i], c)
    BY DEF Share, HandIds, Hand
  <2>3. Share(t, HandIds(t, c), i) = Hand(m, c)
    BY <1>2 DEF Share, HandIds, Hand
  <2>4. HandIn(movements, c) = Sum(s, HandIds(s, c)) /\ HandIn(movements', c) = Sum(t, HandIds(t, c))
    BY DEF HandIn
  <2>. QED BY <2>1, <2>2, <2>3, <2>4 DEF Changes
<1>. QED BY <1>2, <1>5, <1>6 DEF Recounts

LEMMA AppendRedemption ==
    ASSUME LoyaltyTyped, NEW r \in Redemption, redemptions' = Append(redemptions, r), NEW c
    PROVE  /\ redemptions' \in Seq(Redemption)
           /\ \A statuses : RedeemedIn(redemptions', c, statuses) = RedeemedIn(redemptions, c, statuses) + Redeem(r, c, statuses)
<1>. DEFINE s == redemptions
            t == redemptions'
            i == Len(redemptions) + 1
<1>1. s \in Seq(Redemption) /\ Len(s) \in Nat /\ DOMAIN s = 1 .. Len(s)
  BY LenProperties DEF LoyaltyTyped
<1>2. /\ t \in Seq(Redemption) /\ DOMAIN t = 1 .. (Len(s) + 1) /\ t[i] = r
      /\ \A j \in 1 .. Len(s) : t[j] = s[j]
  BY <1>1, AppendProperties, LenProperties
<1>3. SameBut(s, t, i) /\ i \notin DOMAIN s /\ i \in DOMAIN t
  BY <1>1, <1>2 DEF SameBut
<1>5. ASSUME NEW statuses PROVE RedeemedIn(redemptions', c, statuses) = RedeemedIn(redemptions, c, statuses) + Redeem(r, c, statuses)
  <2>1. Changes(s, RedeemedIds(s, c, statuses), t, RedeemedIds(t, c, statuses), i)
    BY <1>1, <1>2, <1>3, RedeemedMove
  <2>2. Share(s, RedeemedIds(s, c, statuses), i) = 0
    BY <1>3 DEF Share, RedeemedIds
  <2>3. Share(t, RedeemedIds(t, c, statuses), i) = Redeem(r, c, statuses)
    BY <1>2, <1>3 DEF Share, RedeemedIds, Redeem
  <2>4. /\ RedeemedIn(redemptions, c, statuses) = Sum(s, RedeemedIds(s, c, statuses))
        /\ RedeemedIn(redemptions', c, statuses) = Sum(t, RedeemedIds(t, c, statuses))
    BY DEF RedeemedIn
  <2>. QED BY <2>1, <2>2, <2>3, <2>4 DEF Changes
<1>. QED BY <1>2, <1>5

Recounted(s, t, r, x, c) ==
    \A statuses :
       /\ RedeemedIn(t, c, statuses) \in Nat
       /\ RedeemedIn(t, c, statuses) + Redeem(r, c, statuses)
             = RedeemedIn(s, c, statuses) + Redeem(x, c, statuses)
       /\ Redeem(r, c, statuses) <= RedeemedIn(s, c, statuses)

LEMMA ChangeRedemption ==
    ASSUME LoyaltyTyped, NEW i \in DOMAIN redemptions, NEW r \in Redemption,
           redemptions' = [redemptions EXCEPT ![i] = r], NEW c
    PROVE  /\ redemptions' \in Seq(Redemption)
           /\ Recounted(redemptions, redemptions', redemptions[i], r, c)
<1>. DEFINE s == redemptions
            t == redemptions'
<1>1. s \in Seq(Redemption) /\ Len(s) \in Nat /\ DOMAIN s = 1 .. Len(s)
  BY LenProperties DEF LoyaltyTyped
<1>2. /\ t \in Seq(Redemption) /\ DOMAIN t = DOMAIN s /\ t[i] = r
      /\ \A j \in DOMAIN s \ {i} : t[j] = s[j]
  BY <1>1, ExceptSeq, LenProperties
<1>3. SameBut(s, t, i)
  BY <1>1, <1>2 DEF SameBut
<1>5. ASSUME NEW statuses
      PROVE  /\ RedeemedIn(redemptions', c, statuses) + Redeem(s[i], c, statuses)
                   = RedeemedIn(redemptions, c, statuses) + Redeem(r, c, statuses)
             /\ Redeem(s[i], c, statuses) <= RedeemedIn(redemptions, c, statuses)
             /\ RedeemedIn(redemptions', c, statuses) \in Nat
  <2>1. Changes(s, RedeemedIds(s, c, statuses), t, RedeemedIds(t, c, statuses), i)
    BY <1>1, <1>2, <1>3, RedeemedMove
  <2>2. Share(s, RedeemedIds(s, c, statuses), i) = Redeem(s[i], c, statuses)
    BY DEF Share, RedeemedIds, Redeem
  <2>3. Share(t, RedeemedIds(t, c, statuses), i) = Redeem(r, c, statuses)
    BY <1>2 DEF Share, RedeemedIds, Redeem
  <2>4. /\ RedeemedIn(redemptions, c, statuses) = Sum(s, RedeemedIds(s, c, statuses))
        /\ RedeemedIn(redemptions', c, statuses) = Sum(t, RedeemedIds(t, c, statuses))
    BY DEF RedeemedIn
  <2>. QED BY <2>1, <2>2, <2>3, <2>4 DEF Changes
<1>. QED BY <1>2, <1>5 DEF Recounted


\* The invariant of the accounts, one customer at a time.
Balanced(c) ==
    /\ account[c].pending = CreditsIn(movements, c, {"pending"}) + HandIn(movements, c) + RedeemedIn(redemptions, c, {"pending"})
    /\ account[c].available + HandIn(movements, c) + RedeemedIn(redemptions, c, {"pending", "applied"})
          = CreditsIn(movements, c, {"available"})
    /\ account[c].redeemed = RedeemedIn(redemptions, c, {"applied"})
Covered(c) ==
    account[c].available + account[c].pending + account[c].redeemed
       >= CreditsIn(movements, c, {"pending", "available"})
Loyal == LoyaltyTyped /\ \A c \in Customers : Covered(c) /\ (c \notin uneven => Balanced(c))

LEMMA LoyalMeans == Loyal => LoyaltyTyped /\ PointsBooks /\ NeverShort
BY DEF Loyal, Covered, Balanced, PointsBooks, NeverShort, CreditsIn, CreditIds, Credits,
   HandIn, HandIds, ByHand, RedeemedIn, RedeemedIds, Redeemed

LEMMA LessFacts ==
    ASSUME NEW x \in Nat, NEW p \in Nat
    PROVE  Less(x, p) \in Nat /\ Less(x, p) + p >= x /\ (p <= x => Less(x, p) = x - p)
BY DEF Less

LEMMA AppliedFields ==
    ASSUME NEW a \in Account, NEW m \in Movement
    PROVE  /\ Applied(a, m) \in Account
           /\ Applied(a, m).redeemed = a.redeemed
           /\ m.kind = "redeem" => /\ Applied(a, m).available = Less(a.available, m.points)
                                   /\ Applied(a, m).pending = a.pending + m.points
           /\ m.kind # "redeem" /\ m.status = "pending" =>
                 /\ Applied(a, m).available = a.available
                 /\ Applied(a, m).pending = a.pending + m.points
           /\ m.kind # "redeem" /\ m.status # "pending" =>
                 /\ Applied(a, m).available = a.available + m.points
                 /\ Applied(a, m).pending = a.pending
<1>1. m.points \in Nat /\ a.available \in Nat /\ a.pending \in Nat /\ a.redeemed \in Nat
  BY DEF Movement, Account
<1>2. Less(a.available, m.points) \in Nat
  BY <1>1, LessFacts
<1>3. PICK z \in Nat : z = Less(a.available, m.points)
  BY <1>2
<1>4. a.pending + m.points \in Nat /\ a.available + m.points \in Nat
  BY <1>1
<1>5. CASE m.kind = "redeem"
  <2>1. Applied(a, m) = [a EXCEPT !.available = z, !.pending = a.pending + m.points]
    BY <1>3, <1>5 DEF Applied
  <2>. QED BY <1>1, <1>3, <1>4, <1>5, <2>1 DEF Account
<1>6. CASE m.kind # "redeem" /\ m.status = "pending"
  <2>1. Applied(a, m) = [a EXCEPT !.pending = a.pending + m.points]
    BY <1>6 DEF Applied
  <2>. QED BY <1>1, <1>4, <1>6, <2>1 DEF Account
<1>7. CASE m.kind # "redeem" /\ m.status # "pending"
  <2>1. Applied(a, m) = [a EXCEPT !.available = a.available + m.points]
    BY <1>7 DEF Applied
  <2>. QED BY <1>1, <1>4, <1>7, <2>1 DEF Account
<1>. QED BY <1>5, <1>6, <1>7

LEMMA AssignedLoyal ==
    ASSUME Loyal, NEW m \in Movement, m.status # "reversed",
           m.kind = "redeem" => m.source = "manual",
           m.order # NoNumber => m.kind = "earn", Assigned(m)
    PROVE  Loyal'
<1>1. LoyaltyTyped /\ m.of \in Customers /\ m.points \in Nat
  BY DEF Loyal, Movement
<1>2. ASSUME NEW c \in Customers
      PROVE  /\ account'[c] = IF c = m.of THEN Applied(account[c], m) ELSE account[c]
             /\ account[c] \in Account /\ account'[c] \in Account
             /\ uneven' = uneven \cup (IF m.kind = "redeem" /\ Short(m.of, m.points)
                                       THEN {m.of} ELSE {})
  <2>1. account[c] \in Account
    BY <1>1 DEF LoyaltyTyped
  <2>2. account'[c] = IF c = m.of THEN Applied(account[c], m) ELSE account[c]
    BY <1>1 DEF Assigned, LoyaltyTyped
  <2>3. Applied(account[c], m) \in Account
    BY <2>1, AppliedFields
  <2>. QED BY <2>1, <2>2, <2>3 DEF Assigned
<1>3. movements' = Append(movements, m) /\ redemptions' = redemptions
  BY DEF Assigned
<1>4. LoyaltyTyped'
  <2>1. account' \in [Customers -> Account]
    <3>1. account' = [account EXCEPT ![m.of] = Applied(account[m.of], m)]
      BY DEF Assigned
    <3>2. account[m.of] \in Account
      BY <1>1 DEF LoyaltyTyped
    <3>3. Applied(account[m.of], m) \in Account
      BY <3>2, AppliedFields
    <3>. QED BY <1>1, <3>1, <3>3 DEF LoyaltyTyped
  <2>2. movements' \in Seq(Movement)
    BY <1>1, <1>3, AppendMovement
  <2>3. uneven' \subseteq Customers
    BY <1>1 DEF Assigned, LoyaltyTyped
  <2>4. ASSUME NEW i \in DOMAIN movements', movements'[i].order # NoNumber
        PROVE  movements'[i].kind = "earn"
    <3>1. movements \in Seq(Movement)
      BY <1>1 DEF LoyaltyTyped
    <3>2. movements'[i] = m \/ (i \in DOMAIN movements /\ movements'[i] = movements[i])
      BY <1>3, <3>1, AppendProperties, LenProperties
    <3>. QED BY <1>1, <2>4, <3>2 DEF LoyaltyTyped
  <2>. QED BY <1>1, <1>3, <2>1, <2>2, <2>3, <2>4 DEF LoyaltyTyped
<1>5. ASSUME NEW c \in Customers PROVE Covered(c)' /\ (c \notin uneven' => Balanced(c)')
  <2>1. /\ \A statuses : CreditsIn(movements', c, statuses) = CreditsIn(movements, c, statuses) + Credit(m, c, statuses)
        /\ HandIn(movements', c) = HandIn(movements, c) + Hand(m, c)
        /\ \A statuses : RedeemedIn(redemptions', c, statuses) = RedeemedIn(redemptions, c, statuses)
    BY <1>1, <1>3, AppendMovement
  <2>2. /\ \A statuses : CreditsIn(movements, c, statuses) \in Nat /\ RedeemedIn(redemptions, c, statuses) \in Nat
        /\ HandIn(movements, c) \in Nat
    BY <1>1, SumsAreNumbers
  <2>3. Covered(c) /\ (c \notin uneven => Balanced(c))
    BY DEF Loyal
  <2>4. /\ account[c].pending \in Nat /\ account[c].available \in Nat
        /\ account[c].redeemed \in Nat
    BY <1>2 DEF Account
  <2>5. CASE c # m.of
    <3>1. account'[c] = account[c] /\ (c \notin uneven' => c \notin uneven)
      BY <1>2, <2>5
    <3>2. (\A statuses : Credit(m, c, statuses) = 0) /\ Hand(m, c) = 0
      BY <2>5 DEF Credit, Hand
    <3>. QED BY <2>1, <2>2, <2>3, <2>4, <3>1, <3>2 DEF Covered, Balanced
  <2>6. CASE c = m.of /\ m.kind = "redeem"
    <3>1. /\ account'[c].redeemed = account[c].redeemed
          /\ account'[c].pending = account[c].pending + m.points
          /\ account'[c].available = Less(account[c].available, m.points)
      BY <1>2, <2>6, AppliedFields
    <3>2. (\A statuses : Credit(m, c, statuses) = 0) /\ Hand(m, c) = m.points
      BY <2>6 DEF Credit, Hand
    <3>3. /\ Less(account[c].available, m.points) \in Nat
          /\ Less(account[c].available, m.points) + m.points >= account[c].available
          /\ m.points <= account[c].available =>
                Less(account[c].available, m.points) = account[c].available - m.points
      BY <1>1, <2>4, LessFacts
    <3>4. c \notin uneven' => c \notin uneven /\ m.points <= account[c].available
      BY <1>1, <1>2, <2>4, <2>6 DEF Short
    <3>5. Covered(c)'
      BY <1>1, <2>1, <2>2, <2>3, <2>4, <3>1, <3>2, <3>3 DEF Covered
    <3>6. c \notin uneven' => Balanced(c)'
      BY <1>1, <2>1, <2>2, <2>3, <2>4, <3>1, <3>2, <3>3, <3>4 DEF Balanced
    <3>. QED BY <3>5, <3>6
  <2>7. CASE c = m.of /\ m.kind # "redeem" /\ m.status = "pending"
    <3>1. /\ account'[c].redeemed = account[c].redeemed
          /\ account'[c].pending = account[c].pending + m.points
          /\ account'[c].available = account[c].available
      BY <1>2, <2>7, AppliedFields
    <3>2. /\ Credit(m, c, {"pending"}) = m.points /\ Credit(m, c, {"available"}) = 0
          /\ Credit(m, c, {"pending", "available"}) = m.points /\ Hand(m, c) = 0
      BY <2>7 DEF Credit, Hand
    <3>3. c \notin uneven' => c \notin uneven
      BY <1>2
    <3>. QED BY <1>1, <2>1, <2>2, <2>3, <2>4, <3>1, <3>2, <3>3 DEF Covered, Balanced
  <2>8. CASE c = m.of /\ m.kind # "redeem" /\ m.status = "available"
    <3>1. /\ account'[c].redeemed = account[c].redeemed
          /\ account'[c].pending = account[c].pending
          /\ account'[c].available = account[c].available + m.points
      BY <1>2, <2>8, AppliedFields
    <3>2. /\ Credit(m, c, {"pending"}) = 0 /\ Credit(m, c, {"available"}) = m.points
          /\ Credit(m, c, {"pending", "available"}) = m.points /\ Hand(m, c) = 0
      BY <2>8 DEF Credit, Hand
    <3>3. c \notin uneven' => c \notin uneven
      BY <1>2
    <3>. QED BY <1>1, <2>1, <2>2, <2>3, <2>4, <3>1, <3>2, <3>3 DEF Covered, Balanced
  <2>9. m.status \in {"pending", "available"}
    BY DEF Movement
  <2>. QED BY <2>5, <2>6, <2>7, <2>8, <2>9
<1>. QED BY <1>4, <1>5 DEF Loyal


\* The movement an order's points are settled or reversed by is the credit it earned.
LEMMA FirstNamed ==
    ASSUME LoyaltyTyped, NEW n \in OrderNumbers, MovementsOf(n) # {}
    PROVE  /\ FirstOf(n) \in DOMAIN movements
           /\ movements[FirstOf(n)] \in Movement
           /\ movements[FirstOf(n)].kind = "earn"
<1>1. movements \in Seq(Movement) /\ DOMAIN movements = 1 .. Len(movements) /\ Len(movements) \in Nat
  BY LenProperties DEF LoyaltyTyped
<1>2. MovementsOf(n) \in SUBSET Nat
  BY <1>1 DEF MovementsOf
<1>3. \E i \in MovementsOf(n) : \A j \in MovementsOf(n) : i <= j
  BY <1>2, Least
<1>4. FirstOf(n) \in MovementsOf(n)
  BY <1>3 DEF FirstOf
<1>5. FirstOf(n) \in DOMAIN movements /\ movements[FirstOf(n)].order = n
  BY <1>4 DEF MovementsOf
<1>. QED BY <1>1, <1>5, MovementsCounted, OrderNumbersAssumption DEF LoyaltyTyped

\* What a change of the status of the movement that an order earned does to the sums.
Restatus(s, t, m, status, c) ==
    /\ HandIn(t, c) = HandIn(s, c)
    /\ \A statuses :
         /\ c # m.of => CreditsIn(t, c, statuses) = CreditsIn(s, c, statuses)
         /\ c = m.of =>
              /\ CreditsIn(t, c, statuses) \in Nat
              /\ CreditsIn(t, c, statuses) + (IF m.status \in statuses THEN m.points ELSE 0)
                   = CreditsIn(s, c, statuses) + (IF status \in statuses THEN m.points ELSE 0)
              /\ m.status \in statuses => m.points <= CreditsIn(s, c, statuses)

LEMMA StatusChange ==
    ASSUME LoyaltyTyped, NEW i \in DOMAIN movements, movements[i].kind = "earn",
           NEW status \in {"pending", "available", "reversed"},
           movements' = [movements EXCEPT ![i].status = status]
    PROVE  /\ movements' \in Seq(Movement)
           /\ \A j \in DOMAIN movements' :
                 movements'[j].order # NoNumber => movements'[j].kind = "earn"
           /\ \A c : Restatus(movements, movements', movements[i], status, c)
<1>1. /\ movements \in Seq(Movement) /\ DOMAIN movements = 1 .. Len(movements)
  BY LenProperties DEF LoyaltyTyped
<1>2. PICK m \in Movement : m = movements[i]
  BY <1>1, MovementsCounted
<1>3. PICK x : x = [m EXCEPT !.status = status]
  OBVIOUS
<1>4. /\ x \in Movement /\ x.of = m.of /\ x.points = m.points
      /\ x.kind = "earn" /\ x.order = m.order /\ x.status = status
  BY <1>2, <1>3 DEF Movement
<1>5. movements' = [movements EXCEPT ![i] = x]
  BY <1>2, <1>3
<1>6. movements' \in Seq(Movement)
  BY <1>4, <1>5, ChangeMovement, Zenon
<1>7. \A j \in DOMAIN movements' :
         movements'[j].order # NoNumber => movements'[j].kind = "earn"
  BY <1>1, <1>4, <1>5 DEF LoyaltyTyped
<1>8. ASSUME NEW c PROVE Restatus(movements, movements', m, status, c)
  <2>1. Recounts(movements, movements', movements[i], x, c)
    BY <1>4, <1>5, ChangeMovement, Zenon
  <2>2. PICK s, t : s = movements /\ t = movements'
    OBVIOUS
  <2>3. Recounts(s, t, m, x, c)
    BY <1>2, <2>1, <2>2, Zenon
  <2>4. /\ HandIn(s, c) \in Nat /\ (\A statuses : CreditsIn(s, c, statuses) \in Nat)
        /\ m.points \in Nat /\ m.kind = "earn"
    <3>1. HandIn(movements, c) \in Nat /\ \A statuses : CreditsIn(movements, c, statuses) \in Nat
      BY SumsAreNumbers
    <3>2. m.points \in Nat /\ m.kind = "earn"
      BY <1>2 DEF Movement
    <3>. QED BY <2>2, <3>1, <3>2, Zenon
  <2>5. Restatus(s, t, m, status, c)
    <3>1. HandIn(t, c) = HandIn(s, c)
      <4>1. Hand(m, c) = 0 /\ Hand(x, c) = 0
        BY ONLY <1>4, <2>4 DEF Hand
      <4>. QED BY ONLY <2>3, <2>4, <4>1 DEF Recounts
    <3>2. ASSUME c # m.of, NEW statuses PROVE CreditsIn(t, c, statuses) = CreditsIn(s, c, statuses)
      <4>1. Credit(m, c, statuses) = 0 /\ Credit(x, c, statuses) = 0
        BY ONLY <1>4, <3>2 DEF Credit
      <4>. QED BY ONLY <2>3, <2>4, <4>1 DEF Recounts
    <3>3. ASSUME c = m.of, NEW statuses
          PROVE  /\ CreditsIn(t, c, statuses) \in Nat
                 /\ CreditsIn(t, c, statuses) + (IF m.status \in statuses THEN m.points ELSE 0)
                      = CreditsIn(s, c, statuses) + (IF status \in statuses THEN m.points ELSE 0)
                 /\ m.status \in statuses => m.points <= CreditsIn(s, c, statuses)
      <4>1. /\ Credit(m, c, statuses) = (IF m.status \in statuses THEN m.points ELSE 0)
            /\ Credit(x, c, statuses) = (IF status \in statuses THEN m.points ELSE 0)
        BY ONLY <1>4, <2>4, <3>3 DEF Credit
      <4>. QED BY ONLY <2>3, <2>4, <4>1 DEF Recounts
    <3>. QED BY ONLY <3>1, <3>2, <3>3 DEF Restatus
  <2>. QED BY <2>2, <2>5, Zenon
<1>. QED BY <1>2, <1>6, <1>7, <1>8, Zenon

\* Two balances of one account change.
LEMMA Moved ==
    ASSUME account \in [Customers -> Account], NEW o \in Customers, NEW z \in Nat, NEW v \in Nat,
           account' = [account EXCEPT ![o].pending = z, ![o].available = v]
    PROVE  /\ account' \in [Customers -> Account]
           /\ \A c \in Customers \ {o} : account'[c] = account[c]
           /\ account'[o].pending = z /\ account'[o].available = v
           /\ account'[o].redeemed = account[o].redeemed
<1>1. PICK x : x = [[account[o] EXCEPT !.pending = z] EXCEPT !.available = v]
  OBVIOUS
<1>2. x \in Account /\ x.pending = z /\ x.available = v /\ x.redeemed = account[o].redeemed
  BY <1>1 DEF Account
<1>3. account' = [account EXCEPT ![o] = x]
  BY <1>1
<1>. QED BY <1>2, <1>3

LEMMA StillLoyal ==
    ASSUME Loyal, UNCHANGED loyaltyVars
    PROVE  Loyal'
<1>1. UNCHANGED <<account, movements, redemptions, uneven>>
  BY DEF loyaltyVars
<1>2. LoyaltyTyped'
  BY <1>1 DEF Loyal, LoyaltyTyped
<1>3. ASSUME NEW c PROVE /\ \A statuses : CreditsIn(movements', c, statuses) = CreditsIn(movements, c, statuses)
                         /\ \A statuses : RedeemedIn(redemptions', c, statuses) = RedeemedIn(redemptions, c, statuses)
                         /\ HandIn(movements', c) = HandIn(movements, c)
  BY <1>1
<1>4. ASSUME NEW c \in Customers PROVE Covered(c)' /\ (c \notin uneven' => Balanced(c)')
  <2>1. Covered(c) /\ (c \notin uneven => Balanced(c))
    BY DEF Loyal
  <2>. QED BY <1>1, <1>3, <2>1 DEF Covered, Balanced
<1>. QED BY <1>2, <1>4 DEF Loyal

LEMMA SettledLoyal ==
    ASSUME Loyal, NEW n \in OrderNumbers, settleOrderPoints(n)
    PROVE  Loyal'
<1>1. PICK i : i = FirstOf(n)
  OBVIOUS
<1>2. PICK m : m = movements[i]
  OBVIOUS
<1>3. LoyaltyTyped /\ i \in DOMAIN movements /\ m \in Movement /\ m.kind = "earn"
  BY <1>1, <1>2, FirstNamed DEF settleOrderPoints, Loyal
<1>4. CASE m.status # "pending"
  <2>1. UNCHANGED <<account, movements, redemptions, uneven>>
    BY <1>1, <1>2, <1>4 DEF settleOrderPoints
  <2>. QED BY <2>1, StillLoyal DEF loyaltyVars
<1>5. CASE m.status = "pending"
  <2>1. PICK o \in Customers, p \in Nat : o = m.of /\ p = m.points
    BY <1>3 DEF Movement
  <2>2. /\ account' = [account EXCEPT ![o].pending = Less(@, p), ![o].available = @ + p]
        /\ movements' = [movements EXCEPT ![i].status = "available"]
        /\ redemptions' = redemptions /\ uneven' = uneven
    BY <1>1, <1>2, <1>5, <2>1 DEF settleOrderPoints
  <2>3. /\ movements' \in Seq(Movement)
        /\ \A j \in DOMAIN movements' :
              movements'[j].order # NoNumber => movements'[j].kind = "earn"
        /\ \A c : Restatus(movements, movements', m, "available", c)
    BY <1>2, <1>3, <2>2, StatusChange
  <2>4. /\ account[o].pending \in Nat /\ account[o].available \in Nat
        /\ account[o].redeemed \in Nat /\ account[o] \in Account
    BY <1>3 DEF LoyaltyTyped, Account
  <2>5. /\ Less(account[o].pending, p) \in Nat
        /\ Less(account[o].pending, p) + p >= account[o].pending
        /\ p <= account[o].pending => Less(account[o].pending, p) = account[o].pending - p
    BY <2>4, LessFacts
  <2>6. /\ account' \in [Customers -> Account]
        /\ \A c \in Customers \ {o} : account'[c] = account[c]
        /\ account'[o].pending = Less(account[o].pending, p)
        /\ account'[o].available = account[o].available + p
        /\ account'[o].redeemed = account[o].redeemed
    <3>1. PICK z \in Nat, v \in Nat :
             z = Less(account[o].pending, p) /\ v = account[o].available + p
      BY <2>4, <2>5
    <3>2. account' = [account EXCEPT ![o].pending = z, ![o].available = v]
      BY <1>3, <2>2, <3>1 DEF LoyaltyTyped
    <3>3. account \in [Customers -> Account]
      BY <1>3 DEF LoyaltyTyped
    <3>4. /\ account' \in [Customers -> Account]
          /\ \A c \in Customers \ {o} : account'[c] = account[c]
          /\ account'[o].pending = z /\ account'[o].available = v
          /\ account'[o].redeemed = account[o].redeemed
      BY <3>2, <3>3, Moved, Zenon
    <3>. QED BY <3>1, <3>4
  <2>7. LoyaltyTyped'
    BY <1>3, <2>2, <2>3, <2>6 DEF LoyaltyTyped
  <2>8. PICK s, t, rs : s = movements /\ t = movements' /\ rs = redemptions
    OBVIOUS
  <2>9. ASSUME NEW c \in Customers
        PROVE  /\ \A statuses : /\ CreditsIn(s, c, statuses) \in Nat
                                /\ RedeemedIn(rs, c, statuses) \in Nat
               /\ HandIn(s, c) \in Nat
               /\ Restatus(s, t, m, "available", c)
    <3>1. /\ \A statuses : /\ CreditsIn(movements, c, statuses) \in Nat
                           /\ RedeemedIn(redemptions, c, statuses) \in Nat
          /\ HandIn(movements, c) \in Nat
      BY <1>3, SumsAreNumbers
    <3>. QED BY <2>3, <2>8, <3>1, Zenon
  <2>10. ASSUME NEW c \in Customers PROVE Covered(c)' /\ (c \notin uneven' => Balanced(c)')
    <3>1. /\ account[c].available + account[c].pending + account[c].redeemed
                >= CreditsIn(s, c, {"pending", "available"})
          /\ c \notin uneven =>
                /\ account[c].pending
                     = CreditsIn(s, c, {"pending"}) + HandIn(s, c) + RedeemedIn(rs, c, {"pending"})
                /\ account[c].available + HandIn(s, c) + RedeemedIn(rs, c, {"pending", "applied"})
                     = CreditsIn(s, c, {"available"})
                /\ account[c].redeemed = RedeemedIn(rs, c, {"applied"})
      BY <2>8 DEF Loyal, Covered, Balanced
    <3>2. /\ account'[c].available + account'[c].pending + account'[c].redeemed
                >= CreditsIn(t, c, {"pending", "available"})
          /\ c \notin uneven =>
                /\ account'[c].pending
                     = CreditsIn(t, c, {"pending"}) + HandIn(t, c) + RedeemedIn(rs, c, {"pending"})
                /\ account'[c].available + HandIn(t, c) + RedeemedIn(rs, c, {"pending", "applied"})
                     = CreditsIn(t, c, {"available"})
                /\ account'[c].redeemed = RedeemedIn(rs, c, {"applied"})
      <4>1. CASE c # o
        BY ONLY <4>1, <2>1, <2>6, <2>9, <3>1 DEF Restatus
      <4>2. CASE c = o
        <5>1. /\ CreditsIn(t, c, {"pending"}) + p = CreditsIn(s, c, {"pending"})
              /\ p <= CreditsIn(s, c, {"pending"})
          BY ONLY <4>2, <1>5, <2>1, <2>9 DEF Restatus
        <5>2. CreditsIn(t, c, {"available"}) = CreditsIn(s, c, {"available"}) + p
          BY ONLY <4>2, <1>5, <2>1, <2>9 DEF Restatus
        <5>3. CreditsIn(t, c, {"pending", "available"}) = CreditsIn(s, c, {"pending", "available"})
          BY ONLY <4>2, <1>5, <2>1, <2>9 DEF Restatus
        <5>4. HandIn(t, c) = HandIn(s, c) /\ CreditsIn(t, c, {"pending"}) \in Nat
          BY ONLY <4>2, <2>1, <2>9 DEF Restatus
        <5>. QED BY ONLY <2>1, <2>4, <2>5, <2>6, <2>9, <3>1, <4>2, <5>1, <5>2, <5>3, <5>4
      <4>. QED BY <4>1, <4>2
    <3>. QED BY <2>2, <2>8, <3>2 DEF Covered, Balanced
  <2>. QED BY <2>7, <2>10 DEF Loyal
<1>. QED BY <1>4, <1>5


LEMMA ReversedLoyal ==
    ASSUME Loyal, NEW n \in OrderNumbers, reverseOrderPoints(n)
    PROVE  Loyal'
<1>1. PICK i : i = FirstOf(n)
  OBVIOUS
<1>2. PICK m : m = movements[i]
  OBVIOUS
<1>3. LoyaltyTyped /\ i \in DOMAIN movements /\ m \in Movement /\ m.kind = "earn"
  BY <1>1, <1>2, FirstNamed DEF reverseOrderPoints, Loyal
<1>4. CASE m.status = "reversed"
  <2>1. UNCHANGED <<account, movements, redemptions, uneven>>
    BY <1>1, <1>2, <1>4 DEF reverseOrderPoints
  <2>. QED BY <2>1, StillLoyal DEF loyaltyVars
<1>5. CASE m.status \in {"pending", "available"}
  <2>1. PICK o \in Customers, p \in Nat : o = m.of /\ p = m.points
    BY <1>3 DEF Movement
  <2>2. /\ movements' = [movements EXCEPT ![i].status = "reversed"] /\ redemptions' = redemptions
        /\ m.status = "pending" => /\ account' = [account EXCEPT ![o].pending = Less(@, p)]
                                   /\ uneven' = uneven
        /\ m.status = "available" =>
              /\ account' = [account EXCEPT ![o].available = Less(@, p)]
              /\ uneven' = uneven \cup (IF Short(o, p) THEN {o} ELSE {})
    BY <1>1, <1>2, <1>5, <2>1 DEF reverseOrderPoints
  <2>3. /\ movements' \in Seq(Movement)
        /\ \A j \in DOMAIN movements' :
              movements'[j].order # NoNumber => movements'[j].kind = "earn"
        /\ \A c : Restatus(movements, movements', m, "reversed", c)
    BY <1>2, <1>3, <2>2, StatusChange
  <2>4. /\ account[o].pending \in Nat /\ account[o].available \in Nat
        /\ account[o].redeemed \in Nat /\ account[o] \in Account
    BY <1>3 DEF LoyaltyTyped, Account
  <2>5. /\ Less(account[o].pending, p) \in Nat
        /\ Less(account[o].pending, p) + p >= account[o].pending
        /\ p <= account[o].pending => Less(account[o].pending, p) = account[o].pending - p
        /\ Less(account[o].available, p) \in Nat
        /\ Less(account[o].available, p) + p >= account[o].available
        /\ p <= account[o].available => Less(account[o].available, p) = account[o].available - p
    BY <2>4, LessFacts
  <2>6. /\ account' \in [Customers -> Account]
        /\ \A c \in Customers \ {o} : account'[c] = account[c]
        /\ account'[o].pending = IF m.status = "pending" THEN Less(account[o].pending, p)
                                 ELSE account[o].pending
        /\ account'[o].available = IF m.status = "available" THEN Less(account[o].available, p)
                                   ELSE account[o].available
        /\ account'[o].redeemed = account[o].redeemed
    <3>1. PICK z \in Nat, v \in Nat :
             /\ z = IF m.status = "pending" THEN Less(account[o].pending, p) ELSE account[o].pending
             /\ v = IF m.status = "available" THEN Less(account[o].available, p)
                    ELSE account[o].available
      BY <2>4, <2>5
    <3>2. account' = [account EXCEPT ![o].pending = z, ![o].available = v]
      <4>1. account = [c \in Customers |-> account[c]]
            /\ account[o] = [f \in {"available", "pending", "redeemed"} |-> account[o][f]]
        BY <1>3, <2>4 DEF LoyaltyTyped, Account
      <4>2. CASE m.status = "pending"
        BY <2>2, <3>1, <4>1, <4>2
      <4>3. CASE m.status = "available"
        BY <2>2, <3>1, <4>1, <4>3
      <4>. QED BY <1>5, <4>2, <4>3
    <3>3. account \in [Customers -> Account]
      BY <1>3 DEF LoyaltyTyped
    <3>4. /\ account' \in [Customers -> Account]
          /\ \A c \in Customers \ {o} : account'[c] = account[c]
          /\ account'[o].pending = z /\ account'[o].available = v
          /\ account'[o].redeemed = account[o].redeemed
      BY <3>2, <3>3, Moved, Zenon
    <3>. QED BY <3>1, <3>4
  <2>7. LoyaltyTyped'
    <3>1. uneven' \subseteq Customers
      BY <1>3, <1>5, <2>1, <2>2 DEF LoyaltyTyped
    <3>. QED BY <1>3, <2>2, <2>3, <2>6, <3>1 DEF LoyaltyTyped
  <2>8. PICK s, t, rs : s = movements /\ t = movements' /\ rs = redemptions
    OBVIOUS
  <2>9. ASSUME NEW c \in Customers
        PROVE  /\ \A statuses : /\ CreditsIn(s, c, statuses) \in Nat
                                /\ RedeemedIn(rs, c, statuses) \in Nat
               /\ HandIn(s, c) \in Nat
               /\ Restatus(s, t, m, "reversed", c)
    <3>1. /\ \A statuses : /\ CreditsIn(movements, c, statuses) \in Nat
                           /\ RedeemedIn(redemptions, c, statuses) \in Nat
          /\ HandIn(movements, c) \in Nat
      BY <1>3, SumsAreNumbers
    <3>. QED BY <2>3, <2>8, <3>1, Zenon
  <2>10. ASSUME NEW c \in Customers PROVE Covered(c)' /\ (c \notin uneven' => Balanced(c)')
    <3>1. /\ account[c].available + account[c].pending + account[c].redeemed
                >= CreditsIn(s, c, {"pending", "available"})
          /\ c \notin uneven =>
                /\ account[c].pending
                     = CreditsIn(s, c, {"pending"}) + HandIn(s, c) + RedeemedIn(rs, c, {"pending"})
                /\ account[c].available + HandIn(s, c) + RedeemedIn(rs, c, {"pending", "applied"})
                     = CreditsIn(s, c, {"available"})
                /\ account[c].redeemed = RedeemedIn(rs, c, {"applied"})
      BY <2>8 DEF Loyal, Covered, Balanced
    <3>2. /\ c \notin uneven' => c \notin uneven
          /\ c = o /\ m.status = "available" /\ c \notin uneven' => p <= account[o].available
      BY <1>5, <2>1, <2>2, <2>4 DEF Short
    <3>3. /\ account'[c].available + account'[c].pending + account'[c].redeemed
                >= CreditsIn(t, c, {"pending", "available"})
          /\ c \notin uneven' =>
                /\ account'[c].pending
                     = CreditsIn(t, c, {"pending"}) + HandIn(t, c) + RedeemedIn(rs, c, {"pending"})
                /\ account'[c].available + HandIn(t, c) + RedeemedIn(rs, c, {"pending", "applied"})
                     = CreditsIn(t, c, {"available"})
                /\ account'[c].redeemed = RedeemedIn(rs, c, {"applied"})
      <4>1. CASE c # o
        BY ONLY <4>1, <2>1, <2>6, <2>9, <3>1, <3>2 DEF Restatus
      <4>2. CASE c = o
        <5>1. CreditsIn(t, c, {"pending", "available"}) + p = CreditsIn(s, c, {"pending", "available"})
          BY ONLY <4>2, <1>5, <2>1, <2>9 DEF Restatus
        <5>2. HandIn(t, c) = HandIn(s, c) /\ CreditsIn(t, c, {"pending", "available"}) \in Nat
          BY ONLY <4>2, <2>1, <2>9 DEF Restatus
        <5>3. CASE m.status = "pending"
          <6>1. /\ CreditsIn(t, c, {"pending"}) + p = CreditsIn(s, c, {"pending"})
                /\ p <= CreditsIn(s, c, {"pending"}) /\ CreditsIn(t, c, {"pending"}) \in Nat
            BY ONLY <4>2, <5>3, <2>1, <2>9 DEF Restatus
          <6>2. CreditsIn(t, c, {"available"}) = CreditsIn(s, c, {"available"})
            BY ONLY <4>2, <5>3, <2>1, <2>9 DEF Restatus
          <6>. QED BY ONLY <2>1, <2>4, <2>5, <2>6, <2>9, <3>1, <3>2, <4>2, <5>1, <5>2, <5>3, <6>1, <6>2
        <5>4. CASE m.status = "available"
          <6>1. /\ CreditsIn(t, c, {"available"}) + p = CreditsIn(s, c, {"available"})
                /\ CreditsIn(t, c, {"available"}) \in Nat
            BY ONLY <4>2, <5>4, <2>1, <2>9 DEF Restatus
          <6>2. CreditsIn(t, c, {"pending"}) = CreditsIn(s, c, {"pending"})
            BY ONLY <4>2, <5>4, <2>1, <2>9 DEF Restatus
          <6>3. /\ account'[c].available = Less(account[c].available, p)
                /\ account'[c].pending = account[c].pending
                /\ account'[c].redeemed = account[c].redeemed
            BY ONLY <2>6, <4>2, <5>4
          <6>4. account'[c].available + account'[c].pending + account'[c].redeemed
                   >= CreditsIn(t, c, {"pending", "available"})
            BY ONLY <2>1, <2>4, <2>5, <3>1, <4>2, <5>1, <5>2, <6>3
          <6>5. ASSUME c \notin uneven'
                PROVE  /\ account'[c].pending
                             = CreditsIn(t, c, {"pending"}) + HandIn(t, c) + RedeemedIn(rs, c, {"pending"})
                       /\ account'[c].available + HandIn(t, c) + RedeemedIn(rs, c, {"pending", "applied"})
                             = CreditsIn(t, c, {"available"})
                       /\ account'[c].redeemed = RedeemedIn(rs, c, {"applied"})
            <7>1. /\ account[c].pending
                        = CreditsIn(s, c, {"pending"}) + HandIn(s, c) + RedeemedIn(rs, c, {"pending"})
                  /\ account[c].available + HandIn(s, c) + RedeemedIn(rs, c, {"pending", "applied"})
                        = CreditsIn(s, c, {"available"})
                  /\ account[c].redeemed = RedeemedIn(rs, c, {"applied"})
              BY ONLY <3>1, <3>2, <6>5
            <7>2. account'[c].available = account[c].available - p
              BY ONLY <2>5, <3>2, <4>2, <5>4, <6>3, <6>5
            <7>3. /\ RedeemedIn(rs, c, {"pending", "applied"}) \in Nat /\ HandIn(s, c) \in Nat
                  /\ account[c].available \in Nat
              BY ONLY <2>4, <2>9, <4>2
            <7>4. account'[c].available + HandIn(t, c) + RedeemedIn(rs, c, {"pending", "applied"})
                     = CreditsIn(t, c, {"available"})
              BY ONLY <2>1, <5>2, <6>1, <7>1, <7>2, <7>3, SMTT(30)
            <7>. QED BY ONLY <5>2, <6>2, <6>3, <7>1, <7>4
          <6>. QED BY <6>4, <6>5
        <5>. QED BY <1>5, <5>3, <5>4
      <4>. QED BY <4>1, <4>2
    <3>. QED BY <2>2, <2>8, <3>3 DEF Covered, Balanced
  <2>. QED BY <2>7, <2>10 DEF Loyal
<1>6. m.status \in {"pending", "available", "reversed"}
  BY <1>3 DEF Movement
<1>. QED BY <1>4, <1>5, <1>6


LEMMA CreatedLoyal ==
    ASSUME Loyal, NEW o \in Customers, NEW p \in Nat, createRedemption(o, p)
    PROVE  Loyal'
<1>1. PICK m : m = [of |-> o, order |-> NoNumber, kind |-> "redeem", source |-> "redemption",
                    points |-> p, status |-> "pending"]
  OBVIOUS
<1>2. PICK r : r = [of |-> o, points |-> p, status |-> "pending", decisions |-> 0]
  OBVIOUS
<1>3. /\ m \in Movement /\ m.kind = "redeem" /\ m.source = "redemption" /\ m.order = NoNumber
      /\ r \in Redemption /\ r.of = o /\ r.points = p /\ r.status = "pending"
  BY <1>1, <1>2, RedemptionsAssumption DEF Movement, Redemption, Kinds
<1>4. /\ movements' = Append(movements, m) /\ redemptions' = Append(redemptions, r)
      /\ account' = [account EXCEPT ![o].available = @ - p, ![o].pending = @ + p]
      /\ uneven' = uneven /\ ~Short(o, p) /\ LoyaltyTyped
  BY <1>1, <1>2 DEF createRedemption, Loyal
<1>5. /\ account[o].pending \in Nat /\ account[o].available \in Nat
      /\ account[o].redeemed \in Nat /\ account[o] \in Account
      /\ p <= account[o].available
  BY <1>4 DEF LoyaltyTyped, Account, Short
<1>6. /\ account' \in [Customers -> Account]
      /\ \A c \in Customers \ {o} : account'[c] = account[c]
      /\ account'[o].pending = account[o].pending + p
      /\ account'[o].available = account[o].available - p
      /\ account'[o].redeemed = account[o].redeemed
  <2>1. PICK z \in Nat, v \in Nat : z = account[o].pending + p /\ v = account[o].available - p
    BY <1>5
  <2>2. account' = [account EXCEPT ![o].pending = z, ![o].available = v]
    <3>1. account = [c \in Customers |-> account[c]]
          /\ account[o] = [f \in {"available", "pending", "redeemed"} |-> account[o][f]]
      BY <1>4, <1>5 DEF LoyaltyTyped, Account
    <3>. QED BY <1>4, <2>1, <3>1
  <2>3. account \in [Customers -> Account]
    BY <1>4 DEF LoyaltyTyped
  <2>4. /\ account' \in [Customers -> Account]
        /\ \A c \in Customers \ {o} : account'[c] = account[c]
        /\ account'[o].pending = z /\ account'[o].available = v
        /\ account'[o].redeemed = account[o].redeemed
    BY <2>2, <2>3, Moved, Zenon
  <2>. QED BY <2>1, <2>4
<1>7. /\ movements' \in Seq(Movement) /\ redemptions' \in Seq(Redemption)
  BY <1>3, <1>4, AppendMovement, AppendRedemption
<1>8. \A j \in DOMAIN movements' : movements'[j].order # NoNumber => movements'[j].kind = "earn"
  <2>1. movements \in Seq(Movement)
    BY <1>4 DEF LoyaltyTyped
  <2>2. ASSUME NEW j \in DOMAIN movements'
        PROVE  movements'[j] = m \/ (j \in DOMAIN movements /\ movements'[j] = movements[j])
    BY <1>3, <1>4, <2>1, AppendProperties, LenProperties
  <2>. QED BY <1>3, <1>4, <2>2 DEF LoyaltyTyped
<1>9. LoyaltyTyped'
  BY <1>4, <1>6, <1>7, <1>8 DEF LoyaltyTyped
<1>10. PICK s, t, rs, rt : s = movements /\ t = movements' /\ rs = redemptions /\ rt = redemptions'
  OBVIOUS
<1>11. ASSUME NEW c \in Customers
       PROVE  /\ \A statuses : /\ CreditsIn(s, c, statuses) \in Nat
                               /\ RedeemedIn(rs, c, statuses) \in Nat
                               /\ CreditsIn(t, c, statuses) = CreditsIn(s, c, statuses)
                               /\ RedeemedIn(rt, c, statuses)
                                    = RedeemedIn(rs, c, statuses) + Redeem(r, c, statuses)
              /\ HandIn(s, c) \in Nat /\ HandIn(t, c) = HandIn(s, c)
  <2>1. /\ \A statuses : /\ CreditsIn(movements, c, statuses) \in Nat
                         /\ RedeemedIn(redemptions, c, statuses) \in Nat
        /\ HandIn(movements, c) \in Nat
    BY <1>4, SumsAreNumbers
  <2>2. /\ \A statuses : CreditsIn(movements', c, statuses)
                            = CreditsIn(movements, c, statuses) + Credit(m, c, statuses)
        /\ HandIn(movements', c) = HandIn(movements, c) + Hand(m, c)
    BY <1>3, <1>4, AppendMovement
  <2>3. \A statuses : RedeemedIn(redemptions', c, statuses)
                         = RedeemedIn(redemptions, c, statuses) + Redeem(r, c, statuses)
    BY <1>3, <1>4, AppendRedemption
  <2>4. (\A statuses : Credit(m, c, statuses) = 0) /\ Hand(m, c) = 0
    BY <1>3 DEF Credit, Hand
  <2>. QED BY <1>10, <2>1, <2>2, <2>3, <2>4
<1>12. ASSUME NEW c \in Customers PROVE Covered(c)' /\ (c \notin uneven' => Balanced(c)')
  <2>1. /\ account[c].available + account[c].pending + account[c].redeemed
              >= CreditsIn(s, c, {"pending", "available"})
        /\ c \notin uneven =>
              /\ account[c].pending
                   = CreditsIn(s, c, {"pending"}) + HandIn(s, c) + RedeemedIn(rs, c, {"pending"})
              /\ account[c].available + HandIn(s, c) + RedeemedIn(rs, c, {"pending", "applied"})
                   = CreditsIn(s, c, {"available"})
              /\ account[c].redeemed = RedeemedIn(rs, c, {"applied"})
    BY <1>10 DEF Loyal, Covered, Balanced
  <2>2. /\ account'[c].available + account'[c].pending + account'[c].redeemed
              >= CreditsIn(t, c, {"pending", "available"})
        /\ c \notin uneven =>
              /\ account'[c].pending
                   = CreditsIn(t, c, {"pending"}) + HandIn(t, c) + RedeemedIn(rt, c, {"pending"})
              /\ account'[c].available + HandIn(t, c) + RedeemedIn(rt, c, {"pending", "applied"})
                   = CreditsIn(t, c, {"available"})
              /\ account'[c].redeemed = RedeemedIn(rt, c, {"applied"})
    <3>1. CASE c # o
      <4>1. \A statuses : Redeem(r, c, statuses) = 0
        BY <1>3, <3>1 DEF Redeem
      <4>2. \A statuses : RedeemedIn(rt, c, statuses) = RedeemedIn(rs, c, statuses)
        BY <1>11, <4>1
      <4>. QED BY ONLY <1>6, <1>11, <2>1, <3>1, <4>2
    <3>2. CASE c = o
      <4>1. /\ Redeem(r, c, {"pending"}) = p /\ Redeem(r, c, {"pending", "applied"}) = p
            /\ Redeem(r, c, {"applied"}) = 0
        BY <1>3, <3>2 DEF Redeem
      <4>2. /\ RedeemedIn(rt, c, {"pending"}) = RedeemedIn(rs, c, {"pending"}) + p
            /\ RedeemedIn(rt, c, {"pending", "applied"}) = RedeemedIn(rs, c, {"pending", "applied"}) + p
            /\ RedeemedIn(rt, c, {"applied"}) = RedeemedIn(rs, c, {"applied"})
            /\ RedeemedIn(rs, c, {"pending"}) \in Nat
            /\ RedeemedIn(rs, c, {"pending", "applied"}) \in Nat
        BY <1>11, <4>1
      <4>. QED BY ONLY <1>5, <1>6, <1>11, <2>1, <3>2, <4>2, p \in Nat
    <3>. QED BY <3>1, <3>2
  <2>. QED BY <1>4, <1>10, <2>2 DEF Covered, Balanced
<1>. QED BY <1>9, <1>12 DEF Loyal

LEMMA DecidedFields ==
    ASSUME NEW a \in Account, NEW p \in Nat, NEW status \in {"applied", "cancelled"}
    PROVE  /\ Decided(a, p, status) \in Account
           /\ Decided(a, p, status).pending = Less(a.pending, p)
           /\ Decided(a, p, status).redeemed
                = a.redeemed + (IF status = "applied" THEN p ELSE 0)
           /\ Decided(a, p, status).available
                = a.available + (IF status = "applied" THEN 0 ELSE p)
<1>1. a.available \in Nat /\ a.pending \in Nat /\ a.redeemed \in Nat
  BY DEF Account
<1>2. PICK z \in Nat : z = Less(a.pending, p)
  BY <1>1, LessFacts
<1>3. a.redeemed + p \in Nat /\ a.available + p \in Nat
  BY <1>1
<1>4. PICK v \in Nat, u \in Nat : v = a.redeemed + p /\ u = a.available + p
  BY <1>3
<1>5. CASE status = "applied"
  <2>1. Decided(a, p, status) = [a EXCEPT !.pending = z, !.redeemed = v]
    BY <1>2, <1>4, <1>5 DEF Decided
  <2>2. PICK x : x = Decided(a, p, status)
    OBVIOUS
  <2>3. x \in Account /\ x.pending = z /\ x.redeemed = v /\ x.available = a.available
    BY ONLY <1>1, <1>4, <2>1, <2>2, a \in Account, z \in Nat DEF Account
  <2>4. x.redeemed = a.redeemed + p /\ x.available = a.available + 0
    BY <1>1, <1>4, <2>3
  <2>. QED BY <1>2, <1>5, <2>2, <2>3, <2>4
<1>6. CASE status = "cancelled"
  <2>1. Decided(a, p, status) = [a EXCEPT !.pending = z, !.available = u]
    BY <1>2, <1>4, <1>6 DEF Decided
  <2>2. PICK x : x = Decided(a, p, status)
    OBVIOUS
  <2>3. x \in Account /\ x.pending = z /\ x.available = u /\ x.redeemed = a.redeemed
    BY ONLY <1>1, <1>4, <2>1, <2>2, a \in Account, z \in Nat DEF Account
  <2>4. x.available = a.available + p /\ x.redeemed = a.redeemed + 0
    BY <1>1, <1>4, <2>3
  <2>. QED BY <1>2, <1>6, <2>2, <2>3, <2>4
<1>. QED BY <1>5, <1>6

LEMMA UpdatedLoyal ==
    ASSUME Loyal, NEW i \in DOMAIN redemptions, NEW status \in {"applied", "cancelled"},
           updateRedemptionStatus(i, status)
    PROVE  Loyal'
<1>1. LoyaltyTyped /\ redemptions \in Seq(Redemption)
  BY DEF Loyal, LoyaltyTyped
<1>2. PICK r \in Redemption : r = redemptions[i]
  BY <1>1, RedemptionsCounted
<1>3. PICK o \in Customers, p \in Nat : o = r.of /\ p = r.points
  BY <1>2 DEF Redemption
<1>4. PICK x : x = [r EXCEPT !.status = status, !.decisions = @ + 1]
  OBVIOUS
<1>5. /\ r.decisions < MaxDecisions /\ r.status \in {"pending", status}
      /\ account' = [account EXCEPT ![o] = Decided(@, p, status)]
      /\ redemptions' = [redemptions EXCEPT ![i] = x]
      /\ uneven' = uneven \cup (IF r.status = "pending" THEN {} ELSE {o})
      /\ movements' = movements
  BY <1>2, <1>3, <1>4 DEF updateRedemptionStatus
<1>6. x \in Redemption /\ x.of = o /\ x.points = p /\ x.status = status
  <2>1. r.decisions + 1 \in 0 .. MaxDecisions
    BY <1>5, RedemptionsAssumption DEF Redemption
  <2>. QED BY <1>3, <1>4, <2>1 DEF Redemption
<1>7. /\ account[o].pending \in Nat /\ account[o].available \in Nat
      /\ account[o].redeemed \in Nat /\ account[o] \in Account
  BY <1>1 DEF LoyaltyTyped, Account
<1>8. PICK y \in Account : y = Decided(account[o], p, status)
  BY <1>7, DecidedFields
<1>9. /\ account' \in [Customers -> Account] /\ account'[o] = y
      /\ \A c \in Customers \ {o} : account'[c] = account[c]
  BY <1>1, <1>5, <1>8 DEF LoyaltyTyped
<1>10. /\ y.pending = Less(account[o].pending, p)
       /\ y.redeemed = account[o].redeemed + (IF status = "applied" THEN p ELSE 0)
       /\ y.available = account[o].available + (IF status = "applied" THEN 0 ELSE p)
       /\ Less(account[o].pending, p) \in Nat
       /\ Less(account[o].pending, p) + p >= account[o].pending
       /\ p <= account[o].pending => Less(account[o].pending, p) = account[o].pending - p
  <2>1. /\ y.pending = Less(account[o].pending, p)
        /\ y.redeemed = account[o].redeemed + (IF status = "applied" THEN p ELSE 0)
        /\ y.available = account[o].available + (IF status = "applied" THEN 0 ELSE p)
    BY <1>7, <1>8, DecidedFields, ZenonT(40)
  <2>. QED BY <1>7, <2>1, LessFacts
<1>11. LoyaltyTyped'
  <2>1. redemptions' \in Seq(Redemption)
    BY <1>1, <1>5, <1>6, ChangeRedemption
  <2>2. uneven' \subseteq Customers
    BY <1>1, <1>5 DEF LoyaltyTyped
  <2>. QED BY <1>1, <1>5, <1>9, <2>1, <2>2 DEF LoyaltyTyped
<1>12. PICK s, rs, rt : s = movements /\ rs = redemptions /\ rt = redemptions'
  OBVIOUS
<1>13. ASSUME NEW c \in Customers
       PROVE  /\ \A statuses :
                    /\ CreditsIn(s, c, statuses) \in Nat
                    /\ RedeemedIn(rs, c, statuses) \in Nat /\ RedeemedIn(rt, c, statuses) \in Nat
                    /\ RedeemedIn(rt, c, statuses) + Redeem(r, c, statuses)
                          = RedeemedIn(rs, c, statuses) + Redeem(x, c, statuses)
                    /\ Redeem(r, c, statuses) <= RedeemedIn(rs, c, statuses)
              /\ HandIn(s, c) \in Nat
  <2>1. /\ \A statuses : /\ CreditsIn(movements, c, statuses) \in Nat
                         /\ RedeemedIn(redemptions, c, statuses) \in Nat
        /\ HandIn(movements, c) \in Nat
    BY <1>1, SumsAreNumbers
  <2>2. Recounted(redemptions, redemptions', redemptions[i], x, c)
    BY <1>1, <1>5, <1>6, ChangeRedemption, Zenon
  <2>3. Recounted(rs, rt, r, x, c)
    BY <1>2, <1>12, <2>2, Zenon
  <2>. QED BY <1>12, <2>1, <2>3 DEF Recounted
<1>14. ASSUME NEW c \in Customers PROVE Covered(c)' /\ (c \notin uneven' => Balanced(c)')
  <2>1. /\ account[c].available + account[c].pending + account[c].redeemed
              >= CreditsIn(s, c, {"pending", "available"})
        /\ c \notin uneven =>
              /\ account[c].pending
                   = CreditsIn(s, c, {"pending"}) + HandIn(s, c) + RedeemedIn(rs, c, {"pending"})
              /\ account[c].available + HandIn(s, c) + RedeemedIn(rs, c, {"pending", "applied"})
                   = CreditsIn(s, c, {"available"})
              /\ account[c].redeemed = RedeemedIn(rs, c, {"applied"})
    BY <1>12 DEF Loyal, Covered, Balanced
  <2>2. /\ c \notin uneven' => c \notin uneven
        /\ c = o /\ c \notin uneven' => r.status = "pending"
    BY <1>5
  <2>3. account'[c].available + account'[c].pending + account'[c].redeemed
           >= CreditsIn(s, c, {"pending", "available"})
    <3>1. CASE c # o
      BY <1>9, <2>1, <3>1
    <3>2. CASE c = o
      BY ONLY <1>7, <1>9, <1>10, <1>13, <2>1, <3>2, p \in Nat
    <3>. QED BY <3>1, <3>2
  <2>4. ASSUME c \notin uneven'
        PROVE  /\ account'[c].pending
                    = CreditsIn(s, c, {"pending"}) + HandIn(s, c) + RedeemedIn(rt, c, {"pending"})
               /\ account'[c].available + HandIn(s, c) + RedeemedIn(rt, c, {"pending", "applied"})
                    = CreditsIn(s, c, {"available"})
               /\ account'[c].redeemed = RedeemedIn(rt, c, {"applied"})
    <3>0. /\ account[c].pending
               = CreditsIn(s, c, {"pending"}) + HandIn(s, c) + RedeemedIn(rs, c, {"pending"})
          /\ account[c].available + HandIn(s, c) + RedeemedIn(rs, c, {"pending", "applied"})
               = CreditsIn(s, c, {"available"})
          /\ account[c].redeemed = RedeemedIn(rs, c, {"applied"})
      BY <2>1, <2>2, <2>4
    <3>1. CASE c # o
      <4>1. \A statuses : Redeem(r, c, statuses) = 0 /\ Redeem(x, c, statuses) = 0
        BY <1>3, <1>6, <3>1 DEF Redeem
      <4>2. \A statuses : RedeemedIn(rt, c, statuses) = RedeemedIn(rs, c, statuses)
        BY <1>13, <4>1
      <4>. QED BY ONLY <1>9, <3>0, <3>1, <4>2
    <3>2. CASE c = o
      <4>1. /\ Redeem(r, c, {"pending"}) = p /\ Redeem(r, c, {"pending", "applied"}) = p
            /\ Redeem(r, c, {"applied"}) = 0 /\ Redeem(x, c, {"pending"}) = 0
            /\ Redeem(x, c, {"pending", "applied"}) = IF status = "applied" THEN p ELSE 0
            /\ Redeem(x, c, {"applied"}) = IF status = "applied" THEN p ELSE 0
        BY <1>3, <1>6, <2>2, <2>4, <3>2 DEF Redeem
      <4>2. /\ RedeemedIn(rt, c, {"pending"}) + p = RedeemedIn(rs, c, {"pending"}) + 0
            /\ RedeemedIn(rs, c, {"pending"}) \in Nat /\ RedeemedIn(rt, c, {"pending"}) \in Nat
            /\ p <= RedeemedIn(rs, c, {"pending"})
        BY <1>13, <4>1
      <4>3. /\ RedeemedIn(rt, c, {"pending", "applied"}) + p
                 = RedeemedIn(rs, c, {"pending", "applied"}) + (IF status = "applied" THEN p ELSE 0)
            /\ RedeemedIn(rs, c, {"pending", "applied"}) \in Nat
            /\ RedeemedIn(rt, c, {"pending", "applied"}) \in Nat
        BY <1>13, <4>1
      <4>4. /\ RedeemedIn(rt, c, {"applied"}) + 0
                 = RedeemedIn(rs, c, {"applied"}) + (IF status = "applied" THEN p ELSE 0)
            /\ RedeemedIn(rs, c, {"applied"}) \in Nat /\ RedeemedIn(rt, c, {"applied"}) \in Nat
        BY <1>13, <4>1
      <4>5. /\ CreditsIn(s, c, {"pending"}) \in Nat /\ CreditsIn(s, c, {"available"}) \in Nat
            /\ HandIn(s, c) \in Nat
        BY <1>13
      <4>6. account'[c] = y /\ y.pending = account[c].pending - p
        BY ONLY <1>7, <1>9, <1>10, <3>0, <3>2, <4>2, <4>5, p \in Nat
      <4>7. y.pending = CreditsIn(s, c, {"pending"}) + HandIn(s, c) + RedeemedIn(rt, c, {"pending"})
        BY ONLY <3>0, <4>2, <4>5, <4>6, p \in Nat
      <4>8. y.available + HandIn(s, c) + RedeemedIn(rt, c, {"pending", "applied"})
               = CreditsIn(s, c, {"available"})
        <5>1. CASE status = "applied"
          <6>1. /\ y.available = account[c].available
                /\ RedeemedIn(rt, c, {"pending", "applied"}) = RedeemedIn(rs, c, {"pending", "applied"})
            BY ONLY <1>7, <1>10, <3>2, <4>3, <5>1, p \in Nat
          <6>. QED BY ONLY <3>0, <6>1
        <5>2. CASE status = "cancelled"
          <6>1. /\ y.available = account[c].available + p
                /\ RedeemedIn(rt, c, {"pending", "applied"}) + p
                      = RedeemedIn(rs, c, {"pending", "applied"})
            BY ONLY <1>7, <1>10, <3>2, <4>3, <5>2, p \in Nat
          <6>. QED BY ONLY <1>7, <3>0, <3>2, <4>3, <4>5, <6>1, p \in Nat
        <5>. QED BY <5>1, <5>2
      <4>9. y.redeemed = RedeemedIn(rt, c, {"applied"})
        BY ONLY <1>7, <1>10, <3>0, <3>2, <4>4, p \in Nat
      <4>. QED BY ONLY <4>6, <4>7, <4>8, <4>9
    <3>. QED BY <3>1, <3>2
  <2>. QED BY <1>5, <1>12, <2>3, <2>4 DEF Covered, Balanced
<1>. QED BY <1>11, <1>14 DEF Loyal

\* What operators do in the loyalty panel.
LEMMA PanelLoyal ==
    ASSUME Loyal, OperateLoyalty
    PROVE  Loyal'
<1>1. \A p \in RedemptionPoints : p \in Nat
  BY RedemptionsAssumption
<1>2. ASSUME NEW c \in Customers, NEW p \in RedemptionPoints, createRedemption(c, p) PROVE Loyal'
  BY <1>1, <1>2, CreatedLoyal
<1>3. ASSUME NEW c \in Customers, NEW p \in RedemptionPoints,
             NEW kind \in Kinds, NEW status \in {"pending", "available"},
             assignPoints(c, kind, p, status)
      PROVE  Loyal'
  <2>1. PICK m : m = [of |-> c, order |-> NoNumber, kind |-> kind, source |-> "manual",
                      points |-> p, status |-> status]
    OBVIOUS
  <2>2. m \in Movement /\ m.status # "reversed" /\ m.source = "manual" /\ m.order = NoNumber
    BY <1>1, <2>1 DEF Movement
  <2>3. Assigned(m)
    BY <1>3, <2>1 DEF assignPoints
  <2>. QED BY <2>2, <2>3, AssignedLoyal
<1>4. ASSUME NEW i \in DOMAIN redemptions, NEW status \in {"applied", "cancelled"},
             updateRedemptionStatus(i, status)
      PROVE  Loyal'
  BY <1>4, UpdatedLoyal
<1>. QED BY <1>2, <1>3, <1>4 DEF OperateLoyalty, Kinds


LEMMA NoneLoyal == LoyaltyInit => Loyal
<1> SUFFICES ASSUME LoyaltyInit PROVE Loyal
  OBVIOUS
<1>1. LoyaltyTyped
  <2>1. movements = <<>> /\ redemptions = <<>> /\ uneven = {}
        /\ account = [c \in Customers |-> EmptyAccount]
    BY DEF LoyaltyInit
  <2>2. movements \in Seq(Movement) /\ redemptions \in Seq(Redemption) /\ DOMAIN movements = {}
    BY <2>1
  <2>3. EmptyAccount \in Account
    BY DEF EmptyAccount, Account
  <2>. QED BY <2>1, <2>2, <2>3 DEF LoyaltyTyped
<1>2. ASSUME NEW c \in Customers PROVE Covered(c) /\ Balanced(c)
  <2>1. account[c] = EmptyAccount /\ DOMAIN movements = {} /\ DOMAIN redemptions = {}
    BY DEF LoyaltyInit
  <2>2. \A statuses : /\ CreditIds(movements, c, statuses) = {}
                      /\ RedeemedIds(redemptions, c, statuses) = {}
    BY <2>1 DEF CreditIds, RedeemedIds
  <2>3. HandIds(movements, c) = {}
    BY <2>1 DEF HandIds
  <2>4. \A statuses : CreditsIn(movements, c, statuses) = 0 /\ RedeemedIn(redemptions, c, statuses) = 0
    BY <2>2, SumNone DEF CreditsIn, RedeemedIn
  <2>5. HandIn(movements, c) = 0
    BY <2>3, SumNone DEF HandIn
  <2>6. /\ account[c].available = 0 /\ account[c].pending = 0 /\ account[c].redeemed = 0
    BY <2>1 DEF EmptyAccount
  <2>. QED BY <2>4, <2>5, <2>6 DEF Covered, Balanced
<1>. QED BY <1>1, <1>2 DEF Loyal

----------------------------------------------------------------------------
\* The requests.  Types that tell also what an idle call is.
Typed ==
    /\ shopper \in [Shoppers -> Page]
    /\ call \in [Calls -> Serving \cup {Idle}]
    /\ sequence \in 0 .. MaxNumber
    /\ orders \in OrdersMap
    /\ index \in IndexMap
    /\ held \in [Numbers -> Places]
    /\ saved \in Snapshot
    /\ crossed \subseteq Requests /\ deleted \subseteq Numbers /\ faults \in 0 .. MaxFaults

Numbered(x) == x.step \in {"plan", "reserve", "enter", "save"}
Taking(x) == x.step \in {"plan", "reserve", "enter"}
Quoting == {c \in Calls : At(c, "quote")}

\* A number is given once: it is above every order that stands and every unit held,
\* no two calls have the same, and the calls that may still take one will find one.
Numbering ==
    /\ IsFiniteSet(Quoting) /\ sequence + Cardinality(Quoting) <= MaxNumber
    /\ \A n \in Numbers : orders[n] # NoOrder \/ held[n] # NoWarehouse => n <= sequence
    /\ \A c \in Calls : Numbered(call[c]) => call[c].number \in 1 .. sequence
    /\ \A c, d \in Calls :
          c # d /\ Numbered(call[c]) /\ Numbered(call[d]) => call[c].number # call[d].number

\* What a call has when it enters its order, and not before.
Unentered ==
    \A c \in Calls :
       /\ Taking(call[c]) => /\ orders[call[c].number] = NoOrder
                             /\ call[c].at \in Warehouses /\ call[c].hash \in Warehouses
       /\ call[c].step \in {"plan", "reserve"} => held[call[c].number] = NoWarehouse
       /\ call[c].step = "enter" => held[call[c].number] = call[c].at

\* A snapshot, or the memory itself: unless its calls crossed, the index leads from a
\* request to its order; an entry leads to no other's order; the orders that stand
\* were promised units that exist.
Indexed(s, apart) ==
    \A n \in Numbers :
       s.orders[n] # NoOrder /\ s.orders[n].request \notin apart
          => s.index[s.orders[n].request].number = n
EntriesName(s, gone) ==
    \A r \in Requests :
       s.index[r] # NoEntry =>
          \/ s.index[r].number \in gone
          \/ s.orders[s.index[r].number] # NoOrder /\ s.orders[s.index[r].number].request = r
Promised(os, w) == {n \in Numbers : Live(os[n]) /\ os[n].at = w}
Sound(s, apart, gone) ==
    /\ Indexed(s, apart) /\ EntriesName(s, gone)
    /\ \A w \in Warehouses : Cardinality(Promised(s.orders, w)) <= Stock[w]
Memory == [orders |-> orders, index |-> index]

Snapshots ==
    /\ Sound(Memory, crossed, deleted) /\ Sound(saved, crossed, deleted)
    /\ \A c \in Calls : At(c, "save") => Sound(call[c].copy, crossed, deleted)

\* A request that did not cross has one call on its way to an order, and no order yet.
Single ==
    \A c \in Calls :
       Taking(call[c]) /\ call[c].request \notin crossed =>
          /\ \A n \in Numbers : orders[n] # NoOrder => orders[n].request # call[c].request
          /\ \A d \in Calls : Taking(call[d]) /\ d # c => call[d].request # call[c].request

\* A page waits for a call of its own, and a call that saves answers with its order.
Answers ==
    /\ \A b \in Shoppers, c \in Calls :
          shopper[b].waiting = c => Serves(c) /\ call[c].request[1] = b
    /\ \A c \in Calls : At(c, "save") =>
          \/ call[c].number \in deleted
          \/ orders[call[c].number] # NoOrder /\ orders[call[c].number].request = call[c].request

\* The units.
HeldFor(n) ==
    /\ Live(orders[n]) => held[n] = orders[n].at
    /\ held[n] # NoWarehouse =>
          \/ Live(orders[n]) \/ n \in deleted
          \/ \E c \in Calls : At(c, "enter") /\ call[c].number = n
HeldAt(h, w) == {n \in Numbers : h[n] = w}
Units ==
    /\ \A n \in Numbers : HeldFor(n)
    /\ \A w \in Warehouses : Cardinality(HeldAt(held, w)) <= Stock[w]

Checkout == Typed /\ Numbering /\ Unentered /\ Snapshots /\ Single /\ Answers /\ Units

----------------------------------------------------------------------------
LEMMA NumbersFinite ==
    ASSUME NEW S \in SUBSET Numbers
    PROVE  IsFiniteSet(S) /\ Cardinality(S) \in Nat
<1>1. IsFiniteSet(Numbers)
  BY NumbersAssumption, FS_Interval DEF Numbers
<1>. QED BY <1>1, FS_Subset, FS_CardinalityType

LEMMA Fewer ==
    ASSUME NEW S \in SUBSET Numbers, NEW T \in SUBSET S
    PROVE  Cardinality(T) <= Cardinality(S) /\ Cardinality(T) \in Nat /\ Cardinality(S) \in Nat
<1>1. IsFiniteSet(S) /\ T \in SUBSET Numbers
  BY NumbersFinite
<1>. QED BY <1>1, NumbersFinite, FS_Subset

LEMMA SoundLater ==
    ASSUME NEW s, NEW apart, NEW gone, NEW apart2, NEW gone2,
           Sound(s, apart, gone), apart \subseteq apart2, gone \subseteq gone2
    PROVE  Sound(s, apart2, gone2)
<1>1. Indexed(s, apart2)
  BY DEF Sound, Indexed
<1>2. EntriesName(s, gone2)
  BY DEF Sound, EntriesName
<1>. QED BY <1>1, <1>2 DEF Sound

LEMMA ServingCalls ==
    ASSUME Typed, NEW c \in Calls, Serves(c)
    PROVE  /\ call[c] \in Serving /\ call[c].request \in Requests
           /\ call[c].request[1] \in Shoppers /\ call[c].number \in 0 .. MaxNumber
           /\ call[c].hash \in Places /\ call[c].at \in Places /\ call[c].copy \in Snapshot
<1>1. call[c] \in Serving
  BY DEF Typed, Serves, Idle
<1>. QED BY <1>1 DEF Serving, Requests

\* What answering does to the pages.
LEMMA ToldPages ==
    ASSUME Typed, NEW c \in Calls, NEW n \in 0 .. MaxNumber
    PROVE  /\ Told(c, n) \in [Shoppers -> Page]
           /\ \A b \in Shoppers :
                 /\ Told(c, n)[b].waiting \in Calls =>
                       Told(c, n)[b].waiting = shopper[b].waiting /\ Told(c, n)[b].waiting # c
                 /\ Told(c, n)[b].result # shopper[b].result =>
                       shopper[b].waiting = c /\ Told(c, n)[b].result = n
<1>1. ASSUME NEW b \in Shoppers
      PROVE  /\ Told(c, n)[b] \in Page
             /\ Told(c, n)[b].waiting \in Calls =>
                       Told(c, n)[b].waiting = shopper[b].waiting /\ Told(c, n)[b].waiting # c
             /\ Told(c, n)[b].result # shopper[b].result =>
                       shopper[b].waiting = c /\ Told(c, n)[b].result = n
  <2>1. shopper[b] \in Page
    BY DEF Typed
  <2>2. PICK x : x = shopper[b]
    OBVIOUS
  <2>3. PICK y : y = Told(c, n)[b]
    OBVIOUS
  <2>4. y = IF x.waiting # c THEN x
            ELSE IF n = 0 THEN [x EXCEPT !.waiting = NoCall]
            ELSE [x EXCEPT !.waiting = NoCall, !.id = 0, !.result = n]
    BY <2>2, <2>3 DEF Told
  <2>5. NoCall \notin Calls /\ 0 \in 0 .. MaxIds
    BY WarehousesAssumption, BoundsAssumption
  <2>6. /\ y \in Page
        /\ y.waiting \in Calls => y.waiting = x.waiting /\ y.waiting # c
        /\ y.result # x.result => x.waiting = c /\ y.result = n
    BY ONLY <2>1, <2>2, <2>4, <2>5, n \in 0 .. MaxNumber, c \in Calls DEF Page
  <2>. QED BY <2>2, <2>3, <2>6
<1>2. DOMAIN Told(c, n) = Shoppers /\ Told(c, n) = [b \in Shoppers |-> Told(c, n)[b]]
  BY DEF Told
<1>. QED BY <1>1, <1>2


\* A call that answers, or is refused, before or after it enters its order.
LEMMA EndsSafe ==
    ASSUME Checkout, NEW c \in Calls, Serves(c), ~At(c, "enter"),
           NEW n \in 0 .. MaxNumber, Ends(c, n),
           UNCHANGED <<orders, index, held, crossed, deleted, faults>>,
           \/ sequence' = sequence
           \/ At(c, "quote") /\ sequence' = sequence + 1,
           \/ saved' = saved
           \/ At(c, "save") /\ saved' = call[c].copy
    PROVE  Checkout'
<1>1. /\ Typed /\ Numbering /\ Unentered /\ Snapshots /\ Single /\ Answers /\ Units
  BY DEF Checkout
<1>2. /\ call'[c] = Idle /\ \A d \in Calls \ {c} : call'[d] = call[d]
      /\ call' \in [Calls -> Serving \cup {Idle}]
      /\ \A d \in Calls : call'[d] = Idle \/ (d # c /\ call'[d] = call[d])
  BY <1>1 DEF Ends, Typed
<1>3. /\ shopper' \in [Shoppers -> Page]
      /\ \A b \in Shoppers : shopper'[b].waiting \in Calls =>
            shopper'[b].waiting = shopper[b].waiting /\ shopper'[b].waiting # c
  BY <1>1, ToldPages DEF Ends
<1>4. Idle.step = "idle"
  BY DEF Idle
<1>5. Numbering'
  <2>1. Quoting' = Quoting \ {c}
    BY <1>2, <1>4 DEF Quoting, At
  <2>2. /\ IsFiniteSet(Quoting) /\ Cardinality(Quoting) \in Nat
        /\ sequence + Cardinality(Quoting) <= MaxNumber /\ sequence \in Nat /\ MaxNumber \in Nat
    BY <1>1, FS_CardinalityType, NumbersAssumption DEF Numbering, Typed
  <2>3. /\ IsFiniteSet(Quoting \ {c})
        /\ Cardinality(Quoting \ {c})
             = IF c \in Quoting THEN Cardinality(Quoting) - 1 ELSE Cardinality(Quoting)
    BY <2>2, FS_RemoveElement, Zenon
  <2>4. At(c, "quote") => c \in Quoting
    BY DEF Quoting
  <2>5. sequence' \in Nat /\ sequence <= sequence' /\ sequence' + Cardinality(Quoting \ {c}) <= MaxNumber
    BY <2>2, <2>3, <2>4
  <2>6. IsFiniteSet(Quoting)' /\ sequence' + Cardinality(Quoting)' <= MaxNumber
    BY <2>1, <2>3, <2>5
  <2>7. \A m \in Numbers : orders'[m] # NoOrder \/ held'[m] # NoWarehouse => m <= sequence'
    BY <1>1, <2>2, <2>5, NumbersAssumption DEF Numbering, Numbers
  <2>8. ASSUME NEW d \in Calls, Numbered(call'[d])
        PROVE  d # c /\ call'[d] = call[d] /\ Numbered(call[d])
    BY <1>2, <1>4, <2>8 DEF Numbered
  <2>9. \A d \in Calls : Numbered(call'[d]) => call'[d].number \in 1 .. sequence'
    <3>1. ASSUME NEW d \in Calls, Numbered(call'[d]) PROVE call'[d].number \in 1 .. sequence'
      <4>1. call[d].number \in 1 .. sequence
        BY <1>1, <2>8, <3>1 DEF Numbering
      <4>. QED BY <2>2, <2>5, <2>8, <3>1, <4>1
    <3>. QED BY <3>1
  <2>10. \A d, e \in Calls :
            d # e /\ Numbered(call'[d]) /\ Numbered(call'[e]) => call'[d].number # call'[e].number
    BY <1>1, <2>8 DEF Numbering
  <2>. QED BY <2>6, <2>7, <2>9, <2>10 DEF Numbering
<1>6. Unentered'
  <2>1. ASSUME NEW d \in Calls, call'[d] # Idle PROVE call'[d] = call[d]
    BY <1>2, <2>1
  <2>. QED BY <1>1, <1>4, <2>1 DEF Unentered, Taking
<1>7. Snapshots'
  <2>1. Sound(Memory, crossed, deleted)' /\ Sound(saved', crossed', deleted')
    BY <1>1 DEF Snapshots, Memory, Sound
  <2>2. \A d \in Calls : At(d, "save")' => Sound(call'[d].copy, crossed', deleted')
    BY <1>1, <1>2, <1>4 DEF Snapshots, At
  <2>. QED BY <2>1, <2>2 DEF Snapshots
<1>8. Single'
  BY <1>1, <1>2, <1>4 DEF Single, Taking
<1>9. Answers'
  <2>1. ASSUME NEW b \in Shoppers, NEW d \in Calls, shopper'[b].waiting = d
        PROVE  Serves(d)' /\ call'[d].request[1] = b
    <3>1. d # c /\ d = shopper[b].waiting
      BY <1>3, <2>1
    <3>2. call[d].step # "idle" /\ call[d].request[1] = b
      BY <1>1, <3>1 DEF Answers, Serves
    <3>3. call'[d] = call[d]
      BY <1>2, <3>1
    <3>. QED BY <3>2, <3>3 DEF Serves
  <2>2. \A d \in Calls : At(d, "save")' =>
          \/ call'[d].number \in deleted'
          \/ orders'[call'[d].number] # NoOrder /\ orders'[call'[d].number].request = call'[d].request
    BY <1>1, <1>2, <1>4 DEF Answers, At
  <2>. QED BY <2>1, <2>2 DEF Answers
<1>10. Units'
  <2>1. ASSUME NEW m \in Numbers PROVE HeldFor(m)'
    <3>1. (\E d \in Calls : At(d, "enter") /\ call[d].number = m)
             => \E d \in Calls : At(d, "enter")' /\ call'[d].number = m
      BY <1>2 DEF At
    <3>. QED BY <1>1, <3>1 DEF Units, HeldFor
  <2>. QED BY <1>1, <2>1 DEF Units
<1>11. Typed'
  <2>1. sequence' \in 0 .. MaxNumber
    <3>1. sequence + Cardinality(Quoting) <= MaxNumber /\ Cardinality(Quoting) \in Nat
      BY <1>1, FS_CardinalityType DEF Numbering
    <3>2. At(c, "quote") => c \in Quoting
      BY DEF Quoting
    <3>3. c \in Quoting => Cardinality(Quoting) # 0
      BY <1>1, FS_EmptySet DEF Numbering
    <3>. QED BY <1>1, <3>1, <3>2, <3>3, NumbersAssumption DEF Typed
  <2>2. saved' \in Snapshot
    BY <1>1, ServingCalls DEF Typed
  <2>. QED BY <1>1, <1>2, <1>3, <2>1, <2>2 DEF Typed
<1>. QED BY <1>5, <1>6, <1>7, <1>8, <1>9, <1>10, <1>11 DEF Checkout

LEMMA QuoteFailsSafe ==
    ASSUME Checkout, NEW c \in Calls, QuoteFails(c)
    PROVE  Checkout'
<1>1. Serves(c) /\ ~At(c, "enter") /\ 0 \in 0 .. MaxNumber
  BY NumbersAssumption DEF QuoteFails, At, Serves
<1>. QED BY <1>1, EndsSafe DEF QuoteFails

LEMMA SaveSafe ==
    ASSUME Checkout, NEW c \in Calls, Save(c)
    PROVE  Checkout'
<1>1. Serves(c) /\ ~At(c, "enter") /\ At(c, "save")
  BY DEF Save, At, Serves
<1>2. call[c].number \in 0 .. MaxNumber
  BY <1>1, ServingCalls DEF Checkout
<1>. QED BY <1>1, <1>2, EndsSafe DEF Save


\* A page that stops waiting, or forgets its id.
LEMMA PageSafe ==
    ASSUME Checkout, shopper' \in [Shoppers -> Page], faults' \in 0 .. MaxFaults,
           \A b \in Shoppers, c \in Calls : shopper'[b].waiting = c => shopper[b].waiting = c,
           UNCHANGED <<call, sequence, orders, index, held, saved, crossed, deleted>>
    PROVE  Checkout'
<1>1. /\ Typed /\ Numbering /\ Unentered /\ Snapshots /\ Single /\ Answers /\ Units
  BY DEF Checkout
<1>2. Typed'
  BY <1>1 DEF Typed
<1>3. Numbering'
  <2>1. Quoting' = Quoting
    BY DEF Quoting, At
  <2>. QED BY <1>1, <2>1 DEF Numbering
<1>4. Unentered'
  BY <1>1 DEF Unentered
<1>5. Snapshots'
  BY <1>1 DEF Snapshots, Memory, Sound, At
<1>6. Single'
  BY <1>1 DEF Single
<1>7. Answers'
  BY <1>1 DEF Answers, Serves, At
<1>8. Units'
  BY <1>1 DEF Units, HeldFor, At
<1>. QED BY <1>2, <1>3, <1>4, <1>5, <1>6, <1>7, <1>8 DEF Checkout

LEMMA LoseSafe ==
    ASSUME Checkout, NEW b \in Shoppers, Lose(b)
    PROVE  Checkout'
<1>1. faults' \in 0 .. MaxFaults
  BY BoundsAssumption DEF Lose, Fault, Checkout, Typed
<1>2. PICK x : x = [shopper[b] EXCEPT !.waiting = NoCall]
  OBVIOUS
<1>3. x \in Page /\ x.waiting = NoCall /\ shopper \in [Shoppers -> Page]
  BY <1>2 DEF Checkout, Typed, Page
<1>4. shopper' = [shopper EXCEPT ![b] = x]
  BY <1>2 DEF Lose
<1>5. /\ shopper' \in [Shoppers -> Page]
      /\ \A a \in Shoppers, c \in Calls : shopper'[a].waiting = c => shopper[a].waiting = c
  BY <1>3, <1>4, WarehousesAssumption
<1>. QED BY <1>1, <1>5, PageSafe DEF Lose

LEMMA EditSafe ==
    ASSUME Checkout, NEW b \in Shoppers, Edit(b)
    PROVE  Checkout'
<1>1. faults' \in 0 .. MaxFaults
  BY BoundsAssumption DEF Edit, Fault, Checkout, Typed
<1>2. PICK x : /\ x = [shopper[b] EXCEPT !.id = 0] \/ x = [shopper[b] EXCEPT !.id = 0, !.waiting = NoCall]
               /\ shopper' = [shopper EXCEPT ![b] = x]
  <2>1. CASE shopper' = [shopper EXCEPT ![b].id = 0]
    BY <2>1
  <2>2. CASE shopper' = [shopper EXCEPT ![b].id = 0, ![b].waiting = NoCall]
    <3>1. shopper' = [shopper EXCEPT ![b] = [shopper[b] EXCEPT !.id = 0, !.waiting = NoCall]]
      BY <2>2 DEF Checkout, Typed
    <3>. QED BY <3>1
  <2>. QED BY <2>1, <2>2 DEF Edit
<1>3. /\ x \in Page /\ shopper \in [Shoppers -> Page]
      /\ x.waiting = NoCall \/ x.waiting = shopper[b].waiting
  <2>1. shopper[b] \in Page /\ shopper \in [Shoppers -> Page]
    BY DEF Checkout, Typed
  <2>2. 0 \in 0 .. MaxIds
    BY BoundsAssumption
  <2>3. CASE x = [shopper[b] EXCEPT !.id = 0]
    BY <2>1, <2>2, <2>3 DEF Page
  <2>4. CASE x = [shopper[b] EXCEPT !.id = 0, !.waiting = NoCall]
    BY <2>1, <2>2, <2>4 DEF Page
  <2>. QED BY <1>2, <2>1, <2>3, <2>4
<1>5. /\ shopper' \in [Shoppers -> Page]
      /\ \A a \in Shoppers, c \in Calls : shopper'[a].waiting = c => shopper[a].waiting = c
  BY <1>2, <1>3, WarehousesAssumption
<1>. QED BY <1>1, <1>5, PageSafe DEF Edit

LEMMA SubmitSafe ==
    ASSUME Checkout, NEW b \in Shoppers, NEW c \in Calls, handleSubmit(b, c)
    PROVE  Checkout'
<1>1. /\ Typed /\ Numbering /\ Unentered /\ Snapshots /\ Single /\ Answers /\ Units
  BY DEF Checkout
<1>2. shopper[b] \in Page /\ ~Serves(c)
  BY <1>1 DEF Typed, handleSubmit
<1>3. PICK id, x, y :
         /\ id \in Ids
         /\ x = [shopper[b] EXCEPT !.id = id, !.used = IF id > @ THEN id ELSE @, !.waiting = c]
         /\ y = [step |-> "quote", request |-> <<b, id>>, number |-> 0,
                 hash |-> NoWarehouse, at |-> NoWarehouse, copy |-> Nothing]
         /\ shopper' = [shopper EXCEPT ![b] = x]
         /\ call' = [call EXCEPT ![c] = y]
  <2>1. PICK id : id = IF shopper[b].id # 0 THEN shopper[b].id ELSE shopper[b].used + 1
    OBVIOUS
  <2>2. id \in Ids
    BY <1>2, <2>1, BoundsAssumption DEF handleSubmit, Page, Ids
  <2>3. shopper' = [shopper EXCEPT ![b].id = id, ![b].used = IF id > @ THEN id ELSE @,
                                   ![b].waiting = c]
    BY <2>1 DEF handleSubmit
  <2>4. shopper' = [shopper EXCEPT ![b] =
                       [shopper[b] EXCEPT !.id = id, !.used = IF id > @ THEN id ELSE @, !.waiting = c]]
    BY <1>1, <2>3 DEF Typed
  <2>5. call' = [call EXCEPT ![c] = [step |-> "quote", request |-> <<b, id>>, number |-> 0,
                          hash |-> NoWarehouse, at |-> NoWarehouse, copy |-> Nothing]]
    BY <2>1 DEF handleSubmit
  <2>. QED BY <2>2, <2>4, <2>5
<1>0. id \in Ids
  BY <1>3
<1>4. x \in Page /\ x.waiting = c
  <2>1. PICK u : u = IF id > shopper[b].used THEN id ELSE shopper[b].used
    OBVIOUS
  <2>2. u \in 0 .. MaxIds /\ id \in 0 .. MaxIds
    BY <1>0, <1>2, <2>1, BoundsAssumption DEF Page, Ids
  <2>3. x = [shopper[b] EXCEPT !.id = id, !.used = u, !.waiting = c]
    BY <1>3, <2>1
  <2>. QED BY <1>2, <2>2, <2>3 DEF Page
<1>5. /\ y \in Serving /\ y.step = "quote" /\ y.request[1] = b
  <2>1. Nothing \in Snapshot
    BY DEF Nothing, Snapshot, OrdersMap, IndexMap
  <2>2. <<b, id>> \in Requests
    BY <1>0 DEF Requests
  <2>. QED BY <1>3, <2>1, <2>2, NumbersAssumption DEF Serving, Places
<1>6. /\ call'[c] = y /\ \A d \in Calls \ {c} : call'[d] = call[d]
      /\ call' \in [Calls -> Serving \cup {Idle}]
      /\ shopper'[b] = x /\ \A a \in Shoppers \ {b} : shopper'[a] = shopper[a]
      /\ shopper' \in [Shoppers -> Page]
  BY <1>1, <1>3, <1>4, <1>5 DEF Typed
<1>7. UNCHANGED <<sequence, orders, index, held, saved, crossed, deleted, faults>>
  BY DEF handleSubmit
<1>8. Typed'
  BY <1>1, <1>6, <1>7 DEF Typed
<1>9. Numbering'
  <2>1. Quoting' = Quoting \cup {c} /\ c \notin Quoting
    BY <1>2, <1>5, <1>6 DEF Quoting, At, Serves
  <2>2. /\ IsFiniteSet(Quoting) /\ Cardinality(Quoting) \in Nat /\ sequence \in Nat
        /\ sequence + Cardinality(Quoting) < MaxNumber /\ MaxNumber \in Nat
    BY <1>1, FS_CardinalityType, NumbersAssumption DEF Numbering, Typed, handleSubmit, Quoting
  <2>3. IsFiniteSet(Quoting)' /\ Cardinality(Quoting)' = Cardinality(Quoting) + 1
    BY <2>1, <2>2, FS_AddElement
  <2>4. sequence' + Cardinality(Quoting)' <= MaxNumber
    BY <1>7, <2>2, <2>3
  <2>5. ASSUME NEW d \in Calls, Numbered(call'[d]) PROVE call'[d] = call[d]
    BY <1>5, <1>6, <2>5 DEF Numbered
  <2>. QED BY <1>1, <1>7, <2>3, <2>4, <2>5 DEF Numbering
<1>10. Unentered'
  BY <1>1, <1>5, <1>6, <1>7 DEF Unentered, Taking
<1>11. Snapshots'
  <2>1. Sound(Memory, crossed, deleted)' /\ Sound(saved', crossed', deleted')
    BY <1>1, <1>7 DEF Snapshots, Memory, Sound
  <2>2. \A d \in Calls : At(d, "save")' => Sound(call'[d].copy, crossed', deleted')
    BY <1>1, <1>5, <1>6, <1>7 DEF Snapshots, At
  <2>. QED BY <2>1, <2>2 DEF Snapshots
<1>12. Single'
  BY <1>1, <1>5, <1>6, <1>7 DEF Single, Taking
<1>13. Answers'
  <2>1. ASSUME NEW a \in Shoppers, NEW d \in Calls, shopper'[a].waiting = d
        PROVE  Serves(d)' /\ call'[d].request[1] = a
    <3>1. CASE a = b
      BY <1>4, <1>5, <1>6, <2>1, <3>1 DEF Serves
    <3>2. CASE a # b
      <4>1. Serves(d) /\ call[d].request[1] = a
        BY <1>1, <1>6, <2>1, <3>2 DEF Answers
      <4>2. d # c
        BY <1>2, <4>1
      <4>. QED BY <1>6, <4>1, <4>2 DEF Serves
    <3>. QED BY <3>1, <3>2
  <2>2. \A d \in Calls : At(d, "save")' =>
          \/ call'[d].number \in deleted'
          \/ orders'[call'[d].number] # NoOrder /\ orders'[call'[d].number].request = call'[d].request
    BY <1>1, <1>5, <1>6, <1>7 DEF Answers, At
  <2>. QED BY <2>1, <2>2 DEF Answers
<1>14. Units'
  <2>1. ASSUME NEW m \in Numbers PROVE HeldFor(m)'
    <3>1. (\E d \in Calls : At(d, "enter") /\ call[d].number = m)
             => \E d \in Calls : At(d, "enter")' /\ call'[d].number = m
      BY <1>2, <1>6 DEF At, Serves
    <3>. QED BY <1>1, <1>7, <3>1 DEF Units, HeldFor
  <2>. QED BY <1>1, <1>7, <2>1 DEF Units
<1>. QED BY <1>8, <1>9, <1>10, <1>11, <1>12, <1>13, <1>14 DEF Checkout


LEMMA NextNumber ==
    ASSUME Checkout, NEW c \in Calls, At(c, "quote")
    PROVE  /\ sequence + 1 \in Numbers /\ sequence \in Nat
           /\ orders[sequence + 1] = NoOrder /\ held[sequence + 1] = NoWarehouse
           /\ IsFiniteSet(Quoting \ {c})
           /\ sequence + 1 + Cardinality(Quoting \ {c}) <= MaxNumber
<1>1. Typed /\ Numbering
  BY DEF Checkout
<1>2. /\ IsFiniteSet(Quoting) /\ Cardinality(Quoting) \in Nat
      /\ sequence + Cardinality(Quoting) <= MaxNumber /\ sequence \in Nat /\ MaxNumber \in Nat
  BY <1>1, FS_CardinalityType, NumbersAssumption DEF Numbering, Typed
<1>3. c \in Quoting
  BY DEF Quoting
<1>4. IsFiniteSet(Quoting \ {c}) /\ Cardinality(Quoting \ {c}) = Cardinality(Quoting) - 1
  BY <1>2, <1>3, FS_RemoveElement, Zenon
<1>5. Cardinality(Quoting \ {c}) \in Nat
  BY <1>4, FS_CardinalityType
<1>6. sequence + 1 \in Numbers /\ sequence + 1 + Cardinality(Quoting \ {c}) <= MaxNumber
  BY <1>2, <1>4, <1>5 DEF Numbers
<1>7. ~ (sequence + 1 <= sequence)
  BY <1>2
<1>. QED BY <1>1, <1>2, <1>4, <1>6, <1>7 DEF Numbering

\* A quote becomes a request on its way to an order.
LEMMA PlannedSafe ==
    ASSUME Checkout, NEW c \in Calls, At(c, "quote"), NEW w \in Warehouses, NEW r, NEW entry,
           r = call[c].request, entry = index[r],
           sequence' = sequence + 1,
           entry # NoEntry => orders[entry.number] = NoOrder,
           index' = [index EXCEPT ![r] = NoEntry],
           call' = [call EXCEPT ![c].step = "plan", ![c].number = sequence + 1,
                                ![c].hash = w, ![c].at = w],
           crossed' = crossed \cup
              (IF {d \in Calls \ {c} : Taking(call[d]) /\ call[d].request = r} = {} THEN {} ELSE {r}),
           UNCHANGED <<shopper, orders, held, saved, deleted, faults>>
    PROVE  Checkout'
<1>1. /\ Typed /\ Numbering /\ Unentered /\ Snapshots /\ Single /\ Answers /\ Units
  BY DEF Checkout
<1>2. /\ call[c] \in Serving /\ r \in Requests /\ call[c].step = "quote" /\ r[1] \in Shoppers
  BY <1>1, ServingCalls DEF At, Serves
<1>3. PICK n \in Numbers : n = sequence + 1
  BY NextNumber
<1>4. /\ sequence \in Nat /\ n > sequence /\ orders[n] = NoOrder /\ held[n] = NoWarehouse
      /\ n + Cardinality(Quoting \ {c}) <= MaxNumber /\ IsFiniteSet(Quoting \ {c})
      /\ n \in 0 .. MaxNumber /\ sequence' = n
  BY <1>3, NextNumber, NumbersAssumption DEF Numbers
<1>5. PICK y : y = [call[c] EXCEPT !.step = "plan", !.number = n, !.hash = w, !.at = w]
  OBVIOUS
<1>6. /\ y \in Serving /\ y.step = "plan" /\ y.number = n /\ y.hash = w /\ y.at = w
      /\ y.request = r /\ y.copy = call[c].copy
  BY <1>2, <1>4, <1>5 DEF Serving, Places
<1>7. /\ call'[c] = y /\ \A d \in Calls \ {c} : call'[d] = call[d]
      /\ call' \in [Calls -> Serving \cup {Idle}]
  <2>1. call' = [call EXCEPT ![c] = y]
    BY <1>1, <1>3, <1>5 DEF Typed
  <2>2. call \in [Calls -> Serving \cup {Idle}]
    BY <1>1 DEF Typed
  <2>. QED BY ONLY <1>6, <2>1, <2>2, c \in Calls
<1>8. crossed \subseteq crossed' /\ crossed' \subseteq Requests
  BY <1>1, <1>2 DEF Typed
<1>9. \A d \in Calls \ {c} : Taking(call[d]) /\ call[d].request = r => r \in crossed'
  OBVIOUS
<1>10. ASSUME NEW m \in Numbers, orders[m] # NoOrder, orders[m].request = r
       PROVE  r \in crossed
  <2>1. r \notin crossed => entry.number = m
    BY <1>1, <1>10 DEF Snapshots, Sound, Indexed, Memory
  <2>2. CASE entry = NoEntry
    <3>1. entry.number = 0 /\ m # 0
      BY <2>2 DEF NoEntry, Numbers
    <3>. QED BY <2>1, <3>1
  <2>3. CASE entry # NoEntry
    BY <1>10, <2>1, <2>3
  <2>. QED BY <2>2, <2>3
<1>11. Typed'
  <2>1. index' \in IndexMap
    BY <1>1 DEF Typed, IndexMap
  <2>. QED BY <1>1, <1>4, <1>7, <1>8, <2>1 DEF Typed
<1>12. Numbering'
  <2>1. Quoting' = Quoting \ {c}
    BY <1>6, <1>7 DEF Quoting, At
  <2>2. IsFiniteSet(Quoting)' /\ sequence' + Cardinality(Quoting)' <= MaxNumber
    BY <1>4, <2>1
  <2>3. \A m \in Numbers : orders'[m] # NoOrder \/ held'[m] # NoWarehouse => m <= sequence'
    BY <1>1, <1>4 DEF Numbering, Numbers
  <2>4. ASSUME NEW d \in Calls \ {c}, Numbered(call'[d])
        PROVE  call'[d].number \in 1 .. sequence /\ call'[d].number # n
    BY <1>1, <1>4, <1>7, <2>4 DEF Numbering
  <2>5. \A d \in Calls : Numbered(call'[d]) => call'[d].number \in 1 .. sequence'
    <3>1. 1 .. sequence \subseteq 1 .. n /\ n \in 1 .. n
      BY <1>4, <1>3 DEF Numbers
    <3>. QED BY <1>4, <1>6, <1>7, <2>4, <3>1
  <2>6. \A d, e \in Calls :
            d # e /\ Numbered(call'[d]) /\ Numbered(call'[e]) => call'[d].number # call'[e].number
    <3>1. ASSUME NEW d \in Calls, NEW e \in Calls, d # e, Numbered(call'[d]), Numbered(call'[e])
          PROVE  call'[d].number # call'[e].number
      <4>1. CASE d = c
        BY <1>6, <1>7, <2>4, <3>1, <4>1
      <4>2. CASE e = c
        BY <1>6, <1>7, <2>4, <3>1, <4>2
      <4>3. CASE d # c /\ e # c
        BY <1>1, <1>7, <3>1, <4>3 DEF Numbering
      <4>. QED BY <4>1, <4>2, <4>3
    <3>. QED BY <3>1
  <2>. QED BY <2>2, <2>3, <2>5, <2>6 DEF Numbering
<1>13. Unentered'
  BY <1>1, <1>4, <1>6, <1>7 DEF Unentered, Taking
<1>14. Snapshots'
  <2>1. Indexed(Memory', crossed')
    <3>1. ASSUME NEW m \in Numbers, orders[m] # NoOrder, orders[m].request \notin crossed'
          PROVE  index'[orders[m].request].number = m
      <4>1. orders[m].request # r /\ orders[m].request \notin crossed
        BY <1>8, <1>10, <3>1
      <4>2. orders[m].request \in Requests
        BY <1>1, <3>1 DEF Typed, OrdersMap, Order, NoOrder
      <4>3. index[orders[m].request].number = m
        BY <1>1, <3>1, <4>1 DEF Snapshots, Sound, Indexed, Memory
      <4>. QED BY <1>1, <4>1, <4>2, <4>3 DEF Typed, IndexMap
    <3>. QED BY <3>1 DEF Indexed, Memory
  <2>2. EntriesName(Memory', deleted')
    <3>1. ASSUME NEW q \in Requests, index'[q] # NoEntry
          PROVE  index'[q] = index[q]
      BY <1>1, <1>2, <3>1 DEF Typed, IndexMap
    <3>2. EntriesName(Memory, deleted)
      BY <1>1 DEF Snapshots, Sound
    <3>3. orders' = orders /\ deleted' = deleted
      OBVIOUS
    <3>. QED BY ONLY <3>1, <3>2, <3>3 DEF EntriesName, Memory
  <2>3. Sound(Memory', crossed', deleted')
    BY <1>1, <2>1, <2>2 DEF Snapshots, Sound, Memory
  <2>4. Sound(saved', crossed', deleted')
    BY <1>1, <1>8, SoundLater DEF Snapshots
  <2>5. ASSUME NEW d \in Calls, At(d, "save")' PROVE Sound(call'[d].copy, crossed', deleted')
    <3>1. call'[d] = call[d] /\ At(d, "save")
      BY <1>6, <1>7, <2>5 DEF At
    <3>2. Sound(call[d].copy, crossed, deleted)
      BY <1>1, <3>1 DEF Snapshots
    <3>3. Sound(call[d].copy, crossed', deleted')
      BY <1>8, <3>2, SoundLater
    <3>. QED BY <3>1, <3>3
  <2>. QED BY <2>3, <2>4, <2>5 DEF Snapshots
<1>15. Single'
  <2>1. ASSUME NEW d \in Calls, Taking(call'[d]), call'[d].request \notin crossed'
        PROVE  /\ \A m \in Numbers : orders'[m] # NoOrder => orders'[m].request # call'[d].request
               /\ \A e \in Calls : Taking(call'[e]) /\ e # d => call'[e].request # call'[d].request
    <3>1. CASE d = c
      BY <1>6, <1>7, <1>8, <1>9, <1>10, <2>1, <3>1
    <3>2. CASE d # c
      <4>1. /\ \A m \in Numbers : orders[m] # NoOrder => orders[m].request # call[d].request
            /\ \A e \in Calls : Taking(call[e]) /\ e # d => call[e].request # call[d].request
        BY <1>1, <1>7, <1>8, <2>1, <3>2 DEF Single
      <4>2. call[d].request # r
        BY <1>7, <1>9, <2>1, <3>2
      <4>. QED BY <1>6, <1>7, <3>2, <4>1, <4>2
    <3>. QED BY <3>1, <3>2
  <2>. QED BY <2>1 DEF Single
<1>16. Answers'
  <2>1. ASSUME NEW a \in Shoppers, NEW d \in Calls, shopper'[a].waiting = d
        PROVE  Serves(d)' /\ call'[d].request[1] = a
    BY <1>1, <1>6, <1>7, <2>1 DEF Answers, Serves
  <2>2. \A d \in Calls : At(d, "save")' =>
          \/ call'[d].number \in deleted'
          \/ orders'[call'[d].number] # NoOrder /\ orders'[call'[d].number].request = call'[d].request
    BY <1>1, <1>6, <1>7 DEF Answers, At
  <2>. QED BY <2>1, <2>2 DEF Answers
<1>17. Units'
  <2>1. ASSUME NEW m \in Numbers PROVE HeldFor(m)'
    <3>1. (\E d \in Calls : At(d, "enter") /\ call[d].number = m)
             => \E d \in Calls : At(d, "enter")' /\ call'[d].number = m
      BY <1>2, <1>7 DEF At
    <3>. QED BY <1>1, <3>1 DEF Units, HeldFor
  <2>. QED BY <1>1, <2>1 DEF Units
<1>. QED BY <1>11, <1>12, <1>13, <1>14, <1>15, <1>16, <1>17 DEF Checkout

LEMMA QuotedSafe ==
    ASSUME Checkout, NEW c \in Calls, NEW w \in Quotable, Quoted(c, w)
    PROVE  Checkout'
<1>1. w \in Warehouses
  BY WarehousesAssumption DEF Quotable
<1>2. PICK r, entry : r = call[c].request /\ entry = index[r]
  OBVIOUS
<1>3. At(c, "quote") /\ Serves(c) /\ ~At(c, "enter") /\ Typed
  BY DEF Quoted, At, Serves, Checkout
<1>4. r \in Requests /\ entry \in Entry \cup {NoEntry}
  BY <1>2, <1>3, ServingCalls DEF Typed, IndexMap
<1>5. /\ sequence' = sequence + 1
      /\ UNCHANGED <<orders, held, saved, deleted, faults>>
  BY DEF Quoted
<1>6. \/ Ends(c, 0) /\ UNCHANGED <<index, crossed>>
      \/ entry # NoEntry /\ Ends(c, entry.number) /\ UNCHANGED <<index, crossed>>
      \/ /\ entry # NoEntry => orders[entry.number] = NoOrder
         /\ index' = [index EXCEPT ![r] = NoEntry]
         /\ call' = [call EXCEPT ![c].step = "plan", ![c].number = sequence + 1,
                                 ![c].hash = w, ![c].at = w]
         /\ crossed' = crossed \cup
              (IF {d \in Calls \ {c} : Taking(call[d]) /\ call[d].request = r} = {} THEN {} ELSE {r})
         /\ UNCHANGED shopper
  BY <1>2, <1>5 DEF Quoted, Taking
<1>7. CASE Ends(c, 0) /\ UNCHANGED <<index, crossed>>
  <2>1. 0 \in 0 .. MaxNumber
    BY NumbersAssumption
  <2>. QED BY <1>3, <1>5, <1>7, <2>1, EndsSafe
<1>8. CASE entry # NoEntry /\ Ends(c, entry.number) /\ UNCHANGED <<index, crossed>>
  <2>1. entry.number \in 0 .. MaxNumber
    BY <1>4, <1>8, NumbersAssumption DEF Entry, Numbers
  <2>. QED BY <1>3, <1>5, <1>8, <2>1, EndsSafe
<1>9. CASE /\ entry # NoEntry => orders[entry.number] = NoOrder
           /\ index' = [index EXCEPT ![r] = NoEntry]
           /\ call' = [call EXCEPT ![c].step = "plan", ![c].number = sequence + 1,
                                   ![c].hash = w, ![c].at = w]
           /\ crossed' = crossed \cup
                (IF {d \in Calls \ {c} : Taking(call[d]) /\ call[d].request = r} = {} THEN {} ELSE {r})
           /\ UNCHANGED shopper
  <2>1. UNCHANGED <<shopper, orders, held, saved, deleted, faults>>
    BY <1>5, <1>9
  <2>. QED BY <1>1, <1>2, <1>3, <1>5, <1>9, <2>1, PlannedSafe, Zenon
<1>. QED BY <1>6, <1>7, <1>8, <1>9


\* A call that goes on towards its order: it plans, or it reserves a unit there is.
LEMMA GoesOn ==
    ASSUME Checkout, NEW c \in Calls, call[c].step \in {"plan", "reserve"},
           NEW y \in Serving, NEW n \in Numbers, n = call[c].number,
           y.request = call[c].request, y.number = n, y.hash = call[c].hash,
           y.at \in Warehouses, y.copy = call[c].copy,
           call' = [call EXCEPT ![c] = y],
           \/ y.step = "reserve" /\ held' = held
           \/ /\ y.step = "enter"
              /\ held' = [held EXCEPT ![n] = y.at]
              /\ Cardinality(HeldAt(held, y.at)) + 1 <= Stock[y.at],
           UNCHANGED <<shopper, sequence, orders, index, saved, crossed, deleted, faults>>
    PROVE  Checkout'
<1>1. /\ Typed /\ Numbering /\ Unentered /\ Snapshots /\ Single /\ Answers /\ Units
  BY DEF Checkout
<1>2. /\ call'[c] = y /\ \A d \in Calls \ {c} : call'[d] = call[d]
      /\ call' \in [Calls -> Serving \cup {Idle}]
  BY <1>1 DEF Typed
<1>3. /\ Taking(call[c]) /\ Numbered(call[c]) /\ Taking(y) /\ Numbered(y) /\ Serves(c)
      /\ y.step # "save" /\ y.step # "quote" /\ y.step # "idle"
  BY DEF Taking, Numbered, Serves
<1>4. orders[n] = NoOrder /\ held[n] = NoWarehouse /\ call[c].hash \in Warehouses
  BY <1>1, <1>3 DEF Unentered
<1>5. /\ held' \in [Numbers -> Places]
      /\ \A m \in Numbers \ {n} : held'[m] = held[m]
      /\ held'[n] = IF y.step = "enter" THEN y.at ELSE NoWarehouse
  <2>1. held \in [Numbers -> Places] /\ y.at \in Places
    BY <1>1 DEF Typed, Places
  <2>. QED BY <1>4, <2>1
<1>6. n \in 1 .. sequence /\ sequence \in Nat
  BY <1>1, <1>3 DEF Numbering, Typed
<1>7. ASSUME NEW d \in Calls \ {c}, Numbered(call[d]) PROVE call[d].number # n
  BY <1>1, <1>3, <1>7 DEF Numbering
<1>8. Typed'
  BY <1>1, <1>2, <1>5 DEF Typed
<1>9. Numbering'
  <2>1. Quoting' = Quoting
    BY <1>2, <1>3 DEF Quoting, At
  <2>2. \A m \in Numbers : orders'[m] # NoOrder \/ held'[m] # NoWarehouse => m <= sequence'
    BY <1>1, <1>5, <1>6 DEF Numbering
  <2>3. \A d \in Calls : Numbered(call'[d]) => call'[d].number \in 1 .. sequence'
    BY <1>1, <1>2, <1>6 DEF Numbering
  <2>4. \A d, e \in Calls :
            d # e /\ Numbered(call'[d]) /\ Numbered(call'[e]) => call'[d].number # call'[e].number
    BY <1>1, <1>2, <1>3 DEF Numbering
  <2>. QED BY <1>1, <2>1, <2>2, <2>3, <2>4 DEF Numbering
<1>10. Unentered'
  <2>1. ASSUME NEW d \in Calls
        PROVE  /\ Taking(call'[d]) => /\ orders'[call'[d].number] = NoOrder
                                      /\ call'[d].at \in Warehouses /\ call'[d].hash \in Warehouses
               /\ call'[d].step \in {"plan", "reserve"} => held'[call'[d].number] = NoWarehouse
               /\ call'[d].step = "enter" => held'[call'[d].number] = call'[d].at
    <3>1. CASE d = c
      BY <1>2, <1>4, <1>5, <3>1
    <3>2. CASE d # c /\ Taking(call[d])
      <4>1. Numbered(call[d]) /\ call'[d] = call[d]
        BY <1>2, <3>2 DEF Taking, Numbered
      <4>2. call[d].number \in Numbers /\ call[d].number # n
        <5>1. call[d].number \in 1 .. sequence
          BY <1>1, <4>1 DEF Numbering
        <5>. QED BY <1>1, <1>7, <3>2, <4>1, <5>1, NumbersAssumption DEF Typed, Numbers
      <4>3. held'[call[d].number] = held[call[d].number]
        BY <1>5, <4>2
      <4>. QED BY <1>1, <3>2, <4>1, <4>3 DEF Unentered
    <3>3. CASE d # c /\ ~Taking(call[d])
      BY <1>2, <3>3 DEF Taking
    <3>. QED BY <3>1, <3>2, <3>3
  <2>. QED BY <2>1 DEF Unentered
<1>11. Snapshots'
  <2>1. Sound(Memory, crossed, deleted)' /\ Sound(saved', crossed', deleted')
    BY <1>1 DEF Snapshots, Memory, Sound
  <2>2. \A d \in Calls : At(d, "save")' => Sound(call'[d].copy, crossed', deleted')
    BY <1>1, <1>2, <1>3 DEF Snapshots, At
  <2>. QED BY <2>1, <2>2 DEF Snapshots
<1>12. Single'
  <2>1. \A d \in Calls : /\ Taking(call'[d]) <=> Taking(call[d])
                         /\ Taking(call[d]) => call'[d].request = call[d].request
    BY <1>2, <1>3
  <2>. QED BY <1>1, <2>1 DEF Single
<1>13. Answers'
  <2>1. ASSUME NEW a \in Shoppers, NEW d \in Calls, shopper'[a].waiting = d
        PROVE  Serves(d)' /\ call'[d].request[1] = a
    BY <1>1, <1>2, <1>3, <2>1 DEF Answers, Serves
  <2>2. \A d \in Calls : At(d, "save")' =>
          \/ call'[d].number \in deleted'
          \/ orders'[call'[d].number] # NoOrder /\ orders'[call'[d].number].request = call'[d].request
    BY <1>1, <1>2, <1>3 DEF Answers, At
  <2>. QED BY <2>1, <2>2 DEF Answers
<1>14. Units'
  <2>1. ASSUME NEW m \in Numbers PROVE HeldFor(m)'
    <3>1. CASE m # n
      <4>1. (\E d \in Calls : At(d, "enter") /\ call[d].number = m)
               => \E d \in Calls : At(d, "enter")' /\ call'[d].number = m
        BY <1>2, <3>1 DEF At
      <4>. QED BY <1>1, <1>5, <3>1, <4>1 DEF Units, HeldFor
    <3>2. CASE m = n
      <4>1. ~Live(orders'[n])
        BY <1>4 DEF Live, NoOrder
      <4>2. held'[n] # NoWarehouse => At(c, "enter")' /\ call'[c].number = n
        BY <1>2, <1>5 DEF At
      <4>. QED BY <3>2, <4>1, <4>2 DEF HeldFor
    <3>. QED BY <3>1, <3>2
  <2>2. ASSUME NEW w \in Warehouses PROVE Cardinality(HeldAt(held', w)) <= Stock[w]
    <3>1. Cardinality(HeldAt(held, w)) <= Stock[w] /\ w # NoWarehouse
      BY <1>1, WarehousesAssumption DEF Units
    <3>2. CASE held'[n] # w
      <4>1. HeldAt(held', w) = HeldAt(held, w)
        BY <1>4, <1>5, <3>1, <3>2 DEF HeldAt
      <4>. QED BY <3>1, <4>1
    <3>3. CASE held'[n] = w
      <4>1. y.step = "enter" /\ y.at = w
        BY <1>5, <3>1, <3>3
      <4>2. HeldAt(held', w) = HeldAt(held, w) \cup {n} /\ n \notin HeldAt(held, w)
        BY <1>4, <1>5, <3>1, <3>3 DEF HeldAt
      <4>3. HeldAt(held, w) \in SUBSET Numbers
        BY DEF HeldAt
      <4>4. Cardinality(HeldAt(held', w)) = Cardinality(HeldAt(held, w)) + 1
        BY <4>2, <4>3, NumbersFinite, FS_AddElement
      <4>. QED BY <4>1, <4>4
    <3>. QED BY <3>2, <3>3
  <2>. QED BY <2>1, <2>2 DEF Units
<1>. QED BY <1>8, <1>9, <1>10, <1>11, <1>12, <1>13, <1>14 DEF Checkout

\* What a call that plans or reserves has.
LEMMA OnItsWay ==
    ASSUME Checkout, NEW c \in Calls, call[c].step \in {"plan", "reserve", "enter"}
    PROVE  /\ call[c] \in Serving /\ call[c].number \in Numbers /\ call[c].number \in 1 .. sequence
           /\ call[c].at \in Warehouses /\ call[c].hash \in Warehouses
           /\ call[c].request \in Requests /\ Serves(c)
<1>1. Taking(call[c]) /\ Numbered(call[c]) /\ Serves(c)
  BY DEF Taking, Numbered, Serves
<1>2. call[c].at \in Warehouses /\ call[c].hash \in Warehouses
  BY <1>1 DEF Checkout, Unentered
<1>3. call[c].number \in 1 .. sequence /\ sequence \in 0 .. MaxNumber
  BY <1>1 DEF Checkout, Numbering, Typed
<1>4. call[c].number \in Numbers
  BY <1>3, NumbersAssumption DEF Numbers
<1>5. call[c] \in Serving /\ call[c].request \in Requests
  BY <1>1, ServingCalls DEF Checkout
<1>. QED BY <1>1, <1>2, <1>3, <1>4, <1>5

LEMMA PlanSafe ==
    ASSUME Checkout, NEW c \in Calls, Plan(c)
    PROVE  Checkout'
<1>1. call[c].step = "plan"
  BY DEF Plan, At
<1>2. /\ call[c] \in Serving /\ call[c].number \in Numbers /\ call[c].at \in Warehouses
  BY <1>1, OnItsWay
<1>3. PICK w \in Warehouses : call' = [call EXCEPT ![c].step = "reserve", ![c].at = w]
  BY <1>2 DEF Plan
<1>4. PICK y : y = [call[c] EXCEPT !.step = "reserve", !.at = w]
  OBVIOUS
<1>5. call' = [call EXCEPT ![c] = y]
  BY <1>3, <1>4 DEF Checkout, Typed
<1>6. /\ y \in Serving /\ y.step = "reserve" /\ y.at = w /\ y.request = call[c].request
      /\ y.number = call[c].number /\ y.hash = call[c].hash /\ y.copy = call[c].copy
  BY <1>2, <1>4 DEF Serving, Places
<1>7. UNCHANGED <<shopper, sequence, orders, index, held, saved, crossed, deleted, faults>>
  BY DEF Plan
<1>. QED BY <1>1, <1>2, <1>5, <1>6, <1>7, GoesOn, Zenon

LEMMA ReserveSafe ==
    ASSUME Checkout, NEW c \in Calls, Reserve(c)
    PROVE  Checkout'
<1>1. call[c].step = "reserve" /\ At(c, "reserve")
  BY DEF Reserve, At
<1>2. /\ call[c] \in Serving /\ call[c].number \in Numbers /\ call[c].at \in Warehouses
      /\ Serves(c) /\ ~At(c, "enter")
  BY <1>1, OnItsWay DEF At
<1>3. CASE Free(call[c].at) >= 1
  <2>1. /\ held' = [held EXCEPT ![call[c].number] = call[c].at]
        /\ call' = [call EXCEPT ![c].step = "enter"]
        /\ UNCHANGED <<shopper, sequence, orders, index, saved, crossed, deleted, faults>>
    BY <1>3 DEF Reserve
  <2>2. PICK y : y = [call[c] EXCEPT !.step = "enter"]
    OBVIOUS
  <2>3. call' = [call EXCEPT ![c] = y]
    BY <2>1, <2>2 DEF Checkout, Typed
  <2>4. /\ y \in Serving /\ y.step = "enter" /\ y.at = call[c].at /\ y.request = call[c].request
        /\ y.number = call[c].number /\ y.hash = call[c].hash /\ y.copy = call[c].copy
    BY <1>2, <2>2 DEF Serving
  <2>5. Cardinality(HeldAt(held, y.at)) + 1 <= Stock[y.at]
    <3>1. HeldAt(held, y.at) \in SUBSET Numbers
      BY DEF HeldAt
    <3>2. Cardinality(HeldAt(held, y.at)) \in Nat /\ Stock[y.at] \in Nat
      BY <1>2, <2>4, <3>1, NumbersFinite, WarehousesAssumption
    <3>3. Stock[y.at] - Cardinality(HeldAt(held, y.at)) >= 1
      BY <1>3, <2>4 DEF Free, HeldAt
    <3>. QED BY <3>2, <3>3
  <2>6. PICK n \in Numbers : n = call[c].number
    BY <1>2
  <2>. QED BY <1>1, <1>2, <2>1, <2>3, <2>4, <2>5, <2>6, GoesOn, Zenon
<1>4. CASE ~(Free(call[c].at) >= 1)
  <2>1. Ends(c, 0) /\ UNCHANGED <<orders, index, held, crossed, deleted, faults, sequence, saved>>
    BY <1>4 DEF Reserve
  <2>2. 0 \in 0 .. MaxNumber
    BY NumbersAssumption
  <2>. QED BY <1>2, <2>1, <2>2, EndsSafe
<1>. QED BY <1>3, <1>4


\* An order enters the memory with its index entry, and its call copies both.
LEMMA EnterSafe ==
    ASSUME Checkout, NEW c \in Calls, Enter(c)
    PROVE  Checkout'
<1>1. /\ Typed /\ Numbering /\ Unentered /\ Snapshots /\ Single /\ Answers /\ Units
  BY DEF Checkout
<1>2. /\ call[c].step = "enter" /\ Taking(call[c]) /\ Numbered(call[c])
      /\ UNCHANGED <<shopper, sequence, held, saved, crossed, deleted, faults>>
  BY DEF Enter, At, Taking, Numbered
<1>3. PICK n, r, w, h : n = call[c].number /\ r = call[c].request /\ w = call[c].at /\ h = call[c].hash
  OBVIOUS
<1>4. /\ call[c] \in Serving /\ n \in Numbers /\ n \in 1 .. sequence
      /\ w \in Warehouses /\ h \in Warehouses /\ r \in Requests /\ Serves(c)
  BY <1>2, <1>3, OnItsWay
<1>5. orders[n] = NoOrder /\ held[n] = w
  BY <1>1, <1>2, <1>3 DEF Unentered
<1>6. PICK o, e : /\ o = [request |-> r, status |-> "open", at |-> w]
                  /\ e = [number |-> n, hash |-> h]
  OBVIOUS
<1>7. /\ o \in Order /\ o # NoOrder /\ Live(o) /\ o.request = r /\ o.at = w
      /\ e \in Entry /\ e # NoEntry /\ e.number = n
  BY <1>4, <1>6 DEF Order, NoOrder, Entry, NoEntry, Live, Numbers
<1>8. orders' = [orders EXCEPT ![n] = o] /\ index' = [index EXCEPT ![r] = e]
  BY <1>3, <1>6 DEF Enter
<1>9. /\ orders' \in OrdersMap /\ index' \in IndexMap
      /\ orders'[n] = o /\ \A m \in Numbers \ {n} : orders'[m] = orders[m]
      /\ index'[r] = e /\ \A q \in Requests \ {r} : index'[q] = index[q]
  <2>1. orders \in [Numbers -> Order \cup {NoOrder}] /\ index \in [Requests -> Entry \cup {NoEntry}]
    BY <1>1 DEF Typed, OrdersMap, IndexMap
  <2>. QED BY <1>4, <1>7, <1>8, <2>1 DEF OrdersMap, IndexMap
<1>10. PICK s : s = [orders |-> orders', index |-> index']
  OBVIOUS
<1>11. s \in Snapshot /\ s.orders = orders' /\ s.index = index' /\ Memory' = s
  BY <1>9, <1>10 DEF Snapshot, Memory
<1>12. PICK y : y = [call[c] EXCEPT !.step = "save", !.copy = s]
  OBVIOUS
<1>13. y \in Serving /\ y.step = "save" /\ y.copy = s /\ y.number = n /\ y.request = r
  BY <1>3, <1>4, <1>11, <1>12 DEF Serving
<1>14. call' = [call EXCEPT ![c] = y]
  <2>1. call' = [call EXCEPT ![c].step = "save", ![c].copy = s]
    BY <1>10 DEF Enter
  <2>. QED BY <1>1, <1>12, <2>1 DEF Typed
<1>15. /\ call'[c] = y /\ \A d \in Calls \ {c} : call'[d] = call[d]
       /\ call' \in [Calls -> Serving \cup {Idle}]
  <2>1. call \in [Calls -> Serving \cup {Idle}]
    BY <1>1 DEF Typed
  <2>. QED BY ONLY <1>13, <1>14, <2>1, c \in Calls
<1>16. ASSUME NEW d \in Calls \ {c}, Numbered(call[d]) PROVE call[d].number # n
  BY <1>1, <1>2, <1>3, <1>16 DEF Numbering
<1>17. ~Taking(y) /\ Numbered(y)
  BY <1>13 DEF Taking, Numbered
<1>18. Typed'
  BY <1>1, <1>2, <1>9, <1>15 DEF Typed
<1>19. Numbering'
  <2>1. Quoting' = Quoting
    BY <1>2, <1>13, <1>15 DEF Quoting, At
  <2>2. \A m \in Numbers : orders'[m] # NoOrder \/ held'[m] # NoWarehouse => m <= sequence'
    BY <1>1, <1>2, <1>4, <1>9 DEF Numbering, Typed
  <2>3. \A d \in Calls : Numbered(call'[d]) => call'[d].number \in 1 .. sequence'
    BY <1>1, <1>2, <1>4, <1>13, <1>15 DEF Numbering
  <2>4. \A d, f \in Calls :
            d # f /\ Numbered(call'[d]) /\ Numbered(call'[f]) => call'[d].number # call'[f].number
    <3>1. ASSUME NEW d \in Calls, NEW f \in Calls, d # f, Numbered(call'[d]), Numbered(call'[f])
          PROVE  call'[d].number # call'[f].number
      <4>1. CASE d = c
        BY <1>13, <1>15, <1>16, <3>1, <4>1
      <4>2. CASE f = c
        BY <1>13, <1>15, <1>16, <3>1, <4>2
      <4>3. CASE d # c /\ f # c
        BY <1>1, <1>15, <3>1, <4>3 DEF Numbering
      <4>. QED BY <4>1, <4>2, <4>3
    <3>. QED BY <3>1
  <2>. QED BY <1>1, <1>2, <2>1, <2>2, <2>3, <2>4 DEF Numbering
<1>20. Unentered'
  <2>1. ASSUME NEW d \in Calls, Taking(call'[d])
        PROVE  /\ d # c /\ call'[d] = call[d] /\ orders'[call[d].number] = orders[call[d].number]
    <3>1. d # c /\ call'[d] = call[d]
      BY <1>13, <1>15, <1>17, <2>1
    <3>2. Numbered(call[d]) /\ call[d].step \in {"plan", "reserve", "enter"}
      BY <2>1, <3>1 DEF Taking, Numbered
    <3>3. call[d].number \in Numbers /\ call[d].number # n
      BY <1>16, <3>1, <3>2, OnItsWay
    <3>. QED BY <1>9, <3>1, <3>3
  <2>2. ASSUME NEW d \in Calls, call'[d].step \in {"plan", "reserve", "enter"} PROVE Taking(call'[d])
    BY <2>2 DEF Taking
  <2>. QED BY <1>1, <1>2, <2>1, <2>2 DEF Unentered
<1>21. ASSUME NEW m \in Numbers, orders[m] # NoOrder, orders[m].request \notin crossed
       PROVE  orders[m].request # r
  BY <1>1, <1>2, <1>3, <1>21 DEF Single
<1>22. Sound(s, crossed, deleted)
  <2>1. Indexed(s, crossed)
    <3>1. ASSUME NEW m \in Numbers, orders'[m] # NoOrder, orders'[m].request \notin crossed
          PROVE  index'[orders'[m].request].number = m
      <4>1. CASE m = n
        BY <1>7, <1>9, <4>1
      <4>2. CASE m # n
        <5>1. orders'[m] = orders[m] /\ orders[m].request # r
          BY <1>9, <1>21, <3>1, <4>2
        <5>2. orders[m].request \in Requests
          BY <1>1, <3>1, <5>1 DEF Typed, OrdersMap, Order
        <5>3. index[orders[m].request].number = m
          BY <1>1, <3>1, <5>1 DEF Snapshots, Sound, Indexed, Memory
        <5>. QED BY <1>9, <5>1, <5>2, <5>3
      <4>. QED BY <4>1, <4>2
    <3>. QED BY <1>11, <3>1 DEF Indexed
  <2>2. EntriesName(s, deleted)
    <3>1. ASSUME NEW q \in Requests, index'[q] # NoEntry
          PROVE  \/ index'[q].number \in deleted
                 \/ orders'[index'[q].number] # NoOrder /\ orders'[index'[q].number].request = q
      <4>1. CASE q = r
        BY <1>7, <1>9, <4>1
      <4>2. CASE q # r
        <5>1. index'[q] = index[q] /\ index[q].number \in Numbers
          BY <1>1, <1>9, <3>1, <4>2 DEF Typed, IndexMap, Entry
        <5>2. \/ index[q].number \in deleted
              \/ orders[index[q].number] # NoOrder /\ orders[index[q].number].request = q
          BY <1>1, <3>1, <5>1 DEF Snapshots, Sound, EntriesName, Memory
        <5>. QED BY <1>5, <1>9, <5>1, <5>2
      <4>. QED BY <4>1, <4>2
    <3>. QED BY <1>11, <3>1 DEF EntriesName
  <2>3. ASSUME NEW x \in Warehouses PROVE Cardinality(Promised(s.orders, x)) <= Stock[x]
    <3>1. Promised(orders', x) \subseteq HeldAt(held, x)
      <4>1. ASSUME NEW m \in Numbers, Live(orders'[m]), orders'[m].at = x PROVE held[m] = x
        <5>1. CASE m = n
          BY <1>5, <1>7, <1>9, <4>1, <5>1
        <5>2. CASE m # n
          BY <1>1, <1>9, <4>1, <5>2 DEF Units, HeldFor
        <5>. QED BY <5>1, <5>2
      <4>. QED BY <4>1 DEF Promised, HeldAt
    <3>2. HeldAt(held, x) \in SUBSET Numbers
      BY DEF HeldAt
    <3>3. Cardinality(HeldAt(held, x)) <= Stock[x] /\ Stock[x] \in Nat
      BY <1>1, WarehousesAssumption DEF Units
    <3>4. /\ Cardinality(Promised(orders', x)) <= Cardinality(HeldAt(held, x))
          /\ Cardinality(Promised(orders', x)) \in Nat /\ Cardinality(HeldAt(held, x)) \in Nat
      BY <3>1, <3>2, Fewer
    <3>. QED BY <1>11, <3>3, <3>4
  <2>. QED BY <2>1, <2>2, <2>3 DEF Sound
<1>23. Snapshots'
  <2>1. Sound(Memory', crossed', deleted') /\ Sound(saved', crossed', deleted')
    BY <1>1, <1>2, <1>11, <1>22 DEF Snapshots
  <2>2. ASSUME NEW d \in Calls, At(d, "save")' PROVE Sound(call'[d].copy, crossed', deleted')
    <3>1. CASE d = c
      BY <1>2, <1>13, <1>15, <1>22, <3>1
    <3>2. CASE d # c
      <4>1. call'[d] = call[d] /\ At(d, "save")
        BY <1>15, <2>2, <3>2 DEF At
      <4>. QED BY <1>1, <1>2, <4>1 DEF Snapshots
    <3>. QED BY <3>1, <3>2
  <2>. QED BY <2>1, <2>2 DEF Snapshots
<1>24. Single'
  <2>1. ASSUME NEW d \in Calls, Taking(call'[d]), call'[d].request \notin crossed'
        PROVE  /\ \A m \in Numbers : orders'[m] # NoOrder => orders'[m].request # call'[d].request
               /\ \A f \in Calls : Taking(call'[f]) /\ f # d => call'[f].request # call'[d].request
    <3>1. d # c /\ call'[d] = call[d] /\ Taking(call[d])
      BY <1>13, <1>15, <1>17, <2>1
    <3>2. /\ \A m \in Numbers : orders[m] # NoOrder => orders[m].request # call[d].request
          /\ \A f \in Calls : Taking(call[f]) /\ f # d => call[f].request # call[d].request
      BY <1>1, <1>2, <2>1, <3>1 DEF Single
    <3>3. r # call[d].request
      BY <1>2, <1>3, <3>1, <3>2
    <3>. QED BY <1>7, <1>9, <1>15, <1>17, <3>1, <3>2, <3>3
  <2>. QED BY <2>1 DEF Single
<1>25. Answers'
  <2>1. ASSUME NEW a \in Shoppers, NEW d \in Calls, shopper'[a].waiting = d
        PROVE  Serves(d)' /\ call'[d].request[1] = a
    <3>1. Serves(d) /\ call[d].request[1] = a
      BY <1>1, <1>2, <2>1 DEF Answers
    <3>. QED BY <1>3, <1>13, <1>15, <3>1 DEF Serves
  <2>2. ASSUME NEW d \in Calls, At(d, "save")'
        PROVE  \/ call'[d].number \in deleted'
               \/ /\ orders'[call'[d].number] # NoOrder
                  /\ orders'[call'[d].number].request = call'[d].request
    <3>1. CASE d = c
      BY <1>7, <1>9, <1>13, <1>15, <3>1
    <3>2. CASE d # c
      <4>1. call'[d] = call[d] /\ At(d, "save") /\ Numbered(call[d])
        BY <1>15, <2>2, <3>2 DEF At, Numbered
      <4>2. call[d].number # n /\ call[d].number \in 1 .. sequence
        BY <1>1, <1>16, <3>2, <4>1 DEF Numbering
      <4>3. call[d].number \in Numbers
        BY <1>1, <4>2, NumbersAssumption DEF Typed, Numbers
      <4>. QED BY <1>1, <1>2, <1>9, <4>1, <4>2, <4>3 DEF Answers
    <3>. QED BY <3>1, <3>2
  <2>. QED BY <2>1, <2>2 DEF Answers
<1>26. Units'
  <2>1. ASSUME NEW m \in Numbers PROVE HeldFor(m)'
    <3>1. CASE m = n
      BY <1>2, <1>5, <1>7, <1>9, <3>1 DEF HeldFor
    <3>2. CASE m # n
      <4>1. (\E d \in Calls : At(d, "enter") /\ call[d].number = m)
               => \E d \in Calls : At(d, "enter")' /\ call'[d].number = m
        BY <1>3, <1>15, <3>2 DEF At
      <4>. QED BY <1>1, <1>2, <1>9, <3>2, <4>1 DEF Units, HeldFor
    <3>. QED BY <3>1, <3>2
  <2>. QED BY <1>1, <1>2, <2>1 DEF Units
<1>. QED BY <1>18, <1>19, <1>20, <1>23, <1>24, <1>25, <1>26 DEF Checkout


----------------------------------------------------------------------------
\* What an operator does to an order: a new status, or nothing left of it.
LEMMA OrderSafe ==
    ASSUME Checkout, NEW n \in Numbers, orders[n] # NoOrder, NEW o,
           orders' = [orders EXCEPT ![n] = o],
           \/ o = NoOrder /\ n \in deleted'
           \/ o \in Order /\ o.request = orders[n].request /\ o.at = orders[n].at,
           Live(o) => Live(orders[n]) /\ held' = held,
           \/ held' = held /\ (Live(o) \/ n \in deleted')
           \/ held' = [held EXCEPT ![n] = NoWarehouse],
           saved' = [orders |-> orders', index |-> index],
           deleted \subseteq deleted', deleted' \subseteq Numbers, faults' \in 0 .. MaxFaults,
           UNCHANGED <<shopper, call, sequence, index, crossed>>
    PROVE  Checkout'
<1>1. /\ Typed /\ Numbering /\ Unentered /\ Snapshots /\ Single /\ Answers /\ Units
  BY DEF Checkout
<1>2. /\ orders' \in OrdersMap /\ orders'[n] = o
      /\ \A m \in Numbers \ {n} : orders'[m] = orders[m]
  BY <1>1 DEF Typed, OrdersMap
<1>3. /\ held' \in [Numbers -> Places]
      /\ \A m \in Numbers \ {n} : held'[m] = held[m]
      /\ held'[n] = held[n] \/ held'[n] = NoWarehouse
  BY <1>1 DEF Typed, Places
<1>4. saved' \in Snapshot /\ saved'.orders = orders' /\ saved'.index = index /\ Memory' = saved'
  BY <1>1, <1>2 DEF Typed, Snapshot, Memory
<1>5. ~Live(NoOrder)
  BY DEF Live, NoOrder
<1>6. \A d \in Calls : Taking(call[d]) => call[d].number # n
  BY <1>1 DEF Unentered
<1>7. \A m \in Numbers :
         orders'[m] # NoOrder => orders[m] # NoOrder /\ orders'[m].request = orders[m].request
  BY <1>2
<1>8. \A m \in Numbers :
         Live(orders'[m]) => Live(orders[m]) /\ orders'[m].at = orders[m].at
  BY <1>2, <1>5
<1>9. Typed'
  BY <1>1, <1>2, <1>3, <1>4 DEF Typed
<1>10. Numbering'
  <2>1. Quoting' = Quoting
    BY DEF Quoting, At
  <2>2. \A m \in Numbers : orders'[m] # NoOrder \/ held'[m] # NoWarehouse => m <= sequence'
    BY <1>1, <1>3, <1>7 DEF Numbering
  <2>. QED BY <1>1, <2>1, <2>2 DEF Numbering
<1>11. Unentered'
  <2>1. ASSUME NEW d \in Calls, Taking(call[d])
        PROVE  /\ orders'[call[d].number] = orders[call[d].number]
               /\ held'[call[d].number] = held[call[d].number]
    <3>1. call[d].number \in Numbers
      BY <2>1, OnItsWay DEF Taking
    <3>. QED BY <1>2, <1>3, <1>6, <2>1, <3>1
  <2>2. ASSUME NEW d \in Calls, call[d].step \in {"plan", "reserve", "enter"} PROVE Taking(call[d])
    BY <2>2 DEF Taking
  <2>. QED BY <1>1, <2>1, <2>2 DEF Unentered
<1>12. Sound(saved', crossed, deleted')
  <2>1. Indexed(saved', crossed)
    <3>1. ASSUME NEW m \in Numbers, orders[m] # NoOrder, orders[m].request \notin crossed
          PROVE  index[orders[m].request].number = m
      BY <1>1, <3>1 DEF Snapshots, Sound, Indexed, Memory
    <3>. QED BY ONLY <1>4, <1>7, <3>1 DEF Indexed
  <2>2. EntriesName(saved', deleted')
    <3>1. ASSUME NEW q \in Requests, index[q] # NoEntry
          PROVE  \/ index[q].number \in deleted'
                 \/ orders'[index[q].number] # NoOrder /\ orders'[index[q].number].request = q
      <4>1. index[q].number \in Numbers
        BY <1>1, <3>1 DEF Typed, IndexMap, Entry
      <4>2. \/ index[q].number \in deleted
            \/ orders[index[q].number] # NoOrder /\ orders[index[q].number].request = q
        BY <1>1, <3>1 DEF Snapshots, Sound, EntriesName, Memory
      <4>3. CASE index[q].number = n
        BY <1>2, <4>2, <4>3 DEF Order, NoOrder
      <4>4. CASE index[q].number # n
        BY <1>2, <4>1, <4>2, <4>4
      <4>. QED BY <4>3, <4>4
    <3>. QED BY <1>4, <3>1 DEF EntriesName
  <2>3. ASSUME NEW x \in Warehouses PROVE Cardinality(Promised(saved'.orders, x)) <= Stock[x]
    <3>1. Promised(orders', x) \in SUBSET Promised(orders, x)
      BY <1>8 DEF Promised
    <3>2. Promised(orders, x) \in SUBSET Numbers
      BY DEF Promised
    <3>3. Cardinality(Promised(orders, x)) <= Stock[x] /\ Stock[x] \in Nat
      BY <1>1, WarehousesAssumption DEF Snapshots, Sound, Memory
    <3>4. /\ Cardinality(Promised(orders', x)) <= Cardinality(Promised(orders, x))
          /\ Cardinality(Promised(orders', x)) \in Nat /\ Cardinality(Promised(orders, x)) \in Nat
      BY <3>1, <3>2, Fewer
    <3>. QED BY <1>4, <3>3, <3>4
  <2>. QED BY <2>1, <2>2, <2>3 DEF Sound
<1>13. Snapshots'
  <2>1. ASSUME NEW d \in Calls, At(d, "save")' PROVE Sound(call'[d].copy, crossed', deleted')
    <3>1. Sound(call[d].copy, crossed, deleted)
      BY <1>1, <2>1 DEF Snapshots, At
    <3>. QED BY <3>1, SoundLater
  <2>. QED BY <1>4, <1>12, <2>1 DEF Snapshots
<1>14. Single'
  BY <1>1, <1>7 DEF Single
<1>15. Answers'
  <2>1. ASSUME NEW d \in Calls, At(d, "save")
        PROVE  \/ call[d].number \in deleted'
               \/ /\ orders'[call[d].number] # NoOrder
                  /\ orders'[call[d].number].request = call[d].request
    <3>1. Numbered(call[d])
      BY <2>1 DEF Numbered, At
    <3>2. call[d].number \in Numbers
      BY <1>1, <3>1, NumbersAssumption DEF Numbering, Typed, Numbers
    <3>3. CASE call[d].number = n
      BY <1>1, <1>2, <2>1, <3>3 DEF Answers, Order, NoOrder
    <3>4. CASE call[d].number # n
      BY <1>1, <1>2, <2>1, <3>2, <3>4 DEF Answers
    <3>. QED BY <3>3, <3>4
  <2>. QED BY <1>1, <2>1 DEF Answers, Serves, At
<1>16. Units'
  <2>1. ASSUME NEW m \in Numbers PROVE HeldFor(m)'
    <3>1. CASE m = n
      BY <1>1, <1>2, <1>5, <3>1 DEF Units, HeldFor, Typed
    <3>2. CASE m # n
      BY <1>1, <1>2, <1>3, <3>2 DEF Units, HeldFor, At
    <3>. QED BY <3>1, <3>2
  <2>2. ASSUME NEW w \in Warehouses PROVE Cardinality(HeldAt(held', w)) <= Stock[w]
    <3>1. HeldAt(held', w) \in SUBSET HeldAt(held, w)
      BY <1>3, WarehousesAssumption DEF HeldAt
    <3>2. HeldAt(held, w) \in SUBSET Numbers
      BY DEF HeldAt
    <3>3. Cardinality(HeldAt(held, w)) <= Stock[w] /\ Stock[w] \in Nat
      BY <1>1, WarehousesAssumption DEF Units
    <3>4. /\ Cardinality(HeldAt(held', w)) <= Cardinality(HeldAt(held, w))
          /\ Cardinality(HeldAt(held', w)) \in Nat /\ Cardinality(HeldAt(held, w)) \in Nat
      BY <3>1, <3>2, Fewer
    <3>. QED BY <3>3, <3>4
  <2>. QED BY <2>1, <2>2 DEF Units
<1>. QED BY <1>9, <1>10, <1>11, <1>13, <1>14, <1>15, <1>16 DEF Checkout

\* An order with another status.
LEMMA Restated ==
    ASSUME Typed, NEW n \in Numbers, Live(orders[n]), NEW status \in {"open", "sold", "cancelled"}
    PROVE  /\ orders[n] \in Order /\ orders[n] # NoOrder
           /\ [orders[n] EXCEPT !.status = status] \in Order
           /\ [orders[n] EXCEPT !.status = status].request = orders[n].request
           /\ [orders[n] EXCEPT !.status = status].at = orders[n].at
           /\ [orders[n] EXCEPT !.status = status].status = status
           /\ [orders EXCEPT ![n].status = status]
                = [orders EXCEPT ![n] = [orders[n] EXCEPT !.status = status]]
<1>1. orders[n] \in Order /\ orders[n] # NoOrder
  BY DEF Typed, OrdersMap, Live, NoOrder
<1>. QED BY <1>1 DEF Order, Typed, OrdersMap

LEMMA SellSafe ==
    ASSUME Checkout, NEW n \in Numbers, Sell(n)
    PROVE  Checkout'
<1>1. Typed /\ Live(orders[n]) /\ "sold" \in {"open", "sold", "cancelled"}
  BY DEF Checkout, Sell, Live
<1>2. PICK o : o = [orders[n] EXCEPT !.status = "sold"]
  OBVIOUS
<1>3. /\ orders[n] # NoOrder /\ o \in Order /\ o.request = orders[n].request
      /\ o.at = orders[n].at /\ o.status = "sold"
      /\ [orders EXCEPT ![n].status = "sold"] = [orders EXCEPT ![n] = o]
  BY <1>1, <1>2, Restated
<1>4. Live(o)
  BY <1>3 DEF Live
<1>5. /\ orders' = [orders EXCEPT ![n] = o]
      /\ saved' = [orders |-> orders', index |-> index]
      /\ UNCHANGED <<shopper, call, sequence, index, held, crossed, deleted, faults>>
  BY <1>3 DEF Sell
<1>6. deleted \subseteq deleted' /\ deleted' \subseteq Numbers /\ faults' \in 0 .. MaxFaults
      /\ held' = held /\ UNCHANGED <<shopper, call, sequence, index, crossed>>
  BY <1>1, <1>5 DEF Typed
<1>. QED BY <1>1, <1>3, <1>4, <1>5, <1>6, OrderSafe, Zenon

LEMMA CancelSafe ==
    ASSUME Checkout, NEW n \in Numbers, Cancel(n)
    PROVE  Checkout'
<1>1. Typed /\ Live(orders[n]) /\ "cancelled" \in {"open", "sold", "cancelled"}
  BY DEF Checkout, Cancel
<1>2. PICK o : o = [orders[n] EXCEPT !.status = "cancelled"]
  OBVIOUS
<1>3. /\ orders[n] # NoOrder /\ o \in Order /\ o.request = orders[n].request
      /\ o.at = orders[n].at /\ o.status = "cancelled"
      /\ [orders EXCEPT ![n].status = "cancelled"] = [orders EXCEPT ![n] = o]
  BY <1>1, <1>2, Restated
<1>4. ~Live(o)
  BY <1>3 DEF Live
<1>5. /\ orders' = [orders EXCEPT ![n] = o]
      /\ saved' = [orders |-> orders', index |-> index]
      /\ held' = [held EXCEPT ![n] = NoWarehouse]
      /\ UNCHANGED <<shopper, call, sequence, index, crossed, deleted, faults>>
  BY <1>3 DEF Cancel
<1>6. deleted \subseteq deleted' /\ deleted' \subseteq Numbers /\ faults' \in 0 .. MaxFaults
      /\ UNCHANGED <<shopper, call, sequence, index, crossed>>
  BY <1>1, <1>5 DEF Typed
<1>. QED BY <1>3, <1>4, <1>5, <1>6, OrderSafe, Zenon

LEMMA DeleteSafe ==
    ASSUME Checkout, NEW n \in Numbers, deleteOrder(n)
    PROVE  Checkout'
<1>1. /\ orders[n] # NoOrder /\ orders' = [orders EXCEPT ![n] = NoOrder]
      /\ saved' = [orders |-> orders', index |-> index]
      /\ deleted' = deleted \cup {n}
      /\ held' = held /\ UNCHANGED <<shopper, call, sequence, index, crossed>>
  BY DEF deleteOrder
<1>2. ~Live(NoOrder)
  BY DEF Live, NoOrder
<1>3. faults' \in 0 .. MaxFaults
  BY BoundsAssumption DEF deleteOrder, Fault, Checkout, Typed
<1>4. deleted \subseteq deleted' /\ deleted' \subseteq Numbers /\ n \in deleted'
  BY <1>1 DEF Checkout, Typed
<1>. QED BY <1>1, <1>2, <1>3, <1>4, OrderSafe, Zenon

\* The process starts again from its snapshot.
LEMMA RestartSafe ==
    ASSUME Checkout, Restart
    PROVE  Checkout'
<1>1. /\ Typed /\ Numbering /\ Unentered /\ Snapshots /\ Single /\ Answers /\ Units
  BY DEF Checkout
<1>2. /\ orders' = saved.orders /\ index' = saved.index
      /\ held' = [n \in Numbers |-> IF Live(orders'[n]) THEN orders'[n].at ELSE NoWarehouse]
      /\ call' = [c \in Calls |-> Idle]
      /\ shopper' = [b \in Shoppers |-> [shopper[b] EXCEPT !.waiting = NoCall]]
      /\ UNCHANGED <<saved, crossed, deleted>>
  BY DEF Restart
<1>3. orders' \in OrdersMap /\ index' \in IndexMap
  BY <1>1, <1>2 DEF Typed, Snapshot
<1>4. \A n \in Numbers : Live(orders'[n]) =>
         orders'[n] # NoOrder /\ orders'[n].at \in Warehouses /\ orders'[n].at # NoWarehouse
  BY <1>3, WarehousesAssumption DEF OrdersMap, Order, Live, NoOrder
<1>5. held' \in [Numbers -> Places] /\ DOMAIN held' = Numbers
  BY <1>2, <1>4 DEF Places
<1>6. faults' \in 0 .. MaxFaults
  BY <1>1, BoundsAssumption DEF Restart, Fault, Typed
<1>7. \A c \in Calls : call'[c] = Idle /\ call'[c].step = "idle"
  BY <1>2 DEF Idle
<1>8. /\ shopper' \in [Shoppers -> Page]
      /\ \A b \in Shoppers : shopper'[b].waiting = NoCall
  <2>1. ASSUME NEW b \in Shoppers
        PROVE  /\ [shopper[b] EXCEPT !.waiting = NoCall] \in Page
               /\ [shopper[b] EXCEPT !.waiting = NoCall].waiting = NoCall
    BY <1>1 DEF Typed, Page
  <2>. QED BY <1>2, <2>1
<1>9. PICK R \in SUBSET Numbers : R = Restored(orders')
  BY DEF Restored
<1>10. /\ sequence' \in 0 .. MaxNumber
       /\ \A n \in Numbers : orders'[n] # NoOrder => n <= sequence'
  <2>1. sequence' = IF R = {} THEN 0 ELSE Max(R)
    BY <1>9 DEF Restart
  <2>2. R \in SUBSET (0 .. MaxNumber) /\ MaxNumber \in Nat
    BY NumbersAssumption DEF Numbers
  <2>3. \A n \in Numbers : orders'[n] # NoOrder => n \in R
    BY <1>9 DEF Restored
  <2>4. CASE R = {}
    BY <2>1, <2>2, <2>3, <2>4
  <2>5. CASE R # {}
    <3>1. Max(R) \in R /\ \A i \in R : i <= Max(R)
      BY <2>2, <2>5, MaxGreatest
    <3>. QED BY <2>1, <2>2, <2>3, <2>5, <3>1
  <2>. QED BY <2>4, <2>5
<1>11. Typed'
  <2>1. call' \in [Calls -> Serving \cup {Idle}]
    BY <1>2
  <2>. QED BY <1>1, <1>2, <1>3, <1>5, <1>6, <1>8, <1>10, <2>1 DEF Typed
<1>12. Numbering'
  <2>1. Quoting' = {}
    BY <1>7 DEF Quoting, At
  <2>2. IsFiniteSet(Quoting)' /\ Cardinality(Quoting)' = 0
    BY <2>1, FS_EmptySet
  <2>3. \A n \in Numbers : orders'[n] # NoOrder \/ held'[n] # NoWarehouse => n <= sequence'
    BY <1>2, <1>4, <1>10
  <2>4. sequence' + 0 <= MaxNumber
    <3>1. sequence' \in 0 .. MaxNumber
      BY <1>10
    <3>2. MaxNumber \in Nat
      BY NumbersAssumption
    <3>3. PICK i \in 0 .. MaxNumber : i = sequence'
      BY <3>1
    <3>4. i + 0 <= MaxNumber
      BY <3>2
    <3>. QED BY <3>3, <3>4
  <2>. QED BY <1>7, <2>2, <2>3, <2>4 DEF Numbering, Numbered
<1>13. Unentered'
  BY <1>7 DEF Unentered, Taking
<1>14. Snapshots'
  <2>1. Memory'.orders = saved.orders /\ Memory'.index = saved.index
    BY <1>2 DEF Memory
  <2>2. Sound(Memory', crossed, deleted)
    <3>1. Sound(saved, crossed, deleted)
      BY <1>1 DEF Snapshots
    <3>. QED BY ONLY <2>1, <3>1 DEF Sound, Indexed, EntriesName
  <2>. QED BY <1>1, <1>2, <1>7, <2>2 DEF Snapshots, At
<1>15. Single'
  BY <1>7 DEF Single, Taking
<1>16. Answers'
  BY <1>7, <1>8, WarehousesAssumption DEF Answers, At
<1>17. Units'
  <2>1. \A n \in Numbers : HeldFor(n)'
    BY <1>2, <1>5 DEF HeldFor
  <2>2. ASSUME NEW w \in Warehouses PROVE Cardinality(HeldAt(held', w)) <= Stock[w]
    <3>1. w # NoWarehouse
      BY WarehousesAssumption
    <3>2. HeldAt(held', w) = Promised(saved.orders, w)
      BY <1>2, <3>1 DEF HeldAt, Promised
    <3>. QED BY <1>1, <3>2 DEF Snapshots, Sound
  <2>. QED BY <2>1, <2>2 DEF Units
<1>. QED BY <1>11, <1>12, <1>13, <1>14, <1>15, <1>16, <1>17 DEF Checkout


----------------------------------------------------------------------------
\* The points: what each step of a purchase does to the accounts.
LEMMA EnterLoyal ==
    ASSUME Checkout, Loyal, NEW c \in Calls, Enter(c)
    PROVE  Loyal'
<1>1. call[c].step \in {"plan", "reserve", "enter"}
  BY DEF Enter, At
<1>2. call[c].number \in Numbers /\ call[c].request[1] \in Customers
  BY <1>1, OnItsWay DEF Requests, Shoppers
<1>3. PICK m : m = [of |-> call[c].request[1], order |-> call[c].number, kind |-> "earn",
                    source |-> "order", points |-> 1, status |-> "pending"]
  OBVIOUS
<1>4. Assigned(m)
  BY <1>3 DEF Enter, recordOrderPoints
<1>5. m \in Movement /\ m.status # "reversed" /\ m.kind = "earn"
  BY <1>2, <1>3, NumbersAssumption DEF Movement, Kinds
<1>. QED BY <1>4, <1>5, AssignedLoyal

\* Everything that is kept, by every step.
Kept == Checkout /\ Loyal

LEMMA KeptFirst == Init => Kept
<1> SUFFICES ASSUME Init PROVE Kept
  OBVIOUS
<1>1. /\ shopper = [b \in Shoppers |-> [id |-> 0, used |-> 0, waiting |-> NoCall, result |-> 0]]
      /\ call = [c \in Calls |-> Idle] /\ sequence = 0
      /\ orders = [n \in Numbers |-> NoOrder] /\ index = [r \in Requests |-> NoEntry]
      /\ held = [n \in Numbers |-> NoWarehouse] /\ saved = Nothing
      /\ crossed = {} /\ deleted = {} /\ faults = 0
  BY DEF Init, Nothing
<1>2. Loyal
  BY NoneLoyal DEF Init
<1>3. \A c \in Calls : call[c] = Idle /\ call[c].step = "idle"
  BY <1>1 DEF Idle
<1>4. /\ MaxNumber \in Nat /\ 0 \in 0 .. MaxNumber /\ 0 \in 0 .. MaxIds /\ 0 \in 0 .. MaxFaults
      /\ ~Live(NoOrder)
  BY NumbersAssumption, BoundsAssumption DEF Live, NoOrder
<1>5. Typed
  <2>1. [id |-> 0, used |-> 0, waiting |-> NoCall, result |-> 0] \in Page
    BY <1>4 DEF Page
  <2>2. orders \in OrdersMap /\ index \in IndexMap /\ held \in [Numbers -> Places]
    BY <1>1 DEF OrdersMap, IndexMap, Places
  <2>3. saved \in Snapshot
    BY <1>1 DEF Nothing, Snapshot, OrdersMap, IndexMap
  <2>. QED BY <1>1, <1>4, <2>1, <2>2, <2>3 DEF Typed
<1>6. Numbering
  <2>1. Quoting = {}
    BY <1>3 DEF Quoting, At
  <2>2. IsFiniteSet(Quoting) /\ Cardinality(Quoting) = 0
    BY <2>1, FS_EmptySet
  <2>. QED BY <1>1, <1>3, <1>4, <2>2 DEF Numbering, Numbered
<1>7. Unentered /\ Single
  BY <1>3 DEF Unentered, Single, Taking
<1>8. \A w : Promised(orders, w) = {}
  BY <1>1, <1>4 DEF Promised
<1>9. Snapshots
  <2>1. /\ saved.orders = orders /\ saved.index = index
        /\ Memory.orders = orders /\ Memory.index = index
    BY <1>1 DEF Memory, Nothing
  <2>2. ASSUME NEW s, s.orders = orders, s.index = index PROVE Sound(s, crossed, deleted)
    <3>1. \A w \in Warehouses : Cardinality(Promised(s.orders, w)) <= Stock[w]
      BY <1>8, <2>2, FS_EmptySet, WarehousesAssumption
    <3>. QED BY <1>1, <2>2, <3>1 DEF Sound, Indexed, EntriesName
  <2>. QED BY <1>3, <2>1, <2>2 DEF Snapshots, At
<1>10. Answers
  BY <1>1, <1>3, WarehousesAssumption DEF Answers, At
<1>11. Units
  <2>1. \A n \in Numbers : HeldFor(n)
    BY <1>1, <1>4 DEF HeldFor
  <2>2. ASSUME NEW w \in Warehouses PROVE Cardinality(HeldAt(held, w)) <= Stock[w]
    <3>1. HeldAt(held, w) = {}
      BY <1>1, WarehousesAssumption DEF HeldAt
    <3>. QED BY <3>1, FS_EmptySet, WarehousesAssumption
  <2>. QED BY <2>1, <2>2 DEF Units
<1>. QED BY <1>2, <1>5, <1>6, <1>7, <1>9, <1>10, <1>11 DEF Kept, Checkout

LEMMA IdleStep ==
    ASSUME Checkout, UNCHANGED checkoutVars
    PROVE  Checkout'
<1>1. UNCHANGED <<shopper, call, sequence, orders, index, held, saved, crossed, deleted, faults>>
  BY DEF checkoutVars
<1>2. /\ shopper' \in [Shoppers -> Page] /\ faults' \in 0 .. MaxFaults
      /\ \A b \in Shoppers, c \in Calls : shopper'[b].waiting = c => shopper[b].waiting = c
  BY <1>1 DEF Checkout, Typed
<1>. QED BY <1>1, <1>2, PageSafe

LEMMA ServeKeeps ==
    ASSUME Kept, NEW c \in Calls, Serve(c)
    PROVE  Kept'
<1>1. Checkout /\ Loyal
  BY DEF Kept
<1>2. CASE QuoteFails(c)
  <2>1. UNCHANGED loyaltyVars
    BY <1>2 DEF QuoteFails
  <2>. QED BY <1>1, <1>2, <2>1, QuoteFailsSafe, StillLoyal DEF Kept
<1>3. ASSUME NEW w \in Quotable, Quoted(c, w) PROVE Kept'
  <2>1. UNCHANGED loyaltyVars
    BY <1>3 DEF Quoted
  <2>. QED BY <1>1, <1>3, <2>1, QuotedSafe, StillLoyal DEF Kept
<1>4. CASE Plan(c)
  <2>1. UNCHANGED loyaltyVars
    BY <1>4 DEF Plan
  <2>. QED BY <1>1, <1>4, <2>1, PlanSafe, StillLoyal DEF Kept
<1>5. CASE Reserve(c)
  <2>1. UNCHANGED loyaltyVars
    BY <1>5 DEF Reserve
  <2>. QED BY <1>1, <1>5, <2>1, ReserveSafe, StillLoyal DEF Kept
<1>6. CASE Enter(c)
  BY <1>1, <1>6, EnterSafe, EnterLoyal DEF Kept
<1>7. CASE Save(c)
  <2>1. UNCHANGED loyaltyVars
    BY <1>7 DEF Save
  <2>. QED BY <1>1, <1>7, <2>1, SaveSafe, StillLoyal DEF Kept
<1>. QED BY <1>2, <1>3, <1>4, <1>5, <1>6, <1>7 DEF Serve

LEMMA KeptStep == Kept /\ [Next]_vars => Kept'
<1> SUFFICES ASSUME Kept, [Next]_vars PROVE Kept'
  OBVIOUS
<1>1. Checkout /\ Loyal
  BY DEF Kept
<1>2. ASSUME NEW b \in Shoppers, Lose(b) \/ Edit(b) PROVE Kept'
  <2>1. UNCHANGED loyaltyVars
    BY <1>2 DEF Lose, Edit
  <2>2. Checkout'
    BY <1>1, <1>2, LoseSafe, EditSafe
  <2>. QED BY <1>1, <2>1, <2>2, StillLoyal DEF Kept
<1>3. ASSUME NEW b \in Shoppers, NEW c \in Calls, handleSubmit(b, c) PROVE Kept'
  <2>1. UNCHANGED loyaltyVars
    BY <1>3 DEF handleSubmit
  <2>. QED BY <1>1, <1>3, <2>1, SubmitSafe, StillLoyal DEF Kept
<1>4. ASSUME NEW c \in Calls, Serve(c) PROVE Kept'
  BY <1>4, ServeKeeps
<1>5. ASSUME NEW n \in Numbers, Sell(n) PROVE Kept'
  <2>1. settleOrderPoints(n) /\ n \in OrderNumbers
    BY <1>5, NumbersAssumption DEF Sell
  <2>2. Loyal'
    BY <1>1, <2>1, SettledLoyal
  <2>. QED BY <1>1, <1>5, <2>2, SellSafe DEF Kept
<1>6. ASSUME NEW n \in Numbers, Cancel(n) PROVE Kept'
  <2>1. reverseOrderPoints(n) /\ n \in OrderNumbers
    BY <1>6, NumbersAssumption DEF Cancel
  <2>2. Loyal'
    BY <1>1, <2>1, ReversedLoyal
  <2>. QED BY <1>1, <1>6, <2>2, CancelSafe DEF Kept
<1>7. CASE OperateLoyalty /\ UNCHANGED checkoutVars
  BY <1>1, <1>7, PanelLoyal, IdleStep DEF Kept
<1>8. ASSUME NEW n \in Numbers, deleteOrder(n) PROVE Kept'
  <2>1. UNCHANGED loyaltyVars
    BY <1>8 DEF deleteOrder
  <2>. QED BY <1>1, <1>8, <2>1, DeleteSafe, StillLoyal DEF Kept
<1>9. CASE Restart
  <2>1. UNCHANGED loyaltyVars
    BY <1>9 DEF Restart
  <2>. QED BY <1>1, <1>9, <2>1, RestartSafe, StillLoyal DEF Kept
<1>10. CASE UNCHANGED vars
  <2>1. UNCHANGED checkoutVars /\ UNCHANGED loyaltyVars
    BY <1>10 DEF vars
  <2>. QED BY <1>1, <2>1, IdleStep, StillLoyal DEF Kept
<1>. QED BY <1>2, <1>3, <1>4, <1>5, <1>6, <1>7, <1>8, <1>9, <1>10 DEF Next, Operate

\* The inductive invariant of a purchase and of the accounts.
THEOREM KeptAlways == Spec => []Kept
<1>. QED BY KeptFirst, KeptStep, PTL DEF Spec

----------------------------------------------------------------------------
\* Every variable keeps its type: pages, calls, orders, index, snapshot, accounts
\* and movements, through losses, edits, deletions and restarts.
THEOREM TypeCorrect == Spec => []TypeOK
<1>1. Kept => TypeOK
  <2> SUFFICES ASSUME Kept PROVE TypeOK
    OBVIOUS
  <2>1. Typed /\ LoyaltyTyped
    BY LoyalMeans DEF Kept, Checkout
  <2>2. \A c \in Calls : Serves(c) => call[c] \in Serving
    BY <2>1, ServingCalls
  <2>3. LoyaltyTypeOK
    BY <2>1 DEF LoyaltyTyped, LoyaltyTypeOK
  <2>. QED BY <2>1, <2>2, <2>3 DEF Typed, TypeOK
<1>. QED BY <1>1, KeptAlways, PTL

\* A request sent again, lost, refused or served over a restart has one order, unless
\* two of its calls were checked before either entered its order: the clientRequestId
\* and the idempotency index of createCheckoutOrder.
THEOREM OneOrder == Spec => []OneOrderPerRequest
<1>1. Kept => OneOrderPerRequest
  <2> SUFFICES ASSUME Kept, NEW m \in Numbers, NEW n \in Numbers, m # n, orders[m] # NoOrder,
                      orders[m].request = orders[n].request, orders[m].request \notin crossed
               PROVE  FALSE
    BY DEF OneOrderPerRequest
  <2>1. Typed /\ Indexed(Memory, crossed)
    BY DEF Kept, Checkout, Snapshots, Sound
  <2>2. orders[n] # NoOrder
    <3>1. orders[m].request \in Requests
      BY <2>1 DEF Typed, OrdersMap, Order
    <3>2. orders[m].request # <<>>
      BY <3>1, SMTT(30) DEF Requests
    <3>. QED BY <3>2 DEF NoOrder
  <2>3. /\ index[orders[m].request].number = m
        /\ index[orders[n].request].number = n
    BY <2>1, <2>2 DEF Indexed, Memory
  <2>. QED BY <2>3
<1>. QED BY <1>1, KeptAlways, PTL

\* Units are held only for orders that stand, for calls about to enter one, or for
\* orders deleted; a standing order has its unit; and no warehouse promises more than
\* it has, although rebuildFromOrders reserves without checking.
THEOREM UnitsKept == Spec => []UnitsOfOrders
<1>1. Kept => UnitsOfOrders
  <2> SUFFICES ASSUME Kept PROVE UnitsOfOrders
    OBVIOUS
  <2>1. Units
    BY DEF Kept, Checkout
  <2>2. ASSUME NEW w \in Warehouses PROVE Free(w) >= 0
    <3>1. HeldAt(held, w) \in SUBSET Numbers
      BY DEF HeldAt
    <3>2. Cardinality(HeldAt(held, w)) \in Nat /\ Stock[w] \in Nat
      BY <3>1, NumbersFinite, WarehousesAssumption
    <3>3. Cardinality(HeldAt(held, w)) <= Stock[w]
      BY <2>1 DEF Units
    <3>4. Stock[w] - Cardinality(HeldAt(held, w)) >= 0
      BY <3>2, <3>3
    <3>. QED BY <3>4 DEF Free, HeldAt
  <2>. QED BY <2>1, <2>2 DEF Units, HeldFor, UnitsOfOrders
<1>. QED BY <1>1, KeptAlways, PTL

\* The points of every account add up to its movements and redemptions, whatever
\* order its purchases, its orders' ends and the operators' decisions come in, as
\* long as none was decided twice and no balance was cut at zero.
THEOREM PointsAddUp == Spec => []PointsBooks
<1>1. Kept => PointsBooks
  BY LoyalMeans DEF Kept
<1>. QED BY <1>1, KeptAlways, PTL

\* Even then no customer loses points it earned.
THEOREM PointsNeverLost == Spec => []NeverShort
<1>1. Kept => NeverShort
  BY LoyalMeans DEF Kept
<1>. QED BY <1>1, KeptAlways, PTL

----------------------------------------------------------------------------
\* What a page is told: by a step that answers its call, or never.
LEMMA ToldNothing ==
    ASSUME Typed, NEW c \in Calls, NEW b \in Shoppers
    PROVE  Told(c, 0)[b].result = shopper[b].result
<1>1. shopper[b] \in Page
  BY DEF Typed
<1>2. PICK x : x = shopper[b]
  OBVIOUS
<1>3. Told(c, 0)[b] = IF x.waiting # c THEN x ELSE [x EXCEPT !.waiting = NoCall]
  BY <1>2 DEF Told
<1>. QED BY <1>1, <1>2, <1>3 DEF Page

Own(b, n) == n \in deleted \/ orders[n].request[1] = b

LEMMA OwnEnd ==
    ASSUME Checkout, NEW c \in Calls, NEW n \in 0 .. MaxNumber, Ends(c, n),
           n # 0 => n \in deleted \/ orders[n].request = call[c].request,
           NEW b \in Shoppers, shopper'[b].result # shopper[b].result
    PROVE  Own(b, shopper'[b].result)
<1>1. Typed /\ Answers
  BY DEF Checkout
<1>2. n # 0
  BY <1>1, ToldNothing DEF Ends
<1>3. shopper[b].waiting = c /\ shopper'[b].result = n
  BY <1>1, ToldPages DEF Ends
<1>4. call[c].request[1] = b
  BY <1>1, <1>3 DEF Answers
<1>. QED BY <1>2, <1>3, <1>4 DEF Own

LEMMA OwnServed ==
    ASSUME Checkout, NEW c \in Calls, Serve(c),
           NEW b \in Shoppers, shopper'[b].result # shopper[b].result
    PROVE  Own(b, shopper'[b].result)
<1>1. Typed /\ Snapshots /\ Answers /\ 0 \in 0 .. MaxNumber
  BY NumbersAssumption DEF Checkout
<1>2. CASE Ends(c, 0)
  BY <1>1, <1>2, OwnEnd
<1>3. CASE Save(c)
  <2>1. Ends(c, call[c].number) /\ At(c, "save") /\ Serves(c)
    BY <1>3 DEF Save, At, Serves
  <2>2. call[c].number \in 0 .. MaxNumber
    BY <1>1, <2>1, ServingCalls
  <2>3. call[c].number \in deleted \/ orders[call[c].number].request = call[c].request
    BY <1>1, <2>1 DEF Answers
  <2>. QED BY <2>1, <2>2, <2>3, OwnEnd
<1>4. ASSUME NEW w \in Quotable, Quoted(c, w), ~UNCHANGED shopper, ~Ends(c, 0)
      PROVE  Own(b, shopper'[b].result)
  <2>1. PICK r, entry : r = call[c].request /\ entry = index[r]
    OBVIOUS
  <2>2. entry # NoEntry /\ Ends(c, entry.number) /\ Serves(c)
    BY <1>4, <2>1 DEF Quoted, At, Serves
  <2>3. r \in Requests /\ entry.number \in Numbers
    BY <1>1, <2>1, <2>2, ServingCalls DEF Typed, IndexMap, Entry
  <2>4. entry.number \in deleted \/ orders[entry.number].request = r
    BY <1>1, <2>1, <2>2, <2>3 DEF Snapshots, Sound, EntriesName, Memory
  <2>5. entry.number \in 0 .. MaxNumber
    BY <2>3, NumbersAssumption DEF Numbers
  <2>. QED BY <2>1, <2>2, <2>4, <2>5, OwnEnd
<1>5. UNCHANGED shopper \/ Ends(c, 0) \/ Save(c) \/ \E w \in Quotable : Quoted(c, w)
  BY DEF Serve, QuoteFails, Plan, Reserve, Enter
<1>. QED BY <1>2, <1>3, <1>4, <1>5

\* The order a page shows as its own was made for its shopper, unless an operator
\* deleted it: numbers are given again after a restart, and the index outlives orders,
\* yet no answer of createCheckoutOrder reaches another shopper's page.
THEOREM OwnAnswer == Spec => AnswerIsOwn
<1>1. ASSUME Kept, [Next]_vars, NEW b \in Shoppers, shopper'[b].result # shopper[b].result
      PROVE  Own(b, shopper'[b].result)
  <2>1. Checkout /\ Typed
    BY <1>1 DEF Kept, Checkout
  <2>2. ASSUME NEW x \in Shoppers, NEW a \in Shoppers, NEW c \in Calls,
               Lose(a) \/ Edit(a) \/ handleSubmit(a, c)
        PROVE  shopper'[x].result = shopper[x].result
    <3>1. shopper[x] \in Page /\ shopper[a] \in Page /\ shopper \in [Shoppers -> Page]
      BY <2>1 DEF Typed
    <3>2. CASE Lose(a)
      BY <3>1, <3>2 DEF Lose, Page
    <3>3. CASE Edit(a)
      BY <3>1, <3>3 DEF Edit, Page
    <3>4. CASE handleSubmit(a, c)
      BY <3>1, <3>4 DEF handleSubmit, Page
    <3>. QED BY <2>2, <3>2, <3>3, <3>4
  <2>3. CASE Restart
    <3>1. shopper[b] \in Page /\ shopper'[b] = [shopper[b] EXCEPT !.waiting = NoCall]
      BY <2>1, <2>3 DEF Typed, Restart
    <3>. QED BY <1>1, <3>1 DEF Page
  <2>4. ASSUME NEW c \in Calls, Serve(c) PROVE Own(b, shopper'[b].result)
    BY <1>1, <2>1, <2>4, OwnServed
  <2>5. ASSUME Operate \/ (\E n \in Numbers : deleteOrder(n)) \/ UNCHANGED vars PROVE UNCHANGED shopper
    BY <2>5 DEF Operate, Sell, Cancel, deleteOrder, checkoutVars, vars
  <2>6. ASSUME NEW a \in Shoppers, Lose(a) \/ Edit(a) PROVE shopper'[b].result = shopper[b].result
    <3>1. shopper[b] \in Page /\ shopper[a] \in Page /\ shopper \in [Shoppers -> Page]
      BY <2>1 DEF Typed
    <3>. QED BY <2>6, <3>1 DEF Lose, Edit, Page
  <2>. QED BY <1>1, <2>2, <2>3, <2>4, <2>5, <2>6 DEF Next
<1>2. Kept /\ [Next]_vars
         => [\A b \in Shoppers :
               LET n == shopper'[b].result
               IN  n # shopper[b].result => n \in deleted \/ orders[n].request[1] = b]_vars
  BY <1>1 DEF Own
<1>. QED BY <1>2, KeptAlways, PTL DEF Spec, AnswerIsOwn
=============================================================================
