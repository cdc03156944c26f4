--------------------------- MODULE LoyaltyAccounts ---------------------------
(***************************************************************************)
(* LoyaltyService: the accounts, movements and redemptions it keeps in     *)
(* memory.  Every handler changes them before its first await, so each is  *)
(* one step; what can go wrong is the order in which the handlers come: a  *)
(* reversal after the points were redeemed, a redemption decided by two    *)
(* operators, two movements that name the same order.                      *)
(***************************************************************************)
EXTENDS Integers, Sequences, FiniteSetsExt, Tallies

CONSTANTS
    Customers,          \* customers, by the normalised name that is their key
    OrderNumbers,       \* numbers an order can have
    NoNumber,           \* a movement of no order
    RedemptionPoints,   \* points a redemption can ask for
    MaxManual,          \* bound on the movements an operator assigns
    MaxRedemptions,     \* bound on the redemptions created
    MaxDecisions        \* bound on the decisions taken on one redemption

ASSUME OrderNumbersAssumption == NoNumber \notin OrderNumbers
ASSUME RedemptionsAssumption ==
    /\ RedemptionPoints \subseteq Nat \ {0}
    /\ MaxManual \in Nat /\ MaxRedemptions \in Nat /\ MaxDecisions \in Nat

VARIABLES
    account,        \* accounts
    movements,      \* movements, in the order they were created
    redemptions,    \* redemptions, by their number
    uneven          \* history: customers with a clamped balance or a second decision

loyaltyVars == <<account, movements, redemptions, uneven>>

Kinds == {"earn", "redeem", "bonus"}
Account == [available : Nat, pending : Nat, redeemed : Nat]
Movement == [of : Customers, order : OrderNumbers \cup {NoNumber}, kind : Kinds,
             source : {"order", "manual", "redemption"}, points : Nat,
             status : {"pending", "available", "reversed"}]
Redemption == [of : Customers, points : Nat,
               status : {"pending", "applied", "cancelled"},
               decisions : 0 .. MaxDecisions]       \* history: decisions taken on it

EmptyAccount == [available |-> 0, pending |-> 0, redeemed |-> 0]

LoyaltyInit ==
    /\ account = [c \in Customers |-> EmptyAccount]
    /\ movements = <<>>
    /\ redemptions = <<>>
    /\ uneven = {}

----------------------------------------------------------------------------
\* Math.max(0, balance - points).
Less(balance, points) == IF balance < points THEN 0 ELSE balance - points

\* applyMovementToAccount.
Applied(a, m) ==
    IF m.kind = "redeem"
    THEN [a EXCEPT !.available = Less(@, m.points), !.pending = @ + m.points]
    ELSE IF m.status = "pending" THEN [a EXCEPT !.pending = @ + m.points]
    ELSE [a EXCEPT !.available = @ + m.points]

Short(c, points) == account[c].available < points

\* assignPoints; recordOrderPoints calls it for an order, an operator for anything.
Assigned(m) ==
    /\ account' = [account EXCEPT ![m.of] = Applied(@, m)]
    /\ movements' = Append(movements, m)
    /\ uneven' = uneven \cup (IF m.kind = "redeem" /\ Short(m.of, m.points) THEN {m.of} ELSE {})
    /\ UNCHANGED redemptions

recordOrderPoints(c, n, points, status) ==
    Assigned([of |-> c, order |-> n, kind |-> "earn", source |-> "order",
              points |-> points, status |-> status])

Manual == {i \in DOMAIN movements : movements[i].source = "manual"}

assignPoints(c, kind, points, status) ==
    /\ Cardinality(Manual) < MaxManual
    /\ Assigned([of |-> c, order |-> NoNumber, kind |-> kind, source |-> "manual",
                 points |-> points, status |-> status])

\* findMovementByOrderNumber: the first movement that names the order.
MovementsOf(n) == {i \in DOMAIN movements : movements[i].order = n}
FirstOf(n) == CHOOSE i \in MovementsOf(n) : \A j \in MovementsOf(n) : i <= j

\* settleOrderPoints: settled points stay so; reversed ones make it throw.
settleOrderPoints(n) ==
    /\ MovementsOf(n) # {}
    /\ LET m == movements[FirstOf(n)]
       IN  IF m.status # "pending" THEN UNCHANGED <<account, movements>>
           ELSE /\ account' = [account EXCEPT ![m.of].pending = Less(@, m.points),
                                              ![m.of].available = @ + m.points]
                /\ movements' = [movements EXCEPT ![FirstOf(n)].status = "available"]
    /\ UNCHANGED <<redemptions, uneven>>

\* reverseOrderPoints, from where the points are; mutated, it always takes them
\* from the pending balance.
ReversePending(n) ==
    /\ MovementsOf(n) # {}
    /\ LET m == movements[FirstOf(n)]
       IN  IF m.status = "reversed" THEN UNCHANGED <<account, movements>>
           ELSE /\ account' = [account EXCEPT ![m.of].pending = Less(@, m.points)]
                /\ movements' = [movements EXCEPT ![FirstOf(n)].status = "reversed"]
    /\ UNCHANGED <<redemptions, uneven>>

reverseOrderPoints(n) ==
    /\ MovementsOf(n) # {}
    /\ LET m == movements[FirstOf(n)]
       IN  CASE m.status = "reversed" -> UNCHANGED <<account, movements, uneven>>
             [] m.status = "pending" ->
                  /\ account' = [account EXCEPT ![m.of].pending = Less(@, m.points)]
                  /\ movements' = [movements EXCEPT ![FirstOf(n)].status = "reversed"]
                  /\ UNCHANGED uneven
             [] m.status = "available" ->
                  /\ account' = [account EXCEPT ![m.of].available = Less(@, m.points)]
                  /\ movements' = [movements EXCEPT ![FirstOf(n)].status = "reversed"]
                  /\ uneven' = uneven \cup (IF Short(m.of, m.points) THEN {m.of} ELSE {})
    /\ UNCHANGED redemptions

----------------------------------------------------------------------------
\* createRedemption: its own movement moves no balance.
createRedemption(c, points) ==
    /\ Len(redemptions) < MaxRedemptions
    /\ ~Short(c, points)
    /\ redemptions' = Append(redemptions, [of |-> c, points |-> points, status |-> "pending",
                                           decisions |-> 0])
    /\ account' = [account EXCEPT ![c].available = @ - points, ![c].pending = @ + points]
    /\ movements' = Append(movements, [of |-> c, order |-> NoNumber, kind |-> "redeem",
                                       source |-> "redemption", points |-> points,
                                       status |-> "pending"])
    /\ UNCHANGED uneven

\* updateRedemptionStatus: only the opposite decision is refused, so the same one
\* can be taken again.  Mutated, a cancellation does not give the points back.
DecidedKeepsPoints(a, points, status) ==
    IF status = "applied"
    THEN [a EXCEPT !.pending = Less(@, points), !.redeemed = @ + points]
    ELSE [a EXCEPT !.pending = Less(@, points)]

Decided(a, points, status) ==
    IF status = "applied"
    THEN [a EXCEPT !.pending = Less(@, points), !.redeemed = @ + points]
    ELSE [a EXCEPT !.pending = Less(@, points), !.available = @ + points]

updateRedemptionStatus(i, status) ==
    LET r == redemptions[i]
    IN  /\ r.decisions < MaxDecisions
        /\ r.status \in {"pending", status}
        /\ account' = [account EXCEPT ![r.of] = Decided(@, r.points, status)]
        /\ redemptions' = [redemptions EXCEPT ![i].status = status, ![i].decisions = @ + 1]
        /\ uneven' = uneven \cup (IF r.status = "pending" THEN {} ELSE {r.of})
        /\ UNCHANGED movements

\* What operators do in the loyalty panel.
OperateLoyalty ==
    \/ \E c \in Customers, points \in RedemptionPoints :
          \/ createRedemption(c, points)
          \/ assignPoints(c, "bonus", points, "available")
          \/ assignPoints(c, "earn", points, "pending")
          \/ assignPoints(c, "redeem", points, "available")
    \/ \E i \in DOMAIN redemptions, status \in {"applied", "cancelled"} :
          updateRedemptionStatus(i, status)

----------------------------------------------------------------------------
LoyaltyTypeOK ==
    /\ account \in [Customers -> Account]
    /\ \A i \in DOMAIN movements : movements[i] \in Movement
    /\ \A i \in DOMAIN redemptions : redemptions[i] \in Redemption
    /\ uneven \subseteq Customers

Sum(records, ids) == Tally([i \in ids |-> records[i].points])

Credits(c, statuses) ==
    Sum(movements, {i \in DOMAIN movements :
        movements[i].of = c /\ movements[i].kind # "redeem" /\ movements[i].status \in statuses})
ByHand(c) ==
    Sum(movements, {i \in DOMAIN movements :
        movements[i].of = c /\ movements[i].kind = "redeem" /\ movements[i].source = "manual"})
Redeemed(c, statuses) ==
    Sum(redemptions, {i \in DOMAIN redemptions :
        redemptions[i].of = c /\ redemptions[i].status \in statuses})

\* An account is the sum of its history: what is pending waits for an order or a
\* redemption, what is spendable was earned and not yet redeemed
\* (docs/flows/loyalty-flow.md, "saldo `available`, saldo `pending`, saldo
\* `redeemed`"), as long as no redemption was decided twice and no balance was
\* cut at zero.
PointsBooks ==
    \A c \in Customers \ uneven :
        /\ account[c].pending = Credits(c, {"pending"}) + ByHand(c) + Redeemed(c, {"pending"})
        /\ account[c].available + ByHand(c) + Redeemed(c, {"pending", "applied"})
              = Credits(c, {"available"})
        /\ account[c].redeemed = Redeemed(c, {"applied"})

\* A customer never loses points it earned, whatever was decided twice or cut:
\* the account always accounts for every movement that was not reversed.
NeverShort ==
    \A c \in Customers :
        account[c].available + account[c].pending + account[c].redeemed
           >= Credits(c, {"pending", "available"})
=============================================================================
