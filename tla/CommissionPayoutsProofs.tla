----------------------- MODULE CommissionPayoutsProofs -----------------------
(***************************************************************************)
(* Theorems about CommissionPayouts for any finite number of orders and    *)
(* any vendors, periods, rates, totals and adjustments, with the queue or  *)
(* without it.                                                             *)
(*                                                                         *)
(* A handler computes a book from a view and a book, whoever runs it: what *)
(* it promises is a lemma about the two.  The books, the writes under way  *)
(* and the snapshot only ever hold what a handler left, so a property of   *)
(* one book that handlers preserve holds of every copy.                    *)
(***************************************************************************)
EXTENDS CommissionPayouts, FiniteSetTheorems, TLAPS

(***************************************************************************)
(* Types.                                                                  *)
(***************************************************************************)

\* A number of tokens is as many.
LEMMA Pile ==
    ASSUME NEW i, NEW n \in Nat
    PROVE  IsFiniteSet({i} \X (1 .. n))
<1>1. IsFiniteSet({i})
  BY FS_Singleton
<1>2. IsFiniteSet(1 .. n)
  BY FS_Interval
<1> QED BY <1>1, <1>2, FS_Product

\* What finitely many natural numbers add up to is one.
LEMMA TallyIsNat ==
    ASSUME NEW S, IsFiniteSet(S), NEW n \in [S -> Nat]
    PROVE  Tally(n) \in Nat
<1> DEFINE piles == {{i} \X (1 .. n[i]) : i \in S}
           pile == [i \in S |-> {i} \X (1 .. n[i])]
<1>1. pile \in Surjection(S, piles)
  BY DEF Surjection
<1>2. IsFiniteSet(piles)
  <2> HIDE DEF pile, piles
  <2> QED BY <1>1, FS_Surjection
<1>3. \A T \in piles : IsFiniteSet(T)
  <2> SUFFICES ASSUME NEW i \in S PROVE IsFiniteSet({i} \X (1 .. n[i]))
    OBVIOUS
  <2>1. n[i] \in Nat
    OBVIOUS
  <2> QED BY <2>1, Pile
<1>4. IsFiniteSet(UNION piles)
  BY <1>2, <1>3, FS_UNION
<1>5. Tokens(n) = UNION piles
  BY DEF Tokens
<1> QED BY <1>4, <1>5, FS_CardinalityType DEF Tally

LEMMA GrossIsNat ==
    ASSUME IsFiniteSet(Orders), NEW ids \in SUBSET Orders,
           NEW commissions \in [Orders -> Commissions \cup {NoCommission}],
           \A o \in ids : commissions[o] # NoCommission
    PROVE  Gross(commissions, ids) \in Nat
<1>1. IsFiniteSet(ids)
  BY FS_Subset
<1>2. \A o \in ids : commissions[o].amount \in Nat
  BY DEF Commissions
<1> QED BY <1>1, <1>2, TallyIsNat DEF Gross

LEMMA AttachedIs ==
    ASSUME NEW b, NEW id, NEW o
    PROVE  /\ Attached(b, id) \subseteq Orders
           /\ o \in Attached(b, id) <=> /\ o \in Orders /\ b.commissions[o] # NoCommission
                                        /\ b.commissions[o].payoutId = id
BY DEF Attached

\* The payout found is there and is the vendor's, of the period; there is none otherwise.
LEMMA FindPayoutGives ==
    ASSUME NEW b \in Books, NEW v, NEW period
    PROVE  \/ /\ FindPayout(b, v, period) \in PayoutIds
              /\ b.payouts[FindPayout(b, v, period)] # NoPayout
              /\ b.payouts[FindPayout(b, v, period)].vendor = v
              /\ FindPayout(b, v, period)[2] = period
           \/ /\ FindPayout(b, v, period) = NoPayout
              /\ \A id \in PayoutIds :
                    id[2] = period /\ b.payouts[id] # NoPayout => b.payouts[id].vendor # v
BY DEF FindPayout

\* The payout of a commission is there, if it has one; the one it had is kept while there.
LEMMA PayoutForGives ==
    ASSUME NEW b \in Books, NEW o \in Orders, NEW v
    PROVE  /\ PayoutFor(b, o, v) \in PayoutIds \cup {NoPayout}
           /\ PayoutFor(b, o, v) # NoPayout => b.payouts[PayoutFor(b, o, v)] # NoPayout
           /\ \/ PayoutFor(b, o, v) # NoPayout /\ o \in Attached(b, PayoutFor(b, o, v))
              \/ PayoutFor(b, o, v) = FindPayout(b, v, PeriodOf[o])
           /\ \A id \in PayoutIds : o \in Attached(b, id) /\ b.payouts[id] # NoPayout
                 => PayoutFor(b, o, v) = id
<1>1. NoPayout \notin PayoutIds
  BY AbsentAssumption
<1>2. b.commissions[o] # NoCommission => b.commissions[o].payoutId \in PayoutIds \cup {NoPayout}
  BY DEF Books, Commissions
<1> QED BY <1>1, <1>2, FindPayoutGives DEF PayoutFor, Attached

LEMMA StatusIsOne ==
    ASSUME NEW w \in Views, NEW b \in Books, NEW o \in Orders, w.orders[o].vendor # NoVendor,
           NEW active \in BOOLEAN, NEW id \in PayoutIds \cup {NoPayout},
           id # NoPayout => b.payouts[id] # NoPayout, NEW previous
    PROVE  ResolveStatus(w.orders[o], active, PayoutStatus(b, id), previous) \in CommissionStatuses
<1>1. w.orders[o] \in OrderRecords /\ w.orders[o] # AbsentOrder
  BY DEF Views, AbsentOrder
<1>2. w.orders[o].state \in OrderStates
  BY <1>1 DEF OrderRecords
<1>3. PayoutStatus(b, id) \in {NoPayout, "approved", "paid"}
  BY DEF PayoutStatus, Books, Payouts
<1> QED BY <1>2, <1>3, AbsentAssumption DEF ResolveStatus, OrderStates, CommissionStatuses

LEMMA SyncedCommission ==
    ASSUME NEW w \in Views, NEW b \in Books, NEW o \in Orders
    PROVE  SyncOrderCommission(w, b, o) \in Commissions \cup {NoCommission}
<1>1. CASE w.orders[o].vendor = NoVendor
  BY <1>1 DEF SyncOrderCommission, Books
<1>2. CASE w.orders[o].vendor # NoVendor
  <2> DEFINE id == PayoutFor(b, o, w.orders[o].vendor)
             status == ResolveStatus(w.orders[o], w.orders[o].vendor \in w.active,
                                     PayoutStatus(b, id), PreviousStatus(b.commissions[o]))
  <2>1. id \in PayoutIds \cup {NoPayout} /\ (id # NoPayout => b.payouts[id] # NoPayout)
    BY PayoutForGives
  <2>2. w.orders[o].vendor \in Vendors
    BY <1>2 DEF Views, OrderRecords, AbsentOrder
  <2>3. Totals[o] * w.rate \in Nat
    <3>1. Totals[o] \in Nat /\ w.rate \in Nat
      BY OrdersAssumption, ValuesAssumption DEF Views
    <3>2. \A m, n \in Nat : m * n \in Nat
      OBVIOUS
    <3> QED BY <3>1, <3>2
  <2> HIDE DEF id
  <2>4. status \in CommissionStatuses
    <3>1. (w.orders[o].vendor \in w.active) \in BOOLEAN
      OBVIOUS
    <3> QED BY <1>2, <2>1, <3>1, StatusIsOne
  <2> HIDE DEF status
  <2>5. SyncOrderCommission(w, b, o) = [vendor |-> w.orders[o].vendor, amount |-> Totals[o] * w.rate,
                                        status |-> status, payoutId |-> id]
    BY <1>2 DEF SyncOrderCommission, id, status
  <2> QED BY <2>1, <2>2, <2>3, <2>4, <2>5 DEF Commissions
<1> QED BY <1>1, <1>2


----------------------------------------------------------------------------
(***************************************************************************)
(* What reconcilePayouts and the handlers leave.                           *)
(***************************************************************************)

\* A payout lists exactly the commissions that name it, its amounts are theirs, and no
\* commission names a payout that is gone.
Listed(b) ==
    \A id \in PayoutIds :
        /\ b.payouts[id] = NoPayout <=> Attached(b, id) = {}
        /\ b.payouts[id] # NoPayout =>
              /\ b.payouts[id].commissionIds = Attached(b, id)
              /\ b.payouts[id].gross = Gross(b.commissions, Attached(b, id))
              /\ b.payouts[id].net = b.payouts[id].gross + b.payouts[id].adjustment

\* The payouts that commissions name are there.
Named(b) == \A id \in PayoutIds : Attached(b, id) # {} => b.payouts[id] # NoPayout

LEMMA SameAttached ==
    ASSUME NEW b, NEW c, c.commissions = b.commissions, NEW id
    PROVE  Attached(c, id) = Attached(b, id)
BY DEF Attached

LEMMA PayoutReconciled ==
    ASSUME IsFiniteSet(Orders), NEW b \in Books, NEW id \in PayoutIds, NEW lead \in Vendors,
           b.payouts[id] # NoPayout, Attached(b, id) # {}
    PROVE  LET payout == ReconcilePayout(b, id, lead)
           IN /\ payout \in Payouts
              /\ payout.vendor = lead
              /\ payout.status = b.payouts[id].status
              /\ payout.adjustment = b.payouts[id].adjustment
              /\ payout.commissionIds = Attached(b, id)
              /\ payout.gross = Gross(b.commissions, Attached(b, id))
              /\ payout.net = payout.gross + payout.adjustment
<1> DEFINE ids == Attached(b, id)
           gross == Gross(b.commissions, ids)
           payout == ReconcilePayout(b, id, lead)
<1>1. b.payouts[id] \in Payouts
  BY DEF Books
<1>2. ids \in SUBSET Orders /\ \A o \in ids : b.commissions[o] # NoCommission
  BY DEF Attached
<1>3. gross \in Nat
  <2> HIDE DEF ids
  <2> QED BY <1>2, GrossIsNat DEF Books
<1>4. payout = [b.payouts[id] EXCEPT !.vendor = lead, !.commissionIds = ids, !.gross = gross,
                                     !.net = gross + b.payouts[id].adjustment]
  BY DEF ReconcilePayout
<1> HIDE DEF ids, gross, payout
<1>5. gross + b.payouts[id].adjustment \in Int
  BY <1>1, <1>3 DEF Payouts
<1>6. payout \in Payouts
  BY <1>1, <1>2, <1>3, <1>4, <1>5 DEF Payouts
<1>7. /\ payout.vendor = lead /\ payout.status = b.payouts[id].status
      /\ payout.adjustment = b.payouts[id].adjustment /\ payout.commissionIds = ids
      /\ payout.gross = gross /\ payout.net = gross + b.payouts[id].adjustment
  BY <1>1, <1>4 DEF Payouts
<1> QED BY <1>6, <1>7 DEF ids, gross, payout

\* What a reconciliation keeps and makes true.
Reconciles(b, r) ==
    /\ r \in Books
    /\ r.commissions = b.commissions
    /\ Listed(r)
    /\ \A id \in PayoutIds : r.payouts[id] # NoPayout =>
          /\ b.payouts[id] # NoPayout
          /\ r.payouts[id].status = b.payouts[id].status
          /\ \E o \in Attached(b, id) : r.payouts[id].vendor = b.commissions[o].vendor

LEMMA ReconcileGives ==
    ASSUME IsFiniteSet(Orders), NEW b \in Books, Named(b), NEW r \in Reconcile(b)
    PROVE  Reconciles(b, r)
<1>1. PICK lead \in Leads(b) :
          r = [b EXCEPT !.payouts = [id \in PayoutIds |-> ReconcilePayout(b, id, lead[id])]]
  BY DEF Reconcile
<1>2. /\ r.commissions = b.commissions
      /\ r.payouts = [id \in PayoutIds |-> ReconcilePayout(b, id, lead[id])]
      /\ r = [commissions |-> r.commissions, payouts |-> r.payouts]
  BY <1>1 DEF Books
<1>3. ASSUME NEW id \in PayoutIds
      PROVE  /\ lead[id] \in Vendors
             /\ Attached(b, id) # {} => \E o \in Attached(b, id) : lead[id] = b.commissions[o].vendor
  BY ZenonT(40) DEF Leads
<1>4. \A id \in PayoutIds : Attached(r, id) = Attached(b, id)
  BY <1>2, SameAttached
<1>5. ASSUME NEW id \in PayoutIds, Attached(b, id) = {}
      PROVE  r.payouts[id] = NoPayout
  BY <1>2, <1>5 DEF ReconcilePayout
<1>6. ASSUME NEW id \in PayoutIds, Attached(b, id) # {}
      PROVE  LET payout == r.payouts[id]
             IN /\ payout \in Payouts /\ payout # NoPayout
                /\ payout.vendor = lead[id]
                /\ payout.status = b.payouts[id].status
                /\ payout.commissionIds = Attached(b, id)
                /\ payout.gross = Gross(b.commissions, Attached(b, id))
                /\ payout.net = payout.gross + payout.adjustment
                /\ b.payouts[id] # NoPayout
  <2>1. b.payouts[id] # NoPayout /\ lead[id] \in Vendors
    BY <1>3, <1>6 DEF Named
  <2>2. r.payouts[id] = ReconcilePayout(b, id, lead[id])
    BY <1>2
  <2> QED BY <1>6, <2>1, <2>2, PayoutReconciled, AbsentAssumption
<1>7. r \in Books
  <2>1. \A id \in PayoutIds : r.payouts[id] \in Payouts \cup {NoPayout}
    BY <1>5, <1>6
  <2>2. r.payouts \in [PayoutIds -> Payouts \cup {NoPayout}]
    BY <1>2, <2>1
  <2> QED BY <1>2, <2>2 DEF Books
<1>8. Listed(r)
  <2> SUFFICES ASSUME NEW id \in PayoutIds
               PROVE  /\ r.payouts[id] = NoPayout <=> Attached(r, id) = {}
                      /\ r.payouts[id] # NoPayout =>
                            /\ r.payouts[id].commissionIds = Attached(r, id)
                            /\ r.payouts[id].gross = Gross(r.commissions, Attached(r, id))
                            /\ r.payouts[id].net = r.payouts[id].gross + r.payouts[id].adjustment
    BY DEF Listed
  <2> QED BY <1>2, <1>4, <1>5, <1>6
<1>9. ASSUME NEW id \in PayoutIds, r.payouts[id] # NoPayout
      PROVE  /\ b.payouts[id] # NoPayout
             /\ r.payouts[id].status = b.payouts[id].status
             /\ \E o \in Attached(b, id) : r.payouts[id].vendor = b.commissions[o].vendor
  BY <1>3, <1>5, <1>6, <1>9
<1> QED BY <1>2, <1>7, <1>8, <1>9 DEF Reconciles

\* The books before their reconciliation.
Synced(w, b) == [b EXCEPT !.commissions = [o \in Orders |-> SyncOrderCommission(w, b, o)]]
Prepared(b, id, adjustment) ==
    LET ids == Eligible(b, id)
        gross == Gross(b.commissions, ids)
    IN [commissions |-> [o \in Orders |->
             IF o \in ids
             THEN [b.commissions[o] EXCEPT !.payoutId = id, !.status = "scheduled_for_payout"]
             ELSE b.commissions[o]],
        payouts |-> [b.payouts EXCEPT ![id] =
             [vendor |-> id[1], status |-> "approved", commissionIds |-> ids,
              gross |-> gross, adjustment |-> adjustment, net |-> gross + adjustment]]]
Settling(b, id) ==
    [commissions |-> [o \in Orders |->
         IF o \in Attached(b, id) THEN [b.commissions[o] EXCEPT !.status = "paid"]
         ELSE b.commissions[o]],
     payouts |-> [b.payouts EXCEPT ![id].status = "paid"]]

LEMMA SyncIs == ASSUME NEW w, NEW b PROVE SyncFromOrders(w, b) = Reconcile(Synced(w, b))
BY DEF SyncFromOrders, Synced
LEMMA CreateIs ==
    ASSUME NEW b, NEW id, NEW adjustment
    PROVE  CreatePayout(b, id, adjustment) = Reconcile(Prepared(b, id, adjustment))
BY DEF CreatePayout, Prepared
LEMMA SettleIs == ASSUME NEW b, NEW id PROVE SettlePayout(b, id) = Reconcile(Settling(b, id))
BY DEF SettlePayout, Settling


LEMMA ListedNames ==
    ASSUME NEW b \in Books, Listed(b)
    PROVE  Named(b)
BY DEF Listed, Named

\* The commission of an order after a synchronisation.
LEMMA SyncedGives ==
    ASSUME NEW w \in Views, NEW b \in Books
    PROVE  /\ Synced(w, b) \in Books
           /\ Synced(w, b).payouts = b.payouts
           /\ \A o \in Orders : Synced(w, b).commissions[o] = SyncOrderCommission(w, b, o)
<1> DEFINE c == [o \in Orders |-> SyncOrderCommission(w, b, o)]
<1>1. c \in [Orders -> Commissions \cup {NoCommission}]
  BY SyncedCommission
<1>2. Synced(w, b) = [b EXCEPT !.commissions = c]
  BY DEF Synced
<1>3. \A o \in Orders : c[o] = SyncOrderCommission(w, b, o)
  OBVIOUS
<1> HIDE DEF c
<1> QED BY <1>1, <1>2, <1>3 DEF Books

LEMMA SyncedNames ==
    ASSUME NEW w \in Views, NEW b \in Books, Listed(b)
    PROVE  Named(Synced(w, b))
<1> SUFFICES ASSUME NEW id \in PayoutIds, NEW o \in Attached(Synced(w, b), id)
             PROVE  b.payouts[id] # NoPayout
  BY SyncedGives DEF Named
<1>1. o \in Orders /\ SyncOrderCommission(w, b, o) # NoCommission
      /\ SyncOrderCommission(w, b, o).payoutId = id
  BY SyncedGives, AttachedIs
<1>2. CASE w.orders[o].vendor = NoVendor
  <2>1. SyncOrderCommission(w, b, o) = b.commissions[o]
    BY <1>2 DEF SyncOrderCommission
  <2>2. o \in Attached(b, id)
    BY <1>1, <2>1, AttachedIs
  <2> QED BY <2>2, ListedNames DEF Named
<1>3. CASE w.orders[o].vendor # NoVendor
  <2>1. id = PayoutFor(b, o, w.orders[o].vendor)
    BY <1>1, <1>3 DEF SyncOrderCommission
  <2> QED BY <1>1, <2>1, PayoutForGives, AbsentAssumption
<1> QED BY <1>2, <1>3

\* After a synchronisation the books list what they should.
LEMMA SyncListed ==
    ASSUME IsFiniteSet(Orders), NEW w \in Views, NEW b \in Books, Listed(b),
           NEW s \in SyncFromOrders(w, b)
    PROVE  Reconciles(Synced(w, b), s)
<1>1. Synced(w, b) \in Books /\ Named(Synced(w, b))
  BY SyncedGives, SyncedNames
<1>2. s \in Reconcile(Synced(w, b))
  BY SyncIs
<1> QED BY <1>1, <1>2, ReconcileGives

\* The commissions a new payout pays.
LEMMA PreparedGives ==
    ASSUME IsFiniteSet(Orders), NEW b \in Books, NEW id \in PayoutIds, NEW adjustment \in Int
    PROVE  LET c == Prepared(b, id, adjustment)
           IN /\ c \in Books
              /\ \A o \in Eligible(b, id) :
                    /\ c.commissions[o] # NoCommission
                    /\ c.commissions[o].vendor = b.commissions[o].vendor
                    /\ c.commissions[o].payoutId = id
                    /\ c.commissions[o].status = "scheduled_for_payout"
              /\ \A o \in Orders \ Eligible(b, id) : c.commissions[o] = b.commissions[o]
              /\ c.payouts[id] # NoPayout /\ c.payouts[id].status = "approved"
              /\ \A i \in PayoutIds \ {id} : c.payouts[i] = b.payouts[i]
<1> DEFINE ids == Eligible(b, id)
           gross == Gross(b.commissions, ids)
           c == Prepared(b, id, adjustment)
           payout == [vendor |-> id[1], status |-> "approved", commissionIds |-> ids,
                      gross |-> gross, adjustment |-> adjustment, net |-> gross + adjustment]
<1>1. ids \in SUBSET Orders /\ \A o \in ids : b.commissions[o] # NoCommission
  BY DEF Eligible
<1>2. c.commissions = [o \in Orders |->
             IF o \in ids
             THEN [b.commissions[o] EXCEPT !.payoutId = id, !.status = "scheduled_for_payout"]
             ELSE b.commissions[o]]
  BY DEF Prepared
<1>3. c.payouts = [b.payouts EXCEPT ![id] = payout]
  BY DEF Prepared
<1>4. c = [commissions |-> c.commissions, payouts |-> c.payouts]
  BY DEF Prepared
<1>5. gross \in Nat
  <2> HIDE DEF ids
  <2> QED BY <1>1, GrossIsNat DEF Books
<1> HIDE DEF gross, ids, c
<1>6. payout \in Payouts
  <2>1. id[1] \in Vendors
    BY DEF PayoutIds
  <2>2. gross + adjustment \in Int
    BY <1>5
  <2> QED BY <1>1, <1>5, <2>1, <2>2 DEF Payouts
<1>7. payout.status = "approved" /\ payout # NoPayout
  BY <1>6, AbsentAssumption
<1> HIDE DEF payout
<1>8. ASSUME NEW o \in ids
      PROVE  /\ c.commissions[o] \in Commissions
             /\ c.commissions[o].vendor = b.commissions[o].vendor
             /\ c.commissions[o].payoutId = id
             /\ c.commissions[o].status = "scheduled_for_payout"
  <2>1. o \in Orders /\ b.commissions[o] \in Commissions
    BY <1>1 DEF Books
  <2>2. c.commissions[o] =
            [b.commissions[o] EXCEPT !.payoutId = id, !.status = "scheduled_for_payout"]
    BY <1>2, <2>1
  <2> QED BY <2>1, <2>2 DEF Commissions, CommissionStatuses
<1>9. \A o \in Orders \ ids : c.commissions[o] = b.commissions[o]
  BY <1>2
<1>10. c.payouts[id] = payout /\ \A i \in PayoutIds \ {id} : c.payouts[i] = b.payouts[i]
  BY <1>3 DEF Books
<1>11. c \in Books
  <2>1. c.commissions \in [Orders -> Commissions \cup {NoCommission}]
    <3>1. \A o \in Orders : c.commissions[o] \in Commissions \cup {NoCommission}
      BY <1>8, <1>9 DEF Books
    <3> QED BY <1>2, <3>1
  <2>2. c.payouts \in [PayoutIds -> Payouts \cup {NoPayout}]
    BY <1>3, <1>6 DEF Books
  <2> QED BY <1>4, <2>1, <2>2 DEF Books
<1> QED BY <1>7, <1>8, <1>9, <1>10, <1>11, AbsentAssumption DEF c, ids

\* The commissions a settled payout has paid.
LEMMA SettlingGives ==
    ASSUME NEW b \in Books, NEW id \in PayoutIds, b.payouts[id] # NoPayout
    PROVE  LET c == Settling(b, id)
           IN /\ c \in Books
              /\ \A o \in Attached(b, id) :
                    /\ c.commissions[o] # NoCommission
                    /\ c.commissions[o].vendor = b.commissions[o].vendor
                    /\ c.commissions[o].payoutId = id
                    /\ c.commissions[o].status = "paid"
              /\ \A o \in Orders \ Attached(b, id) : c.commissions[o] = b.commissions[o]
              /\ c.payouts[id] # NoPayout /\ c.payouts[id].status = "paid"
              /\ c.payouts[id].vendor = b.payouts[id].vendor
              /\ \A i \in PayoutIds \ {id} : c.payouts[i] = b.payouts[i]
<1> DEFINE ids == Attached(b, id)
           c == Settling(b, id)
<1>1. ids \in SUBSET Orders /\ \A o \in ids : b.commissions[o] # NoCommission /\ b.commissions[o].payoutId = id
  BY DEF Attached
<1>2. c.commissions = [o \in Orders |-> IF o \in ids THEN [b.commissions[o] EXCEPT !.status = "paid"]
                                        ELSE b.commissions[o]]
  BY DEF Settling
<1>3. c.payouts = [b.payouts EXCEPT ![id].status = "paid"]
  BY DEF Settling
<1>4. c = [commissions |-> c.commissions, payouts |-> c.payouts]
  BY DEF Settling
<1> HIDE DEF ids, c
<1>5. ASSUME NEW o \in ids
      PROVE  /\ c.commissions[o] \in Commissions
             /\ c.commissions[o].vendor = b.commissions[o].vendor
             /\ c.commissions[o].payoutId = id
             /\ c.commissions[o].status = "paid"
  <2>1. o \in Orders /\ b.commissions[o] \in Commissions
    BY <1>1 DEF Books
  <2>2. c.commissions[o] = [b.commissions[o] EXCEPT !.status = "paid"]
    BY <1>2, <2>1
  <2> QED BY <1>1, <2>1, <2>2 DEF Commissions, CommissionStatuses
<1>6. \A o \in Orders \ ids : c.commissions[o] = b.commissions[o]
  BY <1>2
<1>7. /\ c.payouts[id] \in Payouts /\ c.payouts[id].status = "paid"
      /\ c.payouts[id].vendor = b.payouts[id].vendor
      /\ \A i \in PayoutIds \ {id} : c.payouts[i] = b.payouts[i]
  <2>1. b.payouts[id] \in Payouts
    BY DEF Books
  <2>2. c.payouts[id] = [b.payouts[id] EXCEPT !.status = "paid"]
    BY <1>3 DEF Books
  <2> QED BY <1>3, <2>1, <2>2 DEF Payouts, Books
<1>8. c \in Books
  <2>1. c.commissions \in [Orders -> Commissions \cup {NoCommission}]
    <3>1. \A o \in Orders : c.commissions[o] \in Commissions \cup {NoCommission}
      BY <1>5, <1>6 DEF Books
    <3> QED BY <1>2, <3>1
  <2>2. c.payouts \in [PayoutIds -> Payouts \cup {NoPayout}]
    <3>1. \A i \in PayoutIds : c.payouts[i] \in Payouts \cup {NoPayout}
      BY <1>7 DEF Books
    <3>2. c.payouts = [i \in PayoutIds |-> c.payouts[i]]
      BY <1>3 DEF Books
    <3> QED BY <3>1, <3>2
  <2> QED BY <1>4, <2>1, <2>2 DEF Books
<1> QED BY <1>5, <1>6, <1>7, <1>8, AbsentAssumption DEF c, ids

\* What is ready to be reconciled names payouts that are there.
LEMMA ReadyNames ==
    ASSUME IsFiniteSet(Orders), NEW b \in Books, Listed(b), NEW id \in PayoutIds
    PROVE  /\ \A adjustment \in Int : Named(Prepared(b, id, adjustment))
           /\ b.payouts[id] # NoPayout => Named(Settling(b, id))
<1>1. ASSUME NEW adjustment \in Int, NEW i \in PayoutIds,
             NEW o \in Attached(Prepared(b, id, adjustment), i)
      PROVE  Prepared(b, id, adjustment).payouts[i] # NoPayout
  <2> DEFINE c == Prepared(b, id, adjustment)
  <2>1. o \in Orders /\ c.commissions[o] # NoCommission /\ c.commissions[o].payoutId = i
    BY <1>1, AttachedIs
  <2>2. i # id => o \in Attached(b, i)
    BY <2>1, PreparedGives, AttachedIs
  <2>3. i # id => b.payouts[i] # NoPayout
    BY <2>2, ListedNames DEF Named
  <2> QED BY <2>3, PreparedGives
<1>2. ASSUME b.payouts[id] # NoPayout, NEW i \in PayoutIds, NEW o \in Attached(Settling(b, id), i)
      PROVE  Settling(b, id).payouts[i] # NoPayout
  <2> DEFINE c == Settling(b, id)
  <2>1. o \in Orders /\ c.commissions[o] # NoCommission /\ c.commissions[o].payoutId = i
    BY <1>2, AttachedIs
  <2>2. i # id => o \in Attached(b, i)
    BY <1>2, <2>1, SettlingGives, AttachedIs
  <2>3. i # id => b.payouts[i] # NoPayout
    BY <2>2, ListedNames DEF Named
  <2> QED BY <1>2, <2>3, SettlingGives
<1> QED BY <1>1, <1>2 DEF Named

LEMMA CreateListed ==
    ASSUME IsFiniteSet(Orders), NEW b \in Books, Listed(b), NEW id \in PayoutIds,
           NEW adjustment \in Int, NEW r \in CreatePayout(b, id, adjustment)
    PROVE  Reconciles(Prepared(b, id, adjustment), r)
<1> DEFINE c == Prepared(b, id, adjustment)
<1>1. c \in Books /\ Named(c)
  BY PreparedGives, ReadyNames
<1>2. r \in Reconcile(c)
  BY CreateIs
<1> HIDE DEF c
<1> QED BY <1>1, <1>2, ReconcileGives DEF c

LEMMA SettleListed ==
    ASSUME IsFiniteSet(Orders), NEW b \in Books, Listed(b), NEW id \in PayoutIds,
           b.payouts[id] # NoPayout, NEW r \in SettlePayout(b, id)
    PROVE  Reconciles(Settling(b, id), r)
<1> DEFINE c == Settling(b, id)
<1>1. c \in Books /\ Named(c)
  BY SettlingGives, ReadyNames
<1>2. r \in Reconcile(c)
  BY SettleIs
<1> HIDE DEF c
<1> QED BY <1>1, <1>2, ReconcileGives DEF c

----------------------------------------------------------------------------
(***************************************************************************)
(* What a step does to the books, whichever handler takes it.              *)
(***************************************************************************)

\* What a handler may leave, from a view and a book.
Handled(w, b, r) ==
    \E s \in SyncFromOrders(w, b) :
        \/ r = s
        \/ \E id \in PayoutIds, adjustment \in Int :
              CanCreate(s, id, adjustment) /\ r \in CreatePayout(s, id, adjustment)
        \/ \E id \in PayoutIds : CanSettle(s, id) /\ r \in SettlePayout(s, id)

LEMMA SyncKeepsLists ==
    ASSUME IsFiniteSet(Orders), NEW w \in Views, NEW b \in Books, Listed(b),
           NEW s \in SyncFromOrders(w, b)
    PROVE  s \in Books /\ Listed(s)
BY SyncListed DEF Reconciles

LEMMA HandledIsListed ==
    ASSUME IsFiniteSet(Orders), NEW w \in Views, NEW b \in Books, Listed(b), NEW r,
           Handled(w, b, r)
    PROVE  r \in Books /\ Listed(r)
<1>1. PICK s \in SyncFromOrders(w, b) :
        \/ r = s
        \/ \E id \in PayoutIds, adjustment \in Int :
              CanCreate(s, id, adjustment) /\ r \in CreatePayout(s, id, adjustment)
        \/ \E id \in PayoutIds : CanSettle(s, id) /\ r \in SettlePayout(s, id)
  BY DEF Handled
<1>2. s \in Books /\ Listed(s)
  BY SyncKeepsLists
<1>3. ASSUME NEW id \in PayoutIds, NEW adjustment \in Int, r \in CreatePayout(s, id, adjustment)
      PROVE  r \in Books /\ Listed(r)
  BY <1>2, <1>3, CreateListed DEF Reconciles
<1>4. ASSUME NEW id \in PayoutIds, CanSettle(s, id), r \in SettlePayout(s, id)
      PROVE  r \in Books /\ Listed(r)
  <2>1. s.payouts[id] # NoPayout
    BY <1>4 DEF CanSettle
  <2> QED BY <1>2, <1>4, <2>1, SettleListed DEF Reconciles
<1> QED BY <1>1, <1>2, <1>3, <1>4

Typed == TypeOK /\ spent \in [{"updates", "moves", "restarts"} -> Nat]

LEMMA ViewOf == ASSUME Typed, NEW p \in Processes PROVE view[p] \in Views /\ book[p] \in Books
BY DEF Typed, TypeOK

\* A process's book is what it was, what a handler left or, once it restarted, the snapshot;
\* what it writes is its book; the snapshot is what was written.
BooksMove ==
    /\ book' = [p \in Processes |-> book'[p]]
    /\ inFlight' = [p \in Processes |-> inFlight'[p]]
    /\ \A p \in Processes :
          /\ \/ book'[p] = book[p]
             \/ Handled(view[p], book[p], book'[p])
             \/ /\ book'[p] = saved
                /\ \A o \in Orders : paidOut'[p][o] = (IF Paid(saved, o) THEN 1 ELSE 0)
          /\ inFlight'[p] \in {inFlight[p], NoWrite, book'[p]}
    /\ \/ saved' = saved
       \/ \E p \in Processes : inFlight[p] # NoWrite /\ saved' = inFlight[p]

LEMMA Committed ==
    ASSUME Typed, NEW p \in Processes, NEW r, Handled(view[p], book[p], r), Commit(p, r),
           saved' = saved
    PROVE  BooksMove
BY DEF Commit, BooksMove, Typed, TypeOK

LEMMA CreateMoves ==
    ASSUME Typed, NEW p \in Processes, NEW id \in PayoutIds, NEW adjustment \in Int,
           createPayout(p, id, adjustment), saved' = saved
    PROVE  BooksMove
<1>1. PICK s \in SyncFromOrders(view[p], book[p]) :
        \/ /\ CanCreate(s, id, adjustment)
           /\ \E c \in CreatePayout(s, id, adjustment) : Commit(p, c)
        \/ Commit(p, s)
  BY DEF createPayout
<1>2. CASE Commit(p, s)
  BY <1>2, Committed DEF Handled
<1>3. ASSUME CanCreate(s, id, adjustment), NEW c \in CreatePayout(s, id, adjustment), Commit(p, c)
      PROVE  BooksMove
  <2>1. Handled(view[p], book[p], c)
    BY <1>3 DEF Handled
  <2> QED BY <1>3, <2>1, Committed
<1> QED BY <1>1, <1>2, <1>3

LEMMA SettleMoves ==
    ASSUME Typed, NEW p \in Processes, NEW id \in PayoutIds, settlePayout(p, id), saved' = saved
    PROVE  BooksMove
<1>1. PICK s \in SyncFromOrders(view[p], book[p]) :
        \/ CanSettle(s, id) /\ \E c \in SettlePayout(s, id) : Commit(p, c)
        \/ Commit(p, s)
  BY DEF settlePayout
<1>2. CASE Commit(p, s)
  BY <1>2, Committed DEF Handled
<1>3. ASSUME CanSettle(s, id), NEW c \in SettlePayout(s, id), Commit(p, c)
      PROVE  BooksMove
  <2>1. Handled(view[p], book[p], c)
    BY <1>3 DEF Handled
  <2> QED BY <1>3, <2>1, Committed
<1> QED BY <1>1, <1>2, <1>3

LEMMA BooksStay ==
    ASSUME Typed, UNCHANGED <<book, inFlight, saved>>
    PROVE  BooksMove
BY DEF BooksMove, Typed, TypeOK

LEMMA JobAdjustment ==
    ASSUME Typed, NEW job \in JobIds, jobs[job] \notin {NoJob, FailedJob}
    PROVE  jobs[job].adjustment \in Int
<1>1. jobs[job] \in WaitingJobs
  BY DEF Typed, TypeOK
<1>2. jobs[job].adjustment \in Adjustments \cup {0}
  BY <1>1 DEF WaitingJobs
<1>3. Adjustments \cup {0} \subseteq Int
  BY ValuesAssumption
<1> QED BY <1>2, <1>3, Zenon

LEMMA StepMovesBooks ==
    ASSUME Typed, [Next]_vars
    PROVE  BooksMove
<1>1. ASSUME NEW o \in Orders, \/ createCheckoutOrder(o) \/ updateOrder(o)
                               \/ assignOrderVendor(o) \/ DelayEnds(o)
      PROVE  BooksMove
  BY <1>1, BooksStay DEF createCheckoutOrder, updateOrder, assignOrderVendor, DelayEnds
<1>2. ASSUME NEW v \in Vendors, updateVendor(v) PROVE BooksMove
  BY <1>2, BooksStay DEF updateVendor
<1>3. ASSUME NEW rate \in Rates, updateRule(rate) PROVE BooksMove
  BY <1>3 DEF updateRule, BooksMove, Typed, TypeOK, Processes
<1>4. CASE listCommissions
  <2>1. PICK s \in SyncFromOrders(view["api"], book["api"]) : book' = [book EXCEPT !["api"] = s]
    BY <1>4 DEF listCommissions
  <2>2. Handled(view["api"], book["api"], s)
    BY DEF Handled
  <2> QED BY <1>4, <2>1, <2>2 DEF listCommissions, BooksMove, Typed, TypeOK, Processes
<1>5. CASE syncFromOrders
  <2>1. PICK s \in SyncFromOrders(view["api"], book["api"]) : Commit("api", s)
    BY <1>5 DEF syncFromOrders
  <2>2. Handled(view["api"], book["api"], s)
    BY DEF Handled
  <2> QED BY <1>5, <2>1, <2>2, Committed DEF syncFromOrders, Processes
<1>6. ASSUME NEW id \in PayoutIds, queueCreatePayout(id) PROVE BooksMove
  <2>1. PICK adjustment \in Adjustments :
            \/ UNCHANGED <<book, inFlight, saved>>
            \/ createPayout("api", id, adjustment) /\ saved' = saved
    BY <1>6 DEF queueCreatePayout
  <2>2. adjustment \in Int /\ "api" \in Processes
    BY ValuesAssumption DEF Processes
  <2> QED BY <2>1, <2>2, BooksStay, CreateMoves
<1>7. ASSUME NEW id \in PayoutIds, queueSettlePayout(id) PROVE BooksMove
  <2>1. \/ UNCHANGED <<book, inFlight, saved>>
        \/ settlePayout("api", id) /\ saved' = saved
    BY <1>7 DEF queueSettlePayout
  <2>2. "api" \in Processes
    BY DEF Processes
  <2> QED BY <2>1, <2>2, BooksStay, SettleMoves
<1>8. ASSUME NEW id \in PayoutIds, processPayoutCreate(id) PROVE BooksMove
  <2> DEFINE job == [kind |-> "create", payout |-> id]
             adjustment == jobs[job].adjustment
  <2>1. job \in JobIds /\ jobs[job] \notin {NoJob, FailedJob} /\ "worker" \in Processes
    BY <1>8 DEF processPayoutCreate, JobIds, Processes
  <2>2. adjustment \in Int
    BY <2>1, JobAdjustment
  <2>3. saved' = saved /\ createPayout("worker", id, adjustment)
    BY <1>8 DEF processPayoutCreate, createPayout
  <2> HIDE DEF adjustment
  <2> QED BY <2>1, <2>2, <2>3, CreateMoves
<1>9. ASSUME NEW id \in PayoutIds, processPayoutSettle(id) PROVE BooksMove
  <2>1. saved' = saved /\ settlePayout("worker", id) /\ "worker" \in Processes
    BY <1>9 DEF processPayoutSettle, Processes
  <2> QED BY <2>1, SettleMoves
<1>10. ASSUME NEW p \in Processes, persistState(p) PROVE BooksMove
  BY <1>10 DEF persistState, BooksMove, Typed, TypeOK
<1>11. ASSUME NEW p \in Processes, Restart(p) PROVE BooksMove
  BY <1>11 DEF Restart, BooksMove, Typed, TypeOK
<1>12. CASE UNCHANGED vars
  BY <1>12, BooksStay DEF vars
<1> QED BY <1>1, <1>2, <1>3, <1>4, <1>5, <1>6, <1>7, <1>8, <1>9, <1>10, <1>11, <1>12 DEF Next

\* The books in memory, in the writes under way and in the database.
Copies == ({book[p] : p \in Processes} \cup {inFlight[p] : p \in Processes} \cup {saved})
              \ {NoWrite}

\* A copy after a step was a copy before it, or is what a handler left.
LEMMA CopiesMove ==
    ASSUME Typed, BooksMove, NEW b \in Copies'
    PROVE  b \in Copies \/ \E p \in Processes : Handled(view[p], book[p], b)
<1>1. book \in [Processes -> Books] /\ NoWrite \notin Books /\ saved \in Books
  BY AbsentAssumption DEF Typed, TypeOK
<1>2. \A p \in Processes : book[p] \in Copies
  BY <1>1 DEF Copies
<1>3. \A p \in Processes : inFlight[p] # NoWrite => inFlight[p] \in Copies
  BY DEF Copies
<1>4. saved \in Copies
  BY <1>1 DEF Copies
<1>5. b # NoWrite /\ \/ \E p \in Processes : b = book'[p] \/ b = inFlight'[p]
                     \/ b = saved'
  BY DEF Copies
<1> QED BY <1>2, <1>3, <1>4, <1>5 DEF BooksMove


----------------------------------------------------------------------------
(***************************************************************************)
(* Types and lists are kept.                                               *)
(***************************************************************************)

AllListed == \A b \in Copies : Listed(b)

LEMMA CopiesAreBooks ==
    ASSUME Typed
    PROVE  \A b \in Copies : b \in Books
BY DEF Typed, TypeOK, Copies

LEMMA BookIsCopy ==
    ASSUME Typed, NEW p \in Processes
    PROVE  book[p] \in Copies
<1>1. book[p] \in Books
  BY ViewOf
<1> QED BY <1>1, AbsentAssumption DEF Copies

LEMMA StepKeepsLists ==
    ASSUME IsFiniteSet(Orders), Typed, AllListed, [Next]_vars
    PROVE  /\ AllListed'
           /\ \A b \in Copies' : b \in Books
<1> SUFFICES ASSUME NEW b \in Copies' PROVE Listed(b) /\ b \in Books
  BY DEF AllListed
<1>1. b \in Copies \/ \E p \in Processes : Handled(view[p], book[p], b)
  BY StepMovesBooks, CopiesMove
<1>2. CASE b \in Copies
  BY <1>2, CopiesAreBooks DEF AllListed
<1>3. ASSUME NEW p \in Processes, Handled(view[p], book[p], b) PROVE Listed(b) /\ b \in Books
  BY <1>3, ViewOf, BookIsCopy, HandledIsListed DEF AllListed
<1> QED BY <1>1, <1>2, <1>3

\* A view with another order, another vendor, another rate.
LEMMA OrderSet ==
    ASSUME Typed, NEW o \in Orders, NEW order \in OrderRecords, SetOrder(o, order)
    PROVE  /\ view' \in [Processes -> Views]
           /\ view'["api"].orders[o] = order
           /\ \A i \in Orders \ {o} : view'["api"].orders[i] = view["api"].orders[i]
           /\ view'["worker"] = view["worker"]
<1>1. view \in [Processes -> Views]
  BY DEF Typed, TypeOK
<1>2. "api" \in Processes /\ "worker" \in Processes /\ view["api"] \in Views
  BY <1>1 DEF Processes
<1>3. view'["api"] = [view["api"] EXCEPT !.orders = [@ EXCEPT ![o] = order]]
  BY <1>1, <1>2 DEF SetOrder
<1>4. view'["api"] \in Views /\ view'["api"].orders = [view["api"].orders EXCEPT ![o] = order]
  BY <1>2, <1>3 DEF Views
<1>5. view' = [view EXCEPT !["api"] = view'["api"]]
  BY <1>1, <1>2 DEF SetOrder
<1> QED BY <1>1, <1>2, <1>4, <1>5 DEF Views, Processes

LEMMA StepTypesViews ==
    ASSUME Typed, [Next]_vars
    PROVE  view' \in [Processes -> Views]
<1>1. view \in [Processes -> Views] /\ "api" \in Processes
  BY DEF Typed, TypeOK, Processes
<1>2. \A o \in Orders : view["api"].orders[o] \in OrderRecords
  BY <1>1 DEF Views
<1>3. ASSUME NEW o \in Orders, createCheckoutOrder(o) PROVE view' \in [Processes -> Views]
  <2>1. PICK v \in view["api"].active \cup {NoVendor}, state \in {"pending", "under_review"} :
            SetOrder(o, [state |-> state, vendor |-> v, ripe |-> FALSE])
    BY <1>3 DEF createCheckoutOrder
  <2>2. [state |-> state, vendor |-> v, ripe |-> FALSE] \in OrderRecords
    BY <1>1 DEF OrderRecords, OrderStates, Views
  <2> QED BY <2>1, <2>2, OrderSet
<1>4. ASSUME NEW o \in Orders, updateOrder(o) PROVE view' \in [Processes -> Views]
  <2>1. PICK step \in OrderSteps :
            /\ view["api"].orders[o].state = step[1]
            /\ SetOrder(o, [view["api"].orders[o] EXCEPT !.state = step[2], !.ripe = FALSE])
    BY <1>4 DEF updateOrder
  <2>2. step[1] # "absent" /\ step[2] \in OrderStates
    BY DEF OrderSteps, OrderStates
  <2>3. [view["api"].orders[o] EXCEPT !.state = step[2], !.ripe = FALSE] \in OrderRecords
    <3>1. PICK order \in OrderRecords : order = view["api"].orders[o]
      BY <1>2
    <3>2. order # AbsentOrder
      BY <2>1, <2>2, <3>1 DEF AbsentOrder
    <3>3. [order EXCEPT !.state = step[2], !.ripe = FALSE] \in OrderRecords
      BY <2>2, <3>2 DEF OrderRecords
    <3> QED BY <3>1, <3>3
  <2> QED BY <2>1, <2>3, OrderSet
<1>5. ASSUME NEW o \in Orders, assignOrderVendor(o) PROVE view' \in [Processes -> Views]
  <2>1. PICK v \in view["api"].active \cup {NoVendor} :
            SetOrder(o, [view["api"].orders[o] EXCEPT !.vendor = v, !.ripe = FALSE])
    BY <1>5 DEF assignOrderVendor
  <2>2. v \in Vendors \cup {NoVendor} /\ view["api"].orders[o] # AbsentOrder
    BY <1>1, <1>5 DEF Views, assignOrderVendor
  <2>3. [view["api"].orders[o] EXCEPT !.vendor = v, !.ripe = FALSE] \in OrderRecords
    BY <1>2, <2>2 DEF OrderRecords
  <2> QED BY <2>1, <2>3, OrderSet
<1>6. ASSUME NEW o \in Orders, DelayEnds(o) PROVE view' \in [Processes -> Views]
  <2>1. view' = [p \in Processes |-> IF view[p].orders[o].state = "settled"
                                     THEN [view[p] EXCEPT !.orders[o].ripe = TRUE] ELSE view[p]]
    BY <1>6 DEF DelayEnds
  <2>2. ASSUME NEW p \in Processes, view[p].orders[o].state = "settled"
        PROVE  [view[p] EXCEPT !.orders[o].ripe = TRUE] \in Views
    <3>1. PICK w \in Views : w = view[p]
      BY <1>1
    <3>2. PICK r : r = [w.orders[o] EXCEPT !.ripe = TRUE]
      OBVIOUS
    <3>3. w.orders[o] \in OrderRecords /\ w.orders[o] # AbsentOrder
      BY <2>2, <3>1 DEF Views, AbsentOrder
    <3>4. r \in OrderRecords
      BY <3>2, <3>3 DEF OrderRecords
    <3>5. [w EXCEPT !.orders[o].ripe = TRUE] = [w EXCEPT !.orders = [w.orders EXCEPT ![o] = r]]
      BY <3>2 DEF Views
    <3>6. [w EXCEPT !.orders = [w.orders EXCEPT ![o] = r]] \in Views
      BY <3>4 DEF Views
    <3> QED BY <3>1, <3>5, <3>6
  <2> QED BY <1>1, <2>1, <2>2
<1>7. ASSUME NEW v \in Vendors, updateVendor(v) PROVE view' \in [Processes -> Views]
  <2>1. PICK active : active = IF v \in view["api"].active THEN view["api"].active \ {v}
                               ELSE view["api"].active \cup {v}
    OBVIOUS
  <2>2. view' = [view EXCEPT !["api"].active = active]
    BY <1>7, <2>1 DEF updateVendor
  <2>3. active \in SUBSET Vendors
    BY <1>1, <2>1 DEF Views
  <2> QED BY <1>1, <2>2, <2>3 DEF Views
<1>8. ASSUME NEW rate \in Rates, updateRule(rate) PROVE view' \in [Processes -> Views]
  BY <1>1, <1>8 DEF updateRule, Views
<1>9. ASSUME NEW p \in Processes, Restart(p) PROVE view' \in [Processes -> Views]
  BY <1>1, <1>9 DEF Restart
<1>10. ASSUME NEW p \in Processes, persistState(p) PROVE view' \in [Processes -> Views]
  BY <1>1, <1>10 DEF persistState
<1>11. CASE listCommissions \/ syncFromOrders
  BY <1>1, <1>11 DEF listCommissions, syncFromOrders
<1>12. ASSUME NEW id \in PayoutIds, \/ queueCreatePayout(id) \/ queueSettlePayout(id)
                                    \/ processPayoutCreate(id) \/ processPayoutSettle(id)
       PROVE  view' \in [Processes -> Views]
  BY <1>1, <1>12 DEF queueCreatePayout, queueSettlePayout, processPayoutCreate, processPayoutSettle
<1>13. CASE UNCHANGED vars
  BY <1>1, <1>13 DEF vars
<1> QED BY <1>3, <1>4, <1>5, <1>6, <1>7, <1>8, <1>9, <1>10, <1>11, <1>12, <1>13 DEF Next


LEMMA SpendTypes ==
    ASSUME Typed, NEW what \in {"updates", "moves", "restarts"}, NEW bound, Spend(what, bound)
    PROVE  spent' \in [{"updates", "moves", "restarts"} -> Nat]
BY DEF Spend, Typed

\* What a step spends of the bounds.
LEMMA StepSpends ==
    ASSUME [Next]_vars
    PROVE  UNCHANGED spent \/ \E what \in {"updates", "moves", "restarts"} : \E bound : Spend(what, bound)
<1>1. ASSUME NEW o \in Orders, createCheckoutOrder(o) \/ DelayEnds(o) PROVE UNCHANGED spent
  BY <1>1 DEF createCheckoutOrder, DelayEnds
<1>2. ASSUME NEW o \in Orders, updateOrder(o) PROVE Spend("updates", MaxUpdates)
  BY <1>2 DEF updateOrder
<1>3. ASSUME NEW o \in Orders, assignOrderVendor(o) PROVE Spend("moves", MaxMoves)
  BY <1>3 DEF assignOrderVendor
<1>4. ASSUME NEW v \in Vendors, updateVendor(v) PROVE Spend("updates", MaxUpdates)
  BY <1>4 DEF updateVendor
<1>5. ASSUME NEW rate \in Rates, updateRule(rate) PROVE Spend("updates", MaxUpdates)
  BY <1>5 DEF updateRule
<1>6. ASSUME NEW p \in Processes, Restart(p) PROVE Spend("restarts", MaxRestarts)
  BY <1>6 DEF Restart
<1>7. ASSUME NEW p \in Processes, persistState(p) PROVE UNCHANGED spent
  BY <1>7 DEF persistState
<1>8. CASE listCommissions \/ syncFromOrders
  BY <1>8 DEF listCommissions, syncFromOrders
<1>9. ASSUME NEW id \in PayoutIds, \/ queueCreatePayout(id) \/ queueSettlePayout(id)
                                   \/ processPayoutCreate(id) \/ processPayoutSettle(id)
      PROVE  UNCHANGED spent
  BY <1>9 DEF queueCreatePayout, queueSettlePayout, processPayoutCreate, processPayoutSettle
<1>10. CASE UNCHANGED vars
  BY <1>10 DEF vars
<1> QED BY <1>1, <1>2, <1>3, <1>4, <1>5, <1>6, <1>7, <1>8, <1>9, <1>10 DEF Next

LEMMA StepTypesSpent ==
    ASSUME Typed, [Next]_vars
    PROVE  /\ spent' \in [{"updates", "moves", "restarts"} -> Nat]
           /\ spent'.moves = 0 => spent.moves = 0
           /\ spent'.restarts = 0 => spent.restarts = 0
<1>1. ASSUME NEW what \in {"updates", "moves", "restarts"}, NEW bound, Spend(what, bound)
      PROVE  /\ spent'.moves = 0 => spent.moves = 0
             /\ spent'.restarts = 0 => spent.restarts = 0
  BY <1>1 DEF Spend, Typed
<1> QED BY <1>1, StepSpends, SpendTypes DEF Typed

\* A job starts waiting, ends or fails.
JobMoves(job) ==
    \/ \E adjustment \in Adjustments \cup {0} : Enqueue(job, adjustment)
    \/ \E left \in {NoJob, FailedJob} : jobs' = [jobs EXCEPT ![job] = left]

LEMMA JobMoved ==
    ASSUME Typed, NEW job \in JobIds, JobMoves(job)
    PROVE  jobs' \in [JobIds -> WaitingJobs \cup {NoJob, FailedJob}]
BY DEF JobMoves, Enqueue, WaitingJobs, Typed, TypeOK

LEMMA StepTypesJobs ==
    ASSUME Typed, [Next]_vars
    PROVE  jobs' \in [JobIds -> WaitingJobs \cup {NoJob, FailedJob}]
<1>1. UNCHANGED jobs \/ \E job \in JobIds : JobMoves(job)
  <2>1. ASSUME NEW o \in Orders, \/ createCheckoutOrder(o) \/ DelayEnds(o) \/ updateOrder(o)
                                 \/ assignOrderVendor(o)
        PROVE  UNCHANGED jobs
    BY <2>1 DEF createCheckoutOrder, DelayEnds, updateOrder, assignOrderVendor
  <2>2. ASSUME NEW v \in Vendors, updateVendor(v) PROVE UNCHANGED jobs
    BY <2>2 DEF updateVendor
  <2>3. ASSUME NEW rate \in Rates, updateRule(rate) PROVE UNCHANGED jobs
    BY <2>3 DEF updateRule
  <2>4. ASSUME NEW p \in Processes, Restart(p) \/ persistState(p) PROVE UNCHANGED jobs
    BY <2>4 DEF Restart, persistState
  <2>5. CASE listCommissions \/ syncFromOrders
    BY <2>5 DEF listCommissions, syncFromOrders
  <2>6. ASSUME NEW id \in PayoutIds
        PROVE  [kind |-> "create", payout |-> id] \in JobIds /\ [kind |-> "settle", payout |-> id] \in JobIds
    BY DEF JobIds
  <2>7. ASSUME NEW id \in PayoutIds, queueCreatePayout(id)
        PROVE  UNCHANGED jobs \/ JobMoves([kind |-> "create", payout |-> id])
    BY <2>7 DEF queueCreatePayout, JobMoves
  <2>8. ASSUME NEW id \in PayoutIds, queueSettlePayout(id)
        PROVE  UNCHANGED jobs \/ JobMoves([kind |-> "settle", payout |-> id])
    BY <2>8 DEF queueSettlePayout, JobMoves
  <2>9. ASSUME NEW id \in PayoutIds, processPayoutCreate(id)
        PROVE  JobMoves([kind |-> "create", payout |-> id])
    BY <2>9 DEF processPayoutCreate, JobMoves
  <2>10. ASSUME NEW id \in PayoutIds, processPayoutSettle(id)
         PROVE  JobMoves([kind |-> "settle", payout |-> id])
    BY <2>10 DEF processPayoutSettle, JobMoves
  <2>11. CASE UNCHANGED vars
    BY <2>11 DEF vars
  <2> QED BY <2>1, <2>2, <2>3, <2>4, <2>5, <2>6, <2>7, <2>8, <2>9, <2>10, <2>11 DEF Next
<1> QED BY <1>1, JobMoved DEF Typed, TypeOK

\* The payments a process knows change where it settles a payout or starts again.
LEMMA StepPays ==
    ASSUME Typed, [Next]_vars
    PROVE  \/ UNCHANGED paidOut
           \/ \E p \in Processes, id \in PayoutIds : settlePayout(p, id)
           \/ \E p \in Processes : Restart(p)
<1>1. ASSUME NEW o \in Orders, \/ createCheckoutOrder(o) \/ DelayEnds(o) \/ updateOrder(o)
                               \/ assignOrderVendor(o)
      PROVE  UNCHANGED paidOut
  BY <1>1 DEF createCheckoutOrder, DelayEnds, updateOrder, assignOrderVendor
<1>2. ASSUME NEW v \in Vendors, updateVendor(v) PROVE UNCHANGED paidOut
  BY <1>2 DEF updateVendor
<1>3. ASSUME NEW rate \in Rates, updateRule(rate) PROVE UNCHANGED paidOut
  BY <1>3 DEF updateRule
<1>4. ASSUME NEW p \in Processes, persistState(p) PROVE UNCHANGED paidOut
  BY <1>4 DEF persistState
<1>5. CASE listCommissions \/ syncFromOrders
  BY <1>5 DEF listCommissions, syncFromOrders
<1>6. ASSUME NEW id \in PayoutIds, queueCreatePayout(id) \/ processPayoutCreate(id)
      PROVE  UNCHANGED paidOut
  BY <1>6 DEF queueCreatePayout, processPayoutCreate
<1>7. ASSUME NEW id \in PayoutIds, queueSettlePayout(id)
      PROVE  UNCHANGED paidOut \/ settlePayout("api", id)
  BY <1>7 DEF queueSettlePayout
<1>8. ASSUME NEW id \in PayoutIds, processPayoutSettle(id) PROVE settlePayout("worker", id)
  BY <1>8 DEF processPayoutSettle
<1>9. CASE UNCHANGED vars
  BY <1>9 DEF vars
<1> QED BY <1>1, <1>2, <1>3, <1>4, <1>5, <1>6, <1>7, <1>8, <1>9 DEF Next, Processes

LEMMA SettleTypesPaid ==
    ASSUME Typed, NEW p \in Processes, NEW id \in PayoutIds, settlePayout(p, id)
    PROVE  paidOut' \in [Processes -> [Orders -> Nat]]
<1>1. PICK b \in SyncFromOrders(view[p], book[p]) :
        \/ paidOut' = [paidOut EXCEPT ![p] =
                [o \in Orders |-> @[o] + (IF o \in Attached(b, id) THEN 1 ELSE 0)]]
        \/ UNCHANGED paidOut
  BY DEF settlePayout
<1> DEFINE more == [o \in Orders |-> paidOut[p][o] + (IF o \in Attached(b, id) THEN 1 ELSE 0)]
<1>2. more \in [Orders -> Nat]
  BY DEF Typed, TypeOK
<1>3. UNCHANGED paidOut \/ paidOut' = [paidOut EXCEPT ![p] = more]
  BY <1>1
<1> HIDE DEF more
<1> QED BY <1>2, <1>3 DEF Typed, TypeOK

\* A process that starts again knows the payments of the snapshot.
LEMMA RestartPays ==
    ASSUME Typed, NEW p \in Processes, Restart(p)
    PROVE  /\ paidOut' \in [Processes -> [Orders -> Nat]]
           /\ book'[p] = saved
           /\ \A o \in Orders : paidOut'[p][o] = (IF Paid(saved, o) THEN 1 ELSE 0)
           /\ \A q \in Processes \ {p} : book'[q] = book[q] /\ paidOut'[q] = paidOut[q]
<1> DEFINE known == [o \in Orders |-> IF Paid(saved, o) THEN 1 ELSE 0]
<1>1. known \in [Orders -> Nat]
  OBVIOUS
<1>2. paidOut' = [paidOut EXCEPT ![p] = known] /\ book' = [book EXCEPT ![p] = saved]
  BY DEF Restart
<1>3. \A o \in Orders : known[o] = (IF Paid(saved, o) THEN 1 ELSE 0)
  OBVIOUS
<1> HIDE DEF known
<1> QED BY <1>1, <1>2, <1>3 DEF Typed, TypeOK

Base == Typed /\ AllListed

LEMMA BaseStart == Init => Base
<1> SUFFICES ASSUME Init PROVE Base
  OBVIOUS
<1>1. EmptyBook \in Books
  BY DEF EmptyBook, Books
<1>2. view \in [Processes -> Views]
  BY ValuesAssumption DEF Init, Views, OrderRecords
<1>3. Typed
  <2>1. book \in [Processes -> Books] /\ inFlight \in [Processes -> Books \cup {NoWrite}] /\ saved \in Books
    BY <1>1 DEF Init
  <2>2. jobs \in [JobIds -> WaitingJobs \cup {NoJob, FailedJob}]
    BY DEF Init
  <2>3. paidOut \in [Processes -> [Orders -> Nat]] /\ spent \in [{"updates", "moves", "restarts"} -> Nat]
    BY DEF Init
  <2> QED BY <1>2, <2>1, <2>2, <2>3 DEF Typed, TypeOK
<1>4. \A b \in Copies : b = EmptyBook
  BY DEF Init, Copies
<1>5. Listed(EmptyBook)
  <2>1. \A id \in PayoutIds : EmptyBook.payouts[id] = NoPayout /\ Attached(EmptyBook, id) = {}
    BY DEF EmptyBook, Attached
  <2> QED BY <2>1 DEF Listed
<1> QED BY <1>3, <1>4, <1>5 DEF Base, AllListed

LEMMA BaseStep ==
    ASSUME IsFiniteSet(Orders), Base, [Next]_vars
    PROVE  Base'
<1>1. AllListed' /\ \A b \in Copies' : b \in Books
  BY StepKeepsLists DEF Base
<1>2. /\ book' = [p \in Processes |-> book'[p]]
      /\ inFlight' = [p \in Processes |-> inFlight'[p]]
  BY StepMovesBooks DEF Base, BooksMove
<1>3. \A p \in Processes : book'[p] \in Books
  <2> SUFFICES ASSUME NEW p \in Processes PROVE book'[p] \in Books
    OBVIOUS
  <2>1. Typed /\ AllListed
    BY DEF Base
  <2>2. book[p] \in Books /\ view[p] \in Views /\ Listed(book[p]) /\ saved \in Books
    BY <2>1, ViewOf, BookIsCopy DEF AllListed, Typed, TypeOK
  <2>3. book'[p] = book[p] \/ Handled(view[p], book[p], book'[p]) \/ book'[p] = saved
    BY StepMovesBooks DEF Base, BooksMove
  <2> QED BY <2>2, <2>3, HandledIsListed
<1>4. \A p \in Processes : inFlight'[p] \in Books \cup {NoWrite}
  BY <1>1 DEF Copies
<1>5. saved' \in Books
  BY StepMovesBooks DEF Base, BooksMove, Typed, TypeOK
<1>6. paidOut' \in [Processes -> [Orders -> Nat]]
  BY StepPays, SettleTypesPaid, RestartPays DEF Base, Typed, TypeOK
<1>7. view' \in [Processes -> Views] /\ jobs' \in [JobIds -> WaitingJobs \cup {NoJob, FailedJob}]
      /\ spent' \in [{"updates", "moves", "restarts"} -> Nat]
  BY StepTypesViews, StepTypesJobs, StepTypesSpent DEF Base
<1> QED BY <1>1, <1>2, <1>3, <1>4, <1>5, <1>6, <1>7 DEF Base, Typed, TypeOK

LEMMA BaseInvariant == ASSUME IsFiniteSet(Orders) PROVE Spec => []Base
<1>1. Base /\ [Next]_vars => Base'
  BY BaseStep
<1> QED BY <1>1, BaseStart, PTL DEF Spec

\* Every view, book, snapshot and job has its type, whatever the amounts add up to.
THEOREM TypeCorrect == ASSUME IsFiniteSet(Orders) PROVE Spec => []TypeOK
<1>1. Base => TypeOK
  BY DEF Base, Typed
<1> QED BY <1>1, BaseInvariant, PTL


----------------------------------------------------------------------------
(***************************************************************************)
(* While no order changes vendor, a book is sound: every commission is of  *)
(* the vendor of its order and in no other payout than that vendor's of    *)
(* its month, it is paid when that payout is, and it is not payable while  *)
(* it is in one.                                                           *)
(***************************************************************************)

SoundCommission(b, c, o, owner) ==
    /\ c.vendor = owner[o]
    /\ c.payoutId # NoPayout => c.payoutId = <<c.vendor, PeriodOf[o]>>
    /\ c.status = "payable" => c.payoutId = NoPayout
    /\ c.status = "paid" => PaidIn(b, c.payoutId)
    /\ PaidIn(b, c.payoutId) => c.status \in {"paid", "reversed", "blocked"}
SoundCommissions(b, owner) ==
    \A o \in Orders : b.commissions[o] # NoCommission =>
        SoundCommission(b, b.commissions[o], o, owner)
OwnPayouts(b) == \A id \in PayoutIds : b.payouts[id] # NoPayout => b.payouts[id].vendor = id[1]
Sound(b, owner) == OwnPayouts(b) /\ SoundCommissions(b, owner)

\* The orders of a view are of their owners.
Agrees(w, owner) == \A o \in Orders : w.orders[o].vendor # NoVendor => w.orders[o].vendor = owner[o]

\* A reconciliation keeps the commissions, and gives each payout the vendor of its own.
LEMMA ReconciledIsSound ==
    ASSUME NEW b \in Books, Named(b), NEW owner, SoundCommissions(b, owner), NEW r,
           Reconciles(b, r)
    PROVE  Sound(r, owner)
<1>1. r \in Books /\ r.commissions = b.commissions /\ Listed(r)
  BY DEF Reconciles
<1>2. \A id \in PayoutIds : Attached(r, id) = Attached(b, id)
  BY <1>1, SameAttached
<1>3. ASSUME NEW id \in PayoutIds, r.payouts[id] # NoPayout
      PROVE  r.payouts[id].vendor = id[1]
  <2>1. PICK o \in Attached(b, id) : r.payouts[id].vendor = b.commissions[o].vendor
    BY <1>3 DEF Reconciles
  <2>2. o \in Orders /\ b.commissions[o] # NoCommission /\ b.commissions[o].payoutId = id
    BY AttachedIs
  <2>3. id = <<b.commissions[o].vendor, PeriodOf[o]>>
    BY <2>2, AbsentAssumption DEF SoundCommissions, SoundCommission
  <2> QED BY <2>1, <2>3
<1>4. ASSUME NEW o \in Orders, b.commissions[o] # NoCommission
      PROVE  SoundCommission(r, r.commissions[o], o, owner)
  <2> DEFINE c == b.commissions[o]
  <2>1. c.payoutId \in PayoutIds \cup {NoPayout}
    BY <1>4 DEF Books, Commissions
  <2>2. ASSUME c.payoutId # NoPayout
        PROVE  PaidIn(r, c.payoutId) <=> PaidIn(b, c.payoutId)
    <3>1. o \in Attached(b, c.payoutId)
      BY <1>4, AttachedIs
    <3>2. r.payouts[c.payoutId] # NoPayout /\ b.payouts[c.payoutId] # NoPayout
      BY <1>1, <1>2, <2>1, <2>2, <3>1 DEF Listed, Named
    <3>3. r.payouts[c.payoutId].status = b.payouts[c.payoutId].status
      BY <2>1, <2>2, <3>2 DEF Reconciles
    <3> QED BY <3>2, <3>3 DEF PaidIn
  <2>3. PaidIn(r, c.payoutId) <=> PaidIn(b, c.payoutId)
    BY <2>2 DEF PaidIn
  <2>4. SoundCommission(b, c, o, owner)
    BY <1>4 DEF SoundCommissions
  <2> HIDE DEF c
  <2>5. SoundCommission(r, c, o, owner)
    BY <2>3, <2>4 DEF SoundCommission
  <2> QED BY <1>1, <2>5 DEF c
<1>5. OwnPayouts(r)
  BY <1>3 DEF OwnPayouts
<1>6. SoundCommissions(r, owner)
  BY <1>1, <1>4 DEF SoundCommissions
<1> QED BY <1>5, <1>6 DEF Sound

\* What a status says of the payout, and what a payout leaves of the statuses.
LEMMA StatusSays ==
    ASSUME NEW order, order.state \in OrderStates, NEW active \in BOOLEAN,
           NEW payoutStatus \in {NoPayout, "approved", "paid"}, NEW previous
    PROVE  LET status == ResolveStatus(order, active, payoutStatus, previous)
           IN /\ status = "payable" => payoutStatus = NoPayout
              /\ status = "paid" => payoutStatus = "paid"
              /\ payoutStatus = "paid" => status \in {"paid", "reversed", "blocked"}
BY AbsentAssumption DEF ResolveStatus, OrderStates

\* An order with a vendor, its payout and the commission a synchronisation gives it.
LEMMA SyncedIs ==
    ASSUME NEW w \in Views, NEW b \in Books, NEW o \in Orders, w.orders[o].vendor # NoVendor
    PROVE  LET order == w.orders[o]
               id == PayoutFor(b, o, order.vendor)
               c == SyncOrderCommission(w, b, o)
           IN /\ order.state \in OrderStates /\ order.vendor \in Vendors
              /\ id \in PayoutIds \cup {NoPayout} /\ (id # NoPayout => b.payouts[id] # NoPayout)
              /\ PayoutStatus(b, id) \in {NoPayout, "approved", "paid"}
              /\ PayoutStatus(b, id) = "paid" <=> PaidIn(b, id)
              /\ PayoutStatus(b, id) = NoPayout <=> id = NoPayout
              /\ c.vendor = order.vendor /\ c.payoutId = id /\ c.amount = Totals[o] * w.rate
              /\ c.status = ResolveStatus(order, order.vendor \in w.active, PayoutStatus(b, id),
                                          PreviousStatus(b.commissions[o]))
              /\ c # NoCommission /\ c \in Commissions
<1> DEFINE order == w.orders[o]
           id == PayoutFor(b, o, order.vendor)
           c == SyncOrderCommission(w, b, o)
<1>1. order \in OrderRecords /\ order # AbsentOrder
  BY DEF Views, AbsentOrder
<1>2. order.state \in OrderStates /\ order.vendor \in Vendors
  BY <1>1 DEF OrderRecords
<1>3. id \in PayoutIds \cup {NoPayout} /\ (id # NoPayout => b.payouts[id] # NoPayout)
  BY PayoutForGives
<1>4. c = [vendor |-> order.vendor, amount |-> Totals[o] * w.rate,
           status |-> ResolveStatus(order, order.vendor \in w.active, PayoutStatus(b, id),
                                    PreviousStatus(b.commissions[o])),
           payoutId |-> id]
  BY DEF SyncOrderCommission
<1> HIDE DEF id
<1>5. /\ PayoutStatus(b, id) \in {NoPayout, "approved", "paid"}
      /\ PayoutStatus(b, id) = "paid" <=> PaidIn(b, id)
      /\ PayoutStatus(b, id) = NoPayout <=> id = NoPayout
  BY <1>3, AbsentAssumption DEF PayoutStatus, PaidIn, Books, Payouts
<1>6. \A x : [vendor |-> order.vendor, amount |-> Totals[o] * w.rate, status |-> x, payoutId |-> id]
          # NoCommission \/ x \notin CommissionStatuses
  <2> SUFFICES ASSUME NEW x \in CommissionStatuses
               PROVE  [vendor |-> order.vendor, amount |-> Totals[o] * w.rate, status |-> x,
                       payoutId |-> id] \in Commissions
    BY AbsentAssumption
  <2>1. Totals[o] \in Nat /\ w.rate \in Nat
    BY OrdersAssumption, ValuesAssumption DEF Views
  <2>2. \A m, n \in Nat : m * n \in Nat
    OBVIOUS
  <2>3. Totals[o] * w.rate \in Nat
    BY <2>1, <2>2
  <2> QED BY <1>2, <1>3, <2>3 DEF Commissions
<1>7. c.status \in CommissionStatuses
  <2>1. (order.vendor \in w.active) \in BOOLEAN
    OBVIOUS
  <2>2. ResolveStatus(order, order.vendor \in w.active, PayoutStatus(b, id),
                      PreviousStatus(b.commissions[o])) \in CommissionStatuses
    BY <1>3, <2>1, StatusIsOne
  <2> QED BY <1>4, <2>2
<1>8. c # NoCommission
  BY <1>4, <1>6, <1>7
<1>9. c \in Commissions
  BY <1>8, SyncedCommission
<1> HIDE DEF c
<1> QED BY <1>2, <1>3, <1>4, <1>5, <1>8, <1>9 DEF id, c

LEMMA SyncIsSound ==
    ASSUME NEW w \in Views, NEW b \in Books, Listed(b), NEW owner, Sound(b, owner),
           Agrees(w, owner)
    PROVE  SoundCommissions(Synced(w, b), owner)
<1> SUFFICES ASSUME NEW o \in Orders, SyncOrderCommission(w, b, o) # NoCommission
             PROVE  SoundCommission(Synced(w, b), SyncOrderCommission(w, b, o), o, owner)
  BY SyncedGives DEF SoundCommissions
<1> DEFINE c == SyncOrderCommission(w, b, o)
           s == Synced(w, b)
<1>1. \A id : PaidIn(s, id) <=> PaidIn(b, id)
  BY SyncedGives DEF PaidIn
<1>2. CASE w.orders[o].vendor = NoVendor
  <2>1. c = b.commissions[o]
    BY <1>2 DEF SyncOrderCommission
  <2>2. SoundCommission(b, c, o, owner)
    BY <2>1 DEF Sound, SoundCommissions
  <2> HIDE DEF c, s
  <2> QED BY <1>1, <2>2 DEF SoundCommission, c, s
<1>3. CASE w.orders[o].vendor # NoVendor
  <2> DEFINE v == w.orders[o].vendor
             id == PayoutFor(b, o, v)
  <2>1. /\ w.orders[o].state \in OrderStates /\ id \in PayoutIds \cup {NoPayout}
        /\ PayoutStatus(b, id) \in {NoPayout, "approved", "paid"}
        /\ PayoutStatus(b, id) = "paid" <=> PaidIn(b, id)
        /\ PayoutStatus(b, id) = NoPayout <=> id = NoPayout
        /\ c.vendor = v /\ c.payoutId = id
        /\ c.status = ResolveStatus(w.orders[o], v \in w.active, PayoutStatus(b, id),
                                    PreviousStatus(b.commissions[o]))
    BY <1>3, SyncedIs
  <2>2. v = owner[o]
    BY <1>3 DEF Agrees
  <2>3. id # NoPayout => id = <<v, PeriodOf[o]>>
    <3> SUFFICES ASSUME id # NoPayout PROVE id = <<v, PeriodOf[o]>>
      OBVIOUS
    <3>1. CASE o \in Attached(b, id)
      <4>1. b.commissions[o] # NoCommission /\ b.commissions[o].payoutId = id
        BY <3>1, AttachedIs
      <4>2. SoundCommission(b, b.commissions[o], o, owner)
        BY <4>1 DEF Sound, SoundCommissions
      <4> QED BY <2>2, <4>1, <4>2 DEF SoundCommission
    <3>2. CASE id = FindPayout(b, v, PeriodOf[o])
      <4>1. /\ id \in PayoutIds /\ b.payouts[id] # NoPayout /\ b.payouts[id].vendor = v
            /\ id[2] = PeriodOf[o]
        BY <3>2, FindPayoutGives
      <4>2. id[1] = v
        BY <4>1 DEF Sound, OwnPayouts
      <4> HIDE DEF id
      <4> QED BY <4>1, <4>2 DEF PayoutIds
    <3> QED BY <3>1, <3>2, PayoutForGives
  <2> HIDE DEF c, s, id
  <2>4. /\ c.status = "payable" => PayoutStatus(b, id) = NoPayout
        /\ c.status = "paid" => PayoutStatus(b, id) = "paid"
        /\ PayoutStatus(b, id) = "paid" => c.status \in {"paid", "reversed", "blocked"}
    <3> DEFINE ps == PayoutStatus(b, id)
               status == ResolveStatus(w.orders[o], v \in w.active, ps,
                                       PreviousStatus(b.commissions[o]))
    <3>1. (v \in w.active) \in BOOLEAN
      OBVIOUS
    <3>2. w.orders[o].state \in OrderStates /\ ps \in {NoPayout, "approved", "paid"}
      BY <2>1
    <3> HIDE DEF ps
    <3>3. /\ status = "payable" => ps = NoPayout
          /\ status = "paid" => ps = "paid"
          /\ ps = "paid" => status \in {"paid", "reversed", "blocked"}
      BY <3>1, <3>2, StatusSays
    <3> QED BY <2>1, <3>3 DEF ps
  <2>5. SoundCommission(s, c, o, owner)
    BY <1>1, <2>1, <2>2, <2>3, <2>4 DEF SoundCommission
  <2> QED BY <2>5 DEF c, s
<1> QED BY <1>2, <1>3


\* A payout is created only where the vendor has none for the month.
LEMMA FreeId ==
    ASSUME NEW b \in Books, OwnPayouts(b), NEW id \in PayoutIds, ~HasActivePayout(b, id)
    PROVE  b.payouts[id] = NoPayout
<1>1. FindPayout(b, id[1], id[2]) = NoPayout
  BY DEF HasActivePayout
<1>2. \A i \in PayoutIds : i[2] = id[2] /\ b.payouts[i] # NoPayout => b.payouts[i].vendor # id[1]
  BY <1>1, FindPayoutGives, AbsentAssumption
<1> QED BY <1>2 DEF OwnPayouts

LEMMA CreateIsSound ==
    ASSUME IsFiniteSet(Orders), NEW b \in Books, Listed(b), NEW owner, Sound(b, owner),
           NEW id \in PayoutIds, NEW adjustment \in Int, CanCreate(b, id, adjustment)
    PROVE  SoundCommissions(Prepared(b, id, adjustment), owner)
<1> DEFINE c == Prepared(b, id, adjustment)
<1>1. b.payouts[id] = NoPayout
  BY FreeId DEF CanCreate, Sound
<1>2. Attached(b, id) = {} /\ id # NoPayout
  BY <1>1, AbsentAssumption DEF Listed
<1> SUFFICES ASSUME NEW o \in Orders, c.commissions[o] # NoCommission
             PROVE  SoundCommission(c, c.commissions[o], o, owner)
  BY DEF SoundCommissions
<1>3. CASE o \in Eligible(b, id)
  <2>1. /\ b.commissions[o] # NoCommission /\ b.commissions[o].vendor = id[1]
        /\ PeriodOf[o] = id[2] /\ id = <<id[1], id[2]>>
    BY <1>3 DEF Eligible, PayoutIds
  <2>2. b.commissions[o].vendor = owner[o]
    BY <2>1 DEF Sound, SoundCommissions, SoundCommission
  <2>3. /\ c.commissions[o].vendor = id[1] /\ c.commissions[o].payoutId = id
        /\ c.commissions[o].status = "scheduled_for_payout"
        /\ c.payouts[id].status = "approved"
    BY <1>3, <2>1, PreparedGives
  <2> HIDE DEF c
  <2> QED BY <2>1, <2>2, <2>3 DEF SoundCommission, PaidIn
<1>4. CASE o \notin Eligible(b, id)
  <2>1. c.commissions[o] = b.commissions[o]
    BY <1>4, PreparedGives
  <2>2. SoundCommission(b, b.commissions[o], o, owner)
    BY <2>1 DEF Sound, SoundCommissions
  <2>3. b.commissions[o].payoutId # id /\ b.commissions[o].payoutId \in PayoutIds \cup {NoPayout}
    BY <1>2, <2>1, AttachedIs DEF Books, Commissions
  <2>4. PaidIn(c, b.commissions[o].payoutId) <=> PaidIn(b, b.commissions[o].payoutId)
    BY <2>3, PreparedGives, SMTT(30) DEF PaidIn
  <2> HIDE DEF c
  <2> QED BY <2>1, <2>2, <2>4 DEF SoundCommission
<1> QED BY <1>3, <1>4

LEMMA SettleIsSound ==
    ASSUME NEW b \in Books, Listed(b), NEW owner, Sound(b, owner),
           NEW id \in PayoutIds, CanSettle(b, id)
    PROVE  SoundCommissions(Settling(b, id), owner)
<1> DEFINE c == Settling(b, id)
<1>1. b.payouts[id] # NoPayout /\ id # NoPayout
  BY AbsentAssumption DEF CanSettle
<1> SUFFICES ASSUME NEW o \in Orders, c.commissions[o] # NoCommission
             PROVE  SoundCommission(c, c.commissions[o], o, owner)
  BY DEF SoundCommissions
<1>2. CASE o \in Attached(b, id)
  <2>1. b.commissions[o] # NoCommission /\ b.commissions[o].payoutId = id
    BY <1>2, AttachedIs
  <2>2. SoundCommission(b, b.commissions[o], o, owner)
    BY <2>1 DEF Sound, SoundCommissions
  <2>3. /\ c.commissions[o].vendor = b.commissions[o].vendor /\ c.commissions[o].payoutId = id
        /\ c.commissions[o].status = "paid"
        /\ c.payouts[id].status = "paid" /\ c.payouts[id] # NoPayout
    BY <1>1, <1>2, SettlingGives
  <2> HIDE DEF c
  <2> QED BY <1>1, <2>1, <2>2, <2>3 DEF SoundCommission, PaidIn
<1>3. CASE o \notin Attached(b, id)
  <2>1. c.commissions[o] = b.commissions[o]
    BY <1>1, <1>3, SettlingGives
  <2>2. SoundCommission(b, b.commissions[o], o, owner)
    BY <2>1 DEF Sound, SoundCommissions
  <2>3. b.commissions[o].payoutId # id /\ b.commissions[o].payoutId \in PayoutIds \cup {NoPayout}
    BY <1>3, <2>1, AttachedIs DEF Books, Commissions
  <2>4. PaidIn(c, b.commissions[o].payoutId) <=> PaidIn(b, b.commissions[o].payoutId)
    BY <1>1, <2>3, SettlingGives DEF PaidIn
  <2> HIDE DEF c
  <2> QED BY <2>1, <2>2, <2>4 DEF SoundCommission
<1> QED BY <1>2, <1>3


LEMMA SyncLeavesSound ==
    ASSUME IsFiniteSet(Orders), NEW w \in Views, NEW b \in Books, Listed(b), NEW owner,
           Sound(b, owner), Agrees(w, owner), NEW s \in SyncFromOrders(w, b)
    PROVE  s \in Books /\ Listed(s) /\ Sound(s, owner)
<1>1. Synced(w, b) \in Books /\ Named(Synced(w, b))
  BY SyncedGives, SyncedNames
<1>2. SoundCommissions(Synced(w, b), owner)
  BY SyncIsSound
<1>3. Reconciles(Synced(w, b), s)
  BY SyncListed
<1>4. Sound(s, owner)
  BY <1>1, <1>2, <1>3, ReconciledIsSound
<1> QED BY <1>4, SyncKeepsLists

LEMMA CreateLeavesSound ==
    ASSUME IsFiniteSet(Orders), NEW b \in Books, Listed(b), NEW owner, Sound(b, owner),
           NEW id \in PayoutIds, NEW adjustment \in Int, CanCreate(b, id, adjustment),
           NEW r \in CreatePayout(b, id, adjustment)
    PROVE  Sound(r, owner)
<1>1. Prepared(b, id, adjustment) \in Books /\ Named(Prepared(b, id, adjustment))
  BY PreparedGives, ReadyNames
<1>2. SoundCommissions(Prepared(b, id, adjustment), owner)
  BY CreateIsSound
<1>3. Reconciles(Prepared(b, id, adjustment), r)
  BY CreateListed
<1> QED BY <1>1, <1>2, <1>3, ReconciledIsSound

LEMMA SettleLeavesSound ==
    ASSUME IsFiniteSet(Orders), NEW b \in Books, Listed(b), NEW owner, Sound(b, owner),
           NEW id \in PayoutIds, CanSettle(b, id), NEW r \in SettlePayout(b, id)
    PROVE  Sound(r, owner)
<1>1. b.payouts[id] # NoPayout
  BY DEF CanSettle
<1>2. Settling(b, id) \in Books /\ Named(Settling(b, id))
  BY <1>1, SettlingGives, ReadyNames
<1>3. SoundCommissions(Settling(b, id), owner)
  BY SettleIsSound
<1>4. Reconciles(Settling(b, id), r)
  BY <1>1, SettleListed
<1> QED BY <1>2, <1>3, <1>4, ReconciledIsSound

LEMMA HandledIsSound ==
    ASSUME IsFiniteSet(Orders), NEW w \in Views, NEW b \in Books, Listed(b), NEW owner,
           Sound(b, owner), Agrees(w, owner), NEW r, Handled(w, b, r)
    PROVE  Sound(r, owner)
<1>1. PICK s \in SyncFromOrders(w, b) :
        \/ r = s
        \/ \E id \in PayoutIds, adjustment \in Int :
              CanCreate(s, id, adjustment) /\ r \in CreatePayout(s, id, adjustment)
        \/ \E id \in PayoutIds : CanSettle(s, id) /\ r \in SettlePayout(s, id)
  BY DEF Handled
<1>2. s \in Books /\ Listed(s) /\ Sound(s, owner)
  BY SyncLeavesSound
<1>3. ASSUME NEW id \in PayoutIds, NEW adjustment \in Int, CanCreate(s, id, adjustment),
             r \in CreatePayout(s, id, adjustment)
      PROVE  Sound(r, owner)
  BY <1>2, <1>3, CreateLeavesSound
<1>4. ASSUME NEW id \in PayoutIds, CanSettle(s, id), r \in SettlePayout(s, id)
      PROVE  Sound(r, owner)
  BY <1>2, <1>4, SettleLeavesSound
<1> QED BY <1>1, <1>2, <1>3, <1>4

\* An order that had no vendor may get one.
LEMMA OwnersMove ==
    ASSUME NEW b \in Books, NEW owner, Sound(b, owner), NEW later,
           \A o \in Orders : owner[o] \in Vendors => later[o] = owner[o]
    PROVE  Sound(b, later)
<1> SUFFICES ASSUME NEW o \in Orders, b.commissions[o] # NoCommission
             PROVE  SoundCommission(b, b.commissions[o], o, later)
  BY DEF Sound, SoundCommissions
<1>1. b.commissions[o].vendor \in Vendors
  BY DEF Books, Commissions
<1>2. SoundCommission(b, b.commissions[o], o, owner)
  BY DEF Sound, SoundCommissions
<1> QED BY <1>1, <1>2 DEF SoundCommission

----------------------------------------------------------------------------
(***************************************************************************)
(* What a process knows of an order that exists is its vendor, as the API  *)
(* knows it: nothing else changes it than a move.                          *)
(***************************************************************************)

Owner == [o \in Orders |-> view["api"].orders[o].vendor]

ViewsAgree ==
    \A p \in Processes, o \in Orders : view[p].orders[o] # AbsentOrder =>
        /\ view["api"].orders[o] # AbsentOrder
        /\ view[p].orders[o].vendor = view["api"].orders[o].vendor

Steady ==
    spent.moves = 0 =>
        /\ ViewsAgree
        /\ \A b \in Copies : Sound(b, Owner)

\* An order is of the same vendor after a step, for whom knew it.
OrderStays(p, o) ==
    /\ view'[p].orders[o] # AbsentOrder
    /\ view'[p].orders[o].vendor = view[p].orders[o].vendor
ViewsMove ==
    /\ \A o \in Orders : view["api"].orders[o] # AbsentOrder => OrderStays("api", o)
    /\ \A o \in Orders : \/ view'["worker"].orders[o] = AbsentOrder
                         \/ view["worker"].orders[o] # AbsentOrder /\ OrderStays("worker", o)
                         \/ view'["worker"].orders[o] = view["api"].orders[o]

LEMMA SameOrders ==
    ASSUME \A p \in Processes : view'[p].orders = view[p].orders
    PROVE  ViewsMove
BY DEF ViewsMove, OrderStays, Processes

LEMMA StepMovesViews ==
    ASSUME Typed, [Next]_vars, spent'.moves = 0
    PROVE  ViewsMove
<1>1. view \in [Processes -> Views] /\ "api" \in Processes /\ "worker" \in Processes
  BY DEF Typed, TypeOK, Processes
<1>2. \A p \in Processes, o \in Orders : view[p].orders[o] \in OrderRecords
  BY <1>1 DEF Views
<1>3. ASSUME NEW o \in Orders, createCheckoutOrder(o) PROVE ViewsMove
  <2>1. PICK v \in view["api"].active \cup {NoVendor}, state \in {"pending", "under_review"} :
            SetOrder(o, [state |-> state, vendor |-> v, ripe |-> FALSE])
    BY <1>3 DEF createCheckoutOrder
  <2>2. [state |-> state, vendor |-> v, ripe |-> FALSE] \in OrderRecords
    BY <1>1 DEF OrderRecords, OrderStates, Views
  <2>3. view["api"].orders[o] = AbsentOrder
    BY <1>3 DEF createCheckoutOrder
  <2> QED BY <2>1, <2>2, <2>3, OrderSet DEF ViewsMove, OrderStays
<1>4. ASSUME NEW o \in Orders, updateOrder(o) PROVE ViewsMove
  <2>1. PICK step \in OrderSteps :
            /\ view["api"].orders[o].state = step[1]
            /\ SetOrder(o, [view["api"].orders[o] EXCEPT !.state = step[2], !.ripe = FALSE])
    BY <1>4 DEF updateOrder
  <2>2. step[1] # "absent" /\ step[2] \in OrderStates /\ step[2] # "absent"
    BY DEF OrderSteps, OrderStates
  <2>3. PICK order \in OrderRecords : order = view["api"].orders[o]
    BY <1>1, <1>2
  <2>4. order # AbsentOrder
    BY <2>1, <2>2, <2>3 DEF AbsentOrder
  <2>5. PICK new : new = [order EXCEPT !.state = step[2], !.ripe = FALSE]
    OBVIOUS
  <2>6. new \in OrderRecords /\ new.vendor = order.vendor /\ new # AbsentOrder
    BY <2>2, <2>4, <2>5 DEF OrderRecords, AbsentOrder
  <2>7. SetOrder(o, new)
    BY <2>1, <2>3, <2>5
  <2> QED BY <2>3, <2>6, <2>7, OrderSet DEF ViewsMove, OrderStays
<1>5. ASSUME NEW o \in Orders, assignOrderVendor(o) PROVE FALSE
  BY <1>5 DEF assignOrderVendor, Spend, Typed
<1>6. ASSUME NEW o \in Orders, DelayEnds(o) PROVE ViewsMove
  <2>1. view' = [p \in Processes |-> IF view[p].orders[o].state = "settled"
                                     THEN [view[p] EXCEPT !.orders[o].ripe = TRUE] ELSE view[p]]
    BY <1>6 DEF DelayEnds
  <2>2. ASSUME NEW p \in Processes, NEW i \in Orders, view[p].orders[i] # AbsentOrder
        PROVE  OrderStays(p, i)
    <3>1. PICK w \in Views : w = view[p]
      BY <1>1
    <3>2. CASE w.orders[o].state = "settled" /\ i = o
      <4>1. view'[p] = [w EXCEPT !.orders[o].ripe = TRUE]
        BY <2>1, <3>1, <3>2
      <4>2. PICK order \in OrderRecords : order = w.orders[o]
        BY DEF Views
      <4>3. view'[p].orders[o] = [order EXCEPT !.ripe = TRUE]
        BY <4>1, <4>2 DEF Views
      <4>4. order # AbsentOrder
        BY <3>2, <4>2 DEF AbsentOrder
      <4>5. [order EXCEPT !.ripe = TRUE].vendor = order.vendor /\ [order EXCEPT !.ripe = TRUE] # AbsentOrder
        BY <4>4 DEF OrderRecords, AbsentOrder
      <4> QED BY <3>1, <3>2, <4>2, <4>3, <4>5 DEF OrderStays
    <3>3. CASE w.orders[o].state = "settled" /\ i # o
      <4>1. view'[p] = [w EXCEPT !.orders[o].ripe = TRUE]
        BY <2>1, <3>1, <3>3
      <4>2. view'[p].orders[i] = w.orders[i]
        BY <3>3, <4>1 DEF Views
      <4> QED BY <2>2, <3>1, <4>2 DEF OrderStays
    <3>4. CASE w.orders[o].state # "settled"
      BY <2>1, <2>2, <3>1, <3>4 DEF OrderStays
    <3> QED BY <3>2, <3>3, <3>4
  <2>3. ASSUME NEW i \in Orders, view["worker"].orders[i] = AbsentOrder
        PROVE  view'["worker"].orders[i] = AbsentOrder
    <3>1. PICK w \in Views : w = view["worker"]
      BY <1>1
    <3>2. CASE w.orders[o].state = "settled"
      <4>1. i # o
        BY <2>3, <3>1, <3>2 DEF AbsentOrder
      <4>2. view'["worker"] = [w EXCEPT !.orders[o].ripe = TRUE]
        BY <1>1, <2>1, <3>1, <3>2
      <4> QED BY <2>3, <3>1, <4>1, <4>2 DEF Views
    <3>3. CASE w.orders[o].state # "settled"
      BY <1>1, <2>1, <2>3, <3>1, <3>3
    <3> QED BY <3>2, <3>3
  <2> QED BY <1>1, <2>2, <2>3 DEF ViewsMove
<1>7. ASSUME NEW v \in Vendors, updateVendor(v) PROVE ViewsMove
  BY <1>1, <1>7, SameOrders DEF updateVendor, Views
<1>8. ASSUME NEW rate \in Rates, updateRule(rate) PROVE ViewsMove
  BY <1>1, <1>8, SameOrders DEF updateRule, Views
<1>9. ASSUME NEW p \in Processes, Restart(p) PROVE ViewsMove
  <2>1. view' = [view EXCEPT ![p] = view["api"]]
    BY <1>9 DEF Restart
  <2> QED BY <1>1, <2>1 DEF ViewsMove, OrderStays, Processes
<1>10. ASSUME NEW p \in Processes, persistState(p) PROVE ViewsMove
  BY <1>10, SameOrders DEF persistState
<1>11. CASE listCommissions \/ syncFromOrders
  BY <1>11, SameOrders DEF listCommissions, syncFromOrders
<1>12. ASSUME NEW id \in PayoutIds, \/ queueCreatePayout(id) \/ queueSettlePayout(id)
                                    \/ processPayoutCreate(id) \/ processPayoutSettle(id)
       PROVE  ViewsMove
  BY <1>12, SameOrders DEF queueCreatePayout, queueSettlePayout, processPayoutCreate, processPayoutSettle
<1>13. CASE UNCHANGED vars
  BY <1>13, SameOrders DEF vars
<1> QED BY <1>3, <1>4, <1>5, <1>6, <1>7, <1>8, <1>9, <1>10, <1>11, <1>12, <1>13 DEF Next


LEMMA SteadyStep ==
    ASSUME IsFiniteSet(Orders), Base, Steady, [Next]_vars
    PROVE  Steady'
<1> SUFFICES ASSUME spent'.moves = 0
             PROVE  ViewsAgree' /\ \A b \in Copies' : Sound(b, Owner')
  BY DEF Steady
<1>1. ViewsAgree /\ \A b \in Copies : Sound(b, Owner)
  BY StepTypesSpent DEF Base, Steady
<1>2. ViewsMove
  BY StepMovesViews DEF Base
<1>3. ViewsAgree'
  BY <1>1, <1>2 DEF ViewsAgree, ViewsMove, OrderStays, Processes
<1>4. ASSUME NEW o \in Orders, Owner[o] \in Vendors
      PROVE  Owner'[o] = Owner[o]
  <2>1. view["api"].orders[o].vendor \in Vendors
    BY <1>4 DEF Owner
  <2>2. view["api"].orders[o] # AbsentOrder
    BY <2>1, ValuesAssumption DEF AbsentOrder
  <2> QED BY <1>2, <2>2 DEF ViewsMove, OrderStays, Owner
<1>5. ASSUME NEW b \in Copies' PROVE Sound(b, Owner')
  <2>1. b \in Copies \/ \E p \in Processes : Handled(view[p], book[p], b)
    BY StepMovesBooks, CopiesMove DEF Base
  <2>2. b \in Books
    BY StepKeepsLists DEF Base
  <2>3. ASSUME NEW p \in Processes, Handled(view[p], book[p], b)
        PROVE  Sound(b, Owner)
    <3>1. view[p] \in Views /\ book[p] \in Books /\ Listed(book[p]) /\ Sound(book[p], Owner)
      BY <1>1, ViewOf, BookIsCopy DEF Base, AllListed
    <3>2. Agrees(view[p], Owner)
      BY <1>1 DEF Agrees, Owner, ViewsAgree, AbsentOrder
    <3> QED BY <2>3, <3>1, <3>2, HandledIsSound
  <2>4. Sound(b, Owner)
    BY <1>1, <2>1, <2>3
  <2>5. PICK now : now = Owner
    OBVIOUS
  <2>6. PICK later : later = Owner'
    OBVIOUS
  <2> QED BY <1>4, <2>2, <2>4, <2>5, <2>6, OwnersMove
<1> QED BY <1>3, <1>5

LEMMA SteadyStart == Init => Steady
<1> SUFFICES ASSUME Init PROVE Steady
  OBVIOUS
<1>1. ViewsAgree
  BY DEF Init, ViewsAgree
<1>2. \A b \in Copies : b = EmptyBook
  BY DEF Init, Copies
<1>3. \A owner : Sound(EmptyBook, owner)
  BY DEF EmptyBook, Sound, OwnPayouts, SoundCommissions
<1> QED BY <1>1, <1>2, <1>3 DEF Steady

LEMMA SteadyInvariant == ASSUME IsFiniteSet(Orders) PROVE Spec => [](Base /\ Steady)
<1>1. Base /\ Steady /\ [Next]_vars => (Base /\ Steady)'
  BY BaseStep, SteadyStep
<1> QED BY <1>1, BaseStart, SteadyStart, PTL DEF Spec

----------------------------------------------------------------------------
(***************************************************************************)
(* A synchronisation computes what the next one computes.                  *)
(***************************************************************************)

\* A book whose payouts are their vendors' is its own and only reconciliation.
LEMMA ReconciledOnce ==
    ASSUME NEW b \in Books, Listed(b), NEW owner, Sound(b, owner)
    PROVE  Reconcile(b) = {b}
<1>1. ASSUME NEW id \in PayoutIds
      PROVE  LET vendors == {b.commissions[o].vendor : o \in Attached(b, id)}
             IN (IF vendors = {} THEN {id[1]} ELSE vendors) = {id[1]}
  <2>1. ASSUME NEW o \in Attached(b, id) PROVE b.commissions[o].vendor = id[1]
    <3>1. o \in Orders /\ b.commissions[o] # NoCommission /\ b.commissions[o].payoutId = id
      BY AttachedIs
    <3>2. id = <<b.commissions[o].vendor, PeriodOf[o]>>
      BY <3>1, AbsentAssumption DEF Sound, SoundCommissions, SoundCommission
    <3> QED BY <3>2
  <2> QED BY <2>1
<1>2. ASSUME NEW id \in PayoutIds
      PROVE  ReconcilePayout(b, id, id[1]) = b.payouts[id]
  <2>1. CASE b.payouts[id] = NoPayout
    BY <2>1 DEF ReconcilePayout
  <2>2. CASE b.payouts[id] # NoPayout
    <3>1. /\ b.payouts[id] \in Payouts /\ Attached(b, id) # {}
          /\ b.payouts[id].vendor = id[1]
          /\ b.payouts[id].commissionIds = Attached(b, id)
          /\ b.payouts[id].gross = Gross(b.commissions, Attached(b, id))
          /\ b.payouts[id].net = b.payouts[id].gross + b.payouts[id].adjustment
      BY <2>2 DEF Listed, Sound, OwnPayouts, Books
    <3>2. ReconcilePayout(b, id, id[1]) =
              [b.payouts[id] EXCEPT !.vendor = id[1], !.commissionIds = Attached(b, id),
                                    !.gross = Gross(b.commissions, Attached(b, id)),
                                    !.net = Gross(b.commissions, Attached(b, id))
                                               + b.payouts[id].adjustment]
      BY <2>2, <3>1 DEF ReconcilePayout
    <3>3. PICK payout \in Payouts : payout = b.payouts[id]
      BY <3>1
    <3>4. [payout EXCEPT !.vendor = payout.vendor, !.commissionIds = payout.commissionIds,
                         !.gross = payout.gross, !.net = payout.net] = payout
      BY DEF Payouts
    <3> QED BY <3>1, <3>2, <3>3, <3>4
  <2> QED BY <2>1, <2>2
<1> DEFINE own == [id \in PayoutIds |-> id[1]]
<1>3. own \in Leads(b) /\ \A lead \in Leads(b) : \A id \in PayoutIds : lead[id] = id[1]
  <2>1. own \in [PayoutIds -> Vendors]
    BY DEF PayoutIds
  <2> QED BY <1>1, <2>1 DEF Leads
<1>4. ASSUME NEW lead, \A id \in PayoutIds : lead[id] = id[1]
      PROVE  [b EXCEPT !.payouts = [id \in PayoutIds |-> ReconcilePayout(b, id, lead[id])]] = b
  <2>1. [id \in PayoutIds |-> ReconcilePayout(b, id, lead[id])] = b.payouts
    BY <1>2, <1>4 DEF Books
  <2> QED BY <2>1 DEF Books
<1>5. \A id \in PayoutIds : own[id] = id[1]
  OBVIOUS
<1> HIDE DEF own
<1> QED BY <1>3, <1>4, <1>5 DEF Reconcile

\* The commission of an order is what the synchronisation before made it.
LEMMA CommissionStays ==
    ASSUME IsFiniteSet(Orders), NEW w \in Views, NEW b \in Books, Listed(b), NEW owner,
           Sound(b, owner), Agrees(w, owner), NEW s \in SyncFromOrders(w, b), NEW o \in Orders
    PROVE  SyncOrderCommission(w, s, o) = s.commissions[o]
<1>1. s \in Books /\ Listed(s) /\ Sound(s, owner) /\ Reconciles(Synced(w, b), s)
  BY SyncLeavesSound, SyncListed
<1>2. s.commissions[o] = SyncOrderCommission(w, b, o)
  BY <1>1, SyncedGives DEF Reconciles
<1>3. CASE w.orders[o].vendor = NoVendor
  BY <1>3 DEF SyncOrderCommission
<1>4. CASE w.orders[o].vendor # NoVendor
  <2> DEFINE order == w.orders[o]
             v == order.vendor
             id == PayoutFor(b, o, v)
             id2 == PayoutFor(s, o, v)
             ps == PayoutStatus(b, id)
             previous == PreviousStatus(b.commissions[o])
             c == SyncOrderCommission(w, b, o)
             c2 == SyncOrderCommission(w, s, o)
  <2>1. /\ order.state \in OrderStates
        /\ id \in PayoutIds \cup {NoPayout} /\ (id # NoPayout => b.payouts[id] # NoPayout)
        /\ ps \in {NoPayout, "approved", "paid"} /\ (ps = "paid" <=> PaidIn(b, id))
        /\ c.payoutId = id /\ c # NoCommission
        /\ c.status = ResolveStatus(order, v \in w.active, ps, previous)
    BY <1>4, SyncedIs
  <2>2. ASSUME NEW i \in PayoutIds, s.payouts[i] # NoPayout
        PROVE  b.payouts[i] # NoPayout /\ s.payouts[i].status = b.payouts[i].status
    BY <1>1, <2>2, SyncedGives DEF Reconciles
  <2>3. ASSUME id # NoPayout
        PROVE  id2 = id /\ PayoutStatus(s, id2) = ps
    <3>1. o \in Attached(s, id)
      BY <1>2, <2>1, AttachedIs
    <3>2. s.payouts[id] # NoPayout
      BY <1>1, <2>1, <2>3, <3>1, ListedNames DEF Named
    <3>3. id2 = id
      BY <1>1, <2>1, <2>3, <3>1, <3>2, PayoutForGives
    <3> QED BY <2>1, <2>2, <2>3, <3>2, <3>3 DEF PayoutStatus
  <2>4. ASSUME id = NoPayout
        PROVE  id2 = id /\ PayoutStatus(s, id2) = ps
    <3>1. ASSUME id2 # NoPayout PROVE FALSE
      <4>1. o \notin Attached(s, id2)
        BY <1>2, <2>1, <2>4, <3>1, AttachedIs
      <4>2. id2 = FindPayout(s, v, PeriodOf[o])
        BY <1>1, <4>1, PayoutForGives
      <4>3. /\ id2 \in PayoutIds /\ s.payouts[id2] # NoPayout /\ s.payouts[id2].vendor = v
            /\ id2[2] = PeriodOf[o]
        BY <1>1, <3>1, <4>2, FindPayoutGives
      <4>4. b.payouts[id2] # NoPayout /\ b.payouts[id2].vendor = v
        BY <1>1, <2>2, <4>3 DEF Sound, OwnPayouts
      <4>5. FindPayout(b, v, PeriodOf[o]) = NoPayout
        BY <2>4, PayoutForGives
      <4> HIDE DEF id2
      <4> QED BY <4>3, <4>4, <4>5, FindPayoutGives, AbsentAssumption
    <3> QED BY <2>4, <3>1 DEF PayoutStatus
  <2>5. previous = "paid" => ps = "paid"
    <3> SUFFICES ASSUME previous = "paid" PROVE ps = "paid"
      OBVIOUS
    <3> DEFINE before == b.commissions[o]
    <3>1. before # NoCommission /\ before.status = "paid"
      BY AbsentAssumption DEF PreviousStatus, CommissionStatuses
    <3>2. PaidIn(b, before.payoutId)
      BY <3>1 DEF Sound, SoundCommissions, SoundCommission
    <3>3. before.payoutId \in PayoutIds /\ b.payouts[before.payoutId] # NoPayout
      BY <3>1, <3>2 DEF PaidIn, Books, Commissions
    <3>4. o \in Attached(b, before.payoutId)
      BY <3>1, AttachedIs
    <3>5. id = before.payoutId
      BY <3>3, <3>4, PayoutForGives
    <3> QED BY <2>1, <3>2, <3>5
  <2>6. c2 = [vendor |-> v, amount |-> Totals[o] * w.rate,
              status |-> ResolveStatus(order, v \in w.active, PayoutStatus(s, id2),
                                       PreviousStatus(s.commissions[o])),
              payoutId |-> id2]
    BY <1>4 DEF SyncOrderCommission
  <2>7. c = [vendor |-> v, amount |-> Totals[o] * w.rate,
             status |-> ResolveStatus(order, v \in w.active, ps, previous), payoutId |-> id]
    BY <1>4 DEF SyncOrderCommission
  <2>8. PreviousStatus(s.commissions[o]) = c.status
    BY <1>2, <2>1 DEF PreviousStatus
  <2>9. id2 = id /\ PayoutStatus(s, id2) = ps
    BY <2>3, <2>4
  <2>10. ResolveStatus(order, v \in w.active, ps, c.status) = c.status
    <3> DEFINE status == ResolveStatus(order, v \in w.active, ps, previous)
    <3>1. /\ order.state \in OrderStates /\ ps \in {NoPayout, "approved", "paid"}
          /\ (previous = "paid" => ps = "paid") /\ c.status = status
      BY <2>1, <2>5
    <3> HIDE DEF ps, previous, c, order, v
    <3>2. ResolveStatus(order, v \in w.active, ps, status) = status
      BY <3>1, AbsentAssumption DEF ResolveStatus, OrderStates
    <3> HIDE DEF status
    <3> QED BY <3>1, <3>2
  <2>11. c2 = c
    <3> HIDE DEF c, c2, ps, previous, id, id2
    <3> QED BY <2>1, <2>6, <2>7, <2>8, <2>9, <2>10
  <2> QED BY <1>2, <2>11
<1> QED BY <1>3, <1>4

\* While no order changes vendor, reading a list twice gives the same answer
\* (listCommissions, listPayouts: both synchronise first).
THEOREM ReadingIsStable == ASSUME IsFiniteSet(Orders) PROVE Spec => []SyncIsStable
<1>1. Base /\ Steady => SyncIsStable
  <2> SUFFICES ASSUME Base, Steady, spent.moves = 0,
                      NEW s \in SyncFromOrders(view["api"], book["api"])
               PROVE  SyncFromOrders(view["api"], s) = {s}
    BY DEF SyncIsStable
  <2> DEFINE w == view["api"]
             b == book["api"]
  <2>1. "api" \in Processes
    BY DEF Processes
  <2>2. w \in Views /\ b \in Books /\ Listed(b) /\ Sound(b, Owner)
    BY <2>1, ViewOf, BookIsCopy DEF Base, AllListed, Steady
  <2>3. Agrees(w, Owner)
    BY <2>1 DEF Agrees, Owner, Steady, ViewsAgree, AbsentOrder
  <2> HIDE DEF w, b
  <2>4. s \in SyncFromOrders(w, b)
    BY DEF w, b
  <2>5. s \in Books /\ Listed(s) /\ Sound(s, Owner)
    BY <2>2, <2>3, <2>4, SyncLeavesSound
  <2>6. \A o \in Orders : SyncOrderCommission(w, s, o) = s.commissions[o]
    BY <2>2, <2>3, <2>4, CommissionStays
  <2>7. [o \in Orders |-> SyncOrderCommission(w, s, o)] = s.commissions
    BY <2>5, <2>6 DEF Books
  <2>8. Synced(w, s) = s
    BY <2>5, <2>7 DEF Synced, Books
  <2>9. SyncFromOrders(w, s) = {s}
    BY <2>5, <2>8, SyncIs, ReconciledOnce
  <2> QED BY <2>9 DEF w
<1> QED BY <1>1, SteadyInvariant, PTL


----------------------------------------------------------------------------
(***************************************************************************)
(* A commission a process settled, or found paid in the snapshot it        *)
(* started from, stays in its paid payout, where the process does not      *)
(* settle it again.                                                        *)
(***************************************************************************)

LEMMA ReconcileKeepsPaid ==
    ASSUME NEW b \in Books, NEW r, Reconciles(b, r), NEW o, Paid(b, o)
    PROVE  Paid(r, o)
<1>1. PICK id \in PayoutIds : o \in Attached(b, id) /\ PaidIn(b, id)
  BY DEF Paid
<1>2. o \in Attached(r, id)
  BY <1>1, SameAttached DEF Reconciles
<1>3. r.payouts[id] # NoPayout
  BY <1>2, ListedNames DEF Reconciles, Named
<1> QED BY <1>1, <1>2, <1>3 DEF Paid, PaidIn, Reconciles

LEMMA SyncKeepsPaid ==
    ASSUME IsFiniteSet(Orders), NEW w \in Views, NEW b \in Books, Listed(b),
           NEW s \in SyncFromOrders(w, b), NEW o, Paid(b, o)
    PROVE  Paid(s, o)
<1>1. PICK id \in PayoutIds : o \in Attached(b, id) /\ PaidIn(b, id)
  BY DEF Paid
<1>2. o \in Orders /\ b.commissions[o] # NoCommission /\ b.commissions[o].payoutId = id
  BY <1>1, AttachedIs
<1> DEFINE c == SyncOrderCommission(w, b, o)
<1>3. c # NoCommission /\ c.payoutId = id
  <2>1. CASE w.orders[o].vendor = NoVendor
    BY <1>2, <2>1 DEF SyncOrderCommission
  <2>2. CASE w.orders[o].vendor # NoVendor
    <3>1. c # NoCommission /\ c.payoutId = PayoutFor(b, o, w.orders[o].vendor)
      BY <1>2, <2>2, SyncedIs
    <3>2. PayoutFor(b, o, w.orders[o].vendor) = id
      BY <1>1, <1>2, PayoutForGives DEF PaidIn
    <3> QED BY <3>1, <3>2
  <2> QED BY <2>1, <2>2
<1> HIDE DEF c
<1>4. Synced(w, b) \in Books /\ Synced(w, b).payouts = b.payouts /\ Synced(w, b).commissions[o] = c
  BY <1>2, SyncedGives DEF c
<1>5. Paid(Synced(w, b), o)
  BY <1>1, <1>2, <1>3, <1>4, AttachedIs DEF Paid, PaidIn
<1> QED BY <1>4, <1>5, SyncListed, ReconcileKeepsPaid

LEMMA CreateKeepsPaid ==
    ASSUME IsFiniteSet(Orders), NEW b \in Books, Listed(b), NEW owner, Sound(b, owner),
           NEW id \in PayoutIds, NEW adjustment \in Int, CanCreate(b, id, adjustment),
           NEW r \in CreatePayout(b, id, adjustment), NEW o, Paid(b, o)
    PROVE  Paid(r, o)
<1> DEFINE c == Prepared(b, id, adjustment)
<1>1. PICK i \in PayoutIds : o \in Attached(b, i) /\ PaidIn(b, i)
  BY DEF Paid
<1>2. o \in Orders /\ b.commissions[o] # NoCommission /\ b.commissions[o].payoutId = i
  BY <1>1, AttachedIs
<1>3. b.payouts[id] = NoPayout
  BY FreeId DEF CanCreate, Sound
<1>4. i # id
  BY <1>1, <1>3 DEF PaidIn
<1>5. o \notin Eligible(b, id)
  BY <1>1, <1>2 DEF Eligible, Sound, SoundCommissions, SoundCommission, PaidIn
<1>6. c \in Books /\ c.commissions[o] = b.commissions[o] /\ c.payouts[i] = b.payouts[i]
  BY <1>2, <1>4, <1>5, PreparedGives
<1>7. Reconciles(c, r)
  BY CreateListed
<1> HIDE DEF c
<1>8. Paid(c, o)
  BY <1>1, <1>2, <1>6, AttachedIs DEF Paid, PaidIn
<1> QED BY <1>6, <1>7, <1>8, ReconcileKeepsPaid

\* Settling pays the commissions of the payout, which were not paid, and no other.
LEMMA SettlePays ==
    ASSUME IsFiniteSet(Orders), NEW b \in Books, Listed(b), NEW id \in PayoutIds, CanSettle(b, id),
           NEW r \in SettlePayout(b, id), NEW o
    PROVE  /\ Paid(b, o) => Paid(r, o) /\ o \notin Attached(b, id)
           /\ o \in Attached(b, id) => Paid(r, o)
<1> DEFINE c == Settling(b, id)
<1>1. b.payouts[id] # NoPayout /\ b.payouts[id].status # "paid"
  BY DEF CanSettle
<1>2. c \in Books /\ Reconciles(c, r)
  BY <1>1, SettlingGives, SettleListed
<1>3. ASSUME NEW i \in PayoutIds, o \in Attached(b, i), PaidIn(b, i)
      PROVE  Paid(r, o) /\ o \notin Attached(b, id)
  <2>1. i # id
    BY <1>1, <1>3 DEF PaidIn
  <2>2. o \in Orders /\ b.commissions[o] # NoCommission /\ b.commissions[o].payoutId = i
    BY <1>3, AttachedIs
  <2>3. o \notin Attached(b, id)
    BY <2>1, <2>2, AttachedIs
  <2>4. c.commissions[o] = b.commissions[o] /\ c.payouts[i] = b.payouts[i]
    BY <1>1, <2>1, <2>2, <2>3, SettlingGives
  <2> HIDE DEF c
  <2>5. Paid(c, o)
    BY <1>3, <2>2, <2>4, AttachedIs DEF Paid, PaidIn
  <2> QED BY <1>2, <2>3, <2>5, ReconcileKeepsPaid
<1>4. ASSUME o \in Attached(b, id) PROVE Paid(r, o)
  <2>1. /\ o \in Orders /\ c.commissions[o] # NoCommission /\ c.commissions[o].payoutId = id
        /\ c.payouts[id] # NoPayout /\ c.payouts[id].status = "paid"
    BY <1>1, <1>4, AttachedIs, SettlingGives
  <2> HIDE DEF c
  <2>2. Paid(c, o)
    BY <2>1, AttachedIs, AbsentAssumption DEF Paid, PaidIn
  <2> QED BY <1>2, <2>2, ReconcileKeepsPaid
<1> QED BY <1>3, <1>4 DEF Paid

LEMMA HandledKeepsPaid ==
    ASSUME IsFiniteSet(Orders), NEW w \in Views, NEW b \in Books, Listed(b), NEW owner,
           Sound(b, owner), Agrees(w, owner), NEW r, Handled(w, b, r), NEW o, Paid(b, o)
    PROVE  Paid(r, o)
<1>1. PICK s \in SyncFromOrders(w, b) :
        \/ r = s
        \/ \E id \in PayoutIds, adjustment \in Int :
              CanCreate(s, id, adjustment) /\ r \in CreatePayout(s, id, adjustment)
        \/ \E id \in PayoutIds : CanSettle(s, id) /\ r \in SettlePayout(s, id)
  BY DEF Handled
<1>2. s \in Books /\ Listed(s) /\ Sound(s, owner) /\ Paid(s, o)
  BY SyncLeavesSound, SyncKeepsPaid
<1>3. ASSUME NEW id \in PayoutIds, NEW adjustment \in Int, CanCreate(s, id, adjustment),
             r \in CreatePayout(s, id, adjustment)
      PROVE  Paid(r, o)
  BY <1>2, <1>3, CreateKeepsPaid
<1>4. ASSUME NEW id \in PayoutIds, CanSettle(s, id), r \in SettlePayout(s, id)
      PROVE  Paid(r, o)
  BY <1>2, <1>4, SettlePays
<1> QED BY <1>1, <1>2, <1>3, <1>4

\* While nothing moves, what a process settled or started from as paid is paid in its book.
Settled ==
    spent.moves = 0 =>
        \A p \in Processes, o \in Orders :
            \/ paidOut[p][o] = 0
            \/ paidOut[p][o] = 1 /\ Paid(book[p], o)

\* A settlement of one process: its book, its count, and nobody else's.
LEMMA SettlementIs ==
    ASSUME Typed, NEW p \in Processes, NEW id \in PayoutIds, settlePayout(p, id)
    PROVE  \/ UNCHANGED paidOut
           \/ \E s \in SyncFromOrders(view[p], book[p]) :
                 /\ CanSettle(s, id) /\ book'[p] \in SettlePayout(s, id)
                 /\ \A o \in Orders :
                       paidOut'[p][o] = paidOut[p][o] + (IF o \in Attached(s, id) THEN 1 ELSE 0)
                 /\ \A q \in Processes \ {p} : book'[q] = book[q] /\ paidOut'[q] = paidOut[q]
<1>1. SUFFICES ASSUME NEW s \in SyncFromOrders(view[p], book[p]), CanSettle(s, id),
                      NEW c \in SettlePayout(s, id), Commit(p, c),
                      paidOut' = [paidOut EXCEPT ![p] =
                          [o \in Orders |-> @[o] + (IF o \in Attached(s, id) THEN 1 ELSE 0)]]
               PROVE  /\ book'[p] \in SettlePayout(s, id)
                      /\ \A o \in Orders : paidOut'[p][o] =
                            paidOut[p][o] + (IF o \in Attached(s, id) THEN 1 ELSE 0)
                      /\ \A q \in Processes \ {p} : book'[q] = book[q] /\ paidOut'[q] = paidOut[q]
  BY DEF settlePayout
<1> DEFINE more == [o \in Orders |-> paidOut[p][o] + (IF o \in Attached(s, id) THEN 1 ELSE 0)]
<1>2. paidOut' = [paidOut EXCEPT ![p] = more]
  BY <1>1
<1>3. \A o \in Orders : more[o] = paidOut[p][o] + (IF o \in Attached(s, id) THEN 1 ELSE 0)
  OBVIOUS
<1>4. book' = [book EXCEPT ![p] = c]
  BY <1>1 DEF Commit
<1> HIDE DEF more
<1> QED BY <1>1, <1>2, <1>3, <1>4 DEF Typed, TypeOK

LEMMA SettledStep ==
    ASSUME IsFiniteSet(Orders), Base, Steady, Settled, [Next]_vars
    PROVE  Settled'
<1> SUFFICES ASSUME spent'.moves = 0, NEW q \in Processes, NEW o \in Orders
             PROVE  \/ paidOut'[q][o] = 0
                    \/ paidOut'[q][o] = 1 /\ Paid(book'[q], o)
  BY DEF Settled
<1>1. spent.moves = 0
  BY StepTypesSpent DEF Base
<1>2. paidOut[q][o] = 0 \/ (paidOut[q][o] = 1 /\ Paid(book[q], o))
  BY <1>1 DEF Settled
<1>3. /\ view[q] \in Views /\ book[q] \in Books /\ Listed(book[q]) /\ Sound(book[q], Owner)
      /\ Agrees(view[q], Owner)
  BY <1>1, ViewOf, BookIsCopy DEF Base, AllListed, Steady, Agrees, Owner, ViewsAgree, AbsentOrder
<1>4. CASE UNCHANGED paidOut
  <2>1. \/ book'[q] = book[q]
        \/ Handled(view[q], book[q], book'[q])
        \/ book'[q] = saved /\ paidOut'[q][o] = (IF Paid(saved, o) THEN 1 ELSE 0)
    BY StepMovesBooks DEF Base, BooksMove
  <2>2. CASE book'[q] = book[q] \/ Handled(view[q], book[q], book'[q])
    <3>1. Paid(book[q], o) => Paid(book'[q], o)
      BY <1>3, <2>2, HandledKeepsPaid
    <3> QED BY <1>2, <1>4, <3>1
  <2>3. CASE book'[q] = saved /\ paidOut'[q][o] = (IF Paid(saved, o) THEN 1 ELSE 0)
    BY <2>3
  <2> QED BY <2>1, <2>2, <2>3
<1>5. ASSUME NEW p \in Processes, NEW id \in PayoutIds, NEW s \in SyncFromOrders(view[p], book[p]),
             CanSettle(s, id), book'[p] \in SettlePayout(s, id),
             \A i \in Orders : paidOut'[p][i] = paidOut[p][i] + (IF i \in Attached(s, id) THEN 1 ELSE 0),
             \A i \in Processes \ {p} : book'[i] = book[i] /\ paidOut'[i] = paidOut[i]
      PROVE  \/ paidOut'[q][o] = 0
             \/ paidOut'[q][o] = 1 /\ Paid(book'[q], o)
  <2>1. CASE q # p
    BY <1>2, <1>5, <2>1
  <2>2. CASE q = p
    <3>1. s \in Books /\ Listed(s) /\ (Paid(book[q], o) => Paid(s, o))
      BY <1>3, <1>5, <2>2, SyncKeepsLists, SyncKeepsPaid
    <3>2. PICK r : r = book'[q]
      OBVIOUS
    <3>3. /\ Paid(s, o) => Paid(r, o) /\ o \notin Attached(s, id)
          /\ o \in Attached(s, id) => Paid(r, o)
      BY <1>5, <2>2, <3>1, <3>2, SettlePays
    <3>4. paidOut'[q][o] = paidOut[q][o] + (IF o \in Attached(s, id) THEN 1 ELSE 0)
      BY <1>5, <2>2
    <3>5. CASE o \in Attached(s, id)
      <4>1. paidOut[q][o] = 0
        BY <1>2, <3>1, <3>3, <3>5
      <4> QED BY <3>2, <3>3, <3>4, <3>5, <4>1
    <3>6. CASE o \notin Attached(s, id)
      <4>1. paidOut[q][o] \in Nat
        BY DEF Base, Typed, TypeOK
      <4>2. paidOut'[q][o] = paidOut[q][o]
        BY <3>4, <3>6, <4>1
      <4> QED BY <1>2, <3>1, <3>2, <3>3, <4>2
    <3> QED BY <3>5, <3>6
  <2> QED BY <2>1, <2>2
<1>6. ASSUME NEW p \in Processes, Restart(p)
      PROVE  \/ paidOut'[q][o] = 0
             \/ paidOut'[q][o] = 1 /\ Paid(book'[q], o)
  BY <1>2, <1>6, RestartPays DEF Base
<1>7. \/ UNCHANGED paidOut
      \/ \E p \in Processes, id \in PayoutIds : settlePayout(p, id)
      \/ \E p \in Processes : Restart(p)
  BY StepPays DEF Base
<1> QED BY <1>4, <1>5, <1>6, <1>7, SettlementIs DEF Base

LEMMA SettledInvariant == ASSUME IsFiniteSet(Orders) PROVE Spec => [](Base /\ Steady /\ Settled)
<1>1. Init => Settled
  BY DEF Init, Settled
<1>2. Base /\ Steady /\ Settled /\ [Next]_vars => Settled'
  BY SettledStep
<1> QED BY <1>1, <1>2, SteadyInvariant, PTL DEF Spec

\* While no order changes vendor, no process pays the commission of an order twice, nor one
\* that was paid in the snapshot it started from, whichever process had paid it
\* (createPayout, settlePayout, and restarts of both processes).
THEOREM NothingPaidTwice == ASSUME IsFiniteSet(Orders) PROVE Spec => []PaidOnceUnmoved
<1>1. Settled => PaidOnceUnmoved
  BY DEF Settled, PaidOnceUnmoved, PaidOnce
<1> QED BY <1>1, SettledInvariant, PTL

\* While no order changes vendor, what a process paid or started from as paid stays in a paid
\* payout of its memory and is not due again, whatever becomes of the order, its vendor, the
\* rule and the other process (syncOrderCommission, reconcilePayouts).
THEOREM PaidStaysPaid == ASSUME IsFiniteSet(Orders) PROVE Spec => []PaidIsNotDue
<1>1. Base /\ Steady /\ Settled => PaidIsNotDue
  <2> SUFFICES ASSUME Base, Steady, Settled, spent.moves = 0,
                      NEW p \in Processes, NEW o \in Orders, paidOut[p][o] > 0
               PROVE  /\ Paid(book[p], o)
                      /\ book[p].commissions[o].status \notin {"payable", "scheduled_for_payout"}
    BY DEF PaidIsNotDue
  <2>1. Paid(book[p], o)
    BY DEF Settled
  <2>2. PICK id \in PayoutIds : o \in Attached(book[p], id) /\ PaidIn(book[p], id)
    BY <2>1 DEF Paid
  <2>3. book[p].commissions[o] # NoCommission /\ book[p].commissions[o].payoutId = id
    BY <2>2, AttachedIs
  <2>4. Sound(book[p], Owner)
    BY BookIsCopy DEF Steady, Base
  <2>5. SoundCommission(book[p], book[p].commissions[o], o, Owner)
    BY <2>3, <2>4 DEF Sound, SoundCommissions
  <2> QED BY <2>1, <2>2, <2>3, <2>5 DEF SoundCommission
<1> QED BY <1>1, SettledInvariant, PTL
=============================================================================
