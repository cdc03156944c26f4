------------------------- MODULE CustomerIdentities -------------------------
(***************************************************************************)
(* The canonical customers and the orders that name them                   *)
(* (src/apps/api/src/modules/customers/customers.service.ts and the        *)
(* customer links of orders.service.ts).                                   *)
(*                                                                         *)
(* Customers are rows of the database: a status, the customer a merged one *)
(* went into, and the clues that identify the person (document, email,     *)
(* phone; the unique keys of the schema give every clue at most one        *)
(* owner).  Orders are kept by the API: each names a customer, or an       *)
(* identity conflict when its clues belong to several.  An order is        *)
(* resolved when it is created and again at every start of the API; CRM    *)
(* operators merge, delete and edit customers and decide conflicts.  A     *)
(* call is several awaits long, and what it read first is what it uses     *)
(* last; a step below goes from one await to the next.                     *)
(***************************************************************************)
EXTENDS FiniteSets, Integers

CONSTANTS
    Ids,           \* ids the database gives to customers
    Orders,        \* order numbers
    Clues,         \* documents, emails and phones people write down
    KindOf,        \* the kind of each clue
    OrderClues,    \* the clues each order carries
    Registered,    \* customers known at the start: id -> its clues
    Calls,         \* calls the API may be serving at once
    None,          \* no customer, no order
    MaxEdits,      \* bound on calls of createCustomer and updateCustomer
    MaxRestarts    \* bound on restarts of the API

Kinds(clues) == {KindOf[x] : x \in clues}

\* At most one document, one email and one phone.
OnePerKind(clues) == \A x, y \in clues : KindOf[x] = KindOf[y] => x = y

ASSUME CluesAssumption ==
    /\ KindOf \in [Clues -> {"document", "email", "phone"}]
    /\ OrderClues \in [Orders -> SUBSET Clues] /\ \A o \in Orders : OnePerKind(OrderClues[o])
    /\ DOMAIN Registered \subseteq Ids
    /\ \A c \in DOMAIN Registered : Registered[c] \subseteq Clues /\ OnePerKind(Registered[c])
    /\ \A c, d \in DOMAIN Registered : c # d => Registered[c] \cap Registered[d] = {}
    /\ None \notin Ids \cup Orders
    /\ MaxEdits \in Nat /\ MaxRestarts \in Nat

VARIABLES
    customer,   \* the rows of the database: status, into, clues
    conflict,   \* customer_identity_conflicts: status by order number
    link,       \* the orders of the API: the customer or the conflict named
    call,       \* what every call in progress has read and does next
    todo,       \* orders the start of the API has still to reconcile
    edits, restarts,
    \* what happened, for the properties
    assigned,   \* the customer a decision gave an order last
    reopened,   \* orders whose conflict came back after a decision
    early,      \* orders whose conflict was decided before they entered
    tangled,    \* a merge was applied to customers no longer active
    orphaned    \* customers deleted while an order or a call held them

rows == <<customer, conflict>>
history == <<assigned, reopened, early, tangled, orphaned>>
vars == <<rows, link, call, todo, edits, restarts, history>>

Exists(c) == customer[c].status \in {"active", "merged"}

Owners(clue) == {c \in Ids : clue \in customer[c].clues}

Idle == [op |-> "none", step |-> "none", order |-> None, found |-> {},
         held |-> None, seen |-> {}, other |-> None, otherSeen |-> {}]

NotPlaced == [status |-> "absent", customer |-> None]
Linked(c) == [status |-> "linked", customer |-> c]
InConflict == [status |-> "conflict", customer |-> None]
Unlinked == [status |-> "unlinked", customer |-> None]

Placed == {o \in Orders : link[o].status # "absent"}

Init ==
    /\ customer = [c \in Ids |->
                     [status |-> IF c \in DOMAIN Registered THEN "active" ELSE "unused",
                      into |-> None,
                      clues |-> IF c \in DOMAIN Registered THEN Registered[c] ELSE {}]]
    /\ conflict = [o \in Orders |-> "none"]
    /\ link = [o \in Orders |-> NotPlaced]
    /\ call = [k \in Calls |-> Idle]
    /\ todo = {}
    /\ edits = 0 /\ restarts = 0
    /\ assigned = [o \in Orders |-> None]
    /\ reopened = {} /\ early = {} /\ tangled = FALSE /\ orphaned = {}

-----------------------------------------------------------------------------
(* Reading *)

\* The customer a record stands for: merged ones are followed until an
\* active one, a missing one or one already visited.
ActiveOf(c) ==
    LET follow[seen \in SUBSET Ids] ==
          [d \in Ids |->
             IF /\ customer[d].status = "merged"
                /\ customer[d].into # None
                /\ d \notin seen
               THEN follow[seen \cup {d}][customer[d].into]
               ELSE d]
    IN follow[{}][c]

\* requireActiveCustomerRecord: an id is good when what it stands for is.
IsActive(c) == Exists(c) /\ customer[ActiveOf(c)].status = "active"

\* The customers an order may belong to: the one it names and the owners of
\* its clues, each replaced by the one it stands for.
Candidates(o) ==
    LET named == {link[o].customer} \cap {c \in Ids : Exists(c)}
    IN {ActiveOf(c) : c \in named \cup UNION {Owners(x) : x \in OrderClues[o]}}

\* updateCustomerFromOrder: the clues of the order whose kind the record, as
\* it was read, did not have and nobody else owns now.
Enriched(c, seen, o) ==
    LET added == {x \in OrderClues[o] :
                    KindOf[x] \notin Kinds(seen) /\ Owners(x) \subseteq {c}}
        kept == {x \in customer[c].clues : KindOf[x] \notin Kinds(added)}
    IN [customer EXCEPT ![c].clues = kept \cup added]

NewId == CHOOSE c \in Ids : customer[c].status = "unused"
HasNewId == \E c \in Ids : customer[c].status = "unused"

Created(c, clues) ==
    [customer EXCEPT ![c] = [status |-> "active", into |-> None, clues |-> clues]]

\* Mutant of Closed: an ignored conflict is closed, an open one is forgotten.
ClosedIgnored(o) ==
    IF conflict[o] = "ignored" THEN [conflict EXCEPT ![o] = "resolved"] ELSE conflict

\* closeConflictForOrder
Closed(o) ==
    IF conflict[o] \in {"open", "ignored"}
      THEN [conflict EXCEPT ![o] = "resolved"]
      ELSE conflict

\* upsertCustomerConflict puts the decision away whatever it was.
Reopened(o) ==
    /\ conflict' = [conflict EXCEPT ![o] = "open"]
    /\ reopened' = IF conflict[o] \in {"none", "open"} THEN reopened ELSE reopened \cup {o}

-----------------------------------------------------------------------------
(* Resolving an order while it is created *)

Serving == todo = {}

Begin(k, request) == Serving /\ call[k] = Idle /\ call' = [call EXCEPT ![k] = request]
Give(k, fields) == call' = [call EXCEPT ![k] = fields]
Finish(k) == call' = [call EXCEPT ![k] = Idle]

At(k, step) == call[k].step = step

resolveCustomerFromOrderSnapshot(k, o) ==
    /\ link[o] = NotPlaced
    /\ \A j \in Calls : ~(call[j].op = "create" /\ call[j].order = o)
    /\ Begin(k, [Idle EXCEPT !.op = "create", !.step = "write", !.order = o,
                             !.found = Candidates(o),
                             !.seen = UNION {customer[c].clues : c \in Candidates(o)}])
    /\ UNCHANGED <<rows, link, todo, edits, restarts, history>>

\* Several candidates: the conflict of the order is opened.
OpenConflict(k) ==
    /\ At(k, "write") /\ Cardinality(call[k].found) > 1
    /\ Reopened(call[k].order)
    /\ Give(k, [call[k] EXCEPT !.step = "enter", !.held = None])
    /\ UNCHANGED <<customer, link, todo, edits, restarts, assigned, early, tangled, orphaned>>

\* One candidate: it receives the clues it lacked, by the record read.
UseCandidate(k) ==
    /\ At(k, "write")
    /\ \E c \in call[k].found :
         /\ call[k].found = {c}
         /\ Exists(c)
         /\ customer' = Enriched(c, call[k].seen, call[k].order)
         /\ Give(k, [call[k] EXCEPT !.step = "enter", !.held = c])
    /\ UNCHANGED <<conflict, link, todo, edits, restarts, history>>

\* No candidate: the account that has its email, or its phone, by now, even
\* a merged one; failing that a new customer with the clues of the order.
ByContact(o) ==
    LET of(kind) == UNION {Owners(x) : x \in {y \in OrderClues[o] : KindOf[y] = kind}}
    IN IF of("email") # {} THEN of("email") ELSE of("phone")

materializeCustomerFromOrder(k) ==
    /\ At(k, "write") /\ call[k].found = {}
    /\ LET o == call[k].order
       IN \/ \E c \in ByContact(o) :
               /\ customer' = Enriched(c, customer[c].clues, o)
               /\ Give(k, [call[k] EXCEPT !.step = "enter", !.held = c])
          \/ /\ ByContact(o) = {} /\ HasNewId
             /\ \A x \in OrderClues[o] : Owners(x) = {}
             /\ customer' = Created(NewId, OrderClues[o])
             /\ Give(k, [call[k] EXCEPT !.step = "enter", !.held = NewId])
    /\ UNCHANGED <<conflict, link, todo, edits, restarts, history>>

\* The account read is gone, or a unique key is taken: no order is created.
ResolutionFails(k) ==
    /\ At(k, "write")
    /\ \/ \E c \in call[k].found : call[k].found = {c} /\ ~Exists(c)
       \/ /\ call[k].found = {} /\ ByContact(call[k].order) = {}
          /\ \E x \in OrderClues[call[k].order] : Owners(x) # {}
    /\ Finish(k)
    /\ UNCHANGED <<rows, link, todo, edits, restarts, history>>

\* The order enters the memory of the API and its snapshot.
EnterOrder(k) ==
    /\ At(k, "enter")
    /\ LET o == call[k].order
       IN IF call[k].held = None
            THEN /\ link' = [link EXCEPT ![o] = InConflict]
                 /\ UNCHANGED conflict
            ELSE /\ link' = [link EXCEPT ![o] = Linked(call[k].held)]
                 /\ conflict' = Closed(o)
    /\ Finish(k)
    /\ UNCHANGED <<customer, todo, edits, restarts, history>>

-----------------------------------------------------------------------------
(* Merging two customers *)

Documents(clues) == {x \in clues : KindOf[x] = "document"}

\* The checks of mergeCustomersInternal: the ids differ, what they stand for
\* is active, and their documents do not contradict each other.
MayMerge(s, t) ==
    /\ s # t /\ IsActive(s) /\ IsActive(t)
    /\ LET both == {Documents(customer[ActiveOf(c)].clues) : c \in {s, t}}
       IN {} \in both \/ Cardinality(both) = 1

MergeRequest(s, t, o) ==
    [op |-> "merge", step |-> "commit", order |-> o, found |-> {},
     held |-> ActiveOf(s), seen |-> customer[ActiveOf(s)].clues,
     other |-> ActiveOf(t), otherSeen |-> customer[ActiveOf(t)].clues]

mergeCustomers(k, s, t) ==
    /\ MayMerge(s, t)
    /\ Begin(k, MergeRequest(s, t, None))
    /\ UNCHANGED <<rows, link, todo, edits, restarts, history>>

\* What the transaction writes: the target takes the clues of the source of
\* the kinds it lacked when it was read.
Merged(s, sSeen, t, tSeen) ==
    LET moved == {x \in sSeen : KindOf[x] \notin Kinds(tSeen)}
        without(clues) == {x \in clues : KindOf[x] \notin Kinds(moved)}
        given == [customer EXCEPT ![s].clues = without(@)]
        taken == [given EXCEPT ![t].clues = without(@) \cup moved]
    IN [taken EXCEPT ![s].status = "merged", ![s].into = t]

Unique(cu) == \A c, d \in Ids : c # d => cu[c].clues \cap cu[d].clues = {}

MergeCommit(k) ==
    /\ At(k, "commit")
    /\ LET s == call[k].held
           t == call[k].other
           after == Merged(s, call[k].seen, t, call[k].otherSeen)
       IN IF Exists(s) /\ Exists(t) /\ Unique(after)
            THEN /\ customer' = after
                 /\ conflict' = IF call[k].order = None THEN conflict
                                ELSE [conflict EXCEPT ![call[k].order] = "merged"]
                 /\ tangled' = (tangled \/ s = t \/ {customer[s].status, customer[t].status} # {"active"})
                 /\ Give(k, [call[k] EXCEPT !.step = "reassign"])
            ELSE Finish(k) /\ UNCHANGED <<rows, tangled>>
    /\ early' = early \cup ({call[k].order} \ (Placed \cup {None}))
    /\ UNCHANGED <<link, todo, edits, restarts, assigned, reopened, orphaned>>

\* Mutant of reassignMergedCustomer: the orders of the source lose their
\* customer and wait for the next start to find the target.
ReassignUnlinks(k) ==
    /\ At(k, "reassign")
    /\ link' = [o \in Orders |-> IF link[o] = Linked(call[k].held) THEN Unlinked ELSE link[o]]
    /\ IF call[k].order = None
         THEN Finish(k)
         ELSE Give(k, [call[k] EXCEPT !.step = "apply", !.held = call[k].other])
    /\ UNCHANGED <<rows, todo, edits, restarts, history>>

\* After the transaction the orders of the source name the target.
reassignMergedCustomer(k) ==
    /\ At(k, "reassign")
    /\ link' = [o \in Orders |-> IF link[o] = Linked(call[k].held)
                                   THEN Linked(call[k].other) ELSE link[o]]
    /\ IF call[k].order = None
         THEN Finish(k)
         ELSE Give(k, [call[k] EXCEPT !.step = "apply", !.held = call[k].other])
    /\ UNCHANGED <<rows, todo, edits, restarts, history>>

-----------------------------------------------------------------------------
(* Deciding a conflict *)

Undecided(o) == conflict[o] \in {"open", "ignored"}

DecideIgnore(k, o) ==
    /\ Undecided(o)
    /\ Begin(k, [Idle EXCEPT !.op = "ignore", !.step = "mark", !.order = o])
    /\ UNCHANGED <<rows, link, todo, edits, restarts, history>>

DecideAssign(k, o, winner) ==
    /\ Undecided(o) /\ IsActive(winner)
    /\ Begin(k, [Idle EXCEPT !.op = "assign", !.step = "mark", !.order = o,
                             !.held = ActiveOf(winner),
                             !.seen = customer[ActiveOf(winner)].clues])
    /\ UNCHANGED <<rows, link, todo, edits, restarts, history>>

DecideMerge(k, o, s, t) ==
    /\ Undecided(o) /\ MayMerge(s, t)
    /\ Begin(k, MergeRequest(s, t, o))
    /\ UNCHANGED <<rows, link, todo, edits, restarts, history>>

\* The winner receives the clues of the order and the conflict its answer;
\* a winner that is gone fails the call.
MarkConflict(k) ==
    /\ At(k, "mark")
    /\ LET o == call[k].order
           w == call[k].held
       IN \/ /\ call[k].op = "ignore"
             /\ conflict' = [conflict EXCEPT ![o] = "ignored"]
             /\ Give(k, [call[k] EXCEPT !.step = "apply"])
             /\ UNCHANGED customer
          \/ /\ call[k].op = "assign" /\ Exists(w)
             /\ customer' = IF o \in Placed THEN Enriched(w, call[k].seen, o) ELSE customer
             /\ conflict' = [conflict EXCEPT ![o] = "resolved"]
             /\ Give(k, [call[k] EXCEPT !.step = "apply"])
          \/ call[k].op = "assign" /\ ~Exists(w) /\ Finish(k) /\ UNCHANGED rows
    /\ early' = early \cup ({call[k].order} \ Placed)
    /\ UNCHANGED <<link, todo, edits, restarts, assigned, reopened, tangled, orphaned>>

\* The answer reaches the order, if there is one.
applyCustomerResolution(k) ==
    /\ At(k, "apply")
    /\ LET o == call[k].order
           chosen == call[k].held
       IN IF o \in Placed
            THEN /\ link' = [link EXCEPT ![o] = IF chosen = None THEN Unlinked ELSE Linked(chosen)]
                 /\ assigned' = [assigned EXCEPT ![o] = chosen]
                 /\ reopened' = reopened \ {o}
            ELSE UNCHANGED <<link, assigned, reopened>>
    /\ Finish(k)
    /\ UNCHANGED <<rows, todo, edits, restarts, early, tangled, orphaned>>

-----------------------------------------------------------------------------
(* Creating, editing and deleting customers *)

\* Contact details an operator may write: one clue of a kind.
Contacts == {clues \in SUBSET Clues : OnePerKind(clues)}

createCustomer(clues) ==
    /\ Serving /\ edits < MaxEdits /\ HasNewId
    /\ \A x \in clues : Owners(x) = {}
    /\ customer' = Created(NewId, clues)
    /\ edits' = edits + 1
    /\ UNCHANGED <<conflict, link, call, todo, restarts, history>>

updateCustomer(k, c, clues) ==
    /\ edits < MaxEdits /\ customer[c].status = "active"
    /\ Begin(k, [Idle EXCEPT !.op = "edit", !.step = "store", !.held = c, !.seen = clues])
    /\ edits' = edits + 1
    /\ UNCHANGED <<rows, link, todo, restarts, history>>

StoreEdit(k) ==
    /\ At(k, "store")
    /\ LET c == call[k].held
           after == [customer EXCEPT ![c].clues = call[k].seen]
       IN customer' = IF Exists(c) /\ Unique(after) THEN after ELSE customer
    /\ Finish(k)
    /\ UNCHANGED <<conflict, link, todo, edits, restarts, history>>

Unreferenced(c) ==
    /\ \A d \in Ids : customer[d].into # c
    /\ \A o \in Orders : link[o] # Linked(c)

\* Mutant of Deletable: the customers merged into it do not protect it.
DeletableTarget(c) ==
    customer[c].status = "active" /\ \A o \in Orders : link[o] # Linked(c)

\* Mutant of Deletable: its orders do not protect it.
DeletableOwner(c) ==
    customer[c].status = "active" /\ \A d \in Ids : customer[d].into # c

\* The checks of deleteCustomer: not merged, not the target of a merge, and
\* no order names it.
Deletable(c) == customer[c].status = "active" /\ Unreferenced(c)

\* The last field only remembers whether the check was right.
deleteCustomer(k, c) ==
    /\ Deletable(c)
    /\ Begin(k, [Idle EXCEPT !.op = "delete", !.step = "erase", !.held = c,
                             !.other = IF Unreferenced(c) THEN c ELSE None])
    /\ UNCHANGED <<rows, link, todo, edits, restarts, history>>

\* The calls that go on to use a customer without reading it again.
HeldByCall(c) ==
    \E k \in Calls : /\ call[k].step \in {"enter", "apply", "reassign"}
                     /\ c \in {call[k].held, call[k].other}

\* Erasing the account erases the customer and clears the references to it.
EraseAccount(k) ==
    /\ At(k, "erase")
    /\ LET c == call[k].held
           late == call[k].other = c
       IN IF Exists(c)
            THEN /\ customer' = [d \in Ids |->
                        IF d = c THEN [status |-> "deleted", into |-> None, clues |-> {}]
                        ELSE [customer[d] EXCEPT !.into = IF @ = c THEN None ELSE @]]
                 /\ orphaned' = IF late /\ (HeldByCall(c) \/ ~Unreferenced(c))
                                   THEN orphaned \cup {c} ELSE orphaned
                 /\ tangled' = (tangled \/ (late /\ \E d \in Ids : customer[d].into = c))
            ELSE UNCHANGED <<customer, orphaned, tangled>>
    /\ Finish(k)
    /\ UNCHANGED <<conflict, link, todo, edits, restarts, assigned, reopened, early>>

-----------------------------------------------------------------------------
(* Starting again *)

Restart ==
    /\ restarts < MaxRestarts /\ Serving
    /\ restarts' = restarts + 1
    /\ call' = [k \in Calls |-> Idle]
    /\ todo' = Placed
    /\ UNCHANGED <<rows, link, edits, history>>

\* reconcileCustomerLinks resolves every order anew before any call is
\* served, the customer it names among the candidates.
Reconcile(o) ==
    /\ o \in todo
    /\ todo' = todo \ {o}
    /\ \/ /\ Cardinality(Candidates(o)) > 1
          /\ Reopened(o)
          /\ link' = [link EXCEPT ![o] = InConflict]
          /\ UNCHANGED customer
       \/ /\ \E c \in Candidates(o) :
               /\ Candidates(o) = {c}
               /\ customer' = Enriched(c, customer[c].clues, o)
               /\ link' = [link EXCEPT ![o] = Linked(c)]
          /\ conflict' = Closed(o)
          /\ UNCHANGED reopened
       \/ /\ Candidates(o) = {} /\ HasNewId
          /\ customer' = Created(NewId, OrderClues[o])
          /\ link' = [link EXCEPT ![o] = Linked(NewId)]
          /\ conflict' = Closed(o)
          /\ UNCHANGED reopened
    /\ UNCHANGED <<call, edits, restarts, assigned, early, tangled, orphaned>>

-----------------------------------------------------------------------------
Checkout(k) ==
    \/ \E o \in Orders : resolveCustomerFromOrderSnapshot(k, o)
    \/ OpenConflict(k) \/ UseCandidate(k) \/ materializeCustomerFromOrder(k)
    \/ ResolutionFails(k) \/ EnterOrder(k)

Crm(k) ==
    \/ \E s, t \in Ids : mergeCustomers(k, s, t)
    \/ MergeCommit(k) \/ reassignMergedCustomer(k)
    \/ \E o \in Orders : DecideIgnore(k, o)
    \/ \E o \in Orders, w \in Ids : DecideAssign(k, o, w)
    \/ \E o \in Orders, s, t \in Ids : DecideMerge(k, o, s, t)
    \/ MarkConflict(k) \/ applyCustomerResolution(k)
    \/ \E c \in Ids, clues \in Contacts : updateCustomer(k, c, clues)
    \/ StoreEdit(k)
    \/ \E c \in Ids : deleteCustomer(k, c)
    \/ EraseAccount(k)

Next ==
    \/ \E k \in Calls : Checkout(k) \/ Crm(k)
    \/ \E clues \in Contacts : createCustomer(clues)
    \/ Restart
    \/ \E o \in Orders : Reconcile(o)

Spec == Init /\ [][Next]_vars

-----------------------------------------------------------------------------
(* Properties *)

Record == [op : {"none", "create", "merge", "ignore", "assign", "edit", "delete"},
           step : {"none", "write", "enter", "commit", "reassign", "mark", "apply",
                   "store", "erase"},
           order : Orders \cup {None}, found : SUBSET Ids,
           held : Ids \cup {None}, seen : SUBSET Clues,
           other : Ids \cup {None}, otherSeen : SUBSET Clues]

\* Every variable keeps its shape, every clue has one owner at most and no
\* customer has two clues of a kind: the unique keys of the schema, which the
\* writes of the service must respect.
TypeOK ==
    /\ customer \in [Ids -> [status : {"unused", "active", "merged", "deleted"},
                             into : Ids \cup {None}, clues : SUBSET Clues]]
    /\ Unique(customer) /\ \A c \in Ids : OnePerKind(customer[c].clues)
    /\ conflict \in [Orders -> {"none", "open", "ignored", "resolved", "merged"}]
    /\ link \in [Orders -> {NotPlaced, InConflict, Unlinked} \cup {Linked(c) : c \in Ids}]
    /\ call \in [Calls -> Record]
    /\ todo \subseteq Placed

\* A merged customer always leads to an active one, so its clues and its
\* orders still find their person, however merges follow each other
\* (mergeCustomersInternal, resolveActiveCustomerRecord) and whatever is
\* deleted (deleteCustomer refuses the target of a merge).  Excused: a merge
\* whose customers stopped being active, or were one and the same, when its
\* transaction ran.
MergedEndActive ==
    ~tangled => \A c \in Ids : customer[c].status = "merged" =>
                                 customer[ActiveOf(c)].status = "active"

\* An order that names a customer names one that leads to an active customer:
\* through creations that resolve a customer while it is being merged or
\* deleted, merges whose reassignment comes later, and restarts between the
\* two (setOrderCustomerLink, reassignMergedCustomer, deleteCustomer).
\* Excused: a customer erased while an order or a call held it.
LinksResolve ==
    ~tangled => \A o \in Orders : \A c \in Ids \ orphaned :
        link[o] = Linked(c) => customer[ActiveOf(c)].status = "active"

Deciding(o) == \E k \in Calls : call[k].order = o /\ call[k].step \in {"reassign", "apply"}

\* The orders without a customer because of their clues are exactly those CRM
\* lists as open conflicts: none waits for a decision nobody can take, and no
\* decided order is listed again (upsertCustomerConflict, closeConflictForOrder,
\* resolveCustomerConflict), across restarts in the middle of a decision.
\* Excused: a decision not applied yet, an order not reconciled yet, and a
\* conflict decided before its order entered.
ConflictsListed ==
    \A o \in Placed \ (todo \cup early) :
        Deciding(o) \/ (link[o] = InConflict <=> conflict[o] = "open")

Kept(o) ==
    \/ assigned[o] = None \/ ~Exists(assigned[o])
    \/ \E c \in Ids : link[o] = Linked(c) /\ ActiveOf(c) = ActiveOf(assigned[o])

\* An order given to a customer by an operator stays with that person: later
\* merges take it along, and nothing but a restart that finds its clues in two
\* hands again takes it away (applyCustomerResolution, reassignMergedCustomer,
\* reconcileCustomerLinks).  Excused besides: a conflict decided before its order
\* entered, whose order may open it again in between.
DecisionKept ==
    ~tangled => \A o \in Placed \ (reopened \cup early) : Kept(o)
=============================================================================
