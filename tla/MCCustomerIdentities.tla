------------------------ MODULE MCCustomerIdentities ------------------------
(***************************************************************************)
(* One person known twice, by the document and by the phone, an order that  *)
(* carries both and an order with the phone alone.                         *)
(***************************************************************************)
EXTENDS CustomerIdentities, TLC

CONSTANTS a, b, o1, o2, d1, p1

MCKindOf == d1 :> "document" @@ p1 :> "phone"
MCOrderClues == o1 :> {d1, p1} @@ o2 :> {p1}
MCRegistered == a :> {d1} @@ b :> {p1}

\* Creations and edits of customers are explored with the order of two clues
\* alone, before the API starts again.
Explored ==
    edits > 0 => /\ restarts = 0 /\ o2 \notin Placed
                 /\ \A k \in Calls : call[k].order # o2

CallSymmetry == Permutations(Calls)
=============================================================================
