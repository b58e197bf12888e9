--------------------------- MODULE Holdings_proofs ---------------------------
(* For any assets, dates and amounts, and any order of requests and           *)
(* restarts: a disposal that was never revised into or out of being one has   *)
(* one active record, computed by the broker's method from all that precedes  *)
(* it; what is entered later does not rewrite it; a correction of             *)
(* transactions leaves no sale uncovered; the two records of a merger or      *)
(* spin-off agree. There what a replay computes does not matter: it is a      *)
(* function of the steps, and the proofs compare the steps. The last sections *)
(* are about what it computes: the open lots hold what the position holds,    *)
(* and no unit of a lot is consumed twice.                                    *)
EXTENDS Holdings, FiniteSetTheorems, WellFoundedInduction, TLAPS

-----------------------------------------------------------------------------
(* The inductive invariant: every holding is well formed, and its records are *)
(* of the method m, but for the transactions in r.                            *)

HasItsRecordOf(h, id, m) ==
    /\ HasItsRecord(h, id)
    /\ id \in DOMAIN h.disposalRecords => h.disposalRecords[id].method = m

IsSound(h, m, r) == IsHolding(h) /\ \A id \in TransactionIds \ r : HasItsRecordOf(h, id, m)

\* The transactions a holding has, or had when it was last regenerated.
IdsOf(h) == DOMAIN h.transactions \union DOMAIN h.disposalRecords

IdsApart(hs) ==
    \A a \in Assets : \A b \in Assets \ {a} : IdsOf(hs[a]) \cap IdsOf(hs[b]) = {}

\* LinkedHalvesAgree, of the holdings hs.
HalfAgrees(hs, a, id) ==
    LET ca == hs[a].corporateActions[id]
    IN  ca.kind # "split" =>
            /\ ca.linked # a
            /\ id \in DOMAIN hs[ca.linked].corporateActions
            /\ IsOtherHalf(hs[ca.linked].corporateActions[id], ca, a)

HalvesAgree(hs) == \A a \in Assets : \A id \in DOMAIN hs[a].corporateActions : HalfAgrees(hs, a, id)

IsHoldings(hs, m, r) ==
    /\ hs = [a \in Assets |-> hs[a]]
    /\ \A a \in Assets : IsSound(hs[a], m, r)
    /\ IdsApart(hs)
    /\ HalvesAgree(hs)

IInv ==
    /\ costBasisMethod \in Methods
    /\ retyped \subseteq TransactionIds /\ outOfOrder \subseteq TransactionIds
    /\ IsHoldings(holdings, costBasisMethod, retyped)

-----------------------------------------------------------------------------
(* Regeneration.                                                              *)

\* What a holding must be for a regeneration from the anchor to leave it sound:
\* whatever lacks its record is a disposal that is due, or was deleted with one.
IsDue(h, id, anchor) ==
    IF id \in Disposals(h) THEN h.transactions[id].date >= anchor
    ELSE /\ id \notin DOMAIN h.transactions
         /\ id \in DOMAIN h.disposalRecords => h.disposalRecords[id].date >= anchor

IsRepairable(h, anchor, m, r) ==
    IsHolding(h) /\ \A id \in TransactionIds \ r : HasItsRecordOf(h, id, m) \/ IsDue(h, id, anchor)

LEMMA CalculatedRecord ==
    ASSUME NEW t, NEW p, NEW m, NEW al
    PROVE  /\ Calculate(t, p, m, al).date = t.date
           /\ Calculate(t, p, m, al).method = m
           /\ Calculate(t, p, m, al).quantity = t.quantity
  BY DEF Calculate

\* Regenerating touches the records alone.
LEMMA RegeneratedFields ==
    ASSUME NEW h, IsHolding(h), NEW anchor, NEW m, NEW s, NEW al
    PROVE  LET g == RegenerateFrom(h, anchor, m, s, al)
           IN  /\ g = [transactions |-> g.transactions, corporateActions |-> g.corporateActions,
                       disposalRecords |-> g.disposalRecords]
               /\ g.transactions = h.transactions
               /\ g.corporateActions = h.corporateActions
               /\ DOMAIN g.disposalRecords = Untouched(h, anchor) \union DueFrom(h, anchor)
               /\ \A id \in DueFrom(h, anchor) :
                    g.disposalRecords[id] = Recalculated(h, id, m, s, al)
               /\ \A id \in Untouched(h, anchor) : g.disposalRecords[id] = h.disposalRecords[id]
  BY DEF RegenerateFrom, IsHolding, Untouched

LEMMA RegenerationRepairs ==
    ASSUME NEW h, NEW anchor \in Nat, NEW m \in Methods, NEW s, NEW al, NEW r,
           IsRepairable(h, anchor, m, r), Dates \subseteq Nat
    PROVE  IsSound(RegenerateFrom(h, anchor, m, s, al), m, r)
<1> DEFINE g == RegenerateFrom(h, anchor, m, s, al)
<1>1. IsHolding(h)
  BY DEF IsRepairable
<1>2. /\ g = [transactions |-> g.transactions, corporateActions |-> g.corporateActions,
              disposalRecords |-> g.disposalRecords]
      /\ g.transactions = h.transactions
      /\ g.corporateActions = h.corporateActions
      /\ DOMAIN g.disposalRecords = Untouched(h, anchor) \union DueFrom(h, anchor)
      /\ \A id \in DueFrom(h, anchor) : g.disposalRecords[id] = Recalculated(h, id, m, s, al)
      /\ \A id \in Untouched(h, anchor) : g.disposalRecords[id] = h.disposalRecords[id]
  BY <1>1, RegeneratedFields
<1> HIDE DEF g
<1>3. \A id \in DueFrom(h, anchor) :
        /\ g.disposalRecords[id].date = h.transactions[id].date
        /\ g.disposalRecords[id].method = m
        /\ g.disposalRecords[id].quantity = h.transactions[id].quantity
  BY <1>2, CalculatedRecord DEF Recalculated
<1>4. Disposals(g) = Disposals(h)
  BY <1>2 DEF Disposals
<1>5. IsHolding(g)
  <2>1. \A id \in DOMAIN g.disposalRecords : IsRecord(g.disposalRecords[id])
    <3> SUFFICES ASSUME NEW id \in DOMAIN g.disposalRecords PROVE IsRecord(g.disposalRecords[id])
      OBVIOUS
    <3>1. CASE id \in DueFrom(h, anchor)
      BY <1>1, <1>3, <3>1 DEF DueFrom, Disposals, IsHolding, IsTransaction, IsRecord
    <3>2. CASE id \in Untouched(h, anchor)
      BY <1>1, <1>2, <3>2 DEF Untouched, IsHolding
    <3> QED
      BY <1>2, <3>1, <3>2
  <2>2. DOMAIN g.disposalRecords \subseteq TransactionIds
    BY <1>1, <1>2 DEF Untouched, DueFrom, Disposals, IsHolding
  <2> QED
    BY <1>1, <1>2, <2>1, <2>2 DEF IsHolding
<1>6. ASSUME NEW id \in TransactionIds \ r
      PROVE  HasItsRecordOf(g, id, m)
  <2>1. CASE id \in DueFrom(h, anchor)
    <3>1. id \in DOMAIN g.disposalRecords /\ id \in Disposals(g)
      BY <1>2, <1>4, <2>1 DEF DueFrom
    <3> QED
      BY <1>2, <1>3, <2>1, <3>1 DEF HasItsRecordOf, HasItsRecord
  <2>2. CASE id \in Disposals(h) /\ id \notin DueFrom(h, anchor)
    <3>1. ~(h.transactions[id].date >= anchor)
      BY <2>2 DEF DueFrom
    <3>2. HasItsRecordOf(h, id, m)
      BY <2>2, <3>1 DEF IsRepairable, IsDue
    <3>3. id \in Untouched(h, anchor)
      BY <2>2, <3>1, <3>2 DEF Untouched, HasItsRecordOf, HasItsRecord
    <3> QED
      BY <1>2, <1>4, <2>2, <3>2, <3>3 DEF HasItsRecordOf, HasItsRecord
  <2>3. CASE id \notin Disposals(h)
    <3>1. id \notin DueFrom(h, anchor)
      BY <2>3 DEF DueFrom
    <3>2. id \notin Untouched(h, anchor)
      <4>1. CASE HasItsRecordOf(h, id, m)
        BY <2>3, <4>1 DEF HasItsRecordOf, HasItsRecord, Untouched
      <4>2. CASE IsDue(h, id, anchor)
        BY <2>3, <4>2 DEF IsDue, Untouched
      <4> QED
        BY <4>1, <4>2 DEF IsRepairable
    <3> QED
      BY <1>2, <1>4, <2>3, <3>1, <3>2 DEF HasItsRecordOf, HasItsRecord
  <2> QED
    BY <2>1, <2>2, <2>3
<1> QED
  BY <1>5, <1>6 DEF IsSound, g

LEMMA RegeneratedSound ==
    ASSUME NEW h, NEW anchor \in Nat, NEW m \in Methods, NEW s, NEW al, NEW r,
           IsRepairable(h, anchor, m, r), Dates \subseteq Nat,
           NEW g \in Regenerated(h, anchor, m, s, al)
    PROVE  /\ IsSound(g, m, r)
           /\ g.transactions = h.transactions
           /\ g.corporateActions = h.corporateActions
           /\ IdsOf(g) \subseteq IdsOf(h)
<1>1. g = RegenerateFrom(h, anchor, m, s, al)
  BY DEF Regenerated
<1>2. IsHolding(h)
  BY DEF IsRepairable
<1>3. IsSound(g, m, r)
  BY <1>1, RegenerationRepairs
<1>4. /\ g.transactions = h.transactions
      /\ g.corporateActions = h.corporateActions
      /\ DOMAIN g.disposalRecords = Untouched(h, anchor) \union DueFrom(h, anchor)
  BY <1>1, <1>2, RegeneratedFields
<1>5. IdsOf(g) \subseteq IdsOf(h)
  BY <1>4 DEF IdsOf, Untouched, DueFrom, Disposals
<1> QED
  BY <1>3, <1>4, <1>5

\* When nothing is regenerated nothing was due, if what lacks its record shows in a
\* record dated from the anchor on.
LEMMA RegeneratedWhenDueSound ==
    ASSUME NEW h, NEW anchor \in Nat, NEW m \in Methods, NEW r,
           IsRepairable(h, anchor, m, r), Dates \subseteq Nat,
           \A id \in TransactionIds \ r : \/ HasItsRecordOf(h, id, m)
                                          \/ ~IsAfterLatestDisposal(h, anchor),
           NEW g \in RegeneratedWhenDue(h, anchor, m)
    PROVE  /\ IsSound(g, m, r)
           /\ g.transactions = h.transactions
           /\ g.corporateActions = h.corporateActions
           /\ IdsOf(g) \subseteq IdsOf(h)
<1>1. CASE IsAfterLatestDisposal(h, anchor)
  <2>1. g = h
    BY <1>1 DEF RegeneratedWhenDue
  <2> QED
    BY <1>1, <2>1 DEF IsSound, IsRepairable
<1>2. CASE ~IsAfterLatestDisposal(h, anchor)
  <2>1. g \in Regenerated(h, anchor, m, NoSeed, NoAllocation)
    BY <1>2 DEF RegeneratedWhenDue
  <2> QED
    BY <2>1, RegeneratedSound
<1> QED
  BY <1>1, <1>2
-----------------------------------------------------------------------------
(* The operations of an asset.                                                *)

\* A holding with one transaction added or replaced.
LEMMA WithTransaction ==
    ASSUME NEW h, IsHolding(h), NEW t, t.id \in TransactionIds, IsTransaction(t, t.id)
    PROVE  LET g == [h EXCEPT !.transactions = With(@, t.id, t)]
           IN  /\ IsHolding(g)
               /\ g.transactions[t.id] = t
               /\ DOMAIN g.transactions = DOMAIN h.transactions \union {t.id}
               /\ \A i \in DOMAIN h.transactions \ {t.id} :
                    g.transactions[i] = h.transactions[i]
               /\ g.corporateActions = h.corporateActions
               /\ g.disposalRecords = h.disposalRecords
               /\ \A id \in TransactionIds \ {t.id} : id \in Disposals(g) <=> id \in Disposals(h)
               /\ t.id \in Disposals(g) <=> IsDisposing(t)
<1> DEFINE g == [h EXCEPT !.transactions = With(@, t.id, t)]
           W == With(h.transactions, t.id, t)
<1>1. /\ g = [transactions |-> g.transactions, corporateActions |-> g.corporateActions,
              disposalRecords |-> g.disposalRecords]
      /\ g.transactions = W
      /\ g.corporateActions = h.corporateActions
      /\ g.disposalRecords = h.disposalRecords
  BY DEF IsHolding
<1>2. /\ DOMAIN W = DOMAIN h.transactions \union {t.id}
      /\ W[t.id] = t
      /\ \A i \in DOMAIN h.transactions \ {t.id} : W[i] = h.transactions[i]
  BY DEF With
<1> HIDE DEF g, W
<1>3. IsHolding(g)
  BY <1>1, <1>2 DEF IsHolding
<1>4. /\ \A id \in TransactionIds \ {t.id} : id \in Disposals(g) <=> id \in Disposals(h)
      /\ t.id \in Disposals(g) <=> IsDisposing(t)
  BY <1>1, <1>2 DEF Disposals
<1>5. /\ g.transactions[t.id] = t
      /\ DOMAIN g.transactions = DOMAIN h.transactions \union {t.id}
      /\ \A i \in DOMAIN h.transactions \ {t.id} : g.transactions[i] = h.transactions[i]
  BY <1>1, <1>2
<1> QED
  BY <1>1, <1>3, <1>4, <1>5 DEF g

LEMMA RecordedSound ==
    ASSUME NEW h, NEW m \in Methods, NEW r, IsSound(h, m, r), Dates \subseteq Nat,
           NEW t, t.id \in TransactionIds, IsTransaction(t, t.id),
           t.id \notin DOMAIN h.transactions, t.id \notin DOMAIN h.disposalRecords,
           NEW al, NEW g \in TransactionRecorded(h, t, m, al)
    PROVE  /\ IsSound(g, m, r)
           /\ g.corporateActions = h.corporateActions
           /\ IdsOf(g) \subseteq IdsOf(h) \union {t.id}
<1> DEFINE added == [h EXCEPT !.transactions = With(@, t.id, t)]
<1>1. /\ IsHolding(added)
      /\ added.transactions[t.id] = t
      /\ DOMAIN added.transactions = DOMAIN h.transactions \union {t.id}
      /\ \A i \in DOMAIN h.transactions \ {t.id} : added.transactions[i] = h.transactions[i]
      /\ added.corporateActions = h.corporateActions
      /\ added.disposalRecords = h.disposalRecords
      /\ \A id \in TransactionIds \ {t.id} : id \in Disposals(added) <=> id \in Disposals(h)
      /\ t.id \in Disposals(added) <=> IsDisposing(t)
  BY WithTransaction DEF IsSound
<1> HIDE DEF added
<1>2. t.date \in Nat
  BY DEF IsTransaction
<1>3. \A id \in TransactionIds \ (r \union {t.id}) : HasItsRecordOf(added, id, m)
  <2> SUFFICES ASSUME NEW id \in TransactionIds \ (r \union {t.id})
               PROVE  HasItsRecordOf(added, id, m)
    OBVIOUS
  <2>1. HasItsRecordOf(h, id, m)
    BY DEF IsSound
  <2>2. id \in Disposals(h) => added.transactions[id] = h.transactions[id]
    BY <1>1 DEF Disposals
  <2> QED
    BY <1>1, <2>1, <2>2 DEF HasItsRecordOf, HasItsRecord
<1>4. ~IsDisposing(t) => HasItsRecordOf(added, t.id, m)
  BY <1>1 DEF HasItsRecordOf, HasItsRecord
<1>5. IdsOf(added) \subseteq IdsOf(h) \union {t.id}
  BY <1>1 DEF IdsOf
<1>6. CASE ~IsAfterLatestDisposal(h, t.date)
  <2>1. g \in Regenerated(added, t.date, m, t.id, al)
    BY <1>6 DEF TransactionRecorded, added
  <2>2. IsDisposing(t) => IsDue(added, t.id, t.date)
    BY <1>1, <1>2 DEF IsDue
  <2>3. IsRepairable(added, t.date, m, r)
    BY <1>1, <1>3, <1>4, <2>2 DEF IsRepairable
  <2> QED
    BY <1>1, <1>2, <1>5, <2>1, <2>3, RegeneratedSound
<1>7. CASE IsAfterLatestDisposal(h, t.date) /\ ~IsDisposing(t)
  <2>1. g = added
    BY <1>7 DEF TransactionRecorded, Appended, added
  <2> QED
    BY <1>1, <1>3, <1>4, <1>7, <1>5, <2>1 DEF IsSound
<1>8. CASE IsAfterLatestDisposal(h, t.date) /\ IsDisposing(t)
  <2>1. PICK p : g = [added EXCEPT !.disposalRecords = With(@, t.id, Calculate(t, p, m, al))]
    BY <1>8 DEF TransactionRecorded, Appended, added
  <2>2. /\ g = [transactions |-> g.transactions, corporateActions |-> g.corporateActions,
                disposalRecords |-> g.disposalRecords]
        /\ g.transactions = added.transactions
        /\ g.corporateActions = added.corporateActions
        /\ g.disposalRecords = With(h.disposalRecords, t.id, Calculate(t, p, m, al))
    BY <1>1, <2>1 DEF IsHolding
  <2>3. /\ DOMAIN g.disposalRecords = DOMAIN h.disposalRecords \union {t.id}
        /\ g.disposalRecords[t.id] = Calculate(t, p, m, al)
        /\ \A i \in DOMAIN h.disposalRecords \ {t.id} :
                g.disposalRecords[i] = h.disposalRecords[i]
    BY <2>2 DEF With
  <2>4. /\ g.disposalRecords[t.id].date = t.date
        /\ g.disposalRecords[t.id].method = m
        /\ g.disposalRecords[t.id].quantity = t.quantity
    BY <2>3, CalculatedRecord
  <2>5. IsHolding(g)
    <3>1. IsRecord(g.disposalRecords[t.id])
      BY <2>4 DEF IsRecord, IsTransaction
    <3>2. \A id \in DOMAIN g.disposalRecords : IsRecord(g.disposalRecords[id])
      BY <1>1, <2>3, <3>1 DEF IsHolding
    <3> QED
      BY <1>1, <2>2, <2>3, <3>2 DEF IsHolding
  <2>6. Disposals(g) = Disposals(added)
    BY <2>2 DEF Disposals
  <2>7. HasItsRecordOf(g, t.id, m)
    BY <1>1, <1>8, <2>2, <2>3, <2>4, <2>6 DEF HasItsRecordOf, HasItsRecord
  <2>8. \A id \in TransactionIds \ (r \union {t.id}) : HasItsRecordOf(g, id, m)
    BY <1>1, <1>3, <2>2, <2>3, <2>6 DEF HasItsRecordOf, HasItsRecord
  <2>9. IdsOf(g) \subseteq IdsOf(h) \union {t.id}
    BY <1>1, <2>2, <2>3 DEF IdsOf
  <2> QED
    BY <1>1, <2>2, <2>5, <2>7, <2>8, <2>9 DEF IsSound
<1> QED
  BY <1>6, <1>7, <1>8

LEMMA RevisedSound ==
    ASSUME NEW h, NEW m \in Methods, NEW r, IsSound(h, m, r), Dates \subseteq Nat,
           NEW t, t.id \in DOMAIN h.transactions, IsTransaction(t, t.id),
           NEW q, r \subseteq q,
           IsDisposing(h.transactions[t.id]) # IsDisposing(t) => t.id \in q,
           NEW g \in TransactionRevised(h, t, m)
    PROVE  /\ IsSound(g, m, q)
           /\ g.corporateActions = h.corporateActions
           /\ IdsOf(g) \subseteq IdsOf(h)
<1> DEFINE updated == [h EXCEPT !.transactions = With(@, t.id, t)]
           anchor == EarlierOf(h.transactions[t.id].date, t.date)
<1>1. /\ IsHolding(h) /\ t.id \in TransactionIds
      /\ h.transactions[t.id].date \in Nat /\ t.date \in Nat
  BY DEF IsSound, IsHolding, IsTransaction
<1>2. /\ IsHolding(updated)
      /\ updated.transactions[t.id] = t
      /\ DOMAIN updated.transactions = DOMAIN h.transactions \union {t.id}
      /\ \A i \in DOMAIN h.transactions \ {t.id} : updated.transactions[i] = h.transactions[i]
      /\ updated.corporateActions = h.corporateActions
      /\ updated.disposalRecords = h.disposalRecords
      /\ \A id \in TransactionIds \ {t.id} : id \in Disposals(updated) <=> id \in Disposals(h)
      /\ t.id \in Disposals(updated) <=> IsDisposing(t)
  BY <1>1, WithTransaction
<1>3. g \in RegeneratedWhenDue(updated, anchor, m)
  BY DEF TransactionRevised
<1>4. anchor \in Nat /\ anchor <= h.transactions[t.id].date /\ anchor <= t.date
  BY <1>1 DEF EarlierOf
<1> HIDE DEF updated, anchor
<1>5. \A id \in TransactionIds \ (q \union {t.id}) : HasItsRecordOf(updated, id, m)
  <2> SUFFICES ASSUME NEW id \in TransactionIds \ (q \union {t.id})
               PROVE  HasItsRecordOf(updated, id, m)
    OBVIOUS
  <2>1. HasItsRecordOf(h, id, m)
    BY DEF IsSound
  <2>2. id \in Disposals(h) => updated.transactions[id] = h.transactions[id]
    BY <1>2 DEF Disposals
  <2> QED
    BY <1>2, <2>1, <2>2 DEF HasItsRecordOf, HasItsRecord
<1>6. t.id \notin q => HasItsRecordOf(h, t.id, m) /\ (IsDisposing(t) <=> t.id \in Disposals(h))
  BY <1>1 DEF IsSound, Disposals
<1>7. t.id \notin q /\ ~IsDisposing(t) => HasItsRecordOf(updated, t.id, m)
  BY <1>2, <1>6 DEF HasItsRecordOf, HasItsRecord
<1>8. t.id \notin q /\ IsDisposing(t) => ~IsAfterLatestDisposal(updated, anchor)
  <2> SUFFICES ASSUME t.id \notin q, IsDisposing(t), IsAfterLatestDisposal(updated, anchor)
               PROVE  FALSE
    OBVIOUS
  <2>1. /\ t.id \in DOMAIN h.disposalRecords
        /\ h.disposalRecords[t.id].date = h.transactions[t.id].date
    BY <1>6 DEF HasItsRecordOf, HasItsRecord
  <2>2. h.transactions[t.id].date < anchor
    BY <1>2, <2>1 DEF IsAfterLatestDisposal
  <2> QED
    BY <1>1, <1>4, <2>2
<1>9. IsDisposing(t) => IsDue(updated, t.id, anchor)
  BY <1>1, <1>2, <1>4 DEF IsDue
<1>10. IsRepairable(updated, anchor, m, q)
  BY <1>2, <1>5, <1>7, <1>9 DEF IsRepairable
<1>11. IdsOf(updated) \subseteq IdsOf(h)
  BY <1>2 DEF IdsOf
<1>12. \A id \in TransactionIds \ q : \/ HasItsRecordOf(updated, id, m)
                                      \/ ~IsAfterLatestDisposal(updated, anchor)
  BY <1>5, <1>7, <1>8
<1>13. /\ IsSound(g, m, q)
       /\ g.corporateActions = updated.corporateActions
       /\ IdsOf(g) \subseteq IdsOf(updated)
  BY <1>3, <1>4, <1>10, <1>12, RegeneratedWhenDueSound
<1> QED
  BY <1>2, <1>11, <1>13

LEMMA RetractedSound ==
    ASSUME NEW h, NEW m \in Methods, NEW r, IsSound(h, m, r), Dates \subseteq Nat,
           NEW id \in DOMAIN h.transactions, NEW g \in TransactionRetracted(h, id, m),
           NEW q, \A i : i \in q <=> i \in r /\ (i # id \/ i \in DOMAIN g.disposalRecords)
    PROVE  /\ IsSound(g, m, q)
           /\ g.corporateActions = h.corporateActions
           /\ IdsOf(g) \subseteq IdsOf(h)
<1> DEFINE removed == [h EXCEPT !.transactions = Without(@, id)]
           anchor == h.transactions[id].date
<1>1. IsHolding(h) /\ id \in TransactionIds /\ anchor \in Nat
  BY DEF IsSound, IsHolding, IsTransaction
<1>2. /\ removed = [transactions |-> removed.transactions,
                    corporateActions |-> removed.corporateActions,
                    disposalRecords |-> removed.disposalRecords]
      /\ DOMAIN removed.transactions = DOMAIN h.transactions \ {id}
      /\ \A i \in DOMAIN h.transactions \ {id} : removed.transactions[i] = h.transactions[i]
      /\ removed.corporateActions = h.corporateActions
      /\ removed.disposalRecords = h.disposalRecords
  BY <1>1 DEF IsHolding, Without
<1>3. g \in RegeneratedWhenDue(removed, anchor, m)
  BY DEF TransactionRetracted
<1> HIDE DEF removed, anchor
<1>4. IsHolding(removed)
  BY <1>1, <1>2 DEF IsHolding
<1>5. \A i \in TransactionIds \ {id} : i \in Disposals(removed) <=> i \in Disposals(h)
  BY <1>2 DEF Disposals
<1>6. id \notin Disposals(removed)
  BY <1>2 DEF Disposals
<1>7. \A i \in TransactionIds \ (r \union {id}) : HasItsRecordOf(removed, i, m)
  <2> SUFFICES ASSUME NEW i \in TransactionIds \ (r \union {id})
               PROVE  HasItsRecordOf(removed, i, m)
    OBVIOUS
  <2>1. HasItsRecordOf(h, i, m)
    BY DEF IsSound
  <2>2. i \in Disposals(h) => removed.transactions[i] = h.transactions[i]
    BY <1>2 DEF Disposals
  <2> QED
    BY <1>2, <1>5, <2>1, <2>2 DEF HasItsRecordOf, HasItsRecord
<1>8. id \notin r /\ id \in DOMAIN h.disposalRecords => h.disposalRecords[id].date = anchor
  BY <1>1 DEF IsSound, HasItsRecordOf, HasItsRecord, anchor
<1>9. id \notin r => IsDue(removed, id, anchor)
  BY <1>1, <1>2, <1>6, <1>8 DEF IsDue
<1>10. id \notin r => HasItsRecordOf(removed, id, m) \/ ~IsAfterLatestDisposal(removed, anchor)
  <2>1. CASE id \in DOMAIN h.disposalRecords
    BY <1>1, <1>2, <1>8, <2>1 DEF IsAfterLatestDisposal
  <2>2. CASE id \notin DOMAIN h.disposalRecords
    BY <1>2, <1>6, <2>2 DEF HasItsRecordOf, HasItsRecord
  <2> QED
    BY <2>1, <2>2
<1>11. IsRepairable(removed, anchor, m, r)
  BY <1>4, <1>7, <1>9 DEF IsRepairable
<1>12. /\ IsSound(g, m, r)
       /\ g.transactions = removed.transactions
       /\ g.corporateActions = removed.corporateActions
       /\ IdsOf(g) \subseteq IdsOf(removed)
  <2>1. \A i \in TransactionIds \ r : \/ HasItsRecordOf(removed, i, m)
                                      \/ ~IsAfterLatestDisposal(removed, anchor)
    BY <1>7, <1>10
  <2> QED
    BY <1>1, <1>3, <1>11, <2>1, RegeneratedWhenDueSound
<1>13. id \notin DOMAIN g.disposalRecords => HasItsRecordOf(g, id, m)
  BY <1>2, <1>12 DEF HasItsRecordOf, HasItsRecord, Disposals
<1>14. IdsOf(removed) \subseteq IdsOf(h)
  BY <1>2 DEF IdsOf
<1> QED
  BY <1>2, <1>12, <1>13, <1>14 DEF IsSound

\* Whatever the corporate actions become, every record stays as it was, and a
\* regeneration from any date leaves them sound.
LEMMA WithActionsSound ==
    ASSUME NEW h, NEW m \in Methods, NEW r, IsSound(h, m, r), Dates \subseteq Nat,
           NEW anchor \in Nat, NEW acts, DOMAIN acts \subseteq ActionIds,
           \A id \in DOMAIN acts : IsAction(acts[id], id),
           NEW g \in Regenerated([h EXCEPT !.corporateActions = acts], anchor, m,
                                 NoSeed, NoAllocation)
    PROVE  /\ IsSound(g, m, r)
           /\ g.corporateActions = acts
           /\ IdsOf(g) \subseteq IdsOf(h)
<1> DEFINE k == [h EXCEPT !.corporateActions = acts]
<1>1. IsHolding(h)
  BY DEF IsSound
<1>2. /\ k = [transactions |-> k.transactions, corporateActions |-> k.corporateActions,
              disposalRecords |-> k.disposalRecords]
      /\ k.transactions = h.transactions
      /\ k.corporateActions = acts
      /\ k.disposalRecords = h.disposalRecords
  BY <1>1 DEF IsHolding
<1>3. g \in Regenerated(k, anchor, m, NoSeed, NoAllocation)
  OBVIOUS
<1> HIDE DEF k
<1>4. IsHolding(k)
  BY <1>1, <1>2 DEF IsHolding
<1>5. Disposals(k) = Disposals(h)
  BY <1>2 DEF Disposals
<1>6. \A id \in TransactionIds \ r : HasItsRecordOf(k, id, m)
  BY <1>2, <1>5 DEF IsSound, HasItsRecordOf, HasItsRecord
<1>7. IsRepairable(k, anchor, m, r)
  BY <1>4, <1>6 DEF IsRepairable
<1>8. IdsOf(k) = IdsOf(h)
  BY <1>2 DEF IdsOf
<1> QED
  BY <1>2, <1>3, <1>7, <1>8, RegeneratedSound

\* The corporate actions acts are those of h but for the action id.
ActionsBut(acts, h, id) ==
    \A i : i # id =>
        /\ i \in DOMAIN acts <=> i \in DOMAIN h.corporateActions
        /\ i \in DOMAIN acts => acts[i] = h.corporateActions[i]

LEMMA WithAction ==
    ASSUME NEW h, IsHolding(h), NEW ca, ca.id \in ActionIds, IsAction(ca, ca.id)
    PROVE  LET acts == With(h.corporateActions, ca.id, ca)
           IN  /\ DOMAIN acts = DOMAIN h.corporateActions \union {ca.id}
               /\ DOMAIN acts \subseteq ActionIds
               /\ \A id \in DOMAIN acts : IsAction(acts[id], id)
               /\ acts[ca.id] = ca
               /\ ActionsBut(acts, h, ca.id)
<1> DEFINE acts == With(h.corporateActions, ca.id, ca)
<1>1. /\ DOMAIN acts = DOMAIN h.corporateActions \union {ca.id}
      /\ acts[ca.id] = ca
      /\ \A i \in DOMAIN h.corporateActions \ {ca.id} : acts[i] = h.corporateActions[i]
  BY DEF With
<1> HIDE DEF acts
<1>2. DOMAIN acts \subseteq ActionIds /\ \A id \in DOMAIN acts : IsAction(acts[id], id)
  BY <1>1 DEF IsHolding
<1>3. ActionsBut(acts, h, ca.id)
  BY <1>1 DEF ActionsBut
<1> QED
  BY <1>1, <1>2, <1>3 DEF acts

\* What adding, revising and deleting a corporate action do to a holding.
IsActed(g, h, id, m, r) ==
    /\ IsSound(g, m, r)
    /\ IdsOf(g) \subseteq IdsOf(h)
    /\ ActionsBut(g.corporateActions, h, id)

LEMMA ActionRecordedSound ==
    ASSUME NEW h, NEW m \in Methods, NEW r, IsSound(h, m, r), Dates \subseteq Nat,
           NEW ca, ca.id \in ActionIds, IsAction(ca, ca.id),
           NEW g \in CorporateActionRecorded(h, ca, m)
    PROVE  /\ IsActed(g, h, ca.id, m, r)
           /\ ca.id \in DOMAIN g.corporateActions /\ g.corporateActions[ca.id] = ca
<1> DEFINE acts == With(h.corporateActions, ca.id, ca)
<1>1. /\ DOMAIN acts = DOMAIN h.corporateActions \union {ca.id}
      /\ DOMAIN acts \subseteq ActionIds
      /\ \A id \in DOMAIN acts : IsAction(acts[id], id)
      /\ acts[ca.id] = ca
      /\ ActionsBut(acts, h, ca.id)
  BY WithAction DEF IsSound
<1>2. ca.date \in Nat
  BY DEF IsAction
<1>3. g \in Regenerated([h EXCEPT !.corporateActions = acts], ca.date, m, NoSeed, NoAllocation)
  BY DEF CorporateActionRecorded
<1> HIDE DEF acts
<1>4. IsSound(g, m, r) /\ g.corporateActions = acts /\ IdsOf(g) \subseteq IdsOf(h)
  BY <1>1, <1>2, <1>3, WithActionsSound
<1> QED
  BY <1>1, <1>4 DEF IsActed

LEMMA ActionRevisedSound ==
    ASSUME NEW h, NEW m \in Methods, NEW r, IsSound(h, m, r), Dates \subseteq Nat,
           NEW ca, ca.id \in DOMAIN h.corporateActions, IsAction(ca, ca.id),
           NEW g \in CorporateActionRevised(h, ca, m)
    PROVE  /\ IsActed(g, h, ca.id, m, r)
           /\ ca.id \in DOMAIN g.corporateActions /\ g.corporateActions[ca.id] = ca
<1> DEFINE acts == With(h.corporateActions, ca.id, ca)
           anchor == EarlierOf(h.corporateActions[ca.id].date, ca.date)
<1>1. IsHolding(h) /\ ca.id \in ActionIds
  BY DEF IsSound, IsHolding
<1>2. /\ DOMAIN acts = DOMAIN h.corporateActions \union {ca.id}
      /\ DOMAIN acts \subseteq ActionIds
      /\ \A id \in DOMAIN acts : IsAction(acts[id], id)
      /\ acts[ca.id] = ca
      /\ ActionsBut(acts, h, ca.id)
  BY <1>1, WithAction
<1>3. anchor \in Nat
  BY <1>1 DEF IsHolding, IsAction, EarlierOf
<1>4. g \in Regenerated([h EXCEPT !.corporateActions = acts], anchor, m, NoSeed, NoAllocation)
  BY DEF CorporateActionRevised
<1> HIDE DEF acts, anchor
<1>5. IsSound(g, m, r) /\ g.corporateActions = acts /\ IdsOf(g) \subseteq IdsOf(h)
  BY <1>2, <1>3, <1>4, WithActionsSound
<1> QED
  BY <1>2, <1>5 DEF IsActed

LEMMA ActionRetractedSound ==
    ASSUME NEW h, NEW m \in Methods, NEW r, IsSound(h, m, r), Dates \subseteq Nat,
           NEW id \in DOMAIN h.corporateActions, NEW g \in CorporateActionRetracted(h, id, m)
    PROVE  IsActed(g, h, id, m, r) /\ id \notin DOMAIN g.corporateActions
<1> DEFINE acts == Without(h.corporateActions, id)
<1>1. IsHolding(h)
  BY DEF IsSound
<1>2. /\ DOMAIN acts = DOMAIN h.corporateActions \ {id}
      /\ \A i \in DOMAIN h.corporateActions \ {id} : acts[i] = h.corporateActions[i]
  BY DEF Without
<1>3. h.corporateActions[id].date \in Nat
  BY <1>1 DEF IsHolding, IsAction
<1>4. g \in Regenerated([h EXCEPT !.corporateActions = acts], h.corporateActions[id].date, m,
                        NoSeed, NoAllocation)
  BY DEF CorporateActionRetracted
<1> HIDE DEF acts
<1>5. DOMAIN acts \subseteq ActionIds /\ \A i \in DOMAIN acts : IsAction(acts[i], i)
  BY <1>1, <1>2 DEF IsHolding
<1>6. ActionsBut(acts, h, id)
  BY <1>2 DEF ActionsBut
<1>7. IsSound(g, m, r) /\ g.corporateActions = acts /\ IdsOf(g) \subseteq IdsOf(h)
  BY <1>3, <1>4, <1>5, WithActionsSound
<1> QED
  BY <1>2, <1>6, <1>7 DEF IsActed
-----------------------------------------------------------------------------
(* The two records of a merger or a spin-off.                                 *)

LEMMA SameActionsAgree ==
    ASSUME NEW hs, NEW ks, HalvesAgree(hs), \A a \in Assets : IsHolding(hs[a]),
           \A a \in Assets : ks[a].corporateActions = hs[a].corporateActions
    PROVE  HalvesAgree(ks)
<1> SUFFICES ASSUME NEW a \in Assets, NEW id \in DOMAIN hs[a].corporateActions
             PROVE  HalfAgrees(ks, a, id)
  BY DEF HalvesAgree
<1>1. HalfAgrees(hs, a, id)
  BY DEF HalvesAgree
<1>2. hs[a].corporateActions[id].kind # "split" => hs[a].corporateActions[id].linked \in Assets
  BY DEF IsHolding, IsAction
<1> QED
  BY <1>1, <1>2 DEF HalfAgrees

\* A split is no half: neither is what it replaces, nor what another asset links to.
LEMMA SplitAgrees ==
    ASSUME NEW hs, HalvesAgree(hs), \A b \in Assets : IsHolding(hs[b]), hs = [b \in Assets |-> hs[b]],
           NEW a \in Assets, NEW id, NEW g, ActionsBut(g.corporateActions, hs[a], id),
           id \in DOMAIN g.corporateActions => g.corporateActions[id].kind = "split",
           \/ \A b \in Assets : id \notin DOMAIN hs[b].corporateActions
           \/ id \in DOMAIN hs[a].corporateActions /\ hs[a].corporateActions[id].kind = "split"
    PROVE  HalvesAgree([hs EXCEPT ![a] = g])
<1> DEFINE ks == [hs EXCEPT ![a] = g]
<1>1. ks[a] = g /\ \A b \in Assets \ {a} : ks[b] = hs[b]
  OBVIOUS
<1> HIDE DEF ks
<1> SUFFICES ASSUME NEW c \in Assets, NEW i \in DOMAIN ks[c].corporateActions,
                    ks[c].corporateActions[i].kind # "split"
             PROVE  HalfAgrees(ks, c, i)
  BY DEF HalvesAgree, HalfAgrees, ks
<1>2. \A b \in Assets : ActionsBut(ks[b].corporateActions, hs[b], id)
  BY <1>1 DEF ActionsBut
<1>3. i # id \/ c # a
  BY <1>1
<1>4. i \in DOMAIN hs[c].corporateActions /\ ks[c].corporateActions[i] = hs[c].corporateActions[i]
  BY <1>1, <1>2, <1>3 DEF ActionsBut
<1>5. HalfAgrees(hs, c, i)
  BY <1>4 DEF HalvesAgree
<1> DEFINE ca == hs[c].corporateActions[i]
<1>6. /\ ca.linked \in Assets
      /\ ca.linked # c
      /\ i \in DOMAIN hs[ca.linked].corporateActions
      /\ IsOtherHalf(hs[ca.linked].corporateActions[i], ca, c)
      /\ IsCorporateAction(ca)
  BY <1>4, <1>5 DEF HalfAgrees, IsHolding, IsAction
<1>7. hs[ca.linked].corporateActions[i].kind # "split"
  BY <1>4, <1>6 DEF IsOtherHalf, OppositeOf, IsCorporateAction
<1>8. i # id \/ ca.linked # a
  BY <1>4, <1>6, <1>7
<1>9. /\ i \in DOMAIN ks[ca.linked].corporateActions
      /\ ks[ca.linked].corporateActions[i] = hs[ca.linked].corporateActions[i]
  BY <1>1, <1>2, <1>6, <1>8 DEF ActionsBut
<1> QED
  BY <1>4, <1>6, <1>9 DEF HalfAgrees

\* No asset but a and b has a half of the pair id that names a or b.
IsPairOf(hs, a, b, id) ==
    \A c \in Assets \ {a, b} :
        id \in DOMAIN hs[c].corporateActions /\ hs[c].corporateActions[id].kind # "split"
            => hs[c].corporateActions[id].linked \notin {a, b}

AreHalves(ca, other, a, b) ==
    /\ ca.linked = b /\ other.linked = a
    /\ IsOtherHalf(other, ca, a) /\ IsOtherHalf(ca, other, b)

LEMMA PairAgrees ==
    ASSUME NEW hs, HalvesAgree(hs), \A c \in Assets : IsHolding(hs[c]), hs = [c \in Assets |-> hs[c]],
           NEW a \in Assets, NEW b \in Assets \ {a}, NEW id, IsPairOf(hs, a, b, id),
           NEW g, NEW l,
           ActionsBut(g.corporateActions, hs[a], id), ActionsBut(l.corporateActions, hs[b], id),
           \/ id \notin DOMAIN g.corporateActions /\ id \notin DOMAIN l.corporateActions
           \/ /\ id \in DOMAIN g.corporateActions /\ id \in DOMAIN l.corporateActions
              /\ AreHalves(g.corporateActions[id], l.corporateActions[id], a, b)
    PROVE  HalvesAgree([hs EXCEPT ![a] = g, ![b] = l])
<1> DEFINE ks == [hs EXCEPT ![a] = g, ![b] = l]
<1>1. ks[a] = g /\ ks[b] = l /\ \A c \in Assets \ {a, b} : ks[c] = hs[c]
  OBVIOUS
<1> HIDE DEF ks
<1> SUFFICES ASSUME NEW c \in Assets, NEW i \in DOMAIN ks[c].corporateActions,
                    ks[c].corporateActions[i].kind # "split"
             PROVE  HalfAgrees(ks, c, i)
  BY DEF HalvesAgree, HalfAgrees, ks
<1>2. \A d \in Assets : ActionsBut(ks[d].corporateActions, hs[d], id)
  BY <1>1 DEF ActionsBut
<1>3. CASE i = id /\ c \in {a, b}
  BY <1>1, <1>3 DEF AreHalves, HalfAgrees
<1>4. CASE i # id \/ c \notin {a, b}
  <2>1. i \in DOMAIN hs[c].corporateActions /\ ks[c].corporateActions[i] = hs[c].corporateActions[i]
    BY <1>1, <1>2, <1>4 DEF ActionsBut
  <2>2. HalfAgrees(hs, c, i)
    BY <2>1 DEF HalvesAgree
  <2> DEFINE ca == hs[c].corporateActions[i]
  <2>3. /\ ca.linked \in Assets
        /\ ca.linked # c
        /\ i \in DOMAIN hs[ca.linked].corporateActions
        /\ IsOtherHalf(hs[ca.linked].corporateActions[i], ca, c)
    BY <2>1, <2>2 DEF HalfAgrees, IsHolding, IsAction
  <2>4. i # id \/ ca.linked \notin {a, b}
    BY <1>4, <2>1 DEF IsPairOf
  <2>5. /\ i \in DOMAIN ks[ca.linked].corporateActions
        /\ ks[ca.linked].corporateActions[i] = hs[ca.linked].corporateActions[i]
    BY <1>1, <1>2, <2>3, <2>4 DEF ActionsBut
  <2> QED
    BY <2>1, <2>3, <2>5 DEF HalfAgrees
<1> QED
  BY <1>3, <1>4

LEMMA LinkedPair ==
    ASSUME NEW hs, HalvesAgree(hs), \A c \in Assets : IsHolding(hs[c]),
           NEW a \in Assets, NEW b \in Assets, NEW id \in DOMAIN hs[a].corporateActions,
           hs[a].corporateActions[id].kind \in LinkedKinds,
           hs[a].corporateActions[id].linked = b
    PROVE  id \in DOMAIN hs[b].corporateActions /\ IsPairOf(hs, a, b, id)
<1>1. /\ id \in DOMAIN hs[b].corporateActions
      /\ hs[b].corporateActions[id].linked = a
  <2>1. HalfAgrees(hs, a, id)
    BY DEF HalvesAgree
  <2> QED
    BY <2>1 DEF HalfAgrees, IsOtherHalf, LinkedKinds
<1>2. ASSUME NEW c \in Assets \ {a, b}, id \in DOMAIN hs[c].corporateActions,
             hs[c].corporateActions[id].kind # "split",
             hs[c].corporateActions[id].linked \in {a, b}
      PROVE  FALSE
  <2>1. HalfAgrees(hs, c, id)
    BY <1>2 DEF HalvesAgree
  <2> QED
    BY <1>1, <1>2, <2>1 DEF HalfAgrees, IsOtherHalf
<1> QED
  BY <1>1, <1>2 DEF IsPairOf
-----------------------------------------------------------------------------
(* Putting holdings back among those of the broker.                           *)

LEMMA HoldingReplaced ==
    ASSUME NEW hs, NEW m, NEW r, IsHoldings(hs, m, r), NEW a \in Assets, NEW g, NEW q,
           IsSound(g, m, q), g.corporateActions = hs[a].corporateActions,
           \A b \in Assets \ {a} : IsSound(hs[b], m, q) /\ IdsOf(g) \cap IdsOf(hs[b]) = {}
    PROVE  IsHoldings([hs EXCEPT ![a] = g], m, q)
<1> DEFINE ks == [hs EXCEPT ![a] = g]
<1>1. ks = [b \in Assets |-> ks[b]] /\ ks[a] = g /\ \A b \in Assets \ {a} : ks[b] = hs[b]
  BY DEF IsHoldings
<1> HIDE DEF ks
<1>2. HalvesAgree(ks)
  <2>1. \A b \in Assets : IsHolding(hs[b])
    BY DEF IsHoldings, IsSound
  <2>2. \A b \in Assets : ks[b].corporateActions = hs[b].corporateActions
    BY <1>1
  <2> QED
    BY <2>1, <2>2, SameActionsAgree DEF IsHoldings
<1>3. IdsApart(ks)
  BY <1>1 DEF IsHoldings, IdsApart
<1> QED
  BY <1>1, <1>2, <1>3 DEF IsHoldings, ks

LEMMA ActedTwice ==
    ASSUME NEW h, NEW g, NEW l, NEW id, NEW m, NEW r,
           IsActed(g, h, id, m, r), IsActed(l, g, id, m, r)
    PROVE  IsActed(l, h, id, m, r)
  BY DEF IsActed, ActionsBut

LEMMA SplitReplaced ==
    ASSUME NEW hs, NEW m, NEW r, IsHoldings(hs, m, r), NEW a \in Assets, NEW id, NEW g,
           IsActed(g, hs[a], id, m, r),
           id \in DOMAIN g.corporateActions => g.corporateActions[id].kind = "split",
           \/ \A b \in Assets : id \notin DOMAIN hs[b].corporateActions
           \/ id \in DOMAIN hs[a].corporateActions /\ hs[a].corporateActions[id].kind = "split"
    PROVE  IsHoldings([hs EXCEPT ![a] = g], m, r)
<1> DEFINE ks == [hs EXCEPT ![a] = g]
<1>1. ks = [b \in Assets |-> ks[b]] /\ ks[a] = g /\ \A b \in Assets \ {a} : ks[b] = hs[b]
  BY DEF IsHoldings
<1>2. HalvesAgree(ks)
  BY SplitAgrees DEF IsHoldings, IsSound, IsActed
<1> HIDE DEF ks
<1>3. IdsApart(ks)
  BY <1>1 DEF IsHoldings, IdsApart, IsActed
<1> QED
  BY <1>1, <1>2, <1>3 DEF IsHoldings, IsActed, ks

LEMMA PairReplaced ==
    ASSUME NEW hs, NEW m, NEW r, IsHoldings(hs, m, r), NEW a \in Assets, NEW b \in Assets \ {a},
           NEW id, IsPairOf(hs, a, b, id), NEW g, NEW l,
           IsActed(g, hs[a], id, m, r), IsActed(l, hs[b], id, m, r),
           \/ id \notin DOMAIN g.corporateActions /\ id \notin DOMAIN l.corporateActions
           \/ /\ id \in DOMAIN g.corporateActions /\ id \in DOMAIN l.corporateActions
              /\ AreHalves(g.corporateActions[id], l.corporateActions[id], a, b)
    PROVE  IsHoldings([hs EXCEPT ![a] = g, ![b] = l], m, r)
<1> DEFINE ks == [hs EXCEPT ![a] = g, ![b] = l]
<1>1. /\ ks = [c \in Assets |-> ks[c]]
      /\ ks[a] = g /\ ks[b] = l /\ \A c \in Assets \ {a, b} : ks[c] = hs[c]
  BY DEF IsHoldings
<1>2. HalvesAgree(ks)
  BY PairAgrees DEF IsHoldings, IsSound, IsActed
<1> HIDE DEF ks
<1>3. \A c \in Assets : IdsOf(ks[c]) \subseteq IdsOf(hs[c])
  BY <1>1 DEF IsActed
<1>4. IdsApart(ks)
  BY <1>3 DEF IsHoldings, IdsApart
<1> QED
  BY <1>1, <1>2, <1>4 DEF IsHoldings, IsActed, ks

LEMMA RegeneratedHoldings ==
    ASSUME NEW hs, NEW m, NEW r, IsHoldings(hs, m, r), NEW ks, ks = [a \in Assets |-> ks[a]], NEW n,
           \A a \in Assets : /\ IsSound(ks[a], n, r)
                             /\ ks[a].corporateActions = hs[a].corporateActions
                             /\ IdsOf(ks[a]) \subseteq IdsOf(hs[a])
    PROVE  IsHoldings(ks, n, r)
<1>1. HalvesAgree(ks)
  BY SameActionsAgree DEF IsHoldings, IsSound
<1>2. IdsApart(ks)
  BY DEF IsHoldings, IdsApart
<1> QED
  BY <1>1, <1>2 DEF IsHoldings
-----------------------------------------------------------------------------
(* The steps: transactions.                                                   *)

LEMMA StillOutOfOrderOf == StillOutOfOrder \subseteq outOfOrder
  BY DEF StillOutOfOrder

LEMMA DatesAreNumbers == Dates \subseteq Nat
  BY HoldingsAssumption DEF HoldingsAssumption

LEMMA EnteredTransaction ==
    ASSUME NEW id, NEW t \in Entered(id)
    PROVE  t.id = id /\ IsTransaction(t, id)
<1>1. PICK k \in Kinds, d \in Dates, m \in Amounts :
        t = [id |-> id, kind |-> k, date |-> d, quantity |-> m.quantity, price |-> m.price]
  BY DEF Entered
<1>2. m.quantity \in Nat /\ m.price \in Nat
  BY HoldingsAssumption DEF HoldingsAssumption
<1>3. k \in {"buy", "sell", "transferOut", "fee"}
  BY HoldingsAssumption DEF HoldingsAssumption
<1> QED
  BY <1>1, <1>2, <1>3 DEF IsTransaction

LEMMA AddTransactionStep ==
    ASSUME IInv, NEW a \in Assets, AddTransaction(a)
    PROVE  IInv'
<1> USE DatesAreNumbers
<1> DEFINE Adds(id, t, g) ==
            /\ Unused(id)
            /\ holdings' = [holdings EXCEPT ![a] = g]
            /\ outOfOrder' = StillOutOfOrder \union {i \in {id} : AppendedOutOfOrder(holdings[a], t)}
           Results(t, al) == TransactionRecorded(holdings[a], t, costBasisMethod, al)
<1>1. PICK id \in TransactionIds :
        \E t \in Entered(id) : \E al : \E g \in Results(t, al) : Adds(id, t, g)
  BY DEF AddTransaction
<1>2. PICK t \in Entered(id) : \E al : \E g \in Results(t, al) : Adds(id, t, g)
  BY <1>1
<1>3. PICK al : \E g \in Results(t, al) : Adds(id, t, g)
  BY <1>2
<1>4. PICK g \in Results(t, al) : Adds(id, t, g)
  BY <1>3
<1>5. costBasisMethod' = costBasisMethod /\ retyped' = retyped
  BY DEF AddTransaction
<1>6. t.id = id /\ IsTransaction(t, t.id)
  BY EnteredTransaction
<1>7. \A b \in Assets : id \notin IdsOf(holdings[b])
  BY <1>4 DEF Unused, IdsOf
<1>8. /\ IsSound(g, costBasisMethod, retyped)
      /\ g.corporateActions = holdings[a].corporateActions
      /\ IdsOf(g) \subseteq IdsOf(holdings[a]) \union {id}
  <2>1. IsSound(holdings[a], costBasisMethod, retyped)
    BY DEF IInv, IsHoldings
  <2>2. t.id \notin DOMAIN holdings[a].transactions /\ t.id \notin DOMAIN holdings[a].disposalRecords
    BY <1>6, <1>7 DEF IdsOf
  <2> QED
    BY <1>6, <2>1, <2>2, RecordedSound DEF IInv
<1>9. \A b \in Assets \ {a} : /\ IsSound(holdings[b], costBasisMethod, retyped)
                              /\ IdsOf(g) \cap IdsOf(holdings[b]) = {}
  BY <1>7, <1>8 DEF IInv, IsHoldings, IdsApart
<1>10. IsHoldings([holdings EXCEPT ![a] = g], costBasisMethod, retyped)
  BY <1>8, <1>9, HoldingReplaced DEF IInv
<1>11. outOfOrder' \subseteq TransactionIds
  BY <1>4, StillOutOfOrderOf DEF IInv
<1> QED
  BY <1>4, <1>5, <1>10, <1>11 DEF IInv

LEMMA UpdateTransactionStep ==
    ASSUME IInv, NEW a \in Assets, UpdateTransaction(a)
    PROVE  IInv'
<1> USE DatesAreNumbers
<1> DEFINE Updates(id, t, g) ==
            /\ holdings' = [holdings EXCEPT ![a] = g]
            /\ retyped' = retyped \union
                    {i \in {id} : IsDisposing(holdings[a].transactions[i]) # IsDisposing(t)}
           Results(t) == TransactionRevised(holdings[a], t, costBasisMethod)
<1>1. PICK id \in DOMAIN holdings[a].transactions :
        \E t \in Entered(id) : \E g \in Results(t) : Updates(id, t, g)
  BY DEF UpdateTransaction
<1>2. PICK t \in Entered(id) : \E g \in Results(t) : Updates(id, t, g)
  BY <1>1
<1>3. PICK g \in Results(t) : Updates(id, t, g)
  BY <1>2
<1>4. costBasisMethod' = costBasisMethod /\ outOfOrder' = StillOutOfOrder
  BY DEF UpdateTransaction
<1>5. t.id = id /\ IsTransaction(t, t.id)
  BY EnteredTransaction
<1>6. \A b \in Assets : IsSound(holdings[b], costBasisMethod, retyped)
  BY DEF IInv, IsHoldings
<1>7. retyped \subseteq retyped' /\ retyped' \subseteq retyped \union {id}
  BY <1>3
<1>8. IsDisposing(holdings[a].transactions[t.id]) # IsDisposing(t) => t.id \in retyped'
  BY <1>3, <1>5
<1>9. /\ IsSound(g, costBasisMethod, retyped')
      /\ g.corporateActions = holdings[a].corporateActions
      /\ IdsOf(g) \subseteq IdsOf(holdings[a])
  BY <1>3, <1>5, <1>6, <1>7, <1>8, RevisedSound DEF IInv
<1>10. \A b \in Assets \ {a} : /\ IsSound(holdings[b], costBasisMethod, retyped')
                              /\ IdsOf(g) \cap IdsOf(holdings[b]) = {}
  BY <1>6, <1>7, <1>9 DEF IInv, IsHoldings, IdsApart, IsSound
<1>11. IsHoldings([holdings EXCEPT ![a] = g], costBasisMethod, retyped')
  BY <1>9, <1>10, HoldingReplaced DEF IInv
<1>12. id \in TransactionIds
  BY <1>6 DEF IsSound, IsHolding
<1> QED
  BY <1>3, <1>4, <1>7, <1>11, <1>12, StillOutOfOrderOf DEF IInv

\* A deleted id is in no other asset: forgetting that it was retyped is sound.
LEMMA DeleteTransactionStep ==
    ASSUME IInv, NEW a \in Assets, DeleteTransaction(a)
    PROVE  IInv'
<1> USE DatesAreNumbers
<1> DEFINE Deletes(id, g) ==
            /\ holdings' = [holdings EXCEPT ![a] = g]
            /\ retyped' = {i \in retyped : i # id \/ i \in DOMAIN holdings'[a].disposalRecords}
           Results(id) == TransactionRetracted(holdings[a], id, costBasisMethod)
<1>0. PICK id \in DOMAIN holdings[a].transactions : \E g \in Results(id) : Deletes(id, g)
  BY DEF DeleteTransaction
<1>1. PICK g \in Results(id) : Deletes(id, g)
  BY <1>0
<1>2. costBasisMethod' = costBasisMethod /\ outOfOrder' = StillOutOfOrder
  BY DEF DeleteTransaction
<1>3. \A b \in Assets : IsSound(holdings[b], costBasisMethod, retyped)
  BY DEF IInv, IsHoldings
<1>4. holdings'[a] = g
  BY <1>1 DEF IInv, IsHoldings
<1>5. \A i : i \in retyped' <=> i \in retyped /\ (i # id \/ i \in DOMAIN g.disposalRecords)
  BY <1>1, <1>4
<1>6. /\ IsSound(g, costBasisMethod, retyped')
      /\ g.corporateActions = holdings[a].corporateActions
      /\ IdsOf(g) \subseteq IdsOf(holdings[a])
  BY <1>3, <1>5, RetractedSound DEF IInv
<1>7. ASSUME NEW b \in Assets \ {a}
      PROVE  IsSound(holdings[b], costBasisMethod, retyped')
  <2>1. id \notin IdsOf(holdings[b])
    BY DEF IInv, IsHoldings, IdsApart, IdsOf
  <2>2. HasItsRecordOf(holdings[b], id, costBasisMethod)
    BY <2>1 DEF HasItsRecordOf, HasItsRecord, Disposals, IdsOf
  <2>3. retyped \subseteq retyped' \union {id}
    BY <1>5
  <2> QED
    BY <1>3, <2>2, <2>3 DEF IsSound
<1>8. \A b \in Assets \ {a} : IdsOf(g) \cap IdsOf(holdings[b]) = {}
  BY <1>6 DEF IInv, IsHoldings, IdsApart
<1>9. IsHoldings([holdings EXCEPT ![a] = g], costBasisMethod, retyped')
  BY <1>6, <1>7, <1>8, HoldingReplaced DEF IInv
<1> QED
  BY <1>1, <1>2, <1>9, StillOutOfOrderOf DEF IInv
-----------------------------------------------------------------------------
(* The steps: corporate actions.                                              *)

LEMMA SplitIsAction ==
    ASSUME NEW id, NEW date \in Dates, NEW factor
    PROVE  /\ Split(id, date, factor).id = id
           /\ Split(id, date, factor).kind = "split"
           /\ IsAction(Split(id, date, factor), id)
  BY DEF Split, IsAction, IsCorporateAction

LEMMA AddSplitStep ==
    ASSUME IInv, NEW a \in Assets, AddSplit(a)
    PROVE  IInv'
<1> USE DatesAreNumbers
<1>1. PICK id \in ActionIds, date \in Dates, factor \in Factors \ {1} :
        /\ Unused(id)
        /\ \E h \in CorporateActionRecorded(holdings[a], Split(id, date, factor), costBasisMethod) :
            holdings' = [holdings EXCEPT ![a] = h]
  BY DEF AddSplit
<1>2. PICK g \in CorporateActionRecorded(holdings[a], Split(id, date, factor), costBasisMethod) :
        holdings' = [holdings EXCEPT ![a] = g]
  BY <1>1
<1> DEFINE split == Split(id, date, factor)
<1>3. split.id = id /\ split.kind = "split" /\ IsAction(split, id)
  BY SplitIsAction
<1>4. g \in CorporateActionRecorded(holdings[a], split, costBasisMethod)
  OBVIOUS
<1> HIDE DEF split
<1>5. IsActed(g, holdings[a], id, costBasisMethod, retyped) /\ g.corporateActions[id] = split
  BY <1>3, <1>4, ActionRecordedSound DEF IInv, IsHoldings
<1>6. \A b \in Assets : id \notin DOMAIN holdings[b].corporateActions
  BY <1>1 DEF Unused
<1>7. IsHoldings([holdings EXCEPT ![a] = g], costBasisMethod, retyped)
  BY <1>3, <1>5, <1>6, SplitReplaced DEF IInv
<1> QED
  BY <1>2, <1>7, StillOutOfOrderOf DEF IInv, AddSplit, CommitCorporateActions

LEMMA UpdateSplitStep ==
    ASSUME IInv, NEW a \in Assets, UpdateSplit(a)
    PROVE  IInv'
<1> USE DatesAreNumbers
<1>1. PICK id \in DOMAIN holdings[a].corporateActions, date \in Dates, factor \in Factors \ {1} :
        /\ holdings[a].corporateActions[id].kind = "split"
        /\ \E h \in CorporateActionRevised(holdings[a], Split(id, date, factor), costBasisMethod) :
            holdings' = [holdings EXCEPT ![a] = h]
  BY DEF UpdateSplit
<1>2. PICK g \in CorporateActionRevised(holdings[a], Split(id, date, factor), costBasisMethod) :
        holdings' = [holdings EXCEPT ![a] = g]
  BY <1>1
<1> DEFINE split == Split(id, date, factor)
<1>3. split.id = id /\ split.kind = "split" /\ IsAction(split, id)
  BY SplitIsAction
<1>4. g \in CorporateActionRevised(holdings[a], split, costBasisMethod)
  OBVIOUS
<1> HIDE DEF split
<1>5. IsActed(g, holdings[a], id, costBasisMethod, retyped) /\ g.corporateActions[id] = split
  BY <1>3, <1>4, ActionRevisedSound DEF IInv, IsHoldings
<1>6. IsHoldings([holdings EXCEPT ![a] = g], costBasisMethod, retyped)
  BY <1>1, <1>3, <1>5, SplitReplaced DEF IInv
<1> QED
  BY <1>2, <1>6, StillOutOfOrderOf DEF IInv, UpdateSplit, CommitCorporateActions

LEMMA DeleteSplitStep ==
    ASSUME IInv, NEW a \in Assets, DeleteSplit(a)
    PROVE  IInv'
<1> USE DatesAreNumbers
<1>1. PICK id \in DOMAIN holdings[a].corporateActions :
        /\ holdings[a].corporateActions[id].kind = "split"
        /\ \E h \in CorporateActionRetracted(holdings[a], id, costBasisMethod) :
            holdings' = [holdings EXCEPT ![a] = h]
  BY DEF DeleteSplit
<1>2. PICK g \in CorporateActionRetracted(holdings[a], id, costBasisMethod) :
        holdings' = [holdings EXCEPT ![a] = g]
  BY <1>1
<1>3. IsActed(g, holdings[a], id, costBasisMethod, retyped) /\ id \notin DOMAIN g.corporateActions
  BY ActionRetractedSound DEF IInv, IsHoldings
<1>4. IsHoldings([holdings EXCEPT ![a] = g], costBasisMethod, retyped)
  BY <1>1, <1>3, SplitReplaced DEF IInv
<1> QED
  BY <1>2, <1>4, StillOutOfOrderOf DEF IInv, DeleteSplit, CommitCorporateActions

\* The two records a form enters are halves of one event, each for its asset.
ArePair(pair, a, b, id) ==
    /\ pair.own.id = id /\ pair.other.id = id
    /\ IsAction(pair.own, id) /\ IsAction(pair.other, id)
    /\ AreHalves(pair.own, pair.other, a, b)

LEMMA MergerIsPair ==
    ASSUME NEW h, NEW a \in Assets, NEW b \in Assets, NEW id, NEW pair \in EnteredMergers(h, a, b, id)
    PROVE  ArePair(pair, a, b, id)
<1>1. PICK date \in Dates, factor \in Factors : pair = MergerPair(h, a, b, id, date, factor)
  BY DEF EnteredMergers
<1>2. PICK converted, carried :
        /\ pair.own = Half(id, "mergerSource", date, b, converted, carried, factor)
        /\ pair.other = Half(id, "mergerTarget", date, a, converted, carried, NoRatio)
  BY <1>1 DEF MergerPair
<1> QED
  BY <1>2 DEF ArePair, Half, IsAction, IsCorporateAction, AreHalves, IsOtherHalf, OppositeOf

LEMMA SpinOffIsPair ==
    ASSUME NEW h, NEW a \in Assets, NEW b \in Assets, NEW id, NEW pair \in EnteredSpinOffs(h, a, b, id)
    PROVE  ArePair(pair, a, b, id)
<1>1. PICK date \in Dates, m \in Amounts, percentage \in Percentages :
        pair = SpinOffPair(h, a, b, id, date, m.quantity, percentage)
  BY DEF EnteredSpinOffs
<1>2. PICK carried :
        /\ pair.own = Half(id, "spinOffParent", date, b, m.quantity, carried, percentage)
        /\ pair.other = Half(id, "spinOffNew", date, a, m.quantity, carried, NoRatio)
  BY <1>1 DEF SpinOffPair
<1> QED
  BY <1>2 DEF ArePair, Half, IsAction, IsCorporateAction, AreHalves, IsOtherHalf, OppositeOf

LEMMA PairRecordedSound ==
    ASSUME costBasisMethod \in Methods, NEW h, NEW k, NEW r,
           IsSound(h, costBasisMethod, r), IsSound(k, costBasisMethod, r),
           NEW a, NEW b, NEW id \in ActionIds, NEW pair, ArePair(pair, a, b, id),
           NEW result \in PairRecorded(h, k, pair)
    PROVE  /\ IsActed(result.own, h, id, costBasisMethod, r)
           /\ IsActed(result.other, k, id, costBasisMethod, r)
           /\ id \in DOMAIN result.own.corporateActions
           /\ id \in DOMAIN result.other.corporateActions
           /\ AreHalves(result.own.corporateActions[id], result.other.corporateActions[id], a, b)
<1> USE DatesAreNumbers
<1>1. PICK g \in CorporateActionRecorded(h, pair.own, costBasisMethod) :
        result \in {[own |-> g, other |-> l] :
                        l \in CorporateActionRecorded(k, pair.other, costBasisMethod)}
  BY DEF PairRecorded
<1>2. PICK l \in CorporateActionRecorded(k, pair.other, costBasisMethod) :
        result = [own |-> g, other |-> l]
  BY <1>1
<1>3. /\ IsActed(g, h, id, costBasisMethod, r)
      /\ id \in DOMAIN g.corporateActions /\ g.corporateActions[id] = pair.own
  BY ActionRecordedSound DEF ArePair
<1>4. /\ IsActed(l, k, id, costBasisMethod, r)
      /\ id \in DOMAIN l.corporateActions /\ l.corporateActions[id] = pair.other
  BY ActionRecordedSound DEF ArePair
<1> QED
  BY <1>2, <1>3, <1>4 DEF ArePair

LEMMA PairRetractedSound ==
    ASSUME IInv, NEW a \in Assets, NEW b \in Assets,
           NEW id, id \in DOMAIN holdings[a].corporateActions,
           id \in DOMAIN holdings[b].corporateActions, NEW rest \in PairRetracted(a, b, id)
    PROVE  /\ IsActed(rest.own, holdings[a], id, costBasisMethod, retyped)
           /\ IsActed(rest.other, holdings[b], id, costBasisMethod, retyped)
           /\ id \notin DOMAIN rest.own.corporateActions
           /\ id \notin DOMAIN rest.other.corporateActions
<1> USE DatesAreNumbers
<1>1. PICK g \in CorporateActionRetracted(holdings[a], id, costBasisMethod),
           l \in CorporateActionRetracted(holdings[b], id, costBasisMethod) :
        rest = [own |-> g, other |-> l]
  BY DEF PairRetracted
<1>2. IsActed(g, holdings[a], id, costBasisMethod, retyped) /\ id \notin DOMAIN g.corporateActions
  BY ActionRetractedSound DEF IInv, IsHoldings
<1>3. IsActed(l, holdings[b], id, costBasisMethod, retyped) /\ id \notin DOMAIN l.corporateActions
  BY ActionRetractedSound DEF IInv, IsHoldings
<1> QED
  BY <1>1, <1>2, <1>3

LEMMA AddPairStep ==
    ASSUME IInv, NEW a \in Assets, NEW b \in Assets \ {a}, NEW id \in ActionIds, Unused(id),
           NEW pair, ArePair(pair, a, b, id), RecordPair(a, b, pair), CommitCorporateActions
    PROVE  IInv'
<1>1. PICK result \in PairRecorded(holdings[a], holdings[b], pair) : SavePair(a, b, result)
  BY DEF RecordPair
<1>2. /\ IsActed(result.own, holdings[a], id, costBasisMethod, retyped)
      /\ IsActed(result.other, holdings[b], id, costBasisMethod, retyped)
      /\ id \in DOMAIN result.own.corporateActions
      /\ id \in DOMAIN result.other.corporateActions
      /\ AreHalves(result.own.corporateActions[id], result.other.corporateActions[id], a, b)
  BY PairRecordedSound DEF IInv, IsHoldings
<1>3. IsPairOf(holdings, a, b, id)
  BY DEF IsPairOf, Unused
<1>4. IsHoldings([holdings EXCEPT ![a] = result.own, ![b] = result.other], costBasisMethod, retyped)
  BY <1>2, <1>3, PairReplaced DEF IInv
<1> QED
  BY <1>1, <1>4, StillOutOfOrderOf DEF IInv, SavePair, CommitCorporateActions

LEMMA LinkedToPair ==
    ASSUME IInv, NEW a \in Assets, NEW b \in Assets, NEW kinds, kinds \subseteq LinkedKinds,
           NEW id \in LinkedTo(a, b, kinds)
    PROVE  /\ id \in ActionIds
           /\ id \in DOMAIN holdings[a].corporateActions
           /\ id \in DOMAIN holdings[b].corporateActions
           /\ IsPairOf(holdings, a, b, id)
<1>1. /\ HalvesAgree(holdings) /\ \A c \in Assets : IsHolding(holdings[c])
      /\ id \in DOMAIN holdings[a].corporateActions
      /\ holdings[a].corporateActions[id].kind \in LinkedKinds
      /\ holdings[a].corporateActions[id].linked = b
  BY DEF IInv, IsHoldings, IsSound, LinkedTo
<1>2. id \in ActionIds
  BY <1>1 DEF IsHolding
<1> QED
  BY <1>1, <1>2, LinkedPair

LEMMA UpdatePairStep ==
    ASSUME IInv, NEW a \in Assets, NEW b \in Assets \ {a},
           NEW kinds, kinds \subseteq LinkedKinds, NEW id \in LinkedTo(a, b, kinds),
           NEW rest \in PairRetracted(a, b, id), NEW pair, ArePair(pair, a, b, id),
           NEW result \in PairRecorded(rest.own, rest.other, pair), SavePair(a, b, result),
           CommitCorporateActions
    PROVE  IInv'
<1>1. /\ id \in ActionIds
      /\ id \in DOMAIN holdings[a].corporateActions
      /\ id \in DOMAIN holdings[b].corporateActions
      /\ IsPairOf(holdings, a, b, id)
  BY LinkedToPair
<1>2. /\ IsActed(rest.own, holdings[a], id, costBasisMethod, retyped)
      /\ IsActed(rest.other, holdings[b], id, costBasisMethod, retyped)
  BY <1>1, PairRetractedSound
<1>3. /\ IsActed(result.own, rest.own, id, costBasisMethod, retyped)
      /\ IsActed(result.other, rest.other, id, costBasisMethod, retyped)
      /\ id \in DOMAIN result.own.corporateActions
      /\ id \in DOMAIN result.other.corporateActions
      /\ AreHalves(result.own.corporateActions[id], result.other.corporateActions[id], a, b)
  BY <1>1, <1>2, PairRecordedSound DEF IInv, IsActed
<1>4. /\ IsActed(result.own, holdings[a], id, costBasisMethod, retyped)
      /\ IsActed(result.other, holdings[b], id, costBasisMethod, retyped)
  BY <1>2, <1>3, ActedTwice
<1>5. IsHoldings([holdings EXCEPT ![a] = result.own, ![b] = result.other], costBasisMethod, retyped)
  BY <1>1, <1>3, <1>4, PairReplaced DEF IInv
<1> QED
  BY <1>5, StillOutOfOrderOf DEF IInv, SavePair, CommitCorporateActions

LEMMA DeletePairStep ==
    ASSUME IInv, NEW a \in Assets, NEW b \in Assets \ {a}, DeleteLinked(a, b)
    PROVE  IInv'
<1>1. PICK id \in LinkedTo(a, b, LinkedKinds) : \E rest \in PairRetracted(a, b, id) : SavePair(a, b, rest)
  BY DEF DeleteLinked
<1>2. PICK rest \in PairRetracted(a, b, id) : SavePair(a, b, rest)
  BY <1>1
<1>3. /\ id \in DOMAIN holdings[a].corporateActions
      /\ id \in DOMAIN holdings[b].corporateActions
      /\ IsPairOf(holdings, a, b, id)
  BY LinkedToPair
<1>4. /\ IsActed(rest.own, holdings[a], id, costBasisMethod, retyped)
      /\ IsActed(rest.other, holdings[b], id, costBasisMethod, retyped)
      /\ id \notin DOMAIN rest.own.corporateActions
      /\ id \notin DOMAIN rest.other.corporateActions
  BY <1>3, PairRetractedSound
<1>5. IsHoldings([holdings EXCEPT ![a] = rest.own, ![b] = rest.other], costBasisMethod, retyped)
  BY <1>3, <1>4, PairReplaced DEF IInv
<1> QED
  BY <1>2, <1>5, StillOutOfOrderOf DEF IInv, SavePair, CommitCorporateActions, DeleteLinked

LEMMA LinkedSteps ==
    ASSUME IInv, NEW a \in Assets, NEW b \in Assets \ {a}, LinkedStep(a, b)
    PROVE  IInv'
<1>1. CASE AddMerger(a, b)
  <2>1. PICK id \in ActionIds :
            Unused(id) /\ \E pair \in EnteredMergers(holdings[a], a, b, id) : RecordPair(a, b, pair)
    BY <1>1 DEF AddMerger
  <2>2. PICK pair \in EnteredMergers(holdings[a], a, b, id) : RecordPair(a, b, pair)
    BY <2>1
  <2>3. ArePair(pair, a, b, id)
    BY MergerIsPair
  <2> QED
    BY <1>1, <2>1, <2>2, <2>3, AddPairStep DEF AddMerger
<1>2. CASE AddSpinOff(a, b)
  <2>1. PICK id \in ActionIds :
            Unused(id) /\ \E pair \in EnteredSpinOffs(holdings[a], a, b, id) : RecordPair(a, b, pair)
    BY <1>2 DEF AddSpinOff
  <2>2. PICK pair \in EnteredSpinOffs(holdings[a], a, b, id) : RecordPair(a, b, pair)
    BY <2>1
  <2>3. ArePair(pair, a, b, id)
    BY SpinOffIsPair
  <2> QED
    BY <1>2, <2>1, <2>2, <2>3, AddPairStep DEF AddSpinOff
<1>3. CASE UpdateMerger(a, b)
  <2> DEFINE kinds == {"mergerSource"}
  <2>1. PICK id \in LinkedTo(a, b, kinds) : \E rest \in PairRetracted(a, b, id) :
            \E pair \in EnteredMergers(rest.own, a, b, id) :
                \E result \in PairRecorded(rest.own, rest.other, pair) : SavePair(a, b, result)
    BY <1>3 DEF UpdateMerger
  <2>2. PICK rest \in PairRetracted(a, b, id) : \E pair \in EnteredMergers(rest.own, a, b, id) :
                \E result \in PairRecorded(rest.own, rest.other, pair) : SavePair(a, b, result)
    BY <2>1
  <2>3. PICK pair \in EnteredMergers(rest.own, a, b, id) :
                \E result \in PairRecorded(rest.own, rest.other, pair) : SavePair(a, b, result)
    BY <2>2
  <2>4. PICK result \in PairRecorded(rest.own, rest.other, pair) : SavePair(a, b, result)
    BY <2>3
  <2>5. ArePair(pair, a, b, id) /\ kinds \subseteq LinkedKinds /\ CommitCorporateActions
    BY <1>3, MergerIsPair DEF LinkedKinds, UpdateMerger
  <2> HIDE DEF kinds
  <2> QED
    BY <2>4, <2>5, UpdatePairStep
<1>4. CASE UpdateSpinOff(a, b)
  <2> DEFINE kinds == {"spinOffParent"}
  <2>1. PICK id \in LinkedTo(a, b, kinds) : \E rest \in PairRetracted(a, b, id) :
            \E pair \in EnteredSpinOffs(rest.own, a, b, id) :
                \E result \in PairRecorded(rest.own, rest.other, pair) : SavePair(a, b, result)
    BY <1>4 DEF UpdateSpinOff
  <2>2. PICK rest \in PairRetracted(a, b, id) : \E pair \in EnteredSpinOffs(rest.own, a, b, id) :
                \E result \in PairRecorded(rest.own, rest.other, pair) : SavePair(a, b, result)
    BY <2>1
  <2>3. PICK pair \in EnteredSpinOffs(rest.own, a, b, id) :
                \E result \in PairRecorded(rest.own, rest.other, pair) : SavePair(a, b, result)
    BY <2>2
  <2>4. PICK result \in PairRecorded(rest.own, rest.other, pair) : SavePair(a, b, result)
    BY <2>3
  <2>5. ArePair(pair, a, b, id) /\ kinds \subseteq LinkedKinds /\ CommitCorporateActions
    BY <1>4, SpinOffIsPair DEF LinkedKinds, UpdateSpinOff
  <2> HIDE DEF kinds
  <2> QED
    BY <2>4, <2>5, UpdatePairStep
<1>5. CASE DeleteLinked(a, b)
  BY <1>5, DeletePairStep
<1> QED
  BY <1>1, <1>2, <1>3, <1>4, <1>5 DEF LinkedStep
-----------------------------------------------------------------------------
(* The steps: the broker's method, and a restart.                             *)

\* From the first date on every disposal is due, so each gets the new method.
LEMMA SetCostBasisMethodStep ==
    ASSUME IInv, NEW method \in Methods, SetCostBasisMethod(method)
    PROVE  IInv'
<1> USE DatesAreNumbers
<1> DEFINE After(a) == RegenerateFrom(holdings[a], MinDate, method, NoSeed, NoAllocation)
<1>1. holdings' = [a \in Assets |-> After(a)] /\ costBasisMethod' = method
  BY DEF SetCostBasisMethod
<1>2. ASSUME NEW a \in Assets
      PROVE  /\ IsSound(After(a), method, retyped)
             /\ After(a).corporateActions = holdings[a].corporateActions
             /\ IdsOf(After(a)) \subseteq IdsOf(holdings[a])
  <2>1. IsHolding(holdings[a]) /\ MinDate \in Nat
    BY DEF IInv, IsHoldings, IsSound, MinDate
  <2>2. ASSUME NEW id \in TransactionIds \ retyped
        PROVE  HasItsRecordOf(holdings[a], id, method) \/ IsDue(holdings[a], id, MinDate)
    <3>1. HasItsRecordOf(holdings[a], id, costBasisMethod)
      BY DEF IInv, IsHoldings, IsSound
    <3>2. CASE id \in Disposals(holdings[a])
      <4>1. holdings[a].transactions[id].date \in Nat
        BY <2>1, <3>2 DEF IsHolding, IsTransaction, Disposals
      <4> QED
        BY <3>2, <4>1 DEF IsDue, MinDate
    <3>3. CASE id \notin Disposals(holdings[a])
      BY <3>1, <3>3 DEF HasItsRecordOf, HasItsRecord
    <3> QED
      BY <3>2, <3>3
  <2>3. IsRepairable(holdings[a], MinDate, method, retyped)
    BY <2>1, <2>2 DEF IsRepairable
  <2>4. IsSound(After(a), method, retyped)
    BY <2>1, <2>3, RegenerationRepairs
  <2>5. /\ After(a).transactions = holdings[a].transactions
        /\ After(a).corporateActions = holdings[a].corporateActions
        /\ DOMAIN After(a).disposalRecords =
                Untouched(holdings[a], MinDate) \union DueFrom(holdings[a], MinDate)
    BY <2>1, RegeneratedFields
  <2> HIDE DEF After
  <2>6. IdsOf(After(a)) \subseteq IdsOf(holdings[a])
    BY <2>5 DEF IdsOf, Untouched, DueFrom, Disposals
  <2> QED
    BY <2>4, <2>5, <2>6
<1> HIDE DEF After
<1>3. IsHoldings(holdings', method, retyped)
  <2> DEFINE ks == [a \in Assets |-> After(a)]
  <2>1. ks = [a \in Assets |-> ks[a]] /\ \A a \in Assets : ks[a] = After(a)
    OBVIOUS
  <2>2. holdings' = ks
    BY <1>1
  <2> HIDE DEF ks
  <2>3. IsHoldings(ks, method, retyped)
    BY <1>2, <2>1, RegeneratedHoldings DEF IInv
  <2> QED
    BY <2>2, <2>3
<1> QED
  BY <1>1, <1>3, StillOutOfOrderOf DEF IInv, SetCostBasisMethod

LEMMA BackfilledSound ==
    ASSUME NEW h, NEW m, NEW r, IsSound(h, m, r)
    PROVE  /\ IsSound(Backfilled(h), m, r)
           /\ Backfilled(h).corporateActions = h.corporateActions
           /\ IdsOf(Backfilled(h)) \subseteq IdsOf(h)
<1> DEFINE g == Backfilled(h)
           Calculated(id) == Calculate(h.transactions[id],
                                       Before(h.transactions[id], RangeOf(h.transactions)),
                                       "AverageCost", NoAllocation)
<1>1. IsHolding(h)
  BY DEF IsSound
<1>2. /\ g = [transactions |-> g.transactions, corporateActions |-> g.corporateActions,
              disposalRecords |-> g.disposalRecords]
      /\ g.transactions = h.transactions
      /\ g.corporateActions = h.corporateActions
      /\ DOMAIN g.disposalRecords = DOMAIN h.disposalRecords \union Disposals(h)
      /\ \A id \in DOMAIN h.disposalRecords : g.disposalRecords[id] = h.disposalRecords[id]
      /\ \A id \in Disposals(h) \ DOMAIN h.disposalRecords :
            g.disposalRecords[id] = Calculated(id)
  BY <1>1 DEF Backfilled, IsHolding
<1> HIDE DEF g
<1>3. \A id : /\ Calculated(id).date = h.transactions[id].date
              /\ Calculated(id).method = "AverageCost"
              /\ Calculated(id).quantity = h.transactions[id].quantity
  BY CalculatedRecord
<1> HIDE DEF Calculated
<1>4. \A id \in DOMAIN g.disposalRecords : IsRecord(g.disposalRecords[id])
  <2> SUFFICES ASSUME NEW id \in DOMAIN g.disposalRecords PROVE IsRecord(g.disposalRecords[id])
    OBVIOUS
  <2>1. CASE id \in DOMAIN h.disposalRecords
    BY <1>1, <1>2, <2>1 DEF IsHolding
  <2>2. CASE id \in Disposals(h) \ DOMAIN h.disposalRecords
    <3>1. IsTransaction(h.transactions[id], id)
      BY <1>1, <2>2 DEF IsHolding, Disposals
    <3>2. "AverageCost" \in Methods
      BY DEF Methods
    <3> QED
      BY <1>2, <1>3, <2>2, <3>1, <3>2 DEF IsRecord, IsTransaction
  <2> QED
    BY <1>2, <2>1, <2>2
<1>5. DOMAIN g.disposalRecords \subseteq TransactionIds
  BY <1>1, <1>2 DEF IsHolding, Disposals
<1>6. IsHolding(g)
  BY <1>1, <1>2, <1>4, <1>5 DEF IsHolding
<1>7. Disposals(g) = Disposals(h)
  BY <1>2 DEF Disposals
<1>8. \A id \in TransactionIds \ r : HasItsRecordOf(g, id, m)
  BY <1>2, <1>7 DEF IsSound, HasItsRecordOf, HasItsRecord
<1>9. IdsOf(g) \subseteq IdsOf(h)
  BY <1>2 DEF IdsOf, Disposals
<1> QED
  BY <1>2, <1>6, <1>8, <1>9 DEF IsSound, g

LEMMA RestartStep ==
    ASSUME IInv, Restart
    PROVE  IInv'
<1> DEFINE ks == [a \in Assets |-> Backfilled(holdings[a])]
<1>1. ks = [a \in Assets |-> ks[a]] /\ \A a \in Assets : ks[a] = Backfilled(holdings[a])
  OBVIOUS
<1>2. holdings' = ks
  BY DEF Restart
<1> HIDE DEF ks
<1>3. \A a \in Assets : /\ IsSound(ks[a], costBasisMethod, retyped)
                        /\ ks[a].corporateActions = holdings[a].corporateActions
                        /\ IdsOf(ks[a]) \subseteq IdsOf(holdings[a])
  BY <1>1, BackfilledSound DEF IInv, IsHoldings
<1>4. IsHoldings(ks, costBasisMethod, retyped)
  BY <1>1, <1>3, RegeneratedHoldings DEF IInv
<1> QED
  BY <1>2, <1>4 DEF IInv, Restart
-----------------------------------------------------------------------------
(* The theorems.                                                              *)

LEMMA InitIInv == Init => IInv
<1> SUFFICES ASSUME Init PROVE IInv
  OBVIOUS
<1>1. \A a \in Assets : holdings[a] = [transactions |-> <<>>, corporateActions |-> <<>>,
                                       disposalRecords |-> <<>>]
  BY DEF Init
<1>2. \A a \in Assets : /\ DOMAIN holdings[a].transactions = {}
                        /\ DOMAIN holdings[a].corporateActions = {}
                        /\ DOMAIN holdings[a].disposalRecords = {}
  BY <1>1
<1>3. \A a \in Assets : IsHolding(holdings[a])
  BY <1>1, <1>2 DEF IsHolding
<1>4. \A a \in Assets : IsSound(holdings[a], costBasisMethod, retyped)
  BY <1>2, <1>3 DEF IsSound, HasItsRecordOf, HasItsRecord, Disposals
<1>5. IdsApart(holdings) /\ HalvesAgree(holdings)
  BY <1>2 DEF IdsApart, IdsOf, HalvesAgree
<1> QED
  BY <1>4, <1>5 DEF IInv, IsHoldings, Init, Methods

LEMMA NextIInv == IInv /\ [Next]_vars => IInv'
<1> SUFFICES ASSUME IInv, [Next]_vars PROVE IInv'
  OBVIOUS
<1>1. ASSUME NEW a \in Assets, AssetStep(a)
      PROVE  IInv'
  BY <1>1, AddTransactionStep, UpdateTransactionStep, DeleteTransactionStep, AddSplitStep,
     UpdateSplitStep, DeleteSplitStep DEF AssetStep
<1>2. ASSUME NEW a \in Assets, NEW b \in Assets \ {a}, LinkedStep(a, b)
      PROVE  IInv'
  BY <1>2, LinkedSteps
<1>3. ASSUME NEW method \in Methods, SetCostBasisMethod(method)
      PROVE  IInv'
  BY <1>3, SetCostBasisMethodStep
<1>4. CASE Restart
  BY <1>4, RestartStep
<1>5. CASE UNCHANGED vars
  BY <1>5 DEF vars, IInv
<1> QED
  BY <1>1, <1>2, <1>3, <1>4, <1>5 DEF Next

LEMMA SpecIInv == Spec => []IInv
  BY InitIInv, NextIInv, PTL DEF Spec

\* Type correctness: every reachable holding keeps well-formed entries under their
\* ids, whatever was entered, and its links name assets of the broker.
THEOREM HoldingsTypeCorrect == Spec => []TypeOK
<1>1. IInv => TypeOK
  BY DEF IInv, IsHoldings, IsSound, TypeOK
<1> QED
  BY <1>1, SpecIInv, PTL

\* DisposalRecordRegenerator and RecordTransaction together leave every disposal one
\* record of its own date and quantity, and nothing else one, through any sequence of
\* additions, backdated corrections, deletions, corporate actions and restarts.
THEOREM EveryDisposalHasOneRecord == Spec => []OneRecordPerDisposalUnlessRetyped
<1>1. IInv => OneRecordPerDisposalUnlessRetyped
  BY DEF IInv, IsHoldings, IsSound, HasItsRecordOf, OneRecordPerDisposalUnlessRetyped
<1> QED
  BY <1>1, SpecIInv, PTL

\* Changing the broker's method reaches every record of every asset: no record, old or
\* new, is computed by another method than the broker's, unless its transaction was
\* revised from or to a disposal.
THEOREM HistoryFollowsTheMethod == Spec => []MethodDescribesHistory
<1>1. IInv => MethodDescribesHistory
  BY DEF IInv, IsHoldings, IsSound, IsHolding, HasItsRecordOf, MethodDescribesHistory
<1> QED
  BY <1>1, SpecIInv, PTL

\* The two records CorporateActionService writes for a merger or a spin-off are both
\* there or neither, and say the same, after any additions, updates and deletions.
THEOREM HalvesStayLinked == Spec => []LinkedHalvesAgree
<1>1. IInv => LinkedHalvesAgree
  BY DEF IInv, IsHoldings, HalvesAgree, HalfAgrees, LinkedHalvesAgree
<1> QED
  BY <1>1, SpecIInv, PTL
-----------------------------------------------------------------------------
(* What a step does to the records: one it computes says what precedes its      *)
(* disposal comes to, and one it leaves alone is as current as it was.          *)

IsCurrentBy(h, id, m) == h.disposalRecords[id] = Recalculated(h, id, m, NoSeed, NoAllocation)

IsFunction(f) == f = [x \in DOMAIN f |-> f[x]]

\* The record of id in g, where h was: it is current by m, or what it was and as stale
\* as it was; and it asks for the lots it asked for, if the method is the same.
IsReplayed(g, h, id, m) ==
    id \in DOMAIN g.disposalRecords =>
        /\ \/ IsCurrentBy(g, id, m)
           \/ /\ id \in DOMAIN h.disposalRecords /\ g.disposalRecords[id] = h.disposalRecords[id]
              /\ ~IsCurrentBy(h, id, m)
        /\ id \in DOMAIN h.disposalRecords /\ h.disposalRecords[id].method = m =>
              ReconstructAllocation(g.disposalRecords[id]) = ReconstructAllocation(h.disposalRecords[id])

LEMMA AllocationIsFunction ==
    ASSUME NEW record
    PROVE  IsFunction(ReconstructAllocation(record))
<1>1. IsFunction(<<>>)
  BY DEF IsFunction
<1>2. ASSUME NEW S, NEW F
      PROVE  IsFunction([x \in S |-> F[x].quantity])
  BY DEF IsFunction
<1>3. CASE record.method = "SpecificId"
  BY <1>2, <1>3 DEF ReconstructAllocation
<1>4. CASE record.method # "SpecificId"
  BY <1>1, <1>4 DEF ReconstructAllocation
<1> QED
  BY <1>3, <1>4

\* A record asks for what it was computed from: computing it again changes nothing.
LEMMA CalculatedAgain ==
    ASSUME NEW t, NEW p, NEW m \in Methods, NEW al, IsFunction(al)
    PROVE  LET r == Calculate(t, p, m, al)
           IN  /\ Calculate(t, p, m, ReconstructAllocation(r)) = r
               /\ ReconstructAllocation(r) = IF m = "SpecificId" THEN al ELSE <<>>
<1> DEFINE r == Calculate(t, p, m, al)
<1>1. r.method = m /\ r.lots = LotsConsumed(t, p, m, al)
  BY DEF Calculate
<1> HIDE DEF r
<1>2. CASE m = "SpecificId"
  <2>1. r.lots = [source \in DOMAIN al |->
                    [quantity |-> al[source], cost |-> OpenLot(p, source).cost]]
    BY <1>1, <1>2 DEF LotsConsumed, BuildSpecificIdLots
  <2>2. DOMAIN r.lots = DOMAIN al /\ \A source \in DOMAIN al : r.lots[source].quantity = al[source]
    BY <2>1
  <2>3. ReconstructAllocation(r) = [source \in DOMAIN r.lots |-> r.lots[source].quantity]
    BY <1>1, <1>2 DEF ReconstructAllocation
  <2>4. ReconstructAllocation(r) = al
    BY <2>2, <2>3 DEF IsFunction
  <2> QED
    BY <1>2, <2>4 DEF r
<1>3. CASE m # "SpecificId"
  <2>1. ReconstructAllocation(r) = <<>>
    BY <1>1, <1>3 DEF ReconstructAllocation
  <2>2. \A al2 : LotsConsumed(t, p, m, al2) = LotsConsumed(t, p, m, al)
    BY <1>3 DEF LotsConsumed, Methods
  <2>3. Calculate(t, p, m, ReconstructAllocation(r)) = Calculate(t, p, m, al)
    BY <2>2 DEF Calculate
  <2> QED
    BY <1>3, <2>1, <2>3 DEF r
<1> QED
  BY <1>2, <1>3 DEF r

\* No transaction has the id that stands for none.
LEMMA CurrentRecord ==
    ASSUME NEW h, NEW id \in TransactionIds, id \in DOMAIN h.disposalRecords, NEW m
    PROVE  IsCurrentBy(h, id, m) <=>
              h.disposalRecords[id] = Calculate(h.transactions[id], Preceding(h, id), m,
                                                ReconstructAllocation(h.disposalRecords[id]))
<1>1. id # NoSeed
  BY HoldingsAssumption DEF HoldingsAssumption, NoSeed
<1> QED
  BY <1>1 DEF IsCurrentBy, Recalculated, AllocationOf

\* The entries dated before the anchor are the same.
AgreeBefore(f, k, anchor) ==
    \A i : (i \in DOMAIN f /\ f[i].date < anchor) \/ (i \in DOMAIN k /\ k[i].date < anchor)
            => i \in DOMAIN f /\ i \in DOMAIN k /\ f[i] = k[i]

SameBefore(g, h, anchor) ==
    /\ AgreeBefore(g.transactions, h.transactions, anchor)
    /\ AgreeBefore(g.corporateActions, h.corporateActions, anchor)

LEMMA AgreeingEntries ==
    ASSUME NEW f, NEW k, NEW anchor, AgreeBefore(f, k, anchor)
    PROVE  \A s : (s \in RangeOf(f) \/ s \in RangeOf(k)) /\ s.date < anchor
                    => s \in RangeOf(f) /\ s \in RangeOf(k)
<1>1. ASSUME NEW i \in DOMAIN f, f[i].date < anchor
      PROVE  f[i] \in RangeOf(k)
  BY <1>1 DEF AgreeBefore, RangeOf
<1>2. ASSUME NEW i \in DOMAIN k, k[i].date < anchor
      PROVE  k[i] \in RangeOf(f)
  BY <1>2 DEF AgreeBefore, RangeOf
<1> QED
  BY <1>1, <1>2 DEF RangeOf

\* What comes before a step is dated no later.
LEMMA PrecedingBefore ==
    ASSUME Dates \subseteq Nat, NEW g, NEW h, IsHolding(g), IsHolding(h), NEW anchor \in Nat,
           SameBefore(g, h, anchor),
           NEW id \in DOMAIN g.transactions, g.transactions[id].date < anchor
    PROVE  /\ id \in DOMAIN h.transactions
           /\ h.transactions[id] = g.transactions[id]
           /\ Preceding(h, id) = Preceding(g, id)
<1> DEFINE t == g.transactions[id]
<1>1. id \in DOMAIN h.transactions /\ h.transactions[id] = t
  BY DEF SameBefore, AgreeBefore
<1>2. t.date \in Nat
  BY DEF IsHolding, IsTransaction
<1>3. \A s \in Steps(g) \union Steps(h) : s.date \in Nat
  BY DEF Steps, RangeOf, IsHolding, IsTransaction, IsAction
<1>4. \A s : (s \in Steps(g) \/ s \in Steps(h)) /\ s.date < anchor => s \in Steps(g) /\ s \in Steps(h)
  BY AgreeingEntries DEF SameBefore, Steps
<1> HIDE DEF t
<1>5. t.date < anchor
  BY DEF t
<1>6. \A s : (s \in Steps(g) \/ s \in Steps(h)) /\ Precedes(s, t) => s.date < anchor
  BY <1>2, <1>3, <1>5 DEF Precedes
<1>7. \A s : s \in Before(t, Steps(h)) <=> s \in Before(t, Steps(g))
  BY <1>4, <1>6 DEF Before
<1>8. Before(t, Steps(h)) = Before(t, Steps(g))
  BY <1>7
<1> QED
  BY <1>1, <1>8 DEF Preceding, t

\* A record that is left alone, of a disposal before every change.
LEMMA KeptIsReplayed ==
    ASSUME Dates \subseteq Nat, NEW g, NEW h, IsHolding(g), IsHolding(h), NEW anchor \in Nat,
           SameBefore(g, h, anchor), NEW id \in TransactionIds,
           id \in DOMAIN g.transactions, g.transactions[id].date < anchor,
           id \in DOMAIN h.disposalRecords, id \in DOMAIN g.disposalRecords,
           g.disposalRecords[id] = h.disposalRecords[id], NEW m
    PROVE  IsReplayed(g, h, id, m)
<1>1. h.transactions[id] = g.transactions[id] /\ Preceding(h, id) = Preceding(g, id)
  BY PrecedingBefore
<1>2. IsCurrentBy(g, id, m) <=> IsCurrentBy(h, id, m)
  BY <1>1, CurrentRecord
<1> QED
  BY <1>2 DEF IsReplayed

\* A record that is computed, from the allocation of the form or of the old record.
LEMMA ComputedIsReplayed ==
    ASSUME NEW g, NEW h, NEW id \in TransactionIds, NEW m \in Methods, NEW al, IsFunction(al),
           id \in DOMAIN h.disposalRecords => al = ReconstructAllocation(h.disposalRecords[id]),
           g.disposalRecords[id] = Calculate(g.transactions[id], Preceding(g, id), m, al)
    PROVE  IsReplayed(g, h, id, m)
<1> SUFFICES ASSUME id \in DOMAIN g.disposalRecords PROVE IsReplayed(g, h, id, m)
  BY DEF IsReplayed
<1> DEFINE r == Calculate(g.transactions[id], Preceding(g, id), m, al)
<1>1. /\ Calculate(g.transactions[id], Preceding(g, id), m, ReconstructAllocation(r)) = r
      /\ ReconstructAllocation(r) = IF m = "SpecificId" THEN al ELSE <<>>
  BY CalculatedAgain
<1>2. g.disposalRecords[id] = r
  OBVIOUS
<1> HIDE DEF r
<1>3. IsCurrentBy(g, id, m)
  BY <1>1, <1>2, CurrentRecord
<1>4. id \in DOMAIN h.disposalRecords /\ h.disposalRecords[id].method = m =>
        ReconstructAllocation(r) = ReconstructAllocation(h.disposalRecords[id])
  BY <1>1 DEF ReconstructAllocation
<1> QED
  BY <1>2, <1>3, <1>4 DEF IsReplayed

\* A regeneration replays the records from its anchor, if nothing before it was changed:
\* k is the holding h after the change.
LEMMA RegenerationReplays ==
    ASSUME Dates \subseteq Nat, NEW h, NEW k, IsHolding(h), IsHolding(k),
           k.disposalRecords = h.disposalRecords, NEW anchor \in Nat, SameBefore(k, h, anchor),
           NEW m \in Methods, NEW s, s \notin DOMAIN h.disposalRecords,
           NEW al, IsFunction(al), NEW g \in Regenerated(k, anchor, m, s, al),
           NEW r, IsSound(g, m, r), NEW id \in TransactionIds \ r
    PROVE  IsReplayed(g, h, id, m)
<1>1. g = RegenerateFrom(k, anchor, m, s, al)
  BY DEF Regenerated
<1>2. /\ g.transactions = k.transactions
      /\ g.corporateActions = k.corporateActions
      /\ DOMAIN g.disposalRecords = Untouched(k, anchor) \union DueFrom(k, anchor)
      /\ \A i \in DueFrom(k, anchor) : g.disposalRecords[i] = Recalculated(k, i, m, s, al)
      /\ \A i \in Untouched(k, anchor) : g.disposalRecords[i] = k.disposalRecords[i]
  BY <1>1, RegeneratedFields
<1>3. Preceding(g, id) = Preceding(k, id)
  BY <1>2 DEF Preceding, Steps
<1>4. CASE id \in DueFrom(k, anchor)
  <2> DEFINE asked == IF id = s THEN al ELSE AllocationOf(k, id)
  <2>1. g.disposalRecords[id] = Calculate(g.transactions[id], Preceding(g, id), m, asked)
    BY <1>2, <1>3, <1>4 DEF Recalculated
  <2>2. IsFunction(AllocationOf(k, id))
    <3>1. IsFunction(NoAllocation)
      BY DEF IsFunction, NoAllocation
    <3> QED
      BY <3>1, AllocationIsFunction DEF AllocationOf
  <2>3. IsFunction(asked)
    BY <2>2
  <2>4. id \in DOMAIN h.disposalRecords => asked = ReconstructAllocation(h.disposalRecords[id])
    BY DEF AllocationOf
  <2> HIDE DEF asked
  <2> QED
    BY <2>1, <2>3, <2>4, ComputedIsReplayed
<1>5. CASE id \notin DueFrom(k, anchor)
  <2> SUFFICES ASSUME id \in DOMAIN g.disposalRecords PROVE IsReplayed(g, h, id, m)
    BY DEF IsReplayed
  <2>1. id \in Untouched(k, anchor) /\ g.disposalRecords[id] = h.disposalRecords[id]
    BY <1>2, <1>5
  <2>2. id \in DOMAIN h.disposalRecords
    BY <2>1 DEF Untouched
  <2>3. id \in Disposals(g)
    BY DEF IsSound, HasItsRecordOf, HasItsRecord
  <2>4. id \in DOMAIN g.transactions /\ ~(g.transactions[id].date >= anchor)
    BY <1>2, <1>5, <2>3 DEF DueFrom, Disposals
  <2>5. g.transactions[id].date < anchor
    BY <2>4 DEF IsSound, IsHolding, IsTransaction
  <2>6. SameBefore(g, h, anchor)
    BY <1>2 DEF SameBefore
  <2>7. IsHolding(g)
    BY DEF IsSound
  <2> QED
    BY <2>1, <2>2, <2>4, <2>5, <2>6, <2>7, KeptIsReplayed
<1> QED
  BY <1>4, <1>5

\* A change after every record needs no regeneration.
LEMMA LateChangeReplays ==
    ASSUME Dates \subseteq Nat, NEW h, IsHolding(h), NEW anchor \in Nat,
           NEW m \in Methods, NEW r, NEW g, IsSound(g, m, r), SameBefore(g, h, anchor),
           NEW id \in TransactionIds \ r, id \in DOMAIN h.disposalRecords,
           id \in DOMAIN g.disposalRecords, g.disposalRecords[id] = h.disposalRecords[id],
           IsAfterLatestDisposal(h, anchor)
    PROVE  IsReplayed(g, h, id, m)
<1>1. h.disposalRecords[id].date < anchor
  BY DEF IsAfterLatestDisposal
<1>2. id \in DOMAIN g.transactions /\ g.transactions[id].date < anchor
  BY <1>1 DEF IsSound, HasItsRecordOf, HasItsRecord, Disposals
<1>3. IsHolding(g)
  BY DEF IsSound
<1> QED
  BY <1>2, <1>3, KeptIsReplayed

LEMMA RegeneratedWhenDueReplays ==
    ASSUME Dates \subseteq Nat, NEW h, NEW k, IsHolding(h), IsHolding(k),
           k.disposalRecords = h.disposalRecords, NEW anchor \in Nat, SameBefore(k, h, anchor),
           NEW m \in Methods, NEW g \in RegeneratedWhenDue(k, anchor, m),
           NEW r, IsSound(g, m, r), NEW id \in TransactionIds \ r
    PROVE  IsReplayed(g, h, id, m)
<1>1. CASE IsAfterLatestDisposal(k, anchor)
  <2>1. g = k
    BY <1>1 DEF RegeneratedWhenDue
  <2>2. IsAfterLatestDisposal(h, anchor)
    BY <1>1 DEF IsAfterLatestDisposal
  <2>3. CASE id \in DOMAIN g.disposalRecords
    BY <2>1, <2>2, <2>3, LateChangeReplays
  <2>4. CASE id \notin DOMAIN g.disposalRecords
    BY <2>4 DEF IsReplayed
  <2> QED
    BY <2>3, <2>4
<1>2. CASE ~IsAfterLatestDisposal(k, anchor)
  <2>1. g \in Regenerated(k, anchor, m, NoSeed, NoAllocation)
    BY <1>2 DEF RegeneratedWhenDue
  <2>2. NoSeed \notin DOMAIN h.disposalRecords
    BY HoldingsAssumption DEF HoldingsAssumption, IsHolding, NoSeed
  <2>3. IsFunction(NoAllocation)
    BY DEF IsFunction, NoAllocation
  <2> QED
    BY <2>1, <2>2, <2>3, RegenerationReplays
<1> QED
  BY <1>1, <1>2
-----------------------------------------------------------------------------
(* The operations of an asset: what was before the change stays.              *)

LEMMA AgreeReflexive ==
    ASSUME NEW f, NEW anchor
    PROVE  AgreeBefore(f, f, anchor)
  BY DEF AgreeBefore

\* One entry is added, replaced or removed, from the anchor on.
LEMMA AgreeButOne ==
    ASSUME NEW f, NEW k, NEW i, NEW anchor \in Nat,
           \A j : j # i => /\ j \in DOMAIN k <=> j \in DOMAIN f
                           /\ j \in DOMAIN k => k[j] = f[j],
           i \in DOMAIN f => ~(f[i].date < anchor), i \in DOMAIN k => ~(k[i].date < anchor)
    PROVE  AgreeBefore(k, f, anchor)
<1> SUFFICES ASSUME NEW j, (j \in DOMAIN k /\ k[j].date < anchor) \/ (j \in DOMAIN f /\ f[j].date < anchor)
             PROVE  j \in DOMAIN k /\ j \in DOMAIN f /\ k[j] = f[j]
  BY DEF AgreeBefore
<1>1. j # i
  OBVIOUS
<1> QED
  BY <1>1

LEMMA RevisedReplays ==
    ASSUME Dates \subseteq Nat, NEW h, NEW m \in Methods, IsHolding(h),
           NEW t, t.id \in DOMAIN h.transactions, IsTransaction(t, t.id),
           NEW g \in TransactionRevised(h, t, m),
           NEW q, IsSound(g, m, q), NEW id \in TransactionIds \ q
    PROVE  IsReplayed(g, h, id, m)
<1> DEFINE updated == [h EXCEPT !.transactions = With(@, t.id, t)]
           anchor == EarlierOf(h.transactions[t.id].date, t.date)
<1>1. /\ t.id \in TransactionIds
      /\ h.transactions[t.id].date \in Nat /\ t.date \in Nat
  BY DEF IsHolding, IsTransaction
<1>2. /\ IsHolding(updated)
      /\ updated.transactions[t.id] = t
      /\ DOMAIN updated.transactions = DOMAIN h.transactions \union {t.id}
      /\ \A i \in DOMAIN h.transactions \ {t.id} : updated.transactions[i] = h.transactions[i]
      /\ updated.corporateActions = h.corporateActions
      /\ updated.disposalRecords = h.disposalRecords
      /\ \A i \in TransactionIds \ {t.id} : i \in Disposals(updated) <=> i \in Disposals(h)
      /\ t.id \in Disposals(updated) <=> IsDisposing(t)
  BY <1>1, WithTransaction
<1>3. g \in RegeneratedWhenDue(updated, anchor, m)
  BY DEF TransactionRevised
<1>4. anchor \in Nat /\ ~(h.transactions[t.id].date < anchor) /\ ~(t.date < anchor)
  BY <1>1 DEF EarlierOf
<1> HIDE DEF updated, anchor
<1>5. AgreeBefore(updated.transactions, h.transactions, anchor)
  <2>1. \A j : j # t.id => /\ j \in DOMAIN updated.transactions <=> j \in DOMAIN h.transactions
                           /\ j \in DOMAIN updated.transactions =>
                                updated.transactions[j] = h.transactions[j]
    BY <1>2
  <2> QED
    BY <1>2, <1>4, <2>1, AgreeButOne
<1>6. SameBefore(updated, h, anchor)
  BY <1>2, <1>5, AgreeReflexive DEF SameBefore
<1> QED
  BY <1>2, <1>3, <1>4, <1>6, RegeneratedWhenDueReplays

LEMMA RetractedReplays ==
    ASSUME Dates \subseteq Nat, NEW h, NEW m \in Methods, IsHolding(h),
           NEW i \in DOMAIN h.transactions, NEW g \in TransactionRetracted(h, i, m),
           NEW q, IsSound(g, m, q), NEW id \in TransactionIds \ q
    PROVE  IsReplayed(g, h, id, m)
<1> DEFINE removed == [h EXCEPT !.transactions = Without(@, i)]
           anchor == h.transactions[i].date
<1>1. anchor \in Nat
  BY DEF IsHolding, IsTransaction
<1>2. /\ removed = [transactions |-> removed.transactions,
                    corporateActions |-> removed.corporateActions,
                    disposalRecords |-> removed.disposalRecords]
      /\ DOMAIN removed.transactions = DOMAIN h.transactions \ {i}
      /\ \A j \in DOMAIN h.transactions \ {i} : removed.transactions[j] = h.transactions[j]
      /\ removed.corporateActions = h.corporateActions
      /\ removed.disposalRecords = h.disposalRecords
  BY DEF IsHolding, Without
<1>3. g \in RegeneratedWhenDue(removed, anchor, m)
  BY DEF TransactionRetracted
<1>4. ~(h.transactions[i].date < anchor)
  BY <1>1
<1> HIDE DEF removed, anchor
<1>5. IsHolding(removed)
  BY <1>2 DEF IsHolding
<1>6. AgreeBefore(removed.transactions, h.transactions, anchor)
  <2>1. \A j : j # i => /\ j \in DOMAIN removed.transactions <=> j \in DOMAIN h.transactions
                        /\ j \in DOMAIN removed.transactions =>
                             removed.transactions[j] = h.transactions[j]
    BY <1>2
  <2> QED
    BY <1>1, <1>2, <1>4, <2>1, AgreeButOne
<1>7. SameBefore(removed, h, anchor)
  BY <1>2, <1>6, AgreeReflexive DEF SameBefore
<1> QED
  BY <1>1, <1>2, <1>3, <1>5, <1>7, RegeneratedWhenDueReplays

LEMMA ActionsReplay ==
    ASSUME Dates \subseteq Nat, NEW h, NEW m \in Methods, IsHolding(h), NEW anchor \in Nat,
           NEW acts, DOMAIN acts \subseteq ActionIds, \A i \in DOMAIN acts : IsAction(acts[i], i),
           AgreeBefore(acts, h.corporateActions, anchor),
           NEW g \in Regenerated([h EXCEPT !.corporateActions = acts], anchor, m,
                                 NoSeed, NoAllocation),
           NEW r, IsSound(g, m, r)
    PROVE  /\ g.transactions = h.transactions
           /\ \A id \in TransactionIds \ r : IsReplayed(g, h, id, m)
<1> DEFINE k == [h EXCEPT !.corporateActions = acts]
<1>1. /\ k = [transactions |-> k.transactions, corporateActions |-> k.corporateActions,
              disposalRecords |-> k.disposalRecords]
      /\ k.transactions = h.transactions
      /\ k.corporateActions = acts
      /\ k.disposalRecords = h.disposalRecords
  BY DEF IsHolding
<1>2. g \in Regenerated(k, anchor, m, NoSeed, NoAllocation)
  OBVIOUS
<1> HIDE DEF k
<1>3. IsHolding(k)
  BY <1>1 DEF IsHolding
<1>4. SameBefore(k, h, anchor)
  BY <1>1, AgreeReflexive DEF SameBefore
<1>5. NoSeed \notin DOMAIN h.disposalRecords
  BY HoldingsAssumption DEF HoldingsAssumption, IsHolding, NoSeed
<1>6. IsFunction(NoAllocation)
  BY DEF IsFunction, NoAllocation
<1>7. g.transactions = h.transactions
  BY <1>1, <1>2, <1>3, RegeneratedFields DEF Regenerated
<1>8. \A id \in TransactionIds \ r : IsReplayed(g, h, id, m)
  BY <1>1, <1>2, <1>3, <1>4, <1>5, <1>6, RegenerationReplays
<1> QED
  BY <1>7, <1>8

\* An action replaces the one of its id; the other operations are made the same way.
LEMMA ActionRecordedReplays ==
    ASSUME Dates \subseteq Nat, NEW h, NEW m \in Methods, IsHolding(h),
           NEW ca, ca.id \in ActionIds, IsAction(ca, ca.id), ca.id \notin DOMAIN h.corporateActions,
           NEW g \in CorporateActionRecorded(h, ca, m), NEW r, IsSound(g, m, r)
    PROVE  /\ g.transactions = h.transactions
           /\ \A id \in TransactionIds \ r : IsReplayed(g, h, id, m)
<1> DEFINE acts == With(h.corporateActions, ca.id, ca)
<1>1. /\ DOMAIN acts = DOMAIN h.corporateActions \union {ca.id}
      /\ DOMAIN acts \subseteq ActionIds
      /\ \A id \in DOMAIN acts : IsAction(acts[id], id)
      /\ acts[ca.id] = ca
      /\ ActionsBut(acts, h, ca.id)
  BY WithAction
<1>2. ca.date \in Nat
  BY DEF IsAction
<1>3. g \in Regenerated([h EXCEPT !.corporateActions = acts], ca.date, m, NoSeed, NoAllocation)
  BY DEF CorporateActionRecorded
<1> HIDE DEF acts
<1>4. AgreeBefore(acts, h.corporateActions, ca.date)
  <2>1. ~(acts[ca.id].date < ca.date)
    BY <1>1, <1>2
  <2> QED
    BY <1>1, <1>2, <2>1, AgreeButOne DEF ActionsBut
<1> QED
  BY <1>1, <1>2, <1>3, <1>4, ActionsReplay

LEMMA ActionRevisedReplays ==
    ASSUME Dates \subseteq Nat, NEW h, NEW m \in Methods, IsHolding(h),
           NEW ca, ca.id \in DOMAIN h.corporateActions, IsAction(ca, ca.id),
           NEW g \in CorporateActionRevised(h, ca, m), NEW r, IsSound(g, m, r)
    PROVE  /\ g.transactions = h.transactions
           /\ \A id \in TransactionIds \ r : IsReplayed(g, h, id, m)
<1> DEFINE acts == With(h.corporateActions, ca.id, ca)
           anchor == EarlierOf(h.corporateActions[ca.id].date, ca.date)
<1>1. ca.id \in ActionIds
  BY DEF IsHolding
<1>2. /\ DOMAIN acts = DOMAIN h.corporateActions \union {ca.id}
      /\ DOMAIN acts \subseteq ActionIds
      /\ \A id \in DOMAIN acts : IsAction(acts[id], id)
      /\ acts[ca.id] = ca
      /\ ActionsBut(acts, h, ca.id)
  BY <1>1, WithAction
<1>3. h.corporateActions[ca.id].date \in Nat /\ ca.date \in Nat
  BY DEF IsHolding, IsAction
<1>4. anchor \in Nat /\ ~(h.corporateActions[ca.id].date < anchor) /\ ~(ca.date < anchor)
  BY <1>3 DEF EarlierOf
<1>5. g \in Regenerated([h EXCEPT !.corporateActions = acts], anchor, m, NoSeed, NoAllocation)
  BY DEF CorporateActionRevised
<1> HIDE DEF acts, anchor
<1>6. AgreeBefore(acts, h.corporateActions, anchor)
  BY <1>2, <1>4, AgreeButOne DEF ActionsBut
<1> QED
  BY <1>2, <1>4, <1>5, <1>6, ActionsReplay

LEMMA ActionRetractedReplays ==
    ASSUME Dates \subseteq Nat, NEW h, NEW m \in Methods, IsHolding(h),
           NEW i \in DOMAIN h.corporateActions, NEW g \in CorporateActionRetracted(h, i, m),
           NEW r, IsSound(g, m, r)
    PROVE  /\ g.transactions = h.transactions
           /\ \A id \in TransactionIds \ r : IsReplayed(g, h, id, m)
<1> DEFINE acts == Without(h.corporateActions, i)
           anchor == h.corporateActions[i].date
<1>1. /\ DOMAIN acts = DOMAIN h.corporateActions \ {i}
      /\ \A j \in DOMAIN h.corporateActions \ {i} : acts[j] = h.corporateActions[j]
  BY DEF Without
<1>2. anchor \in Nat /\ ~(h.corporateActions[i].date < anchor)
  BY DEF IsHolding, IsAction
<1>3. g \in Regenerated([h EXCEPT !.corporateActions = acts], anchor, m, NoSeed, NoAllocation)
  BY DEF CorporateActionRetracted
<1> HIDE DEF acts, anchor
<1>4. DOMAIN acts \subseteq ActionIds /\ \A j \in DOMAIN acts : IsAction(acts[j], j)
  BY <1>1 DEF IsHolding
<1>5. AgreeBefore(acts, h.corporateActions, anchor)
  <2>1. \A j : j # i => /\ j \in DOMAIN acts <=> j \in DOMAIN h.corporateActions
                        /\ j \in DOMAIN acts => acts[j] = h.corporateActions[j]
    BY <1>1
  <2>2. i \notin DOMAIN acts
    BY <1>1
  <2> QED
    BY <1>2, <2>1, <2>2, AgreeButOne
<1> QED
  BY <1>2, <1>3, <1>4, <1>5, ActionsReplay

\* A transaction is recorded. One that is appended comes after every record; a disposal
\* among them is current unless it precedes a transaction that is there.
LEMMA AppendedSteps ==
    ASSUME Dates \subseteq Nat, NEW h, IsHolding(h), NEW t, IsTransaction(t, t.id), IsDisposing(t),
           t.id \notin DOMAIN h.transactions, t.id \in TransactionIds,
           \A s \in RangeOf(h.transactions) : ~Precedes(t, s),
           NEW g, g.corporateActions = h.corporateActions,
           DOMAIN g.transactions = DOMAIN h.transactions \union {t.id}, g.transactions[t.id] = t,
           \A i \in DOMAIN h.transactions \ {t.id} : g.transactions[i] = h.transactions[i]
    PROVE  Before(t, Steps(g)) =
              RangeOf(h.transactions) \union {ca \in RangeOf(h.corporateActions) : ca.date <= t.date}
<1>1. RangeOf(g.transactions) = RangeOf(h.transactions) \union {t}
  BY DEF RangeOf
<1>2. t.date \in Nat /\ t.id \in Nat /\ RankWithinDate(t) = 2
  BY HoldingsAssumption DEF HoldingsAssumption, IsTransaction, IsDisposing, IsDecrease, IsCorporateAction, RankWithinDate
<1>3. ~Precedes(t, t)
  BY <1>2 DEF Precedes
<1>4. ASSUME NEW s \in RangeOf(h.transactions)
      PROVE  Precedes(s, t)
  <2>1. s.date \in Nat /\ s.id \in Nat /\ s.id # t.id
    BY HoldingsAssumption DEF HoldingsAssumption, RangeOf, IsHolding, IsTransaction
  <2>2. RankWithinDate(s) \in Nat /\ RankWithinDate(s) <= 2
    BY DEF RankWithinDate
  <2>3. ~Precedes(t, s)
    OBVIOUS
  <2> QED
    BY <1>2, <2>1, <2>2, <2>3 DEF Precedes
<1>5. ASSUME NEW ca \in RangeOf(h.corporateActions)
      PROVE  Precedes(ca, t) <=> ca.date <= t.date
  <2>1. ca.date \in Nat /\ RankWithinDate(ca) = 0
    BY DEF RangeOf, IsHolding, IsAction, RankWithinDate
  <2> QED
    BY <1>2, <2>1 DEF Precedes
<1> QED
  BY <1>1, <1>3, <1>4, <1>5 DEF Before, Steps

LEMMA RecordedReplays ==
    ASSUME Dates \subseteq Nat, NEW h, NEW m \in Methods, IsHolding(h),
           NEW t, t.id \in TransactionIds, IsTransaction(t, t.id),
           t.id \notin DOMAIN h.transactions, t.id \notin DOMAIN h.disposalRecords,
           NEW al, IsFunction(al), NEW g \in TransactionRecorded(h, t, m, al),
           NEW r, IsSound(g, m, r), NEW id \in TransactionIds \ r
    PROVE  IsReplayed(g, h, id, m) \/ (id = t.id /\ AppendedOutOfOrder(h, t))
<1> DEFINE added == [h EXCEPT !.transactions = With(@, t.id, t)]
<1>1. /\ IsHolding(added)
      /\ added.transactions[t.id] = t
      /\ DOMAIN added.transactions = DOMAIN h.transactions \union {t.id}
      /\ \A i \in DOMAIN h.transactions \ {t.id} : added.transactions[i] = h.transactions[i]
      /\ added.corporateActions = h.corporateActions
      /\ added.disposalRecords = h.disposalRecords
      /\ \A i \in TransactionIds \ {t.id} : i \in Disposals(added) <=> i \in Disposals(h)
      /\ t.id \in Disposals(added) <=> IsDisposing(t)
  BY WithTransaction
<1> HIDE DEF added
<1>2. t.date \in Nat
  BY DEF IsTransaction
<1>3. AgreeBefore(added.transactions, h.transactions, t.date)
  <2>1. \A j : j # t.id => /\ j \in DOMAIN added.transactions <=> j \in DOMAIN h.transactions
                           /\ j \in DOMAIN added.transactions => added.transactions[j] = h.transactions[j]
    BY <1>1
  <2>2. ~(added.transactions[t.id].date < t.date)
    BY <1>1, <1>2
  <2> QED
    BY <1>2, <2>1, <2>2, AgreeButOne
<1>4. SameBefore(added, h, t.date)
  BY <1>1, <1>3, AgreeReflexive DEF SameBefore
<1>5. CASE ~IsAfterLatestDisposal(h, t.date)
  <2>1. g \in Regenerated(added, t.date, m, t.id, al)
    BY <1>5 DEF TransactionRecorded, added
  <2> QED
    BY <1>1, <1>2, <1>4, <2>1, RegenerationReplays
<1>6. CASE IsAfterLatestDisposal(h, t.date)
  <2>1. g \in Appended(h, t, m, al)
    BY <1>6 DEF TransactionRecorded, added
  <2>2. CASE ~IsDisposing(t)
    <3>1. g = added
      BY <2>1, <2>2 DEF Appended, added
    <3>2. CASE id \in DOMAIN g.disposalRecords
      BY <1>1, <1>2, <1>4, <1>6, <3>1, <3>2, LateChangeReplays
    <3>3. CASE id \notin DOMAIN g.disposalRecords
      BY <3>3 DEF IsReplayed
    <3> QED
      BY <3>2, <3>3
  <2>3. CASE IsDisposing(t)
    <3> DEFINE preceding == RangeOf(h.transactions)
                    \union {ca \in RangeOf(h.corporateActions) : ca.date <= t.date}
               record == Calculate(t, preceding, m, al)
    <3>1. g = [added EXCEPT !.disposalRecords = With(@, t.id, record)]
      BY <2>1, <2>3 DEF Appended, added
    <3> HIDE DEF record, preceding
    <3>2. /\ g.transactions = added.transactions
          /\ g.corporateActions = added.corporateActions
          /\ g.disposalRecords = With(h.disposalRecords, t.id, record)
      BY <1>1, <3>1 DEF IsHolding
    <3>3. /\ DOMAIN g.disposalRecords = DOMAIN h.disposalRecords \union {t.id}
          /\ g.disposalRecords[t.id] = record
          /\ \A i \in DOMAIN h.disposalRecords \ {t.id} : g.disposalRecords[i] = h.disposalRecords[i]
      BY <3>2 DEF With
    <3>4. SameBefore(g, h, t.date)
      BY <1>4, <3>2 DEF SameBefore
    <3>5. CASE id = t.id /\ ~AppendedOutOfOrder(h, t)
      <4>1. \A s \in RangeOf(h.transactions) : ~Precedes(t, s)
        BY <1>6, <2>3, <3>5 DEF AppendedOutOfOrder
      <4>2. Before(t, Steps(g)) = preceding
        BY <1>1, <2>3, <3>2, <4>1, AppendedSteps DEF preceding
      <4>3. g.disposalRecords[id] = Calculate(g.transactions[id], Preceding(g, id), m, al)
        BY <1>1, <3>2, <3>3, <3>5, <4>2 DEF Preceding, record
      <4>4. id \notin DOMAIN h.disposalRecords
        BY <3>5
      <4> QED
        BY <4>3, <4>4, ComputedIsReplayed
    <3>6. CASE id # t.id /\ id \in DOMAIN g.disposalRecords
      BY <1>2, <1>6, <3>3, <3>4, <3>6, LateChangeReplays
    <3>7. CASE id # t.id /\ id \notin DOMAIN g.disposalRecords
      BY <3>7 DEF IsReplayed
    <3> QED
      BY <3>5, <3>6, <3>7
  <2> QED
    BY <2>2, <2>3
<1> QED
  BY <1>5, <1>6

\* Of two changes in a row.
LEMMA ReplayedTwice ==
    ASSUME NEW h, NEW g, NEW l, NEW m, NEW r, IsSound(g, m, r), IsSound(l, m, r),
           l.transactions = g.transactions, NEW id \in TransactionIds \ r,
           IsReplayed(g, h, id, m), IsReplayed(l, g, id, m)
    PROVE  IsReplayed(l, h, id, m)
<1> SUFFICES ASSUME id \in DOMAIN l.disposalRecords PROVE IsReplayed(l, h, id, m)
  BY DEF IsReplayed
<1>1. id \in DOMAIN g.disposalRecords /\ g.disposalRecords[id].method = m
  BY DEF IsSound, HasItsRecordOf, HasItsRecord, Disposals
<1>2. IsCurrentBy(l, id, m) \/ (id \in DOMAIN h.disposalRecords
            /\ l.disposalRecords[id] = h.disposalRecords[id] /\ ~IsCurrentBy(h, id, m))
  BY <1>1 DEF IsReplayed
<1>3. id \in DOMAIN h.disposalRecords /\ h.disposalRecords[id].method = m =>
        ReconstructAllocation(l.disposalRecords[id]) = ReconstructAllocation(h.disposalRecords[id])
  BY <1>1 DEF IsReplayed
<1> QED
  BY <1>2, <1>3 DEF IsReplayed

LEMMA UntouchedIsReplayed ==
    ASSUME NEW h, NEW id, NEW m
    PROVE  IsReplayed(h, h, id, m)
  BY DEF IsReplayed

\* A restart computes no record of a transaction that was never retyped.
LEMMA BackfilledReplays ==
    ASSUME NEW h, NEW m, NEW r, IsSound(h, m, r), NEW id \in TransactionIds \ r
    PROVE  IsReplayed(Backfilled(h), h, id, m)
<1> DEFINE g == Backfilled(h)
           Calculated(i) == Calculate(h.transactions[i],
                                      Before(h.transactions[i], RangeOf(h.transactions)),
                                      "AverageCost", NoAllocation)
<1>1. IsHolding(h)
  BY DEF IsSound
<1>2. /\ g.transactions = h.transactions
      /\ g.corporateActions = h.corporateActions
      /\ DOMAIN g.disposalRecords = DOMAIN h.disposalRecords \union Disposals(h)
      /\ \A i \in DOMAIN h.disposalRecords : g.disposalRecords[i] = h.disposalRecords[i]
  BY <1>1 DEF Backfilled, IsHolding
<1> HIDE DEF g
<1> SUFFICES ASSUME id \in DOMAIN g.disposalRecords PROVE IsReplayed(g, h, id, m)
  BY DEF IsReplayed, g
<1>3. id \in DOMAIN h.disposalRecords
  BY <1>2 DEF IsSound, HasItsRecordOf, HasItsRecord
<1>4. g.disposalRecords[id] = h.disposalRecords[id] /\ Preceding(g, id) = Preceding(h, id)
  BY <1>2, <1>3 DEF Preceding, Steps
<1>5. IsCurrentBy(g, id, m) <=> IsCurrentBy(h, id, m)
  BY <1>2, <1>3, <1>4, CurrentRecord
<1> QED
  BY <1>3, <1>4, <1>5 DEF IsReplayed
-----------------------------------------------------------------------------
(* What a step of the broker does to the records and the transactions.        *)

\* Every record is replayed, but for a disposal that is appended out of order.
RecordsFollow ==
    \A a \in Assets : \A id \in TransactionIds \ retyped' :
        \/ IsReplayed(holdings'[a], holdings[a], id, costBasisMethod')
        \/ id \notin DOMAIN holdings[a].disposalRecords /\ id \in outOfOrder'

\* An id is excepted for a record it has, and from a change of its transaction on.
ExceptionsFollow ==
    /\ StillOutOfOrder \subseteq outOfOrder'
    /\ \A id \in retyped \ retyped' : \A a \in Assets : id \notin DOMAIN holdings'[a].disposalRecords
    /\ \A id \in retyped' \ retyped : \E a \in Assets :
          /\ id \in DOMAIN holdings[a].transactions
          /\ id \notin DOMAIN holdings'[a].transactions
                \/ holdings'[a].transactions[id] # holdings[a].transactions[id]

\* Transactions are changed only to something covered.
CoverageFollows ==
    \A a \in Assets : \/ IsCovered(holdings'[a])
                      \/ holdings'[a].transactions = holdings[a].transactions

Follows == RecordsFollow /\ ExceptionsFollow /\ CoverageFollows

LEMMA WhenDueFields ==
    ASSUME NEW k, IsHolding(k), NEW anchor, NEW m, NEW g \in RegeneratedWhenDue(k, anchor, m)
    PROVE  g.transactions = k.transactions /\ g.corporateActions = k.corporateActions
<1>1. CASE IsAfterLatestDisposal(k, anchor)
  BY <1>1 DEF RegeneratedWhenDue
<1>2. CASE ~IsAfterLatestDisposal(k, anchor)
  <2>1. g = RegenerateFrom(k, anchor, m, NoSeed, NoAllocation)
    BY <1>2 DEF RegeneratedWhenDue, Regenerated
  <2> QED
    BY <2>1, RegeneratedFields
<1> QED
  BY <1>1, <1>2

LEMMA SameStepsCovered ==
    ASSUME NEW k, NEW g, g.transactions = k.transactions, g.corporateActions = k.corporateActions,
           FindNoUncoveredSale(Steps(k))
    PROVE  IsCovered(g)
  BY DEF IsCovered, Steps

LEMMA RecordedIsCovered ==
    ASSUME NEW h, IsHolding(h), NEW m, NEW t, t.id \in TransactionIds, IsTransaction(t, t.id),
           NEW al, NEW g \in TransactionRecorded(h, t, m, al)
    PROVE  IsCovered(g)
<1> DEFINE added == [h EXCEPT !.transactions = With(@, t.id, t)]
<1>1. /\ IsHolding(added)
      /\ added.transactions[t.id] = t
      /\ DOMAIN added.transactions = DOMAIN h.transactions \union {t.id}
      /\ \A i \in DOMAIN h.transactions \ {t.id} : added.transactions[i] = h.transactions[i]
      /\ added.corporateActions = h.corporateActions
      /\ added.disposalRecords = h.disposalRecords
      /\ \A i \in TransactionIds \ {t.id} : i \in Disposals(added) <=> i \in Disposals(h)
      /\ t.id \in Disposals(added) <=> IsDisposing(t)
  BY WithTransaction
<1>2. FindNoUncoveredSale(Steps(added))
  BY DEF TransactionRecorded
<1>3. CASE ~IsAfterLatestDisposal(h, t.date)
  <2>1. g = RegenerateFrom(added, t.date, m, t.id, al)
    BY <1>3 DEF TransactionRecorded, Regenerated
  <2> HIDE DEF added
  <2>2. g.transactions = added.transactions /\ g.corporateActions = added.corporateActions
    BY <1>1, <2>1, RegeneratedFields
  <2> QED
    BY <1>2, <2>2, SameStepsCovered
<1>4. CASE IsAfterLatestDisposal(h, t.date)
  <2>1. g \in Appended(h, t, m, al)
    BY <1>4 DEF TransactionRecorded
  <2>2. g = added \/ \E d : g = [added EXCEPT !.disposalRecords = d]
    BY <2>1 DEF Appended
  <2> HIDE DEF added
  <2>3. g.transactions = added.transactions /\ g.corporateActions = added.corporateActions
    BY <1>1, <2>2 DEF IsHolding
  <2> QED
    BY <1>2, <2>3, SameStepsCovered
<1> QED
  BY <1>3, <1>4

LEMMA RevisedIsCovered ==
    ASSUME NEW h, IsHolding(h), NEW m, NEW t, t.id \in DOMAIN h.transactions, IsTransaction(t, t.id),
           NEW g \in TransactionRevised(h, t, m)
    PROVE  IsCovered(g) /\ g.transactions[t.id] = t
<1> DEFINE updated == [h EXCEPT !.transactions = With(@, t.id, t)]
           anchor == EarlierOf(h.transactions[t.id].date, t.date)
<1>1. /\ IsHolding(updated)
      /\ updated.transactions[t.id] = t
      /\ DOMAIN updated.transactions = DOMAIN h.transactions \union {t.id}
      /\ \A i \in DOMAIN h.transactions \ {t.id} : updated.transactions[i] = h.transactions[i]
      /\ updated.corporateActions = h.corporateActions
      /\ updated.disposalRecords = h.disposalRecords
      /\ \A i \in TransactionIds \ {t.id} : i \in Disposals(updated) <=> i \in Disposals(h)
      /\ t.id \in Disposals(updated) <=> IsDisposing(t)
  <2>1. t.id \in TransactionIds
    BY DEF IsHolding
  <2> QED
    BY <2>1, WithTransaction
<1>2. FindNoUncoveredSale(Steps(updated)) /\ g \in RegeneratedWhenDue(updated, anchor, m)
  BY DEF TransactionRevised
<1> HIDE DEF updated, anchor
<1>3. g.transactions = updated.transactions /\ g.corporateActions = updated.corporateActions
  BY <1>1, <1>2, WhenDueFields
<1> QED
  BY <1>1, <1>2, <1>3, SameStepsCovered

LEMMA RetractedIsCovered ==
    ASSUME NEW h, IsHolding(h), NEW m, NEW id \in DOMAIN h.transactions,
           NEW g \in TransactionRetracted(h, id, m)
    PROVE  IsCovered(g)
<1> DEFINE removed == [h EXCEPT !.transactions = Without(@, id)]
           anchor == h.transactions[id].date
<1>1. /\ removed = [transactions |-> removed.transactions,
                    corporateActions |-> removed.corporateActions,
                    disposalRecords |-> removed.disposalRecords]
      /\ DOMAIN removed.transactions = DOMAIN h.transactions \ {id}
      /\ \A i \in DOMAIN h.transactions \ {id} : removed.transactions[i] = h.transactions[i]
      /\ removed.corporateActions = h.corporateActions
      /\ removed.disposalRecords = h.disposalRecords
  BY DEF IsHolding, Without
<1>2. FindNoUncoveredSale(Steps(removed)) /\ g \in RegeneratedWhenDue(removed, anchor, m)
  BY DEF TransactionRetracted
<1> HIDE DEF removed, anchor
<1>3. IsHolding(removed)
  BY <1>1 DEF IsHolding
<1>4. g.transactions = removed.transactions /\ g.corporateActions = removed.corporateActions
  BY <1>2, <1>3, WhenDueFields
<1> QED
  BY <1>2, <1>4, SameStepsCovered

\* A step of one asset, or of two, leaves the others.
LEMMA OneAssetFollows ==
    ASSUME IInv, NEW a \in Assets, NEW g, holdings' = [holdings EXCEPT ![a] = g],
           \A id \in TransactionIds \ retyped' :
              \/ IsReplayed(g, holdings[a], id, costBasisMethod')
              \/ id \notin DOMAIN holdings[a].disposalRecords /\ id \in outOfOrder',
           IsCovered(g) \/ g.transactions = holdings[a].transactions
    PROVE  RecordsFollow /\ CoverageFollows
<1>1. holdings'[a] = g /\ \A b \in Assets \ {a} : holdings'[b] = holdings[b]
  BY DEF IInv, IsHoldings
<1>2. \A b \in Assets \ {a} : \A id : IsReplayed(holdings'[b], holdings[b], id, costBasisMethod')
  BY <1>1, UntouchedIsReplayed
<1>3. RecordsFollow
  BY <1>1, <1>2 DEF RecordsFollow
<1>4. CoverageFollows
  BY <1>1 DEF CoverageFollows
<1> QED
  BY <1>3, <1>4

LEMMA TwoAssetsFollow ==
    ASSUME IInv, NEW a \in Assets, NEW b \in Assets \ {a}, NEW g, NEW l,
           holdings' = [holdings EXCEPT ![a] = g, ![b] = l],
           \A id \in TransactionIds \ retyped' :
              /\ IsReplayed(g, holdings[a], id, costBasisMethod')
              /\ IsReplayed(l, holdings[b], id, costBasisMethod'),
           g.transactions = holdings[a].transactions, l.transactions = holdings[b].transactions
    PROVE  RecordsFollow /\ CoverageFollows
<1>1. holdings'[a] = g /\ holdings'[b] = l /\ \A c \in Assets \ {a, b} : holdings'[c] = holdings[c]
  BY DEF IInv, IsHoldings
<1>2. \A c \in Assets \ {a, b} : \A id : IsReplayed(holdings'[c], holdings[c], id, costBasisMethod')
  BY <1>1, UntouchedIsReplayed
<1>3. RecordsFollow
  BY <1>1, <1>2 DEF RecordsFollow
<1>4. CoverageFollows
  BY <1>1 DEF CoverageFollows
<1> QED
  BY <1>3, <1>4

LEMMA AddTransactionFollows ==
    ASSUME IInv, IInv', NEW a \in Assets, AddTransaction(a)
    PROVE  Follows
<1> USE DatesAreNumbers
<1> DEFINE Adds(id, t, g) ==
            /\ Unused(id)
            /\ holdings' = [holdings EXCEPT ![a] = g]
            /\ outOfOrder' = StillOutOfOrder \union {i \in {id} : AppendedOutOfOrder(holdings[a], t)}
           Results(t, al) == TransactionRecorded(holdings[a], t, costBasisMethod, al)
<1>1. PICK id \in TransactionIds :
        \E t \in Entered(id) : \E al \in Allocations(holdings[a], t) :
            \E g \in Results(t, al) : Adds(id, t, g)
  BY DEF AddTransaction
<1>2. PICK t \in Entered(id) : \E al \in Allocations(holdings[a], t) :
            \E g \in Results(t, al) : Adds(id, t, g)
  BY <1>1
<1>3. PICK al \in Allocations(holdings[a], t) : \E g \in Results(t, al) : Adds(id, t, g)
  BY <1>2
<1>4. PICK g \in Results(t, al) : Adds(id, t, g)
  BY <1>3
<1>5. costBasisMethod' = costBasisMethod /\ retyped' = retyped
  BY DEF AddTransaction
<1>6. t.id = id /\ IsTransaction(t, t.id)
  BY EnteredTransaction
<1>7. IsFunction(al)
  <2>1. al \in LotAllocations(OfferedLots(holdings[a]), t.quantity) \/ al = NoAllocation
    BY DEF Allocations
  <2>2. CASE al = NoAllocation
    BY <2>2 DEF NoAllocation, IsFunction
  <2>3. CASE al \in LotAllocations(OfferedLots(holdings[a]), t.quantity)
    <3>1. PICK some : al \in [some -> 1..t.quantity]
      BY <2>3 DEF LotAllocations
    <3> QED
      BY <3>1 DEF IsFunction
  <2> QED
    BY <2>1, <2>2, <2>3
<1>8. IsHolding(holdings[a]) /\ costBasisMethod \in Methods
  BY DEF IInv, IsHoldings, IsSound
<1>9. IsSound(g, costBasisMethod, retyped)
  <2>1. holdings'[a] = g
    BY <1>4 DEF IInv, IsHoldings
  <2>2. IsSound(holdings'[a], costBasisMethod', retyped')
    BY DEF IInv, IsHoldings
  <2> QED
    BY <1>5, <2>1, <2>2
<1>10. t.id \notin DOMAIN holdings[a].transactions /\ t.id \notin DOMAIN holdings[a].disposalRecords
  BY <1>4, <1>6 DEF Unused
<1>11. ASSUME NEW i \in TransactionIds \ retyped
       PROVE  \/ IsReplayed(g, holdings[a], i, costBasisMethod)
              \/ i \notin DOMAIN holdings[a].disposalRecords /\ i \in outOfOrder'
  <2>1. IsReplayed(g, holdings[a], i, costBasisMethod)
            \/ (i = t.id /\ AppendedOutOfOrder(holdings[a], t))
    BY <1>6, <1>7, <1>8, <1>9, <1>10, RecordedReplays
  <2> QED
    BY <1>4, <1>6, <1>10, <2>1
<1>12. IsCovered(g)
  BY <1>6, <1>8, RecordedIsCovered
<1>13. RecordsFollow /\ CoverageFollows
  BY <1>4, <1>5, <1>11, <1>12, OneAssetFollows
<1>14. ExceptionsFollow
  BY <1>4, <1>5 DEF ExceptionsFollow
<1> QED
  BY <1>13, <1>14 DEF Follows

LEMMA UpdateTransactionFollows ==
    ASSUME IInv, IInv', NEW a \in Assets, UpdateTransaction(a)
    PROVE  Follows
<1> USE DatesAreNumbers
<1> DEFINE Updates(id, t, g) ==
            /\ holdings' = [holdings EXCEPT ![a] = g]
            /\ retyped' = retyped \union
                    {i \in {id} : IsDisposing(holdings[a].transactions[i]) # IsDisposing(t)}
           Results(t) == TransactionRevised(holdings[a], t, costBasisMethod)
<1>1. PICK id \in DOMAIN holdings[a].transactions :
        \E t \in Entered(id) : \E g \in Results(t) : Updates(id, t, g)
  BY DEF UpdateTransaction
<1>2. PICK t \in Entered(id) : \E g \in Results(t) : Updates(id, t, g)
  BY <1>1
<1>3. PICK g \in Results(t) : Updates(id, t, g)
  BY <1>2
<1>4. costBasisMethod' = costBasisMethod /\ outOfOrder' = StillOutOfOrder
  BY DEF UpdateTransaction
<1>5. t.id = id /\ IsTransaction(t, t.id)
  BY EnteredTransaction
<1>6. IsHolding(holdings[a]) /\ costBasisMethod \in Methods
  BY DEF IInv, IsHoldings, IsSound
<1>7. holdings'[a] = g
  BY <1>3 DEF IInv, IsHoldings
<1>8. IsSound(g, costBasisMethod, retyped')
  <2>1. IsSound(holdings'[a], costBasisMethod', retyped')
    BY DEF IInv, IsHoldings
  <2> QED
    BY <1>4, <1>7, <2>1
<1>9. \A i \in TransactionIds \ retyped' : IsReplayed(g, holdings[a], i, costBasisMethod')
  BY <1>4, <1>5, <1>6, <1>8, RevisedReplays
<1>10. IsCovered(g) /\ g.transactions[t.id] = t
  BY <1>5, <1>6, RevisedIsCovered
<1>11. RecordsFollow /\ CoverageFollows
  BY <1>3, <1>9, <1>10, OneAssetFollows
<1>12. ASSUME NEW i \in retyped' \ retyped
       PROVE  i \in DOMAIN holdings[a].transactions
                 /\ holdings'[a].transactions[i] # holdings[a].transactions[i]
  <2>1. i = id /\ IsDisposing(holdings[a].transactions[i]) # IsDisposing(t)
    BY <1>3
  <2> QED
    BY <1>5, <1>7, <1>10, <2>1
<1>13. ExceptionsFollow
  BY <1>3, <1>4, <1>12 DEF ExceptionsFollow
<1> QED
  BY <1>11, <1>13 DEF Follows

LEMMA DeleteTransactionFollows ==
    ASSUME IInv, IInv', NEW a \in Assets, DeleteTransaction(a)
    PROVE  Follows
<1> USE DatesAreNumbers
<1> DEFINE Deletes(id, g) ==
            /\ holdings' = [holdings EXCEPT ![a] = g]
            /\ retyped' = {i \in retyped : i # id \/ i \in DOMAIN holdings'[a].disposalRecords}
           Results(id) == TransactionRetracted(holdings[a], id, costBasisMethod)
<1>1. PICK id \in DOMAIN holdings[a].transactions : \E g \in Results(id) : Deletes(id, g)
  BY DEF DeleteTransaction
<1>2. PICK g \in Results(id) : Deletes(id, g)
  BY <1>1
<1>3. costBasisMethod' = costBasisMethod /\ outOfOrder' = StillOutOfOrder
  BY DEF DeleteTransaction
<1>4. IsHolding(holdings[a]) /\ costBasisMethod \in Methods
  BY DEF IInv, IsHoldings, IsSound
<1>5. holdings'[a] = g /\ \A b \in Assets \ {a} : holdings'[b] = holdings[b]
  BY <1>2 DEF IInv, IsHoldings
<1>6. IsSound(g, costBasisMethod, retyped')
  <2>1. IsSound(holdings'[a], costBasisMethod', retyped')
    BY DEF IInv, IsHoldings
  <2> QED
    BY <1>3, <1>5, <2>1
<1>7. \A i \in TransactionIds \ retyped' : IsReplayed(g, holdings[a], i, costBasisMethod')
  BY <1>3, <1>4, <1>6, RetractedReplays
<1>8. IsCovered(g)
  BY <1>4, RetractedIsCovered
<1>9. RecordsFollow /\ CoverageFollows
  BY <1>2, <1>7, <1>8, OneAssetFollows
<1>10. ASSUME NEW i \in retyped \ retyped', NEW b \in Assets
       PROVE  i \notin DOMAIN holdings'[b].disposalRecords
  <2>1. i = id /\ i \notin DOMAIN g.disposalRecords
    BY <1>2, <1>5
  <2>2. CASE b # a
    BY <1>5, <2>1, <2>2 DEF IInv, IsHoldings, IdsApart, IdsOf
  <2> QED
    BY <1>5, <2>1, <2>2
<1>11. ExceptionsFollow
  BY <1>2, <1>3, <1>10 DEF ExceptionsFollow
<1> QED
  BY <1>9, <1>11 DEF Follows

\* Corporate actions commit without an exception of their own.
LEMMA CommittedFollows ==
    ASSUME CommitCorporateActions
    PROVE  /\ costBasisMethod' = costBasisMethod /\ retyped' = retyped
           /\ ExceptionsFollow
  BY DEF CommitCorporateActions, ExceptionsFollow

LEMMA SplitFollows ==
    ASSUME IInv, IInv', NEW a \in Assets, AddSplit(a) \/ UpdateSplit(a) \/ DeleteSplit(a)
    PROVE  Follows
<1> USE DatesAreNumbers
<1>1. CommitCorporateActions
  BY DEF AddSplit, UpdateSplit, DeleteSplit
<1>2. IsHolding(holdings[a]) /\ costBasisMethod \in Methods
  BY DEF IInv, IsHoldings, IsSound
<1>3. ASSUME NEW g, holdings' = [holdings EXCEPT ![a] = g]
      PROVE  IsSound(g, costBasisMethod, retyped)
  <2>1. holdings'[a] = g
    BY <1>3 DEF IInv, IsHoldings
  <2>2. IsSound(holdings'[a], costBasisMethod', retyped')
    BY DEF IInv, IsHoldings
  <2> QED
    BY <1>1, <2>1, <2>2, CommittedFollows
<1>4. ASSUME NEW g, holdings' = [holdings EXCEPT ![a] = g],
             g.transactions = holdings[a].transactions,
             \A id \in TransactionIds \ retyped : IsReplayed(g, holdings[a], id, costBasisMethod)
      PROVE  Follows
  BY <1>1, <1>4, CommittedFollows, OneAssetFollows DEF Follows
<1>5. CASE AddSplit(a)
  <2>1. PICK id \in ActionIds, date \in Dates, factor \in Factors \ {1} :
            /\ Unused(id)
            /\ \E h \in CorporateActionRecorded(holdings[a], Split(id, date, factor), costBasisMethod) :
                holdings' = [holdings EXCEPT ![a] = h]
    BY <1>5 DEF AddSplit
  <2>2. PICK g \in CorporateActionRecorded(holdings[a], Split(id, date, factor), costBasisMethod) :
            holdings' = [holdings EXCEPT ![a] = g]
    BY <2>1
  <2> DEFINE split == Split(id, date, factor)
  <2>3. split.id = id /\ IsAction(split, id)
    BY SplitIsAction
  <2>4. g \in CorporateActionRecorded(holdings[a], split, costBasisMethod)
    OBVIOUS
  <2> HIDE DEF split
  <2>5. split.id \notin DOMAIN holdings[a].corporateActions
    BY <2>1, <2>3 DEF Unused
  <2>6. /\ g.transactions = holdings[a].transactions
        /\ \A i \in TransactionIds \ retyped : IsReplayed(g, holdings[a], i, costBasisMethod)
    BY <1>2, <1>3, <2>2, <2>3, <2>4, <2>5, ActionRecordedReplays
  <2> QED
    BY <1>4, <2>2, <2>6
<1>6. CASE UpdateSplit(a)
  <2>1. PICK id \in DOMAIN holdings[a].corporateActions, date \in Dates, factor \in Factors \ {1} :
            \E h \in CorporateActionRevised(holdings[a], Split(id, date, factor), costBasisMethod) :
                holdings' = [holdings EXCEPT ![a] = h]
    BY <1>6 DEF UpdateSplit
  <2>2. PICK g \in CorporateActionRevised(holdings[a], Split(id, date, factor), costBasisMethod) :
            holdings' = [holdings EXCEPT ![a] = g]
    BY <2>1
  <2> DEFINE split == Split(id, date, factor)
  <2>3. split.id = id /\ IsAction(split, id)
    BY SplitIsAction
  <2>4. g \in CorporateActionRevised(holdings[a], split, costBasisMethod)
    OBVIOUS
  <2> HIDE DEF split
  <2>5. /\ g.transactions = holdings[a].transactions
        /\ \A i \in TransactionIds \ retyped : IsReplayed(g, holdings[a], i, costBasisMethod)
    BY <1>2, <1>3, <2>2, <2>3, <2>4, ActionRevisedReplays
  <2> QED
    BY <1>4, <2>2, <2>5
<1>7. CASE DeleteSplit(a)
  <2>1. PICK id \in DOMAIN holdings[a].corporateActions :
            \E h \in CorporateActionRetracted(holdings[a], id, costBasisMethod) :
                holdings' = [holdings EXCEPT ![a] = h]
    BY <1>7 DEF DeleteSplit
  <2>2. PICK g \in CorporateActionRetracted(holdings[a], id, costBasisMethod) :
            holdings' = [holdings EXCEPT ![a] = g]
    BY <2>1
  <2>3. /\ g.transactions = holdings[a].transactions
        /\ \A i \in TransactionIds \ retyped : IsReplayed(g, holdings[a], i, costBasisMethod)
    BY <1>2, <1>3, <2>2, ActionRetractedReplays
  <2> QED
    BY <1>4, <2>2, <2>3
<1> QED
  BY <1>5, <1>6, <1>7

LEMMA PairRecordedReplays ==
    ASSUME costBasisMethod \in Methods, NEW h, NEW k, NEW r,
           IsSound(h, costBasisMethod, r), IsSound(k, costBasisMethod, r),
           NEW a, NEW b, NEW id \in ActionIds, NEW pair, ArePair(pair, a, b, id),
           id \notin DOMAIN h.corporateActions, id \notin DOMAIN k.corporateActions,
           NEW result \in PairRecorded(h, k, pair)
    PROVE  /\ IsSound(result.own, costBasisMethod, r) /\ IsSound(result.other, costBasisMethod, r)
           /\ result.own.transactions = h.transactions
           /\ result.other.transactions = k.transactions
           /\ \A i \in TransactionIds \ r : /\ IsReplayed(result.own, h, i, costBasisMethod)
                                            /\ IsReplayed(result.other, k, i, costBasisMethod)
<1> USE DatesAreNumbers
<1>1. PICK g \in CorporateActionRecorded(h, pair.own, costBasisMethod) :
        result \in {[own |-> g, other |-> l] :
                        l \in CorporateActionRecorded(k, pair.other, costBasisMethod)}
  BY DEF PairRecorded
<1>2. PICK l \in CorporateActionRecorded(k, pair.other, costBasisMethod) :
        result = [own |-> g, other |-> l]
  BY <1>1
<1>3. IsHolding(h) /\ IsHolding(k)
  BY DEF IsSound
<1>4. IsSound(g, costBasisMethod, r)
  BY ActionRecordedSound DEF ArePair, IsActed
<1>5. IsSound(l, costBasisMethod, r)
  BY ActionRecordedSound DEF ArePair, IsActed
<1>6. /\ g.transactions = h.transactions
      /\ \A i \in TransactionIds \ r : IsReplayed(g, h, i, costBasisMethod)
  BY <1>3, <1>4, ActionRecordedReplays DEF ArePair
<1>7. /\ l.transactions = k.transactions
      /\ \A i \in TransactionIds \ r : IsReplayed(l, k, i, costBasisMethod)
  BY <1>3, <1>5, ActionRecordedReplays DEF ArePair
<1> QED
  BY <1>2, <1>4, <1>5, <1>6, <1>7

LEMMA PairRetractedReplays ==
    ASSUME IInv, NEW a \in Assets, NEW b \in Assets,
           NEW id, id \in DOMAIN holdings[a].corporateActions,
           id \in DOMAIN holdings[b].corporateActions, NEW rest \in PairRetracted(a, b, id)
    PROVE  /\ rest.own.transactions = holdings[a].transactions
           /\ rest.other.transactions = holdings[b].transactions
           /\ \A i \in TransactionIds \ retyped :
                /\ IsReplayed(rest.own, holdings[a], i, costBasisMethod)
                /\ IsReplayed(rest.other, holdings[b], i, costBasisMethod)
<1> USE DatesAreNumbers
<1>1. PICK g \in CorporateActionRetracted(holdings[a], id, costBasisMethod),
           l \in CorporateActionRetracted(holdings[b], id, costBasisMethod) :
        rest = [own |-> g, other |-> l]
  BY DEF PairRetracted
<1>2. IsSound(g, costBasisMethod, retyped) /\ IsSound(l, costBasisMethod, retyped)
  BY <1>1, PairRetractedSound DEF IsActed
<1>3. IsHolding(holdings[a]) /\ IsHolding(holdings[b]) /\ costBasisMethod \in Methods
  BY DEF IInv, IsHoldings, IsSound
<1>4. /\ g.transactions = holdings[a].transactions
      /\ \A i \in TransactionIds \ retyped : IsReplayed(g, holdings[a], i, costBasisMethod)
  BY <1>2, <1>3, ActionRetractedReplays
<1>5. /\ l.transactions = holdings[b].transactions
      /\ \A i \in TransactionIds \ retyped : IsReplayed(l, holdings[b], i, costBasisMethod)
  BY <1>2, <1>3, ActionRetractedReplays
<1> QED
  BY <1>1, <1>4, <1>5

LEMMA AddPairFollows ==
    ASSUME IInv, NEW a \in Assets, NEW b \in Assets \ {a}, NEW id \in ActionIds, Unused(id),
           NEW pair, ArePair(pair, a, b, id), RecordPair(a, b, pair), CommitCorporateActions
    PROVE  Follows
<1>1. PICK result \in PairRecorded(holdings[a], holdings[b], pair) : SavePair(a, b, result)
  BY DEF RecordPair
<1>2. /\ result.own.transactions = holdings[a].transactions
      /\ result.other.transactions = holdings[b].transactions
      /\ \A i \in TransactionIds \ retyped :
            /\ IsReplayed(result.own, holdings[a], i, costBasisMethod)
            /\ IsReplayed(result.other, holdings[b], i, costBasisMethod)
  <2>1. costBasisMethod \in Methods
    BY DEF IInv
  <2>2. /\ IsSound(holdings[a], costBasisMethod, retyped)
        /\ IsSound(holdings[b], costBasisMethod, retyped)
    BY DEF IInv, IsHoldings
  <2>3. /\ id \notin DOMAIN holdings[a].corporateActions
        /\ id \notin DOMAIN holdings[b].corporateActions
    BY DEF Unused
  <2>4. /\ IsSound(result.own, costBasisMethod, retyped)
        /\ IsSound(result.other, costBasisMethod, retyped)
        /\ result.own.transactions = holdings[a].transactions
        /\ result.other.transactions = holdings[b].transactions
        /\ \A i \in TransactionIds \ retyped :
              /\ IsReplayed(result.own, holdings[a], i, costBasisMethod)
              /\ IsReplayed(result.other, holdings[b], i, costBasisMethod)
    BY <2>1, <2>2, <2>3, PairRecordedReplays
  <2> QED
    BY <2>4
<1> QED
  BY <1>1, <1>2, CommittedFollows, TwoAssetsFollow DEF Follows, SavePair

LEMMA UpdatePairFollows ==
    ASSUME IInv, NEW a \in Assets, NEW b \in Assets \ {a},
           NEW kinds, kinds \subseteq LinkedKinds, NEW id \in LinkedTo(a, b, kinds),
           NEW rest \in PairRetracted(a, b, id), NEW pair, ArePair(pair, a, b, id),
           NEW result \in PairRecorded(rest.own, rest.other, pair), SavePair(a, b, result),
           CommitCorporateActions
    PROVE  Follows
<1>1. /\ id \in ActionIds
      /\ id \in DOMAIN holdings[a].corporateActions
      /\ id \in DOMAIN holdings[b].corporateActions
  BY LinkedToPair
<1>2. /\ IsSound(rest.own, costBasisMethod, retyped) /\ IsSound(rest.other, costBasisMethod, retyped)
      /\ id \notin DOMAIN rest.own.corporateActions
      /\ id \notin DOMAIN rest.other.corporateActions
  BY <1>1, PairRetractedSound DEF IsActed
<1>3. /\ rest.own.transactions = holdings[a].transactions
      /\ rest.other.transactions = holdings[b].transactions
      /\ \A i \in TransactionIds \ retyped :
            /\ IsReplayed(rest.own, holdings[a], i, costBasisMethod)
            /\ IsReplayed(rest.other, holdings[b], i, costBasisMethod)
  BY <1>1, PairRetractedReplays
<1>4. /\ IsSound(result.own, costBasisMethod, retyped) /\ IsSound(result.other, costBasisMethod, retyped)
      /\ result.own.transactions = rest.own.transactions
      /\ result.other.transactions = rest.other.transactions
      /\ \A i \in TransactionIds \ retyped :
            /\ IsReplayed(result.own, rest.own, i, costBasisMethod)
            /\ IsReplayed(result.other, rest.other, i, costBasisMethod)
  BY <1>1, <1>2, PairRecordedReplays DEF IInv
<1>5. \A i \in TransactionIds \ retyped : IsReplayed(result.own, holdings[a], i, costBasisMethod)
  BY <1>2, <1>3, <1>4, ReplayedTwice
<1>6. \A i \in TransactionIds \ retyped : IsReplayed(result.other, holdings[b], i, costBasisMethod)
  BY <1>2, <1>3, <1>4, ReplayedTwice
<1>7. /\ result.own.transactions = holdings[a].transactions
      /\ result.other.transactions = holdings[b].transactions
  BY <1>3, <1>4
<1>8. costBasisMethod' = costBasisMethod /\ retyped' = retyped /\ ExceptionsFollow
  BY CommittedFollows
<1>9. holdings' = [holdings EXCEPT ![a] = result.own, ![b] = result.other]
  BY DEF SavePair
<1>10. \A i \in TransactionIds \ retyped' :
          /\ IsReplayed(result.own, holdings[a], i, costBasisMethod')
          /\ IsReplayed(result.other, holdings[b], i, costBasisMethod')
  BY <1>5, <1>6, <1>8
<1>11. RecordsFollow /\ CoverageFollows
  BY <1>7, <1>9, <1>10, TwoAssetsFollow
<1> QED
  BY <1>8, <1>11 DEF Follows

LEMMA DeletePairFollows ==
    ASSUME IInv, NEW a \in Assets, NEW b \in Assets \ {a}, DeleteLinked(a, b)
    PROVE  Follows
<1>1. PICK id \in LinkedTo(a, b, LinkedKinds) : \E rest \in PairRetracted(a, b, id) : SavePair(a, b, rest)
  BY DEF DeleteLinked
<1>2. PICK rest \in PairRetracted(a, b, id) : SavePair(a, b, rest)
  BY <1>1
<1>3. id \in DOMAIN holdings[a].corporateActions /\ id \in DOMAIN holdings[b].corporateActions
  BY LinkedToPair
<1>4. /\ rest.own.transactions = holdings[a].transactions
      /\ rest.other.transactions = holdings[b].transactions
      /\ \A i \in TransactionIds \ retyped :
            /\ IsReplayed(rest.own, holdings[a], i, costBasisMethod)
            /\ IsReplayed(rest.other, holdings[b], i, costBasisMethod)
  BY <1>3, PairRetractedReplays
<1>5. CommitCorporateActions
  BY DEF DeleteLinked
<1> QED
  BY <1>2, <1>4, <1>5, CommittedFollows, TwoAssetsFollow DEF Follows, SavePair

LEMMA LinkedFollows ==
    ASSUME IInv, NEW a \in Assets, NEW b \in Assets \ {a}, LinkedStep(a, b)
    PROVE  Follows
<1>1. CASE AddMerger(a, b)
  <2>1. PICK id \in ActionIds :
            Unused(id) /\ \E pair \in EnteredMergers(holdings[a], a, b, id) : RecordPair(a, b, pair)
    BY <1>1 DEF AddMerger
  <2>2. PICK pair \in EnteredMergers(holdings[a], a, b, id) : RecordPair(a, b, pair)
    BY <2>1
  <2>3. ArePair(pair, a, b, id)
    BY MergerIsPair
  <2> QED
    BY <1>1, <2>1, <2>2, <2>3, AddPairFollows DEF AddMerger
<1>2. CASE AddSpinOff(a, b)
  <2>1. PICK id \in ActionIds :
            Unused(id) /\ \E pair \in EnteredSpinOffs(holdings[a], a, b, id) : RecordPair(a, b, pair)
    BY <1>2 DEF AddSpinOff
  <2>2. PICK pair \in EnteredSpinOffs(holdings[a], a, b, id) : RecordPair(a, b, pair)
    BY <2>1
  <2>3. ArePair(pair, a, b, id)
    BY SpinOffIsPair
  <2> QED
    BY <1>2, <2>1, <2>2, <2>3, AddPairFollows DEF AddSpinOff
<1>3. CASE UpdateMerger(a, b)
  <2> DEFINE kinds == {"mergerSource"}
  <2>1. PICK id \in LinkedTo(a, b, kinds) : \E rest \in PairRetracted(a, b, id) :
            \E pair \in EnteredMergers(rest.own, a, b, id) :
                \E result \in PairRecorded(rest.own, rest.other, pair) : SavePair(a, b, result)
    BY <1>3 DEF UpdateMerger
  <2>2. PICK rest \in PairRetracted(a, b, id) : \E pair \in EnteredMergers(rest.own, a, b, id) :
                \E result \in PairRecorded(rest.own, rest.other, pair) : SavePair(a, b, result)
    BY <2>1
  <2>3. PICK pair \in EnteredMergers(rest.own, a, b, id) :
                \E result \in PairRecorded(rest.own, rest.other, pair) : SavePair(a, b, result)
    BY <2>2
  <2>4. PICK result \in PairRecorded(rest.own, rest.other, pair) : SavePair(a, b, result)
    BY <2>3
  <2>5. ArePair(pair, a, b, id) /\ kinds \subseteq LinkedKinds /\ CommitCorporateActions
    BY <1>3, MergerIsPair DEF LinkedKinds, UpdateMerger
  <2> HIDE DEF kinds
  <2> QED
    BY <2>4, <2>5, UpdatePairFollows
<1>4. CASE UpdateSpinOff(a, b)
  <2> DEFINE kinds == {"spinOffParent"}
  <2>1. PICK id \in LinkedTo(a, b, kinds) : \E rest \in PairRetracted(a, b, id) :
            \E pair \in EnteredSpinOffs(rest.own, a, b, id) :
                \E result \in PairRecorded(rest.own, rest.other, pair) : SavePair(a, b, result)
    BY <1>4 DEF UpdateSpinOff
  <2>2. PICK rest \in PairRetracted(a, b, id) : \E pair \in EnteredSpinOffs(rest.own, a, b, id) :
                \E result \in PairRecorded(rest.own, rest.other, pair) : SavePair(a, b, result)
    BY <2>1
  <2>3. PICK pair \in EnteredSpinOffs(rest.own, a, b, id) :
                \E result \in PairRecorded(rest.own, rest.other, pair) : SavePair(a, b, result)
    BY <2>2
  <2>4. PICK result \in PairRecorded(rest.own, rest.other, pair) : SavePair(a, b, result)
    BY <2>3
  <2>5. ArePair(pair, a, b, id) /\ kinds \subseteq LinkedKinds /\ CommitCorporateActions
    BY <1>4, SpinOffIsPair DEF LinkedKinds, UpdateSpinOff
  <2> HIDE DEF kinds
  <2> QED
    BY <2>4, <2>5, UpdatePairFollows
<1>5. CASE DeleteLinked(a, b)
  BY <1>5, DeletePairFollows
<1> QED
  BY <1>1, <1>2, <1>3, <1>4, <1>5 DEF LinkedStep

\* From the first date on every disposal is computed again.
LEMMA SetCostBasisMethodFollows ==
    ASSUME IInv, IInv', NEW method \in Methods, SetCostBasisMethod(method)
    PROVE  Follows
<1> USE DatesAreNumbers
<1>1. costBasisMethod' = method /\ retyped' = retyped /\ ExceptionsFollow
  BY DEF SetCostBasisMethod, ExceptionsFollow
<1>2. ASSUME NEW a \in Assets
      PROVE  /\ holdings'[a] \in Regenerated(holdings[a], MinDate, method, NoSeed, NoAllocation)
             /\ IsHolding(holdings[a])
             /\ IsSound(holdings'[a], method, retyped)
  <2>1. holdings'[a] = RegenerateFrom(holdings[a], MinDate, method, NoSeed, NoAllocation)
    BY DEF SetCostBasisMethod
  <2>2. CanRegenerate(holdings[a], MinDate, method, NoSeed, NoAllocation)
    BY DEF SetCostBasisMethod
  <2>3. IsSound(holdings'[a], costBasisMethod', retyped')
    BY DEF IInv, IsHoldings
  <2> QED
    BY <1>1, <2>1, <2>2, <2>3 DEF Regenerated, IInv, IsHoldings, IsSound
<1>3. ASSUME NEW a \in Assets, NEW id \in TransactionIds \ retyped
      PROVE  IsReplayed(holdings'[a], holdings[a], id, method)
  <2>1. NoSeed \notin DOMAIN holdings[a].disposalRecords
    BY <1>2, HoldingsAssumption DEF HoldingsAssumption, IsHolding, NoSeed
  <2>2. IsFunction(NoAllocation) /\ SameBefore(holdings[a], holdings[a], MinDate) /\ MinDate \in Nat
    BY AgreeReflexive DEF IsFunction, NoAllocation, SameBefore, MinDate
  <2> QED
    BY <1>2, <2>1, <2>2, RegenerationReplays
<1>4. ASSUME NEW a \in Assets
      PROVE  holdings'[a].transactions = holdings[a].transactions
  <2>1. holdings'[a] = RegenerateFrom(holdings[a], MinDate, method, NoSeed, NoAllocation)
    BY DEF SetCostBasisMethod
  <2> QED
    BY <1>2, <2>1, RegeneratedFields
<1> QED
  BY <1>1, <1>3, <1>4 DEF Follows, RecordsFollow, CoverageFollows

LEMMA RestartFollows ==
    ASSUME IInv, Restart
    PROVE  Follows
<1>1. ExceptionsFollow /\ costBasisMethod' = costBasisMethod /\ retyped' = retyped
  BY StillOutOfOrderOf DEF Restart, ExceptionsFollow
<1>2. \A a \in Assets : holdings'[a] = Backfilled(holdings[a])
  BY DEF Restart
<1>3. \A a \in Assets : IsSound(holdings[a], costBasisMethod, retyped)
  BY DEF IInv, IsHoldings
<1>4. \A a \in Assets : \A id \in TransactionIds \ retyped :
        IsReplayed(holdings'[a], holdings[a], id, costBasisMethod)
  BY <1>2, <1>3, BackfilledReplays
<1>5. \A a \in Assets : holdings'[a].transactions = holdings[a].transactions
  BY <1>2, <1>3, ZenonT(30) DEF Backfilled, IsSound, IsHolding
<1> QED
  BY <1>1, <1>4, <1>5 DEF Follows, RecordsFollow, CoverageFollows

LEMMA NextFollows == IInv /\ IInv' /\ Next => Follows
<1> SUFFICES ASSUME IInv, IInv', Next PROVE Follows
  OBVIOUS
<1>1. ASSUME NEW a \in Assets, AssetStep(a)
      PROVE  Follows
  BY <1>1, AddTransactionFollows, UpdateTransactionFollows, DeleteTransactionFollows, SplitFollows
     DEF AssetStep
<1>2. ASSUME NEW a \in Assets, NEW b \in Assets \ {a}, LinkedStep(a, b)
      PROVE  Follows
  BY <1>2, LinkedFollows
<1>3. ASSUME NEW method \in Methods, SetCostBasisMethod(method)
      PROVE  Follows
  BY <1>3, SetCostBasisMethodFollows
<1>4. CASE Restart
  BY <1>4, RestartFollows
<1> QED
  BY <1>1, <1>2, <1>3, <1>4 DEF Next
-----------------------------------------------------------------------------
(* What keeps the records current, and what may rewrite one.                    *)

\* A record the step computed is current; one it kept was current before, or excepted.
LEMMA RecordsStayCurrentStep ==
    ASSUME IInv, IInv', Follows, RecordsAreCurrentUnlessOutOfOrder
    PROVE  RecordsAreCurrentUnlessOutOfOrder'
<1> SUFFICES ASSUME NEW a \in Assets,
                    NEW id \in DOMAIN holdings'[a].disposalRecords \ (retyped' \union outOfOrder')
             PROVE  IsCurrentBy(holdings'[a], id, costBasisMethod')
  BY DEF RecordsAreCurrentUnlessOutOfOrder, IsCurrent, IsCurrentBy
<1>1. /\ IsSound(holdings[a], costBasisMethod, retyped)
      /\ IsSound(holdings'[a], costBasisMethod', retyped')
  BY DEF IInv, IsHoldings
<1>2. id \in TransactionIds
  BY <1>1 DEF IsSound, IsHolding
<1>3. IsReplayed(holdings'[a], holdings[a], id, costBasisMethod')
  BY <1>2 DEF Follows, RecordsFollow
<1>4. id \notin retyped
  BY DEF Follows, ExceptionsFollow
<1> SUFFICES ASSUME id \in DOMAIN holdings[a].disposalRecords,
                    holdings'[a].disposalRecords[id] = holdings[a].disposalRecords[id],
                    ~IsCurrentBy(holdings[a], id, costBasisMethod')
             PROVE  FALSE
  BY <1>3 DEF IsReplayed
<1>5. costBasisMethod' = costBasisMethod
  BY <1>1, <1>2, <1>4 DEF IsSound, HasItsRecordOf
<1>6. id \in outOfOrder
  BY <1>4, <1>5 DEF RecordsAreCurrentUnlessOutOfOrder, IsCurrent, IsCurrentBy
<1>7. id \in StillOutOfOrder
  BY <1>6 DEF StillOutOfOrder
<1> QED
  BY <1>7 DEF Follows, ExceptionsFollow

LEMMA InitIsCurrent == Init => RecordsAreCurrentUnlessOutOfOrder
<1> SUFFICES ASSUME Init PROVE RecordsAreCurrentUnlessOutOfOrder
  OBVIOUS
<1>1. ASSUME NEW a \in Assets
      PROVE  DOMAIN holdings[a].disposalRecords = {}
  BY DEF Init
<1> QED
  BY <1>1 DEF RecordsAreCurrentUnlessOutOfOrder

LEMMA StutterIsCurrent ==
    ASSUME UNCHANGED vars, RecordsAreCurrentUnlessOutOfOrder
    PROVE  RecordsAreCurrentUnlessOutOfOrder'
  BY DEF vars, RecordsAreCurrentUnlessOutOfOrder, IsCurrent

LEMMA UnchangedAgree ==
    ASSUME NEW f, NEW k, NEW date \in Nat, ~ChangedUpTo(f, k, date),
           \A i \in DOMAIN f : f[i].date \in Nat, \A i \in DOMAIN k : k[i].date \in Nat
    PROVE  AgreeBefore(k, f, date + 1)
<1>1. ASSUME NEW i, IsUpTo(f, i, date) \/ IsUpTo(k, i, date)
      PROVE  i \in DOMAIN f /\ i \in DOMAIN k /\ f[i] = k[i]
  BY <1>1 DEF ChangedUpTo, IsUpTo
<1>2. \A i \in DOMAIN f : f[i].date < date + 1 => f[i].date <= date
  OBVIOUS
<1>3. \A i \in DOMAIN k : k[i].date < date + 1 => k[i].date <= date
  OBVIOUS
<1> QED
  BY <1>1, <1>2, <1>3 DEF AgreeBefore, IsUpTo

\* Where nothing changed up to its date, a record that was current is kept: one that is
\* computed again is computed from the same steps and asks for the same lots.
LEMMA HistoryIsKeptStep ==
    ASSUME IInv, IInv', Follows, RecordsAreCurrentUnlessOutOfOrder
    PROVE  KeepsHistory
<1> USE DatesAreNumbers
<1> SUFFICES ASSUME NEW a \in Assets,
                    NEW id \in DOMAIN holdings[a].disposalRecords \ (retyped \union outOfOrder),
                    costBasisMethod' = costBasisMethod,
                    ~ChangedUpTo(holdings[a].transactions, holdings'[a].transactions,
                                 holdings[a].disposalRecords[id].date),
                    ~ChangedUpTo(holdings[a].corporateActions, holdings'[a].corporateActions,
                                 holdings[a].disposalRecords[id].date)
             PROVE  KeepsRecord(holdings[a], holdings'[a], id)
  BY DEF KeepsHistory
<1>1. /\ IsSound(holdings[a], costBasisMethod, retyped)
      /\ IsSound(holdings'[a], costBasisMethod, retyped')
  BY DEF IInv, IsHoldings
<1> DEFINE date == holdings[a].disposalRecords[id].date
<1>2. IsHolding(holdings[a]) /\ IsHolding(holdings'[a]) /\ id \in TransactionIds
  BY <1>1 DEF IsSound, IsHolding
<1>3. /\ id \in DOMAIN holdings[a].transactions
      /\ IsDisposing(holdings[a].transactions[id])
      /\ holdings[a].transactions[id].date = date
      /\ holdings[a].disposalRecords[id].method = costBasisMethod
  BY <1>1, <1>2 DEF IsSound, HasItsRecordOf, HasItsRecord, Disposals
<1>4. date \in Nat
  BY <1>2 DEF IsHolding, IsRecord
<1>5. SameBefore(holdings'[a], holdings[a], date + 1)
  <2>1. /\ \A i \in DOMAIN holdings[a].transactions : holdings[a].transactions[i].date \in Nat
        /\ \A i \in DOMAIN holdings'[a].transactions : holdings'[a].transactions[i].date \in Nat
    BY <1>2 DEF IsHolding, IsTransaction
  <2>2. /\ \A i \in DOMAIN holdings[a].corporateActions : holdings[a].corporateActions[i].date \in Nat
        /\ \A i \in DOMAIN holdings'[a].corporateActions :
              holdings'[a].corporateActions[i].date \in Nat
    BY <1>2 DEF IsHolding, IsAction
  <2> QED
    BY <1>4, <2>1, <2>2, UnchangedAgree DEF SameBefore
<1>6. /\ id \in DOMAIN holdings'[a].transactions
      /\ holdings'[a].transactions[id] = holdings[a].transactions[id]
  BY <1>3, <1>4, <1>5 DEF SameBefore, AgreeBefore
<1>7. Preceding(holdings[a], id) = Preceding(holdings'[a], id)
  <2>1. holdings'[a].transactions[id].date < date + 1 /\ date + 1 \in Nat
    BY <1>3, <1>4, <1>6
  <2> QED
    BY <1>2, <1>5, <1>6, <2>1, PrecedingBefore
<1>8. id \notin retyped'
  <2> SUFFICES ASSUME id \in retyped' PROVE FALSE
    OBVIOUS
  <2>1. PICK b \in Assets : /\ id \in DOMAIN holdings[b].transactions
                            /\ id \notin DOMAIN holdings'[b].transactions
                                 \/ holdings'[b].transactions[id] # holdings[b].transactions[id]
    BY DEF Follows, ExceptionsFollow
  <2>2. b = a
    BY <1>3, <2>1 DEF IInv, IsHoldings, IdsApart, IdsOf
  <2> QED
    BY <1>6, <2>1, <2>2
<1>9. id \in DOMAIN holdings'[a].disposalRecords
  BY <1>1, <1>2, <1>3, <1>6, <1>8 DEF IsSound, HasItsRecordOf, HasItsRecord, Disposals
<1>10. IsReplayed(holdings'[a], holdings[a], id, costBasisMethod)
  BY <1>2, <1>8 DEF Follows, RecordsFollow
<1> HIDE DEF date
<1>11. CASE IsCurrentBy(holdings'[a], id, costBasisMethod)
  <2>1. IsCurrentBy(holdings[a], id, costBasisMethod)
    BY DEF RecordsAreCurrentUnlessOutOfOrder, IsCurrent, IsCurrentBy
  <2>2. ReconstructAllocation(holdings'[a].disposalRecords[id])
            = ReconstructAllocation(holdings[a].disposalRecords[id])
    BY <1>3, <1>9, <1>10 DEF IsReplayed
  <2>3. holdings'[a].disposalRecords[id] =
            Calculate(holdings'[a].transactions[id], Preceding(holdings'[a], id), costBasisMethod,
                      ReconstructAllocation(holdings'[a].disposalRecords[id]))
    BY <1>2, <1>9, <1>11, CurrentRecord
  <2>4. holdings[a].disposalRecords[id] =
            Calculate(holdings[a].transactions[id], Preceding(holdings[a], id), costBasisMethod,
                      ReconstructAllocation(holdings[a].disposalRecords[id]))
    BY <1>2, <2>1, CurrentRecord
  <2> QED
    BY <1>6, <1>7, <1>9, <2>2, <2>3, <2>4 DEF KeepsRecord
<1>12. CASE holdings'[a].disposalRecords[id] = holdings[a].disposalRecords[id]
  BY <1>9, <1>12 DEF KeepsRecord
<1> QED
  BY <1>9, <1>10, <1>11, <1>12 DEF IsReplayed

LEMMA CoverageStep ==
    ASSUME Follows, IInv
    PROVE  UncoveredByCorporateAction
<1> SUFFICES ASSUME NEW a \in Assets, IsCovered(holdings[a]), ~IsCovered(holdings'[a]),
                    holdings'[a].corporateActions = holdings[a].corporateActions
             PROVE  FALSE
  BY DEF UncoveredByCorporateAction
<1>1. holdings'[a].transactions = holdings[a].transactions
  BY DEF Follows, CoverageFollows
<1> QED
  BY <1>1, SameStepsCovered DEF IsCovered

\* Regeneration, appending and the carry of a pair leave no record behind: at any time a
\* record that is not excepted says what replaying all that precedes its disposal gives.
THEOREM RecordsStayCurrent == Spec => []RecordsAreCurrentUnlessOutOfOrder
<1>1. IInv /\ IInv' /\ [Next]_vars /\ RecordsAreCurrentUnlessOutOfOrder
        => RecordsAreCurrentUnlessOutOfOrder'
  BY NextFollows, RecordsStayCurrentStep, StutterIsCurrent
<1> QED
  BY <1>1, InitIsCurrent, SpecIInv, PTL DEF Spec

\* Recording, revising or deleting something later, or of another asset, never replaces
\* or retires the record of an earlier disposal: a year that is closed keeps its gains.
THEOREM HistoryIsKept == Spec => OnlyEarlierChangesRewriteHistory
<1>1. IInv /\ IInv' /\ [Next]_vars /\ RecordsAreCurrentUnlessOutOfOrder => [KeepsHistory]_vars
  BY NextFollows, HistoryIsKeptStep
<1> QED
  BY <1>1, RecordsStayCurrent, SpecIInv, PTL DEF Spec, OnlyEarlierChangesRewriteHistory

\* FindUncoveredSale guards every way a transaction changes: no sequence of corrections
\* leaves an asset a sale of what it does not hold, unless its corporate actions change.
THEOREM SalesStayCovered == Spec => UncoveredOnlyByCorporateAction
<1>1. IInv /\ IInv' /\ [Next]_vars => [UncoveredByCorporateAction]_vars
  BY NextFollows, CoverageStep
<1> QED
  BY <1>1, SpecIInv, PTL DEF Spec, UncoveredOnlyByCorporateAction

-----------------------------------------------------------------------------
(* What the replays compute: the lots agree with the position, and no unit of *)
(* a lot is consumed twice. First, induction over numbers.                    *)

\* A set of naturals that is not empty has a least one.
LEMMA LeastNatural ==
    ASSUME NEW T, T \subseteq Nat, T # {}
    PROVE  \E n \in T : \A k \in T : n <= k
<1> DEFINE less == {ss \in Nat \X Nat : ss[1] < ss[2]}
<1>1. IsWellFoundedOn(less, Nat)
  BY NatLessThanWellFounded DEF OpToRel
<1>2. PICK n \in T : \A k \in T : <<k, n>> \notin less
  <2> HIDE DEF less
  <2> QED BY <1>1, WFMin
<1>3. ASSUME NEW k \in T PROVE n <= k
  <2>1. <<k, n>> \notin less /\ k \in Nat /\ n \in Nat
    BY <1>2
  <2>2. ~(k < n)
    BY <2>1
  <2> QED BY <2>1, <2>2
<1> QED BY <1>3

\* Induction over the naturals, for a set instead of an operator.
LEMMA SetInduction ==
    ASSUME NEW S, 0 \in S, \A n \in S \cap Nat : n + 1 \in S
    PROVE  Nat \subseteq S
<1> SUFFICES ASSUME Nat \ S # {} PROVE FALSE
  OBVIOUS
<1>1. PICK n \in Nat \ S : \A k \in Nat \ S : n <= k
  <2>1. Nat \ S \subseteq Nat
    OBVIOUS
  <2> QED BY <2>1, LeastNatural
<1>2. n - 1 \in Nat /\ ~(n <= n - 1) /\ n - 1 + 1 = n
  BY <1>1
<1> QED BY <1>1, <1>2

-----------------------------------------------------------------------------
(* What a fold over a sequence is: it takes the elements from the first to the *)
(* last. The folds of the model differ in what they do with an element.        *)

Applied(fold, x, y) ==
    CASE fold.of = "position" -> ApplyToPosition(x, y)
      [] fold.of = "lots" -> ApplyToLots(x, y)
      [] fold.of = "open" -> IF y.quantity > 0 THEN Append(x, y) ELSE x
      [] fold.of = "sum" -> x + y
      [] fold.of = "consumed" -> x + fold.records[y].lots[fold.source].quantity

Greatest(s) == CHOOSE x \in s : \A y \in s : x >= y

FoldRow(fold, base, seq, iter, s) ==
    IF s = {} THEN base
    ELSE Applied(fold, iter[s \ {Greatest(s)}], seq[Greatest(s)])

IsFold(fold, base, seq, iter, n) ==
    \A s \in SUBSET (1..n) : iter[s] = FoldRow(fold, base, seq, iter, s)

Folded(fold, base, seq) ==
    LET iter[s \in SUBSET DOMAIN seq] == FoldRow(fold, base, seq, iter, s)
    IN  iter[DOMAIN seq]

\* The replay of a position is such a fold.
LEMMA PositionFolded ==
    ASSUME NEW seq
    PROVE  FoldLeft(ApplyToPosition, ClosedPosition, seq)
              = Folded([of |-> "position"], ClosedPosition, seq)
  BY DEF FoldLeft, MapThenFoldSet, Folded, FoldRow, Applied, Greatest, Max

\* The replay of the lots is such a fold.
LEMMA LotsFolded ==
    ASSUME NEW seq
    PROVE  FoldLeft(ApplyToLots, <<>>, seq) = Folded([of |-> "lots"], <<>>, seq)
  BY DEF FoldLeft, MapThenFoldSet, Folded, FoldRow, Applied, Greatest, Max

\* What GetOpenLots keeps of the replayed lots is such a fold.
LEMMA OpenFolded ==
    ASSUME NEW seq
    PROVE  WhereOpen(seq) = Folded([of |-> "open"], <<>>, seq)
  BY DEF WhereOpen, FoldLeft, MapThenFoldSet, Folded, FoldRow, Applied, Greatest, Max

\* A sum is such a fold.
LEMMA SumFolded ==
    ASSUME NEW seq
    PROVE  SumOf(seq) = Folded([of |-> "sum"], 0, seq)
  BY DEF SumOf, FoldLeft, MapThenFoldSet, Folded, FoldRow, Applied, Greatest, Max

\* What the records take of a lot together is such a fold.
LEMMA ConsumedFolded ==
    ASSUME NEW seq, NEW h, NEW source
    PROVE  FoldLeft(LAMBDA sum, id : sum + h.disposalRecords[id].lots[source].quantity, 0, seq)
              = Folded([of |-> "consumed", records |-> h.disposalRecords, source |-> source], 0, seq)
  BY DEF FoldLeft, MapThenFoldSet, Folded, FoldRow, Applied, Greatest, Max

\* A set of places that is not empty has a greatest, the last place where it is in the set.
LEMMA GreatestIn ==
    ASSUME NEW n \in Nat, NEW s, s \subseteq 1..n, s # {}
    PROVE  /\ Greatest(s) \in s
           /\ \A y \in s : y <= Greatest(s)
           /\ n \in s => Greatest(s) = n
<1> DEFINE T == {n - y : y \in s}
<1>1. T \subseteq Nat /\ T # {}
  <2>1. \A y \in s : n - y \in Nat /\ n - y \in T
    OBVIOUS
  <2> QED BY <2>1
<1>2. PICK k \in T : \A j \in T : k <= j
  BY <1>1, LeastNatural
<1>3. PICK x \in s : k = n - x
  OBVIOUS
<1>4. \A y \in s : x >= y
  <2> SUFFICES ASSUME NEW y \in s PROVE x >= y
    OBVIOUS
  <2>1. n - y \in T
    OBVIOUS
  <2>2. n - x <= n - y
    BY <1>2, <1>3, <2>1
  <2> HIDE DEF T
  <2> QED BY <2>2
<1> HIDE DEF T
<1>5. Greatest(s) \in s /\ \A y \in s : Greatest(s) >= y
  BY <1>4 DEF Greatest
<1>6. Greatest(s) \in 1..n /\ s \subseteq 1..n
  BY <1>5
<1>7. \A y \in s : y <= Greatest(s)
  BY <1>5, <1>6
<1>8. n \in s => Greatest(s) = n
  BY <1>6, <1>7
<1> QED BY <1>5, <1>7, <1>8

\* The values of a fold on all sets of the first n places exist.
LEMMA FoldExists ==
    ASSUME NEW fold, NEW base, NEW seq
    PROVE  \A n \in Nat : \E iter : IsFold(fold, base, seq, iter, n)
<1> DEFINE N == {n \in Nat : \E iter : IsFold(fold, base, seq, iter, n)}
<1>1. 0 \in N
  <2> DEFINE none == [s \in {{}} |-> base]
  <2>1. \A s \in SUBSET (1..0) : s = {}
    OBVIOUS
  <2>2. none[{}] = base
    OBVIOUS
  <2> HIDE DEF none
  <2>3. IsFold(fold, base, seq, none, 0)
    BY <2>1, <2>2 DEF IsFold, FoldRow
  <2> QED BY <2>3
<1>2. ASSUME NEW n \in N PROVE n + 1 \in N
  <2>1. PICK iter : IsFold(fold, base, seq, iter, n)
    OBVIOUS
  <2>2. n \in Nat
    OBVIOUS
  <2> HIDE DEF N
  <2> DEFINE longer == [s \in SUBSET (1..(n + 1)) |->
                          IF s \in SUBSET (1..n) THEN iter[s] ELSE FoldRow(fold, base, seq, iter, s)]
  <2>3. \A s \in SUBSET (1..n) : s \in SUBSET (1..(n + 1))
    BY <2>2
  <2>4. /\ \A s \in SUBSET (1..n) : longer[s] = iter[s]
        /\ \A s \in SUBSET (1..(n + 1)) :
              s \notin SUBSET (1..n) => longer[s] = FoldRow(fold, base, seq, iter, s)
    BY <2>3
  <2> HIDE DEF longer
  <2>5. ASSUME NEW s \in SUBSET (1..(n + 1))
        PROVE  longer[s] = FoldRow(fold, base, seq, longer, s)
    <3>1. CASE s = {}
      <4>1. s \in SUBSET (1..n)
        BY <3>1
      <4>2. longer[s] = iter[s] /\ iter[s] = base
        BY <2>1, <2>4, <3>1, <4>1 DEF IsFold, FoldRow
      <4> QED BY <3>1, <4>2 DEF FoldRow
    <3>2. CASE s # {}
      <4>1. Greatest(s) \in s /\ \A y \in s : y <= Greatest(s)
        <5>1. n + 1 \in Nat
          BY <2>2
        <5> QED BY <3>2, <5>1, GreatestIn
      <4>2. s \ {Greatest(s)} \in SUBSET (1..n)
        <5> SUFFICES ASSUME NEW y \in s, y # Greatest(s) PROVE y \in 1..n
          OBVIOUS
        <5>1. y <= Greatest(s) /\ y \in 1..(n + 1) /\ Greatest(s) \in 1..(n + 1)
          BY <4>1
        <5> QED BY <2>2, <5>1
      <4>3. longer[s] = FoldRow(fold, base, seq, iter, s)
        BY <2>1, <2>4 DEF IsFold
      <4> QED BY <2>4, <3>2, <4>2, <4>3 DEF FoldRow
    <3> QED BY <3>1, <3>2
  <2>6. IsFold(fold, base, seq, longer, n + 1)
    BY <2>5 DEF IsFold
  <2>7. n + 1 \in Nat /\ \E it : IsFold(fold, base, seq, it, n + 1)
    BY <2>2, <2>6
  <2> QED BY <2>7 DEF N
<1> HIDE DEF N
<1>3. Nat \subseteq N
  BY <1>1, <1>2, SetInduction
<1> QED BY <1>3 DEF N

\* A fold over n elements is its value on the n places.
LEMMA FoldedIs ==
    ASSUME NEW fold, NEW base, NEW seq, NEW n \in Nat, DOMAIN seq = 1..n
    PROVE  \E iter : IsFold(fold, base, seq, iter, n) /\ Folded(fold, base, seq) = iter[1..n]
<1> DEFINE Rows(iter) == [s \in SUBSET DOMAIN seq |-> FoldRow(fold, base, seq, iter, s)]
           chosen == CHOOSE iter : iter = Rows(iter)
<1>1. Folded(fold, base, seq) = chosen[DOMAIN seq]
  BY DEF Folded
<1>2. PICK any : IsFold(fold, base, seq, any, n)
  BY FoldExists
<1> DEFINE iter == [s \in SUBSET DOMAIN seq |-> any[s]]
<1>3. iter = Rows(iter)
  <2>1. ASSUME NEW s \in SUBSET DOMAIN seq
        PROVE  iter[s] = FoldRow(fold, base, seq, iter, s)
    <3>1. iter[s] = any[s] /\ \A r \in SUBSET DOMAIN seq : iter[r] = any[r]
      OBVIOUS
    <3>2. s \ {Greatest(s)} \in SUBSET DOMAIN seq
      OBVIOUS
    <3> HIDE DEF iter
    <3> QED BY <1>2, <3>1, <3>2 DEF IsFold, FoldRow
  <2>2. iter = [s \in SUBSET DOMAIN seq |-> iter[s]]
    OBVIOUS
  <2> HIDE DEF iter
  <2> QED BY <2>1, <2>2
<1>4. chosen = Rows(chosen)
  <2> HIDE DEF iter, Rows
  <2> QED BY <1>3
<1> HIDE DEF chosen
<1>5. \A s \in SUBSET DOMAIN seq : chosen[s] = FoldRow(fold, base, seq, chosen, s)
  <2> SUFFICES ASSUME NEW s \in SUBSET DOMAIN seq
               PROVE  chosen[s] = FoldRow(fold, base, seq, chosen, s)
    OBVIOUS
  <2>1. Rows(chosen)[s] = FoldRow(fold, base, seq, chosen, s)
    OBVIOUS
  <2> HIDE DEF Rows
  <2> QED BY <1>4, <2>1
<1> QED BY <1>1, <1>5 DEF IsFold

\* Folds of sequences that begin alike agree on the beginning.
LEMMA FoldsAgree ==
    ASSUME NEW fold, NEW base, NEW seq, NEW other, NEW m \in Nat, NEW n \in Nat,
           NEW iter, IsFold(fold, base, seq, iter, m),
           NEW it, IsFold(fold, base, other, it, n),
           m <= n, \A k \in 1..m : seq[k] = other[k]
    PROVE  iter[1..m] = it[1..m]
<1> DEFINE N == {k \in Nat : k <= m => iter[1..k] = it[1..k]}
<1>1. 0 \in N
  <2>1. 1..0 = {} /\ {} \in SUBSET (1..m) /\ {} \in SUBSET (1..n)
    OBVIOUS
  <2>2. iter[{}] = base /\ it[{}] = base
    BY <2>1 DEF IsFold, FoldRow
  <2> QED BY <2>1, <2>2
<1>2. ASSUME NEW k \in N PROVE k + 1 \in N
  <2>1. k \in Nat /\ (k <= m => iter[1..k] = it[1..k])
    OBVIOUS
  <2>2. SUFFICES ASSUME k + 1 <= m PROVE iter[1..(k + 1)] = it[1..(k + 1)]
    BY <2>1
  <2> HIDE DEF N
  <2>3. /\ 1..(k + 1) \in SUBSET (1..m) /\ 1..(k + 1) \in SUBSET (1..n) /\ 1..(k + 1) # {}
        /\ k + 1 \in 1..(k + 1) /\ k + 1 \in 1..m /\ (1..(k + 1)) \ {k + 1} = 1..k /\ k <= m
        /\ k + 1 \in Nat
    <3>1. k \in Int /\ m \in Int /\ n \in Int /\ 0 <= k /\ k + 1 <= m /\ k + 1 <= n /\ k <= m
      BY <2>1, <2>2
    <3>2. \A j \in 1..(k + 1) : j \in 1..m /\ j \in 1..n
      BY <3>1
    <3>3. k + 1 \in 1..(k + 1) /\ k + 1 \in 1..m /\ k + 1 \in Nat
      BY <3>1
    <3>4. (1..(k + 1)) \ {k + 1} = 1..k
      BY <3>1
    <3> QED BY <3>1, <3>2, <3>3, <3>4
  <2>4. Greatest(1..(k + 1)) = k + 1
    BY <2>3, GreatestIn
  <2>5. iter[1..(k + 1)] = Applied(fold, iter[1..k], seq[k + 1])
    BY <2>3, <2>4 DEF IsFold, FoldRow
  <2>6. it[1..(k + 1)] = Applied(fold, it[1..k], other[k + 1])
    BY <2>3, <2>4 DEF IsFold, FoldRow
  <2> QED BY <2>1, <2>3, <2>5, <2>6
<1> HIDE DEF N
<1>3. Nat \subseteq N
  BY <1>1, <1>2, SetInduction
<1> QED BY <1>3 DEF N

\* A fold over nothing is its base.
LEMMA FoldedNone ==
    ASSUME NEW fold, NEW base, NEW seq, DOMAIN seq = 1..0
    PROVE  Folded(fold, base, seq) = base
<1>1. PICK iter : IsFold(fold, base, seq, iter, 0) /\ Folded(fold, base, seq) = iter[1..0]
  BY FoldedIs
<1>2. 1..0 = {} /\ {} \in SUBSET (1..0)
  OBVIOUS
<1> QED BY <1>1, <1>2 DEF IsFold, FoldRow

\* A fold applies the last element to the fold over the others.
LEMMA FoldedLast ==
    ASSUME NEW fold, NEW base, NEW seq, NEW n \in Nat \ {0}, DOMAIN seq = 1..n,
           NEW pre, DOMAIN pre = 1..(n - 1), \A k \in 1..(n - 1) : pre[k] = seq[k]
    PROVE  Folded(fold, base, seq) = Applied(fold, Folded(fold, base, pre), seq[n])
<1>1. PICK iter : IsFold(fold, base, seq, iter, n) /\ Folded(fold, base, seq) = iter[1..n]
  BY FoldedIs
<1>2. n - 1 \in Nat /\ n - 1 <= n
  OBVIOUS
<1>3. PICK it : IsFold(fold, base, pre, it, n - 1) /\ Folded(fold, base, pre) = it[1..(n - 1)]
  BY <1>2, FoldedIs
<1>4. it[1..(n - 1)] = iter[1..(n - 1)]
  BY <1>1, <1>2, <1>3, FoldsAgree
<1>5. /\ 1..n \in SUBSET (1..n) /\ 1..n # {} /\ n \in 1..n /\ (1..n) \ {n} = 1..(n - 1)
  OBVIOUS
<1>6. Greatest(1..n) = n
  BY <1>5, GreatestIn
<1>7. iter[1..n] = Applied(fold, iter[1..(n - 1)], seq[n])
  BY <1>1, <1>5, <1>6 DEF IsFold, FoldRow
<1> QED BY <1>1, <1>3, <1>4, <1>7

\* What a sequence with one more element is.
LEMMA Appending ==
    ASSUME NEW n \in Nat, NEW seq, seq = [i \in 1..n |-> seq[i]], NEW x
    PROVE  Append(seq, x) = [i \in 1..(n + 1) |-> IF i = n + 1 THEN x ELSE seq[i]]
<1> DEFINE S == {seq[i] : i \in 1..n} \union {x}
<1>1. seq \in [1..n -> S] /\ x \in S
  OBVIOUS
<1>2. seq \in Seq(S) /\ Len(seq) = n
  BY <1>1
<1> HIDE DEF S
<1>3. /\ DOMAIN Append(seq, x) = 1..(n + 1)
      /\ Append(seq, x) = [i \in DOMAIN Append(seq, x) |-> Append(seq, x)[i]]
      /\ \A i \in 1..n : Append(seq, x)[i] = seq[i]
      /\ Append(seq, x)[n + 1] = x
  BY <1>1, <1>2
<1> QED BY <1>3

-----------------------------------------------------------------------------
(* The order of a replay: of finitely many steps one is the last, and the merge *)
(* is the merge of the others with that one behind it.                         *)

\* What holds of no elements, and of elements when it holds without any one of them,
\* holds of every part of a finite set.
LEMMA SubsetInduction ==
    ASSUME NEW S, IsFiniteSet(S), NEW Good, {} \in Good,
           \A T \in SUBSET S : T # {} /\ (\A x \in T : T \ {x} \in Good) => T \in Good
    PROVE  \A T \in SUBSET S : T \in Good
<1> DEFINE N == {n \in Nat : \A T \in SUBSET S : Cardinality(T) <= n => T \in Good}
<1>0. \A T \in SUBSET S : IsFiniteSet(T) /\ Cardinality(T) \in Nat /\ Cardinality(T) <= Cardinality(S)
  BY FS_Subset, FS_CardinalityType
<1>1. 0 \in N
  <2>1. \A T \in SUBSET S : Cardinality(T) <= 0 => T = {}
    <3> SUFFICES ASSUME NEW T \in SUBSET S, Cardinality(T) <= 0 PROVE T = {}
      OBVIOUS
    <3>1. IsFiniteSet(T) /\ Cardinality(T) = 0
      BY <1>0
    <3> QED BY <3>1, FS_EmptySet
  <2> QED BY <2>1
<1>2. ASSUME NEW n \in N PROVE n + 1 \in N
  <2>1. n \in Nat /\ \A T \in SUBSET S : Cardinality(T) <= n => T \in Good
    OBVIOUS
  <2> HIDE DEF N
  <2>2. ASSUME NEW T \in SUBSET S, Cardinality(T) <= n + 1, T # {} PROVE T \in Good
    <3>1. ASSUME NEW x \in T PROVE T \ {x} \in Good
      <4>1. Cardinality(T \ {x}) = Cardinality(T) - 1
        BY <1>0, FS_RemoveElement
      <4>2. T \ {x} \in SUBSET S /\ Cardinality(T \ {x}) <= n
        BY <1>0, <2>1, <2>2, <4>1
      <4> QED BY <2>1, <4>2
    <3> QED BY <2>2, <3>1
  <2>3. \A T \in SUBSET S : Cardinality(T) <= n + 1 => T \in Good
    <3> SUFFICES ASSUME NEW T \in SUBSET S, Cardinality(T) <= n + 1 PROVE T \in Good
      OBVIOUS
    <3>1. CASE T = {}
      BY <3>1
    <3> QED BY <2>2, <3>1
  <2>4. n + 1 \in Nat
    BY <2>1
  <2> QED BY <2>3, <2>4 DEF N
<1> HIDE DEF N
<1>3. Nat \subseteq N
  BY <1>1, <1>2, SetInduction
<1>4. Cardinality(S) \in N
  BY <1>0, <1>3
<1> QED BY <1>0, <1>4 DEF N

IsOrdered(steps) ==
    /\ IsFiniteSet(steps)
    /\ \A s \in steps : s.id \in Int /\ s.date \in Int /\ \A t \in steps : s.id = t.id => s = t

IsLast(m, steps) == m \in steps /\ \A s \in steps \ {m} : Precedes(s, m)

\* A part of steps that are ordered is ordered.
LEMMA OrderedSubset ==
    ASSUME NEW S, IsOrdered(S), NEW T \in SUBSET S
    PROVE  IsOrdered(T) /\ Cardinality(T) \in Nat
<1>1. IsFiniteSet(T) /\ Cardinality(T) \in Nat
  BY FS_Subset, FS_CardinalityType DEF IsOrdered
<1> QED BY <1>1 DEF IsOrdered

\* Date, rank within the date and id order the steps totally.
LEMMA PrecedesIsAnOrder ==
    ASSUME NEW S, IsOrdered(S)
    PROVE  /\ \A s \in S : ~Precedes(s, s)
           /\ \A s, t \in S : s = t \/ Precedes(s, t) \/ Precedes(t, s)
           /\ \A s, t \in S : Precedes(s, t) => ~Precedes(t, s)
           /\ \A s, t, u \in S : Precedes(s, t) /\ Precedes(t, u) => Precedes(s, u)
<1>1. \A s \in S : s.id \in Int /\ s.date \in Int /\ RankWithinDate(s) \in Int
  BY DEF IsOrdered, RankWithinDate
<1>2. \A s, t \in S : s.id = t.id => s = t
  BY DEF IsOrdered
<1> QED BY <1>1, <1>2 DEF Precedes

\* Of steps that are ordered, one comes last.
LEMMA LastExists ==
    ASSUME NEW S, IsOrdered(S), S # {}
    PROVE  \E m \in S : IsLast(m, S)
<1> DEFINE Good == {T \in SUBSET S : T = {} \/ \E m \in T : IsLast(m, T)}
<1>1. ASSUME NEW T \in SUBSET S, T # {}, \A x \in T : T \ {x} \in Good PROVE T \in Good
  <2>1. PICK x \in T : TRUE
    BY <1>1
  <2>2. T \ {x} = {} \/ \E m \in T \ {x} : IsLast(m, T \ {x})
    BY <1>1, <2>1
  <2> HIDE DEF Good
  <2>3. \E m \in T : IsLast(m, T)
    <3>1. CASE T \ {x} = {}
      BY <3>1 DEF IsLast
    <3>2. ASSUME NEW m \in T \ {x}, IsLast(m, T \ {x}) PROVE \E l \in T : IsLast(l, T)
      <4>1. CASE Precedes(x, m)
        <5>1. IsLast(m, T)
          BY <3>2, <4>1 DEF IsLast
        <5> QED BY <5>1
      <4>2. CASE Precedes(m, x)
        <5>1. \A s \in T \ {x} : Precedes(s, x)
          <6> SUFFICES ASSUME NEW s \in T \ {x} PROVE Precedes(s, x)
            OBVIOUS
          <6>1. s = m \/ Precedes(s, m)
            BY <3>2 DEF IsLast
          <6>2. s \in S /\ m \in S /\ x \in S
            OBVIOUS
          <6> QED BY <4>2, <6>1, <6>2, PrecedesIsAnOrder
        <5>2. IsLast(x, T)
          BY <5>1 DEF IsLast
        <5> QED BY <5>2
      <4>3. m \in S /\ x \in S /\ x # m
        OBVIOUS
      <4> QED BY <4>1, <4>2, <4>3, PrecedesIsAnOrder
    <3> QED BY <2>2, <3>1, <3>2
  <2> QED BY <2>3 DEF Good
<1>2. {} \in Good /\ IsFiniteSet(S)
  BY DEF IsOrdered
<1> HIDE DEF Good
<1>3. \A T \in SUBSET S : T \in Good
  BY <1>1, <1>2, SubsetInduction
<1>4. S \in Good
  BY <1>3
<1> QED BY <1>4 DEF Good

\* What holds of no steps, and of steps whenever it holds without the last of them,
\* holds of all.
LEMMA StepsInduction ==
    ASSUME NEW S, IsOrdered(S), NEW Good, {} \in Good,
           \A T \in SUBSET S : \A m \in T : IsLast(m, T) /\ T \ {m} \in Good => T \in Good
    PROVE  \A T \in SUBSET S : T \in Good
<1>1. ASSUME NEW T \in SUBSET S, T # {}, \A x \in T : T \ {x} \in Good PROVE T \in Good
  <2>1. IsOrdered(T)
    BY OrderedSubset
  <2>2. PICK m \in T : IsLast(m, T)
    BY <1>1, <2>1, LastExists
  <2> QED BY <1>1, <2>2
<1>2. IsFiniteSet(S)
  BY DEF IsOrdered
<1> QED BY <1>1, <1>2, SubsetInduction

\* All others come before the last step, and nothing less before those.
LEMMA BeforeLast ==
    ASSUME NEW S, IsOrdered(S), NEW m \in S, IsLast(m, S)
    PROVE  /\ Before(m, S) = S \ {m}
           /\ \A s \in S \ {m} : Before(s, S) = Before(s, S \ {m})
<1>1. \A s \in S \ {m} : Precedes(s, m) /\ ~Precedes(m, s)
  BY PrecedesIsAnOrder DEF IsLast
<1>2. ~Precedes(m, m)
  BY PrecedesIsAnOrder
<1> QED BY <1>1, <1>2 DEF Before

Rank(s, steps) == Cardinality(Before(s, steps))

\* A step has fewer steps before it than there are.
LEMMA RankType ==
    ASSUME NEW S, IsOrdered(S), NEW s \in S
    PROVE  /\ IsFiniteSet(Before(s, S)) /\ Rank(s, S) \in Nat
           /\ Cardinality(S) \in Nat /\ Rank(s, S) < Cardinality(S)
<1>1. IsFiniteSet(S) /\ Cardinality(S) \in Nat
  BY FS_CardinalityType DEF IsOrdered
<1>2. Before(s, S) \subseteq S \ {s}
  BY PrecedesIsAnOrder DEF Before
<1>3. IsFiniteSet(S \ {s}) /\ Cardinality(S \ {s}) = Cardinality(S) - 1
  BY <1>1, FS_RemoveElement
<1>4. IsFiniteSet(Before(s, S)) /\ Cardinality(Before(s, S)) <= Cardinality(S) - 1
  BY <1>2, <1>3, FS_Subset
<1>5. Cardinality(Before(s, S)) \in Nat
  BY <1>4, FS_CardinalityType
<1> QED BY <1>1, <1>4, <1>5 DEF Rank

\* What comes later has more before it.
LEMMA RankGrows ==
    ASSUME NEW S, IsOrdered(S), NEW s \in S, NEW t \in S, Precedes(s, t)
    PROVE  Rank(s, S) < Rank(t, S)
<1>1. s \notin Before(s, S) /\ Before(s, S) \union {s} \subseteq Before(t, S)
  BY PrecedesIsAnOrder DEF Before
<1>2. IsFiniteSet(Before(s, S)) /\ IsFiniteSet(Before(t, S)) /\ Rank(s, S) \in Nat /\ Rank(t, S) \in Nat
  BY RankType
<1>3. Cardinality(Before(s, S) \union {s}) = Rank(s, S) + 1
  BY <1>1, <1>2, FS_AddElement DEF Rank
<1>4. Cardinality(Before(s, S) \union {s}) <= Rank(t, S)
  BY <1>1, <1>2, FS_Subset DEF Rank
<1> QED BY <1>2, <1>3, <1>4

\* No two steps have as many before them.
LEMMA RankIsUnique ==
    ASSUME NEW S, IsOrdered(S), NEW s \in S, NEW t \in S, Rank(s, S) = Rank(t, S)
    PROVE  s = t
<1>1. Rank(s, S) \in Nat /\ Rank(t, S) \in Nat
  BY RankType
<1>2. ~Precedes(s, t) /\ ~Precedes(t, s)
  <2>1. Precedes(s, t) => Rank(s, S) < Rank(t, S)
    BY RankGrows
  <2>2. Precedes(t, s) => Rank(t, S) < Rank(s, S)
    BY RankGrows
  <2> QED BY <1>1, <2>1, <2>2
<1> QED BY <1>2, PrecedesIsAnOrder

\* Every place of the merge has its step.
LEMMA RanksAreTaken ==
    ASSUME NEW S, IsOrdered(S)
    PROVE  \A k \in 1..Cardinality(S) : \E s \in S : Rank(s, S) = k - 1
<1> DEFINE Good == {T \in SUBSET S : \A k \in 1..Cardinality(T) : \E s \in T : Rank(s, T) = k - 1}
<1>1. {} \in Good
  <2>1. Cardinality({}) = 0 /\ 1..0 = {}
    BY FS_EmptySet
  <2> QED BY <2>1
<1>2. ASSUME NEW T \in SUBSET S, NEW m \in T, IsLast(m, T), T \ {m} \in Good PROVE T \in Good
  <2>1. \A k \in 1..Cardinality(T \ {m}) : \E s \in T \ {m} : Rank(s, T \ {m}) = k - 1
    BY <1>2
  <2>2. IsOrdered(T) /\ Cardinality(T) \in Nat
    BY OrderedSubset
  <2>3. Cardinality(T \ {m}) = Cardinality(T) - 1
    BY <2>2, FS_RemoveElement DEF IsOrdered
  <2>4. ASSUME NEW k \in 1..Cardinality(T) PROVE \E s \in T : Rank(s, T) = k - 1
    <3>1. CASE k = Cardinality(T)
      <4>1. Rank(m, T) = k - 1
        BY <1>2, <2>2, <2>3, <3>1, BeforeLast DEF Rank
      <4> QED BY <4>1
    <3>2. CASE k # Cardinality(T)
      <4>1. k \in 1..Cardinality(T \ {m})
        BY <2>2, <2>3, <3>2
      <4>2. PICK s \in T \ {m} : Rank(s, T \ {m}) = k - 1
        BY <2>1, <4>1
      <4>3. Rank(s, T) = k - 1
        BY <1>2, <2>2, <4>2, BeforeLast DEF Rank
      <4> QED BY <4>3
    <3> QED BY <3>1, <3>2
  <2> QED BY <2>4
<1> HIDE DEF Good
<1>3. \A T \in SUBSET S : T \in Good
  BY <1>1, <1>2, StepsInduction
<1>4. S \in Good
  BY <1>3
<1> QED BY <1>4 DEF Good

\* The merge has each step at the place after those before it.
LEMMA Merged ==
    ASSUME NEW S, IsOrdered(S)
    PROVE  /\ DOMAIN Merge(S) = 1..Cardinality(S)
           /\ \A k \in 1..Cardinality(S) :
                /\ Merge(S)[k] \in S /\ Rank(Merge(S)[k], S) = k - 1
                /\ \A s \in S : Rank(s, S) = k - 1 => s = Merge(S)[k]
<1>1. DOMAIN Merge(S) = 1..Cardinality(S)
  BY DEF Merge
<1>2. ASSUME NEW k \in 1..Cardinality(S)
      PROVE  /\ Merge(S)[k] \in S /\ Rank(Merge(S)[k], S) = k - 1
             /\ \A s \in S : Rank(s, S) = k - 1 => s = Merge(S)[k]
  <2>1. \E s \in S : Rank(s, S) = k - 1
    BY RanksAreTaken
  <2>2. Merge(S)[k] = CHOOSE s \in S : Rank(s, S) = k - 1
    BY DEF Merge, Rank
  <2>3. Merge(S)[k] \in S /\ Rank(Merge(S)[k], S) = k - 1
    BY <2>1, <2>2
  <2> QED BY <2>3, RankIsUnique
<1> QED BY <1>1, <1>2

\* The merge is that of the others, and then the last step.
LEMMA MergeLast ==
    ASSUME NEW S, IsOrdered(S), NEW m \in S, IsLast(m, S)
    PROVE  /\ Cardinality(S) \in Nat \ {0}
           /\ DOMAIN Merge(S) = 1..Cardinality(S)
           /\ DOMAIN Merge(S \ {m}) = 1..(Cardinality(S) - 1)
           /\ \A k \in 1..(Cardinality(S) - 1) : Merge(S \ {m})[k] = Merge(S)[k]
           /\ Merge(S)[Cardinality(S)] = m
<1> DEFINE n == Cardinality(S)
           T == S \ {m}
<1>1. n \in Nat \ {0}
  BY RankType
<1>2. Cardinality(T) = n - 1
  BY FS_RemoveElement DEF IsOrdered
<1>3. IsOrdered(T)
  BY OrderedSubset
<1>4. Rank(m, S) = n - 1
  BY <1>2, BeforeLast DEF Rank
<1>5. n \in 1..n
  BY <1>1
<1>6. Merge(S)[n] = m
  BY <1>4, <1>5, Merged
<1>7. ASSUME NEW k \in 1..(n - 1) PROVE Merge(T)[k] = Merge(S)[k]
  <2>1. k \in 1..n /\ k \in 1..Cardinality(T)
    BY <1>1, <1>2
  <2>2. Merge(T)[k] \in T /\ Rank(Merge(T)[k], T) = k - 1
    BY <1>3, <2>1, Merged
  <2>3. Rank(Merge(T)[k], S) = k - 1
    BY <2>2, BeforeLast DEF Rank
  <2> QED BY <2>1, <2>2, <2>3, Merged
<1>8. DOMAIN Merge(T) = 1..(n - 1) /\ DOMAIN Merge(S) = 1..n
  BY <1>2, <1>3, Merged
<1> QED BY <1>1, <1>6, <1>7, <1>8

LotsOf(steps) == FoldLeft(ApplyToLots, <<>>, Merge(steps))

\* A history without steps holds nothing.
LEMMA ReplayNone ==
    ReplayAveragePosition({}) = ClosedPosition /\ LotsOf({}) = <<>>
<1>1. DOMAIN Merge({}) = 1..0
  BY FS_EmptySet DEF Merge
<1> QED BY <1>1, PositionFolded, LotsFolded, FoldedNone DEF ReplayAveragePosition, LotsOf

\* A replay applies the last step to the replay of the others.
LEMMA ReplayLast ==
    ASSUME NEW S, IsOrdered(S), NEW m \in S, IsLast(m, S)
    PROVE  /\ ReplayAveragePosition(S) = ApplyToPosition(ReplayAveragePosition(S \ {m}), m)
           /\ LotsOf(S) = ApplyToLots(LotsOf(S \ {m}), m)
<1> DEFINE seq == Merge(S)
           pre == Merge(S \ {m})
           n == Cardinality(S)
<1>1. /\ n \in Nat \ {0} /\ DOMAIN seq = 1..n /\ DOMAIN pre = 1..(n - 1)
      /\ \A k \in 1..(n - 1) : pre[k] = seq[k]
      /\ seq[n] = m
  BY MergeLast
<1>2. /\ ReplayAveragePosition(S) = Folded([of |-> "position"], ClosedPosition, seq)
      /\ ReplayAveragePosition(S \ {m}) = Folded([of |-> "position"], ClosedPosition, pre)
      /\ LotsOf(S) = Folded([of |-> "lots"], <<>>, seq)
      /\ LotsOf(S \ {m}) = Folded([of |-> "lots"], <<>>, pre)
  BY PositionFolded, LotsFolded DEF ReplayAveragePosition, LotsOf
<1> HIDE DEF seq, pre, n
<1>3. \A fold, base : Folded(fold, base, seq) = Applied(fold, Folded(fold, base, pre), m)
  BY <1>1, FoldedLast
<1>4. \A x, y : /\ Applied([of |-> "position"], x, y) = ApplyToPosition(x, y)
                /\ Applied([of |-> "lots"], x, y) = ApplyToLots(x, y)
  BY DEF Applied
<1> QED BY <1>2, <1>3, <1>4

-----------------------------------------------------------------------------
(* Sums of sequences of numbers, and the lots: what is depleted, and what is   *)
(* left open.                                                                *)

Upto(f, k) == [i \in 1..k |-> f[i]]

Total(f, k) == SumOf(Upto(f, k))

\* The sum of no numbers.
LEMMA TotalOfNone == \A f : Total(f, 0) = 0
<1> SUFFICES ASSUME NEW f PROVE Total(f, 0) = 0
  OBVIOUS
<1>1. DOMAIN Upto(f, 0) = 1..0
  BY DEF Upto
<1> QED BY <1>1, SumFolded, FoldedNone DEF Total

\* The sum of one number more.
LEMMA TotalNext == \A f : \A k \in Nat : Total(f, k + 1) = Total(f, k) + f[k + 1]
<1> SUFFICES ASSUME NEW f, NEW k \in Nat PROVE Total(f, k + 1) = Total(f, k) + f[k + 1]
  OBVIOUS
<1> DEFINE n == k + 1
           sum == [of |-> "sum"]
<1>1. n \in Nat \ {0} /\ k = n - 1
  OBVIOUS
<1> HIDE DEF n
<1>2. /\ DOMAIN Upto(f, n) = 1..n /\ DOMAIN Upto(f, k) = 1..(n - 1)
      /\ \A i \in 1..(n - 1) : Upto(f, k)[i] = Upto(f, n)[i]
      /\ Upto(f, n)[n] = f[n]
  BY <1>1 DEF Upto
<1>3. Folded(sum, 0, Upto(f, n)) = Applied(sum, Folded(sum, 0, Upto(f, k)), f[n])
  BY <1>1, <1>2, FoldedLast
<1>4. \A x, y : Applied(sum, x, y) = x + y
  BY DEF Applied
<1>5. Total(f, n) = Total(f, k) + f[n]
  BY <1>3, <1>4, SumFolded DEF Total
<1> QED BY <1>5 DEF n

\* A sum depends on the numbers only.
LEMMA TotalsAgree ==
    ASSUME NEW f, NEW g, NEW k \in Nat, \A i \in 1..k : f[i] = g[i]
    PROVE  Total(f, k) = Total(g, k)
  BY DEF Total, Upto

\* Sums of naturals are naturals, and grow.
LEMMA TotalType ==
    ASSUME NEW f, NEW n \in Nat, \A i \in 1..n : f[i] \in Nat
    PROVE  \A k \in 0..n : Total(f, k) \in Nat /\ \A i \in 0..k : Total(f, i) <= Total(f, k)
<1> DEFINE N == {k \in Nat : k <= n => \A i \in 0..k : Total(f, i) \in Nat /\ Total(f, i) <= Total(f, k)}
<1>1. 0 \in N
  BY TotalOfNone
<1>2. ASSUME NEW k \in N PROVE k + 1 \in N
  <2>1. k \in Nat /\ (k <= n => \A i \in 0..k : Total(f, i) \in Nat /\ Total(f, i) <= Total(f, k))
    OBVIOUS
  <2>2. SUFFICES ASSUME k + 1 <= n, NEW i \in 0..(k + 1)
                 PROVE  Total(f, i) \in Nat /\ Total(f, i) <= Total(f, k + 1)
    BY <2>1
  <2> HIDE DEF N
  <2>3. k + 1 \in 1..n /\ k <= n /\ k \in 0..k
    BY <2>1, <2>2
  <2>4. Total(f, k + 1) = Total(f, k) + f[k + 1]
    BY <2>1, TotalNext
  <2>5. Total(f, k + 1) = Total(f, k) + f[k + 1] /\ f[k + 1] \in Nat /\ Total(f, k) \in Nat
    BY <2>1, <2>3, <2>4
  <2>6. Total(f, k + 1) \in Nat /\ Total(f, k) <= Total(f, k + 1)
    BY <2>5
  <2>7. CASE i = k + 1
    BY <2>6, <2>7
  <2>8. CASE i \in 0..k
    <3>1. Total(f, i) \in Nat /\ Total(f, i) <= Total(f, k)
      BY <2>1, <2>3, <2>8
    <3> QED BY <2>5, <2>6, <3>1
  <2> QED BY <2>1, <2>7, <2>8
<1> HIDE DEF N
<1>3. Nat \subseteq N
  BY <1>1, <1>2, SetInduction
<1>4. ASSUME NEW k \in 0..n PROVE Total(f, k) \in Nat /\ \A i \in 0..k : Total(f, i) <= Total(f, k)
  <2>1. k \in N /\ k <= n /\ k \in 0..k
    BY <1>3
  <2> QED BY <2>1 DEF N
<1> QED BY <1>4

IsLot(lot) ==
    /\ lot = [source |-> lot.source, quantity |-> lot.quantity, cost |-> lot.cost]
    /\ lot.quantity \in Nat

IsLotsOf(lots, n) == /\ n \in Nat /\ lots = [i \in 1..n |-> lots[i]]
                     /\ \A i \in 1..n : IsLot(lots[i])

IsLots(lots) == \E n \in Nat : IsLotsOf(lots, n)

Quantities(lots) == [i \in DOMAIN lots |-> lots[i].quantity]

\* What is left in the lots.
Held(lots) == SumOf(Quantities(lots))

\* What the lots hold is the sum of their quantities.
LEMMA HeldIs ==
    ASSUME NEW lots, NEW n, IsLotsOf(lots, n)
    PROVE  /\ n \in Nat /\ DOMAIN lots = 1..n
           /\ \A i \in 1..n : Quantities(lots)[i] = lots[i].quantity /\ lots[i].quantity \in Nat
           /\ Held(lots) = Total(Quantities(lots), n)
<1>1. n \in Nat /\ DOMAIN lots = 1..n
  BY DEF IsLotsOf
<1>2. \A i \in 1..n : Quantities(lots)[i] = lots[i].quantity /\ lots[i].quantity \in Nat
  BY <1>1 DEF IsLotsOf, IsLot, Quantities
<1>3. Quantities(lots) = Upto(Quantities(lots), n)
  BY <1>1 DEF Quantities, Upto
<1> QED BY <1>1, <1>2, <1>3 DEF Held, Total

\* No lots hold nothing.
LEMMA NoLotsHold == IsLotsOf(<<>>, 0) /\ Held(<<>>) = 0
<1>1. IsLotsOf(<<>>, 0)
  BY DEF IsLotsOf
<1> QED BY <1>1, HeldIs, TotalOfNone

\* A lot that is added adds its quantity, and changes no other.
LEMMA LotAppended ==
    ASSUME NEW lots, NEW n, IsLotsOf(lots, n), NEW lot, IsLot(lot)
    PROVE  /\ IsLotsOf(Append(lots, lot), n + 1)
           /\ Held(Append(lots, lot)) = Held(lots) + lot.quantity
           /\ Append(lots, lot)[n + 1] = lot
           /\ \A i \in 1..n : Append(lots, lot)[i] = lots[i]
           /\ \A j \in 0..n :
                Total(Quantities(Append(lots, lot)), j) = Total(Quantities(lots), j)
<1> DEFINE more == Append(lots, lot)
<1>1. n \in Nat /\ more = [i \in 1..(n + 1) |-> IF i = n + 1 THEN lot ELSE lots[i]]
  BY Appending DEF IsLotsOf
<1> HIDE DEF more
<1>2. more[n + 1] = lot /\ \A i \in 1..n : more[i] = lots[i]
  BY <1>1
<1>3. IsLotsOf(more, n + 1)
  <2>1. \A i \in 1..(n + 1) : i = n + 1 \/ i \in 1..n
    BY <1>1
  <2>2. \A i \in 1..(n + 1) : IsLot(more[i])
    BY <1>2, <2>1 DEF IsLotsOf
  <2>3. n + 1 \in Nat /\ more = [i \in 1..(n + 1) |-> more[i]]
    BY <1>1
  <2> QED BY <2>2, <2>3 DEF IsLotsOf
<1>4. \A i \in 1..n : Quantities(more)[i] = Quantities(lots)[i]
  <2> SUFFICES ASSUME NEW i \in 1..n PROVE Quantities(more)[i] = Quantities(lots)[i]
    OBVIOUS
  <2>1. i \in 1..(n + 1)
    BY <1>1
  <2>2. DOMAIN more = 1..(n + 1) /\ DOMAIN lots = 1..n
    BY <1>1 DEF IsLotsOf
  <2>3. Quantities(more)[i] = more[i].quantity /\ Quantities(lots)[i] = lots[i].quantity
    BY <2>1, <2>2 DEF Quantities
  <2> QED BY <1>2, <2>3
<1>5. \A j \in 0..n : Total(Quantities(more), j) = Total(Quantities(lots), j)
  <2> SUFFICES ASSUME NEW j \in 0..n PROVE Total(Quantities(more), j) = Total(Quantities(lots), j)
    OBVIOUS
  <2>1. j \in Nat /\ \A i \in 1..j : i \in 1..n
    BY <1>1
  <2> QED BY <1>4, <2>1, TotalsAgree
<1>6. n + 1 \in 1..(n + 1)
  BY <1>1
<1>7. Total(Quantities(more), n + 1) = Total(Quantities(more), n) + Quantities(more)[n + 1]
  BY <1>1, TotalNext
<1>8. Held(more) = Held(lots) + lot.quantity
  <2>1. n \in 0..n
    BY <1>1
  <2> QED BY <1>2, <1>3, <1>5, <1>6, <1>7, <2>1, HeldIs
<1> QED BY <1>2, <1>3, <1>5, <1>8 DEF more

\* What is left to take when the first k lots have been taken.
LEMMA TakenIs ==
    ASSUME NEW lots, NEW n, IsLotsOf(lots, n), NEW quantity \in Int
    PROVE  /\ DOMAIN TakenFrom(lots, quantity) = 1..n
           /\ \A i \in 1..n :
                LET left == quantity - Total(Quantities(lots), i - 1)
                IN  TakenFrom(lots, quantity)[i]
                      = IF left <= 0 THEN 0
                        ELSE IF left < lots[i].quantity THEN left ELSE lots[i].quantity
<1>1. /\ n \in Nat /\ DOMAIN lots = 1..n
      /\ \A i \in 1..n : Quantities(lots)[i] = lots[i].quantity /\ lots[i].quantity \in Nat
  BY HeldIs
<1>2. \A i \in 1..n : OpenIn(lots[i]) = lots[i].quantity
  BY <1>1 DEF OpenIn
<1>3. ASSUME NEW i \in 1..n
      PROVE  SumOf([j \in 1..(i - 1) |-> OpenIn(lots[j])]) = Total(Quantities(lots), i - 1)
  <2>1. \A j \in 1..(i - 1) : j \in 1..n
    BY <1>1
  <2>2. [j \in 1..(i - 1) |-> OpenIn(lots[j])] = Upto(Quantities(lots), i - 1)
    BY <1>1, <1>2, <2>1 DEF Upto
  <2> QED BY <2>2 DEF Total
<1>4. DOMAIN TakenFrom(lots, quantity) = 1..n
  BY <1>1 DEF TakenFrom
<1>5. ASSUME NEW i \in 1..n
      PROVE  TakenFrom(lots, quantity)[i]
               = LET left == quantity - Total(Quantities(lots), i - 1)
                 IN  IF left <= 0 THEN 0
                     ELSE IF left < lots[i].quantity THEN left ELSE lots[i].quantity
  BY <1>1, <1>2, <1>3 DEF TakenFrom
<1> QED BY <1>4, <1>5

\* Depleting takes from each lot no more than it holds, and together what is asked for,
\* or all there is.
LEMMA Depleted ==
    ASSUME NEW lots, NEW n, IsLotsOf(lots, n), NEW quantity \in Nat
    PROVE  LET rest == Deplete(lots, quantity)
               taken == TakenFrom(lots, quantity)
           IN  /\ IsLotsOf(rest, n)
               /\ \A i \in 1..n : /\ rest[i].source = lots[i].source
                                  /\ rest[i].quantity = lots[i].quantity - taken[i]
                                  /\ taken[i] \in Nat /\ taken[i] <= lots[i].quantity
               /\ Held(rest) = IF Held(lots) <= quantity THEN 0 ELSE Held(lots) - quantity
<1> DEFINE rest == Deplete(lots, quantity)
           taken == TakenFrom(lots, quantity)
           f == Quantities(lots)
           g == Quantities(rest)
<1>1. /\ n \in Nat /\ DOMAIN lots = 1..n
      /\ \A i \in 1..n : f[i] = lots[i].quantity /\ lots[i].quantity \in Nat
      /\ Held(lots) = Total(f, n)
  BY HeldIs
<1>2. \A k \in 0..n : Total(f, k) \in Nat
  BY <1>1, TotalType
<1>3. \A i \in 1..n :
        LET left == quantity - Total(f, i - 1)
        IN  taken[i] = IF left <= 0 THEN 0
                       ELSE IF left < lots[i].quantity THEN left ELSE lots[i].quantity
  BY TakenIs
<1>4. rest = [i \in 1..n |-> [lots[i] EXCEPT !.quantity = @ - taken[i]]]
  BY <1>1 DEF Deplete
<1> HIDE DEF rest, taken, f
<1>5. ASSUME NEW i \in 1..n PROVE taken[i] \in Nat /\ taken[i] <= lots[i].quantity
  <2>1. Total(f, i - 1) \in Nat /\ lots[i].quantity \in Nat
    BY <1>1, <1>2
  <2> QED BY <1>3, <2>1
<1>6. ASSUME NEW i \in 1..n
      PROVE  /\ IsLot(rest[i]) /\ rest[i].source = lots[i].source
             /\ rest[i].quantity = lots[i].quantity - taken[i]
  <2>1. IsLot(lots[i])
    BY DEF IsLotsOf
  <2>2. rest[i] = [lots[i] EXCEPT !.quantity = @ - taken[i]]
    BY <1>4
  <2>3. rest[i] = [source |-> lots[i].source, quantity |-> lots[i].quantity - taken[i],
                   cost |-> lots[i].cost]
    BY <2>1, <2>2 DEF IsLot
  <2>4. lots[i].quantity - taken[i] \in Nat
    BY <1>1, <1>5
  <2> QED BY <2>3, <2>4 DEF IsLot
<1>7. IsLotsOf(rest, n)
  <2>1. rest = [i \in 1..n |-> rest[i]]
    BY <1>4
  <2> QED BY <1>1, <1>6, <2>1 DEF IsLotsOf
<1>8. Held(rest) = Total(g, n) /\ \A i \in 1..n : g[i] = lots[i].quantity - taken[i]
  BY <1>6, <1>7, HeldIs
<1> HIDE DEF g
<1> DEFINE N == {k \in Nat : k <= n =>
                    Total(g, k) = IF Total(f, k) <= quantity THEN 0 ELSE Total(f, k) - quantity}
<1>9. 0 \in N
  BY TotalOfNone
<1>10. ASSUME NEW k \in N PROVE k + 1 \in N
  <2>1. k \in Nat /\ (k <= n => Total(g, k) = IF Total(f, k) <= quantity THEN 0
                                              ELSE Total(f, k) - quantity)
    OBVIOUS
  <2>2. SUFFICES ASSUME k + 1 <= n
                 PROVE  Total(g, k + 1) = IF Total(f, k + 1) <= quantity THEN 0
                                          ELSE Total(f, k + 1) - quantity
    BY <2>1
  <2> HIDE DEF N
  <2>3. k + 1 \in 1..n /\ k <= n /\ k \in 0..n
    BY <1>1, <2>1, <2>2
  <2>4. /\ Total(f, k + 1) = Total(f, k) + f[k + 1]
        /\ Total(g, k + 1) = Total(g, k) + g[k + 1]
    BY <2>1, TotalNext
  <2>5. f[k + 1] = lots[k + 1].quantity /\ f[k + 1] \in Nat /\ g[k + 1] = f[k + 1] - taken[k + 1]
    BY <1>1, <1>8, <2>3
  <2>6. LET left == quantity - Total(f, k)
        IN  taken[k + 1] = IF left <= 0 THEN 0 ELSE IF left < f[k + 1] THEN left ELSE f[k + 1]
    BY <1>3, <2>3, <2>5
  <2>7. Total(f, k) \in Nat
    BY <1>2, <2>3
  <2> QED BY <2>1, <2>3, <2>4, <2>5, <2>6, <2>7
<1> HIDE DEF N
<1>11. Nat \subseteq N
  BY <1>9, <1>10, SetInduction
<1>12. n \in N /\ n \in Int
  BY <1>1, <1>11
<1>13. Held(rest) = IF Held(lots) <= quantity THEN 0 ELSE Held(lots) - quantity
  BY <1>1, <1>8, <1>12 DEF N
<1> QED BY <1>5, <1>6, <1>7, <1>13 DEF rest, taken

\* Lots rescaled one by one are rescaled together.
LEMMA Rescaled ==
    ASSUME NEW lots, NEW n, IsLotsOf(lots, n), NEW ratio \in Nat, NEW rest,
           rest = [i \in DOMAIN lots |-> rest[i]],
           \A i \in DOMAIN lots : IsLot(rest[i]) /\ rest[i].quantity = lots[i].quantity * ratio
    PROVE  IsLotsOf(rest, n) /\ Held(rest) = Held(lots) * ratio
<1> DEFINE f == Quantities(lots)
           g == Quantities(rest)
<1>1. /\ n \in Nat /\ DOMAIN lots = 1..n
      /\ \A i \in 1..n : f[i] = lots[i].quantity /\ lots[i].quantity \in Nat
      /\ Held(lots) = Total(f, n)
  BY HeldIs
<1>2. IsLotsOf(rest, n)
  BY <1>1 DEF IsLotsOf
<1>3. Held(rest) = Total(g, n) /\ \A i \in 1..n : g[i] = rest[i].quantity
  BY <1>2, HeldIs
<1>4. \A i \in 1..n : g[i] = f[i] * ratio
  BY <1>1, <1>3
<1>5. \A k \in 0..n : Total(f, k) \in Nat
  BY <1>1, TotalType
<1> HIDE DEF f, g
<1> DEFINE N == {k \in Nat : k <= n => Total(g, k) = Total(f, k) * ratio}
<1>6. 0 \in N
  BY TotalOfNone
<1>7. ASSUME NEW k \in N PROVE k + 1 \in N
  <2>1. k \in Nat /\ (k <= n => Total(g, k) = Total(f, k) * ratio)
    OBVIOUS
  <2>2. SUFFICES ASSUME k + 1 <= n PROVE Total(g, k + 1) = Total(f, k + 1) * ratio
    BY <2>1
  <2> HIDE DEF N
  <2>3. k + 1 \in 1..n /\ k <= n /\ k \in 0..n
    BY <1>1, <2>1, <2>2
  <2>4. /\ Total(f, k + 1) = Total(f, k) + f[k + 1]
        /\ Total(g, k + 1) = Total(g, k) + g[k + 1]
    BY <2>1, TotalNext
  <2>5. Total(f, k) \in Nat /\ f[k + 1] \in Nat
    BY <1>1, <1>5, <2>3
  <2>6. (Total(f, k) + f[k + 1]) * ratio = Total(f, k) * ratio + f[k + 1] * ratio
    BY <2>5
  <2> QED BY <1>4, <2>1, <2>3, <2>4, <2>6
<1> HIDE DEF N
<1>8. Nat \subseteq N
  BY <1>6, <1>7, SetInduction
<1>9. n \in N /\ n \in Int
  BY <1>1, <1>8
<1>10. Held(rest) = Held(lots) * ratio
  BY <1>1, <1>3, <1>9 DEF N
<1> QED BY <1>2, <1>10

-----------------------------------------------------------------------------
(* What is left open: the lots that hold anything, in their order. The places  *)
(* are where the open ones stand among all.                                    *)

IsOpening(lots, open, n, c, place) ==
    /\ c \in Nat /\ IsLotsOf(open, c)
    /\ \A j \in 1..c : /\ place[j] \in 1..n /\ open[j] = lots[place[j]]
                       /\ Total(Quantities(open), j) = Total(Quantities(lots), place[j])
    /\ Held(open) = Total(Quantities(lots), n)

\* The next lot stays if it holds anything.
LEMMA WhereOpenNext ==
    ASSUME NEW lots, NEW k \in Nat
    PROVE  /\ WhereOpen(Upto(lots, 0)) = <<>>
           /\ WhereOpen(Upto(lots, k + 1))
                = IF lots[k + 1].quantity > 0 THEN Append(WhereOpen(Upto(lots, k)), lots[k + 1])
                  ELSE WhereOpen(Upto(lots, k))
<1> DEFINE n == k + 1
           open == [of |-> "open"]
<1>1. n \in Nat \ {0} /\ k = n - 1
  OBVIOUS
<1> HIDE DEF n
<1>2. /\ DOMAIN Upto(lots, n) = 1..n /\ DOMAIN Upto(lots, k) = 1..(n - 1)
      /\ \A i \in 1..(n - 1) : Upto(lots, k)[i] = Upto(lots, n)[i]
      /\ Upto(lots, n)[n] = lots[n]
      /\ DOMAIN Upto(lots, 0) = 1..0
  BY <1>1 DEF Upto
<1>3. Folded(open, <<>>, Upto(lots, n)) = Applied(open, Folded(open, <<>>, Upto(lots, k)), lots[n])
  BY <1>1, <1>2, FoldedLast
<1>4. \A x, y : Applied(open, x, y) = IF y.quantity > 0 THEN Append(x, y) ELSE x
  BY DEF Applied
<1>5. WhereOpen(Upto(lots, 0)) = <<>>
  BY <1>2, FoldedNone, OpenFolded
<1>6. WhereOpen(Upto(lots, n)) = IF lots[n].quantity > 0
                                 THEN Append(WhereOpen(Upto(lots, k)), lots[n])
                                 ELSE WhereOpen(Upto(lots, k))
  BY <1>3, <1>4, OpenFolded
<1> QED BY <1>5, <1>6 DEF n

\* The open lots are those that hold anything, in their order.
LEMMA OpenLotsAre ==
    ASSUME NEW lots, NEW n, IsLotsOf(lots, n)
    PROVE  \E c, place : IsOpening(lots, WhereOpen(lots), n, c, place)
<1> DEFINE q == Quantities(lots)
           W(k) == WhereOpen(Upto(lots, k))
           N == {k \in Nat : k <= n => \E c, place : IsOpening(lots, W(k), k, c, place)}
<1>1. /\ n \in Nat /\ DOMAIN lots = 1..n
      /\ \A i \in 1..n : q[i] = lots[i].quantity /\ lots[i].quantity \in Nat
      /\ \A i \in 1..n : IsLot(lots[i])
  BY HeldIs DEF IsLotsOf
<1>2. 0 \in N
  <2>1. W(0) = <<>>
    BY WhereOpenNext
  <2>2. IsOpening(lots, <<>>, 0, 0, <<>>)
    BY NoLotsHold, TotalOfNone DEF IsOpening
  <2> QED BY <2>1, <2>2
<1>3. ASSUME NEW k \in N PROVE k + 1 \in N
  <2>1. k \in Nat /\ (k <= n => \E c, place : IsOpening(lots, W(k), k, c, place))
    OBVIOUS
  <2>2. SUFFICES ASSUME k + 1 <= n
                 PROVE  \E c, place : IsOpening(lots, W(k + 1), k + 1, c, place)
    BY <2>1
  <2> HIDE DEF N
  <2>3. k + 1 \in 1..n /\ k <= n /\ 1..k \subseteq 1..(k + 1) /\ k + 1 \in 1..(k + 1)
    BY <1>1, <2>1, <2>2
  <2>4. PICK c, place : IsOpening(lots, W(k), k, c, place)
    BY <2>1, <2>3
  <2>5. W(k + 1) = IF lots[k + 1].quantity > 0 THEN Append(W(k), lots[k + 1]) ELSE W(k)
    BY <2>1, WhereOpenNext
  <2>6. Total(q, k + 1) = Total(q, k) + lots[k + 1].quantity /\ lots[k + 1].quantity \in Nat
    BY <1>1, <2>1, <2>3, TotalNext
  <2> HIDE DEF W, q
  <2>7. CASE lots[k + 1].quantity > 0
    <3> DEFINE open == W(k)
               more == W(k + 1)
               at == [j \in 1..(c + 1) |-> IF j = c + 1 THEN k + 1 ELSE place[j]]
    <3>1. more = Append(open, lots[k + 1])
      BY <2>5, <2>7
    <3> HIDE DEF open, more
    <3>2. /\ c \in Nat /\ IsLotsOf(open, c) /\ Held(open) = Total(q, k)
          /\ \A j \in 1..c : /\ place[j] \in 1..k /\ open[j] = lots[place[j]]
                             /\ Total(Quantities(open), j) = Total(q, place[j])
      BY <2>4 DEF IsOpening, open, q
    <3>3. IsLot(lots[k + 1])
      BY <1>1, <2>3
    <3>4. /\ IsLotsOf(more, c + 1)
          /\ Held(more) = Held(open) + lots[k + 1].quantity
          /\ more[c + 1] = lots[k + 1]
          /\ \A i \in 1..c : more[i] = open[i]
          /\ \A j \in 0..c : Total(Quantities(more), j) = Total(Quantities(open), j)
      <4> DEFINE lot == lots[k + 1]
      <4>1. IsLot(lot) /\ IsLotsOf(open, c) /\ more = Append(open, lot)
        BY <3>1, <3>2, <3>3
      <4> HIDE DEF lot
      <4>2. /\ IsLotsOf(Append(open, lot), c + 1)
            /\ Held(Append(open, lot)) = Held(open) + lot.quantity
            /\ Append(open, lot)[c + 1] = lot
            /\ \A i \in 1..c : Append(open, lot)[i] = open[i]
            /\ \A j \in 0..c : Total(Quantities(Append(open, lot)), j) = Total(Quantities(open), j)
        BY <4>1, LotAppended
      <4> QED BY <4>1, <4>2 DEF lot
    <3>5. Held(more) = Total(q, k + 1)
      BY <2>6, <3>2, <3>4
    <3>6. Held(more) = Total(Quantities(more), c + 1)
      BY <3>4, HeldIs
    <3>8. \A j \in 1..c : Total(Quantities(more), j) = Total(Quantities(open), j)
      <4>1. \A j \in 1..c : j \in 0..c
        BY <3>2
      <4> QED BY <3>4, <4>1
    <3>9. at[c + 1] = k + 1 /\ \A j \in 1..c : at[j] = place[j]
      BY <3>2
    <3> HIDE DEF at
    <3>10. ASSUME NEW j \in 1..(c + 1)
           PROVE  /\ at[j] \in 1..(k + 1) /\ more[j] = lots[at[j]]
                  /\ Total(Quantities(more), j) = Total(q, at[j])
      <4>1. CASE j = c + 1
        BY <2>3, <3>4, <3>5, <3>6, <3>9, <4>1
      <4>2. CASE j \in 1..c
        <5>1. place[j] \in 1..(k + 1)
          BY <2>3, <3>2, <4>2
        <5> QED BY <3>2, <3>4, <3>8, <3>9, <4>2, <5>1
      <4> QED BY <3>2, <4>1, <4>2
    <3>11. c + 1 \in Nat
      BY <3>2
    <3>12. IsOpening(lots, more, k + 1, c + 1, at)
      BY <3>4, <3>5, <3>10, <3>11 DEF IsOpening, q
    <3> QED BY <3>12 DEF more
  <2>8. CASE ~(lots[k + 1].quantity > 0)
    <3>1. W(k + 1) = W(k) /\ Total(q, k + 1) = Total(q, k)
      <4>1. lots[k + 1].quantity = 0
        BY <2>6, <2>8
      <4>2. Total(q, k) \in Int
        <5>1. \A i \in 0..n : Total(q, i) \in Nat
          BY <1>1, TotalType DEF q
        <5> QED BY <2>1, <2>3, <5>1
      <4> QED BY <2>5, <2>6, <2>8, <4>1, <4>2
    <3>2. IsOpening(lots, W(k + 1), k + 1, c, place)
      BY <2>3, <2>4, <3>1 DEF IsOpening, q
    <3> QED BY <3>2
  <2> QED BY <2>7, <2>8
<1> HIDE DEF N
<1>4. Nat \subseteq N
  BY <1>2, <1>3, SetInduction
<1>5. n \in N /\ n <= n
  BY <1>1, <1>4
<1>6. Upto(lots, n) = lots
  BY <1>1 DEF IsLotsOf, Upto
<1> QED BY <1>5, <1>6 DEF N

\* Leaving out the lots that are empty leaves nothing out.
LEMMA OpenLotsHoldAll ==
    ASSUME NEW lots, NEW n, IsLotsOf(lots, n)
    PROVE  Held(WhereOpen(lots)) = Held(lots)
<1>1. PICK c, place : IsOpening(lots, WhereOpen(lots), n, c, place)
  BY OpenLotsAre
<1> QED BY <1>1, HeldIs DEF IsOpening

-----------------------------------------------------------------------------
(* The two replays of one history.                                            *)

IsPosition(position) ==
    /\ position = [quantity |-> position.quantity, average |-> position.average]
    /\ position.quantity \in Int

\* A step whose numbers are numbers.
IsMeasured(s) ==
    /\ IsCorporateAction(s) \/ s.kind \in {"buy", "sell", "transferOut", "fee"}
    /\ s.kind \in {"buy", "sell", "transferOut"} => s.quantity \in Nat
    /\ s.kind = "split" => s.ratio \in Nat
    /\ s.kind \in {"mergerTarget", "spinOffNew"} => s.quantity \in Int

BringsIn(s) == s.kind \in {"mergerTarget", "spinOffNew"} => s.quantity \in Nat

\* What a step does to the quantity of a position.
LEMMA PositionAfter ==
    ASSUME NEW position, IsPosition(position), NEW s, IsMeasured(s),
           NEW after, after = ApplyToPosition(position, s)
    PROVE  /\ IsPosition(after)
           /\ s.kind \in {"buy", "mergerTarget", "spinOffNew"} =>
                after.quantity = position.quantity + s.quantity
           /\ IsDecrease(s) => after.quantity = position.quantity - s.quantity
           /\ s.kind = "split" => after.quantity = position.quantity * s.ratio
           /\ s.kind = "mergerSource" => after.quantity = 0
           /\ s.kind \in {"spinOffParent", "fee"} => after.quantity = position.quantity
<1>1. CASE s.kind = "buy"
  BY <1>1 DEF ApplyToPosition, ReceiveIntoPosition, IsDecrease, IsPosition, IsMeasured
<1>2. CASE s.kind \in {"sell", "transferOut"}
  <2>1. after = [position EXCEPT !.quantity = @ - s.quantity]
    BY <1>2 DEF ApplyToPosition, IsDecrease
  <2> QED BY <1>2, <2>1 DEF IsDecrease, IsPosition, IsMeasured
<1>3. CASE s.kind = "split"
  BY <1>3 DEF ApplyToPosition, RescalePosition, IsDecrease, IsPosition, IsMeasured
<1>4. CASE s.kind = "mergerSource"
  BY <1>4 DEF ApplyToPosition, ClosedPosition, IsDecrease, IsPosition, IsMeasured
<1>5. CASE s.kind \in {"mergerTarget", "spinOffNew"}
  BY <1>5 DEF ApplyToPosition, ReceiveIntoPosition, IsDecrease, IsPosition, IsMeasured
<1>6. CASE s.kind = "spinOffParent"
  <2>1. after = [position EXCEPT !.average = RetainedOf(@, s)]
    BY <1>6 DEF ApplyToPosition, IsDecrease
  <2> QED BY <1>6, <2>1 DEF IsDecrease, IsPosition, IsMeasured
<1>7. CASE s.kind = "fee"
  BY <1>7 DEF ApplyToPosition, IsDecrease, IsPosition, IsMeasured
<1> QED BY <1>1, <1>2, <1>3, <1>4, <1>5, <1>6, <1>7 DEF IsMeasured, IsCorporateAction

\* What a step does to the quantity the lots hold.
LEMMA LotsAfter ==
    ASSUME NEW lots, IsLots(lots), NEW s, IsMeasured(s), BringsIn(s),
           NEW after, after = ApplyToLots(lots, s)
    PROVE  /\ IsLots(after)
           /\ s.kind \in {"buy", "mergerTarget", "spinOffNew"} =>
                Held(after) = Held(lots) + s.quantity
           /\ IsDecrease(s) /\ s.quantity <= Held(lots) =>
                Held(after) = Held(lots) - s.quantity
           /\ s.kind = "split" => Held(after) = Held(lots) * s.ratio
           /\ s.kind = "mergerSource" => Held(after) = 0
           /\ s.kind \in {"spinOffParent", "fee"} => Held(after) = Held(lots)
<1>0. PICK n : IsLotsOf(lots, n)
  BY DEF IsLots
<1>held. Held(lots) \in Nat /\ n \in Nat /\ DOMAIN lots = 1..n
  <2>1. /\ n \in Nat /\ DOMAIN lots = 1..n
        /\ \A i \in 1..n : Quantities(lots)[i] \in Nat
        /\ Held(lots) = Total(Quantities(lots), n)
    BY <1>0, HeldIs
  <2>2. n \in 0..n
    BY <2>1
  <2> QED BY <2>1, <2>2, TotalType
<1>1. CASE s.kind = "buy"
  <2> DEFINE lot == [source |-> s.id, quantity |-> s.quantity, cost |-> s.price]
  <2>1. after = Append(lots, lot)
    BY <1>1 DEF ApplyToLots, IsDecrease
  <2>2. IsLot(lot) /\ lot.quantity = s.quantity
    BY <1>1 DEF IsLot, IsMeasured
  <2> HIDE DEF lot
  <2>3. IsLotsOf(after, n + 1) /\ Held(after) = Held(lots) + s.quantity
    BY <1>0, <2>1, <2>2, LotAppended
  <2>4. n + 1 \in Nat
    BY <1>held
  <2> QED BY <1>1, <2>3, <2>4 DEF IsLots, IsDecrease
<1>2. CASE s.kind \in {"sell", "transferOut"}
  <2>1. after = Deplete(lots, s.quantity) /\ s.quantity \in Nat
    BY <1>2 DEF ApplyToLots, IsDecrease, IsMeasured
  <2>2. /\ IsLotsOf(after, n)
        /\ Held(after) = IF Held(lots) <= s.quantity THEN 0 ELSE Held(lots) - s.quantity
    BY <1>0, <2>1, Depleted
  <2> QED BY <1>2, <1>held, <2>1, <2>2 DEF IsLots, IsDecrease
<1>3. CASE s.kind = "split"
  <2>1. after = [i \in DOMAIN lots |->
                    [lots[i] EXCEPT !.quantity = @ * s.ratio, !.cost = Divide(@, s.ratio)]]
    BY <1>3 DEF ApplyToLots, IsDecrease
  <2>2. s.ratio \in Nat
    BY <1>3 DEF IsMeasured
  <2>3. ASSUME NEW i \in DOMAIN lots
        PROVE  IsLot(after[i]) /\ after[i].quantity = lots[i].quantity * s.ratio
    <3>1. IsLot(lots[i])
      BY <1>0, <1>held DEF IsLotsOf
    <3>2. after[i] = [lots[i] EXCEPT !.quantity = @ * s.ratio, !.cost = Divide(@, s.ratio)]
      BY <2>1
    <3>3. after[i] = [source |-> lots[i].source, quantity |-> lots[i].quantity * s.ratio,
                      cost |-> Divide(lots[i].cost, s.ratio)]
      BY <3>1, <3>2 DEF IsLot
    <3>4. lots[i].quantity * s.ratio \in Nat
      BY <2>2, <3>1 DEF IsLot
    <3> QED BY <3>3, <3>4 DEF IsLot
  <2>4. after = [i \in DOMAIN lots |-> after[i]]
    BY <2>1
  <2>5. IsLotsOf(after, n) /\ Held(after) = Held(lots) * s.ratio
    BY <1>0, <2>2, <2>3, <2>4, Rescaled
  <2> QED BY <1>3, <1>held, <2>5 DEF IsLots, IsDecrease
<1>4. CASE s.kind = "mergerSource"
  <2>1. after = <<>>
    BY <1>4 DEF ApplyToLots, IsDecrease
  <2> QED BY <1>4, <2>1, NoLotsHold DEF IsLots, IsDecrease
<1>5. CASE s.kind \in {"mergerTarget", "spinOffNew"}
  <2>1. after = Append(lots, CarriedLot(s))
    BY <1>5 DEF ApplyToLots, IsDecrease
  <2>2. IsLot(CarriedLot(s)) /\ CarriedLot(s).quantity = s.quantity
    BY <1>5 DEF IsLot, BringsIn, CarriedLot
  <2>3. IsLotsOf(after, n + 1) /\ Held(after) = Held(lots) + s.quantity
    BY <1>0, <2>1, <2>2, LotAppended
  <2>4. n + 1 \in Nat
    BY <1>held
  <2> QED BY <1>5, <2>3, <2>4 DEF IsLots, IsDecrease
<1>6. CASE s.kind = "spinOffParent"
  <2>1. after = [i \in DOMAIN lots |-> [lots[i] EXCEPT !.cost = RetainedOf(@, s)]]
    BY <1>6 DEF ApplyToLots, IsDecrease
  <2>2. ASSUME NEW i \in DOMAIN lots
        PROVE  IsLot(after[i]) /\ after[i].quantity = lots[i].quantity * 1
    <3>1. IsLot(lots[i])
      BY <1>0, <1>held DEF IsLotsOf
    <3>2. after[i] = [lots[i] EXCEPT !.cost = RetainedOf(@, s)]
      BY <2>1
    <3>3. after[i] = [source |-> lots[i].source, quantity |-> lots[i].quantity,
                      cost |-> RetainedOf(lots[i].cost, s)]
      BY <3>1, <3>2 DEF IsLot
    <3> QED BY <3>1, <3>3 DEF IsLot
  <2>3. after = [i \in DOMAIN lots |-> after[i]]
    BY <2>1
  <2>4. IsLotsOf(after, n) /\ Held(after) = Held(lots) * 1
    BY <1>0, <2>2, <2>3, Rescaled
  <2> QED BY <1>6, <1>held, <2>4 DEF IsLots, IsDecrease
<1>7. CASE s.kind = "fee"
  BY <1>7 DEF ApplyToLots, IsDecrease
<1> QED BY <1>1, <1>2, <1>3, <1>4, <1>5, <1>6, <1>7 DEF IsMeasured, IsCorporateAction

\* A replayed position is one.
LEMMA PositionIsTyped ==
    ASSUME NEW S, IsOrdered(S), \A s \in S : IsMeasured(s)
    PROVE  IsPosition(ReplayAveragePosition(S))
<1> DEFINE Good == {T \in SUBSET S : IsPosition(ReplayAveragePosition(T))}
<1>1. {} \in Good
  BY ReplayNone DEF ClosedPosition, IsPosition
<1>2. ASSUME NEW T \in SUBSET S, NEW m \in T, IsLast(m, T), T \ {m} \in Good PROVE T \in Good
  <2>1. IsPosition(ReplayAveragePosition(T \ {m})) /\ IsMeasured(m)
    BY <1>2
  <2>2. IsOrdered(T)
    BY OrderedSubset
  <2>3. ReplayAveragePosition(T) = ApplyToPosition(ReplayAveragePosition(T \ {m}), m)
    BY <1>2, <2>2, ReplayLast
  <2>4. IsPosition(ReplayAveragePosition(T))
    BY <2>1, <2>3, PositionAfter
  <2> QED BY <2>4
<1> HIDE DEF Good
<1>3. \A T \in SUBSET S : T \in Good
  BY <1>1, <1>2, StepsInduction
<1>4. S \in Good
  BY <1>3
<1> QED BY <1>4 DEF Good

\* Where every sale is covered, so is the last one, and so are the others without it.
LEMMA CoveredWithoutLast ==
    ASSUME NEW S, IsOrdered(S), NEW m \in S, IsLast(m, S), FindNoUncoveredSale(S)
    PROVE  /\ FindNoUncoveredSale(S \ {m})
           /\ IsDecrease(m) => m.quantity <= ReplayAveragePosition(S \ {m}).quantity
<1>1. /\ Before(m, S) = S \ {m}
      /\ \A s \in S \ {m} : Before(s, S) = Before(s, S \ {m})
  BY BeforeLast
<1> QED BY <1>1 DEF FindNoUncoveredSale

\* The open lots hold what the position holds, as long as no sale was uncovered.
LEMMA LotsHoldThePosition ==
    ASSUME NEW S, IsOrdered(S), \A s \in S : IsMeasured(s) /\ BringsIn(s),
           FindNoUncoveredSale(S)
    PROVE  IsLots(LotsOf(S)) /\ Held(LotsOf(S)) = ReplayAveragePosition(S).quantity
<1> DEFINE Good == {T \in SUBSET S : FindNoUncoveredSale(T) =>
                      /\ IsLots(LotsOf(T))
                      /\ Held(LotsOf(T)) = ReplayAveragePosition(T).quantity}
<1>1. {} \in Good
  <2>1. IsLots(<<>>) /\ Held(<<>>) = 0 /\ ClosedPosition.quantity = 0
    BY NoLotsHold DEF IsLots, ClosedPosition
  <2>2. IsLots(LotsOf({})) /\ Held(LotsOf({})) = ReplayAveragePosition({}).quantity
    BY <2>1, ReplayNone
  <2> QED BY <2>2
<1>2. ASSUME NEW T \in SUBSET S, NEW m \in T, IsLast(m, T), T \ {m} \in Good PROVE T \in Good
  <2>1. SUFFICES ASSUME FindNoUncoveredSale(T)
                 PROVE  /\ IsLots(LotsOf(T))
                        /\ Held(LotsOf(T)) = ReplayAveragePosition(T).quantity
    OBVIOUS
  <2>2. FindNoUncoveredSale(T \ {m}) =>
          /\ IsLots(LotsOf(T \ {m}))
          /\ Held(LotsOf(T \ {m})) = ReplayAveragePosition(T \ {m}).quantity
    BY <1>2
  <2> HIDE DEF Good
  <2>3. IsOrdered(T) /\ IsOrdered(T \ {m}) /\ IsMeasured(m) /\ BringsIn(m)
    BY OrderedSubset
  <2> DEFINE lots == LotsOf(T \ {m})
             position == ReplayAveragePosition(T \ {m})
  <2>4. /\ LotsOf(T) = ApplyToLots(lots, m)
        /\ ReplayAveragePosition(T) = ApplyToPosition(position, m)
    BY <1>2, <2>3, ReplayLast
  <2>5. /\ IsLots(lots) /\ Held(lots) = position.quantity
        /\ IsDecrease(m) => m.quantity <= position.quantity
    BY <1>2, <2>1, <2>2, <2>3, CoveredWithoutLast
  <2>6. IsPosition(position)
    BY <2>3, PositionIsTyped
  <2> HIDE DEF lots, position
  <2> DEFINE after == ApplyToLots(lots, m)
             then == ApplyToPosition(position, m)
  <2>7. /\ IsLots(after)
        /\ m.kind \in {"buy", "mergerTarget", "spinOffNew"} => Held(after) = Held(lots) + m.quantity
        /\ IsDecrease(m) /\ m.quantity <= Held(lots) => Held(after) = Held(lots) - m.quantity
        /\ m.kind = "split" => Held(after) = Held(lots) * m.ratio
        /\ m.kind = "mergerSource" => Held(after) = 0
        /\ m.kind \in {"spinOffParent", "fee"} => Held(after) = Held(lots)
    BY <2>3, <2>5, LotsAfter
  <2>8. /\ m.kind \in {"buy", "mergerTarget", "spinOffNew"} =>
              then.quantity = position.quantity + m.quantity
        /\ IsDecrease(m) => then.quantity = position.quantity - m.quantity
        /\ m.kind = "split" => then.quantity = position.quantity * m.ratio
        /\ m.kind = "mergerSource" => then.quantity = 0
        /\ m.kind \in {"spinOffParent", "fee"} => then.quantity = position.quantity
    BY <2>3, <2>6, PositionAfter
  <2> HIDE DEF after, then
  <2>9. Held(after) = then.quantity
    BY <2>3, <2>5, <2>7, <2>8 DEF IsMeasured, IsCorporateAction, IsDecrease
  <2> QED BY <2>4, <2>7, <2>9 DEF after, then
<1> HIDE DEF Good
<1>3. \A T \in SUBSET S : T \in Good
  BY <1>1, <1>2, StepsInduction
<1>4. S \in Good
  BY <1>3
<1> QED BY <1>4 DEF Good

-----------------------------------------------------------------------------
(* The numbers of the corporate actions, and how many steps there are.        *)

IsCounted(h) ==
    /\ IsFiniteSet(IdsOf(h)) /\ IsFiniteSet(DOMAIN h.corporateActions)
    /\ \A id \in DOMAIN h.corporateActions : IsMeasured(h.corporateActions[id])

AllCounted == \A a \in Assets : IsCounted(holdings[a])

\* A function of finitely many arguments has finitely many values.
LEMMA RangeIsFinite ==
    ASSUME NEW f, IsFiniteSet(DOMAIN f)
    PROVE  IsFiniteSet(RangeOf(f))
<1> DEFINE g == [k \in DOMAIN f |-> f[k]]
<1>1. g \in Surjection(DOMAIN f, RangeOf(f))
  BY DEF Surjection, RangeOf
<1> QED BY <1>1, FS_Surjection

\* Ids tell the steps of a holding apart.
LEMMA StepsAreOrdered ==
    ASSUME NEW h, IsHolding(h), IsCounted(h)
    PROVE  IsOrdered(Steps(h)) /\ \A s \in Steps(h) : IsMeasured(s)
<1>1. IsFiniteSet(Steps(h))
  <2>1. IsFiniteSet(DOMAIN h.transactions)
    <3>1. DOMAIN h.transactions \in SUBSET IdsOf(h) /\ IsFiniteSet(IdsOf(h))
      BY DEF IdsOf, IsCounted
    <3> QED BY <3>1, FS_Subset
  <2>2. IsFiniteSet(RangeOf(h.transactions)) /\ IsFiniteSet(RangeOf(h.corporateActions))
    BY <2>1, RangeIsFinite DEF IsCounted
  <2> QED BY <2>2, FS_Union DEF Steps
<1>2. \A k \in DOMAIN h.transactions :
        LET t == h.transactions[k]
        IN  /\ k \in TransactionIds /\ t.id = k /\ t.date \in Dates
            /\ t.kind \in {"buy", "sell", "transferOut", "fee"} /\ t.quantity \in Nat
  BY DEF IsHolding, IsTransaction
<1>3. \A k \in DOMAIN h.corporateActions :
        LET ca == h.corporateActions[k]
        IN  k \in ActionIds /\ ca.id = k /\ ca.date \in Dates /\ IsMeasured(ca)
  BY DEF IsHolding, IsAction, IsCounted
<1>4. /\ TransactionIds \subseteq Int /\ ActionIds \subseteq Int /\ Dates \subseteq Int
      /\ TransactionIds \cap ActionIds = {}
  BY HoldingsAssumption DEF HoldingsAssumption
<1>5. \A k \in DOMAIN h.transactions : IsMeasured(h.transactions[k])
  BY <1>2 DEF IsMeasured
<1>6. \A s \in Steps(h) : /\ s.id \in Int /\ s.date \in Int /\ IsMeasured(s)
                          /\ \/ /\ s.id \in DOMAIN h.transactions
                                /\ s.id \in TransactionIds /\ s = h.transactions[s.id]
                             \/ /\ s.id \in DOMAIN h.corporateActions
                                /\ s.id \in ActionIds /\ s = h.corporateActions[s.id]
  <2> SUFFICES ASSUME NEW s \in Steps(h)
               PROVE  /\ s.id \in Int /\ s.date \in Int /\ IsMeasured(s)
                      /\ \/ /\ s.id \in DOMAIN h.transactions
                            /\ s.id \in TransactionIds /\ s = h.transactions[s.id]
                         \/ /\ s.id \in DOMAIN h.corporateActions
                            /\ s.id \in ActionIds /\ s = h.corporateActions[s.id]
    OBVIOUS
  <2>1. CASE s \in RangeOf(h.transactions)
    <3>1. PICK k \in DOMAIN h.transactions : s = h.transactions[k]
      BY <2>1 DEF RangeOf
    <3> QED BY <1>2, <1>4, <1>5, <3>1
  <2>2. CASE s \in RangeOf(h.corporateActions)
    <3>1. PICK k \in DOMAIN h.corporateActions : s = h.corporateActions[k]
      BY <2>2 DEF RangeOf
    <3> QED BY <1>3, <1>4, <3>1
  <2> QED BY <2>1, <2>2 DEF Steps
<1> QED BY <1>1, <1>4, <1>6 DEF IsOrdered

\* A change of one transaction or corporate action leaves the steps finitely many.
LEMMA CountedAfter ==
    ASSUME NEW h, IsCounted(h), NEW g, NEW i, IdsOf(g) \subseteq IdsOf(h) \union {i},
           NEW id, ActionsBut(g.corporateActions, h, id),
           id \in DOMAIN g.corporateActions => IsMeasured(g.corporateActions[id])
    PROVE  IsCounted(g)
<1>1. IsFiniteSet(IdsOf(g))
  BY FS_AddElement, FS_Subset DEF IsCounted
<1>2. DOMAIN g.corporateActions \in SUBSET (DOMAIN h.corporateActions \union {id})
  BY DEF ActionsBut
<1>3. IsFiniteSet(DOMAIN g.corporateActions)
  <2>1. IsFiniteSet(DOMAIN h.corporateActions \union {id})
    BY FS_AddElement DEF IsCounted
  <2> QED BY <1>2, <2>1, FS_Subset
<1> QED BY <1>1, <1>3 DEF IsCounted, ActionsBut

\* So does one that leaves the corporate actions alone.
LEMMA CountedSame ==
    ASSUME NEW h, IsCounted(h), NEW g, NEW i, IdsOf(g) \subseteq IdsOf(h) \union {i},
           g.corporateActions = h.corporateActions
    PROVE  IsCounted(g)
<1>1. IsFiniteSet(IdsOf(g))
  BY FS_AddElement, FS_Subset DEF IsCounted
<1> QED BY <1>1 DEF IsCounted

\* The ratio of a split is a number.
LEMMA SplitIsMeasured ==
    ASSUME NEW id, NEW date, NEW factor \in Factors
    PROVE  IsMeasured(Split(id, date, factor))
<1>1. factor \in Nat
  BY HoldingsAssumption DEF HoldingsAssumption
<1> QED BY <1>1 DEF Split, IsMeasured, IsCorporateAction

\* A merger converts the position there is, whatever the transactions have made of it.
LEMMA MergerIsMeasured ==
    ASSUME NEW h, IsHolding(h), IsCounted(h), NEW a, NEW b, NEW id,
           NEW pair \in EnteredMergers(h, a, b, id)
    PROVE  IsMeasured(pair.own) /\ IsMeasured(pair.other)
<1>1. PICK date \in Dates, factor \in Factors : pair = MergerPair(h, a, b, id, date, factor)
  BY DEF EnteredMergers
<1> DEFINE S == {s \in Steps(h) : s.date < date \/ (s.date = date /\ IsCorporateAction(s))}
           quantity == ReplayAveragePosition(S).quantity
<1>2. IsOrdered(S) /\ \A s \in S : IsMeasured(s)
  BY StepsAreOrdered, OrderedSubset
<1>3. PositionAsOf(Steps(h), date) = ReplayAveragePosition(S)
  BY DEF PositionAsOf
<1> HIDE DEF S
<1>4. quantity \in Int
  BY <1>2, PositionIsTyped DEF IsPosition
<1>5. factor \in Int
  BY HoldingsAssumption DEF HoldingsAssumption
<1> HIDE DEF quantity
<1>6. quantity * factor \in Int
  BY <1>4, <1>5
<1>7. PICK carried :
        /\ pair.own = Half(id, "mergerSource", date, b, quantity * factor, carried, factor)
        /\ pair.other = Half(id, "mergerTarget", date, a, quantity * factor, carried, NoRatio)
  BY <1>1, <1>3 DEF MergerPair, quantity
<1> QED BY <1>6, <1>7 DEF Half, IsMeasured, IsCorporateAction

\* The quantity of a spin-off is the one entered.
LEMMA SpinOffIsMeasured ==
    ASSUME NEW h, NEW a, NEW b, NEW id, NEW pair \in EnteredSpinOffs(h, a, b, id)
    PROVE  IsMeasured(pair.own) /\ IsMeasured(pair.other)
<1>1. PICK date \in Dates, m \in Amounts, percentage \in Percentages :
        pair = SpinOffPair(h, a, b, id, date, m.quantity, percentage)
  BY DEF EnteredSpinOffs
<1>2. m.quantity \in Int
  BY HoldingsAssumption DEF HoldingsAssumption
<1>3. PICK carried :
        /\ pair.own = Half(id, "spinOffParent", date, b, m.quantity, carried, percentage)
        /\ pair.other = Half(id, "spinOffNew", date, a, m.quantity, carried, NoRatio)
  BY <1>1 DEF SpinOffPair
<1> QED BY <1>2, <1>3 DEF Half, IsMeasured, IsCorporateAction

\* A step that changes one holding.
LEMMA OneCounted ==
    ASSUME IInv, AllCounted, NEW a \in Assets, NEW g, holdings' = [holdings EXCEPT ![a] = g],
           IsCounted(g)
    PROVE  AllCounted'
<1>1. holdings'[a] = g /\ \A b \in Assets \ {a} : holdings'[b] = holdings[b]
  BY DEF IInv, IsHoldings
<1> QED BY <1>1 DEF AllCounted

\* A step that changes two holdings.
LEMMA TwoCounted ==
    ASSUME IInv, AllCounted, NEW a \in Assets, NEW b \in Assets \ {a}, NEW g, NEW l,
           holdings' = [holdings EXCEPT ![a] = g, ![b] = l], IsCounted(g), IsCounted(l)
    PROVE  AllCounted'
<1>1. holdings'[a] = g /\ holdings'[b] = l /\ \A c \in Assets \ {a, b} : holdings'[c] = holdings[c]
  BY DEF IInv, IsHoldings
<1> QED BY <1>1 DEF AllCounted

\* The services of transactions.
LEMMA TransactionsCounted ==
    ASSUME IInv, AllCounted, NEW a \in Assets,
           AddTransaction(a) \/ UpdateTransaction(a) \/ DeleteTransaction(a)
    PROVE  AllCounted'
<1> USE DatesAreNumbers
<1> DEFINE h == holdings[a]
           m == costBasisMethod
<1>1. IsSound(h, m, retyped) /\ m \in Methods /\ IsCounted(h)
  BY DEF IInv, IsHoldings, AllCounted
<1>2. ASSUME NEW g, NEW i, holdings' = [holdings EXCEPT ![a] = g],
             IdsOf(g) \subseteq IdsOf(h) \union {i}, g.corporateActions = h.corporateActions
      PROVE  AllCounted'
  BY <1>1, <1>2, CountedSame, OneCounted
<1>3. CASE AddTransaction(a)
  <2>1. PICK id \in TransactionIds :
            /\ Unused(id)
            /\ \E t \in Entered(id) : \E al : \E g \in TransactionRecorded(h, t, m, al) :
                  holdings' = [holdings EXCEPT ![a] = g]
    BY <1>3 DEF AddTransaction
  <2>2. PICK t \in Entered(id) : \E al : \E g \in TransactionRecorded(h, t, m, al) :
                  holdings' = [holdings EXCEPT ![a] = g]
    BY <2>1
  <2>3. PICK al : \E g \in TransactionRecorded(h, t, m, al) : holdings' = [holdings EXCEPT ![a] = g]
    BY <2>2
  <2>4. PICK g \in TransactionRecorded(h, t, m, al) : holdings' = [holdings EXCEPT ![a] = g]
    BY <2>3
  <2>5. t.id = id /\ IsTransaction(t, t.id)
    BY EnteredTransaction
  <2>6. t.id \notin DOMAIN h.transactions /\ t.id \notin DOMAIN h.disposalRecords
    BY <2>1, <2>5 DEF Unused
  <2>7. g.corporateActions = h.corporateActions /\ IdsOf(g) \subseteq IdsOf(h) \union {t.id}
    BY <1>1, <2>4, <2>5, <2>6, RecordedSound
  <2> HIDE DEF h, m
  <2> QED BY <1>2, <2>4, <2>7
<1>4. CASE UpdateTransaction(a)
  <2>1. PICK id \in DOMAIN h.transactions :
            \E t \in Entered(id) : \E g \in TransactionRevised(h, t, m) :
                holdings' = [holdings EXCEPT ![a] = g]
    BY <1>4 DEF UpdateTransaction
  <2>2. PICK t \in Entered(id) : \E g \in TransactionRevised(h, t, m) :
                holdings' = [holdings EXCEPT ![a] = g]
    BY <2>1
  <2>3. PICK g \in TransactionRevised(h, t, m) : holdings' = [holdings EXCEPT ![a] = g]
    BY <2>2
  <2>4. t.id = id /\ IsTransaction(t, t.id)
    BY EnteredTransaction
  <2> DEFINE q == retyped \union {id}
  <2>5. retyped \subseteq q /\ t.id \in q
    BY <2>4
  <2> HIDE DEF h, m, q
  <2>6. g.corporateActions = h.corporateActions /\ IdsOf(g) \subseteq IdsOf(h)
    BY <1>1, <2>1, <2>3, <2>4, <2>5, RevisedSound
  <2>7. IdsOf(g) \subseteq IdsOf(h) \union {id}
    BY <2>6
  <2> QED BY <1>2, <2>3, <2>6, <2>7
<1>5. CASE DeleteTransaction(a)
  <2>1. PICK id \in DOMAIN h.transactions : \E g \in TransactionRetracted(h, id, m) :
            holdings' = [holdings EXCEPT ![a] = g]
    BY <1>5 DEF DeleteTransaction
  <2>2. PICK g \in TransactionRetracted(h, id, m) : holdings' = [holdings EXCEPT ![a] = g]
    BY <2>1
  <2>3. PICK q : \A i : i \in q <=> i \in retyped /\ (i # id \/ i \in DOMAIN g.disposalRecords)
    <3> WITNESS {i \in retyped : i # id \/ i \in DOMAIN g.disposalRecords}
    <3> QED OBVIOUS
  <2> HIDE DEF h, m
  <2>4. g.corporateActions = h.corporateActions /\ IdsOf(g) \subseteq IdsOf(h)
    BY <1>1, <2>2, <2>3, RetractedSound
  <2>5. IdsOf(g) \subseteq IdsOf(h) \union {id}
    BY <2>4
  <2> QED BY <1>2, <2>2, <2>4, <2>5
<1> QED BY <1>3, <1>4, <1>5

\* A holding after a change of one corporate action.
LEMMA ActedCounted ==
    ASSUME NEW h, IsCounted(h), NEW g, NEW id, NEW m, NEW r, IsActed(g, h, id, m, r),
           id \in DOMAIN g.corporateActions => IsMeasured(g.corporateActions[id])
    PROVE  IsCounted(g)
<1>1. /\ IdsOf(g) \subseteq IdsOf(h) \union {id}
      /\ ActionsBut(g.corporateActions, h, id)
  BY DEF IsActed
<1> QED BY <1>1, CountedAfter

\* The services of splits.
LEMMA SplitsCounted ==
    ASSUME IInv, AllCounted, NEW a \in Assets, AddSplit(a) \/ UpdateSplit(a) \/ DeleteSplit(a)
    PROVE  AllCounted'
<1> USE DatesAreNumbers
<1>1. /\ IsSound(holdings[a], costBasisMethod, retyped) /\ costBasisMethod \in Methods
      /\ IsCounted(holdings[a])
  BY DEF IInv, IsHoldings, AllCounted
<1>2. ASSUME NEW g, NEW id, holdings' = [holdings EXCEPT ![a] = g],
             IsActed(g, holdings[a], id, costBasisMethod, retyped),
             id \in DOMAIN g.corporateActions => IsMeasured(g.corporateActions[id])
      PROVE  AllCounted'
  BY <1>1, <1>2, ActedCounted, OneCounted
<1>3. CASE AddSplit(a)
  <2>1. PICK id \in ActionIds, date \in Dates, factor \in Factors \ {1} :
            \E h \in CorporateActionRecorded(holdings[a], Split(id, date, factor), costBasisMethod) :
                holdings' = [holdings EXCEPT ![a] = h]
    BY <1>3 DEF AddSplit
  <2>2. PICK g \in CorporateActionRecorded(holdings[a], Split(id, date, factor), costBasisMethod) :
            holdings' = [holdings EXCEPT ![a] = g]
    BY <2>1
  <2> DEFINE split == Split(id, date, factor)
  <2>3. split.id = id /\ IsAction(split, id) /\ IsMeasured(split)
    BY SplitIsAction, SplitIsMeasured
  <2>4. g \in CorporateActionRecorded(holdings[a], split, costBasisMethod)
    OBVIOUS
  <2> HIDE DEF split
  <2>5. IsActed(g, holdings[a], id, costBasisMethod, retyped) /\ g.corporateActions[id] = split
    BY <1>1, <2>3, <2>4, ActionRecordedSound
  <2> QED BY <1>2, <2>2, <2>3, <2>5
<1>4. CASE UpdateSplit(a)
  <2>1. PICK id \in DOMAIN holdings[a].corporateActions, date \in Dates, factor \in Factors \ {1} :
            \E h \in CorporateActionRevised(holdings[a], Split(id, date, factor), costBasisMethod) :
                holdings' = [holdings EXCEPT ![a] = h]
    BY <1>4 DEF UpdateSplit
  <2>2. PICK g \in CorporateActionRevised(holdings[a], Split(id, date, factor), costBasisMethod) :
            holdings' = [holdings EXCEPT ![a] = g]
    BY <2>1
  <2> DEFINE split == Split(id, date, factor)
  <2>3. split.id = id /\ IsAction(split, id) /\ IsMeasured(split)
    BY SplitIsAction, SplitIsMeasured
  <2>4. g \in CorporateActionRevised(holdings[a], split, costBasisMethod)
    OBVIOUS
  <2> HIDE DEF split
  <2>5. IsActed(g, holdings[a], id, costBasisMethod, retyped) /\ g.corporateActions[id] = split
    BY <1>1, <2>3, <2>4, ActionRevisedSound
  <2> QED BY <1>2, <2>2, <2>3, <2>5
<1>5. CASE DeleteSplit(a)
  <2>1. PICK id \in DOMAIN holdings[a].corporateActions :
            \E h \in CorporateActionRetracted(holdings[a], id, costBasisMethod) :
                holdings' = [holdings EXCEPT ![a] = h]
    BY <1>5 DEF DeleteSplit
  <2>2. PICK g \in CorporateActionRetracted(holdings[a], id, costBasisMethod) :
            holdings' = [holdings EXCEPT ![a] = g]
    BY <2>1
  <2>3. IsActed(g, holdings[a], id, costBasisMethod, retyped) /\ id \notin DOMAIN g.corporateActions
    BY <1>1, ActionRetractedSound
  <2> QED BY <1>2, <2>2, <2>3
<1> QED BY <1>3, <1>4, <1>5

\* Recording the two halves of a merger or spin-off.
LEMMA PairCounted ==
    ASSUME costBasisMethod \in Methods, NEW h, NEW k, NEW r,
           IsSound(h, costBasisMethod, r), IsSound(k, costBasisMethod, r),
           IsCounted(h), IsCounted(k),
           NEW a, NEW b, NEW id \in ActionIds, NEW pair, ArePair(pair, a, b, id),
           IsMeasured(pair.own), IsMeasured(pair.other),
           NEW result \in PairRecorded(h, k, pair)
    PROVE  IsCounted(result.own) /\ IsCounted(result.other)
<1> USE DatesAreNumbers
<1>1. PICK g \in CorporateActionRecorded(h, pair.own, costBasisMethod) :
        result \in {[own |-> g, other |-> l] :
                        l \in CorporateActionRecorded(k, pair.other, costBasisMethod)}
  BY DEF PairRecorded
<1>2. PICK l \in CorporateActionRecorded(k, pair.other, costBasisMethod) :
        result = [own |-> g, other |-> l]
  BY <1>1
<1>3. IsActed(g, h, id, costBasisMethod, r) /\ g.corporateActions[id] = pair.own
  BY ActionRecordedSound DEF ArePair
<1>4. IsActed(l, k, id, costBasisMethod, r) /\ l.corporateActions[id] = pair.other
  BY ActionRecordedSound DEF ArePair
<1>5. IsCounted(g) /\ IsCounted(l)
  BY <1>3, <1>4, ActedCounted
<1> QED BY <1>2, <1>5

\* Retracting the two halves of a merger or spin-off.
LEMMA PairRetractedCounted ==
    ASSUME IInv, AllCounted, NEW a \in Assets, NEW b \in Assets, NEW kinds, kinds \subseteq LinkedKinds,
           NEW id \in LinkedTo(a, b, kinds), NEW rest \in PairRetracted(a, b, id)
    PROVE  /\ id \in ActionIds
           /\ IsSound(rest.own, costBasisMethod, retyped) /\ IsSound(rest.other, costBasisMethod, retyped)
           /\ IsCounted(rest.own) /\ IsCounted(rest.other)
<1>1. /\ id \in ActionIds
      /\ id \in DOMAIN holdings[a].corporateActions
      /\ id \in DOMAIN holdings[b].corporateActions
  BY LinkedToPair
<1>2. /\ IsActed(rest.own, holdings[a], id, costBasisMethod, retyped)
      /\ IsActed(rest.other, holdings[b], id, costBasisMethod, retyped)
      /\ id \notin DOMAIN rest.own.corporateActions
      /\ id \notin DOMAIN rest.other.corporateActions
  BY <1>1, PairRetractedSound
<1>3. IsCounted(holdings[a]) /\ IsCounted(holdings[b])
  BY DEF AllCounted
<1>4. IsCounted(rest.own) /\ IsCounted(rest.other)
  BY <1>2, <1>3, ActedCounted
<1> QED BY <1>1, <1>2, <1>4 DEF IsActed

\* The services that record a pair.
LEMMA AddPairCounted ==
    ASSUME IInv, AllCounted, NEW a \in Assets, NEW b \in Assets \ {a}, NEW id \in ActionIds,
           NEW pair, ArePair(pair, a, b, id), IsMeasured(pair.own), IsMeasured(pair.other),
           RecordPair(a, b, pair)
    PROVE  AllCounted'
<1>1. PICK result \in PairRecorded(holdings[a], holdings[b], pair) : SavePair(a, b, result)
  BY DEF RecordPair
<1>2. IsCounted(result.own) /\ IsCounted(result.other)
  BY PairCounted DEF IInv, IsHoldings, AllCounted
<1> QED BY <1>1, <1>2, TwoCounted DEF SavePair

\* The services of mergers and spin-offs.
LEMMA LinkedCounted ==
    ASSUME IInv, AllCounted, NEW a \in Assets, NEW b \in Assets \ {a}, LinkedStep(a, b)
    PROVE  AllCounted'
<1>1. CASE AddMerger(a, b)
  <2>1. PICK id \in ActionIds :
            \E pair \in EnteredMergers(holdings[a], a, b, id) : RecordPair(a, b, pair)
    BY <1>1 DEF AddMerger
  <2>2. PICK pair \in EnteredMergers(holdings[a], a, b, id) : RecordPair(a, b, pair)
    BY <2>1
  <2>3. ArePair(pair, a, b, id)
    BY MergerIsPair
  <2>4. IsHolding(holdings[a]) /\ IsCounted(holdings[a])
    BY DEF IInv, IsHoldings, IsSound, AllCounted
  <2>5. IsMeasured(pair.own) /\ IsMeasured(pair.other)
    BY <2>4, MergerIsMeasured
  <2> QED BY <2>2, <2>3, <2>5, AddPairCounted
<1>2. CASE AddSpinOff(a, b)
  <2>1. PICK id \in ActionIds :
            \E pair \in EnteredSpinOffs(holdings[a], a, b, id) : RecordPair(a, b, pair)
    BY <1>2 DEF AddSpinOff
  <2>2. PICK pair \in EnteredSpinOffs(holdings[a], a, b, id) : RecordPair(a, b, pair)
    BY <2>1
  <2>3. ArePair(pair, a, b, id) /\ IsMeasured(pair.own) /\ IsMeasured(pair.other)
    BY SpinOffIsPair, SpinOffIsMeasured
  <2> QED BY <2>2, <2>3, AddPairCounted
<1>3. CASE UpdateMerger(a, b)
  <2> DEFINE kinds == {"mergerSource"}
  <2>1. PICK id \in LinkedTo(a, b, kinds) : \E rest \in PairRetracted(a, b, id) :
            \E pair \in EnteredMergers(rest.own, a, b, id) :
                \E result \in PairRecorded(rest.own, rest.other, pair) : SavePair(a, b, result)
    BY <1>3 DEF UpdateMerger
  <2>2. PICK rest \in PairRetracted(a, b, id) : \E pair \in EnteredMergers(rest.own, a, b, id) :
                \E result \in PairRecorded(rest.own, rest.other, pair) : SavePair(a, b, result)
    BY <2>1
  <2>3. PICK pair \in EnteredMergers(rest.own, a, b, id) :
                \E result \in PairRecorded(rest.own, rest.other, pair) : SavePair(a, b, result)
    BY <2>2
  <2>4. PICK result \in PairRecorded(rest.own, rest.other, pair) : SavePair(a, b, result)
    BY <2>3
  <2>5. kinds \subseteq LinkedKinds
    BY DEF LinkedKinds
  <2> HIDE DEF kinds
  <2>6. /\ id \in ActionIds /\ costBasisMethod \in Methods
        /\ IsSound(rest.own, costBasisMethod, retyped) /\ IsSound(rest.other, costBasisMethod, retyped)
        /\ IsCounted(rest.own) /\ IsCounted(rest.other)
    BY <2>5, PairRetractedCounted DEF IInv
  <2>7. ArePair(pair, a, b, id) /\ IsMeasured(pair.own) /\ IsMeasured(pair.other)
    BY <2>6, MergerIsPair, MergerIsMeasured DEF IsSound
  <2>8. IsCounted(result.own) /\ IsCounted(result.other)
    BY <2>6, <2>7, PairCounted
  <2> QED BY <2>4, <2>8, TwoCounted DEF SavePair
<1>4. CASE UpdateSpinOff(a, b)
  <2> DEFINE kinds == {"spinOffParent"}
  <2>1. PICK id \in LinkedTo(a, b, kinds) : \E rest \in PairRetracted(a, b, id) :
            \E pair \in EnteredSpinOffs(rest.own, a, b, id) :
                \E result \in PairRecorded(rest.own, rest.other, pair) : SavePair(a, b, result)
    BY <1>4 DEF UpdateSpinOff
  <2>2. PICK rest \in PairRetracted(a, b, id) : \E pair \in EnteredSpinOffs(rest.own, a, b, id) :
                \E result \in PairRecorded(rest.own, rest.other, pair) : SavePair(a, b, result)
    BY <2>1
  <2>3. PICK pair \in EnteredSpinOffs(rest.own, a, b, id) :
                \E result \in PairRecorded(rest.own, rest.other, pair) : SavePair(a, b, result)
    BY <2>2
  <2>4. PICK result \in PairRecorded(rest.own, rest.other, pair) : SavePair(a, b, result)
    BY <2>3
  <2>5. kinds \subseteq LinkedKinds
    BY DEF LinkedKinds
  <2> HIDE DEF kinds
  <2>6. /\ id \in ActionIds /\ costBasisMethod \in Methods
        /\ IsSound(rest.own, costBasisMethod, retyped) /\ IsSound(rest.other, costBasisMethod, retyped)
        /\ IsCounted(rest.own) /\ IsCounted(rest.other)
    BY <2>5, PairRetractedCounted DEF IInv
  <2>7. ArePair(pair, a, b, id) /\ IsMeasured(pair.own) /\ IsMeasured(pair.other)
    BY SpinOffIsPair, SpinOffIsMeasured
  <2>8. IsCounted(result.own) /\ IsCounted(result.other)
    BY <2>6, <2>7, PairCounted
  <2> QED BY <2>4, <2>8, TwoCounted DEF SavePair
<1>5. CASE DeleteLinked(a, b)
  <2>1. PICK id \in LinkedTo(a, b, LinkedKinds) :
            \E rest \in PairRetracted(a, b, id) : SavePair(a, b, rest)
    BY <1>5 DEF DeleteLinked
  <2>2. PICK rest \in PairRetracted(a, b, id) : SavePair(a, b, rest)
    BY <2>1
  <2>3. IsCounted(rest.own) /\ IsCounted(rest.other)
    BY PairRetractedCounted
  <2> QED BY <2>2, <2>3, TwoCounted DEF SavePair
<1> QED BY <1>1, <1>2, <1>3, <1>4, <1>5 DEF LinkedStep

\* Changing the method changes no transaction and no corporate action.
LEMMA SetCostBasisMethodCounted ==
    ASSUME IInv, AllCounted, NEW method \in Methods, SetCostBasisMethod(method)
    PROVE  AllCounted'
<1> SUFFICES ASSUME NEW a \in Assets PROVE IsCounted(holdings'[a])
  BY DEF AllCounted
<1> DEFINE h == holdings[a]
           g == RegenerateFrom(h, MinDate, method, NoSeed, NoAllocation)
<1>1. holdings'[a] = g
  BY DEF SetCostBasisMethod
<1>2. IsHolding(h) /\ IsCounted(h)
  BY DEF IInv, IsHoldings, IsSound, AllCounted
<1>3. /\ g.transactions = h.transactions
      /\ g.corporateActions = h.corporateActions
      /\ DOMAIN g.disposalRecords = Untouched(h, MinDate) \union DueFrom(h, MinDate)
  BY <1>2, RegeneratedFields
<1> HIDE DEF g, h
<1>4. IdsOf(g) \subseteq IdsOf(h) \union {0}
  BY <1>3 DEF IdsOf, Untouched, DueFrom, Disposals
<1>5. IsCounted(g)
  BY <1>2, <1>3, <1>4, CountedSame
<1> QED BY <1>1, <1>5

\* Nor does the backfill at the start.
LEMMA RestartCounted ==
    ASSUME IInv, AllCounted, Restart
    PROVE  AllCounted'
<1> SUFFICES ASSUME NEW a \in Assets PROVE IsCounted(holdings'[a])
  BY DEF AllCounted
<1> DEFINE h == holdings[a]
           g == Backfilled(h)
<1>1. holdings'[a] = g
  BY DEF Restart
<1>2. IsSound(h, costBasisMethod, retyped) /\ IsCounted(h)
  BY DEF IInv, IsHoldings, AllCounted
<1>3. g.corporateActions = h.corporateActions /\ IdsOf(g) \subseteq IdsOf(h)
  BY <1>2, BackfilledSound
<1> HIDE DEF g, h
<1>4. IdsOf(g) \subseteq IdsOf(h) \union {0}
  BY <1>3
<1>5. IsCounted(g)
  BY <1>2, <1>3, <1>4, CountedSame
<1> QED BY <1>1, <1>5

\* There are no steps at first.
LEMMA InitCounted == Init => AllCounted
<1> SUFFICES ASSUME Init, NEW a \in Assets PROVE IsCounted(holdings[a])
  BY DEF AllCounted
<1>1. holdings[a] = [transactions |-> <<>>, corporateActions |-> <<>>, disposalRecords |-> <<>>]
  BY DEF Init
<1>2. DOMAIN holdings[a].corporateActions = {} /\ IdsOf(holdings[a]) = {}
  BY <1>1 DEF IdsOf
<1> QED BY <1>2, FS_EmptySet DEF IsCounted

\* Every step keeps the steps finitely many and their numbers numbers.
LEMMA NextCounted == IInv /\ AllCounted /\ [Next]_vars => AllCounted'
<1> SUFFICES ASSUME IInv, AllCounted, [Next]_vars PROVE AllCounted'
  OBVIOUS
<1>1. ASSUME NEW a \in Assets, AssetStep(a) PROVE AllCounted'
  BY <1>1, TransactionsCounted, SplitsCounted DEF AssetStep
<1>2. ASSUME NEW a \in Assets, NEW b \in Assets \ {a}, LinkedStep(a, b) PROVE AllCounted'
  BY <1>2, LinkedCounted
<1>3. ASSUME NEW method \in Methods, SetCostBasisMethod(method) PROVE AllCounted'
  BY <1>3, SetCostBasisMethodCounted
<1>4. CASE Restart
  BY <1>4, RestartCounted
<1>5. CASE UNCHANGED vars
  BY <1>5 DEF vars, AllCounted
<1> QED BY <1>1, <1>2, <1>3, <1>4, <1>5 DEF Next

\* At any time a holding has finitely many steps, whose quantities are numbers.
LEMMA SpecCounted == Spec => []AllCounted
<1>1. Init => AllCounted
  BY InitCounted
<1>2. IInv /\ AllCounted /\ [Next]_vars => AllCounted'
  BY NextCounted
<1> QED BY <1>1, <1>2, SpecIInv, PTL DEF Spec

\* The lots of OpenLotTracker and the position of CostBasisCalculator replay one history
\* apart from each other, each with its own treatment of every kind of step. They hold
\* the same quantity at any time, for any history in which no sale and no conversion
\* has taken out what was not there: no order of entries, corrections, splits, mergers
\* and spin-offs drives what the form offers to sell from what the asset holds.
THEOREM LotsAndPositionAgree == Spec => []OpenLotsAreThePosition
<1>1. IInv /\ AllCounted => OpenLotsAreThePosition
  <2> SUFFICES ASSUME IInv, AllCounted, NEW a \in Assets, IsCovered(holdings[a]),
                      \A ca \in RangeOf(holdings[a].corporateActions) :
                          ca.kind # "split" => ca.quantity > 0
               PROVE  OpenQuantity(holdings[a]) = ReplayAveragePosition(Steps(holdings[a])).quantity
    BY DEF OpenLotsAreThePosition
  <2> DEFINE h == holdings[a]
             S == Steps(h)
  <2>1. IsHolding(h) /\ IsCounted(h)
    BY DEF IInv, IsHoldings, IsSound, AllCounted
  <2>2. IsOrdered(S) /\ \A s \in S : IsMeasured(s)
    BY <2>1, StepsAreOrdered
  <2>3. \A s \in S : BringsIn(s)
    <3> SUFFICES ASSUME NEW s \in S, s.kind \in {"mergerTarget", "spinOffNew"}
                 PROVE  s.quantity \in Nat
      BY DEF BringsIn
    <3>1. s.quantity \in Int
      BY <2>2 DEF IsMeasured
    <3>2. s \notin RangeOf(h.transactions)
      BY <2>1 DEF RangeOf, IsHolding, IsTransaction
    <3>3. s \in RangeOf(h.corporateActions)
      BY <3>2 DEF Steps
    <3> QED BY <3>1, <3>3
  <2>4. FindNoUncoveredSale(S)
    BY DEF IsCovered
  <2> HIDE DEF h, S
  <2>5. IsLots(LotsOf(S)) /\ Held(LotsOf(S)) = ReplayAveragePosition(S).quantity
    BY <2>2, <2>3, <2>4, LotsHoldThePosition
  <2>6. Held(WhereOpen(LotsOf(S))) = Held(LotsOf(S))
    BY <2>5, OpenLotsHoldAll DEF IsLots
  <2>7. OpenQuantity(h) = Held(WhereOpen(LotsOf(S)))
    BY DEF OpenQuantity, GetOpenLots, LotsOf, Held, Quantities, S
  <2> QED BY <2>5, <2>6, <2>7 DEF h, S
<1> QED BY <1>1, SpecIInv, SpecCounted, PTL

-----------------------------------------------------------------------------
(* One lot through a replay of transactions: what is left of the lot a buy    *)
(* opened, and what a decrease takes from it.                                 *)

LotIn(lots, source) == CHOOSE i \in DOMAIN lots : lots[i].source = source

IsIn(lots, source) == \E i \in DOMAIN lots : lots[i].source = source

LeftOf(lots, source) == IF IsIn(lots, source) THEN lots[LotIn(lots, source)].quantity ELSE 0

GivenBy(lots, source, quantity) ==
    IF IsIn(lots, source) THEN TakenFrom(lots, quantity)[LotIn(lots, source)] ELSE 0

\* Each of the n lots is that of one buy among the steps.
AreBought(lots, n, steps) ==
    /\ IsLotsOf(lots, n)
    /\ \A i \in 1..n : \E s \in steps : s.kind = "buy" /\ s.id = lots[i].source
    /\ \A i, j \in 1..n : lots[i].source = lots[j].source => i = j

IsTraded(s) ==
    /\ s.kind \in {"buy", "sell", "transferOut", "fee"}
    /\ s.quantity \in Nat

\* The lot of a source is the one of that source.
LEMMA LotInIs ==
    ASSUME NEW lots, NEW n, NEW steps, AreBought(lots, n, steps),
           NEW i \in 1..n, NEW quantity
    PROVE  /\ LeftOf(lots, lots[i].source) = lots[i].quantity
           /\ GivenBy(lots, lots[i].source, quantity) = TakenFrom(lots, quantity)[i]
<1>1. DOMAIN lots = 1..n
  BY HeldIs DEF AreBought
<1>2. \A j \in 1..n : lots[j].source = lots[i].source => j = i
  BY DEF AreBought
<1>3. IsIn(lots, lots[i].source)
  BY <1>1 DEF IsIn
<1>4. LotIn(lots, lots[i].source) = i
  BY <1>1, <1>2 DEF LotIn
<1> QED BY <1>3, <1>4 DEF LeftOf, GivenBy

\* A source without a lot has nothing left and gives nothing.
LEMMA NotIn ==
    ASSUME NEW lots, NEW n, NEW steps, AreBought(lots, n, steps),
           NEW source, \A i \in 1..n : lots[i].source # source
    PROVE  LeftOf(lots, source) = 0 /\ \A quantity : GivenBy(lots, source, quantity) = 0
<1>1. DOMAIN lots = 1..n
  BY HeldIs DEF AreBought
<1> QED BY <1>1 DEF IsIn, LeftOf, GivenBy

\* A lot gives no more than is left of it.
LEMMA GivenIsLeft ==
    ASSUME NEW lots, NEW n, NEW steps, AreBought(lots, n, steps), NEW source, NEW quantity \in Nat
    PROVE  /\ LeftOf(lots, source) \in Nat
           /\ GivenBy(lots, source, quantity) \in Nat
           /\ GivenBy(lots, source, quantity) <= LeftOf(lots, source)
<1>1. CASE \E i \in 1..n : lots[i].source = source
  <2>1. PICK i \in 1..n : lots[i].source = source
    BY <1>1
  <2>2. lots[i].quantity \in Nat
    BY HeldIs DEF AreBought
  <2>3. TakenFrom(lots, quantity)[i] \in Nat /\ TakenFrom(lots, quantity)[i] <= lots[i].quantity
    BY Depleted DEF AreBought
  <2> QED BY <2>1, <2>2, <2>3, LotInIs
<1>2. CASE \A i \in 1..n : lots[i].source # source
  BY <1>2, NotIn
<1> QED BY <1>1, <1>2

IsAppended(after, lots, lot) == after = Append(lots, lot)

\* A lot that is added stands behind the others.
LEMMA LotAdded ==
    ASSUME NEW lots, NEW n, IsLotsOf(lots, n), NEW lot, IsLot(lot), NEW after, IsAppended(after, lots, lot),
           NEW k, k = n + 1
    PROVE  IsLotsOf(after, k) /\ after[k] = lot /\ \A i \in 1..n : after[i] = lots[i]
<1>1. n \in Nat /\ lots = [i \in 1..n |-> lots[i]] /\ \A i \in 1..n : IsLot(lots[i])
  BY DEF IsLotsOf
<1>2. after = [i \in 1..(n + 1) |-> IF i = n + 1 THEN lot ELSE lots[i]]
  BY <1>1, Appending DEF IsAppended
<1>3. k \in Nat /\ k = n + 1
  BY <1>1
<1>4. after = [i \in 1..k |-> IF i = k THEN lot ELSE lots[i]]
  BY <1>2, <1>3
<1>5. after[k] = lot /\ \A i \in 1..n : after[i] = lots[i]
  BY <1>1, <1>3, <1>4
<1>6. after = [i \in 1..k |-> after[i]] /\ \A i \in 1..k : i = k \/ i \in 1..n
  BY <1>1, <1>3, <1>4
<1> QED BY <1>1, <1>3, <1>5, <1>6 DEF IsLotsOf

\* A buy opens its lot and changes no other.
LEMMA BuyAdds ==
    ASSUME NEW lots, NEW n, NEW steps, AreBought(lots, n, steps),
           NEW m, m.kind = "buy", m.quantity \in Nat, \A s \in steps : s.id # m.id,
           NEW after, after = ApplyToLots(lots, m), NEW source
    PROVE  /\ AreBought(after, n + 1, steps \union {m})
           /\ LeftOf(after, source) = IF source = m.id THEN m.quantity ELSE LeftOf(lots, source)
<1>0. PICK lot : lot = [source |-> m.id, quantity |-> m.quantity, cost |-> m.price]
  OBVIOUS
<1>1. IsLotsOf(lots, n) /\ n \in Nat /\ IsLot(lot)
  BY <1>0, HeldIs DEF AreBought, IsLot
<1>2. IsAppended(after, lots, lot)
  BY <1>0 DEF ApplyToLots, IsDecrease, IsAppended
<1>3. lot.source = m.id /\ lot.quantity = m.quantity
  BY <1>0
<1>next. PICK k : k = n + 1
  OBVIOUS
<1>longer. /\ IsLotsOf(after, k) /\ after[k] = lot
      /\ \A i \in 1..n : after[i] = lots[i]
  BY <1>1, <1>2, <1>next, LotAdded
<1>5. \A i \in 1..n : lots[i].source # m.id
  BY DEF AreBought
<1>6. \A i \in 1..k : i = k \/ i \in 1..n
  BY <1>1, <1>next
<1>7. AreBought(after, k, steps \union {m})
  <2>1. \A i \in 1..k : \E s \in steps \union {m} : s.kind = "buy" /\ s.id = after[i].source
    BY <1>3, <1>longer, <1>6 DEF AreBought
  <2>2. \A i, j \in 1..k : after[i].source = after[j].source => i = j
    BY <1>3, <1>longer, <1>5, <1>6 DEF AreBought
  <2> QED BY <1>longer, <2>1, <2>2 DEF AreBought
<1>8. k \in 1..k /\ \A i \in 1..n : i \in 1..k
  BY <1>1, <1>next
<1>9. LeftOf(after, source) = IF source = m.id THEN m.quantity ELSE LeftOf(lots, source)
  <2>1. CASE source = m.id
    <3>1. LeftOf(after, after[k].source) = after[k].quantity
      BY <1>7, <1>8, LotInIs
    <3> QED BY <1>3, <1>longer, <2>1, <3>1
  <2>2. CASE source # m.id /\ \E i \in 1..n : lots[i].source = source
    <3>1. PICK i \in 1..n : lots[i].source = source
      BY <2>2
    <3>2. LeftOf(after, after[i].source) = after[i].quantity
      BY <1>7, <1>8, LotInIs
    <3>3. LeftOf(lots, lots[i].source) = lots[i].quantity
      BY LotInIs
    <3> QED BY <1>longer, <2>2, <3>1, <3>2, <3>3
  <2>3. CASE source # m.id /\ \A i \in 1..n : lots[i].source # source
    <3>1. \A i \in 1..k : after[i].source # source
      BY <1>3, <1>longer, <1>6, <2>3
    <3> QED BY <1>7, <2>3, <3>1, NotIn
  <2> QED BY <2>1, <2>2, <2>3
<1> QED BY <1>next, <1>7, <1>9

\* A decrease leaves of every lot what it does not take.
LEMMA DecreaseTakes ==
    ASSUME NEW lots, NEW n, NEW steps, AreBought(lots, n, steps),
           NEW m, IsDecrease(m), m.quantity \in Nat,
           NEW after, after = ApplyToLots(lots, m), NEW source
    PROVE  /\ AreBought(after, n, steps \union {m})
           /\ LeftOf(after, source) = LeftOf(lots, source) - GivenBy(lots, source, m.quantity)
<1>1. after = Deplete(lots, m.quantity)
  BY DEF ApplyToLots, IsDecrease
<1>2. /\ IsLotsOf(after, n)
      /\ \A i \in 1..n : /\ after[i].source = lots[i].source
                         /\ after[i].quantity = lots[i].quantity - TakenFrom(lots, m.quantity)[i]
  <2>1. IsLotsOf(lots, n)
    BY DEF AreBought
  <2> DEFINE rest == Deplete(lots, m.quantity)
             taken == TakenFrom(lots, m.quantity)
  <2>2. /\ IsLotsOf(rest, n)
        /\ \A i \in 1..n : /\ rest[i].source = lots[i].source
                           /\ rest[i].quantity = lots[i].quantity - taken[i]
                           /\ taken[i] \in Nat /\ taken[i] <= lots[i].quantity
        /\ Held(rest) = IF Held(lots) <= m.quantity THEN 0 ELSE Held(lots) - m.quantity
    BY <2>1, Depleted, ZenonT(40)
  <2> HIDE DEF rest, taken
  <2> QED BY <1>1, <2>2 DEF rest, taken
<1>3. AreBought(after, n, steps \union {m})
  BY <1>2 DEF AreBought
<1>4. CASE \E i \in 1..n : lots[i].source = source
  <2>1. PICK i \in 1..n : lots[i].source = source
    BY <1>4
  <2>2. LeftOf(after, after[i].source) = after[i].quantity
    BY <1>3, LotInIs
  <2>3. /\ LeftOf(lots, lots[i].source) = lots[i].quantity
        /\ GivenBy(lots, lots[i].source, m.quantity) = TakenFrom(lots, m.quantity)[i]
    BY LotInIs
  <2> QED BY <1>2, <1>3, <2>1, <2>2, <2>3
<1>5. CASE \A i \in 1..n : lots[i].source # source
  <2>1. \A i \in 1..n : after[i].source # source
    BY <1>2, <1>5
  <2>2. LeftOf(after, source) = 0
    BY <1>3, <2>1, NotIn
  <2>3. LeftOf(lots, source) = 0 /\ GivenBy(lots, source, m.quantity) = 0
    BY <1>5, NotIn
  <2> QED BY <1>3, <2>2, <2>3
<1> QED BY <1>4, <1>5

\* A fee changes no lot.
LEMMA FeeLeaves ==
    ASSUME NEW lots, NEW n, NEW steps, AreBought(lots, n, steps),
           NEW m, m.kind = "fee", NEW after, after = ApplyToLots(lots, m)
    PROVE  after = lots /\ AreBought(after, n, steps \union {m})
<1>1. after = lots
  BY DEF ApplyToLots, IsDecrease
<1> QED BY <1>1 DEF AreBought

\* The units a decrease takes of a lot, numbered from the last: what is left of the lot
\* when it comes, and not after.
UnitsOf(s, source, steps) ==
    LET lots == LotsOf(Before(s, steps))
    IN  (LeftOf(lots, source) - GivenBy(lots, source, s.quantity) + 1)..LeftOf(lots, source)

\* Of the quantity of a lot, the steps have taken these units, each once, and left the rest.
AreTakenOnce(source, quantity, steps) ==
    LET left == LeftOf(LotsOf(steps), source)
    IN  /\ \E n : AreBought(LotsOf(steps), n, steps)
        /\ left <= quantity
        /\ \A s \in steps : IsDecrease(s) =>
             /\ UnitsOf(s, source, steps) \subseteq (left + 1)..quantity
             /\ \A t \in steps : IsDecrease(t) /\ t # s =>
                  UnitsOf(s, source, steps) \cap UnitsOf(t, source, steps) = {}
        /\ (\A s \in steps : s.id # source) =>
             \A s \in steps : IsDecrease(s) => UnitsOf(s, source, steps) = {}

\* No steps take nothing.
LEMMA NothingTaken ==
    ASSUME NEW source, NEW quantity \in Nat
    PROVE  AreTakenOnce(source, quantity, {})
<1>1. LotsOf({}) = <<>>
  BY ReplayNone
<1>2. AreBought(<<>>, 0, {})
  BY NoLotsHold DEF AreBought
<1>3. LeftOf(<<>>, source) = 0
  BY <1>2, NotIn
<1> QED BY <1>1, <1>2, <1>3 DEF AreTakenOnce

\* The steps without their last one, and what the last one takes.
LEMMA UnitsOfLast ==
    ASSUME NEW S, IsOrdered(S), NEW m \in S, IsLast(m, S), NEW source
    PROVE  /\ \A s \in S \ {m} : UnitsOf(s, source, S) = UnitsOf(s, source, S \ {m})
           /\ UnitsOf(m, source, S)
                = (LeftOf(LotsOf(S \ {m}), source) - GivenBy(LotsOf(S \ {m}), source, m.quantity) + 1)
                    ..LeftOf(LotsOf(S \ {m}), source)
           /\ LotsOf(S) = ApplyToLots(LotsOf(S \ {m}), m)
<1>1. /\ Before(m, S) = S \ {m}
      /\ \A s \in S \ {m} : Before(s, S) = Before(s, S \ {m})
  BY BeforeLast
<1>2. LotsOf(S) = ApplyToLots(LotsOf(S \ {m}), m)
  BY ReplayLast
<1> QED BY <1>1, <1>2 DEF UnitsOf

\* The last step takes units that were left, which no other has taken.
LEMMA TakenOnceNext ==
    ASSUME NEW S, IsOrdered(S), NEW m \in S, IsLast(m, S), \A s \in S : IsTraded(s),
           NEW source, NEW quantity \in Nat,
           \A s \in S : s.id = source => s.kind = "buy" /\ s.quantity = quantity,
           AreTakenOnce(source, quantity, S \ {m})
    PROVE  AreTakenOnce(source, quantity, S)
<1> DEFINE T == S \ {m}
<1>1. PICK lots : lots = LotsOf(T)
  OBVIOUS
<1>2. PICK n : AreBought(lots, n, T)
  BY <1>1 DEF AreTakenOnce
<1>3. PICK left : left = LeftOf(lots, source)
  OBVIOUS
<1>4. PICK given : given = GivenBy(lots, source, m.quantity)
  OBVIOUS
<1>5. PICK after : after = LotsOf(S)
  OBVIOUS
<1>6. /\ \A s \in T : UnitsOf(s, source, S) = UnitsOf(s, source, T)
      /\ UnitsOf(m, source, S) = (left - given + 1)..left
      /\ after = ApplyToLots(lots, m)
  <2>1. lots = LotsOf(S \ {m})
    BY <1>1
  <2>2. \A s \in S \ {m} : UnitsOf(s, source, S) = UnitsOf(s, source, S \ {m})
    <3>1. \A s \in S \ {m} : Before(s, S) = Before(s, S \ {m})
      BY BeforeLast
    <3> QED BY <3>1 DEF UnitsOf
  <2>3. UnitsOf(m, source, S)
            = (LeftOf(LotsOf(S \ {m}), source) - GivenBy(LotsOf(S \ {m}), source, m.quantity) + 1)
                  ..LeftOf(LotsOf(S \ {m}), source)
    BY UnitsOfLast
  <2>4. LotsOf(S) = ApplyToLots(LotsOf(S \ {m}), m)
    BY UnitsOfLast
  <2> QED BY <1>3, <1>4, <1>5, <2>1, <2>2, <2>3, <2>4
<1>7. /\ left <= quantity
      /\ \A s \in T : IsDecrease(s) =>
             /\ UnitsOf(s, source, S) \subseteq (left + 1)..quantity
             /\ \A t \in T : IsDecrease(t) /\ t # s =>
                  UnitsOf(s, source, S) \cap UnitsOf(t, source, S) = {}
      /\ (\A s \in T : s.id # source) =>
             \A s \in T : IsDecrease(s) => UnitsOf(s, source, S) = {}
  BY <1>1, <1>3, <1>6 DEF AreTakenOnce
<1>8. left \in Nat /\ given \in Nat /\ given <= left
  BY <1>2, <1>3, <1>4, GivenIsLeft DEF IsTraded
<1>9. (\A s \in T : s.id # source) => left = 0
  <2> SUFFICES ASSUME \A s \in T : s.id # source PROVE left = 0
    OBVIOUS
  <2>1. \A i \in 1..n : lots[i].source # source
    BY <1>2 DEF AreBought
  <2> QED BY <1>2, <1>3, <2>1, NotIn
<1>10. S = T \union {m} /\ m \notin T
  OBVIOUS
<1>11. \A s \in T : s.id # m.id
  BY <1>10 DEF IsOrdered
<1> HIDE DEF T
<1>12. CASE m.kind = "buy"
  <2>1. /\ AreBought(after, n + 1, S)
        /\ LeftOf(after, source) = IF source = m.id THEN m.quantity ELSE left
    BY <1>2, <1>3, <1>6, <1>10, <1>11, <1>12, BuyAdds DEF IsTraded
  <2>2. ~IsDecrease(m)
    BY <1>12 DEF IsDecrease
  <2>3. CASE source = m.id
    <3>1. \A s \in T : IsDecrease(s) => UnitsOf(s, source, S) = {}
      BY <1>7, <1>11, <2>3
    <3>2. LeftOf(after, source) = quantity
      BY <2>1, <2>3
    <3>3. \A s \in S : IsDecrease(s) => UnitsOf(s, source, S) = {}
      BY <1>10, <2>2, <3>1
    <3>4. quantity <= quantity
      OBVIOUS
    <3> QED BY <1>5, <2>1, <2>3, <3>2, <3>3, <3>4 DEF AreTakenOnce
  <2>4. CASE source # m.id
    <3>1. LeftOf(after, source) = left
      BY <2>1, <2>4
    <3>2. \A s \in S : IsDecrease(s) => s \in T
      BY <1>10, <2>2
    <3>3. /\ \A s \in S : IsDecrease(s) =>
               /\ UnitsOf(s, source, S) \subseteq (left + 1)..quantity
               /\ \A t \in S : IsDecrease(t) /\ t # s =>
                    UnitsOf(s, source, S) \cap UnitsOf(t, source, S) = {}
          /\ (\A s \in S : s.id # source) =>
               \A s \in S : IsDecrease(s) => UnitsOf(s, source, S) = {}
      BY <1>7, <1>10, <3>2
    <3>4. \E k : AreBought(after, k, S)
      BY <2>1
    <3> QED BY <1>5, <1>7, <3>1, <3>3, <3>4 DEF AreTakenOnce
  <2> QED BY <2>3, <2>4
<1>13. CASE IsDecrease(m)
  <2>1. AreBought(after, n, S) /\ LeftOf(after, source) = left - given
    <3>1. m.quantity \in Nat
      BY DEF IsTraded
    <3>2. /\ AreBought(after, n, T \union {m})
          /\ LeftOf(after, source) = LeftOf(lots, source) - GivenBy(lots, source, m.quantity)
      BY <1>2, <1>6, <1>13, <3>1, DecreaseTakes, ZenonT(30)
    <3> QED BY <1>3, <1>4, <1>10, <3>2
  <2>2. m.id # source
    BY <1>13 DEF IsDecrease
  <2> DEFINE taken == (left - given + 1)..left
  <2>3. /\ taken \subseteq (left - given + 1)..quantity
        /\ taken \cap ((left + 1)..quantity) = {}
        /\ (left + 1)..quantity \subseteq (left - given + 1)..quantity
        /\ left - given <= quantity
        /\ left = 0 => taken = {}
    BY <1>7, <1>8
  <2>4. UnitsOf(m, source, S) = taken
    BY <1>6
  <2> HIDE DEF taken
  <2>5. \A s \in S : IsDecrease(s) => UnitsOf(s, source, S) \subseteq (left - given + 1)..quantity
    BY <1>7, <1>10, <2>3, <2>4
  <2>6. \A s, t \in S : IsDecrease(s) /\ IsDecrease(t) /\ s # t =>
            UnitsOf(s, source, S) \cap UnitsOf(t, source, S) = {}
    <3> SUFFICES ASSUME NEW s \in S, NEW t \in S, IsDecrease(s), IsDecrease(t), s # t
                 PROVE  UnitsOf(s, source, S) \cap UnitsOf(t, source, S) = {}
      OBVIOUS
    <3>1. CASE s = m
      <4>1. UnitsOf(t, source, S) \subseteq (left + 1)..quantity
        BY <1>7, <1>10, <3>1
      <4> QED BY <2>3, <2>4, <3>1, <4>1
    <3>2. CASE t = m
      <4>1. UnitsOf(s, source, S) \subseteq (left + 1)..quantity
        BY <1>7, <1>10, <3>2
      <4> QED BY <2>3, <2>4, <3>2, <4>1
    <3>3. CASE s \in T /\ t \in T
      BY <1>7, <3>3
    <3> QED BY <1>10, <3>1, <3>2, <3>3
  <2>7. (\A s \in S : s.id # source) => \A s \in S : IsDecrease(s) => UnitsOf(s, source, S) = {}
    BY <1>7, <1>9, <1>10, <2>3, <2>4
  <2> QED BY <1>5, <2>1, <2>3, <2>5, <2>6, <2>7 DEF AreTakenOnce
<1>14. CASE m.kind = "fee"
  <2>1. AreBought(after, n, S) /\ LeftOf(after, source) = left
    BY <1>2, <1>3, <1>6, <1>10, <1>14, FeeLeaves
  <2>2. ~IsDecrease(m) /\ m.id # source
    BY <1>14 DEF IsDecrease
  <2> QED BY <1>5, <1>7, <1>10, <2>1, <2>2 DEF AreTakenOnce
<1> QED BY <1>12, <1>13, <1>14 DEF IsTraded, IsDecrease

\* The replay of transactions takes every unit of a lot at most once.
LEMMA TakenOnce ==
    ASSUME NEW S, IsOrdered(S), \A s \in S : IsTraded(s), NEW source, NEW quantity \in Nat,
           \A s \in S : s.id = source => s.kind = "buy" /\ s.quantity = quantity
    PROVE  \A T \in SUBSET S : AreTakenOnce(source, quantity, T)
<1> DEFINE Good == {T \in SUBSET S : AreTakenOnce(source, quantity, T)}
<1>1. {} \in Good
  BY NothingTaken
<1>2. ASSUME NEW T \in SUBSET S, NEW m \in T, IsLast(m, T), T \ {m} \in Good PROVE T \in Good
  <2>1. IsOrdered(T) /\ AreTakenOnce(source, quantity, T \ {m})
    BY <1>2, OrderedSubset
  <2>2. AreTakenOnce(source, quantity, T)
    BY <1>2, <2>1, TakenOnceNext
  <2> QED BY <2>2
<1> HIDE DEF Good
<1>3. \A T \in SUBSET S : T \in Good
  BY <1>1, <1>2, StepsInduction
<1> QED BY <1>3 DEF Good

-----------------------------------------------------------------------------
(* What the records take.                                                     *)

\* A record by first in, first out takes of a lot what the replay of the sale takes: the
\* lots that are open are those of the replay that still hold anything.
LEMMA RecordTakes ==
    ASSUME NEW preceding, NEW n, NEW steps, AreBought(LotsOf(preceding), n, steps),
           NEW sale, sale.quantity \in Nat,
           NEW source, source \in DOMAIN BuildAutoConsumedLots(sale, preceding)
    PROVE  BuildAutoConsumedLots(sale, preceding)[source].quantity
              = GivenBy(LotsOf(preceding), source, sale.quantity)
<1> DEFINE consumed == BuildAutoConsumedLots(sale, preceding)
           quantity == sale.quantity
<1>1. PICK lots : lots = LotsOf(preceding)
  OBVIOUS
<1>2. PICK open : open = WhereOpen(lots)
  OBVIOUS
<1>3. GetOpenLots(preceding) = open
  BY <1>1, <1>2 DEF GetOpenLots, LotsOf
<1>4. PICK taken : taken = TakenFrom(open, quantity)
  OBVIOUS
<1>5. PICK used : used = {j \in DOMAIN open : taken[j] > 0}
  OBVIOUS
<1>6. /\ DOMAIN consumed = {open[j].source : j \in used}
      /\ consumed[source].quantity = taken[CHOOSE j \in used : open[j].source = source]
  BY <1>3, <1>4, <1>5 DEF BuildAutoConsumedLots
<1>7. PICK j : j = CHOOSE i \in used : open[i].source = source
  OBVIOUS
<1>8. j \in DOMAIN open /\ open[j].source = source
  BY <1>5, <1>6, <1>7
<1>9. consumed[source].quantity = taken[j]
  BY <1>6, <1>7
<1>10. AreBought(lots, n, steps) /\ IsLotsOf(lots, n)
  BY <1>1 DEF AreBought
<1>11. PICK c, place : IsOpening(lots, open, n, c, place)
  BY <1>2, <1>10, OpenLotsAre
<1>12. IsLotsOf(open, c) /\ c \in Nat /\ j \in 1..c
  BY <1>8, <1>11, HeldIs DEF IsOpening
<1>13. PICK i : i = place[j]
  OBVIOUS
<1>14. /\ i \in 1..n /\ open[j] = lots[i]
       /\ Total(Quantities(open), j) = Total(Quantities(lots), i)
  BY <1>11, <1>12, <1>13 DEF IsOpening
<1>15. Total(Quantities(open), j - 1) = Total(Quantities(lots), i - 1)
  <2>1. PICK f, g : f = Quantities(open) /\ g = Quantities(lots)
    OBVIOUS
  <2>2. f[j] = open[j].quantity /\ g[i] = lots[i].quantity /\ lots[i].quantity \in Nat
    BY <1>10, <1>12, <1>14, <2>1, HeldIs
  <2>3. PICK k \in Nat, p \in Nat : k = j - 1 /\ p = i - 1 /\ j = k + 1 /\ i = p + 1
    <3>1. n \in Nat
      BY <1>10, HeldIs
    <3>2. j - 1 \in Nat /\ i - 1 \in Nat /\ j = (j - 1) + 1 /\ i = (i - 1) + 1
      BY <1>12, <1>14, <3>1
    <3> QED BY <3>2
  <2>4. Total(f, k) \in Int /\ Total(g, p) \in Int
    <3>1. (\A e \in 1..c : f[e] \in Nat) /\ (\A e \in 1..n : g[e] \in Nat) /\ n \in Nat
      BY <1>10, <1>12, <2>1, HeldIs
    <3>2. k \in 0..c /\ p \in 0..n
      BY <1>12, <1>14, <2>3, <3>1
    <3> QED BY <1>12, <3>1, <3>2, TotalType
  <2>5. Total(f, k + 1) = Total(f, k) + f[k + 1] /\ Total(g, p + 1) = Total(g, p) + g[p + 1]
    BY TotalNext
  <2>6. Total(f, j) = Total(f, k) + f[j] /\ Total(g, i) = Total(g, p) + g[i]
    BY <2>3, <2>5
  <2>7. Total(f, j) = Total(g, i) /\ f[j] = g[i]
    BY <1>14, <2>1, <2>2
  <2>8. Total(f, k) = Total(g, p)
    BY <2>2, <2>4, <2>6, <2>7
  <2> QED BY <2>1, <2>3, <2>8
<1>16. taken[j] = TakenFrom(lots, quantity)[i]
  <2>0. quantity \in Int
    OBVIOUS
  <2> HIDE DEF quantity
  <2>1. PICK left : left = quantity - Total(Quantities(lots), i - 1)
    OBVIOUS
  <2>2. TakenFrom(lots, quantity)[i]
           = IF left <= 0 THEN 0 ELSE IF left < lots[i].quantity THEN left ELSE lots[i].quantity
    BY <1>10, <1>14, <2>0, <2>1, TakenIs
  <2>3. left = quantity - Total(Quantities(open), j - 1)
    BY <1>15, <2>1
  <2>4. taken[j]
           = IF left <= 0 THEN 0 ELSE IF left < open[j].quantity THEN left ELSE open[j].quantity
    BY <1>4, <1>12, <2>0, <2>3, TakenIs
  <2> QED BY <1>14, <2>2, <2>4
<1>17. GivenBy(lots, lots[i].source, quantity) = TakenFrom(lots, quantity)[i]
  BY <1>10, <1>14, LotInIs
<1>18. lots[i].source = source
  BY <1>8, <1>14
<1> HIDE DEF consumed
<1> QED BY <1>1, <1>9, <1>16, <1>17, <1>18 DEF consumed

\* Records that take units of their own of a lot take together no more than there are.
LEMMA ConsumedWithin ==
    ASSUME NEW h, NEW source, NEW users,
           users = {id \in DOMAIN h.disposalRecords :
                        source \in DOMAIN h.disposalRecords[id].lots},
           IsFiniteSet(users), NEW quantity \in Nat, NEW units,
           \A id \in users :
              /\ units[id] \subseteq 1..quantity
              /\ Cardinality(units[id]) = h.disposalRecords[id].lots[source].quantity,
           \A id, other \in users : id # other => units[id] \cap units[other] = {}
    PROVE  ConsumedOf(h, source) <= quantity
<1>1. PICK n \in Nat : n = Cardinality(users)
  BY FS_CardinalityType
<1>2. PICK seq : seq = SetToSeq(users)
  OBVIOUS
<1>3. seq \in [1..n -> users] /\ IsInjective(seq)
  <2>1. \E f : f \in [1..n -> users] /\ IsInjective(f)
    BY <1>1, FS_CardinalityType DEF ExistsBijection, Bijection, Injection
  <2> QED BY <1>1, <1>2, <2>1 DEF SetToSeq
<1>4. DOMAIN seq = 1..n /\ \A i \in 1..n : seq[i] \in users
  BY <1>3
<1>5. \A i, j \in 1..n : i # j => seq[i] # seq[j]
  BY <1>3, <1>4 DEF IsInjective
<1>6. PICK fold : fold = [of |-> "consumed", records |-> h.disposalRecords, source |-> source]
  OBVIOUS
<1>7. \A x, y : Applied(fold, x, y) = x + h.disposalRecords[y].lots[source].quantity
  BY <1>6 DEF Applied
<1>8. ConsumedOf(h, source) = Folded(fold, 0, seq)
  BY <1>2, <1>6, ConsumedFolded DEF ConsumedOf
<1> DEFINE C(k) == Folded(fold, 0, Upto(seq, k))
           E(k) == UNION {units[seq[i]] : i \in 1..k}
           N == {k \in Nat : k <= n => C(k) \in Nat /\ E(k) \subseteq 1..quantity
                                        /\ C(k) = Cardinality(E(k))}
<1>9. IsFiniteSet(1..quantity) /\ Cardinality(1..quantity) = quantity
  BY FS_Interval
<1>10. 0 \in N
  <2>1. C(0) = 0
    <3>1. DOMAIN Upto(seq, 0) = 1..0
      BY DEF Upto
    <3> QED BY <3>1, FoldedNone
  <2>2. E(0) = {}
    OBVIOUS
  <2>3. Cardinality({}) = 0
    BY FS_EmptySet
  <2> HIDE DEF C, E
  <2>4. C(0) \in Nat /\ E(0) \subseteq 1..quantity /\ C(0) = Cardinality(E(0))
    <3>1. Cardinality(E(0)) = Cardinality({})
      BY <2>2, Zenon
    <3> QED BY <2>1, <2>2, <2>3, <3>1
  <2> QED BY <2>4
<1>11. ASSUME NEW k \in N PROVE k + 1 \in N
  <2>1. k \in Nat /\ (k <= n => /\ C(k) \in Nat /\ E(k) \subseteq 1..quantity
                                /\ C(k) = Cardinality(E(k)))
    OBVIOUS
  <2>2. PICK p : p = k + 1
    OBVIOUS
  <2> SUFFICES ASSUME p <= n PROVE /\ C(p) \in Nat /\ E(p) \subseteq 1..quantity
                                   /\ C(p) = Cardinality(E(p))
    BY <2>1, <2>2
  <2>3. /\ p \in Nat \ {0} /\ k = p - 1 /\ k <= n /\ p \in 1..n
        /\ 1..p = 1..k \union {p} /\ \A i \in 1..k : i \in 1..n /\ i # p
    BY <2>1, <2>2
  <2>4. PICK id : id = seq[p]
    OBVIOUS
  <2>5. id \in users
    BY <1>4, <2>3, <2>4
  <2>6. C(p) = C(k) + h.disposalRecords[id].lots[source].quantity
    <3>1. /\ DOMAIN Upto(seq, p) = 1..p /\ DOMAIN Upto(seq, k) = 1..(p - 1)
          /\ \A i \in 1..(p - 1) : Upto(seq, k)[i] = Upto(seq, p)[i]
          /\ Upto(seq, p)[p] = seq[p]
      BY <2>3 DEF Upto
    <3>2. C(p) = Applied(fold, C(k), Upto(seq, p)[p])
      BY <2>3, <3>1, FoldedLast
    <3> QED BY <1>7, <2>4, <3>1, <3>2
  <2>7. E(p) = E(k) \union units[id]
    BY <2>3, <2>4
  <2>8. E(k) \cap units[id] = {}
    <3>1. \A i \in 1..k : units[seq[i]] \cap units[id] = {}
      BY <1>4, <1>5, <2>3, <2>4
    <3> QED BY <3>1
  <2> HIDE DEF C, E, N
  <2>9. /\ IsFiniteSet(E(k)) /\ IsFiniteSet(units[id])
        /\ Cardinality(E(k)) \in Nat /\ Cardinality(units[id]) \in Nat
    BY <1>9, <2>1, <2>3, <2>5, FS_Subset, FS_CardinalityType
  <2>10. Cardinality(E(p)) = Cardinality(E(k)) + Cardinality(units[id])
    <3>1. Cardinality(E(k) \union units[id])
             = Cardinality(E(k)) + Cardinality(units[id]) - Cardinality(E(k) \cap units[id])
      BY <2>9, FS_Union
    <3>2. Cardinality(E(k) \cap units[id]) = 0
      BY <2>8, FS_EmptySet
    <3>3. Cardinality(E(p)) = Cardinality(E(k) \union units[id])
      BY <2>7
    <3>4. ASSUME NEW x \in Nat, NEW y \in Nat, NEW z, z = 0 PROVE x + y - z = x + y
      BY <3>4
    <3> QED BY <2>9, <3>1, <3>2, <3>3, <3>4
  <2> QED BY <2>1, <2>3, <2>5, <2>6, <2>7, <2>9, <2>10
<1> HIDE DEF N
<1>12. Nat \subseteq N
  BY <1>10, <1>11, SetInduction
<1>13. C(n) \in Nat /\ E(n) \subseteq 1..quantity /\ C(n) = Cardinality(E(n))
  BY <1>12 DEF N
<1>14. Upto(seq, n) = seq
  BY <1>3 DEF Upto
<1>15. ConsumedOf(h, source) = Cardinality(E(n))
  BY <1>8, <1>13, <1>14
<1> HIDE DEF C, E
<1> QED BY <1>9, <1>13, <1>15, FS_Subset

\* The lot a replay has left is part of what was bought.
LEMMA UnitsLeft ==
    ASSUME NEW T, NEW source, NEW quantity, AreTakenOnce(source, quantity, T)
    PROVE  LeftOf(LotsOf(T), source) <= quantity
  BY DEF AreTakenOnce

\* What a record of a sale by first in, first out takes of one lot: its units of it.
LEMMA RecordTakesUnits ==
    ASSUME NEW S, NEW source, NEW quantity \in Nat,
           \A T \in SUBSET S : AreTakenOnce(source, quantity, T),
           NEW sale \in S, IsDecrease(sale), sale.quantity \in Nat,
           source \in DOMAIN BuildAutoConsumedLots(sale, Before(sale, S))
    PROVE  /\ UnitsOf(sale, source, S) \subseteq 1..quantity
           /\ Cardinality(UnitsOf(sale, source, S))
                = BuildAutoConsumedLots(sale, Before(sale, S))[source].quantity
<1>1. PICK lots : lots = LotsOf(Before(sale, S))
  OBVIOUS
<1>2. Before(sale, S) \in SUBSET S /\ S \in SUBSET S
  BY DEF Before
<1>3. PICK n : AreBought(lots, n, Before(sale, S))
  BY <1>1, <1>2 DEF AreTakenOnce
<1>4. PICK left, given : left = LeftOf(lots, source) /\ given = GivenBy(lots, source, sale.quantity)
  OBVIOUS
<1>5. left \in Nat /\ given \in Nat /\ given <= left
  BY <1>3, <1>4, GivenIsLeft
<1>6. UnitsOf(sale, source, S) = (left - given + 1)..left
  BY <1>1, <1>4 DEF UnitsOf
<1>7. Cardinality((left - given + 1)..left) = given
  BY <1>5, FS_Interval
<1>8. left <= quantity
  BY <1>1, <1>2, <1>4, <1>5, UnitsLeft
<1>9. BuildAutoConsumedLots(sale, Before(sale, S))[source].quantity = given
  BY <1>1, <1>3, <1>4, RecordTakes
<1>10. (left - given + 1)..left \subseteq 1..quantity
  BY <1>5, <1>8
<1>11. Cardinality(UnitsOf(sale, source, S)) = Cardinality((left - given + 1)..left)
  BY <1>6, Zenon
<1> QED BY <1>6, <1>7, <1>9, <1>10, <1>11

\* A record that is current under FIFO consumed the oldest lots then open.
LEMMA CurrentUnderFIFO ==
    ASSUME NEW h, NEW id, costBasisMethod = "FIFO", IsCurrent(h, id)
    PROVE  h.disposalRecords[id].lots
              = BuildAutoConsumedLots(h.transactions[id], Before(h.transactions[id], Steps(h)))
  BY DEF IsCurrent, Recalculated, Calculate, LotsConsumed, Preceding

\* The records are those of the replay, so what they take of a lot is part of what it had.
LEMMA NoneConsumedTwice ==
    ASSUME IInv, AllCounted, RecordsAreCurrentUnlessOutOfOrder,
           costBasisMethod = "FIFO", retyped \union outOfOrder = {},
           NEW a \in Assets, holdings[a].corporateActions = <<>>
    PROVE  NoLotConsumedTwice(holdings[a])
<1> DEFINE h == holdings[a]
           S == Steps(h)
<1>1. IsHolding(h) /\ IsCounted(h)
  BY DEF IInv, IsHoldings, IsSound, AllCounted
<1>2. IsOrdered(S)
  BY <1>1, StepsAreOrdered
<1>3. S = RangeOf(h.transactions)
  <2>1. DOMAIN h.corporateActions = {}
    OBVIOUS
  <2> QED BY <2>1 DEF Steps, RangeOf
<1>4. \A id \in DOMAIN h.transactions :
        /\ h.transactions[id] \in S /\ h.transactions[id].id = id
        /\ IsTraded(h.transactions[id])
  BY <1>1, <1>3 DEF IsHolding, IsTransaction, IsTraded, RangeOf
<1>5. \A s \in S : s.id \in DOMAIN h.transactions /\ s = h.transactions[s.id] /\ IsTraded(s)
  <2> SUFFICES ASSUME NEW s \in S
               PROVE  s.id \in DOMAIN h.transactions /\ s = h.transactions[s.id] /\ IsTraded(s)
    OBVIOUS
  <2>1. PICK id \in DOMAIN h.transactions : s = h.transactions[id]
    BY <1>3 DEF RangeOf
  <2> QED BY <1>4, <2>1
<1>6. \A id \in DOMAIN h.disposalRecords :
        /\ id \in DOMAIN h.transactions /\ IsDecrease(h.transactions[id])
        /\ h.disposalRecords[id].lots
              = BuildAutoConsumedLots(h.transactions[id], Before(h.transactions[id], S))
  <2> SUFFICES ASSUME NEW id \in DOMAIN h.disposalRecords
               PROVE  /\ id \in DOMAIN h.transactions /\ IsDecrease(h.transactions[id])
                      /\ h.disposalRecords[id].lots
                            = BuildAutoConsumedLots(h.transactions[id],
                                                    Before(h.transactions[id], S))
    OBVIOUS
  <2>1. id \in TransactionIds \ retyped
    BY <1>1 DEF IsHolding
  <2>2. id \in Disposals(h)
    BY <2>1 DEF IInv, IsHoldings, IsSound, HasItsRecordOf, HasItsRecord
  <2>3. IsCurrent(h, id)
    BY DEF RecordsAreCurrentUnlessOutOfOrder
  <2> HIDE DEF h
  <2> QED BY <2>2, <2>3, CurrentUnderFIFO DEF Disposals, IsDisposing, IsDecrease
<1>7. IsFiniteSet(DOMAIN h.disposalRecords)
  BY <1>1, FS_Subset DEF IsCounted, IdsOf
<1> HIDE DEF h, S
<1> SUFFICES ASSUME NEW source \in DOMAIN h.transactions, h.transactions[source].kind = "buy"
             PROVE  ConsumedOf(h, source) <= h.transactions[source].quantity
  BY DEF NoLotConsumedTwice, h
<1>8. PICK quantity : quantity = h.transactions[source].quantity
  OBVIOUS
<1>9. quantity \in Nat
  BY <1>4, <1>8 DEF IsTraded
<1>10. \A T \in SUBSET S : AreTakenOnce(source, quantity, T)
  <2>1. \A s \in S : s.id = source => s.kind = "buy" /\ s.quantity = quantity
    BY <1>5, <1>8
  <2> QED BY <1>2, <1>5, <1>9, <2>1, TakenOnce
<1>11. PICK users : users = {id \in DOMAIN h.disposalRecords :
                                source \in DOMAIN h.disposalRecords[id].lots}
  OBVIOUS
<1>12. IsFiniteSet(users)
  BY <1>7, <1>11, FS_Subset
<1>13. PICK units : units = [id \in users |-> UnitsOf(h.transactions[id], source, S)]
  OBVIOUS
<1>14. ASSUME NEW id \in users
       PROVE  /\ units[id] \subseteq 1..quantity
              /\ Cardinality(units[id]) = h.disposalRecords[id].lots[source].quantity
  <2>1. PICK sale : sale = h.transactions[id]
    OBVIOUS
  <2>2. /\ sale \in S /\ IsDecrease(sale) /\ sale.quantity \in Nat
        /\ h.disposalRecords[id].lots = BuildAutoConsumedLots(sale, Before(sale, S))
        /\ source \in DOMAIN h.disposalRecords[id].lots
    BY <1>4, <1>6, <1>11, <2>1 DEF IsTraded
  <2>3. /\ UnitsOf(sale, source, S) \subseteq 1..quantity
        /\ Cardinality(UnitsOf(sale, source, S))
             = BuildAutoConsumedLots(sale, Before(sale, S))[source].quantity
    BY <1>9, <1>10, <2>2, RecordTakesUnits
  <2>4. units[id] = UnitsOf(sale, source, S)
    BY <1>13, <2>1
  <2>5. Cardinality(units[id]) = Cardinality(UnitsOf(sale, source, S))
    BY <2>4, Zenon
  <2> QED BY <2>2, <2>3, <2>4, <2>5
<1>15. ASSUME NEW id \in users, NEW other \in users, id # other
       PROVE  units[id] \cap units[other] = {}
  <2>1. /\ h.transactions[id] \in S /\ h.transactions[other] \in S
        /\ IsDecrease(h.transactions[id]) /\ IsDecrease(h.transactions[other])
        /\ h.transactions[id] # h.transactions[other]
    BY <1>4, <1>6, <1>11, <1>15
  <2>2. AreTakenOnce(source, quantity, S)
    BY <1>10
  <2>3. UnitsOf(h.transactions[id], source, S) \cap UnitsOf(h.transactions[other], source, S) = {}
    BY <2>1, <2>2 DEF AreTakenOnce
  <2> QED BY <1>13, <2>3
<1>16. ConsumedOf(h, source) <= quantity
  BY <1>9, <1>11, <1>12, <1>14, <1>15, ConsumedWithin
<1> QED BY <1>8, <1>16

\* Under first in, first out the records on file of one lot together consume no more than
\* was bought: neither regeneration after a correction nor a sale that is entered late
\* counts a unit bought once as the cost of two sales. A sale appended behind steps of
\* its own date, and a transaction retyped to or from a disposal, are excepted.
THEOREM NoLotIsConsumedTwice == Spec => []LotsConsumedOnceUnderFIFO
<1>1. IInv /\ AllCounted /\ RecordsAreCurrentUnlessOutOfOrder => LotsConsumedOnceUnderFIFO
  BY NoneConsumedTwice DEF LotsConsumedOnceUnderFIFO
<1> QED BY <1>1, SpecIInv, SpecCounted, RecordsStayCurrent, PTL
=============================================================================
