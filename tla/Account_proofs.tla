--------------------------- MODULE Account_proofs ---------------------------
(***************************************************************************)
(* Two theorems about the account, for every catalogue of what may be      *)
(* asked of it and on every desk.                                          *)
(*                                                                         *)
(* RefusedIsUndone: a call that raises leaves no trace.  What              *)
(* _capture_apply_undo saves of each map is all that _apply changes of it, *)
(* so that putting it back gives the old books.  The argument needs of the *)
(* books only that each map is a function and the journal a sequence       *)
(* (Books), now and when the replay under way began (Kept).                *)
(*                                                                         *)
(* BooksAlwaysReconcile: the books are what their journal adds up to.      *)
(* Each call appends a row of whole amounts (Legs) whose key the books do  *)
(* not hold yet, since they remember the event, the action or the dividend *)
(* behind every key they hold (Recalled); a desk remembers the orders      *)
(* (DeskKept).  Reconciled is the inductive invariant: it says this of the *)
(* books outside a replay, of those captured before one, and, in one, of   *)
(* the rows in the sink.                                                   *)
(***************************************************************************)
EXTENDS Account, Induction

(* The fields of the books, and the maps that are undone entry by entry.   *)
Fields == {"journal", "keys", "accounts", "positions", "seen", "marked", "fills", "days", "closes",
           "lots", "marks", "entitled", "dividends", "records", "closed", "time"}

UndoneFields == {"accounts", "positions", "seen", "fills", "days", "closes", "lots", "marks", "entitled"}

(* A map given by its entries, and the rows of a sequence. *)
IsFunction(f) == f = [x \in DOMAIN f |-> f[x]]

Rows(s) == {s[n] : n \in DOMAIN s}

(* What the argument needs to know of books. *)
Books(l) ==
  /\ DOMAIN l = Fields /\ IsFunction(l)
  /\ l.journal \in Seq(Rows(l.journal))
  /\ \A f \in UndoneFields : IsFunction(l[f])

(* Two maps that agree at all keys but those of S. *)
AgreeOutside(f, g, S) ==
  /\ IsFunction(g)
  /\ DOMAIN f \ S \subseteq DOMAIN g /\ DOMAIN g \subseteq DOMAIN f \cup S
  /\ \A x \in DOMAIN f \ S : g[x] = f[x]

(* Saving the entries of f at S and putting them back into a map that      *)
(* differs from f only at S gives f: _capture_apply_undo against           *)
(* _restore_values, the absence of an entry included.                      *)
LEMMA PutBack ==
  ASSUME NEW f, NEW g, NEW S, IsFunction(f), AgreeOutside(f, g, S)
  PROVE  Restored(g, S, Saved(f, S)) = f
<1> DEFINE saved == Saved(f, S)
           back  == Restored(g, S, saved)
<1>1. DOMAIN saved = S \cap DOMAIN f /\ \A x \in DOMAIN saved : saved[x] = f[x]
  BY DEF Saved, Restrict
<1>2. back = [x \in (DOMAIN g \ S) \cup DOMAIN saved |->
                IF x \in DOMAIN saved THEN saved[x] ELSE g[x]]
  BY DEF Restored
<1>3. (DOMAIN g \ S) \cup DOMAIN saved = DOMAIN f
  BY <1>1 DEF AgreeOutside
<1>4. back = [x \in DOMAIN f |-> f[x]]
  BY <1>1, <1>2, <1>3 DEF AgreeOutside
<1> QED BY <1>4 DEF IsFunction

(* Changing one entry of a map gives a map. *)
LEMMA ChangedIsFunction ==
  ASSUME NEW f, NEW x, NEW v
  PROVE  IsFunction([f EXCEPT ![x] = v])
BY DEF IsFunction

(* Setting or dropping one entry changes a map only at that key, as every  *)
(* assignment of the ledger to one of its maps does.                       *)
LEMMA PutAgrees ==
  ASSUME NEW f, NEW x, NEW v
  PROVE  AgreeOutside(f, Put(f, x, v), {x}) /\ AgreeOutside(f, Drop(f, x), {x})
BY DEF IsFunction, Put, Drop, AgreeOutside

(* A transaction appended by _post is taken off the journal again by       *)
(* cutting it to its old length, as _rollback_apply does.                  *)
LEMMA Appended ==
  ASSUME NEW s, NEW tx, s \in Seq(Rows(s))
  PROVE  /\ Append(s, tx) \in Seq(Rows(Append(s, tx)))
         /\ SubSeq(Append(s, tx), 1, Len(s)) = s
         /\ SubSeq(s, 1, Len(s)) = s
<1> DEFINE S == Rows(s) \cup {tx}
           t == Append(s, tx)
<1>1. s \in Seq(S)
  BY DEF Rows
<1>2. t \in Seq(S) /\ Len(t) = Len(s) + 1 /\ \A n \in 1..Len(s) : t[n] = s[n]
  BY <1>1
<1>3. t \in Seq(Rows(t))
  <2> HIDE DEF t, S
  <2>1. t = [n \in 1..Len(t) |-> t[n]] /\ DOMAIN t = 1..Len(t) /\ Len(t) \in Nat
    BY <1>2
  <2>2. \A n \in 1..Len(t) : t[n] \in Rows(t)
    BY <2>1 DEF Rows
  <2>3. t \in [1..Len(t) -> Rows(t)]
    BY <2>1, <2>2
  <2> QED BY <2>1, <2>3
<1>4. SubSeq(s, 1, Len(s)) = s
  BY <1>1
<1>5. SubSeq(t, 1, Len(s)) = s
  <2>1. SubSeq(t, 1, Len(s)) = [n \in 1..Len(s) |-> t[n]]
    BY <1>1, <1>2
  <2>2. s = [n \in 1..Len(s) |-> s[n]]
    BY <1>1
  <2> QED BY <1>2, <2>1, <2>2
<1> QED BY <1>3, <1>4, <1>5

-----------------------------------------------------------------------------
(* What booking an event changes. *)

(* _post changes the balances only of the accounts, and the positions only *)
(* of the instruments, that its transaction names.                         *)
LEMMA PostedAgrees ==
  ASSUME NEW l, NEW tx, Books(l)
  PROVE  LET p == Posted(l, tx)
         IN  /\ Books(p)
             /\ p.journal = Append(l.journal, tx) /\ p.keys = l.keys \cup {tx.key}
             /\ AgreeOutside(l.accounts, p.accounts, DOMAIN tx.postings)
             /\ AgreeOutside(l.positions, p.positions, Moved(tx))
             /\ \A f \in Fields \ {"journal", "keys", "accounts", "positions"} : p[f] = l[f]
<1> DEFINE p == Posted(l, tx)
<1>1. DOMAIN p = Fields /\ IsFunction(p)
  BY DEF Posted, Books, IsFunction
<1>2. p.journal = Append(l.journal, tx) /\ p.keys = l.keys \cup {tx.key}
  BY DEF Posted, Books, Fields
<1>3. \A f \in Fields \ {"journal", "keys", "accounts", "positions"} : p[f] = l[f]
  BY DEF Posted, Books, Fields
<1>4. AgreeOutside(l.accounts, p.accounts, DOMAIN tx.postings)
  BY DEF Posted, Books, Fields, AgreeOutside, IsFunction
<1>5. AgreeOutside(l.positions, p.positions, Moved(tx))
  BY DEF Posted, Books, Fields, AgreeOutside, IsFunction
<1>6. p.journal \in Seq(Rows(p.journal))
  BY <1>2, Appended DEF Books
<1>7. \A f \in UndoneFields : IsFunction(p[f])
  BY <1>3, <1>4, <1>5 DEF Books, AgreeOutside, UndoneFields, Fields
<1> QED BY <1>1, <1>2, <1>3, <1>4, <1>5, <1>6, <1>7 DEF Books

(* Books that differ from p in what _capture_apply_undo saves of an event, *)
(* its posting apart.                                                      *)
Near(p, r, e) ==
  /\ Books(r)
  /\ \A f \in {"journal", "keys", "accounts", "positions", "seen", "marked", "dividends", "records",
               "closed", "time"} : r[f] = p[f]
  /\ \A f \in {"fills", "days", "closes"} : AgreeOutside(p[f], r[f], FillsOf(e))
  /\ \A f \in {"lots", "marks"} : AgreeOutside(p[f], r[f], InstrumentsOf(e))
  /\ AgreeOutside(p.entitled, r.entitled, EntitlementsOf(e))

(* A map that _apply does not assign agrees with itself. *)
LEMMA Unchanged ==
  ASSUME NEW f, NEW S, IsFunction(f)
  PROVE  AgreeOutside(f, f, S)
BY DEF AgreeOutside

(* An event that changes nothing but what _post does is covered by the     *)
(* undo record.                                                            *)
LEMMA SameIsNear ==
  ASSUME NEW p, NEW e, Books(p)
  PROVE  Near(p, p, e)
BY Unchanged DEF Near, Books, UndoneFields

(* A fill changes its own entries and the lots of its instrument           *)
(* (_record_fill and _prepare_lot_update), all of which are saved.         *)
LEMMA FillIsNear ==
  ASSUME NEW p, NEW e, NEW day, NEW update, Books(p), e.kind = "fill"
  PROVE  Near(p, AfterFill(p, e, day, update), e)
<1> DEFINE r == AfterFill(p, e, day, update)
<1>1. DOMAIN r = Fields /\ IsFunction(r)
  BY DEF AfterFill, Books, IsFunction
<1>2. \A f \in Fields \ {"fills", "days", "lots", "closes"} : r[f] = p[f]
  BY DEF AfterFill, Books, Fields
<1>8. r.fills = Put(p.fills, e.id, e.instrument)
  BY DEF AfterFill, Books, Fields
<1>11. r.days = Put(p.days, e.id, day)
  BY DEF AfterFill, Books, Fields
<1>9. r.lots = Put(p.lots, e.instrument, update.lots)
  BY DEF AfterFill, Books, Fields
<1>10. r.closes = Put(p.closes, e.id, [prior |-> update.prior, today |-> update.today])
  BY DEF AfterFill, Books, Fields
<1>3. FillsOf(e) = {e.id}
  BY DEF FillsOf
<1>12. InstrumentsOf(e) = {e.instrument}
  BY DEF InstrumentsOf
<1> HIDE DEF r
<1>4. \A f \in {"fills", "days", "closes"} : AgreeOutside(p[f], r[f], FillsOf(e))
  <2>1. AgreeOutside(p.fills, r.fills, FillsOf(e))
    <3>1. AgreeOutside(p.fills, Put(p.fills, e.id, e.instrument), {e.id})
      BY PutAgrees
    <3> QED BY <1>8, <1>3, <3>1
  <2>2. AgreeOutside(p.days, r.days, FillsOf(e))
    <3>1. AgreeOutside(p.days, Put(p.days, e.id, day), {e.id})
      BY PutAgrees
    <3> QED BY <1>11, <1>3, <3>1
  <2>3. AgreeOutside(p.closes, r.closes, FillsOf(e))
    <3>1. AgreeOutside(p.closes, Put(p.closes, e.id, [prior |-> update.prior, today |-> update.today]), {e.id})
      BY PutAgrees
    <3> QED BY <1>10, <1>3, <3>1
  <2> QED BY <2>1, <2>2, <2>3
<1>5. \A f \in {"lots", "marks"} : AgreeOutside(p[f], r[f], InstrumentsOf(e))
  <2>1. AgreeOutside(p.lots, r.lots, InstrumentsOf(e))
    BY <1>9, <1>12, PutAgrees
  <2>2. AgreeOutside(p.marks, r.marks, InstrumentsOf(e))
    BY <1>2, Unchanged DEF Books, UndoneFields, Fields
  <2> QED BY <2>1, <2>2
<1>6. AgreeOutside(p.entitled, r.entitled, EntitlementsOf(e))
  BY <1>2, Unchanged DEF Books, UndoneFields, Fields
<1>7. Books(r)
  BY <1>1, <1>2, <1>4, <1>5, <1>6 DEF Books, UndoneFields, Fields, AgreeOutside
<1>13. Near(p, r, e)
  BY <1>2, <1>4, <1>5, <1>6, <1>7 DEF Near, Fields
<1> QED BY <1>13 DEF r

(* _apply_dividend_state changes only the entitlement of its event. *)
LEMMA DividendIsNear ==
  ASSUME NEW p, NEW e, Books(p), e.kind = "action"
  PROVE  LET d == DividendState(p, e)
         IN  Near(p, d, e) /\ \A f \in Fields \ {"entitled"} : d[f] = p[f]
<1> DEFINE d == DividendState(p, e)
<1>1. CASE e.type \notin {"cash_dividend_entitlement", "cash_dividend_payment"}
  BY <1>1, SameIsNear DEF DividendState
<1>2. CASE e.type \in {"cash_dividend_entitlement", "cash_dividend_payment"}
  <2>1. EntitlementsOf(e) = {EntitlementKey(e)}
    BY <1>2 DEF EntitlementsOf
  <2>2. PICK m : d = [p EXCEPT !.entitled = m] /\ AgreeOutside(p.entitled, m, {EntitlementKey(e)})
    BY <1>2, PutAgrees DEF DividendState, Books, Fields
  <2>3. DOMAIN d = Fields /\ IsFunction(d)
    BY <2>2 DEF Books, IsFunction
  <2>4. d.entitled = m /\ \A f \in Fields \ {"entitled"} : d[f] = p[f]
    BY <2>2 DEF Books, Fields
  <2>5. Books(d)
    BY <2>2, <2>3, <2>4 DEF Books, UndoneFields, Fields, AgreeOutside
  <2>6. /\ \A f \in {"fills", "days", "closes"} : AgreeOutside(p[f], d[f], FillsOf(e))
        /\ \A f \in {"lots", "marks"} : AgreeOutside(p[f], d[f], InstrumentsOf(e))
    BY <2>4, Unchanged DEF Books, UndoneFields, Fields
  <2> QED BY <2>1, <2>2, <2>4, <2>5, <2>6 DEF Near, Fields
<1> QED BY <1>1, <1>2

(* New lots and marks of the instrument of the event are saved ones. *)
LEMMA RemarkedIsNear ==
  ASSUME NEW p, NEW d, NEW e, NEW lots, NEW marks,
         Near(p, d, e), e.kind # "fee",
         \A f \in Fields \ {"entitled"} : d[f] = p[f], Books(p),
         AgreeOutside(d.lots, lots, {e.instrument}), AgreeOutside(d.marks, marks, {e.instrument})
  PROVE  Near(p, [d EXCEPT !.lots = lots, !.marks = marks], e)
<1> DEFINE r == [d EXCEPT !.lots = lots, !.marks = marks]
<1>0. Books(d)
  BY DEF Near
<1>1. DOMAIN r = Fields /\ IsFunction(r)
  BY <1>0 DEF Books, IsFunction
<1>2. r.lots = lots /\ r.marks = marks /\ \A f \in Fields \ {"lots", "marks"} : r[f] = d[f]
  BY <1>0 DEF Books, Fields
<1>3. InstrumentsOf(e) = {e.instrument}
  BY DEF InstrumentsOf
<1>4. Books(r)
  BY <1>0, <1>1, <1>2 DEF Books, UndoneFields, Fields, AgreeOutside
<1>5. \A f \in {"lots", "marks"} : AgreeOutside(p[f], r[f], InstrumentsOf(e))
  BY <1>2, <1>3 DEF Fields
<1>6. \A f \in Fields \ {"lots", "marks"} : r[f] = d[f]
  BY <1>2
<1> QED BY <1>4, <1>5, <1>6 DEF Near, Fields

(* A corporate action changes only the entitlement, the lots and the marks *)
(* of its event (_apply_split_state, _apply_dividend_state).               *)
LEMMA ActionIsNear ==
  ASSUME NEW p, NEW e, Books(p), e.kind = "action"
  PROVE  Near(p, AfterAction(p, e), e)
<1> DEFINE d == DividendState(p, e)
<1>1. Near(p, d, e) /\ Books(d) /\ \A f \in Fields \ {"entitled"} : d[f] = p[f]
  BY DividendIsNear DEF Near
<1> HIDE DEF d
<1>2. IsFunction(d.lots) /\ IsFunction(d.marks)
  BY <1>1 DEF Books, UndoneFields
<1>6. ASSUME NEW lots, NEW marks, AgreeOutside(d.lots, lots, {e.instrument}),
             AgreeOutside(d.marks, marks, {e.instrument})
      PROVE  Near(p, [d EXCEPT !.lots = lots, !.marks = marks], e)
  <2>1. e.kind # "fee"
    OBVIOUS
  <2>2. \A f \in Fields \ {"entitled"} : d[f] = p[f]
    BY <1>1
  <2>3. Near(p, d, e)
    BY <1>1
  <2> QED BY <1>6, <2>1, <2>2, <2>3, RemarkedIsNear
<1>3. CASE e.shares > 0
  <2> DEFINE lots == Put(d.lots, e.instrument,
                         Append(Lots(d, e.instrument),
                                [day |-> e.sellable - 1, quantity |-> e.shares]))
             marks == IF e.reference = 0 THEN d.marks
                      ELSE Put(d.marks, e.instrument, e.reference)
  <2>1. ShareLot(d, e) = [d EXCEPT !.lots = lots, !.marks = marks]
    BY <1>1 DEF ShareLot, Books, Fields
  <2>2. AgreeOutside(d.lots, lots, {e.instrument})
    BY PutAgrees
  <2>3. AgreeOutside(d.marks, marks, {e.instrument})
    BY <1>2, PutAgrees, Unchanged
  <2>4. AfterAction(p, e) = [d EXCEPT !.lots = lots, !.marks = marks]
    BY <1>3, <2>1 DEF AfterAction, d
  <2> HIDE DEF lots, marks
  <2>5. Near(p, [d EXCEPT !.lots = lots, !.marks = marks], e)
    BY <1>6, <2>2, <2>3
  <2> QED BY <2>4, <2>5
<1>4. CASE ~(e.shares > 0) /\ (e.ratio # <<>> \/ e.type = "terminal_cash")
  <2>1. PICK lots, marks :
          /\ Split(d, e) = [d EXCEPT !.lots = lots, !.marks = marks]
          /\ AgreeOutside(d.lots, lots, {e.instrument})
          /\ AgreeOutside(d.marks, marks, {e.instrument})
    <3>1. CASE e.type = "terminal_cash"
      <4>1. Split(d, e) = [d EXCEPT !.lots = Put(d.lots, e.instrument, <<>>),
                                    !.marks = Drop(d.marks, e.instrument)]
        BY <1>1, <3>1 DEF Split, Books, Fields
      <4> QED BY <4>1, PutAgrees
    <3>2. CASE e.type # "terminal_cash"
      <4> DEFINE lots ==
                   Put(d.lots, e.instrument,
                       [n \in 1..Len(Lots(d, e.instrument)) |->
                          [Lots(d, e.instrument)[n] EXCEPT
                             !.quantity = (@ * e.ratio[1]) \div e.ratio[2]]])
                 marks ==
                   [j \in DOMAIN d.marks |->
                      IF j = e.instrument THEN (d.marks[j] * e.ratio[2]) \div e.ratio[1]
                      ELSE d.marks[j]]
      <4>1. Split(d, e) = [d EXCEPT !.lots = lots, !.marks = marks]
        BY <1>1, <3>2 DEF Split, Books, Fields
      <4>2. AgreeOutside(d.lots, lots, {e.instrument})
        BY PutAgrees
      <4>3. AgreeOutside(d.marks, marks, {e.instrument})
        BY <1>2 DEF AgreeOutside, IsFunction
      <4> HIDE DEF lots, marks
      <4> QED BY <4>1, <4>2, <4>3
    <3> QED BY <3>1, <3>2
  <2>2. AfterAction(p, e) = [d EXCEPT !.lots = lots, !.marks = marks]
    BY <1>4, <2>1 DEF AfterAction, d
  <2>3. Near(p, [d EXCEPT !.lots = lots, !.marks = marks], e)
    BY <1>6, <2>1
  <2> QED BY <2>2, <2>3
<1>5. CASE ~(e.shares > 0) /\ ~(e.ratio # <<>> \/ e.type = "terminal_cash")
  BY <1>1, <1>5 DEF AfterAction, d
<1> QED BY <1>3, <1>4, <1>5

(* Whatever the kind of the event, what _apply records of it beside its    *)
(* transaction is covered by the undo record.                              *)
LEMMA RecordedIsNear ==
  ASSUME NEW l, NEW p, NEW e, NEW day, Books(p)
  PROVE  Near(p, Recorded(l, p, e, day), e)
<1>1. CASE e.kind = "fill"
  BY <1>1, FillIsNear DEF Recorded
<1>2. CASE e.kind = "action"
  BY <1>2, ActionIsNear DEF Recorded
<1>3. CASE e.kind = "settlement" /\ e.type = "daily_mark"
  <2> DEFINE marks == Put(p.marks, e.instrument, e.price)
  <2>1. Recorded(l, p, e, day) = [p EXCEPT !.marks = marks]
    BY <1>3 DEF Recorded, Books, Fields
  <2>2. [p EXCEPT !.marks = marks] = [p EXCEPT !.lots = p.lots, !.marks = marks]
    BY DEF Books, Fields
  <2>3. /\ AgreeOutside(p.marks, marks, {e.instrument})
        /\ AgreeOutside(p.lots, p.lots, {e.instrument})
    BY PutAgrees, Unchanged DEF Books, UndoneFields
  <2>4. Near(p, p, e) /\ e.kind # "fee"
    BY <1>3, SameIsNear
  <2> HIDE DEF marks
  <2>5. Near(p, [p EXCEPT !.lots = p.lots, !.marks = marks], e)
    BY <2>3, <2>4, RemarkedIsNear
  <2> QED BY <2>1, <2>2, <2>5
<1>4. CASE e.kind \notin {"fill", "action"} /\ ~(e.kind = "settlement" /\ e.type = "daily_mark")
  BY <1>4, SameIsNear DEF Recorded
<1> QED BY <1>1, <1>2, <1>3, <1>4

(* p is l with the transaction of an event, or l itself. *)
PostedOf(l, p, tx) ==
  /\ Books(p)
  /\ SubSeq(p.journal, 1, Len(l.journal)) = l.journal
  /\ (IF tx.key \in l.keys THEN p.keys ELSE p.keys \ {tx.key}) = l.keys
  /\ AgreeOutside(l.accounts, p.accounts, DOMAIN tx.postings)
  /\ AgreeOutside(l.positions, p.positions, Moved(tx))
  /\ \A f \in Fields \ {"journal", "keys", "accounts", "positions"} : p[f] = l[f]

(* b is l with an event booked: what is not saved by its undo record is    *)
(* what it was.                                                            *)
BookedOf(l, b, e, tx) ==
  /\ Books(b)
  /\ SubSeq(b.journal, 1, Len(l.journal)) = l.journal
  /\ (IF tx.key \in l.keys THEN b.keys ELSE b.keys \ {tx.key}) = l.keys
  /\ AgreeOutside(l.accounts, b.accounts, DOMAIN tx.postings)
  /\ AgreeOutside(l.positions, b.positions, Moved(tx))
  /\ AgreeOutside(l.seen, b.seen, {e.id})
  /\ \A f \in {"fills", "days", "closes"} : AgreeOutside(l[f], b[f], FillsOf(e))
  /\ \A f \in {"lots", "marks"} : AgreeOutside(l[f], b[f], InstrumentsOf(e))
  /\ AgreeOutside(l.entitled, b.entitled, EntitlementsOf(e))
  /\ \A f \in {"marked", "dividends", "records", "closed"} : b[f] = l[f]

(* The books an event is recorded on, with its transaction or, when it has *)
(* no effect, as they were, differ only where the transaction posts.       *)
LEMMA PostingAgrees ==
  ASSUME NEW l, NEW e, NEW tx, Books(l), NEW p,
         p = IF NoEffect(e, tx) THEN l ELSE Posted(l, tx)
  PROVE  PostedOf(l, p, tx)
<1>1. CASE NoEffect(e, tx)
  <2>1. SubSeq(l.journal, 1, Len(l.journal)) = l.journal
    BY Appended DEF Books
  <2>2. /\ AgreeOutside(l.accounts, l.accounts, DOMAIN tx.postings)
        /\ AgreeOutside(l.positions, l.positions, Moved(tx))
    BY Unchanged DEF Books, UndoneFields
  <2>3. (IF tx.key \in l.keys THEN l.keys ELSE l.keys \ {tx.key}) = l.keys
    OBVIOUS
  <2> QED BY <1>1, <2>1, <2>2, <2>3 DEF PostedOf
<1>2. CASE ~NoEffect(e, tx)
  <2>0. p = Posted(l, tx)
    BY <1>2
  <2>1. /\ Books(p) /\ p.journal = Append(l.journal, tx) /\ p.keys = l.keys \cup {tx.key}
        /\ AgreeOutside(l.accounts, p.accounts, DOMAIN tx.postings)
        /\ AgreeOutside(l.positions, p.positions, Moved(tx))
        /\ \A f \in Fields \ {"journal", "keys", "accounts", "positions"} : p[f] = l[f]
    BY <2>0, PostedAgrees
  <2>2. SubSeq(p.journal, 1, Len(l.journal)) = l.journal
    BY <2>1, Appended DEF Books
  <2>3. (IF tx.key \in l.keys THEN p.keys ELSE p.keys \ {tx.key}) = l.keys
    BY <2>1
  <2> QED BY <2>1, <2>2, <2>3 DEF PostedOf
<1> QED BY <1>1, <1>2

(* Every event leaves books, which differ from those before it only in     *)
(* what its undo record saves.                                             *)
LEMMA BookedAgrees ==
  ASSUME NEW l, NEW e, NEW day, NEW tx, Books(l), NEW b, b = BookedAs(l, e, day, tx)
  PROVE  BookedOf(l, b, e, tx)
<1> DEFINE p == IF NoEffect(e, tx) THEN l ELSE Posted(l, tx)
           r == Recorded(l, p, e, day)
<1>0. p = IF NoEffect(e, tx) THEN l ELSE Posted(l, tx)
  OBVIOUS
<1>14. b = [r EXCEPT !.seen = Put(@, e.id, e), !.time = e.time]
  BY DEF BookedAs
<1>15. r = Recorded(l, p, e, day)
  OBVIOUS
<1> HIDE DEF p, r
<1>1. PostedOf(l, p, tx)
  BY <1>0, PostingAgrees
<1>2. Near(p, r, e)
  BY <1>1, <1>15, RecordedIsNear DEF PostedOf
<1>3. b = [r EXCEPT !.seen = Put(r.seen, e.id, e), !.time = e.time]
  BY <1>14
<1>4. Books(r)
  BY <1>2 DEF Near
<1>5. DOMAIN b = Fields /\ IsFunction(b)
  BY <1>3, <1>4 DEF Books, IsFunction
<1>6. b.seen = Put(r.seen, e.id, e) /\ \A f \in Fields \ {"seen", "time"} : b[f] = r[f]
  BY <1>3, <1>4 DEF Books, Fields
<1>7. AgreeOutside(l.seen, b.seen, {e.id})
  <2>1. r.seen = l.seen
    BY <1>1, <1>2 DEF Near, Fields, PostedOf
  <2>2. b.seen = Put(l.seen, e.id, e)
    BY <1>6, <2>1
  <2> QED BY <2>2, PutAgrees
<1>8. Books(b)
  BY <1>4, <1>5, <1>6, <1>7 DEF Books, UndoneFields, Fields, AgreeOutside
<1>9. b.journal = p.journal /\ b.keys = p.keys /\ b.accounts = p.accounts /\ b.positions = p.positions
  BY <1>2, <1>6 DEF Near, Fields, PostedOf
<1>10. \A f \in {"fills", "days", "closes"} : AgreeOutside(l[f], b[f], FillsOf(e))
  BY <1>1, <1>2, <1>6 DEF Near, Fields, PostedOf
<1>11. \A f \in {"lots", "marks"} : AgreeOutside(l[f], b[f], InstrumentsOf(e))
  BY <1>1, <1>2, <1>6 DEF Near, Fields, PostedOf
<1>12. AgreeOutside(l.entitled, b.entitled, EntitlementsOf(e))
  BY <1>1, <1>2, <1>6 DEF Near, Fields, PostedOf
<1>13. \A f \in {"marked", "dividends", "records", "closed"} : b[f] = l[f]
  BY <1>1, <1>2, <1>6 DEF Near, Fields, PostedOf
<1> QED BY <1>1, <1>7, <1>8, <1>9, <1>10, <1>11, <1>12, <1>13 DEF BookedOf, PostedOf

(* _rollback_apply after the body of _apply gives back the books before    *)
(* it, for every event, trading day and transaction.                       *)
THEOREM UndoRestores ==
  ASSUME NEW l, NEW e, NEW day, NEW tx, Books(l)
  PROVE  Rollback(BookedAs(l, e, day, tx), e, tx, Undo(l, e, tx)) = l
<1> DEFINE b == BookedAs(l, e, day, tx)
           u == Undo(l, e, tx)
           R == Rollback(b, e, tx, u)
<1>0. BookedOf(l, b, e, tx)
  BY BookedAgrees
<1>1. /\ Books(b)
      /\ SubSeq(b.journal, 1, Len(l.journal)) = l.journal
      /\ (IF tx.key \in l.keys THEN b.keys ELSE b.keys \ {tx.key}) = l.keys
      /\ AgreeOutside(l.accounts, b.accounts, DOMAIN tx.postings)
      /\ AgreeOutside(l.positions, b.positions, Moved(tx))
      /\ AgreeOutside(l.seen, b.seen, {e.id})
      /\ \A f \in {"fills", "days", "closes"} : AgreeOutside(l[f], b[f], FillsOf(e))
      /\ \A f \in {"lots", "marks"} : AgreeOutside(l[f], b[f], InstrumentsOf(e))
      /\ AgreeOutside(l.entitled, b.entitled, EntitlementsOf(e))
      /\ \A f \in {"marked", "dividends", "records", "closed"} : b[f] = l[f]
  BY <1>0 DEF BookedOf
<1> HIDE DEF b
<1>2. /\ DOMAIN R = Fields /\ IsFunction(R)
      /\ R.journal = SubSeq(b.journal, 1, u.count)
      /\ R.keys = IF u.known THEN b.keys ELSE b.keys \ {tx.key}
      /\ R.accounts = Restored(b.accounts, DOMAIN tx.postings, u.accounts)
      /\ R.positions = Restored(b.positions, Moved(tx), u.positions)
      /\ R.seen = Restored(b.seen, {e.id}, u.seen)
      /\ R.fills = Restored(b.fills, FillsOf(e), u.fills)
      /\ R.days = Restored(b.days, FillsOf(e), u.days)
      /\ R.closes = Restored(b.closes, FillsOf(e), u.closes)
      /\ R.lots = Restored(b.lots, InstrumentsOf(e), u.lots)
      /\ R.marks = Restored(b.marks, InstrumentsOf(e), u.marks)
      /\ R.entitled = Restored(b.entitled, EntitlementsOf(e), u.entitled)
      /\ R.time = u.time
      /\ \A f \in {"marked", "dividends", "records", "closed"} : R[f] = b[f]
  <2> HIDE DEF u
  <2>1. DOMAIN R = Fields /\ IsFunction(R)
    <3>1. DOMAIN R = DOMAIN b
      BY DEF Rollback, R
    <3>2. DOMAIN b = Fields
      BY <1>1 DEF Books
    <3>3. IsFunction(R)
      BY ChangedIsFunction, Zenon DEF Rollback, R
    <3> QED BY <3>1, <3>2, <3>3
  <2>2. R.journal = SubSeq(b.journal, 1, u.count)
    BY <1>1 DEF Rollback, Books, Fields, R
  <2>3. R.keys = IF u.known THEN b.keys ELSE b.keys \ {tx.key}
    BY <1>1 DEF Rollback, Books, Fields, R
  <2>4. R.accounts = Restored(b.accounts, DOMAIN tx.postings, u.accounts)
    BY <1>1 DEF Rollback, Books, Fields, R
  <2>5. R.positions = Restored(b.positions, Moved(tx), u.positions)
    BY <1>1 DEF Rollback, Books, Fields, R
  <2>6. R.seen = Restored(b.seen, {e.id}, u.seen)
    BY <1>1 DEF Rollback, Books, Fields, R
  <2>7. R.fills = Restored(b.fills, FillsOf(e), u.fills)
    BY <1>1 DEF Rollback, Books, Fields, R
  <2>8. R.days = Restored(b.days, FillsOf(e), u.days)
    BY <1>1 DEF Rollback, Books, Fields, R
  <2>9. R.closes = Restored(b.closes, FillsOf(e), u.closes)
    BY <1>1 DEF Rollback, Books, Fields, R
  <2>10. R.lots = Restored(b.lots, InstrumentsOf(e), u.lots)
    BY <1>1 DEF Rollback, Books, Fields, R
  <2>11. R.marks = Restored(b.marks, InstrumentsOf(e), u.marks)
    BY <1>1 DEF Rollback, Books, Fields, R
  <2>12. R.entitled = Restored(b.entitled, EntitlementsOf(e), u.entitled)
    BY <1>1 DEF Rollback, Books, Fields, R
  <2>13. R.time = u.time
    BY <1>1 DEF Rollback, Books, Fields, R
  <2>14. \A f \in {"marked", "dividends", "records", "closed"} : R[f] = b[f]
    BY <1>1 DEF Rollback, Books, Fields, R
  <2> HIDE DEF R
  <2> QED BY <2>1, <2>2, <2>3, <2>4, <2>5, <2>6, <2>7, <2>8, <2>9, <2>10, <2>11, <2>12, <2>13, <2>14
<1>3. /\ u.count = Len(l.journal) /\ u.known = (tx.key \in l.keys)
      /\ u.accounts = Saved(l.accounts, DOMAIN tx.postings)
      /\ u.positions = Saved(l.positions, Moved(tx)) /\ u.seen = Saved(l.seen, {e.id})
      /\ u.fills = Saved(l.fills, FillsOf(e)) /\ u.days = Saved(l.days, FillsOf(e))
      /\ u.closes = Saved(l.closes, FillsOf(e)) /\ u.lots = Saved(l.lots, InstrumentsOf(e))
      /\ u.marks = Saved(l.marks, InstrumentsOf(e))
      /\ u.entitled = Saved(l.entitled, EntitlementsOf(e)) /\ u.time = l.time
  BY DEF Undo
<1> HIDE DEF u, R
<1>4. R.journal = l.journal /\ R.keys = l.keys /\ R.time = l.time
  BY <1>1, <1>2, <1>3
<1>5. R.accounts = l.accounts
  BY <1>1, <1>2, <1>3, PutBack DEF Books, UndoneFields
<1>6. R.positions = l.positions
  BY <1>1, <1>2, <1>3, PutBack DEF Books, UndoneFields
<1>7. R.seen = l.seen
  BY <1>1, <1>2, <1>3, PutBack DEF Books, UndoneFields
<1>8. R.fills = l.fills
  BY <1>1, <1>2, <1>3, PutBack DEF Books, UndoneFields
<1>9. R.days = l.days
  BY <1>1, <1>2, <1>3, PutBack DEF Books, UndoneFields
<1>10. R.closes = l.closes
  BY <1>1, <1>2, <1>3, PutBack DEF Books, UndoneFields
<1>11. R.lots = l.lots
  BY <1>1, <1>2, <1>3, PutBack DEF Books, UndoneFields
<1>12. R.marks = l.marks
  BY <1>1, <1>2, <1>3, PutBack DEF Books, UndoneFields
<1>13. R.entitled = l.entitled
  BY <1>1, <1>2, <1>3, PutBack DEF Books, UndoneFields
<1>14. \A f \in {"marked", "dividends", "records", "closed"} : R[f] = l[f]
  BY <1>1, <1>2
<1>15. \A f \in Fields : R[f] = l[f]
  BY <1>4, <1>5, <1>6, <1>7, <1>8, <1>9, <1>10, <1>11, <1>12, <1>13, <1>14 DEF Fields
<1>16. R = [f \in Fields |-> R[f]] /\ l = [f \in Fields |-> l[f]]
  BY <1>2 DEF Books, IsFunction
<1> QED BY <1>15, <1>16 DEF R, u, b

-----------------------------------------------------------------------------
(* Every call leaves books. *)

(* Books with some fields assigned anew are books when those are functions *)
(* again and the journal a sequence.                                       *)
LEMMA StillBooks ==
  ASSUME NEW l, NEW r, Books(l), DOMAIN r = Fields, IsFunction(r),
         r.journal \in Seq(Rows(r.journal)),
         \A f \in UndoneFields : r[f] = l[f] \/ IsFunction(r[f])
  PROVE  Books(r)
BY DEF Books

(* _post leaves books. *)
LEMMA PostedBooks ==
  ASSUME NEW l, NEW tx, Books(l)
  PROVE  Books(Posted(l, tx))
BY PostedAgrees

(* A map is still one after an entry was set or dropped. *)
LEMMA PutIsFunction ==
  ASSUME NEW f, NEW x, NEW v
  PROVE  IsFunction(Put(f, x, v)) /\ IsFunction(Drop(f, x))
BY DEF IsFunction, Put, Drop

(* A new ledger, and one that reset() has made ready to stream, has books. *)
LEMMA OpenedBooks ==
  Books(Opened) /\ Books([Opened EXCEPT !.journal = <<>>])
<1>1. DOMAIN Opened = Fields /\ IsFunction(Opened)
  BY DEF Opened, Fields, IsFunction
<1>2. Opened.journal \in Seq(Rows(Opened.journal))
  <2> DEFINE j == [n \in 1..Len(InitialCash) |-> OpeningTransaction(n)]
  <2>1. Opened.journal = j
    BY DEF Opened
  <2>2. Len(InitialCash) \in Nat
    BY LedgerAssumption
  <2>3. j \in [1..Len(InitialCash) -> Rows(j)]
    BY DEF Rows
  <2>4. j \in Seq(Rows(j))
    BY <2>2, <2>3
  <2> QED BY <2>1, <2>4
<1>3. \A f \in UndoneFields : IsFunction(Opened[f])
  <2>1. IsFunction(Opened.accounts)
    <3> DEFINE amount(k) == LET n == CHOOSE m \in DOMAIN InitialCash : InitialCash[m].currency = k[2]
                            IN  OpeningTransaction(n).postings[k].amount
               names == UNION {DOMAIN OpeningTransaction(n).postings : n \in DOMAIN InitialCash}
    <3>1. Opened.accounts = [k \in names |-> amount(k)]
      BY DEF Opened
    <3> HIDE DEF amount, names
    <3> QED BY <3>1 DEF IsFunction
  <2>2. \A f \in UndoneFields \ {"accounts"} : Opened[f] = [x \in {} |-> 0]
    BY DEF Opened, UndoneFields
  <2> QED BY <2>1, <2>2 DEF IsFunction
<1>4. Books(Opened)
  BY <1>1, <1>2, <1>3 DEF Books
<1>5. Books([Opened EXCEPT !.journal = <<>>])
  <2> DEFINE r == [Opened EXCEPT !.journal = <<>>]
  <2>1. DOMAIN r = Fields /\ IsFunction(r)
    BY <1>1 DEF IsFunction
  <2>2. r.journal = <<>> /\ \A f \in UndoneFields : r[f] = Opened[f]
    BY <1>1 DEF Fields, UndoneFields
  <2> HIDE DEF r
  <2>3. r.journal \in Seq(Rows(r.journal))
    BY <2>2
  <2>4. Books(r)
    BY <1>4, <2>1, <2>2, <2>3, StillBooks
  <2> QED BY <2>4 DEF r
<1> QED BY <1>4, <1>5

(* mark leaves books. *)
LEMMA MarkedBooks ==
  ASSUME NEW l, NEW m, Books(l)
  PROVE  Books([l EXCEPT !.marks = Put(@, m.instrument, m.price),
                         !.marked = Put(@, m.id, m), !.time = m.time])
<1> DEFINE r == [l EXCEPT !.marks = Put(@, m.instrument, m.price),
                          !.marked = Put(@, m.id, m), !.time = m.time]
<1>1. DOMAIN r = Fields /\ IsFunction(r)
  BY DEF Books, IsFunction
<1>2. r.journal = l.journal /\ IsFunction(r.marks)
  BY PutIsFunction DEF Books, Fields
<1>3. \A f \in UndoneFields \ {"marks"} : r[f] = l[f]
  BY DEF Books, Fields, UndoneFields
<1> HIDE DEF r
<1>4. Books(r)
  BY <1>1, <1>2, <1>3, StillBooks DEF Books
<1> QED BY <1>4 DEF r

(* apply_action leaves books, by whichever of its three ways. *)
LEMMA ActionBooks ==
  ASSUME NEW l, NEW a, NEW at, Books(l)
  PROVE  Books(ActionBooked(l, a, at))
<1>1. ASSUME NEW p, Books(p), NEW lots, NEW marks,
             IsFunction(lots), IsFunction(marks)
      PROVE  Books([p EXCEPT !.lots = lots, !.marks = marks, !.time = at])
  <2> DEFINE r == [p EXCEPT !.lots = lots, !.marks = marks, !.time = at]
  <2>1. DOMAIN r = Fields /\ IsFunction(r)
    BY <1>1 DEF Books, IsFunction
  <2>2. r.journal = p.journal /\ r.lots = lots /\ r.marks = marks
    BY <1>1 DEF Books, Fields
  <2>3. \A f \in UndoneFields \ {"lots", "marks"} : r[f] = p[f]
    BY <1>1 DEF Books, Fields, UndoneFields
  <2> HIDE DEF r
  <2>4. Books(r)
    BY <1>1, <2>1, <2>2, <2>3, StillBooks DEF Books
  <2> QED BY <2>4 DEF r
<1>2. ASSUME NEW tx
      PROVE  /\ Books(Posted(l, tx)) /\ IsFunction(Posted(l, tx).marks)
             /\ Books(PostedIfAny(l, tx))
  BY PostedBooks DEF PostedIfAny, Books, UndoneFields
<1>3. Books(CashInLieu(l, a, at))
  <2> DEFINE i  == a.instrument
             tx == [key |-> <<"financial", a.id>>, time |-> at,
                    postings |-> Together(<<Amount(Cash(a.currency), a.retired * a.cash),
                                            Amount(Cost(i), -Allocated(l, i, a.retired)),
                                            Amount(Income("income:realized_pnl", i),
                                                   Allocated(l, i, a.retired) - a.retired * a.cash),
                                            Shares(i, -a.retired)>>)]
             p  == Posted(l, tx)
             lots == Put(p.lots, i, Without(Lots(l, i), Taken(Lots(l, i), a.retired)))
             marks == IF a.retired = Held(l, i) THEN Drop(p.marks, i) ELSE p.marks
  <2>1. CashInLieu(l, a, at) = [p EXCEPT !.lots = lots, !.marks = marks, !.time = at]
    BY DEF CashInLieu
  <2> HIDE DEF tx
  <2>2. Books(p) /\ IsFunction(lots) /\ IsFunction(marks)
    BY <1>2, PutIsFunction
  <2> HIDE DEF p, lots, marks
  <2>3. Books([p EXCEPT !.lots = lots, !.marks = marks, !.time = at])
    BY <1>1, <2>2
  <2> QED BY <2>1, <2>3
<1>4. Books(Converted(l, a, at))
  <2> DEFINE p == PostedIfAny(l, Conversion(l, a, at))
             lots  == ConvertedLots(l, a, at)
             marks == ConvertedMarks(l, a)
  <2>1. Converted(l, a, at) = [p EXCEPT !.lots = lots, !.marks = marks, !.time = at]
    BY DEF Converted
  <2>2. IsFunction(lots) /\ IsFunction(marks)
    BY PutIsFunction DEF ConvertedLots, ConvertedMarks
  <2>3. Books(p)
    BY <1>2
  <2> HIDE DEF p, lots, marks
  <2>4. Books([p EXCEPT !.lots = lots, !.marks = marks, !.time = at])
    BY <1>1, <2>2, <2>3
  <2> QED BY <2>1, <2>4
<1>5. Books(Booked(l, AsEvent(a, at), at))
  BY BookedAgrees DEF Booked, BookedOf
<1> DEFINE done == IF Simple(a) THEN Booked(l, AsEvent(a, at), at)
                   ELSE IF a.kind = "cash_in_lieu" THEN CashInLieu(l, a, at)
                   ELSE Converted(l, a, at)
           r    == [done EXCEPT !.seen = Put(@, a.id, a)]
<1>6. Books(done)
  BY <1>3, <1>4, <1>5
<1>7. ActionBooked(l, a, at) = r
  BY DEF ActionBooked
<1> HIDE DEF done
<1>8. DOMAIN r = Fields /\ IsFunction(r)
  BY <1>6 DEF Books, IsFunction
<1>9. r.journal = done.journal /\ IsFunction(r.seen)
  BY <1>6, PutIsFunction DEF Books, Fields
<1>10. \A f \in UndoneFields \ {"seen"} : r[f] = done[f]
  BY <1>6 DEF Books, Fields, UndoneFields
<1> HIDE DEF r
<1>11. Books(r)
  BY <1>6, <1>8, <1>9, <1>10, StillBooks DEF Books
<1> QED BY <1>7, <1>11

(* apply_dividend_lifecycle leaves books. *)
LEMMA PhaseBooks ==
  ASSUME NEW l, NEW d, NEW phase, Books(l)
  PROVE  Books(PhaseBooked(l, d, phase))
<1> DEFINE tx == [key |-> <<"dividend", d.id, phase>>, time |-> AppliedAt(d, phase),
                  postings |-> PhasePostings(l, d, phase)]
           p  == IF PhasePostings(l, d, phase) = <<>> THEN l ELSE Posted(l, tx)
           r  == PhaseBooked(l, d, phase)
<1>1. r = [p EXCEPT !.dividends = Put(@, d.id, NextState(l, d, phase)),
                    !.records = Put(@, <<d.id, phase>>,
                                    [prefix |-> Prefix(d, phase), basis |-> Basis(d),
                                     applied |-> AppliedAt(d, phase)]),
                    !.time = AppliedAt(d, phase)]
  BY DEF PhaseBooked
<1> HIDE DEF tx
<1>2. Books(p)
  BY PostedBooks
<1> HIDE DEF p, r
<1>3. DOMAIN r = Fields /\ IsFunction(r)
  BY <1>1, <1>2 DEF Books, IsFunction
<1>4. r.journal = p.journal /\ \A f \in UndoneFields : r[f] = p[f]
  BY <1>1, <1>2 DEF Books, Fields, UndoneFields
<1>5. Books(r)
  BY <1>2, <1>3, <1>4, StillBooks DEF Books
<1> QED BY <1>5 DEF r

(* The imports of cash and of an opening position leave books. *)
LEMMA ImportedBooks ==
  ASSUME NEW l, NEW tx, NEW i, NEW lot, NEW price, NEW at, Books(l)
  PROVE  /\ Books([Posted(l, tx) EXCEPT !.time = at])
         /\ Books([Posted(l, tx) EXCEPT !.lots = Put(@, i, lot), !.marks = Put(@, i, price)])
<1> DEFINE p == Posted(l, tx)
           t == [p EXCEPT !.time = at]
           r == [p EXCEPT !.lots = Put(@, i, lot), !.marks = Put(@, i, price)]
<1>1. Books(p)
  BY PostedBooks
<1> HIDE DEF p
<1>2. DOMAIN t = Fields /\ IsFunction(t) /\ DOMAIN r = Fields /\ IsFunction(r)
  BY <1>1 DEF Books, IsFunction
<1>3. t.journal = p.journal /\ \A f \in UndoneFields : t[f] = p[f]
  BY <1>1 DEF Books, Fields, UndoneFields
<1>4. r.journal = p.journal /\ IsFunction(r.lots) /\ IsFunction(r.marks)
  BY <1>1, PutIsFunction DEF Books, Fields
<1>5. \A f \in UndoneFields \ {"lots", "marks"} : r[f] = p[f]
  BY <1>1 DEF Books, Fields, UndoneFields
<1> HIDE DEF t, r
<1>6. Books(t)
  BY <1>1, <1>2, <1>3, StillBooks DEF Books
<1>7. Books(r)
  BY <1>1, <1>2, <1>4, <1>5, StillBooks DEF Books
<1> QED BY <1>6, <1>7 DEF t, r, p

(* What the streaming replay forgets of an event leaves books. *)
LEMMA StreamedBooks ==
  ASSUME NEW l, NEW after, NEW e, Books(l), Books(after)
  PROVE  Books(Streamed(l, after, e))
<1> DEFINE done   == {f \in DOMAIN after.fills : e.kind = "fee" /\ e.fill = f}
           seen   == IF e.kind \in {"fill", "fee"} THEN l.seen ELSE after.seen
           fills  == Restrict(after.fills, DOMAIN after.fills \ done)
           closes == Restrict(after.closes, {f \in DOMAIN after.closes :
                                 f \in done => Kind[after.fills[f]] = "derivative"})
           r      == [after EXCEPT !.journal = <<>>, !.keys = l.keys, !.seen = seen,
                                   !.fills = fills, !.closes = closes]
<1>1. Streamed(l, after, e) = r
  BY DEF Streamed
<1>2. IsFunction(seen) /\ IsFunction(fills) /\ IsFunction(closes)
  BY DEF Books, UndoneFields, Restrict, IsFunction
<1> HIDE DEF done, seen, fills, closes
<1>3. DOMAIN r = Fields /\ IsFunction(r)
  BY DEF Books, IsFunction
<1>4. r.journal = <<>> /\ r.seen = seen /\ r.fills = fills /\ r.closes = closes
  BY DEF Books, Fields
<1>5. \A f \in UndoneFields \ {"seen", "fills", "closes"} : r[f] = after[f]
  BY DEF Books, Fields, UndoneFields
<1> HIDE DEF r
<1>6. r.journal \in Seq(Rows(r.journal))
  BY <1>4
<1>7. Books(r)
  BY <1>2, <1>3, <1>4, <1>5, <1>6, StillBooks DEF Books
<1> QED BY <1>1, <1>7

-----------------------------------------------------------------------------
(* The steps of a ledger that no desk trades on. *)

(* Books, now and when the replay under way began. *)
Kept ==
  /\ Books(ledger) /\ (checkpoint # <<>> => Books(checkpoint.ledger))

(* A step that leaves books, and the same ones when it refuses. *)
Stays ==
  /\ Books(ledger') /\ (checkpoint' # <<>> => Books(checkpoint'.ledger))
  /\ outcome' = "refused" => ledger' = ledger

(* A call that raises before it changed anything, or repeats. *)
LEMMA RefuseKeeps ==
  ASSUME Kept, UNCHANGED checkpoint, Refuse \/ UNCHANGED ledger
  PROVE  Stays
BY DEF Kept, Stays, Refuse

(* A call that returns with new books. *)
LEMMA BookingKeeps ==
  ASSUME Kept, UNCHANGED checkpoint, Books(ledger'), outcome' # "refused"
  PROVE  Stays
BY DEF Kept, Stays

(* apply: it returns with the event booked, repeats, raises before it      *)
(* booked anything, or raises in its snapshot and rolls back.              *)
LEMMA ApplyKeeps ==
  ASSUME NEW e, NEW day, NEW snap, Kept, Apply(e, day, snap)
  PROVE  Stays
<1> DEFINE tx    == Translated(ledger, e)
           after == Booked(ledger, e, day)
<1>1. UNCHANGED checkpoint
  BY DEF Apply
<1>2. CASE Finish(e, tx, after, snap)
  <2>1. after = BookedAs(ledger, e, day, tx)
    BY DEF Booked
  <2> HIDE DEF tx, after
  <2>2. Rollback(after, e, tx, Undo(ledger, e, tx)) = ledger
    BY <2>1, UndoRestores DEF Kept
  <2>3. Books(after)
    BY <2>1, BookedAgrees DEF Kept, BookedOf
  <2>4. CASE ledger' = Rollback(after, e, tx, Undo(ledger, e, tx)) /\ outcome' = "refused"
    BY <1>1, <2>2, <2>4, RefuseKeeps DEF Refuse
  <2>5. CASE ledger' = after /\ outcome' = "applied"
    BY <1>1, <2>3, <2>5, BookingKeeps
  <2> QED BY <1>2, <2>4, <2>5 DEF Finish
<1>3. CASE Refuse \/ UNCHANGED ledger
  BY <1>1, <1>3, RefuseKeeps
<1> QED BY <1>2, <1>3 DEF Apply

(* mark: its snapshot is taken of the new books before they are assigned. *)
LEMMA MarkKeeps ==
  ASSUME NEW m, NEW snap, Kept, Mark(m, snap)
  PROVE  Stays
<1> DEFINE marked == [ledger EXCEPT !.marks = Put(@, m.instrument, m.price),
                                    !.marked = Put(@, m.id, m), !.time = m.time]
<1>1. UNCHANGED checkpoint
  BY DEF Mark
<1>2. Books(marked)
  BY MarkedBooks DEF Kept
<1>3. Refuse \/ UNCHANGED ledger \/ (ledger' = marked /\ outcome' = "applied")
  BY DEF Mark
<1> HIDE DEF marked
<1> QED BY <1>1, <1>2, <1>3, RefuseKeeps, BookingKeeps

(* book_external_cash and book_opening_position never roll back. *)
LEMMA ImportKeeps ==
  ASSUME NEW x, Kept, BookExternalCash(x) \/ BookOpeningPosition(x)
  PROVE  Stays
<1>1. UNCHANGED checkpoint
  BY DEF BookExternalCash, BookOpeningPosition
<1>2. ASSUME NEW done, NEW at, Books(done), Imported(done, at)
      PROVE  Stays
  BY <1>1, <1>2, BookingKeeps DEF Imported
<1>3. CASE BookExternalCash(x)
  <2> DEFINE tx == [key |-> <<"external", x.id>>, time |-> x.time,
                    postings |-> Together(<<Amount(Cash(Base), x.amount),
                                            Amount(<<"equity:external_flows", Base, <<>>>>, -x.amount)>>)]
             done == [Posted(ledger, tx) EXCEPT !.time = x.time]
  <2>1. Refuse \/ UNCHANGED ledger \/ Imported(done, x.time)
    BY <1>3 DEF BookExternalCash
  <2> HIDE DEF tx
  <2>2. Books(done)
    BY ImportedBooks DEF Kept
  <2> HIDE DEF done
  <2> QED BY <1>1, <1>2, <2>1, <2>2, RefuseKeeps
<1>4. CASE BookOpeningPosition(x)
  <2> DEFINE i  == x.instrument
             tx == [key |-> <<"opening-position", i>>, time |-> 0,
                    postings |-> Together(<<Amount(Cost(i), x.quantity * x.price),
                                            Shares(i, x.quantity),
                                            Amount(<<"equity:opening", Currency[i], <<>>>>,
                                                   -x.quantity * x.price)>>)]
             lot == <<[day |-> x.day, quantity |-> x.quantity]>>
             done == [Posted(ledger, tx) EXCEPT !.lots = Put(@, i, lot),
                                                !.marks = Put(@, i, x.price)]
  <2>1. Refuse \/ UNCHANGED ledger \/ Imported(done, 0)
    BY <1>4 DEF BookOpeningPosition
  <2> HIDE DEF tx, lot
  <2>2. Books(done)
    BY ImportedBooks DEF Kept
  <2> HIDE DEF done
  <2> QED BY <1>1, <1>2, <2>1, <2>2, RefuseKeeps
<1> QED BY <1>3, <1>4

(* apply_action assigns the books only when the last snapshot returned. *)
LEMMA ActionKeeps ==
  ASSUME NEW a, NEW at, Kept, ApplyAction(a, at)
  PROVE  Stays
<1>1. UNCHANGED checkpoint
  BY DEF ApplyAction
<1>2. Books(ActionBooked(ledger, a, at))
  BY ActionBooks DEF Kept
<1>3. Refuse \/ UNCHANGED ledger \/ (ledger' = ActionBooked(ledger, a, at) /\ outcome' = "applied")
  BY DEF ApplyAction, Commit
<1> QED BY <1>1, <1>2, <1>3, RefuseKeeps, BookingKeeps

(* apply_dividend_lifecycle raises before it assigned anything. *)
LEMMA DividendKeeps ==
  ASSUME NEW d, NEW phase, NEW cutoff, Kept, ApplyDividend(d, phase, cutoff)
  PROVE  Stays
<1>1. UNCHANGED checkpoint
  BY DEF ApplyDividend
<1>2. Books(PhaseBooked(ledger, d, phase))
  BY PhaseBooks DEF Kept
<1>3. Refuse \/ UNCHANGED ledger \/ (ledger' = PhaseBooked(ledger, d, phase) /\ outcome' = "applied")
  BY DEF ApplyDividend
<1> QED BY <1>1, <1>2, <1>3, RefuseKeeps, BookingKeeps

(* A replay resets the books, books events, and ends with the new books or *)
(* with those captured before it.                                          *)
LEMMA ReplayKeeps ==
  ASSUME Kept, StartReplay \/ FinishReplay \/ FailReplay
               \/ \E e, day : ReplayEvent(e, day)
  PROVE  Stays
<1>1. CASE StartReplay
  <2>1. Books(ledger')
    BY <1>1, OpenedBooks DEF StartReplay
  <2>2. checkpoint'.ledger = ledger
    BY <1>1 DEF StartReplay
  <2> QED BY <1>1, <2>1, <2>2 DEF StartReplay, Kept, Stays
<1>2. CASE FinishReplay
  <2> DEFINE r == [ledger EXCEPT !.closed = TRUE]
  <2>1. DOMAIN r = Fields /\ IsFunction(r)
    BY DEF Kept, Books, IsFunction
  <2>2. r.journal = ledger.journal /\ \A f \in UndoneFields : r[f] = ledger[f]
    BY DEF Kept, Books, Fields, UndoneFields
  <2>3. ledger' = r
    BY <1>2 DEF FinishReplay
  <2> HIDE DEF r
  <2>4. Books(r)
    BY <2>1, <2>2, StillBooks DEF Kept, Books
  <2> QED BY <1>2, <2>3, <2>4 DEF FinishReplay, Stays
<1>3. CASE FailReplay
  BY <1>3 DEF FailReplay, Replaying, Kept, Stays
<1>4. ASSUME NEW e, NEW day, ReplayEvent(e, day)
      PROVE  Stays
  <2> DEFINE tx    == Translated(ledger, e)
             after == Booked(ledger, e, day)
  <2>1. after = BookedAs(ledger, e, day, tx)
    BY DEF Booked
  <2>2. ledger' = Streamed(ledger, after, e) /\ outcome' = "applied" /\ UNCHANGED checkpoint
    BY <1>4 DEF ReplayEvent, Stream
  <2> HIDE DEF tx, after
  <2>3. Books(after)
    BY <2>1, BookedAgrees DEF Kept, BookedOf
  <2>4. Books(Streamed(ledger, after, e))
    BY <2>3, StreamedBooks DEF Kept
  <2> QED BY <2>2, <2>4, BookingKeeps
<1> QED BY <1>1, <1>2, <1>3, <1>4

(* Every step of a ledger that no desk trades on. *)
LEMMA AloneKeeps ==
  ASSUME Kept, Alone,
         ApplyEvent \/ ApplyFact \/ MarkPrice \/ SetRate \/ Transfer \/ Import \/ Act \/ Dividend
         \/ BeginReplay \/ ReplayOne \/ EndReplay
  PROVE  Stays
<1>1. CASE ApplyEvent
  BY <1>1, ApplyKeeps DEF ApplyEvent
<1>2. CASE ApplyFact
  BY <1>2, ApplyKeeps DEF ApplyFact
<1>3. CASE MarkPrice
  BY <1>3, MarkKeeps DEF MarkPrice
<1>4. CASE SetRate
  BY <1>4, RefuseKeeps DEF SetRate, ObserveRate
<1>5. CASE Transfer
  BY <1>5, ImportKeeps DEF Transfer
<1>6. CASE Import
  BY <1>6, ImportKeeps DEF Import
<1>7. CASE Act
  BY <1>7, ActionKeeps DEF Act
<1>8. CASE Dividend
  BY <1>8, DividendKeeps DEF Dividend
<1>9. CASE BeginReplay
  BY <1>9, ReplayKeeps DEF BeginReplay
<1>10. CASE ReplayOne
  BY <1>10, ReplayKeeps DEF ReplayOne
<1>11. CASE EndReplay
  BY <1>11, ReplayKeeps DEF EndReplay
<1> QED BY <1>1, <1>2, <1>3, <1>4, <1>5, <1>6, <1>7, <1>8, <1>9, <1>10, <1>11

-----------------------------------------------------------------------------
(* The steps of a cash desk. *)

(* Short sequences, joined. *)
LEMMA Three ==
  \A a, b, c : <<a>> \o <<b>> = <<a, b>> /\ <<a>> \o <<b, c>> = <<a, b, c>>
<1> SUFFICES ASSUME NEW a, NEW b, NEW c
             PROVE  <<a>> \o <<b>> = <<a, b>> /\ <<a>> \o <<b, c>> = <<a, b, c>>
  OBVIOUS
<1> DEFINE S == {a, b, c}
<1>1. <<a>> \in Seq(S) /\ <<b>> \in Seq(S) /\ <<b, c>> \in Seq(S)
      /\ Len(<<a>>) = 1 /\ Len(<<b>>) = 1 /\ Len(<<b, c>>) = 2
  OBVIOUS
<1>2. <<a>> \o <<b>> = [n \in 1..2 |-> IF n <= 1 THEN <<a>>[n] ELSE <<b>>[n - 1]]
  BY <1>1
<1>3. <<a>> \o <<b, c>> = [n \in 1..3 |-> IF n <= 1 THEN <<a>>[n] ELSE <<b, c>>[n - 1]]
  BY <1>1
<1>4. <<a, b>> = [n \in 1..2 |-> <<a, b>>[n]] /\ <<a, b, c>> = [n \in 1..3 |-> <<a, b, c>>[n]]
  OBVIOUS
<1>5. \A n \in 1..2 : <<a, b>>[n] = IF n <= 1 THEN <<a>>[n] ELSE <<b>>[n - 1]
  OBVIOUS
<1>6. \A n \in 1..3 : <<a, b, c>>[n] = IF n <= 1 THEN <<a>>[n] ELSE <<b, c>>[n - 1]
  OBVIOUS
<1> QED BY <1>2, <1>3, <1>4, <1>5, <1>6

(* The fill of an order and its fees, one after the other. *)
LEMMA OrderEvents ==
  ASSUME NEW o
  PROVE  /\ desk = "hk" => /\ DOMAIN FeesOf(o) = 1..2
                           /\ <<FillOf(o)>> \o FeesOf(o) = <<FillOf(o), FeesOf(o)[1], FeesOf(o)[2]>>
         /\ desk # "hk" => /\ DOMAIN FeesOf(o) = 1..1
                           /\ <<FillOf(o)>> \o FeesOf(o) = <<FillOf(o), FeesOf(o)[1]>>
<1> DEFINE fill == FillOf(o)
           fees == FeesOf(o)
<1>1. fees = [n \in DOMAIN fees |-> fees[n]] /\ DOMAIN fees = DOMAIN Charges(o)
  BY DEF FeesOf
<1>2. DOMAIN Charges(o) = IF desk = "hk" THEN 1..2 ELSE 1..1
  BY DEF Charges
<1> HIDE DEF fill, fees
<1>3. CASE desk = "hk"
  <2>1. fees = <<fees[1], fees[2]>>
    <3>1. fees = [n \in 1..2 |-> fees[n]]
      BY <1>1, <1>2, <1>3
    <3>2. \A n \in 1..2 : <<fees[1], fees[2]>>[n] = fees[n]
      OBVIOUS
    <3>3. <<fees[1], fees[2]>> = [n \in 1..2 |-> <<fees[1], fees[2]>>[n]]
      OBVIOUS
    <3> QED BY <3>1, <3>2, <3>3
  <2>2. <<fill>> \o <<fees[1], fees[2]>> = <<fill, fees[1], fees[2]>>
    BY Three
  <2> QED BY <1>1, <1>2, <1>3, <2>1, <2>2 DEF fill, fees
<1>4. CASE desk # "hk"
  <2>1. fees = <<fees[1]>>
    <3>1. fees = [n \in 1..1 |-> fees[n]]
      BY <1>1, <1>2, <1>4
    <3>2. \A n \in 1..1 : <<fees[1]>>[n] = fees[n]
      OBVIOUS
    <3>3. <<fees[1]>> = [n \in 1..1 |-> <<fees[1]>>[n]]
      OBVIOUS
    <3> QED BY <3>1, <3>2, <3>3
  <2>2. <<fill>> \o <<fees[1]>> = <<fill, fees[1]>>
    BY Three
  <2> QED BY <1>1, <1>2, <1>4, <2>1, <2>2 DEF fill, fees
<1> QED BY <1>3, <1>4

(* What an order books, event by event. *)
LEMMA BookAllIs ==
  ASSUME NEW l, NEW o, NEW r0, NEW r1, NEW r2, NEW r3,
         r0 = [ok |-> TRUE, books |-> l],
         r1 = BookNext(r0, FillOf(o), o.at),
         r2 = BookNext(r1, FeesOf(o)[1], o.at),
         r3 = IF desk = "hk" THEN BookNext(r2, FeesOf(o)[2], o.at) ELSE r2
  PROVE  BookAll(l, o) = r3
<1> DEFINE events == <<FillOf(o)>> \o FeesOf(o)
           N == Len(events)
           step(g) == [n \in 0..N |-> IF n = 0 THEN r0 ELSE BookNext(g[n - 1], events[n], o.at)]
           after == CHOOSE g : g = step(g)
           h == [n \in 0..N |-> IF n = 0 THEN r0 ELSE IF n = 1 THEN r1 ELSE IF n = 2 THEN r2 ELSE r3]
<1>1. BookAll(l, o) = after[N]
  BY DEF BookAll
<1>2. /\ desk = "hk" => /\ N = 3 /\ events[3] = FeesOf(o)[2]
      /\ desk # "hk" => N = 2
      /\ events[1] = FillOf(o) /\ events[2] = FeesOf(o)[1]
  <2>1. desk = "hk" => events = <<FillOf(o), FeesOf(o)[1], FeesOf(o)[2]>>
    BY OrderEvents
  <2>2. desk # "hk" => events = <<FillOf(o), FeesOf(o)[1]>>
    BY OrderEvents
  <2> HIDE DEF events
  <2> QED BY <2>1, <2>2
<1> HIDE DEF events, N
<1>3. h = step(h)
  <2>1. \A n \in 0..N : h[n] = step(h)[n]
    <3> SUFFICES ASSUME NEW n \in 0..N PROVE h[n] = step(h)[n]
      OBVIOUS
    <3>1. n = 0 \/ n = 1 \/ n = 2 \/ (n = 3 /\ desk = "hk")
      BY <1>2
    <3>2. n - 1 \in 0..N \/ n = 0
      BY <1>2
    <3> QED BY <1>2, <3>1, <3>2
  <2> QED BY <2>1
<1>4. after = step(after)
  <2> HIDE DEF step, h
  <2> QED BY <1>3
<1>5. after[0] = r0 /\ after[1] = r1 /\ after[2] = r2 /\ after[N] = r3
  <2> HIDE DEF after
  <2>0. \A n \in 0..N : after[n] = IF n = 0 THEN r0 ELSE BookNext(after[n - 1], events[n], o.at)
    BY <1>4
  <2>1. 0 \in 0..N /\ 1 \in 0..N /\ 2 \in 0..N /\ N \in 0..N
    BY <1>2
  <2>2. after[0] = r0
    BY <2>0, <2>1
  <2>3. after[1] = r1
    <3>1. 1 - 1 = 0 /\ 1 # 0
      OBVIOUS
    <3>2. after[1] = IF 1 = 0 THEN r0 ELSE BookNext(after[1 - 1], events[1], o.at)
      BY <2>0, <2>1
    <3>3. after[1] = BookNext(r0, FillOf(o), o.at)
      BY <1>2, <2>2, <3>1, <3>2
    <3> QED BY <3>3
  <2>4. after[2] = r2
    <3>1. 2 - 1 = 1 /\ 2 # 0
      OBVIOUS
    <3>2. after[2] = IF 2 = 0 THEN r0 ELSE BookNext(after[2 - 1], events[2], o.at)
      BY <2>0, <2>1
    <3>3. after[2] = BookNext(r1, FeesOf(o)[1], o.at)
      BY <1>2, <2>3, <3>1, <3>2
    <3> QED BY <3>3
  <2>5. CASE desk = "hk"
    <3>1. N = 3 /\ 3 - 1 = 2 /\ 3 # 0
      BY <1>2, <2>5
    <3>2. after[3] = IF 3 = 0 THEN r0 ELSE BookNext(after[3 - 1], events[3], o.at)
      BY <2>0, <2>1, <3>1
    <3>4. events[3] = FeesOf(o)[2]
      BY <1>2, <2>5
    <3>3. after[3] = BookNext(r2, FeesOf(o)[2], o.at)
      BY <2>4, <3>1, <3>2, <3>4
    <3>5. r3 = BookNext(r2, FeesOf(o)[2], o.at)
      BY <2>5
    <3>6. after[3] = r3
      BY <3>3, <3>5
    <3> QED BY <2>2, <2>3, <2>4, <3>1, <3>6
  <2>6. CASE desk # "hk"
    <3>1. r3 = r2 /\ N = 2
      BY <1>2, <2>6
    <3> QED BY <2>2, <2>3, <2>4, <3>1
  <2> QED BY <2>2, <2>3, <2>4, <2>5, <2>6
<1> QED BY <1>1, <1>5

(* What BookAll hands on from event to event. *)
Result(r) == r.ok \in BOOLEAN /\ r = [ok |-> r.ok, books |-> r.books]

(* One event of an order: when it leaves an order that may go on, it was   *)
(* accepted and booked.                                                    *)
LEMMA BookNextIs ==
  ASSUME NEW r, NEW e, NEW day, Result(r), NEW n, n = BookNext(r, e, day)
  PROVE  /\ Result(n)
         /\ n.ok => r.ok /\ Accepted(r.books, e) /\ n.books = Booked(r.books, e, day)
<1> DEFINE b    == Booked(r.books, e, day)
           done == ~SnapshotRaises(b, e.time)
           no   == FALSE
<1>1. n = IF r.ok /\ Accepted(r.books, e) THEN [ok |-> done, books |-> b]
          ELSE [ok |-> no, books |-> r.books]
  BY Zenon DEF BookNext, WithSnapshot
<1>2. done \in BOOLEAN /\ no \in BOOLEAN /\ ~no
  OBVIOUS
<1> HIDE DEF b, done, no
<1>3. CASE r.ok /\ Accepted(r.books, e)
  <2>1. n = [ok |-> done, books |-> b]
    BY <1>1, <1>3
  <2> QED BY <1>2, <1>3, <2>1 DEF Result, b
<1>4. CASE ~(r.ok /\ Accepted(r.books, e))
  <2>1. n = [ok |-> no, books |-> r.books]
    BY <1>1, <1>4
  <2> QED BY <1>2, <2>1 DEF Result
<1> QED BY <1>3, <1>4

(* An order that was executed: its fill, and every fee after it, was       *)
(* accepted and booked.                                                    *)
LEMMA OrderBooked ==
  ASSUME NEW l, NEW o, BookAll(l, o).ok,
         NEW b1, b1 = Booked(l, FillOf(o), o.at),
         NEW b2, b2 = Booked(b1, FeesOf(o)[1], o.at),
         NEW b3, b3 = IF desk = "hk" THEN Booked(b2, FeesOf(o)[2], o.at) ELSE b2
  PROVE  /\ BookAll(l, o).books = b3
         /\ Accepted(l, FillOf(o)) /\ Accepted(b1, FeesOf(o)[1])
         /\ desk = "hk" => Accepted(b2, FeesOf(o)[2])
<1> DEFINE r0 == [ok |-> TRUE, books |-> l]
           r1 == BookNext(r0, FillOf(o), o.at)
           r2 == BookNext(r1, FeesOf(o)[1], o.at)
           r3 == IF desk = "hk" THEN BookNext(r2, FeesOf(o)[2], o.at) ELSE r2
           all == BookAll(l, o)
<1>1. all = r3
  BY BookAllIs
<1>2. /\ r0 = [ok |-> TRUE, books |-> l] /\ r1 = BookNext(r0, FillOf(o), o.at)
      /\ r2 = BookNext(r1, FeesOf(o)[1], o.at)
      /\ desk = "hk" => r3 = BookNext(r2, FeesOf(o)[2], o.at)
      /\ desk # "hk" => r3 = r2
  OBVIOUS
<1>3. all.ok
  OBVIOUS
<1> HIDE DEF r0, r1, r2, r3, all
<1>4. Result(r0) /\ r0.books = l
  BY <1>2 DEF Result
<1>5. Result(r1) /\ (r1.ok => Accepted(l, FillOf(o)) /\ r1.books = b1)
  BY <1>2, <1>4, BookNextIs
<1>6. Result(r2) /\ (r2.ok => r1.ok /\ Accepted(b1, FeesOf(o)[1]) /\ r2.books = b2)
  BY <1>2, <1>5, BookNextIs
<1>7. CASE desk = "hk"
  <2>1. r3.ok => r2.ok /\ Accepted(b2, FeesOf(o)[2]) /\ r3.books = Booked(b2, FeesOf(o)[2], o.at)
    BY <1>2, <1>6, <1>7, BookNextIs
  <2> QED BY <1>1, <1>3, <1>5, <1>6, <1>7, <2>1 DEF all
<1>8. CASE desk # "hk"
  BY <1>1, <1>2, <1>3, <1>5, <1>6, <1>8 DEF all
<1> QED BY <1>7, <1>8

(* An order that was executed leaves books. *)
LEMMA OrderBooks ==
  ASSUME NEW l, NEW o, Books(l), BookAll(l, o).ok
  PROVE  Books(BookAll(l, o).books)
<1> DEFINE b1 == Booked(l, FillOf(o), o.at)
           b2 == Booked(b1, FeesOf(o)[1], o.at)
           b3 == IF desk = "hk" THEN Booked(b2, FeesOf(o)[2], o.at) ELSE b2
<1>1. BookAll(l, o).books = b3
  BY OrderBooked
<1>2. ASSUME NEW p, NEW e, NEW day, Books(p)
      PROVE  Books(Booked(p, e, day))
  BY <1>2, BookedAgrees DEF Booked, BookedOf
<1>3. Books(b1)
  BY <1>2
<1> HIDE DEF b1
<1>4. Books(b2)
  BY <1>2, <1>3
<1> HIDE DEF b2
<1>5. Books(b3)
  BY <1>2, <1>4
<1> QED BY <1>1, <1>5

(* A cash desk refuses before it books, or books an order whole. *)
LEMMA ExecuteKeeps ==
  ASSUME Kept, UNCHANGED checkpoint, NEW o, NEW due, Execute(o, due) \/ Again(o)
  PROVE  Stays
<1>1. Refuse \/ UNCHANGED ledger
      \/ (BookAll(ledger, o).ok /\ ledger' = BookAll(ledger, o).books /\ outcome' = "applied")
  BY DEF Execute, Executed, Again
<1>2. BookAll(ledger, o).ok => Books(BookAll(ledger, o).books)
  BY OrderBooks DEF Kept
<1> QED BY <1>1, <1>2, RefuseKeeps, BookingKeeps

(* Every step of a cash desk. *)
LEMMA DeskKeeps ==
  ASSUME Kept, TradeHK \/ SettleDay \/ TradeCash \/ ActDesk \/ PriceDesk
  PROVE  Stays
<1>1. CASE TradeHK
  <2>1. PICK o : ExecuteHK(o)
    BY <1>1 DEF TradeHK
  <2>2. UNCHANGED checkpoint /\ (Refuse \/ Again(o) \/ Execute(o, SettlementDate(o.at)))
    BY <2>1 DEF ExecuteHK
  <2> QED BY <2>2, RefuseKeeps, ExecuteKeeps
<1>2. CASE SettleDay
  <2>1. UNCHANGED <<checkpoint, ledger>>
    BY <1>2 DEF SettleDay, SettleEndOfDay
  <2> QED BY <2>1, RefuseKeeps
<1>3. CASE TradeCash
  <2>1. PICK o : TradeUS(o)
    BY <1>3 DEF TradeCash
  <2>2. UNCHANGED checkpoint /\ (Refuse \/ Again(o) \/ Execute(o, o.at))
    BY <2>1 DEF TradeUS
  <2> QED BY <2>2, RefuseKeeps, ExecuteKeeps
<1>4. CASE ActDesk
  <2>1. PICK e : ActionUS(e)
    BY <1>4 DEF ActDesk
  <2> QED BY <2>1, ApplyKeeps, RefuseKeeps DEF ActionUS
<1>5. CASE PriceDesk
  <2>1. PICK m : MarkDesk(m)
    BY <1>5 DEF PriceDesk
  <2> QED BY <2>1, MarkKeeps, RefuseKeeps DEF MarkDesk
<1> QED BY <1>1, <1>2, <1>3, <1>4, <1>5

(* A call that raises leaves the books as they were, for every catalogue   *)
(* of events, instruments and opening balances, and on every desk.         *)
THEOREM RefusedIsUndone ==
  Spec => RefusedLeavesNoTrace
<1>1. AccountInit => Kept
  BY OpenedBooks DEF AccountInit, Init, Kept
<1>2. ASSUME Kept, [Next]_AllVars
      PROVE  Kept' /\ (outcome' = "refused" => ledger' = ledger)
  <2>1. CASE Next
    <3>1. (ApplyEvent \/ ApplyFact \/ MarkPrice \/ SetRate \/ Transfer \/ Import \/ Act \/ Dividend
           \/ BeginReplay \/ ReplayOne \/ EndReplay) => Alone
      BY DEF ApplyEvent, ApplyFact, MarkPrice, SetRate, Transfer, Import, Act, Dividend,
             BeginReplay, ReplayOne, EndReplay
    <3>2. Stays
      BY <1>2, <2>1, <3>1, AloneKeeps, DeskKeeps DEF Next
    <3> QED BY <3>2 DEF Stays, Kept
  <2>2. CASE UNCHANGED AllVars
    BY <1>2, <2>2 DEF AllVars, vars, Kept
  <2> QED BY <1>2, <2>1, <2>2
<1>3. ASSUME Kept, [Next]_AllVars
      PROVE  [outcome' = "refused" => ledger' = ledger]_AllVars
  BY <1>2, <1>3
<1> QED BY <1>1, <1>2, <1>3, PTL DEF Spec, RefusedLeavesNoTrace

(* Postings of whole amounts, and a sequence of such. *)
Legs(p)    == \A k \in DOMAIN p : p[k] \in [amount : Int, shares : Int]
LegSeq(s)  == \E S : s \in Seq(S) /\ \A p \in S : Legs(p)

(* One amount, or shares, are postings of whole amounts. *)
LEMMA OneLeg ==
  /\ \A k : \A n \in Int : Legs(Amount(k, n))
  /\ \A i : \A n \in Int : Legs(Shares(i, n))
BY DEF Legs, Amount, Shares

(* Sequences of them: given part by part, and joined. *)
LEMMA IsLegSeq ==
  ASSUME NEW s, NEW S, s \in Seq(S), \A p \in S : Legs(p)
  PROVE  LegSeq(s)
BY Zenon DEF LegSeq

(* Sequences of up to six of them. *)
LEMMA LegSeqs ==
  /\ LegSeq(<<>>)
  /\ \A a : Legs(a) => LegSeq(<<a>>)
  /\ \A a, b : Legs(a) /\ Legs(b) => LegSeq(<<a, b>>)
  /\ \A a, b, c : Legs(a) /\ Legs(b) /\ Legs(c) => LegSeq(<<a, b, c>>)
  /\ \A a, b, c, d : Legs(a) /\ Legs(b) /\ Legs(c) /\ Legs(d) => LegSeq(<<a, b, c, d>>)
  /\ \A a, b, c, d, e, f :
       Legs(a) /\ Legs(b) /\ Legs(c) /\ Legs(d) /\ Legs(e) /\ Legs(f) => LegSeq(<<a, b, c, d, e, f>>)
<1>1. LegSeq(<<>>)
  <2> DEFINE s == <<>>
             S == {}
  <2>1. s \in Seq(S) /\ \A p \in S : Legs(p)
    OBVIOUS
  <2> HIDE DEF s, S
  <2>2. LegSeq(s)
    BY <2>1, IsLegSeq
  <2> QED BY <2>2 DEF s
<1>2. ASSUME NEW a, Legs(a) PROVE LegSeq(<<a>>)
  <2> DEFINE s == <<a>>
             S == {a}
  <2>1. s \in Seq(S) /\ \A p \in S : Legs(p)
    BY <1>2
  <2> HIDE DEF s, S
  <2>2. LegSeq(s)
    BY <2>1, IsLegSeq
  <2> QED BY <2>2 DEF s
<1>3. ASSUME NEW a, NEW b, Legs(a), Legs(b) PROVE LegSeq(<<a, b>>)
  <2> DEFINE s == <<a, b>>
             S == {a, b}
  <2>1. s \in Seq(S) /\ \A p \in S : Legs(p)
    BY <1>3
  <2> HIDE DEF s, S
  <2>2. LegSeq(s)
    BY <2>1, IsLegSeq
  <2> QED BY <2>2 DEF s
<1>4. ASSUME NEW a, NEW b, NEW c, Legs(a), Legs(b), Legs(c) PROVE LegSeq(<<a, b, c>>)
  <2> DEFINE s == <<a, b, c>>
             S == {a, b, c}
  <2>1. s \in Seq(S) /\ \A p \in S : Legs(p)
    BY <1>4
  <2> HIDE DEF s, S
  <2>2. LegSeq(s)
    BY <2>1, IsLegSeq
  <2> QED BY <2>2 DEF s
<1>5. ASSUME NEW a, NEW b, NEW c, NEW d, Legs(a), Legs(b), Legs(c), Legs(d) PROVE LegSeq(<<a, b, c, d>>)
  <2> DEFINE s == <<a, b, c, d>>
             S == {a, b, c, d}
  <2>1. s \in Seq(S) /\ \A p \in S : Legs(p)
    BY <1>5
  <2> HIDE DEF s, S
  <2>2. LegSeq(s)
    BY <2>1, IsLegSeq
  <2> QED BY <2>2 DEF s
<1>6. ASSUME NEW a, NEW b, NEW c, NEW d, NEW e, NEW f,
             Legs(a), Legs(b), Legs(c), Legs(d), Legs(e), Legs(f)
      PROVE  LegSeq(<<a, b, c, d, e, f>>)
  <2> DEFINE s == <<a, b, c, d, e, f>>
             S == {a, b, c, d, e, f}
  <2>1. s \in Seq(S) /\ \A p \in S : Legs(p)
    BY <1>6
  <2> HIDE DEF s, S
  <2>2. LegSeq(s)
    BY <2>1, IsLegSeq
  <2> QED BY <2>2 DEF s
<1> QED BY <1>1, <1>2, <1>3, <1>4, <1>5, <1>6

(* Two such sequences, joined. *)
LEMMA LegsJoined ==
  ASSUME NEW s, NEW t, LegSeq(s), LegSeq(t)
  PROVE  LegSeq(s \o t)
<1>1. PICK S : s \in Seq(S) /\ \A p \in S : Legs(p)
  BY DEF LegSeq
<1>2. PICK T : t \in Seq(T) /\ \A p \in T : Legs(p)
  BY DEF LegSeq
<1>3. s \in Seq(S \cup T) /\ t \in Seq(S \cup T)
  BY <1>1, <1>2
<1>4. s \o t \in Seq(S \cup T)
  BY <1>3
<1>5. \A p \in S \cup T : Legs(p)
  BY <1>1, <1>2
<1> QED BY <1>4, <1>5 DEF LegSeq

(* Postings put together are those of some part at each account. *)
LEMMA TogetherLegs ==
  ASSUME NEW s, LegSeq(s)
  PROVE  Legs(Together(s))
<1>1. PICK S : s \in Seq(S) /\ \A p \in S : Legs(p)
  BY DEF LegSeq
<1>2. DOMAIN s \subseteq Nat /\ \A n \in DOMAIN s : Legs(s[n])
  <2>1. DOMAIN s = 1..Len(s) /\ Len(s) \in Nat /\ \A n \in DOMAIN s : s[n] \in S
    BY <1>1, Elements
  <2> QED BY <1>1, <2>1
<1> DEFINE At(k) == {n \in DOMAIN s : k \in DOMAIN s[n]}
           all   == UNION {DOMAIN s[n] : n \in DOMAIN s}
<1>3. Together(s) = [k \in all |-> s[Min(At(k))][k]]
  BY DEF Together
<1>4. ASSUME NEW k \in all
      PROVE  s[Min(At(k))][k] \in [amount : Int, shares : Int]
  <2>1. At(k) \in SUBSET Nat /\ At(k) # {}
    BY <1>2
  <2>2. \E n \in At(k) : \A m \in At(k) : n <= m
    BY <2>1, LeastExists
  <2>3. Min(At(k)) \in At(k)
    <3> HIDE DEF At
    <3> QED BY <2>2 DEF Min
  <2> QED BY <1>2, <2>3 DEF Legs
<1> HIDE DEF At, all
<1> QED BY <1>3, <1>4 DEF Legs

-----------------------------------------------------------------------------
(* What rows add up to. *)

(* Rows of whole amounts. *)
Rowed(rows) == rows \in Seq(Rows(rows)) /\ \A n \in DOMAIN rows : Legs(rows[n].postings)

Nothing == [amount |-> 0, shares |-> 0]

(* The entry of a row at an account is whole, and nothing where the row    *)
(* does not post.                                                          *)
LEMMA EntryType ==
  ASSUME NEW rows, Rowed(rows), NEW n \in DOMAIN rows, NEW k
  PROVE  /\ Entry(rows, k, n) \in [amount : Int, shares : Int]
         /\ Entry(rows, k, n).amount \in Int /\ Entry(rows, k, n).shares \in Int
         /\ k \notin DOMAIN rows[n].postings => Entry(rows, k, n) = Nothing
<1>1. Legs(rows[n].postings)
  BY DEF Rowed
<1>2. Entry(rows, k, n) \in [amount : Int, shares : Int]
  BY <1>1 DEF Entry, Lookup, Legs
<1>3. k \notin DOMAIN rows[n].postings => Entry(rows, k, n) = Nothing
  BY DEF Entry, Lookup, Nothing
<1> QED BY <1>2, <1>3

(* An account, and a position, gain whole amounts. *)
LEMMA TotalsInt ==
  ASSUME NEW rows, Rowed(rows)
  PROVE  /\ \A k : Total(Amounts(rows, k)) \in Int
         /\ \A i : Total(Units(rows, i)) \in Int
<1>1. DOMAIN rows = 1..Len(rows) /\ Len(rows) \in Nat
  BY Elements DEF Rowed
<1>2. IsFiniteSet(DOMAIN rows)
  BY <1>1, FS_Interval
<1>3. ASSUME NEW k PROVE Total(Amounts(rows, k)) \in Int
  <2> DEFINE f == Amounts(rows, k)
  <2>1. DOMAIN f = DOMAIN rows /\ \A n \in DOMAIN rows : f[n] = Entry(rows, k, n).amount
    BY DEF Amounts
  <2> HIDE DEF f
  <2>2. Summable(f, DOMAIN f)
    BY <1>2, <2>1, EntryType DEF Summable
  <2>3. SumFunctionOnSet(f, DOMAIN f) \in Int
    BY <2>2, SumType
  <2> QED BY <2>3 DEF f, Total
<1>4. ASSUME NEW i PROVE Total(Units(rows, i)) \in Int
  <2> DEFINE f == Units(rows, i)
  <2>1. DOMAIN f = DOMAIN rows /\ \A n \in DOMAIN rows : f[n] = Entry(rows, Position(i), n).shares
    BY DEF Units
  <2> HIDE DEF f
  <2>2. Summable(f, DOMAIN f)
    BY <1>2, <2>1, EntryType DEF Summable
  <2>3. SumFunctionOnSet(f, DOMAIN f) \in Int
    BY <2>2, SumType
  <2> QED BY <2>3 DEF f, Total
<1> QED BY <1>3, <1>4

(* What no row posts to stays at nothing. *)
LEMMA TotalsAbsent ==
  ASSUME NEW rows, Rowed(rows), NEW k, \A n \in DOMAIN rows : k \notin DOMAIN rows[n].postings
  PROVE  Total(Amounts(rows, k)) = 0 /\ \A i : Position(i) = k => Total(Units(rows, i)) = 0
<1>1. DOMAIN rows = 1..Len(rows) /\ Len(rows) \in Nat
  BY Elements DEF Rowed
<1>2. IsFiniteSet(DOMAIN rows)
  BY <1>1, FS_Interval
<1>3. \A n \in DOMAIN rows : Entry(rows, k, n) = Nothing
  BY EntryType
<1>4. Total(Amounts(rows, k)) = 0
  <2> DEFINE f == Amounts(rows, k)
  <2>1. DOMAIN f = DOMAIN rows /\ \A n \in DOMAIN rows : f[n] = 0
    BY <1>3 DEF Amounts, Nothing
  <2> HIDE DEF f
  <2>2. SumFunctionOnSet(f, DOMAIN f) = 0
    BY <1>2, <2>1, SumZero
  <2> QED BY <2>2 DEF f, Total
<1>5. ASSUME NEW i, Position(i) = k PROVE Total(Units(rows, i)) = 0
  <2> DEFINE f == Units(rows, i)
  <2>1. DOMAIN f = DOMAIN rows /\ \A n \in DOMAIN rows : f[n] = 0
    BY <1>3, <1>5 DEF Units, Nothing
  <2> HIDE DEF f
  <2>2. SumFunctionOnSet(f, DOMAIN f) = 0
    BY <1>2, <2>1, SumZero
  <2> QED BY <2>2 DEF f, Total
<1> QED BY <1>4, <1>5

(* Rows with one more, which adds what it posts. *)
Grows(rows, tx, next) ==
  /\ Rowed(next) /\ DOMAIN next = DOMAIN rows \cup {Len(rows) + 1}
  /\ Len(rows) + 1 \notin DOMAIN rows
  /\ next[Len(rows) + 1] = tx /\ \A n \in DOMAIN rows : next[n] = rows[n]
  /\ \A k : Total(Amounts(next, k))
              = Total(Amounts(rows, k)) + Lookup(tx.postings, k, Nothing).amount
  /\ \A i : Total(Units(next, i))
              = Total(Units(rows, i)) + Lookup(tx.postings, Position(i), Nothing).shares

(* A row appended adds its own postings to every total. *)
LEMMA TotalsNext ==
  ASSUME NEW rows, Rowed(rows), NEW tx, Legs(tx.postings), NEW next, next = Append(rows, tx)
  PROVE  Grows(rows, tx, next)
<1> DEFINE N == Len(rows)
<1>1. DOMAIN rows = 1..N /\ N \in Nat /\ \A n \in DOMAIN rows : rows[n] \in Rows(rows)
  BY Elements DEF Rowed
<1>2. /\ next \in Seq(Rows(next)) /\ DOMAIN next = 1..(N + 1)
      /\ next[N + 1] = tx /\ \A n \in DOMAIN rows : next[n] = rows[n]
  <2>1. next \in Seq(Rows(next))
    BY Appended DEF Rowed
  <2>2. rows \in Seq(Rows(rows) \cup {tx})
    BY DEF Rowed
  <2>3. next = [n \in 1..(N + 1) |-> IF n = N + 1 THEN tx ELSE rows[n]]
    BY <2>2, AppendAsFunction
  <2> QED BY <1>1, <2>1, <2>3
<1>3. Rowed(next)
  BY <1>1, <1>2 DEF Rowed
<1>4. ASSUME NEW k PROVE Entry(next, k, N + 1) = Lookup(tx.postings, k, Nothing)
  BY <1>2 DEF Entry, Nothing
<1>5. ASSUME NEW k, NEW n \in DOMAIN rows PROVE Entry(next, k, n) = Entry(rows, k, n)
  BY <1>2 DEF Entry
<1>6. ASSUME NEW f, NEW g, DOMAIN f = DOMAIN rows, DOMAIN g = DOMAIN next,
             \A n \in DOMAIN next : g[n] \in Int, \A n \in DOMAIN rows : f[n] = g[n]
      PROVE  Total(g) = Total(f) + g[N + 1]
  <2>1. /\ Summable(g, 1..N) /\ SumFunctionOnSet(g, 1..N) \in Int
        /\ SumFunctionOnSet(g, 1..(N + 1)) = g[N + 1] + SumFunctionOnSet(g, 1..N)
    BY <1>1, <1>2, <1>6, SumNext
  <2>4. Summable(g, 1..N) /\ \A n \in 1..N : g[n] = f[n]
    BY <1>1, <1>6, <2>1
  <2>2. SumFunctionOnSet(g, 1..N) = SumFunctionOnSet(f, 1..N)
    BY <2>4, SumSame
  <2>3. g[N + 1] \in Int
    BY <1>1, <1>2, <1>6
  <2> QED BY <1>1, <1>2, <1>6, <2>1, <2>2, <2>3 DEF Total
<1>7. ASSUME NEW k
      PROVE  Total(Amounts(next, k)) = Total(Amounts(rows, k)) + Lookup(tx.postings, k, Nothing).amount
  <2> DEFINE f == Amounts(rows, k)
             g == Amounts(next, k)
  <2>1. /\ DOMAIN f = DOMAIN rows /\ DOMAIN g = DOMAIN next
        /\ \A n \in DOMAIN next : g[n] = Entry(next, k, n).amount
        /\ \A n \in DOMAIN rows : f[n] = Entry(rows, k, n).amount
    BY DEF Amounts
  <2> HIDE DEF f, g
  <2>2. ASSUME NEW n \in DOMAIN next PROVE g[n] \in Int
    <3>1. Entry(next, k, n).amount \in Int
      BY <1>3, EntryType
    <3> QED BY <2>1, <3>1
  <2>3. \A n \in DOMAIN rows : f[n] = g[n]
    BY <1>1, <1>2, <1>5, <2>1
  <2>4. Total(g) = Total(f) + g[N + 1]
    BY <1>6, <2>1, <2>2, <2>3
  <2>5. g[N + 1] = Lookup(tx.postings, k, Nothing).amount
    BY <1>1, <1>2, <1>4, <2>1
  <2> QED BY <2>4, <2>5 DEF f, g
<1>8. ASSUME NEW i
      PROVE  Total(Units(next, i)) = Total(Units(rows, i)) + Lookup(tx.postings, Position(i), Nothing).shares
  <2> DEFINE f == Units(rows, i)
             g == Units(next, i)
             k == Position(i)
  <2>1. /\ DOMAIN f = DOMAIN rows /\ DOMAIN g = DOMAIN next
        /\ \A n \in DOMAIN next : g[n] = Entry(next, k, n).shares
        /\ \A n \in DOMAIN rows : f[n] = Entry(rows, k, n).shares
    BY DEF Units
  <2> HIDE DEF f, g, k
  <2>2. ASSUME NEW n \in DOMAIN next PROVE g[n] \in Int
    <3>1. Entry(next, k, n).shares \in Int
      BY <1>3, EntryType
    <3> QED BY <2>1, <3>1
  <2>3. \A n \in DOMAIN rows : f[n] = g[n]
    BY <1>1, <1>2, <1>5, <2>1
  <2>4. Total(g) = Total(f) + g[N + 1]
    BY <1>6, <2>1, <2>2, <2>3
  <2>5. g[N + 1] = Lookup(tx.postings, k, Nothing).shares
    BY <1>1, <1>2, <1>4, <2>1
  <2> QED BY <2>4, <2>5 DEF f, g, k
<1>9. DOMAIN next = DOMAIN rows \cup {N + 1} /\ N + 1 \notin DOMAIN rows
  BY <1>1, <1>2
<1> QED BY <1>2, <1>3, <1>7, <1>8, <1>9 DEF Grows

-----------------------------------------------------------------------------
(* Books that are what their rows add up to. *)

AddsUp(a, q, rows) ==
  /\ Rowed(rows)
  /\ \A n \in DOMAIN rows : DOMAIN rows[n].postings \subseteq DOMAIN a /\ Moved(rows[n]) \subseteq DOMAIN q
  /\ \A k \in DOMAIN a : a[k] = Total(Amounts(rows, k))
  /\ DOMAIN q \subseteq Instruments /\ \A i \in DOMAIN q : q[i] = Total(Units(rows, i))
  /\ \A m, n \in DOMAIN rows : m # n => rows[m].key # rows[n].key

(* Every balance, and every holding, is then what the rows add up to. *)
LEMMA BalanceIs ==
  ASSUME NEW l, NEW rows, AddsUp(l.accounts, l.positions, rows)
  PROVE  /\ \A k : Balance(l, k) = Total(Amounts(rows, k)) /\ Balance(l, k) \in Int
         /\ \A i \in Instruments : Held(l, i) = Total(Units(rows, i)) /\ Held(l, i) \in Int
<1>1. Rowed(rows)
  BY DEF AddsUp
<1>2. ASSUME NEW k PROVE Balance(l, k) = Total(Amounts(rows, k)) /\ Balance(l, k) \in Int
  <2>1. Total(Amounts(rows, k)) \in Int
    BY <1>1, TotalsInt
  <2>2. CASE k \in DOMAIN l.accounts
    BY <2>1, <2>2 DEF AddsUp, Balance, Lookup
  <2>3. CASE k \notin DOMAIN l.accounts
    <3>1. \A n \in DOMAIN rows : k \notin DOMAIN rows[n].postings
      BY <2>3 DEF AddsUp
    <3>2. Total(Amounts(rows, k)) = 0
      BY <1>1, <3>1, TotalsAbsent
    <3> QED BY <2>3, <3>2 DEF Balance, Lookup
  <2> QED BY <2>2, <2>3
<1>3. ASSUME NEW i \in Instruments PROVE Held(l, i) = Total(Units(rows, i)) /\ Held(l, i) \in Int
  <2>1. Total(Units(rows, i)) \in Int
    BY <1>1, TotalsInt
  <2>2. CASE i \in DOMAIN l.positions
    BY <2>1, <2>2 DEF AddsUp, Held, Lookup
  <2>3. CASE i \notin DOMAIN l.positions
    <3>1. \A n \in DOMAIN rows : Position(i) \notin DOMAIN rows[n].postings
      BY <2>3 DEF AddsUp, Moved
    <3>2. Total(Units(rows, i)) = 0
      BY <1>1, <3>1, TotalsAbsent
    <3> QED BY <2>3, <3>2 DEF Held, Lookup
  <2> QED BY <2>2, <2>3
<1> QED BY <1>2, <1>3

(* _post keeps it so: the row it adds to the journal is the amount it adds *)
(* to each balance and position.                                           *)
LEMMA PostAdds ==
  ASSUME NEW l, NEW rows, NEW tx, NEW p, NEW next, Books(l), AddsUp(l.accounts, l.positions, rows),
         Legs(tx.postings), \A n \in DOMAIN rows : rows[n].key # tx.key,
         p = Posted(l, tx), next = Append(rows, tx)
  PROVE  AddsUp(p.accounts, p.positions, next)
<1>1. /\ Rowed(next) /\ DOMAIN next = DOMAIN rows \cup {Len(rows) + 1}
      /\ Len(rows) + 1 \notin DOMAIN rows
      /\ next[Len(rows) + 1] = tx /\ \A n \in DOMAIN rows : next[n] = rows[n]
      /\ \A k : Total(Amounts(next, k)) = Total(Amounts(rows, k)) + Lookup(tx.postings, k, Nothing).amount
      /\ \A i : Total(Units(next, i))
                  = Total(Units(rows, i)) + Lookup(tx.postings, Position(i), Nothing).shares
  <2>1. Rowed(rows)
    BY DEF AddsUp
  <2>2. Grows(rows, tx, next)
    BY <2>1, TotalsNext
  <2> QED BY <2>2 DEF Grows
<1>2. /\ p.accounts = [k \in DOMAIN l.accounts \cup DOMAIN tx.postings |->
                         IF k \in DOMAIN tx.postings
                         THEN Balance(l, k) + tx.postings[k].amount ELSE l.accounts[k]]
      /\ p.positions = [i \in DOMAIN l.positions \cup Moved(tx) |->
                          IF i \in Moved(tx)
                          THEN Held(l, i) + tx.postings[Position(i)].shares ELSE l.positions[i]]
  BY DEF Posted, Books, Fields
<1>3. DOMAIN p.accounts = DOMAIN l.accounts \cup DOMAIN tx.postings
      /\ DOMAIN p.positions = DOMAIN l.positions \cup Moved(tx)
  BY <1>2
<1>4. ASSUME NEW n \in DOMAIN next
      PROVE  DOMAIN next[n].postings \subseteq DOMAIN p.accounts /\ Moved(next[n]) \subseteq DOMAIN p.positions
  <2>1. CASE n \in DOMAIN rows
    BY <1>1, <1>3, <2>1 DEF AddsUp
  <2>2. CASE n = Len(rows) + 1
    BY <1>1, <1>3, <2>2
  <2> QED BY <1>1, <2>1, <2>2
<1>5. ASSUME NEW k \in DOMAIN p.accounts PROVE p.accounts[k] = Total(Amounts(next, k))
  <2>1. Balance(l, k) = Total(Amounts(rows, k)) /\ Balance(l, k) \in Int
    BY BalanceIs
  <2>2. CASE k \in DOMAIN tx.postings
    <3>1. p.accounts[k] = Balance(l, k) + tx.postings[k].amount
      BY <1>2, <2>2
    <3> QED BY <1>1, <2>1, <2>2, <3>1 DEF Lookup
  <2>3. CASE k \notin DOMAIN tx.postings
    <3>1. k \in DOMAIN l.accounts /\ p.accounts[k] = l.accounts[k]
      BY <1>2, <1>3, <2>3
    <3>2. p.accounts[k] = Balance(l, k) /\ Lookup(tx.postings, k, Nothing).amount = 0
      BY <2>3, <3>1 DEF Balance, Lookup, Nothing
    <3> QED BY <1>1, <2>1, <3>2
  <2> QED BY <2>2, <2>3
<1>6. DOMAIN p.positions \subseteq Instruments
  BY <1>3 DEF AddsUp, Moved
<1>7. ASSUME NEW i \in DOMAIN p.positions PROVE p.positions[i] = Total(Units(next, i))
  <2>0. i \in Instruments
    BY <1>6
  <2>1. Held(l, i) = Total(Units(rows, i)) /\ Held(l, i) \in Int
    BY <2>0, BalanceIs
  <2>2. CASE i \in Moved(tx)
    <3>1. p.positions[i] = Held(l, i) + tx.postings[Position(i)].shares
      BY <1>2, <2>2
    <3>2. Position(i) \in DOMAIN tx.postings
      BY <2>2 DEF Moved
    <3> QED BY <1>1, <2>1, <3>1, <3>2 DEF Lookup
  <2>3. CASE i \notin Moved(tx)
    <3>1. i \in DOMAIN l.positions /\ p.positions[i] = l.positions[i]
      BY <1>2, <1>3, <2>3
    <3>2. Position(i) \notin DOMAIN tx.postings
      BY <2>0, <2>3 DEF Moved
    <3>3. p.positions[i] = Held(l, i) /\ Lookup(tx.postings, Position(i), Nothing).shares = 0
      BY <3>1, <3>2 DEF Held, Lookup, Nothing
    <3> QED BY <1>1, <2>1, <3>3
  <2> QED BY <2>2, <2>3
<1>8. ASSUME NEW m \in DOMAIN next, NEW n \in DOMAIN next, m # n PROVE next[m].key # next[n].key
  <2>1. CASE m \in DOMAIN rows /\ n \in DOMAIN rows
    BY <1>1, <1>8, <2>1 DEF AddsUp
  <2>2. CASE m = Len(rows) + 1 \/ n = Len(rows) + 1
    BY <1>1, <1>8, <2>2
  <2> QED BY <1>1, <2>1, <2>2
<1> QED BY <1>1, <1>4, <1>5, <1>6, <1>7, <1>8 DEF AddsUp

-----------------------------------------------------------------------------
(* What is posted is whole. *)

(* The numbers kept beside the balances are whole. *)
Priced(l) ==
  /\ \A i \in DOMAIN l.marks : l.marks[i] \in Int
  /\ \A k \in DOMAIN l.entitled : l.entitled[k].total \in Int
  /\ \A d \in DOMAIN l.dividends : "gross" \in DOMAIN l.dividends[d] /\ l.dividends[d].gross \in Int

Numbers(l) ==
  /\ \A k : Balance(l, k) \in Int
  /\ \A i \in Instruments : Held(l, i) \in Int
  /\ Priced(l)

(* fixed() of a quotient is whole. *)
LEMMA RoundDivInt ==
  \A a \in Int, b \in Nat \ {0} : RoundDiv(a, b) \in Int
<1> SUFFICES ASSUME NEW a \in Int, NEW b \in Nat \ {0} PROVE RoundDiv(a, b) \in Int
  OBVIOUS
<1>1. Abs(a) \in Nat /\ Sign(a) \in Int
  BY DEF Abs, Sign
<1> DEFINE n == Abs(a) \div b
           r == 2 * (Abs(a) % b)
           m == IF r > b \/ (r = b /\ n % 2 = 1) THEN n + 1 ELSE n
<1>2. n \in Int
  BY <1>1
<1>3. m \in Int
  <2> HIDE DEF n, r
  <2> QED BY <1>2
<1>4. RoundDiv(a, b) = Sign(a) * m
  BY DEF RoundDiv
<1> HIDE DEF m
<1> QED BY <1>1, <1>3, <1>4

(* The cost of a part of a position that is not flat is whole. *)
LEMMA AllocatedInt ==
  ASSUME NEW l, Numbers(l), NEW i \in Instruments, NEW q \in Int, q # 0 => Held(l, i) # 0
  PROVE  Allocated(l, i, q) \in Int
<1>1. CASE q = 0
  BY <1>1 DEF Allocated
<1>2. CASE q # 0
  <2>1. Balance(l, Cost(i)) \in Int /\ Held(l, i) \in Int /\ Held(l, i) # 0
    BY <1>2 DEF Numbers
  <2>2. Abs(Held(l, i)) \in Nat \ {0} /\ Balance(l, Cost(i)) * q \in Int
    BY <2>1 DEF Abs
  <2> QED BY <1>2, <2>2, RoundDivInt DEF Allocated
<1> QED BY <1>1, <1>2

(* A fill: its signed quantity, and what of it closes. *)
LEMMA CloseType ==
  ASSUME NEW l, Numbers(l), NEW e, e.instrument \in Instruments,
         e.side \in {"BUY", "SELL"}, e.quantity \in Nat \ {0}
  PROVE  /\ Signed(e) \in Int /\ CloseQuantity(l, e) \in Int
         /\ CloseQuantity(l, e) # 0 => Held(l, e.instrument) # 0
<1>1. Signed(e) \in Int
  BY DEF Signed
<1>2. Held(l, e.instrument) \in Int
  BY DEF Numbers
<1>3. CloseQuantity(l, e) \in Int
  BY <1>1, <1>2 DEF CloseQuantity, Least, Abs
<1>4. Held(l, e.instrument) = 0 => CloseQuantity(l, e) = 0
  BY <1>1 DEF CloseQuantity
<1> QED BY <1>1, <1>3, <1>4

(* The postings of a fill of a derivative. *)
LEMMA DerivativeLegs ==
  ASSUME NEW l, Numbers(l), NEW e, e.instrument \in Instruments,
         e.side \in {"BUY", "SELL"}, e.quantity \in Nat \ {0}, e.price \in Int
  PROVE  Legs(DerivativeFill(l, e))
<1> DEFINE i        == e.instrument
           old      == Held(l, i)
           new      == old + Signed(e)
           cost     == Balance(l, Cost(i))
           close    == CloseQuantity(l, e)
           alloc    == Allocated(l, i, close)
           realized == IF close = 0 THEN 0
                       ELSE IF mode = "pit" THEN Sign(old) * e.price * close - alloc
                       ELSE RoundDiv((Sign(old) * e.price * Abs(old) - cost) * close, Abs(old))
           newCost  == IF close = 0 THEN cost + Signed(e) * e.price
                       ELSE IF new * old >= 0 THEN cost - alloc
                       ELSE new * e.price
           first    == <<Amount(Cost(i), newCost - cost), Shares(i, Signed(e))>>
           second   == IF realized = 0 THEN <<>>
                       ELSE <<Amount(Cash(Currency[i]), realized),
                              Amount(Income("income:realized_pnl", i), -realized)>>
<1>1. DerivativeFill(l, e) = Together(first \o second)
  BY DEF DerivativeFill
<1>2. Signed(e) \in Int /\ close \in Int /\ (close # 0 => old # 0)
  BY CloseType
<1>3. old \in Int /\ cost \in Int
  BY DEF Numbers
<1>4. alloc \in Int
  BY <1>2, AllocatedInt
<1> HIDE DEF old, cost, close, alloc
<1>5. new \in Int /\ newCost \in Int
  BY <1>2, <1>3, <1>4
<1>6. realized \in Int
  <2>1. Sign(old) \in Int /\ Abs(old) \in Nat /\ (old # 0 => Abs(old) # 0)
    BY <1>3 DEF Sign, Abs
  <2>2. Sign(old) * e.price \in Int
    BY <2>1
  <2>3. Sign(old) * e.price * close - alloc \in Int
    BY <1>2, <1>4, <2>2
  <2>4. (Sign(old) * e.price * Abs(old) - cost) * close \in Int
    BY <1>2, <1>3, <2>1, <2>2
  <2>5. close # 0 => RoundDiv((Sign(old) * e.price * Abs(old) - cost) * close, Abs(old)) \in Int
    BY <1>2, <2>1, <2>4, RoundDivInt
  <2> QED BY <2>3, <2>5
<1> HIDE DEF new, newCost, realized
<1>7. Legs(Amount(Cost(i), newCost - cost)) /\ Legs(Shares(i, Signed(e)))
  BY <1>2, <1>3, <1>5, OneLeg
<1>8. LegSeq(first)
  BY <1>7, LegSeqs
<1>9. Legs(Amount(Cash(Currency[i]), realized)) /\ Legs(Amount(Income("income:realized_pnl", i), -realized))
  BY <1>6, OneLeg
<1>10. LegSeq(second)
  BY <1>9, LegSeqs
<1> HIDE DEF first, second
<1> QED BY <1>1, <1>8, <1>10, LegsJoined, TogetherLegs

(* The postings of a fill of an option paid for with a premium. *)
LEMMA PremiumLegs ==
  ASSUME NEW l, Numbers(l), NEW e, e.instrument \in Instruments,
         e.side \in {"BUY", "SELL"}, e.quantity \in Nat \ {0}, e.price \in Int
  PROVE  Legs(PremiumFill(l, e))
<1> DEFINE i     == e.instrument
           close == CloseQuantity(l, e)
           alloc == Allocated(l, i, close)
           delta == Sign(Signed(e)) * (e.quantity - close) * e.price - alloc
           cash  == -Signed(e) * e.price
           parts == <<Amount(Cash(Currency[i]), cash), Amount(Cost(i), delta), Shares(i, Signed(e)),
                      Amount(Income("income:realized_pnl", i), -(cash + delta))>>
<1>1. PremiumFill(l, e) = Together(parts)
  BY DEF PremiumFill
<1>2. Signed(e) \in Int /\ close \in Int /\ (close # 0 => Held(l, i) # 0)
  BY CloseType
<1>3. alloc \in Int
  BY <1>2, AllocatedInt
<1> HIDE DEF close, alloc
<1>4. cash \in Int
  BY <1>2
<1>5. delta \in Int
  <2>1. Sign(Signed(e)) \in Int /\ e.quantity - close \in Int
    BY <1>2 DEF Sign
  <2>2. Sign(Signed(e)) * (e.quantity - close) \in Int
    BY <2>1
  <2> QED BY <1>3, <2>2
<1> HIDE DEF cash, delta
<1>6. Legs(Amount(Cash(Currency[i]), cash)) /\ Legs(Amount(Cost(i), delta)) /\ Legs(Shares(i, Signed(e)))
      /\ Legs(Amount(Income("income:realized_pnl", i), -(cash + delta)))
  BY <1>2, <1>4, <1>5, OneLeg
<1>7. LegSeq(parts)
  BY <1>6, LegSeqs
<1> HIDE DEF parts
<1> QED BY <1>1, <1>7, TogetherLegs

(* The postings of a fill of a cash instrument. *)
LEMMA CashLegs ==
  ASSUME NEW l, Numbers(l), NEW e, e.instrument \in Instruments, Kind[e.instrument] = "cash",
         e.side \in {"BUY", "SELL"}, e.quantity \in Nat \ {0}, e.price \in Int, FillAccepted(l, e)
  PROVE  Legs(CashFill(l, e))
<1> DEFINE i       == e.instrument
           money   == e.quantity * e.price
           removed == Allocated(l, i, e.quantity)
           buy     == <<Shares(i, Signed(e)), Amount(Cash(Currency[i]), -money), Amount(Cost(i), money)>>
           sell    == <<Shares(i, Signed(e)), Amount(Cash(Currency[i]), money), Amount(Cost(i), -removed),
                        Amount(Income("income:realized_pnl", i), removed - money)>>
<1>1. CashFill(l, e) = IF e.side = "BUY" THEN Together(buy) ELSE Together(sell)
  BY DEF CashFill
<1>2. Signed(e) \in Int /\ money \in Int
  BY DEF Signed
<1>3. e.side = "SELL" => removed \in Int
  <2>1. Held(l, i) \in Int /\ (e.side = "SELL" => Held(l, i) >= e.quantity)
    BY DEF Numbers, FillAccepted
  <2>2. e.side = "SELL" => Held(l, i) # 0
    BY <2>1
  <2> QED BY <2>2, AllocatedInt
<1> HIDE DEF money, removed
<1>4. CASE e.side = "BUY"
  <2>1. Legs(Shares(i, Signed(e))) /\ Legs(Amount(Cash(Currency[i]), -money)) /\ Legs(Amount(Cost(i), money))
    BY <1>2, OneLeg
  <2>2. LegSeq(buy)
    BY <2>1, LegSeqs
  <2> HIDE DEF buy, sell
  <2> QED BY <1>1, <1>4, <2>2, TogetherLegs
<1>5. CASE e.side = "SELL"
  <2>1. Legs(Shares(i, Signed(e))) /\ Legs(Amount(Cash(Currency[i]), money)) /\ Legs(Amount(Cost(i), -removed))
        /\ Legs(Amount(Income("income:realized_pnl", i), removed - money))
    BY <1>2, <1>3, <1>5, OneLeg
  <2>2. LegSeq(sell)
    BY <2>1, LegSeqs
  <2> HIDE DEF buy, sell
  <2> QED BY <1>1, <1>5, <2>2, TogetherLegs
<1> QED BY <1>4, <1>5

(* The postings of a corporate action the ledger applies itself. *)
LEMMA ActionLegs ==
  ASSUME NEW l, Numbers(l), NEW e, IsEvent(e), e.kind = "action", ActionAccepted(l, e)
  PROVE  Legs(ActionPostings(l, e))
<1> DEFINE i    == e.instrument
           held == Held(l, i)
           cost == Balance(l, Cost(i))
           paid == l.entitled[EntitlementKey(e)].total
           gain == (IF e.shares > 0 THEN e.eligible ELSE held) * e.cash
           end  == <<Amount(Cash(Currency[i]), held * e.cash), Amount(Cost(i), -cost),
                     Amount(Income("income:realized_pnl", i), cost - held * e.cash), Shares(i, -held)>>
           pay  == <<Amount(Cash(e.currency), paid), Amount(Receivable(EntitlementKey(e)), -paid)>>
           to   == IF e.type = "cash_dividend_entitlement"
                   THEN Receivable(EntitlementKey(e)) ELSE Cash(e.currency)
           from == <<"income:corporate_action", e.currency, <<i>>>>
           money == IF e.cash < 0 THEN <<>> ELSE <<Amount(to, gain), Amount(from, -gain)>>
           units == IF e.shares > 0 THEN <<Shares(i, e.shares)>>
                    ELSE IF e.ratio = <<>> THEN <<>>
                    ELSE <<Shares(i, (held * e.ratio[1]) \div e.ratio[2] - held)>>
<1>0. /\ e.type = "terminal_cash" => ActionPostings(l, e) = Together(end)
      /\ e.type = "cash_dividend_payment" => ActionPostings(l, e) = Together(pay)
      /\ e.type \notin {"terminal_cash", "cash_dividend_payment"} =>
           ActionPostings(l, e) = Together(money \o units)
  BY DEF ActionPostings
<1>1. /\ i \in Instruments /\ e.cash \in Int /\ e.shares \in Nat /\ e.eligible \in Nat
      /\ e.ratio # <<>> => e.ratio[1] \in Nat \ {0} /\ e.ratio[2] \in Nat \ {0}
  BY DEF IsEvent, Ratio
<1>2. held \in Int /\ cost \in Int
  BY <1>1 DEF Numbers
<1>3. e.type = "cash_dividend_payment" => paid \in Int
  BY DEF ActionAccepted, PaymentAccepted, Numbers, Priced
<1> HIDE DEF held, cost, paid, to, from
<1>4. gain \in Int /\ held * e.cash \in Int
  BY <1>1, <1>2
<1> HIDE DEF gain
<1>5. CASE e.type = "terminal_cash"
  <2>1. Legs(Amount(Cash(Currency[i]), held * e.cash)) /\ Legs(Amount(Cost(i), -cost))
        /\ Legs(Amount(Income("income:realized_pnl", i), cost - held * e.cash)) /\ Legs(Shares(i, -held))
    BY <1>2, <1>4, OneLeg
  <2>2. LegSeq(end)
    BY <2>1, LegSeqs
  <2> HIDE DEF end
  <2> QED BY <1>0, <1>5, <2>2, TogetherLegs
<1>6. CASE e.type = "cash_dividend_payment"
  <2>1. Legs(Amount(Cash(e.currency), paid)) /\ Legs(Amount(Receivable(EntitlementKey(e)), -paid))
    BY <1>3, <1>6, OneLeg
  <2>2. LegSeq(pay)
    BY <2>1, LegSeqs
  <2> HIDE DEF pay
  <2> QED BY <1>0, <1>6, <2>2, TogetherLegs
<1>7. CASE e.type \notin {"terminal_cash", "cash_dividend_payment"}
  <2>1. Legs(Amount(to, gain)) /\ Legs(Amount(from, -gain))
    BY <1>4, OneLeg
  <2>2. LegSeq(money)
    BY <2>1, LegSeqs
  <2>3. Legs(Shares(i, e.shares))
    BY <1>1, OneLeg
  <2>4. e.ratio # <<>> => Legs(Shares(i, (held * e.ratio[1]) \div e.ratio[2] - held))
    <3>1. e.ratio # <<>> => held * e.ratio[1] \in Int
      BY <1>1, <1>2
    <3>2. e.ratio # <<>> => (held * e.ratio[1]) \div e.ratio[2] - held \in Int
      BY <1>1, <1>2, <3>1
    <3> QED BY <3>2, OneLeg
  <2>5. LegSeq(units)
    BY <2>3, <2>4, LegSeqs
  <2> HIDE DEF money, units
  <2> QED BY <1>0, <1>7, <2>2, <2>5, LegsJoined, TogetherLegs
<1> QED BY <1>5, <1>6, <1>7

(* The postings of a settlement. *)
LEMMA SettlementLegs ==
  ASSUME NEW l, Numbers(l), NEW e, IsEvent(e), e.kind = "settlement"
  PROVE  Legs(SettlementPostings(l, e))
<1> DEFINE i     == e.instrument
           first == <<Amount(Cash(e.currency), e.amount),
                      Amount(<<"income:settlement", e.currency, <<i>>>>, -e.amount)>>
           marked == Held(l, i) * e.price - Balance(l, Cost(i))
           second == IF e.type # "daily_mark" THEN <<>> ELSE <<Amount(Cost(i), marked)>>
<1>1. SettlementPostings(l, e) = Together(first \o second)
  BY DEF SettlementPostings
<1>2. i \in Instruments /\ e.amount \in Int /\ (e.type = "daily_mark" => e.price \in Int)
  BY DEF IsEvent
<1>3. e.type = "daily_mark" => marked \in Int
  <2>1. Held(l, i) \in Int /\ Balance(l, Cost(i)) \in Int
    BY <1>2 DEF Numbers
  <2> QED BY <1>2, <2>1
<1> HIDE DEF marked
<1>4. Legs(Amount(Cash(e.currency), e.amount))
      /\ Legs(Amount(<<"income:settlement", e.currency, <<i>>>>, -e.amount))
      /\ (e.type = "daily_mark" => Legs(Amount(Cost(i), marked)))
  BY <1>2, <1>3, OneLeg
<1>5. LegSeq(first) /\ LegSeq(second)
  BY <1>4, LegSeqs
<1> HIDE DEF first, second
<1> QED BY <1>1, <1>5, LegsJoined, TogetherLegs

(* Cash received against an income account. *)
LEMMA IncomeLegs ==
  ASSUME NEW c, NEW n \in Int, NEW counter
  PROVE  Legs(CashIncome(c, n, counter))
<1> DEFINE parts == <<Amount(Cash(c), n), Amount(counter, -n)>>
<1>1. Legs(Amount(Cash(c), n)) /\ Legs(Amount(counter, -n))
  BY OneLeg
<1>2. LegSeq(parts)
  BY <1>1, LegSeqs
<1>3. CashIncome(c, n, counter) = Together(parts)
  BY DEF CashIncome
<1> HIDE DEF parts
<1> QED BY <1>2, <1>3, TogetherLegs

(* The transaction of every event that is accepted is whole. *)
LEMMA PostingsLegs ==
  ASSUME NEW l, Numbers(l), NEW e, IsEvent(e), Accepted(l, e)
  PROVE  Legs(Postings(l, e))
<1>1. e.kind \in {"fill", "fee", "funding", "settlement", "action"}
  BY DEF IsEvent
<1>2. CASE e.kind = "fill"
  <2>1. /\ e.instrument \in Instruments /\ e.side \in {"BUY", "SELL"}
        /\ e.quantity \in Nat \ {0} /\ e.price \in Int /\ FillAccepted(l, e)
    BY <1>2 DEF IsEvent, Accepted
  <2>2. Kind[e.instrument] \in {"cash", "derivative", "premium"}
    BY <2>1, LedgerAssumption
  <2>3. /\ Kind[e.instrument] = "derivative" => Postings(l, e) = DerivativeFill(l, e)
        /\ Kind[e.instrument] = "premium" => Postings(l, e) = PremiumFill(l, e)
        /\ Kind[e.instrument] = "cash" => Postings(l, e) = CashFill(l, e)
    BY <1>2 DEF Postings
  <2> QED BY <2>1, <2>2, <2>3, DerivativeLegs, PremiumLegs, CashLegs
<1>3. CASE e.kind = "fee"
  <2>1. -e.amount \in Int
    BY <1>3 DEF IsEvent
  <2>2. Postings(l, e) = CashIncome(e.currency, -e.amount, <<"expenses:fees", e.currency, <<>>>>)
    BY <1>3 DEF Postings
  <2> QED BY <2>1, <2>2, IncomeLegs
<1>4. CASE e.kind = "funding"
  <2>1. e.amount \in Int
    BY <1>4 DEF IsEvent
  <2>2. Postings(l, e)
          = CashIncome(e.currency, e.amount, <<"income:funding", e.currency, <<e.instrument>>>>)
    BY <1>4 DEF Postings
  <2> QED BY <2>1, <2>2, IncomeLegs
<1>5. CASE e.kind = "settlement"
  <2>1. Postings(l, e) = SettlementPostings(l, e)
    BY <1>5 DEF Postings
  <2> QED BY <1>5, <2>1, SettlementLegs
<1>6. CASE e.kind = "action"
  <2>1. Postings(l, e) = ActionPostings(l, e)
    BY <1>6 DEF Postings
  <2>2. ActionAccepted(l, e)
    BY <1>6 DEF Accepted
  <2> QED BY <1>6, <2>1, <2>2, ActionLegs
<1> QED BY <1>1, <1>2, <1>3, <1>4, <1>5, <1>6

-----------------------------------------------------------------------------
(* Books that agree with their journal, of which the first rows may be in  *)
(* the sink.                                                               *)

KeysOf(rows) == {rows[n].key : n \in DOMAIN rows}

Full(l, out) ==
  /\ Books(l) /\ Priced(l)
  /\ out \in Seq(Rows(out))
  /\ AddsUp(l.accounts, l.positions, out \o l.journal)
  /\ out = <<>> => l.keys = KeysOf(l.journal)

(* Their numbers are whole. *)
LEMMA FullNumbers ==
  ASSUME NEW l, NEW out, Full(l, out)
  PROVE  Numbers(l)
BY BalanceIs DEF Full, Numbers

(* Books that agree with others in what is reconciled agree too. *)
LEMMA SameFull ==
  ASSUME NEW l, NEW r, NEW out, Full(l, out), Books(r), Priced(r),
         r.journal = l.journal, r.keys = l.keys, r.accounts = l.accounts, r.positions = l.positions
  PROVE  Full(r, out)
BY DEF Full

(* A row appended to the journal is one appended to all rows. *)
LEMMA JoinAppend ==
  ASSUME NEW s, s \in Seq(Rows(s)), NEW t, t \in Seq(Rows(t)), NEW x
  PROVE  s \o Append(t, x) = Append(s \o t, x)
<1> DEFINE R == Rows(s) \cup Rows(t) \cup {x}
           u == <<x>>
           st == s \o t
           tu == t \o u
<1>1. s \in Seq(R) /\ t \in Seq(R) /\ u \in Seq(R) /\ st \in Seq(R)
  <2>1. s \in Seq(R) /\ t \in Seq(R) /\ u \in Seq(R)
    <3>1. Rows(s) \subseteq R /\ Rows(t) \subseteq R /\ x \in R
      OBVIOUS
    <3> HIDE DEF R
    <3> QED BY <3>1
  <2> HIDE DEF R
  <2> QED BY <2>1
<1>2. x \in R
  OBVIOUS
<1> HIDE DEF R
<1>3. Append(t, x) = tu /\ Append(st, x) = st \o u
  BY <1>1, <1>2, AppendIsConcat
<1>4. st \o u = s \o tu
  <2> HIDE DEF u, st, tu
  <2>1. st = s \o t /\ tu = t \o u
    BY DEF st, tu
  <2> QED BY <1>1, <2>1, Associates
<1> QED BY <1>3, <1>4

(* The keys of a journal with one more row. *)
LEMMA KeysAppend ==
  ASSUME NEW s, s \in Seq(Rows(s)), NEW x
  PROVE  KeysOf(Append(s, x)) = KeysOf(s) \cup {x.key}
<1> DEFINE t == Append(s, x)
           N == Len(s)
<1>1. DOMAIN s = 1..N /\ N \in Nat
  BY Elements
<1>2. s \in Seq(Rows(s) \cup {x}) /\ x \in Rows(s) \cup {x}
  <2>1. Rows(s) \subseteq Rows(s) \cup {x}
    OBVIOUS
  <2> QED BY <2>1
<1>3. t = [n \in 1..(N + 1) |-> IF n = N + 1 THEN x ELSE s[n]]
  BY <1>2, AppendAsFunction
<1> HIDE DEF t
<1>4. DOMAIN t = DOMAIN s \cup {N + 1} /\ t[N + 1] = x /\ \A n \in DOMAIN s : t[n] = s[n]
  BY <1>1, <1>3
<1>5. KeysOf(t) = KeysOf(s) \cup {x.key}
  BY <1>4 DEF KeysOf
<1> QED BY <1>5 DEF t

(* _post leaves books that agree with their journal. *)
LEMMA PostFull ==
  ASSUME NEW l, NEW out, Full(l, out), NEW tx, Legs(tx.postings), tx.key \notin KeysOf(out \o l.journal),
         NEW p, p = Posted(l, tx)
  PROVE  Full(p, out)
<1> DEFINE rows == out \o l.journal
           next == Append(rows, tx)
<1>1. Books(l) /\ Priced(l) /\ out \in Seq(Rows(out)) /\ AddsUp(l.accounts, l.positions, rows)
      /\ l.journal \in Seq(Rows(l.journal))
      /\ (out = <<>> => l.keys = KeysOf(l.journal))
  BY DEF Full, Books
<1>2. \A n \in DOMAIN rows : rows[n].key # tx.key
  BY DEF KeysOf
<1>3. /\ Books(p) /\ p.journal = Append(l.journal, tx) /\ p.keys = l.keys \cup {tx.key}
      /\ \A f \in Fields \ {"journal", "keys", "accounts", "positions"} : p[f] = l[f]
  BY <1>1, PostedAgrees
<1>4. next = out \o p.journal
  <2>1. ASSUME NEW j, j = l.journal
        PROVE  out \o Append(j, tx) = Append(out \o j, tx)
    <3>1. out \in Seq(Rows(out)) /\ j \in Seq(Rows(j))
      BY <1>1, <2>1
    <3> QED BY <3>1, JoinAppend
  <2> QED BY <1>3, <2>1
<1>5. Priced(p)
  BY <1>1, <1>3 DEF Priced, Fields
<1> HIDE DEF rows
<1>6. AddsUp(p.accounts, p.positions, next)
  <2> HIDE DEF next
  <2>1. next = Append(rows, tx)
    BY DEF next
  <2> QED BY <1>1, <1>2, <2>1, PostAdds
<1>7. out = <<>> => p.keys = KeysOf(p.journal)
  BY <1>1, <1>3, KeysAppend
<1> QED BY <1>1, <1>3, <1>4, <1>5, <1>6, <1>7 DEF Full

-----------------------------------------------------------------------------
(* Booking an event. *)

(* What an event records beside its transaction is whole. *)
LEMMA RecordedPriced ==
  ASSUME NEW l, NEW p, NEW e, NEW day, Books(p), Numbers(p), IsEvent(e)
  PROVE  Priced(Recorded(l, p, e, day))
<1> DEFINE r == Recorded(l, p, e, day)
<1>0. Priced(p)
  BY DEF Numbers
<1>1. CASE e.kind = "fill"
  <2>1. r = AfterFill(p, e, day, LotUpdate(l, e, day))
    BY <1>1 DEF Recorded
  <2>2. r.marks = p.marks /\ r.entitled = p.entitled /\ r.dividends = p.dividends
    BY <2>1 DEF AfterFill, Books, Fields
  <2> HIDE DEF r
  <2>3. Priced(r)
    BY <1>0, <2>2 DEF Priced
  <2> QED BY <2>3 DEF r
<1>2. CASE e.kind = "action"
  <2> DEFINE d == DividendState(p, e)
             key == EntitlementKey(e)
             total == Balance(p, Receivable(key))
             q == AfterAction(p, e)
  <2>1. r = q
    BY <1>2 DEF Recorded
  <2>2. /\ d.entitled = p.entitled \/ d.entitled = Drop(p.entitled, key)
           \/ d.entitled = Put(p.entitled, key, [cash |-> e.cash, total |-> total])
        /\ DOMAIN d = Fields /\ d.marks = p.marks /\ d.dividends = p.dividends
    BY DEF DividendState, Books, Fields
  <2>3. total \in Int
    BY DEF Numbers
  <2> HIDE DEF key, total
  <2>4. \A k \in DOMAIN d.entitled : d.entitled[k].total \in Int
    <3>1. CASE d.entitled = p.entitled \/ d.entitled = Drop(p.entitled, key)
      BY <1>0, <3>1 DEF Priced, Drop
    <3>2. CASE d.entitled = Put(p.entitled, key, [cash |-> e.cash, total |-> total])
      BY <1>0, <2>3, <3>2 DEF Priced, Put
    <3> QED BY <2>2, <3>1, <3>2
  <2>5. /\ e.reference \in Int /\ (e.ratio # <<>> => e.ratio[1] \in Nat \ {0} /\ e.ratio[2] \in Nat \ {0})
    BY <1>2 DEF IsEvent, Ratio
  <2>6. q = IF e.shares > 0 THEN ShareLot(d, e)
            ELSE IF e.ratio # <<>> \/ e.type = "terminal_cash" THEN Split(d, e) ELSE d
    BY DEF AfterAction
  <2> HIDE DEF d
  <2>7. \A i \in DOMAIN d.marks : d.marks[i] \in Int
    BY <1>0, <2>2 DEF Priced
  <2>8. /\ q.entitled = d.entitled /\ q.dividends = d.dividends
        /\ \A i \in DOMAIN q.marks : q.marks[i] \in Int
    <3>1. CASE e.shares > 0
      <4>1. /\ q.entitled = d.entitled /\ q.dividends = d.dividends
            /\ q.marks = IF e.reference = 0 THEN d.marks ELSE Put(d.marks, e.instrument, e.reference)
        BY <2>2, <2>6, <3>1 DEF ShareLot, Fields
      <4> HIDE DEF q
      <4> QED BY <2>5, <2>7, <4>1 DEF Put
    <3>2. CASE ~(e.shares > 0) /\ e.type = "terminal_cash"
      <4>1. /\ q.entitled = d.entitled /\ q.dividends = d.dividends
            /\ q.marks = Drop(d.marks, e.instrument)
        BY <2>2, <2>6, <3>2 DEF Split, Fields
      <4> HIDE DEF q
      <4> QED BY <2>7, <4>1 DEF Drop
    <3>3. CASE ~(e.shares > 0) /\ e.type # "terminal_cash" /\ e.ratio # <<>>
      <4>1. /\ q.entitled = d.entitled /\ q.dividends = d.dividends
            /\ q.marks = [j \in DOMAIN d.marks |->
                            IF j = e.instrument THEN (d.marks[j] * e.ratio[2]) \div e.ratio[1] ELSE d.marks[j]]
        BY <2>2, <2>6, <3>3 DEF Split, Fields
      <4>2. ASSUME NEW j \in DOMAIN d.marks
            PROVE  (d.marks[j] * e.ratio[2]) \div e.ratio[1] \in Int
        <5>1. d.marks[j] * e.ratio[2] \in Int
          BY <2>5, <2>7, <3>3
        <5> QED BY <2>5, <3>3, <5>1
      <4> HIDE DEF q
      <4> QED BY <2>7, <4>1, <4>2
    <3>4. CASE ~(e.shares > 0) /\ e.type # "terminal_cash" /\ e.ratio = <<>>
      BY <2>6, <2>7, <3>4
    <3> QED BY <3>1, <3>2, <3>3, <3>4
  <2> HIDE DEF q
  <2>9. Priced(q)
    BY <1>0, <2>2, <2>4, <2>8 DEF Priced
  <2> QED BY <2>1, <2>9
<1>3. CASE e.kind = "settlement" /\ e.type = "daily_mark"
  <2>1. r = [p EXCEPT !.marks = Put(@, e.instrument, e.price)]
    BY <1>3 DEF Recorded
  <2>2. r.marks = Put(p.marks, e.instrument, e.price) /\ r.entitled = p.entitled
        /\ r.dividends = p.dividends
    BY <2>1 DEF Books, Fields
  <2>3. e.price \in Int
    BY <1>3 DEF IsEvent
  <2> HIDE DEF r
  <2>4. Priced(r)
    BY <1>0, <2>2, <2>3 DEF Priced, Put
  <2> QED BY <2>4 DEF r
<1>4. CASE e.kind \notin {"fill", "action"} /\ ~(e.kind = "settlement" /\ e.type = "daily_mark")
  BY <1>0, <1>4 DEF Recorded
<1> QED BY <1>1, <1>2, <1>3, <1>4

(* What booking an event makes of the books: those with its transaction,   *)
(* or as they were, the event known, and what is recorded beside it.       *)
Carries(l, p, b, e) ==
  /\ Books(b)
  /\ b.journal = p.journal /\ b.keys = p.keys /\ b.accounts = p.accounts /\ b.positions = p.positions
  /\ b.seen = Put(l.seen, e.id, e)
  /\ \A f \in {"marked", "dividends", "records", "closed"} : b[f] = l[f]

(* What booking an event leaves, and that its numbers stay whole. *)
LEMMA BookedIs ==
  ASSUME NEW l, NEW e, NEW day, NEW tx, Books(l), NEW p, p = IF NoEffect(e, tx) THEN l ELSE Posted(l, tx),
         NEW b, b = BookedAs(l, e, day, tx)
  PROVE  /\ Books(p) /\ Carries(l, p, b, e)
         /\ Numbers(p) /\ IsEvent(e) => Priced(b)
<1> DEFINE r == Recorded(l, p, e, day)
<1>1. b = [r EXCEPT !.seen = Put(@, e.id, e), !.time = e.time] /\ r = Recorded(l, p, e, day)
  BY DEF BookedAs
<1> HIDE DEF r
<1>2. PostedOf(l, p, tx)
  BY PostingAgrees
<1>3. Near(p, r, e)
  BY <1>1, <1>2, RecordedIsNear DEF PostedOf
<1>4. Books(r)
  BY <1>3 DEF Near
<1>5. b = [r EXCEPT !.seen = Put(r.seen, e.id, e), !.time = e.time]
  BY <1>1
<1>6. b.seen = Put(r.seen, e.id, e) /\ \A f \in Fields \ {"seen", "time"} : b[f] = r[f]
  BY <1>4, <1>5 DEF Books, Fields
<1>7. r.seen = l.seen
  BY <1>2, <1>3 DEF Near, Fields, PostedOf
<1>8. b.journal = p.journal /\ b.keys = p.keys /\ b.accounts = p.accounts /\ b.positions = p.positions
  BY <1>3, <1>6 DEF Near, Fields, PostedOf
<1>9. \A f \in {"marked", "dividends", "records", "closed"} : b[f] = l[f]
  BY <1>2, <1>3, <1>6 DEF Near, Fields, PostedOf
<1>10. Books(b)
  BY BookedAgrees DEF BookedOf
<1>11. ASSUME Numbers(p), IsEvent(e) PROVE Priced(b)
  <2>1. Priced(r)
    BY <1>1, <1>2, <1>11, RecordedPriced DEF PostedOf
  <2>2. b.marks = r.marks /\ b.entitled = r.entitled /\ b.dividends = r.dividends
    BY <1>6 DEF Fields
  <2> QED BY <2>1, <2>2 DEF Priced
<1> QED BY <1>2, <1>6, <1>7, <1>8, <1>9, <1>10, <1>11 DEF Carries, PostedOf

(* An event that is accepted, and whose transaction no row is, leaves      *)
(* books that agree with their journal.                                    *)
LEMMA BookedFull ==
  ASSUME NEW l, NEW out, Full(l, out), NEW e, IsEvent(e), Accepted(l, e), NEW day,
         <<e.kind, e.id>> \notin KeysOf(out \o l.journal), NEW b, b = Booked(l, e, day)
  PROVE  /\ Full(b, out) /\ b.seen = Put(l.seen, e.id, e)
         /\ b.keys \subseteq l.keys \cup {<<e.kind, e.id>>}
         /\ KeysOf(out \o b.journal) \subseteq KeysOf(out \o l.journal) \cup {<<e.kind, e.id>>}
         /\ \A f \in {"marked", "dividends", "records", "closed"} : b[f] = l[f]
<1> DEFINE tx == Translated(l, e)
           p  == IF NoEffect(e, tx) THEN l ELSE Posted(l, tx)
<1>1. b = BookedAs(l, e, day, tx) /\ p = (IF NoEffect(e, tx) THEN l ELSE Posted(l, tx))
  BY DEF Booked
<1>2. tx.key = <<e.kind, e.id>> /\ tx.postings = Postings(l, e)
  BY DEF Translated
<1>3. Legs(tx.postings)
  BY <1>2, FullNumbers, PostingsLegs
<1> HIDE DEF tx, p
<1>4. Books(l) /\ out \in Seq(Rows(out)) /\ l.journal \in Seq(Rows(l.journal))
  BY DEF Full, Books
<1>5. /\ Full(p, out) /\ p.keys \subseteq l.keys \cup {tx.key}
      /\ KeysOf(out \o p.journal) \subseteq KeysOf(out \o l.journal) \cup {tx.key}
  <2>1. CASE p = l
    BY <2>1
  <2>2. CASE p = Posted(l, tx)
    <3>1. Full(p, out)
      BY <1>2, <1>3, <2>2, PostFull
    <3>2. p.journal = Append(l.journal, tx) /\ p.keys = l.keys \cup {tx.key}
      BY <1>4, <2>2, PostedAgrees
    <3>3. KeysOf(out \o Append(l.journal, tx)) = KeysOf(out \o l.journal) \cup {tx.key}
      <4>1. ASSUME NEW j, j = l.journal
            PROVE  KeysOf(out \o Append(j, tx)) = KeysOf(out \o j) \cup {tx.key}
        <5> DEFINE rows == out \o j
        <5>1. out \o Append(j, tx) = Append(rows, tx)
          BY <1>4, <4>1, JoinAppend
        <5>2. rows \in Seq(Rows(rows))
          BY <4>1 DEF Full, AddsUp, Rowed
        <5> HIDE DEF rows
        <5>3. KeysOf(Append(rows, tx)) = KeysOf(rows) \cup {tx.key}
          BY <5>2, KeysAppend
        <5> QED BY <5>1, <5>3 DEF rows
      <4> QED BY <4>1
    <3> QED BY <3>1, <3>2, <3>3
  <2> QED BY <1>1, <2>1, <2>2
<1>6. Carries(l, p, b, e) /\ (Numbers(p) => Priced(b))
  BY <1>1, <1>4, BookedIs
<1>7. Numbers(p)
  BY <1>5, FullNumbers
<1>8. Full(b, out)
  BY <1>5, <1>6, <1>7, SameFull DEF Carries
<1> QED BY <1>2, <1>5, <1>6, <1>8 DEF Carries

-----------------------------------------------------------------------------
(* Books that take bookings: nothing is in the sink, and what the journal  *)
(* holds is known by its event, its action or its dividend.                *)

EventKinds == {"fill", "fee", "funding", "settlement", "action"}

Recalled(l) ==
  \A k \in l.keys :
    /\ k[1] \in EventKinds \cup {"financial"} => k[2] \in DOMAIN l.seen
    /\ k[1] = "dividend" => <<k[2], k[3]>> \in DOMAIN l.records

Ready(l) == Full(l, <<>>) /\ Recalled(l)

(* Their keys are those of all rows. *)
LEMMA ReadyKeys ==
  ASSUME NEW l, Full(l, <<>>)
  PROVE  KeysOf(<<>> \o l.journal) = l.keys
<1>1. <<>> \o l.journal = l.journal
  BY Joining DEF Full, Books
<1>2. l.keys = KeysOf(l.journal)
  BY DEF Full
<1> QED BY <1>1, <1>2

(* An event that is not known yet is booked. *)
LEMMA BookedReady ==
  ASSUME NEW l, Ready(l), NEW e, IsEvent(e), Accepted(l, e), NEW day,
         <<e.kind, e.id>> \notin l.keys, NEW b, b = Booked(l, e, day)
  PROVE  /\ Ready(b) /\ b.closed = l.closed /\ b.keys \subseteq l.keys \cup {<<e.kind, e.id>>}
         /\ b.seen = Put(l.seen, e.id, e)
<1>1. Full(l, <<>>) /\ Recalled(l)
  BY DEF Ready
<1>2. <<e.kind, e.id>> \notin KeysOf(<<>> \o l.journal)
  BY <1>1, ReadyKeys
<1>3. /\ Full(b, <<>>) /\ b.seen = Put(l.seen, e.id, e)
      /\ b.keys \subseteq l.keys \cup {<<e.kind, e.id>>}
      /\ \A f \in {"marked", "dividends", "records", "closed"} : b[f] = l[f]
  <2>1. ASSUME NEW out, out = <<>>
        PROVE  /\ Full(b, out) /\ b.seen = Put(l.seen, e.id, e)
               /\ b.keys \subseteq l.keys \cup {<<e.kind, e.id>>}
               /\ KeysOf(out \o b.journal) \subseteq KeysOf(out \o l.journal) \cup {<<e.kind, e.id>>}
               /\ \A f \in {"marked", "dividends", "records", "closed"} : b[f] = l[f]
    <3>1. Full(l, out) /\ <<e.kind, e.id>> \notin KeysOf(out \o l.journal)
      BY <1>1, <1>2, <2>1
    <3> HIDE <2>1
    <3> QED BY <3>1, BookedFull
  <2> QED BY <2>1
<1>4. DOMAIN b.seen = DOMAIN l.seen \cup {e.id} /\ b.records = l.records /\ b.closed = l.closed
  BY <1>3 DEF Put
<1>5. Recalled(b)
  <2> SUFFICES ASSUME NEW k \in b.keys
               PROVE  /\ k[1] \in EventKinds \cup {"financial"} => k[2] \in DOMAIN b.seen
                      /\ k[1] = "dividend" => <<k[2], k[3]>> \in DOMAIN b.records
    BY DEF Recalled
  <2>1. CASE k \in l.keys
    BY <1>1, <1>4, <2>1 DEF Recalled
  <2>2. CASE k = <<e.kind, e.id>>
    <3>1. k[1] = e.kind /\ k[2] = e.id
      BY <2>2
    <3>2. e.kind # "dividend"
      BY DEF IsEvent
    <3> QED BY <1>4, <3>1, <3>2
  <2> QED BY <1>3, <2>1, <2>2
<1> QED BY <1>3, <1>4, <1>5 DEF Ready

(* An event whose id is not known has no row. *)
LEMMA UnseenUnposted ==
  ASSUME NEW l, Recalled(l), NEW kind \in EventKinds \cup {"financial"}, NEW id, id \notin DOMAIN l.seen
  PROVE  <<kind, id>> \notin l.keys
<1> DEFINE k == <<kind, id>>
<1>1. k[1] = kind /\ k[2] = id
  OBVIOUS
<1> HIDE DEF k
<1>2. k \notin l.keys
  BY <1>1 DEF Recalled
<1> QED BY <1>2 DEF k

(* Books that agree with Ready ones in what counts are Ready. *)
LEMMA SameReady ==
  ASSUME NEW l, NEW r, Ready(l), Books(r), Priced(r),
         r.journal = l.journal, r.keys = l.keys, r.accounts = l.accounts, r.positions = l.positions,
         DOMAIN l.seen \subseteq DOMAIN r.seen, DOMAIN l.records \subseteq DOMAIN r.records
  PROVE  Ready(r)
<1>1. Full(r, <<>>)
  BY SameFull DEF Ready
<1>2. Recalled(r)
  BY DEF Ready, Recalled
<1> QED BY <1>1, <1>2 DEF Ready

(* A transaction of a key that no row has, which is known afterwards. *)
LEMMA PostReady ==
  ASSUME NEW l, Ready(l), NEW tx, Legs(tx.postings), tx.key \notin l.keys,
         NEW p, p = Posted(l, tx)
  PROVE  /\ Full(p, <<>>) /\ p.keys = l.keys \cup {tx.key}
         /\ \A f \in Fields \ {"journal", "keys", "accounts", "positions"} : p[f] = l[f]
<1>1. Full(l, <<>>)
  BY DEF Ready
<1>2. tx.key \notin KeysOf(<<>> \o l.journal)
  BY <1>1, ReadyKeys
<1>3. Full(p, <<>>)
  BY <1>1, <1>2, PostFull
<1>4. Books(l)
  BY <1>1 DEF Full
<1>5. p.keys = l.keys \cup {tx.key}
      /\ \A f \in Fields \ {"journal", "keys", "accounts", "positions"} : p[f] = l[f]
  BY <1>4, PostedAgrees
<1> QED BY <1>3, <1>5

-----------------------------------------------------------------------------
(* Corporate actions. *)

(* The ledger event of an action is one the contracts allow. *)
LEMMA AsEventIs ==
  ASSUME NEW a, IsAction(a), NEW at
  PROVE  IsEvent(AsEvent(a, at)) /\ AsEvent(a, at).kind = "action" /\ AsEvent(a, at).id = a.id
<1> DEFINE e == AsEvent(a, at)
<1>1. /\ e.id = a.id /\ e.kind = "action" /\ e.instrument = a.instrument
      /\ e.shares = 0 /\ e.eligible = 0 /\ e.reference = 0
      /\ e.cash = (IF a.kind = "split" THEN -1 ELSE a.cash)
      /\ e.ratio = (IF a.kind = "split" THEN a.ratio ELSE <<>>)
  BY DEF AsEvent
<1>2. a.instrument \in Instruments /\ a.cash \in Int /\ (a.kind = "split" => Ratio(a.ratio))
  BY DEF IsAction
<1> HIDE DEF e
<1>3. IsEvent(e)
  BY <1>1, <1>2 DEF IsEvent
<1> QED BY <1>1, <1>3 DEF e

(* Cash in lieu: whole postings. *)
LieuPostings(l, a) ==
  Together(<<Amount(Cash(a.currency), a.retired * a.cash),
             Amount(Cost(a.instrument), -Allocated(l, a.instrument, a.retired)),
             Amount(Income("income:realized_pnl", a.instrument),
                    Allocated(l, a.instrument, a.retired) - a.retired * a.cash),
             Shares(a.instrument, -a.retired)>>)

(* They are whole. *)
LEMMA LieuLegs ==
  ASSUME NEW l, Numbers(l), NEW a, IsAction(a), a.kind = "cash_in_lieu", LieuAccepted(l, a)
  PROVE  Legs(LieuPostings(l, a))
<1> DEFINE i     == a.instrument
           cost  == Allocated(l, i, a.retired)
           money == a.retired * a.cash
           parts == <<Amount(Cash(a.currency), money), Amount(Cost(i), -cost),
                      Amount(Income("income:realized_pnl", i), cost - money), Shares(i, -a.retired)>>
<1>1. LieuPostings(l, a) = Together(parts)
  BY DEF LieuPostings
<1>2. i \in Instruments /\ a.cash \in Int /\ a.retired \in Nat
  BY DEF IsAction
<1>3. cost \in Int
  <2>1. Held(l, i) \in Int /\ a.retired <= Held(l, i)
    BY <1>2 DEF Numbers, LieuAccepted
  <2>2. a.retired # 0 => Held(l, i) # 0
    BY <1>2, <2>1
  <2> QED BY <1>2, <2>2, AllocatedInt
<1>4. money \in Int
  BY <1>2
<1> HIDE DEF cost, money
<1>5. Legs(Amount(Cash(a.currency), money)) /\ Legs(Amount(Cost(i), -cost))
      /\ Legs(Amount(Income("income:realized_pnl", i), cost - money)) /\ Legs(Shares(i, -a.retired))
  BY <1>2, <1>3, <1>4, OneLeg
<1>6. LegSeq(parts)
  BY <1>5, LegSeqs
<1> HIDE DEF parts
<1> QED BY <1>1, <1>6, TogetherLegs

(* Conversions: whole postings. *)
LEMMA ConvertLegs ==
  ASSUME NEW l, Numbers(l), NEW a, IsAction(a), ~Simple(a), a.kind # "cash_in_lieu", ConvertAccepted(l, a)
  PROVE  Legs(ConvertPostings(l, a))
<1> DEFINE i      == a.instrument
           held   == Held(l, i)
           some   == Eligible(l, a)
           paid   == PaidOut(l, a)
           gone   == RemovedCost(l, a)
           target == MovedCost(l, a) - IF Exercise(a) THEN paid ELSE 0
           first  == <<Amount(Cash(a.currency), paid), Amount(Cost(i), -gone)>>
           parts  == <<Amount(Cash(a.currency), paid), Amount(Cost(i), -gone), Amount(Cost(a.target), target),
                       Amount(Income("income:realized_pnl", i), gone - target - paid),
                       Shares(i, -Removed(l, a)), Shares(a.target, Added(l, a))>>
<1>1. ConvertPostings(l, a) = Together(parts)
  BY DEF ConvertPostings
<1>2. /\ i \in Instruments /\ a.cash \in Int /\ a.election \in Nat
      /\ a.ratio[1] \in Nat \ {0} /\ a.ratio[2] \in Nat \ {0}
      /\ a.fraction[1] \in Nat \ {0} /\ a.fraction[2] \in Nat \ {0}
  BY DEF IsAction, Ratio
<1>3. held \in Int /\ held >= 0 /\ some \in Int /\ some <= held /\ some >= 0
  <2>1. held \in Int /\ held >= 0 /\ some <= held
    BY <1>2 DEF Numbers, ConvertAccepted
  <2>2. some = IF Exercise(a) THEN a.election ELSE held
    BY DEF Eligible
  <2> QED BY <1>2, <2>1, <2>2
<1>4. Balance(l, Cost(i)) \in Int
  BY DEF Numbers
<1>5. paid \in Int
  <2>1. some * a.cash \in Int
    BY <1>2, <1>3
  <2>2. paid = some * a.cash * IF Exercise(a) THEN -1 ELSE 1
    BY DEF PaidOut
  <2> HIDE DEF some, paid
  <2> QED BY <2>1, <2>2
<1>6. MovedCost(l, a) \in Int
  <2>1. CASE held = 0
    BY <2>1 DEF MovedCost
  <2>2. CASE held # 0 /\ Exercise(a)
    <3>1. Balance(l, Cost(i)) * some \in Int /\ held \in Nat \ {0}
      BY <1>3, <1>4, <2>2
    <3>2. MovedCost(l, a) = RoundDiv(Balance(l, Cost(i)) * some, held)
      BY <2>2 DEF MovedCost
    <3> QED BY <3>1, <3>2, RoundDivInt
  <2>3. CASE held # 0 /\ ~Exercise(a)
    <3>1. Balance(l, Cost(i)) * a.fraction[1] \in Int
      BY <1>2, <1>4
    <3>2. MovedCost(l, a) = RoundDiv(Balance(l, Cost(i)) * a.fraction[1], a.fraction[2])
      BY <2>3 DEF MovedCost
    <3> QED BY <1>2, <3>1, <3>2, RoundDivInt
  <2> QED BY <2>1, <2>2, <2>3
<1>7. gone \in Int
  <2>1. Allocated(l, i, some) \in Int
    <3>1. some # 0 => held # 0
      BY <1>3
    <3> QED BY <1>2, <1>3, <3>1, AllocatedInt
  <2> QED BY <1>6, <2>1 DEF RemovedCost
<1>8. Removed(l, a) \in Int /\ Added(l, a) \in Int
  <2>1. some * a.ratio[1] \in Int
    BY <1>2, <1>3
  <2>2. (some * a.ratio[1]) \div a.ratio[2] \in Int
    BY <1>2, <2>1
  <2> QED BY <1>3, <2>2 DEF Removed, Added
<1>9. target \in Int
  BY <1>5, <1>6
<1> HIDE DEF paid, gone, target
<1>10. /\ Legs(Amount(Cash(a.currency), paid)) /\ Legs(Amount(Cost(i), -gone))
       /\ Legs(Amount(Cost(a.target), target))
       /\ Legs(Amount(Income("income:realized_pnl", i), gone - target - paid))
       /\ Legs(Shares(i, -Removed(l, a))) /\ Legs(Shares(a.target, Added(l, a)))
  BY <1>5, <1>7, <1>8, <1>9, OneLeg
<1>11. LegSeq(parts)
  BY <1>10, LegSeqs
<1> HIDE DEF parts
<1> QED BY <1>1, <1>11, TogetherLegs

(* An action that posts a transaction of its own, or none, and is known    *)
(* afterwards.                                                             *)
LEMMA FinancialReady ==
  ASSUME NEW l, Ready(l), NEW id, id \notin DOMAIN l.seen, NEW tx, Legs(tx.postings),
         tx.key = <<"financial", id>>, NEW p, p = l \/ p = Posted(l, tx),
         NEW r, Books(r), r.journal = p.journal, r.keys = p.keys, r.accounts = p.accounts,
         r.positions = p.positions, r.entitled = p.entitled, r.dividends = p.dividends,
         r.records = p.records, \A i \in DOMAIN r.marks : r.marks[i] \in Int,
         NEW a, r.seen = Put(p.seen, id, a)
  PROVE  Ready(r)
<1>1. tx.key \notin l.keys
  BY UnseenUnposted DEF Ready
<1>2. /\ Full(p, <<>>) /\ p.keys \subseteq l.keys \cup {tx.key}
      /\ \A f \in Fields \ {"journal", "keys", "accounts", "positions"} : p[f] = l[f]
  <2>1. CASE p = l
    BY <2>1 DEF Ready
  <2>2. CASE p = Posted(l, tx)
    BY <1>1, <2>2, PostReady
  <2> QED BY <2>1, <2>2
<1>3. Priced(r)
  BY <1>2 DEF Full, Priced
<1>4. Full(r, <<>>)
  BY <1>2, <1>3, SameFull
<1>5. DOMAIN r.seen = DOMAIN l.seen \cup {id} /\ r.records = l.records
  BY <1>2 DEF Put, Fields
<1>6. Recalled(r)
  <2> SUFFICES ASSUME NEW k \in r.keys
               PROVE  /\ k[1] \in EventKinds \cup {"financial"} => k[2] \in DOMAIN r.seen
                      /\ k[1] = "dividend" => <<k[2], k[3]>> \in DOMAIN r.records
    BY DEF Recalled
  <2>1. CASE k \in l.keys
    BY <1>5, <2>1 DEF Ready, Recalled
  <2>2. CASE k = <<"financial", id>>
    <3>1. k[1] = "financial" /\ k[2] = id
      BY <2>2
    <3> QED BY <1>5, <3>1
  <2> QED BY <1>2, <2>1, <2>2
<1> QED BY <1>4, <1>6 DEF Ready

(* Cash in lieu leaves books that take bookings. *)
LEMMA LieuReady ==
  ASSUME NEW l, Ready(l), NEW a, IsAction(a), a.kind = "cash_in_lieu", NEW at, LieuAccepted(l, a),
         a.id \notin DOMAIN l.seen, NEW r, r = ActionBooked(l, a, at)
  PROVE  Ready(r) /\ r.closed = l.closed
<1> DEFINE i    == a.instrument
           tx   == [key |-> <<"financial", a.id>>, time |-> at, postings |-> LieuPostings(l, a)]
           p    == Posted(l, tx)
           lots == Put(p.lots, i, Without(Lots(l, i), Taken(Lots(l, i), a.retired)))
           marks == IF a.retired = Held(l, i) THEN Drop(p.marks, i) ELSE p.marks
           done == [p EXCEPT !.lots = lots, !.marks = marks, !.time = at]
<1>1. CashInLieu(l, a, at) = done
  BY DEF CashInLieu, LieuPostings
<1>2. r = [done EXCEPT !.seen = Put(@, a.id, a)]
  BY <1>1 DEF ActionBooked, Simple
<1>3. Books(l) /\ Priced(l) /\ Numbers(l)
  BY FullNumbers DEF Ready, Full
<1>4. Legs(LieuPostings(l, a))
  BY <1>3, LieuLegs
<1>5. Legs(tx.postings) /\ tx.key = <<"financial", a.id>>
  BY <1>4
<1> HIDE DEF tx
<1>6. Books(p) /\ \A f \in Fields \ {"journal", "keys", "accounts", "positions"} : p[f] = l[f]
  BY <1>3, PostedAgrees
<1>7. \A j \in DOMAIN marks : marks[j] \in Int
  BY <1>3, <1>6 DEF Priced, Drop, Fields
<1>8. Books(r)
  BY <1>3, ActionBooks
<1> HIDE DEF lots, marks
<1>9. p = Posted(l, tx)
  OBVIOUS
<1> HIDE DEF p
<1>10. /\ r.seen = Put(p.seen, a.id, a) /\ r.marks = marks
       /\ \A f \in Fields \ {"lots", "marks", "time", "seen"} : r[f] = p[f]
  BY <1>2, <1>6 DEF Books, Fields
<1>11. r.journal = p.journal /\ r.keys = p.keys /\ r.accounts = p.accounts
       /\ r.positions = p.positions /\ r.entitled = p.entitled /\ r.dividends = p.dividends
       /\ r.records = p.records /\ r.closed = p.closed /\ p.closed = l.closed
  BY <1>6, <1>10 DEF Fields
<1>12. \A j \in DOMAIN r.marks : r.marks[j] \in Int
  BY <1>7, <1>10
<1>13. Ready(r)
  <2>1. r.seen = Put(p.seen, a.id, a) /\ \A j \in DOMAIN r.marks : r.marks[j] \in Int
    BY <1>10, <1>12
  <2>2. p = l \/ p = Posted(l, tx)
    BY <1>9
  <2> QED BY <1>5, <1>8, <1>11, <2>1, <2>2, FinancialReady
<1> QED BY <1>11, <1>13

(* So does a conversion. *)
LEMMA ConvertedReady ==
  ASSUME NEW l, Ready(l), NEW a, IsAction(a), ~Simple(a), a.kind # "cash_in_lieu", NEW at,
         ConvertAccepted(l, a), a.id \notin DOMAIN l.seen, NEW r, r = ActionBooked(l, a, at)
  PROVE  Ready(r) /\ r.closed = l.closed
<1> DEFINE tx   == Conversion(l, a, at)
           p    == PostedIfAny(l, tx)
           lots == ConvertedLots(l, a, at)
           marks == ConvertedMarks(l, a)
           done == [p EXCEPT !.lots = lots, !.marks = marks, !.time = at]
<1>1. Converted(l, a, at) = done
  BY DEF Converted
<1>2. r = [done EXCEPT !.seen = Put(@, a.id, a)]
  BY <1>1 DEF ActionBooked
<1>3. Books(l) /\ Priced(l) /\ Numbers(l)
  BY FullNumbers DEF Ready, Full
<1>4. Legs(ConvertPostings(l, a))
  BY <1>3, ConvertLegs
<1>5. Legs(tx.postings) /\ tx.key = <<"financial", a.id>>
  BY <1>4 DEF Conversion
<1> HIDE DEF tx
<1>6. (p = l \/ p = Posted(l, tx)) /\ Books(p)
      /\ \A f \in Fields \ {"journal", "keys", "accounts", "positions"} : p[f] = l[f]
  BY <1>3, PostedAgrees DEF PostedIfAny
<1>7. \A j \in DOMAIN marks : marks[j] \in Int
  <2>1. a.parentMark \in Int /\ a.targetMark \in Int
    BY DEF IsAction
  <2>2. \A j \in DOMAIN l.marks : l.marks[j] \in Int
    BY <1>3 DEF Priced
  <2> DEFINE new == Put(l.marks, a.target, a.targetMark)
  <2>3. \A j \in DOMAIN new : new[j] \in Int
    BY <2>1, <2>2 DEF Put
  <2>4. marks = IF Distribution(a) THEN Put(new, a.instrument, a.parentMark)
                ELSE IF Held(l, a.instrument) = Removed(l, a) THEN Drop(new, a.instrument) ELSE new
    BY DEF ConvertedMarks
  <2> HIDE DEF new, marks
  <2> QED BY <2>1, <2>3, <2>4 DEF Put, Drop
<1>8. Books(r)
  BY <1>3, ActionBooks
<1> HIDE DEF lots, marks, p
<1>10. /\ r.seen = Put(p.seen, a.id, a) /\ r.marks = marks
       /\ \A f \in Fields \ {"lots", "marks", "time", "seen"} : r[f] = p[f]
  BY <1>2, <1>6 DEF Books, Fields
<1>11. r.journal = p.journal /\ r.keys = p.keys /\ r.accounts = p.accounts
       /\ r.positions = p.positions /\ r.entitled = p.entitled /\ r.dividends = p.dividends
       /\ r.records = p.records /\ r.closed = p.closed /\ p.closed = l.closed
  BY <1>6, <1>10 DEF Fields
<1>12. \A j \in DOMAIN r.marks : r.marks[j] \in Int
  BY <1>7, <1>10
<1>13. Ready(r)
  <2>1. r.seen = Put(p.seen, a.id, a) /\ \A j \in DOMAIN r.marks : r.marks[j] \in Int
    BY <1>10, <1>12
  <2>2. p = l \/ p = Posted(l, tx)
    BY <1>6
  <2> QED BY <1>5, <1>8, <1>11, <2>1, <2>2, FinancialReady
<1> QED BY <1>11, <1>13

(* apply_action books an action once, by whichever of its three ways. *)
LEMMA ActionReady ==
  ASSUME NEW l, Ready(l), NEW a, IsAction(a), NEW at, TermsAccepted(l, a, at),
         a.id \notin DOMAIN l.seen, NEW r, r = ActionBooked(l, a, at)
  PROVE  Ready(r) /\ r.closed = l.closed
<1>1. CASE Simple(a)
  <2> DEFINE e == AsEvent(a, at)
             b == Booked(l, e, at)
  <2>1. IsEvent(e) /\ e.kind = "action" /\ e.id = a.id
    BY AsEventIs
  <2>2. Accepted(l, e)
    BY <1>1 DEF TermsAccepted
  <2>3. r = [b EXCEPT !.seen = Put(@, a.id, a)]
    BY <1>1 DEF ActionBooked
  <2>4. b = Booked(l, e, at)
    OBVIOUS
  <2> HIDE DEF e, b
  <2>5. <<e.kind, e.id>> \notin l.keys
    BY <2>1, UnseenUnposted DEF Ready, EventKinds
  <2>6. Ready(b) /\ b.closed = l.closed
    BY <2>1, <2>2, <2>4, <2>5, BookedReady
  <2>7. Books(b) /\ Books(r)
    BY <2>6, ActionBooks DEF Ready, Full
  <2>8. /\ r.seen = Put(b.seen, a.id, a)
        /\ \A f \in Fields \ {"seen"} : r[f] = b[f]
    BY <2>3, <2>7 DEF Books, Fields
  <2>9. r.journal = b.journal /\ r.keys = b.keys /\ r.accounts = b.accounts
        /\ r.positions = b.positions /\ r.entitled = b.entitled /\ r.dividends = b.dividends
        /\ r.records = b.records /\ r.closed = b.closed /\ r.marks = b.marks
    BY <2>8 DEF Fields
  <2>10. DOMAIN b.seen \subseteq DOMAIN r.seen
    BY <2>8 DEF Put
  <2>11. Priced(r)
    BY <2>6, <2>9 DEF Ready, Full, Priced
  <2>12. Ready(r)
    BY <2>6, <2>7, <2>9, <2>10, <2>11, SameReady
  <2> QED BY <2>6, <2>9, <2>12
<1>2. CASE ~Simple(a) /\ a.kind = "cash_in_lieu"
  BY <1>2, LieuReady DEF TermsAccepted
<1>3. CASE ~Simple(a) /\ a.kind # "cash_in_lieu"
  BY <1>3, ConvertedReady DEF TermsAccepted
<1> QED BY <1>1, <1>2, <1>3

-----------------------------------------------------------------------------
(* Dividends. *)

(* The postings of each phase of a dividend's life. *)
LEMMA PhaseLegs ==
  ASSUME NEW l, Numbers(l), NEW d \in Lifecycles, NEW phase \in Phases, NEW cutoff,
         PhaseAccepted(l, d, phase, cutoff)
  PROVE  Legs(PhasePostings(l, d, phase))
<1>0. /\ d.quantity \in Int /\ d.amount \in Int /\ d.published \in Int
      /\ d.gross \in Int /\ d.withheld \in Int
  BY CatalogueAssumption
<1>1. Legs(<<>>)
  BY DEF Legs
<1>2. CASE phase = "ENTITLEMENT"
  <2> DEFINE gross == d.quantity * d.amount
             parts == <<Amount(OwedAccount(d, d.declared), gross),
                        Amount(<<"income:dividend", d.declared, <<"dividend", d.id>>>>, -gross)>>
  <2>1. PhasePostings(l, d, phase) = IF gross = 0 THEN <<>> ELSE Together(parts)
    BY <1>2 DEF PhasePostings, EntitlementPostings
  <2>2. gross \in Int
    BY <1>0
  <2> HIDE DEF gross
  <2>3. Legs(Amount(OwedAccount(d, d.declared), gross))
        /\ Legs(Amount(<<"income:dividend", d.declared, <<"dividend", d.id>>>>, -gross))
    BY <2>2, OneLeg
  <2>4. LegSeq(parts)
    BY <2>3, LegSeqs
  <2> HIDE DEF parts
  <2> QED BY <1>1, <2>1, <2>4, TogetherLegs
<1>3. CASE phase = "ISSUER_CONVERSION"
  <2> DEFINE state == l.dividends[d.id]
             new   == ConvertedGross(state, d)
             parts == <<Amount(OwedAccount(d, state.declared), -state.gross),
                        Amount(Clearing(d, state.declared), state.gross),
                        Amount(OwedAccount(d, d.elect), new), Amount(Clearing(d, d.elect), -new)>>
  <2>1. PhasePostings(l, d, phase)
          = IF d.elect = state.declared \/ (state.gross = 0 /\ new = 0) THEN <<>> ELSE Together(parts)
    BY <1>3 DEF PhasePostings, ConversionPostings
  <2>2. state.gross \in Int
    BY <1>3 DEF PhaseAccepted, Numbers, Priced
  <2>3. new \in Int
    BY <1>0, <2>2 DEF ConvertedGross
  <2> HIDE DEF state, new
  <2>4. /\ Legs(Amount(OwedAccount(d, state.declared), -state.gross))
        /\ Legs(Amount(Clearing(d, state.declared), state.gross))
        /\ Legs(Amount(OwedAccount(d, d.elect), new)) /\ Legs(Amount(Clearing(d, d.elect), -new))
    BY <2>2, <2>3, OneLeg
  <2>5. LegSeq(parts)
    BY <2>4, LegSeqs
  <2> HIDE DEF parts
  <2> QED BY <1>1, <2>1, <2>5, TogetherLegs
<1>4. CASE phase = "PAYMENT"
  <2> DEFINE parts == <<Amount(Cash(d.payIn), d.gross - d.withheld),
                        Amount(<<"expenses:dividend_withholding", d.payIn, <<"dividend", d.id>>>>, d.withheld),
                        Amount(OwedAccount(d, d.payIn), -d.gross)>>
  <2>1. PhasePostings(l, d, phase) = IF d.gross = 0 THEN <<>> ELSE Together(parts)
    BY <1>4 DEF PhasePostings, PaymentPostings
  <2>2. /\ Legs(Amount(Cash(d.payIn), d.gross - d.withheld))
        /\ Legs(Amount(<<"expenses:dividend_withholding", d.payIn, <<"dividend", d.id>>>>, d.withheld))
        /\ Legs(Amount(OwedAccount(d, d.payIn), -d.gross))
    BY <1>0, OneLeg
  <2>3. LegSeq(parts)
    BY <2>2, LegSeqs
  <2> HIDE DEF parts
  <2> QED BY <1>1, <2>1, <2>3, TogetherLegs
<1> QED BY <1>2, <1>3, <1>4 DEF Phases

(* The gross of a dividend stays whole through its phases. *)
LEMMA PhaseGross ==
  ASSUME NEW l, Priced(l), NEW d \in Lifecycles, NEW phase \in Phases, NEW cutoff,
         PhaseAccepted(l, d, phase, cutoff), NEW s, s = NextState(l, d, phase)
  PROVE  "gross" \in DOMAIN s /\ s.gross \in Int
<1>1. CASE phase = "ENTITLEMENT"
  <2>1. s = Entitled(d)
    BY <1>1 DEF NextState
  <2>2. d.quantity \in Int /\ d.amount \in Int
    BY CatalogueAssumption
  <2> QED BY <2>1, <2>2 DEF Entitled
<1>2. CASE phase # "ENTITLEMENT"
  <2> DEFINE state == l.dividends[d.id]
  <2>1. "gross" \in DOMAIN state /\ state.gross \in Int
    BY <1>2 DEF PhaseAccepted, Priced
  <2>2. s = Elected(state, d) \/ s = Settled(state)
    BY <1>2 DEF NextState, Phases
  <2> HIDE DEF state
  <2>3. DOMAIN s = DOMAIN state /\ s.gross = state.gross
    BY <2>1, <2>2 DEF Elected, Settled
  <2> QED BY <2>1, <2>3
<1> QED BY <1>1, <1>2

(* apply_dividend_lifecycle books a phase of a dividend once. *)
LEMMA PhaseReady ==
  ASSUME NEW l, Ready(l), NEW d \in Lifecycles, NEW phase \in Phases, NEW cutoff,
         PhaseAccepted(l, d, phase, cutoff), <<d.id, phase>> \notin DOMAIN l.records,
         NEW r, r = PhaseBooked(l, d, phase)
  PROVE  Ready(r) /\ r.closed = l.closed
<1> DEFINE tx == [key |-> <<"dividend", d.id, phase>>, time |-> AppliedAt(d, phase),
                  postings |-> PhasePostings(l, d, phase)]
           p  == IF PhasePostings(l, d, phase) = <<>> THEN l ELSE Posted(l, tx)
           record == [prefix |-> Prefix(d, phase), basis |-> Basis(d), applied |-> AppliedAt(d, phase)]
           state == NextState(l, d, phase)
<1>1. r = [p EXCEPT !.dividends = Put(@, d.id, state),
                    !.records = Put(@, <<d.id, phase>>, record), !.time = AppliedAt(d, phase)]
  BY DEF PhaseBooked
<1>2. Books(l) /\ Priced(l) /\ Numbers(l)
  BY FullNumbers DEF Ready, Full
<1>3. Legs(tx.postings) /\ tx.key = <<"dividend", d.id, phase>>
  BY <1>2, PhaseLegs
<1>4. "gross" \in DOMAIN state /\ state.gross \in Int
  BY <1>2, PhaseGross
<1>5. p = l \/ p = Posted(l, tx)
  OBVIOUS
<1> HIDE DEF tx, p, record, state
<1>6. tx.key \notin l.keys
  <2> DEFINE k == <<"dividend", d.id, phase>>
  <2>1. k[1] = "dividend" /\ k[2] = d.id /\ k[3] = phase
    OBVIOUS
  <2> HIDE DEF k
  <2>2. k \notin l.keys
    BY <2>1 DEF Ready, Recalled
  <2> QED BY <1>3, <2>2 DEF k
<1>7. /\ Full(p, <<>>) /\ p.keys \subseteq l.keys \cup {tx.key}
      /\ \A f \in Fields \ {"journal", "keys", "accounts", "positions"} : p[f] = l[f]
  <2>1. CASE p = l
    BY <2>1 DEF Ready
  <2>2. CASE p = Posted(l, tx)
    BY <1>3, <1>6, <2>2, PostReady
  <2> QED BY <1>5, <2>1, <2>2
<1>8. Books(p) /\ Books(r)
  BY <1>2, <1>7, PhaseBooks DEF Full
<1>9. /\ r.dividends = Put(p.dividends, d.id, state) /\ r.records = Put(p.records, <<d.id, phase>>, record)
      /\ \A f \in Fields \ {"dividends", "records", "time"} : r[f] = p[f]
  BY <1>1, <1>8 DEF Books, Fields
<1>10. /\ r.journal = p.journal /\ r.keys = p.keys /\ r.accounts = p.accounts /\ r.positions = p.positions
       /\ r.marks = l.marks /\ r.entitled = l.entitled /\ r.closed = l.closed /\ r.seen = l.seen
       /\ p.dividends = l.dividends /\ p.records = l.records
  BY <1>7, <1>9 DEF Fields
<1>11. Priced(r)
  <2>1. \A x \in DOMAIN r.dividends : "gross" \in DOMAIN r.dividends[x] /\ r.dividends[x].gross \in Int
    BY <1>2, <1>4, <1>9, <1>10 DEF Priced, Put
  <2> QED BY <1>2, <1>10, <2>1 DEF Priced
<1>12. Full(r, <<>>)
  BY <1>7, <1>8, <1>10, <1>11, SameFull
<1>13. DOMAIN r.records = DOMAIN l.records \cup {<<d.id, phase>>}
  BY <1>9, <1>10 DEF Put
<1>14. Recalled(r)
  <2> SUFFICES ASSUME NEW k \in r.keys
               PROVE  /\ k[1] \in EventKinds \cup {"financial"} => k[2] \in DOMAIN r.seen
                      /\ k[1] = "dividend" => <<k[2], k[3]>> \in DOMAIN r.records
    BY DEF Recalled
  <2>1. CASE k \in l.keys
    BY <1>10, <1>13, <2>1 DEF Ready, Recalled
  <2>2. CASE k = <<"dividend", d.id, phase>>
    <3>1. k[1] = "dividend" /\ k[2] = d.id /\ k[3] = phase
      BY <2>2
    <3> QED BY <1>13, <3>1 DEF EventKinds
  <2> QED BY <1>3, <1>7, <1>10, <2>1, <2>2
<1> QED BY <1>10, <1>12, <1>14 DEF Ready

-----------------------------------------------------------------------------
(* Marks, market facts and imports. *)

(* A map of whole numbers stays one. *)
LEMMA PutWhole ==
  ASSUME NEW f, \A x \in DOMAIN f : f[x] \in Int, NEW i, NEW v \in Int, NEW g, g = Put(f, i, v)
  PROVE  \A x \in DOMAIN g : g[x] \in Int
BY DEF Put

(* mark leaves books that agree with their journal. *)
Remarked(l, m) ==
  [l EXCEPT !.marks = Put(@, m.instrument, m.price), !.marked = Put(@, m.id, m), !.time = m.time]

(* They agree with the same journal. *)
LEMMA MarkedFull ==
  ASSUME NEW l, NEW out, Full(l, out), NEW m, m.price \in Int, NEW r, r = Remarked(l, m)
  PROVE  /\ Full(r, out) /\ r.journal = l.journal /\ r.keys = l.keys
         /\ r.seen = l.seen /\ r.records = l.records /\ r.closed = l.closed
<1>1. Books(l) /\ Priced(l)
  BY DEF Full
<1>2. Books(r)
  BY <1>1, MarkedBooks DEF Remarked
<1>3. /\ r.marks = Put(l.marks, m.instrument, m.price)
      /\ \A f \in Fields \ {"marks", "marked", "time"} : r[f] = l[f]
  BY <1>1 DEF Books, Fields, Remarked
<1>4. Priced(r)
  <2>1. \A i \in DOMAIN r.marks : r.marks[i] \in Int
    BY <1>1, <1>3, PutWhole DEF Priced
  <2>2. r.entitled = l.entitled /\ r.dividends = l.dividends
    BY <1>3 DEF Fields
  <2> QED BY <1>1, <2>1, <2>2 DEF Priced
<1>5. /\ r.journal = l.journal /\ r.keys = l.keys /\ r.accounts = l.accounts /\ r.positions = l.positions
      /\ r.seen = l.seen /\ r.records = l.records /\ r.closed = l.closed
  BY <1>3 DEF Fields
<1> QED BY <1>2, <1>4, <1>5, SameFull

(* The event of a market fact is one the contracts allow. *)
LEMMA MarketEvents ==
  ASSUME NEW l, Numbers(l), NEW f, f.instrument \in Instruments,
         f.kind = "funding_rate" => f.rate \in Int, HasEvent(l, f)
  PROVE  IsEvent(FromMarket(l, f))
<1> DEFINE e == FromMarket(l, f)
           i == f.instrument
<1>1. Held(l, i) \in Int /\ l.marks[i] \in Int /\ i \in DOMAIN l.marks
  BY DEF HasEvent, Numbers, Priced
<1>2. CASE f.kind = "funding_rate"
  <2>1. Held(l, i) * l.marks[i] \in Int
    BY <1>1
  <2>2. -(Held(l, i) * l.marks[i] * f.rate) \in Int
    BY <1>2, <2>1
  <2>3. e.kind = "funding" /\ e.instrument = i /\ e.amount = -(Held(l, i) * l.marks[i] * f.rate)
    BY <1>2 DEF FromMarket
  <2> HIDE DEF e
  <2>4. IsEvent(e)
    BY <2>2, <2>3 DEF IsEvent
  <2> QED BY <2>4 DEF e
<1>3. CASE f.kind # "funding_rate"
  <2>1. Balance(l, Cost(i)) \in Int /\ Notional(l, i) \in Int
    BY <1>1 DEF Numbers, Notional
  <2>2. Pnl(l, i) \in Int
    BY <2>1 DEF Pnl
  <2>3. e.kind = "settlement" /\ e.instrument = i /\ e.amount = Pnl(l, i) /\ e.price = l.marks[i]
    BY <1>3 DEF FromMarket
  <2> HIDE DEF e
  <2>4. IsEvent(e)
    BY <1>1, <2>2, <2>3 DEF IsEvent
  <2> QED BY <2>4 DEF e
<1> QED BY <1>2, <1>3

(* An import, which no event, action or dividend has the key of. *)
LEMMA ImportReady ==
  ASSUME NEW l, Ready(l), NEW tx, Legs(tx.postings), tx.key \notin l.keys,
         tx.key[1] \notin EventKinds \cup {"financial", "dividend"}, NEW p, p = Posted(l, tx),
         NEW r, Books(r), \A i \in DOMAIN r.marks : r.marks[i] \in Int,
         \A f \in Fields \ {"lots", "marks", "time"} : r[f] = p[f]
  PROVE  Ready(r) /\ r.closed = l.closed
<1>1. /\ Full(p, <<>>) /\ p.keys = l.keys \cup {tx.key}
      /\ \A f \in Fields \ {"journal", "keys", "accounts", "positions"} : p[f] = l[f]
  BY PostReady
<1>2. /\ r.journal = p.journal /\ r.keys = p.keys /\ r.accounts = p.accounts /\ r.positions = p.positions
      /\ r.entitled = p.entitled /\ r.dividends = p.dividends
      /\ r.seen = l.seen /\ r.records = l.records /\ r.closed = l.closed
  BY <1>1 DEF Fields
<1>3. Priced(r)
  BY <1>1, <1>2 DEF Full, Priced
<1>4. Full(r, <<>>)
  BY <1>1, <1>2, <1>3, SameFull
<1>5. Recalled(r)
  BY <1>1, <1>2 DEF Ready, Recalled
<1> QED BY <1>2, <1>4, <1>5 DEF Ready

(* book_external_cash and book_opening_position. *)
LEMMA ImportedReady ==
  ASSUME NEW x, Ready(ledger),
         \/ x \in Transfers /\ BookExternalCash(x)
         \/ x \in Openings /\ BookOpeningPosition(x)
  PROVE  \/ UNCHANGED ledger
         \/ Ready(ledger') /\ ledger'.closed = ledger.closed
<1>0. Books(ledger) /\ Priced(ledger)
  BY DEF Ready, Full
<1>1. CASE x \in Transfers /\ BookExternalCash(x)
  <2> DEFINE to == Amount(Cash(Base), x.amount)
             from == Amount(<<"equity:external_flows", Base, <<>>>>, -x.amount)
             parts == <<to, from>>
             tx == [key |-> <<"external", x.id>>, time |-> x.time, postings |-> Together(parts)]
             p == Posted(ledger, tx)
             done == [p EXCEPT !.time = x.time]
  <2>1. UNCHANGED ledger \/ (tx.key \notin ledger.keys /\ ledger' = done)
    BY <1>1 DEF BookExternalCash, Imported, Refuse
  <2>2. x.amount \in Int
    BY <1>1, CatalogueAssumption
  <2>3. Legs(to) /\ Legs(from)
    BY <2>2, OneLeg
  <2>4. Legs(tx.postings)
    <3> HIDE DEF to, from
    <3>1. LegSeq(parts)
      BY <2>3, LegSeqs
    <3>2. tx.postings = Together(parts)
      OBVIOUS
    <3> HIDE DEF parts, tx
    <3> QED BY <3>1, <3>2, TogetherLegs
  <2>5. tx.key[1] = "external"
    OBVIOUS
  <2> HIDE DEF tx
  <2>6. Books(done) /\ Books(p) /\ \A f \in Fields \ {"journal", "keys", "accounts", "positions"} : p[f] = ledger[f]
    BY <1>0, ImportedBooks, PostedAgrees
  <2>7. p = Posted(ledger, tx)
    OBVIOUS
  <2> HIDE DEF p
  <2>8. \A f \in Fields \ {"time"} : done[f] = p[f]
    BY <2>6 DEF Books, Fields
  <2> HIDE DEF done
  <2>9. \A i \in DOMAIN done.marks : done.marks[i] \in Int
    BY <1>0, <2>6, <2>8 DEF Priced, Fields
  <2>10. tx.key[1] \notin EventKinds \cup {"financial", "dividend"}
    BY <2>5 DEF EventKinds
  <2>11. \A f \in Fields \ {"lots", "marks", "time"} : done[f] = p[f]
    BY <2>8
  <2>12. tx.key \notin ledger.keys => Ready(done) /\ done.closed = ledger.closed
    BY <2>4, <2>6, <2>7, <2>9, <2>10, <2>11, ImportReady
  <2> QED BY <2>1, <2>12
<1>2. CASE x \in Openings /\ BookOpeningPosition(x)
  <2> DEFINE i == x.instrument
             one == Amount(Cost(i), x.quantity * x.price)
             two == Shares(i, x.quantity)
             three == Amount(<<"equity:opening", Currency[i], <<>>>>, -x.quantity * x.price)
             parts == <<one, two, three>>
             tx == [key |-> <<"opening-position", i>>, time |-> 0, postings |-> Together(parts)]
             lot == <<[day |-> x.day, quantity |-> x.quantity]>>
             p == Posted(ledger, tx)
             done == [p EXCEPT !.lots = Put(@, i, lot), !.marks = Put(@, i, x.price)]
  <2>1. UNCHANGED ledger \/ (tx.key \notin ledger.keys /\ ledger' = done)
    BY <1>2 DEF BookOpeningPosition, Imported, Refuse
  <2>2. x.quantity \in Int /\ x.price \in Int
    BY <1>2, CatalogueAssumption
  <2>3. Legs(one) /\ Legs(two) /\ Legs(three)
    <3>1. x.quantity * x.price \in Int /\ -x.quantity * x.price \in Int
      BY <2>2
    <3> QED BY <2>2, <3>1, OneLeg
  <2>4. Legs(tx.postings)
    <3> HIDE DEF one, two, three
    <3>1. LegSeq(parts)
      BY <2>3, LegSeqs
    <3>2. tx.postings = Together(parts)
      OBVIOUS
    <3> HIDE DEF parts, tx
    <3> QED BY <3>1, <3>2, TogetherLegs
  <2>5. tx.key[1] = "opening-position"
    OBVIOUS
  <2> HIDE DEF tx, lot
  <2>6. Books(done) /\ Books(p) /\ \A f \in Fields \ {"journal", "keys", "accounts", "positions"} : p[f] = ledger[f]
    BY <1>0, ImportedBooks, PostedAgrees
  <2>7. p = Posted(ledger, tx)
    OBVIOUS
  <2> HIDE DEF p
  <2>8. done.marks = Put(p.marks, i, x.price) /\ \A f \in Fields \ {"lots", "marks"} : done[f] = p[f]
    BY <2>6 DEF Books, Fields
  <2> HIDE DEF done
  <2>9. \A j \in DOMAIN done.marks : done.marks[j] \in Int
    BY <1>0, <2>2, <2>6, <2>8 DEF Priced, Fields, Put
  <2>10. tx.key[1] \notin EventKinds \cup {"financial", "dividend"}
    BY <2>5 DEF EventKinds
  <2>11. \A f \in Fields \ {"lots", "marks", "time"} : done[f] = p[f]
    BY <2>8
  <2>12. tx.key \notin ledger.keys => Ready(done) /\ done.closed = ledger.closed
    BY <2>4, <2>6, <2>7, <2>9, <2>10, <2>11, ImportReady
  <2> QED BY <2>1, <2>12
<1> QED BY <1>1, <1>2

-----------------------------------------------------------------------------
(* A new account. *)

(* A sum of which only one value is not zero. *)
LEMMA SumOfOne ==
  ASSUME NEW f, NEW S, Summable(f, S), NEW x \in S, \A y \in S \ {x} : f[y] = 0
  PROVE  SumFunctionOnSet(f, S) = f[x]
<1>1. SumFunctionOnSet(f, S) = f[x] + SumFunctionOnSet(f, S \ {x})
  BY SumSplit
<1>2. SumFunctionOnSet(f, S \ {x}) = 0
  <2>1. IsFiniteSet(S \ {x})
    BY FS_Subset DEF Summable
  <2> QED BY <2>1, SumZero
<1>3. f[x] \in Int
  BY DEF Summable
<1> QED BY <1>1, <1>2, <1>3

(* An opening transaction: whole, on two accounts of its currency, and on  *)
(* no position.                                                            *)
LEMMA OpeningLegs ==
  ASSUME NEW n \in DOMAIN InitialCash, NEW tx, tx = OpeningTransaction(n)
  PROVE  /\ Legs(tx.postings) /\ Moved(tx) = {}
         /\ tx.key = <<"opening", InitialCash[n].currency>>
         /\ \A k \in DOMAIN tx.postings :
              k[2] = InitialCash[n].currency /\ \A i \in Instruments : k # Position(i)
<1> DEFINE c == InitialCash[n].currency
           a == InitialCash[n].amount
           to == Amount(Cash(c), a)
           from == Amount(<<"equity:opening", c, <<>>>>, -a)
           parts == <<to, from>>
<1>1. tx.key = <<"opening", c>> /\ tx.postings = Together(parts)
  BY DEF OpeningTransaction
<1>2. a \in Int
  <2>1. InitialCash[n] \in [currency : STRING, amount : Nat \ {0}]
    BY LedgerAssumption, Elements
  <2> QED BY <2>1
<1>3. Legs(to) /\ Legs(from)
  BY <1>2, OneLeg
<1>4. DOMAIN to = {Cash(c)} /\ DOMAIN from = {<<"equity:opening", c, <<>>>>}
  BY DEF Amount
<1> HIDE DEF to, from, c
<1>5. Legs(Together(parts))
  <2>1. LegSeq(parts)
    BY <1>3, LegSeqs
  <2> HIDE DEF parts
  <2> QED BY <2>1, TogetherLegs
<1>6. DOMAIN Together(parts) = {Cash(c), <<"equity:opening", c, <<>>>>}
  <2>1. DOMAIN parts = {1, 2} /\ parts[1] = to /\ parts[2] = from
    OBVIOUS
  <2> HIDE DEF parts
  <2>2. UNION {DOMAIN parts[m] : m \in DOMAIN parts} = DOMAIN to \cup DOMAIN from
    BY <2>1
  <2>3. DOMAIN Together(parts) = UNION {DOMAIN parts[m] : m \in DOMAIN parts}
    BY DEF Together
  <2> QED BY <1>4, <2>2, <2>3
<1> HIDE DEF parts
<1>7. ASSUME NEW k \in DOMAIN tx.postings
      PROVE  k[2] = c /\ (k[1] = "assets:cash" \/ k[1] = "equity:opening")
  BY <1>1, <1>6, <1>7 DEF Cash
<1>8. \A i : Position(i)[1] = "assets:position"
  BY DEF Position
<1>9. \A k \in DOMAIN tx.postings : k[2] = c /\ \A i \in Instruments : k # Position(i)
  BY <1>7, <1>8
<1>10. Moved(tx) = {}
  BY <1>9 DEF Moved
<1> QED BY <1>1, <1>5, <1>9, <1>10 DEF c

(* The opening balances are what the opening transactions add up to. *)
LEMMA OpenedAddsUp ==
  ASSUME NEW rows, rows = Opened.journal
  PROVE  AddsUp(Opened.accounts, Opened.positions, rows) /\ Opened.keys = KeysOf(rows)
<1> DEFINE D == DOMAIN InitialCash
           cur(n) == InitialCash[n].currency
           a == Opened.accounts
           q == Opened.positions
<1>1. D = 1..Len(InitialCash) /\ Len(InitialCash) \in Nat
  BY LedgerAssumption, Elements
<1>2. DOMAIN rows = D /\ \A n \in D : rows[n] = OpeningTransaction(n)
  BY <1>1 DEF Opened
<1>3. rows \in Seq(Rows(rows))
  BY OpenedBooks DEF Books
<1>4. /\ DOMAIN a = UNION {DOMAIN OpeningTransaction(n).postings : n \in D}
      /\ \A k \in DOMAIN a :
           a[k] = OpeningTransaction(CHOOSE m \in D : cur(m) = k[2]).postings[k].amount
  BY DEF Opened
<1>5. DOMAIN q = {} /\ Opened.keys = {OpeningTransaction(n).key : n \in D}
  BY DEF Opened
<1>6. \A n \in D : /\ Legs(rows[n].postings) /\ Moved(rows[n]) = {}
                   /\ rows[n].key = <<"opening", cur(n)>>
                   /\ \A k \in DOMAIN rows[n].postings : k[2] = cur(n)
  BY <1>2, OpeningLegs
<1> HIDE DEF a, q
<1>7. Rowed(rows)
  BY <1>2, <1>3, <1>6 DEF Rowed
<1>8. \A n \in DOMAIN rows : DOMAIN rows[n].postings \subseteq DOMAIN a /\ Moved(rows[n]) \subseteq DOMAIN q
  <2> SUFFICES ASSUME NEW n \in D
               PROVE  DOMAIN rows[n].postings \subseteq DOMAIN a /\ Moved(rows[n]) \subseteq DOMAIN q
    BY <1>2
  <2>1. rows[n] = OpeningTransaction(n) /\ Moved(rows[n]) = {}
    BY <1>2, <1>6
  <2>2. DOMAIN OpeningTransaction(n).postings \subseteq DOMAIN a
    BY <1>4
  <2> QED BY <2>1, <2>2
<1>9. \A m, n \in D : cur(m) = cur(n) => m = n
  BY LedgerAssumption
<1>10. ASSUME NEW k \in DOMAIN a PROVE a[k] = Total(Amounts(rows, k))
  <2>1. PICK n \in D : k \in DOMAIN OpeningTransaction(n).postings
    BY <1>4
  <2>2. k[2] = cur(n)
    BY <1>2, <1>6, <2>1
  <2>3. (CHOOSE m \in D : cur(m) = k[2]) = n
    BY <1>9, <2>2
  <2>4. a[k] = rows[n].postings[k].amount
    BY <1>2, <1>4, <2>3
  <2> DEFINE f == Amounts(rows, k)
  <2>5. DOMAIN f = D /\ \A m \in D : f[m] = Entry(rows, k, m).amount
    BY <1>2 DEF Amounts
  <2> HIDE DEF f
  <2>6. \A m \in D \ {n} : f[m] = 0
    <3> SUFFICES ASSUME NEW m \in D \ {n} PROVE f[m] = 0
      OBVIOUS
    <3>1. k \notin DOMAIN rows[m].postings
      BY <1>6, <1>9, <2>2
    <3>2. Entry(rows, k, m) = Nothing
      BY <1>2, <1>7, <3>1, EntryType
    <3> QED BY <2>5, <3>2 DEF Nothing
  <2>7. Summable(f, D)
    <3>1. IsFiniteSet(D)
      BY <1>1, FS_Interval
    <3>2. \A m \in D : f[m] \in Int
      BY <1>2, <1>7, <2>5, EntryType
    <3> HIDE DEF D
    <3> QED BY <3>1, <3>2 DEF Summable
  <2>8. SumFunctionOnSet(f, D) = f[n]
    <3> HIDE DEF D
    <3> QED BY <2>6, <2>7, SumOfOne
  <2>9. f[n] = rows[n].postings[k].amount
    BY <1>2, <2>1, <2>5 DEF Entry, Lookup
  <2> QED BY <2>4, <2>5, <2>8, <2>9 DEF f, Total
<1>11. \A m, n \in DOMAIN rows : m # n => rows[m].key # rows[n].key
  <2> SUFFICES ASSUME NEW m \in D, NEW n \in D, m # n PROVE rows[m].key # rows[n].key
    BY <1>2
  <2>1. <<"opening", cur(m)>>[2] # <<"opening", cur(n)>>[2]
    BY <1>9
  <2> QED BY <1>6, <2>1
<1>12. Opened.keys = KeysOf(rows)
  BY <1>2, <1>5 DEF KeysOf
<1>13. AddsUp(a, q, rows)
  BY <1>5, <1>7, <1>8, <1>10, <1>11 DEF AddsUp
<1> QED BY <1>12, <1>13 DEF a, q

(* A new account is ready, and one that reset() has made ready to stream   *)
(* agrees with its opening rows in the sink.                               *)
LEMMA OpenedFull ==
  /\ Ready(Opened) /\ Opened.closed = FALSE
  /\ Full([Opened EXCEPT !.journal = <<>>], Opened.journal)
<1> DEFINE rows == Opened.journal
           r == [Opened EXCEPT !.journal = <<>>]
<1>1. AddsUp(Opened.accounts, Opened.positions, rows) /\ Opened.keys = KeysOf(rows)
  BY OpenedAddsUp
<1>2. Books(Opened) /\ Books(r) /\ rows \in Seq(Rows(rows))
  BY OpenedBooks DEF Books
<1>3. Priced(Opened)
  <2>1. DOMAIN Opened.marks = {} /\ DOMAIN Opened.entitled = {} /\ DOMAIN Opened.dividends = {}
    BY DEF Opened
  <2> QED BY <2>1 DEF Priced
<1>4. Opened.closed = FALSE /\ \A n \in DOMAIN rows : rows[n].key[1] = "opening"
  <2>1. Opened.closed = FALSE
    BY DEF Opened
  <2>2. DOMAIN rows = DOMAIN InitialCash /\ \A n \in DOMAIN InitialCash : rows[n] = OpeningTransaction(n)
    BY LedgerAssumption, Elements DEF Opened
  <2>3. \A n \in DOMAIN InitialCash : OpeningTransaction(n).key[1] = "opening"
    BY DEF OpeningTransaction
  <2> QED BY <2>1, <2>2, <2>3
<1>5. /\ r.journal = <<>> /\ r.keys = Opened.keys /\ r.accounts = Opened.accounts
      /\ r.positions = Opened.positions /\ r.marks = Opened.marks /\ r.entitled = Opened.entitled
      /\ r.dividends = Opened.dividends
  BY <1>2 DEF Books, Fields
<1>6. rows = <<>> => KeysOf(<<>>) = KeysOf(rows)
  OBVIOUS
<1>7. <<>> \o rows = rows /\ rows \o <<>> = rows
  BY <1>2, Joining
<1> HIDE DEF rows, r
<1>8. Full(Opened, <<>>)
  <2> DEFINE none == <<>>
  <2>1. none \in Seq(Rows(none)) /\ none \o Opened.journal = rows
    BY <1>7 DEF rows
  <2> HIDE DEF none
  <2>2. Full(Opened, none)
    BY <1>1, <1>2, <1>3, <2>1 DEF Full, rows
  <2> QED BY <2>2 DEF none
<1>9. Recalled(Opened)
  <2>1. \A k \in Opened.keys : k[1] = "opening"
    BY <1>1, <1>4 DEF KeysOf
  <2> QED BY <2>1 DEF Recalled, EventKinds
<1>10. Full(r, rows)
  <2>1. Priced(r)
    BY <1>3, <1>5 DEF Priced
  <2>2. rows \o r.journal = rows
    BY <1>5, <1>7
  <2>3. AddsUp(r.accounts, r.positions, rows \o r.journal)
    BY <1>1, <1>5, <2>2
  <2>4. rows = <<>> => r.keys = KeysOf(r.journal)
    BY <1>1, <1>5
  <2> QED BY <1>2, <2>1, <2>3, <2>4 DEF Full
<1> QED BY <1>4, <1>8, <1>9, <1>10 DEF Ready, rows, r

-----------------------------------------------------------------------------
(* The streaming replay. *)

(* A streamed event: its row is in the sink, and not in the journal. *)
LEMMA StreamedFull ==
  ASSUME NEW l, NEW out, Full(l, out), l.journal = <<>>, NEW e, IsEvent(e), Accepted(l, e), NEW day,
         \A n \in DOMAIN out : out[n].key # <<e.kind, e.id>>,
         NEW b, b = Booked(l, e, day), NEW r, r = Streamed(l, b, e)
  PROVE  Full(r, out \o b.journal) /\ r.journal = <<>>
<1> DEFINE rows == out \o b.journal
<1>1. out \in Seq(Rows(out)) /\ Books(l)
  BY DEF Full
<1>2. out \o l.journal = out
  <2>1. out \o <<>> = out
    BY <1>1, Joining
  <2> QED BY <2>1
<1>3. <<e.kind, e.id>> \notin KeysOf(out \o l.journal)
  <2>1. <<e.kind, e.id>> \notin KeysOf(out)
    BY DEF KeysOf
  <2> QED BY <1>2, <2>1
<1>4. Full(b, out)
  BY <1>3, BookedFull
<1>5. Books(b) /\ Priced(b) /\ AddsUp(b.accounts, b.positions, rows) /\ b.journal \in Seq(Rows(b.journal))
  BY <1>4 DEF Full, Books
<1>6. Books(r)
  BY <1>1, <1>5, StreamedBooks
<1>7. /\ r.journal = <<>> /\ r.keys = l.keys
      /\ r.accounts = b.accounts /\ r.positions = b.positions /\ r.marks = b.marks
      /\ r.entitled = b.entitled /\ r.dividends = b.dividends
  <2> DEFINE done   == {f \in DOMAIN b.fills : e.kind = "fee" /\ e.fill = f}
             seen   == IF e.kind \in {"fill", "fee"} THEN l.seen ELSE b.seen
             fills  == Restrict(b.fills, DOMAIN b.fills \ done)
             closes == Restrict(b.closes, {f \in DOMAIN b.closes :
                                 f \in done => Kind[b.fills[f]] = "derivative"})
  <2>1. r = [b EXCEPT !.journal = <<>>, !.keys = l.keys, !.seen = seen,
                      !.fills = fills, !.closes = closes]
    BY DEF Streamed
  <2> HIDE DEF done, seen, fills, closes
  <2> QED BY <1>5, <2>1 DEF Books, Fields
<1>8. Priced(r)
  BY <1>5, <1>7 DEF Priced
<1>9. rows \in Seq(Rows(rows)) /\ rows \o <<>> = rows
  <2>1. rows \in Seq(Rows(rows))
    BY <1>5 DEF AddsUp, Rowed
  <2> HIDE DEF rows
  <2> QED BY <2>1, Joining
<1>10. rows = <<>> => out = <<>>
  <2>1. Len(rows) = Len(out) + Len(b.journal) /\ Len(out) \in Nat /\ Len(b.journal) \in Nat
    <3> DEFINE R == Rows(out) \cup Rows(b.journal)
    <3>1. out \in Seq(R) /\ b.journal \in Seq(R)
      BY <1>1, <1>5
    <3> HIDE DEF R
    <3> QED BY <3>1
  <2>2. rows = <<>> => Len(rows) = 0
    OBVIOUS
  <2> HIDE DEF rows
  <2>3. rows = <<>> => Len(out) = 0
    BY <2>1, <2>2
  <2> QED BY <1>1, <2>3
<1> HIDE DEF rows
<1>11. AddsUp(r.accounts, r.positions, rows \o r.journal)
  BY <1>5, <1>7, <1>9
<1>12. rows = <<>> => r.keys = KeysOf(r.journal)
  BY <1>7, <1>10 DEF Full
<1>13. Full(r, rows)
  BY <1>6, <1>8, <1>9, <1>11, <1>12 DEF Full
<1> QED BY <1>7, <1>13 DEF rows

-----------------------------------------------------------------------------
(* The inductive invariant. *)

(* The books agree with their journal; unless they are closed, all of it   *)
(* is theirs and what it holds is known.                                   *)
Agrees(l, out) == Full(l, out) /\ (~l.closed => out = <<>> /\ Recalled(l))

Reconciled ==
  IF Replaying
  THEN Full(ledger, sunk) /\ ledger.journal = <<>> /\ Agrees(checkpoint.ledger, checkpoint.sunk)
  ELSE Agrees(ledger, sunk)

(* What is reconciled is what the run checks. *)
LEMMA ReconciledBooks ==
  Reconciled => BooksReconcile
<1> SUFFICES ASSUME Reconciled PROVE BooksReconcile
  OBVIOUS
<1>1. AddsUp(ledger.accounts, ledger.positions, Journal) /\ (sunk = <<>> => ledger.keys = KeysOf(ledger.journal))
  BY DEF Reconciled, Agrees, Full, Journal
<1> QED BY <1>1 DEF BooksReconcile, AddsUp, KeysOf

(* A call outside a replay that leaves the books, or books on open ones. *)
LEMMA CallReconciles ==
  ASSUME Reconciled, UNCHANGED <<sunk, checkpoint>>,
         \/ UNCHANGED ledger
         \/ ~Replaying /\ ~ledger.closed /\ Ready(ledger') /\ ledger'.closed = ledger.closed
  PROVE  Reconciled'
<1>1. CASE UNCHANGED ledger
  BY <1>1 DEF Reconciled, Replaying
<1>2. CASE ~Replaying /\ ~ledger.closed /\ Ready(ledger') /\ ledger'.closed = ledger.closed
  <2>1. sunk = <<>>
    BY <1>2 DEF Reconciled, Agrees
  <2>2. Full(ledger', sunk')
    BY <1>2, <2>1 DEF Ready
  <2> QED BY <1>2, <2>1, <2>2 DEF Reconciled, Agrees, Ready, Replaying
<1> QED BY <1>1, <1>2

(* Open books outside a replay take bookings. *)
LEMMA OpenIsReady ==
  ASSUME Reconciled, ~Replaying, ~ledger.closed
  PROVE  Ready(ledger)
BY DEF Reconciled, Agrees, Ready

(* apply: the event it books was not known. *)
LEMMA ApplyReconciles ==
  ASSUME NEW e, NEW day, NEW snap, Reconciled, IsEvent(e), Apply(e, day, snap)
  PROVE  /\ UNCHANGED <<sunk, checkpoint>> /\ ~Replaying
         /\ \/ UNCHANGED ledger
            \/ /\ ~ledger.closed /\ Ready(ledger') /\ ledger'.closed = ledger.closed
               /\ ledger'.keys \subseteq ledger.keys \cup {<<e.kind, e.id>>}
<1> DEFINE tx    == Translated(ledger, e)
           after == Booked(ledger, e, day)
<1>1. UNCHANGED <<sunk, checkpoint>> /\ ~Replaying
  BY DEF Apply
<1>2. UNCHANGED ledger
      \/ (~ledger.closed /\ e.id \notin DOMAIN ledger.seen /\ Accepted(ledger, e)
          /\ Finish(e, tx, after, snap))
  BY DEF Apply, Refuse
<1>3. CASE ~ledger.closed /\ e.id \notin DOMAIN ledger.seen /\ Accepted(ledger, e)
           /\ Finish(e, tx, after, snap)
  <2>1. Ready(ledger)
    BY <1>1, <1>3, OpenIsReady
  <2>2. after = BookedAs(ledger, e, day, tx) /\ after = Booked(ledger, e, day)
    BY DEF Booked
  <2> HIDE DEF tx, after
  <2>3. Rollback(after, e, tx, Undo(ledger, e, tx)) = ledger
    BY <2>1, <2>2, UndoRestores DEF Ready, Full
  <2>4. UNCHANGED ledger \/ ledger' = after
    BY <1>3, <2>3 DEF Finish
  <2>5. <<e.kind, e.id>> \notin ledger.keys
    <3>1. e.kind \in EventKinds \cup {"financial"}
      BY DEF IsEvent, EventKinds
    <3> QED BY <1>3, <2>1, <3>1, UnseenUnposted DEF Ready
  <2>6. Ready(after) /\ after.closed = ledger.closed /\ after.keys \subseteq ledger.keys \cup {<<e.kind, e.id>>}
    BY <1>3, <2>1, <2>2, <2>5, BookedReady
  <2> QED BY <1>1, <1>3, <2>4, <2>6
<1> QED BY <1>1, <1>2, <1>3

(* mark, in a replay or outside. *)
LEMMA MarkReconciles ==
  ASSUME NEW m, NEW snap, Reconciled, m.price \in Int, Mark(m, snap)
  PROVE  /\ Reconciled' /\ UNCHANGED <<sunk, checkpoint>>
         /\ ledger'.keys = ledger.keys /\ ledger'.closed = ledger.closed
<1> DEFINE marked == Remarked(ledger, m)
<1>1. UNCHANGED <<sunk, checkpoint>> /\ (UNCHANGED ledger \/ ledger' = marked)
  BY DEF Mark, Refuse, Remarked
<1>2. Full(ledger, sunk)
  BY DEF Reconciled, Agrees
<1>3. marked = Remarked(ledger, m)
  OBVIOUS
<1> HIDE DEF marked
<1>4. /\ Full(marked, sunk) /\ marked.journal = ledger.journal /\ marked.keys = ledger.keys
      /\ marked.seen = ledger.seen /\ marked.records = ledger.records /\ marked.closed = ledger.closed
  BY <1>2, <1>3, MarkedFull
<1>5. CASE UNCHANGED ledger
  BY <1>1, <1>5 DEF Reconciled, Replaying
<1>6. CASE ledger' = marked
  <2>1. Recalled(ledger) => Recalled(ledger')
    BY <1>4, <1>6 DEF Recalled
  <2> QED BY <1>1, <1>4, <1>6, <2>1 DEF Reconciled, Replaying, Agrees
<1> QED BY <1>1, <1>4, <1>5, <1>6

(* The steps of a replay. *)
LEMMA ReplayReconciles ==
  ASSUME Reconciled,
         \/ StartReplay \/ FinishReplay \/ FailReplay
         \/ \E e : IsEvent(e) /\ \E day : ReplayEvent(e, day)
  PROVE  Reconciled'
<1>1. CASE StartReplay
  <2>1. /\ ~Replaying /\ checkpoint' = [ledger |-> ledger, sunk |-> sunk, fx |-> fx]
        /\ ledger' = [Opened EXCEPT !.journal = <<>>] /\ sunk' = Opened.journal
    BY <1>1 DEF StartReplay
  <2>2. checkpoint'.ledger = ledger /\ checkpoint'.sunk = sunk /\ checkpoint' # <<>>
    BY <2>1
  <2>3. Full(ledger', sunk')
    BY <2>1, OpenedFull
  <2>4. ledger'.journal = <<>>
    BY <2>1, OpenedBooks DEF Books, Fields
  <2> QED BY <2>1, <2>2, <2>3, <2>4 DEF Reconciled, Replaying
<1>2. CASE FinishReplay
  <2> DEFINE r == [ledger EXCEPT !.closed = TRUE]
  <2>1. Replaying /\ ledger' = r /\ checkpoint' = <<>> /\ UNCHANGED sunk
    BY <1>2 DEF FinishReplay
  <2>2. Full(ledger, sunk) /\ Books(ledger) /\ Priced(ledger)
    BY <2>1 DEF Reconciled, Full
  <2>3. \A f \in Fields \ {"closed"} : r[f] = ledger[f]
    BY <2>2 DEF Books, Fields
  <2>4. r.closed = TRUE /\ DOMAIN r = Fields /\ IsFunction(r)
    BY <2>2 DEF Books, Fields, IsFunction
  <2> HIDE DEF r
  <2>5. Books(r)
    <3>1. r.journal \in Seq(Rows(r.journal)) /\ \A f \in UndoneFields : r[f] = ledger[f]
      BY <2>2, <2>3 DEF Books, Fields, UndoneFields
    <3> QED BY <2>2, <2>4, <3>1, StillBooks
  <2>6. /\ r.journal = ledger.journal /\ r.keys = ledger.keys /\ r.accounts = ledger.accounts
        /\ r.positions = ledger.positions /\ r.marks = ledger.marks
        /\ r.entitled = ledger.entitled /\ r.dividends = ledger.dividends
    BY <2>3 DEF Fields
  <2>7. Priced(r)
    BY <2>2, <2>6 DEF Priced
  <2>8. Full(r, sunk)
    BY <2>2, <2>5, <2>6, <2>7, SameFull
  <2> QED BY <2>1, <2>4, <2>8 DEF Reconciled, Agrees, Replaying
<1>3. CASE FailReplay
  BY <1>3 DEF FailReplay, Reconciled, Replaying
<1>4. ASSUME NEW e, IsEvent(e), NEW day, ReplayEvent(e, day)
      PROVE  Reconciled'
  <2> DEFINE b == Booked(ledger, e, day)
  <2>1. /\ Replaying /\ Accepted(ledger, e) /\ \A n \in 1..Len(sunk) : sunk[n].key # <<e.kind, e.id>>
        /\ ledger' = Streamed(ledger, b, e) /\ sunk' = sunk \o b.journal /\ UNCHANGED checkpoint
    BY <1>4 DEF ReplayEvent, Stream
  <2>2. Full(ledger, sunk) /\ ledger.journal = <<>> /\ sunk \in Seq(Rows(sunk))
    BY <2>1 DEF Reconciled, Full
  <2>3. DOMAIN sunk = 1..Len(sunk)
    BY <2>2, Elements
  <2>4. b = Booked(ledger, e, day)
    OBVIOUS
  <2> HIDE DEF b
  <2>5. \A n \in DOMAIN sunk : sunk[n].key # <<e.kind, e.id>>
    BY <2>1, <2>3
  <2>6. Full(Streamed(ledger, b, e), sunk \o b.journal) /\ Streamed(ledger, b, e).journal = <<>>
    BY <1>4, <2>1, <2>2, <2>4, <2>5, StreamedFull
  <2> QED BY <2>1, <2>6 DEF Reconciled, Replaying
<1> QED BY <1>1, <1>2, <1>3, <1>4

-----------------------------------------------------------------------------
(* The cash desks. *)

(* The greater of two whole numbers is one of them. *)
LEMMA MaxWhole ==
  \A a, b \in Int : Max({a, b}) \in Int
<1> SUFFICES ASSUME NEW a \in Int, NEW b \in Int PROVE Max({a, b}) \in Int
  OBVIOUS
<1>1. \E x \in {a, b} : \A y \in {a, b} : x >= y
  <2>1. a >= b \/ b >= a
    OBVIOUS
  <2>2. a >= a /\ b >= b
    OBVIOUS
  <2> QED BY <2>1, <2>2
<1>2. Max({a, b}) \in {a, b}
  BY <1>1 DEF Max
<1> QED BY <1>2

(* The fill and the fees of an order are events the contracts allow. *)
LEMMA OrderEventsAre ==
  ASSUME NEW o \in Orders, desk # "none"
  PROVE  /\ IsEvent(FillOf(o)) /\ FillOf(o).kind = "fill" /\ FillOf(o).id = o.id
         /\ \A n \in DOMAIN FeesOf(o) :
              /\ IsEvent(FeesOf(o)[n]) /\ FeesOf(o)[n].kind = "fee"
              /\ FeesOf(o)[n].id = o.id \o Charges(o)[n][1] /\ Charges(o)[n][1] \in FeeSuffixes
<1>1. o.instrument \in Instruments /\ o.side \in {"BUY", "SELL"}
      /\ o.quantity \in Nat \ {0} /\ o.price \in Nat \ {0}
  BY CatalogueAssumption
<1>2. Worth(o) \in Int
  BY <1>1 DEF Worth
<1>3. IsEvent(FillOf(o)) /\ FillOf(o).kind = "fill" /\ FillOf(o).id = o.id
  BY <1>1 DEF IsEvent, FillOf
<1> DEFINE commission == Max({MinFee, RoundDiv(Worth(o), FeePer)})
           stamp == (Worth(o) + StampPer - 1) \div StampPer
           fee == RoundDiv(Worth(o), FeePer)
<1>4. fee \in Int /\ commission \in Int /\ stamp \in Int
  <2>1. fee \in Int
    BY <1>2, DeskAssumption, RoundDivInt
  <2>2. MinFee \in Int
    BY DeskAssumption
  <2>3. commission \in Int
    BY <2>1, <2>2, MaxWhole
  <2>4. Worth(o) + StampPer - 1 \in Int /\ StampPer \in Nat \ {0}
    BY <1>2, DeskAssumption
  <2>5. stamp \in Int
    BY <2>4
  <2> QED BY <2>1, <2>3, <2>5
<1>5. Charges(o) = IF desk = "hk" THEN << <<"-commission", commission>>, <<"-stamp", stamp>> >>
                   ELSE << <<"-fee", fee>> >>
  BY DEF Charges
<1> HIDE DEF commission, stamp, fee
<1>6. \A n \in DOMAIN Charges(o) : Charges(o)[n][1] \in FeeSuffixes /\ Charges(o)[n][2] \in Int
  BY <1>4, <1>5 DEF FeeSuffixes
<1>7. ASSUME NEW n \in DOMAIN FeesOf(o)
      PROVE  /\ IsEvent(FeesOf(o)[n]) /\ FeesOf(o)[n].kind = "fee"
             /\ FeesOf(o)[n].id = o.id \o Charges(o)[n][1] /\ Charges(o)[n][1] \in FeeSuffixes
  <2> DEFINE e == FeesOf(o)[n]
  <2>1. n \in DOMAIN Charges(o)
    BY DEF FeesOf
  <2>2. e.kind = "fee" /\ e.id = o.id \o Charges(o)[n][1] /\ e.amount = Charges(o)[n][2]
    BY <2>1 DEF FeesOf
  <2> HIDE DEF e
  <2>3. IsEvent(e)
    BY <1>6, <2>1, <2>2 DEF IsEvent
  <2> QED BY <1>6, <2>1, <2>2, <2>3 DEF e
<1> QED BY <1>3, <1>7

(* A desk never replays, and the fills and fees its journal holds are of   *)
(* orders it executed.                                                     *)
FeeIds(x) == {x \o s : s \in FeeSuffixes}

OfOrders(k, orders) ==
  /\ k[1] = "fill" => k[2] \in orders
  /\ k[1] = "fee" => \E x \in orders : k[2] \in FeeIds(x)

DeskKept ==
  desk # "none" =>
    /\ ~Replaying /\ ~ledger.closed
    /\ DOMAIN executed \subseteq {o.id : o \in Orders}
    /\ \A k \in ledger.keys : OfOrders(k, DOMAIN executed)

(* The fees of two orders, and two fees of one order, have different ids.  *)
LEMMA FeeIdsDiffer ==
  \A o, p \in Orders, s, t \in FeeSuffixes : o.id \o s = p.id \o t => o.id = p.id /\ s = t
BY Zenon, CatalogueAssumption

(* An order that is executed leaves books that agree with their journal,   *)
(* with no rows but those of the order.                                    *)
LEMMA OrderReady ==
  ASSUME Ready(ledger), DeskKept, desk # "none", NEW o \in Orders, o.id \notin DOMAIN executed,
         BookAll(ledger, o).ok, NEW b, b = BookAll(ledger, o).books
  PROVE  /\ Ready(b) /\ b.closed = ledger.closed
         /\ \A k \in b.keys : OfOrders(k, DOMAIN executed \cup {o.id})
<1> DEFINE fill == FillOf(o)
           fees == FeesOf(o)
           b1 == Booked(ledger, fill, o.at)
           b2 == Booked(b1, fees[1], o.at)
           b3 == IF desk = "hk" THEN Booked(b2, fees[2], o.at) ELSE b2
           k0 == <<"fill", o.id>>
           k1 == <<"fee", fees[1].id>>
           k2 == <<"fee", fees[2].id>>
<1>1. /\ b = b3 /\ Accepted(ledger, fill) /\ Accepted(b1, fees[1])
      /\ (desk = "hk" => Accepted(b2, fees[2]))
  BY OrderBooked
<1>2. IsEvent(fill) /\ fill.kind = "fill" /\ fill.id = o.id
  BY OrderEventsAre
<1>3. ASSUME NEW n \in DOMAIN fees
      PROVE  /\ IsEvent(fees[n]) /\ fees[n].kind = "fee" /\ fees[n].id = o.id \o Charges(o)[n][1]
             /\ Charges(o)[n][1] \in FeeSuffixes
  BY OrderEventsAre
<1>4. 1 \in DOMAIN fees /\ (desk = "hk" => 2 \in DOMAIN fees)
  <2>1. (desk = "hk" => DOMAIN fees = 1..2) /\ (desk # "hk" => DOMAIN fees = 1..1)
    BY Zenon, OrderEvents
  <2> HIDE DEF fees
  <2> QED BY <2>1
<1>5. desk = "hk" => Charges(o)[1][1] # Charges(o)[2][1]
  BY DEF Charges
<1>6. b1 = Booked(ledger, fill, o.at) /\ b2 = Booked(b1, fees[1], o.at)
      /\ (desk = "hk" => b3 = Booked(b2, fees[2], o.at)) /\ (desk # "hk" => b3 = b2)
  OBVIOUS
<1> HIDE DEF fill, fees, b1, b2, b3
<1>7. \A s, t \in FeeSuffixes : o.id \o s = o.id \o t => s = t
  BY FeeIdsDiffer
<1>8. desk = "hk" => fees[1].id # fees[2].id
  <2> SUFFICES ASSUME desk = "hk", fees[1].id = fees[2].id PROVE FALSE
    OBVIOUS
  <2> DEFINE s == Charges(o)[1][1]
             t == Charges(o)[2][1]
  <2>1. fees[1].id = o.id \o s /\ s \in FeeSuffixes
    BY <1>3, <1>4
  <2>2. fees[2].id = o.id \o t /\ t \in FeeSuffixes
    BY <1>3, <1>4
  <2>3. s # t
    BY <1>5
  <2> HIDE DEF s, t
  <2> QED BY Zenon, <1>7, <2>1, <2>2, <2>3
<1>9. k0[1] = "fill" /\ k0[2] = o.id /\ k1[1] = "fee" /\ k1[2] = fees[1].id
      /\ k2[1] = "fee" /\ k2[2] = fees[2].id
  OBVIOUS
<1> HIDE DEF k0, k1, k2
<1>10. \A k \in ledger.keys : OfOrders(k, DOMAIN executed)
  BY DEF DeskKept
<1>11. k0 \notin ledger.keys
  BY <1>9, <1>10 DEF OfOrders
<1>12. ASSUME NEW k, k[1] = "fee", NEW s \in FeeSuffixes, k[2] = o.id \o s
       PROVE  k \notin ledger.keys
  <2> SUFFICES ASSUME k \in ledger.keys PROVE FALSE
    OBVIOUS
  <2>1. PICK x \in DOMAIN executed : k[2] \in FeeIds(x)
    BY <1>10, <1>12 DEF OfOrders
  <2>2. PICK p \in Orders : p.id = x
    BY DEF DeskKept
  <2>3. PICK t \in FeeSuffixes : k[2] = p.id \o t
    BY <2>1, <2>2 DEF FeeIds
  <2>4. o.id = p.id
    <3>1. p \in Orders /\ s \in FeeSuffixes /\ t \in FeeSuffixes
      BY <2>2, <2>3
    <3>2. o.id \o s = p.id \o t
      BY Zenon, <1>12, <2>3
    <3> QED BY Zenon, <3>1, <3>2, FeeIdsDiffer
  <2> QED BY <2>2, <2>4
<1>13. k1 \notin ledger.keys /\ (desk = "hk" => k2 \notin ledger.keys)
  BY <1>3, <1>4, <1>9, <1>12
<1>14. Ready(b1) /\ b1.closed = ledger.closed /\ b1.keys \subseteq ledger.keys \cup {k0}
  <2>1. <<fill.kind, fill.id>> = k0
    BY <1>2 DEF k0
  <2> QED BY <1>1, <1>2, <1>6, <1>11, <2>1, BookedReady
<1>15. k1 \notin b1.keys /\ (desk = "hk" => k2 \notin b1.keys)
  BY <1>9, <1>13, <1>14
<1>16. Ready(b2) /\ b2.closed = ledger.closed /\ b2.keys \subseteq ledger.keys \cup {k0, k1}
  <2>1. <<fees[1].kind, fees[1].id>> = k1 /\ IsEvent(fees[1])
    BY <1>3, <1>4 DEF k1
  <2>2. Ready(b2) /\ b2.closed = b1.closed /\ b2.keys \subseteq b1.keys \cup {k1}
    BY <1>1, <1>6, <1>14, <1>15, <2>1, BookedReady
  <2> QED BY <1>14, <2>2
<1>17. Ready(b3) /\ b3.closed = ledger.closed
       /\ (desk = "hk" => b3.keys \subseteq ledger.keys \cup {k0, k1, k2})
       /\ (desk # "hk" => b3.keys \subseteq ledger.keys \cup {k0, k1})
  <2>1. CASE desk = "hk"
    <3>1. <<fees[2].kind, fees[2].id>> = k2 /\ IsEvent(fees[2])
      BY <1>3, <1>4, <2>1 DEF k2
    <3>2. k2 \notin b2.keys
      BY <1>8, <1>9, <1>13, <1>16, <2>1
    <3>3. Ready(b3) /\ b3.closed = b2.closed /\ b3.keys \subseteq b2.keys \cup {k2}
      BY <1>1, <1>6, <1>16, <2>1, <3>1, <3>2, BookedReady
    <3> QED BY <1>16, <2>1, <3>3
  <2>2. CASE desk # "hk"
    BY <1>6, <1>16, <2>2
  <2> QED BY <2>1, <2>2
<1>18. /\ OfOrders(k0, {o.id}) /\ OfOrders(k1, {o.id})
       /\ desk = "hk" => OfOrders(k2, {o.id})
  <2>1. fees[1].id \in FeeIds(o.id) /\ (desk = "hk" => fees[2].id \in FeeIds(o.id))
    BY <1>3, <1>4 DEF FeeIds
  <2> QED BY <1>9, <2>1 DEF OfOrders
<1>19. ASSUME NEW k \in b3.keys
       PROVE  OfOrders(k, DOMAIN executed \cup {o.id})
  <2>1. CASE k \in ledger.keys
    BY <1>10, <2>1 DEF OfOrders
  <2>2. CASE k \in {k0, k1} \/ (desk = "hk" /\ k = k2)
    BY <1>18, <2>2 DEF OfOrders
  <2> QED BY <1>17, <2>1, <2>2
<1> QED BY <1>1, <1>17, <1>19

(* An order of a desk: executed, refused or sent again. *)
LEMMA ExecuteReconciles ==
  ASSUME Reconciled, DeskKept, desk # "none", NEW o \in Orders, UNCHANGED <<sunk, checkpoint>>,
         \/ Refuse /\ UNCHANGED deskVars
         \/ Again(o)
         \/ o.id \notin DOMAIN executed /\ \E due : Execute(o, due)
  PROVE  Reconciled' /\ DeskKept'
<1>1. CASE UNCHANGED ledger /\ UNCHANGED deskVars
  <2>1. Reconciled'
    BY <1>1, CallReconciles
  <2> QED BY <1>1, <2>1 DEF DeskKept, deskVars, Replaying
<1>2. CASE ~(UNCHANGED ledger /\ UNCHANGED deskVars)
  <2> DEFINE all == BookAll(ledger, o)
             b == all.books
  <2>1. /\ o.id \notin DOMAIN executed /\ all.ok /\ ledger' = b
        /\ executed' = Put(executed, o.id, o) /\ UNCHANGED desk
    BY <1>2 DEF Refuse, Again, Execute, Executed
  <2>2. ~Replaying /\ ~ledger.closed
    BY DEF DeskKept
  <2>3. Ready(ledger)
    BY <2>2, OpenIsReady
  <2>4. b = BookAll(ledger, o).books /\ BookAll(ledger, o).ok
    BY <2>1
  <2> HIDE DEF b, all
  <2>5. /\ Ready(b) /\ b.closed = ledger.closed
        /\ \A k \in b.keys : OfOrders(k, DOMAIN executed \cup {o.id})
    BY <2>1, <2>3, <2>4, OrderReady
  <2>6. Reconciled'
    BY <2>1, <2>2, <2>5, CallReconciles
  <2>7. DOMAIN executed' = DOMAIN executed \cup {o.id}
    BY <2>1 DEF Put
  <2>8. DeskKept'
    BY <2>1, <2>2, <2>5, <2>7 DEF DeskKept, Replaying
  <2> QED BY <2>6, <2>8
<1> QED BY <1>1, <1>2

(* Every step of a cash desk. *)
LEMMA DeskReconciles ==
  ASSUME Reconciled, DeskKept, TradeHK \/ SettleDay \/ TradeCash \/ ActDesk \/ PriceDesk
  PROVE  Reconciled' /\ DeskKept'
<1>1. CASE TradeHK
  <2>1. PICK o \in Orders : ExecuteHK(o)
    BY <1>1 DEF TradeHK
  <2>2. desk # "none" /\ UNCHANGED <<sunk, checkpoint>>
    BY <2>1 DEF ExecuteHK
  <2>3. \/ Refuse /\ UNCHANGED deskVars
        \/ Again(o)
        \/ o.id \notin DOMAIN executed /\ Execute(o, SettlementDate(o.at))
    BY <2>1 DEF ExecuteHK
  <2> QED BY <2>2, <2>3, ExecuteReconciles
<1>2. CASE SettleDay
  <2>1. UNCHANGED <<sunk, checkpoint, ledger, desk, executed>>
    BY <1>2 DEF SettleDay, SettleEndOfDay
  <2>2. Reconciled'
    BY <2>1, CallReconciles
  <2> QED BY <2>1, <2>2 DEF DeskKept, Replaying
<1>3. CASE TradeCash
  <2>1. PICK o \in Orders : TradeUS(o)
    BY <1>3 DEF TradeCash
  <2>2. desk # "none" /\ UNCHANGED <<sunk, checkpoint>>
    BY <2>1 DEF TradeUS
  <2>3. \/ Refuse /\ UNCHANGED deskVars
        \/ Again(o)
        \/ o.id \notin DOMAIN executed /\ Execute(o, o.at)
    BY <2>1 DEF TradeUS
  <2> QED BY <2>2, <2>3, ExecuteReconciles
<1>4. CASE ActDesk
  <2>1. PICK e \in Events : ActionUS(e)
    BY <1>4 DEF ActDesk
  <2>2. IsEvent(e) /\ e.kind = "action" /\ desk # "none" /\ UNCHANGED deskVars
    BY <2>1, CatalogueAssumption DEF ActionUS
  <2>3. CASE Apply(e, e.time, TRUE)
    <3> DEFINE k0 == <<e.kind, e.id>>
    <3>1. /\ UNCHANGED <<sunk, checkpoint>> /\ ~Replaying
          /\ \/ UNCHANGED ledger
             \/ /\ ~ledger.closed /\ Ready(ledger') /\ ledger'.closed = ledger.closed
                /\ ledger'.keys \subseteq ledger.keys \cup {k0}
      BY <2>2, <2>3, ApplyReconciles
    <3>2. Reconciled'
      BY <3>1, CallReconciles
    <3>3. k0[1] = "action"
      BY <2>2
    <3> HIDE DEF k0
    <3>4. OfOrders(k0, DOMAIN executed)
      BY <3>3 DEF OfOrders
    <3>5. DeskKept'
      BY <2>2, <3>1, <3>4 DEF DeskKept, Replaying, deskVars
    <3> QED BY <3>2, <3>5
  <2>4. CASE UNCHANGED <<ledger, sunk, checkpoint>>
    <3>1. Reconciled'
      BY <2>4, CallReconciles
    <3> QED BY <2>2, <2>4, <3>1 DEF DeskKept, Replaying, deskVars
  <2> QED BY <2>1, <2>3, <2>4 DEF ActionUS, Refuse
<1>5. CASE PriceDesk
  <2>1. PICK m \in MarkEvents : MarkDesk(m)
    BY <1>5 DEF PriceDesk
  <2>2. m.price \in Int /\ desk # "none" /\ UNCHANGED deskVars
    BY <2>1, CatalogueAssumption DEF MarkDesk
  <2>3. CASE Mark(m, TRUE)
    <3> DEFINE yes == TRUE
    <3>1. Mark(m, yes)
      BY <2>3
    <3> HIDE DEF yes
    <3>2. /\ Reconciled' /\ UNCHANGED <<sunk, checkpoint>>
          /\ ledger'.keys = ledger.keys /\ ledger'.closed = ledger.closed
      BY <2>2, <3>1, MarkReconciles
    <3> QED BY <2>2, <3>2 DEF DeskKept, Replaying, deskVars
  <2>4. CASE UNCHANGED <<ledger, sunk, checkpoint>>
    <3>1. Reconciled'
      BY <2>4, CallReconciles
    <3> QED BY <2>2, <2>4, <3>1 DEF DeskKept, Replaying, deskVars
  <2> QED BY <2>1, <2>3, <2>4 DEF MarkDesk, Refuse
<1> QED BY <1>1, <1>2, <1>3, <1>4, <1>5

(* Every step of a ledger that no desk trades on. *)
LEMMA AloneReconciles ==
  ASSUME Reconciled,
         ApplyEvent \/ ApplyFact \/ MarkPrice \/ SetRate \/ Transfer \/ Import \/ Act \/ Dividend
         \/ BeginReplay \/ ReplayOne \/ EndReplay
  PROVE  Reconciled'
<1>1. ASSUME NEW e, IsEvent(e), NEW day, NEW snap, Apply(e, day, snap)
      PROVE  Reconciled'
  <2>1. /\ UNCHANGED <<sunk, checkpoint>> /\ ~Replaying
        /\ \/ UNCHANGED ledger
           \/ ~ledger.closed /\ Ready(ledger') /\ ledger'.closed = ledger.closed
    BY <1>1, ApplyReconciles
  <2> QED BY <2>1, CallReconciles
<1>2. ASSUME NEW f \in Due(MarketFacts), HasEvent(ledger, f)
      PROVE  IsEvent(FromMarket(ledger, f))
  <2>1. f.instrument \in Instruments /\ (f.kind = "funding_rate" => f.rate \in Int)
    BY <1>2, CatalogueAssumption DEF Due
  <2>2. Numbers(ledger)
    BY FullNumbers DEF Reconciled, Agrees
  <2> QED BY <1>2, <2>1, <2>2, MarketEvents
<1>3. CASE ApplyEvent
  <2>1. PICK e \in Due(Events) : \E snap \in BOOLEAN : \E day \in e.on : Apply(e, day, snap)
    BY <1>3 DEF ApplyEvent
  <2>2. IsEvent(e)
    BY CatalogueAssumption DEF Due
  <2> QED BY <1>1, <2>1, <2>2
<1>4. CASE ApplyFact
  <2>1. PICK f \in Due(MarketFacts), snap \in BOOLEAN :
          HasEvent(ledger, f) /\ Apply(FromMarket(ledger, f), f.time, snap)
    BY <1>4 DEF ApplyFact
  <2>2. IsEvent(FromMarket(ledger, f))
    BY <1>2, <2>1
  <2> QED BY <1>1, <2>1, <2>2
<1>5. CASE MarkPrice
  <2>1. PICK m \in Due(MarkEvents), snap \in BOOLEAN : Mark(m, snap)
    BY <1>5 DEF MarkPrice
  <2>2. m.price \in Int
    BY CatalogueAssumption DEF Due
  <2> QED BY <2>1, <2>2, MarkReconciles
<1>6. CASE SetRate
  <2>1. UNCHANGED <<ledger, sunk, checkpoint>>
    BY <1>6 DEF SetRate, ObserveRate
  <2> QED BY <2>1, CallReconciles
<1>7. CASE Transfer \/ Import
  <2>1. PICK x : \/ x \in Transfers /\ BookExternalCash(x)
                 \/ x \in Openings /\ BookOpeningPosition(x)
    BY <1>7 DEF Transfer, Import, Due
  <2>2. ~Replaying /\ UNCHANGED <<sunk, checkpoint>> /\ (ledger.closed => UNCHANGED ledger)
    BY <2>1 DEF BookExternalCash, BookOpeningPosition, Refuse
  <2>3. CASE ledger.closed
    BY <2>2, <2>3, CallReconciles
  <2>4. CASE ~ledger.closed
    <3>1. Ready(ledger)
      BY <2>2, <2>4, OpenIsReady
    <3>2. UNCHANGED ledger \/ (Ready(ledger') /\ ledger'.closed = ledger.closed)
      BY <2>1, <3>1, ImportedReady
    <3> QED BY <2>2, <2>4, <3>2, CallReconciles
  <2> QED BY <2>3, <2>4
<1>8. CASE Act
  <2>1. PICK a \in Due(Actions), at \in Times : ApplyAction(a, at)
    BY <1>8 DEF Act
  <2> DEFINE r == ActionBooked(ledger, a, at)
  <2>2. /\ ~Replaying /\ UNCHANGED <<sunk, checkpoint>>
        /\ \/ UNCHANGED ledger
           \/ /\ ~ledger.closed /\ a.id \notin DOMAIN ledger.seen /\ TermsAccepted(ledger, a, at)
              /\ ledger' = r
    BY <2>1 DEF ApplyAction, Commit, Refuse
  <2>3. IsAction(a) /\ r = ActionBooked(ledger, a, at)
    BY CatalogueAssumption DEF Due
  <2> HIDE DEF r
  <2>4. CASE ~ledger.closed /\ a.id \notin DOMAIN ledger.seen /\ TermsAccepted(ledger, a, at)
             /\ ledger' = r
    <3>1. Ready(ledger)
      BY <2>2, <2>4, OpenIsReady
    <3>2. Ready(r) /\ r.closed = ledger.closed
      BY <2>3, <2>4, <3>1, ActionReady
    <3> QED BY <2>2, <2>4, <3>2, CallReconciles
  <2> QED BY <2>2, <2>4, CallReconciles
<1>9. CASE Dividend
  <2>1. PICK d \in Due(Lifecycles), phase \in Phases, cutoff \in Times : ApplyDividend(d, phase, cutoff)
    BY <1>9 DEF Dividend
  <2> DEFINE r == PhaseBooked(ledger, d, phase)
  <2>2. /\ ~Replaying /\ UNCHANGED <<sunk, checkpoint>>
        /\ \/ UNCHANGED ledger
           \/ /\ ~ledger.closed /\ <<d.id, phase>> \notin DOMAIN ledger.records
              /\ PhaseAccepted(ledger, d, phase, cutoff) /\ ledger' = r
    BY <2>1 DEF ApplyDividend, Refuse
  <2>3. d \in Lifecycles /\ r = PhaseBooked(ledger, d, phase)
    BY DEF Due
  <2> HIDE DEF r
  <2>4. CASE ~ledger.closed /\ <<d.id, phase>> \notin DOMAIN ledger.records
             /\ PhaseAccepted(ledger, d, phase, cutoff) /\ ledger' = r
    <3>1. Ready(ledger)
      BY <2>2, <2>4, OpenIsReady
    <3>2. Ready(r) /\ r.closed = ledger.closed
      BY <2>3, <2>4, <3>1, PhaseReady
    <3> QED BY <2>2, <2>4, <3>2, CallReconciles
  <2> QED BY <2>2, <2>4, CallReconciles
<1>10. CASE BeginReplay \/ EndReplay
  BY <1>10, ReplayReconciles DEF BeginReplay, EndReplay
<1>11. CASE ReplayOne
  <2>1. CASE \E e \in Due(Events) : ReplayEvent(e, e.time)
    <3>1. PICK e \in Due(Events) : ReplayEvent(e, e.time)
      BY <2>1
    <3>2. IsEvent(e)
      BY CatalogueAssumption DEF Due
    <3> QED BY <3>1, <3>2, ReplayReconciles
  <2>2. CASE \E f \in Due(MarketFacts) : HasEvent(ledger, f) /\ ReplayEvent(FromMarket(ledger, f), f.time)
    <3>1. PICK f \in Due(MarketFacts) : HasEvent(ledger, f) /\ ReplayEvent(FromMarket(ledger, f), f.time)
      BY <2>2
    <3>2. IsEvent(FromMarket(ledger, f))
      BY <1>2, <3>1
    <3> QED BY <3>1, <3>2, ReplayReconciles
  <2> QED BY <1>11, <2>1, <2>2 DEF ReplayOne
<1> QED BY <1>3, <1>4, <1>5, <1>6, <1>7, <1>8, <1>9, <1>10, <1>11

(* The books are what their journal adds up to, for every catalogue, on    *)
(* every desk, in and out of a replay.                                     *)
THEOREM BooksAlwaysReconcile ==
  Spec => []BooksReconcile
<1>1. AccountInit => Reconciled /\ DeskKept
  <2> SUFFICES ASSUME AccountInit PROVE Reconciled /\ DeskKept
    OBVIOUS
  <2>1. ledger = Opened /\ sunk = <<>> /\ checkpoint = <<>> /\ executed = [o \in {} |-> 0]
    BY DEF AccountInit, Init, DeskInit
  <2>2. Reconciled
    BY <2>1, OpenedFull DEF Reconciled, Agrees, Ready, Replaying
  <2>3. \A k \in Opened.keys : k[1] = "opening"
    BY DEF Opened, OpeningTransaction
  <2>4. DeskKept
    BY <2>1, <2>3, OpenedFull DEF DeskKept, Replaying, OfOrders
  <2> QED BY <2>2, <2>4
<1>2. ASSUME Reconciled, DeskKept, [Next]_AllVars
      PROVE  Reconciled' /\ DeskKept'
  <2>1. CASE ApplyEvent \/ ApplyFact \/ MarkPrice \/ SetRate \/ Transfer \/ Import \/ Act \/ Dividend
             \/ BeginReplay \/ ReplayOne \/ EndReplay
    <3>1. desk = "none" /\ desk' = desk
      BY <2>1 DEF ApplyEvent, ApplyFact, MarkPrice, SetRate, Transfer, Import, Act, Dividend,
                  BeginReplay, ReplayOne, EndReplay, Alone, deskVars
    <3>2. Reconciled'
      BY <1>2, <2>1, AloneReconciles
    <3> QED BY <3>1, <3>2 DEF DeskKept
  <2>2. CASE TradeHK \/ SettleDay \/ TradeCash \/ ActDesk \/ PriceDesk
    BY <1>2, <2>2, DeskReconciles
  <2>3. CASE UNCHANGED AllVars
    BY <1>2, <2>3 DEF AllVars, vars, deskVars, Reconciled, DeskKept, Replaying
  <2> QED BY <1>2, <2>1, <2>2, <2>3 DEF Next
<1> QED BY <1>1, <1>2, ReconciledBooks, PTL DEF Spec

=============================================================================
