------------------------------ MODULE L2Queue ------------------------------
(***************************************************************************)
(* L2MatchingModel (matching.py) on one instrument: the vendor's book, the *)
(* overlay from which simulated takers consume, and the position of every  *)
(* resting order in the queue of its price.  A match computes its result   *)
(* on a copy (_stage_match) and takes it over at the end (Commit); a match *)
(* that raises (a gap in the sequence, the deletion of a level that is not *)
(* there, a delta before any snapshot) throws the copy away and is a       *)
(* stuttering step.                                                        *)
(*                                                                         *)
(* Around it: the broker's open orders, which fill by what a match returns *)
(* and leave when filled, cancelled, expired or refused, and IOC and FOK   *)
(* orders, which the engine expires after the first event they could meet. *)
(* A level is absent when its quantity is 0; all quantities and prices     *)
(* have one scale.                                                         *)
(***************************************************************************)
EXTENDS Integers, FiniteSets, SequencesExt

CONSTANTS
  Keys,       \* order identifiers, ordered like the digests they stand for
  Intents,    \* what a strategy may order: side, type, tif, limit, stop, quantity
  Prices,     \* the price grid
  Snapshots,  \* the books a vendor's snapshot may hold
  Sizes,      \* quantities of deltas and trades
  Latency,    \* how long an order travels before a match sees it
  MaxEvents   \* bound on market events

ASSUME L2Assumption ==
  /\ Keys \subseteq Nat \ {0} /\ Prices \subseteq Nat \ {0} /\ Sizes \subseteq Nat \ {0}
  /\ Latency \in Nat /\ MaxEvents \in Nat
  /\ IsFiniteSet(Prices)
  /\ Snapshots \subseteq [{"BUY", "SELL"} -> [Prices -> Nat]]
  /\ \A i \in Intents :
       /\ i.quantity \in Nat \ {0} /\ i.side \in {"BUY", "SELL"}
       /\ i.type \in {"LIMIT", "STOP_LIMIT"} => i.limit \in Prices

VARIABLES
  used,       \* keys that name an order
  orders,     \* the broker's open orders, by key
  now,        \* time of the last event
  count,      \* how many events there were
  known,      \* TRUE once a snapshot gave the instrument a book
  book,       \* _books: the vendor's quantity, by side and price
  overlay,    \* _liquidity_books: what simulated takers left of it
  queue,      \* _queue_ahead, _queue_keys, _queue_priority, _queue_remaining, by order key
  stopAt,     \* _stop_triggered_at (its keys are _triggered_stops)
  displayed,  \* history: volume the vendor displayed since the snapshot and nobody took
  last        \* history: the last event, its volume and what makers got of it

modelVars == <<known, book, overlay, queue, stopAt>>
vars == <<used, orders, now, count, known, book, overlay, queue, stopAt, displayed, last>>

Sides       == {"BUY", "SELL"}
Aggressors  == Sides \cup {"UNKNOWN"}
Other(side) == IF side = "BUY" THEN "SELL" ELSE "BUY"
Empty       == [s \in Sides |-> [p \in Prices |-> 0]]
Nobody      == [k \in {} |-> 0]
Monus(a, b) == IF a > b THEN a - b ELSE 0
Least(a, b) == IF a < b THEN a ELSE b
Put(f, S, v) == [x \in DOMAIN f \cup S |-> IF x \in S THEN v ELSE f[x]]

-----------------------------------------------------------------------------
(* The matching state a match works on: _stage_match copies the variables. *)
Staged == [known |-> known, book |-> book, overlay |-> overlay, queue |-> queue, stopAt |-> stopAt]

Remaining(k)   == orders[k].intent.quantity - orders[k].filled
Immediate(i)   == i.tif \in {"IOC", "FOK"}
IsStop(i)      == i.type \in {"STOP", "STOP_LIMIT"}
HasLimit(i)    == i.type \in {"LIMIT", "STOP_LIMIT"}
Eligible(k, t) == t >= orders[k].created + Latency

(* Lexicographic order of tuples, as Python compares its sort keys. *)
Precedes(a, b) ==
  \E i \in 1..Len(a) : a[i] < b[i] /\ \A j \in 1..(i - 1) : a[j] = b[j]

(* A stop-limit order has entered the book when it was triggered.  Mutant  *)
(* of Entered: it keeps the time at which the stop was ordered.            *)
EnteredEarly(k, stops) == <<orders[k].created, orders[k].created, k>>

Entered(k, stops) ==
  <<IF k \in DOMAIN stops THEN stops[k] ELSE orders[k].created, orders[k].created, k>>

(* _price_time_orders: buys first, orders without a limit first, better    *)
(* limits first, then time of entry.                                       *)
Turn(k, stops) ==
  LET i == orders[k].intent
  IN  << IF i.side = "BUY" THEN 0 ELSE 1,
         IF HasLimit(i) THEN 1 ELSE 0,
         IF ~HasLimit(i) THEN 0 ELSE IF i.side = "BUY" THEN -i.limit ELSE i.limit >>
      \o Entered(k, stops)

LastInTurn(S, stops) ==
  CHOOSE k \in S : \A j \in S \ {k} : Precedes(Turn(j, stops), Turn(k, stops))

Due(t) == {k \in DOMAIN orders : Eligible(k, t)}

(* _book_marketable *)
Marketable(k, p, stops) ==
  LET i == orders[k].intent
  IN  /\ IsStop(i) => k \in DOMAIN stops
      /\ HasLimit(i) => IF i.side = "BUY" THEN p <= i.limit ELSE p >= i.limit

Level(k) == <<orders[k].intent.side, orders[k].intent.limit>>

-----------------------------------------------------------------------------
(* Queue positions.                                                        *)

(* _advance_queues: n units left a level; everyone queued there moves up. *)
Advance(q, level, n) ==
  [k \in DOMAIN q |-> IF q[k].level = level THEN [q[k] EXCEPT !.ahead = Monus(@, n)]
                                            ELSE q[k]]

(* Orders queued at a level before one that has a priority; those before k. *)
Earlier(q, level, priority) ==
  {j \in DOMAIN q : q[j].level = level /\ Precedes(q[j].priority, priority)}

Before(q, k) == Earlier(q, q[k].level, q[k].priority)

(* The first half of _reconcile_queues and _reduce_queue_remaining: what   *)
(* an order that left, or filled elsewhere, still held is no longer ahead  *)
(* of the orders behind it.  `left` gives what each order still needs.     *)
Release(q, left) ==
  LET kept == DOMAIN q \cap DOMAIN left
      still(j) == IF j \in kept THEN Least(q[j].remaining, left[j]) ELSE 0
      freed(k) == SumFunctionOnSet([j \in DOMAIN q |-> q[j].remaining - still(j)], Before(q, k))
  IN  [k \in kept |-> [q[k] EXCEPT !.ahead = Monus(@, freed(k)), !.remaining = still(k)]]

(* _queue_passive_order: an order that rests is put behind the volume the  *)
(* overlay shows at its price and behind the earlier orders of this run.   *)
Rest(m, k, left) ==
  LET i == orders[k].intent
      own == SumFunctionOnSet([j \in DOMAIN m.queue |-> m.queue[j].remaining],
                              Earlier(m.queue, Level(k), Entered(k, m.stopAt)))
      place == [level |-> Level(k), priority |-> Entered(k, m.stopAt), remaining |-> left,
                ahead |-> m.overlay[i.side][i.limit] + own]
  IN  IF /\ HasLimit(i) /\ ~Immediate(i) /\ left > 0
         /\ i.type = "STOP_LIMIT" => k \in DOMAIN m.stopAt
         /\ \A p \in Prices : m.overlay[Other(i.side)][p] > 0 => ~Marketable(k, p, m.stopAt)
      THEN [m EXCEPT !.queue = Put(m.queue, {k}, place)]
      ELSE m

(* Mutant of Enqueue: an order already in the queue is put there again. *)
EnqueueAgain(m, k, left) == Rest(m, k, left)

Enqueue(m, k, left) == IF k \in DOMAIN m.queue THEN m ELSE Rest(m, k, left)

(* _reconcile_queues: releases, then the resting orders that are new. *)
Reconcile(m, t) ==
  LET released == [m EXCEPT !.queue = Release(m.queue, [k \in DOMAIN orders |-> Remaining(k)])]
      queued[S \in SUBSET Due(t)] ==
        IF S = {} THEN released
        ELSE LET k == LastInTurn(S, m.stopAt) IN Enqueue(queued[S \ {k}], k, Remaining(k))
  IN  IF m.known THEN queued[Due(t)] ELSE released

-----------------------------------------------------------------------------
(* What one event changes before anybody is matched.                       *)

(* _apply_snapshot: a new book, a whole overlay, and no order in a queue. *)
ApplySnapshot(m, b) == [m EXCEPT !.known = TRUE, !.book = b, !.overlay = b, !.queue = Nobody]

(* _stage_delta, _apply_delta: what takers have consumed of a level stays  *)
(* consumed.  Mutant of Refreshed: the overlay shows the vendor's quantity *)
(* again.                                                                  *)
RefreshedWhole(m, side, p, n) == n

Refreshed(m, side, p, n) == Monus(n, Monus(m.book[side][p], m.overlay[side][p]))

ApplyDelta(m, side, p, n) ==
  [m EXCEPT !.book[side][p] = n,
            !.overlay[side][p] = Refreshed(m, side, p, n),
            !.queue = Advance(m.queue, <<side, p>>, Monus(m.book[side][p], n))]

(* _trigger_stops_from_book, _trigger_stops_from_trade: `seen` gives the    *)
(* prices the stop orders of a side look at (best ask, best bid, trade).   *)
Trigger(m, t, seen) ==
  LET hit(k) == LET i == orders[k].intent
                IN  /\ Eligible(k, t) /\ IsStop(i) /\ k \notin DOMAIN m.stopAt
                    /\ \E p \in seen[i.side] : IF i.side = "BUY" THEN p >= i.stop
                                                               ELSE p <= i.stop
  IN  [m EXCEPT !.stopAt = Put(m.stopAt, {k \in DOMAIN orders : hit(k)}, t)]

Best(m, side) ==
  LET there == {p \in Prices : m.book[Other(side)][p] > 0}
  IN  IF there = {} THEN {} ELSE {IF side = "BUY" THEN Min(there) ELSE Max(there)}

-----------------------------------------------------------------------------
(* _build_execution_plan: best level first, as much of each as is needed.  *)
Plan(m, k) ==
  LET side == orders[k].intent.side
      open == m.overlay[Other(side)]
      hit  == {p \in Prices : open[p] > 0 /\ Marketable(k, p, m.stopAt)}
      better(p) == {r \in hit : IF side = "BUY" THEN r < p ELSE r > p}
      share(p)  == Least(open[p], Monus(Remaining(k), SumFunctionOnSet(open, better(p))))
  IN  [p \in Prices |-> IF p \in hit THEN share(p) ELSE 0]

Volume(plan) == SumFunctionOnSet(plan, Prices)

(* One order of _consume_visible_book: take the plan (a FOK order in full  *)
(* or not at all), advance the queues that rested at its levels, and let   *)
(* what is left rest.                                                      *)
Take(acc, k) ==
  LET i == orders[k].intent
      plan == Plan(acc.m, k)
      left == Remaining(k) - Volume(plan)
      advanced == [j \in DOMAIN acc.m.queue |->
                     LET e == acc.m.queue[j]
                     IN  IF e.level[1] # Other(i.side) THEN e
                         ELSE [e EXCEPT !.ahead = Monus(@, plan[e.level[2]])]]
      needs == [j \in DOMAIN orders |-> IF j = k THEN left ELSE Remaining(j)]
      rest  == [p \in Prices |-> acc.m.overlay[Other(i.side)][p] - plan[p]]
      taken == [acc.m EXCEPT !.overlay[Other(i.side)] = rest, !.queue = Release(advanced, needs)]
  IN  IF i.tif = "FOK" /\ left # 0 THEN acc
      ELSE [takes |-> [acc.takes EXCEPT ![k] = plan], m |-> Enqueue(taken, k, left)]

(* _consume_visible_book: the orders that are due, in turn.  After a trade *)
(* (_consume_saved_book) those that rest in a queue are left to            *)
(* _consume_queues (skip_queued).                                          *)
Meet(acc, k, skipQueued) ==
  IF skipQueued /\ k \in DOMAIN acc.m.queue THEN acc ELSE Take(acc, k)

NoTakes == [k \in DOMAIN orders |-> [p \in Prices |-> 0]]

ConsumeVisibleBook(m, t, skipQueued) ==
  LET after[S \in SUBSET Due(t)] ==
        IF S = {} THEN [m |-> m, takes |-> NoTakes]
        ELSE LET k == LastInTurn(S, m.stopAt) IN Meet(after[S \ {k}], k, skipQueued)
  IN  after[Due(t)]

(* _consume_queues: an order gets what was traded beyond the volume ahead  *)
(* of it.  Mutant of Made: it gets it although it filled as a taker before.*)
MadeAgain(q, k, n) == Least(Remaining(k), Monus(n, q[k].ahead))

Made(q, k, n) == Least(q[k].remaining, Monus(n, q[k].ahead))

Makers(m, t, p, aggressor) ==
  {k \in DOMAIN orders \cap DOMAIN m.queue :
     Eligible(k, t) /\ aggressor \in Sides /\ m.queue[k].level = <<Other(aggressor), p>>}

Served(place, n, made) == [place EXCEPT !.ahead = Monus(@, n), !.remaining = @ - made]

ConsumeQueues(m, makers, n) ==
  [m EXCEPT !.queue = [k \in DOMAIN m.queue |->
     IF k \in makers THEN Served(m.queue[k], n, Made(m.queue, k, n)) ELSE m.queue[k]]]

-----------------------------------------------------------------------------
Init ==
  /\ used = {} /\ orders = Nobody /\ now = 0 /\ count = 0
  /\ known = FALSE /\ book = Empty /\ overlay = Empty
  /\ queue = Nobody /\ stopAt = Nobody
  /\ displayed = Empty /\ last = [kind |-> "none", volume |-> 0, made |-> 0]

(* A strategy orders when it is told of an event, and its order is created *)
(* at the time of that event.                                              *)
Submit(k, i) ==
  /\ 0 < count /\ count < MaxEvents
  /\ k \notin used
  /\ used' = used \cup {k}
  /\ orders' = Put(orders, {k}, [intent |-> i, created |-> now, filled |-> 0])
  /\ UNCHANGED <<now, count, modelVars, displayed, last>>

(* An order is cancelled, expires, or is refused by the risk gate (after a *)
(* refused fill the engine restores the model and matches without it).     *)
Close(k) ==
  /\ count < MaxEvents
  /\ k \in DOMAIN orders
  /\ orders' = [j \in DOMAIN orders \ {k} |-> orders[j]]
  /\ UNCHANGED <<used, now, count, modelVars, displayed, last>>

(* Events come in the order of their times, and several may have one time. *)
Instants == {now, now + 1}

(* _commit_match, the fills the engine commits, and IOC and FOK expiries. *)
Commit(t, m, fill, takes, shown) ==
  LET total(k) == orders[k].filled + fill[k]
      done(k)  == \/ total(k) = orders[k].intent.quantity
                  \/ Immediate(orders[k].intent) /\ Eligible(k, t)
      takers(side) == {k \in DOMAIN orders : orders[k].intent.side = Other(side)}
  IN  /\ count < MaxEvents
      /\ now' = t /\ count' = count + 1
      /\ known' = m.known /\ book' = m.book /\ overlay' = m.overlay
      /\ queue' = m.queue /\ stopAt' = m.stopAt
      /\ orders' = [k \in {j \in DOMAIN orders : ~done(j)} |->
                      [orders[k] EXCEPT !.filled = total(k)]]
      /\ displayed' = [s \in Sides |-> [p \in Prices |->
                         shown[s][p] - SumFunctionOnSet([k \in DOMAIN orders |-> takes[k][p]], takers(s))]]
      /\ used' = used

(* A book event: reconcile, trigger stops from the new book, match takers. *)
BookEvent(t, applied, shown, kind) ==
  LET m == Reconcile(applied, t)
      r == ConsumeVisibleBook(Trigger(m, t, [side \in Sides |-> Best(m, side)]), t, FALSE)
  IN  /\ Commit(t, r.m, [k \in DOMAIN orders |-> Volume(r.takes[k])], r.takes, shown)
      /\ last' = [kind |-> kind, volume |-> 0, made |-> 0]

Snapshot(t, b) == BookEvent(t, ApplySnapshot(Staged, b), b, "snapshot")

(* The deletion of a level that is not there raises. *)
Delta(t, side, p, n) ==
  /\ known /\ (n = 0 => book[side][p] > 0)
  /\ BookEvent(t, ApplyDelta(Staged, side, p, n),
               [displayed EXCEPT ![side][p] = @ + Monus(n, book[side][p])], "delta")

(* A trade: takers meet the book as last seen, then the trade triggers     *)
(* stops, then the resting orders at its price fill.                       *)
Trade(t, p, n, aggressor) ==
  LET m == Reconcile(Staged, t)
      r == IF known THEN ConsumeVisibleBook(m, t, TRUE) ELSE [m |-> m, takes |-> NoTakes]
      u == Trigger(r.m, t, [side \in Sides |-> {p}])
      makers  == Makers(u, t, p, aggressor)
      made(k) == IF k \in makers THEN Made(u.queue, k, n) ELSE 0
  IN  /\ Commit(t, ConsumeQueues(u, makers, n),
                [k \in DOMAIN orders |-> Volume(r.takes[k]) + made(k)], r.takes, displayed)
      /\ last' = [kind |-> "trade", volume |-> n,
                  made |-> SumFunctionOnSet([k \in makers |-> made(k)], makers)]

(* Any other event only reconciles the queues. *)
OtherEvent(t) ==
  /\ Commit(t, Reconcile(Staged, t), [k \in DOMAIN orders |-> 0], NoTakes, displayed)
  /\ last' = [kind |-> "other", volume |-> 0, made |-> 0]

Over == count = MaxEvents /\ UNCHANGED vars

Next ==
  \/ \E k \in Keys, i \in Intents : Submit(k, i)
  \/ \E k \in Keys : Close(k)
  \/ \E t \in Instants, b \in Snapshots : Snapshot(t, b)
  \/ \E t \in Instants, side \in Sides, p \in Prices, n \in Sizes \cup {0} : Delta(t, side, p, n)
  \/ \E t \in Instants, p \in Prices, n \in Sizes, aggressor \in Aggressors :
       Trade(t, p, n, aggressor)
  \/ \E t \in Instants : OtherEvent(t)
  \/ Over

Spec == Init /\ [][Next]_vars

-----------------------------------------------------------------------------
(* What the overlay offers to takers was displayed by the vendor since the *)
(* last snapshot and taken by nobody: deltas that shrink, delete or refill *)
(* a level and any number of saved-book trades never offer a unit twice    *)
(* (_stage_delta, _consume_visible_book).                                  *)
VisibleVolumeOnce ==
  \A s \in Sides, p \in Prices : overlay[s][p] <= displayed[s][p]

(* An order is never filled beyond its quantity, and its place in a queue  *)
(* holds exactly what it still needs, however it filled: as a taker, as a  *)
(* maker, or as both on one trade (_reduce_queue_remaining,                *)
(* _consume_queues).                                                       *)
QueueMatchesOrder ==
  \A k \in DOMAIN orders :
    Remaining(k) > 0 /\ (k \in DOMAIN queue => queue[k].remaining = Remaining(k))

(* The orders that the last event let join a queue. *)
Newcomers == IF last'.kind = "snapshot" THEN DOMAIN queue' ELSE DOMAIN queue' \ DOMAIN queue

(* An order joins the queue of its price behind all the volume the level   *)
(* shows and all that the orders before it still need, whatever the same   *)
(* event releases, consumes or triggers (_queue_passive_order in the loops *)
(* of _reconcile_queues and _consume_visible_book).  With one exception:   *)
(* an order that entered at the very time of the event may miss the stops  *)
(* which that event triggers and which come before it by their creation.   *)
JoinsBehind ==
  [][count' # count /\ last'.kind # "trade" =>
       \A k \in Newcomers :
         LET place == queue'[k]
             shown == overlay'[place.level[1]][place.level[2]]
             needed(S) == SumFunctionOnSet([j \in DOMAIN queue' |-> queue'[j].remaining], S)
             tied == {j \in Newcomers : /\ place.priority[1] = now'
                                        /\ j \notin DOMAIN stopAt /\ j \in DOMAIN stopAt'}
         IN  place.ahead \in {shown + needed(Before(queue', k)),
                              shown + needed(Before(queue', k) \ tied)}]_vars

(* Between snapshots an order in a queue only moves forward: its price and *)
(* entry stay, the volume ahead of it and its own remainder never grow.    *)
QueuesOnlyAdvance ==
  [][last'.kind # "snapshot" =>
       \A k \in DOMAIN queue \cap DOMAIN queue' :
         /\ queue'[k].level = queue[k].level /\ queue'[k].priority = queue[k].priority
         /\ queue'[k].ahead <= queue[k].ahead
         /\ queue'[k].remaining <= queue[k].remaining]_vars

(* "A trade consumes the level once" (_consume_queues): resting orders     *)
(* together never get more than was traded.                                *)
TradeConsumedOnce == last.kind = "trade" => last.made <= last.volume
=============================================================================
