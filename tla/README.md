# A TLA+ model of quant-execution

quant-execution replays a stream of market events through a strategy, a risk
gate, a matching model, a broker and a ledger, and records what happened as
immutable facts. This directory specifies the parts of it that keep state over
many steps, checks them with TLC on small instances and proves with TLAPS, for
all instances, the safety properties of the broker, of the replay engine with
its risk gate and of the artifact sink, and that a refused call of the ledger
leaves no trace.

## The system

| Part | Source (src/quant_execution) | State | Operations | What makes it correct |
|---|---|---|---|---|
| Order broker | `broker.py`, `state_machine.py` | order table; open, DAY and immediate indexes; accepted days; submit, fill and cancel keys; event history; artifact stream | submit, reject, cancel, apply_fill, expire, note_trading_day, expire_day_orders, start/finish/abort stream, reset, capture/restore | indexes agree with the table; quantity is conserved; keys are used once; the history is a chain; a terminal order never changes |
| Risk gate | `rules.py` | market states; cash, margin and position reservations by order key | observe, check, check_open_order, check_fill, reserve, release_fill, release_order, runtime_check | reservations follow the orders' remainders and are covered by the account |
| Replay engine | `engine.py` | position in the loop body, checkpoint | replay, replay_to_sink, replay_segments | one event is completed before the next; every failure restores the whole run; time in force is honoured |
| Account ledger | `ledger.py` | double-entry journal, balances, lots, marks, FX, dividend states | apply, mark, observe_market, snapshot, set_fx_rate, imports, streaming replay | entries balance; a refused event leaves no trace; no short cash or position |
| Matching models | `matching.py` | armed stop-limits; L2 books and queue positions | match, reset, capture/restore | no volume is used twice; price-time priority |
| Artifact sink | `artifacts.py` | buffers, staged transaction, queue, writer thread, files, manifest | append, begin, commit, rollback, seal, close, abort | nothing is lost or reordered; a manifest stands for a whole run; nothing hangs |
| Dividend runs | `dividends.py`, `artifacts.py` | entitlements, receivables, payments | apply_dividend_lifecycle, export_dividend_run, replay_dividend_run | a payment happens once; an exported run replays to the same state |
| Shared capital | `continuous.py` | available and reserved cash and units | executions, settlements | what is reserved is not spent |
| Corporate actions | `corporate_actions.py` | none of its own: lots, cost, cash and marks of the ledger | apply_action | positions and lots move together; an action is booked once or not at all |
| Settlement | `hong_kong.py`, `us_cash.py` | executed orders; pending proceeds by due date, or read off the journal | trade, settle a day's end, actions, marks | proceeds are not spendable before their day |
| Derivatives | `derivatives.py`, `derivative_replay.py` | positions, margin, variation | fills, settlements | margin and variation reconcile |
| Research accounts | `research_account.py`, `research_lifecycle.py` | baskets, stages | stage transitions | stages in order |
| Market making | `market_making*.py` | inventory, outstanding quotes, cancel times | on_event | a strategy, part of the engine's environment |
| Contracts and codecs | `contracts.py`, `schemas.py`, `_fixed.py`, `_json.py`, `protocols.py` | none | validation, encoding | no state |

The engine is the only caller of the other parts during a replay. For each
event it expires the DAY orders of earlier sessions, lets risk gate and ledger
observe the event, checks every open order again, matches and commits fills
until none is refused, expires IOC and FOK remainders, runs the runtime check
and passes the event to the strategy, whose intents are checked and submitted
or rejected. It tells the risk gate of every fill and closing; the gate never
reads the broker. `replay_to_sink` runs the same loop and hands every fact to
the artifact sink, whose writer thread is the only concurrency of the program.

A ledger is also used without the engine: directly, by the corporate actions and
the dividend lifecycle, which post to its books themselves, and by the accounts
for Hong Kong and the United States, which trade cash equities on a ledger of
their own.

What is hard: three hand-kept indexes and two sets of books (reservations and
ledger) that must follow the order table through every path; an undo record
that must name everything an event assigned; positions and lots kept by separate
code; claims kept beside their balances; proceeds that mature while others
spend; queue positions estimated from what a vendor shows; a batch checked
before it is committed; retries of a refused match; orders accepted under a
market that has since closed; the boundary of a trading day; a writer thread
that fails at any moment while the producer appends, commits, seals or aborts;
the order of publication and verification. `PROJECT.json` lists each hazard at
its line with the properties that would catch it.

## Modules

- `OrderLifecycle.tla`: what the broker promises: a key is used once, an order
  works until it completes or is closed, executions add up to at most the
  quantity, a finished order changes no more.
- `Broker.tla`: `DeterministicBroker`. One variable per table (`orders` stands
  for `_orders` and `_submit_keys`, `log` for `_events` or the streamed
  events), one action per public call that changes something. A call that
  raises before its first assignment or returns a recorded fact is a stuttering
  step. `MoveAll` is `transition_order` followed by `_record_event`. An order
  is named by its idempotency key, because its identifier is a digest of key and
  intent and a key is refused with a second intent.
- `Broker_proofs.tla`: theorems about `Broker`.
- `Induction.tla`: induction and recursion over numbers and finite sets, and what
  follows for concatenations and sums; lemmas the other proofs cite.
- `RiskGate.tla`: the market state, reservations and checks of
  `RuleBookRiskGate` for a cash instrument, as operators and actions. A Decimal
  quotient has finitely many digits: `Fraction` rounds it half even to one part
  in `Precision`.
- `ReplayEngine.tla`: `replay`, an extension of `RiskGate` with an instance of
  `Broker` and the ledger's cash, position and lots of one instrument. `pc` is
  the place in the loop body; each action is one call or one iteration of an
  inner loop. The matching model and the strategy are the environment: a match
  returns any batch a model may return (`Batches`: eligible open orders, limit
  prices, remaining quantities, FOK in full or not at all), a callback any
  intents stamped with the event's time, including intents presented before.
  `Fail` is `_restore_state`.
- `ReplayEngine_proofs.tla`: theorems about `ReplayEngine`, with those of
  `Broker_proofs` for the broker inside it.
- `ArtifactRun.tla`: what a recorded run promises to whoever loads it: facts and
  transactions recorded in order, all of them loadable or nothing.
- `ArtifactSink.tla`: `ArrowReplayArtifactSink`. The producer makes one call at
  a time (`call`, `pc`), the writer thread (`WriteBatch`, `CloseFiles`)
  interleaves with each of its steps and may fail at every write. `strict` is a
  sink of manifest schema 1.1.0. The two waits of ten seconds in `abort` are
  waits that may end at any time.
- `ArtifactSink_proofs.tla`: theorems about `ArtifactSink`.
- `SharedCapital.tla`: `SharedCapitalAccount`, one action per event kind.
  `account` is what `_apply` saves and restores: the total book, the sleeves'
  books (`books`), `pending`, `marks` and the instant of the last event. Each
  action computes the account after its dispatch and hands it to `Admit`, which
  takes it or restores (`Rejected`). `declared` is what the journal says of holds.
- `SharedCapital_proofs.tla`: theorems about `SharedCapital`.
- `L2Queue.tla`: `L2MatchingModel` on one instrument. `Staged` is the copy a
  match works on; `Snapshot`, `Delta`, `Trade` and `OtherEvent` are `match` for
  each kind of event, each in the order of the code: apply the event, reconcile
  the queues, trigger stops, match takers, then makers. The two loops over the
  orders in price-time order are functions on the sets of orders already met
  (`queued` in `Reconcile`, `after` in `ConsumeVisibleBook`). Around it are the
  broker's open orders (`Submit`, `Close`). The clock is apart from the count of
  events: the engine only sorts events by time (`Instants`), an order is created at
  the time of the event its strategy was told of, and `Eligible` lets it meet an
  event of that same time.
- `L2Queue_proofs.tla`, `L2Joining_proofs.tla`: theorems about `L2Queue`.
- `Ledger.tla`: `ExactAccountLedger`. `ledger` is a record of its fields. An
  event is translated to a transaction (`Translated`), booked (`Booked`, the
  body of `_apply`) and, when the snapshot at the end raises, taken back map by
  map (`Undo`, `Rollback`). One action per public call; `StartReplay`,
  `ReplayEvent`, `FinishReplay` and `FailReplay` are the streaming replay with
  the engine's capture and restore.
- `CorporateActions.tla`, `Dividends.tla`: `apply_action` and
  `apply_dividend_lifecycle` on that ledger. `Dividends` has the order of the
  phases, the cutoffs, the prefix of facts a repeat must match and the state a
  phase leaves.
- `CashDesk.tla`: the accounts of `hong_kong.py` (a list of pending proceeds)
  and `us_cash.py` (proceeds read off the journal) on a ledger of their own. An
  order, its fill and its fees, is one step.
- `Account.tla`: the four together, over a catalogue of what may be asked of an
  account (`Events`, `Actions`, `Lifecycles`, `Orders`, ...), with the
  properties of the whole.
- `Account_proofs.tla`: theorems about `Account`.
- `MCBroker`, `MCReplayEngine`, `MCArtifactSink`, `MCSharedCapital`, `MCL2Queue`,
  `MCAccount`: the instances TLC checks.

Operators whose comment begins with "Mutant of" are plausible bugs of the code.
No specification uses them; putting one in the place of the definition it names
must break a property.

## Runs

| Run | Configuration | Properties |
|---|---|---|
| `broker` | two keys; a DAY and a GTC order of two units and an IOC order; three fill and two cancel identifiers; two days; two instants | `TypeOK`, `IndexesAgree`, `DayOrdersWatched`, `QuantityConserved`, `HistoryChained`, `FillsAccounted`, `CancelKeysTrue`, `ArchiveComplete`, refinement `Lifecycle` |
| `engine` | two keys; limit and market orders of both sides with every time in force, one a sale of more than the initial position; two prices, instants and days; three events; batches of two fills; policies installed; T+1; an account small enough to refuse orders and fills | `TypeOK`, `ReservationTracksRemainder`, `ReservationsCovered`, `RefusedNotMatched`, `SessionHonoured`, `ImmediateOneShot`, `LedgerMatchesBroker`, `BoughtTodayKept`, `OnlyMarketBuysOverdraw`, `EventCompletes` |
| `sink` | two streams, batches of two facts, a queue of one batch, four facts | `TypeOK`, `NothingLost`, `ManifestIsWhole`, `MemoryBounded`, `NoWriterLeft`, refinement `RunRecorded`, `CallsReturn` |
| `capital` | two sleeves, a cash asset and a future (one each) in one currency, a second currency for conversions; two instants; quantities of one and two units bought and sold; two prices; four events | `TypeOK`, `BooksReconcile`, `HoldsHonoured`, `OrdersStayFunded`, `ProfitFromMarks` |
| `l2` | two orders, of five kinds (two limits, a stop-limit, a FOK, a market order); one bid and one ask level of one or two units; three events, several of which may have one time; known and unknown aggressors; no latency | `VisibleVolumeOnce`, `QueueMatchesOrder`, `QueuesOnlyAdvance`, `JoinsBehind` |
| `account` | two cash instruments, a future and an option in two currencies; thirteen agendas of four to eight ids each, with every kind of event, action, phase and import, some ids twice with other content; both valuation modes; three instants; the two cash desks with seven orders | `BooksReconcile`, `LotsCoverPosition`, `ReceivablesRegistered`, `ProceedsHeld`, `RefusedLeavesNoTrace` |

Why these bounds are enough: two orders are the smallest number for which an
index, a reservation or a sort can confuse one with another, and two units the
smallest quantity with a partial fill; two days give one session boundary; three
events let an order be accepted, filled in part and closed at three different
ones; a queue of one batch makes the producer wait in every kind of call, and
four facts fill two batches. `MaxEvents`, `MaxBatch`, `MaxOffers` and `MaxFacts`
are the only bounds the guards of these modules name. In `capital`, four events are a
purchase, its settlement, a sale on hold and an attempt to spend it, or a
position opened, marked into deficit, cured and reversed; an event at the same
instant, before and after the due one is among them; `MaxEvents`, `Times` and
the sets of quantities, prices, fees and amounts bound it. In `l2`, two orders
are enough to rest one behind the other, and three events (`MaxEvents`) for a
snapshot, a trade or delta that moves the queue or lets the orders join, and one more
that fills from it or triggers a stop, at one time or at several; with latency an
event sees fewer orders, and the same orders later. In `account`, an agenda names the ids that may occur in one life of an account, in
any order and any number of times; it holds what can meet in the properties
(lots with splits, claims with payments and splits, a derivative with its marks,
an option, conversions with the import they need). `MaxBefore` and `MaxReplayed`
bound what is booked before a replay and the lives it may start in; the
quantities are multiples of `Step` that every ratio divides exactly, as the code
demands of a split. The desks get orders on both sides of a settlement day, one
id twice with other content, and fees small and large enough to be refused.
`VIEW` drops `outcome`, which no action reads.

All runs check for deadlock except `account` and `fee_retry`, in which a life
ends when nothing is left to ask. In `ReplayEngine` a call of the broker that would
raise has no transition, so the absence of deadlock also shows that inside the
loop the broker raises only where the model says so (`Fail`). `Returned` and
`Idle` stand for a replay that has ended and a client that makes no call.

In `engine`, `Precision` is 6, so that every filled fraction of one, two or three
units is exact, as the theorems about reservations assume; `reservation_thirds` has
10, where a third is rounded.

Fairness: the replay is one thread that never blocks, so inside the loop body
its next step happens (`WF_vars(Next /\ pc # "idle")`); when the next event
comes is left open. Both threads of the sink are scheduled (`WF_vars(Producer)`,
`WF_vars(Writer)`): neither holds a lock across a wait, and the producer's
waits poll the writer's failure. Whether the client calls again is left open.

### Disagreements between the code and its documents

Six runs show a behaviour that a document, comment, docstring or test denies.

- `resubmission` (`ResubmissionHarmless`): presenting a DAY intent again after
  its order closed puts the closed order back into the index that
  `expire_day_orders` walks (`engine.py:345`), and the replay fails at the next
  trading day; presenting an open market order again fails at once when its
  reservation is priced anew (`rules.py:622`). `README.md:103` promises
  idempotent lifecycle operations.
- `batch_commit` (`CheckedBatchCommits`): fills of one batch that each pass
  `check_fill` can together exceed the cash, and then the whole replay fails
  (`engine.py:677`). `engine.py:619` says the candidates that remain can commit
  atomically. `OnlyMarketBuysOverdraw` shows that this needs a market buy.
- `reservation_thirds` (`ReleasedExactly`): three fills of a third release less
  than the whole reservation (`rules.py:639`), and a filled order is never
  released otherwise; a test is named "release exactly".
- `failed_manifest` (`FailedHasNoManifest`): `close` publishes `manifest.json`
  before it verifies the directory (`artifacts.py:579`), and a failed
  verification adds `FAILED.json`. `README.md:47` says failed runs never
  receive a complete manifest. The loader does refuse such a directory, which is
  why `RunRecorded` holds.
- `l2_double` (`TradeConsumedOnce`): a decrease of a level moves every order at
  the price forward and stops each at 0 (`matching.py:778`), so a later order of
  the run catches up with an earlier one, and the next trade fills both with the
  same unit. `matching.py:934` says a trade consumes the level once, and
  `tests/test_matching.py:220` is named accordingly. With four orders the same
  clipping lets a newcomer overtake: it joins behind what the orders there still
  need and the overlay shows (`JoinsBehind`), which is by then less than what an
  older order counts ahead of itself. That an earlier order at a price never has
  more ahead of it than a later one is therefore no property of this code.
  A tie of times opens a second way to the same sharing. A stop-limit S was created
  at time 1; a limit order L at the same price is created at time 2; a further event,
  also of time 2, triggers S. The reconciliation queues L first (`matching.py:504`);
  then S is triggered and joins with the earlier entry, (2, 1) against (2, 2)
  (`matching.py:588`). S does not count L, which entered later, and L was queued
  without counting S, against the "plus earlier simulated orders" of
  `matching.py:933`. `JoinsBehind` states this exception and no other.
- `fee_retry` (`RepeatsAccepted`): `_apply` validates an event before it looks
  for it among those applied (`ledger.py:1161`); a fee sent again after the cash
  fell below it raises. `ledger.py:123` calls every mutation idempotent.

## Proofs

`Broker_proofs.tla` proves, from `BrokerAssumption` alone (keys and days are
positive, quantities of intents lie in `1..MaxQuantity`), for any sets of keys,
intents, identifiers, days and times:

| Theorem | Statement |
|---|---|
| `TypeCorrect` | `Spec => []TypeOK` |
| `QuantityIsConserved` | `Spec => []QuantityConserved` |
| `IndexesAlwaysAgree` | `Spec => []IndexesAgree` |
| `DayOrdersAreWatched` | `Spec => []DayOrdersWatched` |
| `HistoryIsChained` | `Spec => []HistoryChained` |
| `CancelKeysAreTrue` | `Spec => []CancelKeysTrue` |
| `FillsAreAccounted` | `Spec => []FillsAccounted` |
| `ArchiveIsComplete` | `Spec => []ArchiveComplete` |
| `BrokerImplementsLifecycle` | `Spec => Lifecycle` |

The argument. `StepKinds` reduces every step to one of: an order is bound to a
new key (`Registers`), one order fills (`Fills`), a set of open orders closes
(`Closes`), the book is cleared, a day is noted, or the stream changes state. An
invariant then needs one case per kind. `QuantityConserved`, `IndexesAgree` and
`HistoryChained` are inductive given `TypeOK`. `DayOrdersWatched` is not: a new
order could find its key in the DAY index or with a day left over, so it is
strengthened by `DaysOfDayOrders` (a day is noted only for a known DAY order).
`CancelKeysTrue` rests on `FinishedStays`: a terminal order changes only by
`Reset`. `ArchiveComplete` needs `IndexesAgree`, since the finish writes the
orders of the open index. `FillsAccounted` sums the recorded fills of an order over
all fill identifiers; a step changes at most one of them, and `SumExcept` of
`Induction` says what that does to the sum. The refinement maps `Registers` to `Open`, `Fills` to
`Execute`, `Closes` to `Close`, `Reset` to `Clear` and every other step to a
stutter.

`Account_proofs.tla` proves, for any instruments, opening balances, agendas and
catalogue, on a ledger alone and on both desks:

| Theorem | Statement |
|---|---|
| `UndoRestores` | `Rollback(BookedAs(l, e, day, tx), e, tx, Undo(l, e, tx)) = l` for all books `l`, events `e`, days and transactions `tx` |
| `RefusedIsUndone` | `Spec => RefusedLeavesNoTrace` |
| `BooksAlwaysReconcile` | `Spec => []BooksReconcile` |

Assumed: `LedgerAssumption` (the kinds of instrument, whole opening balances, one to a
currency: `initial_cash` is a mapping), `DeskAssumption` (positive fee divisors and
minimum) and, of the catalogue, what the constructors of `contracts.py` and of the
actions demand (`CatalogueAssumption`: whole amounts, positive quantities and ratios).
Its last clause is a fact of strings which the provers do not know: two orders with
different ids have no fee id in common, and the fees of one order differ, since a fee
id is that of the order and one of three suffixes, none of which ends another. TLC
evaluates the assumptions on the catalogue of the run.

The argument. Two maps agree outside a set of keys (`AgreeOutside`) when one comes
from the other by assignments at those keys; `PutBack` shows that saving a map at
such keys and restoring it there gives the map again, absent entries included.
`PostedAgrees` and `RecordedIsNear` go through everything `_apply` assigns, by kind
of event, and find it inside the keys that the undo record saves: this is the
place where a new assignment in the code, without its entry in the undo record,
would make the proof fail. The transaction is arbitrary, so the theorem does not
depend on how an event is translated. That every call leaves maps and a journal
(`Books`) is the inductive part (`Kept`, for the books and for what a replay
captured); the other calls that refuse do so before they assign anything. An order of
a desk is a fill and one or two fees (`BookAllIs`), and its books are assigned only
when all were booked.

That the books reconcile is not inductive: a call could book a key twice if the books
had forgotten the event behind it, and a rollback or a failed replay could restore
books that never agreed. `Reconciled` adds what is missing. Books are `Full` when each
balance and position is the total of its postings over the rows in the sink and the
journal, no key occurs twice, and every number kept beside the balances (marks,
entitlements, dividend claims) is whole, so that the next posting is too. They are
`Ready` for a booking when, besides, nothing is in the sink and every key of the
journal belongs to an event, an action or a dividend phase they remember
(`Recalled`): this is where the duplicate checks before a booking meet the keys that
`_post` adds after it. While a replay runs, the journal is empty, the rows are in the
sink and the books captured before it agree with theirs; when it ends the books are
closed. One lemma for each kind of transaction (`DerivativeLegs`, `ConvertLegs`,
`PhaseLegs`, ...) shows that its postings are whole; `TotalsNext` that a row adds just
its own postings to every total; and one for each call (`BookedReady`, `LieuReady`,
`PhaseReady`, `OrderReady`, ...) that it leaves `Ready` books. On a desk the keys are
instead traced to the orders executed (`DeskKept`), since an order is known by its id
and not by those of its fees.

`ReplayEngine_proofs.tla` proves, from `EngineAssumption` and `RiskAssumption`
(finitely many keys, positive prices, days and quantities, natural latency, bounds,
cash, position and fee rate), for any keys, intents, prices, days, times, batch
sizes and numbers of events:

| Theorem | Statement | Hypotheses |
|---|---|---|
| `EngineSound` | `Spec => []Sound` | |
| `EngineDrivesBroker` | `Spec => B!Spec` | |
| `EngineTypes` | `Spec => []TypeOK` | |
| `RefusedNeverMatched` | `Spec => []RefusedNotMatched` | |
| `SessionAlwaysHonoured` | `Spec => []SessionHonoured` | |
| `ImmediateIsOneShot` | `Spec => []ImmediateOneShot` | |
| `LedgerAndBrokerAgree` | `Spec => []LedgerMatchesBroker` | |
| `ReservationsFollowOrders` | `Spec => []ReservationTracksRemainder` | `ExactFractions` |
| `SameDaySharesStay` | `Spec => BoughtTodayKept` | `ExactFractions` |
| `ReservationsAlwaysCovered` | `Spec => []ReservationsCovered` | `ExactFractions`, `ModestFee` |
| `OverdraftNeedsMarketBuy` | `Spec => OnlyMarketBuysOverdraw` | `ExactFractions`, `ModestFee` |

The argument. `Sound` is inductive: the broker's invariants (`BrokerSound`, kept
because every step of the engine is steps of the broker, by the lemmas of
`Broker_proofs` through the instance `BP`), the types of the other variables
(`Typed`) and where the loop stands (`Control`: fills are pending exactly at
`commit`, intents on offer exactly at `intents` and `note`, the order whose
reservation is about to be made was just submitted). Each property then has an
invariant of its own, inductive given `Sound`:

- `RefusedInv`: from the check of open orders to the commitment, every open order
  already visited is tradable; no step in between changes the market.
- `SessionInv`: the day noted for an open DAY order is the present one, or the order
  is the one being submitted.
- `OneShotInv`: after the expiry of immediate orders none that is open was eligible,
  and a FOK order is empty or full once the pending fills are counted.
- `BooksInv`: the position is the sum over all orders; one fill changes one
  summand and the position by the same quantity.
- `HoldInv`: every open order holds the reservation of its remainder (`Tracks`),
  every closed one none, but for the order just submitted, which holds none yet.
- `SharesInv` and `MoneyInv`: the sums of the reservations are at most the settled
  shares, and the cash as long as every buy has a limit; between the check of an
  order and its reservation the order still fits. A commitment takes from a sum at
  least what it takes from the account.
- `PendingInv`: each pending fill is within its order's limit and the fills pending
  for an order within its remainder, so that each of a batch still goes to an open
  order when its turn comes, although all were checked before the first.

`ExactFractions` says that `Precision` is a multiple of every quantity ordered: no
filled fraction is rounded. Without it the first of these theorems is false, as
`reservation_thirds` shows. A Decimal fraction is exact for quantities that divide a
power of ten; for others the reservations are off by the last digit, and how far
this carries over to the other three theorems is not examined. `ModestFee` says
that fees are at most the notional (`FeeRate <= 1`): `rules.py` does not bound fee
rates, and with a higher one a sale can cost more than it brings.

`ArtifactSink_proofs.tla` proves, from `SinkAssumption` (positive batch size and
queue capacity; no stream is called "stop" or "none"), for any streams, number of
facts and interleaving of the two threads, the writer failing anywhere:

| Theorem | Statement |
|---|---|
| `SinkInvariant` | `Spec => []SinkInv` |
| `SinkTypes` | `Spec => []TypeOK` |
| `SinkLosesNothing` | `Spec => []NothingLost` |
| `SinkManifestWhole` | `Spec => []ManifestIsWhole` |
| `SinkMemoryBounded` | `Spec => []MemoryBounded` |
| `WriterGone` | `Spec => []NoWriterLeft` |
| `FinalIsFinal` | `Spec => [][Advances]_vars` |
| `SinkRecordsRuns` | `Spec => RunRecorded` |

The argument. The core of `SinkInv` is `Whole`: as long as the run can still become
a complete one (`Good`), the rows on file followed by those in the queue are the
facts handed over, numbered without a gap (`Follows`), the stop mark is last in the
queue and the writer ends only behind it (`Orderly`). `Control` and `Outcome` say
where the call in progress stands and what closed, sealed, failed and stuck imply;
`Tails` and `Bounded` describe the buffers and the batches. Once a failure makes the
run incomplete nothing is claimed of its rows, and `Outcome` keeps the manifest
away. For the refinement each step is a step of `ArtifactRun` or a stutter: a commit
takes effect when it begins, the facts still ahead of it counted as recorded, and a
run shows when its manifest is loadable.

`SharedCapital_proofs.tla` proves, from `CapitalAssumption` (finitely many sleeves
and instruments, each instrument with an owner and a currency, natural allocations,
instants and fees, positive prices and amounts), for any sleeves, currencies,
quantities and numbers of events:

| Theorem | Statement |
|---|---|
| `CapitalSound` | `Spec => []IInv` |
| `CapitalTypes` | `Spec => []TypeOK` |
| `BooksAddUp` | `Spec => []BooksReconcile` |
| `HoldsAreHonoured` | `Spec => []HoldsHonoured` |
| `OrdersAreFunded` | `Spec => OrdersStayFunded` |
| `ProfitIsFromMarks` | `Spec => ProfitFromMarks` |

The argument. None of the three invariants is inductive alone. `IInv` says of the
account (`Sound`): units and cost of an instrument stand in its owner's book and,
the same, in the total (`Attributed`), the sleeves' cash adds up to the total's
(`Balanced`), no book is short of a cash asset (`LongOnly`), and what is on hold of
one is held (`Covered`); and of the journal: pending are the declared holds that are
not due. `LongOnly` of the total needs `Attributed`, since the guard of a sale looks
at the owner's book only. Every event is of one of three kinds: it moves no book
(`QuietStep`), it posts to books against outside flows (`FlowStep`: each posting
opens or closes the `Gap` between total and sleeves, and at the end it is closed), or
it changes owner's and total's book alike (`TouchedStep`). That the sleeves may
together spend what the total may (`FreeBySleeve`) regroups the sums over holds and
futures by sleeve (`SumByGroup` of `Induction`). `OrdersAreFunded` combines the
shortfall rule with `BegunFree` (releasing holds takes no buying power) and
`AllOrNothing` (a rejection restores every field), at any instant, also one before
the last event. For `ProfitIsFromMarks` one shows of each event that what the value
of the position gains beyond its revaluation has left the cash (`MovesProfit`). The
cost removed by closing a part of a future (`Removed`) leaves cost and cash alike
(`FillAmounts`), so that the rounding of the average cost cannot create profit.

`L2Queue_proofs.tla` and, of `NewcomersJoinBehind`, `L2Joining_proofs.tla` prove, from
`L2Assumption` (positive keys, prices and sizes,
finitely many prices, intents with a positive quantity, limits on the price grid), for
any prices, orders, vendor's books, latency and number of events:

| Theorem | Statement |
|---|---|
| `Invariance` | `Spec => []IInv` |
| `VisibleVolumeIsOfferedOnce` | `Spec => []VisibleVolumeOnce` |
| `QueueAlwaysMatchesOrder` | `Spec => []QueueMatchesOrder` |
| `QueuesAlwaysAdvance` | `Spec => QueuesOnlyAdvance` |
| `NewcomersJoinBehind` | `Spec => JoinsBehind` |

The argument. `IInv` is the two invariants and the types (`Typed`; the keys in use are
finitely many, so the sums over them are sums). What is hard is inside one event: both
loops are recursions over the orders met so far. `Precedes` is a strict total order, so
of any set of orders one is `LastInTurn` (`LastIs`), each recursion has a solution
(`SetRecursion` of `Induction`), and what holds before the loop and is kept by one order
holds after it (`ReconcileIs`, `ConsumeIs`). What one order keeps, `Consumed`, is that a
level's overlay and what was taken of it make up the overlay before the event, that
nobody took more than it needs, and that each place in a queue holds what its order
still needs. `PlanIs` proves of the greedy plan that it takes no more than a level
offers, nothing where the order does not meet the level, and in all the least of the
need and the offer (`TakingInOrder`, for any order of the levels); so a FOK order fills
whole when there is enough, and an order with something left has emptied all it could
meet. `QueuesAlwaysAdvance` follows through all the stages of an event, each of which
moves places forward only (`Onward`).

`NewcomersJoinBehind` looks at the whole event, although an order takes its place in the
middle of one: nobody may slip in before it afterwards. In each of the two loops the
orders come in turn, and of two orders with one limit the first in turn entered first
(`TurnEntered`), so that within a loop later ones join behind. An order that could not
rest in the first loop (the reconciliation, which leaves the overlay as it is) and joins
in the second could slip in before one that joined in the first. But orders with one
limit can all rest or none (`SameLevelRests`), unless a stop is not yet triggered; so the
late one is a stop triggered by this event. It enters at the time of the event, and
stops are triggered and orders created only up to the present (`Timely`, inductive given
`IInv`); so it comes before another order only when that one entered at this very time,
and these are the `tied` stops the property excepts (`MissedIsTied`). What the second
loop adds before an order of the first is thus a set of such stops, all or none of them
counted (`Assembled`, `Waits`). What a taker takes leaves the overlay and the places behind it alike
(`TakenWaits`), and an order with less to fill releases the same amount to those after
it (`ReleaseWaits`).

The library's induction theorems take a predicate as a parameter and cannot be
used with the provers at hand. `Induction.tla` therefore states induction over
numbers and over finite sets with a set in the predicate's place, derives it from
well-foundedness of the strict subset order, and obtains from it what the proofs
need of `FlattenSeq`, `SumFunctionOnSet`, recursion over finite sets and greedy plans.

Only model-checked: all liveness (`EventCompletes`, `CallsReturn`: fairness is out
of the prover's reach), and three properties of the account: `LotsCoverPosition` and
`ReceivablesRegistered`, which need an invariant of their own for every way an action
or a dividend moves lots and claims, and `ProceedsHeld`, which needs the day count of the
settlement calendar by cardinalities. Nothing is
proved about the disagreements listed above: their runs are counterexamples.

## Abstractions

- A replay starts with fresh components, so the checkpoint `Fail` restores is
  the initial state; the replay is the in-memory one (`stream = "off"`). The position
  it starts with stands for what an earlier part of the account's life bought; the
  ledger's `reset` alone would start at none.
- Trading days grow with the instants of events, and events of one instant have one
  day (`NextEvent`); the engine itself sorts by time and takes the day as given.
- In `Broker`, the archive's `sink.append` does not raise inside `_record_event`
  (`broker.py:159`, `289`, `351`, `413`). It could only while streaming, after the
  tables were assigned; the replay then fails and the engine restores all of them.
- In `RiskGate`, the strict check of a status's evidence (`rules.py:432`) and the
  price of a stop order (`rules.py:1060`) are left out: the intents hold no stop.
- Keys are numbers, and their order stands for the order of the identifiers'
  digests. A callback returns a key at most once.
- Prices, cash and quantities are integers, the contract multiplier is 1, the
  fee rate is the same for both sides; one cash instrument. Lot sizes, ticks and
  static price limits only reject orders and are left out.
- Risk policies and the runtime check reject anything at any time
  (`HasPolicies`).
- In `SharedCapital` the closed part of a future's cost is rounded to an
  integer once; the ledger rounds cost and profit to eight decimals each.
  Malformed events, misaligned prices and expired terms are rejections and are
  left out, as is the valuation in the base currency.
- Digests, hashes and the `poisoned` flag of the sink are left out; the digests
  are taken from a sealed sink, as the engine does. After an `abort` that raised
  the client makes no call but `abort`.
- In `L2Queue`, all prices and quantities have one scale, time advances by at most
  one with an event, and a match that raises is a stutter. Events may have one time,
  a book may be crossed, and a trade's aggressor may be unknown. A FOK order is never queued. An
  order whose fill is refused is closed before the match.
- In `Ledger`, money and quantities are integers, the contract multiplier is 1,
  and the memo counters that mirror a memo posting are left out. A snapshot raises
  when it must convert an amount that is not zero and knows no rate by its time;
  the NAV residual cannot differ here. The legacy mode's rounding of a closed cost
  (`DerivativeFill`) is left out. Imports keep what they posted when their
  snapshot raises. The records of snapshots, exposures and valuations are left out.
- A replay asks for no snapshot, so the fill a streamed fee forgets, which the undo
  record does not name, never has to be put back.
- In `Dividends`, issuer amounts divide without rest, deductions and the rounding
  adjustment are part of what is withheld, and the verifier of certified policies
  is external and says yes.
- Withdrawals and the exercise of rights check the ledger's cash, not what a desk
  may spend: the code offers neither to a desk, nor does the model.
- In `AsEvent`, `effective` stands for the date an action takes effect on: its
  entitlement date or the date of its stamp (`corporate_actions.py:67`). `NewLots`
  divides integers; the ratios of the instance divide them exactly.
- In `CashDesk`, an order's fill and fees are booked without the lookup of a repeat
  (`BookNext`): the order's id was looked up before. A desk's fees are a proportional commission with a minimum and
  a stamp duty rounded up; a day is a unit of time.

## Not modelled

- The digests of a sink before it is sealed: the engine takes them afterwards,
  where closing a digest changes nothing a later call sees.
- `replay_segments`, which chains the sources of one replay, and the engine
  composed with the sink step by step: `ReplayEngine` and `ArtifactSink` meet only
  in calls that each models whole (begin, append, commit, rollback, close, abort).
- Margin reservations of the risk gate, lot sizes, ticks and static limits: checks
  on one order at a time, on numbers.
- The bar and trade/BBO matching models: their only state is the set of triggered
  stops; in `ReplayEngine` they are the envelope of what a match may return.
- The export of a dividend run and the replay that verifies it, and the dividend
  valuations: they read the books and write files.
- `derivatives.py` and `derivative_replay.py`: a facade that turns validated facts
  into events of the shared account and the ledger.
- `research_account.py`, `research_lifecycle.py`: a sequential driver of a ledger
  and a list of reports.
- `market_making*.py`: a strategy, part of the engine's environment.
- Contracts, schemas and codecs have no state. The transition table of
  `contracts.py` is in `Broker`.
- The dated versions of the Hong Kong fee schedule and its `affordable_quantity`,
  and slippage in the United States: numbers that change no control.
