------------------------ MODULE SharedCapital_proofs ------------------------
(***************************************************************************)
(* Proofs about the shared capital account, for every set of sleeves,      *)
(* instruments, prices and events.                                         *)
(***************************************************************************)
EXTENDS SharedCapital, Induction

Books ==
  [cash : [Currencies -> Int], outside : [Currencies -> Int], paid : [Currencies -> Nat],
   units : [Instruments -> Int], cost : [Futures -> Int]]

Holds ==
  [id : Nat, sleeve : Sleeves, currency : Currencies, instrument : CashAssets,
   at : Nat, units : Nat, cash : Nat]

Accounts ==
  [books : [Budgets -> Books], pending : {P \in SUBSET Holds : IsFiniteSet(P)},
   marks : [Instruments -> Prices \cup {Unmarked}], now : Nat]

(* Units and cost of an instrument are its owner's, and the total's.       *)
Attributed(a) ==
  /\ \A i \in Instruments :
       /\ a.books["total"].units[i] = a.books[Owner[i]].units[i]
       /\ \A s \in Sleeves \ {Owner[i]} : a.books[s].units[i] = 0
  /\ \A i \in Futures :
       /\ a.books["total"].cost[i] = a.books[Owner[i]].cost[i]
       /\ \A s \in Sleeves \ {Owner[i]} : a.books[s].cost[i] = 0

CashOf(a, c)  == [s \in Sleeves |-> a.books[s].cash[c]]
Balanced(a)   == \A c \in Currencies : a.books["total"].cash[c] = SumFunctionOnSet(CashOf(a, c), Sleeves)
LongOnly(a)   == \A b \in Budgets, i \in CashAssets : a.books[b].units[i] \in Nat
Covered(a)    == \A i \in CashAssets : OnHold(a, i) <= a.books[Owner[i]].units[i]

Sound(a) ==
  /\ a \in Accounts /\ a.now \in Times \cup {0}
  /\ Attributed(a) /\ Balanced(a) /\ LongOnly(a) /\ Covered(a)

(* The inductive invariant. *)
IInv ==
  /\ Sound(account) /\ count \in Nat /\ declared \subseteq Holds
  /\ account.pending = {h \in declared : h.at > account.now}

-----------------------------------------------------------------------------
(* What the fields of a well-formed account hold. *)
LEMMA Fields ==
  ASSUME NEW a \in Accounts
  PROVE  /\ \A b \in Budgets : a.books[b] \in Books
         /\ \A b \in Budgets, c \in Currencies : /\ a.books[b].cash[c] \in Int
                                                 /\ a.books[b].outside[c] \in Int
                                                 /\ a.books[b].paid[c] \in Nat
         /\ \A b \in Budgets, i \in Instruments : a.books[b].units[i] \in Int
         /\ \A b \in Budgets, i \in Futures : a.books[b].cost[i] \in Int
         /\ a.pending \subseteq Holds /\ IsFiniteSet(a.pending)
         /\ \A h \in a.pending : h.units \in Nat /\ h.cash \in Nat /\ h.at \in Nat /\ h.sleeve \in Sleeves
         /\ \A i \in Instruments : a.marks[i] \in Int
         /\ a.now \in Nat
<1>1. a.books \in [Budgets -> Books] /\ a.pending \in {P \in SUBSET Holds : IsFiniteSet(P)}
      /\ a.marks \in [Instruments -> Prices \cup {Unmarked}] /\ a.now \in Nat
  BY DEF Accounts
<1>2. \A b \in Budgets : a.books[b] \in Books
  BY <1>1
<1>3. ASSUME NEW b \in Budgets
      PROVE  /\ a.books[b].cash \in [Currencies -> Int] /\ a.books[b].outside \in [Currencies -> Int]
             /\ a.books[b].paid \in [Currencies -> Nat] /\ a.books[b].units \in [Instruments -> Int]
             /\ a.books[b].cost \in [Futures -> Int]
  BY <1>2 DEF Books
<1>4. \A b \in Budgets, c \in Currencies : /\ a.books[b].cash[c] \in Int
                                          /\ a.books[b].outside[c] \in Int
                                          /\ a.books[b].paid[c] \in Nat
  BY <1>3
<1>5. \A b \in Budgets, i \in Instruments : a.books[b].units[i] \in Int
  BY <1>3
<1>6. \A b \in Budgets, i \in Futures : a.books[b].cost[i] \in Int
  BY <1>3
<1>7. \A h \in a.pending : h.units \in Nat /\ h.cash \in Nat /\ h.at \in Nat /\ h.sleeve \in Sleeves
  BY <1>1 DEF Holds
<1>8. \A i \in Instruments : a.marks[i] \in Int
  <2>1. Prices \cup {Unmarked} \subseteq Int
    BY CapitalAssumption DEF Unmarked
  <2> QED BY <1>1, <2>1
<1> QED BY <1>1, <1>2, <1>4, <1>5, <1>6, <1>7, <1>8

(* Two accounts with equal fields are the same account. *)
LEMMA SameAccount ==
  ASSUME NEW a \in Accounts, NEW z \in Accounts, a.books = z.books, a.pending = z.pending,
         a.marks = z.marks, a.now = z.now
  PROVE  a = z
BY DEF Accounts

(* Instruments are owned by sleeves, and no sleeve is the total. *)
LEMMA Owners ==
  /\ \A i \in Instruments : Owner[i] \in Sleeves /\ Owner[i] \in Budgets /\ CurrencyOf[i] \in Currencies
  /\ \A s \in Sleeves : s # "total" /\ s \in Budgets
  /\ "total" \in Budgets /\ IsFiniteSet(Sleeves) /\ IsFiniteSet(Instruments) /\ IsFiniteSet(Futures)
  /\ \A i \in CashAssets : i \in Instruments /\ i \notin Futures
  /\ \A i \in Futures : i \in Instruments
  /\ \A i \in Instruments : i \in Futures \/ i \in CashAssets
<1>1. IsFiniteSet(Instruments)
  BY CapitalAssumption, FS_Union DEF Instruments
<1> QED BY <1>1, CapitalAssumption DEF Instruments, Budgets

(* Opening an event releases holds and moves the clock, nothing else. *)
LEMMA BegunFields ==
  ASSUME account \in Accounts, NEW at \in Nat
  PROVE  /\ Begun(at) \in Accounts /\ Begun(at).now = at
         /\ Begun(at).books = account.books /\ Begun(at).marks = account.marks
         /\ Begun(at).pending = {h \in account.pending : h.at > at}
<1>1. /\ Begun(at).now = at
      /\ Begun(at).books = account.books /\ Begun(at).marks = account.marks
      /\ Begun(at).pending = {h \in account.pending : h.at > at}
  BY DEF Begun, Accounts
<1>2. IsFiniteSet({h \in account.pending : h.at > at})
  <2>1. {h \in account.pending : h.at > at} \subseteq account.pending
    OBVIOUS
  <2> QED BY <2>1, Fields, FS_Subset
<1>3. {h \in account.pending : h.at > at} \in {P \in SUBSET Holds : IsFiniteSet(P)}
  BY <1>2, Fields
<1>4. Begun(at) \in Accounts
  BY <1>3 DEF Begun, Accounts
<1> QED BY <1>1, <1>4

(* A rejection restores every field. *)
LEMMA RejectedRestores ==
  ASSUME account \in Accounts, NEW after \in Accounts
  PROVE  Rejected(after) = account
BY DEF Rejected, Accounts

-----------------------------------------------------------------------------
(* A posting changes the cash of one book in one currency, and what is     *)
(* posted against outside flows by the same amount.                        *)
LEMMA PostEffect ==
  ASSUME NEW a \in Accounts, NEW e \in Budgets, NEW d \in Currencies, NEW x \in Int
  PROVE  LET z == Post(a, e, d, x) IN
         /\ z \in Accounts /\ z.pending = a.pending /\ z.marks = a.marks /\ z.now = a.now
         /\ \A b \in Budgets : /\ z.books[b].units = a.books[b].units
                               /\ z.books[b].cost = a.books[b].cost
                               /\ z.books[b].paid = a.books[b].paid
         /\ \A b \in Budgets, c \in Currencies :
              /\ z.books[b].cash[c] = a.books[b].cash[c] + (IF b = e /\ c = d THEN x ELSE 0)
              /\ z.books[b].outside[c] = a.books[b].outside[c] + (IF b = e /\ c = d THEN x ELSE 0)
<1> DEFINE z == Post(a, e, d, x)
           old == a.books[e]
           book == Flow(old, d, x)
<1>1. old \in Books /\ old.cash[d] + x \in Int /\ old.outside[d] + x \in Int
  BY Fields
<1>2. book \in Books /\ book.units = old.units /\ book.cost = old.cost /\ book.paid = old.paid
      /\ book.cash = [old.cash EXCEPT ![d] = @ + x] /\ book.outside = [old.outside EXCEPT ![d] = @ + x]
  <2> HIDE DEF old
  <2> QED BY <1>1 DEF Books, Flow
<1>3. z = [a EXCEPT !.books[e] = book]
  BY DEF Post
<1>4. /\ z \in Accounts /\ z.books = [a.books EXCEPT ![e] = book]
      /\ z.pending = a.pending /\ z.marks = a.marks /\ z.now = a.now
  <2> HIDE DEF z, book
  <2>1. [a.books EXCEPT ![e] = book] \in [Budgets -> Books]
    BY <1>2 DEF Accounts
  <2>2. z = [a EXCEPT !.books = [a.books EXCEPT ![e] = book]]
    BY <1>3
  <2> QED BY <2>1, <2>2 DEF Accounts
<1>5. \A b \in Budgets : z.books[b] = IF b = e THEN book ELSE a.books[b]
  BY <1>4 DEF Accounts
<1>6. \A b \in Budgets : /\ z.books[b].units = a.books[b].units
                         /\ z.books[b].cost = a.books[b].cost
                         /\ z.books[b].paid = a.books[b].paid
  BY <1>2, <1>5
<1>7. \A b \in Budgets, c \in Currencies :
              /\ z.books[b].cash[c] = a.books[b].cash[c] + (IF b = e /\ c = d THEN x ELSE 0)
              /\ z.books[b].outside[c] = a.books[b].outside[c] + (IF b = e /\ c = d THEN x ELSE 0)
  <2> TAKE b \in Budgets, c \in Currencies
  <2>1. a.books[b].cash[c] \in Int /\ a.books[b].outside[c] \in Int
    BY Fields
  <2>2. CASE b = e
    <3>1. z.books[b] = book /\ a.books[b] = old
      BY <1>5, <2>2
    <3>2. book.cash[c] = old.cash[c] + (IF c = d THEN x ELSE 0)
          /\ book.outside[c] = old.outside[c] + (IF c = d THEN x ELSE 0)
      <4>1. old.cash \in [Currencies -> Int] /\ old.outside \in [Currencies -> Int]
            /\ old.cash[c] \in Int /\ old.outside[c] \in Int
        BY <1>1 DEF Books
      <4> HIDE DEF book, old
      <4> QED BY <1>2, <4>1
    <3> HIDE DEF z, book, old
    <3> QED BY <2>2, <3>1, <3>2
  <2>3. CASE b # e
    BY <1>5, <2>1, <2>3
  <2> QED BY <2>2, <2>3
<1> QED BY <1>4, <1>6, <1>7

-----------------------------------------------------------------------------
(* What the total book has in cash beyond the sleeves' books. *)
Gap(a, c) == a.books["total"].cash[c] - SumFunctionOnSet(CashOf(a, c), Sleeves)

(* The cash of the sleeves can be added up. *)
LEMMA CashSums ==
  ASSUME NEW a \in Accounts, NEW c \in Currencies
  PROVE  /\ Summable(CashOf(a, c), Sleeves) /\ SumFunctionOnSet(CashOf(a, c), Sleeves) \in Int
         /\ Gap(a, c) \in Int
         /\ \A s \in Sleeves : CashOf(a, c)[s] = a.books[s].cash[c]
<1>1. \A s \in Sleeves : CashOf(a, c)[s] = a.books[s].cash[c] /\ CashOf(a, c)[s] \in Int
  BY Fields, Owners DEF CashOf
<1>2. Summable(CashOf(a, c), Sleeves)
  BY <1>1, Owners DEF Summable
<1>3. SumFunctionOnSet(CashOf(a, c), Sleeves) \in Int
  BY <1>2, SumType
<1> QED BY <1>1, <1>2, <1>3, Fields, Owners DEF Gap

(* A total book without a gap is the sum of the sleeves' books. *)
LEMMA BalancedIsNoGap ==
  ASSUME NEW a \in Accounts
  PROVE  Balanced(a) <=> \A c \in Currencies : Gap(a, c) = 0
<1>1. \A c \in Currencies : a.books["total"].cash[c] \in Int /\ SumFunctionOnSet(CashOf(a, c), Sleeves) \in Int
  BY CashSums, Fields, Owners
<1>2. \A c \in Currencies :
        Gap(a, c) = 0 <=> a.books["total"].cash[c] = SumFunctionOnSet(CashOf(a, c), Sleeves)
  BY <1>1 DEF Gap
<1> QED BY <1>2 DEF Balanced

(* Cash that changes alike in the book of one sleeve and in the total book *)
(* leaves the gap what it was; in one of the two alone it does not.        *)
LEMMA GapMoves ==
  ASSUME NEW a \in Accounts, NEW z \in Accounts, NEW c \in Currencies, NEW s \in Sleeves,
         \A t \in Sleeves \ {s} : z.books[t].cash[c] = a.books[t].cash[c]
  PROVE  Gap(z, c) = Gap(a, c) + (z.books["total"].cash[c] - a.books["total"].cash[c])
                               - (z.books[s].cash[c] - a.books[s].cash[c])
<1> DEFINE f == CashOf(a, c)
           g == CashOf(z, c)
           F == SumFunctionOnSet(f, Sleeves)
           G == SumFunctionOnSet(g, Sleeves)
<1>1. Summable(f, Sleeves) /\ Summable(g, Sleeves) /\ g[s] \in Int /\ f[s] \in Int
      /\ g[s] = z.books[s].cash[c] /\ f[s] = a.books[s].cash[c] /\ \A y \in Sleeves \ {s} : f[y] = g[y]
  BY CashSums, Fields, Owners
<1>2. G = F + (g[s] - f[s]) /\ F \in Int /\ G \in Int
  <2> HIDE DEF f, g
  <2> QED BY <1>1, SumChanged
<1>3. Gap(z, c) = z.books["total"].cash[c] - G /\ Gap(a, c) = a.books["total"].cash[c] - F
  BY DEF Gap
<1>4. z.books["total"].cash[c] \in Int /\ a.books["total"].cash[c] \in Int
  BY Fields, Owners
<1> HIDE DEF f, g, F, G
<1> QED BY <1>1, <1>2, <1>3, <1>4

(* What a posting does to the gap. *)
LEMMA PostGap ==
  ASSUME NEW a \in Accounts, NEW e \in Budgets, NEW d \in Currencies, NEW x \in Int,
         NEW c \in Currencies
  PROVE  /\ Gap(a, c) \in Int
         /\ Gap(Post(a, e, d, x), c)
              = Gap(a, c) + (IF c # d THEN 0 ELSE IF e = "total" THEN x ELSE -x)
<1> DEFINE z == Post(a, e, d, x)
<1>1. z \in Accounts
      /\ \A b \in Budgets : z.books[b].cash[c] = a.books[b].cash[c] + (IF b = e /\ c = d THEN x ELSE 0)
  BY PostEffect
<1>2. Gap(a, c) \in Int
  BY CashSums
<1> HIDE DEF z
<1>3. \A b \in Budgets : z.books[b].cash[c] \in Int /\ a.books[b].cash[c] \in Int
  BY <1>1, Fields
<1>4. CASE e \in Sleeves
  <2>1. e # "total" /\ e \in Budgets /\ "total" \in Budgets
    BY <1>4, Owners
  <2>2. \A t \in Sleeves \ {e} : z.books[t].cash[c] = a.books[t].cash[c]
    BY <1>1, <1>3, Owners
  <2>3. Gap(z, c) = Gap(a, c) + (z.books["total"].cash[c] - a.books["total"].cash[c])
                               - (z.books[e].cash[c] - a.books[e].cash[c])
    BY <1>1, <1>4, <2>2, GapMoves
  <2>4. z.books["total"].cash[c] = a.books["total"].cash[c]
        /\ z.books[e].cash[c] = a.books[e].cash[c] + (IF c = d THEN x ELSE 0)
    BY <1>1, <1>3, <2>1
  <2>5. Gap(z, c) = Gap(a, c) + (IF c # d THEN 0 ELSE -x)
    BY <1>2, <1>3, <2>1, <2>3, <2>4
  <2> QED BY <1>2, <2>1, <2>5 DEF z
<1>5. CASE e = "total"
  <2>1. \A t \in Sleeves : z.books[t].cash[c] = a.books[t].cash[c]
    BY <1>1, <1>3, <1>5, Owners
  <2>2. \A t \in Sleeves : CashOf(a, c)[t] = CashOf(z, c)[t]
    BY <1>1, <2>1, CashSums
  <2>3. SumFunctionOnSet(CashOf(a, c), Sleeves) = SumFunctionOnSet(CashOf(z, c), Sleeves)
    BY <2>2, CashSums, SumSame
  <2>4. z.books["total"].cash[c] = a.books["total"].cash[c] + (IF c = d THEN x ELSE 0)
    BY <1>1, <1>5
  <2>5. SumFunctionOnSet(CashOf(a, c), Sleeves) \in Int
    BY CashSums
  <2>6. Gap(z, c) = Gap(a, c) + (IF c # d THEN 0 ELSE x)
    BY <1>3, <1>5, <2>3, <2>4, <2>5 DEF Gap
  <2> QED BY <1>2, <1>5, <2>6 DEF z
<1> QED BY <1>4, <1>5 DEF Budgets

-----------------------------------------------------------------------------
(* Holds can be added up, and fewer holds hold less. *)
LEMMA HoldSums ==
  ASSUME NEW a \in Accounts, NEW z \in Accounts, z.pending \subseteq a.pending
  PROVE  /\ \A b, c : Proceeds(a, b, c) \in Nat /\ Proceeds(z, b, c) <= Proceeds(a, b, c)
         /\ \A i : OnHold(a, i) \in Nat /\ OnHold(z, i) <= OnHold(a, i)
<1>1. IsFiniteSet(a.pending) /\ \A h \in a.pending : h.units \in Nat /\ h.cash \in Nat
  BY Fields
<1>2. ASSUME NEW P \in SUBSET a.pending PROVE IsFiniteSet(P)
  BY <1>1, FS_Subset
<1>3. ASSUME NEW b, NEW c
      PROVE  Proceeds(a, b, c) \in Nat /\ Proceeds(z, b, c) <= Proceeds(a, b, c)
  <2> DEFINE f == [h \in a.pending |-> h.cash]
             g == [h \in z.pending |-> h.cash]
             S == {h \in a.pending : h.currency = c /\ b \in {"total", h.sleeve}}
             T == {h \in z.pending : h.currency = c /\ b \in {"total", h.sleeve}}
  <2>1. S \in SUBSET a.pending /\ T \in SUBSET S /\ T \in SUBSET a.pending
    OBVIOUS
  <2>2. IsFiniteSet(S) /\ \A h \in S : f[h] \in Nat
    BY <1>1, <1>2, <2>1
  <2>3. \A h \in T : f[h] = g[h]
    OBVIOUS
  <2>4. Proceeds(a, b, c) = SumFunctionOnSet(f, S) /\ Proceeds(z, b, c) = SumFunctionOnSet(g, T)
    BY DEF Proceeds
  <2> HIDE DEF f, g, S, T
  <2>5. /\ Summable(f, T) /\ SumFunctionOnSet(f, S) \in Nat
        /\ SumFunctionOnSet(f, T) <= SumFunctionOnSet(f, S)
    BY <2>1, <2>2, SumPart
  <2>6. SumFunctionOnSet(f, T) = SumFunctionOnSet(g, T)
    BY <2>3, <2>5, SumSame
  <2> QED BY <2>4, <2>5, <2>6
<1>4. ASSUME NEW i PROVE OnHold(a, i) \in Nat /\ OnHold(z, i) <= OnHold(a, i)
  <2> DEFINE f == [h \in a.pending |-> h.units]
             g == [h \in z.pending |-> h.units]
             S == {h \in a.pending : h.instrument = i}
             T == {h \in z.pending : h.instrument = i}
  <2>1. S \in SUBSET a.pending /\ T \in SUBSET S /\ T \in SUBSET a.pending
    OBVIOUS
  <2>2. IsFiniteSet(S) /\ \A h \in S : f[h] \in Nat
    BY <1>1, <1>2, <2>1
  <2>3. \A h \in T : f[h] = g[h]
    OBVIOUS
  <2>4. OnHold(a, i) = SumFunctionOnSet(f, S) /\ OnHold(z, i) = SumFunctionOnSet(g, T)
    BY DEF OnHold
  <2> HIDE DEF f, g, S, T
  <2>5. /\ Summable(f, T) /\ SumFunctionOnSet(f, S) \in Nat
        /\ SumFunctionOnSet(f, T) <= SumFunctionOnSet(f, S)
    BY <2>1, <2>2, SumPart
  <2>6. SumFunctionOnSet(f, T) = SumFunctionOnSet(g, T)
    BY <2>3, <2>5, SumSame
  <2> QED BY <2>4, <2>5, <2>6
<1> QED BY <1>3, <1>4

-----------------------------------------------------------------------------
(* What cash, fees and outside flows contribute to the worth of a book. *)
Base(a, b, c) == a.books[b].cash[c] + a.books[b].paid[c] - a.books[b].outside[c]

Profit(a, z) ==
  \A b \in Budgets, c \in Currencies :
    Worth(z, b, c) - Worth(a, b, c) = SumFunctionOnSet(Revaluation(a, b, z.marks), Within(c))

(* Integers are closed under multiplication, which distributes. *)
LEMMA Products ==
  /\ \A x, y \in Int : x * y \in Int /\ x * y = y * x
  /\ \A x, y \in Nat : x * y \in Nat
  /\ \A x, y, z \in Int : x * (y * z) = (x * y) * z
  /\ \A x, y, z \in Int : x * (y - z) = x * y - x * z /\ (y - z) * x = y * x - z * x
  /\ \A x, y, z \in Int : x * (y + z) = x * y + x * z /\ (y + z) * x = y * x + z * x
OBVIOUS

(* Positions have integer values. *)
LEMMA Values ==
  ASSUME NEW a \in Accounts, NEW z \in Accounts, NEW b \in Budgets
  PROVE  /\ \A i \in Futures : Pnl(a, b, i) \in Int
         /\ \A i \in Instruments : Value(a, b, i) \in Int
         /\ \A i \in Instruments : a.books[b].units[i] * a.marks[i] \in Int
         /\ \A i \in Instruments : Revaluation(a, b, z.marks)[i] = a.books[b].units[i] * (z.marks[i] - a.marks[i])
         /\ \A i \in Instruments : Revaluation(a, b, z.marks)[i] \in Int
         /\ \A c \in Currencies : Base(a, b, c) \in Int
<1>1. \A i \in Instruments : a.books[b].units[i] * a.marks[i] \in Int
  BY Fields, Products
<1>2. \A i \in Instruments : z.marks[i] - a.marks[i] \in Int
  BY Fields
<1>3. \A i \in Instruments : a.books[b].units[i] * (z.marks[i] - a.marks[i]) \in Int
  BY <1>2, Fields, Products
<1>4. \A i \in Futures : Pnl(a, b, i) \in Int
  <2> TAKE i \in Futures
  <2> DEFINE v == a.books[b].units[i] * a.marks[i]
  <2>1. v \in Int /\ a.books[b].cost[i] \in Int
    BY <1>1, Fields, Owners
  <2>2. Pnl(a, b, i) = v - a.books[b].cost[i]
    BY DEF Pnl
  <2> HIDE DEF v
  <2> QED BY <2>1, <2>2
<1>5. \A i \in Instruments : Value(a, b, i) \in Int
  BY <1>1, <1>4 DEF Value
<1>6. \A i \in Instruments : Revaluation(a, b, z.marks)[i] = a.books[b].units[i] * (z.marks[i] - a.marks[i])
  BY DEF Revaluation
<1>7. \A c \in Currencies : Base(a, b, c) \in Int
  BY Fields DEF Base
<1> QED BY <1>1, <1>3, <1>4, <1>5, <1>6, <1>7

(* The worth of a book as its base and a sum of values. *)
LEMMA WorthIs ==
  ASSUME NEW a \in Accounts, NEW b \in Budgets, NEW c \in Currencies, NEW f,
         \A i \in Instruments : f[i] = Value(a, b, i)
  PROVE  /\ Summable(f, Within(c)) /\ Within(c) \in SUBSET Instruments /\ IsFiniteSet(Within(c))
         /\ Worth(a, b, c) = Base(a, b, c) + SumFunctionOnSet(f, Within(c))
<1> DEFINE v == [i \in Instruments |-> Value(a, b, i)]
<1>1. Within(c) \in SUBSET Instruments /\ IsFiniteSet(Within(c))
  <2>1. Within(c) \in SUBSET Instruments
    BY DEF Within
  <2> QED BY <2>1, Owners, FS_Subset
<1>2. \A i \in Within(c) : v[i] = Value(a, b, i) /\ v[i] \in Int /\ f[i] = v[i]
  BY <1>1, Values
<1>3. Worth(a, b, c) = Base(a, b, c) + SumFunctionOnSet(v, Within(c))
  BY DEF Worth, Base
<1>4. Summable(v, Within(c))
  BY <1>1, <1>2 DEF Summable
<1>5. Summable(f, Within(c)) /\ SumFunctionOnSet(f, Within(c)) = SumFunctionOnSet(v, Within(c))
  <2> HIDE DEF v
  <2> QED BY <1>2, <1>4, SumSame
<1> QED BY <1>1, <1>3, <1>5

(* Where only marks move the value of positions, worth changes by the      *)
(* revaluation of what was held.                                           *)
LEMMA WorthKept ==
  ASSUME NEW a \in Accounts, NEW z \in Accounts, NEW b \in Budgets, NEW c \in Currencies,
         Base(z, b, c) = Base(a, b, c),
         \A j \in Instruments :
           Value(z, b, j) = Value(a, b, j) + a.books[b].units[j] * (z.marks[j] - a.marks[j])
  PROVE  Worth(z, b, c) - Worth(a, b, c) = SumFunctionOnSet(Revaluation(a, b, z.marks), Within(c))
<1> DEFINE f == [i \in Instruments |-> Value(a, b, i)]
           r == Revaluation(a, b, z.marks)
           h == [i \in Instruments |-> Value(z, b, i)]
           W == Within(c)
           F == SumFunctionOnSet(f, W)
           R == SumFunctionOnSet(r, W)
           H == SumFunctionOnSet(h, W)
<1>1. Summable(f, W) /\ W \in SUBSET Instruments /\ IsFiniteSet(W) /\ Worth(a, b, c) = Base(a, b, c) + F
  BY WorthIs
<1>2. Summable(h, W) /\ Worth(z, b, c) = Base(z, b, c) + H
  BY WorthIs
<1>3. \A i \in W : r[i] = a.books[b].units[i] * (z.marks[i] - a.marks[i]) /\ r[i] \in Int
  BY <1>1, Values
<1>4. Summable(r, W)
  BY <1>1, <1>3 DEF Summable
<1>5. \A i \in W : h[i] = f[i] + r[i]
  <2> TAKE i \in W
  <2>1. i \in Instruments
    BY <1>1
  <2>2. f[i] = Value(a, b, i) /\ h[i] = Value(z, b, i)
    BY <2>1
  <2> HIDE DEF f, h, r, W
  <2>3. Value(z, b, i) = Value(a, b, i) + a.books[b].units[i] * (z.marks[i] - a.marks[i])
    BY <2>1
  <2> QED BY <1>3, <2>2, <2>3
<1>6. H = F + R
  <2> HIDE DEF f, h, r, W
  <2>1. SumFunctionOnSet(h, W) = SumFunctionOnSet(f, W) + SumFunctionOnSet(r, W)
    <3>1. Summable(f, W)
      BY <1>1
    <3> QED BY <1>4, <1>5, <3>1, SumPlus
  <2> QED BY <2>1
<1>7. F \in Int
  <2> HIDE DEF f, W
  <2> QED BY <1>1, SumType
<1>8. R \in Int
  <2> HIDE DEF r, W
  <2> QED BY <1>4, SumType
<1>9. Base(a, b, c) \in Int
  BY Values
<1> HIDE DEF F, R, H, W
<1>10. Worth(z, b, c) - Worth(a, b, c) = R
  BY <1>1, <1>2, <1>6, <1>7, <1>8, <1>9
<1> QED BY <1>10 DEF R, W

(* What one position gains beyond its revaluation has left the base: then  *)
(* worth still changes by the revaluation of what was held.                *)
LEMMA WorthMoves ==
  ASSUME NEW a \in Accounts, NEW z \in Accounts, NEW b \in Budgets, NEW c \in Currencies,
         NEW k \in Instruments, NEW d \in Int,
         Base(z, b, c) = Base(a, b, c) - (IF c = CurrencyOf[k] THEN d ELSE 0),
         \A j \in Instruments :
           Value(z, b, j) = Value(a, b, j) + a.books[b].units[j] * (z.marks[j] - a.marks[j])
                              + (IF j = k THEN d ELSE 0)
  PROVE  Worth(z, b, c) - Worth(a, b, c) = SumFunctionOnSet(Revaluation(a, b, z.marks), Within(c))
<1> DEFINE f == [i \in Instruments |-> Value(a, b, i)]
           r == Revaluation(a, b, z.marks)
           g == [i \in Instruments |-> f[i] + r[i]]
           h == [i \in Instruments |-> Value(z, b, i)]
           W == Within(c)
           F == SumFunctionOnSet(f, W)
           R == SumFunctionOnSet(r, W)
           G == SumFunctionOnSet(g, W)
           H == SumFunctionOnSet(h, W)
<1>1. Summable(f, W) /\ W \in SUBSET Instruments /\ IsFiniteSet(W) /\ Worth(a, b, c) = Base(a, b, c) + F
  BY WorthIs
<1>2. Summable(h, W) /\ Worth(z, b, c) = Base(z, b, c) + H
  BY WorthIs
<1>3. \A i \in Instruments : r[i] = a.books[b].units[i] * (z.marks[i] - a.marks[i]) /\ r[i] \in Int
  BY Values
<1>4. Summable(r, W)
  BY <1>1, <1>3 DEF Summable
<1>5. \A i \in Instruments : g[i] = f[i] + r[i] /\ f[i] \in Int
  BY Values
<1>6. G = F + R /\ Summable(g, W)
  <2> HIDE DEF f, g, r, W
  <2>1. \A i \in W : g[i] = f[i] + r[i]
    BY <1>1, <1>5
  <2>2. Summable(g, W) /\ SumFunctionOnSet(g, W) = SumFunctionOnSet(f, W) + SumFunctionOnSet(r, W)
    <3>1. Summable(f, W)
      BY <1>1
    <3>2. \A x \in W : g[x] = f[x] + r[x]
      BY <2>1
    <3>3. Summable(r, W)
      BY <1>4
    <3> QED BY <3>1, <3>2, <3>3, SumPlus
  <2> QED BY <2>2
<1>7. F \in Int
  <2> HIDE DEF f, W
  <2> QED BY <1>1, SumType
<1>8. R \in Int
  <2> HIDE DEF r, W
  <2> QED BY <1>4, SumType
<1>9. Base(a, b, c) \in Int
  BY Values
<1>10. \A i \in Instruments : h[i] = g[i] + (IF i = k THEN d ELSE 0) /\ h[i] \in Int /\ g[i] \in Int
  <2> TAKE i \in Instruments
  <2>1. f[i] = Value(a, b, i) /\ h[i] = Value(z, b, i) /\ Value(z, b, i) \in Int
    BY Values
  <2>2. Value(z, b, i) = Value(a, b, i) + a.books[b].units[i] * (z.marks[i] - a.marks[i])
                              + (IF i = k THEN d ELSE 0)
    OBVIOUS
  <2>3. f[i] \in Int /\ r[i] \in Int /\ g[i] = f[i] + r[i]
        /\ r[i] = a.books[b].units[i] * (z.marks[i] - a.marks[i])
    BY <1>3, <1>5
  <2>4. Value(z, b, i) = f[i] + r[i] + (IF i = k THEN d ELSE 0)
    BY <2>1, <2>2, <2>3
  <2>5. f[i] \in Int /\ r[i] \in Int /\ g[i] = f[i] + r[i] /\ h[i] = Value(z, b, i)
    BY <2>1, <2>3
  <2> HIDE DEF f, h, r, g
  <2> QED BY <2>4, <2>5
<1>11. k \in W <=> c = CurrencyOf[k]
  BY DEF Within
<1>12. H = G + (IF c = CurrencyOf[k] THEN d ELSE 0)
  <2>1. CASE c = CurrencyOf[k]
    <3>1. k \in W /\ h[k] \in Int /\ g[k] \in Int /\ h[k] = g[k] + d /\ \A i \in W \ {k} : g[i] = h[i]
      <4> HIDE DEF h, g, W
      <4> QED BY <1>1, <1>10, <1>11, <2>1
    <3>2. H = G + (h[k] - g[k]) /\ G \in Int
      <4> HIDE DEF h, g, W
      <4>1. Summable(g, W)
        BY <1>6
      <4>2. k \in W /\ h[k] \in Int
        BY <3>1
      <4>3. \A y \in W \ {k} : g[y] = h[y]
        BY <3>1
      <4> QED BY <4>1, <4>2, <4>3, SumChanged
    <3> HIDE DEF h, g, H, G, W
    <3> QED BY <2>1, <3>1, <3>2
  <2>2. CASE c # CurrencyOf[k]
    <3>1. \A i \in W : g[i] = h[i]
      <4> HIDE DEF h, g, W
      <4> QED BY <1>1, <1>10, <1>11, <2>2
    <3>2. H = G /\ G \in Int
      <4> HIDE DEF h, g, W
      <4> QED BY <1>6, <3>1, SumSame, SumType
    <3> HIDE DEF h, g, H, G, W
    <3> QED BY <2>2, <3>2
  <2> QED BY <2>1, <2>2
<1> HIDE DEF F, R, G, H, W
<1>13. Worth(z, b, c) - Worth(a, b, c) = R
  BY <1>1, <1>2, <1>6, <1>7, <1>8, <1>9, <1>12
<1> QED BY <1>13 DEF R, W

-----------------------------------------------------------------------------
(* Books may be replaced by books. *)
LEMMA Rebooked ==
  ASSUME NEW a \in Accounts, NEW books \in [Budgets -> Books]
  PROVE  LET z == [a EXCEPT !.books = books] IN
         /\ z \in Accounts /\ z.books = books
         /\ z.pending = a.pending /\ z.marks = a.marks /\ z.now = a.now
BY DEF Accounts

(* A mark moves that mark alone. *)
LEMMA Remarked ==
  ASSUME NEW a \in Accounts, NEW i \in Instruments, NEW price \in Prices
  PROVE  LET z == [a EXCEPT !.marks[i] = price] IN
         /\ z \in Accounts /\ z.books = a.books /\ z.pending = a.pending /\ z.now = a.now
         /\ z.marks[i] = price /\ \A j \in Instruments \ {i} : z.marks[j] = a.marks[j]
<1>1. a.marks \in [Instruments -> Prices \cup {Unmarked}]
  BY DEF Accounts
<1>2. [a.marks EXCEPT ![i] = price] \in [Instruments -> Prices \cup {Unmarked}]
  BY <1>1
<1> QED BY <1>1, <1>2 DEF Accounts

(* Positions and bases that stay what they were yield the revaluation. *)
LEMMA PositionsKept ==
  ASSUME NEW a \in Accounts, NEW z \in Accounts,
         \A b \in Budgets : z.books[b].units = a.books[b].units /\ z.books[b].cost = a.books[b].cost,
         \A b \in Budgets, c \in Currencies : Base(z, b, c) = Base(a, b, c)
  PROVE  Profit(a, z)
<1> SUFFICES ASSUME NEW b \in Budgets, NEW c \in Currencies
             PROVE  Worth(z, b, c) - Worth(a, b, c)
                      = SumFunctionOnSet(Revaluation(a, b, z.marks), Within(c))
  BY DEF Profit
<1>1. ASSUME NEW j \in Instruments
      PROVE  Value(z, b, j) = Value(a, b, j) + a.books[b].units[j] * (z.marks[j] - a.marks[j])
  <2> DEFINE u == a.books[b].units[j]
             m == a.marks[j]
             n == z.marks[j]
             um == u * m
             un == u * n
             ud == u * (n - m)
  <2>1. u \in Int /\ m \in Int /\ n \in Int /\ z.books[b].units[j] = u
    BY Fields
  <2>2. um \in Int /\ un \in Int /\ ud = un - um
    <3> HIDE DEF u, m, n
    <3> QED BY <2>1, Products
  <2>3. CASE j \in Futures
    <3>1. z.books[b].cost[j] = a.books[b].cost[j] /\ a.books[b].cost[j] \in Int
      BY <2>3, Fields
    <3>2. Value(a, b, j) = um - a.books[b].cost[j] /\ Value(z, b, j) = un - a.books[b].cost[j]
      BY <2>1, <2>3, <3>1 DEF Value, Pnl
    <3> HIDE DEF um, un, ud
    <3>3. Value(z, b, j) = Value(a, b, j) + ud
      BY <2>2, <3>1, <3>2
    <3> QED BY <3>3 DEF ud
  <2>4. CASE j \notin Futures
    <3>1. Value(a, b, j) = um /\ Value(z, b, j) = un
      BY <2>1, <2>4 DEF Value
    <3> HIDE DEF um, un, ud
    <3>2. Value(z, b, j) = Value(a, b, j) + ud
      BY <2>2, <3>1
    <3> QED BY <3>2 DEF ud
  <2> QED BY <2>3, <2>4
<1> QED BY <1>1, WorthKept

(* What an event at an instant makes of the account. *)
Event(at, after) ==
  /\ after \in Accounts /\ after.now = at
  /\ {h \in account.pending : h.at > at} \subseteq after.pending
  /\ \A h \in after.pending : h.at > at

Step(at, admitted, after) ==
  /\ Event(at, after) /\ Admit(admitted, after)
  /\ admitted => Sound(after)
  /\ Profit(account, after)

(* An account whose positions and cover stay what they were stays sound. *)
LEMMA KeptSound ==
  ASSUME Sound(account), NEW at \in Times, NEW after \in Accounts, after.now = at,
         after.pending \subseteq account.pending,
         \A b \in Budgets : /\ after.books[b].units = account.books[b].units
                            /\ after.books[b].cost = account.books[b].cost,
         Balanced(after)
  PROVE  Sound(after)
<1>1. account \in Accounts /\ Attributed(account) /\ LongOnly(account) /\ Covered(account)
  BY DEF Sound
<1>2. Attributed(after)
  BY <1>1, Owners DEF Attributed
<1>3. LongOnly(after)
  BY <1>1 DEF LongOnly
<1>4. \A i : OnHold(after, i) <= OnHold(account, i) /\ OnHold(account, i) \in Nat /\ OnHold(after, i) \in Nat
  BY <1>1, HoldSums
<1>5. Covered(after)
  <2> SUFFICES ASSUME NEW i \in CashAssets PROVE OnHold(after, i) <= after.books[Owner[i]].units[i]
    BY DEF Covered
  <2>1. OnHold(account, i) <= account.books[Owner[i]].units[i] /\ account.books[Owner[i]].units[i] \in Int
    BY <1>1, Fields, Owners DEF Covered
  <2>2. after.books[Owner[i]].units[i] = account.books[Owner[i]].units[i]
    BY Owners
  <2> QED BY <1>4, <2>1, <2>2
<1> QED BY <1>2, <1>3, <1>5 DEF Sound

(* An event that releases what is due and moves no book. *)
LEMMA QuietStep ==
  ASSUME Sound(account), NEW at \in Times, NEW after \in Accounts, after.now = at,
         after.books = account.books, after.pending = {h \in account.pending : h.at > at},
         Admit(TRUE, after)
  PROVE  Step(at, TRUE, after)
<1>1. account \in Accounts /\ Balanced(account)
  BY DEF Sound
<1>2. Event(at, after)
  BY DEF Event
<1>3. Balanced(after)
  BY <1>1 DEF Balanced, CashOf
<1>4. Sound(after)
  BY <1>3, KeptSound
<1>5. Profit(account, after)
  <2>1. \A b \in Budgets, c \in Currencies : Base(after, b, c) = Base(account, b, c)
    BY DEF Base
  <2> QED BY <1>1, <2>1, PositionsKept
<1> QED BY <1>2, <1>4, <1>5 DEF Step

(* Instants are natural numbers, and so is what an event posts. *)
LEMMA Bounds ==
  /\ \A t \in Times : t \in Nat
  /\ \A p \in Prices : p \in Nat \ {0} /\ p \in Int
  /\ \A x \in Amounts : x \in Nat /\ x \in Int /\ -x \in Int
  /\ \A x \in Fees : x \in Nat
  /\ \A q \in Quantities : q \in Int /\ q # 0
BY CapitalAssumption

(* A settlement instant releases what is due. *)
LEMMA SettleSteps ==
  ASSUME Sound(account), NEW at \in Times, Settle(at)
  PROVE  Step(at, TRUE, Begun(at))
<1>1. account \in Accounts /\ at \in Nat
  BY Bounds DEF Sound
<1> QED BY <1>1, BegunFields, QuietStep DEF Settle

(* A mark moves no book. *)
LEMMA MarkSteps ==
  ASSUME Sound(account), NEW at \in Times, NEW i \in Instruments, NEW price \in Prices,
         Mark(at, i, price)
  PROVE  \E after : Step(at, TRUE, after)
<1> DEFINE after == [Begun(at) EXCEPT !.marks[i] = price]
<1>1. account \in Accounts /\ at \in Nat
  BY Bounds DEF Sound
<1>2. /\ after \in Accounts /\ after.now = at /\ after.books = account.books
      /\ after.pending = {h \in account.pending : h.at > at}
  BY <1>1, BegunFields, Remarked
<1>3. Admit(TRUE, after)
  BY DEF Mark
<1> HIDE DEF after
<1> QED BY <1>2, <1>3, QuietStep

-----------------------------------------------------------------------------
(* Postings move cash and what is posted against outside flows together,   *)
(* and nothing else.                                                       *)
Flows(a, z) ==
  /\ z \in Accounts /\ z.pending = a.pending /\ z.marks = a.marks /\ z.now = a.now
  /\ \A b \in Budgets : /\ z.books[b].units = a.books[b].units
                        /\ z.books[b].cost = a.books[b].cost
                        /\ z.books[b].paid = a.books[b].paid
  /\ \A b \in Budgets, c \in Currencies :
       z.books[b].cash[c] - z.books[b].outside[c] = a.books[b].cash[c] - a.books[b].outside[c]

(* A posting is such a move. *)
LEMMA PostFlows ==
  ASSUME NEW a \in Accounts, NEW e \in Budgets, NEW d \in Currencies, NEW x \in Int
  PROVE  Flows(a, Post(a, e, d, x))
<1> DEFINE z == Post(a, e, d, x)
<1>1. /\ z \in Accounts /\ z.pending = a.pending /\ z.marks = a.marks /\ z.now = a.now
      /\ \A b \in Budgets : /\ z.books[b].units = a.books[b].units
                            /\ z.books[b].cost = a.books[b].cost
                            /\ z.books[b].paid = a.books[b].paid
      /\ \A b \in Budgets, c \in Currencies :
           /\ z.books[b].cash[c] = a.books[b].cash[c] + (IF b = e /\ c = d THEN x ELSE 0)
           /\ z.books[b].outside[c] = a.books[b].outside[c] + (IF b = e /\ c = d THEN x ELSE 0)
  BY PostEffect
<1>2. \A b \in Budgets, c \in Currencies : a.books[b].cash[c] \in Int /\ a.books[b].outside[c] \in Int
  BY Fields
<1> HIDE DEF z
<1>3. \A b \in Budgets, c \in Currencies :
       z.books[b].cash[c] - z.books[b].outside[c] = a.books[b].cash[c] - a.books[b].outside[c]
  BY <1>1, <1>2
<1>4. Flows(a, z)
  BY <1>1, <1>3 DEF Flows
<1> QED BY <1>4 DEF z

(* Such moves compose. *)
LEMMA FlowsCompose ==
  ASSUME NEW a, NEW y, NEW z, Flows(a, y), Flows(y, z)
  PROVE  Flows(a, z)
BY DEF Flows

(* An event of such moves that leaves no gap is a step. *)
LEMMA FlowStep ==
  ASSUME Sound(account), NEW at \in Times, NEW after, Flows(Begun(at), after),
         \A c \in Currencies : Gap(after, c) = 0,
         NEW admitted, Admit(admitted, after)
  PROVE  Step(at, admitted, after)
<1>1. account \in Accounts /\ at \in Nat
  BY Bounds DEF Sound
<1>2. /\ after \in Accounts /\ after.pending = {h \in account.pending : h.at > at} /\ after.now = at
      /\ \A b \in Budgets : /\ after.books[b].units = account.books[b].units
                            /\ after.books[b].cost = account.books[b].cost
                            /\ after.books[b].paid = account.books[b].paid
      /\ \A b \in Budgets, c \in Currencies :
           after.books[b].cash[c] - after.books[b].outside[c]
             = account.books[b].cash[c] - account.books[b].outside[c]
  BY <1>1, BegunFields DEF Flows
<1>3. Event(at, after)
  BY <1>2 DEF Event
<1>4. Sound(after)
  BY <1>2, BalancedIsNoGap, KeptSound
<1>5. ASSUME NEW b \in Budgets, NEW c \in Currencies PROVE Base(after, b, c) = Base(account, b, c)
  <2>1. /\ after.books[b].cash[c] \in Int /\ after.books[b].outside[c] \in Int
        /\ account.books[b].cash[c] \in Int /\ account.books[b].outside[c] \in Int
        /\ account.books[b].paid[c] \in Int /\ after.books[b].paid[c] = account.books[b].paid[c]
        /\ after.books[b].cash[c] - after.books[b].outside[c]
             = account.books[b].cash[c] - account.books[b].outside[c]
    BY <1>1, <1>2, Fields
  <2> QED BY <2>1 DEF Base
<1>6. Profit(account, after)
  BY <1>1, <1>2, <1>5, PositionsKept
<1> QED BY <1>3, <1>4, <1>6 DEF Step

(* Opening an event leaves no gap where there was none. *)
LEMMA BegunGap ==
  ASSUME Sound(account), NEW at \in Times
  PROVE  Begun(at) \in Accounts /\ Flows(Begun(at), Begun(at)) /\ \A c \in Currencies : Gap(Begun(at), c) = 0
<1>1. account \in Accounts /\ at \in Nat /\ Balanced(account)
  BY Bounds DEF Sound
<1>2. Begun(at) \in Accounts /\ Begun(at).books = account.books
  BY <1>1, BegunFields
<1>3. Balanced(Begun(at))
  BY <1>1, <1>2 DEF Balanced, CashOf
<1> QED BY <1>2, <1>3, BalancedIsNoGap DEF Flows

(* A transfer moves cash between two sleeves. *)
LEMMA TransferSteps ==
  ASSUME Sound(account), NEW at \in Times, NEW source \in Sleeves, NEW target \in Sleeves,
         NEW c \in Currencies, NEW amount \in Amounts, Transfer(at, source, target, c, amount)
  PROVE  \E admitted \in BOOLEAN : \E after :
           Step(at, admitted, after) /\ (admitted => Funded(Begun(at), after, TRUE))
<1> DEFINE begun == Begun(at)
           mid == Post(begun, source, c, -amount)
           after == Post(mid, target, c, amount)
           admitted == /\ source # target /\ amount <= Free(begun, source, c)
                       /\ Funded(begun, after, TRUE)
<1>1. amount \in Int /\ -amount \in Int /\ source \in Budgets /\ target \in Budgets
      /\ source # "total" /\ target # "total"
  BY Bounds, Owners
<1>2. begun \in Accounts /\ \A d \in Currencies : Gap(begun, d) = 0
  BY BegunGap
<1> HIDE DEF begun
<1>3. mid \in Accounts /\ Flows(begun, mid)
  BY <1>1, <1>2, PostFlows, PostEffect
<1>4. \A d \in Currencies : Gap(mid, d) = IF d = c THEN amount ELSE 0
  <2> TAKE d \in Currencies
  <2>1. Gap(mid, d) = Gap(begun, d) + (IF d # c THEN 0 ELSE IF source = "total" THEN -amount ELSE -(-amount))
    BY <1>1, <1>2, PostGap
  <2> HIDE DEF mid
  <2> QED BY <1>1, <1>2, <2>1
<1> HIDE DEF mid
<1>5. Flows(mid, after)
  BY <1>1, <1>3, PostFlows
<1>6. \A d \in Currencies : Gap(after, d) = 0
  <2> TAKE d \in Currencies
  <2>1. Gap(after, d) = Gap(mid, d) + (IF d # c THEN 0 ELSE IF target = "total" THEN amount ELSE -amount)
    BY <1>1, <1>3, PostGap
  <2> HIDE DEF after
  <2> QED BY <1>1, <1>4, <2>1
<1>7. Flows(begun, after)
  BY <1>3, <1>5, FlowsCompose
<1>8. Admit(admitted, after)
  BY DEF Transfer, begun, mid
<1> HIDE DEF after
<1>9. Step(at, admitted, after)
  <2> HIDE DEF admitted
  <2> QED BY <1>6, <1>7, <1>8, FlowStep DEF begun
<1>10. admitted \in BOOLEAN /\ (admitted => Funded(Begun(at), after, TRUE))
  BY DEF begun
<1> QED BY <1>9, <1>10

(* Outside cash is posted to a sleeve and to the total. *)
LEMMA ExternalCashSteps ==
  ASSUME Sound(account), NEW at \in Times, NEW sleeve \in Sleeves,
         NEW c \in Currencies, NEW amount \in Int, ExternalCash(at, sleeve, c, amount)
  PROVE  \E admitted \in BOOLEAN : \E after :
           Step(at, admitted, after) /\ (admitted => Funded(Begun(at), after, amount > 0))
<1> DEFINE begun == Begun(at)
           mid == Post(begun, sleeve, c, amount)
           after == Post(mid, "total", c, amount)
           admitted == Funded(begun, after, amount > 0)
<1>1. amount \in Int /\ -amount \in Int /\ sleeve \in Budgets /\ "total" \in Budgets /\ sleeve # "total"
  BY Bounds, Owners
<1>2. begun \in Accounts /\ \A d \in Currencies : Gap(begun, d) = 0
  BY BegunGap
<1> HIDE DEF begun
<1>3. mid \in Accounts /\ Flows(begun, mid)
  BY <1>1, <1>2, PostFlows, PostEffect
<1>4. \A d \in Currencies : Gap(mid, d) = IF d = c THEN -amount ELSE 0
  <2> TAKE d \in Currencies
  <2>1. Gap(mid, d) = Gap(begun, d) + (IF d # c THEN 0 ELSE IF sleeve = "total" THEN amount ELSE -amount)
    BY <1>1, <1>2, PostGap
  <2> HIDE DEF mid
  <2> QED BY <1>1, <1>2, <2>1
<1> HIDE DEF mid
<1>5. Flows(mid, after)
  BY <1>1, <1>3, PostFlows
<1>6. \A d \in Currencies : Gap(after, d) = 0
  <2> TAKE d \in Currencies
  <2> DEFINE e == "total"
  <2>1. Gap(after, d) = Gap(mid, d) + (IF d # c THEN 0 ELSE IF e = "total" THEN amount ELSE -amount)
    BY <1>1, <1>3, PostGap
  <2>2. Gap(after, d) = Gap(mid, d) + (IF d # c THEN 0 ELSE amount)
    BY <2>1
  <2> HIDE DEF after
  <2> QED BY <1>1, <1>4, <2>2
<1>7. Flows(begun, after)
  BY <1>3, <1>5, FlowsCompose
<1>8. Admit(admitted, after)
  BY DEF ExternalCash, begun, mid
<1> HIDE DEF after
<1>9. Step(at, admitted, after)
  <2> HIDE DEF admitted
  <2> QED BY <1>6, <1>7, <1>8, FlowStep DEF begun
<1>10. admitted \in BOOLEAN /\ (admitted => Funded(Begun(at), after, amount > 0))
  BY DEF begun, Funded
<1> QED BY <1>9, <1>10

(* A conversion leaves in one currency and arrives in another, in the book *)
(* of the sleeve and in the total.                                         *)
LEMMA FxConvertSteps ==
  ASSUME Sound(account), NEW at \in Times, NEW sleeve \in Sleeves,
         NEW source \in Currencies, NEW target \in Currencies,
         NEW sold \in Amounts, NEW bought \in Amounts,
         FxConvert(at, sleeve, source, target, sold, bought)
  PROVE  \E admitted \in BOOLEAN : \E after :
           Step(at, admitted, after) /\ (admitted => Funded(Begun(at), after, FALSE))
<1> DEFINE begun == Begun(at)
           p == Post(begun, sleeve, source, -sold)
           q == Post(p, sleeve, target, bought)
           r == Post(q, "total", source, -sold)
           after == Post(r, "total", target, bought)
           admitted == /\ source # target /\ sold <= Free(begun, sleeve, source)
                       /\ Funded(begun, after, FALSE)
           total == "total"
           In(d, c, x) == IF d = c THEN x ELSE 0
<1>1. sold \in Int /\ -sold \in Int /\ bought \in Int /\ sleeve \in Budgets /\ total \in Budgets
      /\ sleeve # "total" /\ total = "total"
  BY Bounds, Owners
<1>2. begun \in Accounts /\ \A d \in Currencies : Gap(begun, d) = 0
  BY BegunGap
<1>3. Admit(admitted, after)
  BY DEF FxConvert
<1> HIDE DEF begun, total
<1>4. p \in Accounts /\ Flows(begun, p)
  BY <1>1, <1>2, PostFlows, PostEffect
<1>5. \A d \in Currencies : Gap(p, d) = In(d, source, sold)
  <2> TAKE d \in Currencies
  <2>1. Gap(p, d) = Gap(begun, d) + (IF d # source THEN 0 ELSE IF sleeve = "total" THEN -sold ELSE -(-sold))
    BY <1>1, <1>2, PostGap
  <2> HIDE DEF p
  <2> QED BY <1>1, <1>2, <2>1
<1> HIDE DEF p
<1>6. q \in Accounts /\ Flows(p, q)
  BY <1>1, <1>4, PostFlows, PostEffect
<1>7. \A d \in Currencies : Gap(q, d) = In(d, source, sold) - In(d, target, bought)
  <2> TAKE d \in Currencies
  <2>1. Gap(q, d) = Gap(p, d) + (IF d # target THEN 0 ELSE IF sleeve = "total" THEN bought ELSE -bought)
    BY <1>1, <1>4, PostGap
  <2> HIDE DEF q
  <2> QED BY <1>1, <1>5, <2>1
<1> HIDE DEF q
<1>8. r \in Accounts /\ Flows(q, r)
  BY <1>1, <1>6, PostFlows, PostEffect DEF total
<1>9. \A d \in Currencies : Gap(r, d) = -In(d, target, bought)
  <2> TAKE d \in Currencies
  <2>1. Gap(Post(q, total, source, -sold), d)
          = Gap(q, d) + (IF d # source THEN 0 ELSE IF total = "total" THEN -sold ELSE -(-sold))
    BY <1>1, <1>6, PostGap
  <2>2. Gap(r, d) = Gap(q, d) + (IF d # source THEN 0 ELSE -sold)
    BY <1>1, <2>1
  <2> HIDE DEF r
  <2> QED BY <1>1, <1>7, <2>2
<1> HIDE DEF r
<1>10. after \in Accounts /\ Flows(r, after)
  BY <1>1, <1>8, PostFlows, PostEffect DEF total
<1>11. \A d \in Currencies : Gap(after, d) = 0
  <2> TAKE d \in Currencies
  <2>1. Gap(Post(r, total, target, bought), d)
          = Gap(r, d) + (IF d # target THEN 0 ELSE IF total = "total" THEN bought ELSE -bought)
    BY <1>1, <1>8, PostGap
  <2>2. Gap(after, d) = Gap(r, d) + (IF d # target THEN 0 ELSE bought)
    BY <1>1, <2>1
  <2> HIDE DEF after
  <2> QED BY <1>1, <1>9, <2>2
<1> HIDE DEF after
<1>12. Flows(begun, after)
  <2>1. Flows(begun, q)
    BY <1>4, <1>6, FlowsCompose
  <2>2. Flows(begun, r)
    BY <1>8, <2>1, FlowsCompose
  <2> QED BY <1>10, <2>2, FlowsCompose
<1>13. Step(at, admitted, after)
  <2> HIDE DEF admitted
  <2> QED BY <1>3, <1>11, <1>12, FlowStep DEF begun
<1>14. admitted \in BOOLEAN /\ (admitted => Funded(Begun(at), after, FALSE))
  BY DEF begun
<1> QED BY <1>13, <1>14

-----------------------------------------------------------------------------
(* An event of an instrument changes the books of its owner and the total  *)
(* alike: cash in its currency by d, its units by u, its cost by k.        *)
Moves(a, z, i, d, u, k) ==
  /\ \A b \in Budgets \ {Owner[i], "total"} : z.books[b] = a.books[b]
  /\ \A b \in {Owner[i], "total"} :
       /\ \A c \in Currencies :
            z.books[b].cash[c] = a.books[b].cash[c] + (IF c = CurrencyOf[i] THEN d ELSE 0)
       /\ \A j \in Instruments :
            z.books[b].units[j] = a.books[b].units[j] + (IF j = i THEN u ELSE 0)
       /\ \A j \in Futures :
            z.books[b].cost[j] = a.books[b].cost[j] + (IF j = i THEN k ELSE 0)

(* Books that add up still do after such an event. *)
LEMMA MovesSound ==
  ASSUME Sound(account), NEW at \in Times, NEW i \in Instruments,
         NEW d \in Int, NEW u \in Int, NEW k \in Int,
         NEW after \in Accounts, after.now = at, Moves(account, after, i, d, u, k),
         i \in CashAssets => account.books[Owner[i]].units[i] + u \in Nat,
         Covered(after)
  PROVE  Sound(after)
<1> DEFINE s == Owner[i]
<1>1. /\ account \in Accounts /\ Attributed(account) /\ LongOnly(account) /\ Balanced(account)
      /\ s \in Sleeves /\ s \in Budgets /\ "total" \in Budgets /\ s # "total"
  BY Owners DEF Sound
<1>2. /\ \A b \in Budgets \ {s, "total"} : after.books[b] = account.books[b]
      /\ \A b \in {s, "total"} :
           /\ \A c \in Currencies :
                after.books[b].cash[c] = account.books[b].cash[c] + (IF c = CurrencyOf[i] THEN d ELSE 0)
           /\ \A j \in Instruments :
                after.books[b].units[j] = account.books[b].units[j] + (IF j = i THEN u ELSE 0)
           /\ \A j \in Futures :
                after.books[b].cost[j] = account.books[b].cost[j] + (IF j = i THEN k ELSE 0)
  BY DEF Moves
<1>3. \A t \in Sleeves \ {s} : after.books[t] = account.books[t]
  BY <1>2, Owners
<1>4. Attributed(after)
  <2>1. ASSUME NEW j \in Instruments
        PROVE  /\ after.books["total"].units[j] = after.books[Owner[j]].units[j]
               /\ \A t \in Sleeves \ {Owner[j]} : after.books[t].units[j] = 0
    <3>1. /\ account.books["total"].units[j] = account.books[Owner[j]].units[j]
          /\ \A t \in Sleeves \ {Owner[j]} : account.books[t].units[j] = 0
          /\ \A b \in Budgets : account.books[b].units[j] \in Int
      BY <1>1, Fields DEF Attributed
    <3>2. CASE j = i
      <4>1. after.books["total"].units[i] = after.books[s].units[i]
        BY <1>1, <1>2, <3>1, <3>2
      <4>2. \A t \in Sleeves \ {s} : after.books[t].units[i] = 0
        BY <1>3, <3>1, <3>2
      <4> QED BY <3>2, <4>1, <4>2
    <3>3. CASE j # i
      <4>1. \A b \in {s, "total"} : after.books[b].units[j] = account.books[b].units[j]
        BY <1>1, <1>2, <3>1, <3>3
      <4>2. \A b \in Budgets : after.books[b].units[j] = account.books[b].units[j]
        BY <1>2, <4>1
      <4> QED BY <3>1, <4>2, Owners
    <3> QED BY <3>2, <3>3
  <2>2. ASSUME NEW j \in Futures
        PROVE  /\ after.books["total"].cost[j] = after.books[Owner[j]].cost[j]
               /\ \A t \in Sleeves \ {Owner[j]} : after.books[t].cost[j] = 0
    <3>1. /\ account.books["total"].cost[j] = account.books[Owner[j]].cost[j]
          /\ \A t \in Sleeves \ {Owner[j]} : account.books[t].cost[j] = 0
          /\ \A b \in Budgets : account.books[b].cost[j] \in Int
      BY <1>1, Fields DEF Attributed
    <3>2. CASE j = i
      <4>1. after.books["total"].cost[i] = after.books[s].cost[i]
        BY <1>1, <1>2, <3>1, <3>2
      <4>2. \A t \in Sleeves \ {s} : after.books[t].cost[i] = 0
        BY <1>3, <3>1, <3>2
      <4> QED BY <3>2, <4>1, <4>2
    <3>3. CASE j # i
      <4>1. \A b \in {s, "total"} : after.books[b].cost[j] = account.books[b].cost[j]
        BY <1>1, <1>2, <3>1, <3>3
      <4>2. \A b \in Budgets : after.books[b].cost[j] = account.books[b].cost[j]
        BY <1>2, <4>1
      <4> QED BY <3>1, <4>2, Owners
    <3> QED BY <3>2, <3>3
  <2> QED BY <2>1, <2>2 DEF Attributed
<1>5. Balanced(after)
  <2>1. ASSUME NEW c \in Currencies PROVE Gap(after, c) = 0
    <3> DEFINE x == IF c = CurrencyOf[i] THEN d ELSE 0
    <3>1. x \in Int /\ Gap(account, c) = 0
      BY <1>1, BalancedIsNoGap
    <3>2. after.books[s].cash[c] = account.books[s].cash[c] + x
          /\ after.books["total"].cash[c] = account.books["total"].cash[c] + x
      BY <1>2
    <3>3. account.books[s].cash[c] \in Int /\ account.books["total"].cash[c] \in Int
      BY <1>1, Fields
    <3>4. Gap(after, c) = Gap(account, c)
                            + (after.books["total"].cash[c] - account.books["total"].cash[c])
                            - (after.books[s].cash[c] - account.books[s].cash[c])
      BY <1>1, <1>3, GapMoves
    <3> HIDE DEF x, s
    <3> QED BY <3>1, <3>2, <3>3, <3>4
  <2> QED BY <2>1, BalancedIsNoGap
<1>6. LongOnly(after)
  <2> SUFFICES ASSUME NEW b \in Budgets, NEW j \in CashAssets PROVE after.books[b].units[j] \in Nat
    BY DEF LongOnly
  <2>1. j \in Instruments /\ account.books[b].units[j] \in Nat
    BY <1>1, Owners DEF LongOnly
  <2>2. CASE b \in {s, "total"} /\ j = i
    <3>1. account.books[b].units[i] = account.books[s].units[i]
      BY <1>1, <2>2 DEF Attributed
    <3>2. account.books[s].units[i] + u \in Nat
      BY <2>2
    <3>3. after.books[b].units[i] = account.books[b].units[i] + u
      BY <1>2, <2>1, <2>2
    <3> QED BY <2>2, <3>1, <3>2, <3>3
  <2>3. CASE b \in {s, "total"} /\ j # i
    <3>1. after.books[b].units[j] = account.books[b].units[j] + 0
      BY <1>2, <2>1, <2>3
    <3> QED BY <2>1, <3>1
  <2>4. CASE b \notin {s, "total"}
    BY <1>2, <2>1, <2>4
  <2> QED BY <2>2, <2>3, <2>4
<1> QED BY <1>4, <1>5, <1>6 DEF Sound

(* What such an event does to the worth of the books: the position gains   *)
(* what the base has lost, beyond its revaluation at the new mark.         *)
LEMMA MovesProfit ==
  ASSUME NEW a \in Accounts, NEW z \in Accounts, NEW i \in Instruments,
         NEW m \in Int, NEW d \in Int, NEW u \in Int, NEW k \in Int, Moves(a, z, i, m, u, k),
         \A b \in {Owner[i], "total"}, c \in Currencies :
           Base(z, b, c) = Base(a, b, c) + (IF c = CurrencyOf[i] THEN d ELSE 0),
         (IF i \in Futures THEN u * z.marks[i] - k ELSE u * z.marks[i]) = -d
  PROVE  Profit(a, z)
<1> SUFFICES ASSUME NEW b \in Budgets, NEW c \in Currencies
             PROVE  Worth(z, b, c) - Worth(a, b, c)
                      = SumFunctionOnSet(Revaluation(a, b, z.marks), Within(c))
  BY DEF Profit
<1> DEFINE move == IF b \in {Owner[i], "total"} THEN -d ELSE 0
<1>1. move \in Int
  OBVIOUS
<1>2. Base(z, b, c) = Base(a, b, c) - (IF c = CurrencyOf[i] THEN move ELSE 0)
  <2>1. Base(a, b, c) \in Int
    BY Values
  <2>2. CASE b \in {Owner[i], "total"}
    <3>1. Base(z, b, c) = Base(a, b, c) + (IF c = CurrencyOf[i] THEN d ELSE 0)
      BY <2>2
    <3> QED BY <2>1, <2>2, <3>1
  <2>3. CASE b \notin {Owner[i], "total"}
    <3>1. Base(z, b, c) = Base(a, b, c)
      BY <2>3 DEF Moves, Base
    <3> QED BY <2>1, <2>3, <3>1
  <2> QED BY <2>2, <2>3
<1>3. ASSUME NEW j \in Instruments
      PROVE  Value(z, b, j) = Value(a, b, j) + a.books[b].units[j] * (z.marks[j] - a.marks[j])
                                + (IF j = i THEN move ELSE 0)
  <2> DEFINE v == a.books[b].units[j]
             w == z.books[b].units[j]
             l == a.marks[j]
             n == z.marks[j]
             vm == v * l
             vn == v * n
             vd == v * (n - l)
             un == u * n
             wn == w * n
             gain == IF j = i THEN move ELSE 0
             more == IF j = i /\ b \in {Owner[i], "total"} THEN u ELSE 0
             cost == IF j = i /\ b \in {Owner[i], "total"} THEN k ELSE 0
  <2>1. v \in Int /\ l \in Int /\ n \in Int /\ w \in Int
    BY Fields
  <2>2. w = v + more
    BY <2>1 DEF Moves
  <2>3. j \in Futures => /\ z.books[b].cost[j] = a.books[b].cost[j] + cost
                         /\ a.books[b].cost[j] \in Int
    BY Fields DEF Moves
  <2>4. vm \in Int /\ vn \in Int /\ vd = vn - vm /\ un \in Int
    <3> HIDE DEF v, l, n
    <3> QED BY <2>1, Products
  <2>5. wn = vn + (IF j = i /\ b \in {Owner[i], "total"} THEN un ELSE 0) /\ wn \in Int
    <3>1. CASE j = i /\ b \in {Owner[i], "total"}
      <4>1. w = v + u
        BY <2>2, <3>1
      <4> HIDE DEF v, w, l, n
      <4>2. wn = vn + un
        BY <2>1, <4>1, Products
      <4> QED BY <2>4, <3>1, <4>2
    <3>2. CASE ~(j = i /\ b \in {Owner[i], "total"})
      <4>1. w = v + 0
        BY <2>2, <3>2
      <4>2. w = v
        <5> HIDE DEF v, w
        <5> QED BY <2>1, <4>1
      <4>3. wn = vn
        BY <4>2
      <4> HIDE DEF vn, wn
      <4> QED BY <2>4, <3>2, <4>3
    <3> QED BY <3>1, <3>2
  <2>6. j = i => (IF j \in Futures THEN un - k ELSE un) = -d
    OBVIOUS
  <2>7. CASE j \in Futures
    <3>1. Value(a, b, j) = vm - a.books[b].cost[j] /\ Value(z, b, j) = wn - z.books[b].cost[j]
      BY <2>7 DEF Value, Pnl
    <3>2. z.books[b].cost[j] = a.books[b].cost[j] + cost /\ a.books[b].cost[j] \in Int
      BY <2>3, <2>7
    <3>3. CASE j = i /\ b \in {Owner[i], "total"}
      <4>1. wn = vn + un /\ cost = k /\ gain = -d /\ un - k = -d
        BY <2>5, <2>6, <2>7, <3>3
      <4> HIDE DEF vm, vn, vd, un, wn, gain, cost
      <4>2. Value(z, b, j) = Value(a, b, j) + vd + gain
        BY <2>4, <3>1, <3>2, <4>1
      <4> QED BY <4>2 DEF vd, gain
    <3>4. CASE ~(j = i /\ b \in {Owner[i], "total"})
      <4>1. wn = vn + 0 /\ cost = 0 /\ gain = 0
        BY <2>5, <3>4
      <4> HIDE DEF vm, vn, vd, un, wn, gain, cost
      <4>2. Value(z, b, j) = Value(a, b, j) + vd + gain
        BY <2>4, <3>1, <3>2, <4>1
      <4> QED BY <4>2 DEF vd, gain
    <3> QED BY <3>3, <3>4
  <2>8. CASE j \notin Futures
    <3>1. Value(a, b, j) = vm /\ Value(z, b, j) = wn
      BY <2>8 DEF Value
    <3>3. CASE j = i /\ b \in {Owner[i], "total"}
      <4>1. wn = vn + un /\ gain = -d /\ un = -d
        BY <2>5, <2>6, <2>8, <3>3
      <4> HIDE DEF vm, vn, vd, un, wn, gain, cost
      <4>2. Value(z, b, j) = Value(a, b, j) + vd + gain
        BY <2>4, <3>1, <4>1
      <4> QED BY <4>2 DEF vd, gain
    <3>4. CASE ~(j = i /\ b \in {Owner[i], "total"})
      <4>1. wn = vn + 0 /\ gain = 0
        BY <2>5, <3>4
      <4> HIDE DEF vm, vn, vd, un, wn, gain, cost
      <4>2. Value(z, b, j) = Value(a, b, j) + vd + gain
        BY <2>4, <3>1, <4>1
      <4> QED BY <4>2 DEF vd, gain
    <3> QED BY <3>3, <3>4
  <2> QED BY <2>7, <2>8
<1> HIDE DEF move
<1> QED BY <1>1, <1>2, <1>3, WorthMoves

-----------------------------------------------------------------------------
(* What the events do to a book: a payment, *)
LEMMA PayEffect ==
  ASSUME NEW book \in Books, NEW d \in Currencies, NEW x \in Nat
  PROVE  LET z == Pay(book, d, x) IN
         /\ z \in Books /\ z.units = book.units /\ z.cost = book.cost /\ z.outside = book.outside
         /\ \A c \in Currencies : /\ z.cash[c] = book.cash[c] + (IF c = d THEN -x ELSE 0)
                                  /\ z.paid[c] = book.paid[c] + (IF c = d THEN x ELSE 0)
<1> DEFINE z == Pay(book, d, x)
<1>1. \A c \in Currencies : book.cash[c] \in Int /\ book.paid[c] \in Nat /\ book.outside[c] \in Int
  BY DEF Books
<1>2. /\ z.cash = [book.cash EXCEPT ![d] = book.cash[d] - x]
      /\ z.paid = [book.paid EXCEPT ![d] = book.paid[d] + x]
      /\ z.units = book.units /\ z.cost = book.cost /\ z.outside = book.outside
  BY DEF Pay, Books
<1>3. book.cash[d] - x \in Int /\ book.paid[d] + x \in Nat
  BY <1>1
<1>4. z \in Books
  BY <1>3 DEF Pay, Books
<1>5. book.cash \in [Currencies -> Int] /\ book.paid \in [Currencies -> Nat]
  BY DEF Books
<1>6. \A c \in Currencies : /\ z.cash[c] = book.cash[c] + (IF c = d THEN -x ELSE 0)
                            /\ z.paid[c] = book.paid[c] + (IF c = d THEN x ELSE 0)
  <2> HIDE DEF z
  <2> QED BY <1>1, <1>2, <1>5
<1> QED BY <1>2, <1>4, <1>6

(* the settlement of a profit or loss, *)
LEMMA RealizedEffect ==
  ASSUME NEW book \in Books, NEW i \in Futures, NEW x \in Int
  PROVE  LET z == Realized(book, i, x) IN
         /\ z \in Books /\ z.units = book.units /\ z.paid = book.paid /\ z.outside = book.outside
         /\ \A c \in Currencies : z.cash[c] = book.cash[c] + (IF c = CurrencyOf[i] THEN x ELSE 0)
         /\ \A j \in Futures : z.cost[j] = book.cost[j] + (IF j = i THEN x ELSE 0)
<1> DEFINE z == Realized(book, i, x)
           d == CurrencyOf[i]
<1>1. d \in Currencies /\ \A c \in Currencies : book.cash[c] \in Int
      /\ \A j \in Futures : book.cost[j] \in Int
  BY Owners DEF Books
<1>2. /\ z.cash = [book.cash EXCEPT ![d] = book.cash[d] + x]
      /\ z.cost = [book.cost EXCEPT ![i] = book.cost[i] + x]
      /\ z.units = book.units /\ z.paid = book.paid /\ z.outside = book.outside
  BY DEF Realized, Increased, Books
<1>3. book.cash[d] + x \in Int /\ book.cost[i] + x \in Int
  BY <1>1
<1>4. z \in Books
  <2> DEFINE cash == Increased(book.cash, d, x)
             cost == Increased(book.cost, i, x)
  <2>1. z = [book EXCEPT !.cash = cash, !.cost = cost]
    BY DEF Realized
  <2>2. cash \in [Currencies -> Int] /\ cost \in [Futures -> Int]
    BY <1>1, <1>3 DEF Books, Increased
  <2> HIDE DEF cash, cost, z, d
  <2> QED BY <2>1, <2>2 DEF Books
<1>5. book.cash \in [Currencies -> Int] /\ book.cost \in [Futures -> Int]
  BY DEF Books
<1>6. \A c \in Currencies : z.cash[c] = book.cash[c] + (IF c = d THEN x ELSE 0)
  <2> HIDE DEF z, d
  <2> QED BY <1>1, <1>2, <1>5
<1>7. \A j \in Futures : z.cost[j] = book.cost[j] + (IF j = i THEN x ELSE 0)
  <2> HIDE DEF z, d
  <2> QED BY <1>1, <1>2, <1>5
<1> QED BY <1>2, <1>4, <1>6, <1>7

(* the fill of a cash asset, *)
LEMMA FillCashEffect ==
  ASSUME NEW book \in Books, NEW i \in Instruments, NEW q \in Int, NEW p \in Int
  PROVE  LET z == FillCash(book, i, q, p) IN
         /\ z \in Books /\ z.cost = book.cost /\ z.paid = book.paid /\ z.outside = book.outside
         /\ \A c \in Currencies : z.cash[c] = book.cash[c] + (IF c = CurrencyOf[i] THEN -(q * p) ELSE 0)
         /\ \A j \in Instruments : z.units[j] = book.units[j] + (IF j = i THEN q ELSE 0)
<1> DEFINE z == FillCash(book, i, q, p)
           d == CurrencyOf[i]
           qp == q * p
<1>1. d \in Currencies /\ \A c \in Currencies : book.cash[c] \in Int
      /\ \A j \in Instruments : book.units[j] \in Int
  BY Owners DEF Books
<1>2. qp \in Int
  BY Products
<1>3. z = [book EXCEPT !.units[i] = book.units[i] + q, !.cash[d] = book.cash[d] - qp]
  BY DEF FillCash
<1> HIDE DEF qp, d, z
<1>4. book.cash[d] - qp \in Int /\ book.units[i] + q \in Int
  BY <1>1, <1>2
<1>5. /\ z.cash = [book.cash EXCEPT ![d] = book.cash[d] - qp]
      /\ z.units = [book.units EXCEPT ![i] = book.units[i] + q]
      /\ z.cost = book.cost /\ z.paid = book.paid /\ z.outside = book.outside
  BY <1>3 DEF Books
<1>6. z \in Books
  BY <1>3, <1>4 DEF Books
<1>7. book.cash \in [Currencies -> Int] /\ book.units \in [Instruments -> Int]
  BY DEF Books
<1>8. \A c \in Currencies : z.cash[c] = book.cash[c] + (IF c = d THEN -qp ELSE 0)
  BY <1>1, <1>2, <1>5, <1>7
<1>9. \A j \in Instruments : z.units[j] = book.units[j] + (IF j = i THEN q ELSE 0)
  BY <1>1, <1>5, <1>7
<1> QED BY <1>5, <1>6, <1>8, <1>9 DEF z, d, qp

(* and the fill of a future, which realizes what it closes.                *)
Closing(old, q)      == IF old * q < 0 THEN Least(Abs(old), Abs(q)) ELSE 0
Sign(q)              == IF q > 0 THEN 1 ELSE -1
Removed(old, k, q)   == IF Closing(old, q) = 0 THEN 0 ELSE Closed(k, Closing(old, q), old)
Settled(old, k, q, p) == -(Sign(q) * Closing(old, q) * p) - Removed(old, k, q)
Opened(old, k, q, p) == Sign(q) * (Abs(q) - Closing(old, q)) * p - Removed(old, k, q)

(* The cost that the fill adds is the price paid less what was settled.    *)
LEMMA FillAmounts ==
  ASSUME NEW old \in Int, NEW k \in Int, NEW q \in Int, NEW p \in Int
  PROVE  /\ Settled(old, k, q, p) \in Int /\ Opened(old, k, q, p) \in Int
         /\ q * p - Opened(old, k, q, p) = -Settled(old, k, q, p)
<1> DEFINE n == Closing(old, q)
           s == Sign(q)
           r == Removed(old, k, q)
           sn == s * n
           so == s * (Abs(q) - n)
           x == sn * p
           y == so * p
           qp == q * p
<1>1. n \in Nat /\ (n # 0 => old # 0) /\ Abs(q) \in Nat
  <2>1. Abs(old) \in Nat /\ Abs(q) \in Nat
    BY DEF Abs
  <2>2. Least(Abs(old), Abs(q)) \in Nat
    BY <2>1 DEF Least
  <2>3. old = 0 => old * q = 0
    OBVIOUS
  <2>4. n \in Nat
    BY <2>2 DEF Closing
  <2>5. n # 0 => old # 0
    BY <2>3 DEF Closing
  <2> QED BY <2>1, <2>4, <2>5
<1>2. s \in Int /\ (s = 1 \/ s = -1) /\ s * Abs(q) = q
  BY DEF Sign, Abs
<1>3. r \in Int
  <2>1. CASE n = 0
    BY <2>1 DEF Removed
  <2>2. CASE n # 0
    <3> DEFINE kn == k * n
               w == Abs(old)
    <3>1. kn \in Int /\ w \in Nat \ {0}
      <4>1. kn \in Int
        <5> HIDE DEF n
        <5> QED BY <1>1, Products
      <4>2. w \in Nat \ {0}
        BY <1>1, <2>2 DEF Abs
      <4> QED BY <4>1, <4>2
    <3>2. r = kn \div w
      BY <2>2 DEF Removed, Closed
    <3> HIDE DEF kn, w
    <3> QED BY <3>1, <3>2
  <2> QED BY <2>1, <2>2
<1>4. Settled(old, k, q, p) = -x - r /\ Opened(old, k, q, p) = y - r
  BY DEF Settled, Opened
<1> HIDE DEF n, s, r
<1>5. sn \in Int /\ so \in Int /\ so = q - sn
  <2>1. s * (Abs(q) - n) = s * Abs(q) - s * n /\ s * n \in Int
    BY <1>1, <1>2, Products
  <2> QED BY <1>2, <2>1
<1> HIDE DEF sn, so
<1>6. x \in Int /\ y \in Int /\ qp \in Int /\ y = qp - x
  <2>1. x \in Int /\ y \in Int /\ qp \in Int
    BY <1>5, Products
  <2>2. (q - sn) * p = q * p - sn * p
    BY <1>5, Products
  <2>3. y = qp - x
    BY <1>5, <2>2
  <2> QED BY <2>1, <2>3
<1> HIDE DEF x, y
<1>7. -x - r \in Int /\ y - r \in Int /\ qp - (y - r) = -(-x - r)
  <2> HIDE DEF qp
  <2> QED BY <1>3, <1>6
<1> QED BY <1>4, <1>7

(* What the fill of a future does to a book. *)
LEMMA FillFutureEffect ==
  ASSUME NEW book \in Books, NEW i \in Futures, NEW q \in Int, NEW p \in Int
  PROVE  LET z == FillFuture(book, i, q, p)
             d == Settled(book.units[i], book.cost[i], q, p)
             k == Opened(book.units[i], book.cost[i], q, p)
         IN
         /\ z \in Books /\ z.paid = book.paid /\ z.outside = book.outside
         /\ \A c \in Currencies : z.cash[c] = book.cash[c] + (IF c = CurrencyOf[i] THEN d ELSE 0)
         /\ \A j \in Instruments : z.units[j] = book.units[j] + (IF j = i THEN q ELSE 0)
         /\ \A j \in Futures : z.cost[j] = book.cost[j] + (IF j = i THEN k ELSE 0)
<1> DEFINE z == FillFuture(book, i, q, p)
           old == book.units[i]
           cost == book.cost[i]
           c0 == CurrencyOf[i]
           d == Settled(old, cost, q, p)
           k == Opened(old, cost, q, p)
           n == Closing(old, q)
           r == Removed(old, cost, q)
           x == Sign(q) * n * p
           y == Sign(q) * (Abs(q) - n) * p
<1>1. /\ c0 \in Currencies /\ \A c \in Currencies : book.cash[c] \in Int
      /\ \A j \in Instruments : book.units[j] \in Int
      /\ \A j \in Futures : book.cost[j] \in Int
      /\ i \in Instruments /\ old \in Int /\ cost \in Int
  BY Owners DEF Books
<1>2. d \in Int /\ k \in Int
  BY <1>1, FillAmounts
<1>3. d = -x - r /\ k = y - r
  BY DEF Settled, Opened
<1>4. z = [book EXCEPT !.units[i] = old + q, !.cost[i] = cost - r + y, !.cash[c0] = book.cash[c0] - x - r]
  BY DEF FillFuture, Removed, Closing, Sign
<1>5. x \in Int /\ y \in Int /\ r \in Int
  <2>1. Sign(q) \in Int /\ Abs(q) \in Nat /\ Abs(old) \in Nat
    BY <1>1 DEF Sign, Abs
  <2>2. n \in Nat
    BY <2>1 DEF Closing, Least
  <2>3. Sign(q) * n \in Int /\ Abs(q) - n \in Int
    <3> HIDE DEF n
    <3> QED BY <2>1, <2>2, Products
  <2>4. Sign(q) * (Abs(q) - n) \in Int
    <3> HIDE DEF n
    <3> QED BY <2>1, <2>2, <2>3, Products
  <2>5. x \in Int /\ y \in Int
    <3> HIDE DEF n
    <3> QED BY <2>3, <2>4, Products
  <2>6. r \in Int
    <3>1. CASE n = 0
      BY <3>1 DEF Removed
    <3>2. CASE n # 0
      <4> DEFINE kn == cost * n
                 w == Abs(old)
      <4>1. old # 0
        <5>1. old = 0 => old * q = 0
          BY <1>1
        <5> QED BY <3>2, <5>1 DEF Closing
      <4>2. w \in Nat \ {0}
        BY <1>1, <4>1 DEF Abs
      <4>3. kn \in Int
        <5> HIDE DEF n, cost
        <5> QED BY <1>1, <2>2, Products
      <4>4. r = kn \div w
        BY <3>2 DEF Removed, Closed
      <4> HIDE DEF kn, w
      <4> QED BY <4>2, <4>3, <4>4
    <3> QED BY <3>1, <3>2
  <2> QED BY <2>5, <2>6
<1> HIDE DEF x, y, r, n, c0, z, d, k
<1>6. cost - r + y \in Int /\ old + q \in Int /\ book.cash[c0] - x - r \in Int
  BY <1>1, <1>5
<1>7. cost - r + y = cost + k /\ book.cash[c0] - x - r = book.cash[c0] + d
  BY <1>1, <1>3, <1>5
<1>8. z = [book EXCEPT !.units[i] = old + q, !.cost[i] = cost + k, !.cash[c0] = book.cash[c0] + d]
  BY <1>4, <1>7
<1>9. cost + k \in Int /\ book.cash[c0] + d \in Int
  BY <1>6, <1>7
<1>10. /\ z.cash = [book.cash EXCEPT ![c0] = book.cash[c0] + d]
       /\ z.units = [book.units EXCEPT ![i] = book.units[i] + q]
       /\ z.cost = [book.cost EXCEPT ![i] = book.cost[i] + k]
       /\ z.paid = book.paid /\ z.outside = book.outside
  BY <1>8 DEF Books
<1>11. z \in Books
  BY <1>1, <1>6, <1>8, <1>9 DEF Books
<1>12. book.cash \in [Currencies -> Int] /\ book.units \in [Instruments -> Int]
       /\ book.cost \in [Futures -> Int]
  BY DEF Books
<1>13. \A c \in Currencies : z.cash[c] = book.cash[c] + (IF c = c0 THEN d ELSE 0)
  BY <1>1, <1>2, <1>10, <1>12
<1>14. \A j \in Instruments : z.units[j] = book.units[j] + (IF j = i THEN q ELSE 0)
  BY <1>1, <1>10, <1>12
<1>15. \A j \in Futures : z.cost[j] = book.cost[j] + (IF j = i THEN k ELSE 0)
  BY <1>1, <1>2, <1>10, <1>12
<1> QED BY <1>10, <1>11, <1>13, <1>14, <1>15 DEF z, d, k, c0

-----------------------------------------------------------------------------
(* An event of an instrument is a step: the books of its owner and of the  *)
(* total move alike, cash by m of which d is not a fee.                    *)
LEMMA TouchedStep ==
  ASSUME Sound(account), NEW at \in Times, NEW i \in Instruments,
         NEW m \in Int, NEW d \in Int, NEW u \in Int, NEW k \in Int,
         NEW after, Event(at, after), Moves(account, after, i, m, u, k),
         \A b \in {Owner[i], "total"}, c \in Currencies :
           Base(after, b, c) = Base(account, b, c) + (IF c = CurrencyOf[i] THEN d ELSE 0),
         (IF i \in Futures THEN u * after.marks[i] - k ELSE u * after.marks[i]) = -d,
         NEW admitted, Admit(admitted, after),
         admitted => /\ i \in CashAssets => account.books[Owner[i]].units[i] + u \in Nat
                     /\ Covered(after)
  PROVE  Step(at, admitted, after)
<1>1. account \in Accounts /\ after \in Accounts /\ after.now = at
  BY DEF Sound, Event
<1>2. admitted => Sound(after)
  BY <1>1, MovesSound
<1>3. Profit(account, after)
  BY <1>1, MovesProfit
<1> QED BY <1>2, <1>3 DEF Step

(* Releasing what is due keeps the rest covered. *)
LEMMA ReleasedCovered ==
  ASSUME Sound(account), NEW after \in Accounts, after.pending \subseteq account.pending,
         \A i \in CashAssets : after.books[Owner[i]].units[i] = account.books[Owner[i]].units[i]
  PROVE  Covered(after)
<1>1. account \in Accounts /\ Covered(account)
  BY DEF Sound
<1> SUFFICES ASSUME NEW i \in CashAssets PROVE OnHold(after, i) <= after.books[Owner[i]].units[i]
  BY DEF Covered
<1>2. OnHold(account, i) <= account.books[Owner[i]].units[i] /\ account.books[Owner[i]].units[i] \in Int
  BY <1>1, Fields, Owners DEF Covered
<1>3. OnHold(after, i) <= OnHold(account, i) /\ OnHold(account, i) \in Nat /\ OnHold(after, i) \in Nat
  BY <1>1, HoldSums
<1> QED BY <1>2, <1>3

(* A charge is paid by the owner of the instrument, and by the total. *)
LEMMA ChargeSteps ==
  ASSUME Sound(account), NEW at \in Times, NEW i \in Instruments, NEW amount \in Amounts,
         Charge(at, i, amount)
  PROVE  \E after : Step(at, TRUE, after)
<1> DEFINE begun == Begun(at)
           c0 == CurrencyOf[i]
           books == [b \in Budgets |-> IF b \in {Owner[i], "total"}
                                         THEN Pay(account.books[b], c0, amount) ELSE account.books[b]]
           after == [begun EXCEPT !.books = books]
<1>1. /\ account \in Accounts /\ at \in Nat /\ amount \in Nat /\ amount \in Int /\ -amount \in Int
      /\ c0 \in Currencies /\ {Owner[i], "total"} \subseteq Budgets
  BY Bounds, Owners DEF Sound
<1>2. /\ begun \in Accounts /\ begun.now = at /\ begun.books = account.books
      /\ begun.pending = {h \in account.pending : h.at > at}
  BY <1>1, BegunFields
<1>3. Admit(TRUE, after)
  BY <1>2 DEF Charge
<1> HIDE DEF begun
<1>4. \A b \in Budgets : account.books[b] \in Books /\ Pay(account.books[b], c0, amount) \in Books
  <2> HIDE DEF c0
  <2> QED BY <1>1, Fields, PayEffect
<1>5. books \in [Budgets -> Books]
  BY <1>4
<1> HIDE DEF c0
<1>6. /\ after \in Accounts /\ after.books = books /\ after.now = at
      /\ after.pending = {h \in account.pending : h.at > at}
  <2> HIDE DEF books
  <2> QED BY <1>2, <1>5, Rebooked
<1>7. ASSUME NEW b \in {Owner[i], "total"}
      PROVE  /\ after.books[b].units = account.books[b].units /\ after.books[b].cost = account.books[b].cost
             /\ after.books[b].outside = account.books[b].outside
             /\ \A c \in Currencies :
                  /\ after.books[b].cash[c] = account.books[b].cash[c] + (IF c = c0 THEN -amount ELSE 0)
                  /\ after.books[b].paid[c] = account.books[b].paid[c] + (IF c = c0 THEN amount ELSE 0)
  <2>1. after.books[b] = Pay(account.books[b], c0, amount) /\ account.books[b] \in Books
    BY <1>1, <1>4, <1>6
  <2>2. c0 \in Currencies /\ amount \in Nat
    BY <1>1
  <2> DEFINE old == account.books[b]
             new == after.books[b]
  <2> HIDE DEF after, books, old, new, c0
  <2>3. new = Pay(old, c0, amount) /\ old \in Books
    BY <2>1 DEF old, new
  <2>4. /\ new.units = old.units /\ new.cost = old.cost /\ new.outside = old.outside
        /\ \A c \in Currencies : /\ new.cash[c] = old.cash[c] + (IF c = c0 THEN -amount ELSE 0)
                                 /\ new.paid[c] = old.paid[c] + (IF c = c0 THEN amount ELSE 0)
    BY <2>2, <2>3, PayEffect
  <2> QED BY <2>4 DEF old, new
<1>8. \A b \in Budgets \ {Owner[i], "total"} : after.books[b] = account.books[b]
  BY <1>6
<1> HIDE DEF after, books
<1>9. Moves(account, after, i, -amount, 0, 0)
  <2>1. \A b \in {Owner[i], "total"}, j \in Instruments : account.books[b].units[j] \in Int
    BY <1>1, Fields
  <2>2. \A b \in {Owner[i], "total"}, j \in Futures : account.books[b].cost[j] \in Int
    BY <1>1, Fields
  <2>3. ASSUME NEW b \in {Owner[i], "total"}
        PROVE  /\ \A j \in Instruments :
                    after.books[b].units[j] = account.books[b].units[j] + (IF j = i THEN 0 ELSE 0)
               /\ \A j \in Futures :
                    after.books[b].cost[j] = account.books[b].cost[j] + (IF j = i THEN 0 ELSE 0)
    BY <1>7, <2>1, <2>2
  <2> QED BY <1>7, <1>8, <2>3 DEF Moves, c0
<1>10. \A b \in {Owner[i], "total"}, c \in Currencies :
           Base(after, b, c) = Base(account, b, c) + (IF c = CurrencyOf[i] THEN 0 ELSE 0)
  <2> TAKE b \in {Owner[i], "total"}, c \in Currencies
  <2>1. /\ account.books[b].cash[c] \in Int /\ account.books[b].paid[c] \in Int
        /\ account.books[b].outside[c] \in Int
    BY <1>1, Fields
  <2>2. /\ after.books[b].cash[c] = account.books[b].cash[c] + (IF c = c0 THEN -amount ELSE 0)
        /\ after.books[b].paid[c] = account.books[b].paid[c] + (IF c = c0 THEN amount ELSE 0)
        /\ after.books[b].outside[c] = account.books[b].outside[c]
    BY <1>7
  <2> QED BY <1>1, <2>1, <2>2 DEF Base
<1>11. (IF i \in Futures THEN 0 * after.marks[i] - 0 ELSE 0 * after.marks[i]) = -0
  BY <1>6, Fields
<1>12. Event(at, after)
  BY <1>6 DEF Event
<1>13. i \in CashAssets => account.books[Owner[i]].units[i] + 0 \in Nat
  BY <1>1 DEF Sound, LongOnly
<1>14. Covered(after)
  <2>1. \A j \in CashAssets : after.books[Owner[j]].units[j] = account.books[Owner[j]].units[j]
    BY <1>7, <1>8, Owners
  <2> QED BY <1>6, <2>1, ReleasedCovered
<1>15. PICK m \in Int, d \in Int, u \in Int, k \in Int :
         /\ Moves(account, after, i, m, u, k)
         /\ \A b \in {Owner[i], "total"}, c \in Currencies :
              Base(after, b, c) = Base(account, b, c) + (IF c = CurrencyOf[i] THEN d ELSE 0)
         /\ (IF i \in Futures THEN u * after.marks[i] - k ELSE u * after.marks[i]) = -d
         /\ i \in CashAssets => account.books[Owner[i]].units[i] + u \in Nat
  <2> USE <1>1
  <2> WITNESS -amount \in Int, 0 \in Int, 0 \in Int, 0 \in Int
  <2> QED BY <1>9, <1>10, <1>11, <1>13
<1>16. Step(at, TRUE, after)
  BY <1>3, <1>12, <1>14, <1>15, TouchedStep
<1> QED BY <1>16

(* Variation margin turns the profit at the settlement price into cash. *)
LEMMA VariationMarginSteps ==
  ASSUME Sound(account), NEW at \in Times, NEW i \in Futures, NEW price \in Prices,
         VariationMargin(at, i, price)
  PROVE  \E after : Step(at, TRUE, after)
<1> DEFINE marked == [Begun(at) EXCEPT !.marks[i] = price]
           x == Pnl(marked, Owner[i], i)
           books == [b \in Budgets |-> IF b \in {Owner[i], "total"}
                                         THEN Realized(account.books[b], i, x) ELSE account.books[b]]
           after == [marked EXCEPT !.books = books]
<1>1. /\ account \in Accounts /\ at \in Nat /\ i \in Instruments
      /\ {Owner[i], "total"} \subseteq Budgets /\ Owner[i] \in Sleeves
      /\ account.books["total"].units[i] = account.books[Owner[i]].units[i]
      /\ account.books["total"].cost[i] = account.books[Owner[i]].cost[i]
  BY Bounds, Owners DEF Sound, Attributed
<1>2. /\ marked \in Accounts /\ marked.now = at /\ marked.books = account.books
      /\ marked.pending = {h \in account.pending : h.at > at} /\ marked.marks[i] = price
  BY <1>1, BegunFields, Remarked
<1>3. Admit(TRUE, [marked EXCEPT !.books =
                     [b \in Budgets |-> IF b \in {Owner[i], "total"}
                                          THEN Realized(account.books[b], i, Pnl(marked, b, i))
                                          ELSE account.books[b]]])
  BY <1>2 DEF VariationMargin
<1> HIDE DEF marked
<1>4. \A b \in {Owner[i], "total"} : Pnl(marked, b, i) = x
  BY <1>1, <1>2 DEF Pnl
<1>5. x \in Int
  BY <1>1, <1>2, Values
<1>6. Admit(TRUE, after)
  <2> HIDE DEF x
  <2>1. books = [b \in Budgets |-> IF b \in {Owner[i], "total"}
                                          THEN Realized(account.books[b], i, Pnl(marked, b, i))
                                          ELSE account.books[b]]
    BY <1>4
  <2> QED BY <1>3, <2>1
<1>7. \A b \in Budgets : account.books[b] \in Books /\ Realized(account.books[b], i, x) \in Books
  <2> HIDE DEF x
  <2> QED BY <1>1, <1>5, Fields, RealizedEffect
<1>8. books \in [Budgets -> Books]
  <2> HIDE DEF x
  <2> QED BY <1>7
<1> HIDE DEF x
<1>9. /\ after \in Accounts /\ after.books = books /\ after.now = at /\ after.marks[i] = price
      /\ after.pending = {h \in account.pending : h.at > at}
  <2> HIDE DEF books
  <2> QED BY <1>2, <1>8, Rebooked
<1>10. ASSUME NEW b \in {Owner[i], "total"}
       PROVE  /\ after.books[b].units = account.books[b].units /\ after.books[b].paid = account.books[b].paid
              /\ after.books[b].outside = account.books[b].outside
              /\ \A c \in Currencies :
                   after.books[b].cash[c] = account.books[b].cash[c] + (IF c = CurrencyOf[i] THEN x ELSE 0)
              /\ \A j \in Futures :
                   after.books[b].cost[j] = account.books[b].cost[j] + (IF j = i THEN x ELSE 0)
  <2>1. after.books[b] = Realized(account.books[b], i, x) /\ account.books[b] \in Books
    BY <1>1, <1>7, <1>9
  <2> DEFINE old == account.books[b]
             new == after.books[b]
  <2> HIDE DEF after, books, old, new
  <2>2. new = Realized(old, i, x) /\ old \in Books
    BY <2>1 DEF old, new
  <2>3. /\ new.units = old.units /\ new.paid = old.paid /\ new.outside = old.outside
        /\ \A c \in Currencies : new.cash[c] = old.cash[c] + (IF c = CurrencyOf[i] THEN x ELSE 0)
        /\ \A j \in Futures : new.cost[j] = old.cost[j] + (IF j = i THEN x ELSE 0)
    BY <1>5, <2>2, RealizedEffect
  <2> QED BY <2>3 DEF old, new
<1>11. \A b \in Budgets \ {Owner[i], "total"} : after.books[b] = account.books[b]
  BY <1>9
<1> HIDE DEF after, books
<1>12. Moves(account, after, i, x, 0, x)
  <2>1. \A b \in {Owner[i], "total"}, j \in Instruments : account.books[b].units[j] \in Int
    BY <1>1, Fields
  <2>2. ASSUME NEW b \in {Owner[i], "total"}
        PROVE  \A j \in Instruments :
                 after.books[b].units[j] = account.books[b].units[j] + (IF j = i THEN 0 ELSE 0)
    BY <1>10, <2>1
  <2> QED BY <1>10, <1>11, <2>2 DEF Moves
<1>13. \A b \in {Owner[i], "total"}, c \in Currencies :
           Base(after, b, c) = Base(account, b, c) + (IF c = CurrencyOf[i] THEN x ELSE 0)
  <2> TAKE b \in {Owner[i], "total"}, c \in Currencies
  <2>1. /\ account.books[b].cash[c] \in Int /\ account.books[b].paid[c] \in Int
        /\ account.books[b].outside[c] \in Int
    BY <1>1, Fields
  <2>2. /\ after.books[b].cash[c] = account.books[b].cash[c] + (IF c = CurrencyOf[i] THEN x ELSE 0)
        /\ after.books[b].paid[c] = account.books[b].paid[c]
        /\ after.books[b].outside[c] = account.books[b].outside[c]
    BY <1>10
  <2> QED BY <1>5, <2>1, <2>2 DEF Base
<1>14. (IF i \in Futures THEN 0 * after.marks[i] - x ELSE 0 * after.marks[i]) = -x
  <2>1. 0 * after.marks[i] = 0
    BY <1>1, <1>9, Fields
  <2> QED BY <1>5, <2>1
<1>15. Event(at, after)
  BY <1>9 DEF Event
<1>16. i \notin CashAssets
  BY Owners
<1>17. Covered(after)
  <2>1. \A j \in CashAssets : after.books[Owner[j]].units[j] = account.books[Owner[j]].units[j]
    BY <1>10, <1>11, Owners
  <2> QED BY <1>9, <2>1, ReleasedCovered
<1>18. PICK m \in Int, d \in Int, u \in Int, k \in Int :
         /\ Moves(account, after, i, m, u, k)
         /\ \A b \in {Owner[i], "total"}, c \in Currencies :
              Base(after, b, c) = Base(account, b, c) + (IF c = CurrencyOf[i] THEN d ELSE 0)
         /\ (IF i \in Futures THEN u * after.marks[i] - k ELSE u * after.marks[i]) = -d
  <2> USE <1>5
  <2> WITNESS x \in Int, x \in Int, 0 \in Int, x \in Int
  <2> QED BY <1>12, <1>13, <1>14
<1>19. Step(at, TRUE, after)
  BY <1>1, <1>6, <1>15, <1>16, <1>17, <1>18, TouchedStep
<1> QED BY <1>19

-----------------------------------------------------------------------------
(* A new hold adds no more than its units to what is on hold. *)
LEMMA HoldAdded ==
  ASSUME NEW a \in Accounts, NEW z \in Accounts, NEW w \in Holds, z.pending = a.pending \cup {w}
  PROVE  \A i : /\ OnHold(z, i) \in Nat /\ OnHold(a, i) \in Nat
                /\ OnHold(z, i) <= OnHold(a, i) + (IF w.instrument = i THEN w.units ELSE 0)
<1> SUFFICES ASSUME NEW i
             PROVE  /\ OnHold(z, i) \in Nat /\ OnHold(a, i) \in Nat
                    /\ OnHold(z, i) <= OnHold(a, i) + (IF w.instrument = i THEN w.units ELSE 0)
  OBVIOUS
<1> DEFINE f == [h \in a.pending |-> h.units]
           g == [h \in z.pending |-> h.units]
           S == {h \in a.pending : h.instrument = i}
           T == {h \in z.pending : h.instrument = i}
           F == SumFunctionOnSet(f, S)
           G == SumFunctionOnSet(g, T)
<1>1. OnHold(a, i) \in Nat /\ OnHold(z, i) \in Nat /\ w.units \in Nat
  BY HoldSums DEF Holds
<1>2. OnHold(a, i) = F /\ OnHold(z, i) = G
  BY DEF OnHold
<1>3. T = IF w.instrument = i THEN S \cup {w} ELSE S
  OBVIOUS
<1>4. IsFiniteSet(a.pending) /\ \A h \in a.pending : h.units \in Nat
  BY Fields
<1>5. Summable(f, S) /\ \A h \in S : f[h] = g[h]
  <2>1. S \in SUBSET a.pending
    OBVIOUS
  <2>2. \A h \in S : f[h] \in Int /\ f[h] = g[h]
    BY <1>4
  <2> HIDE DEF f, S
  <2> QED BY <1>4, <2>1, <2>2, FS_Subset DEF Summable
<1>6. Summable(g, S) /\ F = SumFunctionOnSet(g, S)
  <2> HIDE DEF f, g, S
  <2> QED BY <1>5, SumSame
<1>7. CASE T = S
  <2>1. G = F
    BY <1>6, <1>7
  <2> HIDE DEF F, G
  <2> QED BY <1>1, <1>2, <2>1
<1>8. CASE w.instrument = i /\ w \notin S
  <2>1. T = S \cup {w} /\ g[w] = w.units
    BY <1>3, <1>8
  <2>2. g[w] \in Int
    BY <1>1, <2>1
  <2>3. SumFunctionOnSet(g, S \cup {w}) = g[w] + SumFunctionOnSet(g, S)
    <3> HIDE DEF g, S
    <3> QED BY <1>6, <1>8, <2>2, SumAdd
  <2>4. G = w.units + F
    BY <1>6, <2>1, <2>3
  <2> HIDE DEF F, G
  <2> QED BY <1>1, <1>2, <1>8, <2>4
<1> QED BY <1>3, <1>7, <1>8

(* What an order may leave: no budget below zero nor below where it was. *)
Orderly(at, admitted, after) ==
  /\ Step(at, admitted, after)
  /\ admitted => \E curing : Funded(Begun(at), after, curing)

(* A fill posts price, fill and fee to the books of the owner and of the   *)
(* total, and holds what has not settled.                                  *)
LEMMA FillSteps ==
  ASSUME Sound(account), count \in Nat, NEW at \in Times, NEW i \in Instruments,
         NEW quantity \in Quantities, NEW price \in Prices, NEW fee \in Fees,
         NEW settles \in Times, Fill(at, i, quantity, price, fee, settles)
  PROVE  \E admitted \in BOOLEAN : \E after : Orderly(at, admitted, after)
<1> DEFINE sleeve == Owner[i]
           c0 == CurrencyOf[i]
           begun == Begun(at)
           old == begun.books[sleeve].units[i]
           final == old + quantity
           filled(b) == IF i \in Futures THEN FillFuture(begun.books[b], i, quantity, price)
                                         ELSE FillCash(begun.books[b], i, quantity, price)
           books == [b \in Budgets |-> IF b \in {sleeve, "total"}
                                         THEN Pay(filled(b), c0, fee) ELSE begun.books[b]]
           marks == [begun.marks EXCEPT ![i] = price]
           pending == IF i \in CashAssets /\ settles > at
                        THEN begun.pending \cup Hold(i, quantity, price, settles) ELSE begun.pending
           after == [begun EXCEPT !.marks = marks, !.books = books, !.pending = pending]
           reducing == Abs(final) < Abs(old) /\ old * final >= 0
           admitted == /\ settles >= at
                       /\ i \in CashAssets =>
                            /\ final >= 0 /\ (quantity < 0 => -quantity <= old - OnHold(begun, i))
                            /\ quantity > 0 => quantity * price + fee <= Free(begun, sleeve, c0)
                            /\ fee > 0 => \A b \in {sleeve, "total"} : after.books[b].cash[c0] >= 0
                       /\ Funded(begun, after, reducing)
<1>1. Admit(admitted, after)
  BY DEF Fill
<1>2. /\ admitted \in BOOLEAN
      /\ admitted => \E curing : Funded(Begun(at), after, curing)
      /\ admitted => (i \in CashAssets => final >= 0 /\ (quantity < 0 => -quantity <= old - OnHold(begun, i)))
  <2> HIDE DEF after, reducing, final, old
  <2> QED OBVIOUS
<1> HIDE DEF admitted, reducing
<1>3. /\ account \in Accounts /\ at \in Nat /\ settles \in Nat /\ quantity \in Int /\ quantity # 0
      /\ price \in Nat /\ fee \in Nat /\ c0 \in Currencies /\ sleeve \in Sleeves
      /\ {sleeve, "total"} \subseteq Budgets
  BY Bounds, Owners DEF Sound
<1>4. /\ begun \in Accounts /\ begun.now = at /\ begun.books = account.books
      /\ begun.pending = {h \in account.pending : h.at > at} /\ begun.marks = account.marks
  BY <1>3, BegunFields
<1> HIDE DEF begun
<1>5. \A b \in Budgets : begun.books[b] \in Books /\ filled(b) \in Books
  <2> TAKE b \in Budgets
  <2>1. begun.books[b] \in Books
    BY <1>4, Fields
  <2>2. FillCash(begun.books[b], i, quantity, price) \in Books
    BY <1>3, <2>1, FillCashEffect
  <2>3. i \in Futures => FillFuture(begun.books[b], i, quantity, price) \in Books
    BY <1>3, <2>1, FillFutureEffect
  <2> QED BY <2>1, <2>2, <2>3
<1>6. books \in [Budgets -> Books]
  <2>1. \A b \in Budgets : Pay(filled(b), c0, fee) \in Books
    <3> HIDE DEF filled, c0
    <3> QED BY <1>3, <1>5, PayEffect
  <2> HIDE DEF filled
  <2> QED BY <1>5, <2>1
<1>7. marks \in [Instruments -> Prices \cup {Unmarked}]
  BY <1>4 DEF Accounts
<1>8. (i \in CashAssets /\ settles > at) =>
        \E w \in Holds : /\ pending = begun.pending \cup {w}
                         /\ w.instrument = i /\ w.units = Positive(quantity) /\ w.at = settles
  <2> SUFFICES ASSUME i \in CashAssets, settles > at
               PROVE  \E w \in Holds : /\ pending = begun.pending \cup {w}
                                       /\ w.instrument = i /\ w.units = Positive(quantity) /\ w.at = settles
    OBVIOUS
  <2> DEFINE w == [id |-> count, sleeve |-> Owner[i], currency |-> CurrencyOf[i], instrument |-> i,
                   at |-> settles, units |-> Positive(quantity), cash |-> Positive(-quantity) * price]
  <2>1. Positive(quantity) \in Nat /\ Positive(-quantity) \in Nat
    BY <1>3 DEF Positive
  <2>2. Positive(-quantity) * price \in Nat
    BY <1>3, <2>1, Products
  <2>3. w \in Holds
    BY <1>3, <2>1, <2>2 DEF Holds
  <2>4. pending = begun.pending \cup {w}
    BY DEF Hold
  <2> QED BY <2>3, <2>4
<1>9. ~(i \in CashAssets /\ settles > at) => pending = begun.pending
  OBVIOUS
<1>10. begun.pending \in SUBSET Holds /\ IsFiniteSet(begun.pending)
  BY <1>4, Fields
<1>11. pending \in {P \in SUBSET Holds : IsFiniteSet(P)}
  <2> HIDE DEF pending
  <2> QED BY <1>8, <1>9, <1>10, FS_AddElement
<1>12. after = [begun EXCEPT !.marks = marks, !.books = books, !.pending = pending]
  OBVIOUS
<1> HIDE DEF pending, marks, books, after
<1>13. /\ after \in Accounts /\ after.marks = marks /\ after.books = books
       /\ after.pending = pending /\ after.now = at
  BY <1>4, <1>6, <1>7, <1>11, <1>12 DEF Accounts
<1>14. Event(at, after)
  <2>1. {h \in account.pending : h.at > at} \subseteq after.pending
    BY <1>4, <1>8, <1>9, <1>13
  <2>2. \A h \in after.pending : h.at > at
    BY <1>4, <1>8, <1>9, <1>13
  <2> QED BY <1>13, <2>1, <2>2 DEF Event
<1>15. after.marks[i] = price
  BY <1>4, <1>13 DEF marks, Accounts
<1>16. /\ old = account.books[sleeve].units[i] /\ old \in Int
       /\ account.books["total"].units[i] = old
       /\ i \in Futures => account.books["total"].cost[i] = account.books[sleeve].cost[i]
  BY <1>3, <1>4, Fields DEF Sound, Attributed
<1> DEFINE cost == account.books[sleeve].cost[i]
           d == IF i \in Futures THEN Settled(old, cost, quantity, price) ELSE -(quantity * price)
           k == IF i \in Futures THEN Opened(old, cost, quantity, price) ELSE 0
           m == d - fee
<1>17. /\ d \in Int /\ k \in Int /\ m \in Int
       /\ (IF i \in Futures THEN quantity * after.marks[i] - k ELSE quantity * after.marks[i]) = -d
  <2>1. CASE i \in Futures
    <3>1. cost \in Int
      BY <1>3, <2>1, Fields
    <3>2. /\ Settled(old, cost, quantity, price) \in Int /\ Opened(old, cost, quantity, price) \in Int
          /\ quantity * price - Opened(old, cost, quantity, price) = -Settled(old, cost, quantity, price)
      <4> HIDE DEF old, cost
      <4>1. old \in Int /\ cost \in Int /\ quantity \in Int /\ price \in Int
        BY <1>3, <1>16, <3>1
      <4> QED BY <4>1, FillAmounts, Zenon
    <3>3. d \in Int /\ k \in Int /\ quantity * after.marks[i] - k = -d
      BY <1>15, <2>1, <3>2
    <3> HIDE DEF d, k
    <3> QED BY <1>3, <2>1, <3>3
  <2>2. CASE i \notin Futures
    <3> DEFINE qp == quantity * price
    <3>1. qp \in Int /\ d = -qp /\ k = 0 /\ quantity * after.marks[i] = qp
      BY <1>3, <1>15, <2>2, Products
    <3> HIDE DEF d, k, qp
    <3>2. d \in Int /\ k \in Int /\ m \in Int /\ qp = -d
      BY <1>3, <3>1
    <3> QED BY <2>2, <3>1, <3>2
  <2> QED BY <2>1, <2>2
<1>18. ASSUME NEW b \in {sleeve, "total"}
       PROVE  /\ \A c \in Currencies :
                   /\ after.books[b].cash[c] = account.books[b].cash[c] + (IF c = c0 THEN m ELSE 0)
                   /\ after.books[b].paid[c] = account.books[b].paid[c] + (IF c = c0 THEN fee ELSE 0)
                   /\ after.books[b].outside[c] = account.books[b].outside[c]
              /\ \A j \in Instruments :
                   after.books[b].units[j] = account.books[b].units[j] + (IF j = i THEN quantity ELSE 0)
              /\ \A j \in Futures :
                   after.books[b].cost[j] = account.books[b].cost[j] + (IF j = i THEN k ELSE 0)
  <2> DEFINE y == filled(b)
  <2>1. b \in Budgets /\ account.books[b] \in Books
    BY <1>3, Fields
  <2>2. /\ y \in Books /\ y.paid = account.books[b].paid /\ y.outside = account.books[b].outside
        /\ \A c \in Currencies : y.cash[c] = account.books[b].cash[c] + (IF c = c0 THEN d ELSE 0)
        /\ \A j \in Instruments :
             y.units[j] = account.books[b].units[j] + (IF j = i THEN quantity ELSE 0)
        /\ \A j \in Futures : y.cost[j] = account.books[b].cost[j] + (IF j = i THEN k ELSE 0)
    <3>1. CASE i \in Futures
      <4>1. y = FillFuture(account.books[b], i, quantity, price)
        BY <1>4, <3>1
      <4>2. account.books[b].units[i] = old /\ account.books[b].cost[i] = cost
        BY <1>16, <3>1
      <4>3. d = Settled(account.books[b].units[i], account.books[b].cost[i], quantity, price)
            /\ k = Opened(account.books[b].units[i], account.books[b].cost[i], quantity, price)
        BY <3>1, <4>2
      <4> HIDE DEF y, d, k, cost, old, filled
      <4> QED BY <1>3, <2>1, <3>1, <4>1, <4>3, FillFutureEffect
    <3>2. CASE i \notin Futures
      <4>1. y = FillCash(account.books[b], i, quantity, price)
        BY <1>4, <3>2
      <4>2. d = -(quantity * price) /\ k = 0
        BY <3>2
      <4>3. \A j \in Futures : account.books[b].cost[j] \in Int
        BY <1>3, <2>1, Fields
      <4> HIDE DEF y, filled, old, cost
      <4>4. /\ y \in Books /\ y.cost = account.books[b].cost
            /\ y.paid = account.books[b].paid /\ y.outside = account.books[b].outside
            /\ \A c \in Currencies :
                 y.cash[c] = account.books[b].cash[c] + (IF c = c0 THEN -(quantity * price) ELSE 0)
            /\ \A j \in Instruments :
                 y.units[j] = account.books[b].units[j] + (IF j = i THEN quantity ELSE 0)
        BY <1>3, <2>1, <4>1, FillCashEffect
      <4>5. \A j \in Futures : y.cost[j] = account.books[b].cost[j] + (IF j = i THEN k ELSE 0)
        <5> HIDE DEF d
        <5> QED BY <4>2, <4>3, <4>4
      <4>6. \A c \in Currencies : y.cash[c] = account.books[b].cash[c] + (IF c = c0 THEN d ELSE 0)
        <5> HIDE DEF k
        <5> QED BY <4>2, <4>4
      <4> HIDE DEF d, k
      <4> QED BY <4>4, <4>5, <4>6
    <3> QED BY <3>1, <3>2
  <2>3. after.books[b] = Pay(y, c0, fee)
    BY <1>13, <2>1 DEF books
  <2> HIDE DEF y, filled
  <2>4. /\ after.books[b].units = y.units /\ after.books[b].cost = y.cost
        /\ after.books[b].outside = y.outside
        /\ \A c \in Currencies : /\ after.books[b].cash[c] = y.cash[c] + (IF c = c0 THEN -fee ELSE 0)
                                 /\ after.books[b].paid[c] = y.paid[c] + (IF c = c0 THEN fee ELSE 0)
    <3> HIDE DEF c0
    <3>1. y \in Books /\ c0 \in Currencies /\ fee \in Nat
      BY <1>3, <2>2
    <3> QED BY <2>3, <3>1, PayEffect
  <2>5. \A c \in Currencies :
          after.books[b].cash[c] = account.books[b].cash[c] + (IF c = c0 THEN m ELSE 0)
    <3> TAKE c \in Currencies
    <3>1. account.books[b].cash[c] \in Int
      BY <1>3, <2>1, Fields
    <3>2. y.cash[c] = account.books[b].cash[c] + (IF c = c0 THEN d ELSE 0)
          /\ after.books[b].cash[c] = y.cash[c] + (IF c = c0 THEN -fee ELSE 0)
      BY <2>2, <2>4
    <3>3. d \in Int /\ m = d - fee /\ fee \in Nat
      BY <1>3, <1>17
    <3> HIDE DEF d, m, c0
    <3> QED BY <3>1, <3>2, <3>3
  <2> HIDE DEF d, k, m
  <2> QED BY <2>2, <2>4, <2>5
<1>19. \A b \in Budgets \ {Owner[i], "total"} : after.books[b] = account.books[b]
  BY <1>4, <1>13 DEF books
<1> HIDE DEF filled, d, k, m
<1>20. Moves(account, after, i, m, quantity, k)
  BY <1>18, <1>19 DEF Moves
<1>21. \A b \in {Owner[i], "total"}, c \in Currencies :
           Base(after, b, c) = Base(account, b, c) + (IF c = CurrencyOf[i] THEN d ELSE 0)
  <2> TAKE b \in {Owner[i], "total"}, c \in Currencies
  <2>1. /\ account.books[b].cash[c] \in Int /\ account.books[b].paid[c] \in Int
        /\ account.books[b].outside[c] \in Int
    BY <1>3, Fields
  <2>2. /\ after.books[b].cash[c] = account.books[b].cash[c] + (IF c = c0 THEN m ELSE 0)
        /\ after.books[b].paid[c] = account.books[b].paid[c] + (IF c = c0 THEN fee ELSE 0)
        /\ after.books[b].outside[c] = account.books[b].outside[c]
    BY <1>18
  <2>3. m = d - fee
    BY DEF m
  <2> QED BY <1>3, <1>17, <2>1, <2>2, <2>3 DEF Base
<1>22. admitted => /\ i \in CashAssets => account.books[Owner[i]].units[i] + quantity \in Nat
                   /\ Covered(after)
  <2> SUFFICES ASSUME admitted
               PROVE  /\ i \in CashAssets => account.books[Owner[i]].units[i] + quantity \in Nat
                      /\ Covered(after)
    OBVIOUS
  <2>1. i \in CashAssets => final >= 0 /\ (quantity < 0 => -quantity <= old - OnHold(begun, i))
    BY <1>2
  <2>2. i \in CashAssets => account.books[Owner[i]].units[i] + quantity \in Nat
    BY <1>3, <1>16, <2>1
  <2>3. \A j : OnHold(begun, j) <= OnHold(account, j) /\ OnHold(begun, j) \in Nat /\ OnHold(account, j) \in Nat
    <3>1. begun.pending \subseteq account.pending
      BY <1>4
    <3> QED BY <1>3, <1>4, <3>1, HoldSums
  <2>4. ASSUME NEW j \in CashAssets PROVE OnHold(after, j) <= after.books[Owner[j]].units[j]
    <3>1. /\ OnHold(account, j) <= account.books[Owner[j]].units[j]
          /\ account.books[Owner[j]].units[j] \in Int /\ j \in Instruments
      BY <1>3, Fields, Owners DEF Sound, Covered
    <3>2. OnHold(after, j) \in Nat
          /\ OnHold(after, j) <= OnHold(begun, j) + (IF j = i THEN Positive(quantity) ELSE 0)
      <4>1. Positive(quantity) \in Nat
        BY <1>3 DEF Positive
      <4>2. CASE i \in CashAssets /\ settles > at
        <5>1. PICK w \in Holds : /\ pending = begun.pending \cup {w}
                                 /\ w.instrument = i /\ w.units = Positive(quantity) /\ w.at = settles
          BY <1>8, <4>2
        <5>2. OnHold(after, j) \in Nat
              /\ OnHold(after, j) <= OnHold(begun, j) + (IF w.instrument = j THEN w.units ELSE 0)
          BY <1>4, <1>13, <5>1, HoldAdded
        <5> QED BY <5>1, <5>2
      <4>3. CASE ~(i \in CashAssets /\ settles > at)
        <5>1. after.pending = begun.pending
          BY <1>9, <1>13, <4>3
        <5>2. OnHold(after, j) = OnHold(begun, j)
          BY <5>1 DEF OnHold
        <5> QED BY <2>3, <4>1, <5>2
      <4> QED BY <4>2, <4>3
    <3>3. CASE j = i
      <4>1. after.books[sleeve].units[i] = old + quantity
        BY <1>3, <1>16, <1>18
      <4>2. OnHold(begun, i) <= old /\ OnHold(begun, i) \in Nat
        <5>1. OnHold(account, i) <= old /\ OnHold(begun, i) <= OnHold(account, i)
              /\ OnHold(begun, i) \in Nat /\ OnHold(account, i) \in Nat
          BY <1>16, <2>3, <3>1, <3>3
        <5> HIDE DEF old
        <5> QED BY <1>16, <5>1
      <4>3. quantity < 0 => -quantity <= old - OnHold(begun, i)
        BY <2>1, <3>3
      <4>4. OnHold(after, i) <= OnHold(begun, i) + (IF quantity > 0 THEN quantity ELSE 0) /\ OnHold(after, i) \in Nat
        BY <3>2, <3>3 DEF Positive
      <4>5. OnHold(after, i) <= old + quantity
        <5> HIDE DEF old
        <5> QED BY <1>3, <1>16, <4>2, <4>3, <4>4
      <4> QED BY <3>3, <4>1, <4>5
    <3>4. CASE j # i
      <4>1. after.books[Owner[j]].units[j] = account.books[Owner[j]].units[j]
        <5>1. \A b \in {sleeve, "total"} : after.books[b].units[j] = account.books[b].units[j] + 0
          BY <1>18, <3>1, <3>4
        <5>2. Owner[j] \in {sleeve, "total"} => after.books[Owner[j]].units[j] = account.books[Owner[j]].units[j]
          BY <3>1, <5>1
        <5> QED BY <1>19, <3>1, <5>2, Owners
      <4>2. OnHold(after, j) <= OnHold(begun, j) + 0
        BY <3>2, <3>4
      <4>3. OnHold(begun, j) <= OnHold(account, j) /\ OnHold(begun, j) \in Nat /\ OnHold(account, j) \in Nat
        BY <2>3
      <4> HIDE DEF sleeve, c0, old, final, cost
      <4>4. OnHold(after, j) <= OnHold(account, j)
        BY <3>2, <4>2, <4>3
      <4>5. OnHold(after, j) <= account.books[Owner[j]].units[j]
        BY <3>1, <3>2, <4>3, <4>4
      <4> QED BY <4>1, <4>5
    <3> QED BY <3>3, <3>4
  <2> QED BY <2>2, <2>4 DEF Covered
<1> HIDE DEF sleeve, c0, old, final, cost
<1>23. Step(at, admitted, after)
  <2>1. quantity \in Int
    BY <1>3
  <2> QED BY <1>1, <1>14, <1>17, <1>20, <1>21, <1>22, <2>1, TouchedStep
<1>24. Orderly(at, admitted, after)
  BY <1>2, <1>23 DEF Orderly
<1> QED BY <1>2, <1>24

-----------------------------------------------------------------------------
(* What a budget may spend is an integer, and its margin is not negative. *)
LEMMA FreeType ==
  ASSUME NEW a \in Accounts, NEW b \in Budgets, NEW c \in Currencies
  PROVE  /\ \A i \in Futures : Reserve(a, b, i) \in Nat
         /\ Proceeds(a, b, c) \in Nat /\ Margin(a, b, c) \in Nat /\ Free(a, b, c) \in Int
<1>1. ASSUME NEW i \in Futures PROVE Reserve(a, b, i) \in Nat
  <2> DEFINE v == a.books[b].units[i] * a.marks[i]
             g == Pnl(a, b, i)
             w == Abs(v)
  <2>1. v \in Int /\ g \in Int
    BY Values, Owners
  <2>2. Reserve(a, b, i) = w \div MarginDivisor + Positive(-g)
    BY DEF Reserve
  <2>3. w \in Nat
    <3> HIDE DEF v
    <3> QED BY <2>1 DEF Abs
  <2>4. Positive(-g) \in Nat
    <3> HIDE DEF g
    <3> QED BY <2>1 DEF Positive
  <2>5. MarginDivisor \in Nat \ {0}
    BY CapitalAssumption
  <2>6. w \div MarginDivisor \in Nat
    <3> HIDE DEF w
    <3> QED BY <2>3, <2>5
  <2> HIDE DEF w, g
  <2> QED BY <2>2, <2>4, <2>6
<1>2. Margin(a, b, c) \in Nat
  <2> DEFINE f == [i \in Futures |-> Reserve(a, b, i)]
             S == {i \in Futures : CurrencyOf[i] = c /\ a.books[b].units[i] # 0}
  <2>1. IsFiniteSet(S) /\ \A i \in S : f[i] \in Nat
    <3>1. S \in SUBSET Futures
      OBVIOUS
    <3>2. \A i \in S : f[i] \in Nat
      BY <1>1
    <3> HIDE DEF S, f
    <3> QED BY <3>1, <3>2, Owners, FS_Subset
  <2>2. SumFunctionOnSet(f, S) \in Nat
    <3> HIDE DEF S, f
    <3> QED BY <2>1, SumNat
  <2> QED BY <2>2 DEF Margin
<1>3. Proceeds(a, b, c) \in Nat
  BY HoldSums
<1>4. Free(a, b, c) \in Int
  BY <1>2, <1>3, Fields DEF Free
<1> QED BY <1>1, <1>2, <1>3, <1>4

(* Opening an event takes nothing from what a budget may spend. *)
LEMMA BegunFree ==
  ASSUME account \in Accounts, NEW at \in Nat, NEW b \in Budgets, NEW c \in Currencies
  PROVE  Free(Begun(at), b, c) >= Free(account, b, c)
<1> DEFINE begun == Begun(at)
<1>1. /\ begun \in Accounts /\ begun.books = account.books /\ begun.marks = account.marks
      /\ begun.pending \subseteq account.pending
  BY BegunFields
<1> HIDE DEF begun
<1>2. Margin(begun, b, c) = Margin(account, b, c)
  BY <1>1 DEF Margin, Reserve, Pnl
<1>3. Proceeds(begun, b, c) <= Proceeds(account, b, c)
  BY <1>1, HoldSums
<1>4. /\ Proceeds(begun, b, c) \in Nat /\ Proceeds(account, b, c) \in Nat
      /\ Margin(account, b, c) \in Nat /\ account.books[b].cash[c] \in Int
  BY <1>1, FreeType, Fields
<1>5. Free(begun, b, c) >= Free(account, b, c)
  BY <1>1, <1>2, <1>3, <1>4 DEF Free
<1> QED BY <1>5 DEF begun

-----------------------------------------------------------------------------
(* Every order is an orderly step, *)
LEMMA OrdersStep ==
  ASSUME Sound(account), count \in Nat, NEW at \in Times, Orders(at)
  PROVE  \E admitted \in BOOLEAN : \E after : Orderly(at, admitted, after)
<1>1. CASE \E s, t \in Sleeves, c \in Currencies, x \in Amounts : Transfer(at, s, t, c, x)
  BY <1>1, TransferSteps DEF Orderly
<1>2. CASE \E s \in Sleeves, c \in Currencies, x \in Amounts : \/ ExternalCash(at, s, c, x)
                                                              \/ ExternalCash(at, s, c, -x)
  <2>1. PICK s \in Sleeves, c \in Currencies, x \in Amounts : \/ ExternalCash(at, s, c, x)
                                                             \/ ExternalCash(at, s, c, -x)
    BY <1>2
  <2>2. PICK y \in Int : ExternalCash(at, s, c, y)
    BY <2>1, Bounds
  <2>e. PICK admitted \in BOOLEAN : \E after :
           Step(at, admitted, after) /\ (admitted => Funded(Begun(at), after, y > 0))
    BY <2>2, ExternalCashSteps
  <2>3. PICK after : Step(at, admitted, after) /\ (admitted => Funded(Begun(at), after, y > 0))
    BY <2>e
  <2>4. Orderly(at, admitted, after)
    BY <2>3 DEF Orderly
  <2> QED BY <2>4
<1>3. CASE \E s \in Sleeves, c, d \in Currencies, x, y \in Amounts : FxConvert(at, s, c, d, x, y)
  BY <1>3, FxConvertSteps DEF Orderly
<1>4. CASE \E i \in Instruments, q \in Quantities, p \in Prices, f \in Fees, t \in Times :
             (i \in Futures => t = at) /\ Fill(at, i, q, p, f, t)
  BY <1>4, FillSteps
<1> QED BY <1>1, <1>2, <1>3, <1>4 DEF Orders

(* and every fact a step. *)
LEMMA FactsStep ==
  ASSUME Sound(account), NEW at \in Times, Facts(at)
  PROVE  \E admitted \in BOOLEAN : \E after : Step(at, admitted, after)
<1>1. CASE Settle(at)
  BY <1>1, SettleSteps
<1>2. CASE \E i \in Instruments, p \in Prices : Mark(at, i, p)
  BY <1>2, MarkSteps
<1>3. CASE \E i \in Instruments, x \in Amounts : Charge(at, i, x)
  BY <1>3, ChargeSteps
<1>4. CASE \E i \in Futures, p \in Prices : VariationMargin(at, i, p)
  BY <1>4, VariationMarginSteps
<1> QED BY <1>1, <1>2, <1>3, <1>4 DEF Facts

(* Every step that is not stuttering is the step of an event. *)
LEMMA NextStep ==
  ASSUME IInv, Next
  PROVE  \/ UNCHANGED vars
         \/ \E at \in Times, admitted \in BOOLEAN : \E after : at >= account.now /\ Step(at, admitted, after)
<1>1. Sound(account) /\ count \in Nat
  BY DEF IInv
<1>2. CASE Idle
  BY <1>2 DEF Idle
<1>3. ASSUME NEW at \in Times, at >= account.now, Orders(at) \/ Facts(at)
      PROVE  \E admitted \in BOOLEAN : \E after : Step(at, admitted, after)
  <2>1. CASE Orders(at)
    BY <1>1, <2>1, OrdersStep DEF Orderly
  <2>2. CASE Facts(at)
    BY <1>1, <2>2, FactsStep
  <2> QED BY <1>3, <2>1, <2>2
<1> QED BY <1>2, <1>3 DEF Next

-----------------------------------------------------------------------------
(* A step is admitted as a whole, or leaves everything as it was. *)
LEMMA AllOrNothing ==
  ASSUME account \in Accounts, NEW at, NEW admitted \in BOOLEAN, NEW after, Step(at, admitted, after)
  PROVE  \/ /\ admitted /\ account' = after /\ count' = count + 1
            /\ declared' = declared \cup (after.pending \ account.pending)
         \/ account' = account /\ declared' = declared /\ count' = count
<1>1. Admit(admitted, after) /\ after \in Accounts
  BY DEF Step, Event
<1>2. Rejected(after) = account
  BY <1>1, RejectedRestores
<1>3. CASE admitted
  BY <1>1, <1>3 DEF Admit
<1>4. CASE ~admitted
  BY <1>1, <1>2, <1>4 DEF Admit
<1> QED BY <1>3, <1>4

(* The account opens sound. *)
LEMMA OpensSound == Init => IInv
<1> SUFFICES ASSUME Init PROVE IInv
  OBVIOUS
<1> DEFINE zero == [c \in Currencies |-> 0]
<1>1. /\ account.books = [b \in Budgets |-> Opening(OpeningCash(b))]
      /\ account.pending = {} /\ account.marks = [i \in Instruments |-> Unmarked] /\ account.now = 0
      /\ account = [books |-> account.books, pending |-> {}, marks |-> account.marks, now |-> 0]
      /\ declared = {} /\ count = 0
  BY DEF Init
<1>2. \A s \in Sleeves, c \in Currencies : Allocation[s][c] \in Nat /\ Allocation[s] \in [Currencies -> Int]
  BY CapitalAssumption
<1>3. \A c \in Currencies : SumFunction([s \in Sleeves |-> Allocation[s][c]])
                              = SumFunctionOnSet([s \in Sleeves |-> Allocation[s][c]], Sleeves)
  BY DEF SumFunction
<1>4. \A c \in Currencies : SumFunctionOnSet([s \in Sleeves |-> Allocation[s][c]], Sleeves) \in Int
  <2> TAKE c \in Currencies
  <2> DEFINE f == [s \in Sleeves |-> Allocation[s][c]]
  <2>1. Summable(f, Sleeves)
    BY <1>2, Owners DEF Summable
  <2> HIDE DEF f
  <2>2. SumFunctionOnSet(f, Sleeves) \in Int
    BY <2>1, SumType
  <2> QED BY <2>2 DEF f
<1>5. \A b \in Budgets : OpeningCash(b) \in [Currencies -> Int]
  <2>1. OpeningCash("total") \in [Currencies -> Int]
    BY <1>3, <1>4 DEF OpeningCash
  <2>2. \A s \in Sleeves : OpeningCash(s) = Allocation[s] /\ Allocation[s] \in [Currencies -> Int]
    BY CapitalAssumption, Owners DEF OpeningCash
  <2> QED BY <2>1, <2>2 DEF Budgets
<1>6. \A b \in Budgets : /\ account.books[b] = Opening(OpeningCash(b)) /\ account.books[b] \in Books
                         /\ account.books[b].cash = OpeningCash(b)
                         /\ \A i \in Instruments : account.books[b].units[i] = 0
                         /\ \A i \in Futures : account.books[b].cost[i] = 0
  <2> TAKE b \in Budgets
  <2>1. account.books[b] = Opening(OpeningCash(b))
    BY <1>1
  <2>2. Opening(OpeningCash(b)) \in Books
    BY <1>5 DEF Opening, Books
  <2> QED BY <2>1, <2>2 DEF Opening
<1>7. account \in Accounts
  <2>1. account.books \in [Budgets -> Books]
    BY <1>1, <1>6
  <2>2. {} \in {P \in SUBSET Holds : IsFiniteSet(P)}
    BY FS_EmptySet
  <2>3. account.marks \in [Instruments -> Prices \cup {Unmarked}]
    BY <1>1
  <2> QED BY <1>1, <2>1, <2>2, <2>3 DEF Accounts
<1>8. Attributed(account)
  BY <1>6, Owners DEF Attributed
<1>9. LongOnly(account)
  BY <1>6, Owners DEF LongOnly
<1>10. Balanced(account)
  <2> SUFFICES ASSUME NEW c \in Currencies
               PROVE  account.books["total"].cash[c] = SumFunctionOnSet(CashOf(account, c), Sleeves)
    BY DEF Balanced
  <2>1. account.books["total"].cash[c] = SumFunctionOnSet([s \in Sleeves |-> Allocation[s][c]], Sleeves)
    BY <1>3, <1>6, Owners DEF OpeningCash
  <2>2. \A s \in Sleeves : account.books[s].cash[c] = Allocation[s][c]
    BY <1>6, Owners DEF OpeningCash
  <2>3. CashOf(account, c) = [s \in Sleeves |-> Allocation[s][c]]
    BY <2>2 DEF CashOf
  <2> QED BY <2>1, <2>3
<1>11. Covered(account)
  <2> SUFFICES ASSUME NEW i \in CashAssets PROVE OnHold(account, i) <= account.books[Owner[i]].units[i]
    BY DEF Covered
  <2>1. {h \in account.pending : h.instrument = i} = {}
    BY <1>1
  <2>2. OnHold(account, i) = 0
    BY <2>1, SumEmpty DEF OnHold
  <2> QED BY <1>6, <2>2, Owners
<1> QED BY <1>1, <1>7, <1>8, <1>9, <1>10, <1>11 DEF IInv, Sound

(* The step of an event keeps the invariant. *)
LEMMA StepKeeps ==
  ASSUME IInv, NEW at \in Times, at >= account.now, NEW admitted \in BOOLEAN, NEW after,
         Step(at, admitted, after)
  PROVE  IInv'
<1>1. /\ Sound(account) /\ account \in Accounts /\ count \in Nat /\ at \in Nat /\ account.now \in Nat
      /\ account.pending = {h \in declared : h.at > account.now} /\ declared \subseteq Holds
  BY Bounds, Fields DEF IInv, Sound
<1>2. CASE account' = account /\ declared' = declared /\ count' = count
  <2>1. Sound(account)'
    BY <1>1, <1>2 DEF Sound, Attributed, Balanced, LongOnly, Covered, CashOf, OnHold
  <2> QED BY <1>1, <1>2, <2>1 DEF IInv
<1>3. CASE /\ admitted /\ account' = after /\ count' = count + 1
           /\ declared' = declared \cup (after.pending \ account.pending)
  <2>1. /\ Sound(after) /\ after \in Accounts /\ after.now = at
        /\ {h \in account.pending : h.at > at} \subseteq after.pending
        /\ \A h \in after.pending : h.at > at
    BY <1>3 DEF Step, Event
  <2>2. ASSUME NEW h \in after.pending PROVE h \in declared' /\ h.at > at
    BY <1>1, <1>3, <2>1
  <2>3. ASSUME NEW h \in declared', h.at > at PROVE h \in after.pending
    <3>1. CASE h \in declared
      <4>1. h.at \in Nat
        BY <1>1, <3>1 DEF Holds
      <4>2. h.at > account.now
        BY <1>1, <2>3, <4>1
      <4> QED BY <1>1, <2>1, <2>3, <3>1, <4>2
    <3>2. CASE h \in after.pending
      BY <3>2
    <3> QED BY <1>3, <2>3, <3>1, <3>2
  <2>4. account.pending' = {h \in declared' : h.at > account.now'}
    BY <1>3, <2>1, <2>2, <2>3
  <2>5. declared' \subseteq Holds
    BY <1>1, <1>3, <2>1, Fields
  <2>6. Sound(account)'
    BY <1>3, <2>1 DEF Sound, Attributed, Balanced, LongOnly, Covered, CashOf, OnHold
  <2> QED BY <1>1, <1>3, <2>4, <2>5, <2>6 DEF IInv
<1> QED BY <1>1, <1>2, <1>3, AllOrNothing

(* Every book follows its events: the account stays sound, and holds are   *)
(* exactly the declared ones that have not settled.                        *)
THEOREM CapitalSound == Spec => []IInv
<1>1. IInv /\ [Next]_vars => IInv'
  <2> SUFFICES ASSUME IInv, [Next]_vars PROVE IInv'
    OBVIOUS
  <2>1. CASE UNCHANGED vars
    <3>1. account' = account /\ declared' = declared /\ count' = count
      BY <2>1 DEF vars
    <3>2. Sound(account)'
      BY <3>1 DEF IInv, Sound, Attributed, Balanced, LongOnly, Covered, CashOf, OnHold
    <3> QED BY <3>1, <3>2 DEF IInv
  <2>2. CASE \E at \in Times, admitted \in BOOLEAN : \E after : at >= account.now /\ Step(at, admitted, after)
    BY <2>2, StepKeeps
  <2> QED BY <2>1, <2>2, NextStep
<1> QED BY <1>1, OpensSound, PTL DEF Spec

(* Cash, units and what is on hold have their types: no book is short of a *)
(* cash asset, no hold is negative.                                        *)
THEOREM CapitalTypes == Spec => []TypeOK
<1>1. IInv => TypeOK
  <2> SUFFICES ASSUME IInv PROVE TypeOK
    OBVIOUS
  <2>1. account \in Accounts /\ LongOnly(account) /\ account.now \in Times \cup {0}
    BY DEF IInv, Sound
  <2>2. ASSUME NEW b \in Budgets
        PROVE  /\ {account.books[b].cash, account.books[b].outside} \subseteq [Currencies -> Int]
               /\ account.books[b].paid \in [Currencies -> Nat]
               /\ \A i \in CashAssets : account.books[b].units[i] \in Nat
    <3>1. account.books[b] \in Books
      BY <2>1, Fields
    <3> QED BY <2>1, <3>1 DEF Books, LongOnly
  <2>3. \A h \in account.pending : h.units \in Nat /\ h.cash \in Nat
    BY <2>1, Fields
  <2>4. account.marks \in [Instruments -> Prices \cup {Unmarked}]
    BY <2>1 DEF Accounts
  <2> QED BY <2>1, <2>2, <2>3, <2>4 DEF TypeOK
<1> QED BY <1>1, CapitalSound, PTL

(* Proceeds and purchased units are on hold exactly until they settle,     *)
(* whatever is presented and rejected meanwhile, and what is on hold has   *)
(* not been sold.                                                          *)
THEOREM HoldsAreHonoured == Spec => []HoldsHonoured
<1>1. IInv => HoldsHonoured
  BY DEF IInv, Sound, Covered, HoldsHonoured
<1> QED BY <1>1, CapitalSound, PTL

-----------------------------------------------------------------------------
(* A sum of which one term may differ from zero is that term. *)
LEMMA SumLone ==
  ASSUME NEW f, NEW S, IsFiniteSet(S), NEW x \in S, f[x] \in Int, \A y \in S \ {x} : f[y] = 0
  PROVE  SumFunctionOnSet(f, S) = f[x]
<1>1. \A y \in S : f[y] \in Int
  <2> TAKE y \in S
  <2>1. CASE y = x
    BY <2>1
  <2>2. CASE y # x
    BY <2>2
  <2> QED BY <2>1, <2>2
<1>2. Summable(f, S)
  BY <1>1 DEF Summable
<1>3. SumFunctionOnSet(f, S) = f[x] + SumFunctionOnSet(f, S \ {x})
  BY <1>2, SumSplit
<1>4. SumFunctionOnSet(f, S \ {x}) = 0
  <2>1. IsFiniteSet(S \ {x})
    BY FS_Subset
  <2> QED BY <2>1, SumZero
<1>5. SumFunctionOnSet(f, S) = f[x] + 0
  BY <1>3, <1>4
<1> DEFINE F == SumFunctionOnSet(f, S)
<1>6. F = f[x] + 0
  BY <1>5
<1>7. F = f[x]
  <2> HIDE DEF F
  <2> QED BY <1>6
<1> QED BY <1>7

(* The proceeds on hold are those of the sleeves. *)
LEMMA ProceedsBySleeve ==
  ASSUME NEW a \in Accounts, NEW c \in Currencies
  PROVE  Proceeds(a, "total", c) = SumFunctionOnSet([s \in Sleeves |-> Proceeds(a, s, c)], Sleeves)
<1> DEFINE f == [h \in a.pending |-> h.cash]
           S == {h \in a.pending : h.currency = c}
           g == [h \in a.pending |-> h.sleeve]
<1>1. /\ IsFiniteSet(a.pending)
      /\ \A h \in a.pending : h.cash \in Nat /\ h.sleeve \in Sleeves
  BY Fields
<1>2. Summable(f, S) /\ \A h \in S : g[h] \in Sleeves
  <2>1. S \in SUBSET a.pending /\ \A h \in S : f[h] \in Int /\ g[h] \in Sleeves
    BY <1>1
  <2> HIDE DEF f, S, g
  <2> QED BY <1>1, <2>1, FS_Subset DEF Summable
<1>3. SumFunctionOnSet(f, S)
        = SumFunctionOnSet([s \in Sleeves |-> SumFunctionOnSet(f, {h \in S : g[h] = s})], Sleeves)
  <2> HIDE DEF f, S, g
  <2> QED BY <1>2, Owners, SumByGroup
<1>4. Proceeds(a, "total", c) = SumFunctionOnSet(f, S)
  <2>1. {h \in a.pending : h.currency = c /\ "total" \in {"total", h.sleeve}} = S
    OBVIOUS
  <2> QED BY <2>1 DEF Proceeds
<1>5. ASSUME NEW s \in Sleeves
      PROVE  Proceeds(a, s, c) = SumFunctionOnSet(f, {h \in S : g[h] = s})
  <2>1. s # "total"
    BY Owners
  <2>2. {h \in a.pending : h.currency = c /\ s \in {"total", h.sleeve}} = {h \in S : g[h] = s}
    BY <2>1
  <2> QED BY <2>2 DEF Proceeds
<1>6. [s \in Sleeves |-> Proceeds(a, s, c)]
        = [s \in Sleeves |-> SumFunctionOnSet(f, {h \in S : g[h] = s})]
  <2> HIDE DEF f, S, g
  <2> QED BY <1>5
<1> QED BY <1>3, <1>4, <1>6

(* The margins of the total book are those of the sleeves. *)
LEMMA MarginBySleeve ==
  ASSUME NEW a \in Accounts, Attributed(a), NEW c \in Currencies
  PROVE  Margin(a, "total", c) = SumFunctionOnSet([s \in Sleeves |-> Margin(a, s, c)], Sleeves)
<1> DEFINE f == [i \in Futures |-> Reserve(a, "total", i)]
           S == {i \in Futures : CurrencyOf[i] = c /\ a.books["total"].units[i] # 0}
           g == [i \in Futures |-> Owner[i]]
<1>1. Summable(f, S) /\ \A i \in S : g[i] \in Sleeves
  <2>1. S \in SUBSET Futures /\ \A i \in S : f[i] \in Int /\ g[i] \in Sleeves
    BY FreeType, Owners
  <2> HIDE DEF f, S, g
  <2> QED BY <2>1, Owners, FS_Subset DEF Summable
<1>2. SumFunctionOnSet(f, S)
        = SumFunctionOnSet([s \in Sleeves |-> SumFunctionOnSet(f, {i \in S : g[i] = s})], Sleeves)
  <2> HIDE DEF f, S, g
  <2> QED BY <1>1, Owners, SumByGroup
<1>3. Margin(a, "total", c) = SumFunctionOnSet(f, S)
  BY DEF Margin
<1>4. ASSUME NEW s \in Sleeves
      PROVE  Margin(a, s, c) = SumFunctionOnSet(f, {i \in S : g[i] = s})
  <2> DEFINE e == [i \in Futures |-> Reserve(a, s, i)]
             T == {i \in Futures : CurrencyOf[i] = c /\ a.books[s].units[i] # 0}
  <2>1. ASSUME NEW i \in Futures
        PROVE  /\ i \in Instruments
               /\ Owner[i] = s => /\ a.books["total"].units[i] = a.books[s].units[i]
                                  /\ a.books["total"].cost[i] = a.books[s].cost[i]
               /\ Owner[i] # s => a.books[s].units[i] = 0
    BY Owners DEF Attributed
  <2>2. T = {i \in S : g[i] = s}
    BY <2>1
  <2>3. \A i \in T : e[i] = f[i]
    <3> TAKE i \in T
    <3>1. i \in Futures /\ Owner[i] = s
      BY <2>2
    <3>2. Reserve(a, "total", i) = Reserve(a, s, i)
      BY <2>1, <3>1 DEF Reserve, Pnl
    <3> QED BY <3>1, <3>2
  <2>4. Summable(e, T)
    <3>1. T \in SUBSET Futures /\ \A i \in T : e[i] \in Int
      BY FreeType, Owners
    <3> HIDE DEF e, T
    <3> QED BY <3>1, Owners, FS_Subset DEF Summable
  <2>5. SumFunctionOnSet(e, T) = SumFunctionOnSet(f, T)
    <3> HIDE DEF e, T, f
    <3> QED BY <2>3, <2>4, SumSame
  <2>6. Margin(a, s, c) = SumFunctionOnSet(e, T)
    BY DEF Margin
  <2> QED BY <2>2, <2>5, <2>6
<1>5. [s \in Sleeves |-> Margin(a, s, c)]
        = [s \in Sleeves |-> SumFunctionOnSet(f, {i \in S : g[i] = s})]
  <2> HIDE DEF f, S, g
  <2> QED BY <1>4
<1> QED BY <1>2, <1>3, <1>5

(* Attribution creates no buying power: what the sleeves may spend is what *)
(* the account may spend.                                                  *)
LEMMA FreeBySleeve ==
  ASSUME NEW a \in Accounts, Attributed(a), Balanced(a), NEW c \in Currencies
  PROVE  Free(a, "total", c) = SumFunctionOnSet([s \in Sleeves |-> Free(a, s, c)], Sleeves)
<1> DEFINE f == [s \in Sleeves |-> Free(a, s, c)]
           p == [s \in Sleeves |-> Proceeds(a, s, c)]
           m == [s \in Sleeves |-> Margin(a, s, c)]
           h == [s \in Sleeves |-> p[s] + m[s]]
           F == SumFunctionOnSet(f, Sleeves)
           P == SumFunctionOnSet(p, Sleeves)
           M == SumFunctionOnSet(m, Sleeves)
           H == SumFunctionOnSet(h, Sleeves)
           C == SumFunctionOnSet(CashOf(a, c), Sleeves)
<1>1. \A s \in Sleeves : /\ f[s] = Free(a, s, c) /\ p[s] = Proceeds(a, s, c) /\ m[s] = Margin(a, s, c)
                         /\ h[s] = p[s] + m[s] /\ CashOf(a, c)[s] = a.books[s].cash[c]
  BY DEF CashOf
<1>2. \A s \in Sleeves : f[s] \in Int /\ p[s] \in Int /\ m[s] \in Int /\ a.books[s].cash[c] \in Int
  BY <1>1, FreeType, Fields, Owners
<1> HIDE DEF f, p, m, h
<1>3. Summable(f, Sleeves) /\ Summable(p, Sleeves) /\ Summable(m, Sleeves)
  BY <1>2, Owners DEF Summable
<1>4. Summable(h, Sleeves) /\ H = P + M
  <2>1. Summable(p, Sleeves)
    BY <1>3
  <2>2. Summable(m, Sleeves)
    BY <1>3
  <2>3. \A x \in Sleeves : h[x] = p[x] + m[x]
    BY <1>1
  <2> QED BY <2>1, <2>2, <2>3, SumPlus
<1>5. C = F + H
  <2>1. Summable(f, Sleeves)
    BY <1>3
  <2>2. Summable(h, Sleeves)
    BY <1>4
  <2>3. \A x \in Sleeves : CashOf(a, c)[x] = f[x] + h[x]
    <3> TAKE x \in Sleeves
    <3>1. f[x] = a.books[x].cash[c] - p[x] - m[x]
      BY <1>1 DEF Free
    <3> QED BY <1>1, <1>2, <3>1
  <2> QED BY <2>1, <2>2, <2>3, SumPlus
<1>6. F \in Int /\ P \in Int /\ M \in Int
  <2>1. F \in Int
    BY <1>3, SumType
  <2>2. P \in Int
    BY <1>3, SumType
  <2>3. M \in Int
    BY <1>3, SumType
  <2> QED BY <2>1, <2>2, <2>3
<1>7. a.books["total"].cash[c] = C /\ Proceeds(a, "total", c) = P /\ Margin(a, "total", c) = M
  BY ProceedsBySleeve, MarginBySleeve DEF Balanced, p, m
<1>8. Free(a, "total", c) = C - P - M
  BY <1>7 DEF Free
<1> HIDE DEF F, P, M, H, C
<1>9. Free(a, "total", c) = F
  BY <1>4, <1>5, <1>6, <1>8
<1> QED BY <1>9 DEF F, f

(* What reconcile asserts and more: the sleeves' books add up to the total *)
(* book in cash, units and cost, and so does what they may spend.          *)
THEOREM BooksAddUp == Spec => []BooksReconcile
<1>1. IInv => BooksReconcile
  <2> SUFFICES ASSUME IInv PROVE BooksReconcile
    OBVIOUS
  <2>1. account \in Accounts /\ Attributed(account) /\ Balanced(account)
    BY DEF IInv, Sound
  <2>2. ASSUME NEW f, DOMAIN f = Sleeves PROVE SumFunction(f) = SumFunctionOnSet(f, Sleeves)
    BY <2>2 DEF SumFunction
  <2>3. ASSUME NEW c \in Currencies
        PROVE  /\ account.books["total"].cash[c] = SumFunction([s \in Sleeves |-> account.books[s].cash[c]])
               /\ Free(account, "total", c) = SumFunction([s \in Sleeves |-> Free(account, s, c)])
    <3>1. account.books["total"].cash[c] = SumFunctionOnSet(CashOf(account, c), Sleeves)
      BY <2>1 DEF Balanced
    <3>2. SumFunction(CashOf(account, c)) = SumFunctionOnSet(CashOf(account, c), Sleeves)
      BY <2>2 DEF CashOf
    <3>3. SumFunction([s \in Sleeves |-> Free(account, s, c)])
            = SumFunctionOnSet([s \in Sleeves |-> Free(account, s, c)], Sleeves)
      BY <2>2
    <3>4. account.books["total"].cash[c] = SumFunction([s \in Sleeves |-> account.books[s].cash[c]])
      BY <3>1, <3>2 DEF CashOf
    <3> QED BY <2>1, <3>3, <3>4, FreeBySleeve
  <2>4. ASSUME NEW i \in Instruments
        PROVE  account.books["total"].units[i] = SumFunction([s \in Sleeves |-> account.books[s].units[i]])
    <3> DEFINE f == [s \in Sleeves |-> account.books[s].units[i]]
    <3>1. /\ Owner[i] \in Sleeves /\ f[Owner[i]] = account.books["total"].units[i]
          /\ f[Owner[i]] \in Int /\ \A s \in Sleeves \ {Owner[i]} : f[s] = 0
      BY <2>1, Fields, Owners DEF Attributed
    <3>2. SumFunction(f) = SumFunctionOnSet(f, Sleeves)
      BY <2>2
    <3> HIDE DEF f
    <3>3. SumFunctionOnSet(f, Sleeves) = f[Owner[i]]
      BY <3>1, Owners, SumLone
    <3> QED BY <3>1, <3>2, <3>3 DEF f
  <2>5. ASSUME NEW i \in Futures
        PROVE  account.books["total"].cost[i] = SumFunction([s \in Sleeves |-> account.books[s].cost[i]])
    <3> DEFINE f == [s \in Sleeves |-> account.books[s].cost[i]]
    <3>1. /\ Owner[i] \in Sleeves /\ f[Owner[i]] = account.books["total"].cost[i]
          /\ f[Owner[i]] \in Int /\ \A s \in Sleeves \ {Owner[i]} : f[s] = 0
      BY <2>1, Fields, Owners DEF Attributed
    <3>2. SumFunction(f) = SumFunctionOnSet(f, Sleeves)
      BY <2>2
    <3> HIDE DEF f
    <3>3. SumFunctionOnSet(f, Sleeves) = f[Owner[i]]
      BY <3>1, Owners, SumLone
    <3> QED BY <3>1, <3>2, <3>3 DEF f
  <2> QED BY <2>3, <2>4, <2>5 DEF BooksReconcile
<1> QED BY <1>1, CapitalSound, PTL

-----------------------------------------------------------------------------
(* No order takes a budget below zero, nor further below than facts had    *)
(* taken it: an order that would is rejected, and a rejection restores     *)
(* even the holds it had released.                                         *)
THEOREM OrdersAreFunded == Spec => OrdersStayFunded
<1> DEFINE Worse == \E b \in Budgets, c \in Currencies :
                      Free(account', b, c) < Least(0, Free(account, b, c))
           Ordered == \E at \in Times : Orders(at)
<1>1. IInv /\ [Next]_vars => [Worse => ~Ordered]_vars
  <2> SUFFICES ASSUME IInv, NEW at \in Times, Orders(at), NEW b \in Budgets, NEW c \in Currencies
               PROVE  ~(Free(account', b, c) < Least(0, Free(account, b, c)))
    OBVIOUS
  <2>1. Sound(account) /\ account \in Accounts /\ count \in Nat /\ at \in Nat
    BY Bounds DEF IInv, Sound
  <2>e. PICK admitted \in BOOLEAN : \E after : Orderly(at, admitted, after)
    BY <2>1, OrdersStep
  <2>2. PICK after : Orderly(at, admitted, after)
    BY <2>e
  <2>3. /\ Step(at, admitted, after) /\ after \in Accounts
        /\ admitted => \E curing : Funded(Begun(at), after, curing)
    BY <2>2 DEF Orderly, Step, Event
  <2>4. Free(account, b, c) \in Int /\ Free(after, b, c) \in Int /\ Free(Begun(at), b, c) \in Int
    BY <2>1, <2>3, BegunFields, FreeType
  <2>5. CASE admitted /\ account' = after
    <3>1. Free(after, b, c) >= 0 \/ Free(after, b, c) >= Least(0, Free(Begun(at), b, c))
      BY <2>3, <2>5 DEF Funded
    <3>2. Free(Begun(at), b, c) >= Free(account, b, c)
      BY <2>1, BegunFree
    <3>3. Free(account', b, c) = Free(after, b, c)
      BY <2>5
    <3> QED BY <2>4, <3>1, <3>2, <3>3 DEF Least
  <2>6. CASE account' = account
    <3>1. Free(account', b, c) = Free(account, b, c)
      BY <2>6
    <3> QED BY <2>4, <3>1 DEF Least
  <2> QED BY <2>1, <2>3, <2>5, <2>6, AllOrNothing
<1>2. IInv /\ [Next]_vars
        => [(\E b \in Budgets, c \in Currencies : Free(account', b, c) < Least(0, Free(account, b, c)))
              => ~(\E at \in Times : Orders(at))]_vars
  BY <1>1
<1> QED BY <1>2, CapitalSound, PTL DEF Spec, OrdersStayFunded

(* However positions are opened, closed, reversed or settled, the worth of *)
(* every book in every currency changes by outside flows, fees and the     *)
(* revaluation of what was held: fills and margin create no profit.        *)
THEOREM ProfitIsFromMarks == Spec => ProfitFromMarks
<1>1. IInv /\ [Next]_vars
        => [\A b \in Budgets, c \in Currencies :
              Worth(account', b, c) - Worth(account, b, c) =
                SumFunctionOnSet(Revaluation(account, b, account'.marks), Within(c))]_vars
  <2> SUFFICES ASSUME IInv, Next, ~UNCHANGED vars, NEW b \in Budgets, NEW c \in Currencies
               PROVE  Worth(account', b, c) - Worth(account, b, c) =
                        SumFunctionOnSet(Revaluation(account, b, account'.marks), Within(c))
    OBVIOUS
  <2>1. account \in Accounts
    BY DEF IInv, Sound
  <2>e. PICK at \in Times, admitted \in BOOLEAN : \E after : Step(at, admitted, after)
    BY NextStep
  <2>2. PICK after : Step(at, admitted, after)
    BY <2>e
  <2>3. CASE account' = after
    BY <2>2, <2>3 DEF Step, Profit
  <2>4. CASE account' = account
    <3>1. Profit(account, account)
      BY <2>1, PositionsKept
    <3> QED BY <2>4, <3>1 DEF Profit
  <2> QED BY <2>1, <2>2, <2>3, <2>4, AllOrNothing
<1> QED BY <1>1, CapitalSound, PTL DEF Spec, ProfitFromMarks
=============================================================================
