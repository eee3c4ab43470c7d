------------------------------- MODULE Ledger -------------------------------
(***************************************************************************)
(* The state of one partition (core/partition_state, core/ledger) and the  *)
(* ten handlers of core/apply.cpp, one action per template of the log.     *)
(*                                                                         *)
(* Rows are named by what they hold: an account by its document, a         *)
(* position by document and instrument, a trade by its id.  The tables of  *)
(* accounts, positions and trades keep their sizes, because a full table   *)
(* is fatal.  Trades also have their row numbers, because the settlement   *)
(* lists of the accounts are links from row to row.  The idempotency sets  *)
(* are their contents, generation by generation; how a generation is laid  *)
(* out is module Tables.  The column blocked is left out: no event moves   *)
(* it and it stays zero.  Outputs and applied_lsn belong to Partition.     *)
(***************************************************************************)
EXTENDS Rounding, Columns

CONSTANTS
  Documents, Instruments, TradeIds, Actions,
  Traders,         \* documents in whose name trades are executed
  Holders,         \* documents that corporate actions and incomes are about
  Capacities,      \* PartitionCapacity: rows of each table, keys of a generation
  Days, Lags, Lots, UnitPrice, Fees, Factors,  \* inputs: dates, delays, amounts
  Retention,       \* idempotency_window_days
  Tolerance,       \* slack of the payer of an income, one cent in the source
  MaxExceptions    \* bound of the model: exceptions ever queued

ASSUME LedgerAssumption ==
  /\ Capacities \subseteq [accounts : Nat \ {0}, positions : Nat \ {0}, trades : Nat \ {0},
                           keys : Nat \ {0}, exceptions : Nat \ {0}]
  /\ {Retention, Tolerance, MaxExceptions, UnitPrice, Fees} \subseteq Nat
  /\ Traders \subseteq Documents /\ Holders \subseteq Documents
  /\ Days \subseteq Nat /\ Lags \subseteq Nat /\ Lots \subseteq Int
  /\ Factors \subseteq Nat \X Nat

VARIABLES
  cap,          \* the capacities the partition was configured with
  window,       \* the three settlement dates in flight; 0 is no date
  accounts,     \* documents with a row
  positions,    \* positions with a row
  price_factor, \* of each instrument; 0 is not described
  custody,      \* CustodyLedger, by position
  cash,         \* CashLedger, by account
  trades,       \* TradeTable, by trade id
  rows,         \* the id of the trade in each row of TradeTable (trade_index)
  first,        \* account_first_trade, by account
  next,         \* next_of_account, by row
  applied,      \* applied_actions and applied_income
  exceptions,   \* exceptions queued so far (exception_count)
  divergence,   \* kFlagReconDivergence
  halted,       \* why the partition stopped, or "no"
  recent,       \* history: acceptances of each key within the retention window
  booked,       \* history: how often each trade was booked, and for which date
  boughtIn      \* history: trades some buy-in has covered

tableVars == <<accounts, positions>>
bookVars == <<custody, cash>>
listVars == <<rows, first, next>>
tradeVars == <<trades, listVars>>
keyVars == <<applied, recent>>
queueVars == <<exceptions, divergence>>
historyVars == <<booked, boughtIn>>
vars == <<cap, window, tableVars, price_factor, bookVars, tradeVars, keyVars,
          queueVars, halted, historyVars>>

Slots == 1 .. 3
Positions == Documents \X Instruments
KeySets == {"actions", "income"}
Pairs == Actions \X Documents

-----------------------------------------------------------------------------
(* Trade states and the settlement window. *)

kEdges == {
  <<"None", "Execute", "Executed">>,
  <<"Executed", "Allocate", "Allocated">>,
  <<"Allocated", "Net", "Netted">>,
  <<"Netted", "Settle", "Settled">>,
  <<"Netted", "Fail", "DeliveryFailed">>,
  <<"DeliveryFailed", "BuyIn", "Netted">>,
  <<"DeliveryFailed", "Close", "Closed">>,
  <<"Settled", "Close", "Closed">> }

TradeStates == {edge[1] : edge \in kEdges} \cup {edge[3] : edge \in kEdges}

NextState(s, g) ==
  IF \E edge \in kEdges : edge[1] = s /\ edge[2] = g
  THEN (CHOOSE edge \in kEdges : edge[1] = s /\ edge[2] = g)[3]
  ELSE "None"

\* The first slot of window w that holds date d, or 0.
SlotOf(w, d) ==
  CASE w[1] = d -> 1
    [] w[1] # d /\ w[2] = d -> 2
    [] w[1] # d /\ w[2] # d /\ w[3] = d -> 3
    [] OTHER -> 0

InWindow(d) == SlotOf(window, d) # 0

-----------------------------------------------------------------------------
(* Ledger rows. *)

Sum3(f) == f[1] + f[2] + f[3]
NoSlots == [k \in Slots |-> 0]

EmptyCustody ==
  [available |-> 0, pending_buy |-> NoSlots, pending_sell |-> NoSlots,
   overdue_buy |-> 0, overdue_sell |-> 0, leftovers |-> 0, avg_price |-> 0,
   short |-> FALSE]

EmptyCash == [cash |-> 0, pending |-> NoSlots, overdue |-> 0, income |-> 0]

\* What the depository holds today, and what will be held once all settles.
CustodyToday(row) ==
  row.available + row.leftovers + row.overdue_sell + Sum3(row.pending_sell)
CustodyProjected(row) ==
  row.available + row.leftovers + row.overdue_buy + Sum3(row.pending_buy)

BucketsNonNegative(row) ==
  /\ row.available < 0 => row.short
  /\ row.leftovers >= 0
  /\ row.overdue_buy >= 0 /\ row.overdue_sell >= 0
  /\ \A k \in Slots : row.pending_buy[k] >= 0 /\ row.pending_sell[k] >= 0

CustodyChecksum ==
  MapThenSumSet(LAMBDA p :
    LET row == custody[p] IN
    row.available + row.leftovers + row.overdue_buy + row.overdue_sell
      + row.avg_price + Sum3(row.pending_buy) + Sum3(row.pending_sell), positions)
CashChecksum ==
  MapThenSumSet(LAMBDA a :
    LET row == cash[a] IN
    row.cash + row.overdue + row.income + Sum3(row.pending), accounts)

-----------------------------------------------------------------------------
(* Idempotency sets of two generations. *)

Never == [day |-> 0, times |-> 0]

EmptyKeys == [gen |-> [i \in 1 .. 2 |-> {}], cur |-> 1, rot |-> 0]

Contains(s, key) == key \in s.gen[1] \cup s.gen[2]
KeysFull(s) == Cardinality(s.gen[s.cur]) >= cap.keys
Insert(s, key) == [s EXCEPT !.gen[s.cur] = @ \cup {key}]

\* Mutant: the generation in use is cleared, not the one that comes back.
MaybeRotateMut(s, today) ==
  CASE s.rot = 0 -> [s EXCEPT !.rot = today]
    [] s.rot # 0 /\ today - s.rot < Retention -> s
    [] OTHER -> [gen |-> [s.gen EXCEPT ![s.cur] = {}],
                 cur |-> 3 - s.cur, rot |-> today]

MaybeRotate(s, today) ==
  CASE s.rot = 0 -> [s EXCEPT !.rot = today]
    [] s.rot # 0 /\ today - s.rot < Retention -> s
    [] OTHER -> [gen |-> [s.gen EXCEPT ![3 - s.cur] = {}],
                 cur |-> 3 - s.cur, rot |-> today]

\* History: acceptances older than the retention window are forgotten.
Retained(today) ==
  [s \in KeySets |-> [key \in Pairs |->
     IF today - recent[s][key].day > Retention THEN Never ELSE recent[s][key]]]

-----------------------------------------------------------------------------
(* Steps the handlers share. *)

\* Room to intern one more row after those of as, or ps.  A table that is full
\* refuses known rows too: the count is tested before the row is looked up.
RoomForAccount(as) == Cardinality(accounts \cup as) < cap.accounts
RoomForPosition(ps) == Cardinality(positions \cup ps) < cap.positions

Interned(as, ps) ==
  /\ accounts' = accounts \cup as
  /\ positions' = positions \cup ps

Stop(why) == halted' = why

\* RV_CHECK of I3 on the rows a handler has just written.
CheckI3(book, ps) ==
  halted' = IF \A p \in ps : BucketsNonNegative(book[p]) THEN halted ELSE "I3"

PushExceptions(n) ==
  /\ exceptions + n <= MaxExceptions
  /\ exceptions' = exceptions + n

\* Mutant: trades without an edge for the trigger are moved too.
AdvancedMut(ts, g) ==
  [t \in DOMAIN trades |->
     IF t \in ts THEN [trades[t] EXCEPT !.state = NextState(@, g)] ELSE trades[t]]

\* Every trade of ts that has an edge for trigger g takes it.
Advanced(ts, g) ==
  [t \in DOMAIN trades |->
     IF t \in ts /\ NextState(trades[t].state, g) # "None"
     THEN [trades[t] EXCEPT !.state = NextState(trades[t].state, g)]
     ELSE trades[t]]

\* The cash column of the trades.
TradeCash == [t \in DOMAIN trades |-> trades[t].cash]

Live == halted = "no"

NoEffect == UNCHANGED <<bookVars, tradeVars, keyVars, queueVars, historyVars>>

-----------------------------------------------------------------------------
(* 1. DayOpened *)

\* Amounts of the old window by slot of the new one, and what falls out of it.
Moved(old, nova) ==
  [j \in Slots |->
     Sum3([k \in Slots |-> IF SlotOf(nova, window[k]) = j THEN old[k] ELSE 0])]
Fallen(old, nova) ==
  Sum3([k \in Slots |-> IF SlotOf(nova, window[k]) = 0 THEN old[k] ELSE 0])

RolledCustody(row, nova) ==
  [row EXCEPT !.pending_buy = Moved(row.pending_buy, nova),
              !.pending_sell = Moved(row.pending_sell, nova),
              !.overdue_buy = @ + Fallen(row.pending_buy, nova),
              !.overdue_sell = @ + Fallen(row.pending_sell, nova)]

\* Mutant: what falls out of the window is due on its first date.
RolledCashMut(row, nova) ==
  [row EXCEPT !.pending = [Moved(@, nova) EXCEPT ![1] = @ + Fallen(row.pending, nova)]]

RolledCash(row, nova) ==
  [row EXCEPT !.pending = Moved(row.pending, nova),
              !.overdue = @ + Fallen(row.pending, nova)]

\* Rows kept, with the lists threaded again from the last row to the first.
Compacted(kept) ==
  LET rs == Kept(rows, {i \in DOMAIN rows : rows[i] \in kept})
      own == [i \in DOMAIN rs |-> trades[rs[i]].account]
  IN  /\ trades' = [t \in kept |-> trades[t]]
      /\ rows' = rs
      /\ first' = [a \in Documents |-> NextOf(own, a, 0)]
      /\ next' = [i \in DOMAIN rs |-> NextOf(own, own[i], i)]

\* Mutant: a settled trade is closed while its date is still in the window.
CloseAndCompactMut(nova) == Compacted({t \in DOMAIN trades : trades[t].state # "Settled"})

\* close_and_compact_trades: settled trades out of the window leave the table.
CloseAndCompact(nova) ==
  LET kept == {t \in DOMAIN trades :
                 ~ (trades[t].state = "Settled" /\ SlotOf(nova, trades[t].date) = 0)}
  IN  IF kept = DOMAIN trades THEN UNCHANGED tradeVars ELSE Compacted(kept)

ApplyDayOpened(e) ==
  /\ Live
  /\ \/ /\ e.dates[1] = 0 \/ e.dates[1] <= window[1]
        /\ UNCHANGED vars
     \/ /\ e.dates[1] > window[1]
        /\ window' = e.dates
        /\ custody' = [p \in Positions |-> RolledCustody(custody[p], e.dates)]
        /\ cash' = [a \in Documents |-> RolledCash(cash[a], e.dates)]
        /\ applied' = [s \in KeySets |-> MaybeRotate(applied[s], e.dates[1])]
        /\ CloseAndCompact(e.dates)
        /\ recent' = Retained(e.dates[1])
        /\ UNCHANGED <<cap, tableVars, price_factor, queueVars, halted, historyVars>>

-----------------------------------------------------------------------------
(* 2. TradeExecuted *)

\* What the account pays or receives for the trade, costs included.
Financial(e) ==
  LET gross == NotionalHalfEven(e.qty, e.price, price_factor[e.instrument])
  IN  IF e.side = "Buy" THEN -(gross + e.fees) ELSE gross - e.fees

Executed(row, e, k) ==
  IF e.side = "Buy"
  THEN [row EXCEPT !.pending_buy[k] = @ + e.qty]
  ELSE [row EXCEPT !.available = @ - e.qty, !.pending_sell[k] = @ + e.qty,
                   !.short = @ \/ e.short]

\* Mutant: a sale is covered by purchases that have not settled.
UncoveredMut(e) ==
  /\ e.side = "Sell" /\ ~e.short
  /\ CustodyProjected(custody[<<e.account, e.instrument>>]) < e.qty

Uncovered(e) ==
  /\ e.side = "Sell" /\ ~e.short
  /\ custody[<<e.account, e.instrument>>].available < e.qty

Accept(e) ==
  LET p == <<e.account, e.instrument>>
      k == SlotOf(window, e.date)
      book == [custody EXCEPT ![p] = Executed(@, e, k)]
  IN  /\ Interned({e.account}, {p})
      /\ custody' = book
      /\ cash' = [cash EXCEPT ![e.account].pending[k] = @ + Financial(e)]
      /\ trades' = [t \in DOMAIN trades \cup {e.trade_id} |->
                      IF t = e.trade_id
                      THEN [account |-> e.account, instrument |-> e.instrument,
                            qty |-> e.qty, cash |-> Financial(e), date |-> e.date,
                            side |-> e.side, state |-> NextState("None", "Execute")]
                      ELSE trades[t]]
      /\ rows' = Append(rows, e.trade_id)
      /\ first' = [first EXCEPT ![e.account] = Len(rows) + 1]
      /\ next' = Append(next, first[e.account])
      /\ CheckI3(book, {p})
      /\ booked' = [booked EXCEPT ![e.trade_id] = [date |-> e.date, times |-> @.times + 1]]
      /\ UNCHANGED <<keyVars, queueVars, boughtIn>>

ApplyTradeExecuted(e) ==
  LET p == <<e.account, e.instrument>>
      full == Cardinality(DOMAIN trades) >= cap.trades
      known == e.trade_id \in DOMAIN trades
      described == price_factor[e.instrument] # 0 /\ InWindow(e.date)
  IN  /\ Live
      /\ UNCHANGED <<cap, window, price_factor>>
      /\ \/ /\ full
            /\ Stop("full") /\ NoEffect /\ UNCHANGED tableVars
         \/ /\ ~full /\ known
            /\ UNCHANGED vars
         \/ /\ ~full /\ ~known /\ ~RoomForAccount({})
            /\ Stop("full") /\ NoEffect /\ UNCHANGED tableVars
         \/ /\ ~full /\ ~known /\ RoomForAccount({})
            /\ \/ /\ ~described
                  /\ Interned({e.account}, {}) /\ NoEffect /\ UNCHANGED halted
               \/ /\ described /\ ~RoomForPosition({})
                  /\ Interned({e.account}, {}) /\ NoEffect /\ Stop("full")
               \/ /\ described /\ RoomForPosition({})
                  /\ e.qty <= 0 \/ Uncovered(e)
                  /\ Interned({e.account}, {p}) /\ NoEffect /\ UNCHANGED halted
               \/ /\ described /\ RoomForPosition({})
                  /\ e.qty > 0 /\ ~Uncovered(e)
                  /\ Accept(e)

-----------------------------------------------------------------------------
(* 3. TradeAllocated *)

\* The source account cannot give the quantity up, or the target cannot take it.
CannotMove(e, de, para, k) ==
  IF e.side = "Buy"
  THEN custody[de].pending_buy[k] < e.qty
  ELSE \/ custody[de].pending_sell[k] < e.qty
       \/ ~custody[para].short /\ custody[para].available < e.qty

Reallocated(e, de, para, k) ==
  IF e.side = "Buy"
  THEN [custody EXCEPT ![de].pending_buy[k] = @ - e.qty,
                       ![para].pending_buy[k] = @ + e.qty]
  ELSE [custody EXCEPT
          ![de].pending_sell[k] = @ - e.qty, ![de].available = @ + e.qty,
          ![para].pending_sell[k] = @ + e.qty, ![para].available = @ - e.qty]

\* The row whose link leads to row r on the list of account a, if r is there.
Before(a, r) == {p \in Walked(first[a], next, r) \ {r} : next[p] = r}

\* Mutant: the row before is looked for and left as it is.
UnlinkMut(a, r) ==
  [first |-> IF first[a] = r THEN [first EXCEPT ![a] = next[r]] ELSE first, next |-> next]

\* unlink_trade: row r leaves the list of a.  Nothing happens if it is not there.
Unlink(a, r) ==
  [first |-> IF first[a] = r THEN [first EXCEPT ![a] = next[r]] ELSE first,
   next |-> IF first[a] = r THEN next
            ELSE [p \in DOMAIN next |-> IF p \in Before(a, r) THEN next[r] ELSE next[p]]]

\* The trade leaves the list of the source and is pushed on that of the target,
\* whether it was found in the first or not.
Relist(e) ==
  LET r == CHOOSE i \in DOMAIN rows : rows[i] = e.trade_id
      rest == Unlink(e.from, r)
  IN  /\ next' = [rest.next EXCEPT ![r] = rest.first[e.to]]
      /\ first' = [rest.first EXCEPT ![e.to] = r]
      /\ UNCHANGED rows

Allocate(e, k) ==
  LET de == <<e.from, trades[e.trade_id].instrument>>
      para == <<e.to, trades[e.trade_id].instrument>>
      book == Reallocated(e, de, para, k)
  IN  /\ custody' = book
      /\ cash' = [cash EXCEPT ![e.from].pending[k] = @ - e.cash,
                             ![e.to].pending[k] = @ + e.cash]
      /\ trades' = [trades EXCEPT ![e.trade_id].account = e.to,
                                 ![e.trade_id].state = NextState(@, "Allocate")]
      /\ Relist(e)
      /\ CheckI3(book, {de, para})

ApplyTradeAllocated(e) ==
  /\ Live
  /\ UNCHANGED <<cap, window, price_factor>>
  /\ \/ /\ e.trade_id \notin DOMAIN trades
        /\ UNCHANGED vars
     \/ /\ e.trade_id \in DOMAIN trades
        /\ NextState(trades[e.trade_id].state, "Allocate") = "None"
        /\ UNCHANGED vars
     \/ /\ e.trade_id \in DOMAIN trades
        /\ NextState(trades[e.trade_id].state, "Allocate") # "None"
        /\ LET k == SlotOf(window, e.date)
               inst == trades[e.trade_id].instrument
               wrong == k = 0 \/ e.qty # trades[e.trade_id].qty
               both == {<<e.from, inst>>, <<e.to, inst>>}
           IN
           \/ /\ ~(RoomForAccount({}) /\ RoomForAccount({e.from}))
              /\ Interned(IF RoomForAccount({}) THEN {e.from} ELSE {}, {})
              /\ Stop("full") /\ NoEffect
           \/ /\ RoomForAccount({e.from})
              /\ wrong
              /\ Interned({e.from, e.to}, {}) /\ NoEffect /\ UNCHANGED halted
           \/ /\ RoomForAccount({e.from})
              /\ ~wrong /\ e.from = e.to
              /\ Interned({e.from}, {})
              /\ trades' = [trades EXCEPT ![e.trade_id].state = NextState(@, "Allocate")]
              /\ UNCHANGED <<bookVars, listVars, keyVars, queueVars, halted, historyVars>>
           \/ /\ RoomForAccount({e.from})
              /\ ~wrong /\ e.from # e.to
              /\ ~RoomForPosition({<<e.from, inst>>})
              /\ Interned({e.from, e.to},
                          IF RoomForPosition({}) THEN {<<e.from, inst>>} ELSE {})
              /\ Stop("full") /\ NoEffect
           \/ /\ RoomForAccount({e.from})
              /\ ~wrong /\ e.from # e.to
              /\ RoomForPosition({<<e.from, inst>>})
              /\ Interned({e.from, e.to}, both)
              /\ IF CannotMove(e, <<e.from, inst>>, <<e.to, inst>>, k)
                 THEN NoEffect /\ UNCHANGED halted
                 ELSE Allocate(e, k) /\ UNCHANGED <<keyVars, queueVars, historyVars>>

-----------------------------------------------------------------------------
(* 4. BatchNetted *)

\* The trades of the account due on the date, as its list is walked.
DueOn(a, d) ==
  {t \in {rows[i] : i \in Walked(first[a], next, Nil)} :
     trades[t].account = a /\ trades[t].date = d}

ApplyBatchNetted(e) ==
  LET k == SlotOf(window, e.date)
      ts == {t \in DueOn(e.account, e.date) : NextState(trades[t].state, "Net") # "None"}
  IN  /\ Live
      /\ UNCHANGED <<cap, window, price_factor, bookVars, listVars, keyVars, divergence, historyVars>>
      /\ \/ /\ ~RoomForAccount({})
            /\ Stop("full") /\ UNCHANGED <<tableVars, trades, exceptions>>
         \/ /\ RoomForAccount({}) /\ k = 0
            /\ Interned({e.account}, {}) /\ UNCHANGED <<trades, exceptions, halted>>
         \/ /\ RoomForAccount({}) /\ k # 0
            /\ Interned({e.account}, {})
            /\ cash[e.account].pending[k] # e.net
            /\ PushExceptions(1) /\ UNCHANGED <<trades, halted>>
         \/ /\ RoomForAccount({}) /\ k # 0
            /\ Interned({e.account}, {})
            /\ cash[e.account].pending[k] = e.net
            /\ trades' = Advanced(ts, "Net")
            /\ PushExceptions(IF e.count \notin {0, Cardinality(ts)} THEN 1 ELSE 0)
            /\ UNCHANGED halted

-----------------------------------------------------------------------------
(* 5. TradeSettled *)

Trigger(outcome) ==
  CASE outcome = "Settled" -> "Settle"
    [] outcome = "DeliveryFailure" -> "Fail"
    [] outcome = "BoughtIn" -> "BuyIn"
    [] OTHER -> "None"

\* The quantity the outcome takes, by side and outcome.
Owed(row, e, k) ==
  CASE e.outcome = "BoughtIn" /\ e.side = "Buy" -> row.overdue_buy
    [] e.outcome = "BoughtIn" /\ e.side = "Sell" -> row.overdue_sell
    [] e.outcome # "BoughtIn" /\ e.side = "Buy" -> row.pending_buy[k]
    [] OTHER -> row.pending_sell[k]

SettledCustody(row, e, k) ==
  IF e.side = "Buy"
  THEN [row EXCEPT !.avg_price = AveragePriceHalfEven(CustodyToday(row), @, e.qty, e.cost),
                   !.pending_buy[k] = @ - e.qty, !.available = @ + e.qty]
  ELSE [row EXCEPT !.pending_sell[k] = @ - e.qty]

FailedCustody(row, e, k) ==
  IF e.side = "Buy"
  THEN [row EXCEPT !.pending_buy[k] = @ - e.qty, !.overdue_buy = @ + e.qty]
  ELSE [row EXCEPT !.pending_sell[k] = @ - e.qty, !.overdue_sell = @ + e.qty]

\* Mutant: the purchase leaves the overdue column and reaches no other.
BoughtInCustodyMut(row, e) ==
  IF e.side = "Buy"
  THEN [row EXCEPT !.overdue_buy = @ - e.qty]
  ELSE [row EXCEPT !.overdue_sell = @ - e.qty]

BoughtInCustody(row, e) ==
  IF e.side = "Buy"
  THEN [row EXCEPT !.overdue_buy = @ - e.qty, !.available = @ + e.qty]
  ELSE [row EXCEPT !.overdue_sell = @ - e.qty]

SettledCash(row, e, k) ==
  CASE e.outcome = "Settled" -> [row EXCEPT !.cash = @ + e.cash, !.pending[k] = @ - e.cash]
    [] e.outcome = "DeliveryFailure" ->
         [row EXCEPT !.pending[k] = @ - e.cash, !.overdue = @ + e.cash]
    [] OTHER -> [row EXCEPT !.overdue = @ - e.cash, !.cash = @ + e.cash]

Settle(e, p, k) ==
  LET row == CASE e.outcome = "Settled" -> SettledCustody(custody[p], e, k)
               [] e.outcome = "DeliveryFailure" -> FailedCustody(custody[p], e, k)
               [] OTHER -> BoughtInCustody(custody[p], e)
      book == [custody EXCEPT ![p] = row]
      ts == {t \in DueOn(e.account, e.date) :
               trades[t].instrument = e.instrument /\ trades[t].side = e.side}
  IN  /\ custody' = book
      /\ cash' = [cash EXCEPT ![e.account] = SettledCash(@, e, k)]
      /\ PushExceptions(IF e.outcome = "DeliveryFailure" THEN 1 ELSE 0)
      /\ trades' = Advanced(ts, Trigger(e.outcome))
      /\ boughtIn' = IF e.outcome = "BoughtIn"
                     THEN boughtIn \cup {t \in ts : \/ trades[t].state = "DeliveryFailed"
                                                   \/ ~InWindow(trades[t].date)}
                     ELSE boughtIn
      /\ CheckI3(book, {p})
      /\ UNCHANGED <<listVars, keyVars, divergence, booked>>

\* No position, no such outcome, no slot, or more than is owed.
RefusesSettlement(e, p, k) ==
  \/ p \notin positions
  \/ Trigger(e.outcome) = "None"
  \/ e.outcome # "BoughtIn" /\ k = 0
  \/ (e.outcome = "BoughtIn" \/ k # 0) /\ Owed(custody[p], e, k) < e.qty

ApplyTradeSettled(e) ==
  LET p == <<e.account, e.instrument>>
      k == SlotOf(window, e.date)
  IN  /\ Live
      /\ UNCHANGED <<cap, window, price_factor>>
      /\ \/ /\ ~RoomForAccount({})
            /\ Stop("full") /\ NoEffect /\ UNCHANGED tableVars
         \/ /\ RoomForAccount({})
            /\ Interned({e.account}, {})
            /\ \/ /\ RefusesSettlement(e, p, k)
                  /\ NoEffect /\ UNCHANGED halted
               \/ /\ ~RefusesSettlement(e, p, k)
                  /\ Settle(e, p, k)

-----------------------------------------------------------------------------
(* 6. CorporateActionApplied *)

\* What is owned is cut to whole shares, its fraction joins the leftovers; what
\* is in flight keeps its fraction.
Split(row, n, d) ==
  [row EXCEPT !.available = ScaleQtyTrunc(@, n, d),
              !.leftovers = TowardZero(@, n, d) + ScaleQtyFraction(row.available, n, d),
              !.overdue_buy = ScaleQtyKeepFraction(@, n, d),
              !.overdue_sell = ScaleQtyKeepFraction(@, n, d),
              !.pending_buy = [k \in Slots |-> ScaleQtyKeepFraction(@[k], n, d)],
              !.pending_sell = [k \in Slots |-> ScaleQtyKeepFraction(@[k], n, d)],
              !.avg_price = ScalePriceHalfEven(@, n, d)]

BonusShares(row, e) == ScaleQtyTrunc(CustodyToday(row), e.num, e.den) - CustodyToday(row)

Bonus(row, e) ==
  LET base == CustodyToday(row)
      extra == BonusShares(row, e)
  IN  [row EXCEPT !.avg_price =
                    AveragePriceHalfEven(base, @, extra, HalfEven(extra, e.unit_cost, One)),
                  !.available = @ + extra,
                  !.leftovers = @ + ScaleQtyFraction(base, e.num, e.den)]

Subscription(row, e) ==
  [row EXCEPT !.avg_price = AveragePriceHalfEven(CustodyToday(row), @, e.qty_delta, e.cash_delta),
              !.available = @ + e.qty_delta]

\* Refused before the key is taken.
Malformed(e) ==
  \/ e.type \notin {"Split", "Bonus", "Subscription", "LeftoversAuction"}
  \/ e.type \in {"Split", "Bonus"} /\ (e.num = 0 \/ e.den = 0)
  \/ e.type = "Subscription" /\ e.qty_delta < 0

\* Refused after the key is taken: the checks that need the holding.
RefusedLate(row, e) ==
  \/ e.type = "Bonus" /\ BonusShares(row, e) < 0
  \/ /\ e.type = "Subscription" /\ e.num # 0 /\ e.den # 0
     /\ e.qty_delta > ScaleQtyTrunc(CustodyToday(row), e.num, e.den)

Acted(row, e) ==
  CASE e.type = "Split" -> Split(row, e.num, e.den)
    [] e.type = "Bonus" -> Bonus(row, e)
    [] e.type = "Subscription" -> Subscription(row, e)
    [] OTHER -> [row EXCEPT !.leftovers = 0]

ActedCash(row, e) ==
  LET moved == CASE e.type = "Subscription" -> -e.cash_delta
                 [] e.type = "LeftoversAuction" -> e.cash_delta
                 [] OTHER -> 0
  IN  [row EXCEPT !.cash = @ + moved, !.income = @ - e.withheld_tax]

\* The key goes in the generation in use; the history remembers the day.
TakeKey(s, key) == applied' = [applied EXCEPT ![s] = Insert(@, key)]
Remember(s, key) ==
  recent' = [recent EXCEPT ![s][key] = [day |-> window[1], times |-> @.times + 1]]

Act(e, p, key) ==
  LET book == [custody EXCEPT ![p] = Acted(@, e)]
      delta == CustodyToday(book[p]) - CustodyToday(custody[p])
  IN  /\ TakeKey("actions", key)
      /\ Remember("actions", key)
      /\ custody' = book
      /\ cash' = [cash EXCEPT ![e.account] = ActedCash(@, e)]
      /\ PushExceptions(IF e.told /\ delta # e.qty_delta THEN 1 ELSE 0)
      /\ CheckI3(book, {p})
      /\ UNCHANGED <<tradeVars, divergence, historyVars>>

ApplyCorporateAction(e) ==
  LET p == <<e.account, e.instrument>>
      key == <<e.action_id, e.account>>
  IN  /\ Live
      /\ UNCHANGED <<cap, window, price_factor>>
      /\ \/ /\ ~(RoomForAccount({}) /\ RoomForPosition({}))
            /\ Interned(IF RoomForAccount({}) THEN {e.account} ELSE {}, {})
            /\ Stop("full") /\ NoEffect
         \/ /\ RoomForAccount({}) /\ RoomForPosition({})
            /\ Interned({e.account}, {p})
            /\ \/ /\ Malformed(e) \/ Contains(applied["actions"], key)
                  /\ NoEffect /\ UNCHANGED halted
               \/ /\ ~Malformed(e) /\ ~Contains(applied["actions"], key)
                  /\ KeysFull(applied["actions"])
                  /\ Stop("full") /\ NoEffect
               \/ /\ ~Malformed(e) /\ ~Contains(applied["actions"], key)
                  /\ ~KeysFull(applied["actions"])
                  /\ RefusedLate(custody[p], e)
                  /\ TakeKey("actions", key)
                  /\ UNCHANGED <<bookVars, tradeVars, recent, queueVars, halted, historyVars>>
               \/ /\ ~Malformed(e) /\ ~Contains(applied["actions"], key)
                  /\ ~KeysFull(applied["actions"])
                  /\ ~RefusedLate(custody[p], e)
                  /\ Act(e, p, key)

-----------------------------------------------------------------------------
(* 7. DividendPaid *)

Credited(row, e) ==
  IF e.stage = "Accrued" THEN [row EXCEPT !.income = @ + e.net]
  ELSE [row EXCEPT !.income = @ - e.net, !.cash = @ + e.net]

OffRate(e) == AbsOf(e.gross - HalfEven(e.qty_basis, e.rate, One)) > Tolerance

ApplyDividendPaid(e) ==
  LET key == <<e.action_id, e.account>>
  IN  /\ Live
      /\ UNCHANGED <<cap, window, positions, price_factor, custody, tradeVars, divergence, historyVars>>
      /\ \/ /\ ~RoomForAccount({})
            /\ Stop("full") /\ UNCHANGED <<accounts, cash, keyVars, exceptions>>
         \/ /\ RoomForAccount({})
            /\ accounts' = accounts \cup {e.account}
            /\ \/ /\ e.gross - e.withheld # e.net
                  /\ UNCHANGED <<cash, keyVars, exceptions, halted>>
               \/ /\ e.gross - e.withheld = e.net /\ OffRate(e)
                  /\ PushExceptions(1) /\ UNCHANGED <<cash, keyVars, halted>>
               \/ /\ e.gross - e.withheld = e.net /\ ~OffRate(e)
                  /\ Contains(applied["income"], key)
                  /\ UNCHANGED <<cash, keyVars, exceptions, halted>>
               \/ /\ e.gross - e.withheld = e.net /\ ~OffRate(e)
                  /\ ~Contains(applied["income"], key) /\ KeysFull(applied["income"])
                  /\ Stop("full") /\ UNCHANGED <<cash, keyVars, exceptions>>
               \/ /\ e.gross - e.withheld = e.net /\ ~OffRate(e)
                  /\ ~Contains(applied["income"], key) /\ ~KeysFull(applied["income"])
                  /\ TakeKey("income", key) /\ Remember("income", key)
                  /\ cash' = [cash EXCEPT ![e.account] = Credited(@, e)]
                  /\ UNCHANGED <<exceptions, halted>>

-----------------------------------------------------------------------------
(* 8, 9, 10. ClosingPriceSet, CustodyReconciled, EodMarked *)

ApplyClosingPrice(e) ==
  /\ Live
  /\ price_factor' = IF e.factor = 0 THEN price_factor
                     ELSE [price_factor EXCEPT ![e.instrument] = e.factor]
  /\ UNCHANGED <<cap, window, tableVars, bookVars, tradeVars, keyVars, queueVars, halted, historyVars>>

\* A divergence is queued and flagged; the ledger is not adjusted.
ApplyCustodyReconciled(e) ==
  /\ Live
  /\ PushExceptions(e.divergences)
  /\ divergence' = (divergence \/ (e.divergences > 0 /\ cap.exceptions > 0))
  /\ UNCHANGED <<cap, window, tableVars, price_factor, bookVars, tradeVars, keyVars, halted, historyVars>>

\* Checksums that are given must be those of the state.
ApplyEodMarked(e) ==
  /\ Live
  /\ IF (e.custody_sum # 0 \/ e.cash_sum # 0)
        /\ (e.custody_sum # CustodyChecksum \/ e.cash_sum # CashChecksum)
     THEN Stop("eod") /\ UNCHANGED divergence
     ELSE divergence' = (divergence \/ e.diverged) /\ UNCHANGED halted
  /\ UNCHANGED <<cap, window, tableVars, price_factor, bookVars, tradeVars, keyVars, exceptions, historyVars>>

-----------------------------------------------------------------------------
(* The events that arrive.  Trades, corporate actions and incomes come in   *)
(* any order, repeated, late or malformed.  Allocations and settlements     *)
(* speak of the trades as they are: the handlers take the owner, the side   *)
(* and the amounts of an event on trust.                                    *)

Sides == {"Buy", "Sell"}

\* Bounds of the model, by capacity.  Where two trades fit there are short sales
\* and splits of one action only; with room for one account, purchases, incomes and the end of the
\* day; otherwise every kind of corporate action.
OneAccount == cap.accounts <= Cardinality(Documents)
ActionTypes ==
  CASE OneAccount -> {}
    [] ~OneAccount /\ cap.trades > 1 -> {"Split"}
    [] OTHER -> {"Split", "Bonus", "Subscription", "LeftoversAuction", "Unknown"}
ActionIds == {x \in Actions : cap.trades > 1 => \A y \in Actions : x <= y}

\* The last day is for the first two.
DayEvents ==
  {[dates |-> <<d, d + 1, d + 2>>] :
     d \in {x \in Days : OneAccount \/ cap.trades > 1 \/ \E y \in Days : x < y}}

\* A sale may be short; a quantity or a date may be out of range.  An execution
\* may be delivered again at any time, with the date it had.
ExecutedEvents(t) ==
  LET dates == IF booked[t].times > 0 THEN {booked[t].date}
               ELSE {window[1] + lag : lag \in Lags}
  IN  {e \in [trade_id : {t}, account : Traders, instrument : Instruments,
              side : IF OneAccount THEN {"Buy"} ELSE Sides, qty : Lots, price : {UnitPrice}, fees : {Fees},
              date : dates, short : BOOLEAN] :
         /\ e.qty > 0 \/ e.side = "Buy"
         /\ e.short => /\ cap.trades > 1 /\ InWindow(e.date)
                       /\ e.side = "Sell"}

\* For a trade that exists, from its owner; otherwise of a trade nobody knows.
AllocatedEvents(t) ==
  IF t \in DOMAIN trades
  THEN [trade_id : {t}, from : {trades[t].account}, to : Documents,
        qty : {trades[t].qty, trades[t].qty + One}, date : {trades[t].date},
        side : {trades[t].side}, cash : {trades[t].cash}]
  ELSE [trade_id : {t}, from : Traders, to : Traders, qty : {One},
        date : {window[1]}, side : {"Buy"}, cash : {0}]

NettedEvents ==
  {[account |-> a, date |-> d, net |-> m[1], count |-> m[2]] :
     a \in Documents, d \in {window[2], window[3] + 1},
     m \in IF cap.trades > 1 THEN {<<0, 0>>} ELSE {<<0, 0>>, <<0, 1>>, <<1, 0>>}}

\* The chamber settles the trades of an account, instrument, side and date
\* together, once all are netted, and buys in those not delivered in time.  A
\* settlement of trades the partition does not have is a stray one, of one share
\* of a trader.
Undelivered(t) == trades[t].state = "DeliveryFailed" \/ ~InWindow(trades[t].date)

Unsettled(a, i, s, d) ==
  {t \in DueOn(a, d) : trades[t].instrument = i /\ trades[t].side = s} \ boughtIn

SettlementOf(due, a, i, s, d, outcome) ==
  LET group == IF outcome = "BoughtIn" THEN {t \in due : Undelivered(t)} ELSE due
      money == SumFunctionOnSet(TradeCash, group)
      k == SlotOf(window, d)
      owed == IF group = {} \/ (outcome # "BoughtIn" /\ k = 0) THEN One
              ELSE Owed(custody[<<a, i>>], [side |-> s, outcome |-> outcome], k)
  IN  IF IF group = {} THEN outcome = "Settled" /\ a \in Traders
         ELSE outcome = "BoughtIn" \/ \A t \in group : trades[t].state = "Netted"
      THEN [account : {a}, instrument : {i}, side : {s}, date : {d}, outcome : {outcome},
            qty : IF group = {} THEN {owed} ELSE {owed, owed + One},
            cash : {money}, cost : {AbsOf(money)}]
      ELSE {}

SettledEvents ==
  UNION {LET due == Unsettled(a, i, s, d)
         IN  UNION {SettlementOf(due, a, i, s, d, outcome) :
                      outcome \in {"Settled"} \cup
                        IF due = {} THEN {} ELSE {"DeliveryFailure", "BoughtIn", "Unknown"}} :
           a \in Documents, i \in Instruments, s \in Sides,
           d \in {window[1], window[2]} \cup {trades[t].date : t \in DOMAIN trades}}

\* A factor of more than one is of a split or a bonus; rights are for less than is held.
ActionEvents ==
  {e \in {[action_id |-> x, account |-> a, instrument |-> i, type |-> ty, num |-> f[1],
    den |-> f[2], qty_delta |-> One, cash_delta |-> 1, unit_cost |-> 1,
    withheld_tax |-> 0, told |-> told /\ ty = "Split" /\ cap.trades = 1] :
     x \in ActionIds, a \in Holders, i \in Instruments, f \in Factors, told \in BOOLEAN,
     ty \in ActionTypes} : e.type \in {"Split", "Bonus"} \/ e.num < e.den}

IncomeEvents ==
  {[action_id |-> x, account |-> a, stage |-> st, gross |-> g, withheld |-> 0,
    net |-> g + odd, qty_basis |-> One, rate |-> 1] :
     x \in Actions, a \in Holders, st \in {"Accrued", "Paid"},
     g \in IF OneAccount THEN {1, 2 + Tolerance} ELSE {}, odd \in {0, 1}}

EodEvents ==
  {[custody_sum |-> CustodyChecksum + odd, cash_sum |-> CashChecksum, diverged |-> dv] :
     odd \in {0, 1}, dv \in IF OneAccount THEN BOOLEAN ELSE {}}

-----------------------------------------------------------------------------
Init ==
  /\ cap \in Capacities
  /\ window = <<0, 0, 0>>
  /\ accounts = {} /\ positions = {}
  /\ price_factor = [i \in Instruments |-> 0]
  /\ custody = [p \in Positions |-> EmptyCustody]
  /\ cash = [a \in Documents |-> EmptyCash]
  /\ trades = [t \in {} |-> 0]
  /\ rows = <<>> /\ next = <<>> /\ first = [a \in Documents |-> Nil]
  /\ applied = [s \in KeySets |-> EmptyKeys]
  /\ recent = [s \in KeySets |-> [key \in Pairs |-> Never]]
  /\ exceptions = 0 /\ divergence = FALSE
  /\ halted = "no"
  /\ booked = [t \in TradeIds |-> [date |-> 0, times |-> 0]]
  /\ boughtIn = {}

Next ==
  \/ \E e \in DayEvents : ApplyDayOpened(e)
  \/ \E t \in TradeIds : \/ \E e \in ExecutedEvents(t) : ApplyTradeExecuted(e)
                        \/ \E e \in AllocatedEvents(t) : ApplyTradeAllocated(e)
  \/ \E e \in NettedEvents :
       ApplyBatchNetted([e EXCEPT !.net = @ + (IF InWindow(e.date)
         THEN cash[e.account].pending[SlotOf(window, e.date)] ELSE 0)])
  \/ \E e \in SettledEvents : ApplyTradeSettled(e)
  \/ \E e \in ActionEvents : ApplyCorporateAction(e)
  \/ \E e \in IncomeEvents : ApplyDividendPaid(e)
  \/ \E i \in Instruments, f \in {0, 1} : ApplyClosingPrice([instrument |-> i, factor |-> f])
  \/ \E n \in IF OneAccount THEN {0, 1} ELSE {} : ApplyCustodyReconciled([divergences |-> n])
  \/ \E e \in EodEvents : ApplyEodMarked(e)

Spec == Init /\ [][Next]_vars

\* The same, when allocations may name a source account that is not the owner of
\* the trade: the handler does not compare the two.
ForeignAllocations(t) ==
  {[e EXCEPT !.from = a] : e \in AllocatedEvents(t), a \in Documents}

ForeignNext ==
  \/ Next
  \/ \E t \in DOMAIN trades : \E e \in ForeignAllocations(t) : ApplyTradeAllocated(e)

ForeignSpec == Init /\ [][ForeignNext]_vars

-----------------------------------------------------------------------------
CustodyRow ==
  [available : Int, pending_buy : [Slots -> Int], pending_sell : [Slots -> Int],
   overdue_buy : Int, overdue_sell : Int, leftovers : Int, avg_price : Int,
   short : BOOLEAN]

CashRow == [cash : Int, pending : [Slots -> Int], overdue : Int, income : Int]

TradeRow ==
  [account : Documents, instrument : Instruments, qty : Int, cash : Int, date : Nat,
   side : Sides, state : TradeStates \ {"None", "Closed"}]

KeySet == [gen : [1 .. 2 -> SUBSET Pairs], cur : 1 .. 2, rot : Nat]

\* The tables hold what their columns may hold, within their capacities.
TypeOK ==
  /\ cap \in Capacities
  /\ window \in [Slots -> Nat]
  /\ accounts \subseteq Documents /\ Cardinality(accounts) <= cap.accounts
  /\ positions \subseteq Positions /\ Cardinality(positions) <= cap.positions
  /\ price_factor \in [Instruments -> Nat]
  /\ custody \in [Positions -> CustodyRow]
  /\ cash \in [Documents -> CashRow]
  /\ DOMAIN trades \subseteq TradeIds /\ Cardinality(DOMAIN trades) <= cap.trades
  /\ trades \in [DOMAIN trades -> TradeRow]
  /\ rows \in Seq(DOMAIN trades)
  /\ first \in [Documents -> 0 .. Len(rows)] /\ next \in [DOMAIN rows -> 0 .. Len(rows)]
  /\ applied \in [KeySets -> KeySet]
  /\ recent \in [KeySets -> [Pairs -> [day : Nat, times : Nat]]]
  /\ exceptions \in 0 .. MaxExceptions /\ divergence \in BOOLEAN
  /\ halted \in {"no", "full", "I3", "eod"}
  /\ booked \in [TradeIds -> [date : Nat, times : Nat]]
  /\ boughtIn \subseteq TradeIds

\* I3 of docs/invariantes.md: no column of a position is below zero, except the
\* free quantity of a position with short sales allowed.  A grouping of a short
\* position breaks it (run short_split).
NoNegativeBucket == \A p \in Positions : BucketsNonNegative(custody[p])

\* What the code keeps of I3, whatever the order of executions, allocations,
\* settlements, corporate actions and days: a partition at work has no negative
\* column; one that has stopped (RV_CHECK) has at most the leftovers that a
\* corporate action computed from the negative quantity of a short position.
NegativeBucketStops ==
  \A p \in Positions :
    \/ BucketsNonNegative(custody[p])
    \/ /\ halted = "I3" /\ custody[p].short
       /\ BucketsNonNegative([custody[p] EXCEPT !.leftovers = 0])

Pending(t) == trades[t].state \in {"Executed", "Allocated", "Netted"} /\ t \notin boughtIn

\* I2 of docs/invariantes.md: what an account has to settle on each date of the
\* window is exactly the sum of its pending trades for that date, through
\* allocations, failures, buy-ins and the rotation of the window.
PendingCashIsTheTrades ==
  \A a \in Documents, k \in Slots :
    k = SlotOf(window, window[k]) =>
      cash[a].pending[k] =
        SumFunctionOnSet(TradeCash,
          {t \in DOMAIN trades : /\ trades[t].account = a /\ trades[t].date = window[k]
                                 /\ Pending(t)})

\* No two links lead to the same row.
NoLinkShared ==
  /\ \A a, b \in Documents : first[a] = first[b] => a = b \/ first[a] = Nil
  /\ \A i, j \in DOMAIN next : next[i] = next[j] => i = j \/ next[i] = Nil
  /\ \A a \in Documents, j \in DOMAIN next : first[a] = next[j] => first[a] = Nil

\* The walks of BatchNetted and TradeSettled come by every trade of the account,
\* by no other, and end: the list that starts at an account leads to its trades
\* and each row has one link that leads to it, however trades changed hands
\* (unlink_trade) and rows moved (close_and_compact_trades).
ListsMatchOwners ==
  /\ \A a \in Documents :
       {rows[i] : i \in Walked(first[a], next, Nil)} =
         {t \in DOMAIN trades : trades[t].account = a}
  /\ NoLinkShared

\* An execution is booked once, however often it is delivered: trade_index knows it
\* until the trade is closed, and by then its date has left the window.
BookedOnce == \A t \in TradeIds : booked[t].times <= 1

Money(row) == row.cash + row.overdue + Sum3(row.pending)

\* No corporate action or income is accepted in this step.
NoneAccepted ==
  \A s \in KeySets, key \in Pairs : recent'[s][key].times <= recent[s][key].times

\* A step that books or moves no trade and accepts no corporate action or income
\* only moves amounts between columns: the projected custody of every position and
\* the money of every account stay what they were (settlements, failures, buy-ins,
\* the opening of a day).
NothingAppearsOrVanishes ==
  [][ (/\ DOMAIN trades' \subseteq DOMAIN trades
       /\ \A t \in DOMAIN trades' : trades'[t].account = trades[t].account
       /\ NoneAccepted) =>
      /\ \A p \in Positions : CustodyProjected(custody'[p]) = CustodyProjected(custody[p])
      /\ \A a \in Documents : Money(cash'[a]) = Money(cash[a]) ]_vars

\* I6: an event accepted for an account is not accepted again within the retention
\* window, however often it is delivered and however the two generations of the
\* idempotency set rotate meanwhile.
AcceptedOncePerWindow ==
  \A s \in KeySets, key \in Pairs : recent[s][key].times <= 1
=============================================================================
