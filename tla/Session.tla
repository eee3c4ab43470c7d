------------------------------ MODULE Session ------------------------------
(***************************************************************************)
(* A session of the market simulator (gera in ingress/simulator.cpp) and   *)
(* the partition that receives it (module Ledger).  The simulator plays    *)
(* the exchange, the clearing house and the depository: it draws trades    *)
(* and keeps three maps of its own, from which it works out the nets,      *)
(* settlements and incomes that the partition then checks.  It never reads *)
(* the partition, so that generating an event and applying it can be one   *)
(* step, although the source generates the whole session first.            *)
(*                                                                         *)
(* The part of one partition: opening, prices, reconciliation and the end  *)
(* of the day go to every partition alike, and the investors here are its  *)
(* own.  What the generator draws is a choice; prices do not move, and a   *)
(* map is walked in any order.  Names and reports are left out.            *)
(***************************************************************************)
EXTENDS Ledger, Sequences, Functions

CONSTANTS
  Plans,       \* ConfigSimulacao: investors and trades per day
  Calendar,    \* carrega_calendario: business days, each with its D+2
  Sevenths,    \* investors whose number is a multiple of seven
  HugeLot,     \* a quantity that no position covers
  Rate, WithheldBp   \* inputs: income per share, tax withheld in basis points

ASSUME SessionAssumption ==
  /\ \A plan \in Plans : plan.investors \subseteq Documents /\ plan.perDay \in Nat
  /\ \A i \in DOMAIN Calendar : Calendar[i].data < Calendar[i].d2
  /\ \A i, j \in DOMAIN Calendar : i < j => Calendar[i].data < Calendar[j].data
  /\ {HugeLot, Rate, WithheldBp} \subseteq Nat

VARIABLES
  plan,      \* the configuration of this session
  step,      \* what the simulator emits next
  day,       \* position in Calendar
  todo,      \* what the loop of this step has not reached yet
  drawn,     \* trades drawn today
  tradeId, actionId,   \* the next ids
  pair,      \* the trade whose allocation comes next
  net,       \* net_por_conta_data
  pernas,    \* legs not settled yet: quantity and cash
  posicao,   \* posicao_liquidada
  failures,  \* history: deliveries that were made to fail
  told       \* history: divergences reported by the depository

simVars == <<plan, step, day, todo, drawn, tradeId, actionId, pair, net, pernas, posicao, failures, told>>

Hoje == Calendar[day]
LastDay == day = Len(Calendar)
D1 == IF LastDay THEN Hoje.data ELSE Calendar[day + 1].data

\* Value of a map at key, absent keys counting as zero (operator[] of std::map).
At(f, key) == IF key \in DOMAIN f THEN f[key] ELSE 0
Put(f, key, v) == [x \in DOMAIN f \cup {key} |-> IF x = key THEN v ELSE f[x]]

\* Mutant: purchases and sales of an instrument in one leg.
LegOfMut(e) == <<e.account, e.instrument, "Buy", e.date>>

\* Legs by account, instrument, side and date; each with its quantity and its cash.
LegOf(e) == <<e.account, e.instrument, e.side, e.date>>
Due == {leg \in DOMAIN pernas : leg[4] = Hoje.data}
NetKeys == {key \in DOMAIN net : key[2] = Hoje.d2}
Entitled(i) == {key \in DOMAIN posicao : key[2] = i /\ posicao[key] > 0}

-----------------------------------------------------------------------------
\* 1. The day is opened.
Open ==
  /\ step = "open"
  /\ ApplyDayOpened([dates |-> <<Hoje.data, D1, Hoje.d2>>])
  /\ step' = "prices" /\ todo' = Instruments
  /\ UNCHANGED <<plan, day, drawn, tradeId, actionId, pair, net, pernas, posicao, failures, told>>

\* 2. Every instrument with its closing price and factor.
Prices ==
  /\ step = "prices"
  /\ \E i \in todo :
       /\ ApplyClosingPrice([instrument |-> i, factor |-> 1])
       /\ todo' = todo \ {i}
  /\ step' = IF todo' = {} THEN "settle" ELSE "prices"
  /\ UNCHANGED <<plan, day, drawn, tradeId, actionId, pair, net, pernas, posicao, failures, told>>

\* 3. What is due today is settled, or the delivery fails.
Settlement(leg, fails) ==
  [account |-> leg[1], instrument |-> leg[2], side |-> leg[3], date |-> leg[4],
   qty |-> pernas[leg].qty, cash |-> pernas[leg].caixa,
   cost |-> IF pernas[leg].caixa < 0 THEN -pernas[leg].caixa ELSE 0,
   outcome |-> IF fails THEN "DeliveryFailure" ELSE "Settled"]

Liquidate ==
  /\ step = "settle" /\ Due # {}
  /\ \E leg \in Due, fails \in BOOLEAN :
       LET key == <<leg[1], leg[2]>>
           signed == IF leg[3] = "Buy" THEN pernas[leg].qty ELSE -pernas[leg].qty
       IN
       /\ ApplyTradeSettled(Settlement(leg, fails))
       /\ posicao' = IF fails THEN posicao ELSE Put(posicao, key, At(posicao, key) + signed)
       /\ pernas' = Restrict(pernas, DOMAIN pernas \ {leg})
       /\ failures' = IF fails THEN failures + 1 ELSE failures
  /\ UNCHANGED <<plan, step, day, todo, drawn, tradeId, actionId, pair, net, told>>

EndSettlement ==
  /\ step = "settle" /\ Due = {}
  /\ step' = "trade"
  /\ UNCHANGED <<vars, plan, day, todo, drawn, tradeId, actionId, pair, net, pernas, posicao, failures, told>>

-----------------------------------------------------------------------------
\* 4. The trades of the day.

\* Mutant: a sale meant to be refused has the quantity of any other.
DrawnQtyMut(invalid, side, lot) == lot

\* A sale meant to be refused is one that no position can cover.
DrawnQty(invalid, side, lot) == IF invalid /\ side = "Sell" THEN HugeLot ELSE lot

Drawn(inv, i, side, lot, invalid) ==
  [trade_id |-> tradeId, account |-> inv, instrument |-> i, side |-> side,
   qty |-> DrawnQty(invalid, side, lot), price |-> UnitPrice, fees |-> Fees, date |-> Hoje.d2,
   short |-> side = "Sell" /\ ~invalid]

\* What the simulator expects the trade to cost or bring.
Financeiro(e) ==
  LET bruto == NotionalHalfEven(e.qty, e.price, 1)
  IN  IF e.side = "Buy" THEN -(bruto + e.fees) ELSE bruto - e.fees

\* Mutant: a sale that is refused is counted with the others.
CountsMut(e, invalid) == TRUE

\* A sale that is refused does not count.
Counts(e, invalid) == ~(invalid /\ e.side = "Sell")

Trade ==
  /\ step = "trade" /\ drawn < plan.perDay
  /\ \E inv \in plan.investors, i \in Instruments, side \in Sides, lot \in Lots, invalid \in BOOLEAN :
       LET e == Drawn(inv, i, side, lot, invalid)
           leg == IF LegOf(e) \in DOMAIN pernas THEN pernas[LegOf(e)] ELSE [qty |-> 0, caixa |-> 0]
           key == <<inv, e.date>>
       IN
       /\ ApplyTradeExecuted(e)
       /\ pair' = e
       /\ IF Counts(e, invalid)
          THEN /\ net' = Put(net, key, At(net, key) + Financeiro(e))
               /\ pernas' = Put(pernas, LegOf(e), [qty |-> leg.qty + e.qty,
                                                   caixa |-> leg.caixa + Financeiro(e)])
          ELSE UNCHANGED <<net, pernas>>
  /\ step' = "allocate" /\ drawn' = drawn + 1 /\ tradeId' = tradeId + 1
  /\ UNCHANGED <<plan, day, todo, actionId, posicao, failures, told>>

\* Each trade is allocated at once, to the investor who made it.
AllocateTrade ==
  /\ step = "allocate"
  /\ ApplyTradeAllocated([trade_id |-> pair.trade_id, from |-> pair.account, to |-> pair.account,
                          qty |-> pair.qty, date |-> pair.date, side |-> pair.side, cash |-> 0])
  /\ step' = "trade" /\ pair' = {}
  /\ UNCHANGED <<plan, day, todo, drawn, tradeId, actionId, net, pernas, posicao, failures, told>>

EndTrades ==
  /\ step = "trade" /\ drawn = plan.perDay
  /\ step' = "net" /\ todo' = NetKeys
  /\ UNCHANGED <<vars, plan, day, drawn, tradeId, actionId, pair, net, pernas, posicao, failures, told>>

-----------------------------------------------------------------------------
\* Mutant: the net is sent for the date after today.
NettedMut(key) == [account |-> key[1], date |-> D1, net |-> net[key], count |-> 0]

\* 5. The net of each account for the settlement date of today's trades.
Netted(key) == [account |-> key[1], date |-> key[2], net |-> net[key], count |-> 0]

Net ==
  /\ step = "net" /\ todo # {}
  /\ \E key \in todo :
       /\ ApplyBatchNetted(Netted(key))
       /\ todo' = todo \ {key}
  /\ UNCHANGED <<plan, step, day, drawn, tradeId, actionId, pair, net, pernas, posicao, failures, told>>

\* 6. and 7. An income and a split, each of an instrument that is drawn; none on
\* the first day.
EndNet ==
  /\ step = "net" /\ todo = {}
  /\ IF day = 1 THEN step' = "recon" /\ todo' = {}
     ELSE \E i \in Instruments : step' = "income" /\ todo' = Entitled(i)
  /\ UNCHANGED <<vars, plan, day, drawn, tradeId, actionId, pair, net, pernas, posicao, failures, told>>

\* On interest on capital (jcp) tax is withheld.
Income(key, jcp) ==
  LET bruto == HalfEven(posicao[key], Rate, One)
      retido == IF jcp THEN TowardZero(bruto, WithheldBp, 10000) ELSE 0
  IN  [action_id |-> actionId, account |-> key[1], stage |-> "Accrued", gross |-> bruto,
       withheld |-> retido, net |-> bruto - retido, qty_basis |-> posicao[key], rate |-> Rate]

PayIncome ==
  /\ step = "income" /\ todo # {}
  /\ \E key \in todo, jcp \in BOOLEAN :
       /\ ApplyDividendPaid(Income(key, jcp))
       /\ todo' = todo \ {key}
  /\ actionId' = actionId + 1
  /\ UNCHANGED <<plan, step, day, drawn, tradeId, pair, net, pernas, posicao, failures, told>>

EndIncome ==
  /\ step = "income" /\ todo = {}
  /\ \E i \in Instruments : step' = "split" /\ todo' = (plan.investors \cap Sevenths) \X {i}
  /\ UNCHANGED <<vars, plan, day, drawn, tradeId, actionId, pair, net, pernas, posicao, failures, told>>

\* The maps are left as they are: legs in flight keep the quantity of before.
SplitPosition ==
  /\ step = "split" /\ todo # {}
  /\ \E key \in todo :
       /\ ApplyCorporateAction([action_id |-> actionId, account |-> key[1], instrument |-> key[2],
            type |-> "Split", num |-> 2, den |-> 1, qty_delta |-> 0, cash_delta |-> 0,
            unit_cost |-> 0, withheld_tax |-> 0, told |-> FALSE])
       /\ todo' = todo \ {key}
  /\ actionId' = actionId + 1
  /\ UNCHANGED <<plan, step, day, drawn, tradeId, pair, net, pernas, posicao, failures, told>>

EndSplit ==
  /\ step = "split" /\ todo = {}
  /\ step' = "recon"
  /\ UNCHANGED <<vars, plan, day, todo, drawn, tradeId, actionId, pair, net, pernas, posicao, failures, told>>

-----------------------------------------------------------------------------
\* 8. Reconciliation, with one divergence on the last day.
Reconcile ==
  /\ step = "recon"
  /\ told' = IF LastDay THEN told + 1 ELSE told
  /\ ApplyCustodyReconciled([divergences |-> told' - told])
  /\ step' = "eod"
  /\ UNCHANGED <<plan, day, todo, drawn, tradeId, actionId, pair, net, pernas, posicao, failures>>

\* 9. The end of the day, without checksums.
EndDay ==
  /\ step = "eod"
  /\ ApplyEodMarked([custody_sum |-> 0, cash_sum |-> 0, diverged |-> FALSE])
  /\ step' = IF LastDay THEN "done" ELSE "open"
  /\ day' = IF LastDay THEN day ELSE day + 1
  /\ drawn' = 0
  /\ UNCHANGED <<plan, todo, tradeId, actionId, pair, net, pernas, posicao, failures, told>>

SessionInit ==
  /\ Init
  /\ plan \in Plans
  /\ step = "open" /\ day = 1 /\ todo = {} /\ drawn = 0
  /\ tradeId = 1 /\ actionId = 1 /\ pair = {}
  /\ net = [key \in {} |-> 0] /\ pernas = [leg \in {} |-> 0] /\ posicao = [key \in {} |-> 0]
  /\ failures = 0 /\ told = 0

SessionNext ==
  \/ Open \/ Prices \/ Liquidate \/ EndSettlement
  \/ Trade \/ AllocateTrade \/ EndTrades
  \/ Net \/ EndNet \/ PayIncome \/ EndIncome \/ SplitPosition \/ EndSplit
  \/ Reconcile \/ EndDay

SessionSpec == SessionInit /\ [][SessionNext]_<<vars, simVars>>

-----------------------------------------------------------------------------
\* Two computations of the same money agree at every moment: what the simulator
\* has added up for an account and a date to come is what the partition has to
\* settle then, whichever trades were refused and however the window rotated.
NetsAgree ==
  \A a \in Documents, k \in Slots :
    window[k] > window[1] => cash[a].pending[k] = At(net, <<a, window[k]>>)

\* What the simulator will settle of an instrument on a date, and what the partition
\* holds pending for it.
LegQty(a, i, side, date) ==
  LET leg == <<a, i, side, date>> IN IF leg \in DOMAIN pernas THEN pernas[leg].qty ELSE 0
PendingQty(a, i, side, k) ==
  IF side = "Buy" THEN custody[<<a, i>>].pending_buy[k] ELSE custody[<<a, i>>].pending_sell[k]

\* The quantities agree as the money does: the legs the simulator has still to
\* settle on a date to come are the quantities the partition has pending for it
\* (the cross-check of ingress/simulator.hpp).  A split of legs in flight breaks it
\* (MCSplitInFlight.cfg).
LegsAgree ==
  \A a \in Documents, i \in Instruments, side \in Sides, k \in Slots :
    window[k] > window[1] => PendingQty(a, i, side, k) = LegQty(a, i, side, window[k])

\* What is left of it with splits: it holds for the accounts the simulator never
\* splits and, before its first split, for all; and after one the partition has
\* always at least the quantity that will be settled, so that none is refused.
LegsAgreeUnlessSplit ==
  \A a \in Documents, i \in Instruments, side \in Sides, k \in Slots :
    window[k] > window[1] =>
      /\ PendingQty(a, i, side, k) >= LegQty(a, i, side, window[k])
      /\ day = 1 \/ a \notin Sevenths =>
           PendingQty(a, i, side, k) = LegQty(a, i, side, window[k])

\* The partition refuses nothing of a session but the sales meant to be refused:
\* it never stops, and the only exceptions it queues are the failed deliveries and
\* the divergence of the last day (no AmountMismatch, ingress/simulator.hpp).
OnlyMeantExceptions == halted = "no" /\ exceptions = failures + told

\* Once the settlements of a day are through, no trade due that day is left behind:
\* each was allocated, netted and settled, or failed, and no money is pending.
DueTodayIsSettled ==
  step \in {"trade", "allocate", "net", "income", "split", "recon", "eod"} =>
    /\ \A t \in DOMAIN trades :
         trades[t].date = Hoje.data => trades[t].state \in {"Settled", "DeliveryFailed"}
    /\ \A a \in Documents : cash[a].pending[1] = 0
=============================================================================
