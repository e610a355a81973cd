-------------------------- MODULE CommissionPeriods --------------------------
(***************************************************************************)
(* What the commission ledger holds, over several days: the payout period  *)
(* of a sale, the rate it is priced with, the amounts on their way from    *)
(* POS through payments to the ledger and the payout, and the web page     *)
(* that shows an attendant's day beside the ledger.                        *)
(*                                                                         *)
(* Time is a tick counter; a business day is an EAT day, which begins      *)
(* EatOffset ticks before the UTC day.  A close run and a payout are one   *)
(* step each: CommissionClose has their interleavings, StkCollection and   *)
(* PosSales those of settlement.  Every attendant has a contact to pay to. *)
(***************************************************************************)
EXTENDS Money, FiniteSets, FiniteSetsExt

CONSTANTS
  Sales,
  Attendants,
  Seller,          \* the attendant of each sale
  Totals,          \* sale totals in minor units
  Bps,             \* commission rates in basis points
  EffectiveFroms,  \* effective_from times an owner asks for
  DayTicks,        \* ticks of a day
  EatOffset,       \* ticks by which EAT is ahead of UTC
  MaxTime,         \* bound: the last tick
  MaxRates,        \* bound: how many rates an owner sets
  MaxUnsteady      \* bound: how many payments are failed and settlements are repeated, together

Time == 0..MaxTime

ASSUME SellerAssumption == Seller \in [Sales -> Attendants]
ASSUME MoneyAssumption == Totals \subseteq Nat /\ Bps \subseteq 0..10000
ASSUME CalendarAssumption == DayTicks \in Nat \ {0} /\ EatOffset \in Nat
ASSUME BoundsAssumption == /\ MaxTime \in Nat
                           /\ EffectiveFroms \subseteq Time

VARIABLES
  now,         \* the clock
  rates,       \* pos.commission_rates
  sale,        \* pos.sales
  payment,     \* payments.payments
  lines,       \* commission.commission_ledger
  closed,      \* commission.close_runs: completed_at of each period's row
  intent,      \* commission.payout_intents, with the payout payments made of it
  settlings    \* every settled_at a payment ever had

vars == <<now, rates, sale, payment, lines, closed, intent, settlings>>

-------------------------------------------------------------------------------
(* Calendar *)

Null == -1

EatDate(t) == (t + EatOffset) \div DayTicks

EatTick(t) == (t + EatOffset) % DayTicks

Days == {EatDate(t) : t \in Time}

-------------------------------------------------------------------------------
(* Rows *)

Rate == [attendant : Attendants, effective_from : Time, bps : Bps, created : Time]

SaleRow == [status : {"absent", "awaiting_payment", "paid", "failed"},
            total : Totals \union {0}, created : Time \union {Null},
            paid_at : Time \union {Null}]

PaymentRow == [state : {"absent", "stk_sent", "paid", "failed"}, amount : Nat, whole : Nat,
               settled_at : Time \union {Null}]

Line == [period : Days, sale : Sales, amount : Nat, rate : Bps, commission : Nat, created : Time]

\* whole is the amount of the payout in the payments service, 0 while there is none.
Intent == [state : {"absent", "pending", "submitted", "failed"}, amount : Nat, whole : Nat]

TypeOK ==
  /\ now \in Time
  /\ rates \in SUBSET Rate
  /\ sale \in [Sales -> SaleRow]
  /\ payment \in [Sales -> PaymentRow]
  /\ lines \subseteq Line
  /\ closed \in [Days -> Time \union {Null}]
  /\ intent \in [Days -> [Attendants -> Intent]]
  /\ settlings \in [Sales -> SUBSET Time]

Init ==
  /\ now = 0
  /\ rates = {}
  /\ sale = [s \in Sales |-> [status |-> "absent", total |-> 0, created |-> Null,
                              paid_at |-> Null]]
  /\ payment = [s \in Sales |-> [state |-> "absent", amount |-> 0, whole |-> 0,
                                 settled_at |-> Null]]
  /\ lines = {}
  /\ closed = [d \in Days |-> Null]
  /\ intent = [d \in Days |-> [a \in Attendants |->
                  [state |-> "absent", amount |-> 0, whole |-> 0]]]
  /\ settlings = [s \in Sales |-> {}]

Tick ==
  /\ now < MaxTime
  /\ now' = now + 1
  /\ UNCHANGED <<rates, sale, payment, lines, closed, intent, settlings>>

-------------------------------------------------------------------------------
(* POS: commission rates and sales *)

\* POST /commission-rates: in effect from now on unless the owner says otherwise,
\* and never two rates of one attendant from one moment.
SetCommissionRate(a, from, bps) ==
  /\ Cardinality(rates) < MaxRates
  /\ \A r \in rates : r.attendant = a => r.effective_from # from
  /\ rates' = rates \union {[attendant |-> a, effective_from |-> from, bps |-> bps,
                             created |-> now]}
  /\ UNCHANGED <<now, sale, payment, lines, closed, intent, settlings>>

\* POST /sales and POST /sales/{id}/pay: payments refuses to prompt for less than
\* half a shilling, and prompts for whole shillings.
Sell(s, total) ==
  /\ sale[s].status = "absent"
  /\ ToWholeKes(total) >= 1
  /\ sale' = [sale EXCEPT ![s] = [status |-> "awaiting_payment", total |-> total,
                                  created |-> now, paid_at |-> Null]]
  /\ payment' = [payment EXCEPT ![s] = [state |-> "stk_sent", amount |-> total,
                                        whole |-> ToWholeKes(total), settled_at |-> Null]]
  /\ UNCHANGED <<now, rates, lines, closed, intent, settlings>>

\* Mutant: the report carries the amount of the request.
RequestedAmount(s) == payment[s].amount

\* What payments reports: the amount the customer was prompted for.
ReportedAmount(s) == FromWholeKes(payment[s].whole)

\* POST /internal/sales/{id}/payment-result: refused when the amount is not the total
\* or the sale is settled already.  The report may be late, lost or repeated.
ApplyPaymentResult(s) ==
  /\ payment[s].state \in {"paid", "failed"}
  /\ ReportedAmount(s) = sale[s].total
  /\ sale[s].status = "awaiting_payment"
  /\ sale' = [sale EXCEPT ![s].status = payment[s].state,
                          ![s].paid_at = IF payment[s].state = "paid" THEN now ELSE Null]
  /\ UNCHANGED <<now, rates, payment, lines, closed, intent, settlings>>

-------------------------------------------------------------------------------
(* Payments: settlement *)

\* The bound: failed payments, and settlements of a payment after its first one.
Bounded ==
  LET failed    == {s \in Sales : payment'[s].state = "failed"}
      settled   == {s \in Sales : settlings'[s] # {}}
      settledAt == {x \in Sales \X Time : x[2] \in settlings'[x[1]]}
  IN  Cardinality(failed) + Cardinality(settledAt) - Cardinality(settled) <= MaxUnsteady

\* A success settles an open payment, one that failed before, and also one that is paid
\* by now but was not when the handler read it (two callbacks, or a callback during a
\* query): each time settled_at is written anew.
SettleSuccess(s) ==
  /\ payment[s].state # "absent"
  /\ settlings' = [settlings EXCEPT ![s] = @ \union {now}]
  /\ payment' = [payment EXCEPT ![s].state = "paid", ![s].settled_at = now]
  /\ Bounded
  /\ UNCHANGED <<now, rates, sale, lines, closed, intent>>

\* A failure that read the row before a success committed overwrites it: settled_at stays.
SettleFailure(s) ==
  /\ payment[s].state \in {"stk_sent", "paid"}
  /\ payment' = [payment EXCEPT ![s].state = "failed"]
  /\ UNCHANGED <<now, rates, sale, lines, closed, intent, settlings>>
  /\ Bounded

-------------------------------------------------------------------------------
(* Commission: the close run of a period *)

\* payments.v_paid_sales_for_commission
PaidSales == {s \in Sales : payment[s].state = "paid" /\ payment[s].settled_at # Null}

\* pos.v_sales_for_commission
ReportedSales == {s \in Sales : sale[s].status = "paid" /\ sale[s].paid_at # Null}

\* Mutant: everything that settled up to the period.
PaidUntilPeriod(d) ==
  {s \in PaidSales \intersect ReportedSales : EatDate(payment[s].settled_at) <= d}

\* The two views, joined.
PaidInPeriod(d) ==
  {s \in PaidSales \intersect ReportedSales : EatDate(payment[s].settled_at) = d}

\* Mutant: the latest rate, whenever it takes effect.
LatestOfAllRates(a, t) ==
  {r \in rates : /\ r.attendant = a
                 /\ \A q \in rates : q.attendant = a => q.effective_from <= r.effective_from}

\* The rates of an attendant in effect at a time; rate_as_of takes the last of them.
RatesAsOf(a, t) ==
  {r \in rates : /\ r.attendant = a
                 /\ r.effective_from <= t
                 /\ \A q \in rates : q.attendant = a /\ q.effective_from <= t
                                       => q.effective_from <= r.effective_from}

Agrees(s) == sale[s].total = payment[s].amount

LineOf(d, s, r) ==
  [period |-> d, sale |-> s, amount |-> payment[s].amount, rate |-> r.bps,
   commission |-> CommissionMinor(payment[s].amount, r.bps), created |-> now]

\* uq_commission_ledger_sale_period: a sale has one line in a period, the first one.
NewLines(d) ==
  {l \in UNION {{LineOf(d, s, r) : r \in RatesAsOf(Seller[s], payment[s].settled_at)} :
                s \in {s \in PaidInPeriod(d) : Agrees(s)}} :
     \A k \in lines : k.period = d => k.sale # l.sale}

LinesOf(ls, d, a) == {l \in ls : l.period = d /\ Seller[l.sale] = a}

Owed(ls, d, a) == MapThenSumSet(LAMBDA l : l.commission, LinesOf(ls, d, a))

\* An intent that is submitted keeps its amount.
Upserted(i, owed) ==
  IF owed = 0 \/ i.state = "submitted" THEN i
  ELSE [i EXCEPT !.state = "pending", !.amount = owed]

\* Mutant: a completed period is not run again.
RunCloseOnce(d) ==
  /\ IF closed[d] = Null
       THEN /\ lines' = lines \union NewLines(d)
            /\ intent' = [intent EXCEPT ![d] =
                 [a \in Attendants |-> Upserted(intent[d][a], Owed(lines', d, a))]]
       ELSE UNCHANGED <<lines, intent>>
  /\ closed' = [closed EXCEPT ![d] = now]
  /\ UNCHANGED <<now, rates, sale, payment, settlings>>

\* The whole run; a completed period is run again.
RunClose(d) ==
  /\ lines' = lines \union NewLines(d)
  /\ intent' = [intent EXCEPT ![d] =
       [a \in Attendants |-> Upserted(intent[d][a], Owed(lines', d, a))]]
  /\ closed' = [closed EXCEPT ![d] = now]
  /\ UNCHANGED <<now, rates, sale, payment, settlings>>

\* POST /internal/close, for any period at any time.
TriggerClose(d) == RunClose(d)

\* POST /internal/payout: payments refuses what rounds to no shilling.
TriggerPayout(d, a) ==
  /\ intent[d][a].state \in {"pending", "failed"}
  /\ LET whole == ToWholeKes(intent[d][a].amount) IN
       intent' = [intent EXCEPT ![d][a].state = IF whole >= 1 THEN "submitted" ELSE "failed",
                                ![d][a].whole = IF whole >= 1 THEN whole ELSE 0]
  /\ UNCHANGED <<now, rates, sale, payment, lines, closed, settlings>>

Next ==
  \/ Tick
  \/ \E a \in Attendants, from \in EffectiveFroms \union {now}, bps \in Bps :
       SetCommissionRate(a, from, bps)
  \/ \E s \in Sales, total \in Totals : Sell(s, total)
  \/ \E s \in Sales : ApplyPaymentResult(s) \/ SettleSuccess(s) \/ SettleFailure(s)
  \/ \E d \in Days : TriggerClose(d)
  \/ \E d \in Days, a \in Attendants : TriggerPayout(d, a)

Spec == Init /\ [][Next]_vars

-------------------------------------------------------------------------------
(* Properties *)

\* Rate r is the one to price line l with for a settlement at t: the last one in effect
\* at t, among the rates that were known when the line was written.
Priced(l, r, t) ==
  /\ r.attendant = Seller[l.sale]
  /\ r.bps = l.rate
  /\ r.effective_from <= t
  /\ \A q \in rates : /\ q.attendant = r.attendant
                     /\ q.effective_from <= t
                     /\ q.created < l.created
                       => q.effective_from <= r.effective_from

\* A ledger line stands for a settlement of its sale, before the line was written and on
\* the EAT day of its period, and carries the rate in effect at that settlement: rates
\* set later, at midday or for the past, and payments that are settled again change no
\* line, and no line takes the day of one settlement and the rate of another (rate_as_of,
\* called for every sale of a close run).
LineRateInEffect ==
  \A l \in lines :
    \E t \in settlings[l.sale], r \in rates :
      t <= l.created /\ EatDate(t) = l.period /\ Priced(l, r, t)

\* The EAT days on which a sale was settled: one, unless a stale or late success settled
\* it again on the other side of midnight.
SettlementDays(s) == {EatDate(t) : t \in settlings[s]}

\* Closing periods in any order and any number of times commissions a sale at most once for
\* each day on which it was settled: repeated runs, late reports, overturned payments and
\* a second settlement on the same day add no second line.
SaleCommissionedOnce ==
  \A s \in Sales :
    Cardinality({l \in lines : l.sale = s}) <= Cardinality(SettlementDays(s))

\* Commission is due on what the customer was charged: the whole shillings of the prompt,
\* the total POS rang up and the amount of the line agree, although three services
\* convert it (the check of apply_payment_result, to_whole_kes and from_whole_kes).
ChargedIsCommissioned ==
  \A l \in lines : /\ l.amount = FromWholeKes(payment[l.sale].whole)
                   /\ l.amount = sale[l.sale].total

\* A close run takes everything that settled and was reported before it, also when the
\* period was closed before: only a sale without a rate is left out.
NobodyLeftOut ==
  \A s \in Sales :
    LET p == payment[s]
        d == EatDate(p.settled_at) IN
      /\ p.state = "paid" /\ sale[s].status = "paid"
      /\ p.settled_at < closed[d] /\ sale[s].paid_at < closed[d]
      /\ \E r \in rates : /\ r.attendant = Seller[s]
                          /\ r.effective_from <= p.settled_at
                          /\ r.created < closed[d]
      => \E l \in lines : l.sale = s /\ l.period = d

\* When a payout is submitted it differs from the commission owed by the rounding to whole
\* shillings only, up or down; and whatever is in the ledger later, a payout is never more
\* than what is owed and that rounding.  (Lines a repeated close run adds to a submitted
\* payout are not paid: from then on it may be less.)
PayoutWithinRounding ==
  [][\A d \in Days, a \in Attendants :
       LET asks == FromWholeKes(intent'[d][a].whole)
           owed == Owed(lines', d, a) IN
       intent'[d][a].state = "submitted"
         => /\ asks <= owed + 50
            /\ intent[d][a].state # "submitted" => owed < asks + 50]_vars

================================================================================
