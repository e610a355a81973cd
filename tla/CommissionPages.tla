---------------------------- MODULE CommissionPages ----------------------------
(***************************************************************************)
(* The commission page of the web front end: what it shows of an           *)
(* attendant's day, computed from POS, beside the ledger of the commission *)
(* service.  A page reads and changes nothing.                             *)
(***************************************************************************)
EXTENDS CommissionPeriods

\* Mutant: the calendar day in UTC.
SaleDateUtc(t) == t \div DayTicks

\* The calendar day of a sale on the page: of its creation, in EAT.
SaleDate(t) == (t + EatOffset) \div DayTicks

\* list_commission_rates: the rate with the highest effective_from, future ones included.
LatestRates(a) ==
  {r \in rates : /\ r.attendant = a
                 /\ \A q \in rates : q.attendant = a => q.effective_from <= r.effective_from}

\* Without a rate the page shows a commission of 0.
PageCommission(s) ==
  MapThenSumSet(LAMBDA r : CommissionMinor(sale[s].total, r.bps), LatestRates(Seller[s]))

PageSales(d, a) ==
  {s \in Sales : Seller[s] = a /\ sale[s].status = "paid" /\ SaleDate(sale[s].created) = d}

Estimate(d, a) == MapThenSumSet(PageCommission, PageSales(d, a))

\* GET /internal/summary, added up for one attendant.
Ledgered(d, a) == MapThenSumSet(LAMBDA l : l.commission, LinesOf(lines, d, a))

LedgerSales(d, a) == {l.sale : l \in LinesOf(lines, d, a)}

\* The payout of the day, and whether the page still offers to request it.
ShownPayout(d, a) == intent[d][a].amount

PayoutLocked(d, a) == intent[d][a].state \in {"submitted", "completed"}

\* The states one may filter the list of payouts by.
PayoutStates == {"pending", "submitted", "completed", "failed"}

\* list_for_tenant: the days of an attendant with an intent in one of the states.
IntentsIn(a, states) == {d \in Days : intent[d][a].state \in states}

\* GET /internal/payouts, which is not asked for a state when the filter is empty.
PayoutRows(a, filter) == IntentsIn(a, IF filter = "" THEN PayoutStates ELSE {filter})

\* The list of payouts: a filter that is no state of a payout is dropped.
ListedPayouts(a, filter) == PayoutRows(a, IF filter \in PayoutStates THEN filter ELSE "")

\* One rate, and no sale of the attendant settled on another day than it was created.
SimpleDays(a) ==
  /\ Cardinality({r \in rates : r.attendant = a}) = 1
  /\ \A s \in Sales : Seller[s] = a => SettlementDays(s) \subseteq {EatDate(sale[s].created)}

\* The page and the ledger agree: an attendant with one rate whose sales of a day all
\* settled on the day they were created sees the ledger within the estimate, and the
\* same amount once every sale of the page has its line ("Same floor math as the
\* commission worker").  The payout beside it is what the ledger says, but for lines that
\* came after the payout was locked, and the list of payouts has every day a payout is
\* owed for, unfiltered and under the state of the payout.
PageMatchesLedger ==
  \A d \in Days, a \in Attendants :
    LET ledgered == Ledgered(d, a) IN
    /\ SimpleDays(a) =>
         /\ LedgerSales(d, a) \subseteq PageSales(d, a)
         /\ ledgered <= Estimate(d, a)
         /\ LedgerSales(d, a) = PageSales(d, a) => ledgered = Estimate(d, a)
    /\ IF PayoutLocked(d, a) THEN ShownPayout(d, a) <= ledgered
                              ELSE ShownPayout(d, a) = ledgered
    /\ (ledgered > 0) <=> (d \in ListedPayouts(a, ""))
    /\ (ledgered > 0) <=> (d \in ListedPayouts(a, intent[d][a].state))

================================================================================
