------------------------ MODULE CommissionPeriodsProofs ------------------------
(***************************************************************************)
(* Machine-checked facts of Money, of the ledger and the payouts of        *)
(* CommissionPeriods and of the page of CommissionPages, for any sales,    *)
(* attendants, rates, days and repetitions of a close run.                 *)
(***************************************************************************)
EXTENDS CommissionPages, FiniteSums

\* Whole shillings survive the way from POS through M-Pesa and back.
LEMMA WholeRoundTrip ==
  ASSUME NEW whole \in Nat
  PROVE  ToWholeKes(FromWholeKes(whole)) = whole
  BY DEF ToWholeKes, FromWholeKes

\* Any other amount comes back at most half a shilling away.
LEMMA RoundTripLoss ==
  ASSUME NEW minor \in Nat
  PROVE  /\ ToWholeKes(minor) \in Nat
         /\ FromWholeKes(ToWholeKes(minor)) <= minor + 50
         /\ minor < FromWholeKes(ToWholeKes(minor)) + 50
  BY DEF ToWholeKes, FromWholeKes

\* An amount POS will accept back is one that a prompt charges exactly.
LEMMA AcceptedIsWhole ==
  ASSUME NEW minor \in Nat, FromWholeKes(ToWholeKes(minor)) = minor
  PROVE  minor % 100 = 0
  BY DEF ToWholeKes, FromWholeKes

\* Totals and rates are natural numbers.
LEMMA MoneyType == (\A total \in Totals : total \in Nat) /\ (\A bps \in Bps : bps \in Nat)
<1>1. \A total \in Totals : total \in Nat
  BY MoneyAssumption
<1>2. ASSUME NEW bps \in Bps PROVE bps \in Nat
  <2>1. bps \in 0..10000
    BY MoneyAssumption
  <2> QED BY <2>1
<1> QED BY <1>1, <1>2

\* Commission is a natural number of minor units.
LEMMA CommissionType ==
  ASSUME NEW amount \in Nat, NEW bps \in Nat
  PROVE  CommissionMinor(amount, bps) \in Nat
<1>1. amount * bps \in Nat
  OBVIOUS
<1> QED BY <1>1 DEF CommissionMinor

-------------------------------------------------------------------------------
(* The invariant *)

\* The settled_at of a payment is one of its settlements, all of them in the past.
SettlingsInv ==
  /\ settlings \in [Sales -> SUBSET Time]
  /\ \A s \in Sales : payment[s].settled_at # Null => payment[s].settled_at \in settlings[s]
  /\ \A s \in Sales : \A t \in settlings[s] : t <= now

\* What the ledger rests on: the clock, the rows it is written from, the settlements a
\* payment had so far, and no two rates of an attendant from one moment.
RowsInv ==
  /\ now \in Time
  /\ rates \subseteq Rate
  /\ sale \in [Sales -> SaleRow]
  /\ payment \in [Sales -> PaymentRow]
  /\ \A q, r \in rates :
       q.attendant = r.attendant /\ q.effective_from = r.effective_from => q = r
  /\ \A s \in Sales : sale[s].status = "paid" => ReportedAmount(s) = sale[s].total
  /\ SettlingsInv

\* A line belongs to a sale POS knows as paid, and to one settlement of it.
LineInv(l) ==
  /\ l.sale \in Sales /\ l.created \in Int /\ l.created <= now
  /\ sale[l.sale].status = "paid"
  /\ l.amount = payment[l.sale].amount /\ l.amount = sale[l.sale].total
  /\ \E t \in settlings[l.sale], r \in rates :
       t <= l.created /\ EatDate(t) = l.period /\ Priced(l, r, t)

LedgerInv ==
  /\ RowsInv
  /\ \A l \in lines : LineInv(l)
  /\ \A k, l \in lines : k.sale = l.sale /\ k.period = l.period => k = l

-------------------------------------------------------------------------------
(* The steps *)

\* The ledger does not change, nor what its lines rest on.
LEMMA LinesKept ==
  ASSUME LedgerInv, RowsInv', UNCHANGED <<lines, rates>>, now <= now',
         \A s \in Sales : settlings[s] \subseteq settlings'[s],
         \A s \in Sales : sale[s].status = "paid" => sale'[s] = sale[s],
         \A s \in Sales : sale[s].status = "paid" => payment'[s].amount = payment[s].amount
  PROVE  LedgerInv'
<1>1. ASSUME NEW l \in lines PROVE LineInv(l)'
  <2>1. LineInv(l)
    BY DEF LedgerInv
  <2>2. /\ l.sale \in Sales /\ l.created \in Int /\ l.created <= now'
        /\ sale'[l.sale].status = "paid"
        /\ l.amount = payment'[l.sale].amount /\ l.amount = sale'[l.sale].total
    BY <2>1 DEF LineInv, LedgerInv, RowsInv, Time
  <2>3. \E t \in settlings'[l.sale], r \in rates' :
          t <= l.created /\ EatDate(t) = l.period /\ Priced(l, r, t)'
    BY <2>1 DEF LineInv, Priced
  <2> QED BY <2>2, <2>3 DEF LineInv, EatDate
<1> QED BY <1>1 DEF LedgerInv

\* What a close run adds.
LEMMA NewLine ==
  ASSUME LedgerInv, NEW d \in Days, NEW l \in NewLines(d)
  PROVE  /\ l.period = d /\ LineInv(l)
         /\ \A k \in lines : k.period = d => k.sale # l.sale
         /\ \A k \in NewLines(d) : k.sale = l.sale => k = l
<1>1. ASSUME NEW k \in NewLines(d)
      PROVE  \E s \in PaidInPeriod(d) : \E r \in RatesAsOf(Seller[s], payment[s].settled_at) :
               Agrees(s) /\ k = LineOf(d, s, r) /\ k.sale = s
  BY <1>1 DEF NewLines, LineOf
<1>2. PICK s \in PaidInPeriod(d) : \E r \in RatesAsOf(Seller[s], payment[s].settled_at) :
        Agrees(s) /\ l = LineOf(d, s, r) /\ l.sale = s
  BY <1>1
<1>3. PICK r \in RatesAsOf(Seller[s], payment[s].settled_at) :
        Agrees(s) /\ l = LineOf(d, s, r) /\ l.sale = s
  BY <1>2
<1>4. /\ l.period = d /\ l.sale = s /\ l.amount = payment[s].amount /\ l.rate = r.bps
      /\ l.created = now
  BY <1>3 DEF LineOf
<1>5. /\ s \in Sales /\ payment[s].state = "paid" /\ sale[s].status = "paid"
      /\ EatDate(payment[s].settled_at) = d /\ sale[s].total = payment[s].amount
  BY <1>3 DEF PaidInPeriod, PaidSales, ReportedSales, Agrees
<1>6. r \in rates /\ Priced(l, r, payment[s].settled_at)
  BY <1>3, <1>4 DEF RatesAsOf, Priced
<1>7. payment[s].settled_at \in settlings[s] /\ payment[s].settled_at <= l.created
  <2>1. payment[s].settled_at # Null
    BY <1>3 DEF PaidInPeriod, PaidSales
  <2> QED BY <1>4, <1>5, <2>1 DEF LedgerInv, RowsInv, SettlingsInv
<1>10. LineInv(l)
  BY <1>4, <1>5, <1>6, <1>7 DEF LineInv, LedgerInv, RowsInv, Time
<1>8. \A k \in lines : k.period = d => k.sale # l.sale
  BY DEF NewLines
<1>9. ASSUME NEW k \in NewLines(d), k.sale = l.sale PROVE k = l
  <2>1. PICK q \in RatesAsOf(Seller[s], payment[s].settled_at) : k = LineOf(d, s, q)
    BY <1>1, <1>4, <1>9
  <2>2. /\ q \in rates /\ r \in rates /\ q.attendant = r.attendant
        /\ q.effective_from <= r.effective_from /\ r.effective_from <= q.effective_from
    BY <1>3, <2>1 DEF RatesAsOf
  <2>3. q.effective_from \in Int /\ r.effective_from \in Int
    BY <2>2 DEF LedgerInv, RowsInv, Rate, Time
  <2>4. q = r
    BY <2>2, <2>3 DEF LedgerInv, RowsInv
  <2> QED BY <1>3, <2>1, <2>4
<1> QED BY <1>4, <1>8, <1>9, <1>10

LEMMA CloseStep ==
  ASSUME LedgerInv, NEW d \in Days, RunClose(d)
  PROVE  LedgerInv'
<1>1. /\ lines' = lines \union NewLines(d)
      /\ UNCHANGED <<now, rates, sale, payment, settlings>>
  BY DEF RunClose
<1>2. RowsInv'
  BY <1>1 DEF LedgerInv, RowsInv, SettlingsInv, ReportedAmount
<1>3. ASSUME NEW l \in lines' PROVE LineInv(l)'
  <2>1. LineInv(l)
    BY <1>1, <1>3, NewLine DEF LedgerInv
  <2> QED BY <1>1, <2>1 DEF LineInv, Priced
<1>4. ASSUME NEW k \in lines', NEW l \in lines', k.sale = l.sale, k.period = l.period
      PROVE  k = l
  BY <1>1, <1>4, NewLine DEF LedgerInv
<1> QED BY <1>2, <1>3, <1>4 DEF LedgerInv

LEMMA RateStep ==
  ASSUME LedgerInv, NEW a \in Attendants, NEW from \in EffectiveFroms \union {now},
         NEW bps \in Bps, SetCommissionRate(a, from, bps)
  PROVE  LedgerInv'
<1> DEFINE new == [attendant |-> a, effective_from |-> from, bps |-> bps, created |-> now]
<1>1. /\ rates' = rates \union {new}
      /\ \A r \in rates : r.attendant = a => r.effective_from # from
      /\ UNCHANGED <<now, sale, payment, lines, settlings>>
  BY DEF SetCommissionRate
<1>2. new \in Rate /\ new.attendant = a /\ new.effective_from = from /\ new.created = now
  BY BoundsAssumption DEF Rate, LedgerInv, RowsInv
<1> HIDE DEF new
<1>3. RowsInv'
  BY <1>1, <1>2 DEF LedgerInv, RowsInv, SettlingsInv, ReportedAmount
<1>4. ASSUME NEW l \in lines PROVE LineInv(l)'
  <2>1. LineInv(l) /\ ~(new.created < l.created)
    BY <1>2 DEF LedgerInv, LineInv, RowsInv, Time
  <2>2. ASSUME NEW r \in rates, NEW t, Priced(l, r, t) PROVE r \in rates' /\ Priced(l, r, t)'
    BY <1>1, <2>1, <2>2 DEF Priced
  <2> QED BY <1>1, <2>1, <2>2 DEF LineInv, EatDate
<1> QED BY <1>1, <1>3, <1>4 DEF LedgerInv

LEMMA LedgerInvStep ==
  ASSUME LedgerInv, [Next]_vars
  PROVE  LedgerInv'
<1> USE DEF LedgerInv, RowsInv, Time
<1>1. CASE Tick
  <2>1. /\ now' = now + 1 /\ now' \in Time
        /\ UNCHANGED <<rates, sale, payment, lines, settlings>>
    BY <1>1, BoundsAssumption DEF Tick, Time
  <2>2. RowsInv' /\ now <= now'
    BY <2>1 DEF SettlingsInv, ReportedAmount
  <2> QED BY <2>1, <2>2, LinesKept
<1>2. ASSUME NEW a \in Attendants, NEW from \in EffectiveFroms \union {now}, NEW bps \in Bps,
             SetCommissionRate(a, from, bps)
      PROVE  LedgerInv'
  BY <1>2, RateStep
<1>3. ASSUME NEW s \in Sales, NEW total \in Totals, Sell(s, total)
      PROVE  LedgerInv'
  <2>1. /\ sale[s].status = "absent" /\ UNCHANGED <<now, rates, lines, settlings>>
        /\ sale'[s].status = "awaiting_payment"
        /\ \A t \in Sales \ {s} : sale'[t] = sale[t] /\ payment'[t] = payment[t]
    BY <1>3 DEF Sell
  <2>2. total \in Nat /\ ToWholeKes(total) \in Nat
    <3>1. total \in Nat
      BY MoneyType
    <3> QED BY <3>1, RoundTripLoss
  <2>3. sale' \in [Sales -> SaleRow] /\ payment' \in [Sales -> PaymentRow]
    BY <1>3, <2>2 DEF Sell, SaleRow, PaymentRow
  <2>4. RowsInv'
    BY <1>3, <2>1, <2>3 DEF Sell, SettlingsInv, ReportedAmount
  <2> QED BY <2>1, <2>4, LinesKept
<1>4. ASSUME NEW s \in Sales, ApplyPaymentResult(s) PROVE LedgerInv'
  <2>1. /\ sale[s].status = "awaiting_payment" /\ ReportedAmount(s) = sale[s].total
        /\ sale'[s].total = sale[s].total
        /\ \A t \in Sales \ {s} : sale'[t] = sale[t]
        /\ UNCHANGED <<now, rates, payment, lines, settlings>>
    BY <1>4 DEF ApplyPaymentResult, SaleRow
  <2>2. sale' \in [Sales -> SaleRow]
    <3>1. /\ payment[s].state \in {"paid", "failed"} /\ now \in Time \union {Null}
          /\ sale[s] \in SaleRow
      BY <1>4 DEF ApplyPaymentResult
    <3> DEFINE at == IF payment[s].state = "paid" THEN now ELSE Null
               new == [sale[s] EXCEPT !.status = payment[s].state, !.paid_at = at]
    <3>2. at \in Time \union {Null}
      BY <3>1
    <3> HIDE DEF at
    <3>3. new \in SaleRow
      BY <3>1, <3>2 DEF SaleRow
    <3>4. sale' = [sale EXCEPT ![s] = new]
      BY <1>4, <3>1 DEF ApplyPaymentResult, SaleRow, at
    <3> QED BY <3>3, <3>4
  <2>3. RowsInv'
    BY <2>1, <2>2 DEF SettlingsInv, ReportedAmount
  <2> QED BY <2>1, <2>3, LinesKept
<1>5. ASSUME NEW s \in Sales, SettleSuccess(s) PROVE LedgerInv'
  <2>1. /\ payment'[s].amount = payment[s].amount /\ payment'[s].whole = payment[s].whole
        /\ payment'[s].settled_at = now
        /\ settlings' = [settlings EXCEPT ![s] = @ \union {now}]
        /\ \A t \in Sales \ {s} : payment'[t] = payment[t]
        /\ UNCHANGED <<now, rates, sale, lines>>
    BY <1>5 DEF SettleSuccess, PaymentRow
  <2>2. payment' \in [Sales -> PaymentRow]
    BY <1>5 DEF SettleSuccess, PaymentRow
  <2>3. SettlingsInv'
    <3>1. settlings' \in [Sales -> SUBSET Time]
      BY <2>1 DEF SettlingsInv
    <3>2. \A t \in Sales : payment'[t].settled_at # Null
                             => payment'[t].settled_at \in settlings'[t]
      BY <2>1 DEF SettlingsInv
    <3>3. \A t \in Sales : \A u \in settlings'[t] : u <= now'
      BY <2>1 DEF SettlingsInv
    <3> QED BY <3>1, <3>2, <3>3 DEF SettlingsInv
  <2>4. RowsInv'
    BY <2>1, <2>2, <2>3 DEF ReportedAmount
  <2>5. \A t \in Sales : settlings[t] \subseteq settlings'[t]
    BY <2>1 DEF SettlingsInv
  <2> QED BY <2>1, <2>4, <2>5, LinesKept
<1>6. ASSUME NEW s \in Sales, SettleFailure(s) PROVE LedgerInv'
  <2>1. /\ payment'[s].amount = payment[s].amount /\ payment'[s].whole = payment[s].whole
        /\ payment'[s].settled_at = payment[s].settled_at
        /\ \A t \in Sales \ {s} : payment'[t] = payment[t]
        /\ UNCHANGED <<now, rates, sale, lines, settlings>>
    BY <1>6 DEF SettleFailure, PaymentRow
  <2>2. payment' \in [Sales -> PaymentRow]
    BY <1>6 DEF SettleFailure, PaymentRow
  <2>3. RowsInv'
    BY <2>1, <2>2 DEF SettlingsInv, ReportedAmount
  <2> QED BY <2>1, <2>3, LinesKept
<1>7. ASSUME NEW d \in Days, TriggerClose(d) PROVE LedgerInv'
  BY <1>7, CloseStep DEF TriggerClose
<1>8. CASE \/ \E d \in Days, a \in Attendants : TriggerPayout(d, a)
           \/ UNCHANGED vars
  <2>1. UNCHANGED <<now, rates, sale, payment, lines, settlings>>
    BY <1>8 DEF TriggerPayout, vars
  <2>2. RowsInv'
    BY <2>1 DEF SettlingsInv, ReportedAmount
  <2> QED BY <2>1, <2>2, LinesKept
<1> QED BY <1>1, <1>2, <1>3, <1>4, <1>5, <1>6, <1>7, <1>8 DEF Next

LEMMA LedgerInvariant == Spec => []LedgerInv
<1>1. Init => LedgerInv
  BY BoundsAssumption
  DEF Init, LedgerInv, RowsInv, SettlingsInv, SaleRow, PaymentRow, Null, Time
<1> QED BY <1>1, LedgerInvStep, PTL DEF Spec

-------------------------------------------------------------------------------
(* Theorems *)

\* A line carries the rate in effect at a settlement of its payment, on the day of that
\* settlement, whatever rates are set later, however often the period is closed and however
\* often the payment is settled.
THEOREM RateAlwaysInEffect == Spec => []LineRateInEffect
<1>1. LedgerInv => LineRateInEffect
  BY DEF LedgerInv, LineInv, Priced, LineRateInEffect
<1> QED BY <1>1, LedgerInvariant, PTL

\* What the customer was charged, what POS rang up and what commission is computed from
\* are one amount.
THEOREM ChargedAlwaysCommissioned == Spec => []ChargedIsCommissioned
<1>1. LedgerInv => ChargedIsCommissioned
  BY DEF LedgerInv, LineInv, RowsInv, ReportedAmount, ChargedIsCommissioned
<1> QED BY <1>1, LedgerInvariant, PTL

\* A sale is commissioned at most once for each day on which its payment settled: each of
\* its lines is of another period, and each period the day of a settlement.
THEOREM CommissionedOnce == Spec => []SaleCommissionedOnce
<1>1. LedgerInv => SaleCommissionedOnce
  <2> SUFFICES ASSUME LedgerInv, NEW s \in Sales
               PROVE  Cardinality({l \in lines : l.sale = s}) <= Cardinality(SettlementDays(s))
    BY DEF SaleCommissionedOnce
  <2> DEFINE S == {l \in lines : l.sale = s}
             f == [l \in S |-> l.period]
             day == [t \in settlings[s] |-> EatDate(t)]
  <2>1. f \in [S -> SettlementDays(s)]
    BY DEF LedgerInv, LineInv, SettlementDays
  <2>2. \A k, l \in S : f[k] = f[l] => k = l
    BY DEF LedgerInv
  <2>3. IsFiniteSet(settlings[s])
    <3>1. IsFiniteSet(0..MaxTime)
      BY BoundsAssumption, FS_Interval
    <3>2. settlings[s] \subseteq 0..MaxTime
      BY DEF LedgerInv, RowsInv, SettlingsInv, Time
    <3> QED BY <3>1, <3>2, FS_Subset
  <2>4. SettlementDays(s) = {day[t] : t \in settlings[s]}
    BY DEF SettlementDays
  <2> HIDE DEF S, f, day
  <2>5. IsFiniteSet(SettlementDays(s))
    <3>1. day \in Surjection(settlings[s], SettlementDays(s))
      BY <2>4 DEF Surjection, day
    <3> QED BY <2>3, <3>1, FS_Surjection
  <2>6. f \in Injection(S, SettlementDays(s))
    BY <2>1, <2>2 DEF Injection, IsInjective
  <2>7. Cardinality(S) <= Cardinality(SettlementDays(s))
    BY <2>5, <2>6, FS_Injection
  <2> QED BY <2>7 DEF S
<1> QED BY <1>1, LedgerInvariant, PTL

-------------------------------------------------------------------------------
(* What a close run takes *)

\* Somebody set a rate for the attendant that is in effect at t.
HasRate(a, t) == \E r \in rates : r.attendant = a /\ r.effective_from <= t

\* The state of a sale and its payment, and the clock of the close runs.
CloseRowsInv ==
  /\ closed \in [Days -> Time \union {Null}]
  /\ \A d \in Days : closed[d] <= now
  /\ \A s \in Sales :
       /\ payment[s].state = "paid" => payment[s].settled_at # Null
       /\ sale[s].status = "paid" => sale[s].paid_at # Null
       /\ sale[s].status # "absent" => sale[s].total = payment[s].amount
  /\ \A a \in Attendants, t \in Time : HasRate(a, t) => RatesAsOf(a, t) # {}

\* The run of the sale's day knew everything it needs to write the line.
DueAt(s, d) ==
  /\ payment[s].state = "paid" /\ sale[s].status = "paid"
  /\ d = EatDate(payment[s].settled_at)
  /\ payment[s].settled_at < closed[d] /\ sale[s].paid_at < closed[d]
  /\ \E r \in rates : /\ r.attendant = Seller[s]
                     /\ r.effective_from <= payment[s].settled_at
                     /\ r.created < closed[d]

HasLine(s, d) == \E l \in lines : l.sale = s /\ l.period = d

\* The inductive strengthening of NobodyLeftOut.
CloseInv ==
  /\ CloseRowsInv
  /\ \A s \in Sales, d \in Days : DueAt(s, d) => HasLine(s, d)

\* One more rate never leaves an attendant without a last one.
LEMMA OneMoreRate ==
  ASSUME RowsInv, CloseRowsInv, NEW new \in Rate, rates' = rates \union {new},
         NEW a \in Attendants, NEW t \in Time, HasRate(a, t)'
  PROVE  RatesAsOf(a, t)' # {}
<1>1. \A r \in rates' : r.effective_from \in Int
  BY DEF RowsInv, Rate, Time
<1>2. CASE new.attendant = a /\ new.effective_from <= t /\ ~HasRate(a, t)
  <2>1. new \in RatesAsOf(a, t)'
    BY <1>1, <1>2 DEF RatesAsOf, HasRate
  <2> QED BY <2>1
<1>3. CASE HasRate(a, t)
  <2>1. PICK m \in RatesAsOf(a, t) : TRUE
    BY <1>3 DEF CloseRowsInv
  <2>2. CASE /\ new.attendant = a /\ new.effective_from <= t
             /\ m.effective_from < new.effective_from
    <3>1. \A q \in rates : q.attendant = a /\ q.effective_from <= t
                             => q.effective_from <= new.effective_from
      BY <1>1, <2>1, <2>2 DEF RatesAsOf
    <3>2. new \in RatesAsOf(a, t)'
      BY <1>1, <2>2, <3>1 DEF RatesAsOf
    <3> QED BY <3>2
  <2>3. CASE ~(/\ new.attendant = a /\ new.effective_from <= t
               /\ m.effective_from < new.effective_from)
    <3>1. m \in RatesAsOf(a, t)'
      BY <1>1, <2>1, <2>3 DEF RatesAsOf
    <3> QED BY <3>1
  <2> QED BY <2>2, <2>3
<1> QED BY <1>2, <1>3 DEF HasRate

\* The close run of day d writes the line of everything that is due on d.
LEMMA CloseTakesDue ==
  ASSUME RowsInv, CloseRowsInv, NEW d \in Days, RunClose(d), NEW s \in Sales, DueAt(s, d)'
  PROVE  HasLine(s, d)'
<1>1. /\ lines' = lines \union NewLines(d)
      /\ UNCHANGED <<rates, sale, payment>>
  BY DEF RunClose
<1>2. /\ payment[s].state = "paid" /\ sale[s].status = "paid"
      /\ EatDate(payment[s].settled_at) = d /\ HasRate(Seller[s], payment[s].settled_at)
  BY <1>1 DEF DueAt, HasRate, EatDate
<1>3. s \in PaidInPeriod(d) /\ Agrees(s)
  BY <1>2 DEF PaidInPeriod, PaidSales, ReportedSales, Agrees, CloseRowsInv
<1>4. payment[s].settled_at \in Time /\ Seller[s] \in Attendants
  BY <1>2, SellerAssumption DEF RowsInv, CloseRowsInv, PaymentRow
<1>5. PICK r \in RatesAsOf(Seller[s], payment[s].settled_at) : TRUE
  BY <1>2, <1>4 DEF CloseRowsInv
<1> DEFINE l == LineOf(d, s, r)
<1>6. l.sale = s /\ l.period = d
  BY DEF LineOf
<1>7. CASE \E k \in lines : k.period = d /\ k.sale = s
  BY <1>1, <1>7 DEF HasLine
<1>8. CASE \A k \in lines : k.period = d => k.sale # s
  <2>1. l \in NewLines(d)
    BY <1>3, <1>5, <1>6, <1>8 DEF NewLines
  <2> QED BY <1>1, <1>6, <2>1 DEF HasLine
<1> QED BY <1>7, <1>8

\* Sales that fall due are taken by the next run: until then nothing is owed for them.
LEMMA DueKept ==
  ASSUME CloseInv, UNCHANGED closed, lines \subseteq lines',
         NEW s \in Sales, NEW d \in Days, DueAt(s, d)' => DueAt(s, d)
  PROVE  (DueAt(s, d) => HasLine(s, d))'
<1>1. HasLine(s, d) => HasLine(s, d)'
  BY DEF HasLine
<1> QED BY <1>1 DEF CloseInv

\* A step that leaves the rates and the close runs alone.
LEMMA RowsOnly ==
  ASSUME RowsInv, RowsInv', CloseInv, UNCHANGED <<rates, closed, lines>>, now <= now',
         \A s \in Sales :
           /\ payment'[s].state = "paid" => payment'[s].settled_at # Null
           /\ sale'[s].status = "paid" => sale'[s].paid_at # Null
           /\ sale'[s].status # "absent" => sale'[s].total = payment'[s].amount,
         \A s \in Sales, d \in Days : DueAt(s, d)' => DueAt(s, d)
  PROVE  CloseInv'
<1>1. CloseRowsInv'
  <2>1. \A d \in Days : closed[d] <= now'
    BY DEF CloseInv, CloseRowsInv, RowsInv, Time, Null
  <2>2. \A a \in Attendants, t \in Time : HasRate(a, t)' => RatesAsOf(a, t)' # {}
    BY DEF CloseInv, CloseRowsInv, HasRate, RatesAsOf
  <2> QED BY <2>1, <2>2 DEF CloseInv, CloseRowsInv
<1>2. \A s \in Sales, d \in Days : (DueAt(s, d) => HasLine(s, d))'
  BY DueKept
<1> QED BY <1>1, <1>2 DEF CloseInv

LEMMA CloseInvStep ==
  ASSUME RowsInv, RowsInv', CloseInv, [Next]_vars
  PROVE  CloseInv'
<1> USE DEF RowsInv, Time
<1>0. \A d \in Days : closed[d] \in Int /\ closed[d] <= now
  BY DEF CloseInv, CloseRowsInv, Null
<1>1. CASE Tick
  BY <1>1, RowsOnly DEF Tick, CloseInv, CloseRowsInv, DueAt
<1>2. ASSUME NEW a \in Attendants, NEW from \in EffectiveFroms \union {now}, NEW bps \in Bps,
             SetCommissionRate(a, from, bps)
      PROVE  CloseInv'
  <2> DEFINE new == [attendant |-> a, effective_from |-> from, bps |-> bps, created |-> now]
  <2>1. /\ rates' = rates \union {new} /\ UNCHANGED <<now, sale, payment, lines, closed>>
    BY <1>2 DEF SetCommissionRate
  <2>2. new \in Rate /\ new.created = now
    BY BoundsAssumption DEF Rate
  <2> HIDE DEF new
  <2>3. CloseRowsInv'
    BY <2>1, <2>2, OneMoreRate DEF CloseInv, CloseRowsInv
  <2>4. \A s \in Sales, d \in Days : DueAt(s, d)' => DueAt(s, d)
    BY <1>0, <2>1, <2>2 DEF DueAt
  <2>5. \A s \in Sales, d \in Days : (DueAt(s, d) => HasLine(s, d))'
    BY <2>1, <2>4, DueKept
  <2> QED BY <2>3, <2>5 DEF CloseInv
<1>3. ASSUME NEW s \in Sales, NEW total \in Totals, Sell(s, total) PROVE CloseInv'
  <2>1. /\ sale'[s].status = "awaiting_payment" /\ payment'[s].state = "stk_sent"
        /\ sale'[s].total = payment'[s].amount
        /\ \A t \in Sales \ {s} : sale'[t] = sale[t] /\ payment'[t] = payment[t]
        /\ UNCHANGED <<now, rates, lines, closed>>
    BY <1>3 DEF Sell
  <2>2. \A t \in Sales, d \in Days : DueAt(t, d)' => DueAt(t, d)
    BY <2>1 DEF DueAt
  <2> QED BY <2>1, <2>2, RowsOnly DEF CloseInv, CloseRowsInv
<1>4. ASSUME NEW s \in Sales, ApplyPaymentResult(s) PROVE CloseInv'
  <2>1. /\ sale[s].status = "awaiting_payment" /\ sale'[s].total = sale[s].total
        /\ sale'[s].status = "paid" => sale'[s].paid_at = now
        /\ \A t \in Sales \ {s} : sale'[t] = sale[t]
        /\ UNCHANGED <<now, rates, payment, lines, closed>>
    BY <1>4 DEF ApplyPaymentResult, SaleRow
  <2>2. \A t \in Sales, d \in Days : DueAt(t, d)' => DueAt(t, d)
    BY <1>0, <2>1 DEF DueAt
  <2> QED BY <2>1, <2>2, RowsOnly DEF CloseInv, CloseRowsInv, Null
<1>5. ASSUME NEW s \in Sales, SettleSuccess(s) PROVE CloseInv'
  <2>1. /\ payment'[s].settled_at = now /\ payment'[s].amount = payment[s].amount
        /\ \A t \in Sales \ {s} : payment'[t] = payment[t]
        /\ UNCHANGED <<now, rates, sale, lines, closed>>
    BY <1>5 DEF SettleSuccess, PaymentRow
  <2>2. \A t \in Sales, d \in Days : DueAt(t, d)' => DueAt(t, d)
    BY <1>0, <2>1 DEF DueAt
  <2> QED BY <2>1, <2>2, RowsOnly DEF CloseInv, CloseRowsInv, Null
<1>6. ASSUME NEW s \in Sales, SettleFailure(s) PROVE CloseInv'
  <2>1. /\ payment'[s].state = "failed" /\ payment'[s].amount = payment[s].amount
        /\ \A t \in Sales \ {s} : payment'[t] = payment[t]
        /\ UNCHANGED <<now, rates, sale, lines, closed>>
    BY <1>6 DEF SettleFailure, PaymentRow
  <2>2. \A t \in Sales, d \in Days : DueAt(t, d)' => DueAt(t, d)
    BY <2>1 DEF DueAt
  <2> QED BY <2>1, <2>2, RowsOnly DEF CloseInv, CloseRowsInv
<1>7. ASSUME NEW d \in Days, TriggerClose(d) PROVE CloseInv'
  <2>1. /\ RunClose(d) /\ closed' = [closed EXCEPT ![d] = now] /\ lines \subseteq lines'
        /\ UNCHANGED <<now, rates, sale, payment>>
    BY <1>7 DEF TriggerClose, RunClose
  <2>2. CloseRowsInv'
    BY <2>1 DEF CloseInv, CloseRowsInv, HasRate, RatesAsOf
  <2>3. ASSUME NEW s \in Sales, NEW e \in Days, DueAt(s, e)' PROVE HasLine(s, e)'
    <3>1. CASE e = d
      BY <2>1, <2>3, <3>1, CloseTakesDue DEF CloseInv
    <3>2. CASE e # d
      <4>1. DueAt(s, e)
        BY <2>1, <2>3, <3>2 DEF DueAt, CloseInv, CloseRowsInv, EatDate
      <4> QED BY <2>1, <4>1 DEF CloseInv, HasLine
    <3> QED BY <3>1, <3>2
  <2> QED BY <2>2, <2>3 DEF CloseInv
<1>8. CASE \/ \E d \in Days, a \in Attendants : TriggerPayout(d, a)
           \/ UNCHANGED vars
  <2>1. UNCHANGED <<now, rates, sale, payment, lines, closed>>
    BY <1>8 DEF TriggerPayout, vars
  <2> QED BY <2>1, RowsOnly DEF CloseInv, CloseRowsInv, DueAt
<1> QED BY <1>1, <1>2, <1>3, <1>4, <1>5, <1>6, <1>7, <1>8 DEF Next

LEMMA CloseInvariant == Spec => []CloseInv
<1>1. Init => CloseInv
  BY BoundsAssumption DEF Init, CloseInv, CloseRowsInv, HasRate, DueAt, Null, Time
<1>2. LedgerInv /\ LedgerInv' /\ CloseInv /\ [Next]_vars => CloseInv'
  BY CloseInvStep DEF LedgerInv
<1> QED BY <1>1, <1>2, LedgerInvariant, PTL DEF Spec

\* A close run leaves out nothing that settled, was reported and had a rate before it ran,
\* whatever periods were closed before it, in whatever order and however often.
THEOREM NobodyIsLeftOut == Spec => []NobodyLeftOut
<1>1. LedgerInv /\ CloseInv => NobodyLeftOut
  <2> SUFFICES ASSUME LedgerInv, CloseInv, NEW s \in Sales,
                      payment[s].state = "paid", sale[s].status = "paid",
                      payment[s].settled_at < closed[EatDate(payment[s].settled_at)],
                      sale[s].paid_at < closed[EatDate(payment[s].settled_at)],
                      \E r \in rates : /\ r.attendant = Seller[s]
                                       /\ r.effective_from <= payment[s].settled_at
                                       /\ r.created < closed[EatDate(payment[s].settled_at)]
               PROVE  HasLine(s, EatDate(payment[s].settled_at))
    BY DEF NobodyLeftOut, HasLine
  <2>1. EatDate(payment[s].settled_at) \in Days
    BY DEF Days, LedgerInv, RowsInv, PaymentRow, CloseInv, CloseRowsInv
  <2> QED BY <2>1 DEF CloseInv, DueAt
<1> QED BY <1>1, LedgerInvariant, CloseInvariant, PTL

-------------------------------------------------------------------------------
(* What is owed *)

Sold == {s \in Sales : sale[s].status # "absent"}

Computed(l) ==
  /\ l.amount \in Nat /\ l.rate \in Nat
  /\ l.commission = CommissionMinor(l.amount, l.rate)

\* The ledger computes commission as the shared formula says, and what was ever sold, or
\* set as a rate, is finite: every step adds one.
AmountsInv ==
  /\ IsFiniteSet(Sold) /\ IsFiniteSet(rates)
  /\ \A l \in lines : Computed(l)

LEMMA AmountsStep ==
  ASSUME RowsInv, AmountsInv, [Next]_vars
  PROVE  AmountsInv'
<1>1. IsFiniteSet(Sold')
  <2>1. ASSUME NEW s \in Sales, NEW total \in Totals, Sell(s, total)
        PROVE  Sold' \subseteq Sold \union {s}
    BY <2>1 DEF Sell, Sold
  <2>2. ASSUME NEW s \in Sales, ApplyPaymentResult(s) PROVE Sold' \subseteq Sold
    <3>1. /\ sale[s].status = "awaiting_payment"
          /\ \A q \in Sales \ {s} : sale'[q] = sale[q]
      BY <2>2 DEF ApplyPaymentResult, RowsInv
    <3> QED BY <3>1 DEF Sold
  <2>3. Sold' \subseteq Sold \/ \E s \in Sales : Sold' \subseteq Sold \union {s}
    BY <2>1, <2>2
    DEF Next, Tick, SetCommissionRate, SettleSuccess, SettleFailure, TriggerClose, RunClose,
        TriggerPayout, vars, Sold
  <2>4. IsFiniteSet(Sold) /\ \A s \in Sales : IsFiniteSet(Sold \union {s})
    BY FS_AddElement DEF AmountsInv
  <2> HIDE DEF Sold
  <2> QED BY <2>3, <2>4, FS_Subset
<1>2. IsFiniteSet(rates')
  <2>1. rates' = rates \/ \E r \in Rate : rates' = rates \union {r}
    BY BoundsAssumption
    DEF Next, Tick, SetCommissionRate, Sell, ApplyPaymentResult, SettleSuccess, SettleFailure,
        TriggerClose, RunClose, TriggerPayout, vars, RowsInv, Rate
  <2> QED BY <2>1, FS_AddElement DEF AmountsInv
<1>3. ASSUME NEW d \in Days, NEW l \in NewLines(d) PROVE Computed(l)
  <2>1. PICK s \in PaidInPeriod(d), r \in rates : l = LineOf(d, s, r)
    BY <1>3 DEF NewLines, RatesAsOf
  <2>2. payment[s].amount \in Nat
    BY <2>1 DEF RowsInv, PaymentRow, PaidInPeriod, PaidSales
  <2>3. r.bps \in Nat
    BY <2>1, MoneyType DEF RowsInv, Rate
  <2>4. /\ l.amount = payment[s].amount /\ l.rate = r.bps
        /\ l.commission = CommissionMinor(payment[s].amount, r.bps)
    BY <2>1 DEF LineOf
  <2> QED BY <2>2, <2>3, <2>4 DEF Computed
<1>4. lines' = lines \/ \E d \in Days : lines' = lines \union NewLines(d)
  BY DEF Next, Tick, SetCommissionRate, Sell, ApplyPaymentResult, SettleSuccess, SettleFailure,
         TriggerClose, RunClose, TriggerPayout, vars
<1>5. ASSUME NEW l \in lines' PROVE Computed(l)
  BY <1>3, <1>4, <1>5 DEF AmountsInv
<1> QED BY <1>1, <1>2, <1>5 DEF AmountsInv

LEMMA AmountsInvariant == Spec => []AmountsInv
<1>1. Init => AmountsInv
  <2>1. Init => Sold = {}
    BY DEF Init, Sold
  <2> QED BY <2>1, FS_EmptySet DEF Init, AmountsInv
<1>2. LedgerInv /\ AmountsInv /\ [Next]_vars => AmountsInv'
  BY AmountsStep DEF LedgerInv
<1> QED BY <1>1, <1>2, LedgerInvariant, PTL DEF Spec

\* What makes the lines of a ledger add up: one line of a sale in a period, of finitely
\* many sales, each computed by the formula.
Summable(ls) ==
  /\ \A l \in ls : Computed(l)
  /\ \A k, l \in ls : k.sale = l.sale /\ k.period = l.period => k = l
  /\ IsFiniteSet({l.sale : l \in ls})

LEMMA LinesSummable == Spec => []Summable(lines)
<1>1. ASSUME LedgerInv, AmountsInv PROVE Summable(lines)
  <2>1. {l.sale : l \in lines} \subseteq Sold
    BY <1>1 DEF LedgerInv, LineInv, Sold
  <2>2. IsFiniteSet({l.sale : l \in lines})
    BY <1>1, <2>1, FS_Subset DEF AmountsInv
  <2> QED BY <1>1, <2>2 DEF LedgerInv, AmountsInv, Summable
<1> QED BY <1>1, LedgerInvariant, AmountsInvariant, PTL

\* An attendant's lines of a day are finite: each one is of another sale.
LEMMA LinesFinite ==
  ASSUME NEW ls, Summable(ls), NEW d, NEW a
  PROVE  IsFiniteSet(LinesOf(ls, d, a))
<1> DEFINE S == LinesOf(ls, d, a)
           T == {l.sale : l \in ls}
           f == [l \in S |-> l.sale]
<1>1. \A l \in S : l \in ls /\ l.period = d
  BY DEF LinesOf
<1>2. f \in [S -> T]
  BY <1>1
<1>3. \A k, l \in S : f[k] = f[l] => k = l
  BY <1>1 DEF Summable
<1>4. IsFiniteSet(T)
  BY DEF Summable
<1> HIDE DEF S, T, f
<1>5. f \in Injection(S, T)
  BY <1>2, <1>3 DEF Injection, IsInjective
<1>6. IsFiniteSet(S)
  BY <1>4, <1>5, FS_Injection
<1> QED BY <1>6 DEF S

\* Owed is a sum in the sense of FiniteSums.
LEMMA OwedIsSum ==
  ASSUME NEW ls, NEW d, NEW a, NEW S, LinesOf(ls, d, a) \subseteq S
  PROVE  Owed(ls, d, a) = SumOf([l \in S |-> l.commission], LinesOf(ls, d, a))
<1> DEFINE T == LinesOf(ls, d, a)
<1>1. T \in SUBSET S
  OBVIOUS
<1> HIDE DEF T
<1>2. MapThenSumSet(LAMBDA l : l.commission, T) = SumOf([l \in S |-> l.commission], T)
  BY <1>1 DEF MapThenSumSet, MapThenFoldSet, SumOf, Adds, Pick
<1> QED BY <1>2 DEF Owed, T

\* What is owed is an amount, and a ledger with more lines never owes less.
LEMMA OwedGrows ==
  ASSUME NEW ls, Summable(ls), NEW ks \in SUBSET ls, NEW d, NEW a
  PROVE  Owed(ls, d, a) \in Nat /\ Owed(ks, d, a) <= Owed(ls, d, a)
<1> DEFINE S == LinesOf(ls, d, a)
           R == LinesOf(ks, d, a)
           v == [l \in S |-> l.commission]
<1>1. IsFiniteSet(S)
  BY LinesFinite
<1>2. R \in SUBSET S
  BY DEF LinesOf
<1>3. ASSUME NEW l \in S PROVE v[l] \in Nat
  <2>1. Computed(l)
    BY DEF LinesOf, Summable
  <2> QED BY <2>1, CommissionType DEF Computed
<1>4. Owed(ls, d, a) = SumOf(v, S) /\ Owed(ks, d, a) = SumOf(v, R)
  BY <1>2, OwedIsSum
<1> HIDE DEF S, R, v
<1>5. SumOf(v, S) \in Nat
  BY <1>1, <1>3, SumType
<1>6. SumOf(v, R) <= SumOf(v, S)
  BY <1>1, <1>2, <1>3, SumMonotone
<1> QED BY <1>4, <1>5, <1>6

-------------------------------------------------------------------------------
(* What is paid out *)

\* A payout exists once something is owed, follows what is owed until it is submitted, and
\* asks payments for the amount it had then.
Follows(i, owed) ==
  /\ i.state = "absent" <=> owed = 0
  /\ i.amount <= owed
  /\ i.state # "submitted" => i.amount = owed /\ i.whole = 0
  /\ FromWholeKes(i.whole) <= i.amount + 50
  /\ i.state = "submitted" => i.amount < FromWholeKes(i.whole) + 50

\* The inductive strengthening of PayoutWithinRounding.
PayoutInv ==
  /\ intent \in [Days -> [Attendants -> Intent]]
  /\ \A d \in Days, a \in Attendants : Follows(intent[d][a], Owed(lines, d, a))

\* A close run that finds more owed brings the payout up to it, unless it is submitted.
LEMMA UpsertFollows ==
  ASSUME NEW i \in Intent, NEW before \in Nat, Follows(i, before),
         NEW owed \in Nat, before <= owed
  PROVE  Upserted(i, owed) \in Intent /\ Follows(Upserted(i, owed), owed)
<1>1. /\ i.state \in {"absent", "pending", "submitted", "failed"}
      /\ i.amount \in Nat /\ i.whole \in Nat
  BY DEF Intent
<1>2. CASE owed = 0 \/ i.state = "submitted"
  <2>1. Upserted(i, owed) = i
    BY <1>2 DEF Upserted
  <2>2. i.state = "absent" <=> owed = 0
    BY <1>1, <1>2 DEF Follows
  <2>3. i.amount <= owed /\ (i.state # "submitted" => i.amount = owed)
    BY <1>1, <1>2 DEF Follows
  <2> QED BY <2>1, <2>2, <2>3 DEF Follows
<1>3. CASE ~(owed = 0 \/ i.state = "submitted")
  <2> DEFINE j == [i EXCEPT !.state = "pending", !.amount = owed]
  <2>1. Upserted(i, owed) = j
    BY <1>3 DEF Upserted
  <2>2. j \in Intent /\ j.state = "pending" /\ j.amount = owed /\ j.whole = i.whole
    BY DEF Intent
  <2>3. i.whole = 0
    BY <1>3 DEF Follows
  <2> HIDE DEF j
  <2> QED BY <1>3, <2>1, <2>2, <2>3 DEF Follows, FromWholeKes
<1> QED BY <1>2, <1>3

\* Submitting a payout rounds its amount to whole shillings; what rounds to none fails.
LEMMA TriggerFollows ==
  ASSUME NEW i \in Intent, NEW owed \in Nat, Follows(i, owed),
         i.state \in {"pending", "failed"}, NEW whole, whole = ToWholeKes(i.amount),
         NEW j, j = [i EXCEPT !.state = IF whole >= 1 THEN "submitted" ELSE "failed",
                              !.whole = IF whole >= 1 THEN whole ELSE 0]
  PROVE  j \in Intent /\ Follows(j, owed)
<1>1. i.amount \in Nat
  BY DEF Intent
<1>2. /\ whole \in Nat /\ FromWholeKes(whole) <= i.amount + 50
      /\ i.amount < FromWholeKes(whole) + 50
  BY <1>1, RoundTripLoss
<1>3. /\ j \in Intent /\ j.state \in {"submitted", "failed"} /\ j.amount = i.amount
      /\ j.whole = whole \/ j.whole = 0
  BY <1>2 DEF Intent
<1>4. i.amount = owed /\ owed # 0
  BY DEF Follows
<1>5. IF j.state = "submitted" THEN j.whole = whole ELSE j.whole = 0
  BY <1>2 DEF Intent
<1>6. FromWholeKes(j.whole) <= i.amount + 50
  BY <1>1, <1>2, <1>3 DEF FromWholeKes
<1> QED BY <1>1, <1>2, <1>3, <1>4, <1>5, <1>6 DEF Follows

LEMMA PayoutInvStep ==
  ASSUME Summable(lines), Summable(lines'), PayoutInv, [Next]_vars
  PROVE  PayoutInv'
<1>0. /\ \A d, a : Owed(lines, d, a) \in Nat /\ Owed(lines', d, a) \in Nat
      /\ lines \subseteq lines' => \A d, a : Owed(lines, d, a) <= Owed(lines', d, a)
  BY OwedGrows
<1>1. ASSUME NEW d \in Days, RunClose(d) PROVE PayoutInv'
  <2>1. /\ lines' = lines \union NewLines(d)
        /\ intent' = [intent EXCEPT ![d] =
             [a \in Attendants |-> Upserted(intent[d][a], Owed(lines', d, a))]]
    BY <1>1 DEF RunClose
  <2>2. ASSUME NEW a \in Attendants
        PROVE  /\ Upserted(intent[d][a], Owed(lines', d, a)) \in Intent
               /\ Follows(Upserted(intent[d][a], Owed(lines', d, a)), Owed(lines', d, a))
    BY <1>0, <2>1, UpsertFollows DEF PayoutInv
  <2>3. ASSUME NEW e \in Days \ {d}, NEW a \in Attendants
        PROVE  Owed(lines', e, a) = Owed(lines, e, a)
    <3>1. \A l \in NewLines(d) : l.period = d
      BY DEF NewLines, LineOf
    <3>2. LinesOf(lines', e, a) = LinesOf(lines, e, a)
      BY <2>1, <3>1 DEF LinesOf
    <3> QED BY <3>2 DEF Owed
  <2>4. intent' \in [Days -> [Attendants -> Intent]]
    BY <2>1, <2>2 DEF PayoutInv
  <2>5. ASSUME NEW e \in Days, NEW a \in Attendants
        PROVE  Follows(intent'[e][a], Owed(lines', e, a))
    <3>1. CASE e = d
      BY <2>1, <2>2, <3>1 DEF PayoutInv
    <3>2. CASE e # d
      BY <2>1, <2>3, <3>2 DEF PayoutInv
    <3> QED BY <3>1, <3>2
  <2> QED BY <2>4, <2>5 DEF PayoutInv
<1>2. ASSUME NEW d \in Days, NEW a \in Attendants, TriggerPayout(d, a) PROVE PayoutInv'
  <2> DEFINE i == intent[d][a]
             whole == ToWholeKes(i.amount)
             j == [i EXCEPT !.state = IF whole >= 1 THEN "submitted" ELSE "failed",
                            !.whole = IF whole >= 1 THEN whole ELSE 0]
  <2>1. i \in Intent /\ Follows(i, Owed(lines, d, a)) /\ i.state \in {"pending", "failed"}
    BY <1>2 DEF PayoutInv, TriggerPayout
  <2>2. j \in Intent /\ Follows(j, Owed(lines, d, a))
    <3> HIDE DEF i, whole
    <3>1. whole = ToWholeKes(i.amount)
      BY DEF whole
    <3> QED BY <1>0, <2>1, <3>1, TriggerFollows
  <2>3. /\ intent'[d][a] = j /\ lines' = lines
        /\ \A e \in Days, b \in Attendants :
             <<e, b>> # <<d, a>> => intent'[e][b] = intent[e][b]
        /\ intent' \in [Days -> [Attendants -> Intent]]
    <3>1. intent' = [intent EXCEPT ![d] = [intent[d] EXCEPT ![a] = j]] /\ lines' = lines
      BY <1>2 DEF TriggerPayout, PayoutInv, Intent
    <3> HIDE DEF i, whole, j
    <3> QED BY <2>2, <3>1 DEF PayoutInv
  <2> HIDE DEF j
  <2> QED BY <2>2, <2>3 DEF PayoutInv
<1>3. CASE UNCHANGED <<lines, intent>>
  BY <1>3 DEF PayoutInv
<1> QED BY <1>1, <1>2, <1>3
    DEF Next, Tick, SetCommissionRate, Sell, ApplyPaymentResult, SettleSuccess, SettleFailure,
        TriggerClose, vars

LEMMA PayoutInvariant == Spec => []PayoutInv
<1>1. ASSUME Init PROVE PayoutInv
  <2>1. intent \in [Days -> [Attendants -> Intent]]
    BY <1>1 DEF Init, Intent
  <2>2. ASSUME NEW d \in Days, NEW a \in Attendants PROVE Owed(lines, d, a) = 0
    <3>1. LinesOf(lines, d, a) = {}
      BY <1>1 DEF Init, LinesOf
    <3>2. Owed(lines, d, a) = SumOf([l \in {} |-> l.commission], {})
      BY <3>1, OwedIsSum
    <3> QED BY <3>2, SumUnfold, FS_EmptySet
  <2>3. \A d \in Days, a \in Attendants :
          intent[d][a] = [state |-> "absent", amount |-> 0, whole |-> 0]
    BY <1>1 DEF Init
  <2> QED BY <2>1, <2>2, <2>3 DEF PayoutInv, Follows, FromWholeKes
<1>2. Summable(lines) /\ Summable(lines)' /\ PayoutInv /\ [Next]_vars => PayoutInv'
  BY PayoutInvStep
<1> QED BY <1>1, <1>2, LinesSummable, PTL DEF Spec

\* A payout that is submitted asks for the amount the ledger owes at that moment.
LEMMA SubmittedAtOnce ==
  ASSUME PayoutInv, [Next]_vars, NEW d \in Days, NEW a \in Attendants,
         intent[d][a].state # "submitted", intent'[d][a].state = "submitted"
  PROVE  lines' = lines /\ intent'[d][a].amount = Owed(lines, d, a)
<1>1. intent[d][a] \in Intent /\ intent[d][a].amount = Owed(lines, d, a)
  BY DEF PayoutInv, Follows
<1>2. ASSUME NEW e \in Days, RunClose(e) PROVE FALSE
  <2>1. intent'[d][a] \in {intent[d][a], Upserted(intent[d][a], Owed(lines', d, a))}
    BY <1>2 DEF RunClose, PayoutInv
  <2> QED BY <1>1, <2>1 DEF Upserted, Intent
<1>3. ASSUME NEW e \in Days, NEW b \in Attendants, TriggerPayout(e, b)
      PROVE  lines' = lines /\ intent'[d][a].amount = intent[d][a].amount
  <2>1. lines' = lines
    BY <1>3 DEF TriggerPayout
  <2>2. CASE e = d /\ b = a
    BY <1>1, <1>3, <2>2 DEF TriggerPayout, PayoutInv, Intent
  <2>3. CASE ~(e = d /\ b = a)
    BY <1>3, <2>3 DEF TriggerPayout, PayoutInv
  <2> QED BY <2>1, <2>2, <2>3
<1>4. CASE UNCHANGED intent
  BY <1>4
<1> QED BY <1>1, <1>2, <1>3, <1>4
    DEF Next, Tick, SetCommissionRate, Sell, ApplyPaymentResult, SettleSuccess, SettleFailure,
        TriggerClose, vars

\* However often a period is closed and its payout triggered, a payout is submitted for what
\* the ledger owes, rounded to whole shillings, and lines that come later only make it less
\* than what is owed.
THEOREM PayoutsWithinRounding == Spec => PayoutWithinRounding
<1>1. ASSUME PayoutInv, PayoutInv', Summable(lines'), [Next]_vars,
             NEW d \in Days, NEW a \in Attendants, intent'[d][a].state = "submitted"
      PROVE  /\ FromWholeKes(intent'[d][a].whole) <= Owed(lines', d, a) + 50
             /\ intent[d][a].state # "submitted"
                  => Owed(lines', d, a) < FromWholeKes(intent'[d][a].whole) + 50
  <2>1. Owed(lines', d, a) \in Nat
    BY <1>1, OwedGrows
  <2>2. /\ intent'[d][a].amount \in Nat /\ intent'[d][a].whole \in Nat
        /\ intent'[d][a].amount <= Owed(lines', d, a)
        /\ FromWholeKes(intent'[d][a].whole) <= intent'[d][a].amount + 50
        /\ intent'[d][a].amount < FromWholeKes(intent'[d][a].whole) + 50
    BY <1>1 DEF PayoutInv, Follows, Intent, FromWholeKes
  <2>3. FromWholeKes(intent'[d][a].whole) \in Nat
    BY <2>2 DEF FromWholeKes
  <2>4. ASSUME intent[d][a].state # "submitted"
        PROVE  Owed(lines', d, a) = intent'[d][a].amount
    BY <1>1, <2>4, SubmittedAtOnce
  <2> QED BY <2>1, <2>2, <2>3, <2>4
<1>2. Spec => []PayoutInv /\ []Summable(lines) /\ [][Next]_vars
  BY PayoutInvariant, LinesSummable, PTL DEF Spec
<1>3. PayoutInv /\ PayoutInv' /\ Summable(lines)' /\ [Next]_vars =>
        [\A d \in Days, a \in Attendants :
           LET asks == FromWholeKes(intent'[d][a].whole)
               owed == Owed(lines', d, a) IN
           intent'[d][a].state = "submitted"
             => /\ asks <= owed + 50
                /\ intent[d][a].state # "submitted" => owed < asks + 50]_vars
  BY <1>1
<1> QED BY <1>2, <1>3, PTL DEF PayoutWithinRounding

-------------------------------------------------------------------------------
(* The page beside the ledger *)

LEMMA TotalType ==
  ASSUME RowsInv, NEW s \in Sales
  PROVE  sale[s].total \in Nat
<1>1. sale[s].total \in Totals \union {0}
  BY DEF RowsInv, SaleRow
<1> QED BY <1>1, MoneyType

\* One rate, in effect since some moment, is the latest one and prices the whole page.
LEMMA OneRate ==
  ASSUME RowsInv, AmountsInv, NEW a \in Attendants, SimpleDays(a)
  PROVE  \E r \in rates :
           /\ r.bps \in Nat
           /\ \A q \in rates : q.attendant = a => q = r
           /\ \A s \in Sales : Seller[s] = a =>
                PageCommission(s) = CommissionMinor(sale[s].total, r.bps)
<1> DEFINE T == {r \in rates : r.attendant = a}
<1>1. IsFiniteSet(T) /\ Cardinality(T) = 1
  BY FS_Subset DEF AmountsInv, SimpleDays
<1> HIDE DEF T
<1>2. PICK r : T = {r}
  BY <1>1, FS_Singleton
<1>3. r \in rates /\ r.attendant = a /\ \A q \in rates : q.attendant = a => q = r
  BY <1>2 DEF T
<1>4. r.bps \in Nat
  BY <1>3, MoneyType DEF RowsInv, Rate
<1>5. LatestRates(a) = {r}
  <2>1. r.effective_from <= r.effective_from
    BY <1>3 DEF RowsInv, Rate, Time
  <2> QED BY <1>3, <2>1 DEF LatestRates
<1>6. ASSUME NEW s \in Sales, Seller[s] = a
      PROVE  PageCommission(s) = CommissionMinor(sale[s].total, r.bps)
  <2> DEFINE com(q) == CommissionMinor(sale[s].total, q.bps)
             v == [q \in {r} |-> com(q)]
  <2>1. v[r] \in Nat
    <3>1. v[r] = CommissionMinor(sale[s].total, r.bps)
      OBVIOUS
    <3>2. sale[s].total \in Nat
      BY TotalType
    <3> HIDE DEF v
    <3>3. CommissionMinor(sale[s].total, r.bps) \in Nat
      BY <1>4, <3>2, CommissionType
    <3> QED BY <3>1, <3>3
  <2>2. PageCommission(s) = SumOf(v, {r})
    <3> HIDE DEF com
    <3>1. MapThenSumSet(com, {r}) = SumOf([q \in {r} |-> com(q)], {r})
      BY DEF MapThenSumSet, MapThenFoldSet, SumOf, Adds, Pick
    <3>2. PageCommission(s) = MapThenSumSet(com, {r})
      BY <1>5, <1>6 DEF PageCommission, com
    <3> QED BY <3>1, <3>2
  <2>3. SumOf(v, {r}) = v[r] + SumOf(v, {r} \ {r}) /\ SumOf(v, {r} \ {r}) = 0
    <3>1. \A x \in {r} : v[x] \in Nat
      BY <2>1
    <3> HIDE DEF v
    <3>2. SumOf(v, {r}) = v[r] + SumOf(v, {r} \ {r})
      BY <3>1, FS_Singleton, SumRemove
    <3>3. {r} \ {r} = {}
      OBVIOUS
    <3>4. SumOf(v, {}) = 0
      BY FS_EmptySet, SumUnfold
    <3> QED BY <3>2, <3>3, <3>4
  <2>4. v[r] = CommissionMinor(sale[s].total, r.bps)
    OBVIOUS
  <2> HIDE DEF v
  <2> QED BY <2>1, <2>2, <2>3, <2>4
<1> QED BY <1>3, <1>4, <1>6

\* The estimate of the page is a sum in the sense of FiniteSums.
LEMMA EstimateIsSum ==
  ASSUME NEW d, NEW a
  PROVE  Estimate(d, a) = SumOf([s \in PageSales(d, a) |-> PageCommission(s)], PageSales(d, a))
<1> DEFINE P == PageSales(d, a)
<1> HIDE DEF P
<1>1. MapThenSumSet(PageCommission, P) = SumOf([s \in P |-> PageCommission(s)], P)
  BY DEF MapThenSumSet, MapThenFoldSet, SumOf, Adds, Pick
<1> QED BY <1>1 DEF Estimate, P

\* Every line of a simple day is of a sale the page shows, at the commission it shows.
LEMMA PageHasLine ==
  ASSUME LedgerInv, AmountsInv, NEW d, NEW a \in Attendants, SimpleDays(a),
         NEW l \in LinesOf(lines, d, a)
  PROVE  l.sale \in PageSales(d, a) /\ l.commission = PageCommission(l.sale)
<1>1. l \in lines /\ l.period = d /\ Seller[l.sale] = a /\ LineInv(l) /\ Computed(l)
  BY DEF LinesOf, LedgerInv, AmountsInv
<1>2. /\ l.sale \in Sales /\ sale[l.sale].status = "paid" /\ l.amount = sale[l.sale].total
      /\ EatDate(sale[l.sale].created) = d
  BY <1>1 DEF LineInv, SimpleDays, SettlementDays
<1>3. PICK r \in rates :
        /\ \A q \in rates : q.attendant = a => q = r
        /\ \A s \in Sales : Seller[s] = a =>
             PageCommission(s) = CommissionMinor(sale[s].total, r.bps)
  BY OneRate DEF LedgerInv
<1>4. PICK q \in rates : \E t : Priced(l, q, t)
  BY <1>1, <1>2 DEF LineInv
<1>5. l.rate = r.bps
  BY <1>1, <1>3, <1>4 DEF Priced
<1>6. l.commission = PageCommission(l.sale)
  BY <1>1, <1>2, <1>3, <1>5 DEF Computed
<1> QED BY <1>1, <1>2, <1>6 DEF PageSales, SaleDate, EatDate

\* On simple days the ledger is within the estimate, and meets it once it is complete.
LEMMA SimpleDaysAgree ==
  ASSUME LedgerInv, AmountsInv, Summable(lines), NEW d, NEW a \in Attendants, SimpleDays(a)
  PROVE  /\ LedgerSales(d, a) \subseteq PageSales(d, a)
         /\ Ledgered(d, a) <= Estimate(d, a)
         /\ LedgerSales(d, a) = PageSales(d, a) => Ledgered(d, a) = Estimate(d, a)
<1> DEFINE S == LinesOf(lines, d, a)
           P == PageSales(d, a)
           v == [l \in S |-> l.commission]
           w == [s \in P |-> PageCommission(s)]
           f == [l \in S |-> l.sale]
<1>1. \A l \in S : l.sale \in P /\ l.commission = PageCommission(l.sale)
  BY PageHasLine
<1>2. LedgerSales(d, a) \subseteq P /\ LedgerSales(d, a) = {f[l] : l \in S}
  BY <1>1 DEF LedgerSales
<1>3. IsFiniteSet(S)
  BY LinesFinite
<1>4. IsFiniteSet(P)
  <2>1. P \subseteq Sold
    BY DEF PageSales, Sold
  <2> QED BY <2>1, FS_Subset DEF AmountsInv
<1>5. ASSUME NEW s \in P PROVE w[s] \in Nat
  <2>1. s \in Sales /\ Seller[s] = a
    BY DEF PageSales
  <2>2. \E r \in rates : /\ r.bps \in Nat
                         /\ PageCommission(s) = CommissionMinor(sale[s].total, r.bps)
    <3> HIDE DEF w, P
    <3>1. RowsInv
      BY DEF LedgerInv
    <3> QED BY <2>1, <3>1, OneRate
  <2>3. sale[s].total \in Nat
    BY <2>1, TotalType DEF LedgerInv
  <2>4. w[s] = PageCommission(s)
    OBVIOUS
  <2> HIDE DEF w, P
  <2>5. PageCommission(s) \in Nat
    BY <2>2, <2>3, CommissionType
  <2> QED BY <2>4, <2>5
<1>6. \A k, l \in S : f[k] = f[l] => k = l
  BY DEF LinesOf, LedgerInv
<1>7. f \in [S -> P] /\ \A l \in S : v[l] = w[f[l]]
  BY <1>1
<1>8. Ledgered(d, a) = SumOf(v, S)
  BY OwedIsSum DEF Ledgered, Owed
<1>9. Estimate(d, a) = SumOf(w, P)
  BY EstimateIsSum
<1> HIDE DEF S, P, v, w, f
<1>10. SumOf(v, S) = SumOf(w, {f[l] : l \in S})
  BY <1>3, <1>4, <1>5, <1>6, <1>7, SumCorresponds
<1>11. Ledgered(d, a) = SumOf(w, LedgerSales(d, a))
  BY <1>2, <1>8, <1>10
<1>12. SumOf(w, LedgerSales(d, a)) <= SumOf(w, P)
  BY <1>2, <1>4, <1>5, SumMonotone
<1> QED BY <1>2, <1>9, <1>11, <1>12 DEF P

\* The payout on the page is what the ledger owes, until it is locked, and the list of
\* payouts has it, under every filter that asks for it.
LEMMA PayoutsAgree ==
  ASSUME PayoutInv, Summable(lines), NEW d \in Days, NEW a \in Attendants
  PROVE  /\ IF PayoutLocked(d, a) THEN ShownPayout(d, a) <= Ledgered(d, a)
                                  ELSE ShownPayout(d, a) = Ledgered(d, a)
         /\ (Ledgered(d, a) > 0) <=> (d \in ListedPayouts(a, ""))
         /\ (Ledgered(d, a) > 0) <=> (d \in ListedPayouts(a, intent[d][a].state))
<1>1. Ledgered(d, a) = Owed(lines, d, a) /\ Ledgered(d, a) \in Nat
  BY OwedGrows DEF Ledgered, Owed
<1>2. /\ intent[d][a].state \in {"absent", "pending", "submitted", "failed"}
      /\ Follows(intent[d][a], Ledgered(d, a))
  BY <1>1 DEF PayoutInv, Intent
<1>3. (Ledgered(d, a) > 0) <=> (intent[d][a].state \in PayoutStates)
  BY <1>1, <1>2 DEF Follows, PayoutStates
<1>4. ListedPayouts(a, "") = IntentsIn(a, PayoutStates)
  BY DEF ListedPayouts, PayoutRows, PayoutStates
<1>5. CASE intent[d][a].state = "absent"
  <2>1. ListedPayouts(a, intent[d][a].state) = IntentsIn(a, PayoutStates)
    BY <1>5 DEF ListedPayouts, PayoutRows, PayoutStates
  <2> QED BY <1>2, <1>3, <1>4, <1>5, <2>1 DEF Follows, PayoutLocked, ShownPayout, IntentsIn
<1>6. CASE intent[d][a].state # "absent"
  <2>1. intent[d][a].state \in PayoutStates /\ intent[d][a].state # ""
    BY <1>2, <1>6 DEF PayoutStates
  <2>2. ListedPayouts(a, intent[d][a].state) = IntentsIn(a, {intent[d][a].state})
    BY <2>1 DEF ListedPayouts, PayoutRows
  <2> QED BY <1>2, <1>3, <1>4, <2>1, <2>2 DEF Follows, PayoutLocked, ShownPayout, IntentsIn
<1> QED BY <1>5, <1>6

\* Whatever was sold, settled, priced and closed, the page and the ledger agree on the days
\* that are simple, and on the payout on every day.
THEOREM PageAlwaysMatchesLedger == Spec => []PageMatchesLedger
<1>1. LedgerInv /\ AmountsInv /\ PayoutInv /\ Summable(lines) => PageMatchesLedger
  BY SimpleDaysAgree, PayoutsAgree DEF PageMatchesLedger
<1> QED BY <1>1, LedgerInvariant, AmountsInvariant, PayoutInvariant, LinesSummable, PTL

-------------------------------------------------------------------------------
(* Types *)

TypedInv == lines \subseteq Line

LEMMA TypedStep ==
  ASSUME RowsInv, TypedInv, [Next]_vars
  PROVE  TypedInv'
<1>1. ASSUME NEW d \in Days, NEW l \in NewLines(d) PROVE l \in Line
  <2>1. PICK s \in PaidInPeriod(d), r \in rates : l = LineOf(d, s, r)
    BY <1>1 DEF NewLines, RatesAsOf
  <2>2. s \in Sales /\ payment[s].amount \in Nat
    BY <2>1 DEF RowsInv, PaymentRow, PaidInPeriod, PaidSales
  <2>3. r.bps \in Bps /\ now \in Time
    BY <2>1 DEF RowsInv, Rate
  <2>4. CommissionMinor(payment[s].amount, r.bps) \in Nat
    BY <2>2, <2>3, MoneyType, CommissionType
  <2> QED BY <2>1, <2>2, <2>3, <2>4 DEF LineOf, Line
<1>2. lines' = lines \/ \E d \in Days : lines' = lines \union NewLines(d)
  BY DEF Next, Tick, SetCommissionRate, Sell, ApplyPaymentResult, SettleSuccess, SettleFailure,
         TriggerClose, RunClose, TriggerPayout, vars
<1> QED BY <1>1, <1>2 DEF TypedInv

\* Every row keeps its type, for any rates, sales, days and repetitions of a close run.
THEOREM TypeCorrect == Spec => []TypeOK
<1>1. Init => TypedInv
  BY DEF Init, TypedInv
<1>2. LedgerInv /\ TypedInv /\ [Next]_vars => TypedInv'
  BY TypedStep DEF LedgerInv
<1>3. LedgerInv /\ CloseInv /\ PayoutInv /\ TypedInv => TypeOK
  BY DEF LedgerInv, RowsInv, SettlingsInv, CloseInv, CloseRowsInv, PayoutInv, TypedInv, TypeOK
<1> QED BY <1>1, <1>2, <1>3, LedgerInvariant, CloseInvariant, PayoutInvariant, PTL DEF Spec

================================================================================
