# TillFlow in TLA+

TillFlow is a multi-tenant point of sale that collects M-Pesa payments and pays commission.
This directory holds TLA+ models of its money path, the TLC configurations that check them on
small instances, and TLAPS proofs for instances of any size. The models follow the code under
`src/services`, as deployed: Postgres at READ COMMITTED, one `AsyncSession` per request with
`expire_on_commit=False`, the sandbox Daraja adapter, and the in-memory outbox that
`payments/deps.py` always hands out. One module, `LocalPayments`, models the other runtime: payments with
in-memory repositories and the fake adapter, as developers and CI run it.

Run a model with `tlc -config MCStkSettlement.cfg MCStkCollection`, the proofs with
`tlapm StkCollectionProofs.tla`, and likewise for `PosSalesProofs`, `B2CPayoutsProofs`,
`CommissionCloseProofs`, `FiniteSums`, `CommissionPeriodsProofs`, `WebShopProofs` and `LocalPaymentsProofs`.

## Inventory

| component | state | operations | talks to |
|---|---|---|---|
| STK initiation (`payments/api/stk.py`, `services/stk_service.py`) | `payments` rows, `idempotency_keys` rows | `POST /payments/stk`: begin key, look up by sale and by key, save, push, update, complete key | Daraja (push), outbox |
| Idempotency guard (`_shared/idempotency`, `payments/idempotency`) | `idempotency_keys` rows: in progress or completed with the stored reply | `begin`, `complete` | its service's database |
| Callback handling (`api/callbacks.py`, `services/callback_service.py`) | `payment_callbacks` rows, unique on the provider's id pair | `POST /callbacks/mpesa/{secret}` | settlement, POS |
| Settlement (`services/settlement.py`, `domain/state.py`) | `payments.state`, `payment_ledger` | `settle_success`, `settle_failure` | database |
| Reconciliation (`services/reconciliation_service.py`, `outbox.py`) | the in-memory outbox | `POST /payments/reconcile/{id}`, `POST /payments/reconcile/outbox` | Daraja (query), settlement, POS |
| POS notification (`clients/pos.py`) | none | `notify_pos`, best effort | POS |
| M-Pesa adapter (`_shared/mpesa`) | the OAuth token cache; the fake's records and queued callbacks | push, query, B2C | Daraja |
| Money (`_shared/money/kes.py`) | none | minor units to whole shillings and back; commission in basis points | all services |
| POS directory (`pos/services/tenant_service.py`, `pos/alembic`) | `tenants`, `users`, `tills`, `commission_rates` | create a tenant, a till, an attendant, a rate | database |
| POS sales (`pos/services/sale_service.py`) | `sales` rows | create, transition, request payment, apply payment result | payments |
| B2C payouts (`payments/services/b2c_service.py`) | `payouts` rows, `payment_ledger` | initiate, apply result | Daraja |
| Commission close and payout (`commission/services`) | `close_runs`, `commission_ledger`, `payout_intents` | daily close, submit, mark completed | POS and payments tables, queue, payments |
| Commission periods (`close_service.py`, the two `v_..._for_commission` views) | the same rows, seen by day, rate and amount | close a day, price a sale, pay out | POS and payments tables |
| Commission worker (`commission/worker`) | the payout queue; in-memory stores of its own | poll, dispatch, delete | close, payout |
| In-memory repositories (`*/repositories/memory.py`, `payments/outbox.py`) | what the tables hold, in one process | the repositories' operations | the service that owns them |
| Web front end (`services/web`) | the session and CSRF cookies of a browser | home, setup, reset, sale, pay, commission, payouts | POS, commission |
| Telemetry, health, infrastructure | none the services act on | | |

What is hard in it:

- Every repository call commits, so a handler is a sequence of small transactions. Any other
  request, callback, reconciliation or drain runs between two of them, and a handler decides on
  the copy of the row it read.
- Daraja's results come as callbacks that may be late, repeated, reordered or lost, and as query
  replies that may come before the customer has answered.
- A push that times out may or may not have put a prompt on the phone.
- POS sends its answer before it commits (`get_db_session` ends after the response): a client may act on a row
  that is not there yet, or never will be.
- The outbox and the handlers live in a process that may die; the database survives it.
- POS hears the outcome from a call that may fail and is not repeated.
- Close runs of one period, and payout requests of one attendant, may overlap: no lock and no row
  version keeps a unit of work from writing over what another committed since its read.
- A payout request whose answer got lost is repeated under the same key, when payments may be
  working on it, have answered it, or have died with it.
- A day of commission is an East African day computed from UTC timestamps; a sale may be reported or
  settled after the close run of its day, a rate may be set for the past, and an amount is rounded to
  whole shillings on its way to Daraja and compared on its way back.
- A form of the web front end is up to four requests to other services. Each may fail or be answered after
  the five seconds the front end waits, when those before it took effect.
- Tabs of one browser share its cookies: one tab may reset the shop that another goes on working with. Beside
  the browser, any client may call POS with any tenant header and any ids.

What makes each component correct:

- *STK initiation*: a sale is prompted once; a prompt always has its row; a 2xx answer has a payment.
- *Settlement, callbacks, reconciliation*: the state, the ledger and the report to POS follow the
  money and nothing else; a settled row is never unsettled; a paid row is booked and reported; a
  late success wins. That a timeout is resolved is promised and not kept (see below).
- *Idempotency guard*: one executor per key; a replay returns what the executor stored; a key in
  progress has somebody working on it.
- *POS sales*: overlapping creations with one key are told of one sale; a sale moves along its table only while
  requests follow each other, and is paid only when its customer was charged.
- *B2C payouts and commission*: one disbursement per tenant, period and attendant; the amount
  disbursed never exceeds what the ledger owes; a lost answer is not paid twice and not forgotten; a
  close run, or the one that follows a dead one, leaves nobody out.
- *Money*: a round trip loses at most half a shilling, and nothing for whole amounts.
- *Commission periods*: a sale is commissioned once for a day on which it settled, for what was charged, at the
  rate in effect then; a repeated close run picks up what came late; a payout is what the ledger says but for
  half a shilling of rounding; the page of the front end agrees with the ledger.
- *POS directory*: no row refers to a row of another tenant.
- *Web front end*: what a page reports as done was done, if POS commits what it answered; a form is refused only
  after a race of tabs or an expired cookie.
- *Local runtime*: it keeps the lifecycle that Postgres handlers race past, and the fake's outcome arrives.

## Modules

| module | models |
|---|---|
| `PaymentState` | `PaymentState`, its transition table and `is_payment_terminal` (`payments/domain/state.py`) |
| `PaymentLifecycle` | the abstract promise: rows move along the table only, PAID is final, one ledger line per paid payment |
| `StkCollection` | initiation, idempotency guard, callbacks, settlement, reconciliation, outbox, notification, Daraja and the customer, process death |
| `MCStkCollection` | symmetry sets for TLC |
| `StkCollectionProofs` | inductive invariants and theorems of `StkCollection`, and the proof that a serial service implements `PaymentLifecycle` |
| `SaleState` | `SaleStatus`, its transition table and `is_sale_terminal` (`pos/domain/state.py`) |
| `SaleLifecycle` | the abstract promise of POS: sales move along the table only, terminal statuses are final, paid only if charged |
| `PosSales` | sale creation, cancellation, payment request and payment result as overlapping database transactions, process death |
| `MCPosSales` | symmetry sets for TLC |
| `PosSalesProofs` | inductive invariants and theorems of `PosSales`, and the proof that a serial service implements `SaleLifecycle` |
| `PayoutState` | `PayoutState`, its transition table and `is_payout_terminal` (`payments/domain/state.py`) |
| `PayoutLifecycle` | the abstract promise to commission, per originator id: one payout, one transfer, a final state that agrees with Daraja |
| `B2CPayouts` | initiation and result of disbursements, the idempotency guard, Daraja's transfers, process death |
| `MCB2CPayouts` | the module the `B2CPayouts` runs start from |
| `CommissionClose` | close runs, payout requests, the payout queue with its worker, the payments service as seen from commission, process death |
| `MCCommissionClose` | the sellers and the symmetry set for TLC |
| `CommissionCloseProofs` | inductive invariants and theorems of `CommissionClose` |
| `B2CPayoutsProofs` | inductive invariants of `B2CPayouts`, and the proof that it implements `PayoutLifecycle` |
| `Money` | `to_whole_kes`, `from_whole_kes` and `commission_minor` |
| `CommissionPeriods` | rates, sales, settlements, close runs and payouts over several days, with amounts |
| `CommissionPages` | the commission page and the payout list of the front end, beside the ledger |
| `CommissionSchedule` | the daily close as the scheduler triggers it |
| `MCCommissionPeriods`, `MCCommissionSchedule` | the sellers and the symmetry set for TLC |
| `FiniteSums` | laws of sums over finite sets, as `MapThenSumSet` computes them, with proofs |
| `CommissionPeriodsProofs` | rounding lemmas about `Money`, inductive invariants and theorems of `CommissionPeriods` and `CommissionPages` |
| `PosDirectory` | tenants, users, tills, rates and sales of POS, with their foreign keys and the tenant filter |
| `WebShop` | `PosDirectory` composed with the front end: tabs, cookies, form handlers and their calls, and direct clients |
| `MCWebShop` | the symmetry set for TLC |
| `WebShopProofs` | inductive invariants and theorems of `WebShop` |
| `LocalPayments` | payments in memory with the fake adapter and one event loop; refines `PaymentLifecycle` |
| `MCLocalPayments` | the symmetry set for TLC |
| `LocalPaymentsProofs` | inductive invariant of `LocalPayments`, and the proof that it implements `PaymentLifecycle` |

### StkCollection

State and code:

| variable | code |
|---|---|
| `req` | what a `POST /payments/stk` carries: sale, idempotency key, and whether the amount rounds to a shilling |
| `pc`, `ids` | where that request is in `initiate_stk`, and whether Daraja's reply (or the timeout exception) gave it the checkout id |
| `payment`, `checkout` | `payments.state`; whether `payments.checkout_request_id` is set. A payment is named by the request that inserted it |
| `idem` | `idempotency_keys.status` |
| `callbacks` | the payments whose provider ids are in `payment_callbacks` |
| `ledger` | number of `charge_confirmed` lines per payment |
| `outbox` | unpublished messages of `InMemoryOutbox` |
| `job` | per concurrent handler: its next step, the payment, the provider's result and the copy of the row it read (`seen`) |
| `prompt` | the STK prompt as Daraja knows it: none, offered, failed, paid, or paid after a failure was reported |
| `reported`, `unreached` | results POS received; payments with a result that did not reach it |
| `crashes` | how often the process died (bounded by `MaxCrashes`) |

Each action is one database read, one commit, or one call to Daraja or POS. A request goes through
`Begin`, `TryBegin`, `LookupSale`, `LookupKey`, `Save`, `InitiateStkPush`, then `UpdateStkSent` or
`UpdatePendingReconciliation` and `EnqueueReconciliation`, then `Complete`; it may end early with a
replay, a conflict or an exception. A callback goes through `ReceiveCallback`, `TryInsertCallback`,
`SettleIgnored` or `SettleUpdate`, `Refresh`, `CountLedger`, `AppendLedger`, `NotifyPos`. A
reconciliation enters through `ReconcilePayment` or through the drain (`ListUnpublished`,
`NextMessage`, `MarkPublished`, `DrainDone`) and shares the settlement steps after
`QueryTransactionStatus`.

Abstractions: one tenant (the unique constraints and lookups carry the tenant); amounts are "valid"
or not, and a result's amount "matches" or not; receipts, phone numbers and wording are left out; a
callback for an unknown checkout id, a wrong secret and a read-only endpoint change nothing and have
no action. The loser of `try_begin` reads the key in the same step: its failed insert changes
nothing, so this is the same as inserting at the moment of the read. Reading the row
and choosing the next message of a drain is one step for the same reason.

### PosSales

State and code:

| variable | code |
|---|---|
| `key`, `cpc`, `reply` | per `POST /sales` request: its idempotency key, its next step, the sale its answer names |
| `sale` | committed `sales.status`, "absent" before the row is; a sale is named by the request that inserted it |
| `exact` | whether `sales.total_minor` is a whole number of shillings |
| `job` | per concurrent pay, cancel or result request: its next step, the sale, the status it writes, and whether its UPDATE is flushed (it then holds the row lock) |
| `asked`, `charged` | collection requests payments received; customers charged |
| `crashes` | how often the process died (bounded by `MaxCrashes`) |

Where payments commits after every statement, POS runs each request in one transaction
(`get_db_session`). So an action is a read, a flush or a commit: `RequestPayment`, `Transition` and
`ApplyPaymentResult` read the row and decide; `UpdateSale` takes the row lock; `InitiateStk` and
`PaymentsAnswered` are the call to payments; `Commit` publishes the status; `PaymentsUnavailable` and
`Crash` roll it back, because a raised `HTTPException` leaves `session.begin()` by an exception.

The answer comes before the commit: with the locked FastAPI a dependency with `yield` is closed after the
response was sent. So a creation goes through `BeginCreate`, `Insert` (or `InsertRefused` for a foreign till),
`ReplyCreated`, `CommitCreate`; between the last two it may be killed, or its commit fail (`CommitCreateFails`),
and it is then "lost": answered 201 and not there. The loser of a race waits for the holder of the unique index
entry (`KeyBusy`). If the holder commits, the loser ends in "error": `_flush` adds the row before
`begin_nested`, whose own flush issues the INSERT ahead of the savepoint, so the violation ends the whole
transaction, and the lookup of the winner in `SaleService.create` raises.

Abstractions: one tenant; a total is "whole shillings" or not, since payments reports the amount it
pushed and POS refuses any other (`AmountMismatchError`); a request answered 404, 409 or unchanged has
no action. For pay, cancel and result the order of reply and commit is not told apart (`CommitFails` is a commit
that never happens): no property looks at their replies. Payments is an environment that reports
"paid" only for charged sales, which is `BookedMeansCharged` of `StkCollection`, and "failed" for any
sale it was asked to collect for.

### B2CPayouts

State and code:

| variable | code |
|---|---|
| `req`, `pc` | per `POST /payments/b2c`: its originator id (which its Idempotency-Key must equal), whether the rest of it is valid, its next step |
| `idem` | `idempotency_keys.status` |
| `payout`, `conversation` | `payouts.state`; whether `payouts.conversation_id` is the id Daraja's result will carry. A payout is named by the request that inserted it |
| `ledger` | number of `payout_disbursed` lines per payout |
| `job` | per concurrent `POST /payments/b2c/result` handler: its next step, its payout, the outcome it carries |
| `transfer` | the transfer as Daraja knows it: none, accepted, done or refused |
| `crashes` | how often the process died (bounded by `MaxCrashes`) |

A request goes through `Begin`, `Lookup`, `Save`, `InitiateB2C`, `UpdateSubmitted` (skipped after a
timeout) and `Complete`; a result through `ReceiveResult`, `UpdateResult`, `CountLedger` and
`AppendLedger`. `Begin` is one step: reading no record and then losing the insert to another request is the
same as reading that request's record. Daraja accepts a transfer or not, independently of what its
adapter reports, with one link: a stored conversation id is Daraja's only if it took the transfer (the
adapter reads neither the HTTP status nor `ResponseCode`, so an error body is stored as an accepted
request with the id ""). An outcome is told any number of times and never changes.

Abstractions: one tenant; amounts and payees are left out (a payout keeps those of the request that
inserted it); the result arrives in the simplified body the endpoint declares. The `PENDING` branch of
`apply_result` is not modelled, because no row with a conversation id is pending:
`ResultMeetsSubmitted`, checked and proved.

The mapping to `PayoutLifecycle` takes, for each originator id, the state of its one row, the state of
its one transfer, and whether it has a ledger line.

### CommissionClose

One payout period. State and code:

| variable | code |
|---|---|
| `lines` | the sales with a `commission_ledger` row (unique per tenant, period, attendant and sale) |
| `run` | `close_runs.status` |
| `intent` | per attendant, the `payout_intents` row: state, amount, whether `payments_payout_id` is set |
| `closer` | per close run: its next step, the status it read, the sales it has still to price and those it knows, the attendants to come, and for the attendant at hand the total and the copy of the row it read |
| `handler` | per concurrent `POST /internal/payout`: its next step, its attendant, its copy of the row |
| `queue`, `dead` | attendants with a message in the SQS payout queue, in its dead letter queue |
| `key`, `disbursed` | the payments service from outside: per attendant the state of the deterministic Idempotency-Key with the amount of its first use; how many transfers to each attendant contained the commission of each sale |
| `crashes` | how often the commission process died (bounded by `MaxCrashes`) |

A close run goes through `ReadRun`, `SaveRunning`, `ListPaid`, one `InsertLine` per sale and
`ListLines`; then for each attendant `SumLedger` (which also reads the contact), `ReadIntent`,
`InsertIntent` or `UpdateIntent` and `RefreshIntent`, `Send`; then `Finish`. A payout request goes
through `BeginSubmit`, `Call`, and, when payments has done its part (`Execute`), `WriteSubmitted` or
`WriteFailed`; `CallRaises` is an exception of the HTTP client other than `PaymentsClientError`.
`WorkerReceive` is the three deliveries of a message that the worker cannot handle.

How the data is abstracted:

- An amount is the set of ledger lines it sums. The lines of a period only grow, so the subset order is
  the order of the amounts, and "nothing owed" is the empty set; `Zero` holds the sales whose commission
  rounds down to nothing, whose lines no amount counts. Every transfer counts its lines once more (`Added`). So
  `NeverOverpaid` says more than a comparison of sums: over all transfers each line is paid at most once, and to its
  own attendant.
- An attendant stands for the pair of tenant and attendant: row, ledger sum, message and key carry both.
- `ListPaid` lets the view show any priced sales. Sales settle while a close runs and after it, and a
  settled sale may vanish (`PaidIsFinal` of `StkCollection` is violated).
- A session writes only the columns it changed. `Written` does this: a state or amount equal to the copy
  is not in the UPDATE, so the row keeps what another session wrote there.
- No intent is ever "completed": payments answers a disbursement before Daraja does, so its reply says
  "submitted" or "pending", and nothing calls `mark_completed`.
- A close run that died takes no further step. In the safety run any close run or request may stop anywhere,
  since no fairness makes it go on; so `MaxCrashes` is 0 there, and 1 in the retry run.

### CommissionPeriods, CommissionPages and Money

`CommissionClose` has the interleavings of one period; `CommissionPeriods` has the days, the rates and the
amounts, and takes a close run and a payout as one step each. State and code:

| variable | code |
|---|---|
| `now` | the clock, in ticks; `EatDate` is the business day of `close_service.py` and of the two views |
| `rates` | `pos.commission_rates` with `effective_from`, and when each was inserted |
| `sale` | `pos.sales`: status, `total_minor`, `created_at`, `paid_at` |
| `payment` | `payments.payments`: state, `amount_minor`, the whole shillings of the prompt, `settled_at` |
| `lines` | `commission.commission_ledger`: period, sale, amount, rate, commission |
| `closed` | `completed_at` of each period's `close_runs` row |
| `intent` | `payout_intents` per period and attendant, with the whole shillings of the payout made of it |
| `settlings` | history: every `settled_at` the payment of a sale ever had |

`SetCommissionRate` is `POST /commission-rates`; `Sell` creates a sale and asks payments to collect for it;
`SettleSuccess` and `SettleFailure` are settlement with its stale overwrites: a failure over PAID, and a success over
PAID, which a handler writes that read the row before another one settled it (two callbacks, or a callback
during a query) and which gives the payment a new `settled_at`; `ApplyPaymentResult` is the
report to POS, with its check of the amount; `TriggerClose` (`RunClose`) is a whole close run of any day at any time:
`PaidInPeriod` joins the two views, `RatesAsOf` is `rate_as_of`, `NewLines` leaves out sales whose totals
disagree and those that have a line, `Upserted` is the upsert of the intent; `TriggerPayout` is
`POST /internal/payout`, which payments refuses below half a shilling.

`CommissionPages` adds no step. `Estimate` is what the front end computes from the sales list and the rates
list for an attendant and a day, `Ledgered` what commission answers, `ListedPayouts` the payout list with its
filter; `PageMatchesLedger` relates them.

`CommissionSchedule` adds the scheduled close, which carries no period and closes in the worker's own memory.

Abstractions: one tenant; every attendant has a contact; phone numbers and receipts are left out; a sale
that was created and never handed to payments is one that is not sold yet.

### PosDirectory and WebShop

State and code:

| variable | code |
|---|---|
| `tenants`, `users`, `tills`, `rates`, `sales` | the tables of POS. A row is named by the submission whose request inserted it |
| `asked` | collection requests of POS, with the tenant they were made for |
| `csrf`, `session` | the two cookies in the browser: the token, and the shop (tenant, till, attendant) |
| `minted`, `expiries` | how many CSRF tokens were made; how often a cookie expired |
| `form` | per submission: where it is, its kind, the token in its page, the shop and the sale its handler works with, the call it waits for |
| `calls` | requests to POS that were sent and not served |
| `uncommitted`, `lost` | requests POS answered and has still to commit; those whose transaction did not commit. `MaxFaults` bounds these and the expired cookies together |

A form goes through `OpenPage` and `PageArrives` (the cookie comes with the response), then `Refuse` (the
form is rendered again), `NoSession`, `Submit`, `SubmitReset` or `SubmitCommission`; the handler of a setup or a sale
sends one call after the other (`Reply` with `Proceed`, or `Fail`) and ends in `Answer` or `AnswerLost`. `Serve` is
POS serving a call, at any time after it was sent and whether or not somebody still waits. An insert is answered
when its foreign keys hold in what is committed (`Accepted`), and its row appears with `Commit`, which comes at any
later time or never (`CommitFails`). So the next call may find the row of the call before it missing; it is then
refused, which is a call that is never served. `ApiRequest` is a client that calls POS with any ids that exist.
`Fail` of the rate request is suppressed, as `ensure_shop` does; any other failure ends the form.

Abstractions: one browser; names, phones, shortcodes and amounts are left out; a body that does not validate
changes nothing; a call to commission changes no table and no cookie of this module; a sale form makes a key of
its own for its one request, so keys are left out. `PosSales` has the keys, the statuses of a sale and its
races. Pages that only read are not modelled, but for those in `CommissionPages`.

### LocalPayments

State and code:

| variable | code |
|---|---|
| `row` | the in-memory payment rows: state, and the key of the request that saved it |
| `keys` | the in-memory idempotency records |
| `stub` | the scenario of each record of the fake adapter |
| `delivered`, `received` | how many callbacks of the fake were delivered; payments with a callback row |
| `lines`, `outbox` | `charge_confirmed` lines; the reconciliation message of each payment |
| `handler`, `loop` | where each concurrent handler is, and which of them runs |

The repositories and the fake never give up the event loop, so a handler runs alone from its start to its call to POS
(`NotifyPos`, `Resume`) or its return. `loop` keeps this: a step either needs a free loop or is one of
the handler that has it. `Callbacks` and `QueryResult` give the callbacks a scenario queues and what
a query answers.

Abstractions: one payment for each sale; the fake's callbacks are delivered in order, each any number of times
(`OutcomeArrives` needs the order; the races do not); B2C is not part of it.

### Mutants

The mutants (`UniqueKeyOnly`, `LookupKeyPushesFirst`, ...) are plausible bugs, each next to the
definition it replaces. They are in no next-state relation; they show that each property would
notice the bug.

## Runs

| run | question | bounds |
|---|---|---|
| `stk_initiation` | can concurrent requests for the same sale or key prompt twice, prompt without a row, or answer 2xx without a payment? | 3 requests, 2 sales, 2 keys, 1 crash, no handlers |
| `stk_settlement` | do two racing handlers keep state, ledger and reports in line with the money? | 1 payment, 2 handlers, 1 crash |
| `stk_serial` | does the service with one handler at a time implement `PaymentLifecycle`, and is a charged payment PAID in the end? | 2 requests with one sale and key, 1 handler, 1 crash |
| `pos_races` | do overlapping creations with one key tell of one sale; do payments, cancellations and results keep its status in line with the money; does every request end although a row lock is held across the call to payments? | 2 creations with one key, 2 handlers, 1 crash |
| `b2c` | do retries and overlapping requests of one originator id, racing results and a process death keep the promise of `PayoutLifecycle`; is a result that can be matched applied in the end? | 2 requests, 2 originator ids, 2 handlers, 1 crash |
| `commission` | can overlapping close runs and payout requests pay a line twice or to somebody else, record a payout that is none, forget one that is, or leave somebody out? | 3 sales, 2 attendants (one without a contact), 2 close runs, 2 payout requests at a time |
| `commission_retries` | is a payout that payments answered for recorded in the end, through lost answers, conflicts, a racing close run and a process death? | 2 sales (one with no commission), 1 attendant, 1 close run, 2 payout requests at a time, 1 crash |
| `pos_serial` | does POS with one handler at a time implement `SaleLifecycle`? | 2 creations, 2 keys, 1 handler, 1 crash |
| `periods` | through midnights, late reports, backdated rates, rounding and repeated close runs: is a sale commissioned once for a day it settled on, at the right rate, for what was charged; is anybody left out, or paid something else than what is owed; does the page agree with the ledger? | 2 sales of 1 attendant, totals 7700 and 7750, rates of 0 and 200 bps, 2 rates, 2 days (3 ticks, EAT one tick ahead), 1 payment that fails, or is settled again (`MaxUnsteady`) |
| `web` | whatever tabs, lost answers, late calls, late and failing commits and foreign ids do: does a row ever mix tenants, does a page report what was not done, is a form refused without a reason? | 3 submissions or direct requests, of which 2 setups (`MaxSetups`), 1 expired cookie or lost transaction (`MaxFaults`) |
| `local` | does the in-memory service keep `PaymentLifecycle` with any interleaving of handlers, and does the fake's outcome arrive? | 3 payments, 3 keys, 3 handlers |
| `queued_payout` | does a queued payout message lead to a submitted intent? No: see below | 2 sales, 1 attendant, 1 close run |

Why the bounds are enough. Three requests over two sales and keys contain every pairing of "same or
other sale" with "same or other key" plus a bystander, and the unique constraints relate two rows.
Handlers of different payments touch disjoint rows, so one payment suffices for races between
handlers; two handlers contain every pairwise race of stale read against commit, and one handler may
process any number of callbacks, reconciliations and drains one after the other. One crash may fall
at any step; after it the database is arbitrary. The serial run has a request and its retry for the interplay
of initiation and settlement. `CHECK_DEADLOCK FALSE` everywhere: when all requests are answered and
nobody calls, the system rests.

In `B2CPayouts` two requests are a request and its retry, or two bystanders, and two handlers a stale
reader and a committer; the proofs cover the rest.

In `PosSales` creations with different keys do not meet (the serial run has both cases), and two handlers are a
stale reader and a committer of one sale; a third would wait for the same lock.

In `CommissionClose` two close runs are a stale writer and a committer, a dead run and its repetition,
or a run and one that finds more sales; two payout requests are a request and its retry. Two sales of
one attendant make totals that differ, the third belongs to somebody without a contact. `TLC` visits
1.5 million states; the proofs cover any number.

In `CommissionPeriods` two sales of one attendant make a sum, and a first line beside a late one; attendants do
not meet, because every rate, line and intent is of one attendant. 7700 is whole shillings and 7750 is not, so
that one is reported back and the other refused; 2 % of 7700 is 154, which is paid as 2 shillings, 2 % of two
such sales is 308, paid as 3; and 0 is the rate of somebody without commission. With days of two ticks and three
ticks in all, a settlement can be before or after the EAT midnight, and a close run on the day, or on the next.
Two rates are one in effect and one that comes later or is backdated. One payment that fails or is settled a
second time, on either side of midnight, stands beside one that is steady; it may fail after it was paid and
then be settled again, since a failure that is overcome does not count any more. 2.6 million states, 2 minutes.

In `WebShop` three submissions are a setup and two forms of its shop, a shop with the reset and the setup of
another, or two shops and a direct client that mixes their ids; a third setup has nothing to meet that the
second one does not show. One lost transaction is enough to take away a row that later calls rest on; `Commit`
may come before, between and after them. A lost transaction and an expired cookie do not meet. 1.9 million
states, 2 minutes. In `LocalPayments` three handlers are a drain that holds a list, a callback and a query that
come in between; payments share nothing but keys, of which a second request for a sale needs another one.

Symmetry: requests, sales, keys, handlers and close runs are interchangeable in the runs that check safety
only, `periods`, `web` and `local` among them (there over sales of one attendant, over submissions, and over
payments, keys and handlers; `RefinesLifecycle` of `local` is a safety property, since `PaymentLifecycle` has
no fairness); the runs with a liveness property use none.

Fairness (`FairSpec`): weak fairness for the steps of requests and handlers (an event loop runs
what is ready); strong fairness for the success callback, which Daraja repeats. Nothing in the repository calls the
outbox endpoint on a schedule, so `FairSpec` does not assume that anybody does. `DrainedSpec` adds it, for
`MCStkTimedOut.cfg` only: the promise it checks is broken even then.

The fairness of `PosSales`: weak fairness for creations and for the steps of a request, of which
`PaymentsUnavailable` is one because the HTTP client times out after five seconds; strong fairness for
`UpdateSale`, because Postgres grants a row lock in the order of asking.

The fairness of `B2CPayouts`: weak fairness for requests and handlers, and for Daraja finishing a transfer
it took; strong fairness for the delivery of each result, which Daraja repeats.

The fairness of `CommissionClose` (`FairSpec`): weak fairness for close runs, payout requests, the worker
and payments. `RetriedSpec` adds that somebody repeats `POST /internal/payout` for an attendant until the
row says "submitted", and that the network does not lose every call. That is an assumption about
operation, since the worker never gets there (`queued_payout`); `AnsweredIsRecorded` holds only under it.
A close run that is repeated for ever beside the requests could put the row back to "pending" each time,
which is why close runs are finitely many.

### Where documentation and code disagree

Each configuration checks one sentence of the documentation, a comment or a test, or what the calling code takes
for granted, and finds a behaviour of the code that breaks it. `queued_payout` is the run of this kind; the
others are kept beside it, and end in a counterexample as well.

| configuration | module | sentence | what happens |
|---|---|---|---|
| `MCCommissionQueued.cfg` (`queued_payout`) | `MCCommissionClose` | "one message per attendant payout so a mid-batch failure resumes per-attendant" (`messaging/main.tf`) | the worker is built without a database session and looks for the intent in memory: every message ends in the dead letter queue |
| `MCStkOneLedgerLine.cfg` | `MCStkCollection` | "At most one `charge_confirmed` ledger entry per payment" (payments README) | two concurrent success results both count zero lines |
| `MCStkPaidIsFinal.cfg` | `MCStkCollection` | "failure after `paid` is ignored" (payments README) | a failure handler with a stale copy overwrites PAID |
| `MCStkTimedOut.cfg` | `MCStkCollection` | "A reconciliation worker polls Daraja's transaction status query for any record stuck in `pending` past a threshold and resolves it" (ADR-004) | the timeout exception of the sandbox adapter carries no checkout id (`daraja_sandbox.py:63`), so the queued payment is skipped by every drain, even when drains are repeated for ever |
| `MCPosLoser.cfg` | `MCPosSales` | "Lost a race on the same key: return the winner" (`sale_service.py:92`) | the failed flush has ended the transaction, the lookup raises, and the loser is answered 500 |
| `MCPosUnreachable.cfg` | `MCPosSales` | `test_payments_unreachable_leaves_the_sale_awaiting_payment` (`pos/tests/test_payment_flow.py:80`), the POS README and `sales.py:103` | on Postgres the 502 is raised through `session.begin()`, which rolls the sale back to pending; the test runs on the in-memory repository, which keeps it |
| `MCWebUncommitted.cfg` | `MCWebShop` | none; it is what `ensure_shop` takes for granted: once nothing is under way, the till and the attendant of the session exist | an attendant is answered 201 and its commit fails; the rate request, which fails for the missing row, is suppressed, and the session is set with an attendant that does not exist |
| `MCB2CTimedOut.cfg` | `MCB2CPayouts` | "leave pending for ResultURL / retry" (`b2c_service.py`) | a timed-out payout has no conversation id: no result matches it, and a retry replays the stored 202 |
| `MCScheduledClose.cfg` | `MCCommissionSchedule` | "Prefer yesterday EAT close for nightly schedule when period omitted" (`worker/loop.py:72`) | the worker closes the day it is: what settles later that day has no close run |

More disagreements are visible in the models and have no configuration:

- A payment that is settled again has another `settled_at`: by a second success handler that read the row before
  the first one committed (a callback during a query, two callbacks), or by a success after a stale failure. If
  the two are on both sides of midnight, the close runs of both days commission the sale and pay for it,
  although the ledger is to be "idempotent" (commission README): `SaleCommissionedOnce` bounds the lines of a
  sale by the days it settled on.
- The retry of a sale form is a new submission with a new `Idempotency-Key` (`uuid4` in the front end): if the
  first one's answer came too late, POS makes a second sale and prompts the customer again.
- A rate request that fails is suppressed while a shop is set up (`Suppressed`): the shop works, and its
  attendant earns nothing until somebody sets a rate (`RatesAsOf` is empty, so no line is written).
- Postgres takes an owner for the attendant of a rate (`RateReferences`), the in-memory repository
  refuses it; the in-memory upsert of commission overwrites the amount of a submitted intent, Postgres does not.
- A sale whose total is no whole number of shillings is charged the rounded amount, and POS then refuses
  the report (`ApplyPaymentResult`): it is paid, booked, and never commissioned.
- A form that was submitted in one shop may be answered after another tab switched the session to a new
  shop. The redirect then asks POS for the sale with the other tenant, which hides it (`Visible`).
- The local runtime keeps "one ledger line" and "paid is final" (`LocalPayments`), so the tests that run on it
  cannot see the races of the deployed one.
- Every query result other than success settles a payment as failed (`QuerySucceeds`), also one made before
  the customer answered, against "never auto-marked `failed`" (ADR-004).
- A lost "paid" notification stays lost: a PAID payment is already terminal for `ReconcilePayment`, against
  "this is also how a notification lost during the callback recovers" (`reconciliation_service.py:118`).
- `PaymentsUnavailable` rolls the sale back to pending also when payments got the request and only its answer
  was late, against "never left looking unpaid while a prompt is on the customer's phone"
  (`sale_service.py:128`).
- A sale that was answered 201 and never committed (`CommitCreateFails`, `Crash`) leaves its caller with an id
  that POS does not know, and its key free for another sale.
- A payments request that dies or raises leaves its key in progress ("stuck"). Every retry of that payout is
  refused and the intent is "failed" for good, against "resume is a natural re-run" and "rather than being
  marked `failed`" (`docs/threat-model.md`, M11 and M15).
- A close run that read an intent before a payout request submitted it puts it back to "pending"
  (`UpdateIntent`), a refused request makes a submitted one "failed" (`WriteFailed`): steps that
  `_INTENT_TRANSITIONS` lacks or that lose the outcome. The payout id survives (`PayoutIdIsKept`).
- Of two overlapping close runs the one with the smaller total may write last; and a payout requested
  again with a larger amount is replayed by its key. In both cases the attendant gets less than the
  ledger says, never more (`NeverOverpaid`), and no later run pays the rest.
- A status written by a stale request overwrites a terminal status of a sale too (`UpdateSale` does not
  look again), against "Terminal states never transition again" of the POS README.
- A "paid" after a "failed" is refused by POS (`Applies`), a "failed" after a "paid" too: the order
  decides, against "Idempotent and order-independent" (`pos/api/internal.py`).
- An idempotency key whose request raised, was refused or died stays in progress for ever (no action
  takes a key out of "in_progress" but `Complete`), against "already in progress; retry shortly".
- Two concurrent deliveries of one B2C result may both append `payout_disbursed`, as settlement does in
  `MCStkOneLedgerLine.cfg`, against "one `payout_disbursed` ledger line" of the payments README.

## Proofs

`StkCollectionProofs` proves, for any sets of requests, sales and keys, any finite set of handlers and
any number of crashes:

| theorem | states |
|---|---|
| `TypeCorrect` | `TypeOK` is invariant |
| `PaidOnlyIfCharged` | `PaidMeansCharged` |
| `BookedOnlyIfCharged` | `BookedMeansCharged` |
| `SettlementNeverRaises` | `SettlementAlwaysLegal` |
| `SettledForGood` | `SettledStaysSettled` |
| `AtMostOnePromptPerSale` | `OnePromptPerSale` |
| `PromptAlwaysHasRow` | `PromptHasRow` |
| `LedgerLinesAreBounded` | `LedgerLinesBounded` |
| `PaidAlwaysBooked` | `PaidIsBookedAndReported` |
| `AcceptedAlwaysHasPayment` | `AcceptedSaleHasPayment` |
| `SerialRefinesLifecycle` | `RefinesLifecycle`, with one handler: the specification implements `PaymentLifecycle` |

Assumptions: `NoPayment` is not a request, `Handlers` is finite, `MaxCrashes` is a natural number. The
refinement assumes `SerialHandling` besides: all handlers are one, so that callbacks, reconciliations and drains
follow each other, while requests still overlap them and each other. Nothing in the deployed service serialises
them, and without the assumption the theorem is false: `MCStkPaidIsFinal.cfg` and `MCStkOneLedgerLine.cfg` show
a stale failure written over PAID and a second ledger line. With one handler neither happens, whatever requests,
Daraja, the customer and crashes do.

The argument. `PaidMeansCharged` is not inductive: a handler may be about to write "paid" from what
it knows. `SettlementInv` adds what every busy handler knows of its payment (`JobInv`: its row has
provider ids, its copy is past "pending", a success it carries was really charged), that a row
with provider ids is past "pending" (`CheckoutInv`), and that a request that has not yet stored
the ids still owns a pending row (`RequestInv`). The last is why no callback can overtake the
request's own update, and hence why `SettledStaysSettled` holds although updates are blind. The
lemmas follow the next-state relation: a request's step, a handler's step, a handler that starts, and
the outside world. `RowInv` (a prompt lies behind a saved row; saved rows of one sale are one row)
uses the classification of row writes in `RowSteps`. `LedgerInv` bounds the lines
written plus the handlers about to write one. `CarriedInv` says that while nobody died, a PAID payment
without a line or a report has a handler that carries a success of it to that step; `RepliedInv` that a completed key,
and whatever was answered from it, stands for a saved row of its sale. Both `AcceptedSaleHasPayment` and
`RepliedInv` are about callers that use one key for each sale (`KeyIsSale`), as POS does. `SerialInv` is what one
handler alone knows: its copy of the row is the row until it writes, and after a count of zero there is no
line. A crash empties the handler, so the invariant survives it.

`PosSalesProofs` proves, for any sets of creations, keys and handlers and any number of crashes:

| theorem | states |
|---|---|
| `TypeCorrect` | `TypeOK` is invariant |
| `SalePaidOnlyIfCharged` | `PaidMeansCharged` |
| `AtMostOneSalePerKey` | `OneSalePerKey` |
| `EveryAnswerNamesOneSale` | `AnswersNameOneSale` |
| `SerialRefinesLifecycle` | `RefinesLifecycle`, with one handler: the specification implements `SaleLifecycle` |

Assumptions: `NoSale` is not a creation, `MaxCrashes` is a natural number. The money invariant is strengthened
by what a request in flight may write (a "paid" it carries was charged). `CreateInv` follows the creations of a
key: two uncommitted inserts have different keys, no committed sale has theirs, an answer that is not yet
committed names its own request, and a finished one a committed sale; `KnownInv` says that other requests and
payments only ever know committed sales, so nothing but a commit of a creation makes a row. The refinement
assumes one handler (`SerialHandling`), as `pos_serial` does; with two, a request that read a sale before
another one's commit writes over it. `SerialInv` says that the row stays in a status the request may leave until
its commit.

`B2CPayoutsProofs` proves, for any sets of requests, handlers and originator ids and any number of
crashes:

| theorem | states |
|---|---|
| `TypeCorrect` | `TypeOK` is invariant |
| `AtMostOneTransferPerKey` | `OneTransferPerKey` |
| `InsertNeverRaises` | `SaveNeverConflicts` |
| `AnsweredAlwaysHasPayout` | `AnsweredHasPayout` |
| `ResultNeverMeetsPending` | `ResultMeetsSubmitted` |
| `CompletedAlwaysBooked` | `CompletedIsBooked` |
| `PayoutsAreLifecycles` | `RefinesLifecycle`: the specification implements `PayoutLifecycle` |

Assumptions: `NoPayout` is not a request, `MaxCrashes` is a natural number. `KeyInv` says that while a request
runs its key is in progress and no other request of that key runs or has a payout, together with what each
step knows of its row; `ResultInv` what a handler knows of the outcome it is about to write. The
refinement first shows that the mapping is unique (`MappingIsUnique`: one saved row and one transfer per
originator id), then how a written row or transfer shows through it (`PayoutWritten`,
`TransferWritten`), and then has one case per action (`StepRefines`). `OneTransferPerKey` has no run: the
reservation of the key and the unique constraint each suffice, so no single slip breaks it. It is proved.

`CommissionCloseProofs` proves, for any sets of sales, attendants, close runs and payout requests and any
number of process deaths:

| theorem | states |
|---|---|
| `TypeCorrect` | `TypeOK` is invariant |
| `SubmittedIsBacked` | `SubmittedMeansPayout` |
| `PayoutIdKept` | `PayoutIdIsKept` |
| `NotOverpaid` | `NeverOverpaid` |
| `NobodyDropped` | `NoAttendantDropped` |

Assumptions: every sale has a seller, priced sales are sales, `NoAttendant` is not an attendant, `MaxCrashes` is
a natural number. Three invariants carry them. `BackedInv` adds to `SubmittedMeansPayout` that a request counts
as accepted only for an answered key and that whoever writes a row knows that it exists; its induction step
rests on `RowStep`, which says what the commits that touch an intent may do to it. `AmountInv` follows an amount
from the ledger through close run, intent, request and key to Daraja, and `OnceInv` says that before a key is
answered or stuck nothing went out under it, so that its one transfer is the only one. `CoverInv` says that at
each step of a close run everybody it saw commission for is covered or still to come; `CoveredStays` is why what
one run has covered no other run or request can uncover.

`CommissionPeriodsProofs` proves, for any sets of sales, attendants, totals and rates, any calendar and any
number of rates and repeated settlements:

| theorem | states |
|---|---|
| `RateAlwaysInEffect` | `LineRateInEffect` |
| `ChargedAlwaysCommissioned` | `ChargedIsCommissioned` |
| `CommissionedOnce` | `SaleCommissionedOnce` |
| `TypeCorrect` | `TypeOK` |
| `NobodyIsLeftOut` | `NobodyLeftOut` |
| `PayoutsWithinRounding` | `PayoutWithinRounding` |
| `PageAlwaysMatchesLedger` | `PageMatchesLedger` |

Assumptions: every sale has a seller, totals are natural numbers and rates between 0 and 10000 basis points, a
day has at least one tick, the offset and the last tick are natural numbers, and rates are asked for within the
time that is modelled. Lemmas about `Money` come first: `WholeRoundTrip` (whole shillings survive),
`RoundTripLoss` (at most half a shilling is lost) and `AcceptedIsWhole` (a total POS accepts back is whole
shillings). `SettlingsInv` says that the current `settled_at` is one of the settlements a payment had, and that
all of them are past. `LedgerInv` says of every line what its sale and payment look like today, and that it
stands for one of those settlements, on the day of its period, and is priced by a rate in effect at it
(`Priced`). Two lines of one sale and one period are the same line, and each period is the day of a settlement:
so the lines of a sale map one to one into its settlement days, which is `SaleCommissionedOnce`. `NewLine` is
about the lines a close run adds, `LinesKept` says why the other steps disturb no line, `RateStep` why a rate
set later does not.

`NobodyLeftOut` looks back at the last run of a day; `CloseInv` adds what makes that inductive: a close run is
never ahead of the clock, a paid row has its time, POS and payments hold one amount, and whoever has a rate in
effect at a time has a last one (`OneMoreRate`: adding a rate to a set keeps its latest, so no induction over
the set is needed). `CloseTakesDue` is the run of the day itself; every other step makes nothing due before that
run (`RowsOnly`, `DueKept`).

`PayoutWithinRounding` and `PageMatchesLedger` are about sums. `FiniteSums` proves that the fold behind
`MapThenSumSet` exists and is unique, and from that the laws a ledger needs: a sum of amounts is an amount
(`SumType`), any element may be taken out first (`SumRemove`), more lines never make less (`SumMonotone`), and
sets that correspond one to one have one sum (`SumCorresponds`). The library's induction theorems take an
operator, so each law is proved by a smallest counterexample among the subsets of a finite set (`Smallest`, from
well-foundedness of the strict subset ordering). `AmountsInv` supplies what these laws ask for: finitely many
sales and rates, and lines computed by the formula. `PayoutInv` then follows each payout (`Follows`): none
exists while nothing is owed, its amount is what is owed until it is submitted and at most that afterwards, and
what payments is asked for is its rounding; `SubmittedAtOnce` says that a payout is only ever submitted for the
amount that is owed at that moment, which gives the lower bound of `PayoutWithinRounding`. For the page, one
rate of an attendant prices both sides (`OneRate`), each line is of a sale the page shows (`PageHasLine`), and
`SumCorresponds` and `SumMonotone` give the equality and the bound.

`WebShopProofs` proves, for any sets of submissions and any number of expired cookies:

| theorem | states |
|---|---|
| `TypeCorrect` | `TypeOK` |
| `RowsAlwaysInTenant` | `RowsStayInTenant` |
| `AnswersAlwaysTrue` | `AnswersAreTrue` |
| `RefusalsNeedARace` | `RefusedOnlyAfterRace` |

Assumption: `None` names no row and no value; the bounds on setups and faults are not used. `TenantInv` adds to
`RowsStayInTenant` that a user's tenant exists. `RowsInv` says that the rows a submission made are those of its
shop and that the insert of an open transaction still passes its foreign keys when it commits; `HandlerInv` what
a handler relies on between two calls, and `SessionInv` that the shop of the session is one that a setup made. A
tenant is known to exist as soon as the till was answered, because that insert asked for it; a till or an
attendant that was answered is a row, or its transaction is open or lost (`TillMade`, `AttendantMade`). Rows are
only ever added, and a transaction leaves `uncommitted` for its row or for `lost` (`Grown`), so what a form has
been told stays true (`FormKept`, `SessionKept`). `TokenInv` bounds the tokens by the number minted: with one
token minted and no cookie expired, every open page has the token of the cookie.

`LocalPaymentsProofs` proves, for any sets of payments, keys and handlers:

| theorem | states |
|---|---|
| `TypeCorrect` | `TypeOK` |
| `OutcomeAlwaysArrives` | `OutcomeArrives` |
| `LocalRefinesLifecycle` | `RefinesLifecycle`: the specification implements `PaymentLifecycle` |

Assumption: `None` names nothing. `LocalInv` says of each handler what it may find where it is (`At`: only the
handler that has the loop is between two of its steps other than the call to POS) and of each payment
how row, scenario, callbacks, ledger and outbox agree (`Agree`). It is the loop that makes `Agree` inductive:
between the update to PAID and the ledger line nobody else runs.

Some theorems state a property that no run lists. `BookedMeansCharged`, `OneSalePerKey`,
`OneTransferPerKey`, `SaveNeverConflicts` and `ResultMeetsSubmitted` are proved, and so is `TypeOK` of
`CommissionPeriods`, `WebShop` and `LocalPayments`.

Every safety property of the passing runs, action properties and refinements included, is a theorem. Model-checked
only are the liveness properties `LateSuccessWins`, `EveryRequestEnds`, `ResultIsApplied` and
`AnsweredIsRecorded`: liveness under fairness and `ENABLED` are outside what the prover does. So are induction
theorems that take an operator, and `RECURSIVE` operators; the models have none of the latter.

## Plan

Done:

1. `StkCollection`, `PaymentLifecycle` and the proofs.
2. `PosSales`, `SaleLifecycle` and the proofs.
3. `B2CPayouts`, `PayoutLifecycle` and the proof of the refinement.
4. `CommissionClose` with the payout queue, and its proofs.
5. `Money`, `CommissionPeriods`, `CommissionPages` and the proofs.
6. `PosDirectory`, `WebShop` and the proofs.
7. `LocalPayments` and the proof that it implements `PaymentLifecycle`.
8. The serial refinements of `PaymentLifecycle` and `SaleLifecycle` as theorems, and the sums of `CommissionPeriods`
   and `CommissionPages`.
9. Answers before commits in `PosSales` and `WebShop`, and payments that are settled again in `CommissionPeriods`.

Left, the most valuable first:

1. `Collect`: `PosSales` composed with `StkCollection`, for the agreement of sale and payment.
2. `Disbursement`: `CommissionClose` composed with `B2CPayouts`, and an abstract specification of a period
   (each attendant paid at most once, at most what is owed) that it implements.
3. The OAuth token cache: a token judged fresh and used after it expired (`_shared/mpesa/oauth.py:31`).

## Not modelled

- The OAuth token cache, and the B2C scenarios of the fake adapter.
- The in-memory repositories of POS and commission and the in-memory queue: stand-ins for the Postgres
  repositories and SQS, which the other modules follow.
- The read-only pages of the front end but for the commission page and the payout list, the paging of the
  sales list, and the static assets: they change no state.
- Telemetry and health checks: no state the services act on. Terraform, build and delivery: no program logic.
