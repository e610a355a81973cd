---------------------------- MODULE StkCollection ----------------------------
(***************************************************************************)
(* Collecting the money of a sale by STK push: the payments service's      *)
(* initiation endpoint, Daraja callback, STK-query reconciliation and      *)
(* settlement, as deployed on Postgres (READ COMMITTED, one session per    *)
(* request, a commit after every repository call).                         *)
(*                                                                         *)
(* Every action is one database read or commit, or one call to Daraja or   *)
(* POS: between two of them any other request, callback or drain may run.  *)
(* A handler works on the copy of the row it read (`seen'); its update     *)
(* writes the changed columns whatever the row holds by then.              *)
(*                                                                         *)
(* A payment is named by the initiation request that created its row.      *)
(***************************************************************************)
EXTENDS PaymentState, Naturals, FiniteSets

CONSTANTS
  Requests,    \* POST /payments/stk calls; each one runs at most once
  Handlers,    \* concurrent callback and reconcile handlers of the service
  Sales,       \* sales of one tenant
  Keys,        \* idempotency keys of that tenant
  NoPayment,   \* the id an idle handler carries
  MaxCrashes   \* bound: how often the service process may die

ASSUME NoPaymentAssumption == NoPayment \notin Requests
ASSUME HandlersAssumption == IsFiniteSet(Handlers)
ASSUME MaxCrashesAssumption == MaxCrashes \in Nat

VARIABLES
  \* initiation requests
  req,        \* what each request carries: sale, key, whether its amount is valid
  pc,         \* the next step of each request
  ids,        \* whether the request knows the provider's checkout id
  \* the payments database
  payment,    \* the state column of each payment row
  checkout,   \* whether the row stores the checkout id
  idem,       \* idempotency_keys rows
  callbacks,  \* payments whose (merchant, checkout) pair is in payment_callbacks
  ledger,     \* charge_confirmed lines of each payment
  \* process memory
  outbox,     \* unpublished reconciliation jobs
  job,        \* what each handler is doing
  \* the world outside
  prompt,     \* the STK prompt of each payment, as Daraja knows it
  reported,   \* results POS received for each payment
  unreached,  \* payments with a result that did not reach POS
  crashes     \* how often the process died

requestVars  == <<req, pc, ids>>
posVars      == <<reported, unreached>>
databaseVars == <<payment, checkout, idem, callbacks, ledger>>
vars == <<req, pc, ids, payment, checkout, idem, callbacks, ledger, outbox, job,
          prompt, reported, unreached, crashes>>

-------------------------------------------------------------------------------
RequestInput == [sale : Sales, key : Keys, valid : BOOLEAN]

RunningPC == {"try_begin", "lookup_sale", "lookup_key", "save", "push", "sent",
              "timed_out", "enqueue", "complete"}

\* A request ends with a 2xx reply, a 409 conflict, or an exception; a crash
\* takes the running ones with it.
EndPC == {"replied", "conflict", "error", "killed"}

Prompts == {"none", "offered", "failed", "paid", "paid_late"}

JobPC == {"idle", "insert", "settle", "refresh", "count", "append", "notify",
          "next", "query", "mark"}

JobRecord ==
  [pc    : JobPC,
   kind  : {"callback", "reconcile", "drain"},
   id    : Requests \union {NoPayment},
   ok    : BOOLEAN,     \* the provider's result is success
   match : BOOLEAN,     \* its amount is absent or equals the payment's
   seen  : RowStates,   \* the state in the handler's copy of the row
   todo  : SUBSET Requests]

Job == {j \in JobRecord : j.pc \in {"idle", "next"} \/ j.id \in Requests}

IdleJob == [pc |-> "idle", kind |-> "callback", id |-> NoPayment, ok |-> FALSE,
            match |-> FALSE, seen |-> "absent", todo |-> {}]

TypeOK ==
  /\ req \in [Requests -> RequestInput]
  /\ pc \in [Requests -> {"idle"} \union RunningPC \union EndPC]
  /\ ids \in [Requests -> BOOLEAN]
  /\ payment \in [Requests -> RowStates]
  /\ checkout \in [Requests -> BOOLEAN]
  /\ idem \in [Keys -> {"free", "in_progress", "completed"}]
  /\ callbacks \subseteq Requests
  /\ ledger \in [Requests -> Nat]
  /\ outbox \subseteq Requests
  /\ job \in [Handlers -> Job]
  /\ prompt \in [Requests -> Prompts]
  /\ reported \in [Requests -> SUBSET {"paid", "failed"}]
  /\ unreached \subseteq Requests
  /\ crashes \in 0..MaxCrashes

Init ==
  /\ req \in [Requests -> RequestInput]
  /\ pc = [r \in Requests |-> "idle"]
  /\ ids = [r \in Requests |-> FALSE]
  /\ payment = [p \in Requests |-> "absent"]
  /\ checkout = [p \in Requests |-> FALSE]
  /\ idem = [k \in Keys |-> "free"]
  /\ callbacks = {}
  /\ ledger = [p \in Requests |-> 0]
  /\ outbox = {}
  /\ job = [h \in Handlers |-> IdleJob]
  /\ prompt = [p \in Requests |-> "none"]
  /\ reported = [p \in Requests |-> {}]
  /\ unreached = {}
  /\ crashes = 0

Saved(p) == payment[p] # "absent"
Charged(p) == prompt[p] \in {"paid", "paid_late"}
Declined(p) == prompt[p] \in {"failed", "paid_late"}

-------------------------------------------------------------------------------
(* POST /payments/stk *)

Goto(r, step) == pc' = [pc EXCEPT ![r] = step]

\* Mutant: a key in progress replays the reply it does not have yet.
ReadKeyReplaysAnyRecord(r) ==
  Goto(r, IF idem[req[r].key] = "free" THEN "try_begin" ELSE "replied")

\* The reservation is read first: a completed key replays its stored reply, a
\* key in progress is a conflict.
ReadKey(r) ==
  Goto(r, CASE idem[req[r].key] = "completed"   -> "replied"
            [] idem[req[r].key] = "in_progress" -> "conflict"
            [] OTHER                            -> "try_begin")

Begin(r) ==
  /\ pc[r] = "idle"
  /\ ReadKey(r)
  /\ UNCHANGED <<req, ids, databaseVars, outbox, job, prompt, posVars, crashes>>

\* INSERT ... ON CONFLICT DO NOTHING; the loser of the race reads again.
TryBegin(r) ==
  /\ pc[r] = "try_begin"
  /\ IF idem[req[r].key] = "free"
       THEN /\ idem' = [idem EXCEPT ![req[r].key] = "in_progress"]
            /\ Goto(r, "lookup_sale")
       ELSE /\ ReadKey(r)
            /\ UNCHANGED idem
  /\ UNCHANGED <<req, ids, payment, checkout, callbacks, ledger, outbox, job,
                 prompt, posVars, crashes>>

\* An amount that rounds to no whole shilling is refused; the key stays reserved.
LookupSale(r) ==
  /\ pc[r] = "lookup_sale"
  /\ Goto(r, IF ~req[r].valid THEN "error"
             ELSE IF \E p \in Requests : Saved(p) /\ req[p].sale = req[r].sale
               THEN "complete" ELSE "lookup_key")
  /\ UNCHANGED <<req, ids, databaseVars, outbox, job, prompt, posVars, crashes>>

\* Mutant: the push goes out before the row is saved.
LookupKeyPushesFirst(r) ==
  /\ pc[r] = "lookup_key"
  /\ Goto(r, IF \E p \in Requests : Saved(p) /\ req[p].key = req[r].key
               THEN "complete" ELSE "push")
  /\ UNCHANGED <<req, ids, databaseVars, outbox, job, prompt, posVars, crashes>>

LookupKey(r) ==
  /\ pc[r] = "lookup_key"
  /\ Goto(r, IF \E p \in Requests : Saved(p) /\ req[p].key = req[r].key
               THEN "complete" ELSE "save")
  /\ UNCHANGED <<req, ids, databaseVars, outbox, job, prompt, posVars, crashes>>

\* Mutant: the constraint on the sale is missing.
UniqueKeyOnly(r) == \A p \in Requests : Saved(p) => req[p].key # req[r].key

\* uq_payments_tenant_sale and uq_payments_tenant_idempotency
Unique(r) ==
  \A p \in Requests :
    Saved(p) => req[p].sale # req[r].sale /\ req[p].key # req[r].key

\* The insert violates a unique constraint when another request saved a row
\* after both lookups: the IntegrityError is not handled.
Save(r) ==
  /\ pc[r] = "save"
  /\ IF Unique(r)
       THEN /\ payment' = [payment EXCEPT ![r] = "pending"]
            /\ Goto(r, "push")
       ELSE /\ Goto(r, "error")
            /\ UNCHANGED payment
  /\ UNCHANGED <<req, ids, checkout, idem, callbacks, ledger, outbox, job,
                 prompt, posVars, crashes>>

\* What Daraja did (the prompt is on the phone or not) and how its adapter reports it:
\*   sent       a reply with ids; or a 4xx body without ids, taken for a reply
\*   timed_out  MpesaTimeoutError, whether or not the prompt is on the phone: the
\*              ids were in the reply that did not come
\*   error      MpesaProviderError, MpesaAuthError, a refused connection: raised
InitiateStkPush(r) ==
  /\ pc[r] = "push"
  /\ \E answer \in {"sent", "timed_out", "error"}, shown \in {"offered", "none"} :
       /\ Goto(r, answer)
       /\ prompt' = [prompt EXCEPT ![r] = shown]
       /\ ids' = [ids EXCEPT ![r] = (answer = "sent" /\ shown = "offered")]
  /\ UNCHANGED <<req, databaseVars, outbox, job, posVars, crashes>>

\* Mutant: the request may commit its row a second time.
UpdateStkSentAgain(r) ==
  /\ pc[r] = "sent"
  /\ payment' = [payment EXCEPT ![r] = "stk_sent"]
  /\ checkout' = [checkout EXCEPT ![r] = ids[r]]
  /\ Goto(r, "complete") \/ UNCHANGED pc
  /\ UNCHANGED <<req, ids, idem, callbacks, ledger, outbox, job, prompt, posVars,
                 crashes>>

\* State and ids are one commit: until then no callback finds the row.
UpdateStkSent(r) ==
  /\ pc[r] = "sent"
  /\ payment' = [payment EXCEPT ![r] = "stk_sent"]
  /\ checkout' = [checkout EXCEPT ![r] = ids[r]]
  /\ Goto(r, "complete")
  /\ UNCHANGED <<req, ids, idem, callbacks, ledger, outbox, job, prompt, posVars,
                 crashes>>

\* Timeout # decline.
UpdatePendingReconciliation(r) ==
  /\ pc[r] = "timed_out"
  /\ payment' = [payment EXCEPT ![r] = "pending_reconciliation"]
  /\ checkout' = [checkout EXCEPT ![r] = ids[r]]
  /\ Goto(r, "enqueue")
  /\ UNCHANGED <<req, ids, idem, callbacks, ledger, outbox, job, prompt, posVars,
                 crashes>>

\* Mutant: the outbox message carries the idempotency key, not the payment.
EnqueueByKey(r) ==
  /\ pc[r] = "enqueue"
  /\ outbox' = outbox \union {req[r].key}
  /\ Goto(r, "complete")
  /\ UNCHANGED <<req, ids, databaseVars, job, prompt, posVars, crashes>>

EnqueueReconciliation(r) ==
  /\ pc[r] = "enqueue"
  /\ outbox' = outbox \union {r}
  /\ Goto(r, "complete")
  /\ UNCHANGED <<req, ids, databaseVars, job, prompt, posVars, crashes>>

Complete(r) ==
  /\ pc[r] = "complete"
  /\ idem' = [idem EXCEPT ![req[r].key] = "completed"]
  /\ Goto(r, "replied")
  /\ UNCHANGED <<req, ids, payment, checkout, callbacks, ledger, outbox, job,
                 prompt, posVars, crashes>>

RequestStep(r) ==
  \/ Begin(r) \/ TryBegin(r) \/ LookupSale(r) \/ LookupKey(r) \/ Save(r)
  \/ InitiateStkPush(r) \/ UpdateStkSent(r) \/ UpdatePendingReconciliation(r)
  \/ EnqueueReconciliation(r) \/ Complete(r)

-------------------------------------------------------------------------------
(* POST /callbacks/mpesa/{secret} *)

SetJob(h, j) == job' = [job EXCEPT ![h] = j]
JobGoto(h, step) == SetJob(h, [job[h] EXCEPT !.pc = step])

\* The row is found by the checkout id of the callback.  Daraja sends a failure
\* for a prompt that failed and a success for a paid one, in any order and any
\* number of times.  A callback whose checkout id no row stores is answered
\* 200 and forgotten: no state changes.
ReceiveCallback(h, p) ==
  /\ job[h].pc = "idle"
  /\ checkout[p]
  /\ \E ok, match \in BOOLEAN :
       /\ IF ok THEN Charged(p) ELSE Declined(p)
       /\ SetJob(h, [IdleJob EXCEPT !.pc = "insert", !.id = p, !.ok = ok,
                                    !.match = match, !.seen = payment[p]])
  /\ UNCHANGED <<requestVars, databaseVars, outbox, prompt, posVars, crashes>>

\* Mutant: every repeated callback is dropped.
FirstCallbackOnly(j) == j.id \notin callbacks

\* A repeated callback is dropped unless it is a success for a payment that was
\* not paid when the row was read.
Processed(j) == j.id \notin callbacks \/ (j.ok /\ j.seen # "paid")

TryInsertCallback(h) ==
  LET j == job[h] IN
  /\ j.pc = "insert"
  /\ callbacks' = callbacks \union {j.id}
  /\ IF Processed(j) THEN JobGoto(h, "settle") ELSE SetJob(h, IdleJob)
  /\ UNCHANGED <<requestVars, payment, checkout, idem, ledger, outbox, prompt,
                 posVars, crashes>>

-------------------------------------------------------------------------------
(* settle_success and settle_failure *)

Target(j) == IF j.ok THEN "paid" ELSE "failed"

\* Mutant: a success is applied to a paid payment too.
SuccessNeverIgnored(j) == IF j.ok THEN ~j.match ELSE j.seen \in PaymentTerminal

\* The result changes nothing: already paid, already failed, or an amount that
\* is not the payment's.
Ignored(j) ==
  IF j.ok THEN j.seen = "paid" \/ ~j.match ELSE j.seen \in PaymentTerminal

SettleIgnored(h) ==
  /\ job[h].pc = "settle"
  /\ Ignored(job[h])
  /\ JobGoto(h, "notify")
  /\ UNCHANGED <<requestVars, databaseVars, outbox, prompt, posVars, crashes>>

SettleUpdate(h) ==
  LET j == job[h] IN
  /\ j.pc = "settle"
  /\ ~Ignored(j)
  /\ Target(j) \in PaymentTransitions(j.seen)
  /\ payment' = [payment EXCEPT ![j.id] = Target(j)]
  /\ JobGoto(h, "refresh")
  /\ UNCHANGED <<requestVars, checkout, idem, callbacks, ledger, outbox, prompt,
                 posVars, crashes>>

\* Mutant: a failure is booked like a success.
RefreshBooksFailures(h) ==
  /\ job[h].pc = "refresh"
  /\ SetJob(h, [job[h] EXCEPT !.seen = payment[job[h].id], !.pc = "count"])
  /\ UNCHANGED <<requestVars, databaseVars, outbox, prompt, posVars, crashes>>

\* The session reads the row again after its commit.
Refresh(h) ==
  LET j == job[h] IN
  /\ j.pc = "refresh"
  /\ SetJob(h, [j EXCEPT !.seen = payment[j.id],
                         !.pc = IF j.ok THEN "count" ELSE "notify"])
  /\ UNCHANGED <<requestVars, databaseVars, outbox, prompt, posVars, crashes>>

\* Mutant: the ledger is not consulted.
AlwaysAppend(h) ==
  /\ job[h].pc = "count"
  /\ JobGoto(h, "append")
  /\ UNCHANGED <<requestVars, databaseVars, outbox, prompt, posVars, crashes>>

\* Mutant: a payment that has its line is done, POS included.
BookedMeansDone(h) ==
  /\ job[h].pc = "count"
  /\ IF ledger[job[h].id] = 0 THEN JobGoto(h, "append") ELSE SetJob(h, IdleJob)
  /\ UNCHANGED <<requestVars, databaseVars, outbox, prompt, posVars, crashes>>

CountLedger(h) ==
  /\ job[h].pc = "count"
  /\ JobGoto(h, IF ledger[job[h].id] = 0 THEN "append" ELSE "notify")
  /\ UNCHANGED <<requestVars, databaseVars, outbox, prompt, posVars, crashes>>

AppendLedger(h) ==
  /\ job[h].pc = "append"
  /\ ledger' = [ledger EXCEPT ![job[h].id] = @ + 1]
  /\ JobGoto(h, "notify")
  /\ UNCHANGED <<requestVars, payment, checkout, idem, callbacks, outbox, prompt,
                 posVars, crashes>>

\* POS is told "paid" or "failed": anything that is not paid counts as failed.
\* An error of the call, or a refusal of POS, is swallowed.
NotifyPos(h) ==
  LET j == job[h] IN
  /\ j.pc = "notify"
  /\ \/ /\ reported' = [reported EXCEPT ![j.id] =
                          @ \union {IF j.seen = "paid" THEN "paid" ELSE "failed"}]
        /\ UNCHANGED unreached
     \/ /\ unreached' = unreached \union {j.id}
        /\ UNCHANGED reported
  /\ IF j.kind = "drain" THEN JobGoto(h, "mark") ELSE SetJob(h, IdleJob)
  /\ UNCHANGED <<requestVars, databaseVars, outbox, prompt, crashes>>

-------------------------------------------------------------------------------
(* POST /payments/reconcile/{id} and POST /payments/reconcile/outbox *)

\* A terminal payment is not queried, nor one without a checkout id.
Queryable(p) == payment[p] \in PaymentStates \ PaymentTerminal /\ checkout[p]

ReconcilePayment(h, p) ==
  /\ job[h].pc = "idle"
  /\ Queryable(p)
  /\ SetJob(h, [IdleJob EXCEPT !.pc = "query", !.kind = "reconcile", !.id = p,
                               !.seen = payment[p]])
  /\ UNCHANGED <<requestVars, databaseVars, outbox, prompt, posVars, crashes>>

ListUnpublished(h) ==
  /\ job[h].pc = "idle"
  /\ outbox # {}
  /\ SetJob(h, [IdleJob EXCEPT !.pc = "next", !.kind = "drain", !.todo = outbox])
  /\ UNCHANGED <<requestVars, databaseVars, outbox, prompt, posVars, crashes>>

\* The drain takes its next message and loads the payment.
NextMessage(h) ==
  LET j == job[h] IN
  /\ j.pc = "next"
  /\ \E p \in j.todo :
       SetJob(h, [j EXCEPT !.id = p, !.todo = j.todo \ {p}, !.seen = payment[p],
                           !.pc = IF Queryable(p) THEN "query" ELSE "mark"])
  /\ UNCHANGED <<requestVars, databaseVars, outbox, prompt, posVars, crashes>>

DrainDone(h) ==
  /\ job[h].pc = "next"
  /\ job[h].todo = {}
  /\ SetJob(h, IdleJob)
  /\ UNCHANGED <<requestVars, databaseVars, outbox, prompt, posVars, crashes>>

\* Mutant: what is not known to be declined counts as paid.
NotDeclined(p) == ~Declined(p)

\* Only a charged prompt has result code "0".  The reply for a prompt the customer
\* has not answered carries another code, or none, and counts as a failure.
QuerySucceeds(p) == Charged(p)

\* STK Query.  The reply has no amount to compare, or the amount that was pushed.
QueryTransactionStatus(h) ==
  LET j == job[h] IN
  /\ j.pc = "query"
  /\ SetJob(h, [j EXCEPT !.ok = QuerySucceeds(j.id), !.match = TRUE, !.pc = "settle"])
  /\ UNCHANGED <<requestVars, databaseVars, outbox, prompt, posVars, crashes>>

\* The query times out or fails: the request ends, a drain leaves its messages
\* unpublished.
QueryRaises(h) ==
  /\ job[h].pc = "query"
  /\ SetJob(h, IdleJob)
  /\ UNCHANGED <<requestVars, databaseVars, outbox, prompt, posVars, crashes>>

MarkPublished(h) ==
  LET j == job[h] IN
  /\ j.pc = "mark"
  /\ outbox' = outbox \ {j.id}
  /\ SetJob(h, [IdleJob EXCEPT !.pc = "next", !.kind = "drain", !.todo = j.todo])
  /\ UNCHANGED <<requestVars, databaseVars, prompt, posVars, crashes>>

HandlerStep(h) ==
  \/ TryInsertCallback(h) \/ SettleIgnored(h) \/ SettleUpdate(h) \/ Refresh(h)
  \/ CountLedger(h) \/ AppendLedger(h) \/ NotifyPos(h)
  \/ NextMessage(h) \/ DrainDone(h) \/ QueryTransactionStatus(h) \/ MarkPublished(h)

-------------------------------------------------------------------------------
(* Daraja and the customer; process death *)

CustomerPays(p) ==
  /\ \/ prompt[p] = "offered" /\ prompt' = [prompt EXCEPT ![p] = "paid"]
     \/ prompt[p] = "failed"  /\ prompt' = [prompt EXCEPT ![p] = "paid_late"]
  /\ UNCHANGED <<requestVars, databaseVars, outbox, job, posVars, crashes>>

PromptFails(p) ==
  /\ prompt[p] = "offered"
  /\ prompt' = [prompt EXCEPT ![p] = "failed"]
  /\ UNCHANGED <<requestVars, databaseVars, outbox, job, posVars, crashes>>

\* The process dies: requests and handlers in flight are gone, and so is the
\* outbox, which lives in memory.
Crash ==
  /\ crashes < MaxCrashes
  /\ crashes' = crashes + 1
  /\ pc' = [r \in Requests |-> IF pc[r] \in RunningPC THEN "killed" ELSE pc[r]]
  /\ job' = [h \in Handlers |-> IdleJob]
  /\ outbox' = {}
  /\ UNCHANGED <<req, ids, databaseVars, prompt, posVars>>

Next ==
  \/ \E r \in Requests : RequestStep(r) \/ CustomerPays(r) \/ PromptFails(r)
  \/ \E h \in Handlers : HandlerStep(h) \/ ListUnpublished(h) \/ QueryRaises(h)
  \/ \E h \in Handlers, p \in Requests : ReceiveCallback(h, p) \/ ReconcilePayment(h, p)
  \/ Crash

Spec == Init /\ [][Next]_vars

\* Daraja delivers the success callback of p with the amount that was pushed.
ReceivePaidCallback(h, p) ==
  ReceiveCallback(h, p) /\ job'[h].ok /\ job'[h].match

\* Requests and handlers run on; Daraja repeats a success callback.
Fairness ==
  /\ \A r \in Requests : WF_vars(RequestStep(r))
  /\ \A h \in Handlers : WF_vars(HandlerStep(h))
  /\ \A p \in Requests : SF_vars(\E h \in Handlers : ReceivePaidCallback(h, p))

FairSpec == Spec /\ Fairness

\* And somebody drains the outbox again and again, which nothing in the repository does.
DrainedSpec == FairSpec /\ SF_vars(\E h \in Handlers : ListUnpublished(h))

-------------------------------------------------------------------------------
(* Safety, whatever the interleaving of requests, callbacks, reconciliations   *)
(* and process deaths                                                          *)

\* The customer of a sale is never prompted twice: of all the initiation
\* requests for one sale (retries, double clicks, other keys) at most one ever
\* reaches Daraja, although both lookups of StkService.initiate may miss the row
\* another request is about to save.
OnePromptPerSale ==
  \A r, s \in Requests :
    req[r].sale = req[s].sale /\ prompt[r] # "none" /\ prompt[s] # "none" => r = s

\* A prompt on a phone always has its payment row: the row is committed before
\* the push, so a process death between the two loses no charge without trace.
PromptHasRow == \A r \in Requests : prompt[r] # "none" => Saved(r)

\* A payment is PAID only if Daraja took the customer's money: no stale copy,
\* duplicate, late or reordered result and no query settles it otherwise.
PaidMeansCharged == \A p \in Requests : payment[p] = "paid" => Charged(p)

\* A charge_confirmed ledger line is written, and POS is told "paid", only for
\* money Daraja took.
BookedMeansCharged ==
  \A p \in Requests : ledger[p] > 0 \/ "paid" \in reported[p] => Charged(p)

\* settle_success and settle_failure never trip assert_payment_transition: the
\* state a handler read always allows the result it is about to apply.
SettlementAlwaysLegal ==
  \A h \in Handlers :
    job[h].pc = "settle" /\ ~Ignored(job[h]) => Target(job[h]) \in PaymentTransitions(job[h].seen)

\* A settled payment is never unsettled: the initiation request's own late
\* update (stk_sent, pending_reconciliation) cannot overwrite a result.
SettledStaysSettled ==
  [][\A p \in Requests :
       payment[p] \in PaymentTerminal => payment'[p] \in PaymentTerminal]_payment

\* Some handler is past its update of p and not yet done with the ledger or POS.
Settling(p) ==
  \E h \in Handlers :
    job[h].id = p /\ job[h].pc \in {"refresh", "count", "append", "notify"}

\* A PAID payment whose handlers are done has its ledger line, and POS has been
\* told "paid" unless a notification got lost, as long as the process did not
\* die in between: whichever of the racing handlers wrote last also reads the
\* row and the ledger and reports.
PaidIsBookedAndReported ==
  crashes = 0 =>
    \A p \in Requests :
      payment[p] = "paid" /\ ~Settling(p) =>
        ledger[p] > 0 /\ (p \in unreached \/ "paid" \in reported[p])

\* POS derives the key from the sale.  Then every initiation that was answered
\* 2xx, replayed ones included, has a payment row of its own sale.
AcceptedSaleHasPayment ==
  (\A r, s \in Requests : req[r].key = req[s].key <=> req[r].sale = req[s].sale) =>
    \A r \in Requests :
      pc[r] = "replied" => \E p \in Requests : Saved(p) /\ req[p].sale = req[r].sale

\* The race of the count-then-append in settle_success is bounded: a payment has
\* at most one ledger line for each handler that runs concurrently.
LedgerLinesBounded ==
  \A p \in Requests : ledger[p] <= Cardinality(Handlers)

-------------------------------------------------------------------------------
(* Serial handling: with one handler the service keeps its abstract promise     *)

Lifecycle == INSTANCE PaymentLifecycle
               WITH Payments <- Requests, state <- payment, lines <- ledger

\* When callbacks and reconciliations of the service are handled one at a time,
\* rows move along the transition table only, PAID is final, and each paid
\* payment is booked at most once.
RefinesLifecycle == Lifecycle!Spec

-------------------------------------------------------------------------------
(* Liveness, under FairSpec *)

\* A success callback wins in the end over any failure, duplicate or query result
\* processed before it, and over a process death in its midst.
LateSuccessWins ==
  \A p \in Requests : checkout[p] /\ Charged(p) ~> payment[p] = "paid"

-------------------------------------------------------------------------------
(* What documentation says and the code does not keep *)

\* services/payments/README.md: at most one charge_confirmed ledger entry per
\* payment.
OneLedgerLine == \A p \in Requests : ledger[p] <= 1

\* docs/adr/ADR-004: the reconciliation worker resolves a payment that timed out.  So one
\* that is queued for it is resolved; under DrainedSpec.
TimedOutIsResolved ==
  \A p \in Requests : p \in outbox ~> payment[p] \in PaymentTerminal

\* services/payments/README.md: a failure after paid is ignored.
PaidIsFinal ==
  [][\A p \in Requests : payment[p] = "paid" => payment'[p] = "paid"]_payment
===============================================================================
