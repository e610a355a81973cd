----------------------------- MODULE LocalPayments -----------------------------
(***************************************************************************)
(* Payments as it runs locally and in CI: repositories in memory, the fake *)
(* M-Pesa adapter, one event loop.  No repository call gives up the loop   *)
(* and neither does the fake, so a handler runs alone until it calls POS   *)
(* or returns; the races that StkCollection finds between statements of    *)
(* two handlers cannot happen here.                                        *)
(*                                                                         *)
(* A payment is named by its sale.  Its fake record has a scenario, which  *)
(* fixes the callbacks the fake queues and the answer to an STK query.     *)
(***************************************************************************)
EXTENDS PaymentState, Naturals, Sequences

CONSTANTS
  Payments,   \* the sales, one payment each
  Keys,       \* Idempotency-Keys
  Handlers,   \* requests that are handled concurrently
  None        \* no key, no payment, no handler

VARIABLES
  row,         \* the payment rows
  keys,        \* the idempotency records
  stub,        \* the scenario of each fake record, None while there is none
  delivered,   \* how many callbacks of the fake were delivered once
  received,    \* payments with a row in the callback repository
  lines,       \* charge_confirmed lines of each payment
  outbox,      \* the reconciliation message of each payment
  handler,     \* what each handler is at
  loop         \* the handler that runs, None while the loop is free

vars == <<row, keys, stub, delivered, received, lines, outbox, handler, loop>>

-------------------------------------------------------------------------------
(* The fake M-Pesa adapter *)

Scenarios ==
  {"immediate_success", "immediate_failure", "duplicate_callback",
   "out_of_order_callback", "delayed_timeout"}

\* The callbacks a push queues.
Callbacks ==
  [immediate_success     |-> <<"success">>,
   immediate_failure     |-> <<"failure">>,
   duplicate_callback    |-> <<"success", "success">>,
   out_of_order_callback |-> <<"failure", "success">>,
   delayed_timeout       |-> <<>>]

\* The answer to an STK query.
QueryResult(p) == IF stub[p] = "immediate_failure" THEN "failure" ELSE "success"

\* None stands for nothing.
ASSUME NoneAssumption == None \notin Payments \union Keys \union Handlers \union Scenarios

-------------------------------------------------------------------------------

Row == [state : RowStates, key : Keys \union {None}]

Idle == [pc |-> "idle", payment |-> None, drain |-> FALSE, todo |-> {}]

\* drain: whether a drain runs the reconciliation; todo: the messages it listed.
Handler ==
  [pc : {"idle", "push", "query", "book", "notify", "mark"},
   payment : Payments \union {None}, drain : BOOLEAN, todo : SUBSET Payments]

TypeOK ==
  /\ row \in [Payments -> Row]
  /\ keys \in [Keys -> {"none", "in_progress", "completed"}]
  /\ stub \in [Payments -> Scenarios \union {None}]
  /\ delivered \in [Payments -> 0..2]
  /\ received \in SUBSET Payments
  /\ lines \in [Payments -> Nat]
  /\ outbox \in [Payments -> {"none", "unpublished", "published"}]
  /\ handler \in [Handlers -> Handler]
  /\ loop \in Handlers \union {None}

Init ==
  /\ row = [p \in Payments |-> [state |-> "absent", key |-> None]]
  /\ keys = [k \in Keys |-> "none"]
  /\ stub = [p \in Payments |-> None]
  /\ delivered = [p \in Payments |-> 0]
  /\ received = {}
  /\ lines = [p \in Payments |-> 0]
  /\ outbox = [p \in Payments |-> "none"]
  /\ handler = [h \in Handlers |-> Idle]
  /\ loop = None

\* A new request gets the loop.
Starts(h) == loop = None /\ handler[h] = Idle

Goto(h, p, pc) ==
  handler' = [handler EXCEPT ![h].pc = pc, ![h].payment = p] /\ loop' = h

Return(h) == handler' = [handler EXCEPT ![h] = Idle] /\ loop' = None

-------------------------------------------------------------------------------
(* The repositories: each call runs to its end before another one starts *)

\* get_by_tenant_and_sale
Known(p) == row[p].state # "absent"

\* update
Update(p, state) == row' = [row EXCEPT ![p].state = state]

\* try_begin takes the key, complete stores the reply.
Free(k) == keys[k] = "none"

Keep(k, status) == keys' = [keys EXCEPT ![k] = status]

\* enqueue_reconciliation: one unpublished message for a payment.
Enqueue(p) == outbox' = [outbox EXCEPT ![p] = "unpublished"]

\* try_insert: one callback row for the ids of a push.
TryInsert(p) == received' = received \union {p}

-------------------------------------------------------------------------------
(* POST /payments/stk *)

\* A request that does not validate raises after it reserved the key.
RefuseRequest(k) ==
  /\ loop = None /\ Free(k)
  /\ Keep(k, "in_progress")
  /\ UNCHANGED <<row, stub, delivered, received, lines, outbox, handler, loop>>

\* A sale that has a payment is answered with it.
AnswerExisting(p, k) ==
  /\ loop = None /\ Free(k) /\ Known(p)
  /\ Keep(k, "completed")
  /\ UNCHANGED <<row, stub, delivered, received, lines, outbox, handler, loop>>

Save(h, p, k) ==
  /\ Starts(h) /\ Free(k) /\ ~Known(p)
  /\ Keep(k, "in_progress")
  /\ row' = [row EXCEPT ![p] = [state |-> "pending", key |-> k]]
  /\ Goto(h, p, "push")
  /\ UNCHANGED <<stub, delivered, received, lines, outbox>>

\* The push, the update and the reply; the fake takes the scenario of the request.
InitiateStkPush(h, scenario) ==
  LET p == handler[h].payment IN
    /\ loop = h /\ handler[h].pc = "push"
    /\ stub' = [stub EXCEPT ![p] = scenario]
    /\ IF scenario = "delayed_timeout"
         THEN Update(p, "pending_reconciliation") /\ Enqueue(p)
         ELSE Update(p, "stk_sent") /\ UNCHANGED outbox
    /\ Keep(row[p].key, "completed")
    /\ Return(h)
    /\ UNCHANGED <<delivered, received, lines>>

-------------------------------------------------------------------------------
(* Settlement *)

\* Mutant: a failed payment stays failed.
IgnoredWhenSettled(p, result) == row[p].state \in PaymentTerminal

\* Mutant: only a repeated outcome is ignored.
IgnoredWhenRepeated(p, result) ==
  row[p].state = IF result = "success" THEN "paid" ELSE "failed"

\* A success is ignored by a paid payment, a failure by any settled one.
Ignored(p, result) ==
  IF result = "success" THEN row[p].state = "paid" ELSE row[p].state \in PaymentTerminal

\* settle_success and settle_failure up to the update; a success goes on to the ledger.
Settle(h, p, result) ==
  IF Ignored(p, result)
    THEN Goto(h, p, "notify") /\ UNCHANGED row
    ELSE /\ Update(p, IF result = "success" THEN "paid" ELSE "failed")
         /\ Goto(h, p, IF result = "success" THEN "book" ELSE "notify")

AppendLedger(h) ==
  LET p == handler[h].payment IN
    /\ loop = h /\ handler[h].pc = "book"
    /\ lines' = IF lines[p] = 0 THEN [lines EXCEPT ![p] = @ + 1] ELSE lines
    /\ Goto(h, p, "notify")
    /\ UNCHANGED <<row, keys, stub, delivered, received, outbox>>

\* The call to POS gives up the loop.
NotifyPos(h) ==
  /\ loop = h /\ handler[h].pc = "notify"
  /\ loop' = None
  /\ UNCHANGED <<row, keys, stub, delivered, received, lines, outbox, handler>>

-------------------------------------------------------------------------------
(* Callbacks *)

\* Mutant: a repeated callback is never processed.
FirstCallbackOnly(p, result) == p \notin received

\* One callback row for a push; a repeated success is processed while it is not paid.
Processed(p, result) ==
  p \notin received \/ (result = "success" /\ row[p].state # "paid")

\* The queued callbacks are delivered in order; each may be repeated.
ReceiveCallback(h, p, i) ==
  /\ Starts(h) /\ stub[p] # None
  /\ i \in 1..Len(Callbacks[stub[p]]) /\ i <= delivered[p] + 1
  /\ delivered' = [delivered EXCEPT ![p] = IF i > @ THEN i ELSE @]
  /\ TryInsert(p)
  /\ LET result == Callbacks[stub[p]][i] IN
       IF Processed(p, result)
         THEN Settle(h, p, result)
         ELSE UNCHANGED <<row, handler, loop>>
  /\ UNCHANGED <<keys, stub, lines, outbox>>

-------------------------------------------------------------------------------
(* Reconciliation *)

\* The next message of a drain, or its end.
Take(h, todo) ==
  IF todo = {}
    THEN Return(h)
    ELSE \E p \in todo :
           /\ handler' = [handler EXCEPT ![h] = [pc |-> "query", payment |-> p,
                                                 drain |-> TRUE, todo |-> todo]]
           /\ loop' = h

ProcessOutbox(h) ==
  /\ Starts(h)
  /\ Take(h, {p \in Payments : outbox[p] = "unpublished"})
  /\ UNCHANGED <<row, keys, stub, delivered, received, lines, outbox>>

ReconcilePayment(h, p) ==
  /\ Starts(h)
  /\ Goto(h, p, "query")
  /\ UNCHANGED <<row, keys, stub, delivered, received, lines, outbox>>

Finish(h, p) == IF handler[h].drain THEN Goto(h, p, "mark") ELSE Return(h)

\* A payment that is not there, is settled or has no checkout id is left alone.
QueryTransactionStatus(h) ==
  LET p == handler[h].payment IN
    /\ loop = h /\ handler[h].pc = "query"
    /\ IF row[p].state \in {"stk_sent", "pending_reconciliation"}
         THEN Settle(h, p, QueryResult(p))
         ELSE Finish(h, p) /\ UNCHANGED row
    /\ UNCHANGED <<keys, stub, delivered, received, lines, outbox>>

\* POS answered or did not.
Resume(h) ==
  /\ loop = None /\ handler[h].pc = "notify"
  /\ Finish(h, handler[h].payment)
  /\ UNCHANGED <<row, keys, stub, delivered, received, lines, outbox>>

MarkPublished(h) ==
  /\ loop = h /\ handler[h].pc = "mark"
  /\ outbox' = [outbox EXCEPT ![handler[h].payment] = "published"]
  /\ Take(h, handler[h].todo \ {handler[h].payment})
  /\ UNCHANGED <<row, keys, stub, delivered, received, lines>>

HandlerStep(h) ==
  \/ \E scenario \in Scenarios : InitiateStkPush(h, scenario)
  \/ AppendLedger(h) \/ NotifyPos(h) \/ Resume(h)
  \/ QueryTransactionStatus(h) \/ MarkPublished(h)

Next ==
  \/ \E k \in Keys : RefuseRequest(k)
  \/ \E p \in Payments, k \in Keys : AnswerExisting(p, k)
  \/ \E h \in Handlers, p \in Payments :
       \/ \E k \in Keys : Save(h, p, k)
       \/ \E i \in 1..2 : ReceiveCallback(h, p, i)
       \/ ReconcilePayment(h, p)
  \/ \E h \in Handlers : ProcessOutbox(h) \/ HandlerStep(h)

Spec == Init /\ [][Next]_vars

-------------------------------------------------------------------------------
(* Properties *)

Lifecycle ==
  INSTANCE PaymentLifecycle WITH state <- [p \in Payments |-> row[p].state]

\* Any number of concurrent requests, callbacks, queries and drains keeps to the transition
\* table and writes one ledger line for a payment, once it is paid: what the tests of the
\* local runtime see, and what the statements of two Postgres handlers do not keep.
RefinesLifecycle == Lifecycle!Spec

\* Whatever order callbacks, queries and drains come in: a push that timed out stays queued
\* until it is settled, and once the provider's callbacks have all arrived the payment has
\* the outcome of the last, which an STK query reports as well.
OutcomeArrives ==
  \A p \in Payments :
    /\ row[p].state = "pending_reconciliation" => outbox[p] = "unpublished"
    /\ stub[p] # None /\ delivered[p] > 0 /\ delivered[p] = Len(Callbacks[stub[p]]) =>
         row[p].state = IF QueryResult(p) = "success" THEN "paid" ELSE "failed"

================================================================================
