------------------------------- MODULE PosSales -------------------------------
(***************************************************************************)
(* Sales of one tenant in the POS service, as deployed on Postgres (READ   *)
(* COMMITTED).  Every request is one transaction: it reads the row without *)
(* a lock, decides on its copy, flushes its UPDATE (which takes the row    *)
(* lock and waits for another holder), sends the reply when the handler    *)
(* returned, and commits after that; an exception, an HTTP error included, *)
(* rolls it back before the reply.  POST /sales/{id}/pay calls the         *)
(* payments service inside its transaction.                                *)
(*                                                                         *)
(* Payments is the environment: it may report "failed" for any sale it was *)
(* asked to collect for, "paid" only once the customer was charged (what   *)
(* StkCollection proves), in any order and any number of times.            *)
(*                                                                         *)
(* A sale is named by the POST /sales request that inserted its row.       *)
(***************************************************************************)
EXTENDS SaleState, Naturals

CONSTANTS
  Sales,       \* POST /sales requests; each one runs at most once
  Keys,        \* their idempotency keys
  Handlers,    \* concurrent pay, cancel and payment-result requests
  NoSale,      \* no sale
  MaxCrashes   \* bound: how often the service process may die

ASSUME NoSaleAssumption == NoSale \notin Sales
ASSUME MaxCrashesAssumption == MaxCrashes \in Nat

VARIABLES
  \* POST /sales requests
  key,       \* the idempotency key each one carries
  cpc,       \* its next step
  reply,     \* the sale its answer names
  \* the sales table
  sale,      \* the committed status of each row
  exact,     \* whether its total is a whole number of shillings
  \* requests in flight
  job,       \* what each handler is doing
  \* the payments service and the customer
  asked,     \* sales payments received a collection request for
  charged,   \* sales whose customer was charged
  crashes    \* how often the process died

creation == <<key, cpc, reply>>
money    == <<asked, charged>>
vars == <<key, cpc, reply, sale, exact, job, asked, charged, crashes>>

RowStatuses == SaleStatuses \union {"absent"}
Results == {"paid", "failed"}

-------------------------------------------------------------------------------
\* "commit" is answered and not yet committed; "lost" is answered, and its
\* transaction was never committed.
CreatePC == {"idle", "insert", "reply", "commit", "done", "error", "lost"}

JobRecord ==
  [pc    : {"idle", "update", "handoff", "answer", "commit"},
   kind  : {"pay", "cancel", "result"},
   id    : Sales \union {NoSale},
   new   : SaleStatuses,   \* the status the request writes
   wrote : BOOLEAN]        \* its UPDATE is flushed, it holds the row lock

Job ==
  {j \in JobRecord :
     /\ j.pc = "idle" \/ j.id \in Sales
     /\ j.kind = "result" => j.new \in Results}

IdleJob == [pc |-> "idle", kind |-> "pay", id |-> NoSale, new |-> "pending",
            wrote |-> FALSE]

TypeOK ==
  /\ key \in [Sales -> Keys]
  /\ cpc \in [Sales -> CreatePC]
  /\ reply \in [Sales -> Sales \union {NoSale}]
  /\ sale \in [Sales -> RowStatuses]
  /\ exact \in [Sales -> BOOLEAN]
  /\ job \in [Handlers -> Job]
  /\ asked \subseteq Sales
  /\ charged \subseteq Sales
  /\ crashes \in 0..MaxCrashes

Init ==
  /\ key \in [Sales -> Keys]
  /\ cpc = [c \in Sales |-> "idle"]
  /\ reply = [c \in Sales |-> NoSale]
  /\ sale = [s \in Sales |-> "absent"]
  /\ exact \in [Sales -> BOOLEAN]
  /\ job = [h \in Handlers |-> IdleJob]
  /\ asked = {}
  /\ charged = {}
  /\ crashes = 0

Committed(s) == sale[s] # "absent"
-------------------------------------------------------------------------------
(* POST /sales *)

CreateGoto(c, step) == cpc' = [cpc EXCEPT ![c] = step]
Reply(c, s) == reply' = [reply EXCEPT ![c] = s]

Existing(k) == {s \in Sales : Committed(s) /\ key[s] = k}

\* The fast path: a key already used returns its sale.
BeginCreate(c) ==
  /\ cpc[c] = "idle"
  /\ IF Existing(key[c]) = {}
       THEN CreateGoto(c, "insert") /\ UNCHANGED reply
       ELSE CreateGoto(c, "done") /\ \E s \in Existing(key[c]) : Reply(c, s)
  /\ UNCHANGED <<key, sale, exact, job, money, crashes>>

\* The row of c is inserted, in a transaction that is still open.
Inserted(c) == cpc[c] \in {"reply", "commit"}

\* Another request has inserted a row with this key and not yet committed: the
\* INSERT waits for it.
KeyBusy(c) == \E d \in Sales : Inserted(d) /\ key[d] = key[c]

\* Mutant: the table has no uq_sales_tenant_idempotency.
InsertNotUnique(c) ==
  /\ cpc[c] = "insert"
  /\ CreateGoto(c, "reply")
  /\ UNCHANGED <<key, reply, sale, exact, job, money, crashes>>

\* uq_sales_tenant_idempotency.  The INSERT of the loser of a race is flushed
\* before the savepoint is set, so its failure ends the whole transaction, and the
\* lookup of the winner raises: 500.
Insert(c) ==
  /\ cpc[c] = "insert"
  /\ ~KeyBusy(c)
  /\ CreateGoto(c, IF Existing(key[c]) = {} THEN "reply" ELSE "error")
  /\ UNCHANGED <<key, reply, sale, exact, job, money, crashes>>

\* A till or attendant of another tenant: the foreign key fails, 400.
InsertRefused(c) ==
  /\ cpc[c] = "insert"
  /\ ~KeyBusy(c) /\ Existing(key[c]) = {}
  /\ CreateGoto(c, "error")
  /\ UNCHANGED <<key, reply, sale, exact, job, money, crashes>>

\* 201: the answer leaves before the session commits.
ReplyCreated(c) ==
  /\ cpc[c] = "reply"
  /\ Reply(c, c)
  /\ CreateGoto(c, "commit")
  /\ UNCHANGED <<key, sale, exact, job, money, crashes>>

CommitCreate(c) ==
  /\ cpc[c] = "commit"
  /\ sale' = [sale EXCEPT ![c] = "pending"]
  /\ CreateGoto(c, "done")
  /\ UNCHANGED <<key, reply, exact, job, money, crashes>>

\* The database refuses or never gets the COMMIT: the client has its answer.
CommitCreateFails(c) ==
  /\ cpc[c] = "commit"
  /\ CreateGoto(c, "lost")
  /\ UNCHANGED <<key, reply, sale, exact, job, money, crashes>>

CreateStep(c) ==
  BeginCreate(c) \/ Insert(c) \/ ReplyCreated(c) \/ CommitCreate(c)

-------------------------------------------------------------------------------
(* What pay, cancel and payment-result do on reading the row.  A request that  *)
(* is answered without a change (404, 409, or a repeat) has no action, unless  *)
(* it is a result.                                                             *)

SetJob(h, j) == job' = [job EXCEPT ![h] = j]
EndJob(h) == SetJob(h, IdleJob)

\* POST /sales/{id}/pay: a pending sale is first marked as awaiting payment.
RequestPayment(h, s) ==
  /\ job[h].pc = "idle"
  /\ sale[s] \in {"pending", "awaiting_payment"}
  /\ SetJob(h, [IdleJob EXCEPT !.pc = IF sale[s] = "pending" THEN "update" ELSE "handoff",
                               !.kind = "pay", !.id = s, !.new = "awaiting_payment"])
  /\ UNCHANGED <<creation, sale, exact, money, crashes>>

\* Mutant: the public endpoint accepts every target of the table.
TransitionAnyTarget(h, s) ==
  /\ job[h].pc = "idle"
  /\ Committed(s)
  /\ \E target \in SaleTransitions(sale[s]) :
       SetJob(h, [IdleJob EXCEPT !.pc = "update", !.kind = "cancel", !.id = s, !.new = target])
  /\ UNCHANGED <<creation, sale, exact, money, crashes>>

\* Mutant: the status is misspelt.
TransitionMisspelt(h, s) ==
  /\ job[h].pc = "idle"
  /\ sale[s] = "pending"
  /\ SetJob(h, [IdleJob EXCEPT !.pc = "update", !.kind = "cancel", !.id = s, !.new = "canceled"])
  /\ UNCHANGED <<creation, sale, exact, money, crashes>>

\* POST /sales/{id}/transition accepts "cancelled" only.
Transition(h, s) ==
  /\ job[h].pc = "idle"
  /\ "cancelled" \in SaleTransitions(sale[s])
  /\ SetJob(h, [IdleJob EXCEPT !.pc = "update", !.kind = "cancel", !.id = s, !.new = "cancelled"])
  /\ UNCHANGED <<creation, sale, exact, money, crashes>>

\* Mutant: a terminal sale takes another result.
AppliesToTerminal(s, r) == exact[s] /\ sale[s] # r

\* Payments reports the pushed amount in whole shillings: for any other total it
\* is refused (409), and so is a result for a terminal sale.
Applies(s, r) == exact[s] /\ sale[s] # r /\ sale[s] \notin SaleTerminal

\* POST /internal/sales/{id}/payment-result: a pending sale walks through
\* "awaiting_payment" within the one UPDATE.
ApplyPaymentResult(h, s, r) ==
  /\ job[h].pc = "idle"
  /\ s \in asked
  /\ r = "paid" => s \in charged
  /\ Applies(s, r)
  /\ SetJob(h, [IdleJob EXCEPT !.pc = "update", !.kind = "result", !.id = s, !.new = r])
  /\ UNCHANGED <<creation, sale, exact, money, crashes>>

-------------------------------------------------------------------------------
(* The rest of the transaction *)

RowLocked(s) == \E h \in Handlers : job[h].id = s /\ job[h].wrote

\* The UPDATE does not look at the status again once it has the row lock.
UpdateSale(h) ==
  /\ job[h].pc = "update"
  /\ ~RowLocked(job[h].id)
  /\ SetJob(h, [job[h] EXCEPT !.wrote = TRUE,
                              !.pc = IF job[h].kind = "pay" THEN "handoff" ELSE "commit"])
  /\ UNCHANGED <<creation, sale, exact, money, crashes>>

\* Payments receives the request, whether or not its reply comes back in time.
InitiateStk(h) ==
  /\ job[h].pc = "handoff"
  /\ asked' = asked \union {job[h].id}
  /\ SetJob(h, [job[h] EXCEPT !.pc = "answer"])
  /\ UNCHANGED <<creation, sale, exact, charged, crashes>>

\* The request is answered, and then commits.
PaymentsAnswered(h) ==
  /\ job[h].pc = "answer"
  /\ SetJob(h, [job[h] EXCEPT !.pc = "commit"])
  /\ UNCHANGED <<creation, sale, exact, money, crashes>>

\* Mutant: the transaction is left open.
UnavailableLeavesOpen(h) ==
  /\ job[h].pc \in {"handoff", "answer"}
  /\ SetJob(h, [job[h] EXCEPT !.pc = "idle"])
  /\ UNCHANGED <<creation, sale, exact, money, crashes>>

\* Payments is unreachable, too slow, or answers 4xx or 5xx: 502, and the
\* transaction rolls back.
PaymentsUnavailable(h) ==
  /\ job[h].pc \in {"handoff", "answer"}
  /\ EndJob(h)
  /\ UNCHANGED <<creation, sale, exact, money, crashes>>

Commit(h) ==
  LET j == job[h] IN
  /\ j.pc = "commit"
  /\ IF j.wrote THEN sale' = [sale EXCEPT ![j.id] = j.new] ELSE UNCHANGED sale
  /\ EndJob(h)
  /\ UNCHANGED <<creation, exact, money, crashes>>

CommitFails(h) ==
  /\ job[h].pc = "commit"
  /\ EndJob(h)
  /\ UNCHANGED <<creation, sale, exact, money, crashes>>

HandlerStep(h) ==
  InitiateStk(h) \/ PaymentsAnswered(h) \/ PaymentsUnavailable(h) \/ Commit(h)

CustomerPays(s) ==
  /\ s \in asked
  /\ charged' = charged \union {s}
  /\ UNCHANGED <<creation, sale, exact, job, asked, crashes>>

\* Every open transaction rolls back, also those that were answered.
CreateKilled(c) ==
  CASE cpc[c] = "commit"               -> "lost"
    [] cpc[c] \in {"insert", "reply"} -> "error"
    [] OTHER                           -> cpc[c]

Crash ==
  /\ crashes < MaxCrashes
  /\ crashes' = crashes + 1
  /\ cpc' = [c \in Sales |-> CreateKilled(c)]
  /\ job' = [h \in Handlers |-> IdleJob]
  /\ UNCHANGED <<key, reply, sale, exact, money>>

Next ==
  \/ \E c \in Sales :
       CreateStep(c) \/ InsertRefused(c) \/ CommitCreateFails(c) \/ CustomerPays(c)
  \/ \E h \in Handlers : UpdateSale(h) \/ HandlerStep(h) \/ CommitFails(h)
  \/ \E h \in Handlers, s \in Sales :
       \/ RequestPayment(h, s) \/ Transition(h, s)
       \/ \E r \in Results : ApplyPaymentResult(h, s, r)
  \/ Crash

Spec == Init /\ [][Next]_vars

\* The event loop runs what is ready and the client of payments times out.
\* Postgres grants a row lock in the order in which it was asked for.
Fairness ==
  /\ \A c \in Sales : WF_vars(CreateStep(c))
  /\ \A h \in Handlers : WF_vars(HandlerStep(h)) /\ SF_vars(UpdateSale(h))

FairSpec == Spec /\ Fairness

-------------------------------------------------------------------------------
(* Safety, whatever the interleaving of requests, results and process deaths   *)

\* Of all the POST /sales requests with one key (retries, double clicks) one
\* makes a sale, also when they overlap and when the process dies between the
\* insert and the commit.
OneSalePerKey ==
  \A s, t \in Sales : Committed(s) /\ Committed(t) /\ key[s] = key[t] => s = t

\* The sales of a key: committed, or in the transaction that is about to.
SalesOf(k) == {s \in Sales : key[s] = k /\ (Committed(s) \/ Inserted(s))}

\* Every POST /sales that was answered 2xx, and whose transaction was not lost
\* after the answer, names the only sale its key has: two overlapping requests are
\* never told of two sales, and a request after a lost one is not told of that.
AnswersNameOneSale ==
  \A c \in Sales : cpc[c] \in {"commit", "done"} => SalesOf(key[c]) = {reply[c]}

\* A sale is paid only when the customer was charged: no public request, lost
\* update or result in whatever order makes it so.
PaidMeansCharged == \A s \in Sales : sale[s] = "paid" => s \in charged

-------------------------------------------------------------------------------
(* Serial handling: with one handler POS keeps its abstract promise             *)

Lifecycle == INSTANCE SaleLifecycle WITH status <- sale, handed <- asked

\* Handled one at a time, pay, cancel and result requests move a sale along the
\* transition table only, and a terminal sale never again.
RefinesLifecycle == Lifecycle!Spec

-------------------------------------------------------------------------------
(* Liveness, under FairSpec *)

\* Every request comes to its end: nobody waits for ever on a row lock or on a
\* key another transaction holds, whatever payments and the process do.
EveryRequestEnds ==
  /\ \A h \in Handlers : job[h].pc # "idle" ~> job[h].pc = "idle"
  /\ \A c \in Sales : cpc[c] # "idle" ~> cpc[c] \in {"done", "error", "lost"}

-------------------------------------------------------------------------------
(* What comments and tests say and the code does not keep *)

\* pos/services/sale_service.py:92: a create request that lost a race on its key
\* returns the winner.
LoserReturnsWinner ==
  [][\A c \in Sales : Insert(c) /\ Existing(key[c]) # {} => cpc'[c] = "done"]_vars

\* pos/tests/test_payment_flow.py:80 and the POS README: when payments cannot be
\* reached, the sale is left awaiting payment.
UnreachableLeavesAwaiting ==
  [][\A h \in Handlers :
       PaymentsUnavailable(h) /\ sale[job[h].id] = "pending"
         => sale'[job[h].id] = "awaiting_payment"]_vars

===============================================================================
