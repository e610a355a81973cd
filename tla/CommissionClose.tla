---------------------------- MODULE CommissionClose ----------------------------
(***************************************************************************)
(* The commission service: POST /internal/close, POST /internal/payout and *)
(* the queue worker, for one payout period, as deployed on Postgres.       *)
(*                                                                         *)
(* An attendant stands for a (tenant, attendant) pair, so for a payout     *)
(* intent and for its deterministic Idempotency-Key.  An amount is the set *)
(* of ledger lines it sums: the totals of one attendant only grow, so a    *)
(* larger amount is a larger set.  Every action is one database read or    *)
(* commit, or a step of the call to the payments service, which is seen    *)
(* from outside here; B2CPayouts models it.                                *)
(***************************************************************************)
EXTENDS Naturals, FiniteSets

CONSTANTS
  Sales,          \* the sales that may settle in the period
  Attendants,
  Seller,         \* the attendant of each sale
  Priced,         \* sales with a rate whose total agrees with the payment
  Zero,           \* sales whose commission rounds down to nothing
  Contactable,    \* attendants with a contact
  Closers,        \* close runs of the period; each one runs at most once
  Handlers,       \* concurrent handlers of POST /internal/payout
  NoAttendant,    \* the attendant an idle closer or handler carries
  MaxCrashes      \* bound: how often the commission process may die

ASSUME SellerAssumption == Seller \in [Sales -> Attendants]
ASSUME PricedAssumption == Priced \subseteq Sales
ASSUME NoAttendantAssumption == NoAttendant \notin Attendants
ASSUME MaxCrashesAssumption == MaxCrashes \in Nat

VARIABLES
  lines,      \* sales with a commission_ledger line
  run,        \* the status column of the close_runs row
  intent,     \* payout_intents rows
  closer,     \* what each close run is doing
  handler,    \* what each payout handler is doing
  queue,      \* attendants with a message in the SQS payout queue
  dead,       \* attendants with a message in its dead letter queue
  key,        \* the key of each attendant in the payments service
  disbursed,  \* how often payments handed Daraja the commission of a sale for an attendant
  crashes     \* how often the process died

paymentsVars == <<key, disbursed>>
vars == <<lines, run, intent, closer, handler, queue, dead, paymentsVars,
          crashes>>

-------------------------------------------------------------------------------
IntentStates == {"pending", "submitted", "failed"}

\* payout says whether payments_payout_id is set.  No row is ever "completed":
\* payments answers before Daraja does, and mark_completed has no caller.
Row == [state : {"absent"} \union IntentStates, amount : SUBSET Sales, payout : BOOLEAN]

NoRow == [state |-> "absent", amount |-> {}, payout |-> FALSE]

PeriodPC == {"save", "list", "lines", "attendants"}

\* The steps a close run takes for one attendant.
AttendantPC == {"upsert", "insert", "update", "refresh", "send"}

RunningPC == PeriodPC \union AttendantPC

\* A close run ends with its result or an exception; a crash takes a running one.
EndPC == {"done", "error", "killed"}

\* What a unit of work remembers of the row it read.
Copy == [state : {"absent"} \union IntentStates, amount : SUBSET Sales]

NoCopy == [state |-> "absent", amount |-> {}]

CopyOf(row) == [state |-> row.state, amount |-> row.amount]

CloserAt(pcs, ids) ==
  [pc : pcs, id : ids,
   found : {"absent", "running", "completed"},   \* the status it read
   todo : SUBSET Sales, seen : SUBSET Sales,     \* sales to price, sales it knows
   keys : SUBSET Attendants,                     \* attendants to come
   total : SUBSET Sales, copy : Copy]

Closer == CloserAt({"idle"} \union PeriodPC \union EndPC, {NoAttendant})
            \union CloserAt(AttendantPC, Attendants)

IdleCloser == [pc |-> "idle", found |-> "absent", todo |-> {}, seen |-> {}, keys |-> {},
               id |-> NoAttendant, total |-> {}, copy |-> NoCopy]

Handler == [pc : {"call", "waiting", "accepted", "refused"}, id : Attendants, copy : Copy]

IdleHandler == [pc |-> "idle", id |-> NoAttendant, copy |-> NoCopy]

\* "stuck": reserved by a request that ended without completing it.
KeyStates == {"free", "running", "answered", "stuck"}

TypeOK ==
  /\ lines \in SUBSET Sales
  /\ run \in {"absent", "running", "completed"}
  /\ intent \in [Attendants -> Row]
  /\ closer \in [Closers -> Closer]
  /\ handler \in [Handlers -> Handler \union {IdleHandler}]
  /\ queue \in SUBSET Attendants
  /\ dead \in SUBSET Attendants
  /\ key \in [Attendants -> [state : KeyStates, amount : SUBSET Sales]]
  /\ disbursed \in [Attendants -> [Sales -> Nat]]
  /\ crashes \in 0..MaxCrashes

Init ==
  /\ lines = {}
  /\ run = "absent"
  /\ intent = [a \in Attendants |-> NoRow]
  /\ closer = [c \in Closers |-> IdleCloser]
  /\ handler = [h \in Handlers |-> IdleHandler]
  /\ queue = {}
  /\ dead = {}
  /\ key = [a \in Attendants |-> [state |-> "free", amount |-> {}]]
  /\ disbursed = [a \in Attendants |-> [s \in Sales |-> 0]]
  /\ crashes = 0

-------------------------------------------------------------------------------
(* POST /internal/close: the run row, the paid sales, their ledger lines *)

Known(c) == {Seller[s] : s \in closer[c].seen}

SetCloser(c, d) == closer' = [closer EXCEPT ![c] = d]

Ended(pc) == [IdleCloser EXCEPT !.pc = pc]

ReadRun(c) ==
  /\ closer[c].pc = "idle"
  /\ SetCloser(c, [closer[c] EXCEPT !.pc = "save", !.found = run])
  /\ UNCHANGED <<lines, run, intent, handler, queue, dead, paymentsVars, crashes>>

\* uq_close_runs_period: the second of two first runs raises.  A row found running,
\* by a retry or beside another run, is written as it is: it locks nobody out.
SaveRunning(c) ==
  /\ closer[c].pc = "save"
  /\ IF closer[c].found = "absent" /\ run # "absent"
       THEN SetCloser(c, Ended("error")) /\ UNCHANGED run
       ELSE /\ SetCloser(c, [closer[c] EXCEPT !.pc = "list", !.found = "absent"])
            /\ run' = IF closer[c].found = "running" THEN run ELSE "running"
  /\ UNCHANGED <<lines, intent, handler, queue, dead, paymentsVars, crashes>>

\* payments.v_paid_sales_for_commission shows any sales: they settle while the
\* period lasts and after it was closed, and a stale failure may take one back
\* (PaidIsFinal of StkCollection).  A sale whose POS total disagrees, or that has
\* no rate, is skipped.
ListPaid(c) ==
  /\ closer[c].pc = "list"
  /\ \E paid \in SUBSET Priced :
       SetCloser(c, [closer[c] EXCEPT !.pc = "lines", !.todo = paid, !.seen = paid])
  /\ UNCHANGED <<lines, run, intent, handler, queue, dead, paymentsVars, crashes>>

\* ON CONFLICT DO NOTHING on (tenant, period, attendant, sale).  The order in
\* which the query returns the sales is open.
InsertLine(c) ==
  /\ closer[c].pc = "lines"
  /\ \E s \in closer[c].todo :
       /\ lines' = lines \union {s}
       /\ SetCloser(c, [closer[c] EXCEPT !.todo = @ \ {s}])
  /\ UNCHANGED <<run, intent, handler, queue, dead, paymentsVars, crashes>>

\* Attendants that have lines already are included.
ListLines(c) ==
  /\ closer[c].pc = "lines"
  /\ closer[c].todo = {}
  /\ SetCloser(c, [closer[c] EXCEPT !.pc = "attendants", !.seen = @ \union lines,
                                    !.keys = Known(c) \union {Seller[s] : s \in lines}])
  /\ UNCHANGED <<lines, run, intent, handler, queue, dead, paymentsVars, crashes>>

-------------------------------------------------------------------------------
(* POST /internal/close: one payout intent and one message per attendant *)

Owed(a) == {s \in lines \ Zero : Seller[s] = a}

\* Without a contact or with nothing owed the attendant is passed over.  The code
\* sorts the attendants; any order is allowed here.
SumLedger(c) ==
  /\ closer[c].pc = "attendants"
  /\ \E a \in closer[c].keys :
       SetCloser(c, IF a \in Contactable /\ Owed(a) # {}
                      THEN [closer[c] EXCEPT !.pc = "upsert", !.keys = @ \ {a}, !.id = a,
                                             !.total = Owed(a)]
                      ELSE [closer[c] EXCEPT !.keys = @ \ {a}])
  /\ UNCHANGED <<lines, run, intent, handler, queue, dead, paymentsVars, crashes>>

\* On with the next attendant.
NextAttendant(d) ==
  [d EXCEPT !.pc = "attendants", !.id = NoAttendant, !.total = {}, !.copy = NoCopy]

\* Mutant: only a pending intent is worth a message.
ReadIntentSkipsFailed(c) ==
  LET d == closer[c]
      row == intent[d.id] IN
  /\ d.pc = "upsert"
  /\ SetCloser(c, CASE row.state = "absent"  -> [d EXCEPT !.pc = "insert"]
                    [] row.state = "pending" -> [d EXCEPT !.pc = "update", !.copy = CopyOf(row)]
                    [] OTHER                 -> NextAttendant(d))
  /\ UNCHANGED <<lines, run, intent, handler, queue, dead, paymentsVars, crashes>>

\* upsert of a pending intent; a submitted one is kept and not sent again.
ReadIntent(c) ==
  LET d == closer[c]
      row == intent[d.id] IN
  /\ d.pc = "upsert"
  /\ SetCloser(c, CASE row.state = "absent"    -> [d EXCEPT !.pc = "insert"]
                    [] row.state = "submitted" -> NextAttendant(d)
                    [] OTHER                   -> [d EXCEPT !.pc = "update", !.copy = CopyOf(row)])
  /\ UNCHANGED <<lines, run, intent, handler, queue, dead, paymentsVars, crashes>>

\* uq_payout_intents_tenant_period_attendant: the second of two inserts raises.
InsertIntent(c) ==
  LET d == closer[c] IN
  /\ d.pc = "insert"
  /\ IF intent[d.id].state = "absent"
       THEN /\ intent' = [intent EXCEPT ![d.id] =
                            [state |-> "pending", amount |-> d.total, payout |-> FALSE]]
            /\ SetCloser(c, [d EXCEPT !.pc = "send", !.total = {}])
       ELSE SetCloser(c, Ended("error")) /\ UNCHANGED intent
  /\ UNCHANGED <<lines, run, handler, queue, dead, paymentsVars, crashes>>

\* The unit of work writes the columns that differ from the copy it read, over
\* whatever the row holds by now.
Written(row, copy, state, amount) ==
  [row EXCEPT !.state  = IF state # copy.state THEN state ELSE @,
              !.amount = IF amount # copy.amount THEN amount ELSE @]

\* Mutant: the payout id of the fresh intent, none, is taken over as well.
UpdateIntentClears(c) ==
  LET d == closer[c] IN
  /\ d.pc = "update"
  /\ intent' = [intent EXCEPT ![d.id] =
                  [Written(@, d.copy, "pending", d.total) EXCEPT !.payout = FALSE]]
  /\ SetCloser(c, [d EXCEPT !.pc = "refresh", !.total = {}, !.copy = NoCopy])
  /\ UNCHANGED <<lines, run, handler, queue, dead, paymentsVars, crashes>>

UpdateIntent(c) ==
  LET d == closer[c] IN
  /\ d.pc = "update"
  /\ intent' = [intent EXCEPT ![d.id] = Written(@, d.copy, "pending", d.total)]
  /\ SetCloser(c, [d EXCEPT !.pc = "refresh", !.total = {}, !.copy = NoCopy])
  /\ UNCHANGED <<lines, run, handler, queue, dead, paymentsVars, crashes>>

RefreshIntent(c) ==
  LET d == closer[c] IN
  /\ d.pc = "refresh"
  /\ SetCloser(c, IF intent[d.id].state = "submitted" THEN NextAttendant(d)
                                                      ELSE [d EXCEPT !.pc = "send"])
  /\ UNCHANGED <<lines, run, intent, handler, queue, dead, paymentsVars, crashes>>

\* A call to SQS that fails ends the close run, its row still "running".
Send(c) ==
  LET d == closer[c] IN
  /\ d.pc = "send"
  /\ \/ SetCloser(c, NextAttendant(d)) /\ queue' = queue \union {d.id}
     \/ SetCloser(c, Ended("error")) /\ UNCHANGED queue
  /\ UNCHANGED <<lines, run, intent, handler, dead, paymentsVars, crashes>>

Finish(c) ==
  /\ closer[c].pc = "attendants"
  /\ closer[c].keys = {}
  /\ run' = "completed"
  /\ SetCloser(c, [closer[c] EXCEPT !.pc = "done"])
  /\ UNCHANGED <<lines, intent, handler, queue, dead, paymentsVars, crashes>>

CloseStep(c) ==
  \/ SaveRunning(c) \/ ListPaid(c) \/ InsertLine(c) \/ ListLines(c) \/ SumLedger(c)
  \/ ReadIntent(c) \/ InsertIntent(c) \/ UpdateIntent(c) \/ RefreshIntent(c) \/ Send(c)
  \/ Finish(c)

-------------------------------------------------------------------------------
(* POST /internal/payout: one disbursement by the payments service *)

SetHandler(h, j) == handler' = [handler EXCEPT ![h] = j]

\* Mutant: is_intent_terminal alone ends the request, and failed is terminal.
SubmitsPendingOnly(row) == row.state = "pending"

\* No intent is a 404; a submitted one with its payout id is answered from the row.
Submits(row) == row.state # "absent" /\ ~(row.state = "submitted" /\ row.payout)

BeginSubmit(h, a) ==
  /\ handler[h] = IdleHandler
  /\ Submits(intent[a])
  /\ SetHandler(h, [pc |-> "call", id |-> a, copy |-> CopyOf(intent[a])])
  /\ UNCHANGED <<lines, run, intent, closer, queue, dead, paymentsVars, crashes>>

\* Mutant: a key that is in use counts as a payout that is under way.
CallTakesConflict(h) ==
  LET j == handler[h] IN
  /\ j.pc = "call"
  /\ IF key[j.id].state = "free"
       THEN /\ key' = [key EXCEPT ![j.id] = [state |-> "running", amount |-> j.copy.amount]]
            /\ SetHandler(h, [j EXCEPT !.pc = "waiting"])
       ELSE SetHandler(h, [j EXCEPT !.pc = "accepted"]) /\ UNCHANGED key
  /\ UNCHANGED <<lines, run, intent, closer, queue, dead, disbursed, crashes>>

\* Mutant: a fresh key for every request.
CallUnderNewKey(h) ==
  LET j == handler[h] IN
  /\ j.pc = "call"
  /\ key' = [key EXCEPT ![j.id] = [state |-> "running", amount |-> j.copy.amount]]
  /\ SetHandler(h, [j EXCEPT !.pc = "waiting"])
  /\ UNCHANGED <<lines, run, intent, closer, queue, dead, disbursed, crashes>>

\* payments compares the key only: a replay answers for the amount of its first use.
Call(h) ==
  LET j == handler[h] IN
  /\ j.pc = "call"
  /\ CASE key[j.id].state = "free" ->
            /\ key' = [key EXCEPT ![j.id] = [state |-> "running", amount |-> j.copy.amount]]
            /\ SetHandler(h, [j EXCEPT !.pc = "waiting"])
       [] key[j.id].state = "answered" ->
            SetHandler(h, [j EXCEPT !.pc = "accepted"]) /\ UNCHANGED key
       [] OTHER -> SetHandler(h, [j EXCEPT !.pc = "refused"]) /\ UNCHANGED key
  /\ UNCHANGED <<lines, run, intent, closer, queue, dead, disbursed, crashes>>

\* httpx raises on a timeout or a broken connection, which is no
\* PaymentsClientError: the intent stays as it is, payments may go on.
CallRaises(h) ==
  /\ handler[h].pc \in {"call", "waiting"}
  /\ SetHandler(h, IdleHandler)
  /\ UNCHANGED <<lines, run, intent, closer, queue, dead, paymentsVars, crashes>>

\* One more transfer, of the commission of the sales in amount.
Added(counts, amount) == [s \in Sales |-> counts[s] + (IF s \in amount THEN 1 ELSE 0)]

\* payments answers 2xx, or fails with the key left in progress; in both cases the
\* money may or may not have gone out (a timeout is answered 202).
Execute(a) ==
  /\ key[a].state = "running"
  /\ \E s \in {"answered", "stuck"} :
       /\ key' = [key EXCEPT ![a].state = s]
       /\ handler' = [h \in Handlers |->
            IF handler[h].pc = "waiting" /\ handler[h].id = a
              THEN [handler[h] EXCEPT !.pc = IF s = "answered" THEN "accepted" ELSE "refused"]
              ELSE handler[h]]
  /\ \E amount \in {{}, key[a].amount} : disbursed' = [disbursed EXCEPT ![a] = Added(@, amount)]
  /\ UNCHANGED <<lines, run, intent, closer, queue, dead, crashes>>

\* Only the columns that differ from the copy are written, never the amount.
WriteSubmitted(h) ==
  LET j == handler[h] IN
  /\ j.pc = "accepted"
  /\ intent' = [intent EXCEPT ![j.id] =
                  [Written(@, j.copy, "submitted", j.copy.amount) EXCEPT !.payout = TRUE]]
  /\ SetHandler(h, IdleHandler)
  /\ UNCHANGED <<lines, run, closer, queue, dead, paymentsVars, crashes>>

\* Mutant: the state is not one of PayoutIntentState.
WriteFailedMisspelt(h) ==
  LET j == handler[h] IN
  /\ j.pc = "refused"
  /\ intent' = [intent EXCEPT ![j.id] = Written(@, j.copy, "failure", j.copy.amount)]
  /\ SetHandler(h, IdleHandler)
  /\ UNCHANGED <<lines, run, closer, queue, dead, paymentsVars, crashes>>

\* Any reply but 2xx, a 409 for a key in progress included.
WriteFailed(h) ==
  LET j == handler[h] IN
  /\ j.pc = "refused"
  /\ intent' = [intent EXCEPT ![j.id] = Written(@, j.copy, "failed", j.copy.amount)]
  /\ SetHandler(h, IdleHandler)
  /\ UNCHANGED <<lines, run, closer, queue, dead, paymentsVars, crashes>>

SubmitStep(h) == Call(h) \/ WriteSubmitted(h) \/ WriteFailed(h)

-------------------------------------------------------------------------------
(* The worker; process death *)

\* lifespan builds the worker's services with session=None, for which deps.py
\* hands out the in-memory repositories, database or not: nothing fills them.
WorkerIntents == [a \in Attendants |-> NoRow]

\* A message for an intent that is not found raises and stays in the queue; after
\* its third delivery SQS moves it to the dead letter queue.
WorkerReceive(a) ==
  /\ a \in queue
  /\ ~Submits(WorkerIntents[a])
  /\ queue' = queue \ {a}
  /\ dead' = dead \union {a}
  /\ UNCHANGED <<lines, run, intent, closer, handler, paymentsVars, crashes>>

Crash ==
  /\ crashes < MaxCrashes
  /\ crashes' = crashes + 1
  /\ closer' = [c \in Closers |->
                  IF closer[c].pc \in RunningPC THEN Ended("killed") ELSE closer[c]]
  /\ handler' = [h \in Handlers |-> IdleHandler]
  /\ UNCHANGED <<lines, run, intent, queue, dead, paymentsVars>>

Next ==
  \/ \E c \in Closers : ReadRun(c) \/ CloseStep(c)
  \/ \E h \in Handlers, a \in Attendants : BeginSubmit(h, a)
  \/ \E h \in Handlers : SubmitStep(h) \/ CallRaises(h)
  \/ \E a \in Attendants : Execute(a) \/ WorkerReceive(a)
  \/ Crash

Spec == Init /\ [][Next]_vars

\* Close runs, handlers, the worker and payments run on.
FairSpec ==
  /\ Spec
  /\ \A c \in Closers : WF_vars(CloseStep(c))
  /\ \A h \in Handlers : WF_vars(SubmitStep(h))
  /\ \A a \in Attendants : WF_vars(Execute(a)) /\ WF_vars(WorkerReceive(a))

\* And somebody repeats POST /internal/payout until the row says submitted, over a
\* network that does not lose every call.
RetriedSpec ==
  /\ FairSpec
  /\ \A a \in Attendants :
       /\ SF_vars(\E h \in Handlers : BeginSubmit(h, a))
       /\ SF_vars(\E h \in Handlers : Call(h) /\ handler[h].id = a)

-------------------------------------------------------------------------------
(* Safety *)

\* What payments disburses for an attendant is owed to this attendant, and over all the
\* transfers it makes each line is paid at most once: through any overlap of close runs and
\* payout requests, retries of refused or unanswered ones, and process deaths.
NeverOverpaid ==
  \A a \in Attendants, s \in Sales :
    /\ disbursed[a][s] <= 1
    /\ disbursed[a][s] > 0 => s \in lines /\ Seller[s] = a

\* A payout id is stored only for a payout the payments service has, and every
\* submitted intent stores one.
SubmittedMeansPayout ==
  \A a \in Attendants :
    /\ intent[a].state = "submitted" => intent[a].payout
    /\ intent[a].payout => key[a].state = "answered"

\* A close run that finishes leaves nobody out, whatever earlier runs did before
\* they died: each attendant with commission on a sale or line it has seen has a
\* payout, or has been sent a message for one.
NoAttendantDropped ==
  \A c \in Closers : closer[c].pc = "done" =>
    \A s \in closer[c].seen \ Zero :
      Seller[s] \in Contactable =>
        \/ intent[Seller[s]].payout
        \/ intent[Seller[s]].state # "absent" /\ Seller[s] \in queue \union dead

\* Once a payout id is stored, no close run and no racing payout request, however
\* old its copy of the row, takes it away.
PayoutIdIsKept ==
  [][\A a \in Attendants : intent[a].payout => intent'[a].payout]_vars

-------------------------------------------------------------------------------
(* Liveness, under RetriedSpec *)

\* A payout the payments service answered for is recorded in the end, lost
\* replies, conflicts and overlapping close runs notwithstanding.
AnsweredIsRecorded ==
  \A a \in Attendants : key[a].state = "answered" ~> intent[a].state = "submitted"

-------------------------------------------------------------------------------
(* What documentation says and the code does not keep *)

\* infra/modules/messaging/main.tf: commission payout requests, one message per
\* attendant.  So a message leads to the payout it requests; under FairSpec.
QueuedPayoutIsSubmitted ==
  \A a \in Attendants : a \in queue ~> intent[a].state = "submitted"
===============================================================================
