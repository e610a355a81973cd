------------------------- MODULE StkCollectionProofs -------------------------
(***************************************************************************)
(* Machine-checked safety of StkCollection for any number of requests,     *)
(* handlers, sales, keys and process deaths.                               *)
(***************************************************************************)
EXTENDS StkCollection, FiniteSetTheorems, TLAPS

\* The records the handler actions build are jobs.
LEMMA IdleJobType == IdleJob \in Job
  BY DEF IdleJob, Job, JobRecord, JobPC, RowStates, PaymentStates

\* A busy handler that moves to another step is still a job.
LEMMA JobStepType ==
  ASSUME NEW j \in Job, j.pc \notin {"idle", "next"}, NEW step \in JobPC
  PROVE  [j EXCEPT !.pc = step] \in Job
  BY DEF Job, JobRecord

LEMMA SetJobType ==
  ASSUME job \in [Handlers -> Job], NEW h \in Handlers, NEW j \in Job, SetJob(h, j)
  PROVE  job' \in [Handlers -> Job]
  BY DEF SetJob

-------------------------------------------------------------------------------
\* Every variable keeps its type through every request, callback,
\* reconciliation and crash.
THEOREM TypeCorrect == Spec => []TypeOK
<1>1. Init => TypeOK
  BY IdleJobType, MaxCrashesAssumption DEF Init, TypeOK, RowStates, Prompts
<1>2. TypeOK /\ [Next]_vars => TypeOK'
  <2> SUFFICES ASSUME TypeOK, [Next]_vars PROVE TypeOK'
    OBVIOUS
  <2> USE DEF requestVars, databaseVars, posVars
  <2>1. ASSUME NEW r \in Requests, RequestStep(r) PROVE TypeOK'
    <3> USE <2>1 DEF TypeOK, Goto, RunningPC, EndPC, RequestInput
    <3>1. CASE Begin(r)         BY <3>1 DEF Begin, ReadKey
    <3>2. CASE TryBegin(r)      BY <3>2 DEF TryBegin, ReadKey
    <3>3. CASE LookupSale(r)    BY <3>3 DEF LookupSale
    <3>4. CASE LookupKey(r)     BY <3>4 DEF LookupKey
    <3>5. CASE Save(r)          BY <3>5 DEF Save, RowStates, PaymentStates
    <3>6. CASE InitiateStkPush(r)
      BY <3>6 DEF InitiateStkPush, Prompts
    <3>7. CASE UpdateStkSent(r)
      BY <3>7 DEF UpdateStkSent, RowStates, PaymentStates
    <3>8. CASE UpdatePendingReconciliation(r)
      BY <3>8 DEF UpdatePendingReconciliation, RowStates, PaymentStates
    <3>9. CASE EnqueueReconciliation(r) BY <3>9 DEF EnqueueReconciliation
    <3>10. CASE Complete(r)     BY <3>10 DEF Complete
    <3> QED BY <2>1, <3>1, <3>2, <3>3, <3>4, <3>5, <3>6, <3>7, <3>8, <3>9, <3>10
              DEF RequestStep
  <2>2. ASSUME NEW h \in Handlers, HandlerStep(h) PROVE TypeOK'
    <3>0. /\ job \in [Handlers -> Job] /\ job[h] \in Job /\ IdleJob \in Job
          /\ job[h].pc \notin {"idle", "next"} => job[h].id \in Requests
      BY IdleJobType DEF TypeOK, Job
    <3> USE DEF TypeOK
    <3>1. CASE TryInsertCallback(h)
      <4>1. job' \in [Handlers -> Job]
        BY <3>0, <3>1, JobStepType, SetJobType DEF TryInsertCallback, JobGoto, JobPC
      <4>2. callbacks' \subseteq Requests
        BY <3>0, <3>1 DEF TryInsertCallback
      <4> QED BY <3>1, <4>1, <4>2 DEF TryInsertCallback
    <3>2. CASE SettleIgnored(h)
      <4>1. job' \in [Handlers -> Job]
        BY <3>0, <3>2, JobStepType, SetJobType DEF SettleIgnored, JobGoto, JobPC
      <4> QED BY <3>2, <4>1 DEF SettleIgnored
    <3>3. CASE SettleUpdate(h)
      <4>1. job' \in [Handlers -> Job]
        BY <3>0, <3>3, JobStepType, SetJobType DEF SettleUpdate, JobGoto, JobPC
      <4>2. payment' \in [Requests -> RowStates]
        BY <3>3 DEF SettleUpdate, Target, RowStates, PaymentStates
      <4> QED BY <3>3, <4>1, <4>2 DEF SettleUpdate
    <3>4. CASE Refresh(h)
      <4>1. [job[h] EXCEPT !.seen = payment[job[h].id],
                           !.pc = IF job[h].ok THEN "count" ELSE "notify"] \in Job
        BY <3>0, <3>4 DEF Refresh, Job, JobRecord, JobPC
      <4>2. job' \in [Handlers -> Job]
        BY <3>0, <3>4, <4>1, SetJobType DEF Refresh
      <4> QED BY <3>4, <4>2 DEF Refresh
    <3>5. CASE CountLedger(h)
      <4>1. job' \in [Handlers -> Job]
        BY <3>0, <3>5, JobStepType, SetJobType DEF CountLedger, JobGoto, JobPC
      <4> QED BY <3>5, <4>1 DEF CountLedger
    <3>6. CASE AppendLedger(h)
      <4>1. job' \in [Handlers -> Job]
        BY <3>0, <3>6, JobStepType, SetJobType DEF AppendLedger, JobGoto, JobPC
      <4>2. ledger' \in [Requests -> Nat]
        BY <3>0, <3>6 DEF AppendLedger
      <4> QED BY <3>6, <4>1, <4>2 DEF AppendLedger
    <3>7. CASE NotifyPos(h)
      <4>1. job' \in [Handlers -> Job]
        BY <3>0, <3>7, JobStepType, SetJobType DEF NotifyPos, JobGoto, JobPC
      <4>2. unreached' \subseteq Requests
        BY <3>0, <3>7 DEF NotifyPos
      <4>3. reported' \in [Requests -> SUBSET {"paid", "failed"}]
        BY <3>7 DEF NotifyPos
      <4> QED BY <3>7, <4>1, <4>2, <4>3 DEF NotifyPos
    <3>8. CASE NextMessage(h)
      <4>1. ASSUME NEW p \in job[h].todo
            PROVE  [job[h] EXCEPT !.id = p, !.todo = job[h].todo \ {p}, !.seen = payment[p],
                      !.pc = IF Queryable(p) THEN "query" ELSE "mark"] \in Job
        BY <3>0 DEF Job, JobRecord, JobPC
      <4>2. job' \in [Handlers -> Job]
        BY <3>0, <3>8, <4>1, SetJobType DEF NextMessage
      <4> QED BY <3>8, <4>2 DEF NextMessage
    <3>9. CASE DrainDone(h)
      <4>1. job' \in [Handlers -> Job]
        BY <3>0, <3>9, SetJobType DEF DrainDone
      <4> QED BY <3>9, <4>1 DEF DrainDone
    <3>10. CASE QueryTransactionStatus(h)
      <4>1. ASSUME NEW ok \in BOOLEAN
            PROVE  [job[h] EXCEPT !.ok = ok, !.match = TRUE, !.pc = "settle"] \in Job
        BY <3>0, <3>10 DEF QueryTransactionStatus, Job, JobRecord, JobPC
      <4>2. QuerySucceeds(job[h].id) \in BOOLEAN
        BY DEF QuerySucceeds, Charged
      <4>3. job' \in [Handlers -> Job]
        BY <3>0, <3>10, <4>1, <4>2, SetJobType DEF QueryTransactionStatus
      <4> QED BY <3>10, <4>3 DEF QueryTransactionStatus
    <3>11. CASE MarkPublished(h)
      <4>1. [IdleJob EXCEPT !.pc = "next", !.kind = "drain", !.todo = job[h].todo] \in Job
        BY <3>0 DEF IdleJob, Job, JobRecord, JobPC
      <4>2. job' \in [Handlers -> Job]
        BY <3>0, <3>11, <4>1, SetJobType DEF MarkPublished
      <4> QED BY <3>11, <4>2 DEF MarkPublished
    <3> QED BY <2>2, <3>1, <3>2, <3>3, <3>4, <3>5, <3>6, <3>7, <3>8, <3>9, <3>10, <3>11
              DEF HandlerStep
  <2>3. ASSUME NEW h \in Handlers, ListUnpublished(h) PROVE TypeOK'
    <3>1. [IdleJob EXCEPT !.pc = "next", !.kind = "drain", !.todo = outbox] \in Job
      BY IdleJobType DEF TypeOK, IdleJob, Job, JobRecord, JobPC
    <3>2. job' \in [Handlers -> Job]
      BY <2>3, <3>1, SetJobType DEF ListUnpublished, TypeOK
    <3> QED BY <2>3, <3>2 DEF TypeOK, ListUnpublished
  <2>4. ASSUME NEW h \in Handlers, QueryRaises(h) PROVE TypeOK'
    <3>1. job' \in [Handlers -> Job]
      BY <2>4, IdleJobType, SetJobType DEF QueryRaises, TypeOK
    <3> QED BY <2>4, <3>1 DEF TypeOK, QueryRaises
  <2>5. ASSUME NEW h \in Handlers, NEW p \in Requests, ReceiveCallback(h, p)
        PROVE TypeOK'
    <3>1. ASSUME NEW ok \in BOOLEAN, NEW match \in BOOLEAN
          PROVE  [IdleJob EXCEPT !.pc = "insert", !.id = p, !.ok = ok, !.match = match,
                                 !.seen = payment[p]] \in Job
      BY IdleJobType DEF TypeOK, IdleJob, Job, JobRecord, JobPC
    <3>2. job' \in [Handlers -> Job]
      BY <2>5, <3>1, SetJobType DEF ReceiveCallback, TypeOK
    <3> QED BY <2>5, <3>2 DEF TypeOK, ReceiveCallback
  <2>6. ASSUME NEW h \in Handlers, NEW p \in Requests, ReconcilePayment(h, p)
        PROVE TypeOK'
    <3>1. [IdleJob EXCEPT !.pc = "query", !.kind = "reconcile", !.id = p,
                          !.seen = payment[p]] \in Job
      BY IdleJobType DEF TypeOK, IdleJob, Job, JobRecord, JobPC
    <3>2. job' \in [Handlers -> Job]
      BY <2>6, <3>1, SetJobType DEF ReconcilePayment, TypeOK
    <3> QED BY <2>6, <3>2 DEF TypeOK, ReconcilePayment
  <2>7. ASSUME NEW p \in Requests, CustomerPays(p) \/ PromptFails(p) PROVE TypeOK'
    BY <2>7 DEF TypeOK, CustomerPays, PromptFails, Prompts
  <2>8. CASE Crash
    BY <2>8, IdleJobType, MaxCrashesAssumption DEF TypeOK, Crash, RunningPC, EndPC
  <2>9. CASE UNCHANGED vars
    BY <2>9 DEF TypeOK, vars
  <2> QED BY <2>1, <2>2, <2>3, <2>4, <2>5, <2>6, <2>7, <2>8, <2>9 DEF Next
<1> QED BY <1>1, <1>2, PTL DEF Spec

-------------------------------------------------------------------------------
(* Settlement *)

BeforePush == {"idle", "try_begin", "lookup_sale", "lookup_key", "save", "push"}

\* Until the request has stored the provider's ids its row is pending, and until
\* it has pushed there is no prompt.
RequestInv ==
  \A r \in Requests :
    /\ pc[r] \in {"push", "sent", "timed_out"} => payment[r] = "pending" /\ ~checkout[r]
    /\ pc[r] \in BeforePush => prompt[r] = "none"

CheckoutInv ==
  \A p \in Requests : checkout[p] => payment[p] \notin {"absent", "pending"}

\* What a busy handler knows about its payment.
JobInv(j) ==
  /\ j.pc \in {"insert", "query", "settle", "refresh", "count", "append", "notify"} =>
       checkout[j.id]
  /\ j.pc \in {"insert", "query", "settle"} => j.seen \notin {"absent", "pending"}
  /\ j.pc \in {"insert", "settle", "refresh", "count", "append"} /\ j.ok => Charged(j.id)
  /\ j.pc \in {"count", "append"} => j.ok
  /\ j.pc \notin {"idle", "next"} /\ j.seen = "paid" => Charged(j.id)

\* The inductive strengthening of PaidMeansCharged and BookedMeansCharged.
SettlementInv ==
  /\ RequestInv
  /\ CheckoutInv
  /\ \A h \in Handlers : JobInv(job[h])
  /\ PaidMeansCharged
  /\ BookedMeansCharged

\* A step of an initiation request.
LEMMA RequestStepSettlement ==
  ASSUME TypeOK, SettlementInv, NEW r \in Requests, RequestStep(r)
  PROVE  SettlementInv'
<1> USE DEF TypeOK, Saved, Charged, requestVars, databaseVars, posVars, Goto
<1>1. /\ job' = job /\ ledger' = ledger /\ reported' = reported
      /\ \A p \in Requests : p # r => /\ pc'[p] = pc[p] /\ payment'[p] = payment[p]
                                     /\ checkout'[p] = checkout[p] /\ prompt'[p] = prompt[p]
  <2>1. CASE Begin(r)
    BY <2>1 DEF Begin, ReadKey
  <2>2. CASE TryBegin(r)
    BY <2>2 DEF TryBegin, ReadKey
  <2>3. CASE LookupSale(r)
    BY <2>3 DEF LookupSale
  <2>4. CASE LookupKey(r)
    BY <2>4 DEF LookupKey
  <2>5. CASE Save(r)
    BY <2>5 DEF Save
  <2>6. CASE InitiateStkPush(r)
    BY <2>6 DEF InitiateStkPush
  <2>7. CASE UpdateStkSent(r)
    BY <2>7 DEF UpdateStkSent
  <2>8. CASE UpdatePendingReconciliation(r)
    BY <2>8 DEF UpdatePendingReconciliation
  <2>9. CASE EnqueueReconciliation(r)
    BY <2>9 DEF EnqueueReconciliation
  <2>10. CASE Complete(r)
    BY <2>10 DEF Complete
  <2> QED BY <2>1, <2>2, <2>3, <2>4, <2>5, <2>6, <2>7, <2>8, <2>9, <2>10 DEF RequestStep
<1>2. /\ checkout[r] => checkout'[r] /\ payment'[r] = payment[r]
      /\ prompt[r] # "none" => prompt'[r] = prompt[r]
      /\ checkout'[r] => payment'[r] \notin {"absent", "pending"}
      /\ payment'[r] \in PaymentTerminal => payment[r] = payment'[r]
      /\ pc'[r] \in {"push", "sent", "timed_out"} => payment'[r] = "pending" /\ ~checkout'[r]
      /\ pc'[r] \in BeforePush => prompt'[r] = "none"
  <2> USE DEF SettlementInv, RequestInv, CheckoutInv, BeforePush, PaymentTerminal
  <2>1. CASE Begin(r)
    BY <2>1 DEF Begin, ReadKey
  <2>2. CASE TryBegin(r)
    BY <2>2 DEF TryBegin, ReadKey
  <2>3. CASE LookupSale(r)
    BY <2>3 DEF LookupSale
  <2>4. CASE LookupKey(r)
    BY <2>4 DEF LookupKey
  <2>5. CASE Save(r)
    BY <2>5 DEF Save, Unique
  <2>6. CASE InitiateStkPush(r)
    BY <2>6 DEF InitiateStkPush
  <2>7. CASE UpdateStkSent(r)
    BY <2>7 DEF UpdateStkSent
  <2>8. CASE UpdatePendingReconciliation(r)
    BY <2>8 DEF UpdatePendingReconciliation
  <2>9. CASE EnqueueReconciliation(r)
    BY <2>9 DEF EnqueueReconciliation
  <2>10. CASE Complete(r)
    BY <2>10 DEF Complete
  <2> QED BY <2>1, <2>2, <2>3, <2>4, <2>5, <2>6, <2>7, <2>8, <2>9, <2>10 DEF RequestStep
<1>3. \A p \in Requests : (checkout[p] => checkout'[p]) /\ (Charged(p) => Charged(p)')
  BY <1>1, <1>2
<1>4. RequestInv' /\ CheckoutInv'
  BY <1>1, <1>2 DEF SettlementInv, RequestInv, CheckoutInv
<1>5. \A h \in Handlers : JobInv(job[h])'
  BY <1>1, <1>3 DEF SettlementInv, JobInv, Job, JobRecord
<1>6. PaidMeansCharged' /\ BookedMeansCharged'
  BY <1>1, <1>2, <1>3 DEF SettlementInv, PaidMeansCharged, BookedMeansCharged, PaymentTerminal
<1> QED BY <1>4, <1>5, <1>6 DEF SettlementInv

\* A handler that changes what it does, and whose new job knows enough.
LEMMA JobsKept ==
  ASSUME TypeOK, SettlementInv, NEW h \in Handlers, NEW j, SetJob(h, j), JobInv(j),
         UNCHANGED <<checkout, prompt>>
  PROVE  (\A g \in Handlers : JobInv(job[g]))'
<1> SUFFICES ASSUME NEW g \in Handlers PROVE JobInv(job[g])'
  OBVIOUS
<1>1. CASE g = h
  <2>1. job'[g] = j
    BY <1>1 DEF SetJob, TypeOK
  <2> QED BY <2>1 DEF JobInv, Charged
<1>2. CASE g # h
  <2>1. job'[g] = job[g]
    BY <1>2 DEF SetJob, TypeOK
  <2>2. JobInv(job[g])
    BY DEF SettlementInv
  <2> QED BY <2>1, <2>2 DEF JobInv, Charged
<1> QED BY <1>1, <1>2

\* A handler step that only reads the database and moves on.
LEMMA ReadStepSettlement ==
  ASSUME TypeOK, SettlementInv, NEW h \in Handlers, NEW j, SetJob(h, j), JobInv(j),
         UNCHANGED <<pc, payment, checkout, ledger, prompt, reported>>
  PROVE  SettlementInv'
<1>1. (\A g \in Handlers : JobInv(job[g]))'
  BY JobsKept
<1> QED BY <1>1 DEF SettlementInv, RequestInv, CheckoutInv, PaidMeansCharged,
                    BookedMeansCharged, Charged

LEMMA IdleJobInv == JobInv(IdleJob)
  BY DEF JobInv, IdleJob

\* A step of a busy callback, reconciliation or drain handler.
LEMMA HandlerStepSettlement ==
  ASSUME TypeOK, SettlementInv, NEW h \in Handlers, HandlerStep(h)
  PROVE  SettlementInv'
<1> DEFINE j == job[h]
<1>0. /\ j \in Job /\ JobInv(j)
      /\ j.pc \notin {"idle", "next"} => j.id \in Requests
  BY DEF TypeOK, Job, SettlementInv
<1> USE DEF requestVars, databaseVars, posVars, JobGoto
<1>1. CASE TryInsertCallback(h)
  <2>1. JobInv([j EXCEPT !.pc = "settle"])
    BY <1>0, <1>1 DEF TryInsertCallback, JobInv, Job, JobRecord
  <2> QED BY <1>1, <2>1, IdleJobInv, ReadStepSettlement DEF TryInsertCallback
<1>2. CASE SettleIgnored(h)
  <2>1. JobInv([j EXCEPT !.pc = "notify"])
    BY <1>0, <1>2 DEF SettleIgnored, JobInv, Job, JobRecord
  <2> QED BY <1>2, <2>1, ReadStepSettlement DEF SettleIgnored
<1>3. CASE SettleUpdate(h)
  <2>1. /\ checkout[j.id] /\ j.id \in Requests
        /\ j.ok => Charged(j.id)
    BY <1>0, <1>3 DEF SettleUpdate, JobInv
  <2>2. JobInv([j EXCEPT !.pc = "refresh"])
    BY <1>0, <1>3 DEF SettleUpdate, JobInv, Job, JobRecord
  <2>3. (\A g \in Handlers : JobInv(job[g]))'
    BY <1>3, <2>2, JobsKept DEF SettleUpdate
  <2>4. (RequestInv /\ CheckoutInv)'
    BY <1>3, <2>1 DEF SettleUpdate, SettlementInv, RequestInv, CheckoutInv, Target, TypeOK
  <2>5. (PaidMeansCharged /\ BookedMeansCharged)'
    BY <1>3, <2>1 DEF SettleUpdate, SettlementInv, PaidMeansCharged, BookedMeansCharged,
                      Charged, Target, TypeOK
  <2> QED BY <2>3, <2>4, <2>5 DEF SettlementInv
<1>4. CASE Refresh(h)
  <2>1. j.id \in Requests /\ (payment[j.id] = "paid" => Charged(j.id))
    BY <1>0, <1>4 DEF Refresh, SettlementInv, PaidMeansCharged
  <2>2. JobInv([j EXCEPT !.seen = payment[j.id],
                         !.pc = IF j.ok THEN "count" ELSE "notify"])
    BY <1>0, <1>4, <2>1 DEF Refresh, JobInv, Job, JobRecord
  <2> QED BY <1>4, <2>2, ReadStepSettlement DEF Refresh
<1>5. CASE CountLedger(h)
  <2>1. /\ JobInv([j EXCEPT !.pc = "append"])
        /\ JobInv([j EXCEPT !.pc = "notify"])
    BY <1>0, <1>5 DEF CountLedger, JobInv, Job, JobRecord
  <2> QED BY <1>5, <2>1, ReadStepSettlement DEF CountLedger
<1>6. CASE AppendLedger(h)
  <2>1. j.id \in Requests /\ Charged(j.id)
    BY <1>0, <1>6 DEF AppendLedger, JobInv
  <2>2. JobInv([j EXCEPT !.pc = "notify"])
    BY <1>0, <1>6 DEF AppendLedger, JobInv, Job, JobRecord
  <2>3. (\A g \in Handlers : JobInv(job[g]))'
    BY <1>6, <2>2, JobsKept DEF AppendLedger
  <2>4. (RequestInv /\ CheckoutInv /\ PaidMeansCharged)'
    BY <1>6 DEF AppendLedger, SettlementInv, RequestInv, CheckoutInv, PaidMeansCharged, Charged
  <2>5. BookedMeansCharged'
    BY <1>6, <2>1 DEF AppendLedger, SettlementInv, BookedMeansCharged, Charged, TypeOK
  <2> QED BY <2>3, <2>4, <2>5 DEF SettlementInv
<1>7. CASE NotifyPos(h)
  <2>1. j.id \in Requests /\ (j.seen = "paid" => Charged(j.id))
    BY <1>0, <1>7 DEF NotifyPos, JobInv
  <2>2. JobInv([j EXCEPT !.pc = "mark"])
    BY <1>0, <1>7 DEF NotifyPos, JobInv, Job, JobRecord
  <2>3. (\A g \in Handlers : JobInv(job[g]))'
    BY <1>7, <2>2, IdleJobInv, JobsKept DEF NotifyPos
  <2>4. (RequestInv /\ CheckoutInv /\ PaidMeansCharged)'
    BY <1>7 DEF NotifyPos, SettlementInv, RequestInv, CheckoutInv, PaidMeansCharged, Charged
  <2>5. \A p \in Requests :
          "paid" \in reported'[p] => "paid" \in reported[p] \/ Charged(p)
    BY <1>7, <2>1 DEF NotifyPos, TypeOK
  <2>6. BookedMeansCharged'
    BY <1>7, <2>5 DEF NotifyPos, SettlementInv, BookedMeansCharged, Charged
  <2> QED BY <2>3, <2>4, <2>6 DEF SettlementInv
<1>8. CASE NextMessage(h)
  <2>1. ASSUME NEW p \in j.todo
        PROVE  JobInv([j EXCEPT !.id = p, !.todo = j.todo \ {p}, !.seen = payment[p],
                                !.pc = IF Queryable(p) THEN "query" ELSE "mark"])
    <3>1. /\ p \in Requests
          /\ payment[p] = "paid" => Charged(p)
          /\ Queryable(p) => checkout[p] /\ payment[p] \notin {"absent", "pending"}
      BY <1>0 DEF Job, JobRecord, Queryable, SettlementInv, CheckoutInv, PaidMeansCharged
    <3> QED BY <1>0, <3>1 DEF JobInv, Job, JobRecord
  <2> QED BY <1>8, <2>1, ReadStepSettlement DEF NextMessage
<1>9. CASE DrainDone(h)
  BY <1>9, IdleJobInv, ReadStepSettlement DEF DrainDone
<1>10. CASE QueryTransactionStatus(h)
  <2>1. JobInv([j EXCEPT !.ok = QuerySucceeds(j.id), !.match = TRUE, !.pc = "settle"])
    BY <1>0, <1>10 DEF QueryTransactionStatus, QuerySucceeds, JobInv, Job, JobRecord
  <2> QED BY <1>10, <2>1, ReadStepSettlement DEF QueryTransactionStatus
<1>11. CASE MarkPublished(h)
  <2>1. JobInv([IdleJob EXCEPT !.pc = "next", !.kind = "drain", !.todo = j.todo])
    BY DEF JobInv, IdleJob
  <2> QED BY <1>11, <2>1, ReadStepSettlement DEF MarkPublished
<1> QED BY <1>1, <1>2, <1>3, <1>4, <1>5, <1>6, <1>7, <1>8, <1>9, <1>10, <1>11 DEF HandlerStep

\* A handler that starts, or a query that raises.
LEMMA StartStepSettlement ==
  ASSUME TypeOK, SettlementInv, NEW h \in Handlers,
         \/ ListUnpublished(h) \/ QueryRaises(h)
         \/ \E p \in Requests : ReceiveCallback(h, p) \/ ReconcilePayment(h, p)
  PROVE  SettlementInv'
<1> USE DEF requestVars, databaseVars, posVars
<1>1. CASE ListUnpublished(h)
  <2>1. JobInv([IdleJob EXCEPT !.pc = "next", !.kind = "drain", !.todo = outbox])
    BY DEF JobInv, IdleJob
  <2> QED BY <1>1, <2>1, ReadStepSettlement DEF ListUnpublished
<1>2. CASE QueryRaises(h)
  BY <1>2, IdleJobInv, ReadStepSettlement DEF QueryRaises
<1>3. ASSUME NEW p \in Requests, ReceiveCallback(h, p) PROVE SettlementInv'
  <2>1. /\ checkout[p] /\ payment[p] \notin {"absent", "pending"}
        /\ payment[p] = "paid" => Charged(p)
    BY <1>3 DEF ReceiveCallback, SettlementInv, CheckoutInv, PaidMeansCharged
  <2>2. ASSUME NEW ok \in BOOLEAN, NEW match \in BOOLEAN, ok => Charged(p)
        PROVE  JobInv([IdleJob EXCEPT !.pc = "insert", !.id = p, !.ok = ok,
                                      !.match = match, !.seen = payment[p]])
    BY <2>1, <2>2 DEF JobInv, IdleJob
  <2> QED BY <1>3, <2>2, ReadStepSettlement DEF ReceiveCallback
<1>4. ASSUME NEW p \in Requests, ReconcilePayment(h, p) PROVE SettlementInv'
  <2>1. /\ checkout[p] /\ payment[p] \notin {"absent", "pending"}
        /\ payment[p] = "paid" => Charged(p)
    BY <1>4 DEF ReconcilePayment, Queryable, SettlementInv, CheckoutInv, PaidMeansCharged
  <2>2. JobInv([IdleJob EXCEPT !.pc = "query", !.kind = "reconcile", !.id = p,
                               !.seen = payment[p]])
    BY <2>1 DEF JobInv, IdleJob
  <2> QED BY <1>4, <2>2, ReadStepSettlement DEF ReconcilePayment
<1> QED BY <1>1, <1>2, <1>3, <1>4

\* What the customer, Daraja and a process death do.
LEMMA OutsideStepSettlement ==
  ASSUME TypeOK, SettlementInv,
         Crash \/ \E p \in Requests : CustomerPays(p) \/ PromptFails(p)
  PROVE  SettlementInv'
<1> USE DEF requestVars, databaseVars, posVars
<1>1. ASSUME NEW p \in Requests, CustomerPays(p) \/ PromptFails(p) PROVE SettlementInv'
  <2>1. /\ \A q \in Requests : Charged(q) => Charged(q)'
        /\ \A q \in Requests : prompt[q] = "none" => prompt'[q] = "none"
    BY <1>1 DEF CustomerPays, PromptFails, Charged, TypeOK
  <2>2. UNCHANGED <<pc, payment, checkout, job, ledger, reported>>
    BY <1>1 DEF CustomerPays, PromptFails
  <2>3. (RequestInv /\ CheckoutInv /\ PaidMeansCharged /\ BookedMeansCharged)'
    BY <2>1, <2>2 DEF SettlementInv, RequestInv, CheckoutInv, PaidMeansCharged,
                      BookedMeansCharged
  <2>4. (\A h \in Handlers : JobInv(job[h]))'
    <3> SUFFICES ASSUME NEW h \in Handlers PROVE JobInv(job[h])'
      OBVIOUS
    <3>1. JobInv(job[h]) /\ job[h] \in Job
      BY DEF SettlementInv, TypeOK
    <3> QED BY <2>1, <2>2, <3>1 DEF JobInv, Job
  <2> QED BY <2>3, <2>4 DEF SettlementInv
<1>2. CASE Crash
  <2>1. \A r \in Requests : pc'[r] = pc[r] \/ pc'[r] = "killed"
    BY <1>2 DEF Crash, TypeOK
  <2>2. UNCHANGED <<payment, checkout, prompt, ledger, reported>>
    BY <1>2 DEF Crash
  <2>3. (RequestInv /\ CheckoutInv /\ PaidMeansCharged /\ BookedMeansCharged)'
    BY <2>1, <2>2 DEF SettlementInv, RequestInv, CheckoutInv, PaidMeansCharged,
                      BookedMeansCharged, Charged, BeforePush
  <2>4. (\A h \in Handlers : JobInv(job[h]))'
    BY <1>2 DEF Crash, JobInv, IdleJob
  <2> QED BY <2>3, <2>4 DEF SettlementInv
<1> QED BY <1>1, <1>2

\* The invariant holds at all times: what any request, handler, customer or crash
\* may do keeps what every other handler knows true.
LEMMA SettlementInvariant == Spec => []SettlementInv
<1>1. Init => SettlementInv
  BY IdleJobInv DEF Init, SettlementInv, RequestInv, CheckoutInv, BeforePush,
                    PaidMeansCharged, BookedMeansCharged
<1>2. TypeOK /\ SettlementInv /\ [Next]_vars => SettlementInv'
  <2> SUFFICES ASSUME TypeOK, SettlementInv, [Next]_vars PROVE SettlementInv'
    OBVIOUS
  <2>1. CASE UNCHANGED vars
    BY <2>1 DEF vars, SettlementInv, RequestInv, CheckoutInv, JobInv, PaidMeansCharged,
                BookedMeansCharged, Charged
  <2> QED BY <2>1, RequestStepSettlement, HandlerStepSettlement, StartStepSettlement,
             OutsideStepSettlement DEF Next
<1> QED BY <1>1, <1>2, TypeCorrect, PTL DEF Spec

\* A payment is PAID only if Daraja took the customer's money: no stale copy of a
\* row, no duplicate, late or reordered callback, no query and no process death
\* settles it otherwise.
THEOREM PaidOnlyIfCharged == Spec => []PaidMeansCharged
<1>1. SettlementInv => PaidMeansCharged
  BY DEF SettlementInv
<1> QED BY <1>1, SettlementInvariant, PTL

\* The ledger books a charge, and POS hears "paid", only for money Daraja took.
THEOREM BookedOnlyIfCharged == Spec => []BookedMeansCharged
<1>1. SettlementInv => BookedMeansCharged
  BY DEF SettlementInv
<1> QED BY <1>1, SettlementInvariant, PTL

\* assert_payment_transition never raises inside a settlement, although it judges
\* a copy of the row that another handler may have overtaken.
THEOREM SettlementNeverRaises == Spec => []SettlementAlwaysLegal
<1>1. TypeOK /\ SettlementInv => SettlementAlwaysLegal
  BY DEF TypeOK, SettlementInv, JobInv, SettlementAlwaysLegal, Ignored, Target, Job,
         JobRecord, RowStates, PaymentStates, PaymentTransitions, PaymentTerminal
<1> QED BY <1>1, TypeCorrect, SettlementInvariant, PTL

-------------------------------------------------------------------------------
(* Rows *)

\* How one step may change a payment row.
RowStep(p) ==
  \/ payment'[p] = payment[p]
  \/ payment[p] = "absent" /\ payment'[p] = "pending" /\ Unique(p)
  \/ payment[p] = "pending" /\ payment'[p] \in {"stk_sent", "pending_reconciliation"}
  \/ Saved(p) /\ payment'[p] \in PaymentTerminal

\* The request's late update meets a pending row: nothing can have settled a
\* payment whose ids are not stored yet.
LEMMA RowSteps ==
  ASSUME TypeOK, SettlementInv, [Next]_vars, NEW p \in Requests
  PROVE  RowStep(p)
<1> USE DEF RowStep, requestVars, databaseVars, posVars
<1>1. ASSUME NEW r \in Requests, RequestStep(r) PROVE RowStep(p)
  <2>1. CASE Save(r)
    BY <2>1 DEF Save, Unique, Saved, TypeOK
  <2>2. CASE UpdateStkSent(r) \/ UpdatePendingReconciliation(r)
    <3>1. payment[r] = "pending"
      BY <2>2 DEF UpdateStkSent, UpdatePendingReconciliation, SettlementInv, RequestInv
    <3> QED BY <2>2, <3>1 DEF UpdateStkSent, UpdatePendingReconciliation, TypeOK
  <2> QED BY <1>1, <2>1, <2>2
          DEF RequestStep, Begin, TryBegin, LookupSale, LookupKey, InitiateStkPush,
              EnqueueReconciliation, Complete
<1>2. ASSUME NEW h \in Handlers, HandlerStep(h) PROVE RowStep(p)
  <2>1. CASE SettleUpdate(h)
    <3>1. job[h].id \in Requests /\ Saved(job[h].id)
      BY <2>1 DEF SettleUpdate, TypeOK, Job, SettlementInv, JobInv, CheckoutInv, Saved
    <3> QED BY <2>1, <3>1 DEF SettleUpdate, Target, PaymentTerminal, TypeOK
  <2> QED BY <1>2, <2>1
          DEF HandlerStep, TryInsertCallback, SettleIgnored, Refresh, CountLedger,
              AppendLedger, NotifyPos, NextMessage, DrainDone, QueryTransactionStatus,
              MarkPublished
<1>3. ASSUME NEW h \in Handlers, ListUnpublished(h) \/ QueryRaises(h) PROVE RowStep(p)
  BY <1>3 DEF ListUnpublished, QueryRaises
<1>4. ASSUME NEW h \in Handlers, NEW q \in Requests,
             ReceiveCallback(h, q) \/ ReconcilePayment(h, q)
      PROVE  RowStep(p)
  BY <1>4 DEF ReceiveCallback, ReconcilePayment
<1>5. ASSUME NEW q \in Requests, CustomerPays(q) \/ PromptFails(q) PROVE RowStep(p)
  BY <1>5 DEF CustomerPays, PromptFails
<1>6. CASE Crash
  BY <1>6 DEF Crash
<1>7. CASE UNCHANGED vars
  BY <1>7 DEF vars
<1> QED BY <1>1, <1>2, <1>3, <1>4, <1>5, <1>6, <1>7 DEF Next

\* A settled payment is never unsettled: the initiation request's own late update
\* cannot overwrite a result, whatever races with it.
THEOREM SettledForGood == Spec => SettledStaysSettled
<1>1. TypeOK /\ SettlementInv /\ [Next]_vars =>
        [\A p \in Requests :
           payment[p] \in PaymentTerminal => payment'[p] \in PaymentTerminal]_payment
  BY RowSteps DEF RowStep, PaymentTerminal
<1> QED BY <1>1, TypeCorrect, SettlementInvariant, PTL DEF Spec, SettledStaysSettled

\* The inductive strengthening of OnePromptPerSale: the push happens behind the
\* row, and the unique constraint of the table lets one row of a sale in.
RowInv ==
  /\ \A r \in Requests :
       prompt[r] # "none" \/ pc[r] \in {"push", "sent", "timed_out"} => Saved(r)
  /\ \A r, s \in Requests :
       Saved(r) /\ Saved(s) /\ req[r].sale = req[s].sale => r = s

\* A step writes one row at most.
LEMMA OneRowChanges ==
  ASSUME TypeOK, [Next]_vars, NEW p \in Requests, NEW q \in Requests,
         payment'[p] # payment[p], payment'[q] # payment[q]
  PROVE  p = q
<1> USE DEF requestVars, databaseVars, posVars
<1>1. ASSUME NEW r \in Requests, RequestStep(r) PROVE p = q
  BY <1>1 DEF TypeOK, RequestStep, Begin, TryBegin, LookupSale, LookupKey, Save,
              InitiateStkPush, UpdateStkSent, UpdatePendingReconciliation,
              EnqueueReconciliation, Complete
<1>2. ASSUME NEW h \in Handlers, HandlerStep(h) PROVE p = q
  BY <1>2 DEF TypeOK, HandlerStep, TryInsertCallback, SettleIgnored, SettleUpdate,
              Refresh, CountLedger, AppendLedger, NotifyPos, NextMessage, DrainDone,
              QueryTransactionStatus, MarkPublished
<1> QED BY <1>1, <1>2 DEF Next, ListUnpublished, QueryRaises, ReceiveCallback,
           ReconcilePayment, CustomerPays, PromptFails, Crash, vars

\* A request that begins to push has just saved its row.
LEMMA PushFollowsSave ==
  ASSUME TypeOK, [Next]_vars, NEW r \in Requests,
         prompt[r] = "none", pc[r] \notin {"push", "sent", "timed_out"},
         (prompt[r] # "none" \/ pc[r] \in {"push", "sent", "timed_out"})'
  PROVE  Saved(r)'
<1> USE DEF TypeOK, requestVars, databaseVars, posVars
<1>1. ASSUME NEW q \in Requests, RequestStep(q) PROVE Saved(r)'
  <2>1. q = r
    BY <1>1 DEF RequestStep, Begin, ReadKey, TryBegin, LookupSale, LookupKey, Save,
                InitiateStkPush, UpdateStkSent, UpdatePendingReconciliation,
                EnqueueReconciliation, Complete, Goto
  <2>2. CASE Save(r)
    BY <2>2 DEF Save, Saved, Goto
  <2>3. ~Begin(r) /\ ~TryBegin(r)
    BY DEF Begin, TryBegin, ReadKey, Goto
  <2>4. ~LookupSale(r) /\ ~LookupKey(r) /\ ~InitiateStkPush(r)
    BY DEF LookupSale, LookupKey, InitiateStkPush, Goto
  <2>5. ~UpdateStkSent(r) /\ ~UpdatePendingReconciliation(r)
    BY DEF UpdateStkSent, UpdatePendingReconciliation, Goto
  <2>6. ~EnqueueReconciliation(r) /\ ~Complete(r)
    BY DEF EnqueueReconciliation, Complete, Goto
  <2> QED BY <1>1, <2>1, <2>2, <2>3, <2>4, <2>5, <2>6 DEF RequestStep
<1>2. ASSUME NEW h \in Handlers, HandlerStep(h) PROVE FALSE
  BY <1>2 DEF HandlerStep, TryInsertCallback, SettleIgnored, SettleUpdate,
              Refresh, CountLedger, AppendLedger, NotifyPos, NextMessage, DrainDone,
              QueryTransactionStatus, MarkPublished
<1>3. ASSUME NEW q \in Requests, CustomerPays(q) \/ PromptFails(q) PROVE FALSE
  BY <1>3 DEF CustomerPays, PromptFails
<1>4. CASE Crash
  BY <1>4 DEF Crash
<1> QED BY <1>1, <1>2, <1>3, <1>4 DEF Next, ListUnpublished, QueryRaises,
           ReceiveCallback, ReconcilePayment, vars

LEMMA RowInvariant == Spec => []RowInv
<1>1. Init => RowInv
  BY DEF Init, RowInv, Saved
<1>2. TypeOK /\ SettlementInv /\ RowInv /\ [Next]_vars => RowInv'
  <2> SUFFICES ASSUME TypeOK, SettlementInv, RowInv, [Next]_vars PROVE RowInv'
    OBVIOUS
  <2>1. \A p \in Requests : RowStep(p)
    BY RowSteps
  <2>2. \A p \in Requests : Saved(p) => Saved(p)'
    BY <2>1 DEF RowStep, Saved, PaymentTerminal
  <2>3. UNCHANGED req
    BY DEF Next, RequestStep, Begin, TryBegin, LookupSale, LookupKey, Save,
           InitiateStkPush, UpdateStkSent, UpdatePendingReconciliation,
           EnqueueReconciliation, Complete, HandlerStep, TryInsertCallback,
           SettleIgnored, SettleUpdate, Refresh, CountLedger, AppendLedger, NotifyPos,
           NextMessage, DrainDone, QueryTransactionStatus, MarkPublished,
           ListUnpublished, QueryRaises, ReceiveCallback, ReconcilePayment,
           CustomerPays, PromptFails, Crash, vars, requestVars
  <2>4. ASSUME NEW r \in Requests, NEW s \in Requests, r # s,
               Saved(r)', Saved(s)', (req[r].sale = req[s].sale)'
        PROVE  FALSE
    <3>1. ASSUME NEW p \in Requests, NEW q \in Requests, p # q, ~Saved(p), Saved(p)',
                 Saved(q), req[p].sale = req[q].sale
          PROVE  FALSE
      BY <2>1, <3>1 DEF RowStep, Unique, Saved, PaymentTerminal
    <3>2. ~(~Saved(r) /\ ~Saved(s))
      BY <2>4, OneRowChanges DEF Saved
    <3> QED BY <2>3, <2>4, <3>1, <3>2 DEF RowInv
  <2>5. ASSUME NEW r \in Requests,
               (prompt[r] # "none" \/ pc[r] \in {"push", "sent", "timed_out"})'
        PROVE  Saved(r)'
    <3>1. CASE prompt[r] # "none" \/ pc[r] \in {"push", "sent", "timed_out"}
      BY <2>2, <3>1 DEF RowInv
    <3>2. CASE ~(prompt[r] # "none" \/ pc[r] \in {"push", "sent", "timed_out"})
      BY <2>5, <3>2, PushFollowsSave
    <3> QED BY <3>1, <3>2
  <2> QED BY <2>4, <2>5 DEF RowInv
<1> QED BY <1>1, <1>2, TypeCorrect, SettlementInvariant, PTL DEF Spec

\* The customer of a sale is never prompted twice, however many requests for it
\* run concurrently, under whatever keys.
THEOREM AtMostOnePromptPerSale == Spec => []OnePromptPerSale
<1>1. RowInv => OnePromptPerSale
  BY DEF RowInv, OnePromptPerSale
<1> QED BY <1>1, RowInvariant, PTL

\* A prompt on a phone always has its committed payment row, also when the process
\* died right after the push.
THEOREM PromptAlwaysHasRow == Spec => []PromptHasRow
<1>1. RowInv => PromptHasRow
  BY DEF RowInv, PromptHasRow
<1> QED BY <1>1, RowInvariant, PTL

-------------------------------------------------------------------------------
(* Ledger lines *)

\* The handlers that found no line of p and are about to write one.
Appending(p) == {h \in Handlers : job[h].pc = "append" /\ job[h].id = p}

\* The inductive strengthening of LedgerLinesBounded: a handler may still write
\* only if it found no line, so the writers still to come were there together.
LedgerInv ==
  \A p \in Requests : ledger[p] + Cardinality(Appending(p)) <= Cardinality(Handlers)

LEMMA AppendingFinite ==
  ASSUME NEW p
  PROVE  /\ IsFiniteSet(Appending(p)) /\ Cardinality(Appending(p)) \in Nat
         /\ Cardinality(Appending(p)) <= Cardinality(Handlers)
         /\ Cardinality(Handlers) \in Nat
<1>1. Appending(p) \subseteq Handlers
  BY DEF Appending
<1> QED BY <1>1, HandlersAssumption, FS_Subset, FS_CardinalityType

\* A step after which no handler is new at "append".
LEMMA NoNewAppender ==
  ASSUME TypeOK, TypeOK', LedgerInv, ledger' = ledger,
         \A h \in Handlers :
           job'[h].pc = "append" => job[h].pc = "append" /\ job'[h].id = job[h].id
  PROVE  LedgerInv'
<1> SUFFICES ASSUME NEW p \in Requests
             PROVE  (ledger[p] + Cardinality(Appending(p)) <= Cardinality(Handlers))'
  BY DEF LedgerInv
<1>1. Appending(p)' \subseteq Appending(p)
  BY DEF Appending
<1>2. /\ Cardinality(Appending(p)') \in Nat
      /\ Cardinality(Appending(p)') <= Cardinality(Appending(p))
  BY <1>1, AppendingFinite, FS_Subset, FS_CardinalityType
<1>3. ledger[p] \in Nat /\ ledger[p] + Cardinality(Appending(p)) <= Cardinality(Handlers)
  BY DEF TypeOK, LedgerInv
<1> QED BY <1>2, <1>3, AppendingFinite

LEMMA LedgerInvariant == Spec => []LedgerInv
<1>1. Init => LedgerInv
  BY AppendingFinite DEF Init, LedgerInv
<1>2. TypeOK /\ TypeOK' /\ LedgerInv /\ [Next]_vars => LedgerInv'
  <2> SUFFICES ASSUME TypeOK, TypeOK', LedgerInv, [Next]_vars PROVE LedgerInv'
    OBVIOUS
  <2> USE DEF requestVars, databaseVars, posVars, SetJob, JobGoto
  <2>1. ASSUME NEW r \in Requests, RequestStep(r) PROVE LedgerInv'
    BY <2>1, NoNewAppender
       DEF RequestStep, Begin, TryBegin, LookupSale, LookupKey, Save, InitiateStkPush,
           UpdateStkSent, UpdatePendingReconciliation, EnqueueReconciliation, Complete
  <2>2. ASSUME NEW h \in Handlers, CountLedger(h) PROVE LedgerInv'
    <3>1. CASE ledger[job[h].id] = 0
      <4> SUFFICES ASSUME NEW p \in Requests
                   PROVE  (ledger[p] + Cardinality(Appending(p)) <= Cardinality(Handlers))'
        BY DEF LedgerInv
      <4>1. CASE p = job[h].id
        <5>1. ledger'[p] = 0
          BY <2>2, <3>1, <4>1 DEF CountLedger
        <5>2. Appending(p)' \subseteq Handlers
          BY DEF Appending
        <5>3. /\ Cardinality(Appending(p)') \in Nat
              /\ Cardinality(Appending(p)') <= Cardinality(Handlers)
          BY <5>2, HandlersAssumption, FS_Subset, FS_CardinalityType
        <5> QED BY <5>1, <5>3
      <4>2. CASE p # job[h].id
        <5>1. Appending(p)' = Appending(p)
          BY <2>2, <4>2 DEF CountLedger, Appending, TypeOK
        <5> QED BY <2>2, <5>1 DEF CountLedger, LedgerInv
      <4> QED BY <4>1, <4>2
    <3>2. CASE ledger[job[h].id] # 0
      BY <2>2, <3>2, NoNewAppender DEF CountLedger, TypeOK
    <3> QED BY <3>1, <3>2
  <2>3. ASSUME NEW h \in Handlers, AppendLedger(h) PROVE LedgerInv'
    <3> SUFFICES ASSUME NEW p \in Requests
                 PROVE  (ledger[p] + Cardinality(Appending(p)) <= Cardinality(Handlers))'
      BY DEF LedgerInv
    <3>0. ledger[p] \in Nat /\ ledger[p] + Cardinality(Appending(p)) <= Cardinality(Handlers)
      BY DEF TypeOK, LedgerInv
    <3>1. CASE p = job[h].id
      <4>1. Appending(p)' = Appending(p) \ {h} /\ h \in Appending(p)
        BY <2>3, <3>1 DEF AppendLedger, Appending, TypeOK
      <4>2. ledger'[p] = ledger[p] + 1
        BY <2>3, <3>1 DEF AppendLedger, TypeOK
      <4>3. Cardinality(Appending(p)') = Cardinality(Appending(p)) - 1
        BY <4>1, AppendingFinite, FS_RemoveElement
      <4> QED BY <3>0, <4>2, <4>3, AppendingFinite
    <3>2. CASE p # job[h].id
      <4>1. Appending(p)' = Appending(p)
        BY <2>3, <3>2 DEF AppendLedger, Appending, TypeOK
      <4>2. ledger'[p] = ledger[p]
        BY <2>3, <3>2 DEF AppendLedger, TypeOK
      <4> QED BY <3>0, <4>1, <4>2
    <3> QED BY <3>1, <3>2
  <2>4. ASSUME NEW h \in Handlers,
               \/ TryInsertCallback(h) \/ SettleIgnored(h) \/ SettleUpdate(h)
               \/ Refresh(h) \/ NotifyPos(h) \/ NextMessage(h) \/ DrainDone(h)
               \/ QueryTransactionStatus(h) \/ MarkPublished(h)
               \/ ListUnpublished(h) \/ QueryRaises(h)
        PROVE  LedgerInv'
    <3>1. ledger' = ledger
      BY <2>4 DEF TryInsertCallback, SettleIgnored, SettleUpdate, Refresh, NotifyPos,
                  NextMessage, DrainDone, QueryTransactionStatus, MarkPublished,
                  ListUnpublished, QueryRaises
    <3>2. \A g \in Handlers \ {h} : job'[g] = job[g]
      BY <2>4 DEF TryInsertCallback, SettleIgnored, SettleUpdate, Refresh, NotifyPos,
                  NextMessage, DrainDone, QueryTransactionStatus, MarkPublished,
                  ListUnpublished, QueryRaises, TypeOK
    <3>3. job'[h].pc # "append"
      <4>1. job[h] \in Job
        BY DEF TypeOK
      <4>2. CASE TryInsertCallback(h)
        BY <4>1, <4>2 DEF TryInsertCallback, TypeOK, IdleJob, Job, JobRecord
      <4>3. CASE SettleIgnored(h)
        BY <4>1, <4>3 DEF SettleIgnored, TypeOK, Job, JobRecord
      <4>4. CASE SettleUpdate(h)
        BY <4>1, <4>4 DEF SettleUpdate, TypeOK, Job, JobRecord
      <4>5. CASE Refresh(h)
        BY <4>1, <4>5 DEF Refresh, TypeOK, Job, JobRecord
      <4>6. CASE NotifyPos(h)
        <5>1. CASE job[h].kind = "drain"
          BY <4>1, <4>6, <5>1 DEF NotifyPos, TypeOK, Job, JobRecord
        <5>2. CASE job[h].kind # "drain"
          BY <4>6, <5>2 DEF NotifyPos, TypeOK, IdleJob
        <5> QED BY <5>1, <5>2
      <4>7. CASE NextMessage(h)
        BY <4>1, <4>7 DEF NextMessage, TypeOK, Job, JobRecord
      <4>8. CASE QueryTransactionStatus(h)
        BY <4>1, <4>8 DEF QueryTransactionStatus, TypeOK, Job, JobRecord
      <4>9. CASE DrainDone(h) \/ QueryRaises(h)
        BY <4>9 DEF DrainDone, QueryRaises, TypeOK, IdleJob
      <4>10. CASE MarkPublished(h)
        BY <4>10 DEF MarkPublished, TypeOK, IdleJob
      <4>11. CASE ListUnpublished(h)
        BY <4>11 DEF ListUnpublished, TypeOK, IdleJob
      <4> QED BY <2>4, <4>2, <4>3, <4>4, <4>5, <4>6, <4>7, <4>8, <4>9, <4>10, <4>11
    <3> QED BY <3>1, <3>2, <3>3, NoNewAppender
  <2>5. ASSUME NEW h \in Handlers, NEW p \in Requests,
               ReceiveCallback(h, p) \/ ReconcilePayment(h, p)
        PROVE  LedgerInv'
    <3>1. ledger' = ledger /\ \A g \in Handlers \ {h} : job'[g] = job[g]
      BY <2>5 DEF ReceiveCallback, ReconcilePayment, TypeOK
    <3>2. CASE ReceiveCallback(h, p)
      <4>1. job'[h].pc = "insert"
        BY <3>2 DEF ReceiveCallback, IdleJob, TypeOK
      <4> QED BY <3>1, <4>1, NoNewAppender
    <3>3. CASE ReconcilePayment(h, p)
      <4>1. job'[h].pc = "query"
        BY <3>3 DEF ReconcilePayment, IdleJob, TypeOK
      <4> QED BY <3>1, <4>1, NoNewAppender
    <3> QED BY <2>5, <3>2, <3>3
  <2>6. ASSUME NEW p \in Requests, CustomerPays(p) \/ PromptFails(p) PROVE LedgerInv'
    BY <2>6, NoNewAppender DEF CustomerPays, PromptFails
  <2>7. CASE Crash
    BY <2>7, NoNewAppender DEF Crash, IdleJob
  <2>8. CASE UNCHANGED vars
    BY <2>8, NoNewAppender DEF vars
  <2> QED BY <2>1, <2>2, <2>3, <2>4, <2>5, <2>6, <2>7, <2>8 DEF Next, HandlerStep
<1> QED BY <1>1, <1>2, TypeCorrect, PTL DEF Spec

\* Whatever races, a payment never has more charge_confirmed lines than the service
\* has concurrent handlers.
THEOREM LedgerLinesAreBounded == Spec => []LedgerLinesBounded
<1>1. TypeOK /\ LedgerInv => LedgerLinesBounded
  BY AppendingFinite DEF TypeOK, LedgerInv, LedgerLinesBounded
<1> QED BY <1>1, TypeCorrect, LedgerInvariant, PTL

-------------------------------------------------------------------------------
(* Booking and reporting *)

\* A handler that will see to it that p has a ledger line.
Booking(j, p) == j.id = p /\ j.ok /\ j.pc \in {"refresh", "count", "append"}

\* A handler that will tell POS that p is paid, or read so and tell it.
Reporting(j, p) ==
  /\ j.id = p
  /\ j.pc = "refresh" \/ (j.pc \in {"count", "append", "notify"} /\ j.seen = "paid")

Carried(p) ==
  /\ ledger[p] > 0 \/ \E h \in Handlers : Booking(job[h], p)
  /\ p \in unreached \/ "paid" \in reported[p] \/ \E h \in Handlers : Reporting(job[h], p)

\* The inductive strengthening of PaidIsBookedAndReported.
CarriedInv == crashes = 0 => \A p \in Requests : payment[p] = "paid" => Carried(p)

\* One handler moves on and hands its duty over to nobody.
LEMMA CarriedOn ==
  ASSUME NEW p \in Requests, NEW h \in Handlers, Carried(p),
         \A g \in Handlers \ {h} : job'[g] = job[g],
         ledger[p] > 0 => ledger'[p] > 0,
         p \in unreached => p \in unreached',
         "paid" \in reported[p] => "paid" \in reported'[p],
         Booking(job[h], p) => ledger'[p] > 0 \/ Booking(job'[h], p),
         Reporting(job[h], p) =>
           p \in unreached' \/ "paid" \in reported'[p] \/ Reporting(job'[h], p)
  PROVE  Carried(p)'
<1>1. ledger'[p] > 0 \/ \E g \in Handlers : Booking(job'[g], p)
  BY DEF Carried
<1>2. p \in unreached' \/ "paid" \in reported'[p] \/ \E g \in Handlers : Reporting(job'[g], p)
  BY DEF Carried
<1> QED BY <1>1, <1>2 DEF Carried, Booking, Reporting

\* A handler that has neither duty.
LEMMA NoDuty ==
  ASSUME NEW p \in Requests, NEW h \in Handlers, Carried(p),
         \A g \in Handlers \ {h} : job'[g] = job[g],
         job[h].pc \notin {"refresh", "count", "append", "notify"},
         UNCHANGED <<ledger, posVars>>
  PROVE  Carried(p)'
<1>1. ~Booking(job[h], p) /\ ~Reporting(job[h], p)
  BY DEF Booking, Reporting
<1> QED BY <1>1, CarriedOn DEF posVars

LEMMA HandlerCarries ==
  ASSUME TypeOK, NEW h \in Handlers, HandlerStep(h), NEW p \in Requests,
         payment[p] = "paid" => Carried(p), payment'[p] = "paid"
  PROVE  Carried(p)'
<1> DEFINE j == job[h]
<1> USE DEF requestVars, databaseVars, SetJob, JobGoto
<1>0. j \in Job /\ j \in JobRecord /\ ledger[p] \in Nat
  BY DEF TypeOK, Job
<1>1. CASE \/ TryInsertCallback(h) \/ SettleIgnored(h) \/ NextMessage(h) \/ DrainDone(h)
           \/ QueryTransactionStatus(h) \/ MarkPublished(h)
  <2>1. /\ j.pc \notin {"refresh", "count", "append", "notify"}
        /\ UNCHANGED <<payment, ledger, posVars>>
        /\ \A g \in Handlers \ {h} : job'[g] = job[g]
    BY <1>1 DEF TryInsertCallback, SettleIgnored, NextMessage, DrainDone,
                QueryTransactionStatus, MarkPublished, TypeOK
  <2> QED BY <2>1, NoDuty
<1>2. CASE SettleUpdate(h)
  <2>1. /\ j.pc = "settle" /\ UNCHANGED <<ledger, posVars>>
        /\ payment' = [payment EXCEPT ![j.id] = Target(j)]
        /\ \A g \in Handlers \ {h} : job'[g] = job[g]
    BY <1>2 DEF SettleUpdate, TypeOK
  <2>2. job'[h] = [j EXCEPT !.pc = "refresh"]
    BY <1>2 DEF SettleUpdate, TypeOK
  <2>3. CASE j.id = p /\ j.ok
    <3>1. job'[h].id = p /\ job'[h].ok /\ job'[h].pc = "refresh"
      BY <1>0, <2>2, <2>3 DEF JobRecord
    <3>2. Booking(job'[h], p) /\ Reporting(job'[h], p)
      BY <3>1 DEF Booking, Reporting
    <3> QED BY <3>2 DEF Carried, Booking, Reporting
  <2>4. CASE ~(j.id = p /\ j.ok)
    <3>1. payment[p] = "paid"
      BY <2>1, <2>4 DEF Target, TypeOK
    <3> QED BY <2>1, <3>1, NoDuty
  <2> QED BY <2>3, <2>4
<1>3. CASE Refresh(h)
  <2>1. /\ j.pc = "refresh" /\ UNCHANGED <<payment, ledger, posVars>>
        /\ \A g \in Handlers \ {h} : job'[g] = job[g]
    BY <1>3 DEF Refresh, TypeOK
  <2>2. /\ job'[h].id = j.id /\ job'[h].ok = j.ok /\ job'[h].seen = payment[j.id]
        /\ job'[h].pc = IF j.ok THEN "count" ELSE "notify"
    BY <1>0, <1>3 DEF Refresh, TypeOK, JobRecord
  <2>3. /\ Booking(j, p) => Booking(job'[h], p)
        /\ Reporting(j, p) => Reporting(job'[h], p)
    BY <2>1, <2>2 DEF Booking, Reporting
  <2> QED BY <2>1, <2>3, CarriedOn DEF posVars
<1>4. CASE CountLedger(h)
  <2>1. /\ j.pc = "count" /\ UNCHANGED <<payment, ledger, posVars>>
        /\ \A g \in Handlers \ {h} : job'[g] = job[g]
    BY <1>4 DEF CountLedger, TypeOK
  <2>2. /\ job'[h].id = j.id /\ job'[h].ok = j.ok /\ job'[h].seen = j.seen
        /\ job'[h].pc = IF ledger[j.id] = 0 THEN "append" ELSE "notify"
    BY <1>0, <1>4 DEF CountLedger, TypeOK, JobRecord
  <2>3. /\ Booking(j, p) => ledger'[p] > 0 \/ Booking(job'[h], p)
        /\ Reporting(j, p) => Reporting(job'[h], p)
    BY <1>0, <2>1, <2>2 DEF Booking, Reporting
  <2> QED BY <2>1, <2>3, CarriedOn DEF posVars
<1>5. CASE AppendLedger(h)
  <2>1. /\ j.pc = "append" /\ UNCHANGED <<payment, posVars>>
        /\ ledger' = [ledger EXCEPT ![j.id] = @ + 1]
        /\ \A g \in Handlers \ {h} : job'[g] = job[g]
    BY <1>5 DEF AppendLedger, TypeOK
  <2>2. /\ job'[h].id = j.id /\ job'[h].ok = j.ok /\ job'[h].seen = j.seen
        /\ job'[h].pc = "notify"
    BY <1>0, <1>5 DEF AppendLedger, TypeOK, JobRecord
  <2>3. ledger'[p] = IF j.id = p THEN ledger[p] + 1 ELSE ledger[p]
    BY <2>1 DEF TypeOK
  <2>4. /\ ledger[p] > 0 => ledger'[p] > 0
        /\ Booking(j, p) => ledger'[p] > 0
        /\ Reporting(j, p) => Reporting(job'[h], p)
    BY <1>0, <2>1, <2>2, <2>3 DEF Booking, Reporting
  <2> QED BY <2>1, <2>4, CarriedOn DEF posVars
<1>6. CASE NotifyPos(h)
  <2>1. /\ j.pc = "notify" /\ UNCHANGED <<payment, ledger>>
        /\ \A g \in Handlers \ {h} : job'[g] = job[g]
    BY <1>6 DEF NotifyPos, TypeOK
  <2>2. /\ p \in unreached => p \in unreached'
        /\ "paid" \in reported[p] => "paid" \in reported'[p]
        /\ ~Booking(j, p)
        /\ Reporting(j, p) => p \in unreached' \/ "paid" \in reported'[p]
    BY <1>6 DEF NotifyPos, TypeOK, Booking, Reporting
  <2> QED BY <2>1, <2>2, CarriedOn
<1> QED BY <1>1, <1>2, <1>3, <1>4, <1>5, <1>6 DEF HandlerStep

LEMMA CarriedInvariant == Spec => []CarriedInv
<1>1. Init => CarriedInv
  BY DEF Init, CarriedInv
<1>2. TypeOK /\ SettlementInv /\ CarriedInv /\ [Next]_vars => CarriedInv'
  <2> SUFFICES ASSUME TypeOK, SettlementInv, CarriedInv, [Next]_vars, crashes' = 0,
                      NEW p \in Requests, payment'[p] = "paid"
               PROVE  Carried(p)'
    BY DEF CarriedInv
  <2> USE DEF requestVars, databaseVars, SetJob, JobGoto
  <2>1. ~Crash
    BY MaxCrashesAssumption DEF Crash, TypeOK
  <2>2. crashes' = crashes
    BY <2>1 DEF Next, RequestStep, Begin, TryBegin, LookupSale, LookupKey, Save,
       InitiateStkPush, UpdateStkSent, UpdatePendingReconciliation,
       EnqueueReconciliation, Complete, HandlerStep, TryInsertCallback,
       SettleIgnored, SettleUpdate, Refresh, CountLedger, AppendLedger, NotifyPos,
       NextMessage, DrainDone, QueryTransactionStatus, MarkPublished,
       ListUnpublished, QueryRaises, ReceiveCallback, ReconcilePayment,
       CustomerPays, PromptFails, vars
  <2>3. payment[p] = "paid" => Carried(p)
    BY <2>2 DEF CarriedInv
  <2>4. ASSUME UNCHANGED <<ledger, job, posVars>>, payment[p] = "paid" PROVE Carried(p)'
    BY <2>3, <2>4 DEF posVars, Carried, Booking, Reporting
  <2>5. ASSUME NEW r \in Requests, RequestStep(r) PROVE Carried(p)'
    <3>1. UNCHANGED <<ledger, job, posVars>>
      BY <2>5 DEF RequestStep, Begin, TryBegin, LookupSale, LookupKey, Save,
         InitiateStkPush, UpdateStkSent, UpdatePendingReconciliation,
         EnqueueReconciliation, Complete, posVars
    <3>2. payment[p] = "paid"
      BY <2>5 DEF RequestStep, Begin, TryBegin, LookupSale, LookupKey, Save,
         InitiateStkPush, UpdateStkSent, UpdatePendingReconciliation,
         EnqueueReconciliation, Complete, TypeOK
    <3> QED BY <2>4, <3>1, <3>2
  <2>6. ASSUME NEW h \in Handlers, HandlerStep(h) PROVE Carried(p)'
    BY <2>3, <2>6, HandlerCarries
  <2>7. ASSUME NEW h \in Handlers,
               \/ ListUnpublished(h) \/ QueryRaises(h)
               \/ \E q \in Requests : ReceiveCallback(h, q) \/ ReconcilePayment(h, q)
        PROVE  Carried(p)'
    <3>1. /\ job[h].pc \in {"idle", "query"} /\ UNCHANGED <<payment, ledger, posVars>>
          /\ \A g \in Handlers \ {h} : job'[g] = job[g]
      BY <2>7 DEF ListUnpublished, QueryRaises, ReceiveCallback, ReconcilePayment, TypeOK
    <3> QED BY <2>3, <3>1, NoDuty
  <2> QED
    BY <2>1, <2>4, <2>5, <2>6, <2>7 DEF Next, CustomerPays, PromptFails, vars, posVars
<1> QED BY <1>1, <1>2, TypeCorrect, SettlementInvariant, PTL DEF Spec

\* A PAID payment that no handler works on is booked and was reported, while the process
\* lives: of any number of racing handlers the last writer finishes the job.
THEOREM PaidAlwaysBooked == Spec => []PaidIsBookedAndReported
<1>1. CarriedInv => PaidIsBookedAndReported
  BY DEF CarriedInv, Carried, Booking, Reporting, PaidIsBookedAndReported, Settling
<1> QED BY <1>1, CarriedInvariant, PTL

-------------------------------------------------------------------------------
(* Replies *)

KeyIsSale == \A r, s \in Requests : req[r].key = req[s].key <=> req[r].sale = req[s].sale

HasPayment(r) == \E p \in Requests : Saved(p) /\ req[p].sale = req[r].sale

\* The inductive strengthening of AcceptedSaleHasPayment.
RepliedInv ==
  KeyIsSale =>
    /\ \A r \in Requests : pc[r] \in {"enqueue", "complete", "replied"} => HasPayment(r)
    /\ \A r \in Requests : idem[req[r].key] = "completed" => HasPayment(r)

LEMMA RepliedInvariant == Spec => []RepliedInv
<1>1. Init => RepliedInv
  BY DEF Init, RepliedInv, TypeOK, RequestInput
<1>2. TypeOK /\ SettlementInv /\ RepliedInv /\ [Next]_vars => RepliedInv'
  <2> SUFFICES ASSUME TypeOK, SettlementInv, RepliedInv, [Next]_vars, KeyIsSale'
               PROVE  /\ \A r \in Requests :
                           pc'[r] \in {"enqueue", "complete", "replied"} => HasPayment(r)'
                      /\ \A r \in Requests : idem'[req'[r].key] = "completed" => HasPayment(r)'
    BY DEF RepliedInv
  <2> USE DEF requestVars, databaseVars, posVars
  <2>1. req' = req
    BY DEF Next, RequestStep, Begin, TryBegin, LookupSale, LookupKey, Save,
           InitiateStkPush, UpdateStkSent, UpdatePendingReconciliation,
           EnqueueReconciliation, Complete, HandlerStep, TryInsertCallback,
           SettleIgnored, SettleUpdate, Refresh, CountLedger, AppendLedger, NotifyPos,
           NextMessage, DrainDone, QueryTransactionStatus, MarkPublished,
           ListUnpublished, QueryRaises, ReceiveCallback, ReconcilePayment,
           CustomerPays, PromptFails, Crash, vars
  <2>2. KeyIsSale
    BY <2>1 DEF KeyIsSale
  <2>3. \A p \in Requests : Saved(p) => Saved(p)'
    BY RowSteps DEF RowStep, Saved, PaymentTerminal
  <2>4. \A r \in Requests : HasPayment(r) => HasPayment(r)'
    BY <2>1, <2>3 DEF HasPayment
  <2>5. \A r \in Requests :
          /\ pc[r] \in {"enqueue", "complete", "replied"} => HasPayment(r)
          /\ idem[req[r].key] = "completed" => HasPayment(r)
    BY <2>2 DEF RepliedInv
  <2>6. ASSUME NEW r \in Requests, RequestStep(r)
        PROVE  /\ \A q \in Requests \ {r} : pc'[q] = pc[q]
               /\ pc'[r] \in {"enqueue", "complete", "replied"} => HasPayment(r)
               /\ \A k \in Keys : idem'[k] = "completed" =>
                    idem[k] = "completed" \/ (k = req[r].key /\ HasPayment(r))
    <3> USE DEF TypeOK, Goto, RequestInput
    <3>1. CASE Begin(r)       BY <2>5, <3>1 DEF Begin, ReadKey
    <3>2. CASE TryBegin(r)    BY <2>5, <3>2 DEF TryBegin, ReadKey
    <3>3. CASE LookupSale(r)  BY <3>3 DEF LookupSale, HasPayment
    <3>4. CASE LookupKey(r)   BY <2>2, <3>4 DEF LookupKey, HasPayment, KeyIsSale
    <3>5. CASE Save(r)        BY <3>5 DEF Save
    <3>6. CASE InitiateStkPush(r)
      BY <3>6 DEF InitiateStkPush
    <3>7. CASE UpdateStkSent(r) \/ UpdatePendingReconciliation(r)
      <4>1. Saved(r)
        BY <3>7 DEF UpdateStkSent, UpdatePendingReconciliation, SettlementInv, RequestInv,
                    Saved
      <4> QED BY <3>7, <4>1 DEF UpdateStkSent, UpdatePendingReconciliation, HasPayment
    <3>8. CASE EnqueueReconciliation(r)
      BY <2>5, <3>8 DEF EnqueueReconciliation
    <3>9. CASE Complete(r)    BY <2>5, <3>9 DEF Complete
    <3> QED
      BY <2>6, <3>1, <3>2, <3>3, <3>4, <3>5, <3>6, <3>7, <3>8, <3>9 DEF RequestStep
  <2>7. ASSUME NEW r \in Requests, RequestStep(r), NEW q \in Requests,
               idem'[req[q].key] = "completed"
        PROVE  HasPayment(q)
    <3>1. idem[req[q].key] = "completed" \/ (req[q].key = req[r].key /\ HasPayment(r))
      BY <2>6, <2>7 DEF TypeOK, RequestInput
    <3>2. req[q].key = req[r].key /\ HasPayment(r) => HasPayment(q)
      BY <2>2 DEF KeyIsSale, HasPayment
    <3> QED BY <2>5, <3>1, <3>2
  <2>8. ASSUME UNCHANGED <<pc, idem>> PROVE RepliedInv'
    BY <2>1, <2>4, <2>5, <2>8 DEF RepliedInv
  <2>9. CASE Crash
    <3>1. idem' = idem /\ \A r \in Requests : pc'[r] = pc[r] \/ pc'[r] = "killed"
      BY <2>9 DEF Crash, TypeOK
    <3> QED BY <2>1, <2>4, <2>5, <3>1
  <2>10. CASE \E r \in Requests : RequestStep(r)
    BY <2>1, <2>4, <2>5, <2>6, <2>7, <2>10
  <2>11. CASE ~Crash /\ ~\E r \in Requests : RequestStep(r)
    <3>1. UNCHANGED <<pc, idem>>
      BY <2>11
      DEF Next, HandlerStep, TryInsertCallback, SettleIgnored, SettleUpdate, Refresh,
          CountLedger, AppendLedger, NotifyPos, NextMessage, DrainDone,
          QueryTransactionStatus, MarkPublished, ListUnpublished, QueryRaises,
          ReceiveCallback, ReconcilePayment, CustomerPays, PromptFails, vars
    <3> QED BY <2>1, <2>4, <2>5, <3>1
  <2> QED BY <2>9, <2>10, <2>11
<1> QED BY <1>1, <1>2, TypeCorrect, SettlementInvariant, PTL DEF Spec

\* With one key for each sale, whoever is answered 2xx has a payment of its sale, replays
\* and requests that lost a race included.
THEOREM AcceptedAlwaysHasPayment == Spec => []AcceptedSaleHasPayment
<1>1. RepliedInv => AcceptedSaleHasPayment
  BY DEF RepliedInv, KeyIsSale, HasPayment, AcceptedSaleHasPayment
<1> QED BY <1>1, RepliedInvariant, PTL

-------------------------------------------------------------------------------
(* Serial handling *)

SerialHandling == \A g, h \in Handlers : g = h

\* With one handler nothing comes between its read of the row and what it does with it.
SerialJobInv(j) ==
  /\ j.pc \in {"insert", "query", "settle"} => j.seen = payment[j.id]
  /\ j.pc \in {"refresh", "count", "append"} /\ j.ok => payment[j.id] = "paid"
  /\ j.pc = "append" => ledger[j.id] = 0

SerialInv == \A h \in Handlers : SerialJobInv(job[h])

\* What the one handler does next is all that any handler does.
LEMMA SerialJobSet ==
  ASSUME SerialHandling, TypeOK, NEW h \in Handlers, NEW j, SetJob(h, j)
  PROVE  /\ job'[h] = j
         /\ SerialJobInv(job[h])' => SerialInv'
<1>1. job'[h] = j
  BY DEF SetJob, TypeOK
<1>2. ASSUME SerialJobInv(job[h])', NEW g \in Handlers PROVE SerialJobInv(job[g])'
  BY <1>2 DEF SerialHandling, SerialJobInv
<1> QED BY <1>1, <1>2 DEF SerialInv

\* An initiation request never writes a row whose checkout id is stored already.
LEMMA RequestKeepsKnownRow ==
  ASSUME TypeOK, SettlementInv, NEW r \in Requests, RequestStep(r),
         NEW p \in Requests, checkout[p]
  PROVE  payment'[p] = payment[p]
<1> USE DEF TypeOK, requestVars, databaseVars, posVars
<1>1. payment[p] # "absent"
  BY DEF SettlementInv, CheckoutInv
<1>2. CASE Save(r)
  BY <1>1, <1>2 DEF Save, Unique, Saved
<1>3. CASE UpdateStkSent(r) \/ UpdatePendingReconciliation(r)
  <2>1. p # r
    BY <1>3 DEF UpdateStkSent, UpdatePendingReconciliation, SettlementInv, RequestInv
  <2> QED BY <1>3, <2>1 DEF UpdateStkSent, UpdatePendingReconciliation
<1> QED BY <1>2, <1>3
        DEF RequestStep, Begin, TryBegin, LookupSale, LookupKey, InitiateStkPush,
            EnqueueReconciliation, Complete

LEMMA SerialInvStep ==
  ASSUME SerialHandling, TypeOK, SettlementInv, SerialInv, [Next]_vars
  PROVE  SerialInv'
<1> USE DEF requestVars, databaseVars, posVars, JobGoto
<1>0. IdleJob \in JobRecord /\ IdleJob.pc = "idle"
  BY IdleJobType DEF Job, IdleJob
<1>1. ASSUME UNCHANGED <<payment, ledger, job>> PROVE SerialInv'
  BY <1>1 DEF SerialInv, SerialJobInv
<1>2. ASSUME NEW r \in Requests, RequestStep(r) PROVE SerialInv'
  <2>1. job' = job /\ ledger' = ledger
    BY <1>2 DEF RequestStep, Begin, TryBegin, LookupSale, LookupKey, Save, InitiateStkPush,
                UpdateStkSent, UpdatePendingReconciliation, EnqueueReconciliation, Complete
  <2>2. ASSUME NEW h \in Handlers PROVE SerialJobInv(job[h])'
    <3>1. SerialJobInv(job[h]) /\ JobInv(job[h]) /\ job[h] \in Job
      BY DEF SerialInv, SettlementInv, TypeOK
    <3>2. ASSUME job[h].pc \in {"insert", "query", "settle", "refresh", "count", "append"}
          PROVE  payment'[job[h].id] = payment[job[h].id]
      BY <1>2, <3>1, <3>2, RequestKeepsKnownRow DEF JobInv, Job
    <3> QED BY <2>1, <3>1, <3>2 DEF SerialJobInv
  <2> QED BY <2>2 DEF SerialInv
<1>3. ASSUME NEW h \in Handlers, HandlerStep(h) PROVE SerialInv'
  <2> DEFINE j == job[h]
  <2>0. /\ j \in Job /\ j \in JobRecord /\ JobInv(j) /\ SerialJobInv(j)
        /\ j.pc \notin {"idle", "next"} => j.id \in Requests
    BY DEF TypeOK, Job, SettlementInv, SerialInv
  <2>1. SUFFICES SerialJobInv(job[h])'
    BY <1>3, SerialJobSet
    DEF HandlerStep, TryInsertCallback, SettleIgnored, SettleUpdate, Refresh, CountLedger,
        AppendLedger, NotifyPos, NextMessage, DrainDone, QueryTransactionStatus, MarkPublished
  <2> USE <1>0 DEF SerialJobInv, JobRecord
  <2>2. CASE TryInsertCallback(h) \/ SettleIgnored(h) \/ NotifyPos(h)
    <3>1. /\ job'[h] \in {[j EXCEPT !.pc = "settle"], [j EXCEPT !.pc = "notify"],
                          [j EXCEPT !.pc = "mark"], IdleJob}
          /\ job'[h].pc = "settle" => j.pc = "insert"
          /\ UNCHANGED <<payment, ledger>>
      BY <2>0, <2>2, SerialJobSet DEF TryInsertCallback, SettleIgnored, NotifyPos
    <3> QED BY <2>0, <3>1
  <2>3. CASE SettleUpdate(h)
    <3>1. job'[h] = [j EXCEPT !.pc = "refresh"] /\ j.id \in Requests
      BY <2>0, <2>3, SerialJobSet DEF SettleUpdate
    <3>2. payment'[j.id] = Target(j)
      BY <2>3, <3>1 DEF SettleUpdate, TypeOK
    <3> QED BY <2>0, <3>1, <3>2 DEF Target
  <2>4. CASE Refresh(h)
    <3>1. job'[h] = [j EXCEPT !.seen = payment[j.id], !.pc = IF j.ok THEN "count" ELSE "notify"]
      BY <2>4, SerialJobSet DEF Refresh
    <3>2. j.pc = "refresh" /\ UNCHANGED <<payment, ledger>>
      BY <2>4 DEF Refresh
    <3> QED BY <2>0, <3>1, <3>2
  <2>5. CASE CountLedger(h)
    <3>1. job'[h] = [j EXCEPT !.pc = IF ledger[j.id] = 0 THEN "append" ELSE "notify"]
      BY <2>5, SerialJobSet DEF CountLedger
    <3>2. j.pc = "count" /\ UNCHANGED <<payment, ledger>>
      BY <2>5 DEF CountLedger
    <3> QED BY <2>0, <3>1, <3>2
  <2>6. CASE AppendLedger(h)
    <3>1. job'[h] = [j EXCEPT !.pc = "notify"]
      BY <2>6, SerialJobSet DEF AppendLedger
    <3> QED BY <2>0, <3>1
  <2>7. CASE NextMessage(h)
    <3>1. PICK p \in j.todo :
            job'[h] = [j EXCEPT !.id = p, !.todo = j.todo \ {p}, !.seen = payment[p],
                                !.pc = IF Queryable(p) THEN "query" ELSE "mark"]
      BY <2>7 DEF NextMessage, SetJob, TypeOK
    <3>2. UNCHANGED <<payment, ledger>>
      BY <2>7 DEF NextMessage
    <3> QED BY <2>0, <3>1, <3>2
  <2>8. CASE DrainDone(h) \/ MarkPublished(h)
    <3>1. \/ job'[h] = IdleJob
          \/ job'[h] = [IdleJob EXCEPT !.pc = "next", !.kind = "drain", !.todo = j.todo]
      BY <2>8, SerialJobSet DEF DrainDone, MarkPublished
    <3>2. job'[h].pc \in {"idle", "next"}
      BY <3>1
    <3> QED BY <3>2
  <2>9. CASE QueryTransactionStatus(h)
    <3>1. job'[h] = [j EXCEPT !.ok = QuerySucceeds(j.id), !.match = TRUE, !.pc = "settle"]
      BY <2>9, SerialJobSet DEF QueryTransactionStatus
    <3>2. j.pc = "query" /\ UNCHANGED <<payment, ledger>>
      BY <2>9 DEF QueryTransactionStatus
    <3> QED BY <2>0, <3>1, <3>2
  <2> QED BY <1>3, <2>2, <2>3, <2>4, <2>5, <2>6, <2>7, <2>8, <2>9 DEF HandlerStep
<1>4. ASSUME NEW h \in Handlers, ListUnpublished(h) \/ QueryRaises(h) PROVE SerialInv'
  <2>1. \/ job'[h] = IdleJob
        \/ job'[h] = [IdleJob EXCEPT !.pc = "next", !.kind = "drain", !.todo = outbox]
    BY <1>4, SerialJobSet DEF ListUnpublished, QueryRaises
  <2>2. job'[h].pc \in {"idle", "next"}
    BY <1>0, <2>1 DEF JobRecord
  <2> QED BY <1>4, <2>2, SerialJobSet DEF SerialJobInv, ListUnpublished, QueryRaises
<1>5. ASSUME NEW h \in Handlers, NEW p \in Requests, ReceiveCallback(h, p) PROVE SerialInv'
  <2>1. PICK ok \in BOOLEAN, match \in BOOLEAN :
          SetJob(h, [IdleJob EXCEPT !.pc = "insert", !.id = p, !.ok = ok, !.match = match,
                                    !.seen = payment[p]])
    BY <1>5 DEF ReceiveCallback
  <2>2. job'[h] = [IdleJob EXCEPT !.pc = "insert", !.id = p, !.ok = ok, !.match = match,
                                  !.seen = payment[p]]
    BY <2>1, SerialJobSet
  <2>3. SerialJobInv(job[h])'
    BY <1>0, <1>5, <2>2 DEF ReceiveCallback, SerialJobInv, JobRecord
  <2> QED BY <2>1, <2>3, SerialJobSet
<1>6. ASSUME NEW h \in Handlers, NEW p \in Requests, ReconcilePayment(h, p) PROVE SerialInv'
  <2>1. job'[h] = [IdleJob EXCEPT !.pc = "query", !.kind = "reconcile", !.id = p,
                                  !.seen = payment[p]]
    BY <1>6, SerialJobSet DEF ReconcilePayment
  <2>2. SerialJobInv(job[h])'
    BY <1>0, <1>6, <2>1 DEF ReconcilePayment, SerialJobInv, JobRecord
  <2> QED BY <1>6, <2>2, SerialJobSet DEF ReconcilePayment
<1>7. CASE Crash
  BY <1>7 DEF Crash, SerialInv, SerialJobInv, IdleJob
<1> QED BY <1>1, <1>2, <1>3, <1>4, <1>5, <1>6, <1>7
        DEF Next, CustomerPays, PromptFails, vars

LEMMA SerialInvariant ==
  ASSUME SerialHandling
  PROVE  Spec => []SerialInv
<1>1. Init => SerialInv
  BY DEF Init, SerialInv, SerialJobInv, IdleJob
<1>2. TypeOK /\ SettlementInv /\ SerialInv /\ [Next]_vars => SerialInv'
  BY SerialInvStep
<1> QED BY <1>1, <1>2, TypeCorrect, SettlementInvariant, PTL DEF Spec

\* A row that moves along the transition table, while the ledger stays, is a step of
\* the payment's life.
LEMMA LifecycleRow ==
  ASSUME TypeOK, NEW p \in Requests, UNCHANGED ledger,
         NEW t, payment' = [payment EXCEPT ![p] = t],
         \/ payment[p] = "absent" /\ t = "pending"
         \/ payment[p] # "absent" /\ t \in PaymentTransitions(payment[p])
  PROVE  Lifecycle!Next
<1>1. CASE payment[p] = "absent" /\ t = "pending"
  <2>1. Lifecycle!Open(p)
    BY <1>1 DEF Lifecycle!Open
  <2> QED BY <2>1 DEF Lifecycle!Next
<1>2. CASE payment[p] # "absent" /\ t \in PaymentTransitions(payment[p])
  <2>1. Lifecycle!Advance(p)
    BY <1>2 DEF Lifecycle!Advance, Lifecycle!PaymentTransitions, PaymentTransitions
  <2> QED BY <2>1 DEF Lifecycle!Next
<1> QED BY <1>1, <1>2

\* Of the steps of a serial service, one that changes a row follows the transition table
\* and one that writes a ledger line is the first of a paid payment; the others stutter.
LEMMA SerialLifecycleStep ==
  ASSUME SerialHandling, TypeOK, SettlementInv, SerialInv, [Next]_vars
  PROVE  [Lifecycle!Next]_<<payment, ledger>>
<1> USE DEF requestVars, databaseVars, posVars
<1>1. ASSUME NEW r \in Requests, RequestStep(r)
      PROVE  [Lifecycle!Next]_<<payment, ledger>>
  <2>1. CASE Save(r)
    <3>1. CASE Unique(r)
      <4>1. payment[r] = "absent"
        BY <3>1 DEF Unique, Saved
      <4> QED BY <2>1, <3>1, <4>1, LifecycleRow DEF Save
    <3>2. CASE ~Unique(r)
      BY <2>1, <3>2 DEF Save
    <3> QED BY <3>1, <3>2
  <2>2. CASE UpdateStkSent(r)
    <3>1. payment[r] = "pending"
      BY <2>2 DEF UpdateStkSent, SettlementInv, RequestInv
    <3>2. "stk_sent" \in PaymentTransitions(payment[r])
      BY <3>1 DEF PaymentTransitions
    <3> QED BY <2>2, <3>1, <3>2, LifecycleRow DEF UpdateStkSent
  <2>3. CASE UpdatePendingReconciliation(r)
    <3>1. payment[r] = "pending"
      BY <2>3 DEF UpdatePendingReconciliation, SettlementInv, RequestInv
    <3>2. "pending_reconciliation" \in PaymentTransitions(payment[r])
      BY <3>1 DEF PaymentTransitions
    <3> QED BY <2>3, <3>1, <3>2, LifecycleRow DEF UpdatePendingReconciliation
  <2> QED BY <1>1, <2>1, <2>2, <2>3
          DEF RequestStep, Begin, TryBegin, LookupSale, LookupKey, InitiateStkPush,
              EnqueueReconciliation, Complete
<1>2. ASSUME NEW h \in Handlers, SettleUpdate(h) PROVE Lifecycle!Next
  <2>1. /\ job[h].id \in Requests /\ payment[job[h].id] = job[h].seen
        /\ payment[job[h].id] # "absent"
    BY <1>2 DEF SettleUpdate, TypeOK, Job, SerialInv, SerialJobInv, SettlementInv, JobInv
  <2>2. /\ payment' = [payment EXCEPT ![job[h].id] = Target(job[h])]
        /\ Target(job[h]) \in PaymentTransitions(payment[job[h].id])
        /\ UNCHANGED ledger
    BY <1>2, <2>1 DEF SettleUpdate
  <2> QED BY <2>1, <2>2, LifecycleRow
<1>3. ASSUME NEW h \in Handlers, AppendLedger(h) PROVE Lifecycle!Next
  <2>1. /\ job[h].id \in Requests /\ payment[job[h].id] = "paid" /\ ledger[job[h].id] = 0
    BY <1>3 DEF AppendLedger, TypeOK, Job, SerialInv, SerialJobInv, SettlementInv, JobInv
  <2>2. ledger' = [ledger EXCEPT ![job[h].id] = 1] /\ UNCHANGED payment
    BY <1>3, <2>1 DEF AppendLedger
  <2>3. Lifecycle!Book(job[h].id)
    BY <2>1, <2>2 DEF Lifecycle!Book
  <2> QED BY <2>1, <2>3 DEF Lifecycle!Next
<1>4. CASE UNCHANGED <<payment, ledger>>
  BY <1>4
<1> QED BY <1>1, <1>2, <1>3, <1>4
        DEF Next, HandlerStep, TryInsertCallback, SettleIgnored, Refresh, CountLedger,
            NotifyPos, NextMessage, DrainDone, QueryTransactionStatus, MarkPublished,
            ListUnpublished, QueryRaises, ReceiveCallback, ReconcilePayment,
            CustomerPays, PromptFails, Crash, vars

\* A service that handles callbacks and reconciliations one at a time keeps the abstract
\* promise for any number of initiation requests, keys and process deaths: what
\* OneLedgerLine and PaidIsFinal lose is lost to concurrent handlers alone.
THEOREM SerialRefinesLifecycle ==
  ASSUME SerialHandling
  PROVE  Spec => RefinesLifecycle
<1>1. Init => Lifecycle!Init
  BY DEF Init, Lifecycle!Init
<1>2. TypeOK /\ SettlementInv /\ SerialInv /\ [Next]_vars
        => [Lifecycle!Next]_<<payment, ledger>>
  BY SerialLifecycleStep
<1> QED
  BY <1>1, <1>2, TypeCorrect, SettlementInvariant, SerialInvariant, PTL
  DEF Spec, RefinesLifecycle, Lifecycle!Spec
===============================================================================
