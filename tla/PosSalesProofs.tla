---------------------------- MODULE PosSalesProofs ----------------------------
(***************************************************************************)
(* Machine-checked safety of PosSales for any number of sales, keys,       *)
(* concurrent requests and process deaths.                                 *)
(***************************************************************************)
EXTENDS PosSales, TLAPS

\* A step of a POST /sales request, whether it goes on or fails.
CreateRequestStep(c) == CreateStep(c) \/ InsertRefused(c) \/ CommitCreateFails(c)

LEMMA IdleJobType == IdleJob \in Job
  BY DEF IdleJob, Job, JobRecord, SaleStatuses

\* The record a request starts with is a job.
LEMMA StartJobType ==
  ASSUME NEW s \in Sales, NEW step \in {"update", "handoff"},
         NEW kind \in {"pay", "cancel", "result"}, NEW new \in SaleStatuses, kind = "result" => new \in Results
  PROVE  [IdleJob EXCEPT !.pc = step, !.kind = kind, !.id = s, !.new = new] \in Job
  BY DEF IdleJob, Job, JobRecord

LEMMA SetJobType ==
  ASSUME job \in [Handlers -> Job], NEW h \in Handlers, NEW j \in Job, SetJob(h, j)
  PROVE  job' \in [Handlers -> Job]
  BY DEF SetJob

-------------------------------------------------------------------------------
\* Every variable keeps its type through every request, result and process death.
THEOREM TypeCorrect == Spec => []TypeOK
<1>1. Init => TypeOK
  BY IdleJobType, MaxCrashesAssumption DEF Init, TypeOK, RowStatuses, CreatePC
<1>2. TypeOK /\ [Next]_vars => TypeOK'
  <2> SUFFICES ASSUME TypeOK, [Next]_vars PROVE TypeOK'
    OBVIOUS
  <2> USE DEF creation, money, TypeOK
  <2>1. ASSUME NEW c \in Sales, CreateRequestStep(c) PROVE TypeOK'
    <3> USE <2>1 DEF CreatePC, CreateGoto, Reply, Existing
    <3>1. CASE BeginCreate(c)   BY <3>1 DEF BeginCreate
    <3>2. CASE Insert(c)        BY <3>2 DEF Insert
    <3>3. CASE CommitCreate(c)  BY <3>3 DEF CommitCreate, RowStatuses, SaleStatuses
    <3>4. CASE ReplyCreated(c)  BY <3>4 DEF ReplyCreated
    <3>5. CASE InsertRefused(c) BY <3>5 DEF InsertRefused
    <3>6. CASE CommitCreateFails(c) BY <3>6 DEF CommitCreateFails
    <3> QED BY <2>1, <3>1, <3>2, <3>3, <3>4, <3>5, <3>6 DEF CreateRequestStep, CreateStep
  <2>2. ASSUME NEW h \in Handlers, NEW s \in Sales, RequestPayment(h, s) PROVE TypeOK'
    <3>1. job' \in [Handlers -> Job]
      BY <2>2, StartJobType, SetJobType DEF RequestPayment, SaleStatuses
    <3> QED BY <2>2, <3>1 DEF RequestPayment
  <2>3. ASSUME NEW h \in Handlers, NEW s \in Sales, Transition(h, s) PROVE TypeOK'
    <3>1. job' \in [Handlers -> Job]
      BY <2>3, StartJobType, SetJobType DEF Transition, SaleStatuses
    <3> QED BY <2>3, <3>1 DEF Transition
  <2>4. ASSUME NEW h \in Handlers, NEW s \in Sales, NEW r \in Results,
               ApplyPaymentResult(h, s, r)
        PROVE  TypeOK'
    <3>1. job' \in [Handlers -> Job]
      BY <2>4, StartJobType, SetJobType DEF ApplyPaymentResult, SaleStatuses, Results
    <3> QED BY <2>4, <3>1 DEF ApplyPaymentResult
  <2>5. ASSUME NEW h \in Handlers, UpdateSale(h) PROVE TypeOK'
    <3>1. [job[h] EXCEPT !.wrote = TRUE,
                         !.pc = IF job[h].kind = "pay" THEN "handoff" ELSE "commit"] \in Job
      BY <2>5 DEF UpdateSale, Job, JobRecord
    <3>2. job' \in [Handlers -> Job]
      BY <2>5, <3>1, SetJobType DEF UpdateSale
    <3> QED BY <2>5, <3>2 DEF UpdateSale
  <2>6. ASSUME NEW h \in Handlers, HandlerStep(h) \/ CommitFails(h) PROVE TypeOK'
    <3>0. /\ job[h] \in Job
          /\ job[h].pc # "idle" => job[h].id \in Sales
          /\ job[h].new \in SaleStatuses
          /\ job[h].kind = "result" => job[h].new \in Results
      BY DEF Job, JobRecord
    <3>1. CASE InitiateStk(h)
      <4>1. [job[h] EXCEPT !.pc = "answer"] \in Job
        BY <3>0, <3>1 DEF InitiateStk, Job, JobRecord
      <4>2. job' \in [Handlers -> Job]
        BY <3>1, <4>1, SetJobType DEF InitiateStk
      <4> QED BY <3>0, <3>1, <4>2 DEF InitiateStk
    <3>2. CASE PaymentsAnswered(h)
      <4>1. [job[h] EXCEPT !.pc = "commit"] \in Job
        BY <3>0, <3>2 DEF PaymentsAnswered, Job, JobRecord
      <4>2. job' \in [Handlers -> Job]
        BY <3>2, <4>1, SetJobType DEF PaymentsAnswered
      <4> QED BY <3>2, <4>2 DEF PaymentsAnswered
    <3>3. CASE PaymentsUnavailable(h)
      <4>1. job' \in [Handlers -> Job]
        BY <3>3, IdleJobType, SetJobType DEF PaymentsUnavailable, EndJob
      <4> QED BY <3>3, <4>1 DEF PaymentsUnavailable
    <3>4. CASE Commit(h)
      <4>1. job' \in [Handlers -> Job]
        BY <3>4, IdleJobType, SetJobType DEF Commit, EndJob
      <4>2. sale' \in [Sales -> RowStatuses]
        BY <3>0, <3>4 DEF Commit, RowStatuses
      <4> QED BY <3>4, <4>1, <4>2 DEF Commit
    <3>5. CASE CommitFails(h)
      <4>1. job' \in [Handlers -> Job]
        BY <3>5, IdleJobType, SetJobType DEF CommitFails, EndJob
      <4> QED BY <3>5, <4>1 DEF CommitFails
    <3> QED BY <2>6, <3>1, <3>2, <3>3, <3>4, <3>5 DEF HandlerStep
  <2>7. ASSUME NEW s \in Sales, CustomerPays(s) PROVE TypeOK'
    BY <2>7 DEF CustomerPays
  <2>8. CASE Crash
    BY <2>8, IdleJobType, MaxCrashesAssumption DEF Crash, CreateKilled, CreatePC
  <2>9. CASE UNCHANGED vars
    BY <2>9 DEF vars
  <2> QED BY <2>1, <2>2, <2>3, <2>4, <2>5, <2>6, <2>7, <2>8, <2>9 DEF Next, CreateRequestStep
<1> QED BY <1>1, <1>2, PTL DEF Spec
-------------------------------------------------------------------------------
(* The sale follows the money *)

\* What a request in flight knows of the sale it is about to write.
JobInv(j) ==
  j.pc # "idle" =>
    /\ j.kind = "pay" => j.new = "awaiting_payment"
    /\ j.kind = "cancel" => j.new = "cancelled"
    /\ j.kind = "result" => j.id \in asked
    /\ j.kind = "pay" /\ j.pc \in {"answer", "commit"} => j.id \in asked
    /\ j.new = "paid" => j.id \in charged

\* The inductive strengthening of PaidMeansCharged.
MoneyInv ==
  /\ PaidMeansCharged
  /\ \A h \in Handlers : JobInv(job[h])

LEMMA MoneyInvStep ==
  ASSUME TypeOK, MoneyInv, [Next]_vars
  PROVE  MoneyInv'
<1> USE DEF creation, money
<1>0. JobInv(IdleJob) /\ JobInv(IdleJob)'
  BY DEF JobInv, IdleJob
<1>1. ASSUME NEW c \in Sales, CreateRequestStep(c) PROVE MoneyInv'
  <2>1. job' = job /\ asked' = asked /\ charged' = charged
    BY <1>1 DEF CreateRequestStep, CreateStep, BeginCreate, Insert, InsertRefused, ReplyCreated, CommitCreate,
           CommitCreateFails
  <2>2. sale' = sale \/ sale' = [sale EXCEPT ![c] = "pending"]
    BY <1>1 DEF CreateRequestStep, CreateStep, BeginCreate, Insert, InsertRefused, ReplyCreated, CommitCreate,
           CommitCreateFails
  <2> QED BY <2>1, <2>2 DEF MoneyInv, PaidMeansCharged, JobInv, TypeOK
<1>2. ASSUME NEW h \in Handlers, NEW j, JobInv(j), SetJob(h, j),
             UNCHANGED <<sale, asked, charged>>
      PROVE  MoneyInv'
  <2>1. \A g \in Handlers : job'[g] = IF g = h THEN j ELSE job[g]
    BY <1>2 DEF SetJob, TypeOK
  <2>2. \A g \in Handlers : JobInv(job'[g])
    BY <2>1, <1>2 DEF MoneyInv
  <2> QED BY <1>2, <2>2 DEF MoneyInv, PaidMeansCharged, JobInv
<1>3. ASSUME NEW h \in Handlers, NEW s \in Sales, RequestPayment(h, s) PROVE MoneyInv'
  <2> DEFINE j == [IdleJob EXCEPT !.pc = IF sale[s] = "pending" THEN "update" ELSE "handoff",
                                  !.kind = "pay", !.id = s, !.new = "awaiting_payment"]
  <2>1. JobInv(j)
    BY DEF JobInv, IdleJob
  <2> QED BY <1>2, <1>3, <2>1 DEF RequestPayment
<1>4. ASSUME NEW h \in Handlers, NEW s \in Sales, Transition(h, s) PROVE MoneyInv'
  <2> DEFINE j == [IdleJob EXCEPT !.pc = "update", !.kind = "cancel", !.id = s,
                                  !.new = "cancelled"]
  <2>1. JobInv(j)
    BY DEF JobInv, IdleJob
  <2> QED BY <1>2, <1>4, <2>1 DEF Transition
<1>5. ASSUME NEW h \in Handlers, NEW s \in Sales, NEW r \in Results,
             ApplyPaymentResult(h, s, r)
      PROVE  MoneyInv'
  <2> DEFINE j == [IdleJob EXCEPT !.pc = "update", !.kind = "result", !.id = s, !.new = r]
  <2>1. JobInv(j)
    BY <1>5 DEF ApplyPaymentResult, JobInv, IdleJob, Results
  <2>2. CASE Applies(s, r)
    BY <1>2, <1>5, <2>1, <2>2 DEF ApplyPaymentResult
  <2>3. CASE ~Applies(s, r)
    BY <1>5, <2>3
      DEF ApplyPaymentResult, MoneyInv, PaidMeansCharged, JobInv
  <2> QED BY <2>2, <2>3
<1>6. ASSUME NEW h \in Handlers, UpdateSale(h) PROVE MoneyInv'
  <2> DEFINE j == [job[h] EXCEPT !.wrote = TRUE,
                                 !.pc = IF job[h].kind = "pay" THEN "handoff" ELSE "commit"]
  <2>1. JobInv(j)
    BY <1>6 DEF UpdateSale, MoneyInv, JobInv, TypeOK, Job, JobRecord
  <2> QED BY <1>2, <1>6, <2>1 DEF UpdateSale
<1>7. ASSUME NEW h \in Handlers, InitiateStk(h) PROVE MoneyInv'
  <2>1. /\ asked \subseteq asked' /\ job[h].id \in asked'
        /\ sale' = sale /\ charged' = charged
    BY <1>7 DEF InitiateStk
  <2>2. /\ job[h] \in JobRecord
        /\ job' = [job EXCEPT ![h] = [job[h] EXCEPT !.pc = "answer"]]
        /\ job[h].pc = "handoff"
    BY <1>7 DEF InitiateStk, SetJob, TypeOK, Job
  <2>3. ASSUME NEW g \in Handlers PROVE JobInv(job[g])'
    <3>1. CASE g = h
      BY <2>1, <2>2, <3>1 DEF MoneyInv, JobInv, TypeOK, JobRecord
    <3>2. CASE g # h
      BY <2>1, <2>2, <3>2 DEF MoneyInv, JobInv, TypeOK
    <3> QED BY <3>1, <3>2
  <2> QED BY <2>1, <2>3 DEF MoneyInv, PaidMeansCharged
<1>8. ASSUME NEW h \in Handlers, PaymentsAnswered(h) PROVE MoneyInv'
  <2> DEFINE j == [job[h] EXCEPT !.pc = "commit"]
  <2>1. JobInv(j)
    BY <1>8 DEF PaymentsAnswered, MoneyInv, JobInv, TypeOK, Job, JobRecord
  <2> QED BY <1>2, <1>8, <2>1 DEF PaymentsAnswered
<1>9. ASSUME NEW h \in Handlers, PaymentsUnavailable(h) \/ CommitFails(h) PROVE MoneyInv'
  BY <1>0, <1>2, <1>9 DEF PaymentsUnavailable, CommitFails, EndJob
<1>10. ASSUME NEW h \in Handlers, Commit(h) PROVE MoneyInv'
  <2>1. /\ JobInv(job[h]) /\ job[h].pc = "commit"
        /\ job[h].kind \in {"pay", "cancel", "result"}
        /\ job[h].id \in Sales
    BY <1>10 DEF Commit, MoneyInv, TypeOK, Job, JobRecord
  <2>3. \A s \in Sales : sale'[s] = sale[s] \/ (s = job[h].id /\ sale'[s] = job[h].new)
    BY <1>10, <2>1 DEF Commit, TypeOK
  <2>4. PaidMeansCharged'
    BY <1>10, <2>1, <2>3
      DEF Commit, MoneyInv, JobInv, PaidMeansCharged
  <2>5. \A g \in Handlers : JobInv(job[g])'
    BY <1>0, <1>10 DEF Commit, EndJob, SetJob, MoneyInv, JobInv, TypeOK
  <2> QED BY <2>4, <2>5 DEF MoneyInv
<1>11. ASSUME NEW s \in Sales, CustomerPays(s) PROVE MoneyInv'
  BY <1>11 DEF CustomerPays, MoneyInv, PaidMeansCharged, JobInv
<1>12. CASE Crash
  BY <1>0, <1>12 DEF Crash, MoneyInv, PaidMeansCharged, JobInv
<1>13. CASE UNCHANGED vars
  BY <1>13 DEF vars, MoneyInv, PaidMeansCharged, JobInv
<1> QED
  BY <1>1, <1>3, <1>4, <1>5, <1>6, <1>7, <1>8, <1>9, <1>10, <1>11, <1>12, <1>13
    DEF Next, HandlerStep, CreateRequestStep

LEMMA MoneyInvCorrect == Spec => []MoneyInv
<1>1. Init => MoneyInv
  BY DEF Init, MoneyInv, PaidMeansCharged, JobInv, IdleJob
<1>2. TypeOK /\ MoneyInv /\ [Next]_vars => MoneyInv'
  BY MoneyInvStep
<1> QED BY <1>1, <1>2, TypeCorrect, PTL DEF Spec

\* No interleaving of requests, late or repeated results, lost updates and
\* crashes makes a sale paid whose customer was not charged.
THEOREM SalePaidOnlyIfCharged == Spec => []PaidMeansCharged
<1>1. MoneyInv => PaidMeansCharged
  BY DEF MoneyInv
<1> QED BY <1>1, MoneyInvCorrect, PTL
-------------------------------------------------------------------------------
(* One sale per key *)

\* Where a POST /sales request is, which rows of its key are committed or about to
\* be, and what it was answered.
CreateInv ==
  /\ OneSalePerKey
  /\ \A c \in Sales :
       /\ Committed(c) => cpc[c] = "done"
       /\ Inserted(c) => Existing(key[c]) = {}
       /\ cpc[c] = "commit" => reply[c] = c
       /\ cpc[c] = "done" => reply[c] \in Existing(key[c])
  /\ \A c, d \in Sales : Inserted(c) /\ Inserted(d) /\ key[c] = key[d] => c = d

\* Requests on a sale, and payments, only know committed sales.
KnownInv ==
  /\ \A s \in asked : Committed(s)
  /\ \A h \in Handlers : job[h].pc # "idle" => Committed(job[h].id)

\* A step of a request on a sale, or of the customer, creates no row and removes none.
LEMMA SameRows ==
  ASSUME TypeOK, KnownInv,
         \/ \E h \in Handlers : UpdateSale(h) \/ HandlerStep(h) \/ CommitFails(h)
         \/ \E h \in Handlers, s \in Sales :
              \/ RequestPayment(h, s) \/ Transition(h, s)
              \/ \E r \in Results : ApplyPaymentResult(h, s, r)
         \/ \E s \in Sales : CustomerPays(s)
  PROVE  UNCHANGED creation /\ \A s \in Sales : Committed(s)' <=> Committed(s)
<1>1. ASSUME NEW h \in Handlers, UpdateSale(h)
      PROVE  UNCHANGED <<creation, sale>>
  BY <1>1 DEF UpdateSale
<1>2. ASSUME NEW h \in Handlers,
             \/ InitiateStk(h) \/ PaymentsAnswered(h)
             \/ PaymentsUnavailable(h) \/ CommitFails(h)
      PROVE  UNCHANGED <<creation, sale>>
  BY <1>2 DEF InitiateStk, PaymentsAnswered, PaymentsUnavailable, CommitFails
<1>3. ASSUME NEW h \in Handlers, Commit(h)
      PROVE  UNCHANGED creation /\ \A s \in Sales : Committed(s)' <=> Committed(s)
  <2>1. /\ job[h].pc = "commit" /\ job[h].new \in SaleStatuses
        /\ Committed(job[h].id)
    BY <1>3 DEF Commit, TypeOK, Job, JobRecord, KnownInv
  <2>2. "absent" \notin SaleStatuses
    BY DEF SaleStatuses
  <2> QED BY <1>3, <2>1, <2>2 DEF Commit, Committed, TypeOK
<1>4. ASSUME NEW h \in Handlers, NEW s \in Sales,
             RequestPayment(h, s) \/ Transition(h, s)
      PROVE  UNCHANGED <<creation, sale>>
  BY <1>4 DEF RequestPayment, Transition
<1>5. ASSUME NEW h \in Handlers, NEW s \in Sales, NEW r \in Results,
             ApplyPaymentResult(h, s, r)
      PROVE  UNCHANGED <<creation, sale>>
  BY <1>5 DEF ApplyPaymentResult
<1>6. ASSUME NEW s \in Sales, CustomerPays(s)
      PROVE  UNCHANGED <<creation, sale>>
  BY <1>6 DEF CustomerPays
<1> QED BY <1>1, <1>2, <1>3, <1>4, <1>5, <1>6 DEF HandlerStep, Committed

\* A POST /sales request leaves the rows alone or commits its own.
LEMMA CreateRows ==
  ASSUME TypeOK, NEW c \in Sales, CreateRequestStep(c)
  PROVE  /\ key' = key /\ job' = job /\ asked' = asked
         /\ \A s \in Sales : Committed(s) => Committed(s)'
         /\ \A s \in Sales : s # c => /\ cpc'[s] = cpc[s] /\ reply'[s] = reply[s]
                                      /\ Committed(s)' <=> Committed(s)
         /\ CommitCreate(c) \/ (Committed(c)' <=> Committed(c))
<1> USE DEF money, CreateGoto, Reply, Committed, TypeOK
<1>1. CASE BeginCreate(c)   BY <1>1 DEF BeginCreate
<1>2. CASE Insert(c)        BY <1>2 DEF Insert
<1>3. CASE CommitCreate(c)  BY <1>3 DEF CommitCreate
<1>4. CASE ReplyCreated(c)  BY <1>4 DEF ReplyCreated
<1>5. CASE InsertRefused(c) BY <1>5 DEF InsertRefused
<1>6. CASE CommitCreateFails(c) BY <1>6 DEF CommitCreateFails
<1> QED BY <1>1, <1>2, <1>3, <1>4, <1>5, <1>6 DEF CreateRequestStep, CreateStep

LEMMA KnownInvCorrect == Spec => []KnownInv
<1>1. Init => KnownInv
  BY DEF Init, KnownInv, IdleJob
<1>2. ASSUME TypeOK, TypeOK', KnownInv, [Next]_vars PROVE KnownInv'
  <2>0. ASSUME UNCHANGED <<sale, asked>>, NEW h \in Handlers, NEW j, SetJob(h, j),
               j.pc # "idle" => Committed(j.id)
        PROVE  KnownInv'
    BY <1>2, <2>0 DEF KnownInv, Committed, SetJob, TypeOK
  <2> USE DEF creation, money
  <2>1. ASSUME NEW c \in Sales, CreateRequestStep(c) PROVE KnownInv'
    BY <1>2, <2>1, CreateRows DEF KnownInv, TypeOK, Job
  <2>2. ASSUME NEW h \in Handlers, NEW s \in Sales, RequestPayment(h, s) PROVE KnownInv'
    BY <2>0, <2>2 DEF RequestPayment, IdleJob, Committed
  <2>3. ASSUME NEW h \in Handlers, NEW s \in Sales, Transition(h, s) PROVE KnownInv'
    BY <2>0, <2>3 DEF Transition, IdleJob, Committed, SaleTransitions
  <2>4. ASSUME NEW h \in Handlers, NEW s \in Sales, NEW r \in Results,
               ApplyPaymentResult(h, s, r)
        PROVE  KnownInv'
    <3>1. CASE Applies(s, r)
      BY <1>2, <2>0, <2>4, <3>1 DEF ApplyPaymentResult, IdleJob, KnownInv
    <3>2. CASE ~Applies(s, r)
      BY <1>2, <2>4, <3>2 DEF ApplyPaymentResult, KnownInv, Committed
    <3> QED BY <3>1, <3>2
  <2>5. ASSUME NEW h \in Handlers, UpdateSale(h) PROVE KnownInv'
    BY <1>2, <2>0, <2>5 DEF UpdateSale, KnownInv, TypeOK, Job, JobRecord
  <2>6. ASSUME NEW h \in Handlers, InitiateStk(h) PROVE KnownInv'
    <3>1. /\ Committed(job[h].id) /\ job[h] \in JobRecord
          /\ job' = [job EXCEPT ![h] = [job[h] EXCEPT !.pc = "answer"]]
          /\ asked' = asked \union {job[h].id} /\ sale' = sale
      BY <1>2, <2>6 DEF InitiateStk, KnownInv, SetJob, TypeOK, Job
    <3>2. \A g \in Handlers : job'[g].pc # "idle" => Committed(job'[g].id)
      BY <1>2, <3>1 DEF KnownInv, TypeOK, JobRecord
    <3> QED BY <1>2, <3>1, <3>2 DEF KnownInv, Committed
  <2>7. ASSUME NEW h \in Handlers, PaymentsAnswered(h) PROVE KnownInv'
    BY <1>2, <2>0, <2>7 DEF PaymentsAnswered, KnownInv, TypeOK, Job, JobRecord
  <2>8. ASSUME NEW h \in Handlers, PaymentsUnavailable(h) \/ CommitFails(h) PROVE KnownInv'
    BY <2>0, <2>8 DEF PaymentsUnavailable, CommitFails, EndJob, IdleJob
  <2>9. ASSUME NEW h \in Handlers, Commit(h) PROVE KnownInv'
    <3>1. \A s \in Sales : Committed(s)' <=> Committed(s)
      BY <1>2, <2>9, SameRows DEF HandlerStep
    <3>2. \A g \in Handlers : job'[g].pc # "idle" => Committed(job'[g].id)
      BY <1>2, <2>9 DEF Commit, EndJob, SetJob, IdleJob, KnownInv, TypeOK
    <3> QED BY <1>2, <2>9, <3>1, <3>2 DEF Commit, KnownInv, TypeOK, Job
  <2>10. ASSUME NEW s \in Sales, CustomerPays(s) PROVE KnownInv'
    BY <1>2, <2>10 DEF CustomerPays, KnownInv, Committed
  <2>11. CASE Crash
    BY <1>2, <2>11 DEF Crash, KnownInv, Committed, IdleJob
  <2>12. CASE UNCHANGED vars
    BY <1>2, <2>12 DEF vars, KnownInv, Committed
  <2> QED
    BY <1>2, <2>1, <2>2, <2>3, <2>4, <2>5, <2>6, <2>7, <2>8, <2>9, <2>10, <2>11, <2>12
      DEF Next, HandlerStep, CreateRequestStep
<1> QED BY <1>1, <1>2, TypeCorrect, PTL DEF Spec

LEMMA CreateInvCorrect == Spec => []CreateInv
<1> USE DEF Existing, Inserted
<1>1. Init => CreateInv
  BY DEF Init, CreateInv, OneSalePerKey, Committed
<1>2. ASSUME TypeOK, TypeOK', KnownInv, CreateInv, [Next]_vars PROVE CreateInv'
  <2>0. ASSUME UNCHANGED creation, \A s \in Sales : Committed(s)' <=> Committed(s)
        PROVE  CreateInv'
    BY <1>2, <2>0 DEF CreateInv, OneSalePerKey, creation
  <2>1. ASSUME NEW c \in Sales, CreateRequestStep(c) PROVE CreateInv'
    <3>0. /\ key' = key
          /\ \A s \in Sales : Committed(s) => Committed(s)'
          /\ \A s \in Sales : s # c => /\ cpc'[s] = cpc[s] /\ reply'[s] = reply[s]
                                       /\ Committed(s)' <=> Committed(s)
          /\ CommitCreate(c) \/ (Committed(c)' <=> Committed(c))
      BY <1>2, <2>1, CreateRows
    <3> USE <1>2, <3>0 DEF CreateInv, OneSalePerKey, TypeOK, CreateGoto, Reply
    <3>1. CASE BeginCreate(c)       BY <3>1 DEF BeginCreate, CommitCreate
    <3>2. CASE Insert(c)            BY <3>2 DEF Insert, KeyBusy, CommitCreate
    <3>3. CASE CommitCreate(c)      BY <3>3 DEF CommitCreate, Committed
    <3>4. CASE ReplyCreated(c)      BY <3>4 DEF ReplyCreated, CommitCreate
    <3>5. CASE InsertRefused(c)     BY <3>5 DEF InsertRefused, CommitCreate
    <3>6. CASE CommitCreateFails(c) BY <3>6 DEF CommitCreateFails, Committed
    <3> QED BY <2>1, <3>1, <3>2, <3>3, <3>4, <3>5, <3>6 DEF CreateRequestStep, CreateStep
  <2>2. CASE Crash
    <3>1. /\ key' = key /\ reply' = reply /\ \A s \in Sales : Committed(s)' <=> Committed(s)
          /\ \A c \in Sales : cpc'[c] = CreateKilled(c)
      BY <2>2 DEF Crash, Committed
    <3>2. \A c \in Sales : cpc[c] \notin {"insert", "reply", "commit"} => cpc'[c] = cpc[c]
      BY <3>1 DEF CreateKilled
    <3>3. \A c \in Sales : cpc[c] \in {"insert", "reply", "commit"} => cpc'[c] \in {"error", "lost"}
      BY <3>1 DEF CreateKilled
    <3> QED BY <1>2, <3>1, <3>2, <3>3 DEF CreateInv, OneSalePerKey
  <2>3. CASE UNCHANGED vars
    BY <2>0, <2>3 DEF vars, creation, Committed
  <2> QED BY <1>2, <2>0, <2>1, <2>2, <2>3, SameRows DEF Next, CreateRequestStep
<1> QED BY <1>1, <1>2, TypeCorrect, KnownInvCorrect, PTL DEF Spec

\* However many POST /sales requests carry one key, at most one of them makes a sale.
THEOREM AtMostOneSalePerKey == Spec => []OneSalePerKey
<1>1. CreateInv => OneSalePerKey
  BY DEF CreateInv
<1> QED BY <1>1, CreateInvCorrect, PTL

\* Every POST /sales that was answered, and whose transaction was not lost after the
\* answer, names the only sale of its key, committed or about to be.
THEOREM EveryAnswerNamesOneSale == Spec => []AnswersNameOneSale
<1>1. ASSUME TypeOK, CreateInv, NEW c \in Sales, cpc[c] \in {"commit", "done"}
      PROVE  SalesOf(key[c]) = {reply[c]}
  <2> USE <1>1 DEF CreateInv, OneSalePerKey, Existing, Inserted
  <2>1. CASE cpc[c] = "commit"
    BY <2>1 DEF SalesOf
  <2>2. CASE cpc[c] = "done"
    BY <2>2 DEF SalesOf
  <2> QED BY <1>1, <2>1, <2>2
<1>2. TypeOK /\ CreateInv => AnswersNameOneSale
  BY <1>1 DEF AnswersNameOneSale
<1> QED BY <1>2, CreateInvCorrect, TypeCorrect, PTL

-------------------------------------------------------------------------------
(* Serial handling *)

SerialHandling == \A g, h \in Handlers : g = h

\* With one handler the row is, until the commit, what the request decided on.
SerialJobInv(j) ==
  j.pc = "update" \/ (j.pc # "idle" /\ j.wrote) =>
    /\ j.kind \in {"pay", "cancel"} => sale[j.id] = "pending"
    /\ j.kind = "result" => sale[j.id] \in {"pending", "awaiting_payment"}

SerialInv == \A h \in Handlers : SerialJobInv(job[h])

\* What the one handler does next is all that any handler does.
LEMMA SerialJobSet ==
  ASSUME SerialHandling, TypeOK, NEW h \in Handlers, NEW j, SetJob(h, j)
  PROVE  /\ job'[h] = j
         /\ SerialJobInv(job[h])' => SerialInv'
<1>1. job'[h] = j
  BY DEF SetJob, TypeOK
<1>2. ASSUME SerialJobInv(job[h])', NEW g \in Handlers PROVE SerialJobInv(job[g])'
  BY <1>2 DEF SerialHandling, SerialJobInv
<1> QED BY <1>1, <1>2 DEF SerialInv

LEMMA SerialInvStep ==
  ASSUME SerialHandling, TypeOK, KnownInv, CreateInv, SerialInv, [Next]_vars
  PROVE  SerialInv'
<1> USE DEF creation, money, EndJob
<1>0. IdleJob \in JobRecord /\ IdleJob.pc = "idle"
  BY IdleJobType DEF Job, IdleJob
<1>1. ASSUME UNCHANGED <<sale, job>> PROVE SerialInv'
  BY <1>1 DEF SerialInv, SerialJobInv
<1>2. ASSUME NEW c \in Sales, CreateRequestStep(c) PROVE SerialInv'
  <2>1. CASE CommitCreate(c)
    <3>1. ~Committed(c) /\ job' = job /\ \A s \in Sales \ {c} : sale'[s] = sale[s]
      BY <2>1 DEF CommitCreate, CreateInv, TypeOK
    <3>2. \A h \in Handlers : job[h].pc # "idle" => job[h].id \in Sales /\ job[h].id # c
      BY <3>1 DEF KnownInv, TypeOK, Job
    <3> QED BY <3>1, <3>2 DEF SerialInv, SerialJobInv
  <2> QED BY <1>1, <1>2, <2>1
          DEF CreateRequestStep, CreateStep, BeginCreate, Insert, InsertRefused, ReplyCreated,
              CommitCreateFails
<1>3. ASSUME NEW h \in Handlers, NEW s \in Sales, RequestPayment(h, s) PROVE SerialInv'
  <2>1. job'[h] = [IdleJob EXCEPT !.pc = IF sale[s] = "pending" THEN "update" ELSE "handoff",
                                  !.kind = "pay", !.id = s, !.new = "awaiting_payment"]
    BY <1>3, SerialJobSet DEF RequestPayment
  <2>2. ~IdleJob.wrote
    BY DEF IdleJob
  <2>3. SerialJobInv(job[h])'
    BY <1>0, <1>3, <2>1, <2>2 DEF RequestPayment, SerialJobInv, JobRecord
  <2> QED BY <1>3, <2>3, SerialJobSet DEF RequestPayment
<1>4. ASSUME NEW h \in Handlers, NEW s \in Sales, Transition(h, s) PROVE SerialInv'
  <2>1. job'[h] = [IdleJob EXCEPT !.pc = "update", !.kind = "cancel", !.id = s,
                                  !.new = "cancelled"]
    BY <1>4, SerialJobSet DEF Transition
  <2>2. sale[s] = "pending"
    BY <1>4 DEF Transition, SaleTransitions
  <2>3. SerialJobInv(job[h])'
    BY <1>0, <1>4, <2>1, <2>2 DEF Transition, SerialJobInv, JobRecord
  <2> QED BY <1>4, <2>3, SerialJobSet DEF Transition
<1>5. ASSUME NEW h \in Handlers, NEW s \in Sales, NEW r \in Results,
             ApplyPaymentResult(h, s, r)
      PROVE  SerialInv'
  <2>1. job'[h] = [IdleJob EXCEPT !.pc = "update", !.kind = "result", !.id = s, !.new = r]
    BY <1>5, SerialJobSet DEF ApplyPaymentResult
  <2>2. sale[s] \in {"pending", "awaiting_payment"}
    <3>1. Committed(s) /\ sale[s] \notin SaleTerminal /\ sale[s] \in RowStatuses
      BY <1>5 DEF ApplyPaymentResult, Applies, KnownInv, TypeOK
    <3> QED BY <3>1 DEF Committed, RowStatuses, SaleStatuses, SaleTerminal, SaleTransitions
  <2>3. SerialJobInv(job[h])'
    BY <1>0, <1>5, <2>1, <2>2 DEF ApplyPaymentResult, SerialJobInv, JobRecord
  <2> QED BY <1>5, <2>3, SerialJobSet DEF ApplyPaymentResult
<1>6. ASSUME NEW h \in Handlers, UpdateSale(h) PROVE SerialInv'
  <2>1. /\ job'[h] = [job[h] EXCEPT !.wrote = TRUE,
                                    !.pc = IF job[h].kind = "pay" THEN "handoff" ELSE "commit"]
        /\ job[h] \in JobRecord /\ SerialJobInv(job[h])
    BY <1>6, SerialJobSet DEF UpdateSale, TypeOK, Job, SerialInv
  <2>2. SerialJobInv(job[h])'
    BY <1>6, <2>1 DEF UpdateSale, SerialJobInv, JobRecord
  <2> QED BY <1>6, <2>2, SerialJobSet DEF UpdateSale
<1>7. ASSUME NEW h \in Handlers, InitiateStk(h) \/ PaymentsAnswered(h) PROVE SerialInv'
  <2>1. /\ \/ job'[h] = [job[h] EXCEPT !.pc = "answer"]
           \/ job'[h] = [job[h] EXCEPT !.pc = "commit"]
        /\ job[h] \in JobRecord /\ SerialJobInv(job[h])
    BY <1>7, SerialJobSet DEF InitiateStk, PaymentsAnswered, TypeOK, Job, SerialInv
  <2>2. SerialJobInv(job[h])'
    BY <1>7, <2>1 DEF InitiateStk, PaymentsAnswered, SerialJobInv, JobRecord
  <2> QED BY <1>7, <2>2, SerialJobSet DEF InitiateStk, PaymentsAnswered
<1>8. ASSUME NEW h \in Handlers, PaymentsUnavailable(h) \/ Commit(h) \/ CommitFails(h)
      PROVE  SerialInv'
  <2>1. job'[h] = IdleJob
    BY <1>8, SerialJobSet DEF PaymentsUnavailable, Commit, CommitFails
  <2>2. SerialJobInv(job[h])'
    BY <1>0, <2>1 DEF SerialJobInv
  <2> QED BY <1>8, <2>2, SerialJobSet DEF PaymentsUnavailable, Commit, CommitFails
<1>9. CASE Crash
  BY <1>0, <1>9 DEF Crash, SerialInv, SerialJobInv
<1> QED BY <1>1, <1>2, <1>3, <1>4, <1>5, <1>6, <1>7, <1>8, <1>9
        DEF Next, HandlerStep, CreateRequestStep, CustomerPays, vars

LEMMA SerialInvariant ==
  ASSUME SerialHandling
  PROVE  Spec => []SerialInv
<1>1. Init => SerialInv
  BY DEF Init, SerialInv, SerialJobInv, IdleJob
<1>2. TypeOK /\ KnownInv /\ CreateInv /\ SerialInv /\ [Next]_vars => SerialInv'
  BY SerialInvStep
<1> QED BY <1>1, <1>2, TypeCorrect, KnownInvCorrect, CreateInvCorrect, PTL DEF Spec

\* The commit of the one request moves the sale as the transition table says.
LEMMA CommitLifecycle ==
  ASSUME TypeOK, MoneyInv, SerialInv, NEW h \in Handlers, Commit(h), job[h].wrote
  PROVE  Lifecycle!Next
<1> DEFINE j == job[h]
<1>1. /\ j.id \in Sales /\ j.kind \in {"pay", "cancel", "result"}
      /\ j.kind = "result" => j.new \in Results
      /\ JobInv(j) /\ SerialJobInv(j) /\ j.pc = "commit"
  BY DEF TypeOK, Job, JobRecord, Commit, MoneyInv, SerialInv
<1>2. sale' = [sale EXCEPT ![j.id] = j.new] /\ UNCHANGED <<asked, charged>>
  BY DEF Commit, money
<1>3. CASE j.kind = "pay"
  <2>1. Lifecycle!Await(j.id)
    BY <1>1, <1>2, <1>3 DEF Lifecycle!Await, JobInv, SerialJobInv
  <2> QED BY <1>1, <2>1 DEF Lifecycle!Next
<1>4. CASE j.kind = "cancel"
  <2>1. Lifecycle!Cancel(j.id)
    BY <1>1, <1>2, <1>4 DEF Lifecycle!Cancel, JobInv, SerialJobInv
  <2> QED BY <1>1, <2>1 DEF Lifecycle!Next
<1>5. CASE j.kind = "result"
  <2>1. Lifecycle!Settle(j.id, j.new)
    BY <1>1, <1>2, <1>5
    DEF Lifecycle!Settle, Lifecycle!SaleTransitions, JobInv, SerialJobInv, Results
  <2> QED BY <1>1, <1>5, <2>1 DEF Lifecycle!Next, Results
<1> QED BY <1>1, <1>3, <1>4, <1>5

LEMMA SerialLifecycleStep ==
  ASSUME TypeOK, MoneyInv, KnownInv, CreateInv, SerialInv, [Next]_vars
  PROVE  [Lifecycle!Next]_<<sale, asked, charged>>
<1> USE DEF creation, money
<1>1. ASSUME NEW c \in Sales, CommitCreate(c) PROVE Lifecycle!Next
  <2>1. sale[c] = "absent"
    BY <1>1 DEF CommitCreate, CreateInv, Committed
  <2>2. Lifecycle!Open(c)
    BY <1>1, <2>1 DEF CommitCreate, Lifecycle!Open
  <2> QED BY <2>2 DEF Lifecycle!Next
<1>2. ASSUME NEW h \in Handlers, InitiateStk(h) PROVE Lifecycle!Next
  <2>1. job[h].id \in Sales /\ sale[job[h].id] # "absent"
    BY <1>2 DEF InitiateStk, TypeOK, Job, KnownInv, Committed
  <2>2. Lifecycle!HandOff(job[h].id)
    BY <1>2, <2>1 DEF InitiateStk, Lifecycle!HandOff
  <2> QED BY <2>1, <2>2 DEF Lifecycle!Next
<1>3. ASSUME NEW h \in Handlers, Commit(h) PROVE [Lifecycle!Next]_<<sale, asked, charged>>
  BY <1>3, CommitLifecycle DEF Commit
<1>4. ASSUME NEW s \in Sales, CustomerPays(s) PROVE Lifecycle!Next
  <2>1. Lifecycle!Charge(s)
    BY <1>4 DEF CustomerPays, Lifecycle!Charge
  <2> QED BY <2>1 DEF Lifecycle!Next
<1>5. CASE UNCHANGED <<sale, asked, charged>>
  BY <1>5
<1> QED BY <1>1, <1>2, <1>3, <1>4, <1>5
        DEF Next, CreateStep, BeginCreate, Insert, InsertRefused, ReplyCreated, CommitCreateFails,
            UpdateSale, HandlerStep, PaymentsAnswered, PaymentsUnavailable, CommitFails,
            RequestPayment, Transition, ApplyPaymentResult, Crash, vars

\* POS handling pay, cancel and result requests one at a time keeps the abstract promise
\* of a sale, for any number of concurrent creations and process deaths: a terminal sale
\* moves again only where two requests overlap.
THEOREM SerialRefinesLifecycle ==
  ASSUME SerialHandling
  PROVE  Spec => RefinesLifecycle
<1>1. Init => Lifecycle!Init
  BY DEF Init, Lifecycle!Init
<1>2. TypeOK /\ MoneyInv /\ KnownInv /\ CreateInv /\ SerialInv /\ [Next]_vars
        => [Lifecycle!Next]_(Lifecycle!vars)
  BY SerialLifecycleStep DEF Lifecycle!vars
<1> QED
  BY <1>1, <1>2, TypeCorrect, MoneyInvCorrect, KnownInvCorrect, CreateInvCorrect,
     SerialInvariant, PTL
  DEF Spec, RefinesLifecycle, Lifecycle!Spec
===============================================================================
