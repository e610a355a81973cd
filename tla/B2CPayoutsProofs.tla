--------------------------- MODULE B2CPayoutsProofs ---------------------------
(***************************************************************************)
(* B2CPayouts keeps its promises, and implements PayoutLifecycle, for any  *)
(* number of requests, result handlers, originator ids and process deaths. *)
(***************************************************************************)
EXTENDS B2CPayouts, TLAPS

-------------------------------------------------------------------------------
\* Every variable keeps its type through every request, result and process death.
THEOREM TypeCorrect == Spec => []TypeOK
<1>1. Init => TypeOK
  BY MaxCrashesAssumption DEF Init, TypeOK, RowStates, Transfers
<1>2. TypeOK /\ [Next]_vars => TypeOK'
  <2> SUFFICES ASSUME TypeOK, [Next]_vars PROVE TypeOK'
    OBVIOUS
  <2> USE DEF TypeOK, databaseVars, Goto, SetJob, RunningPC, EndPC
  <2>1. ASSUME NEW r \in Requests, RequestStep(r) PROVE TypeOK'
    <3>0. req[r].key \in Keys
      BY DEF RequestInput
    <3>1. CASE Begin(r)           BY <3>0, <3>1 DEF Begin
    <3>2. CASE Lookup(r)          BY <3>2 DEF Lookup
    <3>3. CASE Save(r)            BY <3>3 DEF Save, RowStates, PayoutStates
    <3>4. CASE InitiateB2C(r)     BY <3>4 DEF InitiateB2C, Transfers
    <3>5. CASE UpdateSubmitted(r) BY <3>5 DEF UpdateSubmitted, RowStates, PayoutStates
    <3>6. CASE Complete(r)        BY <3>0, <3>6 DEF Complete
    <3> QED BY <2>1, <3>1, <3>2, <3>3, <3>4, <3>5, <3>6 DEF RequestStep
  <2>2. ASSUME NEW h \in Handlers, HandlerStep(h) PROVE TypeOK'
    <3>1. job[h] \in Job
      BY <2>2 DEF HandlerStep, UpdateResult, CountLedger, AppendLedger, IdleJob
    <3>2. CASE UpdateResult(h)
      BY <3>1, <3>2 DEF UpdateResult, Job, RowStates, PayoutStates
    <3>3. CASE CountLedger(h)     BY <3>1, <3>3 DEF CountLedger, Job
    <3>4. CASE AppendLedger(h)    BY <3>1, <3>4 DEF AppendLedger, Job
    <3> QED BY <2>2, <3>2, <3>3, <3>4 DEF HandlerStep
  <2>3. ASSUME NEW h \in Handlers, NEW p \in Requests, ReceiveResult(h, p) PROVE TypeOK'
    BY <2>3 DEF ReceiveResult, Job
  <2>4. ASSUME NEW p \in Requests, Disburse(p) PROVE TypeOK'
    BY <2>4 DEF Disburse, Transfers
  <2>5. CASE Crash
    BY <2>5, MaxCrashesAssumption DEF Crash
  <2>6. CASE UNCHANGED vars
    BY <2>6 DEF vars
  <2> QED BY <2>1, <2>2, <2>3, <2>4, <2>5, <2>6 DEF Next
<1> QED BY <1>1, <1>2, PTL DEF Spec

-------------------------------------------------------------------------------
(* One request per originator id gets past the reservation *)

Running(r) == pc[r] \in RunningPC

\* What the step a request is at says about its payout.
RequestInv(r) ==
  /\ pc[r] \in {"idle", "lookup", "save"} => ~Saved(r)
  /\ pc[r] \in {"initiate", "accepted"} => payout[r] = "pending"
  /\ pc[r] = "initiate" => transfer[r] = "none"
  /\ pc[r] = "complete" => Saved(r)
  /\ transfer[r] # "none" => Saved(r)
  /\ conversation[r] => payout[r] \notin {"absent", "pending"}

\* While a request runs its key is in progress, and no other request of the key
\* runs or has a payout.
KeyInv ==
  /\ \A r \in Requests : RequestInv(r)
  /\ \A r \in Requests : Running(r) => idem[req[r].key] = "in_progress"
  /\ \A r, s \in Requests :
       req[r].key = req[s].key /\ Running(r) /\ (Running(s) \/ Saved(s)) => r = s
  /\ \A r \in Requests : Saved(r) => idem[req[r].key] # "free"
  /\ \A r, s \in Requests : req[r].key = req[s].key /\ Saved(r) /\ Saved(s) => r = s
  /\ \A k \in Keys : idem[k] = "completed" => \E p \in Requests : Saved(p) /\ req[p].key = k
  /\ AnsweredHasPayout

\* What a result handler knows of its payout.
JobInv(j) ==
  j # IdleJob =>
    /\ conversation[j.id]
    /\ transfer[j.id] = IF j.ok THEN "done" ELSE "refused"
    /\ j.pc \in {"count", "append"} => j.ok /\ payout[j.id] = "completed"

OutcomeInv(p) ==
  /\ payout[p] = "completed" => transfer[p] = "done"
  /\ payout[p] = "failed" => transfer[p] = "refused"
  /\ ledger[p] > 0 => payout[p] = "completed"

\* Final states and ledger lines agree with Daraja, and so will those about to be
\* written.
ResultInv ==
  /\ \A h \in Handlers : JobInv(job[h])
  /\ \A p \in Requests : OutcomeInv(p)

IInv == KeyInv /\ ResultInv

LEMMA InitInv == Init => IInv
  BY DEF Init, IInv, KeyInv, RequestInv, Running, RunningPC, Saved, AnsweredHasPayout,
         ResultInv, JobInv, OutcomeInv, RequestInput

LEMMA KeyInvStep ==
  ASSUME TypeOK, IInv, [Next]_vars
  PROVE  KeyInv'
<1> USE DEF IInv, KeyInv, RequestInv, Running, RunningPC, Saved, Existing, AnsweredHasPayout,
            databaseVars, Goto
<1>0. \A r \in Requests : req[r].key \in Keys
  BY DEF TypeOK, RequestInput
<1>1. ASSUME NEW r \in Requests, Begin(r) PROVE KeyInv'
  <2> USE DEF TypeOK
  <2>1. CASE idem[req[r].key] = "free"        BY <1>0, <1>1, <2>1 DEF Begin
  <2>2. CASE idem[req[r].key] = "in_progress" BY <1>0, <1>1, <2>2 DEF Begin
  <2>3. CASE idem[req[r].key] = "completed"   BY <1>0, <1>1, <2>3 DEF Begin
  <2> QED BY <1>0, <2>1, <2>2, <2>3
<1>2. ASSUME NEW r \in Requests, Lookup(r) PROVE KeyInv'
  BY <1>0, <1>2 DEF Lookup, TypeOK
<1>3. ASSUME NEW r \in Requests, Save(r) PROVE KeyInv'
  BY <1>0, <1>3 DEF Save, TypeOK
<1>4. ASSUME NEW r \in Requests, InitiateB2C(r) PROVE KeyInv'
  BY <1>0, <1>4 DEF InitiateB2C, TypeOK
<1>5. ASSUME NEW r \in Requests, UpdateSubmitted(r) PROVE KeyInv'
  BY <1>0, <1>5 DEF UpdateSubmitted, TypeOK
<1>6. ASSUME NEW r \in Requests, Complete(r) PROVE KeyInv'
  BY <1>0, <1>6 DEF Complete, TypeOK
<1>7. ASSUME NEW h \in Handlers, UpdateResult(h) PROVE KeyInv'
  <2>1. job[h].id \in Requests /\ conversation[job[h].id]
    BY <1>7 DEF UpdateResult, TypeOK, Job, IdleJob, ResultInv, JobInv
  <2> QED BY <1>0, <1>7, <2>1 DEF UpdateResult, TypeOK
<1>8. ASSUME UNCHANGED <<req, pc, idem, payout, conversation, transfer>> PROVE KeyInv'
  BY <1>8
<1>9. ASSUME NEW p \in Requests, Disburse(p) PROVE KeyInv'
  BY <1>0, <1>9 DEF Disburse, TypeOK
<1>10. CASE Crash
  BY <1>0, <1>10 DEF Crash, TypeOK
<1> QED
  BY <1>1, <1>2, <1>3, <1>4, <1>5, <1>6, <1>7, <1>8, <1>9, <1>10
     DEF Next, RequestStep, HandlerStep, ReceiveResult, CountLedger, AppendLedger, vars

LEMMA ResultInvStep ==
  ASSUME TypeOK, IInv, [Next]_vars
  PROVE  ResultInv'
<1> USE DEF IInv, ResultInv, JobInv, OutcomeInv, TypeOK, databaseVars
<1>0. \A h \in Handlers : job[h] # IdleJob => job[h] \in Job /\ job[h].id \in Requests
  BY DEF Job
<1>1. ASSUME NEW r \in Requests, Begin(r) \/ Lookup(r) \/ Complete(r) PROVE ResultInv'
  <2>1. UNCHANGED <<payout, conversation, ledger, job, transfer>>
    BY <1>1 DEF Begin, Lookup, Complete
  <2> QED BY <2>1
<1>2. ASSUME NEW r \in Requests, Save(r) PROVE ResultInv'
  <2>1. payout[r] = "absent" /\ ~conversation[r]
    BY <1>2 DEF Save, KeyInv, RequestInv, Saved
  <2> QED BY <1>0, <1>2, <2>1 DEF Save
<1>3. ASSUME NEW r \in Requests, InitiateB2C(r) PROVE ResultInv'
  <2>1. payout[r] = "pending" /\ ~conversation[r]
    BY <1>3 DEF InitiateB2C, KeyInv, RequestInv
  <2> QED BY <1>0, <1>3, <2>1 DEF InitiateB2C
<1>4. ASSUME NEW r \in Requests, UpdateSubmitted(r) PROVE ResultInv'
  <2>1. payout[r] = "pending" /\ ~conversation[r]
    BY <1>4 DEF UpdateSubmitted, KeyInv, RequestInv
  <2> QED BY <1>0, <1>4, <2>1 DEF UpdateSubmitted
<1>5. ASSUME NEW h \in Handlers, NEW p \in Requests, ReceiveResult(h, p) PROVE ResultInv'
  BY <1>5 DEF ReceiveResult, SetJob, Transfers
<1>6. ASSUME NEW h \in Handlers, UpdateResult(h) PROVE ResultInv'
  <2>1. job[h] # IdleJob /\ job[h] \in Job
    BY <1>0, <1>6 DEF UpdateResult, IdleJob
  <2>2. CASE job[h].ok
    BY <1>0, <1>6, <2>1, <2>2 DEF UpdateResult, SetJob, Job
  <2>3. CASE ~job[h].ok
    BY <1>0, <1>6, <2>1, <2>3 DEF UpdateResult, SetJob, Job
  <2> QED BY <2>2, <2>3
<1>7. ASSUME NEW h \in Handlers, CountLedger(h) PROVE ResultInv'
  <2>1. job[h] # IdleJob /\ job[h] \in Job /\ job[h].pc = "count"
    BY <1>0, <1>7 DEF CountLedger, IdleJob
  <2>2. [job[h] EXCEPT !.pc = "append"].id = job[h].id
        /\ [job[h] EXCEPT !.pc = "append"].ok = job[h].ok
    BY <2>1 DEF Job
  <2>3. JobInv(job'[h])
    BY <1>7, <2>1, <2>2 DEF CountLedger, SetJob
  <2> QED BY <1>7, <2>3 DEF CountLedger, SetJob
<1>8. ASSUME NEW h \in Handlers, AppendLedger(h) PROVE ResultInv'
  <2>1. job[h] # IdleJob /\ job[h].id \in Requests /\ payout[job[h].id] = "completed"
    BY <1>0, <1>8 DEF AppendLedger, IdleJob
  <2> QED BY <1>8, <2>1 DEF AppendLedger, SetJob
<1>9. ASSUME NEW p \in Requests, Disburse(p) PROVE ResultInv'
  BY <1>0, <1>9 DEF Disburse
<1>10. CASE Crash
  BY <1>10 DEF Crash
<1>11. CASE UNCHANGED vars
  BY <1>11 DEF vars
<1> QED
  BY <1>1, <1>2, <1>3, <1>4, <1>5, <1>6, <1>7, <1>8, <1>9, <1>10, <1>11
     DEF Next, RequestStep, HandlerStep

LEMMA Invariance == Spec => []IInv
  BY TypeCorrect, InitInv, KeyInvStep, ResultInvStep, PTL DEF Spec, IInv

\* No interleaving and no process death makes two requests of one originator id
\* hand a transfer to Daraja.
THEOREM AtMostOneTransferPerKey == Spec => []OneTransferPerKey
<1>1. IInv => OneTransferPerKey
  BY DEF IInv, KeyInv, RequestInv, OneTransferPerKey
<1> QED BY <1>1, Invariance, PTL

\* The insert of a payout never raises.
THEOREM InsertNeverRaises == Spec => []SaveNeverConflicts
<1>1. IInv => SaveNeverConflicts
  BY DEF IInv, KeyInv, RequestInv, Running, RunningPC, Existing, SaveNeverConflicts
<1> QED BY <1>1, Invariance, PTL

\* Every 2xx answer has a payout behind it.
THEOREM AnsweredAlwaysHasPayout == Spec => []AnsweredHasPayout
<1>1. IInv => AnsweredHasPayout
  BY DEF IInv, KeyInv
<1> QED BY <1>1, Invariance, PTL

\* The branch of apply_result for pending payouts is dead.
THEOREM ResultNeverMeetsPending == Spec => []ResultMeetsSubmitted
<1>1. IInv => ResultMeetsSubmitted
  BY DEF IInv, KeyInv, RequestInv, ResultMeetsSubmitted
<1> QED BY <1>1, Invariance, PTL
\* A completed payout nobody works on has its ledger line, while the process lives.
THEOREM CompletedAlwaysBooked == Spec => []CompletedIsBooked
<1>1. Init => CompletedIsBooked
  BY DEF Init, CompletedIsBooked
<1>2. ASSUME TypeOK, IInv, CompletedIsBooked, [Next]_vars PROVE CompletedIsBooked'
  <2> SUFFICES ASSUME crashes' = 0, NEW p \in Requests, payout'[p] = "completed",
                      \A h \in Handlers : job'[h].id # p
               PROVE  ledger'[p] > 0
    BY DEF CompletedIsBooked
  <2> USE DEF databaseVars
  <2>1. crashes = 0 /\ ~Crash
    <3>1. crashes \in Nat
      BY <1>2, MaxCrashesAssumption DEF TypeOK
    <3>2. ~Crash
      BY <3>1 DEF Crash
    <3>3. UNCHANGED crashes
      BY <1>2, <3>2
      DEF Next, RequestStep, HandlerStep, Begin, Lookup, Save, InitiateB2C, UpdateSubmitted,
          Complete, UpdateResult, CountLedger, AppendLedger, ReceiveResult, Disburse, vars
    <3> QED BY <3>2, <3>3
  <2>2. ledger[p] \in Nat /\ p # NoPayout
    BY <1>2, NoPayoutAssumption DEF TypeOK
  <2>3. payout[p] = "completed" /\ (\A h \in Handlers : job[h].id # p) => ledger[p] > 0
    BY <1>2, <2>1 DEF CompletedIsBooked
  <2>4. ASSUME UNCHANGED <<payout, ledger, job>> PROVE ledger'[p] > 0
    BY <2>3, <2>4
  <2>5. ASSUME NEW r \in Requests, Save(r) \/ UpdateSubmitted(r) PROVE ledger'[p] > 0
    <3>1. payout[p] = "completed" /\ UNCHANGED <<ledger, job>>
      BY <1>2, <2>5 DEF Save, UpdateSubmitted, TypeOK
    <3> QED BY <2>3, <3>1
  <2>6. ASSUME NEW h \in Handlers, HandlerStep(h) PROVE ledger'[p] > 0
    <3>1. job[h] \in Job /\ \A g \in Handlers \ {h} : job'[g] = job[g]
      BY <1>2, <2>6 DEF HandlerStep, UpdateResult, CountLedger, AppendLedger, SetJob, TypeOK,
         IdleJob
    <3>2. CASE UpdateResult(h)
      <4>1. job[h].id # p
        <5>1. CASE job[h].ok
          BY <1>2, <3>1, <3>2, <5>1 DEF UpdateResult, SetJob, TypeOK, Job
        <5>2. CASE ~job[h].ok
          BY <1>2, <3>1, <3>2, <5>2 DEF UpdateResult, SetJob, TypeOK
        <5> QED BY <5>1, <5>2
      <4> QED BY <1>2, <2>3, <3>1, <3>2, <4>1 DEF UpdateResult, TypeOK
    <3>3. CASE CountLedger(h)
      <4>1. CASE ledger[job[h].id] = 0
        <5>1. job'[h].id = job[h].id
          BY <1>2, <3>1, <3>3, <4>1 DEF CountLedger, SetJob, TypeOK, Job
        <5> QED BY <2>3, <3>1, <3>3, <5>1 DEF CountLedger
      <4>2. CASE ledger[job[h].id] # 0
        BY <2>2, <2>3, <3>1, <3>3, <4>2 DEF CountLedger
      <4> QED BY <4>1, <4>2
    <3>4. CASE AppendLedger(h)
      <4>1. CASE job[h].id = p
        BY <1>2, <2>2, <3>4, <4>1 DEF AppendLedger, TypeOK
      <4>2. CASE job[h].id # p
        BY <1>2, <2>3, <3>1, <3>4, <4>2 DEF AppendLedger, TypeOK
      <4> QED BY <4>1, <4>2
    <3> QED BY <2>6, <3>2, <3>3, <3>4 DEF HandlerStep
  <2>7. ASSUME NEW h \in Handlers, NEW q \in Requests, ReceiveResult(h, q)
        PROVE  ledger'[p] > 0
    <3>1. job[h].id # p /\ (\A g \in Handlers \ {h} : job'[g] = job[g])
          /\ UNCHANGED <<payout, ledger>>
      BY <1>2, <2>2, <2>7 DEF ReceiveResult, SetJob, TypeOK, IdleJob
    <3> QED BY <2>3, <3>1
  <2> QED
    BY <1>2, <2>1, <2>4, <2>5, <2>6, <2>7
    DEF Next, RequestStep, Begin, Lookup, InitiateB2C, Complete, Disburse, vars
<1> QED BY <1>1, <1>2, TypeCorrect, Invariance, PTL DEF Spec

-------------------------------------------------------------------------------
(* B2CPayouts implements PayoutLifecycle *)

\* At most one row stands for an originator id, so the mapping picks that row.
Mapped ==
  /\ \A p \in Requests : Saved(p) => PayoutOf(req[p].key) = payout[p]
  /\ \A k \in Keys : (\A p \in Requests : Saved(p) => req[p].key # k) => PayoutOf(k) = "absent"
  /\ \A p \in Requests : transfer[p] # "none" => TransferOf(req[p].key) = transfer[p]
  /\ \A k \in Keys :
       (\A p \in Requests : transfer[p] # "none" => req[p].key # k) => TransferOf(k) = "none"

LEMMA MappingIsUnique == IInv => Mapped
<1> SUFFICES ASSUME IInv PROVE Mapped
  OBVIOUS
<1> USE DEF IInv, KeyInv, RequestInv
<1>1. ASSUME NEW p \in Requests, Saved(p) PROVE PayoutOf(req[p].key) = payout[p]
  BY <1>1 DEF PayoutOf
<1>2. ASSUME NEW p \in Requests, transfer[p] # "none"
      PROVE  TransferOf(req[p].key) = transfer[p]
  <2>1. \A q \in Requests : transfer[q] # "none" /\ req[q].key = req[p].key => q = p
    BY <1>2
  <2> QED BY <1>2, <2>1 DEF TransferOf
<1> QED BY <1>1, <1>2 DEF Mapped, PayoutOf, TransferOf

\* A payout row that is written shows as the payout of its originator id.
LEMMA PayoutWritten ==
  ASSUME TypeOK, Mapped, Mapped', req' = req, NEW r \in Requests, NEW x \in PayoutStates,
         payout' = [payout EXCEPT ![r] = x]
  PROVE  \A k \in Keys : PayoutOf(k)' = IF k = req[r].key THEN x ELSE PayoutOf(k)
<1> SUFFICES ASSUME NEW k \in Keys
             PROVE  PayoutOf(k)' = IF k = req[r].key THEN x ELSE PayoutOf(k)
  OBVIOUS
<1>1. \A p \in Requests : Saved(p)' <=> Saved(p) \/ p = r
  BY DEF Saved, TypeOK, PayoutStates
<1>2. payout'[r] = x /\ (\A p \in Requests : p # r => payout'[p] = payout[p])
  BY DEF TypeOK
<1>3. CASE k = req[r].key
  BY <1>1, <1>2, <1>3 DEF Mapped
<1>4. CASE k # req[r].key /\ \E p \in Requests : Saved(p) /\ req[p].key = k
  <2>1. PICK p \in Requests : Saved(p) /\ req[p].key = k
    BY <1>4
  <2> QED BY <1>1, <1>2, <1>4, <2>1 DEF Mapped
<1>5. CASE k # req[r].key /\ ~\E p \in Requests : Saved(p) /\ req[p].key = k
  <2>1. \A p \in Requests : Saved(p)' => req'[p].key # k
    BY <1>1, <1>5
  <2> QED BY <1>5, <2>1 DEF Mapped
<1> QED BY <1>3, <1>4, <1>5

\* What Daraja does to a transfer shows as the transfer of its originator id.
LEMMA TransferWritten ==
  ASSUME TypeOK, Mapped, Mapped', req' = req, NEW r \in Requests, NEW x, x # "none",
         transfer' = [transfer EXCEPT ![r] = x]
  PROVE  \A k \in Keys : TransferOf(k)' = IF k = req[r].key THEN x ELSE TransferOf(k)
<1> SUFFICES ASSUME NEW k \in Keys
             PROVE  TransferOf(k)' = IF k = req[r].key THEN x ELSE TransferOf(k)
  OBVIOUS
<1>1. transfer'[r] = x /\ (\A p \in Requests : p # r => transfer'[p] = transfer[p])
  BY DEF TypeOK
<1>2. CASE k = req[r].key
  BY <1>1, <1>2 DEF Mapped
<1>3. CASE k # req[r].key /\ \E p \in Requests : transfer[p] # "none" /\ req[p].key = k
  <2>1. PICK p \in Requests : transfer[p] # "none" /\ req[p].key = k
    BY <1>3
  <2> QED BY <1>1, <1>3, <2>1 DEF Mapped
<1>4. CASE k # req[r].key /\ ~\E p \in Requests : transfer[p] # "none" /\ req[p].key = k
  <2>1. \A p \in Requests : transfer'[p] # "none" => req'[p].key # k
    BY <1>1, <1>4
  <2> QED BY <1>4, <2>1 DEF Mapped
<1> QED BY <1>2, <1>3, <1>4

abstractVars == <<[k \in Keys |-> PayoutOf(k)], [k \in Keys |-> TransferOf(k)],
                  [k \in Keys |-> Booked(k)]>>

\* Every step is a step of PayoutLifecycle, or changes nothing commission can see.
LEMMA StepRefines ==
  ASSUME TypeOK, IInv, Mapped, Mapped', [Next]_vars
  PROVE  [Lifecycle!Next]_abstractVars
<1> USE DEF databaseVars, Goto
<1>0. \A p \in Requests : req[p].key \in Keys
  BY DEF TypeOK, RequestInput
<1>1. ASSUME UNCHANGED <<req, payout>> PROVE \A k \in Keys : PayoutOf(k)' = PayoutOf(k)
  BY <1>1 DEF PayoutOf, Saved
<1>2. ASSUME UNCHANGED <<req, transfer>>
      PROVE  \A k \in Keys : TransferOf(k)' = TransferOf(k)
  BY <1>2 DEF TransferOf
<1>13. ASSUME UNCHANGED <<req, ledger>>
       PROVE  UNCHANGED [k \in Keys |-> Booked(k)]
  BY <1>13 DEF Booked
<1>3. ASSUME UNCHANGED <<req, payout, transfer, ledger>> PROVE UNCHANGED abstractVars
  BY <1>1, <1>2, <1>3 DEF abstractVars, Booked
<1>4. ASSUME NEW r \in Requests, Save(r) PROVE [Lifecycle!Next]_abstractVars
  <2> DEFINE k == req[r].key
  <2>1. CASE Existing(r)
    BY <1>3, <1>4, <2>1 DEF Save
  <2>2. CASE ~Existing(r)
    <3>1. PayoutOf(k) = "absent"
      BY <1>0, <2>2 DEF Existing, Mapped
    <3>2. payout' = [payout EXCEPT ![r] = "pending"] /\ UNCHANGED <<req, transfer, ledger>>
      BY <1>4, <2>2 DEF Save
    <3>3. \A l \in Keys : PayoutOf(l)' = IF l = k THEN "pending" ELSE PayoutOf(l)
      BY <3>2, PayoutWritten DEF PayoutStates
    <3>4. Lifecycle!Open(k)
      BY <1>0, <1>13, <1>2, <3>1, <3>2, <3>3 DEF Lifecycle!Open
    <3> QED BY <1>0, <3>4 DEF Lifecycle!Next
  <2> QED BY <2>1, <2>2
<1>5. ASSUME NEW r \in Requests, InitiateB2C(r) PROVE [Lifecycle!Next]_abstractVars
  <2> DEFINE k == req[r].key
  <2>1. payout[r] = "pending" /\ transfer[r] = "none"
    BY <1>5 DEF InitiateB2C, IInv, KeyInv, RequestInv
  <2>2. UNCHANGED <<req, payout, ledger>>
    BY <1>5 DEF InitiateB2C
  <2>3. CASE transfer' = [transfer EXCEPT ![r] = "none"]
    BY <1>3, <2>1, <2>2, <2>3 DEF TypeOK
  <2>4. CASE transfer' = [transfer EXCEPT ![r] = "accepted"]
    <3>1. PayoutOf(k) = "pending"
      BY <2>1 DEF Mapped, Saved
    <3>2. TransferOf(k) = "none"
      BY <1>0, <2>1 DEF Mapped, IInv, KeyInv, RequestInv, Saved
    <3>3. \A l \in Keys : TransferOf(l)' = IF l = k THEN "accepted" ELSE TransferOf(l)
      BY <2>2, <2>4, TransferWritten
    <3>4. Lifecycle!HandOver(k)
      BY <1>0, <1>13, <1>1, <2>2, <3>1, <3>2, <3>3 DEF Lifecycle!HandOver
    <3> QED BY <1>0, <3>4 DEF Lifecycle!Next
  <2> QED BY <1>5, <2>3, <2>4 DEF InitiateB2C
<1>6. ASSUME NEW r \in Requests, UpdateSubmitted(r) PROVE [Lifecycle!Next]_abstractVars
  <2> DEFINE k == req[r].key
  <2>1. PayoutOf(k) = "pending"
    BY <1>6 DEF UpdateSubmitted, IInv, KeyInv, RequestInv, Mapped, Saved
  <2>2. payout' = [payout EXCEPT ![r] = "submitted"] /\ UNCHANGED <<req, transfer, ledger>>
    BY <1>6 DEF UpdateSubmitted
  <2>3. \A l \in Keys : PayoutOf(l)' = IF l = k THEN "submitted" ELSE PayoutOf(l)
    BY <2>2, PayoutWritten DEF PayoutStates
  <2>4. Lifecycle!Advance(k)
    BY <1>0, <1>13, <1>2, <2>1, <2>2, <2>3
       DEF Lifecycle!Advance, Lifecycle!PayoutTransitions
  <2> QED BY <1>0, <2>4 DEF Lifecycle!Next
<1>7. ASSUME NEW h \in Handlers, UpdateResult(h) PROVE [Lifecycle!Next]_abstractVars
  <2> DEFINE p == job[h].id
             k == req[p].key
             x == IF job[h].ok THEN "completed" ELSE "failed"
  <2>1. /\ p \in Requests
        /\ payout[p] \in {"submitted", "completed", "failed"}
        /\ transfer[p] = IF job[h].ok THEN "done" ELSE "refused"
        /\ payout[p] = "completed" => transfer[p] = "done"
        /\ payout[p] = "failed" => transfer[p] = "refused"
    BY <1>7 DEF UpdateResult, TypeOK, Job, IdleJob, IInv, KeyInv, RequestInv, ResultInv,
                JobInv, OutcomeInv, RowStates, PayoutStates
  <2>2. payout' = [payout EXCEPT ![p] = x] /\ UNCHANGED <<req, transfer, ledger>>
    BY <1>7 DEF UpdateResult
  <2>3. CASE payout[p] # "submitted"
    <3>1. payout' = payout
      BY <2>1, <2>2, <2>3 DEF TypeOK
    <3> QED BY <1>3, <2>2, <3>1
  <2>4. CASE payout[p] = "submitted"
    <3>1. PayoutOf(k) = "submitted" /\ TransferOf(k) = transfer[p]
      BY <2>1, <2>4 DEF Mapped, Saved
    <3>2. \A l \in Keys : PayoutOf(l)' = IF l = k THEN x ELSE PayoutOf(l)
      BY <2>1, <2>2, PayoutWritten DEF PayoutStates
    <3>3. Lifecycle!Advance(k)
      BY <1>0, <1>13, <1>2, <2>1, <2>2, <3>1, <3>2
         DEF Lifecycle!Advance, Lifecycle!PayoutTransitions
    <3> QED BY <1>0, <2>1, <3>3 DEF Lifecycle!Next
  <2> QED BY <2>3, <2>4
<1>8. ASSUME NEW h \in Handlers, AppendLedger(h) PROVE [Lifecycle!Next]_abstractVars
  <2> DEFINE p == job[h].id
             k == req[p].key
  <2>1. p \in Requests /\ payout[p] = "completed"
    BY <1>8 DEF AppendLedger, TypeOK, Job, IdleJob, IInv, ResultInv, JobInv
  <2>2. ledger' = [ledger EXCEPT ![p] = @ + 1] /\ UNCHANGED <<req, payout, transfer>>
    BY <1>8 DEF AppendLedger
  <2>3. PayoutOf(k) = "completed"
    BY <2>1 DEF Mapped, Saved
  <2>4. \A l \in Keys : Booked(l)' = IF l = k THEN TRUE ELSE Booked(l)
    <3>1. ledger'[p] > 0 /\ \A q \in Requests : q # p => ledger'[q] = ledger[q]
      BY <2>1, <2>2 DEF TypeOK
    <3> QED BY <2>1, <2>2, <3>1 DEF Booked
  <2>5. CASE Booked(k)
    <3>1. \A l \in Keys : Booked(l)' = Booked(l)
      BY <2>4, <2>5
    <3> QED BY <1>1, <1>2, <2>2, <3>1 DEF abstractVars
  <2>6. CASE ~Booked(k)
    <3>1. [l \in Keys |-> Booked(l)]' = [[l \in Keys |-> Booked(l)] EXCEPT ![k] = TRUE]
      BY <1>0, <2>4, Zenon
    <3>2. k \in Keys
      BY <1>0, <2>1
    <3>3. [l \in Keys |-> PayoutOf(l)][k] = "completed" /\ ~[l \in Keys |-> Booked(l)][k]
      BY <2>3, <2>6, <3>2, Zenon
    <3>4. UNCHANGED <<[l \in Keys |-> PayoutOf(l)], [l \in Keys |-> TransferOf(l)]>>
      BY <1>1, <1>2, <2>2
    <3>5. Lifecycle!Book(k)
      BY <3>1, <3>3, <3>4 DEF Lifecycle!Book
    <3> HIDE DEF k
    <3> QED BY <3>2, <3>5 DEF Lifecycle!Next
  <2> QED BY <2>5, <2>6
<1>9. ASSUME NEW p \in Requests, Disburse(p) PROVE [Lifecycle!Next]_abstractVars
  <2> DEFINE k == req[p].key
  <2>1. TransferOf(k) = "accepted"
    BY <1>9 DEF Disburse, Mapped
  <2>2. UNCHANGED <<req, payout, ledger>>
    BY <1>9 DEF Disburse
  <2>3. PICK outcome \in {"done", "refused"} : transfer' = [transfer EXCEPT ![p] = outcome]
    BY <1>9 DEF Disburse
  <2>4. \A l \in Keys : TransferOf(l)' = IF l = k THEN outcome ELSE TransferOf(l)
    BY <2>2, <2>3, TransferWritten
  <2>5. Lifecycle!Disburse(k)
    BY <1>0, <1>13, <1>1, <2>1, <2>2, <2>4 DEF Lifecycle!Disburse
  <2> QED BY <1>0, <2>5 DEF Lifecycle!Next
<1>10. CASE Crash
  BY <1>3, <1>10 DEF Crash
<1>11. ASSUME NEW r \in Requests, Begin(r) \/ Lookup(r) \/ Complete(r)
       PROVE  UNCHANGED abstractVars
  BY <1>3, <1>11 DEF Begin, Lookup, Complete
<1>12. ASSUME NEW h \in Handlers, CountLedger(h) \/ \E p \in Requests : ReceiveResult(h, p)
       PROVE  UNCHANGED abstractVars
  BY <1>3, <1>12 DEF CountLedger, ReceiveResult
<1> QED
  BY <1>3, <1>4, <1>5, <1>6, <1>7, <1>8, <1>9, <1>10, <1>11, <1>12
     DEF Next, RequestStep, HandlerStep, vars

\* One payout and one transfer per originator id, whatever the interleaving of
\* initiations, results and process deaths: the service implements PayoutLifecycle.
THEOREM PayoutsAreLifecycles == Spec => RefinesLifecycle
<1>1. Init => Lifecycle!Init
  <2> SUFFICES ASSUME Init PROVE Lifecycle!Init
    OBVIOUS
  <2>1. \A k \in Keys : PayoutOf(k) = "absent"
    BY DEF Init, PayoutOf, Saved
  <2>2. \A k \in Keys : TransferOf(k) = "none"
    BY DEF Init, TransferOf
  <2>3. \A k \in Keys : Booked(k) = FALSE
    BY DEF Init, Booked
  <2> QED BY <2>1, <2>2, <2>3 DEF Lifecycle!Init
<1> QED
  BY <1>1, TypeCorrect, Invariance, MappingIsUnique, StepRefines, PTL
     DEF Spec, RefinesLifecycle, Lifecycle!Spec, abstractVars
===============================================================================
