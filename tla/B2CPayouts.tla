------------------------------ MODULE B2CPayouts ------------------------------
(***************************************************************************)
(* Paying commission out: the payments service's POST /payments/b2c and    *)
(* POST /payments/b2c/result, as deployed on Postgres (a commit after      *)
(* every repository call).                                                 *)
(*                                                                         *)
(* As in StkCollection every action is one database read or commit, or the *)
(* call to Daraja, and a payout is named by the request that inserted it.  *)
(* The Idempotency-Key of a request is its originator conversation id.     *)
(***************************************************************************)
EXTENDS PayoutState, Naturals

CONSTANTS
  Requests,    \* POST /payments/b2c calls; each one runs at most once
  Handlers,    \* concurrent handlers of POST /payments/b2c/result
  Keys,        \* originator conversation ids of one tenant
  NoPayout,    \* the id an idle handler carries
  MaxCrashes   \* bound: how often the service process may die

ASSUME NoPayoutAssumption == NoPayout \notin Requests
ASSUME MaxCrashesAssumption == MaxCrashes \in Nat

VARIABLES
  req,           \* what each request carries: its key, and whether it is valid
  pc,            \* the next step of each request
  idem,          \* idempotency_keys rows
  payout,        \* the state column of each payout row
  conversation,  \* whether the row stores the conversation id of Daraja's result
  ledger,        \* payout_disbursed lines of each payout
  job,           \* what each result handler is doing
  transfer,      \* the transfer of each payout, as Daraja knows it
  crashes        \* how often the process died

databaseVars == <<idem, payout, conversation, ledger>>
vars == <<req, pc, idem, payout, conversation, ledger, job, transfer, crashes>>

-------------------------------------------------------------------------------
RequestInput == [key : Keys, valid : BOOLEAN]

RunningPC == {"lookup", "save", "initiate", "accepted", "complete"}

\* A request ends with a 2xx reply, a 409 conflict, or an exception; a crash
\* takes the running ones with it.
EndPC == {"replied", "conflict", "error", "killed"}

Transfers == {"none", "accepted", "done", "refused"}

Job == [pc : {"update", "count", "append"}, id : Requests, ok : BOOLEAN]

IdleJob == [pc |-> "idle", id |-> NoPayout, ok |-> FALSE]

TypeOK ==
  /\ req \in [Requests -> RequestInput]
  /\ pc \in [Requests -> {"idle"} \union RunningPC \union EndPC]
  /\ idem \in [Keys -> {"free", "in_progress", "completed"}]
  /\ payout \in [Requests -> RowStates]
  /\ conversation \in [Requests -> BOOLEAN]
  /\ ledger \in [Requests -> Nat]
  /\ job \in [Handlers -> Job \union {IdleJob}]
  /\ transfer \in [Requests -> Transfers]
  /\ crashes \in 0..MaxCrashes

Init ==
  /\ req \in [Requests -> RequestInput]
  /\ pc = [r \in Requests |-> "idle"]
  /\ idem = [k \in Keys |-> "free"]
  /\ payout = [p \in Requests |-> "absent"]
  /\ conversation = [p \in Requests |-> FALSE]
  /\ ledger = [p \in Requests |-> 0]
  /\ job = [h \in Handlers |-> IdleJob]
  /\ transfer = [p \in Requests |-> "none"]
  /\ crashes = 0

Saved(p) == payout[p] # "absent"

-------------------------------------------------------------------------------
(* POST /payments/b2c *)

Goto(r, step) == pc' = [pc EXCEPT ![r] = step]

\* Mutant: a key in progress replays the reply it does not have yet.
BeginReplaysAnyRecord(r) ==
  /\ pc[r] = "idle"
  /\ Goto(r, IF idem[req[r].key] = "free" THEN "lookup" ELSE "replied")
  /\ idem' = [idem EXCEPT ![req[r].key] = IF @ = "free" THEN "in_progress" ELSE @]
  /\ UNCHANGED <<req, payout, conversation, ledger, job, transfer, crashes>>

\* A free key is reserved, a completed one replays its stored reply, one in
\* progress is a conflict.  The loser of the insert reads the record again, so its
\* read before the insert is not a step of its own.
Begin(r) ==
  /\ pc[r] = "idle"
  /\ CASE idem[req[r].key] = "free" ->
            /\ idem' = [idem EXCEPT ![req[r].key] = "in_progress"]
            /\ Goto(r, "lookup")
       [] idem[req[r].key] = "in_progress" -> Goto(r, "conflict") /\ UNCHANGED idem
       [] idem[req[r].key] = "completed"   -> Goto(r, "replied") /\ UNCHANGED idem
  /\ UNCHANGED <<req, payout, conversation, ledger, job, transfer, crashes>>

Existing(r) == \E p \in Requests : Saved(p) /\ req[p].key = req[r].key

\* Mutant: the transfer goes out before the payout is saved.
LookupInitiatesFirst(r) ==
  /\ pc[r] = "lookup"
  /\ Goto(r, CASE ~req[r].valid -> "error"
               [] req[r].valid /\ Existing(r) -> "complete"
               [] OTHER -> "initiate")
  /\ UNCHANGED <<req, databaseVars, job, transfer, crashes>>

\* Refused: no originator id, one that is not the Idempotency-Key, or an amount
\* that rounds to no whole shilling.  The key stays reserved.
Lookup(r) ==
  /\ pc[r] = "lookup"
  /\ Goto(r, CASE ~req[r].valid -> "error"
               [] req[r].valid /\ Existing(r) -> "complete"
               [] OTHER -> "save")
  /\ UNCHANGED <<req, databaseVars, job, transfer, crashes>>

\* uq_payouts_tenant_originator: another row makes the insert raise.
Save(r) ==
  /\ pc[r] = "save"
  /\ IF Existing(r)
       THEN Goto(r, "error") /\ UNCHANGED payout
       ELSE Goto(r, "initiate") /\ payout' = [payout EXCEPT ![r] = "pending"]
  /\ UNCHANGED <<req, idem, conversation, ledger, job, transfer, crashes>>

\* What Daraja did (it took the transfer or not) and how its adapter reports it:
\*   accepted  a reply with its conversation id; or an error body without one, taken
\*             for a reply, since neither the status nor ResponseCode is looked at
\*   complete  MpesaTimeoutError: the payout stays pending, answered 202
\*   error     any other exception: raised
InitiateB2C(r) ==
  /\ pc[r] = "initiate"
  /\ \E answer \in {"accepted", "complete", "error"} : Goto(r, answer)
  /\ \E taken \in {"none", "accepted"} : transfer' = [transfer EXCEPT ![r] = taken]
  /\ UNCHANGED <<req, databaseVars, job, crashes>>

\* The stored id is Daraja's only if Daraja took the transfer; "" otherwise.
UpdateSubmitted(r) ==
  /\ pc[r] = "accepted"
  /\ payout' = [payout EXCEPT ![r] = "submitted"]
  /\ conversation' = [conversation EXCEPT ![r] = transfer[r] # "none"]
  /\ Goto(r, "complete")
  /\ UNCHANGED <<req, idem, ledger, job, transfer, crashes>>

Complete(r) ==
  /\ pc[r] = "complete"
  /\ idem' = [idem EXCEPT ![req[r].key] = "completed"]
  /\ Goto(r, "replied")
  /\ UNCHANGED <<req, payout, conversation, ledger, job, transfer, crashes>>

RequestStep(r) ==
  \/ Begin(r) \/ Lookup(r) \/ Save(r) \/ InitiateB2C(r) \/ UpdateSubmitted(r)
  \/ Complete(r)

-------------------------------------------------------------------------------
(* POST /payments/b2c/result *)

SetJob(h, j) == job' = [job EXCEPT ![h] = j]

\* Mutant: every submitted payout counts as answered already.
AppliesToPending(p) == payout[p] = "pending"

\* A result for a final payout changes nothing.  The branch of apply_result for a
\* pending payout is left out: a row with a conversation id is never pending, see
\* ResultMeetsSubmitted.
Applies(p) == payout[p] \notin PayoutTerminal

\* Daraja tells the outcome of a transfer any number of times.  The row is found
\* by the conversation id; a result nobody's row matches is answered 404.
ReceiveResult(h, p) ==
  /\ job[h] = IdleJob
  /\ conversation[p]
  /\ transfer[p] \in {"done", "refused"}
  /\ Applies(p)
  /\ SetJob(h, [pc |-> "update", id |-> p, ok |-> transfer[p] = "done"])
  /\ UNCHANGED <<req, pc, databaseVars, transfer, crashes>>

\* Mutant: the state is not one of PayoutState.
UpdateResultMisspelt(h) ==
  /\ job[h].pc = "update"
  /\ payout' = [payout EXCEPT ![job[h].id] = IF job[h].ok THEN "complete" ELSE "failed"]
  /\ SetJob(h, IdleJob)
  /\ UNCHANGED <<req, pc, idem, conversation, ledger, transfer, crashes>>

\* The copy that was read is not final; the row may be by now.
UpdateResult(h) ==
  LET j == job[h] IN
  /\ j.pc = "update"
  /\ payout' = [payout EXCEPT ![j.id] = IF j.ok THEN "completed" ELSE "failed"]
  /\ SetJob(h, IF j.ok THEN [j EXCEPT !.pc = "count"] ELSE IdleJob)
  /\ UNCHANGED <<req, pc, idem, conversation, ledger, transfer, crashes>>

\* Mutant: the line of any payout counts.
CountAnyPayout(h) ==
  /\ job[h].pc = "count"
  /\ SetJob(h, IF \E p \in Requests : ledger[p] > 0
                 THEN IdleJob ELSE [job[h] EXCEPT !.pc = "append"])
  /\ UNCHANGED <<req, pc, databaseVars, transfer, crashes>>

CountLedger(h) ==
  LET j == job[h] IN
  /\ j.pc = "count"
  /\ SetJob(h, IF ledger[j.id] = 0 THEN [j EXCEPT !.pc = "append"] ELSE IdleJob)
  /\ UNCHANGED <<req, pc, databaseVars, transfer, crashes>>

AppendLedger(h) ==
  /\ job[h].pc = "append"
  /\ ledger' = [ledger EXCEPT ![job[h].id] = @ + 1]
  /\ SetJob(h, IdleJob)
  /\ UNCHANGED <<req, pc, idem, payout, conversation, transfer, crashes>>

HandlerStep(h) == UpdateResult(h) \/ CountLedger(h) \/ AppendLedger(h)

-------------------------------------------------------------------------------
(* Daraja; process death *)

Disburse(p) ==
  /\ transfer[p] = "accepted"
  /\ \E outcome \in {"done", "refused"} : transfer' = [transfer EXCEPT ![p] = outcome]
  /\ UNCHANGED <<req, pc, databaseVars, job, crashes>>

Crash ==
  /\ crashes < MaxCrashes
  /\ crashes' = crashes + 1
  /\ pc' = [r \in Requests |-> IF pc[r] \in RunningPC THEN "killed" ELSE pc[r]]
  /\ job' = [h \in Handlers |-> IdleJob]
  /\ UNCHANGED <<req, databaseVars, transfer>>

Next ==
  \/ \E r \in Requests : RequestStep(r) \/ Disburse(r)
  \/ \E h \in Handlers : HandlerStep(h)
  \/ \E h \in Handlers, p \in Requests : ReceiveResult(h, p)
  \/ Crash

Spec == Init /\ [][Next]_vars

\* Requests and handlers run on; Daraja finishes a transfer it took and repeats
\* its result until the result endpoint has applied it.
Fairness ==
  /\ \A r \in Requests : WF_vars(RequestStep(r)) /\ WF_vars(Disburse(r))
  /\ \A h \in Handlers : WF_vars(HandlerStep(h))
  /\ \A p \in Requests : SF_vars(\E h \in Handlers : ReceiveResult(h, p))

FairSpec == Spec /\ Fairness

-------------------------------------------------------------------------------
(* Safety *)

\* Two requests of one originator id never both hand a transfer to Daraja:
\* commission may retry, overlap itself and die as it likes.
OneTransferPerKey ==
  \A r, s \in Requests :
    req[r].key = req[s].key /\ transfer[r] # "none" /\ transfer[s] # "none" => r = s

\* The insert of a payout never meets the unique constraint, so a retry is
\* answered with a replay or a 409 and never with a 500: the reservation of the key
\* lets one request per originator id through, process deaths included.
SaveNeverConflicts == \A r \in Requests : pc[r] = "save" => ~Existing(r)

\* Whoever is answered 2xx, replays included, has a payout of its originator id.
AnsweredHasPayout == \A r \in Requests : pc[r] = "replied" => Existing(r)

\* A result handler never finds a pending row: the conversation id and "submitted"
\* are committed together, and no result is matched before.
ResultMeetsSubmitted ==
  \A p \in Requests : conversation[p] => payout[p] \notin {"absent", "pending"}

\* A completed payout nobody is working on is in the ledger, as long as the
\* process did not die in between: every racing handler counts its own payout's
\* lines after its update.
CompletedIsBooked ==
  crashes = 0 =>
    \A p \in Requests :
      payout[p] = "completed" /\ (\A h \in Handlers : job[h].id # p) => ledger[p] > 0

-------------------------------------------------------------------------------
(* The promise to commission, whatever the interleaving *)

PayoutOf(k) ==
  IF \E p \in Requests : Saved(p) /\ req[p].key = k
    THEN payout[CHOOSE p \in Requests : Saved(p) /\ req[p].key = k] ELSE "absent"

TransferOf(k) ==
  IF \E p \in Requests : transfer[p] # "none" /\ req[p].key = k
    THEN transfer[CHOOSE p \in Requests : transfer[p] # "none" /\ req[p].key = k]
    ELSE "none"

Booked(k) == \E p \in Requests : req[p].key = k /\ ledger[p] > 0

Lifecycle ==
  INSTANCE PayoutLifecycle WITH
    state    <- [k \in Keys |-> PayoutOf(k)],
    transfer <- [k \in Keys |-> TransferOf(k)],
    booked   <- [k \in Keys |-> Booked(k)]

\* One payout and one transfer per originator id, handed over only once the payout
\* is saved; a final state that is never left and agrees with Daraja; ledger lines
\* for money that left only.
RefinesLifecycle == Lifecycle!Spec

-------------------------------------------------------------------------------
(* Liveness, under FairSpec *)

\* A payout whose conversation id is stored is settled as Daraja says, even if the
\* process dies while it applies the result.
ResultIsApplied ==
  \A p \in Requests :
    /\ conversation[p] /\ transfer[p] = "done" ~> payout[p] = "completed"
    /\ conversation[p] /\ transfer[p] = "refused" ~> payout[p] = "failed"

-------------------------------------------------------------------------------
(* What documentation says and the code does not keep *)

\* b2c_service.py: a timed-out payout is left pending for ResultURL or a retry.
\* So the money Daraja disbursed for an answered request completes its payout.
TimedOutPayoutIsResolved ==
  \A p \in Requests :
    pc[p] = "replied" /\ transfer[p] = "done" ~> payout[p] = "completed"
===============================================================================
