------------------------- MODULE CommissionCloseProofs -------------------------
(***************************************************************************)
(* CommissionClose keeps its promises for any number of sales, attendants, *)
(* close runs, payout requests and process deaths.                         *)
(***************************************************************************)
EXTENDS CommissionClose, TLAPS

-------------------------------------------------------------------------------
(* Types *)

\* What a step makes of a close run is a close run.
LEMMA CloserTyped ==
  ASSUME TypeOK, NEW c \in Closers, ReadRun(c) \/ CloseStep(c)
  PROVE  closer' \in [Closers -> Closer]
<1> USE DEF Copy, NoCopy, SetCloser
<1> DEFINE d == closer[c]
<1>0. d \in Closer
  BY DEF TypeOK
<1>1. Ended("error") \in Closer
  BY DEF Ended, IdleCloser, Closer, CloserAt, EndPC
<1> DEFINE P == CloserAt({"idle"} \union PeriodPC \union EndPC, {NoAttendant})
<1>2. NextAttendant(d) \in Closer
  <2>1. CASE d \in P
    BY <2>1 DEF NextAttendant, Closer, CloserAt, PeriodPC
  <2>2. CASE d \in CloserAt(AttendantPC, Attendants)
    BY <2>2 DEF NextAttendant, Closer, CloserAt, PeriodPC
  <2> QED BY <1>0, <2>1, <2>2 DEF Closer
<1>3. ASSUME NEW e \in Closer, closer' = [closer EXCEPT ![c] = e] PROVE closer' \in [Closers -> Closer]
  BY <1>3 DEF TypeOK
<1>a. d.seen \in SUBSET Sales /\ d.keys \in SUBSET Attendants
  BY <1>0 DEF Closer, CloserAt
<1>b. d.pc \in {"idle"} \union PeriodPC \union EndPC => d \in P
  BY <1>0 DEF Closer, CloserAt, PeriodPC, EndPC, AttendantPC
<1>4. CASE ReadRun(c)
  <2>0. d \in P
    BY <1>b, <1>4 DEF ReadRun, PeriodPC
  <2>1. [d EXCEPT !.pc = "save", !.found = run] \in Closer
    BY <2>0 DEF Closer, CloserAt, PeriodPC, AttendantPC, TypeOK
  <2> QED BY <1>3, <1>4, <2>1 DEF ReadRun
<1>5. CASE SaveRunning(c)
  <2>0. d \in P
    BY <1>b, <1>5 DEF SaveRunning, PeriodPC
  <2>1. [d EXCEPT !.pc = "list", !.found = "absent"] \in Closer
    BY <2>0 DEF Closer, CloserAt, PeriodPC, AttendantPC
  <2> QED BY <1>1, <1>3, <1>5, <2>1 DEF SaveRunning
<1>6. CASE ListPaid(c)
  <2>0. d \in P
    BY <1>b, <1>6 DEF ListPaid, PeriodPC
  <2>1. PICK paid \in SUBSET Priced :
          closer' = [closer EXCEPT ![c] =
                       [d EXCEPT !.pc = "lines", !.todo = paid, !.seen = paid]]
    BY <1>6 DEF ListPaid
  <2>2. [d EXCEPT !.pc = "lines", !.todo = paid, !.seen = paid] \in Closer
    BY <2>0, PricedAssumption DEF Closer, CloserAt, PeriodPC, AttendantPC
  <2> QED BY <1>3, <2>1, <2>2
<1>7. CASE InsertLine(c)
  <2>0. d \in P
    BY <1>b, <1>7 DEF InsertLine, PeriodPC
  <2>1. PICK s \in d.todo : closer' = [closer EXCEPT ![c] = [d EXCEPT !.todo = @ \ {s}]]
    BY <1>7 DEF InsertLine
  <2>2. [d EXCEPT !.todo = @ \ {s}] \in Closer
    BY <2>0 DEF Closer, CloserAt, PeriodPC, AttendantPC
  <2> QED BY <1>3, <2>1, <2>2
<1>8. CASE ListLines(c)
  <2>0. d \in P
    BY <1>b, <1>8 DEF ListLines, PeriodPC
  <2> DEFINE k == Known(c) \union {Seller[s] : s \in lines}
  <2>1. k \in SUBSET Attendants
    BY <1>a, SellerAssumption DEF Known, TypeOK
  <2>2. d.seen \union lines \in SUBSET Sales
    BY <1>a DEF TypeOK
  <2> HIDE DEF k
  <2>3. [d EXCEPT !.pc = "attendants", !.seen = @ \union lines, !.keys = k] \in Closer
    BY <2>0, <2>1, <2>2 DEF Closer, CloserAt, PeriodPC, AttendantPC
  <2>4. closer' = [closer EXCEPT ![c] =
          [d EXCEPT !.pc = "attendants", !.seen = @ \union lines, !.keys = k]]
    BY <1>8 DEF ListLines, k
  <2> QED BY <1>3, <2>3, <2>4
<1>9. CASE SumLedger(c)
  <2>0. d \in P
    BY <1>b, <1>9 DEF SumLedger, PeriodPC
  <2>1. PICK a \in d.keys : closer' = [closer EXCEPT ![c] =
          IF a \in Contactable /\ Owed(a) # {}
            THEN [d EXCEPT !.pc = "upsert", !.keys = @ \ {a}, !.id = a, !.total = Owed(a)]
            ELSE [d EXCEPT !.keys = @ \ {a}]]
    BY <1>9 DEF SumLedger
  <2>2. a \in Attendants /\ Owed(a) \in SUBSET Sales
    BY <1>a DEF Owed, TypeOK
  <2>3. [d EXCEPT !.pc = "upsert", !.keys = @ \ {a}, !.id = a, !.total = Owed(a)] \in Closer
    BY <2>0, <2>2 DEF Closer, CloserAt, PeriodPC, AttendantPC
  <2>4. [d EXCEPT !.keys = @ \ {a}] \in Closer
    BY <2>0 DEF Closer, CloserAt, PeriodPC, AttendantPC
  <2> QED BY <1>3, <2>1, <2>3, <2>4
<1>10. CASE ReadIntent(c)
  <2> DEFINE row == intent[d.id]
  <2>1. d.id \in Attendants /\ d.pc \in AttendantPC
    BY <1>0, <1>10 DEF ReadIntent, Closer, CloserAt, PeriodPC, EndPC, AttendantPC
  <2>2. CopyOf(row) \in Copy
    BY <2>1 DEF TypeOK, Row, CopyOf
  <2>3. [d EXCEPT !.pc = "insert"] \in Closer
    BY <1>0, <2>1 DEF Closer, CloserAt, AttendantPC
  <2>4. [d EXCEPT !.pc = "update", !.copy = CopyOf(row)] \in Closer
    BY <1>0, <2>1, <2>2 DEF Closer, CloserAt, AttendantPC
  <2> QED BY <1>2, <1>3, <1>10, <2>3, <2>4 DEF ReadIntent
<1>11. CASE InsertIntent(c)
  <2>1. [d EXCEPT !.pc = "send", !.total = {}] \in Closer
    BY <1>0, <1>11 DEF InsertIntent, Closer, CloserAt, PeriodPC, EndPC, AttendantPC
  <2> QED BY <1>1, <1>3, <1>11, <2>1 DEF InsertIntent
<1>12. CASE UpdateIntent(c)
  <2>1. [d EXCEPT !.pc = "refresh", !.total = {}, !.copy = NoCopy] \in Closer
    BY <1>0, <1>12 DEF UpdateIntent, Closer, CloserAt, PeriodPC, EndPC, AttendantPC
  <2> QED BY <1>3, <1>12, <2>1 DEF UpdateIntent
<1>13. CASE RefreshIntent(c)
  <2>1. [d EXCEPT !.pc = "send"] \in Closer
    BY <1>0, <1>13 DEF RefreshIntent, Closer, CloserAt, PeriodPC, EndPC, AttendantPC
  <2> QED BY <1>2, <1>3, <1>13, <2>1 DEF RefreshIntent
<1>14. CASE Send(c)
  BY <1>1, <1>2, <1>3, <1>14 DEF Send
<1>15. CASE Finish(c)
  <2>1. [d EXCEPT !.pc = "done"] \in Closer
    BY <1>0, <1>15 DEF Finish, Closer, CloserAt, PeriodPC, EndPC, AttendantPC
  <2> QED BY <1>3, <1>15, <2>1 DEF Finish
<1> QED
  BY <1>4, <1>5, <1>6, <1>7, <1>8, <1>9, <1>10, <1>11, <1>12, <1>13, <1>14, <1>15
     DEF CloseStep

LEMMA WrittenTyped ==
  ASSUME NEW row \in Row, NEW copy \in Copy, NEW state \in IntentStates,
         NEW amount \in SUBSET Sales
  PROVE  Written(row, copy, state, amount) \in Row
  BY DEF Written, Row

\* A transfer adds the commission of some sales of the key's amount, or of none.
LEMMA TransferStep ==
  ASSUME TypeOK, NEW a \in Attendants, Execute(a)
  PROVE  /\ disbursed' \in [Attendants -> [Sales -> Nat]]
         /\ \A b \in Attendants \ {a} : disbursed'[b] = disbursed[b]
         /\ \A s \in Sales : \/ disbursed'[a][s] = disbursed[a][s]
                             \/ s \in key[a].amount /\ disbursed'[a][s] = disbursed[a][s] + 1
<1>1. PICK amount \in {{}, key[a].amount} :
        disbursed' = [disbursed EXCEPT ![a] = Added(disbursed[a], amount)]
  BY DEF Execute
<1>2. disbursed \in [Attendants -> [Sales -> Nat]]
  BY DEF TypeOK
<1>3. Added(disbursed[a], amount) \in [Sales -> Nat]
  BY <1>2 DEF Added
<1>4. ASSUME NEW s \in Sales
      PROVE  \/ Added(disbursed[a], amount)[s] = disbursed[a][s]
             \/ /\ s \in key[a].amount
                /\ Added(disbursed[a], amount)[s] = disbursed[a][s] + 1
  BY <1>2, <1>4 DEF Added
<1> QED BY <1>1, <1>2, <1>3, <1>4

\* Every variable keeps its type through close runs, payout requests, deliveries
\* and process deaths.
THEOREM TypeCorrect == Spec => []TypeOK
<1> USE DEF IntentStates
<1>1. Init => TypeOK
  BY MaxCrashesAssumption
     DEF Init, TypeOK, Closer, CloserAt, IdleCloser, Copy, NoCopy, Row, NoRow, KeyStates
<1>2. TypeOK /\ [Next]_vars => TypeOK'
  <2> SUFFICES ASSUME TypeOK, [Next]_vars PROVE TypeOK'
    OBVIOUS
  <2> USE DEF TypeOK, paymentsVars, SetHandler
  <2>1. ASSUME NEW c \in Closers, ReadRun(c) \/ CloseStep(c) PROVE TypeOK'
    <3> DEFINE d == closer[c]
    <3>0. closer' \in [Closers -> Closer]
      BY <2>1, CloserTyped
    <3>1. /\ d.pc \in AttendantPC => d.id \in Attendants
          /\ d.total \in SUBSET Sales /\ d.copy \in Copy /\ d.todo \in SUBSET Sales
      BY DEF Closer, CloserAt, PeriodPC, EndPC, AttendantPC
    <3>2. CASE ReadRun(c) \/ ListPaid(c) \/ ListLines(c) \/ SumLedger(c) \/ ReadIntent(c)
               \/ RefreshIntent(c)
      BY <3>0, <3>2 DEF ReadRun, ListPaid, ListLines, SumLedger, ReadIntent, RefreshIntent
    <3>3. CASE SaveRunning(c) \/ Finish(c)
      BY <3>0, <3>3 DEF SaveRunning, Finish
    <3>4. CASE InsertLine(c)
      BY <3>0, <3>1, <3>4 DEF InsertLine
    <3>5. CASE InsertIntent(c)
      <4>1. [state |-> "pending", amount |-> d.total, payout |-> FALSE] \in Row
        BY <3>1 DEF Row
      <4>2. intent' \in [Attendants -> Row]
        BY <3>5, <4>1 DEF InsertIntent
      <4> QED BY <3>0, <3>5, <4>2 DEF InsertIntent
    <3>6. CASE UpdateIntent(c)
      <4>1. Written(intent[d.id], d.copy, "pending", d.total) \in Row
        BY <3>1, <3>6, WrittenTyped DEF UpdateIntent, AttendantPC
      <4> QED BY <3>0, <3>1, <3>6, <4>1 DEF UpdateIntent, AttendantPC
    <3>7. CASE Send(c)
      BY <3>0, <3>1, <3>7 DEF Send, AttendantPC
    <3> QED
      BY <2>1, <3>2, <3>3, <3>4, <3>5, <3>6, <3>7 DEF CloseStep
  <2>2. ASSUME NEW h \in Handlers, NEW a \in Attendants, BeginSubmit(h, a) PROVE TypeOK'
    BY <2>2 DEF BeginSubmit, Handler, Row, Copy, CopyOf
  <2>3. ASSUME NEW h \in Handlers, SubmitStep(h) \/ CallRaises(h) PROVE TypeOK'
    <3> DEFINE j == handler[h]
    <3>0. j \in Handler /\ j.id \in Attendants /\ j.copy \in Copy /\ j.copy.amount \in SUBSET Sales
      BY <2>3 DEF SubmitStep, Call, WriteSubmitted, WriteFailed, CallRaises, IdleHandler,
                  Handler, Copy
    <3>1. CASE CallRaises(h)
      BY <3>1 DEF CallRaises
    <3>2. CASE Call(h)
      <4>1. \A pc \in {"waiting", "accepted", "refused"} : [j EXCEPT !.pc = pc] \in Handler
        BY <3>0 DEF Handler
      <4>2. handler' \in [Handlers -> Handler \union {IdleHandler}]
        BY <3>2, <4>1 DEF Call
      <4>3. key' \in [Attendants -> [state : KeyStates, amount : SUBSET Sales]]
        BY <3>0, <3>2 DEF Call, KeyStates
      <4> QED BY <3>2, <4>2, <4>3 DEF Call
    <3>3. CASE WriteSubmitted(h)
      <4>1. Written(intent[j.id], j.copy, "submitted", j.copy.amount) \in Row
        BY <3>0, WrittenTyped
      <4>2. [Written(intent[j.id], j.copy, "submitted", j.copy.amount)
               EXCEPT !.payout = TRUE] \in Row
        BY <4>1 DEF Row
      <4> QED BY <3>0, <3>3, <4>2 DEF WriteSubmitted
    <3>4. CASE WriteFailed(h)
      <4>1. Written(intent[j.id], j.copy, "failed", j.copy.amount) \in Row
        BY <3>0, WrittenTyped
      <4> QED BY <3>0, <3>4, <4>1 DEF WriteFailed
    <3> QED BY <2>3, <3>1, <3>2, <3>3, <3>4 DEF SubmitStep
  <2>4. ASSUME NEW a \in Attendants, Execute(a) PROVE TypeOK'
    <3>1. key' \in [Attendants -> [state : KeyStates, amount : SUBSET Sales]]
      BY <2>4 DEF Execute, KeyStates
    <3>2. handler' \in [Handlers -> Handler \union {IdleHandler}]
      <4> SUFFICES ASSUME NEW h \in Handlers
                   PROVE  handler'[h] \in Handler \union {IdleHandler}
        BY <2>4 DEF Execute
      <4>1. CASE handler[h].pc = "waiting" /\ handler[h].id = a
        <5>1. handler[h] \in Handler
          BY <4>1 DEF IdleHandler
        <5>2. \A pc \in {"accepted", "refused"} : [handler[h] EXCEPT !.pc = pc] \in Handler
          BY <5>1 DEF Handler
        <5> QED BY <2>4, <4>1, <5>2 DEF Execute
      <4>2. CASE ~(handler[h].pc = "waiting" /\ handler[h].id = a)
        BY <2>4, <4>2 DEF Execute
      <4> QED BY <4>1, <4>2
    <3>3. disbursed' \in [Attendants -> [Sales -> Nat]]
      BY <2>4, TransferStep DEF Execute
    <3> QED BY <2>4, <3>1, <3>2, <3>3 DEF Execute
  <2>5. ASSUME NEW a \in Attendants, WorkerReceive(a) PROVE TypeOK'
    BY <2>5 DEF WorkerReceive
  <2>6. CASE Crash
    <3>1. Ended("killed") \in Closer
      BY DEF Ended, IdleCloser, Closer, CloserAt, EndPC, Copy, NoCopy
    <3> QED BY <2>6, <3>1, MaxCrashesAssumption DEF Crash
  <2>7. CASE UNCHANGED vars
    BY <2>7 DEF vars
  <2> QED BY <2>1, <2>2, <2>3, <2>4, <2>5, <2>6, <2>7 DEF Next
<1> QED BY <1>1, <1>2, PTL DEF Spec

-------------------------------------------------------------------------------
(* Rows and keys only move forward *)

Recorded(a) == intent[a].state # "absent"

\* Payout ids stand for payouts, and whoever works on a row knows that it is there.
BackedInv ==
  /\ SubmittedMeansPayout
  /\ \A a \in Attendants : intent[a].payout => Recorded(a)
  /\ \A h \in Handlers : handler[h] # IdleHandler => Recorded(handler[h].id)
  /\ \A h \in Handlers :
       handler[h].pc = "accepted" => key[handler[h].id].state = "answered"
  /\ \A c \in Closers : closer[c].pc \in {"update", "refresh", "send"} =>
       Recorded(closer[c].id)

\* A close run at any step, as one set of records.
AnyCloser == CloserAt({"idle"} \union RunningPC \union EndPC, Attendants \union {NoAttendant})

LEMMA CloserFacts ==
  ASSUME TypeOK, NEW c \in Closers
  PROVE  /\ closer \in [Closers -> AnyCloser]
         /\ closer[c].pc \in AttendantPC => closer[c].id \in Attendants
         /\ closer[c].pc \notin AttendantPC => closer[c].id = NoAttendant
         /\ closer[c].seen \subseteq Sales
         /\ closer[c].total \subseteq Sales
         /\ closer[c].copy \in Copy
<1>1. Closer \subseteq AnyCloser
  BY DEF Closer, AnyCloser, CloserAt, RunningPC
<1>2. closer \in [Closers -> AnyCloser]
  BY <1>1 DEF TypeOK
<1> QED BY <1>2 DEF TypeOK, Closer, CloserAt, PeriodPC, EndPC, AttendantPC

LEMMA HandlerFacts ==
  ASSUME TypeOK, NEW h \in Handlers, handler[h] # IdleHandler
  PROVE  handler[h] \in Handler /\ handler[h].id \in Attendants /\ handler[h].copy \in Copy
  BY DEF TypeOK, Handler

\* The four commits that touch payout_intents, seen from one row: it is never
\* deleted, keeps its payout id, and gets one from an accepted request only.
LEMMA RowStep ==
  ASSUME TypeOK, BackedInv, [Next]_vars, NEW a \in Attendants
  PROVE  /\ Recorded(a) => Recorded(a)'
         /\ intent[a].payout => intent'[a].payout
         /\ intent'[a].state = "submitted" => intent[a].state = "submitted" \/ intent'[a].payout
         /\ intent'[a].payout => intent[a].payout \/ key[a].state = "answered"
         /\ intent'[a].payout => Recorded(a)'
<1> USE DEF Recorded
<1>0. intent[a] \in Row /\ intent \in [Attendants -> Row]
  BY DEF TypeOK
<1>1. CASE UNCHANGED intent
  BY <1>1 DEF BackedInv, SubmittedMeansPayout
<1> DEFINE Goal ==
      /\ Recorded(a) => Recorded(a)'
      /\ intent[a].payout => intent'[a].payout
      /\ intent'[a].state = "submitted" => intent[a].state = "submitted" \/ intent'[a].payout
      /\ intent'[a].payout => intent[a].payout \/ key[a].state = "answered"
      /\ intent'[a].payout => Recorded(a)'
<1>2. ASSUME NEW c \in Closers, InsertIntent(c) PROVE Goal
  <2>1. closer[c].id \in Attendants
    BY <1>2, CloserFacts DEF InsertIntent, AttendantPC
  <2>2. CASE intent[closer[c].id].state = "absent"
    BY <1>0, <1>2, <2>1, <2>2 DEF InsertIntent, BackedInv
  <2> QED BY <1>1, <1>2, <2>2 DEF InsertIntent
<1>3. ASSUME NEW c \in Closers, UpdateIntent(c) PROVE Goal
  <2>1. closer[c].id \in Attendants
    BY <1>3, CloserFacts DEF UpdateIntent, AttendantPC
  <2> QED
    BY <1>0, <1>3, <2>1 DEF UpdateIntent, Written, BackedInv, SubmittedMeansPayout, Row
<1>4. ASSUME NEW h \in Handlers, WriteSubmitted(h) PROVE Goal
  <2>1. handler[h].id \in Attendants /\ Recorded(handler[h].id)
    BY <1>4, HandlerFacts DEF WriteSubmitted, IdleHandler, BackedInv
  <2> QED
    BY <1>0, <1>4, <2>1 DEF WriteSubmitted, Written, BackedInv, SubmittedMeansPayout, Row
<1>5. ASSUME NEW h \in Handlers, WriteFailed(h) PROVE Goal
  <2>1. handler[h].id \in Attendants
    BY <1>5, HandlerFacts DEF WriteFailed, IdleHandler
  <2> QED
    BY <1>0, <1>5, <2>1 DEF WriteFailed, Written, BackedInv, SubmittedMeansPayout, Row
<1> QED
  BY <1>1, <1>2, <1>3, <1>4, <1>5
     DEF Next, CloseStep, SubmitStep, ReadRun, SaveRunning, ListPaid, InsertLine, ListLines,
         SumLedger, ReadIntent, RefreshIntent, Send, Finish, BeginSubmit, Call, CallRaises,
         Execute, WorkerReceive, Crash, vars

\* An answered key stays answered.
LEMMA KeyStep ==
  ASSUME TypeOK, [Next]_vars, NEW a \in Attendants, key[a].state = "answered"
  PROVE  key'[a].state = "answered"
<1>1. CASE UNCHANGED key
  BY <1>1
<1>2. ASSUME NEW h \in Handlers, Call(h) PROVE key'[a].state = "answered"
  BY <1>2 DEF Call, TypeOK
<1>3. ASSUME NEW b \in Attendants, Execute(b) PROVE key'[a].state = "answered"
  BY <1>3 DEF Execute, TypeOK
<1> QED
  BY <1>1, <1>2, <1>3
     DEF Next, CloseStep, SubmitStep, ReadRun, SaveRunning, ListPaid, InsertLine, ListLines,
         SumLedger, ReadIntent, InsertIntent, UpdateIntent, RefreshIntent, Send, Finish,
         BeginSubmit, CallRaises, WriteSubmitted, WriteFailed, WorkerReceive, Crash, vars,
         paymentsVars

\* A payout request knows its row, and calls itself accepted for an answered key.
HandlerBacked(h) ==
  /\ handler[h] # IdleHandler => Recorded(handler[h].id)
  /\ handler[h].pc = "accepted" => key[handler[h].id].state = "answered"

LEMMA HandlerBackedStep ==
  ASSUME TypeOK, BackedInv, [Next]_vars, NEW h \in Handlers
  PROVE  HandlerBacked(h)'
<1> DEFINE Goal(g) == /\ handler'[g] # IdleHandler => intent'[handler'[g].id].state # "absent"
                      /\ handler'[g].pc = "accepted" => key'[handler'[g].id].state = "answered"
<1>0. ASSUME NEW g \in Handlers
      PROVE  /\ handler[g] # IdleHandler => /\ handler[g].id \in Attendants
                                            /\ handler[g] \in Handler
                                            /\ intent'[handler[g].id].state # "absent"
             /\ handler[g].pc = "accepted" => /\ handler[g] # IdleHandler
                                              /\ key'[handler[g].id].state = "answered"
  <2>1. handler[g] # IdleHandler => /\ handler[g].id \in Attendants
                                    /\ handler[g] \in Handler /\ Recorded(handler[g].id)
    BY HandlerFacts DEF BackedInv
  <2>2. handler[g].pc = "accepted" => handler[g] # IdleHandler /\ key[handler[g].id].state = "answered"
    BY DEF BackedInv, IdleHandler
  <2> QED BY <2>1, <2>2, RowStep, KeyStep DEF Recorded
<1>1. ASSUME NEW g \in Handlers, handler'[g] = handler[g] PROVE Goal(g)
  BY <1>0, <1>1
<1>2. ASSUME NEW g \in Handlers, handler'[g] = IdleHandler PROVE Goal(g)
  BY <1>2 DEF IdleHandler
<1>3. ASSUME NEW g \in Handlers, NEW a \in Attendants, BeginSubmit(g, a) PROVE Goal(g)
  <2>1. /\ handler'[g] = [pc |-> "call", id |-> a, copy |-> CopyOf(intent[a])]
        /\ Recorded(a)
    BY <1>3 DEF BeginSubmit, SetHandler, TypeOK, Submits, Recorded
  <2> QED BY <2>1, RowStep DEF Recorded
<1>4. ASSUME NEW g \in Handlers, Call(g) PROVE Goal(g)
  <2> DEFINE j == handler[g]
  <2>1. j.pc = "call" /\ j # IdleHandler
    BY <1>4 DEF Call, IdleHandler
  <2>2. PICK pc \in {"waiting", "accepted", "refused"} :
          /\ handler'[g] = [j EXCEPT !.pc = pc]
          /\ pc = "accepted" => key[j.id].state = "answered"
    BY <1>4 DEF Call, SetHandler, TypeOK
  <2>3. handler'[g].id = j.id /\ handler'[g].pc = pc
    BY <1>0, <2>1, <2>2 DEF Handler
  <2> QED BY <1>0, <2>1, <2>2, <2>3, KeyStep
<1>5. ASSUME NEW g \in Handlers, NEW a \in Attendants, Execute(a),
             handler[g].pc = "waiting", handler[g].id = a
      PROVE  Goal(g)
  <2>1. handler[g] # IdleHandler
    BY <1>5 DEF IdleHandler
  <2> DEFINE Settled(s) ==
          /\ key' = [key EXCEPT ![a].state = s]
          /\ handler'[g] = [handler[g] EXCEPT !.pc = IF s = "answered" THEN "accepted"
                                                                       ELSE "refused"]
  <2>4. Settled("answered") \/ Settled("stuck")
    BY <1>5 DEF Execute
  <2>2. PICK s \in {"answered", "stuck"} :
          /\ key'[a].state = s
          /\ handler'[g] = [handler[g] EXCEPT !.pc = IF s = "answered" THEN "accepted"
                                                                       ELSE "refused"]
    BY <2>4 DEF TypeOK
  <2>3. /\ handler'[g].id = a
        /\ handler'[g].pc = IF s = "answered" THEN "accepted" ELSE "refused"
    BY <1>0, <1>5, <2>1, <2>2 DEF Handler
  <2> QED BY <1>0, <1>5, <2>1, <2>2, <2>3
<1>6. ASSUME NEW g \in Handlers, CallRaises(g) \/ WriteSubmitted(g) \/ WriteFailed(g)
      PROVE  handler'[g] = IdleHandler
  BY <1>6 DEF CallRaises, WriteSubmitted, WriteFailed, SetHandler, TypeOK
<1>7. ASSUME NEW g \in Handlers, g # h, SubmitStep(g) \/ CallRaises(g)
      PROVE  handler'[h] = handler[h]
  BY <1>7 DEF SubmitStep, Call, CallRaises, WriteSubmitted, WriteFailed, SetHandler, TypeOK
<1>8. ASSUME NEW g \in Handlers, NEW a \in Attendants, BeginSubmit(g, a), g # h
      PROVE  handler'[h] = handler[h]
  BY <1>8 DEF BeginSubmit, SetHandler, TypeOK
<1>9. ASSUME NEW a \in Attendants, Execute(a), ~(handler[h].pc = "waiting" /\ handler[h].id = a)
      PROVE  handler'[h] = handler[h]
  BY <1>9 DEF Execute
<1>10. CASE Crash
  <2>1. handler'[h] = IdleHandler
    BY <1>10 DEF Crash
  <2> QED BY <1>2, <2>1 DEF HandlerBacked, Recorded
<1>11. CASE UNCHANGED handler
  BY <1>1, <1>11 DEF HandlerBacked, Recorded
<1> HIDE DEF Goal
<1>12. ASSUME NEW g \in Handlers, SubmitStep(g) \/ CallRaises(g) PROVE Goal(h)
  <2>1. Goal(g)
    BY <1>2, <1>4, <1>6, <1>12 DEF SubmitStep
  <2> QED BY <1>1, <1>7, <1>12, <2>1
<1>13. ASSUME NEW g \in Handlers, NEW a \in Attendants, BeginSubmit(g, a) PROVE Goal(h)
  <2>1. Goal(g)
    BY <1>3, <1>13
  <2> QED BY <1>1, <1>8, <1>13, <2>1
<1>14. ASSUME NEW a \in Attendants, Execute(a) PROVE Goal(h)
  BY <1>1, <1>5, <1>9, <1>14
<1>15. ASSUME NEW c \in Closers, ReadRun(c) \/ CloseStep(c) PROVE UNCHANGED handler
  BY <1>15 DEF CloseStep, ReadRun, SaveRunning, ListPaid, InsertLine, ListLines, SumLedger,
               ReadIntent, InsertIntent, UpdateIntent, RefreshIntent, Send, Finish
<1>16. ASSUME NEW a \in Attendants, WorkerReceive(a) PROVE UNCHANGED handler
  BY <1>16 DEF WorkerReceive
<1>17. CASE UNCHANGED vars
  BY <1>11, <1>17 DEF vars
<1>18. CASE Goal(h)
  BY <1>18 DEF Goal, HandlerBacked, Recorded
<1> QED
  BY <1>10, <1>11, <1>12, <1>13, <1>14, <1>15, <1>16, <1>17, <1>18 DEF Next

\* A close run that writes or announces an intent knows its row.
CloserBacked(c) ==
  closer[c].pc \in {"update", "refresh", "send"} => Recorded(closer[c].id)

\* The step of the close run itself.
LEMMA OwnBackedStep ==
  ASSUME TypeOK, BackedInv, [Next]_vars, NEW c \in Closers, ReadRun(c) \/ CloseStep(c),
         closer'[c].pc \in {"update", "refresh", "send"}
  PROVE  intent'[closer'[c].id].state # "absent"
<1> DEFINE d == closer[c]
<1>0. /\ d \in AnyCloser /\ closer \in [Closers -> AnyCloser]
      /\ d.pc \in AttendantPC => d.id \in Attendants
      /\ d.pc \in {"update", "refresh", "send"} => intent[d.id].state # "absent"
  BY CloserFacts DEF BackedInv, Recorded
<1>1. ASSUME closer'[c].id = d.id, d.id \in Attendants, intent[d.id].state # "absent"
      PROVE  intent'[closer'[c].id].state # "absent"
  BY <1>1, RowStep DEF Recorded
<1>2. CASE ReadIntent(c)
  <2>1. d.pc = "upsert" /\ d.id \in Attendants
    BY <1>0, <1>2 DEF ReadIntent, AttendantPC
  <2>2. closer'[c].id = d.id /\ intent[d.id].state # "absent"
    <3>1. CASE intent[d.id].state = "absent"
      BY <1>0, <1>2, <3>1 DEF ReadIntent, SetCloser, AnyCloser, CloserAt
    <3>2. CASE intent[d.id].state = "submitted"
      BY <1>0, <1>2, <3>2 DEF ReadIntent, SetCloser, AnyCloser, CloserAt, NextAttendant
    <3>3. CASE intent[d.id].state \notin {"absent", "submitted"}
      BY <1>0, <1>2, <3>3 DEF ReadIntent, SetCloser, AnyCloser, CloserAt
    <3> QED BY <3>1, <3>2, <3>3
  <2> QED BY <1>1, <2>1, <2>2
<1>3. CASE InsertIntent(c)
  <2>1. d.id \in Attendants
    BY <1>0, <1>3 DEF InsertIntent, AttendantPC
  <2>2. CASE intent[d.id].state = "absent"
    <3>1. closer'[c].id = d.id
      BY <1>0, <1>3, <2>2 DEF InsertIntent, SetCloser, AnyCloser, CloserAt
    <3>2. intent'[d.id].state = "pending"
      BY <1>3, <2>1, <2>2 DEF InsertIntent, TypeOK
    <3> QED BY <3>1, <3>2
  <2>3. CASE intent[d.id].state # "absent"
    BY <1>0, <1>3, <2>3 DEF InsertIntent, SetCloser, Ended, IdleCloser
  <2> QED BY <2>2, <2>3
<1>4. CASE UpdateIntent(c)
  BY <1>0, <1>1, <1>4 DEF UpdateIntent, AttendantPC, SetCloser, AnyCloser, CloserAt
<1>5. CASE RefreshIntent(c)
  <2>1. d.pc = "refresh" /\ d.id \in Attendants /\ intent[d.id].state # "absent"
    BY <1>0, <1>5 DEF RefreshIntent, AttendantPC
  <2>2. closer'[c].id = d.id
    <3>1. CASE intent[d.id].state = "submitted"
      BY <1>0, <1>5, <3>1 DEF RefreshIntent, SetCloser, AnyCloser, CloserAt, NextAttendant
    <3>2. CASE intent[d.id].state # "submitted"
      BY <1>0, <1>5, <3>2 DEF RefreshIntent, SetCloser, AnyCloser, CloserAt
    <3> QED BY <3>1, <3>2
  <2> QED BY <1>1, <2>1, <2>2
<1>6. ReadRun(c) => closer'[c].pc = "save"
  BY <1>0 DEF ReadRun, SetCloser, AnyCloser, CloserAt
<1>7. SaveRunning(c) => closer'[c].pc \in {"list", "error"}
  BY <1>0 DEF SaveRunning, SetCloser, AnyCloser, CloserAt, Ended, IdleCloser
<1>8. ListPaid(c) \/ InsertLine(c) => closer'[c].pc = "lines"
  BY <1>0 DEF ListPaid, InsertLine, SetCloser, AnyCloser, CloserAt
<1>9. ListLines(c) \/ Finish(c) => closer'[c].pc \in {"attendants", "done"}
  <2>1. ListLines(c) => closer'[c].pc = "attendants"
    <3> DEFINE k == Known(c) \union {Seller[s] : s \in lines}
               l == lines
    <3> HIDE DEF k, l
    <3>1. ASSUME ListLines(c)
          PROVE closer'[c] = [d EXCEPT !.pc = "attendants", !.seen = @ \union l, !.keys = k]
      BY <1>0, <3>1 DEF ListLines, SetCloser, k, l
    <3> QED BY <1>0, <3>1 DEF AnyCloser, CloserAt
  <2>2. Finish(c) => closer'[c].pc = "done"
    BY <1>0 DEF Finish, SetCloser, AnyCloser, CloserAt
  <2> QED BY <2>1, <2>2
<1>10. SumLedger(c) => closer'[c].pc \in {"upsert", "attendants"}
  <2> SUFFICES ASSUME SumLedger(c) PROVE closer'[c].pc \in {"upsert", "attendants"}
    OBVIOUS
  <2>1. PICK a \in d.keys : closer'[c] =
          IF a \in Contactable /\ Owed(a) # {}
            THEN [d EXCEPT !.pc = "upsert", !.keys = @ \ {a}, !.id = a, !.total = Owed(a)]
            ELSE [d EXCEPT !.keys = @ \ {a}]
    BY <1>0 DEF SumLedger, SetCloser
  <2>2. [d EXCEPT !.pc = "upsert", !.keys = @ \ {a}, !.id = a, !.total = Owed(a)].pc = "upsert"
    BY <1>0 DEF AnyCloser, CloserAt
  <2>3. [d EXCEPT !.keys = @ \ {a}].pc = "attendants"
    BY <1>0 DEF AnyCloser, CloserAt, SumLedger
  <2> QED BY <2>1, <2>2, <2>3
<1>11. Send(c) => closer'[c].pc \in {"attendants", "error"}
  <2>1. NextAttendant(d).pc = "attendants" /\ Ended("error").pc = "error"
    BY <1>0 DEF AnyCloser, CloserAt, Ended, IdleCloser, NextAttendant
  <2>2. Send(c) => closer'[c] = NextAttendant(d) \/ closer'[c] = Ended("error")
    BY <1>0 DEF Send, SetCloser
  <2> QED BY <2>1, <2>2
<1> QED
  BY <1>2, <1>3, <1>4, <1>5, <1>6, <1>7, <1>8, <1>9, <1>10, <1>11 DEF CloseStep

LEMMA CloserBackedStep ==
  ASSUME TypeOK, BackedInv, [Next]_vars, NEW c \in Closers
  PROVE  CloserBacked(c)'
<1>0. closer \in [Closers -> AnyCloser] /\ (closer[c].pc \in AttendantPC => closer[c].id \in Attendants)
  BY CloserFacts
<1>1. CASE closer'[c] = closer[c]
  BY <1>0, <1>1, RowStep DEF CloserBacked, BackedInv, Recorded, AttendantPC
<1>2. ASSUME NEW e \in Closers, ReadRun(e) \/ CloseStep(e) PROVE CloserBacked(c)'
  <2>1. CASE e = c
    <3>1. closer'[e].pc \in {"update", "refresh", "send"} => intent'[closer'[e].id].state # "absent"
      BY <1>2, OwnBackedStep
    <3> QED BY <2>1, <3>1 DEF CloserBacked, Recorded
  <2>2. CASE e # c
    BY <1>0, <1>1, <1>2, <2>2
       DEF CloseStep, ReadRun, SaveRunning, ListPaid, InsertLine, ListLines, SumLedger,
           ReadIntent, InsertIntent, UpdateIntent, RefreshIntent, Send, Finish, SetCloser
  <2> QED BY <2>1, <2>2
<1>3. CASE Crash
  <2>1. closer'[c] = closer[c] \/ closer'[c] = Ended("killed")
    BY <1>3 DEF Crash
  <2> QED BY <1>1, <2>1 DEF Ended, IdleCloser, CloserBacked
<1>4. CASE UNCHANGED closer
  BY <1>1, <1>4
<1> QED
  BY <1>2, <1>3, <1>4 DEF Next, SubmitStep, BeginSubmit, Call, CallRaises, Execute,
     WriteSubmitted, WriteFailed, WorkerReceive, vars

LEMMA BackedStep ==
  ASSUME TypeOK, BackedInv, [Next]_vars
  PROVE  BackedInv'
<1>1. SubmittedMeansPayout' /\ \A a \in Attendants : intent'[a].payout => Recorded(a)'
  <2> SUFFICES ASSUME NEW a \in Attendants
               PROVE  /\ intent'[a].state = "submitted" => intent'[a].payout
                      /\ intent'[a].payout => key'[a].state = "answered"
                      /\ intent'[a].payout => Recorded(a)'
    BY DEF SubmittedMeansPayout
  <2> QED
    BY RowStep, KeyStep DEF BackedInv, SubmittedMeansPayout
<1> QED
  BY <1>1, HandlerBackedStep, CloserBackedStep DEF BackedInv, Recorded, HandlerBacked, CloserBacked

\* The types and the backing of payout ids hold together.
LEMMA Backed == Spec => [](TypeOK /\ BackedInv)
<1>1. Init => BackedInv
  BY DEF Init, BackedInv, SubmittedMeansPayout, NoRow, IdleHandler, IdleCloser
<1>2. TypeOK /\ BackedInv /\ [Next]_vars => BackedInv'
  BY BackedStep
<1> QED BY TypeCorrect, <1>1, <1>2, PTL DEF Spec

\* A submitted intent stores the id of a payout the payments service answered for.
THEOREM SubmittedIsBacked == Spec => []SubmittedMeansPayout
<1>1. BackedInv => SubmittedMeansPayout
  BY DEF BackedInv
<1> QED BY Backed, <1>1, PTL

\* A stored payout id survives every overlap of close runs and payout requests.
THEOREM PayoutIdKept == Spec => PayoutIdIsKept
<1>1. TypeOK /\ BackedInv /\ [Next]_vars =>
        [\A a \in Attendants : intent[a].payout => intent'[a].payout]_vars
  BY RowStep
<1> QED BY Backed, <1>1, PTL DEF Spec, PayoutIdIsKept

-------------------------------------------------------------------------------
(* What is paid is owed *)

Earned(a) == {s \in lines : Seller[s] = a}

\* The sales whose commission went to Daraja for an attendant.
Disbursed(a) == {s \in Sales : disbursed[a][s] > 0}

\* Each amount, wherever it waits on its way to Daraja, is commission of its
\* attendant.
AmountInv ==
  /\ \A c \in Closers : closer[c].total \subseteq Earned(closer[c].id)
  /\ \A h \in Handlers : handler[h].copy.amount \subseteq Earned(handler[h].id)
  /\ \A a \in Attendants : /\ intent[a].amount \subseteq Earned(a)
                           /\ key[a].amount \subseteq Earned(a)
                           /\ Disbursed(a) \subseteq Earned(a)

\* A ledger line is never deleted.
LEMMA LinesGrow ==
  ASSUME [Next]_vars
  PROVE  lines \subseteq lines'
<1>1. ASSUME NEW c \in Closers, InsertLine(c) PROVE lines \subseteq lines'
  BY <1>1 DEF InsertLine
<1> QED
  BY <1>1
     DEF Next, CloseStep, SubmitStep, ReadRun, SaveRunning, ListPaid, ListLines, SumLedger,
         ReadIntent, InsertIntent, UpdateIntent, RefreshIntent, Send, Finish, BeginSubmit,
         Call, CallRaises, Execute, WriteSubmitted, WriteFailed, WorkerReceive, Crash, vars

\* A close run takes an amount from the ledger of its attendant and drops it later.
LEMMA OwnTotalStep ==
  ASSUME TypeOK, NEW c \in Closers, ReadRun(c) \/ CloseStep(c)
  PROVE  \/ closer'[c].total = closer[c].total /\ closer'[c].id = closer[c].id
         \/ closer'[c].total \subseteq Earned(closer'[c].id)
<1> DEFINE d == closer[c]
           Same == closer'[c].total = d.total /\ closer'[c].id = d.id
<1>0. d \in AnyCloser /\ closer \in [Closers -> AnyCloser]
  BY CloserFacts
<1>1. NextAttendant(d).total = {} /\ \A pc : Ended(pc).total = {}
  BY <1>0 DEF AnyCloser, CloserAt, Ended, IdleCloser, NextAttendant
<1>2. ReadRun(c) => Same
  BY <1>0 DEF ReadRun, SetCloser, AnyCloser, CloserAt
<1>3. SaveRunning(c) => Same \/ closer'[c].total = {}
  <2>1. CASE closer[c].found = "absent" /\ run # "absent"
    BY <1>0, <1>1, <2>1 DEF SaveRunning, SetCloser
  <2>2. CASE ~(closer[c].found = "absent" /\ run # "absent")
    BY <1>0, <2>2 DEF SaveRunning, SetCloser, AnyCloser, CloserAt
  <2> QED BY <2>1, <2>2
<1>4. ListPaid(c) \/ InsertLine(c) \/ Finish(c) => Same
  <2>1. ListPaid(c) => Same
    BY <1>0 DEF ListPaid, SetCloser, AnyCloser, CloserAt
  <2>2. InsertLine(c) => Same
    BY <1>0 DEF InsertLine, SetCloser, AnyCloser, CloserAt
  <2>3. Finish(c) => Same
    BY <1>0 DEF Finish, SetCloser, AnyCloser, CloserAt
  <2> QED BY <2>1, <2>2, <2>3
<1>5. ListLines(c) => Same
  <2> DEFINE k == Known(c) \union {Seller[s] : s \in lines}
             l == lines
  <2> HIDE DEF k, l
  <2>1. ASSUME ListLines(c)
        PROVE closer'[c] = [d EXCEPT !.pc = "attendants", !.seen = @ \union l, !.keys = k]
    BY <1>0, <2>1 DEF ListLines, SetCloser, k, l
  <2> QED BY <1>0, <2>1 DEF AnyCloser, CloserAt
<1>6. ASSUME SumLedger(c) PROVE Same \/ closer'[c].total \subseteq Earned(closer'[c].id)
  <2>1. PICK a \in d.keys : closer'[c] =
          IF a \in Contactable /\ Owed(a) # {}
            THEN [d EXCEPT !.pc = "upsert", !.keys = @ \ {a}, !.id = a, !.total = Owed(a)]
            ELSE [d EXCEPT !.keys = @ \ {a}]
    BY <1>0, <1>6 DEF SumLedger, SetCloser
  <2> DEFINE e == [d EXCEPT !.pc = "upsert", !.keys = @ \ {a}, !.id = a, !.total = Owed(a)]
             f == [d EXCEPT !.keys = @ \ {a}]
  <2>2. e.total = Owed(a) /\ e.id = a
    BY <1>0 DEF AnyCloser, CloserAt
  <2>3. f.total = d.total /\ f.id = d.id
    BY <1>0 DEF AnyCloser, CloserAt
  <2>4. Owed(a) \subseteq Earned(a)
    BY DEF Owed, Earned
  <2> QED BY <2>1, <2>2, <2>3, <2>4
<1>7. ReadIntent(c) => Same \/ closer'[c].total = {}
  <2>1. [d EXCEPT !.pc = "insert"].total = d.total /\ [d EXCEPT !.pc = "insert"].id = d.id
    BY <1>0 DEF AnyCloser, CloserAt
  <2>2. ASSUME NEW k PROVE /\ [d EXCEPT !.pc = "update", !.copy = k].total = d.total
                           /\ [d EXCEPT !.pc = "update", !.copy = k].id = d.id
    BY <1>0 DEF AnyCloser, CloserAt
  <2> QED BY <1>0, <1>1, <2>1, <2>2 DEF ReadIntent, SetCloser
<1>8. InsertIntent(c) \/ UpdateIntent(c) => closer'[c].total = {}
  <2>1. [d EXCEPT !.pc = "send", !.total = {}].total = {}
    BY <1>0 DEF AnyCloser, CloserAt
  <2>2. [d EXCEPT !.pc = "refresh", !.total = {}, !.copy = NoCopy].total = {}
    BY <1>0 DEF AnyCloser, CloserAt
  <2> QED BY <1>0, <1>1, <2>1, <2>2 DEF InsertIntent, UpdateIntent, SetCloser
<1>9. RefreshIntent(c) => Same \/ closer'[c].total = {}
  <2>1. [d EXCEPT !.pc = "send"].total = d.total /\ [d EXCEPT !.pc = "send"].id = d.id
    BY <1>0 DEF AnyCloser, CloserAt
  <2> QED BY <1>0, <1>1, <2>1 DEF RefreshIntent, SetCloser
<1>10. Send(c) => closer'[c].total = {}
  BY <1>0, <1>1 DEF Send, SetCloser
<1>11. \A a : {} \subseteq Earned(a)
  OBVIOUS
<1> HIDE DEF Same
<1>12. CASE Same
  BY <1>12 DEF Same
<1> QED
  BY <1>2, <1>3, <1>4, <1>5, <1>6, <1>7, <1>8, <1>9, <1>10, <1>11, <1>12 DEF CloseStep

LEMMA TotalStep ==
  ASSUME TypeOK, AmountInv, [Next]_vars, NEW c \in Closers
  PROVE  closer'[c].total \subseteq {s \in lines' : Seller[s] = closer'[c].id}
<1>1. CASE closer'[c] = closer[c]
  BY <1>1, LinesGrow DEF AmountInv, Earned
<1>2. ASSUME NEW e \in Closers, ReadRun(e) \/ CloseStep(e)
      PROVE  closer'[c].total \subseteq {s \in lines' : Seller[s] = closer'[c].id}
  <2>1. CASE e = c
    BY <1>2, <2>1, OwnTotalStep, LinesGrow DEF AmountInv, Earned
  <2>2. CASE e # c
    <3>1. closer \in [Closers -> AnyCloser]
      BY CloserFacts
    <3> QED BY <1>1, <1>2, <2>2, <3>1
       DEF CloseStep, ReadRun, SaveRunning, ListPaid, InsertLine, ListLines, SumLedger,
           ReadIntent, InsertIntent, UpdateIntent, RefreshIntent, Send, Finish, SetCloser
  <2> QED BY <2>1, <2>2
<1>3. CASE Crash
  <2>1. closer'[c] = closer[c] \/ closer'[c] = Ended("killed")
    BY <1>3 DEF Crash
  <2> QED BY <1>1, <2>1 DEF Ended, IdleCloser
<1>4. CASE UNCHANGED closer
  BY <1>1, <1>4
<1> QED
  BY <1>2, <1>3, <1>4 DEF Next, SubmitStep, BeginSubmit, Call, CallRaises, Execute,
     WriteSubmitted, WriteFailed, WorkerReceive, vars

\* The amount of an intent comes from the ledger, by way of a close run.
LEMMA RowAmountStep ==
  ASSUME TypeOK, AmountInv, [Next]_vars, NEW a \in Attendants
  PROVE  intent'[a].amount \subseteq Earned(a)
<1>0. intent \in [Attendants -> Row]
  BY DEF TypeOK
<1>1. CASE UNCHANGED intent
  BY <1>1 DEF AmountInv
<1>2. ASSUME NEW c \in Closers, InsertIntent(c) PROVE intent'[a].amount \subseteq Earned(a)
  BY <1>0, <1>2, CloserFacts DEF InsertIntent, AttendantPC, AmountInv
<1>3. ASSUME NEW c \in Closers, UpdateIntent(c) PROVE intent'[a].amount \subseteq Earned(a)
  <2>1. closer[c].id \in Attendants
    BY <1>3, CloserFacts DEF UpdateIntent, AttendantPC
  <2>2. CASE a # closer[c].id
    BY <1>0, <1>3, <2>2 DEF UpdateIntent, AmountInv
  <2>3. CASE a = closer[c].id
    <3>1. intent'[a] = Written(intent[a], closer[c].copy, "pending", closer[c].total)
      BY <1>0, <1>3, <2>1, <2>3 DEF UpdateIntent
    <3>2. intent[a] \in Row
      BY <1>0
    <3>3. intent'[a].amount \in {intent[a].amount, closer[c].total}
      BY <3>1, <3>2 DEF Written, Row
    <3> QED BY <2>3, <3>3 DEF AmountInv
  <2> QED BY <2>2, <2>3
<1>4. ASSUME NEW h \in Handlers, WriteSubmitted(h) \/ WriteFailed(h)
      PROVE  intent'[a].amount = intent[a].amount
  <2>1. handler[h].id \in Attendants
    BY <1>4, HandlerFacts DEF WriteSubmitted, WriteFailed, IdleHandler
  <2> DEFINE j == handler[h]
  <2>2. PICK state \in {"submitted", "failed"}, payout \in BOOLEAN :
          \/ intent' = [intent EXCEPT ![j.id] = Written(@, j.copy, state, j.copy.amount)]
          \/ intent' = [intent EXCEPT ![j.id] =
                          [Written(@, j.copy, state, j.copy.amount) EXCEPT !.payout = payout]]
    BY <1>4 DEF WriteSubmitted, WriteFailed
  <2> DEFINE row == intent[a]
             w == Written(row, j.copy, state, j.copy.amount)
  <2>3. w.amount = row.amount /\ [w EXCEPT !.payout = payout].amount = row.amount
    BY <1>0 DEF Written, Row
  <2> HIDE DEF w
  <2>4. intent'[a] \in {row, w, [w EXCEPT !.payout = payout]}
    BY <1>0, <2>1, <2>2 DEF w
  <2> QED BY <2>3, <2>4
<1>5. CASE intent'[a].amount = intent[a].amount
  BY <1>5 DEF AmountInv
<1> QED
  BY <1>1, <1>2, <1>3, <1>4, <1>5
     DEF Next, CloseStep, SubmitStep, ReadRun, SaveRunning, ListPaid, InsertLine, ListLines,
         SumLedger, ReadIntent, RefreshIntent, Send, Finish, BeginSubmit, Call, CallRaises,
         Execute, WorkerReceive, Crash, vars

\* A payout request carries the amount of the row it read.
LEMMA CopyAmountStep ==
  ASSUME TypeOK, AmountInv, [Next]_vars, NEW h \in Handlers
  PROVE  \/ handler'[h].copy.amount = handler[h].copy.amount /\ handler'[h].id = handler[h].id
         \/ handler'[h] = IdleHandler
         \/ \E a \in Attendants : handler'[h].id = a /\ handler'[h].copy.amount = intent[a].amount
<1> DEFINE Goal ==
      \/ handler'[h].copy.amount = handler[h].copy.amount /\ handler'[h].id = handler[h].id
      \/ handler'[h] = IdleHandler
      \/ \E a \in Attendants : handler'[h].id = a /\ handler'[h].copy.amount = intent[a].amount
<1>1. CASE handler'[h] = handler[h]
  BY <1>1
<1>2. CASE handler'[h] = IdleHandler
  BY <1>2
<1>3. ASSUME NEW g \in Handlers, NEW a \in Attendants, BeginSubmit(g, a) PROVE Goal
  <2>1. handler' = [handler EXCEPT ![g] = [pc |-> "call", id |-> a, copy |-> CopyOf(intent[a])]]
    BY <1>3 DEF BeginSubmit, SetHandler
  <2>2. CASE g = h
    BY <2>1, <2>2 DEF CopyOf, TypeOK
  <2>3. CASE g # h
    BY <1>1, <2>1, <2>3 DEF TypeOK
  <2> QED BY <2>2, <2>3
<1>4. ASSUME NEW g \in Handlers, Call(g) PROVE Goal
  <2>1. handler[g] \in Handler
    BY <1>4, HandlerFacts DEF Call, IdleHandler
  <2>2. PICK pc \in {"waiting", "accepted", "refused"} :
          handler' = [handler EXCEPT ![g] = [handler[g] EXCEPT !.pc = pc]]
    BY <1>4 DEF Call, SetHandler
  <2>3. CASE g = h
    BY <2>1, <2>2, <2>3 DEF TypeOK, Handler
  <2>4. CASE g # h
    BY <1>1, <2>2, <2>4 DEF TypeOK
  <2> QED BY <2>3, <2>4
<1>5. ASSUME NEW g \in Handlers, CallRaises(g) \/ WriteSubmitted(g) \/ WriteFailed(g) PROVE Goal
  <2>1. handler'[h] = IdleHandler \/ handler'[h] = handler[h]
    BY <1>5 DEF CallRaises, WriteSubmitted, WriteFailed, SetHandler, TypeOK
  <2> QED BY <1>1, <1>2, <2>1
<1>6. ASSUME NEW a \in Attendants, Execute(a) PROVE Goal
  <2>1. CASE handler[h].pc = "waiting" /\ handler[h].id = a
    <3>1. handler[h] \in Handler
      BY <2>1, HandlerFacts DEF IdleHandler
    <3>2. PICK pc \in {"accepted", "refused"} : handler'[h] = [handler[h] EXCEPT !.pc = pc]
      BY <1>6, <2>1 DEF Execute
    <3> QED BY <3>1, <3>2 DEF Handler
  <2>2. CASE ~(handler[h].pc = "waiting" /\ handler[h].id = a)
    BY <1>1, <1>6, <2>2 DEF Execute
  <2> QED BY <2>1, <2>2
<1>7. ASSUME Crash PROVE Goal
  BY <1>2, <1>7 DEF Crash
<1> HIDE DEF Goal
<1>8. CASE UNCHANGED handler
  BY <1>1, <1>8 DEF Goal
<1>9. CASE Goal
  BY <1>9 DEF Goal
<1> QED
  BY <1>3, <1>4, <1>5, <1>6, <1>7, <1>8, <1>9
     DEF Next, SubmitStep, CloseStep, ReadRun, SaveRunning, ListPaid, InsertLine, ListLines,
         SumLedger, ReadIntent, InsertIntent, UpdateIntent, RefreshIntent, Send, Finish,
         WorkerReceive, vars

\* A key is taken with the amount of a request, and disbursed with its own.
LEMMA KeyAmountStep ==
  ASSUME TypeOK, AmountInv, [Next]_vars, NEW a \in Attendants
  PROVE  key'[a].amount \subseteq Earned(a) /\ Disbursed(a)' \subseteq Earned(a)
<1>1. CASE UNCHANGED paymentsVars
  BY <1>1 DEF AmountInv, paymentsVars, Disbursed
<1>2. ASSUME NEW h \in Handlers, Call(h)
      PROVE  key'[a].amount \subseteq Earned(a) /\ Disbursed(a)' \subseteq Earned(a)
  <2>1. disbursed' = disbursed /\ Disbursed(a)' = Disbursed(a)
    BY <1>2 DEF Call, Disbursed
  <2>2. key'[a].amount \subseteq Earned(a)
    BY <1>2 DEF Call, AmountInv, TypeOK
  <2> QED BY <2>1, <2>2 DEF AmountInv
<1>3. ASSUME NEW b \in Attendants, Execute(b)
      PROVE  key'[a].amount \subseteq Earned(a) /\ Disbursed(a)' \subseteq Earned(a)
  <2>1. key'[a].amount = key[a].amount
    BY <1>3 DEF Execute, TypeOK
  <2>2. \A s \in Sales : disbursed'[a][s] = disbursed[a][s] \/ s \in key[a].amount
    BY <1>3, TransferStep
  <2> QED BY <2>1, <2>2 DEF AmountInv, Disbursed
<1> QED
  BY <1>1, <1>2, <1>3
     DEF Next, CloseStep, SubmitStep, ReadRun, SaveRunning, ListPaid, InsertLine, ListLines,
         SumLedger, ReadIntent, InsertIntent, UpdateIntent, RefreshIntent, Send, Finish,
         BeginSubmit, CallRaises, WriteSubmitted, WriteFailed, WorkerReceive, Crash, vars

LEMMA AmountStep ==
  ASSUME TypeOK, AmountInv, [Next]_vars
  PROVE  AmountInv'
<1>1. \A a \in Attendants : Earned(a) \subseteq Earned(a)'
  BY LinesGrow DEF Earned
<1>2. \A h \in Handlers :
        handler'[h].copy.amount \subseteq {s \in lines' : Seller[s] = handler'[h].id}
  <2> SUFFICES ASSUME NEW h \in Handlers
               PROVE  handler'[h].copy.amount \subseteq {s \in lines' : Seller[s] = handler'[h].id}
    OBVIOUS
  <2> QED BY CopyAmountStep, LinesGrow DEF AmountInv, Earned, IdleHandler, NoCopy
<1>3. \A a \in Attendants : /\ intent'[a].amount \subseteq Earned(a)'
                            /\ key'[a].amount \subseteq Earned(a)'
                            /\ Disbursed(a)' \subseteq Earned(a)'
  BY <1>1, RowAmountStep, KeyAmountStep
<1>4. \A c \in Closers : closer'[c].total \subseteq {s \in lines' : Seller[s] = closer'[c].id}
  BY TotalStep
<1> QED BY <1>2, <1>3, <1>4 DEF AmountInv, Earned

\* Before a key is used nothing went out under it, and after it was used nothing more does.
OnceInv ==
  \A a \in Attendants, s \in Sales :
    /\ disbursed[a][s] <= 1
    /\ key[a].state \in {"free", "running"} => disbursed[a][s] = 0

LEMMA OnceStep ==
  ASSUME TypeOK, OnceInv, [Next]_vars
  PROVE  OnceInv'
<1>1. CASE UNCHANGED paymentsVars
  BY <1>1 DEF OnceInv, paymentsVars
<1>2. ASSUME NEW h \in Handlers, Call(h) PROVE OnceInv'
  <2>1. /\ disbursed' = disbursed
        /\ \A a \in Attendants : key[a].state = "free" \/ key'[a] = key[a]
    BY <1>2 DEF Call, TypeOK
  <2> QED BY <2>1 DEF OnceInv
<1>3. ASSUME NEW b \in Attendants, Execute(b) PROVE OnceInv'
  <2>1. /\ key[b].state = "running" /\ key'[b].state \in {"answered", "stuck"}
        /\ \A a \in Attendants \ {b} : key'[a] = key[a]
    BY <1>3 DEF Execute, TypeOK
  <2>2. /\ \A a \in Attendants \ {b} : disbursed'[a] = disbursed[a]
        /\ \A s \in Sales : disbursed'[b][s] \in {disbursed[b][s], disbursed[b][s] + 1}
    BY <1>3, TransferStep
  <2> QED BY <2>1, <2>2 DEF OnceInv
<1> QED
  BY <1>1, <1>2, <1>3
     DEF Next, CloseStep, SubmitStep, ReadRun, SaveRunning, ListPaid, InsertLine, ListLines,
         SumLedger, ReadIntent, InsertIntent, UpdateIntent, RefreshIntent, Send, Finish,
         BeginSubmit, CallRaises, WriteSubmitted, WriteFailed, WorkerReceive, Crash, vars

\* Over all the transfers payments makes, each ledger line is paid at most once, and to its
\* own attendant, through any overlap of close runs, payout requests, replays and process
\* deaths.
THEOREM NotOverpaid == Spec => []NeverOverpaid
<1>1. Init => AmountInv /\ OnceInv
  BY DEF Init, AmountInv, OnceInv, Earned, Disbursed, NoRow, IdleHandler, IdleCloser, NoCopy
<1>2. TypeOK /\ AmountInv /\ [Next]_vars => AmountInv'
  BY AmountStep
<1>3. TypeOK /\ OnceInv /\ [Next]_vars => OnceInv'
  BY OnceStep
<1>4. AmountInv /\ OnceInv => NeverOverpaid
  BY DEF AmountInv, OnceInv, Earned, Disbursed, NeverOverpaid
<1> QED BY TypeCorrect, <1>1, <1>2, <1>3, <1>4, PTL DEF Spec

-------------------------------------------------------------------------------
(* Nobody is left out *)

Covered(a) == \/ intent[a].payout
              \/ Recorded(a) /\ a \in queue \union dead

\* The steps after a close run has listed the attendants.
Listed == {"attendants", "done"} \union AttendantPC

\* Each attendant with commission is covered, or still to come.
Reached(c) ==
  /\ closer[c].seen \subseteq lines
  /\ \A s \in closer[c].seen \ Zero : Seller[s] \in Contactable =>
       Covered(Seller[s]) \/ Seller[s] \in closer[c].keys \union {closer[c].id}

CoverInv ==
  \A c \in Closers :
    /\ closer[c].pc = "lines" => closer[c].seen \subseteq lines \union closer[c].todo
    /\ closer[c].pc \in Listed => Reached(c)
    /\ closer[c].pc = "done" => closer[c].keys = {}

\* A payout and a message in one of the queues stay.
LEMMA CoveredStays ==
  ASSUME TypeOK, BackedInv, [Next]_vars, NEW a \in Attendants, Covered(a)
  PROVE  Covered(a)'
<1>1. queue \union dead \subseteq queue' \union dead'
  <2>1. ASSUME NEW c \in Closers, Send(c) PROVE queue \union dead \subseteq queue' \union dead'
    BY <2>1 DEF Send
  <2>2. ASSUME NEW b \in Attendants, WorkerReceive(b)
        PROVE queue \union dead \subseteq queue' \union dead'
    BY <2>2 DEF WorkerReceive
  <2> QED
    BY <2>1, <2>2
       DEF Next, CloseStep, SubmitStep, ReadRun, SaveRunning, ListPaid, InsertLine, ListLines,
           SumLedger, ReadIntent, InsertIntent, UpdateIntent, RefreshIntent, Finish, BeginSubmit,
           Call, CallRaises, Execute, WriteSubmitted, WriteFailed, Crash, vars
<1> QED BY <1>1, RowStep DEF Covered

\* A close run drops an attendant that is covered, and one that is owed nothing.
LEMMA PassedOn ==
  ASSUME TypeOK, BackedInv, [Next]_vars, NEW c \in Closers, Reached(c),
         closer'[c].seen = closer[c].seen,
         \A a \in Attendants \intersect Contactable :
           Owed(a) # {} /\ a \in closer[c].keys \union {closer[c].id} =>
             Covered(a)' \/ a \in closer'[c].keys \union {closer'[c].id}
  PROVE  Reached(c)'
<1>1. lines \subseteq lines' /\ closer[c].seen \subseteq lines
  BY LinesGrow DEF Reached
<1>2. ASSUME NEW s \in closer[c].seen \ Zero, Seller[s] \in Contactable
      PROVE  Covered(Seller[s])' \/ Seller[s] \in closer'[c].keys \union {closer'[c].id}
  <2>1. Seller[s] \in Attendants /\ s \in Owed(Seller[s])
    BY <1>1, SellerAssumption DEF TypeOK, Owed
  <2>2. ASSUME NEW a \in Attendants, a = Seller[s]
        PROVE  Covered(a)' \/ a \in closer'[c].keys \union {closer'[c].id}
    BY <1>2, <2>1, <2>2, CoveredStays DEF Reached
  <2> QED BY <2>1, <2>2
<1> QED BY <1>1, <1>2 DEF Reached

LEMMA OwnCoverStep ==
  ASSUME TypeOK, BackedInv, CoverInv, [Next]_vars, NEW c \in Closers, ReadRun(c) \/ CloseStep(c)
  PROVE  /\ closer'[c].pc = "lines" => closer'[c].seen \subseteq lines' \union closer'[c].todo
         /\ closer'[c].pc \in Listed => Reached(c)'
         /\ closer'[c].pc = "done" => closer'[c].keys = {}
<1> DEFINE d == closer[c]
           e == closer'[c]
           CoveredNow(a) == intent'[a].payout \/ (intent'[a].state # "absent" /\ a \in queue' \union dead')
           Same == e.seen = d.seen /\ e.keys = d.keys /\ e.id = d.id
           Onward == e.pc = "attendants" /\ e.seen = d.seen /\ e.keys = d.keys
           Goal == /\ e.pc = "lines" => e.seen \subseteq lines' \union e.todo
                   /\ e.pc \in Listed => Reached(c)'
                   /\ e.pc = "done" => e.keys = {}
<1>0. d \in AnyCloser /\ closer \in [Closers -> AnyCloser]
  BY CloserFacts
<1>1. /\ NextAttendant(d).pc = "attendants" /\ NextAttendant(d).seen = d.seen
      /\ NextAttendant(d).keys = d.keys
      /\ \A pc : Ended(pc).pc = pc
  BY <1>0 DEF AnyCloser, CloserAt, Ended, IdleCloser, NextAttendant
<1>2. d.pc \in Listed => Reached(c)
  BY DEF CoverInv
<1>3. ASSUME d.pc \in Listed, Same, e.pc \in AttendantPC PROVE Goal
  <2>1. Reached(c)'
    BY <1>2, <1>3, PassedOn
  <2> QED BY <1>3, <2>1 DEF AttendantPC
<1>4. ASSUME d.pc \in AttendantPC, Onward, CoveredNow(d.id) PROVE Goal
  <2>1. ASSUME NEW a \in Attendants, a = d.id PROVE Covered(a)'
    BY <1>4, <2>1 DEF Covered, Recorded
  <2>2. Reached(c)
    BY <1>2, <1>4 DEF Listed
  <2>3. \A a \in Attendants \intersect Contactable :
           Owed(a) # {} /\ a \in d.keys \union {d.id} =>
             Covered(a)' \/ a \in e.keys \union {e.id}
    BY <1>4, <2>1
  <2>4. Reached(c)'
    BY <1>4, <2>2, <2>3, PassedOn
  <2> QED BY <1>4, <2>4
<1>5. ASSUME e.pc \in {"save", "list", "error"} PROVE Goal
  BY <1>5 DEF Listed, AttendantPC
<1>6. CASE ReadRun(c)
  <2>1. e.pc = "save"
    BY <1>0, <1>6 DEF ReadRun, SetCloser, AnyCloser, CloserAt
  <2> QED BY <1>5, <2>1
<1>7. CASE SaveRunning(c)
  <2>1. e.pc \in {"list", "error"}
    BY <1>0, <1>7 DEF SaveRunning, SetCloser, AnyCloser, CloserAt, Ended, IdleCloser
  <2> QED BY <1>5, <2>1
<1>8. CASE ListPaid(c)
  <2>1. e.pc = "lines" /\ e.seen = e.todo
    BY <1>0, <1>8 DEF ListPaid, SetCloser, AnyCloser, CloserAt
  <2> QED BY <2>1 DEF Listed, AttendantPC
<1>9. CASE InsertLine(c)
  <2>1. PICK s \in d.todo : /\ lines' = lines \union {s}
                            /\ closer'[c] = [d EXCEPT !.todo = @ \ {s}]
    BY <1>0, <1>9 DEF InsertLine, SetCloser
  <2>2. e.pc = "lines" /\ e.seen = d.seen /\ e.todo = d.todo \ {s} /\ d.pc = "lines"
    BY <1>0, <1>9, <2>1 DEF InsertLine, AnyCloser, CloserAt
  <2>3. d.seen \subseteq lines \union d.todo
    BY <2>2 DEF CoverInv
  <2> QED BY <2>1, <2>2, <2>3 DEF Listed, AttendantPC
<1>10. CASE ListLines(c)
  <2> DEFINE k == Known(c) \union {Seller[s] : s \in lines}
             l == lines
  <2> HIDE DEF k, l
  <2>1. closer'[c] = [d EXCEPT !.pc = "attendants", !.seen = @ \union l, !.keys = k]
    BY <1>0, <1>10 DEF ListLines, SetCloser, k, l
  <2>2. e.pc = "attendants" /\ e.seen = d.seen \union lines /\ e.keys = k
    BY <1>0, <2>1 DEF AnyCloser, CloserAt, l
  <2>3. d.seen \subseteq lines /\ lines' = lines
    BY <1>10 DEF ListLines, CoverInv
  <2>4. \A s \in e.seen : Seller[s] \in e.keys
    BY <2>2, <2>3 DEF k
  <2>5. Reached(c)'
    BY <2>2, <2>3, <2>4 DEF Reached
  <2> QED BY <2>2, <2>5
<1>11. CASE SumLedger(c)
  <2>1. PICK a \in d.keys : closer'[c] =
          IF a \in Contactable /\ Owed(a) # {}
            THEN [d EXCEPT !.pc = "upsert", !.keys = @ \ {a}, !.id = a, !.total = Owed(a)]
            ELSE [d EXCEPT !.keys = @ \ {a}]
    BY <1>0, <1>11 DEF SumLedger, SetCloser
  <2> DEFINE up == [d EXCEPT !.pc = "upsert", !.keys = @ \ {a}, !.id = a, !.total = Owed(a)]
             no == [d EXCEPT !.keys = @ \ {a}]
  <2>2. up.pc = "upsert" /\ up.keys = d.keys \ {a} /\ up.id = a /\ up.seen = d.seen
    BY <1>0 DEF AnyCloser, CloserAt
  <2>3. no.pc = d.pc /\ no.keys = d.keys \ {a} /\ no.id = d.id /\ no.seen = d.seen
    BY <1>0 DEF AnyCloser, CloserAt
  <2>4. d.pc = "attendants" /\ d.id = NoAttendant
    BY <1>11, CloserFacts DEF SumLedger, AttendantPC
  <2> HIDE DEF up, no
  <2>5. \/ e = up
        \/ e = no /\ (a \in Contactable => Owed(a) = {})
    BY <2>1 DEF up, no
  <2>6. e.pc \in {"upsert", "attendants"} /\ e.seen = d.seen
    BY <2>2, <2>3, <2>4, <2>5
  <2>7. \A b \in Attendants \intersect Contactable :
           Owed(b) # {} /\ b \in d.keys \union {d.id} => b \in e.keys \union {e.id}
    BY <2>2, <2>3, <2>4, <2>5, NoAttendantAssumption
  <2>8. Reached(c)'
    BY <1>2, <2>4, <2>6, <2>7, PassedOn DEF Listed
  <2> QED BY <2>6, <2>8
<1>12. CASE ReadIntent(c)
  <2>1. d.pc = "upsert" /\ d.id \in Attendants /\ intent' = intent
    BY <1>12, CloserFacts DEF ReadIntent, AttendantPC
  <2>2. CASE intent[d.id].state = "submitted"
    <3>1. Onward
      BY <1>0, <1>1, <1>12, <2>2 DEF ReadIntent, SetCloser
    <3>2. CoveredNow(d.id)
      BY <2>1, <2>2 DEF BackedInv, SubmittedMeansPayout
    <3> QED BY <1>4, <2>1, <3>1, <3>2 DEF AttendantPC
  <2>3. CASE intent[d.id].state # "submitted"
    <3>1. \/ e = [d EXCEPT !.pc = "insert"]
          \/ e = [d EXCEPT !.pc = "update", !.copy = CopyOf(intent[d.id])]
      BY <1>0, <1>12, <2>3 DEF ReadIntent, SetCloser
    <3>2. Same /\ e.pc \in {"insert", "update"}
      BY <1>0, <3>1 DEF AnyCloser, CloserAt
    <3> QED BY <1>3, <2>1, <3>2 DEF Listed, AttendantPC
  <2> QED BY <2>2, <2>3
<1>13. CASE InsertIntent(c)
  <2>1. d.pc = "insert" /\ (e = [d EXCEPT !.pc = "send", !.total = {}] \/ e = Ended("error"))
    BY <1>0, <1>13 DEF InsertIntent, SetCloser
  <2>2. CASE e = Ended("error")
    BY <1>1, <1>5, <2>2
  <2>3. CASE e = [d EXCEPT !.pc = "send", !.total = {}]
    <3>1. Same /\ e.pc = "send"
      BY <1>0, <2>3 DEF AnyCloser, CloserAt
    <3> QED BY <1>3, <2>1, <3>1 DEF Listed, AttendantPC
  <2> QED BY <2>1, <2>2, <2>3
<1>14. CASE UpdateIntent(c)
  <2>1. d.pc = "update" /\ e = [d EXCEPT !.pc = "refresh", !.total = {}, !.copy = NoCopy]
    BY <1>0, <1>14 DEF UpdateIntent, SetCloser
  <2>2. Same /\ e.pc = "refresh"
    BY <1>0, <2>1 DEF AnyCloser, CloserAt
  <2> QED BY <1>3, <2>1, <2>2 DEF Listed, AttendantPC
<1>15. CASE RefreshIntent(c)
  <2>1. d.pc = "refresh" /\ d.id \in Attendants /\ intent' = intent
    BY <1>15, CloserFacts DEF RefreshIntent, AttendantPC
  <2>2. CASE intent[d.id].state = "submitted"
    <3>1. Onward
      BY <1>0, <1>1, <1>15, <2>2 DEF RefreshIntent, SetCloser
    <3>2. CoveredNow(d.id)
      BY <2>1, <2>2 DEF BackedInv, SubmittedMeansPayout
    <3> QED BY <1>4, <2>1, <3>1, <3>2 DEF AttendantPC
  <2>3. CASE intent[d.id].state # "submitted"
    <3>1. e = [d EXCEPT !.pc = "send"]
      BY <1>0, <1>15, <2>3 DEF RefreshIntent, SetCloser
    <3>2. Same /\ e.pc = "send"
      BY <1>0, <3>1 DEF AnyCloser, CloserAt
    <3> QED BY <1>3, <2>1, <3>2 DEF Listed, AttendantPC
  <2> QED BY <2>2, <2>3
<1>16. CASE Send(c)
  <2>1. d.pc = "send" /\ Recorded(d.id) /\ intent' = intent
    BY <1>16 DEF Send, BackedInv
  <2>2. CASE e = Ended("error")
    BY <1>1, <1>5, <2>2
  <2>3. CASE e = NextAttendant(d) /\ queue' = queue \union {d.id}
    <3>1. Onward
      BY <1>1, <2>3
    <3>2. CoveredNow(d.id)
      BY <2>1, <2>3 DEF Recorded
    <3> QED BY <1>4, <2>1, <3>1, <3>2 DEF AttendantPC
  <2>4. \/ e = Ended("error")
        \/ e = NextAttendant(d) /\ queue' = queue \union {d.id}
    BY <1>0, <1>16 DEF Send, SetCloser
  <2> QED BY <2>2, <2>3, <2>4
<1>17. CASE Finish(c)
  <2>1. d.pc = "attendants" /\ d.keys = {} /\ e = [d EXCEPT !.pc = "done"]
    BY <1>0, <1>17 DEF Finish, SetCloser
  <2>2. Same /\ e.pc = "done"
    BY <1>0, <2>1 DEF AnyCloser, CloserAt
  <2>3. Reached(c)'
    BY <1>2, <2>1, <2>2, PassedOn DEF Listed
  <2> QED BY <2>1, <2>2, <2>3
<1> QED
  BY <1>6, <1>7, <1>8, <1>9, <1>10, <1>11, <1>12, <1>13, <1>14, <1>15, <1>16, <1>17
     DEF CloseStep

\* A close run that does not move stays in place while the others go on.
LEMMA CoverStep ==
  ASSUME TypeOK, BackedInv, CoverInv, [Next]_vars
  PROVE  CoverInv'
<1> SUFFICES ASSUME NEW c \in Closers
             PROVE  /\ closer'[c].pc = "lines" => closer'[c].seen \subseteq lines' \union closer'[c].todo
                    /\ closer'[c].pc \in Listed => Reached(c)'
                    /\ closer'[c].pc = "done" => closer'[c].keys = {}
  BY DEF CoverInv
<1> DEFINE Goal == /\ closer'[c].pc = "lines" => closer'[c].seen \subseteq lines' \union closer'[c].todo
                   /\ closer'[c].pc \in Listed => Reached(c)'
                   /\ closer'[c].pc = "done" => closer'[c].keys = {}
<1>1. ASSUME closer'[c] = closer[c] PROVE Goal
  <2>1. ASSUME Reached(c) PROVE Reached(c)'
    BY <1>1, <2>1, PassedOn
  <2> QED BY <1>1, <2>1, LinesGrow DEF CoverInv
<1>2. ASSUME closer'[c] = Ended("killed") PROVE Goal
  BY <1>2 DEF Ended, IdleCloser, Listed, AttendantPC
<1>3. ASSUME NEW e \in Closers, ReadRun(e) \/ CloseStep(e), e = c PROVE Goal
  <2>1. ASSUME NEW a \in Closers, ReadRun(a) \/ CloseStep(a)
        PROVE  /\ closer'[a].pc = "lines" => closer'[a].seen \subseteq lines' \union closer'[a].todo
               /\ closer'[a].pc \in Listed => Reached(a)'
               /\ closer'[a].pc = "done" => closer'[a].keys = {}
    BY <2>1, OwnCoverStep
  <2>2. /\ closer'[e].pc = "lines" => closer'[e].seen \subseteq lines' \union closer'[e].todo
        /\ closer'[e].pc \in Listed => Reached(e)'
        /\ closer'[e].pc = "done" => closer'[e].keys = {}
    BY <1>3, <2>1
  <2> QED BY <1>3, <2>2 DEF Reached, Covered, Recorded
<1>4. ASSUME NEW e \in Closers, ReadRun(e) \/ CloseStep(e), e # c PROVE closer'[c] = closer[c]
  <2>1. closer \in [Closers -> AnyCloser]
    BY CloserFacts
  <2> QED BY <1>4, <2>1
     DEF CloseStep, ReadRun, SaveRunning, ListPaid, InsertLine, ListLines, SumLedger,
         ReadIntent, InsertIntent, UpdateIntent, RefreshIntent, Send, Finish, SetCloser
<1>5. ASSUME Crash PROVE closer'[c] = closer[c] \/ closer'[c] = Ended("killed")
  BY <1>5 DEF Crash
<1>6. CASE UNCHANGED closer
  BY <1>1, <1>6
<1> HIDE DEF Goal
<1>7. CASE Goal
  BY <1>7 DEF Goal
<1> QED
  BY <1>1, <1>2, <1>3, <1>4, <1>5, <1>6, <1>7
     DEF Next, SubmitStep, BeginSubmit, Call, CallRaises, Execute, WriteSubmitted, WriteFailed,
         WorkerReceive, vars

\* A close run that finishes has a payout, or a message for one, for everyone it saw
\* commission for, however many runs died before it or ran beside it.
THEOREM NobodyDropped == Spec => []NoAttendantDropped
<1>1. Init => CoverInv
  BY DEF Init, CoverInv, IdleCloser, Listed, AttendantPC
<1>2. TypeOK /\ BackedInv /\ CoverInv /\ [Next]_vars => CoverInv'
  BY CoverStep
<1>3. TypeOK /\ CoverInv => NoAttendantDropped
  <2> SUFFICES ASSUME TypeOK, CoverInv, NEW c \in Closers, closer[c].pc = "done",
                      NEW s \in closer[c].seen \ Zero, Seller[s] \in Contactable
               PROVE  Covered(Seller[s])
    BY DEF NoAttendantDropped, Covered, Recorded
  <2>1. closer[c].id = NoAttendant /\ closer[c].seen \subseteq Sales
    BY CloserFacts DEF AttendantPC
  <2>2. Reached(c) /\ closer[c].keys = {}
    BY DEF CoverInv, Listed
  <2>3. Seller[s] \in Attendants
    BY <2>1, SellerAssumption
  <2> QED BY <2>1, <2>2, <2>3, NoAttendantAssumption DEF Reached
<1> QED BY Backed, <1>1, <1>2, <1>3, PTL DEF Spec
===============================================================================
