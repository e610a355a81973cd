-------------------------- MODULE LocalPaymentsProofs --------------------------
(***************************************************************************)
(* Machine-checked safety of LocalPayments for any number of payments,     *)
(* keys and concurrent handlers.                                           *)
(***************************************************************************)
EXTENDS LocalPayments, TLAPS

\* What the callbacks of each scenario report.
LEMMA CallbackResults ==
  ASSUME NEW s \in Scenarios
  PROVE  /\ Len(Callbacks[s]) \in 0..2
         /\ \A i \in 1..Len(Callbacks[s]) :
              /\ Callbacks[s][i] \in {"success", "failure"}
              /\ s = "immediate_failure" => Callbacks[s][i] = "failure"
              /\ s # "immediate_failure" /\ i = Len(Callbacks[s])
                   => Callbacks[s][i] = "success"
<1>1. CASE s = "immediate_success"
  BY <1>1 DEF Callbacks
<1>2. CASE s = "immediate_failure"
  BY <1>2 DEF Callbacks
<1>3. CASE s = "duplicate_callback"
  BY <1>3 DEF Callbacks
<1>4. CASE s = "out_of_order_callback"
  BY <1>4 DEF Callbacks
<1>5. CASE s = "delayed_timeout"
  BY <1>5 DEF Callbacks
<1> QED BY <1>1, <1>2, <1>3, <1>4, <1>5 DEF Scenarios

LEMMA IdleType == Idle \in Handler
  BY DEF Idle, Handler

\* A handler that goes on keeps its drain.
LEMMA GotoType ==
  ASSUME handler \in [Handlers -> Handler], NEW h \in Handlers,
         NEW p \in Payments \union {None},
         NEW pc \in {"push", "query", "book", "notify", "mark"}, Goto(h, p, pc)
  PROVE  handler' \in [Handlers -> Handler] /\ loop' = h
<1>1. [handler[h] EXCEPT !.pc = pc, !.payment = p] \in Handler
  BY DEF Handler
<1>2. handler' = [handler EXCEPT ![h] = [handler[h] EXCEPT !.pc = pc, !.payment = p]]
  BY DEF Goto, Handler
<1> QED BY <1>1, <1>2 DEF Goto

LEMMA ReturnType ==
  ASSUME handler \in [Handlers -> Handler], NEW h \in Handlers, Return(h)
  PROVE  handler' \in [Handlers -> Handler] /\ loop' = None
  BY IdleType DEF Return

LEMMA TakeType ==
  ASSUME handler \in [Handlers -> Handler], NEW h \in Handlers,
         NEW todo \in SUBSET Payments, Take(h, todo)
  PROVE  handler' \in [Handlers -> Handler] /\ loop' \in {h, None}
<1>1. CASE todo = {}
  BY <1>1, ReturnType DEF Take
<1>2. CASE todo # {}
  <2>1. PICK p \in todo :
          handler' = [handler EXCEPT ![h] = [pc |-> "query", payment |-> p,
                                             drain |-> TRUE, todo |-> todo]]
    BY <1>2 DEF Take
  <2>2. [pc |-> "query", payment |-> p, drain |-> TRUE, todo |-> todo] \in Handler
    BY DEF Handler
  <2> QED BY <1>2, <2>1, <2>2 DEF Take
<1> QED BY <1>1, <1>2

LEMMA UpdateType ==
  ASSUME row \in [Payments -> Row], NEW p, NEW state \in RowStates, Update(p, state)
  PROVE  row' \in [Payments -> Row]
  BY DEF Update, Row

LEMMA KeepType ==
  ASSUME keys \in [Keys -> {"none", "in_progress", "completed"}], NEW k,
         NEW status \in {"in_progress", "completed"}, Keep(k, status)
  PROVE  keys' \in [Keys -> {"none", "in_progress", "completed"}]
  BY DEF Keep

LEMMA CountType ==
  ASSUME lines \in [Payments -> Nat], NEW p
  PROVE  [lines EXCEPT ![p] = @ + 1] \in [Payments -> Nat]
<1>1. CASE p \in Payments
  BY <1>1
<1>2. CASE p \notin Payments
  <2>1. [lines EXCEPT ![p] = @ + 1] = lines
    BY <1>2
  <2> QED BY <2>1
<1> QED BY <1>1, <1>2

LEMMA SettleType ==
  ASSUME TypeOK, NEW h \in Handlers, NEW p \in Payments \union {None}, NEW result,
         Settle(h, p, result)
  PROVE  row' \in [Payments -> Row] /\ handler' \in [Handlers -> Handler] /\ loop' = h
<1>1. CASE Ignored(p, result)
  BY <1>1, GotoType DEF Settle, TypeOK
<1>2. CASE ~Ignored(p, result)
  BY <1>2, GotoType, UpdateType DEF Settle, TypeOK, RowStates, PaymentStates
<1> QED BY <1>1, <1>2

LEMMA FinishType ==
  ASSUME TypeOK, NEW h \in Handlers, NEW p \in Payments \union {None}, Finish(h, p)
  PROVE  handler' \in [Handlers -> Handler] /\ loop' \in {h, None}
  BY GotoType, ReturnType DEF Finish, TypeOK

-------------------------------------------------------------------------------
\* Every variable keeps its type, however many handlers take turns.
THEOREM TypeCorrect == Spec => []TypeOK
<1>1. Init => TypeOK
  BY IdleType DEF Init, TypeOK, Row, RowStates, PaymentStates
<1>2. TypeOK /\ [Next]_vars => TypeOK'
  <2> SUFFICES ASSUME TypeOK, [Next]_vars PROVE TypeOK'
    OBVIOUS
  <2> USE DEF TypeOK
  <2>1. ASSUME NEW k \in Keys, RefuseRequest(k) PROVE TypeOK'
    BY <2>1, KeepType DEF RefuseRequest
  <2>2. ASSUME NEW p \in Payments, NEW k \in Keys, AnswerExisting(p, k) PROVE TypeOK'
    BY <2>2, KeepType DEF AnswerExisting
  <2>3. ASSUME NEW h \in Handlers, NEW p \in Payments, NEW k \in Keys, Save(h, p, k)
        PROVE  TypeOK'
    <3>1. row' \in [Payments -> Row]
      BY <2>3 DEF Save, Row, RowStates, PaymentStates
    <3>2. handler' \in [Handlers -> Handler] /\ loop' = h
      BY <2>3, GotoType DEF Save
    <3> QED BY <2>3, <3>1, <3>2, KeepType DEF Save
  <2>4. ASSUME NEW h \in Handlers, NEW scenario \in Scenarios, InitiateStkPush(h, scenario)
        PROVE  TypeOK'
    <3>1. row' \in [Payments -> Row]
      BY <2>4, UpdateType DEF InitiateStkPush, RowStates, PaymentStates
    <3>2. outbox' \in [Payments -> {"none", "unpublished", "published"}]
      BY <2>4 DEF InitiateStkPush, Enqueue
    <3>3. handler' \in [Handlers -> Handler] /\ loop' = None
      BY <2>4, ReturnType DEF InitiateStkPush
    <3>4. keys' \in [Keys -> {"none", "in_progress", "completed"}]
      BY <2>4, KeepType DEF InitiateStkPush
    <3>5. stub' \in [Payments -> Scenarios \union {None}]
      BY <2>4 DEF InitiateStkPush
    <3>6. UNCHANGED <<delivered, received, lines>>
      BY <2>4 DEF InitiateStkPush
    <3> QED BY <3>1, <3>2, <3>3, <3>4, <3>5, <3>6
  <2>5. ASSUME NEW h \in Handlers, NEW p \in Payments, NEW i \in 1..2, ReceiveCallback(h, p, i)
        PROVE  TypeOK'
    <3>1. received' \in SUBSET Payments /\ delivered' \in [Payments -> 0..2]
      BY <2>5 DEF ReceiveCallback, TryInsert
    <3>2. row' \in [Payments -> Row] /\ handler' \in [Handlers -> Handler]
          /\ loop' \in Handlers \union {None}
      BY <2>5, SettleType DEF ReceiveCallback
    <3> QED BY <2>5, <3>1, <3>2 DEF ReceiveCallback
  <2>6. ASSUME NEW h \in Handlers, NEW p \in Payments, ReconcilePayment(h, p) PROVE TypeOK'
    BY <2>6, GotoType DEF ReconcilePayment
  <2>7. ASSUME NEW h \in Handlers, ProcessOutbox(h) PROVE TypeOK'
    BY <2>7, TakeType DEF ProcessOutbox
  <2>8. ASSUME NEW h \in Handlers, AppendLedger(h) PROVE TypeOK'
    <3>1. handler[h].payment \in Payments \union {None}
      BY DEF Handler
    <3>2. lines' \in [Payments -> Nat]
      BY <2>8, CountType DEF AppendLedger
    <3>3. handler' \in [Handlers -> Handler] /\ loop' = h
      BY <2>8, <3>1, GotoType DEF AppendLedger
    <3> QED BY <2>8, <3>2, <3>3 DEF AppendLedger
  <2>9. ASSUME NEW h \in Handlers, NotifyPos(h) PROVE TypeOK'
    BY <2>9 DEF NotifyPos
  <2>10. ASSUME NEW h \in Handlers, Resume(h) PROVE TypeOK'
    <3>1. handler[h].payment \in Payments \union {None}
      BY DEF Handler
    <3> QED BY <2>10, <3>1, FinishType DEF Resume
  <2>11. ASSUME NEW h \in Handlers, QueryTransactionStatus(h) PROVE TypeOK'
    <3>1. handler[h].payment \in Payments \union {None}
      BY DEF Handler
    <3>2. row' \in [Payments -> Row] /\ handler' \in [Handlers -> Handler]
          /\ loop' \in Handlers \union {None}
      BY <2>11, <3>1, FinishType, SettleType DEF QueryTransactionStatus
    <3> QED BY <2>11, <3>2 DEF QueryTransactionStatus
  <2>12. ASSUME NEW h \in Handlers, MarkPublished(h) PROVE TypeOK'
    <3>1. handler[h].todo \ {handler[h].payment} \in SUBSET Payments
      BY DEF Handler
    <3>2. handler' \in [Handlers -> Handler] /\ loop' \in Handlers \union {None}
      BY <2>12, <3>1, TakeType DEF MarkPublished
    <3> QED BY <2>12, <3>2 DEF MarkPublished
  <2>13. CASE UNCHANGED vars
    BY <2>13 DEF vars
  <2> QED
    BY <2>1, <2>2, <2>3, <2>4, <2>5, <2>6, <2>7, <2>8, <2>9, <2>10, <2>11, <2>12, <2>13
    DEF Next, HandlerStep
<1> QED BY <1>1, <1>2, PTL DEF Spec

-------------------------------------------------------------------------------
(* The invariant *)

\* Only the handler that has the loop is between two repository calls; where a handler is
\* says how far its payment got.
At(h) ==
  LET state == row[handler[h].payment].state
      pc == handler[h].pc IN
    /\ pc \in {"push", "query", "book", "mark"} => loop = h
    /\ pc # "idle" => handler[h].payment \in Payments
    /\ pc = "push" => state = "pending"
    /\ pc = "book" => state = "paid"
    /\ pc = "notify" => state \in PaymentTerminal
    /\ pc = "mark" => state # "pending_reconciliation"

\* What the fake has and delivered, what is queued and booked, and the row agree.
Agree(p) ==
  LET state == row[p].state IN
    /\ stub[p] # None => state \notin {"absent", "pending"}
    /\ stub[p] = None => delivered[p] = 0 /\ p \notin received
    /\ stub[p] = "immediate_failure" => state # "paid"
    /\ p \in received => state \in PaymentTerminal
    /\ stub[p] # None => delivered[p] <= Len(Callbacks[stub[p]])
    /\ stub[p] # None /\ delivered[p] > 0 /\ delivered[p] = Len(Callbacks[stub[p]]) =>
         state = IF QueryResult(p) = "success" THEN "paid" ELSE "failed"
    /\ lines[p] \in {0, 1} /\ (lines[p] = 1 => state = "paid")
    /\ state = "pending_reconciliation" => outbox[p] = "unpublished"

LocalInv == (\A h \in Handlers : At(h)) /\ (\A p \in Payments : Agree(p))


\* A step of a handler that has the loop, or takes it while it is free, does not disturb
\* the handlers that wait for POS: their payments stay settled.
LEMMA OthersKept ==
  ASSUME TypeOK, LocalInv, NEW h \in Handlers, loop \in {h, None},
         \A g \in Handlers \ {h} : handler'[g] = handler[g],
         \A p \in Payments : row[p].state \in PaymentTerminal
                               => row'[p].state \in PaymentTerminal
  PROVE  \A g \in Handlers \ {h} : At(g)'
<1> SUFFICES ASSUME NEW g \in Handlers \ {h} PROVE At(g)'
  OBVIOUS
<1>1. handler[g].pc \in {"idle", "notify"}
  BY NoneAssumption DEF LocalInv, At, TypeOK, Handler
<1> QED BY <1>1 DEF LocalInv, At, TypeOK, Handler

\* Where a handler is after Goto, Return and Take.
LEMMA GotoAt ==
  ASSUME TypeOK, NEW h \in Handlers, NEW p \in Payments, NEW pc, Goto(h, p, pc)
  PROVE  /\ handler'[h].pc = pc /\ handler'[h].payment = p /\ loop' = h
         /\ handler'[h].drain = handler[h].drain /\ handler'[h].todo = handler[h].todo
         /\ \A g \in Handlers \ {h} : handler'[g] = handler[g]
  BY DEF Goto, TypeOK, Handler

LEMMA ReturnAt ==
  ASSUME TypeOK, NEW h \in Handlers, Return(h)
  PROVE  /\ handler'[h] = Idle /\ loop' = None
         /\ \A g \in Handlers \ {h} : handler'[g] = handler[g]
  BY DEF Return, TypeOK

LEMMA TakeAt ==
  ASSUME TypeOK, NEW h \in Handlers, NEW todo \in SUBSET Payments, Take(h, todo)
  PROVE  /\ \/ handler'[h] = Idle /\ loop' = None
            \/ handler'[h].pc = "query" /\ handler'[h].payment \in Payments /\ loop' = h
         /\ \A g \in Handlers \ {h} : handler'[g] = handler[g]
<1>1. CASE todo = {}
  BY <1>1, ReturnAt DEF Take
<1>2. CASE todo # {}
  <2>1. PICK p \in todo :
          /\ handler' = [handler EXCEPT ![h] = [pc |-> "query", payment |-> p,
                                                drain |-> TRUE, todo |-> todo]]
          /\ loop' = h
    BY <1>2 DEF Take
  <2> QED BY <2>1 DEF TypeOK
<1> QED BY <1>1, <1>2

\* The states of the rows after an update.
LEMMA UpdateAt ==
  ASSUME TypeOK, NEW p \in Payments, NEW state, Update(p, state)
  PROVE  /\ row'[p].state = state
         /\ \A q \in Payments \ {p} : row'[q] = row[q]
  BY DEF Update, TypeOK, Row

\* What settling does to the row, and where the handler goes.
LEMMA SettleAt ==
  ASSUME TypeOK, LocalInv, NEW h \in Handlers, loop \in {h, None}, NEW p \in Payments,
         NEW result \in {"success", "failure"}, Settle(h, p, result)
  PROVE  /\ row'[p].state = IF result = "success" THEN "paid"
                            ELSE IF row[p].state = "paid" THEN "paid" ELSE "failed"
         /\ \A q \in Payments \ {p} : row'[q] = row[q]
         /\ \A g \in Handlers : At(g)'
         /\ loop' = h
<1>1. PICK pc \in {"book", "notify"} : Goto(h, p, pc) /\ (pc = "book" => row'[p].state = "paid")
  BY UpdateAt DEF Settle
<1>2. row'[p].state = IF result = "success" THEN "paid"
                      ELSE IF row[p].state = "paid" THEN "paid" ELSE "failed"
  BY UpdateAt DEF Settle, Ignored, PaymentTerminal
<1>3. \A q \in Payments \ {p} : row'[q] = row[q]
  BY UpdateAt DEF Settle
<1>4. /\ handler'[h].pc = pc /\ handler'[h].payment = p /\ loop' = h
      /\ \A g \in Handlers \ {h} : handler'[g] = handler[g]
  BY <1>1, GotoAt
<1>5. \A q \in Payments : row[q].state \in PaymentTerminal => row'[q].state \in PaymentTerminal
  BY <1>2, <1>3 DEF PaymentTerminal
<1>6. \A g \in Handlers \ {h} : At(g)'
  BY <1>4, <1>5, OthersKept
<1>7. At(h)'
  BY <1>1, <1>2, <1>4 DEF At, PaymentTerminal
<1> QED BY <1>2, <1>3, <1>4, <1>6, <1>7


LEMMA SettleAgree ==
  ASSUME TypeOK, LocalInv, NEW h \in Handlers, loop \in {h, None}, NEW p \in Payments,
         NEW result \in {"success", "failure"}, Settle(h, p, result),
         stub[p] = "immediate_failure" <=> result = "failure",
         row[p].state \notin {"absent", "pending"},
         UNCHANGED <<stub, delivered, received, lines, outbox>>
  PROVE  \A q \in Payments : Agree(q)'
<1>1. ASSUME NEW q \in Payments \ {p} PROVE Agree(q)'
  BY <1>1, SettleAt DEF LocalInv, Agree, QueryResult
<1>2. Agree(p)'
  <2>1. Agree(p)
    BY DEF LocalInv
  <2>2. row'[p].state = IF result = "success" THEN "paid" ELSE "failed"
    BY <2>1, SettleAt DEF Agree
  <2>3. lines[p] = 1 => row'[p].state = "paid"
    BY <2>1, SettleAt DEF Agree
  <2> QED BY <2>1, <2>2, <2>3 DEF Agree, QueryResult, PaymentTerminal
<1> QED BY <1>1, <1>2

LEMMA LocalInvStep ==
  ASSUME TypeOK, TypeOK', LocalInv, [Next]_vars
  PROVE  LocalInv'
<1>1. ASSUME UNCHANGED <<row, stub, delivered, received>>,
             UNCHANGED lines, UNCHANGED outbox
      PROVE  \A p \in Payments : Agree(p)'
  BY <1>1 DEF LocalInv, Agree, QueryResult
<1>2. ASSUME NEW k \in Keys, RefuseRequest(k) PROVE LocalInv'
  BY <1>1, <1>2 DEF RefuseRequest, LocalInv, At
<1>3. ASSUME NEW p \in Payments, NEW k \in Keys, AnswerExisting(p, k) PROVE LocalInv'
  BY <1>1, <1>3 DEF AnswerExisting, LocalInv, At
<1>4. ASSUME NEW h \in Handlers, NEW p \in Payments, NEW k \in Keys, Save(h, p, k)
      PROVE  LocalInv'
  <2>1. /\ row[p].state = "absent" /\ row'[p].state = "pending" /\ loop = None
        /\ \A q \in Payments \ {p} : row'[q] = row[q]
    BY <1>4 DEF Save, Starts, Known, TypeOK
  <2>2. /\ handler'[h].pc = "push" /\ handler'[h].payment = p /\ loop' = h
        /\ \A g \in Handlers \ {h} : handler'[g] = handler[g]
    BY <1>4, GotoAt DEF Save
  <2>3. \A g \in Handlers \ {h} : At(g)'
    BY <2>1, <2>2, OthersKept DEF PaymentTerminal
  <2>4. At(h)'
    BY <2>1, <2>2 DEF At
  <2>5. ASSUME NEW q \in Payments PROVE Agree(q)'
    BY <1>4, <2>1 DEF Save, LocalInv, Agree, QueryResult, PaymentTerminal
  <2> QED BY <2>3, <2>4, <2>5 DEF LocalInv
<1>5. ASSUME NEW h \in Handlers, NEW scenario \in Scenarios, InitiateStkPush(h, scenario)
      PROVE  LocalInv'
  <2>1. PICK p \in Payments :
          p = handler[h].payment /\ row[p].state = "pending" /\ loop = h
    BY <1>5 DEF InitiateStkPush, LocalInv, At
  <2>2. /\ row'[p].state \in {"stk_sent", "pending_reconciliation"}
        /\ row'[p].state = "pending_reconciliation" => outbox'[p] = "unpublished"
        /\ \A q \in Payments \ {p} : row'[q] = row[q] /\ outbox'[q] = outbox[q]
    <3>1. CASE scenario = "delayed_timeout"
      BY <1>5, <2>1, <3>1, UpdateAt DEF InitiateStkPush, Enqueue, TypeOK
    <3>2. CASE scenario # "delayed_timeout"
      BY <1>5, <2>1, <3>2, UpdateAt DEF InitiateStkPush
    <3> QED BY <3>1, <3>2
  <2>3. handler'[h] = Idle /\ (\A g \in Handlers \ {h} : handler'[g] = handler[g])
    BY <1>5, ReturnAt DEF InitiateStkPush
  <2>4. \A q \in Payments : row[q].state \in PaymentTerminal
                              => row'[q].state \in PaymentTerminal
    BY <2>1, <2>2 DEF PaymentTerminal
  <2>5. \A g \in Handlers \ {h} : At(g)'
    BY <2>1, <2>3, <2>4, OthersKept
  <2>6. At(h)'
    BY <2>3 DEF At, Idle
  <2>7. ASSUME NEW q \in Payments \ {p} PROVE Agree(q)'
    BY <1>5, <2>1, <2>2 DEF InitiateStkPush, TypeOK, LocalInv, Agree, QueryResult
  <2>8. Agree(p)'
    <3>1. /\ stub'[p] = scenario
          /\ UNCHANGED <<delivered, received, lines>>
      BY <1>5, <2>1 DEF InitiateStkPush, TypeOK
    <3>2. Agree(p) /\ stub[p] = None /\ delivered[p] = 0 /\ p \notin received
      BY <2>1 DEF LocalInv, Agree
    <3>3. lines[p] = 0
      BY <2>1, <3>2 DEF Agree
    <3>4. delivered'[p] = 0 /\ 0 <= Len(Callbacks[scenario])
      BY <3>1, <3>2, CallbackResults
    <3> QED
      BY <2>2, <3>1, <3>2, <3>3, <3>4, NoneAssumption DEF Agree, PaymentTerminal
  <2> QED BY <2>5, <2>6, <2>7, <2>8 DEF LocalInv
<1>6. ASSUME NEW h \in Handlers, NEW p \in Payments, NEW i \in 1..2, ReceiveCallback(h, p, i)
      PROVE  LocalInv'
  <2> DEFINE result == Callbacks[stub[p]][i]
  <2>1. /\ stub[p] \in Scenarios /\ loop = None
        /\ i \in 1..Len(Callbacks[stub[p]]) /\ i <= delivered[p] + 1
        /\ UNCHANGED <<keys, stub, lines, outbox>>
        /\ received' = received \union {p}
        /\ delivered' = [delivered EXCEPT ![p] = IF i > @ THEN i ELSE @]
    BY <1>6 DEF ReceiveCallback, Starts, TryInsert, TypeOK
  <2>2. /\ result \in {"success", "failure"}
        /\ stub[p] = "immediate_failure" => result = "failure"
        /\ stub[p] # "immediate_failure" /\ i = Len(Callbacks[stub[p]]) => result = "success"
        /\ Len(Callbacks[stub[p]]) \in 0..2
    BY <2>1, CallbackResults
  <2>3. Agree(p) /\ row[p].state \notin {"absent", "pending"}
    BY <2>1, NoneAssumption DEF LocalInv, Agree
  <2>4. /\ \A g \in Handlers : At(g)'
        /\ \A q \in Payments \ {p} : row'[q] = row[q]
        /\ row'[p].state \in PaymentTerminal
        /\ result = "success" => row'[p].state = "paid"
        /\ row[p].state = "paid" => row'[p].state = "paid"
        /\ result = "failure" /\ row[p].state # "paid" => row'[p].state = "failed"
    <3>1. CASE Processed(p, result)
      <4>1. Settle(h, p, result)
        BY <1>6, <3>1 DEF ReceiveCallback
      <4> QED BY <2>1, <2>2, <4>1, SettleAt DEF PaymentTerminal
    <3>2. CASE ~Processed(p, result)
      <4>1. UNCHANGED <<row, handler, loop>>
        BY <1>6, <3>2 DEF ReceiveCallback
      <4>2. row[p].state \in PaymentTerminal /\ (result = "success" => row[p].state = "paid")
        BY <2>3, <3>2 DEF Processed, Agree
      <4> QED BY <4>1, <4>2 DEF LocalInv, At, PaymentTerminal
    <3> QED BY <3>1, <3>2
  <2>5. ASSUME NEW q \in Payments \ {p} PROVE Agree(q)'
    BY <2>1, <2>4 DEF TypeOK, LocalInv, Agree, QueryResult
  <2>6. Agree(p)'
    <3>1. /\ delivered'[p] \in 1..2
          /\ delivered'[p] = i \/ (delivered'[p] = delivered[p] /\ delivered[p] > 0)
      <4>1. delivered'[p] = IF i > delivered[p] THEN i ELSE delivered[p]
        BY <2>1 DEF TypeOK
      <4>2. i \in 1..2 /\ delivered[p] \in 0..2
        BY DEF TypeOK
      <4> QED BY <4>1, <4>2
    <3>2. row'[p].state = "paid" => stub[p] # "immediate_failure"
      BY <2>2, <2>3, <2>4 DEF Agree
    <3>3. stub[p] = "immediate_failure" => row'[p].state = "failed"
      BY <2>2, <2>3, <2>4 DEF Agree
    <3>4. stub[p] # "immediate_failure" /\ delivered'[p] = Len(Callbacks[stub[p]])
            => row'[p].state = "paid"
      BY <2>1, <2>2, <2>3, <2>4, <3>1, NoneAssumption DEF Agree, QueryResult
    <3>5. lines[p] \in {0, 1} /\ (lines[p] = 1 => row'[p].state = "paid")
      BY <2>3, <2>4 DEF Agree
    <3>6. delivered'[p] <= Len(Callbacks[stub[p]])
      BY <2>1, <2>3, <3>1, NoneAssumption DEF Agree
    <3> QED
      BY <2>1, <2>4, <3>2, <3>3, <3>4, <3>5, <3>6, NoneAssumption
      DEF Agree, QueryResult, PaymentTerminal
  <2> QED BY <2>4, <2>5, <2>6 DEF LocalInv
<1>7. ASSUME NEW h \in Handlers, NEW p \in Payments, ReconcilePayment(h, p) PROVE LocalInv'
  <2>1. loop = None /\ UNCHANGED <<row, stub, delivered, received, lines, outbox>>
    BY <1>7 DEF ReconcilePayment, Starts
  <2>2. /\ handler'[h].pc = "query" /\ handler'[h].payment = p /\ loop' = h
        /\ \A g \in Handlers \ {h} : handler'[g] = handler[g]
    BY <1>7, GotoAt DEF ReconcilePayment
  <2>3. (\A g \in Handlers \ {h} : At(g)') /\ At(h)'
    BY <2>1, <2>2, OthersKept DEF At
  <2> QED BY <1>1, <2>1, <2>3 DEF LocalInv
<1>8. ASSUME NEW h \in Handlers, ProcessOutbox(h) PROVE LocalInv'
  <2>1. loop = None /\ UNCHANGED <<row, stub, delivered, received, lines, outbox>>
    BY <1>8 DEF ProcessOutbox, Starts
  <2>2. /\ \/ handler'[h] = Idle
           \/ handler'[h].pc = "query" /\ handler'[h].payment \in Payments /\ loop' = h
        /\ \A g \in Handlers \ {h} : handler'[g] = handler[g]
    BY <1>8, TakeAt DEF ProcessOutbox
  <2>3. (\A g \in Handlers \ {h} : At(g)') /\ At(h)'
    BY <2>1, <2>2, OthersKept DEF At, Idle
  <2> QED BY <1>1, <2>1, <2>3 DEF LocalInv
<1>9. ASSUME NEW h \in Handlers, AppendLedger(h) PROVE LocalInv'
  <2> DEFINE p == handler[h].payment
  <2>1. /\ p \in Payments /\ row[p].state = "paid" /\ loop = h
        /\ UNCHANGED <<row, stub, delivered, received, outbox>>
    BY <1>9 DEF AppendLedger, LocalInv, At
  <2>2. /\ handler'[h].pc = "notify" /\ handler'[h].payment = p
        /\ \A g \in Handlers \ {h} : handler'[g] = handler[g]
    BY <1>9, <2>1, GotoAt DEF AppendLedger
  <2>3. (\A g \in Handlers \ {h} : At(g)') /\ At(h)'
    BY <2>1, <2>2, OthersKept DEF At, PaymentTerminal
  <2>4. lines'[p] = 1 /\ \A q \in Payments \ {p} : lines'[q] = lines[q]
    BY <1>9, <2>1 DEF AppendLedger, TypeOK, LocalInv, Agree
  <2>5. ASSUME NEW q \in Payments PROVE Agree(q)'
    BY <2>1, <2>4 DEF LocalInv, Agree, QueryResult
  <2> QED BY <2>3, <2>5 DEF LocalInv
<1>10. ASSUME NEW h \in Handlers, NotifyPos(h) PROVE LocalInv'
  <2>1. loop = h /\ UNCHANGED <<row, stub, delivered, received, lines, outbox, handler>>
    BY <1>10 DEF NotifyPos
  <2>2. At(h)'
    BY <1>10, <2>1 DEF NotifyPos, LocalInv, At
  <2>3. \A g \in Handlers \ {h} : At(g)'
    BY <2>1, OthersKept
  <2> QED BY <1>1, <2>1, <2>2, <2>3 DEF LocalInv
<1>11. ASSUME NEW h \in Handlers, handler[h].payment \in Payments,
              Finish(h, handler[h].payment), loop \in {h, None},
              row[handler[h].payment].state # "pending_reconciliation",
              UNCHANGED <<row, stub, delivered, received, lines, outbox>>
       PROVE  LocalInv'
  <2>1. /\ \/ handler'[h] = Idle
           \/ /\ handler'[h].pc = "mark" /\ handler'[h].payment = handler[h].payment
              /\ loop' = h
        /\ \A g \in Handlers \ {h} : handler'[g] = handler[g]
    BY <1>11, GotoAt, ReturnAt DEF Finish
  <2>2. (\A g \in Handlers \ {h} : At(g)') /\ At(h)'
    BY <1>11, <2>1, OthersKept DEF At, Idle
  <2> QED BY <1>1, <1>11, <2>2 DEF LocalInv
<1>12. ASSUME NEW h \in Handlers, Resume(h) PROVE LocalInv'
  BY <1>11, <1>12 DEF Resume, LocalInv, At, PaymentTerminal
<1>13. ASSUME NEW h \in Handlers, QueryTransactionStatus(h) PROVE LocalInv'
  <2> DEFINE p == handler[h].payment
  <2>1. /\ p \in Payments /\ loop = h
        /\ UNCHANGED <<keys, stub, delivered, received, lines, outbox>>
    BY <1>13 DEF QueryTransactionStatus, LocalInv, At
  <2>2. CASE row[p].state \in {"stk_sent", "pending_reconciliation"}
    <3>1. Settle(h, p, QueryResult(p))
      BY <1>13, <2>2 DEF QueryTransactionStatus
    <3>2. /\ QueryResult(p) \in {"success", "failure"}
          /\ stub[p] = "immediate_failure" <=> QueryResult(p) = "failure"
      BY DEF QueryResult
    <3>3. \A g \in Handlers : At(g)'
      BY <2>1, <3>1, <3>2, SettleAt
    <3>4. \A q \in Payments : Agree(q)'
      BY <2>1, <2>2, <3>1, <3>2, SettleAgree
    <3> QED BY <3>3, <3>4 DEF LocalInv
  <2>3. CASE row[p].state \notin {"stk_sent", "pending_reconciliation"}
    BY <1>11, <1>13, <2>1, <2>3 DEF QueryTransactionStatus
  <2> QED BY <2>2, <2>3
<1>14. ASSUME NEW h \in Handlers, MarkPublished(h) PROVE LocalInv'
  <2> DEFINE p == handler[h].payment
  <2>1. /\ p \in Payments /\ row[p].state # "pending_reconciliation" /\ loop = h
        /\ UNCHANGED <<row, stub, delivered, received, lines>>
    BY <1>14 DEF MarkPublished, LocalInv, At
  <2>2. handler[h].todo \ {p} \in SUBSET Payments
    BY DEF TypeOK, Handler
  <2>3. /\ \/ handler'[h] = Idle
           \/ handler'[h].pc = "query" /\ handler'[h].payment \in Payments /\ loop' = h
        /\ \A g \in Handlers \ {h} : handler'[g] = handler[g]
    BY <1>14, <2>2, TakeAt DEF MarkPublished
  <2>4. (\A g \in Handlers \ {h} : At(g)') /\ At(h)'
    BY <2>1, <2>3, OthersKept DEF At, Idle
  <2>5. \A q \in Payments \ {p} : outbox'[q] = outbox[q]
    BY <1>14 DEF MarkPublished, TypeOK
  <2>6. ASSUME NEW q \in Payments PROVE Agree(q)'
    BY <2>1, <2>5 DEF LocalInv, Agree, QueryResult
  <2> QED BY <2>4, <2>6 DEF LocalInv
<1>15. CASE UNCHANGED vars
  BY <1>1, <1>15 DEF vars, LocalInv, At
<1> QED
  BY <1>2, <1>3, <1>4, <1>5, <1>6, <1>7, <1>8, <1>9, <1>10, <1>12, <1>13, <1>14, <1>15
  DEF Next, HandlerStep

LEMMA LocalInvariant == Spec => []LocalInv
<1>1. Init => LocalInv
  BY NoneAssumption DEF Init, Idle, LocalInv, At, Agree, PaymentTerminal
<1> QED BY <1>1, LocalInvStep, TypeCorrect, PTL DEF Spec

\* Whatever order repeated and reordered callbacks, queries and drains come in, the outcome
\* of the fake arrives and a timed-out push stays queued until it is settled.
THEOREM OutcomeAlwaysArrives == Spec => []OutcomeArrives
<1>1. LocalInv => OutcomeArrives
  BY DEF LocalInv, Agree, OutcomeArrives
<1> QED BY <1>1, LocalInvariant, PTL

-------------------------------------------------------------------------------
(* The refinement of PaymentLifecycle *)

\* A step on one row is a step of PaymentLifecycle.
LEMMA RowStep ==
  ASSUME TypeOK, TypeOK', NEW p \in Payments, UNCHANGED lines,
         \A q \in Payments \ {p} : row'[q] = row[q],
         \/ row'[p].state = row[p].state
         \/ row[p].state = "absent" /\ row'[p].state = "pending"
         \/ row[p].state # "absent" /\ row'[p].state \in PaymentTransitions(row[p].state)
  PROVE  [Lifecycle!Next]_<<[q \in Payments |-> row[q].state], lines>>
<1> DEFINE state == [q \in Payments |-> row[q].state]
<1>1. [q \in Payments |-> row'[q].state] = [state EXCEPT ![p] = row'[p].state]
  OBVIOUS
<1>2. CASE row'[p].state = row[p].state
  BY <1>1, <1>2
<1>3. CASE row[p].state = "absent" /\ row'[p].state = "pending"
  <2>1. Lifecycle!Open(p)
    BY <1>1, <1>3 DEF Lifecycle!Open
  <2> QED BY <2>1 DEF Lifecycle!Next
<1>4. CASE row[p].state # "absent" /\ row'[p].state \in PaymentTransitions(row[p].state)
  <2>1. Lifecycle!Advance(p)
    BY <1>1, <1>4
    DEF Lifecycle!Advance, Lifecycle!PaymentTransitions, PaymentTransitions
  <2> QED BY <2>1 DEF Lifecycle!Next
<1> QED BY <1>2, <1>3, <1>4

\* Settling keeps to the transition table.
LEMMA SettleStep ==
  ASSUME TypeOK, TypeOK', LocalInv, NEW h \in Handlers, loop \in {h, None},
         NEW p \in Payments, NEW result \in {"success", "failure"}, Settle(h, p, result),
         row[p].state \notin {"absent", "pending"}, UNCHANGED lines
  PROVE  [Lifecycle!Next]_<<[q \in Payments |-> row[q].state], lines>>
<1>1. row[p].state \in {"stk_sent", "pending_reconciliation", "paid", "failed"}
  BY DEF TypeOK, Row, RowStates, PaymentStates
<1>2. \/ row'[p].state = row[p].state
      \/ row'[p].state \in PaymentTransitions(row[p].state)
  BY <1>1, SettleAt DEF PaymentTransitions
<1> QED BY <1>2, RowStep, SettleAt

\* Payments as it runs locally implements PaymentLifecycle, for any number of concurrent
\* requests, callbacks, queries and drains.
THEOREM LocalRefinesLifecycle == Spec => RefinesLifecycle
<1>1. Init => Lifecycle!Init
  BY DEF Init, Lifecycle!Init
<1>2. TypeOK /\ TypeOK' /\ LocalInv /\ [Next]_vars
        => [Lifecycle!Next]_<<[p \in Payments |-> row[p].state], lines>>
  <2> SUFFICES ASSUME TypeOK, TypeOK', LocalInv, [Next]_vars
               PROVE  [Lifecycle!Next]_<<[q \in Payments |-> row[q].state], lines>>
    OBVIOUS
  <2>1. CASE UNCHANGED <<row, lines>>
    BY <2>1
  <2>2. ASSUME NEW h \in Handlers, NEW p \in Payments, NEW k \in Keys, Save(h, p, k)
        PROVE  [Lifecycle!Next]_<<[q \in Payments |-> row[q].state], lines>>
    <3>1. /\ row[p].state = "absent" /\ row'[p].state = "pending"
          /\ \A q \in Payments \ {p} : row'[q] = row[q]
          /\ UNCHANGED lines
      BY <2>2 DEF Save, Known, TypeOK
    <3> QED BY <3>1, RowStep
  <2>3. ASSUME NEW h \in Handlers, NEW scenario \in Scenarios, InitiateStkPush(h, scenario)
        PROVE  [Lifecycle!Next]_<<[q \in Payments |-> row[q].state], lines>>
    <3>1. PICK p \in Payments : p = handler[h].payment /\ row[p].state = "pending"
      BY <2>3 DEF InitiateStkPush, LocalInv, At
    <3>2. /\ row'[p].state \in {"stk_sent", "pending_reconciliation"}
          /\ \A q \in Payments \ {p} : row'[q] = row[q]
          /\ UNCHANGED lines
      BY <2>3, <3>1, UpdateAt DEF InitiateStkPush
    <3> QED BY <3>1, <3>2, RowStep DEF PaymentTransitions
  <2>4. ASSUME NEW h \in Handlers, AppendLedger(h)
        PROVE  [Lifecycle!Next]_<<[q \in Payments |-> row[q].state], lines>>
    <3>1. PICK p \in Payments : p = handler[h].payment /\ row[p].state = "paid"
      BY <2>4 DEF AppendLedger, LocalInv, At
    <3>2. /\ UNCHANGED row
          /\ lines[p] = 0 => lines' = [lines EXCEPT ![p] = 1]
          /\ lines[p] # 0 => lines' = lines
      <4>1. /\ UNCHANGED row
            /\ lines' = IF lines[p] = 0 THEN [lines EXCEPT ![p] = lines[p] + 1] ELSE lines
        BY <2>4, <3>1 DEF AppendLedger
      <4>2. lines[p] = 0 => lines[p] + 1 = 1
        OBVIOUS
      <4> QED BY <4>1, <4>2
    <3>3. CASE lines[p] = 0
      <4>1. Lifecycle!Book(p)
        BY <3>1, <3>2, <3>3 DEF Lifecycle!Book
      <4> QED BY <4>1 DEF Lifecycle!Next
    <3> QED BY <3>2, <3>3
  <2>5. ASSUME NEW h \in Handlers, NEW p \in Payments, NEW i \in 1..2, ReceiveCallback(h, p, i)
        PROVE  [Lifecycle!Next]_<<[q \in Payments |-> row[q].state], lines>>
    <3> DEFINE result == Callbacks[stub[p]][i]
    <3>1. /\ stub[p] \in Scenarios /\ i \in 1..Len(Callbacks[stub[p]]) /\ loop = None
          /\ row[p].state \notin {"absent", "pending"} /\ UNCHANGED lines
      BY <2>5 DEF ReceiveCallback, Starts, TypeOK, LocalInv, Agree
    <3>2. CASE Processed(p, result)
      BY <2>5, <3>1, <3>2, CallbackResults, SettleStep DEF ReceiveCallback
    <3>3. CASE ~Processed(p, result)
      BY <2>5, <3>3, <2>1 DEF ReceiveCallback
    <3> QED BY <3>2, <3>3
  <2>6. ASSUME NEW h \in Handlers, QueryTransactionStatus(h)
        PROVE  [Lifecycle!Next]_<<[q \in Payments |-> row[q].state], lines>>
    <3>1. PICK p \in Payments : p = handler[h].payment /\ loop = h
      BY <2>6 DEF QueryTransactionStatus, LocalInv, At
    <3>2. CASE row[p].state \in {"stk_sent", "pending_reconciliation"}
      <4>1. Settle(h, p, QueryResult(p)) /\ UNCHANGED lines
        BY <2>6, <3>1, <3>2 DEF QueryTransactionStatus
      <4>2. QueryResult(p) \in {"success", "failure"}
        BY DEF QueryResult
      <4> QED BY <3>1, <3>2, <4>1, <4>2, SettleStep
    <3>3. CASE row[p].state \notin {"stk_sent", "pending_reconciliation"}
      BY <2>6, <3>1, <3>3, <2>1 DEF QueryTransactionStatus
    <3> QED BY <3>2, <3>3
  <2> QED
    BY <2>1, <2>2, <2>3, <2>4, <2>5, <2>6
    DEF Next, HandlerStep, RefuseRequest, AnswerExisting, ReconcilePayment, ProcessOutbox,
        NotifyPos, Resume, MarkPublished, vars
<1>3. Spec => [][Lifecycle!Next]_<<[p \in Payments |-> row[p].state], lines>>
  BY <1>2, TypeCorrect, LocalInvariant, PTL DEF Spec
<1>4. Spec => Lifecycle!Init
  BY <1>1, PTL DEF Spec
<1> QED
  BY <1>3, <1>4, PTL DEF RefinesLifecycle, Lifecycle!Spec

===============================================================================
