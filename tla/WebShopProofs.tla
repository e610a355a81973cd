----------------------------- MODULE WebShopProofs -----------------------------
(***************************************************************************)
(* Machine-checked safety of PosDirectory and WebShop for any number of    *)
(* submissions, shops, tabs, expired cookies and lost commits.             *)
(***************************************************************************)
EXTENDS WebShop, TLAPS

\* A submission whose shop is fixed: its requests may be sent.
Sent(f) == form[f].pc \in {"waiting", "answering", "done"} /\ form[f].shop \in Shop

\* A request that was sent has a shop, and the request to pay a sale has the sale.
Called(f) ==
  /\ form[f].pc \in {"loading", "open"} => form[f].kind \in Kinds
  /\ form[f].pc = "waiting" => form[f].shop \in Shop /\ form[f].op \in Ops
  /\ \A op \in Ops : <<f, op>> \in calls \union uncommitted => Sent(f)
  /\ form[f].pc = "waiting" /\ form[f].op = "pay" => form[f].sale \in Ids
  /\ <<f, "pay">> \in calls => form[f].sale \in Ids

TypeInv == TypeOK /\ \A f \in Ids : Called(f)

\* A step that changes the form f alone, to a form of the right type.
LEMMA FormType ==
  ASSUME TypeOK, NEW f \in Ids, NEW new \in FormState, form' = [form EXCEPT ![f] = new]
  PROVE  /\ form' \in [Ids -> FormState]
         /\ form'[f] = new
         /\ \A g \in Ids \ {f} : form'[g] = form[g]
  BY DEF TypeOK

LEMMA NewShopType ==
  ASSUME NEW f \in Ids
  PROVE  NewShop(f) \in Shop
  BY DEF NewShop, Shop, UserIds

-------------------------------------------------------------------------------
(* Types *)

\* The tables keep their type in every request of POS.
LEMMA DirectoryType ==
  ASSUME DirectoryTypeOK,
         \/ \E id \in Ids : CreateTenant(id)
         \/ \E tenant, id \in Ids : CreateTill(tenant, id) \/ CreateAttendant(tenant, id)
         \/ \E tenant \in Ids, attendant \in UserIds : CreateCommissionRate(tenant, attendant)
         \/ \E id, tenant, till \in Ids, attendant \in UserIds :
              CreateSale(id, tenant, till, attendant)
         \/ \E tenant, s \in Ids : AskPayments(tenant, s)
         \/ UNCHANGED directory
  PROVE  DirectoryTypeOK'
<1> USE DEF DirectoryTypeOK
<1>1. ASSUME NEW id \in Ids, CreateTenant(id) PROVE DirectoryTypeOK'
  BY <1>1 DEF CreateTenant
<1>2. ASSUME NEW tenant \in Ids, NEW id \in Ids, CreateTill(tenant, id) PROVE DirectoryTypeOK'
  BY <1>2 DEF CreateTill
<1>3. ASSUME NEW tenant \in Ids, NEW id \in Ids, CreateAttendant(tenant, id)
      PROVE  DirectoryTypeOK'
  BY <1>3 DEF CreateAttendant
<1>4. ASSUME NEW tenant \in Ids, NEW attendant \in UserIds,
             CreateCommissionRate(tenant, attendant)
      PROVE  DirectoryTypeOK'
  BY <1>4 DEF CreateCommissionRate
<1>5. ASSUME NEW id \in Ids, NEW tenant \in Ids, NEW till \in Ids, NEW attendant \in UserIds,
             CreateSale(id, tenant, till, attendant)
      PROVE  DirectoryTypeOK'
  BY <1>5 DEF CreateSale, SaleRow
<1>6. ASSUME NEW tenant \in Ids, NEW s \in Ids, AskPayments(tenant, s) PROVE DirectoryTypeOK'
  BY <1>6 DEF AskPayments
<1>7. CASE UNCHANGED directory
  BY <1>7 DEF directory
<1> QED BY <1>1, <1>2, <1>3, <1>4, <1>5, <1>6, <1>7

\* A step that changes nothing of the other submissions.
LEMMA StepType ==
  ASSUME TypeInv, NEW f \in Ids, DirectoryTypeOK',
         form' \in [Ids -> FormState], \A g \in Ids \ {f} : form'[g] = form[g],
         csrf' \in Nat, minted' \in Nat, session' \in Shop \union {None},
         expiries' \in Nat,
         calls' \subseteq Ids \X Ops, uncommitted' \subseteq Ids \X Inserts,
         lost' \subseteq Ids \X Inserts,
         \A g \in Ids \ {f}, op \in Ops :
             /\ <<g, op>> \in calls' => <<g, op>> \in calls
             /\ <<g, op>> \in uncommitted' => <<g, op>> \in uncommitted,
         Called(f)'
  PROVE  TypeInv'
<1>1. ASSUME NEW g \in Ids \ {f} PROVE Called(g)'
  <2>1. Called(g) /\ "pay" \in Ops
    BY DEF TypeInv, Ops
  <2> QED BY <2>1 DEF Called, Sent
<1> QED BY <1>1 DEF TypeInv, TypeOK

\* A step of the browser or a handler that changes one form and sends no call.
LEMMA BrowserType ==
  ASSUME TypeInv, NEW f \in Ids, NEW new \in FormState,
         form' = [form EXCEPT ![f] = new], UNCHANGED <<directory, calls, transactions>>,
         csrf' \in Nat, minted' \in Nat, session' \in Shop \union {None},
         expiries' \in Nat,
         new.pc # "waiting", new.shop = form[f].shop, new.sale = form[f].sale,
         new.pc \in {"loading", "open"} =>
           new.kind \in Kinds /\ form[f].pc \in {"new", "loading", "open"},
         new.pc # "new"
  PROVE  TypeInv'
<1>1. /\ form' \in [Ids -> FormState] /\ form'[f] = new
      /\ \A g \in Ids \ {f} : form'[g] = form[g]
  BY FormType DEF TypeInv
<1>2. Called(f) /\ new.pc \in {"loading", "open", "answering", "done"}
  BY DEF TypeInv, FormState
<1>3. Called(f)'
  BY <1>1, <1>2 DEF Called, Sent, transactions
<1>4. DirectoryTypeOK'
  BY DirectoryType DEF TypeInv, TypeOK
<1> QED BY <1>1, <1>3, <1>4, StepType DEF TypeInv, TypeOK, transactions

\* The handler goes on after a call.
LEMMA ProceedType ==
  ASSUME TypeInv, NEW f \in Ids, form[f].pc = "waiting", NEW sale, NEW rest,
         rest \subseteq calls, Proceed(f, sale, rest),
         sale = form[f].sale \/ sale \in Ids, form[f].op = "sales" => sale \in Ids
  PROVE  /\ form' \in [Ids -> FormState] /\ \A g \in Ids \ {f} : form'[g] = form[g]
         /\ form'[f].pc = IF NextOp[form[f].op] = "end" THEN "answering" ELSE "waiting"
         /\ form'[f].op = NextOp[form[f].op] /\ form'[f].sale = sale
         /\ form'[f].shop = form[f].shop /\ form'[f].kind = form[f].kind
         /\ calls' \subseteq Ids \X Ops
         /\ \A g \in Ids \ {f}, op \in Ops : <<g, op>> \in calls' => <<g, op>> \in calls
         /\ <<f, "pay">> \in calls' => sale \in Ids
         /\ form'[f].op = "pay" => sale \in Ids
         /\ form'[f].pc = "waiting" => form'[f].op \in Ops
         /\ Sent(f)'
<1> DEFINE op == NextOp[form[f].op]
           pc == IF op = "end" THEN "answering" ELSE "waiting"
           new == [form[f] EXCEPT !.pc = pc, !.op = op, !.sale = sale]
<1>1. form[f] \in FormState /\ Called(f) /\ form[f].op \in Ops /\ form[f].shop \in Shop
  BY DEF TypeInv, TypeOK, Called
<1>2. op \in Ops \union {"end"} /\ (op = "pay" => form[f].op = "sales")
  BY <1>1 DEF NextOp, Ops, Inserts
<1>3. sale \in Ids \union {None} /\ pc \in {"waiting", "answering"}
  BY <1>1 DEF FormState
<1> HIDE DEF op, pc
<1>4. new \in FormState
  BY <1>1, <1>2, <1>3 DEF FormState
<1>5. form' = [form EXCEPT ![f] = new]
  BY <1>1 DEF Proceed, TypeInv, TypeOK, FormState, op, pc
<1>6. /\ new.pc = pc /\ new.op = op /\ new.sale = sale
      /\ new.shop = form[f].shop /\ new.kind = form[f].kind
  BY <1>1 DEF FormState
<1> HIDE DEF new
<1>7. /\ form' \in [Ids -> FormState] /\ form'[f] = new
      /\ \A g \in Ids \ {f} : form'[g] = form[g]
  BY <1>4, <1>5, FormType DEF TypeInv
<1>8. calls' = IF op = "end" THEN rest ELSE rest \union {<<f, op>>}
  BY DEF Proceed, op
<1>9. calls' \subseteq Ids \X Ops
  BY <1>2, <1>8 DEF TypeInv, TypeOK
<1>10. \A g \in Ids \ {f}, o \in Ops : <<g, o>> \in calls' => <<g, o>> \in calls
  BY <1>8
<1>11. <<f, "pay">> \in calls' => sale \in Ids
  BY <1>1, <1>2, <1>8 DEF Called
<1>12. op = "pay" => sale \in Ids
  BY <1>2
<1> QED
  BY <1>1, <1>2, <1>3, <1>6, <1>7, <1>9, <1>10, <1>11, <1>12 DEF Sent, op, pc

\* A reply.
LEMMA ReplyType ==
  ASSUME TypeInv, NEW f \in Ids, NEW op \in Ops, <<f, op>> \in calls, NEW sale,
         Reply(f, op, sale), sale = form[f].sale \/ sale \in Ids, op = "sales" => sale \in Ids,
         DirectoryTypeOK', lost' = lost,
         \/ uncommitted' = uncommitted
         \/ op \in Inserts /\ uncommitted' = uncommitted \union {<<f, op>>}
  PROVE  TypeInv'
<1>1. Called(f) /\ Sent(f)
  BY DEF TypeInv, Called
<1>2. /\ csrf' \in Nat /\ minted' \in Nat /\ session' \in Shop \union {None}
      /\ expiries' \in Nat /\ lost' \subseteq Ids \X Inserts
  BY DEF Reply, browser, TypeInv, TypeOK
<1>3. /\ uncommitted' \subseteq Ids \X Inserts
      /\ \A g \in Ids \ {f}, o \in Ops : <<g, o>> \in uncommitted' => <<g, o>> \in uncommitted
  BY DEF TypeInv, TypeOK
<1>4. CASE /\ form[f].pc = "waiting" /\ form[f].op = op
           /\ Proceed(f, sale, calls \ {<<f, op>>})
  <2>1. calls \ {<<f, op>>} \subseteq calls
    OBVIOUS
  <2>2. /\ form' \in [Ids -> FormState] /\ \A g \in Ids \ {f} : form'[g] = form[g]
        /\ form'[f].pc \in {"waiting", "answering"} /\ form'[f].sale = sale
        /\ calls' \subseteq Ids \X Ops
        /\ \A g \in Ids \ {f}, o \in Ops : <<g, o>> \in calls' => <<g, o>> \in calls
        /\ <<f, "pay">> \in calls' => sale \in Ids
        /\ form'[f].op = "pay" => sale \in Ids
        /\ form'[f].pc = "waiting" => form'[f].op \in Ops
        /\ Sent(f)'
    BY <1>4, <2>1, ProceedType
  <2>3. Called(f)'
    BY <2>2 DEF Called, Sent
  <2> QED BY <1>2, <1>3, <2>2, <2>3, StepType
<1>5. CASE UNCHANGED form /\ calls' = calls \ {<<f, op>>}
  <2>1. Called(f)'
    BY <1>1, <1>5 DEF Called, Sent
  <2>2. form' \in [Ids -> FormState] /\ calls' \subseteq Ids \X Ops
    BY <1>5 DEF TypeInv, TypeOK
  <2> QED BY <1>2, <1>3, <1>5, <2>1, <2>2, StepType
<1> QED BY <1>4, <1>5 DEF Reply

LEMMA TypeInvStep ==
  ASSUME TypeInv, [Next]_vars
  PROVE  TypeInv'
<1> USE DEF browser, transactions
<1>0. ASSUME NEW f \in Ids
      PROVE  /\ form[f] \in FormState /\ Called(f)
             /\ csrf \in Nat /\ minted \in Nat /\ minted + 1 \in Nat
             /\ session \in Shop \union {None} /\ expiries \in Nat
  BY DEF TypeInv, TypeOK
<1>1. ASSUME NEW f \in Ids, NEW kind \in Kinds, Render(f, kind),
             form[f].pc \in {"new", "open"}
      PROVE  TypeInv'
  <2> DEFINE new == [form[f] EXCEPT !.pc = "loading", !.kind = kind, !.token = PageToken,
                                    !.fresh = (csrf = 0)]
  <2>0. PageToken \in Nat /\ (csrf = 0) \in BOOLEAN
    BY <1>0 DEF PageToken
  <2>1. new \in FormState
    BY <1>0, <2>0 DEF FormState
  <2>2. form' = [form EXCEPT ![f] = new]
    BY <1>0, <1>1 DEF Render, TypeInv, TypeOK, FormState
  <2>3. /\ new.pc = "loading" /\ new.kind = kind
        /\ new.shop = form[f].shop /\ new.sale = form[f].sale
    BY <1>0 DEF FormState
  <2> HIDE DEF new
  <2> QED BY <1>0, <1>1, <2>1, <2>2, <2>3, BrowserType DEF Render
<1>2. ASSUME NEW f \in Ids, NEW kind \in Kinds, OpenPage(f, kind) PROVE TypeInv'
  BY <1>1, <1>2 DEF OpenPage
<1>3. ASSUME NEW f \in Ids, Refuse(f) PROVE TypeInv'
  <2>1. form[f].kind \in Kinds
    BY <1>0, <1>3 DEF Refuse, Called
  <2> QED BY <1>1, <1>3, <2>1 DEF Refuse
<1>4. ASSUME NEW f \in Ids, PageArrives(f) PROVE TypeInv'
  <2> DEFINE new == [form[f] EXCEPT !.pc = "open", !.fresh = FALSE]
  <2>1. new \in FormState /\ form[f].token \in Nat
    BY <1>0 DEF FormState
  <2>2. form' = [form EXCEPT ![f] = new]
    BY <1>0, <1>4 DEF PageArrives, TypeInv, TypeOK, FormState
  <2>3. /\ new.pc = "open" /\ new.kind \in Kinds /\ form[f].pc = "loading"
        /\ new.shop = form[f].shop /\ new.sale = form[f].sale
    BY <1>0, <1>4 DEF FormState, PageArrives, Called
  <2> HIDE DEF new
  <2> QED BY <1>0, <1>4, <2>1, <2>2, <2>3, BrowserType DEF PageArrives
<1>5. ASSUME NEW f \in Ids, NEW pc \in {"answering", "done"},
             \/ form' = [form EXCEPT ![f].pc = pc]
             \/ form' = [form EXCEPT ![f].pc = pc, ![f].token = 0]
             \/ form' = [form EXCEPT ![f].pc = pc, ![f].op = "end"],
             UNCHANGED <<directory, csrf, minted, expiries, calls, transactions>>,
             session' \in Shop \union {None}
      PROVE  TypeInv'
  <2>1. PICK token \in Nat, op \in Ops \union {"end"} :
          form' = [form EXCEPT ![f].pc = pc, ![f].token = token, ![f].op = op]
    <3>1. /\ form \in [Ids -> FormState] /\ form[f].token \in Nat
          /\ form[f].op \in Ops \union {"end"}
      BY <1>0 DEF TypeInv, TypeOK, FormState
    <3>2. CASE form' = [form EXCEPT ![f].pc = pc]
      <4>1. form' = [form EXCEPT ![f].pc = pc, ![f].token = form[f].token, ![f].op = form[f].op]
        BY <1>0, <3>1, <3>2 DEF FormState
      <4> QED BY <3>1, <4>1
    <3>3. CASE form' = [form EXCEPT ![f].pc = pc, ![f].token = 0]
      <4>1. form' = [form EXCEPT ![f].pc = pc, ![f].token = 0, ![f].op = form[f].op]
        BY <1>0, <3>1, <3>3 DEF FormState
      <4> QED BY <3>1, <4>1
    <3>4. CASE form' = [form EXCEPT ![f].pc = pc, ![f].op = "end"]
      <4>1. form' = [form EXCEPT ![f].pc = pc, ![f].token = form[f].token, ![f].op = "end"]
        BY <1>0, <3>1, <3>4 DEF FormState
      <4> QED BY <3>1, <4>1
    <3> QED BY <1>5, <3>2, <3>3, <3>4
  <2> DEFINE new == [form[f] EXCEPT !.pc = pc, !.token = token, !.op = op]
  <2>2. new \in FormState
    BY <1>0, <1>5 DEF FormState
  <2>3. form' = [form EXCEPT ![f] = new]
    BY <1>0, <2>1 DEF TypeInv, TypeOK, FormState
  <2>4. new.pc = pc /\ new.shop = form[f].shop /\ new.sale = form[f].sale
    BY <1>0 DEF FormState
  <2> HIDE DEF new
  <2> QED BY <1>0, <1>5, <2>2, <2>3, <2>4, BrowserType
<1>6. ASSUME NEW f \in Ids, Submit(f) PROVE TypeInv'
  <2> DEFINE op == FirstOp[form[f].kind]
             shop == IF form[f].kind = "setup" THEN NewShop(f) ELSE session
             new == [form[f] EXCEPT !.pc = "waiting", !.token = 0, !.op = op, !.shop = shop]
  <2>1. op \in Ops \ {"pay"}
    BY <1>6 DEF Submit, FirstOp, Ops, Inserts
  <2>2. shop \in Shop
    BY <1>0, <1>6, NewShopType DEF Submit
  <2>3. new \in FormState
    BY <1>0, <2>1, <2>2 DEF FormState
  <2>4. form' = [form EXCEPT ![f] = new]
    BY <1>0, <1>6 DEF Submit, TypeInv, TypeOK, FormState
  <2>5. new.pc = "waiting" /\ new.shop = shop /\ new.op = op /\ new.sale = form[f].sale
    BY <1>0 DEF FormState
  <2>6. /\ calls' = calls \union {<<f, op>>} /\ form[f].pc = "open"
        /\ UNCHANGED <<directory, browser, transactions>>
    BY <1>6 DEF Submit
  <2> HIDE DEF new, op, shop
  <2>7. /\ form' \in [Ids -> FormState] /\ form'[f] = new
        /\ \A g \in Ids \ {f} : form'[g] = form[g]
    BY <2>3, <2>4, FormType DEF TypeInv
  <2>8. Called(f)'
    BY <1>0, <2>1, <2>2, <2>5, <2>6, <2>7 DEF Called, Sent
  <2>9. DirectoryTypeOK'
    BY <2>6, DirectoryType DEF TypeInv, TypeOK
  <2>10. calls' \subseteq Ids \X Ops /\ \A g \in Ids \ {f}, o \in Ops :
           <<g, o>> \in calls' => <<g, o>> \in calls
    BY <2>1, <2>6 DEF TypeInv, TypeOK
  <2> QED BY <1>0, <2>6, <2>7, <2>8, <2>9, <2>10, StepType DEF TypeInv, TypeOK
<1>7. ASSUME NEW f \in Ids, NoSession(f) \/ SubmitReset(f) \/ SubmitCommission(f)
                            \/ Answer(f) \/ AnswerLost(f)
      PROVE  TypeInv'
  <2>1. CASE Answer(f)
    <3>1. form[f].shop \in Shop \union {None} /\ session \in Shop \union {None}
      BY <1>0 DEF FormState
    <3>2. form[f].kind = "setup" => session' = form[f].shop
      BY <2>1 DEF Answer
    <3>3. form[f].kind # "setup" => session' \in {session, None}
      BY <2>1 DEF Answer
    <3>4. session' \in Shop \union {None}
      BY <3>1, <3>2, <3>3
    <3> QED BY <1>5, <2>1, <3>4 DEF Answer
  <2>2. CASE NoSession(f) \/ AnswerLost(f)
    BY <1>0, <1>5, <2>2 DEF NoSession, AnswerLost
  <2>3. CASE SubmitReset(f)
    BY <1>0, <1>5, <2>3 DEF SubmitReset
  <2>4. CASE SubmitCommission(f)
    BY <1>0, <1>5, <2>4 DEF SubmitCommission
  <2> QED BY <1>7, <2>1, <2>2, <2>3, <2>4
<1>8. ASSUME NEW f \in Ids, Fail(f) PROVE TypeInv'
  <2>1. CASE form[f].op \in Suppressed
    <3>1. /\ Proceed(f, form[f].sale, calls) /\ form[f].pc = "waiting"
          /\ UNCHANGED <<directory, browser, transactions>>
      BY <1>8, <2>1 DEF Fail
    <3>2. form[f].op # "sales"
      BY <2>1 DEF Suppressed
    <3>3. /\ form' \in [Ids -> FormState] /\ \A g \in Ids \ {f} : form'[g] = form[g]
          /\ form'[f].pc \in {"waiting", "answering"} /\ form'[f].sale = form[f].sale
          /\ calls' \subseteq Ids \X Ops
          /\ \A g \in Ids \ {f}, o \in Ops : <<g, o>> \in calls' => <<g, o>> \in calls
          /\ <<f, "pay">> \in calls' => form[f].sale \in Ids
          /\ form'[f].op = "pay" => form[f].sale \in Ids
          /\ form'[f].pc = "waiting" => form'[f].op \in Ops
          /\ Sent(f)'
      BY <3>1, <3>2, ProceedType
    <3>4. Called(f)'
      BY <3>3 DEF Called, Sent
    <3>5. DirectoryTypeOK'
      BY <3>1, DirectoryType DEF TypeInv, TypeOK
    <3> QED BY <1>0, <3>1, <3>3, <3>4, <3>5, StepType DEF TypeInv, TypeOK
  <2>2. CASE form[f].op \notin Suppressed
    BY <1>0, <1>5, <1>8, <2>2 DEF Fail
  <2> QED BY <2>1, <2>2
<1>9. ASSUME NEW f \in Ids, NEW shop \in Shop, NEW sale \in Ids \union {None},
             NEW op \in Ops, ApiCall(f, op, shop, sale), op = "pay" => sale \in Ids
      PROVE  TypeInv'
  <2> DEFINE new == [form[f] EXCEPT !.pc = "done", !.kind = "api", !.shop = shop, !.sale = sale]
  <2>1. new \in FormState
    BY <1>0 DEF FormState
  <2>2. form' = [form EXCEPT ![f] = new]
    BY <1>0, <1>9 DEF ApiCall, TypeInv, TypeOK, FormState
  <2>3. new.pc = "done" /\ new.shop = shop /\ new.sale = sale
    BY <1>0 DEF FormState
  <2>4. /\ UNCHANGED <<directory, browser, transactions>> /\ form[f].pc = "new"
        /\ calls' = calls \union {<<f, op>>}
    BY <1>9 DEF ApiCall
  <2> HIDE DEF new
  <2>5. /\ form' \in [Ids -> FormState] /\ form'[f] = new
        /\ \A g \in Ids \ {f} : form'[g] = form[g]
    BY <2>1, <2>2, FormType DEF TypeInv
  <2>6. <<f, "pay">> \notin calls
    BY <1>0, <2>4 DEF Called, Sent, Ops
  <2>7. Called(f)'
    BY <1>0, <1>9, <2>3, <2>4, <2>5, <2>6 DEF Called, Sent
  <2>8. DirectoryTypeOK'
    BY <2>4, DirectoryType DEF TypeInv, TypeOK
  <2>9. calls' \subseteq Ids \X Ops /\ \A g \in Ids \ {f}, o \in Ops :
           <<g, o>> \in calls' => <<g, o>> \in calls
    BY <2>4 DEF TypeInv, TypeOK
  <2> QED BY <1>0, <2>4, <2>5, <2>7, <2>8, <2>9, StepType DEF TypeInv, TypeOK
<1>10. ASSUME NEW f \in Ids, ApiRequest(f) PROVE TypeInv'
  <2>1. tenants \subseteq Ids
    BY DEF TypeInv, TypeOK, DirectoryTypeOK
  <2>2. PICK tenant \in tenants :
          LET shop == [NewShop(f) EXCEPT !.tenant = tenant] IN
            \/ \E op \in {"tills", "attendants"} : ApiCall(f, op, shop, None)
            \/ \E u \in {v \in UserIds : users[v] # None} :
                 \/ ApiCall(f, "rates", [shop EXCEPT !.attendant = u], None)
                 \/ \E t \in {x \in Ids : tills[x] # None} :
                      ApiCall(f, "sales", [shop EXCEPT !.attendant = u, !.till = t], None)
            \/ \E s \in {x \in Ids : sales[x] # None} : ApiCall(f, "pay", shop, s)
    BY <1>10 DEF ApiRequest
  <2> DEFINE shop == [NewShop(f) EXCEPT !.tenant = tenant]
  <2>3. shop \in Shop
    BY <2>1, NewShopType DEF Shop
  <2>4. \A u \in UserIds :
          /\ [shop EXCEPT !.attendant = u] \in Shop
          /\ \A t \in Ids : [shop EXCEPT !.attendant = u, !.till = t] \in Shop
    BY <2>3 DEF Shop
  <2> HIDE DEF shop
  <2>5. CASE \E op \in {"tills", "attendants"} : ApiCall(f, op, shop, None)
    BY <1>9, <2>3, <2>5 DEF Ops, Inserts
  <2>6. ASSUME NEW u \in UserIds, ApiCall(f, "rates", [shop EXCEPT !.attendant = u], None)
        PROVE  TypeInv'
    <3> DEFINE given == [shop EXCEPT !.attendant = u]
    <3>1. given \in Shop /\ ApiCall(f, "rates", given, None)
      BY <2>4, <2>6
    <3>2. "rates" \in Ops
      BY DEF Ops, Inserts
    <3> HIDE DEF given
    <3> QED BY <1>9, <3>1, <3>2
  <2>8. ASSUME NEW u \in UserIds, NEW t \in Ids,
               ApiCall(f, "sales", [shop EXCEPT !.attendant = u, !.till = t], None)
        PROVE  TypeInv'
    <3> DEFINE given == [shop EXCEPT !.attendant = u, !.till = t]
    <3>1. given \in Shop /\ ApiCall(f, "sales", given, None)
      BY <2>4, <2>8
    <3> HIDE DEF given
    <3>2. "sales" \in Ops
      BY DEF Ops, Inserts
    <3> QED BY <1>9, <3>1, <3>2
  <2>7. CASE \E s \in Ids : ApiCall(f, "pay", shop, s)
    BY <1>9, <2>3, <2>7 DEF Ops, Inserts
  <2> QED BY <2>2, <2>5, <2>6, <2>7, <2>8 DEF shop
<1>11. ASSUME NEW f \in Ids, NEW op \in Ops, Serve(f, op) PROVE TypeInv'
  <2>1. <<f, op>> \in calls /\ Sent(f) /\ (op = "pay" => form[f].sale \in Ids)
    BY <1>0, <1>11 DEF Serve, Called
  <2>2. CASE ServeInsert(f, op)
    <3>1. DirectoryTypeOK'
      BY <2>2, DirectoryType DEF ServeInsert, TypeInv, TypeOK
    <3> QED BY <2>1, <2>2, <3>1, ReplyType DEF ServeInsert
  <2>3. CASE op = "pay" /\ ServePay(f)
    <3>1. form[f].shop.tenant \in Ids
      BY <2>1 DEF Sent, Shop
    <3>2. DirectoryTypeOK'
      BY <2>1, <2>3, <3>1, DirectoryType DEF ServePay, TypeInv, TypeOK
    <3> QED BY <2>1, <2>3, <3>2, ReplyType DEF ServePay
  <2> QED BY <1>11, <2>2, <2>3 DEF Serve
<1>12. ASSUME NEW f \in Ids, NEW op \in Inserts, Commit(f, op) PROVE TypeInv'
  <2>1. Sent(f) /\ op \in Ops
    BY <1>0, <1>12 DEF Commit, Called, Ops
  <2>2. /\ form[f].shop.tenant \in Ids /\ form[f].shop.till \in Ids
        /\ form[f].shop.attendant \in UserIds
    BY <2>1 DEF Sent, Shop
  <2>3. DirectoryTypeOK'
    <3>1. \/ CreateTenant(f) \/ CreateTill(form[f].shop.tenant, f)
          \/ CreateAttendant(form[f].shop.tenant, f)
          \/ CreateCommissionRate(form[f].shop.tenant, form[f].shop.attendant)
          \/ CreateSale(f, form[f].shop.tenant, form[f].shop.till, form[f].shop.attendant)
      BY <1>12 DEF Commit
    <3> QED BY <2>2, <3>1, DirectoryType DEF TypeInv, TypeOK
  <2>4. /\ uncommitted' = uncommitted \ {<<f, op>>} /\ UNCHANGED <<browser, form, calls, lost>>
    BY <1>12 DEF Commit
  <2>5. Called(f)'
    BY <1>0, <2>4 DEF Called, Sent
  <2> QED BY <1>0, <2>3, <2>4, <2>5, StepType DEF TypeInv, TypeOK
<1>13. ASSUME NEW f \in Ids, NEW op \in Inserts, CommitFails(f, op) PROVE TypeInv'
  <2>1. /\ uncommitted' = uncommitted \ {<<f, op>>} /\ lost' = lost \union {<<f, op>>}
        /\ UNCHANGED <<directory, browser, form, calls>>
    BY <1>13 DEF CommitFails
  <2>2. Called(f)'
    BY <1>0, <2>1 DEF Called, Sent
  <2>3. DirectoryTypeOK'
    BY <2>1, DirectoryType DEF TypeInv, TypeOK
  <2> QED BY <1>0, <2>1, <2>2, <2>3, StepType DEF TypeInv, TypeOK
<1>14. CASE CookieExpires
  <2>1. expiries' \in Nat
    BY <1>14 DEF CookieExpires, TypeInv, TypeOK
  <2>2. csrf' \in Nat /\ session' \in Shop \union {None}
        /\ UNCHANGED <<directory, minted, form, calls, transactions>>
    BY <1>14 DEF CookieExpires, TypeInv, TypeOK
  <2>3. DirectoryTypeOK'
    BY <2>2, DirectoryType DEF TypeInv, TypeOK
  <2> QED BY <2>1, <2>2, <2>3 DEF TypeInv, TypeOK, Called, Sent
<1>15. CASE UNCHANGED vars
  BY <1>15, DirectoryType DEF vars, TypeInv, TypeOK, Called, Sent
<1> QED
  BY <1>2, <1>3, <1>4, <1>6, <1>7, <1>8, <1>10, <1>11, <1>12, <1>13, <1>14, <1>15
  DEF Next, BrowserStep

LEMMA TypeInvariant == Spec => []TypeInv
<1>1. Init => TypeInv
  BY DEF Init, DirectoryInit, TypeInv, TypeOK, DirectoryTypeOK, Called, Sent, FormState
<1> QED BY <1>1, TypeInvStep, PTL DEF Spec

\* Every variable keeps its type, whatever clients and tabs do.
THEOREM TypeCorrect == Spec => []TypeOK
<1>1. TypeInv => TypeOK
  BY DEF TypeInv
<1> QED BY <1>1, TypeInvariant, PTL

-------------------------------------------------------------------------------
(* The invariant *)

\* The strengthening of RowsStayInTenant: a user belongs to a tenant there is, and an owner
\* to the tenant made with it.
TenantInv ==
  /\ \A u \in UserIds : users[u] # None => users[u] \in tenants
  /\ \A i \in Ids : users[<<i, "owner">>] \in {None, i}
  /\ RowsStayInTenant

\* The rows a submission made are those of its shop, and an open transaction passed its
\* foreign keys, which nothing takes back.
RowsInv(f) ==
  LET shop == form[f].shop IN
    /\ tills[f] # None => Sent(f) /\ tills[f] = shop.tenant
    /\ users[<<f, "attendant">>] # None => Sent(f) /\ users[<<f, "attendant">>] = shop.tenant
    /\ sales[f] # None => Sent(f) /\ sales[f].tenant = shop.tenant
                          /\ sales[f].till = shop.till /\ sales[f].attendant = shop.attendant
    /\ \A op \in Inserts : <<f, op>> \in uncommitted => Accepted(f, op)

TillMade(f) == tills[f] = f \/ Unsettled(f, "tills")

AttendantMade(f) == users[<<f, "attendant">>] = f \/ Unsettled(f, "attendants")

\* What a setup that succeeded has made.
ShopMade(f) ==
  /\ Sent(f) /\ form[f].pc # "waiting" /\ form[f].shop = NewShop(f)
  /\ f \in tenants /\ TillMade(f) /\ AttendantMade(f)

\* What a handler relies on between two calls.
HandlerInv(f) ==
  LET x == form[f] IN
    /\ x.pc = "waiting" => x.kind \in {"setup", "sale"}
    /\ x.kind = "setup" /\ x.pc \in {"waiting", "answering"} => x.shop = NewShop(f)
    /\ x.kind = "setup" /\ x.pc = "waiting" =>
         /\ x.op \in {"tenants", "tills", "attendants", "rates"}
         /\ x.op \in {"attendants", "rates"} => f \in tenants /\ TillMade(f)
         /\ x.op = "rates" => AttendantMade(f)
    /\ x.kind = "setup" /\ x.pc = "answering" => ShopMade(f)
    /\ x.kind = "sale" /\ x.pc = "waiting" =>
         x.op \in {"sales", "pay"} /\ (x.op = "pay" => x.sale = f)
    /\ x.kind = "sale" /\ x.pc = "answering" =>
         x.sale = f /\ sales[f] # None /\ [tenant |-> x.shop.tenant, sale |-> f] \in asked

SessionInv == session # None => \E f \in Ids : session = NewShop(f) /\ ShopMade(f)

WebInv == TenantInv /\ SessionInv /\ \A f \in Ids : RowsInv(f) /\ HandlerInv(f)

\* Nothing that is there is changed or removed, and the transaction of a till or an attendant
\* ends with the row or is lost.
Grown ==
  /\ tenants \subseteq tenants'
  /\ \A t \in Ids : tills[t] # None => tills'[t] = tills[t]
  /\ \A u \in UserIds : users[u] # None => users'[u] = users[u]
  /\ \A s \in Ids : sales[s] # None => sales'[s] = sales[s]
  /\ asked \subseteq asked'
  /\ \A f \in Ids :
       /\ Unsettled(f, "tills") => Unsettled(f, "tills")' \/ tills'[f] = form[f].shop.tenant
       /\ Unsettled(f, "attendants") =>
            \/ Unsettled(f, "attendants")'
            \/ users'[<<f, "attendant">>] = form[f].shop.tenant

\* An accepted insert stays accepted.
LEMMA AcceptedKept ==
  ASSUME TypeInv, Grown, NEW f \in Ids, NEW op \in Inserts, Sent(f), Accepted(f, op),
         form'[f].shop = form[f].shop
  PROVE  Accepted(f, op)'
<1>1. /\ form[f].shop.tenant \in Ids /\ form[f].shop.till \in Ids
      /\ form[f].shop.attendant \in UserIds /\ None \notin Ids
  BY NoneAssumption DEF Sent, Shop
<1>2. PICK shop : shop = form[f].shop
  OBVIOUS
<1>3. /\ shop.tenant \in tenants => shop.tenant \in tenants'
      /\ tills[shop.till] = shop.tenant => tills'[shop.till] = shop.tenant
      /\ users[shop.attendant] = shop.tenant => users'[shop.attendant] = shop.tenant
  BY <1>1, <1>2 DEF Grown
<1>4. CASE op = "tenants"
  BY <1>4 DEF Accepted
<1>5. CASE op \in {"tills", "attendants"}
  BY <1>2, <1>3, <1>5 DEF Accepted
<1>6. CASE op = "rates"
  BY <1>2, <1>3, <1>6 DEF Accepted, RateReferences
<1>7. CASE op = "sales"
  BY <1>2, <1>3, <1>7 DEF Accepted, References
<1> QED BY <1>4, <1>5, <1>6, <1>7 DEF Inserts

LEMMA MadeKept ==
  ASSUME Grown, NEW f \in Ids, form[f].shop = NewShop(f)
  PROVE  /\ f \in tenants => f \in tenants'
         /\ TillMade(f) => TillMade(f)'
         /\ AttendantMade(f) => AttendantMade(f)'
<1>1. form[f].shop.tenant = f /\ <<f, "attendant">> \in UserIds /\ f # None
  BY NoneAssumption DEF NewShop, UserIds
<1> QED BY <1>1 DEF Grown, TillMade, AttendantMade

\* A submission whose form and rows a step leaves alone.
LEMMA FormKept ==
  ASSUME TypeInv, WebInv, Grown, NEW g \in Ids, form'[g] = form[g],
         tills'[g] = tills[g], users'[<<g, "attendant">>] = users[<<g, "attendant">>],
         sales'[g] = sales[g],
         \A op \in Inserts : <<g, op>> \in uncommitted' => <<g, op>> \in uncommitted
  PROVE  RowsInv(g)' /\ HandlerInv(g)'
<1>1. RowsInv(g) /\ HandlerInv(g) /\ Called(g)
  BY DEF WebInv, TypeInv
<1>2. Sent(g) <=> Sent(g)'
  BY DEF Sent
<1>3. ASSUME NEW op \in Inserts, <<g, op>> \in uncommitted' PROVE Accepted(g, op)'
  <2>1. Accepted(g, op) /\ Sent(g)
    BY <1>1, <1>3 DEF RowsInv, Called, Ops
  <2> QED BY <2>1, AcceptedKept
<1>4. RowsInv(g)'
  BY <1>1, <1>2, <1>3 DEF RowsInv
<1>5. asked \subseteq asked'
  BY DEF Grown
<1>6. HandlerInv(g)'
  <2>1. form[g].shop = NewShop(g) => /\ (g \in tenants => g \in tenants')
                                     /\ TillMade(g) => TillMade(g)'
                                     /\ AttendantMade(g) => AttendantMade(g)'
    BY MadeKept
  <2> QED BY <1>1, <1>2, <1>5, <2>1 DEF HandlerInv, ShopMade, NewShop
<1> QED BY <1>4, <1>6

\* A session stays true.
LEMMA SessionKept ==
  ASSUME TypeInv, WebInv, Grown, session' = session,
         \A g \in Ids : Sent(g) /\ form[g].pc # "waiting" =>
           /\ form'[g].shop = form[g].shop /\ Sent(g)' /\ form'[g].pc # "waiting"
  PROVE  SessionInv'
<1> SUFFICES ASSUME session # None PROVE SessionInv'
  BY DEF SessionInv
<1>1. PICK f \in Ids : session = NewShop(f) /\ ShopMade(f)
  BY DEF WebInv, SessionInv
<1>2. ShopMade(f)'
  BY <1>1, MadeKept DEF ShopMade, NewShop
<1> QED BY <1>1, <1>2 DEF SessionInv, NewShop

LEMMA SameTables ==
  ASSUME UNCHANGED directory, uncommitted \subseteq uncommitted', lost \subseteq lost'
  PROVE  /\ Grown /\ tills' = tills /\ users' = users /\ sales' = sales /\ asked' = asked
         /\ tenants' = tenants /\ (TenantInv => TenantInv')
  BY DEF directory, Grown, Unsettled, TenantInv, RowsStayInTenant

-------------------------------------------------------------------------------
(* Commits *)

LEMMA GrownRows ==
  ASSUME TypeOK, TenantInv, Grown, UNCHANGED <<rates, sales, asked>>,
         \A u \in UserIds : users'[u] # None => users'[u] \in tenants',
         \A i \in Ids : users'[<<i, "owner">>] \in {None, i}
  PROVE  TenantInv'
<1>1. ASSUME NEW s \in Ids, sales[s] # None
      PROVE  /\ sales[s].tenant \in tenants'
             /\ tills'[sales[s].till] = sales[s].tenant
             /\ users'[sales[s].attendant] = sales[s].tenant
  <2>1. sales[s] \in SaleRow /\ tenants \subseteq Ids
    BY <1>1 DEF TypeOK, DirectoryTypeOK
  <2>2. /\ sales[s].till \in Ids /\ sales[s].attendant \in UserIds /\ sales[s].tenant \in Ids
    BY <2>1 DEF SaleRow
  <2> QED BY <1>1, <2>2, NoneAssumption DEF TenantInv, RowsStayInTenant, Grown
<1>2. ASSUME NEW r \in rates PROVE r.tenant \in tenants' /\ users'[r.attendant] = r.tenant
  <2>1. r.tenant \in Ids /\ r.attendant \in UserIds
    BY DEF TypeOK, DirectoryTypeOK
  <2> QED BY <2>1, NoneAssumption DEF TenantInv, RowsStayInTenant, Grown
<1>3. \A a \in asked : sales[a.sale] # None /\ sales[a.sale].tenant = a.tenant
  BY DEF TenantInv, RowsStayInTenant
<1> QED BY <1>1, <1>2, <1>3 DEF TenantInv, RowsStayInTenant

\* A commit: the rows stay in their tenants, and those of other submissions are not touched.
LEMMA CommitStep ==
  ASSUME TypeInv, WebInv, NEW f \in Ids, NEW op \in Inserts, Commit(f, op)
  PROVE  /\ TenantInv' /\ Grown /\ RowsInv(f)'
         /\ sales[f] # None => sales'[f] # None
         /\ \A g \in Ids \ {f} : /\ tills'[g] = tills[g] /\ sales'[g] = sales[g]
                                 /\ users'[<<g, "attendant">>] = users[<<g, "attendant">>]
<1> DEFINE shop == form[f].shop
<1>0. /\ tenants \subseteq Ids /\ None \notin Ids
      /\ users \in [UserIds -> Ids \union {None}] /\ tills \in [Ids -> Ids \union {None}]
      /\ sales \in [Ids -> SaleRow \union {None}] /\ TypeOK /\ TenantInv
  BY NoneAssumption DEF TypeInv, TypeOK, DirectoryTypeOK, WebInv
<1>1. Sent(f) /\ RowsInv(f) /\ Accepted(f, op)
  BY DEF Commit, TypeInv, Called, Ops, WebInv, RowsInv
<1>2. /\ shop.tenant \in Ids /\ shop.till \in Ids /\ shop.attendant \in UserIds
      /\ <<f, "attendant">> \in UserIds /\ <<f, "owner">> \in UserIds
  BY <1>1 DEF Sent, Shop, UserIds
<1>3. /\ uncommitted' = uncommitted \ {<<f, op>>} /\ lost' = lost /\ form' = form /\ Sent(f)'
      /\ \A g \in Ids, o \in Inserts :
           Unsettled(g, o) /\ <<g, o>> # <<f, op>> => Unsettled(g, o)'
  BY <1>1 DEF Commit, Unsettled, Sent
<1>4. "tills" \in Inserts /\ "attendants" \in Inserts
  BY DEF Inserts
<1>5. ASSUME Grown PROVE \A o \in Inserts : <<f, o>> \in uncommitted' => Accepted(f, o)'
  <2> SUFFICES ASSUME NEW o \in Inserts, <<f, o>> \in uncommitted' PROVE Accepted(f, o)'
    OBVIOUS
  <2>1. Accepted(f, o)
    BY <1>1, <1>3 DEF RowsInv
  <2> QED BY <1>1, <1>3, <1>5, <2>1, AcceptedKept
<1>6. CASE op = "tenants"
  <2>1. CreateTenant(f)
    BY <1>6 DEF Commit
  <2>2. /\ tenants' = tenants \union {f}
        /\ \A u \in UserIds : users'[u] = IF u = <<f, "owner">> THEN f ELSE users[u]
        /\ UNCHANGED <<tills, rates, sales, asked>>
    BY <1>0, <2>1 DEF CreateTenant
  <2>3. \A u \in UserIds : users[u] # None => users'[u] = users[u]
    BY <1>0, <2>2 DEF TenantInv
  <2>4. Grown
    BY <1>3, <1>4, <1>6, <2>2, <2>3 DEF Grown
  <2>5. \A i \in Ids : users'[<<i, "owner">>] \in {None, i}
    BY <1>0, <2>2 DEF TenantInv, UserIds
  <2>6. \A u \in UserIds : users'[u] # None => users'[u] \in tenants'
    BY <1>0, <2>2 DEF TenantInv
  <2>7. TenantInv'
    BY <1>0, <2>2, <2>4, <2>5, <2>6, GrownRows
  <2>8. \A g \in Ids : users'[<<g, "attendant">>] = users[<<g, "attendant">>]
    BY <2>2 DEF UserIds
  <2>9. RowsInv(f)'
    BY <1>1, <1>3, <1>5, <2>2, <2>4, <2>8 DEF RowsInv
  <2> QED BY <2>2, <2>4, <2>7, <2>8, <2>9
<1>7. CASE op = "tills"
  <2>1. CreateTill(shop.tenant, f)
    BY <1>7 DEF Commit
  <2>2. /\ tills' = [tills EXCEPT ![f] = shop.tenant]
        /\ UNCHANGED <<tenants, users, rates, sales, asked>>
    BY <2>1 DEF CreateTill
  <2>3. tills'[f] = shop.tenant /\ \A g \in Ids \ {f} : tills'[g] = tills[g]
    BY <1>0, <2>2
  <2>4. \A t \in Ids : tills[t] # None => tills'[t] = tills[t]
    BY <1>1, <2>3 DEF RowsInv
  <2>5. Grown
    BY <1>3, <1>4, <1>7, <2>2, <2>3, <2>4 DEF Grown
  <2>6. TenantInv'
    BY <1>0, <2>2, <2>5, GrownRows DEF TenantInv
  <2>7. RowsInv(f)'
    BY <1>1, <1>3, <1>5, <2>2, <2>3, <2>5 DEF RowsInv
  <2> QED BY <2>2, <2>3, <2>5, <2>6, <2>7
<1>8. CASE op = "attendants"
  <2>1. CreateAttendant(shop.tenant, f)
    BY <1>8 DEF Commit
  <2>2. /\ \A u \in UserIds : users'[u] = IF u = <<f, "attendant">> THEN shop.tenant ELSE users[u]
        /\ UNCHANGED <<tenants, tills, rates, sales, asked>>
    BY <1>0, <2>1 DEF CreateAttendant
  <2>3. \A g \in Ids : <<g, "attendant">> \in UserIds /\ <<g, "owner">> \in UserIds
    BY DEF UserIds
  <2>4. \A u \in UserIds : users[u] # None => users'[u] = users[u]
    BY <1>1, <2>2 DEF RowsInv
  <2>5. users'[<<f, "attendant">>] = shop.tenant
    BY <1>2, <2>2
  <2>6. Grown
    BY <1>3, <1>4, <1>8, <2>2, <2>4, <2>5 DEF Grown
  <2>7. shop.tenant \in tenants
    BY <1>1, <1>8 DEF Accepted
  <2>8. TenantInv'
    <3>1. \A u \in UserIds : users'[u] # None => users'[u] \in tenants'
      BY <1>0, <2>2, <2>7 DEF TenantInv
    <3>2. \A i \in Ids : users'[<<i, "owner">>] \in {None, i}
      BY <1>0, <2>2, <2>3 DEF TenantInv
    <3> QED BY <1>0, <2>2, <2>6, <3>1, <3>2, GrownRows
  <2>9. \A g \in Ids \ {f} : users'[<<g, "attendant">>] = users[<<g, "attendant">>]
    BY <2>2, <2>3
  <2>10. RowsInv(f)'
    BY <1>1, <1>3, <1>5, <2>2, <2>5, <2>6 DEF RowsInv
  <2> QED BY <2>2, <2>6, <2>8, <2>9, <2>10
<1>9. CASE op = "rates"
  <2>1. CreateCommissionRate(shop.tenant, shop.attendant)
    BY <1>9 DEF Commit
  <2>2. /\ rates' = rates \union {[tenant |-> shop.tenant, attendant |-> shop.attendant]}
        /\ UNCHANGED <<tenants, users, tills, sales, asked>>
    BY <2>1 DEF CreateCommissionRate
  <2>3. Grown
    BY <1>3, <1>4, <1>9, <2>2 DEF Grown
  <2>4. shop.tenant \in tenants /\ users[shop.attendant] = shop.tenant
    BY <1>1, <1>9 DEF Accepted, RateReferences
  <2>5. TenantInv'
    BY <1>0, <2>2, <2>4 DEF TenantInv, RowsStayInTenant
  <2>6. RowsInv(f)'
    BY <1>1, <1>3, <1>5, <2>2, <2>3 DEF RowsInv
  <2> QED BY <2>2, <2>3, <2>5, <2>6
<1>10. CASE op = "sales"
  <2> DEFINE new == [tenant |-> shop.tenant, till |-> shop.till, attendant |-> shop.attendant]
  <2>1. CreateSale(f, shop.tenant, shop.till, shop.attendant)
    BY <1>10 DEF Commit
  <2>2. /\ sales' = [sales EXCEPT ![f] = new]
        /\ UNCHANGED <<tenants, users, tills, rates, asked>>
    BY <2>1 DEF CreateSale
  <2>3. /\ new \in SaleRow /\ new # None /\ new.tenant = shop.tenant
        /\ new.till = shop.till /\ new.attendant = shop.attendant
    BY <1>2, NoneAssumption DEF SaleRow
  <2>4. sales[f] # None => sales[f] = new
    <3>1. ASSUME sales[f] # None PROVE sales[f] = new
      <4>1. /\ sales[f] \in SaleRow /\ sales[f].tenant = shop.tenant
            /\ sales[f].till = shop.till /\ sales[f].attendant = shop.attendant
        BY <1>0, <1>1, <3>1 DEF RowsInv
      <4> QED BY <4>1 DEF SaleRow
    <3> QED BY <3>1
  <2> HIDE DEF new
  <2>5. sales'[f] = new /\ \A s \in Ids \ {f} : sales'[s] = sales[s]
    BY <1>0, <2>2
  <2>6. Grown
    BY <1>3, <1>4, <1>10, <2>2, <2>4, <2>5 DEF Grown
  <2>7. References(shop.tenant, shop.till, shop.attendant)
    BY <1>1, <1>10 DEF Accepted
  <2>8. \A a \in asked : a.sale \in Ids
    BY <1>0 DEF TypeOK, DirectoryTypeOK
  <2>9. TenantInv'
    <3>1. \A s \in Ids : sales'[s] # None =>
            /\ sales'[s].tenant \in tenants
            /\ tills[sales'[s].till] = sales'[s].tenant
            /\ users[sales'[s].attendant] = sales'[s].tenant
      BY <1>0, <2>3, <2>5, <2>7 DEF TenantInv, RowsStayInTenant, References
    <3>2. \A a \in asked : sales'[a.sale] # None /\ sales'[a.sale].tenant = a.tenant
      BY <1>0, <2>4, <2>5, <2>8 DEF TenantInv, RowsStayInTenant
    <3> QED BY <1>0, <2>2, <3>1, <3>2 DEF TenantInv, RowsStayInTenant
  <2>10. RowsInv(f)'
    BY <1>1, <1>3, <1>5, <2>2, <2>3, <2>5, <2>6 DEF RowsInv
  <2> QED BY <2>2, <2>3, <2>5, <2>6, <2>9, <2>10
<1> QED BY <1>6, <1>7, <1>8, <1>9, <1>10 DEF Inserts

-------------------------------------------------------------------------------
(* What the browser is told *)

LEMMA RowsKept ==
  ASSUME TypeInv, WebInv, NEW f \in Ids, UNCHANGED <<directory, transactions>>,
         Sent(f) => form'[f].shop = form[f].shop /\ Sent(f)'
  PROVE  RowsInv(f)'
<1>1. RowsInv(f) /\ Called(f)
  BY DEF WebInv, TypeInv
<1>2. Grown /\ tills' = tills /\ users' = users /\ sales' = sales /\ uncommitted' = uncommitted
  BY SameTables DEF transactions
<1>3. ASSUME NEW op \in Inserts, <<f, op>> \in uncommitted' PROVE Accepted(f, op)'
  <2>1. Accepted(f, op) /\ Sent(f)
    BY <1>1, <1>2, <1>3 DEF RowsInv, Called, Ops
  <2> QED BY <1>2, <2>1, AcceptedKept
<1> QED BY <1>1, <1>2, <1>3 DEF RowsInv

\* A step that changes one form and no table but asked.
LEMMA FormStep ==
  ASSUME TypeInv, WebInv, NEW f \in Ids, Grown, TenantInv',
         tills' = tills, users' = users, sales' = sales,
         \A g \in Ids \ {f}, op \in Inserts :
           <<g, op>> \in uncommitted' => <<g, op>> \in uncommitted,
         \A g \in Ids \ {f} : form'[g] = form[g], RowsInv(f)', HandlerInv(f)',
         \/ SessionInv'
         \/ /\ session' = session
            /\ Sent(f) /\ form[f].pc # "waiting" =>
                 form'[f].shop = form[f].shop /\ Sent(f)' /\ form'[f].pc # "waiting"
  PROVE  WebInv'
<1>1. \A g \in Ids \ {f} : RowsInv(g)' /\ HandlerInv(g)'
  BY FormKept
<1>2. SessionInv'
  BY SessionKept DEF Sent
<1> QED BY <1>1, <1>2 DEF WebInv

\* A step of the browser: it leaves no form waiting.
LEMMA BrowserStepInv ==
  ASSUME TypeInv, WebInv, NEW f \in Ids, UNCHANGED <<directory, transactions>>,
         \A g \in Ids \ {f} : form'[g] = form[g],
         form'[f].pc \in {"loading", "open", "done"},
         Sent(f) => form'[f].shop = form[f].shop /\ Sent(f)',
         session' = session \/ SessionInv'
  PROVE  WebInv'
<1>1. /\ Grown /\ TenantInv' /\ tills' = tills /\ users' = users /\ sales' = sales
  BY SameTables DEF WebInv, transactions
<1>2. RowsInv(f)'
  BY RowsKept
<1>3. HandlerInv(f)'
  BY DEF HandlerInv
<1> QED BY <1>1, <1>2, <1>3, FormStep DEF transactions

LEMMA ProceedInv ==
  ASSUME TypeInv, WebInv, NEW f \in Ids, form[f].pc = "waiting", NEW sale, NEW rest,
         rest \subseteq calls, Proceed(f, sale, rest), Grown, sales' = sales,
         form[f].op = "sales" => sale = f, form[f].op # "sales" => sale = form[f].sale,
         form[f].op = "tills" => form[f].shop.tenant \in tenants /\ Unsettled(f, "tills")',
         form[f].op = "attendants" => Unsettled(f, "attendants")',
         form[f].op = "pay" => /\ sales[sale] # None
                               /\ [tenant |-> form[f].shop.tenant, sale |-> sale] \in asked'
  PROVE  HandlerInv(f)' /\ Sent(f)' /\ form'[f].shop = form[f].shop
         /\ \A g \in Ids \ {f} : form'[g] = form[g]
<1>1. HandlerInv(f) /\ Called(f)
  BY DEF WebInv, TypeInv
<1>2. /\ \A g \in Ids \ {f} : form'[g] = form[g]
      /\ form'[f].pc = IF NextOp[form[f].op] = "end" THEN "answering" ELSE "waiting"
      /\ form'[f].op = NextOp[form[f].op] /\ form'[f].sale = sale
      /\ form'[f].shop = form[f].shop /\ form'[f].kind = form[f].kind
      /\ Sent(f)'
  BY ProceedType
<1>3. CASE form[f].kind = "setup"
  <2>1. form[f].shop = NewShop(f) /\ form[f].shop.tenant = f
    BY <1>1, <1>3 DEF HandlerInv, NewShop
  <2>2. /\ f \in tenants => f \in tenants'
        /\ TillMade(f) => TillMade(f)'
        /\ AttendantMade(f) => AttendantMade(f)'
    BY <2>1, MadeKept
  <2>3. /\ form[f].op = "tills" => TillMade(f)' /\ f \in tenants
        /\ form[f].op = "attendants" => AttendantMade(f)'
    BY <2>1 DEF TillMade, AttendantMade
  <2>4. form'[f].shop = NewShop(f)' /\ form'[f].kind = "setup"
    BY <1>2, <1>3, <2>1 DEF NewShop
  <2>5. CASE form[f].op = "tenants"
    <3>1. form'[f].pc = "waiting" /\ form'[f].op = "tills"
      BY <1>2, <2>5 DEF NextOp
    <3> QED BY <1>2, <2>4, <3>1 DEF HandlerInv
  <2>6. CASE form[f].op = "tills"
    <3>1. form'[f].pc = "waiting" /\ form'[f].op = "attendants"
      BY <1>2, <2>6 DEF NextOp
    <3> QED BY <1>2, <2>2, <2>3, <2>4, <2>6, <3>1 DEF HandlerInv
  <2>7. CASE form[f].op = "attendants"
    <3>1. form'[f].pc = "waiting" /\ form'[f].op = "rates"
      BY <1>2, <2>7 DEF NextOp
    <3> QED BY <1>1, <1>2, <1>3, <2>2, <2>3, <2>4, <2>7, <3>1 DEF HandlerInv
  <2>8. CASE form[f].op = "rates"
    <3>1. form'[f].pc = "answering"
      BY <1>2, <2>8 DEF NextOp
    <3> QED BY <1>1, <1>2, <1>3, <2>2, <2>4, <2>8, <3>1 DEF HandlerInv, ShopMade
  <2> QED BY <1>1, <1>2, <1>3, <2>5, <2>6, <2>7, <2>8 DEF HandlerInv
<1>4. CASE form[f].kind = "sale"
  <2>1. CASE form[f].op = "sales"
    <3>1. form'[f].pc = "waiting" /\ form'[f].op = "pay"
      BY <1>2, <2>1 DEF NextOp
    <3> QED BY <1>2, <1>4, <2>1, <3>1 DEF HandlerInv
  <2>2. CASE form[f].op = "pay"
    <3>1. form'[f].pc = "answering" /\ sale = f
      BY <1>1, <1>2, <1>4, <2>2 DEF NextOp, HandlerInv
    <3> QED BY <1>2, <1>4, <2>2, <3>1 DEF HandlerInv
  <2> QED BY <1>1, <1>2, <1>4, <2>1, <2>2 DEF HandlerInv
<1> QED BY <1>1, <1>3, <1>4 DEF HandlerInv

LEMMA WebInvStep ==
  ASSUME TypeInv, WebInv, [Next]_vars
  PROVE  WebInv'
<1> USE DEF browser
<1>0. ASSUME NEW f \in Ids
      PROVE  form[f] \in FormState /\ Called(f) /\ RowsInv(f) /\ HandlerInv(f)
  BY DEF TypeInv, TypeOK, WebInv
<1>1. ASSUME NEW f \in Ids, NEW kind, Render(f, kind), form[f].pc \in {"new", "open"}
      PROVE  WebInv'
  <2>1. /\ \A g \in Ids \ {f} : form'[g] = form[g]
        /\ form'[f].pc = "loading" /\ ~Sent(f)
    BY <1>0, <1>1 DEF Render, TypeInv, TypeOK, FormState, Sent
  <2> QED BY <1>1, <2>1, BrowserStepInv DEF Render
<1>2. ASSUME NEW f \in Ids, NEW kind \in Kinds, OpenPage(f, kind) PROVE WebInv'
  BY <1>1, <1>2 DEF OpenPage
<1>3. ASSUME NEW f \in Ids, Refuse(f) PROVE WebInv'
  BY <1>1, <1>3 DEF Refuse
<1>4. ASSUME NEW f \in Ids, PageArrives(f) PROVE WebInv'
  <2>1. /\ \A g \in Ids \ {f} : form'[g] = form[g]
        /\ form'[f].pc = "open" /\ ~Sent(f)
    BY <1>0, <1>4 DEF PageArrives, TypeInv, TypeOK, FormState, Sent
  <2> QED BY <1>4, <2>1, BrowserStepInv DEF PageArrives
<1>5. ASSUME NEW f \in Ids, NoSession(f) \/ SubmitCommission(f) PROVE WebInv'
  <2>1. /\ \A g \in Ids \ {f} : form'[g] = form[g]
        /\ form'[f].pc = "done" /\ ~Sent(f) /\ session' = session
        /\ UNCHANGED <<directory, transactions>>
    BY <1>0, <1>5 DEF NoSession, SubmitCommission, TypeInv, TypeOK, FormState, Sent
  <2> QED BY <2>1, BrowserStepInv
<1>6. ASSUME NEW f \in Ids, SubmitReset(f) PROVE WebInv'
  <2>1. /\ \A g \in Ids \ {f} : form'[g] = form[g]
        /\ form'[f].pc = "answering" /\ ~Sent(f) /\ form'[f].kind = "reset"
        /\ UNCHANGED <<directory, transactions, session>>
    BY <1>0, <1>6 DEF SubmitReset, TypeInv, TypeOK, FormState, Sent
  <2>2. /\ Grown /\ TenantInv' /\ tills' = tills /\ users' = users /\ sales' = sales
    BY <2>1, SameTables DEF WebInv, transactions
  <2>3. RowsInv(f)' /\ HandlerInv(f)'
    BY <2>1, RowsKept DEF HandlerInv
  <2> QED BY <2>1, <2>2, <2>3, FormStep DEF transactions
<1>7. ASSUME NEW f \in Ids, Submit(f) PROVE WebInv'
  <2> DEFINE shop == IF form[f].kind = "setup" THEN NewShop(f) ELSE session
  <2>1. /\ \A g \in Ids \ {f} : form'[g] = form[g]
        /\ form'[f].pc = "waiting" /\ ~Sent(f) /\ form'[f].kind = form[f].kind
        /\ form'[f].shop = shop /\ form'[f].op = FirstOp[form[f].kind]
        /\ form[f].kind \in {"setup", "sale"}
        /\ UNCHANGED <<directory, transactions, session>>
    BY <1>0, <1>7 DEF Submit, TypeInv, TypeOK, FormState, Sent
  <2>2. /\ Grown /\ TenantInv' /\ tills' = tills /\ users' = users /\ sales' = sales
    BY <2>1, SameTables DEF WebInv, transactions
  <2>3. RowsInv(f)' /\ HandlerInv(f)'
    BY <2>1, RowsKept DEF HandlerInv, FirstOp, NewShop
  <2> QED BY <2>1, <2>2, <2>3, FormStep DEF transactions
<1>8. ASSUME NEW f \in Ids, Answer(f) \/ AnswerLost(f) PROVE WebInv'
  <2>1. /\ \A g \in Ids \ {f} : form'[g] = form[g]
        /\ form[f].pc = "answering" /\ form'[f].pc = "done" /\ form'[f].shop = form[f].shop
        /\ UNCHANGED <<directory, transactions>>
    BY <1>0, <1>8 DEF Answer, AnswerLost, TypeInv, TypeOK, FormState
  <2>2. Sent(f) => Sent(f)'
    BY <2>1 DEF Sent
  <2>3. CASE Answer(f) /\ form[f].kind = "setup"
    <3>1. session' = form[f].shop /\ ShopMade(f)
      BY <1>0, <2>3 DEF Answer, HandlerInv
    <3>2. ShopMade(f)'
      <4>1. Grown
        BY <2>1, SameTables DEF transactions
      <4>2. Sent(f)' /\ form'[f].pc # "waiting"
        BY <2>1, <2>2, <3>1 DEF ShopMade
      <4> QED BY <2>1, <3>1, <4>1, <4>2, MadeKept DEF ShopMade, NewShop
    <3>3. SessionInv'
      BY <3>1, <3>2 DEF SessionInv, ShopMade, NewShop
    <3> QED BY <2>1, <2>2, <3>3, BrowserStepInv
  <2>4. CASE ~(Answer(f) /\ form[f].kind = "setup")
    <3>1. session' = session \/ session' = None
      BY <1>8, <2>4 DEF Answer, AnswerLost
    <3>2. session' = session \/ SessionInv'
      BY <3>1 DEF SessionInv
    <3> QED BY <2>1, <2>2, <3>2, BrowserStepInv
  <2> QED BY <2>3, <2>4
<1>9. ASSUME NEW f \in Ids, Fail(f) PROVE WebInv'
  <2>1. CASE form[f].op \in Suppressed
    <3>1. /\ Proceed(f, form[f].sale, calls) /\ form[f].pc = "waiting" /\ form[f].op = "rates"
          /\ UNCHANGED <<directory, browser, transactions>>
      BY <1>9, <2>1 DEF Fail, Suppressed
    <3>2. /\ Grown /\ TenantInv' /\ tills' = tills /\ users' = users /\ sales' = sales
      BY <3>1, SameTables DEF WebInv, transactions
    <3>3. /\ HandlerInv(f)' /\ Sent(f)' /\ form'[f].shop = form[f].shop
          /\ \A g \in Ids \ {f} : form'[g] = form[g]
      BY <3>1, <3>2, ProceedInv
    <3>4. RowsInv(f)'
      BY <3>1, <3>3, RowsKept
    <3> QED BY <3>1, <3>2, <3>3, <3>4, FormStep DEF transactions
  <2>2. CASE form[f].op \notin Suppressed
    <3>1. /\ \A g \in Ids \ {f} : form'[g] = form[g]
          /\ form'[f].pc = "done" /\ form'[f].shop = form[f].shop
          /\ UNCHANGED <<directory, transactions, session>>
      BY <1>0, <1>9, <2>2 DEF Fail, TypeInv, TypeOK, FormState
    <3> QED BY <3>1, BrowserStepInv DEF Sent
  <2> QED BY <2>1, <2>2
<1>10. ASSUME NEW f \in Ids, NEW op, NEW shop, NEW sale, ApiCall(f, op, shop, sale)
       PROVE  WebInv'
  <2>1. /\ \A g \in Ids \ {f} : form'[g] = form[g]
        /\ form'[f].pc = "done" /\ ~Sent(f) /\ UNCHANGED <<directory, transactions, session>>
    BY <1>0, <1>10 DEF ApiCall, TypeInv, TypeOK, FormState, Sent
  <2> QED BY <2>1, BrowserStepInv
<1>11. ASSUME NEW f \in Ids, ApiRequest(f) PROVE WebInv'
  BY <1>10, <1>11 DEF ApiRequest
<1>12. ASSUME NEW f \in Ids, NEW op \in Ops, NEW sale, <<f, op>> \in calls, Reply(f, op, sale),
              Grown, TenantInv', tills' = tills, users' = users, sales' = sales,
              \A g \in Ids \ {f}, o \in Inserts :
                <<g, o>> \in uncommitted' => <<g, o>> \in uncommitted,
              \A o \in Inserts :
                <<f, o>> \in uncommitted' => <<f, o>> \in uncommitted \/ Accepted(f, o),
              op = "sales" => sale = f, op # "sales" => sale = form[f].sale,
              op = "tills" => form[f].shop.tenant \in tenants /\ Unsettled(f, "tills")',
              op = "attendants" => Unsettled(f, "attendants")',
              op = "pay" => /\ sales[sale] # None
                            /\ [tenant |-> form[f].shop.tenant, sale |-> sale] \in asked'
       PROVE  WebInv'
  <2>1. Sent(f) /\ session' = session
    BY <1>0, <1>12 DEF Called, Reply
  <2>2. ASSUME form'[f].shop = form[f].shop, Sent(f)'
        PROVE  RowsInv(f)'
    <3>1. ASSUME NEW o \in Inserts, <<f, o>> \in uncommitted' PROVE Accepted(f, o)'
      <4>1. Accepted(f, o)
        BY <1>0, <1>12, <3>1 DEF RowsInv
      <4> QED BY <1>12, <2>1, <2>2, <4>1, AcceptedKept
    <3> QED BY <1>0, <1>12, <2>2, <3>1 DEF RowsInv
  <2>3. CASE form[f].pc = "waiting" /\ form[f].op = op /\ Proceed(f, sale, calls \ {<<f, op>>})
    <3>1. calls \ {<<f, op>>} \subseteq calls
      OBVIOUS
    <3>2. /\ HandlerInv(f)' /\ Sent(f)' /\ form'[f].shop = form[f].shop
          /\ \A g \in Ids \ {f} : form'[g] = form[g]
      BY <1>12, <2>3, <3>1, ProceedInv
    <3>3. RowsInv(f)'
      BY <2>2, <3>2
    <3> QED BY <1>12, <2>1, <2>3, <3>2, <3>3, FormStep
  <2>4. CASE UNCHANGED form
    <3>1. RowsInv(f)'
      BY <2>1, <2>2, <2>4 DEF Sent
    <3>2. HandlerInv(f)'
      <4>1. form[f].shop = NewShop(f) => /\ (f \in tenants => f \in tenants')
                                         /\ TillMade(f) => TillMade(f)'
                                         /\ AttendantMade(f) => AttendantMade(f)'
        BY <1>12, MadeKept
      <4>2. asked \subseteq asked' /\ (Sent(f) <=> Sent(f)')
        BY <1>12, <2>4 DEF Grown, Sent
      <4> QED BY <1>0, <1>12, <2>4, <4>1, <4>2 DEF HandlerInv, ShopMade, NewShop
    <3> QED BY <1>12, <2>1, <2>4, <3>1, <3>2, FormStep DEF Sent
  <2> QED BY <1>12, <2>3, <2>4 DEF Reply
<1>13. ASSUME NEW f \in Ids, NEW op \in Ops, <<f, op>> \in calls, ServeInsert(f, op) PROVE WebInv'
  <2>1. /\ op \in Inserts /\ Accepted(f, op) /\ UNCHANGED <<directory, lost>>
        /\ uncommitted' = uncommitted \union {<<f, op>>}
    BY <1>13 DEF ServeInsert
  <2>2. Grown /\ TenantInv' /\ tills' = tills /\ users' = users /\ sales' = sales
    BY <2>1, SameTables DEF WebInv
  <2>3. op = "tills" => form[f].shop.tenant \in tenants
    BY <2>1 DEF Accepted
  <2>4. Unsettled(f, op)'
    BY <2>1 DEF Unsettled
  <2>5. op # "pay"
    BY <2>1 DEF Inserts
  <2> DEFINE sale == IF op = "sales" THEN f ELSE form[f].sale
  <2>6. Reply(f, op, sale) /\ (op = "sales" => sale = f) /\ (op # "sales" => sale = form[f].sale)
    BY <1>13 DEF ServeInsert
  <2> HIDE DEF sale
  <2> QED BY <1>12, <1>13, <2>1, <2>2, <2>3, <2>4, <2>5, <2>6
<1>14. ASSUME NEW f \in Ids, <<f, "pay">> \in calls, ServePay(f) PROVE WebInv'
  <2>1. /\ AskPayments(form[f].shop.tenant, form[f].sale)
        /\ Reply(f, "pay", form[f].sale) /\ UNCHANGED transactions
    BY <1>14 DEF ServePay
  <2>2. /\ Visible(form[f].shop.tenant, form[f].sale)
        /\ asked' = asked \union {[tenant |-> form[f].shop.tenant, sale |-> form[f].sale]}
        /\ UNCHANGED <<tenants, users, tills, rates, sales>>
    BY <2>1 DEF AskPayments
  <2>3. Grown /\ TenantInv'
    BY <2>1, <2>2 DEF Grown, TenantInv, RowsStayInTenant, Visible, WebInv, Unsettled, transactions
  <2> QED BY <1>12, <1>14, <2>1, <2>2, <2>3 DEF Visible, Ops, transactions
<1>15. ASSUME NEW f \in Ids, NEW op \in Ops, Serve(f, op) PROVE WebInv'
  BY <1>13, <1>14, <1>15 DEF Serve
<1>16. ASSUME NEW f \in Ids, NEW op \in Inserts, Commit(f, op) PROVE WebInv'
  <2>1. /\ TenantInv' /\ Grown /\ RowsInv(f)'
        /\ sales[f] # None => sales'[f] # None
        /\ \A g \in Ids \ {f} : /\ tills'[g] = tills[g] /\ sales'[g] = sales[g]
                                /\ users'[<<g, "attendant">>] = users[<<g, "attendant">>]
    BY <1>16, CommitStep
  <2>2. form' = form /\ session' = session /\ uncommitted' = uncommitted \ {<<f, op>>}
    BY <1>16 DEF Commit
  <2>3. \A g \in Ids \ {f} : RowsInv(g)' /\ HandlerInv(g)'
    BY <2>1, <2>2, FormKept
  <2>4. HandlerInv(f)'
    <3>1. form[f].shop = NewShop(f) => /\ (f \in tenants => f \in tenants')
                                       /\ TillMade(f) => TillMade(f)'
                                       /\ AttendantMade(f) => AttendantMade(f)'
      BY <2>1, MadeKept
    <3>2. asked \subseteq asked' /\ (Sent(f) <=> Sent(f)')
      BY <2>1, <2>2 DEF Grown, Sent
    <3> QED BY <1>0, <2>1, <2>2, <3>1, <3>2 DEF HandlerInv, ShopMade, NewShop
  <2>5. SessionInv'
    BY <2>1, <2>2, SessionKept DEF Sent
  <2> QED BY <2>1, <2>3, <2>4, <2>5 DEF WebInv
<1>17. ASSUME UNCHANGED <<directory, form>>, uncommitted' \subseteq uncommitted,
              session' \in {session, None},
              \A g \in Ids, o \in Inserts : Unsettled(g, o) => Unsettled(g, o)'
       PROVE  WebInv'
  <2>1. Grown /\ TenantInv' /\ tills' = tills /\ users' = users /\ sales' = sales
    BY <1>17 DEF directory, Grown, WebInv, TenantInv, RowsStayInTenant, Inserts
  <2>2. \A g \in Ids : RowsInv(g)' /\ HandlerInv(g)'
    BY <1>17, <2>1, FormKept
  <2>3. SessionInv'
    <3>1. CASE session' = session
      BY <1>17, <2>1, <3>1, SessionKept DEF Sent
    <3>2. CASE session' = None
      BY <3>2 DEF SessionInv
    <3> QED BY <1>17, <3>1, <3>2
  <2> QED BY <2>1, <2>2, <2>3 DEF WebInv
<1>18. ASSUME NEW f \in Ids, NEW op \in Inserts, CommitFails(f, op) PROVE WebInv'
  BY <1>17, <1>18 DEF CommitFails, Unsettled
<1>19. CASE CookieExpires \/ UNCHANGED vars
  BY <1>17, <1>19 DEF CookieExpires, vars, Unsettled, transactions
<1> QED
  BY <1>2, <1>3, <1>4, <1>5, <1>6, <1>7, <1>8, <1>9, <1>11, <1>15, <1>16, <1>18, <1>19
  DEF Next, BrowserStep

LEMMA WebInvariant == Spec => []WebInv
<1>1. Init => WebInv
  BY DEF Init, DirectoryInit, WebInv, TenantInv, SessionInv, RowsInv, HandlerInv,
         RowsStayInTenant, UserIds
<1> QED BY <1>1, WebInvStep, TypeInvariant, PTL DEF Spec

\* No row of POS ever refers to a row of another tenant.
THEOREM RowsAlwaysInTenant == Spec => []RowsStayInTenant
<1>1. WebInv => RowsStayInTenant
  BY DEF WebInv, TenantInv
<1> QED BY <1>1, WebInvariant, PTL

\* What the browser is told has happened, but for a till or an attendant whose transaction
\* POS has not committed, or lost, after answering for it.
THEOREM AnswersAlwaysTrue == Spec => []AnswersAreTrue
<1>1. TypeInv /\ WebInv => AnswersAreTrue
  <2> SUFFICES ASSUME TypeInv, WebInv PROVE AnswersAreTrue
    OBVIOUS
  <2>1. ASSUME session # None
        PROVE  /\ session.tenant \in tenants
               /\ tills[session.till] = session.tenant \/ Unsettled(session.till, "tills")
               /\ \/ users[session.attendant] = session.tenant
                  \/ Unsettled(session.attendant[1], "attendants")
    <3>1. PICK f \in Ids : session = NewShop(f) /\ ShopMade(f)
      BY <2>1 DEF WebInv, SessionInv
    <3>2. /\ session.tenant = f /\ session.till = f /\ session.attendant = <<f, "attendant">>
          /\ session.attendant[1] = f
      BY <3>1 DEF NewShop
    <3> QED BY <3>1, <3>2 DEF ShopMade, TillMade, AttendantMade
  <2>2. ASSUME NEW f \in Ids, form[f].pc = "answering", form[f].kind = "sale"
        PROVE  /\ Visible(form[f].shop.tenant, form[f].sale)
               /\ sales[form[f].sale].till = form[f].shop.till
               /\ sales[form[f].sale].attendant = form[f].shop.attendant
               /\ [tenant |-> form[f].shop.tenant, sale |-> form[f].sale] \in asked
    <3>1. RowsInv(f) /\ HandlerInv(f)
      BY DEF WebInv
    <3>2. /\ form[f].sale = f /\ sales[f] # None
          /\ [tenant |-> form[f].shop.tenant, sale |-> f] \in asked
      BY <2>2, <3>1 DEF HandlerInv
    <3> QED BY <3>1, <3>2 DEF RowsInv, Visible
  <2> QED BY <2>1, <2>2 DEF AnswersAreTrue
<1> QED BY <1>1, TypeInvariant, WebInvariant, PTL

-------------------------------------------------------------------------------
(* Tokens *)

\* The cookie of a browser that kept one.
TokenInv ==
  /\ csrf <= minted
  /\ \A f \in Ids :
       /\ form[f].pc \in {"loading", "open"} => form[f].token \in 1..minted
       /\ expiries = 0 /\ form[f].pc = "open" => csrf # 0
       /\ expiries = 0 /\ form[f].pc = "loading" /\ ~form[f].fresh => csrf # 0

LEMMA TokenInvStep ==
  ASSUME TypeInv, TokenInv, [Next]_vars
  PROVE  TokenInv'
<1> USE DEF browser
<1>0. /\ csrf \in Nat /\ minted \in Nat /\ csrf <= minted /\ expiries \in Nat
      /\ form \in [Ids -> FormState]
  BY DEF TypeInv, TypeOK, TokenInv
<1>1. ASSUME NEW f \in Ids
      PROVE  /\ form[f] \in FormState /\ form[f].token \in Nat
             /\ form[f].pc \in {"loading", "open"} => form[f].token \in 1..minted
             /\ expiries = 0 /\ form[f].pc = "open" => csrf # 0
             /\ expiries = 0 /\ form[f].pc = "loading" /\ ~form[f].fresh => csrf # 0
  BY <1>0 DEF TokenInv, FormState
<1>2. ASSUME NEW f \in Ids, NEW kind, Render(f, kind) PROVE TokenInv'
  <2>1. /\ \A g \in Ids \ {f} : form'[g] = form[g]
        /\ form'[f].pc = "loading" /\ form'[f].token = PageToken
        /\ form'[f].fresh = (csrf = 0)
        /\ csrf' = csrf /\ expiries' = expiries
        /\ minted' = IF csrf = 0 THEN minted + 1 ELSE minted
    BY <1>0, <1>1, <1>2 DEF Render, FormState
  <2>2. PageToken \in 1..minted' /\ minted' \in Nat /\ minted <= minted'
    BY <1>0, <2>1 DEF PageToken
  <2>3. \A g \in Ids \ {f} : form'[g].pc \in {"loading", "open"} => form'[g].token \in 1..minted'
    BY <1>0, <1>1, <2>1, <2>2
  <2>4. expiries' = 0 => \A g \in Ids \ {f} :
          /\ form'[g].pc = "open" => csrf' # 0
          /\ form'[g].pc = "loading" /\ ~form'[g].fresh => csrf' # 0
    BY <1>1, <2>1
  <2>5. csrf' <= minted'
    BY <1>0, <2>1, <2>2
  <2>6. /\ form'[f].token \in 1..minted' /\ form'[f].pc # "open"
        /\ ~form'[f].fresh => csrf' # 0
    BY <2>1, <2>2
  <2> QED BY <2>3, <2>4, <2>5, <2>6 DEF TokenInv
<1>3. ASSUME NEW f \in Ids, NEW kind \in Kinds, OpenPage(f, kind) PROVE TokenInv'
  BY <1>2, <1>3 DEF OpenPage
<1>4. ASSUME NEW f \in Ids, Refuse(f) PROVE TokenInv'
  BY <1>2, <1>4 DEF Refuse
<1>5. ASSUME NEW f \in Ids, PageArrives(f) PROVE TokenInv'
  <2>1. /\ \A g \in Ids \ {f} : form'[g] = form[g]
        /\ form'[f].pc = "open" /\ form'[f].token = form[f].token
        /\ csrf' = IF form[f].fresh THEN form[f].token ELSE csrf
        /\ form[f].pc = "loading" /\ UNCHANGED <<minted, expiries>>
    BY <1>0, <1>1, <1>5 DEF PageArrives, FormState
  <2>2. csrf' <= minted' /\ (csrf # 0 => csrf' # 0) /\ (expiries' = 0 => csrf' # 0)
    BY <1>0, <1>1, <2>1
  <2> QED BY <1>0, <1>1, <2>1, <2>2 DEF TokenInv
<1>6. ASSUME NEW f \in Ids, form'[f].pc \notin {"loading", "open"},
             \A g \in Ids \ {f} : form'[g] = form[g], UNCHANGED <<csrf, minted, expiries>>
      PROVE  TokenInv'
  BY <1>1, <1>6 DEF TokenInv
<1>7. ASSUME NEW f \in Ids,
             \/ NoSession(f) \/ Submit(f) \/ SubmitReset(f) \/ SubmitCommission(f)
             \/ Answer(f) \/ AnswerLost(f)
      PROVE  TokenInv'
  <2>1. form'[f].pc \notin {"loading", "open"} /\ \A g \in Ids \ {f} : form'[g] = form[g]
    BY <1>0, <1>1, <1>7
    DEF NoSession, Submit, SubmitReset, SubmitCommission, Answer, AnswerLost, FormState
  <2> QED
    BY <1>6, <1>7, <2>1 DEF NoSession, Submit, SubmitReset, SubmitCommission, Answer, AnswerLost
<1>8. ASSUME NEW f \in Ids, NEW sale, NEW rest, Proceed(f, sale, rest)
      PROVE  form'[f].pc \notin {"loading", "open"} /\ \A g \in Ids \ {f} : form'[g] = form[g]
  BY <1>0, <1>1, <1>8 DEF Proceed, FormState
<1>9. ASSUME NEW f \in Ids, Fail(f) PROVE TokenInv'
  <2>1. form'[f].pc \notin {"loading", "open"} /\ \A g \in Ids \ {f} : form'[g] = form[g]
    <3>1. CASE form[f].op \in Suppressed
      BY <1>8, <1>9, <3>1 DEF Fail
    <3>2. CASE form[f].op \notin Suppressed
      BY <1>0, <1>1, <1>9, <3>2 DEF Fail, FormState
    <3> QED BY <3>1, <3>2
  <2> QED BY <1>6, <1>9, <2>1 DEF Fail
<1>10. ASSUME NEW f \in Ids, NEW op, NEW shop, NEW sale, ApiCall(f, op, shop, sale)
      PROVE  TokenInv'
  <2>1. form'[f].pc = "done" /\ \A g \in Ids \ {f} : form'[g] = form[g]
    BY <1>0, <1>1, <1>10 DEF ApiCall, FormState
  <2> QED BY <1>6, <1>10, <2>1 DEF ApiCall
<1>13. ASSUME NEW f \in Ids, ApiRequest(f) PROVE TokenInv'
  BY <1>10, <1>13 DEF ApiRequest
<1>14. ASSUME NEW f \in Ids, NEW op \in Ops, Serve(f, op) PROVE TokenInv'
  <2>1. form[f].pc \notin {"loading", "open"}
    BY <1>14 DEF TypeInv, Called, Sent, Serve
  <2>2. PICK sale, o : Reply(f, o, sale)
    BY <1>14 DEF Serve, ServeInsert, ServePay
  <2>3. form'[f].pc \notin {"loading", "open"} /\ \A g \in Ids \ {f} : form'[g] = form[g]
    <3>1. CASE UNCHANGED form
      BY <2>1, <3>1
    <3>2. CASE \E rest : Proceed(f, sale, rest)
      BY <1>8, <3>2
    <3> QED BY <2>2, <3>1, <3>2 DEF Reply
  <2> QED BY <1>6, <2>2, <2>3 DEF Reply
<1>15. ASSUME NEW f \in Ids, NEW op \in Inserts, Commit(f, op) \/ CommitFails(f, op)
       PROVE  TokenInv'
  <2>1. UNCHANGED <<form, csrf, minted, expiries>>
    BY <1>15 DEF Commit, CommitFails
  <2> QED BY <1>0, <1>1, <2>1 DEF TokenInv
<1>11. CASE CookieExpires
  <2>1. expiries' = expiries + 1 /\ csrf' <= minted' /\ UNCHANGED <<form, minted>>
    BY <1>0, <1>11 DEF CookieExpires
  <2>2. expiries' # 0
    BY <1>0, <2>1
  <2> QED BY <1>1, <2>1, <2>2 DEF TokenInv
<1>12. CASE UNCHANGED vars
  BY <1>0, <1>1, <1>12 DEF vars, TokenInv
<1> QED
  BY <1>3, <1>4, <1>5, <1>7, <1>9, <1>11, <1>12, <1>13, <1>14, <1>15
  DEF Next, BrowserStep

LEMMA TokenInvariant == Spec => []TokenInv
<1>1. Init => TokenInv
  BY DEF Init, TokenInv
<1> QED BY <1>1, TokenInvStep, TypeInvariant, PTL DEF Spec

\* A browser that kept its cookie is never refused for a token, unless two pages were
\* requested before it had one.
THEOREM RefusalsNeedARace == Spec => []RefusedOnlyAfterRace
<1>1. TypeInv /\ TokenInv => RefusedOnlyAfterRace
  <2> SUFFICES ASSUME TypeInv, TokenInv, NEW f \in Ids, form[f].pc = "open", ~TokenMatches(f),
                      expiries = 0
               PROVE  minted > 1
    BY DEF RefusedOnlyAfterRace, TypeInv, TypeOK
  <2>1. /\ csrf \in Nat /\ minted \in Nat /\ csrf <= minted /\ csrf # 0
        /\ form[f].token \in 1..minted /\ form[f].token # csrf
    BY DEF TypeInv, TypeOK, TokenInv, TokenMatches
  <2> QED BY <2>1
<1> QED BY <1>1, TypeInvariant, TokenInvariant, PTL

================================================================================
