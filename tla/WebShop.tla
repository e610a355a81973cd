-------------------------------- MODULE WebShop --------------------------------
(***************************************************************************)
(* The web front end in front of POS and commission: one browser with      *)
(* several tabs, its session and CSRF cookies, the forms it submits, and   *)
(* the calls a form handler makes.  A call that the front end gives up     *)
(* after five seconds may still be served.  POS answers a request before   *)
(* it commits (the session dependency ends after the response), so the     *)
(* next call may come before the row is there, and an answered row may     *)
(* never come.  Beside the browser any client may call POS directly.       *)
(*                                                                         *)
(* A submission is one filled-in form, or one direct request.              *)
(***************************************************************************)
EXTENDS PosDirectory, Naturals, FiniteSets

CONSTANTS
  MaxSetups,    \* bound: how many forms set up a shop
  MaxFaults     \* bound: how many cookies expire and answered requests are never
                \* committed, together

\* "commission" is the form that closes a day and the one that requests a payout.
Kinds == {"setup", "reset", "sale", "commission"}

VARIABLES
  csrf,         \* the CSRF cookie, 0 while there is none
  minted,       \* how many CSRF tokens were made
  session,      \* the session cookie: a shop, or None
  form,         \* where each submission is
  calls,        \* requests of submissions that were sent and not served
  uncommitted,  \* requests POS answered, whose transaction is not over
  lost,         \* requests POS answered, whose transaction did not commit
  expiries

browser == <<csrf, minted, session, expiries>>
transactions == <<uncommitted, lost>>
vars == <<directory, browser, form, calls, transactions>>

-------------------------------------------------------------------------------
(* Shops and handlers *)

Shop == [tenant : Ids, till : Ids, attendant : UserIds]

\* What a setup makes.
NewShop(f) == [tenant |-> f, till |-> f, attendant |-> <<f, "attendant">>]

\* Calls to POS that insert rows.
Inserts == {"tenants", "tills", "attendants", "rates", "sales"}

Ops == Inserts \union {"pay"}

FirstOp == [setup |-> "tenants", sale |-> "sales"]

NextOp == [tenants |-> "tills", tills |-> "attendants", attendants |-> "rates",
           rates |-> "end", sales |-> "pay", pay |-> "end"]

\* Mutant: no failure after the till stops a setup.
SuppressedMore == {"attendants", "rates"}

\* Failures that ensure_shop suppresses.
Suppressed == {"rates"}

\* shop and sale are what the handler of a form works with; sale is the one POS returned.
FormState ==
  [pc : {"new", "loading", "open", "waiting", "answering", "done"},
   kind : Kinds \union {"none", "api"}, token : Nat, fresh : BOOLEAN,
   shop : Shop \union {None}, sale : Ids \union {None},
   op : Ops \union {"end"}]

TypeOK ==
  /\ DirectoryTypeOK
  /\ csrf \in Nat /\ minted \in Nat
  /\ session \in Shop \union {None}
  /\ form \in [Ids -> FormState]
  /\ calls \subseteq Ids \X Ops
  /\ uncommitted \subseteq Ids \X Inserts /\ lost \subseteq Ids \X Inserts
  /\ expiries \in Nat

Init ==
  /\ DirectoryInit
  /\ csrf = 0 /\ minted = 0
  /\ session = None
  /\ form = [f \in Ids |-> [pc |-> "new", kind |-> "none", token |-> 0, fresh |-> FALSE,
                            shop |-> None, sale |-> None, op |-> "end"]]
  /\ calls = {}
  /\ uncommitted = {} /\ lost = {}
  /\ expiries = 0

\* What MaxFaults bounds.
Faults == expiries + Cardinality(lost)

-------------------------------------------------------------------------------
(* The browser: pages, forms and cookies *)

\* Mutant: every page gets a token of its own.
OwnToken == minted + 1

\* A page carries the token of the cookie, or a new one when the request has no cookie.
PageToken == IF csrf = 0 THEN minted + 1 ELSE csrf

\* The request of a page; the cookie of a new token comes with the response.
Render(f, kind) ==
  /\ form' = [form EXCEPT ![f].pc = "loading", ![f].kind = kind, ![f].token = PageToken,
                          ![f].fresh = csrf = 0]
  /\ minted' = IF csrf = 0 THEN minted + 1 ELSE minted
  /\ UNCHANGED <<directory, csrf, session, expiries, calls, transactions>>

\* Without a shop in the session every page but the home page leads back there.
OpenPage(f, kind) ==
  /\ form[f].pc = "new"
  /\ kind \in {"setup", "reset"} \/ session # None
  /\ kind = "setup" => Cardinality({g \in Ids : form[g].kind = "setup"}) < MaxSetups
  /\ Render(f, kind)

PageArrives(f) ==
  /\ form[f].pc = "loading"
  /\ form' = [form EXCEPT ![f].pc = "open", ![f].fresh = FALSE]
  /\ csrf' = IF form[f].fresh THEN form[f].token ELSE csrf
  /\ UNCHANGED <<directory, minted, session, expiries, calls, transactions>>

TokenMatches(f) == csrf # 0 /\ form[f].token = csrf

\* A token that is not the cookie's: the form is rendered again.
Refuse(f) ==
  /\ form[f].pc = "open" /\ ~TokenMatches(f)
  /\ form[f].kind \in {"setup", "reset"} \/ session # None
  /\ Render(f, form[f].kind)

\* The session is gone: the form ends on the home page.
NoSession(f) ==
  /\ form[f].pc = "open" /\ form[f].kind \notin {"setup", "reset"} /\ session = None
  /\ form' = [form EXCEPT ![f].pc = "done"]
  /\ UNCHANGED <<directory, browser, calls, transactions>>

\* The handler of an accepted form sends its first call.
Submit(f) ==
  /\ form[f].pc = "open" /\ TokenMatches(f) /\ form[f].kind \in {"setup", "sale"}
  /\ form[f].kind = "setup" \/ session # None
  /\ LET op == FirstOp[form[f].kind] IN
       /\ form' = [form EXCEPT ![f].pc = "waiting", ![f].token = 0, ![f].op = op,
                     ![f].shop = IF form[f].kind = "setup" THEN NewShop(f) ELSE session]
       /\ calls' = calls \union {<<f, op>>}
  /\ UNCHANGED <<directory, browser, transactions>>

SubmitReset(f) ==
  /\ form[f].pc = "open" /\ TokenMatches(f) /\ form[f].kind = "reset"
  /\ form' = [form EXCEPT ![f].pc = "answering", ![f].token = 0]
  /\ UNCHANGED <<directory, browser, calls, transactions>>

\* The call to commission and the page that tells of it change no table and no cookie here.
SubmitCommission(f) ==
  /\ form[f].pc = "open" /\ TokenMatches(f) /\ form[f].kind = "commission" /\ session # None
  /\ form' = [form EXCEPT ![f].pc = "done", ![f].token = 0]
  /\ UNCHANGED <<directory, browser, calls, transactions>>

\* The page of a success reaches the browser: a redirect sets the session cookie or deletes it.
Answer(f) ==
  /\ form[f].pc = "answering"
  /\ form' = [form EXCEPT ![f].pc = "done"]
  /\ session' = CASE form[f].kind = "setup" -> form[f].shop
                  [] form[f].kind = "reset" -> None
                  [] OTHER -> session
  /\ UNCHANGED <<directory, csrf, minted, expiries, calls, transactions>>

AnswerLost(f) ==
  /\ form[f].pc = "answering"
  /\ form' = [form EXCEPT ![f].pc = "done"]
  /\ UNCHANGED <<directory, browser, calls, transactions>>

CookieExpires ==
  /\ Faults < MaxFaults
  /\ expiries' = expiries + 1
  /\ \/ csrf' = 0 /\ csrf # 0 /\ UNCHANGED session
     \/ session' = None /\ session # None /\ UNCHANGED csrf
  /\ UNCHANGED <<directory, minted, form, calls, transactions>>

-------------------------------------------------------------------------------
(* The form handler *)

\* The handler goes on after a call: the next one, beside the rest of the requests, or the
\* page that tells of the success.
Proceed(f, sale, rest) ==
  LET op == NextOp[form[f].op] IN
    /\ form' = [form EXCEPT ![f].pc = IF op = "end" THEN "answering" ELSE "waiting",
                            ![f].op = op, ![f].sale = sale]
    /\ calls' = IF op = "end" THEN rest ELSE rest \union {<<f, op>>}

\* An error, a lost reply, or five seconds without one: the form is shown again with the
\* error, which changes no cookie.
Fail(f) ==
  /\ form[f].pc = "waiting"
  /\ IF form[f].op \in Suppressed
       THEN Proceed(f, form[f].sale, calls)
       ELSE /\ form' = [form EXCEPT ![f].pc = "done", ![f].op = "end"]
            /\ UNCHANGED calls
  /\ UNCHANGED <<directory, browser, transactions>>

-------------------------------------------------------------------------------
(* The services *)

\* A client other than the front end: a request to POS with any ids that exist.
ApiCall(f, op, shop, sale) ==
  /\ form[f].pc = "new"
  /\ form' = [form EXCEPT ![f].pc = "done", ![f].kind = "api", ![f].shop = shop,
                          ![f].sale = sale]
  /\ calls' = calls \union {<<f, op>>}
  /\ UNCHANGED <<directory, browser, transactions>>

ApiRequest(f) ==
  \E tenant \in tenants :
    LET shop == [NewShop(f) EXCEPT !.tenant = tenant] IN
      \/ \E op \in {"tills", "attendants"} : ApiCall(f, op, shop, None)
      \/ \E u \in {v \in UserIds : users[v] # None} :
           \/ ApiCall(f, "rates", [shop EXCEPT !.attendant = u], None)
           \/ \E t \in {x \in Ids : tills[x] # None} :
                ApiCall(f, "sales", [shop EXCEPT !.attendant = u, !.till = t], None)
      \/ \E s \in {x \in Ids : sales[x] # None} : ApiCall(f, "pay", shop, s)

\* A success; a request that is refused or fails is one that is never served.  The reply
\* reaches a handler that still waits for it, or nobody.
Reply(f, op, sale) ==
  LET rest == calls \ {<<f, op>>} IN
    /\ \/ form[f].pc = "waiting" /\ form[f].op = op /\ Proceed(f, sale, rest)
       \/ UNCHANGED form /\ calls' = rest
    /\ UNCHANGED browser

\* The insert passes the foreign keys: those of a till or an attendant ask for the tenant.
Accepted(f, op) ==
  LET shop == form[f].shop IN
    CASE op = "tenants" -> TRUE
      [] op \in {"tills", "attendants"} -> shop.tenant \in tenants
      [] op = "rates" -> RateReferences(shop.tenant, shop.attendant)
      [] op = "sales" -> References(shop.tenant, shop.till, shop.attendant)

\* POS inserts and answers; the transaction is still to be committed.
ServeInsert(f, op) ==
  /\ op \in Inserts /\ Accepted(f, op)
  /\ uncommitted' = uncommitted \union {<<f, op>>}
  /\ Reply(f, op, IF op = "sales" THEN f ELSE form[f].sale)
  /\ UNCHANGED <<directory, lost>>

Commit(f, op) ==
  LET shop == form[f].shop IN
    /\ <<f, op>> \in uncommitted
    /\ uncommitted' = uncommitted \ {<<f, op>>}
    /\ \/ op = "tenants" /\ CreateTenant(f)
       \/ op = "tills" /\ CreateTill(shop.tenant, f)
       \/ op = "attendants" /\ CreateAttendant(shop.tenant, f)
       \/ op = "rates" /\ CreateCommissionRate(shop.tenant, shop.attendant)
       \/ op = "sales" /\ CreateSale(f, shop.tenant, shop.till, shop.attendant)
    /\ UNCHANGED <<browser, form, calls, lost>>

\* The commit fails, or the process dies before it.
CommitFails(f, op) ==
  /\ <<f, op>> \in uncommitted
  /\ Faults < MaxFaults
  /\ uncommitted' = uncommitted \ {<<f, op>>}
  /\ lost' = lost \union {<<f, op>>}
  /\ UNCHANGED <<directory, browser, form, calls>>

\* Payments is asked before POS answers; PosSales has what POS commits of it.
ServePay(f) ==
  /\ AskPayments(form[f].shop.tenant, form[f].sale)
  /\ Reply(f, "pay", form[f].sale) /\ UNCHANGED transactions

Serve(f, op) ==
  /\ <<f, op>> \in calls
  /\ \/ ServeInsert(f, op)
     \/ op = "pay" /\ ServePay(f)

BrowserStep(f) ==
  \/ PageArrives(f) \/ Refuse(f) \/ NoSession(f) \/ Submit(f) \/ SubmitReset(f)
  \/ SubmitCommission(f) \/ Answer(f) \/ AnswerLost(f)

Next ==
  \/ \E f \in Ids : BrowserStep(f) \/ Fail(f) \/ ApiRequest(f)
  \/ \E f \in Ids, kind \in Kinds : OpenPage(f, kind)
  \/ \E f \in Ids, op \in Ops : Serve(f, op)
  \/ \E f \in Ids, op \in Inserts : Commit(f, op) \/ CommitFails(f, op)
  \/ CookieExpires

Spec == Init /\ [][Next]_vars

-------------------------------------------------------------------------------
(* Properties *)

\* The transaction of an answered request is not over, or was lost.
Unsettled(f, op) == <<f, op>> \in uncommitted \union lost

\* What the browser is told has happened.  A session holds one shop: its tenant exists, and
\* its till and attendant are rows of this tenant, unless POS answered for the row and its
\* commit is to come or was lost; no failure, late answer or missing call of the setup
\* leaves such a hole.  A sale the browser is sent to exists, in the shop, till and attendant
\* of the form, and payments was asked to collect it (ensure_shop, create_and_pay).
AnswersAreTrue ==
  /\ session # None =>
       /\ session.tenant \in tenants
       /\ tills[session.till] = session.tenant \/ Unsettled(session.till, "tills")
       /\ \/ users[session.attendant] = session.tenant
          \/ Unsettled(session.attendant[1], "attendants")
  /\ \A f \in Ids : form[f].pc = "answering" /\ form[f].kind = "sale" =>
       LET shop == form[f].shop IN
         /\ Visible(shop.tenant, form[f].sale)
         /\ sales[form[f].sale].till = shop.till
         /\ sales[form[f].sale].attendant = shop.attendant
         /\ [tenant |-> shop.tenant, sale |-> form[f].sale] \in asked

\* With no transaction under way, the till and the attendant of a session exist.  The code
\* does not keep this: POS sends its 201 before get_db_session commits, and a row whose
\* commit then fails is missing for good.
SessionShopExists ==
  session # None /\ uncommitted = {} => References(session.tenant, session.till, session.attendant)

\* A form is refused for its token only when a cookie expired or another page was requested
\* while the browser had no cookie: a browser that has one keeps it, however many tabs
\* open and answer in whatever order (_csrf_token, _attach_csrf).
RefusedOnlyAfterRace ==
  \A f \in Ids : form[f].pc = "open" /\ ~TokenMatches(f) => expiries > 0 \/ minted > 1

================================================================================
