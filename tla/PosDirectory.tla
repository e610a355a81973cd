------------------------------ MODULE PosDirectory ------------------------------
(***************************************************************************)
(* The tables of POS that belong to a tenant, and the requests that write  *)
(* them.  Each request runs in one transaction that sets                   *)
(* app.current_tenant_id from X-Tenant-Id, and any client may send any     *)
(* header with any ids: that a row never mixes two tenants is left to the  *)
(* composite foreign keys, checked at the insert against what other        *)
(* transactions have committed, and to the tenant filter of the reads.     *)
(* The tables here are what is committed; when a transaction commits is    *)
(* left to the module that composes this one.                              *)
(*                                                                         *)
(* A row is named by the submission whose request inserts it.  A phone or  *)
(* shortcode that is taken, and a body that does not validate, change      *)
(* nothing.  PosSales has the idempotency keys and statuses of a sale.     *)
(***************************************************************************)

CONSTANTS
  Ids,    \* the submissions, which name the rows
  None    \* no row, no value

UserIds == Ids \X {"owner", "attendant"}

SaleRow == [tenant : Ids, till : Ids, attendant : UserIds]

ASSUME NoneAssumption == None \notin Ids \union SaleRow

VARIABLES
  tenants,   \* pos.tenants
  users,     \* pos.users: the tenant of each row, None while there is no row
  tills,     \* pos.tills: likewise
  rates,     \* pos.commission_rates
  sales,     \* pos.sales: the row, None while there is none
  asked      \* what payments was asked to collect

directory == <<tenants, users, tills, rates, sales, asked>>

DirectoryTypeOK ==
  /\ tenants \subseteq Ids
  /\ users \in [UserIds -> Ids \union {None}]
  /\ tills \in [Ids -> Ids \union {None}]
  /\ rates \subseteq [tenant : Ids, attendant : UserIds]
  /\ sales \in [Ids -> SaleRow \union {None}]
  /\ asked \subseteq [tenant : Ids, sale : Ids]

DirectoryInit ==
  /\ tenants = {}
  /\ users = [u \in UserIds |-> None]
  /\ tills = [t \in Ids |-> None]
  /\ rates = {}
  /\ sales = [s \in Ids |-> None]
  /\ asked = {}

-------------------------------------------------------------------------------
(* The foreign keys of an insert *)

\* Mutant: the foreign keys look at the ids alone.
RowsExist(tenant, till, attendant) ==
  tenant \in tenants /\ tills[till] # None /\ users[attendant] # None

\* The foreign keys of a sale.
References(tenant, till, attendant) ==
  tenant \in tenants /\ tills[till] = tenant /\ users[attendant] = tenant

\* The foreign keys of a rate: they take an owner for an attendant.
RateReferences(tenant, attendant) == tenant \in tenants /\ users[attendant] = tenant

-------------------------------------------------------------------------------
(* What a request that was accepted leaves when it commits *)

\* POST /tenants: the tenant and its owner.
CreateTenant(id) ==
  /\ tenants' = tenants \union {id}
  /\ users' = [users EXCEPT ![<<id, "owner">>] = id]
  /\ UNCHANGED <<tills, rates, sales, asked>>

\* POST /tills
CreateTill(tenant, id) ==
  /\ tills' = [tills EXCEPT ![id] = tenant]
  /\ UNCHANGED <<tenants, users, rates, sales, asked>>

\* POST /attendants
CreateAttendant(tenant, id) ==
  /\ users' = [users EXCEPT ![<<id, "attendant">>] = tenant]
  /\ UNCHANGED <<tenants, tills, rates, sales, asked>>

\* POST /commission-rates
CreateCommissionRate(tenant, attendant) ==
  /\ rates' = rates \union {[tenant |-> tenant, attendant |-> attendant]}
  /\ UNCHANGED <<tenants, users, tills, sales, asked>>

\* POST /sales
CreateSale(id, tenant, till, attendant) ==
  /\ sales' = [sales EXCEPT ![id] = [tenant |-> tenant, till |-> till, attendant |-> attendant]]
  /\ UNCHANGED <<tenants, users, tills, rates, asked>>

-------------------------------------------------------------------------------
(* Collecting a sale *)

\* get_sale: the sale of another tenant is not there.
Visible(tenant, s) == sales[s] # None /\ sales[s].tenant = tenant

\* POST /sales/{id}/pay reaches payments, whether or not POS hears of it or commits.
AskPayments(tenant, s) ==
  /\ Visible(tenant, s)
  /\ asked' = asked \union {[tenant |-> tenant, sale |-> s]}
  /\ UNCHANGED <<tenants, users, tills, rates, sales>>

-------------------------------------------------------------------------------
(* Properties *)

\* No row ever refers to a row of another tenant, whatever ids a client mixes: the till and
\* the attendant of a sale, the attendant of a rate, and the sale payments collects for
\* belong to the tenant it is recorded for (the composite foreign keys, get_sale).
RowsStayInTenant ==
  /\ \A s \in Ids : sales[s] # None =>
       /\ sales[s].tenant \in tenants
       /\ tills[sales[s].till] = sales[s].tenant
       /\ users[sales[s].attendant] = sales[s].tenant
  /\ \A r \in rates : r.tenant \in tenants /\ users[r.attendant] = r.tenant
  /\ \A a \in asked : sales[a.sale] # None /\ sales[a.sale].tenant = a.tenant

================================================================================
