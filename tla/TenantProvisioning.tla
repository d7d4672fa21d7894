------------------------- MODULE TenantProvisioning -------------------------
(***************************************************************************)
(* The life of one tenant id: signups and administrators create it, an     *)
(* administrator deletes it, and the command migrate-workload-identities   *)
(* repairs the credential of an active tenant, in any order and at the     *)
(* same time.  A tenant is a row, a schema, a Keycloak realm and a stored  *)
(* workload credential, each written by a call of its own; nothing is      *)
(* rolled back, and nothing is locked.                                     *)
(*                                                                         *)
(* A call takes effect and succeeds, or fails before or after it took      *)
(* effect (an error, the end of provisionCtx or of the request).  The name *)
(* of the job that generates a secret stands for the secret.  Creators ask *)
(* for the same administrator: a signup that is tried again.               *)
(***************************************************************************)
EXTENDS Naturals, FiniteSets

CONSTANTS Creators,        \* requests that create the tenant
          Deleters,        \* requests that delete it
          Backfills,       \* runs of migrate-workload-identities
          NoSecret,
          MaxTenantFaults  \* bound: failed calls and processes that die

Jobs == Creators \union Deleters \union Backfills

ASSUME TenantAssumption ==
  /\ Creators \cap Deleters = {} /\ Creators \cap Backfills = {}
  /\ Deleters \cap Backfills = {}
  /\ NoSecret \notin Jobs /\ MaxTenantFaults \in Nat

VARIABLES tenantRow,     \* status in public.tenants, or "none"
          stored,        \* secret in tenant_workload_credential
          schema,        \* is the tenant's schema migrated?
          realm,         \* the Keycloak realm of the tenant
          job,           \* the requests
          overlapped,    \* history: other work overlapped the row's creation
          clean,         \* history: the job that has been alone, without faults
          tenantFaults

tenantVars == <<tenantRow, stored, schema, realm, job, overlapped, clean,
                tenantFaults>>

NoRealm == [exists |-> FALSE, frontend |-> FALSE, secret |-> NoSecret,
            roles |-> {}, admin |-> "none"]
defaultRoles == {"admin", "others"}

-----------------------------------------------------------------------------
TenantInit ==
  /\ tenantRow = "none" /\ stored = NoSecret /\ schema = FALSE /\ realm = NoRealm
  /\ job = [j \in Jobs |->
              [pc |-> "idle", secret |-> NoSecret, made |-> FALSE, result |-> "none"]]
  /\ overlapped = FALSE /\ clean = {} /\ tenantFaults = 0

Working(j) == job[j].pc \notin {"idle", "done"}
Alone(j) == \A i \in Jobs \ {j} : ~Working(i)

JobGoes(j, pc) == job' = [job EXCEPT ![j].pc = pc]
Answers(j, result) == job' = [job EXCEPT ![j].pc = "done", ![j].result = result]

NoFault == UNCHANGED <<tenantFaults, clean>>
TenantFault ==
  /\ tenantFaults < MaxTenantFaults
  /\ tenantFaults' = tenantFaults + 1
  /\ clean' = {}

(* tenant.Service.Create: the INSERT fails when the tenant exists, also    *)
(* one whose provisioning failed.                                          *)
InsertTenant(c) ==
  /\ job[c].pc = "idle"
  /\ \/ /\ tenantRow = "none"
        /\ tenantRow' = "PROVISIONING" /\ JobGoes(c, "migrate")
        /\ overlapped' = ~Alone(c)
        /\ clean' = IF Alone(c) THEN {c} ELSE {}
        /\ UNCHANGED tenantFaults
     \/ /\ tenantRow # "none"
        /\ Answers(c, "error") /\ clean' = {}
        /\ UNCHANGED <<tenantRow, overlapped, tenantFaults>>
     \/ /\ tenantRow = "none" /\ TenantFault
        /\ Answers(c, "error") /\ overlapped' = ~Alone(c)
        /\ tenantRow' \in {"none", "PROVISIONING"}
  /\ UNCHANGED <<stored, schema, realm>>

MigrateTenant(c) ==
  /\ job[c].pc = "migrate"
  /\ \/ schema' = TRUE /\ JobGoes(c, "realm") /\ NoFault
     \/ TenantFault /\ JobGoes(c, "unmigrated") /\ schema' \in {schema, TRUE}
  /\ UNCHANGED <<tenantRow, stored, realm, overlapped>>

-----------------------------------------------------------------------------
(* A call of the Keycloak admin API that changes the realm to r, possible  *)
(* when it applies (else 404 or 409).  An error ends ProvisionRealm.       *)
AfterError(j) == IF j \in Creators THEN JobGoes(j, "failed") ELSE Answers(j, "error")

AdminRequest(j, applies, r, next) ==
  /\ \/ applies /\ realm' = r /\ next /\ NoFault
     \/ ~applies /\ UNCHANGED realm /\ AfterError(j) /\ NoFault
     \/ TenantFault /\ AfterError(j) /\ realm' \in {realm, IF applies THEN r ELSE realm}
  /\ UNCHANGED <<tenantRow, stored, schema, overlapped>>

NewRealm == [NoRealm EXCEPT !.exists = TRUE]

createRealmOnce(c) ==   \* mutant: 409 is an error
  /\ job[c].pc = "realm"
  /\ AdminRequest(c, ~realm.exists, NewRealm, JobGoes(c, "frontend"))

createRealm(c) ==
  /\ job[c].pc = "realm"
  /\ AdminRequest(c, TRUE, IF realm.exists THEN realm ELSE NewRealm,
                  JobGoes(c, "frontend"))

createClient(c) ==
  /\ job[c].pc = "frontend"
  /\ AdminRequest(c, realm.exists, [realm EXCEPT !.frontend = TRUE],
                  JobGoes(c, "workload"))

(* EnsureWorkloadIdentity: the client is created with a new secret, or was *)
(* there (409).                                                            *)
CreateWorkloadClient(j) ==
  LET made == realm.secret = NoSecret
  IN  /\ job[j].pc = "workload"
      /\ AdminRequest(j, realm.exists,
           IF made THEN [realm EXCEPT !.secret = j] ELSE realm,
           job' = [job EXCEPT ![j].pc = "verify", ![j].made = made])

SecretGenerated(j) == j   \* mutant: the secret that was sent, also after a 409

(* The new secret, or the one of the client that was there.                *)
SecretOf(j) == IF job[j].made THEN j ELSE realm.secret

(* findClientInternalID, ensureAudienceMapper and getClientSecret.         *)
VerifyWorkloadClient(j) ==
  /\ job[j].pc = "verify"
  /\ AdminRequest(j, realm.secret # NoSecret, realm,
       job' = [job EXCEPT ![j].secret = SecretOf(j),
                          ![j].pc = IF j \in Creators THEN "role" ELSE "store"])

(* createRealmRoles: one request for each role, "admin" first.             *)
createRealmRole(c) ==
  LET role == IF job[c].pc = "role" THEN "admin" ELSE "others"
  IN  /\ job[c].pc \in {"role", "roles"}
      /\ AdminRequest(c, realm.exists, [realm EXCEPT !.roles = @ \union {role}],
                      JobGoes(c, IF role = "admin" THEN "roles" ELSE "store"))

-----------------------------------------------------------------------------
(* workloadidentity.Service.Store: an upsert that refers to the row.       *)
StoreCredential(j) ==
  LET next == IF j \in Creators THEN JobGoes(j, "activate") ELSE Answers(j, "ok")
  IN  /\ job[j].pc = "store"
      /\ \/ /\ tenantRow # "none"
            /\ stored' = job[j].secret /\ next /\ NoFault
         \/ /\ tenantRow = "none"
            /\ UNCHANGED stored /\ AfterError(j) /\ NoFault
         \/ /\ TenantFault /\ AfterError(j)
            /\ stored' \in {stored, IF tenantRow = "none" THEN stored ELSE job[j].secret}
      /\ UNCHANGED <<tenantRow, schema, realm, overlapped>>

(* repo.UpdateStatus: whose row it is, nobody asks.                        *)
UpdateStatus(status, ok, err) ==
  \/ tenantRow # "none" /\ tenantRow' = status /\ ok /\ NoFault
  \/ tenantRow = "none" /\ UNCHANGED tenantRow /\ err /\ NoFault
  \/ /\ TenantFault /\ err
     /\ tenantRow' \in {tenantRow, IF tenantRow = "none" THEN "none" ELSE status}

(* After SeedDefaults, whose error is ignored.                             *)
Activate(c) ==
  /\ job[c].pc = "activate"
  /\ UpdateStatus("ACTIVE", JobGoes(c, "user"), Answers(c, "error"))
  /\ UNCHANGED <<stored, schema, realm, overlapped>>

(* The failure is recorded and Create succeeds; only after a failed        *)
(* migration does it matter that the failure could not be recorded.        *)
MarkFailed(c) ==
  /\ job[c].pc \in {"failed", "unmigrated"}
  /\ UpdateStatus("PROVISIONING_FAILED", JobGoes(c, "user"),
       IF job[c].pc = "failed" THEN JobGoes(c, "user") ELSE Answers(c, "error"))
  /\ UNCHANGED <<stored, schema, realm, overlapped>>

(* Signup and admintenant.Create go on with the administrator, whatever    *)
(* became of the tenant.                                                   *)
CreateUser(c) ==
  LET applies == realm.exists /\ realm.admin = "none"
      r == [realm EXCEPT !.admin = "user"]
  IN  /\ job[c].pc = "user"
      /\ \/ applies /\ realm' = r /\ JobGoes(c, "assign") /\ NoFault
         \/ ~applies /\ UNCHANGED realm /\ Answers(c, "error") /\ NoFault
         \/ TenantFault /\ Answers(c, "error")
            /\ realm' \in {realm, IF applies THEN r ELSE realm}
      /\ UNCHANGED <<tenantRow, stored, schema, overlapped>>

(* CreateUser ignores the error of AssignRole.                             *)
AssignRole(c) ==
  /\ job[c].pc = "assign"
  /\ Answers(c, "ok")
  /\ \/ /\ NoFault
        /\ realm' = IF "admin" \in realm.roles /\ realm.admin # "none"
                    THEN [realm EXCEPT !.admin = "admin"] ELSE realm
     \/ TenantFault /\ UNCHANGED realm
  /\ UNCHANGED <<tenantRow, stored, schema, overlapped>>

-----------------------------------------------------------------------------
(* admintenant.Delete: DeleteRealm (404 is fine), then repo.Delete drops   *)
(* the schema and deletes the row, and the credential with it.             *)
DeleteRealm(d) ==
  /\ job[d].pc = "idle"
  /\ clean' = {}
  /\ \/ realm' = NoRealm /\ JobGoes(d, "drop") /\ UNCHANGED tenantFaults
     \/ TenantFault /\ Answers(d, "error") /\ realm' \in {realm, NoRealm}
  /\ overlapped' = TRUE
  /\ UNCHANGED <<tenantRow, stored, schema>>

DropSchema(d) ==
  /\ job[d].pc = "drop"
  /\ \/ schema' = FALSE /\ JobGoes(d, "delete") /\ NoFault
     \/ TenantFault /\ Answers(d, "error") /\ schema' \in {schema, FALSE}
  /\ UNCHANGED <<tenantRow, stored, realm, overlapped>>

DeleteTenant(d) ==
  /\ job[d].pc = "delete"
  /\ \/ /\ tenantRow # "none"
        /\ tenantRow' = "none" /\ stored' = NoSecret /\ Answers(d, "ok") /\ NoFault
     \/ /\ tenantRow = "none"
        /\ UNCHANGED <<tenantRow, stored>> /\ Answers(d, "error") /\ NoFault
     \/ /\ TenantFault /\ Answers(d, "error")
        /\ \/ UNCHANGED <<tenantRow, stored>>
           \/ tenantRow' = "none" /\ stored' = NoSecret
  /\ UNCHANGED <<schema, realm, overlapped>>

(* migrate-workload-identities lists the active tenants.                   *)
StartBackfill(b) ==
  /\ job[b].pc = "idle"
  /\ tenantRow = "ACTIVE"
  /\ JobGoes(b, "workload")
  /\ clean' = {}
  /\ UNCHANGED <<tenantRow, stored, schema, realm, overlapped, tenantFaults>>

(* The process of a job ends.                                              *)
JobDies(j) ==
  /\ Working(j)
  /\ TenantFault
  /\ Answers(j, "died")
  /\ UNCHANGED <<tenantRow, stored, schema, realm, overlapped>>

TenantNext ==
  \/ \E c \in Creators :
       \/ InsertTenant(c) \/ MigrateTenant(c) \/ createRealm(c) \/ createClient(c)
       \/ createRealmRole(c) \/ Activate(c) \/ MarkFailed(c)
       \/ CreateUser(c) \/ AssignRole(c)
  \/ \E j \in Creators \union Backfills :
       CreateWorkloadClient(j) \/ VerifyWorkloadClient(j) \/ StoreCredential(j)
  \/ \E d \in Deleters : DeleteRealm(d) \/ DropSchema(d) \/ DeleteTenant(d)
  \/ \E b \in Backfills : StartBackfill(b)
  \/ \E j \in Jobs : JobDies(j)

TenantSpec == TenantInit /\ [][TenantNext]_tenantVars

-----------------------------------------------------------------------------
Provisioned ==
  /\ schema
  /\ realm.exists /\ realm.frontend /\ realm.roles = defaultRoles
  /\ stored # NoSecret /\ stored = realm.secret

(* "Only expose the tenant to background jobs after schema provisioning,   *)
(* realm provisioning ..." (tenant/service.go, Create): whatever failed    *)
(* before, and whatever an earlier attempt left in Keycloak, an active     *)
(* tenant has its schema and its realm, and the stored credential is the   *)
(* one the realm accepts, unless a deletion has begun or other work on the *)
(* id was under way when the row was inserted.                             *)
ActiveIsProvisioned == tenantRow = "ACTIVE" /\ ~overlapped => Provisioned

(* "It tolerates 409 Conflict ... for idempotency" (provisioner.go,        *)
(* ProvisionRealm): a creation that inserts the row, meets no fault and    *)
(* has the id for itself ends with an active and provisioned tenant,       *)
(* whatever earlier creations and deletions left behind.  When it reports  *)
(* success its user has the admin role; where an earlier attempt left the  *)
(* account without that role it may report an error instead, and then only *)
(* the account is there.                                                   *)
CleanCreateCompletes ==
  \A c \in clean \cap Creators :
    job[c].pc = "done" =>
      /\ tenantRow = "ACTIVE" /\ Provisioned
      /\ IF job[c].result = "ok" THEN realm.admin = "admin" ELSE realm.admin # "none"
=============================================================================
