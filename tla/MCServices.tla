----------------------------- MODULE MCServices -----------------------------
(***************************************************************************)
(* Services that requests use at the same time, each explored by itself:   *)
(* the variable focus is chosen at the start, and only the service it      *)
(* names takes steps.  They share no state.                                *)
(***************************************************************************)
EXTENDS UserInput, OAuthTokens, TenantProvisioning, TLC

VARIABLE focus

Services == {"input", "oauth", "tenant"}

(* UserInput: two runs of a session on one of two pods.                    *)
CONSTANTS r1, r2, p1, p2

MCPodOf == [r \in InputRuns |-> p1]

vars == <<focus, inputVars, oauthVars, tenantVars>>

Init ==
  /\ focus \in Services
  /\ InputInit /\ OAuthInit /\ TenantInit
  /\ focus = "oauth" \/ (cred.type = "code" /\ ~rotates)

Next ==
  /\ UNCHANGED focus
  /\ \/ /\ focus = "input" /\ InputNext
        /\ UNCHANGED <<oauthVars, tenantVars>>
     \/ /\ focus = "oauth" /\ OAuthNext
        /\ UNCHANGED <<inputVars, tenantVars>>
     \/ /\ focus = "tenant" /\ TenantNext
        /\ UNCHANGED <<inputVars, oauthVars>>

Spec == Init /\ [][Next]_vars

(* The runs, and the requests of a credential, are interchangeable.         *)
Symmetry == Permutations(InputRuns) \union Permutations(OAuthRequests)
=============================================================================
