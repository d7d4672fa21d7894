---------------------------- MODULE OAuthTokens -----------------------------
(***************************************************************************)
(* The tokens of one OAuth credential (internal/domain/oauth): its row,    *)
(* the cache of client tokens of a process, and the requests that resolve, *)
(* connect, edit and delete the credential at the same time.  The service  *)
(* holds its mutex around the cache only, never around a database or a     *)
(* provider call, and repo.Update writes every column of the row.          *)
(*                                                                         *)
(* A token is the number of the provider's answer that issued it; an       *)
(* access and a refresh token of one answer have the same number.  The     *)
(* configuration of the row (URL, client id, secret, scopes) is the number *)
(* of the edit that wrote it.  The types that need no token (API key,      *)
(* basic, bearer) only read the row and are left out.                      *)
(***************************************************************************)
EXTENDS Naturals, Sequences

CONSTANTS OAuthRequests,   \* HTTP requests that use the credential
          MaxTokens,       \* bound: answers of the provider with a token
          MaxEdits,        \* bound: edits
          MaxOAuthFaults   \* bound: failed calls and crashes

ASSUME OAuthAssumption == MaxTokens \in Nat /\ MaxEdits \in Nat /\ MaxOAuthFaults \in Nat

VARIABLES cred,         \* the row of oauth_credential
          tokenCache,   \* the token cached for it, or NoToken
          rotates,      \* does the provider replace refresh tokens it is given?
          mintedFor,    \* per token: the configuration it was requested with
          good,         \* refresh tokens the provider accepts
          expired,      \* access tokens with less than 30 s to live
          req,          \* the requests
          edits,        \* edits written so far
          applied,      \* history: newest configuration an answered edit wrote
          raced,        \* history: an edit was overtaken by an older request
          lost,         \* history: a replacement was issued and not stored
          oauthFaults

oauthVars == <<cred, tokenCache, rotates, mintedFor, good, expired, req, edits,
               applied, raced, lost, oauthFaults>>

NoToken == 0
Gone == MaxEdits + 2       \* applied, when a delete was answered
Types == {"code", "client"}
NoCred == [exists |-> FALSE]

Cred(type, conf, bearer, refresh, timed) ==
  [exists |-> TRUE, type |-> type, conf |-> conf,
   bearer |-> bearer, refresh |-> refresh, timed |-> timed]

-----------------------------------------------------------------------------
(* The row as Service.Create leaves it: without tokens.                    *)
OAuthInit ==
  /\ \E type \in Types : cred = Cred(type, 1, NoToken, NoToken, FALSE)
  /\ rotates \in BOOLEAN
  /\ tokenCache = NoToken /\ mintedFor = <<>> /\ good = {} /\ expired = {}
  /\ req = [r \in OAuthRequests |->
              [op |-> "none", pc |-> "idle", since |-> 0, seen |-> NoCred,
               mine |-> NoCred, used |-> NoToken, tok |-> NoToken, from |-> "none"]]
  /\ edits = 0 /\ applied = 1 /\ raced = FALSE /\ lost = FALSE /\ oauthFaults = 0

Goes(r, pc) == req' = [req EXCEPT ![r].pc = pc]

(* The request is answered with an error, or with a token it got from      *)
(* somewhere.                                                              *)
Serves(r, t, from) ==
  req' = [req EXCEPT ![r].pc = "done", ![r].tok = t, ![r].from = from]

OAuthFault ==
  /\ oauthFaults < MaxOAuthFaults
  /\ oauthFaults' = oauthFaults + 1

(* The provider answers with a token.                                      *)
Mint(conf) ==
  /\ Len(mintedFor) < MaxTokens
  /\ mintedFor' = Append(mintedFor, conf)

NewToken == Len(mintedFor) + 1

OAuthStart(r, op) ==
  /\ req[r].pc = "idle"
  /\ req' = [req EXCEPT ![r].op = op, ![r].since = applied,
                        ![r].pc = IF op = "delete" THEN "delete" ELSE "read"]
  /\ UNCHANGED <<cred, tokenCache, rotates, mintedFor, good, expired, edits,
                 applied, raced, lost, oauthFaults>>

(* ResolveAuthHeader: a stored token is used when it has no expiry or has  *)
(* not expired.                                                            *)
StoredTokenValid(c) ==
  /\ c.type = "code"
  /\ c.bearer # NoToken
  /\ c.timed => c.bearer \notin expired

(* There is no row, or the query fails.                                    *)
NotRead == (~cred.exists /\ UNCHANGED oauthFaults) \/ OAuthFault

(* repo.GetByID, the first call of every request but Delete.               *)
GetByID(r) ==
  /\ req[r].pc = "read"
  /\ \/ /\ cred.exists /\ UNCHANGED oauthFaults
        /\ req' = [req EXCEPT ![r].seen = cred,
             ![r].pc = IF req[r].op = "exchange" THEN "code"
                       ELSE IF req[r].op = "edit" THEN "save"
                       ELSE IF StoredTokenValid(cred) THEN "done"
                       ELSE IF cred.type = "code" /\ cred.refresh # NoToken THEN "reread"
                       ELSE "look",
             ![r].tok = IF req[r].op = "resolve" /\ StoredTokenValid(cred)
                        THEN cred.bearer ELSE NoToken,
             ![r].from = IF req[r].op = "resolve" /\ StoredTokenValid(cred)
                         THEN "row" ELSE "none"]
     \/ NotRead /\ Goes(r, "done")
  /\ UNCHANGED <<cred, tokenCache, rotates, mintedFor, good, expired, edits,
                 applied, raced, lost>>

-----------------------------------------------------------------------------
(* RefreshToken, called by ResolveAuthHeader, reads the row again.  When   *)
(* it fails, the client credentials of the first read are used instead.    *)
RereadRow(r) ==
  /\ req[r].pc = "reread"
  /\ \/ /\ cred.exists /\ UNCHANGED oauthFaults
        /\ req' = [req EXCEPT ![r].mine = cred, ![r].pc = "refresh"]
     \/ NotRead /\ Goes(r, "look")
  /\ UNCHANGED <<cred, tokenCache, rotates, mintedFor, good, expired, edits,
                 applied, raced, lost>>

RefreshedOnce(c, t) ==   \* mutant: the replacement is not stored
  [c EXCEPT !.bearer = t, !.timed = TRUE]

(* The columns RefreshToken will write: the refresh token it read stays    *)
(* when the answer has none.                                               *)
Refreshed(c, t) ==
  [c EXCEPT !.bearer = t, !.timed = TRUE,
            !.refresh = IF rotates THEN t ELSE c.refresh]

Replace(t) == good' = IF rotates THEN (good \ {t}) \union {NewToken} ELSE good

RequestRefresh(r) ==
  LET c == req[r].mine
  IN  /\ req[r].pc = "refresh"
      /\ \/ /\ c.refresh \in good
            /\ Mint(c.conf) /\ Replace(c.refresh)
            /\ req' = [req EXCEPT ![r].pc = "save", ![r].tok = NewToken,
                                  ![r].used = c.refresh,
                                  ![r].mine = Refreshed(c, NewToken)]
            /\ UNCHANGED <<lost, oauthFaults>>
         \/ (* refused, or the request did not get there *)
            /\ Goes(r, "look")
            /\ UNCHANGED <<mintedFor, good, lost, oauthFaults>>
         \/ (* the answer is lost *)
            /\ c.refresh \in good /\ OAuthFault
            /\ Mint(c.conf) /\ Replace(c.refresh)
            /\ lost' = (lost \/ rotates)
            /\ Goes(r, "look")
      /\ UNCHANGED <<cred, tokenCache, rotates, expired, edits, applied, raced>>

(* ExchangeCode: a refused code or a lost answer is an error.              *)
RequestCode(r) ==
  /\ req[r].pc = "code"
  /\ \/ \E t \in {NoToken, NewToken} :
          /\ Mint(req[r].seen.conf)
          /\ good' = good \union ({t} \ {NoToken})
          /\ req' = [req EXCEPT ![r].pc = "save",
               ![r].mine = [req[r].seen EXCEPT !.bearer = NewToken, !.timed = TRUE,
                                               !.refresh = t]]
     \/ /\ Goes(r, "done")
        /\ UNCHANGED <<mintedFor, good>>
  /\ UNCHANGED <<cred, tokenCache, rotates, expired, edits, applied, raced, lost,
                 oauthFaults>>

(* Service.Update: the merged request, in a credential built without a     *)
(* refresh token and an expiry.                                            *)
Edited(c, type) == Cred(type, edits + 2, c.bearer, NoToken, FALSE)

(* repo.Update is an UPDATE: it brings no row back.                        *)
UpdateRow(c) == cred' = IF cred.exists THEN c ELSE cred

(* repo.Update and what follows it: an edit evicts the cached token, a     *)
(* resolve serves the new one or falls back to the client credentials.     *)
Save(r) ==
  LET op == req[r].op
      edited == op = "edit"
  IN  /\ req[r].pc = "save"
      /\ edited => edits < MaxEdits
      /\ \E type \in (IF edited THEN Types ELSE {"none"}) :
         LET c == IF edited THEN Edited(req[r].seen, type) ELSE req[r].mine
             ok == req' = [req EXCEPT ![r].mine = c,
                     ![r].pc = IF edited THEN "evict" ELSE "done",
                     ![r].from = IF op = "resolve" THEN "refresh" ELSE "none"]
             fails == req' = [req EXCEPT ![r].tok = NoToken,
                        ![r].pc = IF op = "resolve" THEN "look" ELSE "done"]
         IN  \/ /\ cred.exists /\ ok /\ UpdateRow(c)
                /\ UNCHANGED <<lost, oauthFaults>>
             \/ /\ ~cred.exists /\ fails /\ UpdateRow(c)
                /\ UNCHANGED <<lost, oauthFaults>>
             \/ (* the write fails, or only its answer is lost *)
                /\ cred.exists /\ OAuthFault /\ fails
                /\ \/ UpdateRow(c) /\ UNCHANGED lost
                   \/ UNCHANGED cred /\ lost' = (lost \/ (op = "resolve" /\ rotates))
      /\ edits' = IF edited THEN edits + 1 ELSE edits
      /\ raced' = (raced \/ (~edited /\ cred.exists /\ req[r].mine.conf < cred.conf))
      /\ UNCHANGED <<tokenCache, rotates, mintedFor, good, expired, applied>>

-----------------------------------------------------------------------------
(* Service.Delete.                                                         *)
DeleteRow(r) ==
  /\ req[r].pc = "delete"
  /\ \/ /\ cred.exists
        /\ cred' = NoCred /\ Goes(r, "evict") /\ UNCHANGED oauthFaults
     \/ /\ ~cred.exists
        /\ Goes(r, "done") /\ UNCHANGED <<cred, oauthFaults>>
     \/ /\ OAuthFault /\ Goes(r, "done")
        /\ cred' \in {cred, NoCred}
  /\ UNCHANGED <<tokenCache, rotates, mintedFor, good, expired, edits, applied,
                 raced, lost>>

EvictNothing == tokenCache' = tokenCache   \* mutant: the cache is forgotten

(* Update and Delete, after the row.                                       *)
Evict == tokenCache' = NoToken

Newest(a, b) == IF a > b THEN a ELSE b

EvictToken(r) ==
  /\ req[r].pc = "evict"
  /\ Evict /\ Goes(r, "done")
  /\ applied' = IF req[r].op = "delete" THEN Gone ELSE Newest(applied, req[r].mine.conf)
  /\ UNCHANGED <<cred, rotates, mintedFor, good, expired, edits, raced, lost,
                 oauthFaults>>

-----------------------------------------------------------------------------
(* fetchOrCachedToken: the cache is looked up and filled in two critical   *)
(* sections, with the request to the provider in between.                  *)
LookUp(r) ==
  /\ req[r].pc = "look"
  /\ IF tokenCache # NoToken /\ tokenCache \notin expired
     THEN Serves(r, tokenCache, "client")
     ELSE Goes(r, "grant")
  /\ UNCHANGED <<cred, tokenCache, rotates, mintedFor, good, expired, edits,
                 applied, raced, lost, oauthFaults>>

exchangeClientCredentials(r) ==
  /\ req[r].pc = "grant"
  /\ \/ /\ Mint(req[r].seen.conf)
        /\ req' = [req EXCEPT ![r].pc = "put", ![r].tok = NewToken]
     \/ /\ Goes(r, "done")
        /\ UNCHANGED mintedFor
  /\ UNCHANGED <<cred, tokenCache, rotates, good, expired, edits, applied, raced,
                 lost, oauthFaults>>

PutToken(r) ==
  /\ req[r].pc = "put"
  /\ tokenCache' = req[r].tok
  /\ Serves(r, req[r].tok, "client")
  /\ raced' = (raced \/ (req[r].seen.conf < applied /\ req[r].since < applied))
  /\ UNCHANGED <<cred, rotates, mintedFor, good, expired, edits, applied, lost,
                 oauthFaults>>

-----------------------------------------------------------------------------
TokenExpires(t) ==
  /\ t \in (1..Len(mintedFor)) \ expired
  /\ expired' = expired \union {t}
  /\ UNCHANGED <<cred, tokenCache, rotates, mintedFor, good, req, edits, applied,
                 raced, lost, oauthFaults>>

(* A crash ends all requests and empties the cache.                        *)
InFlight(r) == req[r].pc \notin {"idle", "done"}

OAuthCrash ==
  /\ OAuthFault
  /\ \E r \in OAuthRequests : InFlight(r)
  /\ tokenCache' = NoToken
  /\ lost' = (lost \/ \E r \in OAuthRequests :
                        req[r].pc = "save" /\ req[r].op = "resolve" /\ rotates)
  /\ req' = [r \in OAuthRequests |->
       IF InFlight(r) THEN [req[r] EXCEPT !.pc = "done", !.tok = NoToken] ELSE req[r]]
  /\ UNCHANGED <<cred, rotates, mintedFor, good, expired, edits, applied, raced>>

OAuthNext ==
  \/ \E r \in OAuthRequests :
       \/ \E op \in {"resolve", "exchange", "edit", "delete"} : OAuthStart(r, op)
       \/ GetByID(r) \/ RereadRow(r) \/ RequestRefresh(r) \/ RequestCode(r)
       \/ Save(r) \/ DeleteRow(r) \/ EvictToken(r)
       \/ LookUp(r) \/ exchangeClientCredentials(r) \/ PutToken(r)
  \/ \E t \in 1..MaxTokens : TokenExpires(t)
  \/ OAuthCrash

OAuthSpec == OAuthInit /\ [][OAuthNext]_oauthVars

-----------------------------------------------------------------------------
(* RefreshToken stores what the provider issued (service.go, RefreshToken  *)
(* and ExchangeCode): whatever requests refresh, connect and edit at the   *)
(* same time, the stored refresh token is one the provider accepts, unless *)
(* the request that replaced it has still to write, or a fault took the    *)
(* replacement away.                                                       *)
StoredRefreshIsGood ==
  cred.exists /\ cred.refresh # NoToken =>
    \/ cred.refresh \in good
    \/ lost
    \/ \E r \in OAuthRequests : req[r].pc = "save" /\ req[r].used = cred.refresh

(* The cache never outlives what it was filled for (service.go, Update and *)
(* Delete evict it, ResolveAuthHeader reads the row before it): a request  *)
(* that starts after a delete was answered gets no token, and a client     *)
(* token it gets was requested with the configuration of the last answered *)
(* edit, or a newer one.  The exception is a request that read the row     *)
(* before an edit and wrote the cache or the row after it.                 *)
ServedIsCurrent ==
  \A r \in OAuthRequests :
    req[r].pc = "done" /\ req[r].from # "none" =>
      /\ req[r].since # Gone
      /\ req[r].from = "client" => raced \/ mintedFor[req[r].tok] >= req[r].since
=============================================================================
