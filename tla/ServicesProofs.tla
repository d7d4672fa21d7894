--------------------------- MODULE ServicesProofs ---------------------------
(***************************************************************************)
(* OAuth connections, for any number of requests, tokens, edits and        *)
(* failures: the stored refresh token is one the provider accepts or is    *)
(* being replaced, and no request is served with the token of an older     *)
(* configuration.                                                          *)
(*                                                                         *)
(* Tenants, for any number of creations, deletions, repairs and failures:  *)
(* an active tenant that nobody else worked on is provisioned, and a       *)
(* creation that meets no fault completes, whatever earlier attempts left  *)
(* behind.                                                                 *)
(***************************************************************************)
EXTENDS OAuthTokens, TenantProvisioning, SequenceTheorems, TLAPS

-----------------------------------------------------------------------------
(* Types, and what a request has done when it is where it is.              *)

Credentials == [exists : {TRUE}, type : Types, conf : Nat, bearer : Nat, refresh : Nat,
                timed : BOOLEAN]
Rows == Credentials \cup {NoCred}
Ops == {"none", "resolve", "exchange", "edit", "delete"}
Requests == [op : Ops,
             pc : {"idle", "read", "reread", "refresh", "code", "save", "delete",
                   "evict", "look", "grant", "put", "done"},
             since : Nat, seen : Rows, mine : Rows, used : Nat, tok : Nat,
             from : {"none", "row", "refresh", "client"}]

(* Every token was minted, and every configuration written, before.        *)
Known(c) == c.exists => c.refresh <= Len(mintedFor) /\ c.conf <= edits + 1

RequestAt(r) ==
  LET q == req[r]
  IN  /\ Known(q.mine) /\ Known(q.seen)
      /\ q.pc = "put" \/ q.from = "client" => q.tok \in 1 .. Len(mintedFor)
      /\ q.pc = "read" => q.op \in {"resolve", "exchange", "edit"}
      /\ q.pc = "code" => q.op = "exchange" /\ q.seen.exists
      /\ q.pc \in {"reread", "refresh", "look", "grant", "put"} =>
           q.op = "resolve" /\ q.seen.exists
      /\ q.pc = "refresh" => q.mine.exists
      /\ q.pc = "save" => /\ q.op \in {"resolve", "exchange", "edit"}
                          /\ q.op # "exchange" => q.seen.exists
                          /\ q.op # "edit" => q.mine.exists
      /\ q.used # NoToken => q.op = "resolve" /\ q.pc \notin {"idle", "read"}
      /\ q.pc = "evict" => q.op = "delete" \/ (q.op = "edit" /\ q.mine.exists)
      /\ q.pc = "delete" => q.op = "delete"
      /\ q.pc = "put" => mintedFor[q.tok] = q.seen.conf
      /\ q.pc # "done" => q.from = "none"

OAuthTypes ==
  /\ cred \in Rows /\ Known(cred)
  /\ mintedFor \in Seq(Nat) /\ tokenCache \in 0 .. Len(mintedFor)
  /\ rotates \in BOOLEAN /\ good \subseteq 1 .. Len(mintedFor)
  /\ lost \in BOOLEAN /\ raced \in BOOLEAN
  /\ edits \in 0 .. MaxEdits
  /\ applied \in Nat /\ (applied <= edits + 1 \/ applied = Gone)
  /\ req \in [OAuthRequests -> Requests]

Base == OAuthTypes /\ \A r \in OAuthRequests : RequestAt(r)

-----------------------------------------------------------------------------
(* Rows.                                                                   *)
LEMMA RowFields ==
  ASSUME NEW c \in Rows
  PROVE  /\ c.exists \in BOOLEAN
         /\ c.exists => /\ c.type \in Types /\ c.conf \in Nat /\ c.bearer \in Nat
                        /\ c.refresh \in Nat /\ c.timed \in BOOLEAN
<1>1. CASE c \in Credentials
  BY <1>1 DEF Credentials
<1>2. CASE c = NoCred
  BY <1>2 DEF NoCred
<1> QED  BY <1>1, <1>2 DEF Rows

(* The rows that refreshes, exchanges and edits write.                     *)
LEMMA WrittenRows ==
  ASSUME NEW c \in Rows, c.exists, NEW t \in Nat, NEW u \in Nat, edits \in Nat
  PROVE  /\ Refreshed(c, t) \in Rows /\ Refreshed(c, t).exists
         /\ Refreshed(c, t).conf = c.conf
         /\ Refreshed(c, t).refresh = IF rotates THEN t ELSE c.refresh
         /\ LET x == [c EXCEPT !.bearer = t, !.timed = TRUE, !.refresh = u]
            IN  x \in Rows /\ x.exists /\ x.conf = c.conf /\ x.refresh = u
         /\ \A type \in Types : /\ Edited(c, type) \in Rows /\ Edited(c, type).exists
                                /\ Edited(c, type).conf = edits + 2
                                /\ Edited(c, type).refresh = NoToken
<1>1. c \in Credentials
  BY DEF Rows, NoCred
<1>2. /\ Refreshed(c, t) \in Rows /\ Refreshed(c, t).exists
      /\ Refreshed(c, t).conf = c.conf
      /\ Refreshed(c, t).refresh = IF rotates THEN t ELSE c.refresh
  BY <1>1 DEF Refreshed, Rows, Credentials
<1>3. LET x == [c EXCEPT !.bearer = t, !.timed = TRUE, !.refresh = u]
      IN  x \in Rows /\ x.exists /\ x.conf = c.conf /\ x.refresh = u
  BY <1>1 DEF Rows, Credentials
<1>4. \A type \in Types : /\ Edited(c, type) \in Rows /\ Edited(c, type).exists
                          /\ Edited(c, type).conf = edits + 2
                          /\ Edited(c, type).refresh = NoToken
  BY <1>1 DEF Edited, Cred, Rows, Credentials, NoToken
<1> QED  BY <1>2, <1>3, <1>4

(* Mint: the tokens minted so far keep their configurations.               *)
LEMMA MintAppends ==
  ASSUME mintedFor \in Seq(Nat), NEW conf \in Nat, Mint(conf)
  PROVE  /\ mintedFor' \in Seq(Nat) /\ Len(mintedFor) \in Nat
         /\ Len(mintedFor') = Len(mintedFor) + 1 /\ NewToken = Len(mintedFor')
         /\ NewToken \in Nat \ {0} /\ NewToken # NoToken
         /\ mintedFor'[NewToken] = conf
         /\ \A t \in 1 .. Len(mintedFor) : mintedFor'[t] = mintedFor[t]
<1>1. Len(mintedFor) \in Nat  BY LenProperties
<1>2. mintedFor' = Append(mintedFor, conf)  BY DEF Mint
<1> QED  BY <1>1, <1>2, AppendProperties DEF NewToken, NoToken

-----------------------------------------------------------------------------
(* Requests that do not move keep what they have done.                     *)

(* What a step does to the rest of the state, as far as the other requests *)
(* can tell: tokens are only added and edits only counted.                 *)
Grows ==
  /\ mintedFor' \in Seq(Nat) /\ Len(mintedFor') >= Len(mintedFor)
  /\ \A t \in 1 .. Len(mintedFor) : mintedFor'[t] = mintedFor[t]
  /\ edits' \in Nat /\ edits' >= edits

(* What a row holds stays known while tokens are minted and settings       *)
(* edited.                                                                 *)
LEMMA KnownGrows ==
  ASSUME mintedFor \in Seq(Nat), edits \in Nat, Grows, NEW c \in Rows, Known(c)
  PROVE  c.exists => c.refresh <= Len(mintedFor') /\ c.conf <= edits' + 1
<1>1. Len(mintedFor) \in Nat /\ Len(mintedFor') \in Nat
  BY LenProperties DEF Grows
<1> QED  BY <1>1, RowFields DEF Known, Grows

(* A request that does not move keeps its invariant.                       *)
LEMMA OthersKept ==
  ASSUME Base, Grows, NEW q \in OAuthRequests, req'[q] = req[q]
  PROVE  RequestAt(q)'
<1>1. /\ Len(mintedFor) \in Nat /\ Len(mintedFor') \in Nat /\ edits \in Nat
      /\ req[q].mine \in Rows /\ req[q].seen \in Rows /\ req[q].tok \in Nat
      /\ mintedFor \in Seq(Nat)
  BY LenProperties DEF Base, OAuthTypes, Grows, Requests
<1>2. RequestAt(q)
  BY DEF Base
<1>3. /\ req[q].mine.exists => /\ req[q].mine.refresh <= Len(mintedFor')
                               /\ req[q].mine.conf <= edits' + 1
      /\ req[q].seen.exists => /\ req[q].seen.refresh <= Len(mintedFor')
                               /\ req[q].seen.conf <= edits' + 1
  BY <1>1, <1>2, KnownGrows DEF RequestAt
<1>4. req[q].pc = "put" \/ req[q].from = "client" => req[q].tok \in 1 .. Len(mintedFor')
  BY <1>1, <1>2 DEF RequestAt, Grows
<1>5. req[q].pc = "put" => mintedFor'[req[q].tok] = req[q].seen.conf
  BY <1>1, <1>2 DEF RequestAt, Grows, NoToken
<1> QED  BY <1>2, <1>3, <1>4, <1>5 DEF RequestAt, Known

(* One request moves, and the rest of the state stays typed.               *)
LEMMA BaseMoves ==
  ASSUME Base, NEW r \in OAuthRequests, Grows,
         \A q \in OAuthRequests \ {r} : req'[q] = req[q],
         req' \in [OAuthRequests -> Requests], RequestAt(r)',
         cred' \in Rows, Known(cred)', tokenCache' \in 0 .. Len(mintedFor'),
         rotates' = rotates, good' \subseteq 1 .. Len(mintedFor'),
         lost' \in BOOLEAN, raced' \in BOOLEAN, edits' <= MaxEdits,
         applied' \in Nat, applied' <= edits' + 1 \/ applied' = Gone
  PROVE  Base'
<1>1. \A q \in OAuthRequests : RequestAt(q)'
  BY OthersKept
<1>2. edits' \in 0 .. MaxEdits
  BY OAuthAssumption DEF Grows
<1>3. OAuthTypes'
  BY <1>2 DEF Base, OAuthTypes, Grows
<1> QED  BY <1>1, <1>3 DEF Base

(* What Base says about the parts of the state.                            *)
LEMMA BaseFacts ==
  ASSUME Base
  PROVE  /\ cred \in Rows /\ Known(cred) /\ Len(mintedFor) \in Nat /\ mintedFor \in Seq(Nat)
         /\ tokenCache \in 0 .. Len(mintedFor) /\ good \subseteq 1 .. Len(mintedFor)
         /\ edits \in Nat /\ edits <= MaxEdits /\ MaxEdits \in Nat
         /\ lost \in BOOLEAN /\ raced \in BOOLEAN /\ rotates \in BOOLEAN
         /\ applied \in Nat /\ (applied <= edits + 1 \/ applied = Gone)
         /\ req \in [OAuthRequests -> Requests]
         /\ \A r \in OAuthRequests : RequestAt(r)
         /\ Known(NoCred) /\ NoCred \in Rows
BY LenProperties, OAuthAssumption DEF Base, OAuthTypes, Known, NoCred, Rows

(* A request moves that touches no more than the row, the cache and the    *)
(* histories.                                                              *)
LEMMA PlainMoves ==
  ASSUME Base, NEW r \in OAuthRequests, UNCHANGED <<mintedFor, edits, rotates, good>>,
         \A q \in OAuthRequests \ {r} : req'[q] = req[q],
         req' \in [OAuthRequests -> Requests], RequestAt(r)',
         cred' \in Rows, cred'.exists => cred'.refresh <= Len(mintedFor) /\ cred'.conf <= edits + 1,
         tokenCache' \in 0 .. Len(mintedFor),
         lost' \in BOOLEAN, raced' \in BOOLEAN,
         applied' \in Nat, applied' <= edits + 1 \/ applied' = Gone
  PROVE  Base'
<1>1. Grows /\ edits' <= MaxEdits /\ edits' = edits /\ mintedFor' = mintedFor
  BY BaseFacts DEF Grows
<1>2. Known(cred)'  BY <1>1 DEF Known
<1>3. tokenCache' \in 0 .. Len(mintedFor') /\ good' \subseteq 1 .. Len(mintedFor')
  BY <1>1, BaseFacts
<1> QED  BY <1>1, <1>2, <1>3, BaseMoves

(* A request only goes on.                                                 *)
LEMMA ReqGoes ==
  ASSUME Base, NEW r \in OAuthRequests, NEW pc, Goes(r, pc),
         pc \in {"idle", "read", "reread", "refresh", "code", "save", "delete",
                "evict", "look", "grant", "put", "done"}
  PROVE  /\ req' \in [OAuthRequests -> Requests]
         /\ \A q \in OAuthRequests \ {r} : req'[q] = req[q]
         /\ req'[r].pc = pc /\ req'[r].op = req[r].op /\ req'[r].since = req[r].since
         /\ req'[r].seen = req[r].seen /\ req'[r].mine = req[r].mine
         /\ req'[r].used = req[r].used /\ req'[r].tok = req[r].tok
         /\ req'[r].from = req[r].from
<1>1. req \in [OAuthRequests -> Requests]  BY BaseFacts
<1> QED  BY <1>1 DEF Goes, Requests

-----------------------------------------------------------------------------
(* Base holds after every step.                                            *)
LEMMA StartBase ==
  ASSUME Base, NEW r \in OAuthRequests, NEW op \in {"resolve", "exchange", "edit", "delete"},
         OAuthStart(r, op)
  PROVE  Base'
<1>1. req \in [OAuthRequests -> Requests] /\ applied \in Nat /\ req[r].pc = "idle"
  BY BaseFacts DEF OAuthStart
<1>2. /\ req' \in [OAuthRequests -> Requests]
      /\ \A q \in OAuthRequests \ {r} : req'[q] = req[q]
      /\ req'[r].pc = IF op = "delete" THEN "delete" ELSE "read"
      /\ req'[r].op = op /\ req'[r].seen = req[r].seen /\ req'[r].mine = req[r].mine
      /\ req'[r].used = req[r].used /\ req'[r].tok = req[r].tok
      /\ req'[r].from = req[r].from
  BY <1>1 DEF OAuthStart, Requests, Ops
<1>3. UNCHANGED <<cred, tokenCache, rotates, mintedFor, good, edits, applied, raced, lost>>
  BY DEF OAuthStart
<1>4. RequestAt(r)'
  <2>1. RequestAt(r)  BY BaseFacts
  <2> QED  BY <1>1, <1>2, <1>3, <2>1 DEF RequestAt, Known, NoToken
<1> QED  BY <1>2, <1>3, <1>4, BaseFacts, PlainMoves DEF Known

(* GetByID.                                                                *)
LEMMA GetByIDBase ==
  ASSUME Base, NEW r \in OAuthRequests, GetByID(r)
  PROVE  Base'
<1>1. /\ req \in [OAuthRequests -> Requests] /\ req[r].pc = "read" /\ RequestAt(r)
      /\ UNCHANGED <<cred, tokenCache, rotates, mintedFor, good, edits, applied, raced, lost>>
      /\ req[r].op # "delete" /\ req[r].used = NoToken /\ req[r].from = "none" /\ Known(req[r].mine)
  BY BaseFacts DEF GetByID, RequestAt
<1> DEFINE valid == StoredTokenValid(cred)
           pc == IF req[r].op = "exchange" THEN "code"
                 ELSE IF req[r].op = "edit" THEN "save"
                 ELSE IF valid THEN "done"
                 ELSE IF cred.type = "code" /\ cred.refresh # NoToken THEN "reread"
                 ELSE "look"
           t == IF req[r].op = "resolve" /\ valid THEN cred.bearer ELSE NoToken
           f == IF req[r].op = "resolve" /\ valid THEN "row" ELSE "none"
<1>2. CASE cred.exists /\ req' = [req EXCEPT ![r].seen = cred, ![r].pc = pc, ![r].tok = t, ![r].from = f]
  <2>1. cred \in Rows /\ cred.bearer \in Nat  BY <1>2, BaseFacts, RowFields
  <2>2. /\ pc \in {"code", "save", "done", "reread", "look"} /\ t \in Nat /\ f \in {"none", "row"}
        /\ pc = "code" <=> req[r].op = "exchange"
        /\ pc = "save" <=> req[r].op = "edit"
        /\ pc # "done" /\ req[r].op = "resolve" => f = "none"
        /\ req[r].op # "resolve" => f = "none"
    BY <2>1 DEF NoToken
  <2> HIDE DEF pc, t, f
  <2>3. /\ req' \in [OAuthRequests -> Requests]
        /\ \A q \in OAuthRequests \ {r} : req'[q] = req[q]
        /\ req'[r].pc = pc /\ req'[r].op = req[r].op /\ req'[r].seen = cred
        /\ req'[r].mine = req[r].mine /\ req'[r].used = req[r].used /\ req'[r].from = f
    BY <1>1, <1>2, <2>1, <2>2 DEF Requests
  <2>4. Known(cred)  BY BaseFacts
  <2>5. req[r].op \in {"resolve", "exchange", "edit", "none"}  BY <1>1 DEF Requests, Ops
  <2>7. req[r].op # "none"  BY <1>1 DEF RequestAt
  <2>8. RequestAt(r)'
    BY <1>1, <1>2, <2>2, <2>3, <2>4, <2>5, <2>7 DEF RequestAt, Known, NoToken
  <2> QED  BY <1>1, <2>3, <2>8, BaseFacts, PlainMoves DEF Known
<1>3. CASE Goes(r, "done")
  <2>1. /\ req' \in [OAuthRequests -> Requests]
        /\ \A q \in OAuthRequests \ {r} : req'[q] = req[q]
        /\ req'[r].pc = "done" /\ req'[r].op = req[r].op /\ req'[r].seen = req[r].seen
        /\ req'[r].mine = req[r].mine /\ req'[r].used = req[r].used /\ req'[r].from = req[r].from
    BY <1>3, ReqGoes
  <2>2. RequestAt(r)'
    BY <1>1, <2>1 DEF RequestAt, Known
  <2> QED  BY <1>1, <2>1, <2>2, BaseFacts, PlainMoves DEF Known
<1> QED  BY <1>2, <1>3 DEF GetByID, NotRead

(* The second read of a refresh.                                           *)
LEMMA RereadRowBase ==
  ASSUME Base, NEW r \in OAuthRequests, RereadRow(r)
  PROVE  Base'
<1>1. /\ req \in [OAuthRequests -> Requests] /\ req[r].pc = "reread" /\ RequestAt(r)
      /\ UNCHANGED <<cred, tokenCache, rotates, mintedFor, good, edits, applied, raced, lost>>
  BY BaseFacts DEF RereadRow
<1>2. CASE cred.exists /\ req' = [req EXCEPT ![r].mine = cred, ![r].pc = "refresh"]
  <2>1. cred \in Rows /\ Known(cred)  BY BaseFacts
  <2>2. /\ req' \in [OAuthRequests -> Requests]
        /\ \A q \in OAuthRequests \ {r} : req'[q] = req[q]
        /\ req'[r].pc = "refresh" /\ req'[r].op = req[r].op /\ req'[r].seen = req[r].seen
        /\ req'[r].mine = cred /\ req'[r].used = req[r].used /\ req'[r].tok = req[r].tok
        /\ req'[r].from = req[r].from
    BY <1>1, <1>2, <2>1 DEF Requests
  <2>3. RequestAt(r)'
    BY <1>1, <1>2, <2>1, <2>2 DEF RequestAt, Known, NoToken
  <2> QED  BY <1>1, <2>2, <2>3, BaseFacts, PlainMoves DEF Known
<1>3. CASE Goes(r, "look")
  <2>1. /\ req' \in [OAuthRequests -> Requests]
        /\ \A q \in OAuthRequests \ {r} : req'[q] = req[q]
        /\ req'[r].pc = "look" /\ req'[r].op = req[r].op /\ req'[r].seen = req[r].seen
        /\ req'[r].mine = req[r].mine /\ req'[r].used = req[r].used /\ req'[r].from = req[r].from
    BY <1>3, ReqGoes
  <2>2. RequestAt(r)'
    BY <1>1, <2>1 DEF RequestAt, Known
  <2> QED  BY <1>1, <2>1, <2>2, BaseFacts, PlainMoves DEF Known
<1> QED  BY <1>2, <1>3 DEF RereadRow, NotRead

(* A step that mints a token for request r, and touches no row, cache or   *)
(* answered edit.                                                          *)
LEMMA MintMoves ==
  ASSUME Base, NEW r \in OAuthRequests, NEW conf \in Nat, Mint(conf),
         UNCHANGED <<cred, tokenCache, rotates, edits, applied, raced>>,
         \A q \in OAuthRequests \ {r} : req'[q] = req[q],
         req' \in [OAuthRequests -> Requests], RequestAt(r)',
         good' \subseteq good \cup {NewToken}, lost' \in BOOLEAN
  PROVE  Base'
<1>1. Len(mintedFor') = Len(mintedFor) + 1 /\ Len(mintedFor) \in Nat /\ NewToken = Len(mintedFor')
  BY BaseFacts, MintAppends
<1>2. Grows
  BY <1>1, BaseFacts, MintAppends DEF Grows
<1>3. Known(cred)'
  BY <1>1, BaseFacts, RowFields DEF Known
<1>4. good' \subseteq 1 .. Len(mintedFor') /\ tokenCache' \in 0 .. Len(mintedFor')
  BY <1>1, BaseFacts
<1> QED  BY <1>2, <1>3, <1>4, BaseFacts, BaseMoves

(* The request of a refresh to the provider.                               *)
LEMMA RequestRefreshBase ==
  ASSUME Base, NEW r \in OAuthRequests, RequestRefresh(r)
  PROVE  Base'
<1> DEFINE c == req[r].mine
<1>1. /\ req \in [OAuthRequests -> Requests] /\ req[r].pc = "refresh" /\ RequestAt(r)
      /\ UNCHANGED <<cred, tokenCache, rotates, edits, applied, raced>>
  BY BaseFacts DEF RequestRefresh
<1>2. /\ c \in Rows /\ c.exists /\ c.conf \in Nat /\ c.refresh \in Nat
      /\ c.refresh <= Len(mintedFor) /\ c.conf <= edits + 1
      /\ req[r].op = "resolve" /\ req[r].seen \in Rows /\ req[r].seen.exists /\ req[r].from = "none"
      /\ req[r].seen.refresh <= Len(mintedFor) /\ req[r].seen.conf <= edits + 1
      /\ req[r].seen.refresh \in Nat
  BY <1>1, RowFields DEF RequestAt, Requests, Known
<1>3. CASE Mint(c.conf) /\ Replace(c.refresh)
  <2>1. /\ NewToken \in Nat \ {0} /\ NewToken # NoToken
        /\ Len(mintedFor') = Len(mintedFor) + 1 /\ Len(mintedFor) \in Nat
        /\ NewToken = Len(mintedFor')
    BY <1>2, <1>3, BaseFacts, MintAppends
  <2>2. good' \subseteq good \cup {NewToken}
    BY <1>3 DEF Replace
  <2>3. CASE /\ lost' = lost
             /\ req' = [req EXCEPT ![r].pc = "save", ![r].tok = NewToken,
                                   ![r].used = c.refresh,
                                   ![r].mine = Refreshed(c, NewToken)]
    <3>1. /\ Refreshed(c, NewToken) \in Rows /\ Refreshed(c, NewToken).exists
          /\ Refreshed(c, NewToken).conf = c.conf
          /\ Refreshed(c, NewToken).refresh = IF rotates THEN NewToken ELSE c.refresh
      BY <1>2, <2>1, BaseFacts, WrittenRows
    <3>2. /\ Refreshed(c, NewToken).refresh <= Len(mintedFor')
      BY <3>1, <1>2, <2>1
    <3> DEFINE m == Refreshed(c, NewToken)
    <3> HIDE DEF m
    <3>3. /\ req' \in [OAuthRequests -> Requests]
          /\ \A q \in OAuthRequests \ {r} : req'[q] = req[q]
          /\ req'[r].pc = "save" /\ req'[r].op = req[r].op /\ req'[r].seen = req[r].seen
          /\ req'[r].mine = m /\ req'[r].used = c.refresh /\ req'[r].tok = NewToken
          /\ req'[r].from = req[r].from
      <4> DEFINE u == c.refresh
                 n == NewToken
      <4>1. req' = [req EXCEPT ![r].pc = "save", ![r].tok = n, ![r].used = u, ![r].mine = m]
        BY <2>3 DEF m
      <4>2. m \in Rows /\ u \in Nat /\ n \in Nat  BY <1>2, <2>1, <3>1 DEF m
      <4>3. u = c.refresh /\ n = NewToken  OBVIOUS
      <4> HIDE DEF u, n
      <4>4. req[r] \in Requests  BY <1>1
      <4>5. req'[r] = [req[r] EXCEPT !.pc = "save", !.tok = n, !.used = u, !.mine = m]
        BY <1>1, <4>1
      <4>6. req'[r] \in Requests  BY <4>2, <4>4, <4>5 DEF Requests
      <4>7. /\ req' \in [OAuthRequests -> Requests]
            /\ \A q \in OAuthRequests \ {r} : req'[q] = req[q]
        BY <1>1, <4>1, <4>6
      <4> QED  BY <4>3, <4>4, <4>5, <4>7 DEF Requests
    <3>4. RequestAt(r)'
      BY <1>1, <1>2, <2>1, <3>1, <3>2, <3>3 DEF RequestAt, Known, NoToken, m
    <3> QED  BY <1>1, <1>2, <1>3, <2>2, <2>3, <3>3, <3>4, BaseFacts, MintMoves
  <2>4. CASE Goes(r, "look") /\ lost' = (lost \/ rotates)
    <3>1. /\ req' \in [OAuthRequests -> Requests]
          /\ \A q \in OAuthRequests \ {r} : req'[q] = req[q]
          /\ req'[r].pc = "look" /\ req'[r].op = req[r].op /\ req'[r].seen = req[r].seen
          /\ req'[r].mine = req[r].mine /\ req'[r].used = req[r].used /\ req'[r].from = req[r].from
      BY <2>4, ReqGoes
    <3>2. RequestAt(r)'
      BY <1>1, <1>2, <2>1, <2>4, <3>1 DEF RequestAt, Known
    <3>3. lost' \in BOOLEAN  BY <2>4, BaseFacts
    <3> QED  BY <1>1, <1>2, <1>3, <2>2, <3>1, <3>2, <3>3, MintMoves
  <2>5. \/ /\ lost' = lost
           /\ req' = [req EXCEPT ![r].pc = "save", ![r].tok = NewToken,
                                 ![r].used = c.refresh,
                                 ![r].mine = Refreshed(c, NewToken)]
        \/ Goes(r, "look") /\ lost' = (lost \/ rotates)
        \/ UNCHANGED <<mintedFor, good, lost>> /\ Goes(r, "look")
    BY DEF RequestRefresh
  <2>6. mintedFor' # mintedFor  BY <2>1
  <2> QED  BY <2>3, <2>4, <2>5, <2>6
<1>4. CASE Goes(r, "look") /\ UNCHANGED <<mintedFor, good, lost>>
  <2>1. /\ req' \in [OAuthRequests -> Requests]
        /\ \A q \in OAuthRequests \ {r} : req'[q] = req[q]
        /\ req'[r].pc = "look" /\ req'[r].op = req[r].op /\ req'[r].seen = req[r].seen
        /\ req'[r].mine = req[r].mine /\ req'[r].used = req[r].used /\ req'[r].from = req[r].from
    BY <1>4, ReqGoes
  <2>2. RequestAt(r)'
    BY <1>1, <1>4, <2>1 DEF RequestAt, Known
  <2> QED  BY <1>1, <1>4, <2>1, <2>2, BaseFacts, PlainMoves DEF Known
<1> QED  BY <1>3, <1>4 DEF RequestRefresh

(* The exchange of a code.                                                 *)
LEMMA RequestCodeBase ==
  ASSUME Base, NEW r \in OAuthRequests, RequestCode(r)
  PROVE  Base'
<1> DEFINE s == req[r].seen
<1>1. /\ req \in [OAuthRequests -> Requests] /\ req[r].pc = "code" /\ RequestAt(r)
      /\ UNCHANGED <<cred, tokenCache, rotates, edits, applied, raced, lost>>
  BY BaseFacts DEF RequestCode
<1>2. /\ s \in Rows /\ s.exists /\ s.conf \in Nat /\ s.refresh \in Nat
      /\ s.refresh <= Len(mintedFor) /\ s.conf <= edits + 1
      /\ req[r].op = "exchange" /\ req[r].from = "none" /\ req[r].used = NoToken
      /\ Known(req[r].mine)
  BY <1>1, RowFields DEF RequestAt, Requests, Known
<1>3. ASSUME NEW t \in {NoToken, NewToken}, Mint(s.conf), good' = good \union ({t} \ {NoToken}),
             req' = [req EXCEPT ![r].pc = "save",
               ![r].mine = [s EXCEPT !.bearer = NewToken, !.timed = TRUE, !.refresh = t]]
      PROVE  Base'
  <2>1. /\ NewToken \in Nat \ {0} /\ NewToken # NoToken
        /\ Len(mintedFor') = Len(mintedFor) + 1 /\ Len(mintedFor) \in Nat
        /\ NewToken = Len(mintedFor')
    BY <1>2, <1>3, BaseFacts, MintAppends
  <2>2. good' \subseteq good \cup {NewToken} /\ t \in Nat /\ t <= Len(mintedFor')
    BY <1>3, <2>1 DEF NoToken
  <2> DEFINE m == [s EXCEPT !.bearer = NewToken, !.timed = TRUE, !.refresh = t]
  <2>3. m \in Rows /\ m.exists /\ m.conf = s.conf /\ m.refresh = t
    <3>1. s \in Credentials  BY <1>2 DEF Rows, NoCred
    <3> QED  BY <2>1, <2>2, <3>1 DEF Rows, Credentials
  <2>4. req' = [req EXCEPT ![r].pc = "save", ![r].mine = m]
    BY <1>3
  <2> HIDE DEF m
  <2>5. /\ req' \in [OAuthRequests -> Requests]
        /\ \A q \in OAuthRequests \ {r} : req'[q] = req[q]
        /\ req'[r].pc = "save" /\ req'[r].op = req[r].op /\ req'[r].seen = s
        /\ req'[r].mine = m /\ req'[r].used = req[r].used /\ req'[r].tok = req[r].tok
        /\ req'[r].from = req[r].from
    BY <1>1, <2>3, <2>4 DEF Requests
  <2>6. RequestAt(r)'
    BY <1>1, <1>2, <2>1, <2>2, <2>3, <2>5 DEF RequestAt, Known, NoToken
  <2>7. lost' \in BOOLEAN  BY <1>1, BaseFacts
  <2> QED  BY <1>1, <1>2, <1>3, <2>2, <2>5, <2>6, <2>7, MintMoves
<1>4. CASE Goes(r, "done") /\ UNCHANGED <<mintedFor, good>>
  <2>1. /\ req' \in [OAuthRequests -> Requests]
        /\ \A q \in OAuthRequests \ {r} : req'[q] = req[q]
        /\ req'[r].pc = "done" /\ req'[r].op = req[r].op /\ req'[r].seen = req[r].seen
        /\ req'[r].mine = req[r].mine /\ req'[r].used = req[r].used /\ req'[r].from = req[r].from
    BY <1>4, ReqGoes
  <2>2. RequestAt(r)'
    BY <1>1, <1>2, <1>4, <2>1 DEF RequestAt, Known, NoToken
  <2> QED  BY <1>1, <1>4, <2>1, <2>2, BaseFacts, PlainMoves DEF Known
<1> QED  BY <1>3, <1>4 DEF RequestCode

(* What a save writes, and what each kind of save does to its request.     *)
LEMMA SaveFacts ==
  ASSUME Base, NEW r \in OAuthRequests, Save(r)
  PROVE  /\ req[r].pc = "save" /\ RequestAt(r) /\ req[r].from = "none"
         /\ UNCHANGED <<tokenCache, rotates, mintedFor, good, applied>>
         /\ raced' \in BOOLEAN
         /\ ~raced' => /\ ~raced
                       /\ req[r].op # "edit" /\ cred.exists => ~(req[r].mine.conf < cred.conf)
         /\ edits' = (IF req[r].op = "edit" THEN edits + 1 ELSE edits)
         /\ edits' <= MaxEdits
         /\ lost' \in BOOLEAN /\ (lost => lost')
         /\ \E c \in Rows :
              /\ c.exists
              /\ c.refresh <= Len(mintedFor) /\ c.conf <= edits' + 1
              /\ IF req[r].op = "edit" THEN c.conf = edits + 2 /\ c.refresh = NoToken
                                       ELSE c = req[r].mine
              /\ \/ /\ cred' = c /\ cred.exists
                    /\ req' = [req EXCEPT ![r].mine = c,
                         ![r].pc = IF req[r].op = "edit" THEN "evict" ELSE "done",
                         ![r].from = IF req[r].op = "resolve" THEN "refresh" ELSE "none"]
                 \/ /\ cred' = c /\ cred.exists
                    /\ req' = [req EXCEPT ![r].tok = NoToken,
                         ![r].pc = IF req[r].op = "resolve" THEN "look" ELSE "done"]
                 \/ /\ cred' = cred
                    /\ ~cred.exists \/ lost' = (lost \/ (req[r].op = "resolve" /\ rotates))
                    /\ req' = [req EXCEPT ![r].tok = NoToken,
                         ![r].pc = IF req[r].op = "resolve" THEN "look" ELSE "done"]
<1> DEFINE op == req[r].op
           edited == op = "edit"
<1>1. /\ req[r].pc = "save" /\ RequestAt(r) /\ req[r].from = "none"
      /\ UNCHANGED <<tokenCache, rotates, mintedFor, good, applied>>
      /\ raced' = (raced \/ (~edited /\ cred.exists /\ req[r].mine.conf < cred.conf))
      /\ edits' = (IF edited THEN edits + 1 ELSE edits)
      /\ (edited => edits < MaxEdits)
  BY BaseFacts DEF Save, RequestAt
<1>2. /\ req[r].mine \in Rows /\ req[r].seen \in Rows /\ edits \in Nat /\ edits <= MaxEdits
      /\ Len(mintedFor) \in Nat /\ MaxEdits \in Nat /\ lost \in BOOLEAN /\ rotates \in BOOLEAN
      /\ IF edited THEN req[r].seen.exists
         ELSE req[r].mine.exists /\ req[r].mine.refresh <= Len(mintedFor)
                /\ req[r].mine.conf <= edits + 1
  BY <1>1, BaseFacts DEF RequestAt, Requests, Known
<1>3. edits' <= MaxEdits  BY <1>1, <1>2
<1>4. PICK type \in (IF edited THEN Types ELSE {"none"}) :
         LET c == IF edited THEN Edited(req[r].seen, type) ELSE req[r].mine
             ok == req' = [req EXCEPT ![r].mine = c,
                     ![r].pc = IF edited THEN "evict" ELSE "done",
                     ![r].from = IF op = "resolve" THEN "refresh" ELSE "none"]
             fails == req' = [req EXCEPT ![r].tok = NoToken,
                        ![r].pc = IF op = "resolve" THEN "look" ELSE "done"]
         IN  \/ /\ cred.exists /\ ok /\ UpdateRow(c)
                /\ UNCHANGED <<lost, oauthFaults>>
             \/ /\ ~cred.exists /\ fails /\ UpdateRow(c)
                /\ UNCHANGED <<lost, oauthFaults>>
             \/ /\ cred.exists /\ OAuthFault /\ fails
                /\ \/ UpdateRow(c) /\ UNCHANGED lost
                   \/ UNCHANGED cred /\ lost' = (lost \/ (op = "resolve" /\ rotates))
  BY DEF Save
<1> DEFINE c == IF edited THEN Edited(req[r].seen, type) ELSE req[r].mine
<1>5. /\ c \in Rows /\ c.exists
      /\ IF edited THEN c.conf = edits + 2 /\ c.refresh = NoToken ELSE c = req[r].mine
  <2>1. CASE edited
    <3>1. type \in Types  BY <1>4, <2>1
    <3>2. /\ Edited(req[r].seen, type) \in Rows /\ Edited(req[r].seen, type).exists
          /\ Edited(req[r].seen, type).conf = edits + 2
          /\ Edited(req[r].seen, type).refresh = NoToken
      BY <1>2, <2>1, <3>1, WrittenRows, 0 \in Nat
    <3> QED  BY <2>1, <3>2
  <2>2. CASE ~edited
    BY <2>2, <1>2
  <2> QED  BY <2>1, <2>2
<1>6. c.refresh <= Len(mintedFor) /\ c.conf <= edits' + 1
  <2>1. CASE edited
    BY <2>1, <1>5, <1>1, <1>2 DEF NoToken
  <2>2. CASE ~edited
    BY <2>2, <1>2, <1>1
  <2> QED  BY <2>1, <2>2
<1>7. /\ \/ /\ cred' = c /\ cred.exists
            /\ req' = [req EXCEPT ![r].mine = c,
                 ![r].pc = IF edited THEN "evict" ELSE "done",
                 ![r].from = IF op = "resolve" THEN "refresh" ELSE "none"]
         \/ /\ cred' = c /\ cred.exists
            /\ req' = [req EXCEPT ![r].tok = NoToken,
                 ![r].pc = IF op = "resolve" THEN "look" ELSE "done"]
         \/ /\ cred' = cred
            /\ ~cred.exists \/ lost' = (lost \/ (op = "resolve" /\ rotates))
            /\ req' = [req EXCEPT ![r].tok = NoToken,
                 ![r].pc = IF op = "resolve" THEN "look" ELSE "done"]
      /\ lost' \in {lost, lost \/ (op = "resolve" /\ rotates)}
  <2> HIDE DEF c
  <2>1. LET ok == req' = [req EXCEPT ![r].mine = c,
                     ![r].pc = IF edited THEN "evict" ELSE "done",
                     ![r].from = IF op = "resolve" THEN "refresh" ELSE "none"]
             fails == req' = [req EXCEPT ![r].tok = NoToken,
                        ![r].pc = IF op = "resolve" THEN "look" ELSE "done"]
         IN  \/ /\ cred.exists /\ ok /\ UpdateRow(c)
                /\ UNCHANGED <<lost, oauthFaults>>
             \/ /\ ~cred.exists /\ fails /\ UpdateRow(c)
                /\ UNCHANGED <<lost, oauthFaults>>
             \/ /\ cred.exists /\ OAuthFault /\ fails
                /\ \/ UpdateRow(c) /\ UNCHANGED lost
                   \/ UNCHANGED cred /\ lost' = (lost \/ (op = "resolve" /\ rotates))
    BY <1>4 DEF c
  <2> QED  BY <2>1 DEF UpdateRow
<1>8. /\ lost' \in BOOLEAN /\ (lost => lost')
      /\ raced' \in BOOLEAN
      /\ ~raced' => /\ ~raced
                    /\ op # "edit" /\ cred.exists => ~(req[r].mine.conf < cred.conf)
  BY <1>1, <1>2, <1>7, BaseFacts
<1> HIDE DEF c
<1> QED  BY <1>1, <1>3, <1>5, <1>6, <1>7, <1>8

(* The save of a refresh, an exchange or an edit.                          *)
LEMMA SaveBase ==
  ASSUME Base, NEW r \in OAuthRequests, Save(r)
  PROVE  Base'
<1>1. /\ req[r].pc = "save" /\ RequestAt(r) /\ req[r].from = "none"
      /\ UNCHANGED <<tokenCache, rotates, mintedFor, good, applied>>
      /\ raced' \in BOOLEAN
      /\ edits' = (IF req[r].op = "edit" THEN edits + 1 ELSE edits)
      /\ edits' <= MaxEdits /\ lost' \in BOOLEAN
  BY SaveFacts
<1>2. PICK c \in Rows :
        /\ c.exists
        /\ c.refresh <= Len(mintedFor) /\ c.conf <= edits' + 1
        /\ \/ /\ cred' = c
              /\ req' = [req EXCEPT ![r].mine = c,
                   ![r].pc = IF req[r].op = "edit" THEN "evict" ELSE "done",
                   ![r].from = IF req[r].op = "resolve" THEN "refresh" ELSE "none"]
           \/ /\ cred' \in {c, cred}
              /\ req' = [req EXCEPT ![r].tok = NoToken,
                   ![r].pc = IF req[r].op = "resolve" THEN "look" ELSE "done"]
  BY SaveFacts
<1>3. /\ Grows /\ edits \in Nat /\ edits' >= edits /\ edits' \in Nat
      /\ mintedFor' = mintedFor /\ Len(mintedFor) \in Nat
  BY <1>1, BaseFacts DEF Grows
<1>4. /\ req \in [OAuthRequests -> Requests] /\ req[r] \in Requests
      /\ req[r].mine \in Rows /\ req[r].seen \in Rows
      /\ req[r].op \in {"resolve", "exchange", "edit"}
  BY <1>1, BaseFacts DEF Requests, RequestAt
<1>5. /\ cred' \in Rows /\ Known(cred)' /\ tokenCache' \in 0 .. Len(mintedFor')
      /\ good' \subseteq 1 .. Len(mintedFor') /\ raced' \in BOOLEAN
      /\ applied' \in Nat /\ (applied' <= edits' + 1 \/ applied' = Gone)
  <2>1. cred' \in Rows /\ Known(cred)'
    <3>1. CASE cred' = c  BY <3>1, <1>2, <1>3 DEF Known
    <3>2. CASE cred' = cred  BY <3>2, <1>3, BaseFacts, RowFields DEF Known
    <3> QED  BY <1>2, <3>1, <3>2
  <2>2. raced' \in BOOLEAN  BY <1>1
  <2>3. applied' \in Nat /\ (applied' <= edits' + 1 \/ applied' = Gone)
    BY <1>1, <1>3, BaseFacts
  <2> QED  BY <1>1, <1>3, <2>1, <2>2, <2>3, BaseFacts
<1>6. /\ req[r].mine.exists => req[r].mine.refresh <= Len(mintedFor') /\ req[r].mine.conf <= edits' + 1
      /\ req[r].seen.exists => req[r].seen.refresh <= Len(mintedFor') /\ req[r].seen.conf <= edits' + 1
  BY <1>1, <1>3, <1>4, BaseFacts, KnownGrows DEF RequestAt
<1>7. /\ req' \in [OAuthRequests -> Requests]
      /\ \A q \in OAuthRequests \ {r} : req'[q] = req[q]
      /\ RequestAt(r)'
  <2>1. CASE req' = [req EXCEPT ![r].mine = c,
                  ![r].pc = IF req[r].op = "edit" THEN "evict" ELSE "done",
                  ![r].from = IF req[r].op = "resolve" THEN "refresh" ELSE "none"]
    <3> DEFINE pc == IF req[r].op = "edit" THEN "evict" ELSE "done"
               f == IF req[r].op = "resolve" THEN "refresh" ELSE "none"
    <3>1. /\ pc \in {"evict", "done"} /\ f \in {"refresh", "none"}
          /\ pc = "evict" <=> req[r].op = "edit"
          /\ pc = "evict" => f = "none"
      BY <1>4
    <3>2. req' = [req EXCEPT ![r].mine = c, ![r].pc = pc, ![r].from = f]
      BY <2>1
    <3> HIDE DEF pc, f
    <3>3. /\ req' \in [OAuthRequests -> Requests]
          /\ \A q \in OAuthRequests \ {r} : req'[q] = req[q]
          /\ req'[r].pc = pc /\ req'[r].op = req[r].op /\ req'[r].seen = req[r].seen
          /\ req'[r].mine = c /\ req'[r].used = req[r].used /\ req'[r].from = f
      BY <1>2, <1>4, <3>1, <3>2 DEF Requests
    <3>4. RequestAt(r)'
      BY <1>1, <1>2, <1>3, <1>4, <1>6, <3>1, <3>3 DEF RequestAt, Known
    <3> QED  BY <3>3, <3>4
  <2>2. CASE req' = [req EXCEPT ![r].tok = NoToken,
                  ![r].pc = IF req[r].op = "resolve" THEN "look" ELSE "done"]
    <3> DEFINE pc == IF req[r].op = "resolve" THEN "look" ELSE "done"
    <3>1. pc \in {"look", "done"} /\ (pc = "look" <=> req[r].op = "resolve")
      OBVIOUS
    <3>2. req' = [req EXCEPT ![r].tok = NoToken, ![r].pc = pc]
      BY <2>2
    <3> HIDE DEF pc
    <3>3. /\ req' \in [OAuthRequests -> Requests]
          /\ \A q \in OAuthRequests \ {r} : req'[q] = req[q]
          /\ req'[r].pc = pc /\ req'[r].op = req[r].op /\ req'[r].seen = req[r].seen
          /\ req'[r].mine = req[r].mine /\ req'[r].used = req[r].used
          /\ req'[r].from = req[r].from
      BY <1>4, <3>1, <3>2 DEF Requests, NoToken
    <3>4. RequestAt(r)'
      BY <1>1, <1>2, <1>3, <1>4, <1>6, <3>1, <3>3 DEF RequestAt, Known
    <3> QED  BY <3>3, <3>4
  <2> QED  BY <1>2, <2>1, <2>2
<1> QED  BY <1>1, <1>3, <1>5, <1>7, BaseMoves

(* Deletes, and what follows the write of an edit or a delete.             *)
LEMMA DeleteRowBase ==
  ASSUME Base, NEW r \in OAuthRequests, DeleteRow(r)
  PROVE  Base'
<1>1. /\ req \in [OAuthRequests -> Requests] /\ req[r].pc = "delete" /\ RequestAt(r)
      /\ UNCHANGED <<tokenCache, rotates, mintedFor, good, edits, applied, raced, lost>>
      /\ cred' \in {cred, NoCred} /\ (Goes(r, "evict") \/ Goes(r, "done"))
  BY BaseFacts DEF DeleteRow
<1>2. PICK pc \in {"evict", "done"} : Goes(r, pc)
  BY <1>1
<1>3. /\ req' \in [OAuthRequests -> Requests]
      /\ \A q \in OAuthRequests \ {r} : req'[q] = req[q]
      /\ req'[r].pc = pc /\ req'[r].op = req[r].op /\ req'[r].seen = req[r].seen
      /\ req'[r].mine = req[r].mine /\ req'[r].used = req[r].used /\ req'[r].from = req[r].from
  BY <1>2, ReqGoes
<1>4. RequestAt(r)'
  BY <1>1, <1>2, <1>3 DEF RequestAt, Known
<1>5. /\ cred' \in Rows
      /\ cred'.exists => cred'.refresh <= Len(mintedFor) /\ cred'.conf <= edits + 1
  BY <1>1, BaseFacts DEF Known, NoCred
<1> QED  BY <1>1, <1>3, <1>4, <1>5, BaseFacts, PlainMoves

(* EvictToken, and which configuration it makes the applied one.           *)
LEMMA EvictTokenBase ==
  ASSUME Base, NEW r \in OAuthRequests, EvictToken(r)
  PROVE  /\ Base'
         /\ req[r].op = "delete" => applied' = Gone
         /\ req[r].op # "delete" => /\ req[r].mine.exists /\ req[r].mine.conf \in Nat
                                    /\ applied' = IF applied > req[r].mine.conf
                                                  THEN applied ELSE req[r].mine.conf
<1>1. /\ req \in [OAuthRequests -> Requests] /\ req[r].pc = "evict" /\ RequestAt(r)
      /\ UNCHANGED <<cred, rotates, mintedFor, good, edits, raced, lost>>
      /\ tokenCache' = NoToken /\ Goes(r, "done")
      /\ applied' = IF req[r].op = "delete" THEN Gone ELSE Newest(applied, req[r].mine.conf)
  BY BaseFacts DEF EvictToken, Evict
<1>2. /\ req' \in [OAuthRequests -> Requests]
      /\ \A q \in OAuthRequests \ {r} : req'[q] = req[q]
      /\ req'[r].pc = "done" /\ req'[r].op = req[r].op /\ req'[r].seen = req[r].seen
      /\ req'[r].mine = req[r].mine /\ req'[r].used = req[r].used /\ req'[r].from = req[r].from
  BY <1>1, ReqGoes
<1>3. RequestAt(r)'
  BY <1>1, <1>2 DEF RequestAt, Known
<1>4. req[r].op # "delete" => /\ req[r].mine.exists /\ req[r].mine.conf \in Nat
                              /\ req[r].mine.conf <= edits + 1
  BY <1>1, RowFields DEF RequestAt, Known, Requests
<1>5. /\ req[r].op = "delete" => applied' = Gone
      /\ req[r].op # "delete" => applied' = IF applied > req[r].mine.conf
                                            THEN applied ELSE req[r].mine.conf
  BY <1>1 DEF Newest
<1>6. applied' \in Nat /\ (applied' <= edits + 1 \/ applied' = Gone)
  BY <1>4, <1>5, BaseFacts DEF Gone
<1>7. tokenCache' \in 0 .. Len(mintedFor)  BY <1>1, BaseFacts DEF NoToken
<1>8. Base'  BY <1>1, <1>2, <1>3, <1>6, <1>7, BaseFacts, PlainMoves DEF Known
<1> QED  BY <1>4, <1>5, <1>8

(* The client credentials: the two critical sections and what is between.  *)
LEMMA LookUpBase ==
  ASSUME Base, NEW r \in OAuthRequests, LookUp(r)
  PROVE  Base'
<1>1. /\ req \in [OAuthRequests -> Requests] /\ req[r].pc = "look" /\ RequestAt(r)
      /\ UNCHANGED <<cred, tokenCache, rotates, mintedFor, good, edits, applied, raced, lost>>
      /\ tokenCache \in 0 .. Len(mintedFor) /\ Len(mintedFor) \in Nat
  BY BaseFacts DEF LookUp
<1>2. CASE tokenCache # NoToken /\ Serves(r, tokenCache, "client")
  <2>1. /\ req' \in [OAuthRequests -> Requests]
        /\ \A q \in OAuthRequests \ {r} : req'[q] = req[q]
        /\ req'[r].pc = "done" /\ req'[r].op = req[r].op /\ req'[r].seen = req[r].seen
        /\ req'[r].mine = req[r].mine /\ req'[r].used = req[r].used
        /\ req'[r].tok = tokenCache /\ req'[r].from = "client"
    <3>1. req' = [req EXCEPT ![r].pc = "done", ![r].tok = tokenCache, ![r].from = "client"]
      BY <1>2 DEF Serves
    <3>2. tokenCache \in Nat /\ req[r] \in Requests  BY <1>1
    <3> QED  BY <1>1, <3>1, <3>2 DEF Requests
  <2>2. tokenCache \in 1 .. Len(mintedFor)
    BY <1>1, <1>2 DEF NoToken
  <2>3. RequestAt(r)'
    BY <1>1, <2>1, <2>2 DEF RequestAt, Known
  <2> QED  BY <1>1, <2>1, <2>3, BaseFacts, PlainMoves DEF Known
<1>3. CASE Goes(r, "grant")
  <2>1. /\ req' \in [OAuthRequests -> Requests]
        /\ \A q \in OAuthRequests \ {r} : req'[q] = req[q]
        /\ req'[r].pc = "grant" /\ req'[r].op = req[r].op /\ req'[r].seen = req[r].seen
        /\ req'[r].mine = req[r].mine /\ req'[r].used = req[r].used /\ req'[r].from = req[r].from
    BY <1>3, ReqGoes
  <2>2. RequestAt(r)'
    BY <1>1, <2>1 DEF RequestAt, Known
  <2> QED  BY <1>1, <2>1, <2>2, BaseFacts, PlainMoves DEF Known
<1> QED  BY <1>2, <1>3 DEF LookUp

(* exchangeClientCredentials.                                              *)
LEMMA ClientGrantBase ==
  ASSUME Base, NEW r \in OAuthRequests, exchangeClientCredentials(r)
  PROVE  Base'
<1>1. /\ req \in [OAuthRequests -> Requests] /\ req[r].pc = "grant" /\ RequestAt(r)
      /\ UNCHANGED <<cred, tokenCache, rotates, good, edits, applied, raced, lost>>
      /\ Len(mintedFor) \in Nat /\ lost \in BOOLEAN
  BY BaseFacts DEF exchangeClientCredentials
<1>2. CASE Mint(req[r].seen.conf) /\ req' = [req EXCEPT ![r].pc = "put", ![r].tok = NewToken]
  <2>1. /\ req[r].seen \in Rows /\ req[r].seen.exists /\ req[r].seen.conf \in Nat
        /\ req[r].seen.refresh \in Nat
    BY <1>1, RowFields DEF RequestAt, Requests
  <2>2. /\ NewToken \in Nat \ {0} /\ Len(mintedFor') = Len(mintedFor) + 1
        /\ NewToken = Len(mintedFor') /\ mintedFor'[NewToken] = req[r].seen.conf
    BY <1>2, <2>1, BaseFacts, MintAppends
  <2>3. /\ req' \in [OAuthRequests -> Requests]
        /\ \A q \in OAuthRequests \ {r} : req'[q] = req[q]
        /\ req'[r].pc = "put" /\ req'[r].op = req[r].op /\ req'[r].seen = req[r].seen
        /\ req'[r].mine = req[r].mine /\ req'[r].used = req[r].used
        /\ req'[r].tok = NewToken /\ req'[r].from = req[r].from
    BY <1>1, <1>2, <2>2 DEF Requests
  <2>4. Known(req[r].mine)'
    <3>1. req[r].mine.exists => req[r].mine.refresh \in Nat
      BY <1>1, RowFields DEF Requests
    <3> QED  BY <1>1, <2>2, <2>3, <3>1 DEF RequestAt, Known
  <2>5. RequestAt(r)'
    BY <1>1, <2>1, <2>2, <2>3, <2>4 DEF RequestAt, Known
  <2>6. good' \subseteq good \cup {NewToken} /\ lost' \in BOOLEAN
    BY <1>1
  <2> QED  BY <1>1, <1>2, <2>1, <2>3, <2>5, <2>6, MintMoves
<1>3. CASE Goes(r, "done") /\ UNCHANGED mintedFor
  <2>1. /\ req' \in [OAuthRequests -> Requests]
        /\ \A q \in OAuthRequests \ {r} : req'[q] = req[q]
        /\ req'[r].pc = "done" /\ req'[r].op = req[r].op /\ req'[r].seen = req[r].seen
        /\ req'[r].mine = req[r].mine /\ req'[r].used = req[r].used /\ req'[r].from = req[r].from
    BY <1>3, ReqGoes
  <2>2. RequestAt(r)'
    BY <1>1, <1>3, <2>1 DEF RequestAt, Known
  <2> QED  BY <1>1, <1>3, <2>1, <2>2, BaseFacts, PlainMoves DEF Known
<1> QED  BY <1>2, <1>3 DEF exchangeClientCredentials

(* PutToken stores and serves a token the provider granted.                *)
LEMMA PutTokenBase ==
  ASSUME Base, NEW r \in OAuthRequests, PutToken(r)
  PROVE  /\ Base'
         /\ req[r].tok \in 1 .. Len(mintedFor)
<1>1. /\ req \in [OAuthRequests -> Requests] /\ req[r].pc = "put" /\ RequestAt(r)
      /\ UNCHANGED <<cred, rotates, mintedFor, good, edits, applied, lost>>
      /\ tokenCache' = req[r].tok /\ Serves(r, req[r].tok, "client")
      /\ raced' = (raced \/ (req[r].seen.conf < applied /\ req[r].since < applied))
      /\ Len(mintedFor) \in Nat
  BY BaseFacts DEF PutToken
<1>2. /\ req' \in [OAuthRequests -> Requests]
      /\ \A q \in OAuthRequests \ {r} : req'[q] = req[q]
      /\ req'[r].pc = "done" /\ req'[r].op = req[r].op /\ req'[r].seen = req[r].seen
      /\ req'[r].mine = req[r].mine /\ req'[r].used = req[r].used
      /\ req'[r].tok = req[r].tok /\ req'[r].from = "client"
  <2> DEFINE t == req[r].tok
  <2>1. req' = [req EXCEPT ![r].pc = "done", ![r].tok = t, ![r].from = "client"]
    BY <1>1 DEF Serves
  <2>2. t \in Nat /\ req[r] \in Requests /\ t = req[r].tok  BY <1>1 DEF Requests
  <2> HIDE DEF t
  <2> QED  BY <1>1, <2>1, <2>2 DEF Requests
<1>3. req[r].tok \in 1 .. Len(mintedFor)
  BY <1>1 DEF RequestAt
<1>4. RequestAt(r)'
  BY <1>1, <1>2, <1>3 DEF RequestAt, Known
<1>5. raced' \in BOOLEAN /\ tokenCache' \in 0 .. Len(mintedFor)
  BY <1>1, <1>3, BaseFacts
<1> QED  BY <1>1, <1>2, <1>3, <1>4, <1>5, BaseFacts, PlainMoves DEF Known

(* Expiry touches no request, a crash ends them all.                       *)
LEMMA SameBase ==
  ASSUME Base, UNCHANGED <<cred, tokenCache, rotates, mintedFor, good, req, edits,
                           applied, raced, lost>>
  PROVE  Base'
BY DEF Base, OAuthTypes, RequestAt, Known

(* A crash: the requests it ends keep what they read.                      *)
LEMMA CrashBase ==
  ASSUME Base, OAuthCrash
  PROVE  /\ Base'
         /\ \A q \in OAuthRequests :
              /\ req'[q].op = req[q].op /\ req'[q].since = req[q].since
              /\ req'[q].seen = req[q].seen /\ req'[q].mine = req[q].mine
              /\ req'[q].used = req[q].used /\ req'[q].from = req[q].from
              /\ req'[q].pc \in {"idle", "done"}
              /\ req'[q].from # "none" => req'[q] = req[q]
<1>1. /\ req \in [OAuthRequests -> Requests]
      /\ UNCHANGED <<cred, rotates, mintedFor, good, expired, edits, applied, raced>>
      /\ tokenCache' = NoToken
      /\ lost' = (lost \/ \E r \in OAuthRequests :
                     req[r].pc = "save" /\ req[r].op = "resolve" /\ rotates)
      /\ req' = [r \in OAuthRequests |->
           IF InFlight(r) THEN [req[r] EXCEPT !.pc = "done", !.tok = NoToken] ELSE req[r]]
  BY BaseFacts DEF OAuthCrash
<1>2. ASSUME NEW q \in OAuthRequests
      PROVE  /\ req'[q] \in Requests
             /\ req'[q].op = req[q].op /\ req'[q].since = req[q].since
             /\ req'[q].seen = req[q].seen /\ req'[q].mine = req[q].mine
             /\ req'[q].used = req[q].used /\ req'[q].from = req[q].from
             /\ req'[q].pc \in {"idle", "done"}
             /\ req'[q].from # "none" => req'[q] = req[q]
             /\ RequestAt(q)'
  <2>1. req[q] \in Requests /\ RequestAt(q)  BY <1>1, BaseFacts
  <2>2. CASE InFlight(q)
    <3>1. req'[q] = [req[q] EXCEPT !.pc = "done", !.tok = NoToken]
      BY <1>1, <2>2
    <3>2. /\ req'[q] \in Requests
          /\ req'[q].op = req[q].op /\ req'[q].since = req[q].since
          /\ req'[q].seen = req[q].seen /\ req'[q].mine = req[q].mine
          /\ req'[q].used = req[q].used /\ req'[q].from = req[q].from
          /\ req'[q].pc = "done"
      <4> DEFINE old == req[q]
                 new == req'[q]
      <4>1. old \in Requests /\ new = [old EXCEPT !.pc = "done", !.tok = 0]
        BY <2>1, <3>1 DEF NoToken
      <4> HIDE DEF old, new
      <4>2. /\ new \in Requests
            /\ new.op = old.op /\ new.since = old.since /\ new.seen = old.seen
            /\ new.mine = old.mine /\ new.used = old.used /\ new.from = old.from
            /\ new.pc = "done"
        BY <4>1 DEF Requests
      <4> QED  BY <4>2 DEF old, new
    <3>3. req[q].from = "none"
      BY <2>1, <2>2 DEF RequestAt, InFlight
    <3> QED  BY <1>1, <2>1, <2>2, <3>2, <3>3 DEF RequestAt, Known, InFlight
  <2>3. CASE ~InFlight(q)
    <3>1. req'[q] = req[q]  BY <1>1, <2>3
    <3>2. req[q].pc \in {"idle", "done"}  BY <2>3 DEF InFlight
    <3> QED  BY <1>1, <2>1, <3>1, <3>2 DEF RequestAt, Known
  <2> QED  BY <2>2, <2>3
<1>3. req' \in [OAuthRequests -> Requests]
  BY <1>1, <1>2
<1>4. OAuthTypes'
  <2>1. lost' \in BOOLEAN  BY <1>1, BaseFacts
  <2>2. Known(cred)'
    <3>1. cred' = cred /\ mintedFor' = mintedFor /\ edits' = edits  BY <1>1
    <3>2. Known(cred)  BY BaseFacts
    <3> QED  BY <3>1, <3>2 DEF Known
  <2>3. tokenCache' \in 0 .. Len(mintedFor')
    <3>1. tokenCache' = 0 /\ mintedFor' = mintedFor  BY <1>1 DEF NoToken
    <3>2. Len(mintedFor) \in Nat  BY BaseFacts
    <3> QED  BY <3>1, <3>2
  <2> QED  BY <1>1, <1>3, <2>1, <2>2, <2>3 DEF Base, OAuthTypes
<1> QED  BY <1>2, <1>4 DEF Base

(* The basic invariant holds at the start.                                 *)
LEMMA InitBase == OAuthInit => Base
<1> SUFFICES ASSUME OAuthInit PROVE Base
  OBVIOUS
<1>1. PICK type \in Types : cred = Cred(type, 1, NoToken, NoToken, FALSE)
  BY DEF OAuthInit
<1>2. /\ mintedFor = << >> /\ good = {} /\ edits = 0 /\ applied = 1 /\ tokenCache = 0
      /\ rotates \in BOOLEAN /\ lost = FALSE /\ raced = FALSE
  BY DEF OAuthInit, NoToken
<1>3. mintedFor \in Seq(Nat) /\ Len(mintedFor) = 0
  BY <1>2
<1>4. cred \in Rows /\ Known(cred)
  BY <1>1, <1>2, <1>3 DEF Cred, Rows, Credentials, NoToken, Known
<1>5. /\ req \in [OAuthRequests -> Requests]
      /\ \A r \in OAuthRequests : RequestAt(r)
  <2>1. req = [r \in OAuthRequests |->
              [op |-> "none", pc |-> "idle", since |-> 0, seen |-> NoCred,
               mine |-> NoCred, used |-> 0, tok |-> 0, from |-> "none"]]
    BY DEF OAuthInit, NoToken
  <2>2. NoCred \in Rows /\ ~NoCred.exists  BY DEF Rows, NoCred
  <2>3. req \in [OAuthRequests -> Requests]  BY <2>1, <2>2 DEF Requests, Ops
  <2> QED  BY <2>1, <2>2, <2>3 DEF RequestAt, Known, NoToken
<1>6. /\ tokenCache \in 0 .. Len(mintedFor) /\ good \subseteq 1 .. Len(mintedFor)
      /\ edits \in 0 .. MaxEdits /\ applied \in Nat /\ applied <= edits + 1
  BY <1>2, <1>3, OAuthAssumption
<1>7. lost \in BOOLEAN /\ raced \in BOOLEAN /\ rotates \in BOOLEAN
  BY <1>2
<1>8. OAuthTypes  BY <1>3, <1>4, <1>5, <1>6, <1>7 DEF OAuthTypes
<1> QED  BY <1>5, <1>8 DEF Base

(* Every step keeps the basic invariant.                                   *)
LEMMA StepBase == Base /\ [OAuthNext]_oauthVars => Base'
<1> SUFFICES ASSUME Base, [OAuthNext]_oauthVars PROVE Base'
  OBVIOUS
<1>1. CASE UNCHANGED oauthVars
  BY <1>1, SameBase DEF oauthVars
<1>2. ASSUME NEW r \in OAuthRequests,
             NEW op \in {"resolve", "exchange", "edit", "delete"}, OAuthStart(r, op)
      PROVE  Base'
  BY <1>2, StartBase
<1>3. ASSUME NEW t \in 1 .. MaxTokens, TokenExpires(t)
      PROVE  Base'
  BY <1>3, SameBase DEF TokenExpires
<1>4. CASE OAuthCrash
  BY <1>4, CrashBase
<1>5. ASSUME NEW r \in OAuthRequests,
             \/ GetByID(r) \/ RereadRow(r) \/ RequestRefresh(r) \/ RequestCode(r)
             \/ Save(r) \/ DeleteRow(r) \/ EvictToken(r)
             \/ LookUp(r) \/ exchangeClientCredentials(r) \/ PutToken(r)
      PROVE  Base'
  BY <1>5, GetByIDBase, RereadRowBase, RequestRefreshBase, RequestCodeBase, SaveBase,
     DeleteRowBase, EvictTokenBase, LookUpBase, ClientGrantBase, PutTokenBase
<1> QED  BY <1>1, <1>2, <1>3, <1>4, <1>5 DEF OAuthNext

-----------------------------------------------------------------------------
(* The refresh tokens.  An unstored replacement is known to one request.   *)

StoredGood ==
  cred.exists /\ cred.refresh # NoToken =>
    \/ cred.refresh \in good
    \/ rotates /\ (lost \/ \E r \in OAuthRequests :
                              req[r].pc = "save" /\ req[r].used = cred.refresh)

(* Requests that may still present or store a refresh token.               *)
HoldsRefresh(r, t) ==
  /\ req[r].pc \in {"refresh", "save"} /\ req[r].op # "edit"
  /\ req[r].mine.refresh = t

Private(r, t) ==
  /\ cred.exists => cred.refresh # t
  /\ \A q \in OAuthRequests \ {r} : ~HoldsRefresh(q, t)

SavedGood(r) ==
  LET t == req[r].mine.refresh
  IN  req[r].pc = "save" /\ req[r].op # "edit" /\ t # NoToken =>
        t \in good /\ (rotates => Private(r, t))

RefreshInv == Base /\ StoredGood /\ \A r \in OAuthRequests : SavedGood(r)

-----------------------------------------------------------------------------
(* The configurations.                                                     *)

CurrentAt(r) ==
  LET q == req[r]
  IN  /\ q.since <= applied
      /\ q.since = Gone => q.pc \in {"read", "delete", "done"} /\ q.from = "none"
      /\ q.pc = "evict" /\ q.op = "delete" => ~cred.exists
      /\ ~raced => /\ q.pc = "evict" /\ q.op = "edit" /\ cred.exists => q.mine.conf <= cred.conf
                   /\ q.op = "resolve"
                        /\ q.pc \in {"reread", "refresh", "save", "look", "grant", "put"}
                      => q.since <= q.seen.conf
                   /\ q.pc = "done" /\ q.from = "client" => q.since <= mintedFor[q.tok]

CurrentInv ==
  /\ Base
  /\ applied <= Gone
  /\ applied = Gone => ~cred.exists
  /\ ~raced /\ cred.exists => applied <= cred.conf
  /\ ~raced /\ tokenCache # NoToken => applied <= mintedFor[tokenCache]
  /\ \A r \in OAuthRequests : CurrentAt(r)

-----------------------------------------------------------------------------
(* RefreshInv is kept.  Most steps neither hold nor store a refresh token. *)
LEMMA RefreshQuiet ==
  ASSUME RefreshInv, Base', NEW r \in OAuthRequests,
         \A q \in OAuthRequests \ {r} : req'[q] = req[q],
         req[r].pc # "save",
         req'[r].pc \in {"refresh", "save"} => req'[r].op = "edit",
         UNCHANGED <<good, rotates>>, cred' \in {cred, NoCred}, lost => lost'
  PROVE  RefreshInv'
<1>1. cred'.exists => cred' = cred
  BY DEF NoCred
<1>2. StoredGood'
  <2>1. SUFFICES ASSUME cred.exists, cred.refresh # NoToken, cred.refresh \notin good, cred' = cred
                 PROVE  rotates /\ (lost' \/ \E q \in OAuthRequests :
                                      req'[q].pc = "save" /\ req'[q].used = cred.refresh)
    BY <1>1 DEF StoredGood
  <2>2. rotates /\ (lost \/ \E q \in OAuthRequests :
                       req[q].pc = "save" /\ req[q].used = cred.refresh)
    BY <2>1 DEF RefreshInv, StoredGood
  <2>3. CASE lost  BY <2>2, <2>3
  <2>4. CASE \E q \in OAuthRequests : req[q].pc = "save" /\ req[q].used = cred.refresh
    <3>1. PICK q \in OAuthRequests : req[q].pc = "save" /\ req[q].used = cred.refresh
      BY <2>4
    <3>2. q # r /\ req'[q] = req[q]  BY <3>1
    <3> QED  BY <2>2, <3>1, <3>2
  <2> QED  BY <2>2, <2>3, <2>4
<1>3. ASSUME NEW p \in OAuthRequests PROVE SavedGood(p)'
  <2>1. CASE p = r  BY <2>1 DEF SavedGood
  <2>2. CASE p # r
    <3>1. req'[p] = req[p] /\ SavedGood(p)  BY <2>2 DEF RefreshInv
    <3>2. \A t : Private(p, t) => Private(p, t)'
      BY <1>1, <2>2 DEF Private, HoldsRefresh
    <3> QED  BY <3>1, <3>2 DEF SavedGood
  <2> QED  BY <2>1, <2>2
<1> QED  BY <1>2, <1>3 DEF RefreshInv

(* The read under the lock: the refresh token the request now holds is     *)
(* the stored one, and no other request holds it.                          *)
LEMMA RereadRowRefresh ==
  ASSUME RefreshInv, Base', NEW r \in OAuthRequests, RereadRow(r)
  PROVE  RefreshInv'
<1>1. /\ req \in [OAuthRequests -> Requests] /\ req[r].pc = "reread"
      /\ UNCHANGED <<cred, rotates, good, lost>> /\ Base
  BY BaseFacts DEF RereadRow, RefreshInv
<1>2. CASE cred.exists /\ req' = [req EXCEPT ![r].mine = cred, ![r].pc = "refresh"]
  <2>1. cred \in Rows  BY <1>1, BaseFacts
  <2>2. /\ \A q \in OAuthRequests \ {r} : req'[q] = req[q]
        /\ req'[r].pc = "refresh" /\ req'[r].mine = cred
    BY <1>1, <1>2, <2>1 DEF Requests
  <2>3. StoredGood'
    <3>1. (\E q \in OAuthRequests : req[q].pc = "save" /\ req[q].used = cred.refresh)
            => \E q \in OAuthRequests : req'[q].pc = "save" /\ req'[q].used = cred.refresh
      BY <1>1, <2>2
    <3> QED  BY <1>1, <3>1 DEF StoredGood, RefreshInv
  <2>4. ASSUME NEW p \in OAuthRequests PROVE SavedGood(p)'
    <3>1. CASE p = r  BY <2>2, <3>1 DEF SavedGood
    <3>2. CASE p # r
      <4>1. req'[p] = req[p] /\ SavedGood(p)  BY <2>2, <3>2 DEF RefreshInv
      <4>2. \A t : Private(p, t) => Private(p, t)'
        BY <1>1, <1>2, <2>2, <3>2 DEF Private, HoldsRefresh
      <4> QED  BY <1>1, <4>1, <4>2 DEF SavedGood
    <3> QED  BY <3>1, <3>2
  <2> QED  BY <2>3, <2>4 DEF RefreshInv
<1>3. CASE Goes(r, "look")
  <2>1. /\ \A q \in OAuthRequests \ {r} : req'[q] = req[q]
        /\ req'[r].pc = "look"
    BY <1>1, <1>3, ReqGoes
  <2> QED  BY <1>1, <2>1, RefreshQuiet
<1> QED  BY <1>2, <1>3 DEF RereadRow, NotRead

(* A new token: nobody has it.                                             *)
LEMMA NewIsPrivate ==
  ASSUME Base
  PROVE  /\ cred.exists => cred.refresh < NewToken /\ cred.refresh \in Nat
         /\ \A q \in OAuthRequests :
              req[q].pc \in {"refresh", "save"} /\ req[q].op # "edit" =>
                req[q].mine.refresh < NewToken /\ req[q].mine.refresh \in Nat
         /\ NewToken \in Nat /\ NewToken \notin good /\ NewToken # NoToken
<1>1. Len(mintedFor) \in Nat /\ good \subseteq 1 .. Len(mintedFor)  BY BaseFacts
<1>2. cred.exists => cred.refresh < NewToken /\ cred.refresh \in Nat
  BY <1>1, BaseFacts, RowFields DEF Known, NewToken
<1>3. ASSUME NEW q \in OAuthRequests, req[q].pc \in {"refresh", "save"}, req[q].op # "edit"
      PROVE  req[q].mine.refresh < NewToken /\ req[q].mine.refresh \in Nat
  <2>1. req[q].mine \in Rows /\ RequestAt(q)  BY BaseFacts DEF Requests
  <2>2. req[q].mine.exists  BY <1>3, <2>1 DEF RequestAt
  <2> QED  BY <1>1, <2>1, <2>2, RowFields DEF RequestAt, Known, NewToken
<1> QED  BY <1>1, <1>2, <1>3 DEF NewToken, NoToken

(* The refresh spends the token that was read and brings another one, or   *)
(* leaves it good.                                                         *)
LEMMA RequestRefreshRefresh ==
  ASSUME RefreshInv, Base', NEW r \in OAuthRequests, RequestRefresh(r)
  PROVE  RefreshInv'
<1> DEFINE c == req[r].mine
           u == req[r].mine.refresh
<1>1. /\ req \in [OAuthRequests -> Requests] /\ req[r].pc = "refresh"
      /\ UNCHANGED <<cred, rotates>> /\ Base /\ RequestAt(r)
      /\ lost \in BOOLEAN /\ rotates \in BOOLEAN
  BY BaseFacts DEF RequestRefresh, RefreshInv
<1>2. /\ c \in Rows /\ c.exists /\ c.conf \in Nat /\ req[r].op = "resolve" /\ u \in Nat
  BY <1>1, RowFields DEF RequestAt, Requests
<1>3. /\ NewToken \in Nat /\ NewToken \notin good /\ NewToken # NoToken
      /\ cred.exists => cred.refresh # NewToken
      /\ \A q \in OAuthRequests : ~HoldsRefresh(q, NewToken)
  BY <1>1, NewIsPrivate DEF HoldsRefresh
<1>4. CASE /\ u \in good /\ Replace(u) /\ lost' = lost
           /\ req' = [req EXCEPT ![r].pc = "save", ![r].tok = NewToken,
                                 ![r].used = u, ![r].mine = Refreshed(c, NewToken)]
  <2> DEFINE m == Refreshed(c, NewToken)
             n == NewToken
  <2>1. m \in Rows /\ m.refresh = IF rotates THEN n ELSE u
    BY <1>1, <1>2, <1>3, BaseFacts, WrittenRows
  <2>2. req' = [req EXCEPT ![r].pc = "save", ![r].tok = n, ![r].used = u, ![r].mine = m]
    BY <1>4
  <2>3. n = NewToken /\ n \in Nat  BY <1>3
  <2> HIDE DEF m, n, u
  <2>4. /\ \A q \in OAuthRequests \ {r} : req'[q] = req[q]
        /\ req'[r].pc = "save" /\ req'[r].op = "resolve" /\ req'[r].used = u /\ req'[r].mine = m
    BY <1>1, <1>2, <2>2 DEF Requests
  <2>5. good' = IF rotates THEN (good \ {u}) \union {n} ELSE good
    BY <1>4, <2>3 DEF Replace
  <2>6. StoredGood'
    <3>1. SUFFICES ASSUME cred.exists, cred.refresh # NoToken
                   PROVE  \/ cred.refresh \in good'
                          \/ rotates /\ (lost \/ \E q \in OAuthRequests :
                                   req'[q].pc = "save" /\ req'[q].used = cred.refresh)
      BY <1>1, <1>4 DEF StoredGood
    <3>2. CASE cred.refresh \in good
      <4>1. CASE rotates /\ cred.refresh = u  BY <2>4, <4>1
      <4>2. CASE ~(rotates /\ cred.refresh = u)  BY <2>5, <3>2, <4>2
      <4> QED  BY <4>1, <4>2
    <3>3. CASE rotates /\ lost  BY <3>3
    <3>4. CASE rotates /\ \E q \in OAuthRequests : req[q].pc = "save" /\ req[q].used = cred.refresh
      <4>1. PICK q \in OAuthRequests : req[q].pc = "save" /\ req[q].used = cred.refresh
        BY <3>4
      <4>2. q # r /\ req'[q] = req[q]  BY <1>1, <2>4, <4>1
      <4> QED  BY <3>4, <4>1, <4>2
    <3> QED  BY <3>1, <3>2, <3>3, <3>4 DEF RefreshInv, StoredGood
  <2>7. ASSUME NEW p \in OAuthRequests PROVE SavedGood(p)'
    <3>1. CASE p = r
      <4>1. m.refresh \in good'
        BY <1>4, <2>1, <2>5 DEF u
      <4>2. \A t : rotates /\ t = m.refresh => Private(r, t)'
        BY <1>1, <1>3, <2>1, <2>3, <2>4 DEF Private, HoldsRefresh
      <4> QED  BY <1>1, <2>4, <3>1, <4>1, <4>2 DEF SavedGood
    <3>2. CASE p # r
      <4>1. req'[p] = req[p] /\ SavedGood(p)  BY <2>4, <3>2 DEF RefreshInv
      <4>2. SUFFICES ASSUME req[p].pc = "save", req[p].op # "edit",
                            NEW t, t = req[p].mine.refresh, t # NoToken
                     PROVE  t \in good' /\ (rotates => Private(p, t)')
        BY <1>1, <4>1 DEF SavedGood
      <4>3. t \in good /\ (rotates => Private(p, t))
        BY <4>1, <4>2 DEF SavedGood
      <4>4. rotates => t # u
        BY <1>1, <1>2, <3>2, <4>3 DEF Private, HoldsRefresh, u
      <4>5. t # n
        BY <2>3, <1>3, <4>3
      <4>6. t \in good'  BY <2>5, <4>3, <4>4
      <4>7. rotates => Private(p, t)'
        BY <1>1, <2>1, <2>4, <4>3, <4>5 DEF Private, HoldsRefresh
      <4> QED  BY <4>6, <4>7
    <3> QED  BY <3>1, <3>2
  <2> QED  BY <2>6, <2>7 DEF RefreshInv
<1>5. CASE u \in good /\ Replace(u) /\ Goes(r, "look") /\ lost' = (lost \/ rotates)
  <2>1. /\ \A q \in OAuthRequests \ {r} : req'[q] = req[q]
        /\ req'[r].pc = "look"
    BY <1>1, <1>5, ReqGoes
  <2>2. CASE ~rotates
    <3>1. good' = good  BY <1>5, <2>2 DEF Replace
    <3>2. lost => lost'  BY <1>1, <1>5
    <3> QED  BY <1>1, <2>1, <3>1, <3>2, RefreshQuiet
  <2>3. CASE rotates
    <3>1. good' = (good \ {u}) \union {NewToken} /\ lost'
      BY <1>5, <2>3 DEF Replace
    <3>2. StoredGood'  BY <1>1, <2>3, <3>1 DEF StoredGood
    <3>3. ASSUME NEW p \in OAuthRequests PROVE SavedGood(p)'
      <4>1. CASE p = r  BY <2>1, <4>1 DEF SavedGood
      <4>2. CASE p # r
        <5>1. req'[p] = req[p] /\ SavedGood(p)  BY <2>1, <4>2 DEF RefreshInv
        <5>2. \A t : Private(p, t) => Private(p, t)' /\ t # u
          BY <1>1, <1>2, <2>1, <4>2 DEF Private, HoldsRefresh
        <5> QED  BY <1>1, <2>3, <3>1, <5>1, <5>2 DEF SavedGood
      <4> QED  BY <4>1, <4>2
    <3> QED  BY <3>2, <3>3 DEF RefreshInv
  <2> QED  BY <1>1, <2>2, <2>3
<1>6. CASE Goes(r, "look") /\ UNCHANGED <<good, lost>>
  <2>1. /\ \A q \in OAuthRequests \ {r} : req'[q] = req[q]
        /\ req'[r].pc = "look"
    BY <1>1, <1>6, ReqGoes
  <2> QED  BY <1>1, <1>6, <2>1, RefreshQuiet
<1> QED  BY <1>4, <1>5, <1>6 DEF RequestRefresh

(* The provider answers the exchange of a code with a token nobody else    *)
(* holds.                                                                  *)
LEMMA RequestCodeRefresh ==
  ASSUME RefreshInv, Base', NEW r \in OAuthRequests, RequestCode(r)
  PROVE  RefreshInv'
<1> DEFINE s == req[r].seen
<1>1. /\ req \in [OAuthRequests -> Requests] /\ req[r].pc = "code"
      /\ UNCHANGED <<cred, rotates, lost>> /\ Base /\ RequestAt(r)
  BY BaseFacts DEF RequestCode, RefreshInv
<1>2. s \in Credentials /\ req[r].op = "exchange"
  BY <1>1 DEF RequestAt, Requests, Rows, NoCred
<1>3. /\ NewToken \in Nat /\ NewToken \notin good /\ NewToken # NoToken
      /\ cred.exists => cred.refresh # NewToken
      /\ \A q \in OAuthRequests : ~HoldsRefresh(q, NewToken)
  BY <1>1, NewIsPrivate DEF HoldsRefresh
<1>4. ASSUME NEW t \in {NoToken, NewToken}, good' = good \union ({t} \ {NoToken}),
             req' = [req EXCEPT ![r].pc = "save",
               ![r].mine = [s EXCEPT !.bearer = NewToken, !.timed = TRUE, !.refresh = t]]
      PROVE  RefreshInv'
  <2> DEFINE m == [s EXCEPT !.bearer = NewToken, !.timed = TRUE, !.refresh = t]
  <2>1. m.refresh = t /\ t \in Nat
    BY <1>2, <1>3, <1>4 DEF Credentials, NoToken
  <2>2. req' = [req EXCEPT ![r].pc = "save", ![r].mine = m]
    BY <1>4
  <2> HIDE DEF m
  <2>3. /\ \A q \in OAuthRequests \ {r} : req'[q] = req[q]
        /\ req'[r].pc = "save" /\ req'[r].mine = m
    BY <1>1, <2>2 DEF Requests
  <2>4. StoredGood'
    <3>1. (\E q \in OAuthRequests : req[q].pc = "save" /\ req[q].used = cred.refresh)
            => \E q \in OAuthRequests : req'[q].pc = "save" /\ req'[q].used = cred.refresh
      BY <1>1, <2>3
    <3> QED  BY <1>1, <1>4, <3>1 DEF StoredGood, RefreshInv
  <2>5. ASSUME NEW p \in OAuthRequests PROVE SavedGood(p)'
    <3>1. CASE p = r
      <4>1. t # NoToken => t \in good' /\ t = NewToken  BY <1>4
      <4>2. t # NoToken => Private(r, t)'
        BY <1>1, <1>3, <2>3, <4>1 DEF Private, HoldsRefresh
      <4> QED  BY <2>1, <2>3, <3>1, <4>1, <4>2 DEF SavedGood
    <3>2. CASE p # r
      <4>1. req'[p] = req[p] /\ SavedGood(p)  BY <2>3, <3>2 DEF RefreshInv
      <4>2. SUFFICES ASSUME req[p].pc = "save", req[p].op # "edit",
                            NEW u, u = req[p].mine.refresh, u # NoToken
                     PROVE  u \in good' /\ (rotates => Private(p, u)')
        BY <1>1, <4>1 DEF SavedGood
      <4>3. u \in good /\ (rotates => Private(p, u))
        BY <4>1, <4>2 DEF SavedGood
      <4>4. u # t  BY <1>3, <1>4, <4>2, <4>3
      <4>5. rotates => Private(p, u)'
        BY <1>1, <2>1, <2>3, <4>3, <4>4 DEF Private, HoldsRefresh
      <4> QED  BY <1>4, <4>3, <4>5
    <3> QED  BY <3>1, <3>2
  <2> QED  BY <2>4, <2>5 DEF RefreshInv
<1>5. CASE Goes(r, "done") /\ UNCHANGED good
  <2>1. /\ \A q \in OAuthRequests \ {r} : req'[q] = req[q]
        /\ req'[r].pc = "done"
    BY <1>1, <1>5, ReqGoes
  <2> QED  BY <1>1, <1>5, <2>1, RefreshQuiet
<1> QED  BY <1>4, <1>5 DEF RequestCode

(* Save stores the refresh token the provider granted last, unless the     *)
(* row went meanwhile.                                                     *)
LEMMA SaveRefresh ==
  ASSUME RefreshInv, Base', NEW r \in OAuthRequests, Save(r)
  PROVE  RefreshInv'
<1>1. /\ req \in [OAuthRequests -> Requests] /\ req[r].pc = "save"
      /\ Base /\ RequestAt(r) /\ UNCHANGED <<rotates, good>>
      /\ lost \in BOOLEAN /\ rotates \in BOOLEAN
      /\ lost' \in BOOLEAN /\ (lost => lost')
  BY BaseFacts, SaveFacts DEF RefreshInv
<1>2. PICK c \in Rows :
        /\ c.exists
        /\ IF req[r].op = "edit" THEN c.conf = edits + 2 /\ c.refresh = NoToken
                                 ELSE c = req[r].mine
        /\ \/ /\ cred' = c /\ cred.exists
              /\ req' = [req EXCEPT ![r].mine = c,
                   ![r].pc = IF req[r].op = "edit" THEN "evict" ELSE "done",
                   ![r].from = IF req[r].op = "resolve" THEN "refresh" ELSE "none"]
           \/ /\ cred' = c /\ cred.exists
              /\ req' = [req EXCEPT ![r].tok = NoToken,
                   ![r].pc = IF req[r].op = "resolve" THEN "look" ELSE "done"]
           \/ /\ cred' = cred
              /\ ~cred.exists \/ lost' = (lost \/ (req[r].op = "resolve" /\ rotates))
              /\ req' = [req EXCEPT ![r].tok = NoToken,
                   ![r].pc = IF req[r].op = "resolve" THEN "look" ELSE "done"]
  BY <1>1, SaveFacts
<1>3. /\ \A q \in OAuthRequests \ {r} : req'[q] = req[q]
      /\ req'[r].pc \in {"evict", "done", "look"}
  BY <1>1, <1>2 DEF Requests
<1>4. CASE cred' = c /\ cred.exists
  <2>1. /\ c.refresh # NoToken => c.refresh \in good
        /\ c.refresh # NoToken /\ rotates => Private(r, c.refresh)
    BY <1>1, <1>2 DEF RefreshInv, SavedGood
  <2>2. StoredGood'  BY <1>1, <1>4, <2>1 DEF StoredGood
  <2>3. ASSUME NEW p \in OAuthRequests PROVE SavedGood(p)'
    <3>1. CASE p = r  BY <1>3, <3>1 DEF SavedGood
    <3>2. CASE p # r
      <4>1. req'[p] = req[p] /\ SavedGood(p)  BY <1>3, <3>2 DEF RefreshInv
      <4>2. SUFFICES ASSUME req[p].pc = "save", req[p].op # "edit",
                            NEW t, t = req[p].mine.refresh, t # NoToken
                     PROVE  t \in good' /\ (rotates => Private(p, t)')
        BY <1>1, <4>1 DEF SavedGood
      <4>3. t \in good /\ (rotates => Private(p, t))
        BY <4>1, <4>2 DEF SavedGood
      <4>4. rotates => c.refresh # t
        BY <1>1, <1>2, <3>2, <4>2, <4>3 DEF Private, HoldsRefresh
      <4>5. rotates => Private(p, t)'
        BY <1>3, <1>4, <4>3, <4>4 DEF Private, HoldsRefresh
      <4> QED  BY <1>1, <4>3, <4>5
    <3> QED  BY <3>1, <3>2
  <2> QED  BY <2>2, <2>3 DEF RefreshInv
<1>5. CASE /\ cred' = cred
           /\ ~cred.exists \/ lost' = (lost \/ (req[r].op = "resolve" /\ rotates))
  <2>1. StoredGood'
    <3>1. SUFFICES ASSUME cred.exists, cred.refresh # NoToken, cred.refresh \notin good
                   PROVE  rotates /\ (lost' \/ \E q \in OAuthRequests :
                                        req'[q].pc = "save" /\ req'[q].used = cred.refresh)
      BY <1>1, <1>5 DEF StoredGood
    <3>2. rotates /\ (lost \/ \E q \in OAuthRequests :
                         req[q].pc = "save" /\ req[q].used = cred.refresh)
      BY <3>1 DEF RefreshInv, StoredGood
    <3>3. CASE lost  BY <1>1, <3>2, <3>3
    <3>4. CASE \E q \in OAuthRequests : req[q].pc = "save" /\ req[q].used = cred.refresh
      <4>1. PICK q \in OAuthRequests : req[q].pc = "save" /\ req[q].used = cred.refresh
        BY <3>4
      <4>2. CASE q = r
        <5>1. req[r].op = "resolve"  BY <1>1, <3>1, <4>1, <4>2 DEF RequestAt
        <5> QED  BY <1>1, <1>5, <3>1, <3>2, <5>1
      <4>3. CASE q # r
        <5>1. req'[q] = req[q]  BY <1>3, <4>3
        <5> QED  BY <3>2, <4>1, <5>1
      <4> QED  BY <4>2, <4>3
    <3> QED  BY <3>2, <3>3, <3>4
  <2>2. ASSUME NEW p \in OAuthRequests PROVE SavedGood(p)'
    <3>1. CASE p = r  BY <1>3, <3>1 DEF SavedGood
    <3>2. CASE p # r
      <4>1. req'[p] = req[p] /\ SavedGood(p)  BY <1>3, <3>2 DEF RefreshInv
      <4>2. \A t : Private(p, t) => Private(p, t)'
        BY <1>3, <1>5, <3>2 DEF Private, HoldsRefresh
      <4> QED  BY <1>1, <4>1, <4>2 DEF SavedGood
    <3> QED  BY <3>1, <3>2
  <2> QED  BY <2>1, <2>2 DEF RefreshInv
<1> QED  BY <1>2, <1>4, <1>5

(* A crash between the answer and Save is what loses a rotated refresh     *)
(* token.                                                                  *)
LEMMA CrashRefresh ==
  ASSUME RefreshInv, Base', OAuthCrash
  PROVE  RefreshInv'
<1>1. /\ Base /\ UNCHANGED <<cred, rotates, good>>
      /\ lost' = (lost \/ \E r \in OAuthRequests :
                     req[r].pc = "save" /\ req[r].op = "resolve" /\ rotates)
      /\ \A q \in OAuthRequests : req'[q].pc \in {"idle", "done"}
  BY CrashBase DEF OAuthCrash, RefreshInv
<1>2. StoredGood'
  <2>1. SUFFICES ASSUME cred.exists, cred.refresh # NoToken, cred.refresh \notin good
                 PROVE  rotates /\ lost'
    BY <1>1 DEF StoredGood
  <2>2. rotates /\ (lost \/ \E q \in OAuthRequests :
                       req[q].pc = "save" /\ req[q].used = cred.refresh)
    BY <2>1 DEF RefreshInv, StoredGood
  <2>3. CASE lost  BY <1>1, <2>2, <2>3
  <2>4. CASE \E q \in OAuthRequests : req[q].pc = "save" /\ req[q].used = cred.refresh
    <3>1. PICK q \in OAuthRequests : req[q].pc = "save" /\ req[q].used = cred.refresh
      BY <2>4
    <3>2. req[q].op = "resolve"  BY <1>1, <2>1, <3>1, BaseFacts DEF RequestAt
    <3> QED  BY <1>1, <2>2, <3>1, <3>2
  <2> QED  BY <2>2, <2>3, <2>4
<1> QED  BY <1>1, <1>2 DEF RefreshInv, SavedGood

(* A step that leaves the row, the good tokens and the requests alone.     *)
LEMMA SameRefresh ==
  ASSUME RefreshInv, Base', UNCHANGED <<cred, rotates, good, req, lost>>
  PROVE  RefreshInv'
BY DEF RefreshInv, StoredGood, SavedGood, Private, HoldsRefresh

(* Every step keeps the refresh invariant.                                 *)
LEMMA StepRefresh == RefreshInv /\ [OAuthNext]_oauthVars => RefreshInv'
<1> SUFFICES ASSUME RefreshInv, [OAuthNext]_oauthVars PROVE RefreshInv'
  OBVIOUS
<1>1. Base /\ Base' /\ req \in [OAuthRequests -> Requests]
  BY StepBase, BaseFacts DEF RefreshInv
<1>2. CASE UNCHANGED oauthVars
  BY <1>1, <1>2, SameRefresh DEF oauthVars
<1>3. ASSUME NEW r \in OAuthRequests,
             NEW op \in {"resolve", "exchange", "edit", "delete"}, OAuthStart(r, op)
      PROVE  RefreshInv'
  <2>1. /\ \A q \in OAuthRequests \ {r} : req'[q] = req[q]
        /\ req[r].pc = "idle" /\ req'[r].pc \in {"delete", "read"}
    BY <1>1, <1>3 DEF OAuthStart, Requests
  <2> QED  BY <1>1, <1>3, <2>1, RefreshQuiet DEF OAuthStart
<1>4. ASSUME NEW r \in OAuthRequests, GetByID(r) PROVE RefreshInv'
  <2>1. /\ \A q \in OAuthRequests \ {r} : req'[q] = req[q]
        /\ req[r].pc = "read"
        /\ req'[r].pc \in {"refresh", "save"} => req'[r].op = "edit"
    BY <1>1, <1>4, ReqGoes DEF GetByID, NotRead, Requests, Goes
  <2> QED  BY <1>1, <1>4, <2>1, RefreshQuiet DEF GetByID
<1>5. ASSUME NEW r \in OAuthRequests, RereadRow(r) PROVE RefreshInv'
  BY <1>1, <1>5, RereadRowRefresh
<1>6. ASSUME NEW r \in OAuthRequests, RequestRefresh(r) PROVE RefreshInv'
  BY <1>1, <1>6, RequestRefreshRefresh
<1>7. ASSUME NEW r \in OAuthRequests, RequestCode(r) PROVE RefreshInv'
  BY <1>1, <1>7, RequestCodeRefresh
<1>8. ASSUME NEW r \in OAuthRequests, Save(r) PROVE RefreshInv'
  BY <1>1, <1>8, SaveRefresh
<1>9. ASSUME NEW r \in OAuthRequests, DeleteRow(r) PROVE RefreshInv'
  <2>1. /\ \A q \in OAuthRequests \ {r} : req'[q] = req[q]
        /\ req[r].pc = "delete" /\ req'[r].pc \in {"evict", "done"}
    BY <1>1, <1>9 DEF DeleteRow, Goes, Requests
  <2>2. UNCHANGED <<good, rotates, lost>> /\ cred' \in {cred, NoCred}
    BY <1>9 DEF DeleteRow
  <2> QED  BY <1>1, <2>1, <2>2, RefreshQuiet
<1>10. ASSUME NEW r \in OAuthRequests, EvictToken(r) PROVE RefreshInv'
  <2>1. /\ \A q \in OAuthRequests \ {r} : req'[q] = req[q]
        /\ req[r].pc = "evict" /\ req'[r].pc = "done"
    BY <1>1, <1>10 DEF EvictToken, Goes, Requests
  <2> QED  BY <1>1, <1>10, <2>1, RefreshQuiet DEF EvictToken
<1>11. ASSUME NEW r \in OAuthRequests, LookUp(r) PROVE RefreshInv'
  <2>1. /\ \A q \in OAuthRequests \ {r} : req'[q] = req[q]
        /\ req[r].pc = "look" /\ req'[r].pc \in {"done", "grant"}
    BY <1>1, <1>11 DEF LookUp, Goes, Serves, Requests
  <2> QED  BY <1>1, <1>11, <2>1, RefreshQuiet DEF LookUp
<1>12. ASSUME NEW r \in OAuthRequests, exchangeClientCredentials(r) PROVE RefreshInv'
  <2>1. /\ \A q \in OAuthRequests \ {r} : req'[q] = req[q]
        /\ req[r].pc = "grant" /\ req'[r].pc \in {"done", "put"}
    BY <1>1, <1>12 DEF exchangeClientCredentials, Goes, Requests
  <2> QED  BY <1>1, <1>12, <2>1, RefreshQuiet DEF exchangeClientCredentials
<1>13. ASSUME NEW r \in OAuthRequests, PutToken(r) PROVE RefreshInv'
  <2>1. /\ \A q \in OAuthRequests \ {r} : req'[q] = req[q]
        /\ req[r].pc = "put" /\ req'[r].pc = "done"
    BY <1>1, <1>13 DEF PutToken, Serves, Requests
  <2> QED  BY <1>1, <1>13, <2>1, RefreshQuiet DEF PutToken
<1>14. ASSUME NEW t \in 1 .. MaxTokens, TokenExpires(t) PROVE RefreshInv'
  BY <1>1, <1>14, SameRefresh DEF TokenExpires
<1>15. CASE OAuthCrash
  BY <1>1, <1>15, CrashRefresh
<1> QED  BY <1>2, <1>3, <1>4, <1>5, <1>6, <1>7, <1>8, <1>9, <1>10, <1>11, <1>12, <1>13,
         <1>14, <1>15 DEF OAuthNext

(* The stored refresh token is one the provider accepts, or it is being    *)
(* replaced, or a fault took the replacement (service.go, RefreshToken and *)
(* ExchangeCode), whatever runs at the same time.                          *)
THEOREM StoredRefreshGood == OAuthSpec => []StoredRefreshIsGood
<1>1. OAuthInit => RefreshInv
  <2> SUFFICES ASSUME OAuthInit PROVE RefreshInv
    OBVIOUS
  <2>1. Base  BY InitBase
  <2>2. PICK type \in Types : cred = Cred(type, 1, NoToken, NoToken, FALSE)
    BY DEF OAuthInit
  <2>3. StoredGood  BY <2>2 DEF StoredGood, Cred
  <2>4. \A r \in OAuthRequests : req[r].pc = "idle"  BY DEF OAuthInit
  <2> QED  BY <2>1, <2>3, <2>4 DEF RefreshInv, SavedGood
<1>2. RefreshInv => StoredRefreshIsGood
  BY DEF RefreshInv, StoredGood, StoredRefreshIsGood
<1> QED  BY <1>1, <1>2, StepRefresh, PTL DEF OAuthSpec

-----------------------------------------------------------------------------
(* CurrentInv is kept.                                                     *)

(* What no step undoes: tokens keep their configuration, answered edits    *)
(* and the race are never forgotten, the row never returns, and an older   *)
(* configuration replaces a newer one only in a race.                      *)
Onward ==
  /\ Grows
  /\ applied' >= applied /\ (raced => raced')
  /\ cred'.exists => cred.exists
  /\ ~raced' /\ cred'.exists => cred.conf <= cred'.conf

(* A request that does not move keeps its share of the invariant while     *)
(* the applied configuration moves on.                                     *)
LEMMA OthersCurrent ==
  ASSUME CurrentInv, Base', Onward, NEW q \in OAuthRequests, req'[q] = req[q]
  PROVE  CurrentAt(q)'
<1>1. /\ Base /\ CurrentAt(q) /\ RequestAt(q) /\ req[q] \in Requests
      /\ applied \in Nat /\ applied' \in Nat /\ cred \in Rows /\ cred' \in Rows
      /\ req[q].since \in Nat /\ req[q].mine \in Rows
      /\ raced \in BOOLEAN /\ raced' \in BOOLEAN
  <2>1. Base  BY DEF CurrentInv
  <2>2. applied' \in Nat /\ cred' \in Rows /\ raced' \in BOOLEAN
    BY DEF Base, OAuthTypes
  <2> QED  BY <2>1, <2>2, BaseFacts DEF CurrentInv, Requests
<1>2. req[q].since <= applied'
  BY <1>1 DEF CurrentAt, Onward
<1>3. ~raced' /\ req[q].pc = "evict" /\ req[q].op = "edit" /\ cred'.exists =>
        req[q].mine.conf <= cred'.conf
  <2>1. SUFFICES ASSUME ~raced', req[q].pc = "evict", req[q].op = "edit", cred'.exists
                 PROVE  req[q].mine.conf <= cred'.conf
    OBVIOUS
  <2>2. req[q].mine.exists  BY <1>1, <2>1 DEF RequestAt
  <2>3. req[q].mine.conf \in Nat /\ cred.conf \in Nat /\ cred'.conf \in Nat
    BY <1>1, <2>1, <2>2, RowFields DEF Onward
  <2> QED  BY <1>1, <2>1, <2>3 DEF CurrentAt, Onward
<1>4. ~raced' /\ req[q].pc = "done" /\ req[q].from = "client" =>
        req[q].since <= mintedFor'[req[q].tok]
  BY <1>1 DEF CurrentAt, RequestAt, Onward, Grows
<1> QED  BY <1>1, <1>2, <1>3, <1>4 DEF CurrentAt, Onward

(* A step that writes no row, evicts nothing and caches nothing.           *)
LEMMA CurrentQuiet ==
  ASSUME CurrentInv, Base', Grows, NEW r \in OAuthRequests,
         \A q \in OAuthRequests \ {r} : req'[q] = req[q],
         cred' \in {cred, NoCred}, UNCHANGED <<applied, raced, tokenCache>>,
         CurrentAt(r)'
  PROVE  CurrentInv'
<1>1. /\ Base /\ applied \in Nat /\ tokenCache \in 0 .. Len(mintedFor) /\ cred \in Rows
  BY BaseFacts DEF CurrentInv
<1>2. cred'.exists => cred' = cred
  BY DEF NoCred
<1>3. Onward
  <2>1. cred.exists => cred.conf \in Nat  BY <1>1, RowFields
  <2> QED  BY <1>1, <1>2, <2>1 DEF Onward
<1>4. \A q \in OAuthRequests : CurrentAt(q)'
  BY <1>3, OthersCurrent
<1>5. ~raced /\ tokenCache # NoToken => mintedFor'[tokenCache] = mintedFor[tokenCache]
  BY <1>1 DEF Grows, NoToken
<1>6. Gone' = Gone  BY DEF Gone
<1> QED  BY <1>1, <1>2, <1>4, <1>5, <1>6 DEF CurrentInv

(* What the invariant says, unfolded for the leaves below.                 *)
LEMMA CurrentFacts ==
  ASSUME CurrentInv
  PROVE  /\ Base /\ applied \in Nat /\ Gone \in Nat /\ applied <= Gone
         /\ req \in [OAuthRequests -> Requests]
         /\ \A q \in OAuthRequests :
              /\ req[q] \in Requests /\ req[q].since \in Nat /\ req[q].since <= applied
              /\ req[q].tok \in Nat /\ CurrentAt(q) /\ RequestAt(q)
              /\ req[q].since = Gone => ~cred.exists
         /\ cred \in Rows /\ (cred.exists => cred.conf \in Nat)
         /\ raced \in BOOLEAN
<1>1. Base /\ applied <= Gone /\ (applied = Gone => ~cred.exists)
  BY DEF CurrentInv
<1>2. Gone \in Nat /\ applied \in Nat /\ cred \in Rows /\ raced \in BOOLEAN
  BY <1>1, BaseFacts, OAuthAssumption DEF Gone
<1>3. cred.exists => cred.conf \in Nat
  BY <1>2, RowFields
<1>4. ASSUME NEW q \in OAuthRequests
      PROVE  /\ req[q] \in Requests /\ req[q].since \in Nat /\ req[q].since <= applied
             /\ req[q].tok \in Nat /\ CurrentAt(q) /\ RequestAt(q)
             /\ req[q].since = Gone => ~cred.exists
  <2>1. req[q] \in Requests /\ RequestAt(q) /\ CurrentAt(q)
    BY <1>1, BaseFacts DEF CurrentInv
  <2>2. req[q].since \in Nat /\ req[q].tok \in Nat  BY <2>1 DEF Requests
  <2>3. req[q].since <= applied  BY <2>1 DEF CurrentAt
  <2> QED  BY <1>1, <1>2, <2>1, <2>2, <2>3
<1> QED  BY <1>1, <1>2, <1>3, <1>4, BaseFacts

(* Without a mint and an edit.                                             *)
LEMMA GrowsSame ==
  ASSUME Base, UNCHANGED <<mintedFor, edits>>
  PROVE  Grows
BY BaseFacts DEF Grows

(* The provider minting a token adds to what is known.                     *)
LEMMA GrowsMint ==
  ASSUME Base, NEW conf \in Nat, Mint(conf), edits' = edits
  PROVE  Grows
<1>1. Len(mintedFor') = Len(mintedFor) + 1 /\ Len(mintedFor) \in Nat
  BY BaseFacts, MintAppends
<1> QED  BY <1>1, BaseFacts, MintAppends DEF Grows

(* A request whose position changes and nothing else of it that matters.   *)
LEMMA GoesCurrent ==
  ASSUME CurrentInv, Base', Grows, NEW r \in OAuthRequests,
         \A q \in OAuthRequests \ {r} : req'[q] = req[q],
         cred' \in {cred, NoCred}, UNCHANGED <<applied, raced, tokenCache>>,
         req'[r].since = req[r].since, req'[r].seen = req[r].seen,
         req'[r].op = req[r].op, req[r].pc \notin {"idle", "done"},
         req'[r].pc # "evict", req'[r].from \in {"none", "row", "refresh"},
         req[r].since = Gone => req'[r].pc = "done" /\ req'[r].from = "none",
         req'[r].op = "resolve" /\ req[r].pc \notin {"reread", "refresh", "save", "look", "grant", "put"}
           => req'[r].pc \notin {"reread", "refresh", "save", "look", "grant", "put"}
  PROVE  CurrentInv'
<1>1. CurrentAt(r)'
  <2>1. CurrentAt(r)  BY DEF CurrentInv
  <2>2. Gone' = Gone  BY DEF Gone
  <2> QED  BY <2>1, <2>2 DEF CurrentAt
<1> QED  BY <1>1, CurrentQuiet

(* A request begins: it remembers the configuration applied at that        *)
(* moment.                                                                 *)
LEMMA StartCurrent ==
  ASSUME CurrentInv, Base', NEW r \in OAuthRequests,
         NEW op \in {"resolve", "exchange", "edit", "delete"}, OAuthStart(r, op)
  PROVE  CurrentInv'
<1>1. /\ UNCHANGED <<cred, mintedFor, edits, applied, raced, tokenCache>>
      /\ req[r].pc = "idle"
  BY DEF OAuthStart
<1>2. /\ \A q \in OAuthRequests \ {r} : req'[q] = req[q]
      /\ req'[r].pc \in {"delete", "read"} /\ req'[r].since = applied
      /\ req'[r].from = req[r].from
  BY CurrentFacts DEF OAuthStart, Requests
<1>3. req[r].from = "none"  BY <1>1, CurrentFacts DEF RequestAt
<1>4. CurrentAt(r)'  BY <1>1, <1>2, <1>3, CurrentFacts DEF CurrentAt
<1> QED  BY <1>1, <1>2, <1>4, CurrentFacts, GrowsSame, CurrentQuiet

(* GetByID reads a row at least as new as the configuration applied when   *)
(* the request began.                                                      *)
LEMMA GetByIDCurrent ==
  ASSUME CurrentInv, Base', NEW r \in OAuthRequests, GetByID(r)
  PROVE  CurrentInv'
<1>1. /\ UNCHANGED <<cred, mintedFor, edits, applied, raced, tokenCache>>
      /\ req[r].pc = "read" /\ req[r].from = "none"
      /\ req[r].op \in {"resolve", "exchange", "edit"}
      /\ req \in [OAuthRequests -> Requests]
  BY CurrentFacts DEF GetByID, RequestAt
<1>2. Grows  BY <1>1, CurrentFacts, GrowsSame
<1> DEFINE valid == StoredTokenValid(cred)
           pc == IF req[r].op = "exchange" THEN "code"
                 ELSE IF req[r].op = "edit" THEN "save"
                 ELSE IF valid THEN "done"
                 ELSE IF cred.type = "code" /\ cred.refresh # NoToken THEN "reread"
                 ELSE "look"
           t == IF req[r].op = "resolve" /\ valid THEN cred.bearer ELSE NoToken
           f == IF req[r].op = "resolve" /\ valid THEN "row" ELSE "none"
<1>3. CASE cred.exists /\ req' = [req EXCEPT ![r].seen = cred, ![r].pc = pc, ![r].tok = t, ![r].from = f]
  <2>1. pc \in {"code", "save", "done", "reread", "look"} /\ f \in {"row", "none"}
    OBVIOUS
  <2> HIDE DEF pc, t, f
  <2>2. /\ \A q \in OAuthRequests \ {r} : req'[q] = req[q]
        /\ req'[r].pc = pc /\ req'[r].seen = cred /\ req'[r].from = f
        /\ req'[r].since = req[r].since
    BY <1>1, <1>3 DEF Requests
  <2>3. req[r].since # Gone /\ req[r].since <= applied
    BY <1>3, CurrentFacts
  <2>4. ~raced => req[r].since <= cred.conf
    <3>1. ~raced => applied <= cred.conf  BY <1>3 DEF CurrentInv
    <3>2. cred.conf \in Nat /\ applied \in Nat /\ req[r].since \in Nat
      BY <1>3, CurrentFacts
    <3> QED  BY <2>3, <3>1, <3>2
  <2>5. CurrentAt(r)'
    <3>1. Gone' = Gone  BY DEF Gone
    <3> QED  BY <1>1, <2>1, <2>2, <2>3, <2>4, <3>1 DEF CurrentAt
  <2> QED  BY <1>1, <1>2, <2>2, <2>5, CurrentQuiet
<1>4. CASE Goes(r, "done")
  <2>1. /\ \A q \in OAuthRequests \ {r} : req'[q] = req[q]
        /\ req'[r].pc = "done" /\ req'[r].since = req[r].since
        /\ req'[r].seen = req[r].seen /\ req'[r].op = req[r].op /\ req'[r].from = "none"
    BY <1>1, <1>4, CurrentFacts, ReqGoes
  <2> QED  BY <1>1, <1>2, <2>1, GoesCurrent
<1> QED  BY <1>3, <1>4 DEF GetByID, NotRead

(* Steps that only move a request on.                                      *)
LEMMA OnCurrent ==
  ASSUME CurrentInv, Base', NEW r \in OAuthRequests,
         RereadRow(r) \/ RequestRefresh(r) \/ RequestCode(r) \/ exchangeClientCredentials(r)
  PROVE  CurrentInv'
<1>1. /\ UNCHANGED <<cred, edits, applied, raced, tokenCache>>
      /\ req[r].pc \in {"reread", "refresh", "code", "grant"} /\ req[r].from = "none"
      /\ req \in [OAuthRequests -> Requests] /\ req[r].since # Gone
  <2>1. /\ UNCHANGED <<cred, edits, applied, raced, tokenCache>>
        /\ req[r].pc \in {"reread", "refresh", "code", "grant"}
    BY DEF RereadRow, RequestRefresh, RequestCode, exchangeClientCredentials
  <2> QED  BY <2>1, CurrentFacts DEF RequestAt, CurrentAt
<1>2. /\ \A q \in OAuthRequests \ {r} : req'[q] = req[q]
      /\ req'[r].pc \in {"refresh", "save", "look", "put", "done"}
      /\ req'[r].since = req[r].since
      /\ req'[r].seen = req[r].seen /\ req'[r].op = req[r].op /\ req'[r].from = req[r].from
  <2>1. CASE RereadRow(r)
    BY <1>1, <2>1 DEF RereadRow, NotRead, Goes, Requests
  <2>2. CASE RequestRefresh(r)
    BY <1>1, <2>2 DEF RequestRefresh, Goes, Requests
  <2>3. CASE RequestCode(r)
    BY <1>1, <2>3 DEF RequestCode, Goes, Requests
  <2>4. CASE exchangeClientCredentials(r)
    BY <1>1, <2>4 DEF exchangeClientCredentials, Goes, Requests
  <2> QED  BY <2>1, <2>2, <2>3, <2>4
<1>3. Grows
  <2>1. CASE UNCHANGED mintedFor
    BY <1>1, <2>1, CurrentFacts, GrowsSame
  <2>2. CASE Mint(req[r].mine.conf) /\ req[r].pc = "refresh"
    <3>1. req[r].mine.conf \in Nat
      BY <2>2, CurrentFacts, RowFields DEF RequestAt, Requests
    <3> QED  BY <1>1, <2>2, <3>1, CurrentFacts, GrowsMint
  <2>3. CASE Mint(req[r].seen.conf) /\ req[r].pc \in {"code", "grant"}
    <3>1. req[r].seen.conf \in Nat
      BY <2>3, CurrentFacts, RowFields DEF RequestAt, Requests
    <3> QED  BY <1>1, <2>3, <3>1, CurrentFacts, GrowsMint
  <2> QED  BY <2>1, <2>2, <2>3
           DEF RereadRow, RequestRefresh, RequestCode, exchangeClientCredentials
<1>4. req[r].pc = "code" => req[r].op = "exchange"
  BY CurrentFacts DEF RequestAt
<1>5. \/ req[r].pc \in {"reread", "refresh", "grant"}
      \/ req[r].pc = "code" /\ req'[r].op # "resolve"
  BY <1>1, <1>2, <1>4
<1> QED  BY <1>1, <1>2, <1>3, <1>5, GoesCurrent

(* Save by an edit or an exchange moves the row on; by a refresh it may    *)
(* put an older row back, which raced records.                             *)
LEMMA SaveCurrent ==
  ASSUME CurrentInv, Base', NEW r \in OAuthRequests, Save(r)
  PROVE  CurrentInv'
<1>1. /\ req \in [OAuthRequests -> Requests] /\ req[r].pc = "save" /\ req[r].from = "none"
      /\ Base /\ RequestAt(r) /\ CurrentAt(r) /\ UNCHANGED <<tokenCache, mintedFor, applied>>
      /\ raced \in BOOLEAN /\ raced' \in BOOLEAN
      /\ ~raced' => /\ ~raced
                    /\ req[r].op # "edit" /\ cred.exists => ~(req[r].mine.conf < cred.conf)
      /\ edits' = (IF req[r].op = "edit" THEN edits + 1 ELSE edits)
      /\ edits \in Nat /\ req[r].since # Gone /\ Known(cred)
      /\ Len(mintedFor) \in Nat /\ tokenCache \in 0 .. Len(mintedFor)
      /\ applied \in Nat /\ req[r].since \in Nat
  BY CurrentFacts, BaseFacts, SaveFacts DEF CurrentAt
<1>2. PICK c \in Rows :
        /\ c.exists
        /\ IF req[r].op = "edit" THEN c.conf = edits + 2 /\ c.refresh = NoToken
                                 ELSE c = req[r].mine
        /\ \/ /\ cred' = c /\ cred.exists
              /\ req' = [req EXCEPT ![r].mine = c,
                   ![r].pc = IF req[r].op = "edit" THEN "evict" ELSE "done",
                   ![r].from = IF req[r].op = "resolve" THEN "refresh" ELSE "none"]
           \/ /\ cred' = c /\ cred.exists
              /\ req' = [req EXCEPT ![r].tok = NoToken,
                   ![r].pc = IF req[r].op = "resolve" THEN "look" ELSE "done"]
           \/ /\ cred' = cred
              /\ req' = [req EXCEPT ![r].tok = NoToken,
                   ![r].pc = IF req[r].op = "resolve" THEN "look" ELSE "done"]
  BY <1>1, SaveFacts
<1>3. c.conf \in Nat  BY <1>2, RowFields
<1>4. cred.exists => cred.conf \in Nat /\ cred.conf <= edits + 1
  BY <1>1, CurrentFacts DEF Known
<1>5. ~raced' /\ cred'.exists => cred.exists /\ cred.conf <= cred'.conf
  <2>1. SUFFICES ASSUME ~raced', cred'.exists PROVE cred.exists /\ cred.conf <= cred'.conf
    OBVIOUS
  <2>2. CASE cred' = cred  BY <1>4, <2>1, <2>2
  <2>3. CASE cred' = c /\ cred.exists
    BY <1>1, <1>2, <1>3, <1>4, <2>1, <2>3
  <2> QED  BY <1>2, <2>2, <2>3
<1>6. Grows  BY <1>1 DEF Grows, Base, OAuthTypes
<1>7. Onward
  <2>1. cred'.exists => cred.exists  BY <1>2
  <2> QED  BY <1>1, <1>5, <1>6, <2>1 DEF Onward
<1>8. CurrentAt(r)'
  <2>1. Gone' = Gone  BY DEF Gone
  <2>2. CASE /\ cred' = c
             /\ req' = [req EXCEPT ![r].mine = c,
                  ![r].pc = IF req[r].op = "edit" THEN "evict" ELSE "done",
                  ![r].from = IF req[r].op = "resolve" THEN "refresh" ELSE "none"]
    <3> DEFINE pc == IF req[r].op = "edit" THEN "evict" ELSE "done"
               f == IF req[r].op = "resolve" THEN "refresh" ELSE "none"
    <3>1. pc \in {"evict", "done"} /\ f # "client" /\ (pc = "evict" => req[r].op = "edit")
      OBVIOUS
    <3>2. req' = [req EXCEPT ![r].mine = c, ![r].pc = pc, ![r].from = f]
      BY <2>2
    <3> HIDE DEF pc, f
    <3>3. /\ req'[r].pc = pc /\ req'[r].from = f /\ req'[r].mine = c
          /\ req'[r].op = req[r].op /\ req'[r].since = req[r].since
      BY <1>1, <3>2 DEF Requests
    <3> QED  BY <1>1, <1>3, <2>1, <2>2, <3>1, <3>3 DEF CurrentAt
  <2>3. CASE req' = [req EXCEPT ![r].tok = NoToken,
                  ![r].pc = IF req[r].op = "resolve" THEN "look" ELSE "done"]
    <3>1. /\ req'[r].pc \in {"look", "done"} /\ req'[r].from = "none"
          /\ req'[r].op = req[r].op /\ req'[r].since = req[r].since
          /\ req'[r].seen = req[r].seen
      BY <1>1, <2>3 DEF Requests
    <3> QED  BY <1>1, <2>1, <3>1 DEF CurrentAt
  <2> QED  BY <1>2, <2>2, <2>3
<1>9. \A q \in OAuthRequests : CurrentAt(q)'
  <2>1. \A q \in OAuthRequests \ {r} : req'[q] = req[q]
    BY <1>1, <1>2
  <2> QED  BY <1>7, <1>8, <2>1, OthersCurrent
<1>10. ~raced' /\ cred'.exists => applied <= cred'.conf
  <2>1. SUFFICES ASSUME ~raced', cred'.exists PROVE applied <= cred'.conf
    OBVIOUS
  <2>2. cred'.conf \in Nat /\ cred.conf \in Nat
    BY <1>2, <1>3, <1>4, <1>5, <2>1
  <2>3. applied <= cred.conf  BY <1>1, <1>5, <2>1 DEF CurrentInv
  <2> QED  BY <1>1, <1>5, <2>1, <2>2, <2>3
<1>11. applied = Gone => ~cred'.exists
  BY <1>2 DEF CurrentInv
<1>12. Gone' = Gone  BY DEF Gone
<1> QED  BY <1>1, <1>9, <1>10, <1>11, <1>12 DEF CurrentInv

(* Delete of the row.                                                      *)
LEMMA DeleteRowCurrent ==
  ASSUME CurrentInv, Base', NEW r \in OAuthRequests, DeleteRow(r)
  PROVE  CurrentInv'
<1>1. /\ UNCHANGED <<mintedFor, edits, applied, raced, tokenCache>>
      /\ req[r].pc = "delete" /\ req[r].from = "none" /\ req[r].op = "delete"
      /\ req \in [OAuthRequests -> Requests] /\ cred' \in {cred, NoCred}
  BY CurrentFacts DEF DeleteRow, RequestAt
<1>2. Grows  BY <1>1, CurrentFacts, GrowsSame
<1>3. CASE cred.exists /\ cred' = NoCred /\ Goes(r, "evict")
  <2>1. /\ \A q \in OAuthRequests \ {r} : req'[q] = req[q]
        /\ req'[r].pc = "evict" /\ req'[r].since = req[r].since
        /\ req'[r].seen = req[r].seen /\ req'[r].op = req[r].op /\ req'[r].from = "none"
    BY <1>1, <1>3, CurrentFacts, ReqGoes
  <2>2. req[r].since # Gone /\ req[r].since <= applied /\ Gone' = Gone
    BY <1>3, CurrentFacts DEF Gone
  <2>3. CurrentAt(r)'
    BY <1>1, <1>3, <2>1, <2>2 DEF CurrentAt, NoCred
  <2> QED  BY <1>1, <1>2, <2>1, <2>3, CurrentQuiet
<1>4. CASE Goes(r, "done")
  <2>1. /\ \A q \in OAuthRequests \ {r} : req'[q] = req[q]
        /\ req'[r].pc = "done" /\ req'[r].since = req[r].since
        /\ req'[r].seen = req[r].seen /\ req'[r].op = req[r].op /\ req'[r].from = "none"
    BY <1>1, <1>4, CurrentFacts, ReqGoes
  <2> QED  BY <1>1, <1>2, <2>1, GoesCurrent
<1> QED  BY <1>3, <1>4 DEF DeleteRow

(* EvictToken empties the cache and only then counts the edit or delete    *)
(* as applied.                                                             *)
LEMMA EvictTokenCurrent ==
  ASSUME CurrentInv, Base', NEW r \in OAuthRequests, EvictToken(r)
  PROVE  CurrentInv'
<1>1. /\ UNCHANGED <<cred, mintedFor, edits, raced>> /\ tokenCache' = NoToken
      /\ req[r].pc = "evict" /\ Goes(r, "done") /\ Base
      /\ req \in [OAuthRequests -> Requests] /\ req[r].from = "none"
      /\ RequestAt(r) /\ CurrentAt(r) /\ applied \in Nat /\ applied <= Gone /\ Gone \in Nat
      /\ req[r].since # Gone /\ req[r].since \in Nat /\ req[r].since <= applied
      /\ Gone' = Gone
  BY CurrentFacts DEF EvictToken, Evict, RequestAt, CurrentAt, Gone
<1>2. /\ \A q \in OAuthRequests \ {r} : req'[q] = req[q]
      /\ req'[r].pc = "done" /\ req'[r].since = req[r].since
      /\ req'[r].op = req[r].op /\ req'[r].from = "none"
  BY <1>1, ReqGoes
<1>3. /\ req[r].op = "delete" => applied' = Gone
      /\ req[r].op # "delete" => /\ req[r].mine.exists /\ req[r].mine.conf \in Nat
                                 /\ applied' = IF applied > req[r].mine.conf
                                               THEN applied ELSE req[r].mine.conf
  BY <1>1, EvictTokenBase
<1>4. req[r].op # "delete" => req[r].op = "edit" /\ req[r].mine.conf < Gone
  <2>1. req[r].op # "delete" => req[r].op = "edit" /\ req[r].mine.conf <= edits + 1
    BY <1>1, <1>3 DEF RequestAt, Known
  <2> QED  BY <1>1, <1>3, <2>1, BaseFacts DEF Gone
<1>5. /\ applied' \in Nat /\ applied' >= applied /\ applied' <= Gone
      /\ applied' = Gone => ~cred.exists
      /\ ~raced /\ cred.exists => applied' <= cred.conf
  <2>1. CASE req[r].op = "delete"
    <3>1. ~cred.exists  BY <1>1, <2>1 DEF CurrentAt
    <3> QED  BY <1>1, <1>3, <2>1, <3>1
  <2>2. CASE req[r].op # "delete"
    <3>1. ~raced /\ cred.exists => req[r].mine.conf <= cred.conf /\ applied <= cred.conf
      BY <1>1, <1>4, <2>2 DEF CurrentAt, CurrentInv
    <3>2. applied = Gone => ~cred.exists  BY DEF CurrentInv
    <3> QED  BY <1>1, <1>3, <1>4, <2>2, <3>1, <3>2
  <2> QED  BY <2>1, <2>2
<1>6. Onward
  <2>1. Grows  BY <1>1, GrowsSame
  <2>2. cred.exists => cred.conf \in Nat  BY CurrentFacts
  <2> QED  BY <1>1, <1>5, <2>1, <2>2 DEF Onward
<1>7. CurrentAt(r)'  BY <1>1, <1>2, <1>5 DEF CurrentAt
<1>8. \A q \in OAuthRequests : CurrentAt(q)'
  BY <1>2, <1>6, <1>7, OthersCurrent
<1> QED  BY <1>1, <1>5, <1>8 DEF CurrentInv

(* LookUp serves the cached token, or goes on without it.                  *)
LEMMA LookUpCurrent ==
  ASSUME CurrentInv, Base', NEW r \in OAuthRequests, LookUp(r)
  PROVE  CurrentInv'
<1>1. /\ UNCHANGED <<cred, mintedFor, edits, applied, raced, tokenCache>>
      /\ req[r].pc = "look" /\ req[r].from = "none" /\ req[r].op = "resolve"
      /\ req \in [OAuthRequests -> Requests] /\ req[r].since # Gone
      /\ req[r].since <= applied /\ req[r].since \in Nat /\ applied \in Nat
  BY CurrentFacts DEF LookUp, RequestAt, CurrentAt
<1>2. Grows  BY <1>1, CurrentFacts, GrowsSame
<1>3. CASE tokenCache # NoToken /\ Serves(r, tokenCache, "client")
  <2>1. /\ \A q \in OAuthRequests \ {r} : req'[q] = req[q]
        /\ req'[r].pc = "done" /\ req'[r].since = req[r].since
        /\ req'[r].op = req[r].op /\ req'[r].tok = tokenCache
    BY <1>1, <1>3 DEF Serves, Requests
  <2>2. tokenCache \in 1 .. Len(mintedFor) /\ mintedFor \in Seq(Nat)
    BY <1>3, CurrentFacts, BaseFacts DEF NoToken
  <2>3. mintedFor[tokenCache] \in Nat
    BY <2>2
  <2>4. ~raced => req[r].since <= mintedFor[tokenCache]
    BY <1>1, <1>3, <2>3 DEF CurrentInv
  <2>5. Gone' = Gone  BY DEF Gone
  <2>6. CurrentAt(r)'  BY <1>1, <2>1, <2>4, <2>5 DEF CurrentAt
  <2> QED  BY <1>1, <1>2, <2>1, <2>6, CurrentQuiet
<1>4. CASE Goes(r, "grant")
  <2>1. /\ \A q \in OAuthRequests \ {r} : req'[q] = req[q]
        /\ req'[r].pc = "grant" /\ req'[r].since = req[r].since
        /\ req'[r].seen = req[r].seen /\ req'[r].op = req[r].op /\ req'[r].from = "none"
    BY <1>1, <1>4, CurrentFacts, ReqGoes
  <2> QED  BY <1>1, <1>2, <2>1, GoesCurrent
<1> QED  BY <1>3, <1>4 DEF LookUp

(* PutToken caches a token of the row read; one that an edit overtook is   *)
(* recorded in raced.                                                      *)
LEMMA PutTokenCurrent ==
  ASSUME CurrentInv, Base', NEW r \in OAuthRequests, PutToken(r)
  PROVE  CurrentInv'
<1>1. /\ UNCHANGED <<cred, mintedFor, edits, applied>> /\ tokenCache' = req[r].tok
      /\ req[r].pc = "put" /\ req[r].op = "resolve" /\ Serves(r, req[r].tok, "client")
      /\ raced' = (raced \/ (req[r].seen.conf < applied /\ req[r].since < applied))
      /\ req \in [OAuthRequests -> Requests] /\ req[r].since # Gone /\ CurrentAt(r)
      /\ req[r].since <= applied /\ req[r].since \in Nat /\ applied \in Nat
      /\ Base /\ raced \in BOOLEAN /\ req[r].seen \in Rows /\ req[r].seen.exists
      /\ mintedFor[req[r].tok] = req[r].seen.conf
  BY CurrentFacts DEF PutToken, RequestAt, CurrentAt, Requests
<1>2. req[r].seen.conf \in Nat  BY <1>1, RowFields
<1>3. /\ \A q \in OAuthRequests \ {r} : req'[q] = req[q]
      /\ req'[r].pc = "done" /\ req'[r].since = req[r].since
      /\ req'[r].op = req[r].op /\ req'[r].tok = req[r].tok
  <2> DEFINE t == req[r].tok
  <2>1. req' = [req EXCEPT ![r].pc = "done", ![r].tok = t, ![r].from = "client"]
    BY <1>1 DEF Serves
  <2>2. t = req[r].tok  OBVIOUS
  <2> HIDE DEF t
  <2> QED  BY <1>1, <2>1, <2>2 DEF Requests
<1>4. ~raced' => /\ ~raced /\ req[r].since <= req[r].seen.conf
                 /\ applied <= req[r].seen.conf
  <2>1. SUFFICES ASSUME ~raced'
                 PROVE  /\ ~raced /\ req[r].since <= req[r].seen.conf
                        /\ applied <= req[r].seen.conf
    OBVIOUS
  <2>2. ~raced /\ ~(req[r].seen.conf < applied /\ req[r].since < applied)
    BY <1>1, <2>1
  <2>3. req[r].since <= req[r].seen.conf  BY <1>1, <2>2 DEF CurrentAt
  <2> QED  BY <1>1, <1>2, <2>2, <2>3
<1>5. Onward
  <2>1. Grows  BY <1>1, GrowsSame
  <2>2. cred.exists => cred.conf \in Nat  BY CurrentFacts
  <2>3. raced => raced'  BY <1>1
  <2> QED  BY <1>1, <2>1, <2>2, <2>3 DEF Onward
<1>6. CurrentAt(r)'
  <2>1. Gone' = Gone  BY DEF Gone
  <2> QED  BY <1>1, <1>3, <1>4, <2>1 DEF CurrentAt
<1>7. \A q \in OAuthRequests : CurrentAt(q)'
  BY <1>3, <1>5, <1>6, OthersCurrent
<1>8. Gone' = Gone  BY DEF Gone
<1> QED  BY <1>1, <1>4, <1>7, <1>8 DEF CurrentInv

(* A crash empties the cache of the process.                               *)
LEMMA CrashCurrent ==
  ASSUME CurrentInv, Base', OAuthCrash
  PROVE  CurrentInv'
<1>1. /\ UNCHANGED <<cred, mintedFor, edits, applied, raced>> /\ tokenCache' = NoToken
      /\ Base /\ Gone' = Gone
  BY DEF OAuthCrash, CurrentInv, Gone
<1>2. ASSUME NEW q \in OAuthRequests PROVE CurrentAt(q)'
  <2>1. /\ req'[q].since = req[q].since
        /\ req'[q].pc \in {"idle", "done"} /\ req'[q].from = req[q].from
        /\ req'[q].from # "none" => req'[q] = req[q]
    BY <1>1, CrashBase
  <2>2. CurrentAt(q) /\ RequestAt(q)'  BY DEF CurrentInv, Base
  <2>3. CASE req'[q].from # "none"
    BY <1>1, <2>1, <2>2, <2>3 DEF CurrentAt
  <2>4. CASE req'[q].from = "none"
    <3>1. req[q].since = Gone => req'[q].pc = "done"
      <4>1. req[q].since = Gone => req[q].pc # "idle"  BY <2>2 DEF CurrentAt
      <4>2. req[q].pc # "idle" => req'[q].pc = "done"
        BY <1>1, BaseFacts DEF OAuthCrash, InFlight, Requests
      <4> QED  BY <4>1, <4>2
    <3> QED  BY <1>1, <2>1, <2>2, <2>4, <3>1 DEF CurrentAt
  <2> QED  BY <2>3, <2>4
<1> QED  BY <1>1, <1>2 DEF CurrentInv

(* A step that leaves all of it alone.                                     *)
LEMMA SameCurrent ==
  ASSUME CurrentInv, Base', UNCHANGED <<cred, mintedFor, applied, raced, tokenCache, req>>
  PROVE  CurrentInv'
BY DEF CurrentInv, CurrentAt, Gone

(* Every step keeps the invariant.                                         *)
LEMMA StepCurrent == CurrentInv /\ [OAuthNext]_oauthVars => CurrentInv'
<1> SUFFICES ASSUME CurrentInv, [OAuthNext]_oauthVars PROVE CurrentInv'
  OBVIOUS
<1>1. Base'
  BY StepBase DEF CurrentInv
<1>2. CASE UNCHANGED oauthVars
  BY <1>1, <1>2, SameCurrent DEF oauthVars
<1>3. ASSUME NEW r \in OAuthRequests,
             NEW op \in {"resolve", "exchange", "edit", "delete"}, OAuthStart(r, op)
      PROVE  CurrentInv'
  BY <1>1, <1>3, StartCurrent
<1>4. ASSUME NEW r \in OAuthRequests,
             \/ GetByID(r) \/ RereadRow(r) \/ RequestRefresh(r) \/ RequestCode(r)
             \/ Save(r) \/ DeleteRow(r) \/ EvictToken(r)
             \/ LookUp(r) \/ exchangeClientCredentials(r) \/ PutToken(r)
      PROVE  CurrentInv'
  BY <1>1, <1>4, GetByIDCurrent, OnCurrent, SaveCurrent, DeleteRowCurrent,
     EvictTokenCurrent, LookUpCurrent, PutTokenCurrent
<1>5. ASSUME NEW t \in 1 .. MaxTokens, TokenExpires(t) PROVE CurrentInv'
  BY <1>1, <1>5, SameCurrent DEF TokenExpires
<1>6. CASE OAuthCrash
  BY <1>1, <1>6, CrashCurrent
<1> QED  BY <1>2, <1>3, <1>4, <1>5, <1>6 DEF OAuthNext

(* A request that starts after a delete was answered gets no token, and a  *)
(* client token is never older than the configuration of the last edit     *)
(* answered before the request, short of the race the model names          *)
(* (service.go, Update, Delete and fetchOrCachedToken).                    *)
THEOREM ServedCurrent == OAuthSpec => []ServedIsCurrent
<1>1. OAuthInit => CurrentInv
  <2> SUFFICES ASSUME OAuthInit PROVE CurrentInv
    OBVIOUS
  <2>1. Base  BY InitBase
  <2>2. PICK type \in Types : cred = Cred(type, 1, NoToken, NoToken, FALSE)
    BY DEF OAuthInit
  <2>3. applied = 1 /\ tokenCache = NoToken /\ cred.conf = 1
    BY <2>2 DEF OAuthInit, Cred
  <2>4. Gone \in Nat /\ Gone > 1  BY OAuthAssumption DEF Gone
  <2>5. \A r \in OAuthRequests : req[r].pc = "idle" /\ req[r].since = 0
    BY DEF OAuthInit
  <2>6. \A r \in OAuthRequests : CurrentAt(r)
    <3>1. 0 <= applied /\ Gone # 0  BY <2>3, <2>4
    <3> QED  BY <2>5, <3>1 DEF CurrentAt
  <2> QED  BY <2>1, <2>3, <2>4, <2>6 DEF CurrentInv
<1>2. CurrentInv => ServedIsCurrent
  <2> SUFFICES ASSUME CurrentInv, NEW r \in OAuthRequests,
                      req[r].pc = "done", req[r].from # "none"
               PROVE  /\ req[r].since # Gone
                      /\ req[r].from = "client" => raced \/ mintedFor[req[r].tok] >= req[r].since
    BY DEF ServedIsCurrent
  <2>1. CurrentAt(r)  BY DEF CurrentInv
  <2> QED  BY <2>1 DEF CurrentAt
<1> QED  BY <1>1, <1>2, StepCurrent, PTL DEF OAuthSpec

-----------------------------------------------------------------------------
(* The inductive invariant.                                                *)

CreatorPCs == {"idle", "migrate", "realm", "frontend", "workload", "verify", "role",
               "roles", "store", "activate", "failed", "unmigrated", "user",
               "assign", "done"}
BackfillPCs == {"idle", "workload", "verify", "store", "done"}
DeleterPCs == {"idle", "drop", "delete", "done"}
Secrets == Jobs \cup {NoSecret}
Job == [pc : CreatorPCs \cup DeleterPCs, secret : Secrets, made : BOOLEAN,
        result : {"none", "ok", "error", "died"}]
Realm == [exists : BOOLEAN, frontend : BOOLEAN, secret : Secrets,
          roles : SUBSET defaultRoles, admin : {"none", "user", "admin"}]

TenantTypes ==
  /\ tenantRow \in {"none", "PROVISIONING", "PROVISIONING_FAILED", "ACTIVE"}
  /\ stored \in Secrets /\ schema \in BOOLEAN /\ realm \in Realm
  /\ overlapped \in BOOLEAN
  /\ job \in [Jobs -> Job]
  /\ \A c \in Creators : job[c].pc \in CreatorPCs
  /\ \A d \in Deleters : job[d].pc \in DeleterPCs
  /\ \A b \in Backfills : job[b].pc \in BackfillPCs

(* What a creation has achieved when it gets to a step, if nothing else    *)
(* works on the tenant but repairs.                                        *)
CreatorAt(c) ==
  LET pc == job[c].pc
      after(steps) == pc \in steps \cup {"activate"}
  IN  /\ pc \notin {"user", "assign"} => tenantRow = "PROVISIONING"
      /\ after({"realm", "frontend", "workload", "verify", "role", "roles", "store"}) => schema
      /\ after({"frontend", "workload", "verify", "role", "roles", "store"}) => realm.exists
      /\ after({"workload", "verify", "role", "roles", "store"}) => realm.frontend
      /\ after({"verify", "role", "roles", "store"}) => realm.secret # NoSecret
      /\ pc = "verify" /\ job[c].made => realm.secret = c
      /\ after({"role", "roles", "store"}) => job[c].secret = realm.secret
      /\ after({"roles", "store"}) => "admin" \in realm.roles
      /\ after({"store"}) => realm.roles = defaultRoles
      /\ pc = "activate" => stored = realm.secret

(* A repair of a provisioned tenant finds the secret of its client.        *)
BackfillAt(b) ==
  /\ tenantRow = "ACTIVE"
  /\ job[b].pc = "verify" => ~job[b].made
  /\ job[b].pc = "store" => job[b].secret = realm.secret

(* Unless work on the id overlapped: at most one creation, no deletion,    *)
(* and repairs of an active tenant only.                                   *)
Undisturbed ==
  ~overlapped =>
    /\ \A d \in Deleters : ~Working(d)
    /\ \A c, e \in Creators : Working(c) /\ Working(e) => c = e
    /\ tenantRow = "none" => \A j \in Jobs : ~Working(j)
    /\ \A c \in Creators : Working(c) => CreatorAt(c)
    /\ \A b \in Backfills : Working(b) => BackfillAt(b)
    /\ tenantRow = "ACTIVE" => Provisioned

(* A clean creation is on the path that ends with an administrator.        *)
CleanAt(c) ==
  /\ job[c].pc \notin {"idle", "failed", "unmigrated"}
  /\ job[c].pc \in {"user", "assign", "done"} => tenantRow = "ACTIVE"
  /\ job[c].pc = "assign" => realm.admin # "none"
  /\ job[c].pc = "done" =>
       IF job[c].result = "ok" THEN realm.admin = "admin" ELSE realm.admin # "none"
CleanIsAlone ==
  \A c \in clean : c \in Creators /\ ~overlapped /\ Alone(c) /\ CleanAt(c)

TenantInv == TenantTypes /\ Undisturbed /\ CleanIsAlone

-----------------------------------------------------------------------------
(* How a job goes on: it alone changes, in its place only.                 *)
LEMMA JobGoesOn ==
  ASSUME job \in [Jobs -> Job], NEW j \in Jobs, NEW pc \in CreatorPCs \cup DeleterPCs,
         JobGoes(j, pc)
  PROVE  /\ job' \in [Jobs -> Job]
         /\ \A k \in Jobs \ {j} : job'[k] = job[k]
         /\ job'[j].pc = pc /\ job'[j].secret = job[j].secret
         /\ job'[j].made = job[j].made /\ job'[j].result = job[j].result
BY DEF JobGoes, Job

(* How a job ends.                                                         *)
LEMMA JobAnswers ==
  ASSUME job \in [Jobs -> Job], NEW j \in Jobs, NEW r \in {"ok", "error", "died"},
         Answers(j, r)
  PROVE  /\ job' \in [Jobs -> Job]
         /\ \A k \in Jobs \ {j} : job'[k] = job[k]
         /\ job'[j].pc = "done" /\ job'[j].result = r
BY DEF Answers, Job, CreatorPCs

(* The sets of jobs, and of the states they may be in.                     *)
LEMMA Kinds ==
  /\ Creators \subseteq Jobs /\ Backfills \subseteq Jobs /\ Deleters \subseteq Jobs
  /\ \A j \in Creators : j \notin Deleters /\ j \notin Backfills
  /\ \A j \in Backfills : j \notin Deleters /\ j \notin Creators
  /\ \A j \in Deleters : j \notin Creators /\ j \notin Backfills
  /\ BackfillPCs \subseteq CreatorPCs /\ NoSecret \notin Jobs
BY TenantAssumption DEF Jobs, BackfillPCs, CreatorPCs

(* What a creation or a repair may do: keep the achievements of its step,  *)
(* and leave an active tenant active and its secret alone.                 *)
LEMMA WorkerMoves ==
  ASSUME TenantInv, NEW j \in Creators \cup Backfills, Working(j), TenantTypes',
         \A k \in Jobs \ {j} : job'[k] = job[k],
         overlapped' = overlapped, clean' = clean \/ clean' = {},
         ~overlapped => /\ Working(j)' /\ j \in Creators => CreatorAt(j)'
                        /\ Working(j)' /\ j \in Backfills => BackfillAt(j)'
                        /\ tenantRow' = "ACTIVE" => Provisioned'
                        /\ tenantRow = "ACTIVE" =>
                             tenantRow' = "ACTIVE" /\ realm'.secret = realm.secret
                        /\ tenantRow' # "none",
         j \in clean' => CleanAt(j)'
  PROVE  TenantInv'
<1>1. j \in Jobs /\ j \notin Deleters
  BY Kinds
<1>2. \A k \in Jobs \ {j} : Working(k)' <=> Working(k)
  BY DEF Working
<1>3. Undisturbed'
  <2> SUFFICES ASSUME ~overlapped
               PROVE  /\ \A d \in Deleters : ~Working(d)'
                      /\ \A c, e \in Creators : Working(c)' /\ Working(e)' => c = e
                      /\ tenantRow' = "none" => \A k \in Jobs : ~Working(k)'
                      /\ \A c \in Creators : Working(c)' => CreatorAt(c)'
                      /\ \A b \in Backfills : Working(b)' => BackfillAt(b)'
                      /\ tenantRow' = "ACTIVE" => Provisioned'
    BY DEF Undisturbed
  <2>0. /\ \A d \in Deleters : ~Working(d)
        /\ \A c, e \in Creators : Working(c) /\ Working(e) => c = e
        /\ \A b \in Backfills : Working(b) => BackfillAt(b)
    BY DEF TenantInv, Undisturbed
  <2>1. \A d \in Deleters : ~Working(d)'
    BY <1>1, <1>2, <2>0, Kinds
  <2>2. \A c, e \in Creators : Working(c)' /\ Working(e)' => c = e
    BY <1>2, <2>0, Kinds
  <2>3. ASSUME NEW c \in Creators, Working(c)'  PROVE CreatorAt(c)'
    <3>1. CASE c = j
      BY <3>1, <2>3
    <3>2. CASE c # j
      <4>1. Working(c)  BY <3>2, <2>3, <1>2, Kinds
      <4>2. j \in Backfills  BY <3>2, <4>1, <2>0
      <4>3. tenantRow = "ACTIVE"  BY <4>2, <2>0 DEF BackfillAt
      <4>4. job[c].pc \in {"user", "assign"}
        BY <4>1, <4>3 DEF TenantInv, Undisturbed, CreatorAt
      <4>5. job'[c] = job[c]  BY <3>2, Kinds
      <4> QED  BY <4>4, <4>5 DEF CreatorAt
    <3> QED  BY <3>1, <3>2
  <2>4. ASSUME NEW b \in Backfills, Working(b)'  PROVE BackfillAt(b)'
    <3>1. CASE b = j
      BY <3>1, <2>4
    <3>2. CASE b # j
      <4>1. Working(b) /\ job'[b] = job[b]  BY <3>2, <2>4, <1>2, Kinds
      <4>2. BackfillAt(b)  BY <4>1, <2>0
      <4>3. tenantRow' = "ACTIVE" /\ realm'.secret = realm.secret  BY <4>2 DEF BackfillAt
      <4> QED  BY <4>1, <4>2, <4>3 DEF BackfillAt
    <3> QED  BY <3>1, <3>2
  <2> QED  BY <2>1, <2>2, <2>3, <2>4
<1>4. CleanIsAlone'
  <2> SUFFICES ASSUME NEW c \in clean'
               PROVE  c \in Creators /\ ~overlapped' /\ Alone(c)' /\ CleanAt(c)'
    BY DEF CleanIsAlone
  <2>1. c \in Creators /\ ~overlapped /\ Alone(c)
    BY DEF TenantInv, CleanIsAlone
  <2>2. c = j
    BY <2>1, <1>1 DEF Alone
  <2>3. Alone(c)'
    BY <2>1, <2>2, <1>2 DEF Alone
  <2> QED  BY <2>1, <2>2, <2>3
<1> QED  BY <1>3, <1>4 DEF TenantInv

(* A deletion at work, or a job that dies, leaves nothing to promise: what *)
(* else works on the id has overlapped with it.                            *)
LEMMA DeleterMoves ==
  ASSUME TenantInv, NEW d \in Deleters, Working(d), TenantTypes',
         overlapped' = overlapped, clean' = clean \/ clean' = {}
  PROVE  TenantInv'
<1>1. overlapped
  BY DEF TenantInv, Undisturbed
<1>2. clean' = {}
  BY <1>1 DEF TenantInv, CleanIsAlone
<1> QED  BY <1>1, <1>2 DEF TenantInv, Undisturbed, CleanIsAlone

(* An error ends a repair, and makes a creation record its failure.        *)
LEMMA ErrorMoves ==
  ASSUME TenantInv, NEW j \in Creators \cup Backfills, Working(j),
         job[j].pc \notin {"user", "assign"}, AfterError(j),
         realm' \in Realm, stored' \in Secrets, UNCHANGED <<tenantRow, schema, overlapped>>,
         ~overlapped /\ j \in Backfills => realm' = realm /\ stored' = stored,
         clean' = clean \/ clean' = {}, j \notin clean'
  PROVE  TenantInv'
<1>1. j \in Jobs /\ job \in [Jobs -> Job]
  BY Kinds DEF TenantInv, TenantTypes
<1>2. /\ job' \in [Jobs -> Job] /\ \A k \in Jobs \ {j} : job'[k] = job[k]
      /\ j \in Creators => job'[j].pc = "failed"
      /\ j \in Backfills => job'[j].pc = "done"
  <2>1. CASE j \in Creators
    <3>1. JobGoes(j, "failed") /\ "failed" \in CreatorPCs \cup DeleterPCs
      BY <2>1 DEF AfterError, CreatorPCs
    <3> QED  BY <2>1, <3>1, <1>1, Kinds, JobGoesOn
  <2>2. CASE j \in Backfills
    <3>1. Answers(j, "error")
      BY <2>2, Kinds DEF AfterError
    <3> QED  BY <2>2, <3>1, <1>1, Kinds, JobAnswers
  <2> QED  BY <2>1, <2>2
<1>3. TenantTypes'
  BY <1>2, Kinds DEF TenantInv, TenantTypes, CreatorPCs, BackfillPCs
<1>4. ASSUME ~overlapped
      PROVE  /\ Working(j)' /\ j \in Creators => CreatorAt(j)'
             /\ Working(j)' /\ j \in Backfills => BackfillAt(j)'
             /\ tenantRow' = "ACTIVE" => Provisioned'
             /\ tenantRow = "ACTIVE" => tenantRow' = "ACTIVE" /\ realm'.secret = realm.secret
             /\ tenantRow' # "none"
  <2>1. CASE j \in Creators
    <3>1. tenantRow = "PROVISIONING"
      BY <1>4, <2>1 DEF TenantInv, Undisturbed, CreatorAt
    <3>2. CreatorAt(j)'
      BY <1>2, <2>1, <3>1 DEF CreatorAt
    <3> QED  BY <2>1, <3>1, <3>2, Kinds
  <2>2. CASE j \in Backfills
    <3>1. tenantRow = "ACTIVE" /\ Provisioned /\ realm' = realm /\ stored' = stored
      BY <1>4, <2>2 DEF TenantInv, Undisturbed, BackfillAt
    <3>2. Provisioned'  BY <3>1 DEF Provisioned
    <3>3. ~Working(j)'  BY <1>2, <2>2 DEF Working
    <3> QED  BY <2>2, <3>1, <3>2, <3>3, Kinds
  <2> QED  BY <2>1, <2>2
<1> QED  BY <1>2, <1>3, <1>4, WorkerMoves

-----------------------------------------------------------------------------
(* The calls of the Keycloak admin API.                                    *)

(* When such a call takes effect and succeeds, the state is left as the    *)
(* next step wants it; otherwise it is an error.                           *)
LEMMA AdminMoves ==
  ASSUME TenantInv, NEW j \in Creators \cup Backfills, Working(j),
         job[j].pc \notin {"user", "assign"},
         NEW applies \in BOOLEAN, NEW r \in Realm,
         realm' = r \/ realm' = realm, NEW pc, pc \in CreatorPCs, pc # "done",
         pc \notin {"user", "assign", "idle", "failed", "unmigrated"},
         j \in Backfills => pc \in BackfillPCs,
         UNCHANGED <<tenantRow, stored, schema, overlapped>>,
         \/ /\ applies /\ realm' = r /\ NoFault
            /\ job' \in [Jobs -> Job] /\ \A k \in Jobs \ {j} : job'[k] = job[k]
            /\ job'[j].pc = pc
         \/ ~applies /\ UNCHANGED realm /\ AfterError(j) /\ NoFault
         \/ TenantFault /\ AfterError(j),
         ~overlapped /\ j \in Backfills => r = realm,
         j \in clean => applies,
         (* what the success must establish *)
         ~overlapped /\ job'[j].pc = pc /\ realm' = r =>
           /\ j \in Creators => CreatorAt(j)'
           /\ j \in Backfills => BackfillAt(j)'
  PROVE  TenantInv'
<1>1. CASE /\ applies /\ realm' = r /\ NoFault
           /\ job' \in [Jobs -> Job] /\ \A k \in Jobs \ {j} : job'[k] = job[k]
           /\ job'[j].pc = pc
  <2>1. TenantTypes'
    BY <1>1, Kinds DEF TenantInv, TenantTypes
  <2>2. ASSUME ~overlapped
        PROVE  /\ tenantRow' = "ACTIVE" => Provisioned'
               /\ tenantRow = "ACTIVE" => realm'.secret = realm.secret
               /\ tenantRow # "none"
    <3>1. CASE j \in Creators
      <4>1. tenantRow = "PROVISIONING"
        BY <2>2, <3>1 DEF TenantInv, Undisturbed, CreatorAt
      <4> QED  BY <4>1
    <3>2. CASE j \in Backfills
      <4>1. tenantRow = "ACTIVE" /\ Provisioned /\ realm' = realm
        BY <1>1, <2>2, <3>2 DEF TenantInv, Undisturbed, BackfillAt
      <4> QED  BY <4>1 DEF Provisioned
    <3> QED  BY <3>1, <3>2
  <2>3. j \in clean' => CleanAt(j)'
    BY <1>1 DEF CleanAt
  <2>4. clean' = clean  BY <1>1 DEF NoFault
  <2> QED  BY <1>1, <2>1, <2>2, <2>3, <2>4, WorkerMoves
<1>2. CASE ~applies /\ UNCHANGED realm /\ AfterError(j) /\ NoFault
  <2>1. clean' = clean /\ j \notin clean' /\ realm' \in Realm /\ stored' \in Secrets
    BY <1>2 DEF NoFault, TenantInv, TenantTypes
  <2> QED  BY <1>2, <2>1, ErrorMoves
<1>3. CASE TenantFault /\ AfterError(j)
  <2>1. clean' = {} /\ realm' \in Realm /\ stored' \in Secrets
    BY <1>3 DEF TenantFault, TenantInv, TenantTypes
  <2> QED  BY <1>3, <2>1, ErrorMoves
<1> QED  BY <1>1, <1>2, <1>3

(* createRealm keeps the invariant: 409 leaves the realm as it was.        *)
LEMMA CreateRealmStep ==
  ASSUME TenantInv, NEW c \in Creators, createRealm(c)
  PROVE  TenantInv'
<1> DEFINE r == IF realm.exists THEN realm ELSE NewRealm
<1>1. c \in Jobs /\ job \in [Jobs -> Job] /\ job[c].pc = "realm" /\ Working(c) /\ c \notin Backfills
  BY Kinds DEF createRealm, Working, TenantInv, TenantTypes
<1>2. r \in Realm /\ r.exists
  <2>1. realm \in Realm /\ realm.exists \in BOOLEAN
    BY DEF TenantInv, TenantTypes, Realm
  <2>2. NewRealm \in Realm /\ NewRealm.exists
    BY DEF NewRealm, NoRealm, Realm, Secrets
  <2> QED  BY <2>1, <2>2
<1>3. /\ UNCHANGED <<tenantRow, stored, schema, overlapped>>
      /\ \/ /\ realm' = r /\ JobGoes(c, "frontend") /\ NoFault
         \/ TenantFault /\ AfterError(c) /\ realm' \in {realm, r}
  BY DEF createRealm, AdminRequest
<1>4. JobGoes(c, "frontend") =>
        /\ job' \in [Jobs -> Job] /\ \A k \in Jobs \ {c} : job'[k] = job[k]
        /\ job'[c].pc = "frontend"
  BY <1>1, JobGoesOn DEF CreatorPCs
<1>5. ~overlapped /\ job'[c].pc = "frontend" /\ realm' = r => CreatorAt(c)'
  <2> SUFFICES ASSUME ~overlapped, job'[c].pc = "frontend", realm' = r
               PROVE  CreatorAt(c)'
    OBVIOUS
  <2>1. CreatorAt(c)  BY <1>1 DEF TenantInv, Undisturbed
  <2> HIDE DEF r
  <2> QED  BY <1>1, <1>2, <1>3, <2>1 DEF CreatorAt
<1> HIDE DEF r
<1>6. realm' = r \/ realm' = realm  BY <1>3
<1>7. "frontend" \in CreatorPCs  BY DEF CreatorPCs
<1>8. TRUE \in BOOLEAN  OBVIOUS
<1> QED
  BY <1>1, <1>2, <1>3, <1>4, <1>5, <1>6, <1>7, <1>8, AdminMoves

(* A clean creation finds the realm it has made.                           *)
LEMMA CleanCreator ==
  ASSUME TenantInv, NEW j \in clean, Working(j)
  PROVE  j \in Creators /\ ~overlapped /\ CreatorAt(j)
BY DEF TenantInv, Undisturbed, CleanIsAlone

(* createClient keeps the invariant.                                       *)
LEMMA CreateClientStep ==
  ASSUME TenantInv, NEW c \in Creators, createClient(c)
  PROVE  TenantInv'
<1> DEFINE r == [realm EXCEPT !.frontend = TRUE]
<1>1. c \in Jobs /\ job \in [Jobs -> Job] /\ job[c].pc = "frontend" /\ Working(c) /\ c \notin Backfills
  BY Kinds DEF createClient, Working, TenantInv, TenantTypes
<1>2. /\ r \in Realm /\ r.frontend /\ r.exists = realm.exists /\ realm.exists \in BOOLEAN
  BY DEF TenantInv, TenantTypes, Realm
<1>3. /\ UNCHANGED <<tenantRow, stored, schema, overlapped>>
      /\ \/ realm.exists /\ realm' = r /\ JobGoes(c, "workload") /\ NoFault
         \/ ~realm.exists /\ UNCHANGED realm /\ AfterError(c) /\ NoFault
         \/ TenantFault /\ AfterError(c) /\ realm' \in {realm, IF realm.exists THEN r ELSE realm}
  BY DEF createClient, AdminRequest
<1>4. JobGoes(c, "workload") =>
        /\ job' \in [Jobs -> Job] /\ \A k \in Jobs \ {c} : job'[k] = job[k]
        /\ job'[c].pc = "workload"
  BY <1>1, JobGoesOn DEF CreatorPCs
<1>5. ~overlapped /\ job'[c].pc = "workload" /\ realm' = r => CreatorAt(c)'
  <2> SUFFICES ASSUME ~overlapped, job'[c].pc = "workload", realm' = r
               PROVE  CreatorAt(c)'
    OBVIOUS
  <2>1. CreatorAt(c)  BY <1>1 DEF TenantInv, Undisturbed
  <2> HIDE DEF r
  <2> QED  BY <1>1, <1>2, <1>3, <2>1 DEF CreatorAt
<1>6. c \in clean => realm.exists
  BY <1>1, CleanCreator DEF CreatorAt
<1> HIDE DEF r
<1>7. realm' = r \/ realm' = realm  BY <1>3
<1>8. "workload" \in CreatorPCs  BY DEF CreatorPCs
<1> QED
  BY <1>1, <1>2, <1>3, <1>4, <1>5, <1>6, <1>7, <1>8, AdminMoves

(* EnsureWorkloadIdentity keeps the invariant: a client that is there      *)
(* keeps its secret.                                                       *)
LEMMA CreateWorkloadClientStep ==
  ASSUME TenantInv, NEW j \in Creators \cup Backfills, CreateWorkloadClient(j)
  PROVE  TenantInv'
<1> DEFINE made == realm.secret = NoSecret
           r == IF made THEN [realm EXCEPT !.secret = j] ELSE realm
           next == job' = [job EXCEPT ![j].pc = "verify", ![j].made = made]
<1>1. /\ j \in Jobs /\ job \in [Jobs -> Job] /\ job[j].pc = "workload" /\ Working(j)
      /\ NoSecret \notin Jobs
  BY Kinds DEF CreateWorkloadClient, Working, TenantInv, TenantTypes
<1>2. /\ r \in Realm /\ r.exists = realm.exists /\ realm.exists \in BOOLEAN
      /\ r.frontend = realm.frontend
      /\ r.secret # NoSecret /\ (made => r.secret = j)
  BY <1>1 DEF TenantInv, TenantTypes, Realm, Secrets
<1>3. /\ UNCHANGED <<tenantRow, stored, schema, overlapped>>
      /\ \/ realm.exists /\ realm' = r /\ next /\ NoFault
         \/ ~realm.exists /\ UNCHANGED realm /\ AfterError(j) /\ NoFault
         \/ TenantFault /\ AfterError(j) /\ realm' \in {realm, IF realm.exists THEN r ELSE realm}
  BY DEF CreateWorkloadClient, AdminRequest
<1>4. next =>
        /\ job' \in [Jobs -> Job] /\ \A k \in Jobs \ {j} : job'[k] = job[k]
        /\ job'[j].pc = "verify"
  <2> SUFFICES ASSUME next
               PROVE  /\ job' \in [Jobs -> Job] /\ \A k \in Jobs \ {j} : job'[k] = job[k]
                      /\ job'[j].pc = "verify"
    OBVIOUS
  <2>1. made \in BOOLEAN  OBVIOUS
  <2> HIDE DEF made
  <2> QED  BY <1>1, <2>1 DEF Job, CreatorPCs
<1>5. ASSUME ~overlapped, j \in Backfills  PROVE r = realm /\ ~made
  BY <1>1, <1>5 DEF TenantInv, Undisturbed, BackfillAt, Provisioned
<1>6. next => job'[j].made = made
  BY <1>1 DEF Job
<1>7. ASSUME ~overlapped, next, realm' = r
      PROVE  (j \in Creators => CreatorAt(j)') /\ (j \in Backfills => BackfillAt(j)')
  <2>1. ASSUME j \in Creators  PROVE CreatorAt(j)'
    <3>1. CreatorAt(j)  BY <1>1, <1>7, <2>1 DEF TenantInv, Undisturbed
    <3>2. tenantRow' = tenantRow /\ schema' = schema /\ stored' = stored  BY <1>3
    <3>3. job'[j].pc = "verify" /\ job'[j].made = made  BY <1>4, <1>6, <1>7
    <3> HIDE DEF r, made, next
    <3> QED  BY <1>1, <1>2, <1>7, <3>1, <3>2, <3>3 DEF CreatorAt
  <2>2. ASSUME j \in Backfills  PROVE BackfillAt(j)'
    <3>1. tenantRow' = "ACTIVE"
      BY <1>1, <1>3, <1>7, <2>2 DEF TenantInv, Undisturbed, BackfillAt
    <3>2. job'[j].pc = "verify" /\ job'[j].made = made /\ ~made
      BY <1>4, <1>5, <1>6, <1>7, <2>2
    <3> HIDE DEF made
    <3> QED  BY <3>1, <3>2 DEF BackfillAt
  <2> QED  BY <2>1, <2>2
<1>8. ~overlapped /\ job'[j].pc = "verify" /\ realm' = r => next
  <2>1. AfterError(j) => job'[j].pc # "verify"
    <3>1. j \in Creators /\ AfterError(j) => job'[j].pc = "failed"
      BY <1>1 DEF AfterError, JobGoes, Job
    <3>2. j \notin Creators /\ AfterError(j) => job'[j].pc = "done"
      BY <1>1 DEF AfterError, Answers, Job
    <3> QED  BY <3>1, <3>2
  <2> QED  BY <1>3, <2>1
<1>9. j \in clean => realm.exists
  BY <1>1, CleanCreator DEF CreatorAt
<1>10. realm' = r \/ realm' = realm  BY <1>3
<1> HIDE DEF r, next
<1>11. "verify" \in CreatorPCs /\ "verify" \in BackfillPCs  BY DEF CreatorPCs, BackfillPCs
<1> QED
  BY <1>1, <1>2, <1>3, <1>4, <1>5, <1>7, <1>8, <1>9, <1>10, <1>11, AdminMoves

(* VerifyWorkloadClient keeps the invariant: the secret it hands on is the *)
(* one of the client.                                                      *)
LEMMA VerifyWorkloadClientStep ==
  ASSUME TenantInv, NEW j \in Creators \cup Backfills, VerifyWorkloadClient(j)
  PROVE  TenantInv'
<1> DEFINE pc == IF j \in Creators THEN "role" ELSE "store"
           next == job' = [job EXCEPT ![j].secret = SecretOf(j), ![j].pc = pc]
<1>0. VerifyWorkloadClient(j) =>
        AdminRequest(j, realm.secret # NoSecret, realm, next)
  BY DEF VerifyWorkloadClient
<1>1. /\ j \in Jobs /\ job \in [Jobs -> Job] /\ job[j].pc = "verify" /\ Working(j)
      /\ realm \in Realm /\ SecretOf(j) \in Secrets
  BY Kinds DEF VerifyWorkloadClient, Working, TenantInv, TenantTypes, SecretOf, Secrets, Realm
<1>2. pc \in CreatorPCs /\ pc # "verify" /\ (j \in Backfills => pc \in BackfillPCs /\ pc = "store")
      /\ (j \in Creators => pc = "role") /\ pc \in {"role", "store"}
  BY Kinds DEF CreatorPCs, BackfillPCs
<1>3. /\ UNCHANGED <<tenantRow, stored, schema, overlapped>> /\ realm' = realm
      /\ \/ realm.secret # NoSecret /\ next /\ NoFault
         \/ realm.secret = NoSecret /\ AfterError(j) /\ NoFault
         \/ TenantFault /\ AfterError(j)
  BY <1>0 DEF AdminRequest
<1> HIDE DEF pc
<1>4. next =>
        /\ job' \in [Jobs -> Job] /\ \A k \in Jobs \ {j} : job'[k] = job[k]
        /\ job'[j].pc = pc /\ job'[j].secret = SecretOf(j)
  BY <1>1, <1>2 DEF Job
<1>5. ~overlapped /\ job'[j].pc = pc => next
  <2>1. AfterError(j) => job'[j].pc # pc
    <3>1. j \in Creators /\ AfterError(j) => job'[j].pc = "failed"
      BY <1>1 DEF AfterError, JobGoes, Job
    <3>2. j \notin Creators /\ AfterError(j) => job'[j].pc = "done"
      BY <1>1 DEF AfterError, Answers, Job
    <3> QED  BY <3>1, <3>2, <1>2
  <2> QED  BY <1>3, <2>1
<1>6. ASSUME ~overlapped, next
      PROVE  (j \in Creators => CreatorAt(j)') /\ (j \in Backfills => BackfillAt(j)')
  <2>1. ASSUME j \in Creators  PROVE CreatorAt(j)'
    <3>1. CreatorAt(j)  BY <1>1, <1>6, <2>1 DEF TenantInv, Undisturbed
    <3>2. SecretOf(j) = realm.secret
      BY <1>1, <3>1 DEF CreatorAt, SecretOf
    <3>3. job'[j].pc = "role" /\ job'[j].secret = realm.secret
      BY <1>2, <1>4, <1>6, <2>1, <3>2
    <3> HIDE DEF next
    <3> QED  BY <1>1, <1>3, <3>1, <3>3 DEF CreatorAt
  <2>2. ASSUME j \in Backfills  PROVE BackfillAt(j)'
    <3>1. BackfillAt(j)  BY <1>1, <1>6, <2>2 DEF TenantInv, Undisturbed
    <3>2. SecretOf(j) = realm.secret
      BY <1>1, <3>1 DEF BackfillAt, SecretOf
    <3>3. job'[j].pc = "store" /\ job'[j].secret = realm.secret
      BY <1>2, <1>4, <1>6, <2>2, <3>2
    <3> HIDE DEF next
    <3> QED  BY <1>3, <3>1, <3>3 DEF BackfillAt
  <2> QED  BY <2>1, <2>2
<1>7. j \in clean => realm.secret # NoSecret
  BY <1>1, CleanCreator DEF CreatorAt
<1> HIDE DEF next
<1>8. (realm.secret # NoSecret) \in BOOLEAN  OBVIOUS
<1>9. pc \notin {"done", "user", "assign", "idle", "failed", "unmigrated"}  BY <1>2
<1> DEFINE applies == realm.secret # NoSecret
<1>10. /\ applies \in BOOLEAN /\ (j \in clean => applies)
       /\ \/ applies /\ next /\ NoFault
          \/ ~applies /\ AfterError(j) /\ NoFault
          \/ TenantFault /\ AfterError(j)
  BY <1>3, <1>7
<1> HIDE DEF applies
<1> QED
  BY <1>1, <1>2, <1>3, <1>4, <1>5, <1>6, <1>9, <1>10, AdminMoves

(* createRealmRole keeps the invariant: the roles are complete after the   *)
(* second request.                                                         *)
LEMMA CreateRealmRoleStep ==
  ASSUME TenantInv, NEW c \in Creators, createRealmRole(c)
  PROVE  TenantInv'
<1> DEFINE role == IF job[c].pc = "role" THEN "admin" ELSE "others"
           r == [realm EXCEPT !.roles = @ \union {role}]
           pc == IF role = "admin" THEN "roles" ELSE "store"
<1>1. /\ c \in Jobs /\ job \in [Jobs -> Job] /\ job[c].pc \in {"role", "roles"} /\ Working(c)
      /\ c \notin Backfills
  BY Kinds DEF createRealmRole, Working, TenantInv, TenantTypes
<1>2. /\ r \in Realm /\ r.exists = realm.exists /\ realm.exists \in BOOLEAN
      /\ r.frontend = realm.frontend /\ r.secret = realm.secret
      /\ r.roles = realm.roles \cup {role} /\ realm.roles \subseteq defaultRoles
  BY DEF TenantInv, TenantTypes, Realm, defaultRoles
<1>3. /\ UNCHANGED <<tenantRow, stored, schema, overlapped>>
      /\ \/ realm.exists /\ realm' = r /\ JobGoes(c, pc) /\ NoFault
         \/ ~realm.exists /\ UNCHANGED realm /\ AfterError(c) /\ NoFault
         \/ TenantFault /\ AfterError(c) /\ realm' \in {realm, IF realm.exists THEN r ELSE realm}
  BY DEF createRealmRole, AdminRequest
<1>4. /\ (job[c].pc = "role" /\ role = "admin" /\ pc = "roles")
           \/ (job[c].pc = "roles" /\ role = "others" /\ pc = "store")
      /\ pc \in CreatorPCs
  BY <1>1 DEF CreatorPCs
<1> HIDE DEF r, pc, role
<1>5. JobGoes(c, pc) =>
        /\ job' \in [Jobs -> Job] /\ \A k \in Jobs \ {c} : job'[k] = job[k]
        /\ job'[c].pc = pc /\ job'[c].secret = job[c].secret
  BY <1>1, <1>4, JobGoesOn
<1>6. ~overlapped /\ job'[c].pc = pc /\ realm' = r => CreatorAt(c)'
  <2> SUFFICES ASSUME ~overlapped, job'[c].pc = pc, realm' = r
               PROVE  CreatorAt(c)'
    OBVIOUS
  <2>1. CreatorAt(c)  BY <1>1 DEF TenantInv, Undisturbed
  <2>2. AfterError(c) => job'[c].pc = "failed"
    BY <1>1 DEF AfterError, JobGoes, Job
  <2>3. job'[c].secret = job[c].secret
    BY <1>3, <1>4, <1>5, <2>2
  <2>4. job[c].pc = "role" => "admin" \in r.roles
    BY <1>2, <1>4
  <2>5. job[c].pc = "roles" => r.roles = defaultRoles
    BY <1>2, <1>4, <2>1 DEF CreatorAt, defaultRoles
  <2> QED  BY <1>1, <1>2, <1>3, <1>4, <2>1, <2>3, <2>4, <2>5 DEF CreatorAt
<1>7. c \in clean => realm.exists
  BY <1>1, CleanCreator DEF CreatorAt
<1>8. realm' = r \/ realm' = realm  BY <1>3
<1>9. pc \notin {"done", "user", "assign", "idle", "failed", "unmigrated"}
      /\ job[c].pc \notin {"user", "assign"}
  BY <1>1, <1>4
<1> QED
  BY <1>1, <1>2, <1>3, <1>4, <1>5, <1>6, <1>7, <1>8, <1>9, AdminMoves

-----------------------------------------------------------------------------
(* The writes to the tenant's tables.                                      *)

(* StoreCredential keeps the invariant: what it stores is the secret of    *)
(* the realm's client.                                                     *)
LEMMA StoreCredentialStep ==
  ASSUME TenantInv, NEW j \in Creators \cup Backfills, StoreCredential(j)
  PROVE  TenantInv'
<1> DEFINE next == IF j \in Creators THEN JobGoes(j, "activate") ELSE Answers(j, "ok")
<1>1. /\ j \in Jobs /\ job \in [Jobs -> Job] /\ job[j].pc = "store" /\ Working(j)
      /\ realm \in Realm /\ stored \in Secrets /\ job[j].secret \in Secrets
  BY Kinds DEF StoreCredential, Working, TenantInv, TenantTypes, Job
<1>2. /\ UNCHANGED <<tenantRow, schema, realm, overlapped>>
      /\ \/ tenantRow # "none" /\ stored' = job[j].secret /\ next /\ NoFault
         \/ tenantRow = "none" /\ UNCHANGED stored /\ AfterError(j) /\ NoFault
         \/ TenantFault /\ AfterError(j) /\ stored' \in {stored, job[j].secret}
  BY DEF StoreCredential
<1>3. ASSUME ~overlapped, j \in Creators
      PROVE  CreatorAt(j) /\ tenantRow = "PROVISIONING" /\ job[j].secret = realm.secret
  BY <1>1, <1>3 DEF TenantInv, Undisturbed, CreatorAt
<1>4. ASSUME ~overlapped, j \in Backfills
      PROVE  tenantRow = "ACTIVE" /\ Provisioned /\ job[j].secret = stored
  BY <1>1, <1>4 DEF TenantInv, Undisturbed, BackfillAt, Provisioned
<1>5. CASE tenantRow # "none" /\ stored' = job[j].secret /\ next /\ NoFault
  <2>1. /\ job' \in [Jobs -> Job] /\ \A k \in Jobs \ {j} : job'[k] = job[k]
        /\ j \in Creators => job'[j].pc = "activate" /\ job'[j].secret = job[j].secret
        /\ j \in Backfills => job'[j].pc = "done"
    <3>1. CASE j \in Creators
      <4>1. JobGoes(j, "activate") /\ "activate" \in CreatorPCs \cup DeleterPCs
        BY <1>5, <3>1 DEF CreatorPCs
      <4> QED  BY <1>1, <3>1, <4>1, Kinds, JobGoesOn
    <3>2. CASE j \in Backfills
      <4>1. Answers(j, "ok")  BY <1>5, <3>2, Kinds
      <4> QED  BY <1>1, <3>2, <4>1, Kinds, JobAnswers
    <3> QED  BY <3>1, <3>2
  <2>2. TenantTypes'
    BY <1>1, <1>2, <1>5, <2>1, Kinds
       DEF TenantInv, TenantTypes, CreatorPCs, BackfillPCs
  <2>3. ASSUME ~overlapped
        PROVE  /\ Working(j)' /\ j \in Creators => CreatorAt(j)'
               /\ Working(j)' /\ j \in Backfills => BackfillAt(j)'
               /\ tenantRow' = "ACTIVE" => Provisioned'
               /\ tenantRow = "ACTIVE" => tenantRow' = "ACTIVE" /\ realm'.secret = realm.secret
               /\ tenantRow' # "none"
    <3>1. CASE j \in Creators
      <4>1. CreatorAt(j)'
        BY <1>1, <1>2, <1>3, <1>5, <2>1, <2>3, <3>1 DEF CreatorAt
      <4> QED  BY <1>2, <1>3, <2>3, <3>1, <4>1, Kinds
    <3>2. CASE j \in Backfills
      <4>1. Provisioned'  BY <1>2, <1>4, <1>5, <2>3, <3>2 DEF Provisioned
      <4>2. ~Working(j)'  BY <2>1, <3>2 DEF Working
      <4> QED  BY <1>2, <1>4, <2>3, <3>2, <4>1, <4>2, Kinds
    <3> QED  BY <3>1, <3>2
  <2>4. j \in clean' => CleanAt(j)'
    <3> SUFFICES ASSUME j \in clean'  PROVE CleanAt(j)'
      OBVIOUS
    <3>1. j \in Creators  BY <1>5 DEF NoFault, TenantInv, CleanIsAlone
    <3>2. job'[j].pc = "activate"  BY <2>1, <3>1
    <3> QED  BY <3>2 DEF CleanAt
  <2>5. clean' = clean  BY <1>5 DEF NoFault
  <2> QED  BY <1>1, <1>2, <2>1, <2>2, <2>3, <2>4, <2>5, WorkerMoves
<1>6. CASE tenantRow = "none" /\ UNCHANGED stored /\ AfterError(j) /\ NoFault
  <2>1. j \notin clean
    BY <1>1, <1>3, <1>6, CleanCreator
  <2>2. clean' = clean /\ stored' = stored /\ realm' = realm
    BY <1>2, <1>6 DEF NoFault
  <2> QED  BY <1>1, <1>2, <1>6, <2>1, <2>2, ErrorMoves
<1>7. CASE TenantFault /\ AfterError(j) /\ stored' \in {stored, job[j].secret}
  <2>1. clean' = {}  BY <1>7 DEF TenantFault
  <2>2. ~overlapped /\ j \in Backfills => stored' = stored
    BY <1>4, <1>7
  <2> QED  BY <1>1, <1>2, <1>7, <2>1, <2>2, ErrorMoves
<1> QED  BY <1>2, <1>5, <1>6, <1>7

(* A creation alone that only changes the tenant's status and its schema:  *)
(* the ways MigrateTenant, Activate and MarkFailed go on.                  *)
LEMMA StatusMoves ==
  ASSUME TenantInv, NEW c \in Creators, Working(c), job[c].pc \notin {"user", "assign"},
         NEW pc \in CreatorPCs, NEW r \in {"none", "ok", "error", "died"},
         job' \in [Jobs -> Job], \A k \in Jobs \ {c} : job'[k] = job[k], job'[c].pc = pc,
         UNCHANGED <<stored, realm, overlapped>>, schema' \in BOOLEAN,
         tenantRow' \in {"none", "PROVISIONING", "PROVISIONING_FAILED", "ACTIVE"},
         tenantRow' = "none" <=> tenantRow = "none",
         clean' = clean \/ clean' = {},
         ~overlapped => /\ pc # "done" => CreatorAt(c)'
                        /\ tenantRow' = "ACTIVE" => Provisioned',
         c \in clean' => CleanAt(c)'
  PROVE  TenantInv'
<1>1. TenantTypes'
  BY Kinds DEF TenantInv, TenantTypes
<1>2. ASSUME ~overlapped  PROVE tenantRow = "PROVISIONING"
  BY <1>2 DEF TenantInv, Undisturbed, CreatorAt
<1>3. Working(c)' => pc # "done"
  BY DEF Working
<1> QED  BY <1>1, <1>2, <1>3, Kinds, WorkerMoves

(* MigrateTenant keeps the invariant.                                      *)
LEMMA MigrateStep ==
  ASSUME TenantInv, NEW c \in Creators, MigrateTenant(c)
  PROVE  TenantInv'
<1>1. c \in Jobs /\ job \in [Jobs -> Job] /\ job[c].pc = "migrate" /\ Working(c)
  BY Kinds DEF MigrateTenant, Working, TenantInv, TenantTypes
<1>2. UNCHANGED <<tenantRow, stored, realm, overlapped>>
  BY DEF MigrateTenant
<1>3. tenantRow' \in {"none", "PROVISIONING", "PROVISIONING_FAILED", "ACTIVE"}
      /\ schema \in BOOLEAN
  BY <1>2 DEF TenantInv, TenantTypes
<1>4. ~overlapped => CreatorAt(c) /\ tenantRow = "PROVISIONING"
  BY <1>1 DEF TenantInv, Undisturbed, CreatorAt
<1>5. CASE schema' = TRUE /\ JobGoes(c, "realm") /\ NoFault
  <2>1. /\ job' \in [Jobs -> Job] /\ \A k \in Jobs \ {c} : job'[k] = job[k]
        /\ job'[c].pc = "realm" /\ "realm" \in CreatorPCs
    BY <1>1, <1>5, JobGoesOn DEF CreatorPCs
  <2>2. ~overlapped => CreatorAt(c)' /\ tenantRow' # "ACTIVE"
    BY <1>2, <1>4, <1>5, <2>1 DEF CreatorAt
  <2>3. c \in clean' => CleanAt(c)'
    BY <2>1 DEF CleanAt
  <2>4. clean' = clean  BY <1>5 DEF NoFault
  <2> QED  BY <1>1, <1>2, <1>3, <1>5, <2>1, <2>2, <2>3, <2>4, StatusMoves
<1>6. CASE TenantFault /\ JobGoes(c, "unmigrated") /\ schema' \in {schema, TRUE}
  <2>1. /\ job' \in [Jobs -> Job] /\ \A k \in Jobs \ {c} : job'[k] = job[k]
        /\ job'[c].pc = "unmigrated" /\ "unmigrated" \in CreatorPCs
    BY <1>1, <1>6, JobGoesOn DEF CreatorPCs
  <2>2. ~overlapped => CreatorAt(c)' /\ tenantRow' # "ACTIVE"
    BY <1>2, <1>4, <2>1 DEF CreatorAt
  <2>3. clean' = {} /\ schema' \in BOOLEAN  BY <1>3, <1>6 DEF TenantFault
  <2> QED  BY <1>1, <1>2, <1>3, <2>1, <2>2, <2>3, StatusMoves
<1> QED  BY <1>5, <1>6 DEF MigrateTenant

(* Activate keeps the invariant: the tenant it exposes is provisioned.     *)
LEMMA ActivateStep ==
  ASSUME TenantInv, NEW c \in Creators, Activate(c)
  PROVE  TenantInv'
<1>1. c \in Jobs /\ job \in [Jobs -> Job] /\ job[c].pc = "activate" /\ Working(c)
  BY Kinds DEF Activate, Working, TenantInv, TenantTypes
<1>2. UNCHANGED <<stored, schema, realm, overlapped>>
  BY DEF Activate
<1>3. tenantRow \in {"none", "PROVISIONING", "PROVISIONING_FAILED", "ACTIVE"} /\ schema' \in BOOLEAN
  BY <1>2 DEF TenantInv, TenantTypes
<1>4. ~overlapped => CreatorAt(c) /\ tenantRow = "PROVISIONING" /\ Provisioned'
  BY <1>1, <1>2 DEF TenantInv, Undisturbed, CreatorAt, Provisioned
<1>5. c \in clean => ~overlapped
  BY <1>1, CleanCreator
<1>6. CASE tenantRow # "none" /\ tenantRow' = "ACTIVE" /\ JobGoes(c, "user") /\ NoFault
  <2>1. /\ job' \in [Jobs -> Job] /\ \A k \in Jobs \ {c} : job'[k] = job[k]
        /\ job'[c].pc = "user" /\ "user" \in CreatorPCs
    BY <1>1, <1>6, JobGoesOn DEF CreatorPCs
  <2>2. CreatorAt(c)'
    BY <2>1 DEF CreatorAt
  <2>3. CleanAt(c)'
    BY <1>6, <2>1 DEF CleanAt
  <2>4. clean' = clean  BY <1>6 DEF NoFault
  <2> QED  BY <1>1, <1>2, <1>3, <1>4, <1>6, <2>1, <2>2, <2>3, <2>4, StatusMoves
<1>7. CASE tenantRow = "none" /\ UNCHANGED tenantRow /\ Answers(c, "error") /\ NoFault
  <2>1. /\ job' \in [Jobs -> Job] /\ \A k \in Jobs \ {c} : job'[k] = job[k]
        /\ job'[c].pc = "done" /\ "done" \in CreatorPCs
    BY <1>1, <1>7, JobAnswers DEF CreatorPCs
  <2>2. clean' = clean /\ c \notin clean'  BY <1>4, <1>5, <1>7 DEF NoFault
  <2> QED  BY <1>1, <1>2, <1>3, <1>4, <1>7, <2>1, <2>2, StatusMoves
<1>8. CASE /\ TenantFault /\ Answers(c, "error")
           /\ tenantRow' \in {tenantRow, IF tenantRow = "none" THEN "none" ELSE "ACTIVE"}
  <2>1. /\ job' \in [Jobs -> Job] /\ \A k \in Jobs \ {c} : job'[k] = job[k]
        /\ job'[c].pc = "done" /\ "done" \in CreatorPCs
    BY <1>1, <1>8, JobAnswers DEF CreatorPCs
  <2>2. clean' = {}  BY <1>8 DEF TenantFault
  <2>3. tenantRow' \in {"none", "PROVISIONING", "PROVISIONING_FAILED", "ACTIVE"}
        /\ (tenantRow' = "none" <=> tenantRow = "none")
    BY <1>3, <1>8
  <2> QED  BY <1>1, <1>2, <1>3, <1>4, <2>1, <2>2, <2>3, StatusMoves
<1> QED  BY <1>6, <1>7, <1>8 DEF Activate, UpdateStatus

(* MarkFailed keeps the invariant.                                         *)
LEMMA MarkFailedStep ==
  ASSUME TenantInv, NEW c \in Creators, MarkFailed(c)
  PROVE  TenantInv'
<1>1. c \in Jobs /\ job \in [Jobs -> Job] /\ job[c].pc \in {"failed", "unmigrated"} /\ Working(c)
  BY Kinds DEF MarkFailed, Working, TenantInv, TenantTypes
<1>2. UNCHANGED <<stored, schema, realm, overlapped>>
  BY DEF MarkFailed
<1>3. tenantRow \in {"none", "PROVISIONING", "PROVISIONING_FAILED", "ACTIVE"} /\ schema' \in BOOLEAN
  BY <1>2 DEF TenantInv, TenantTypes
<1>4. ~overlapped => tenantRow = "PROVISIONING"
  BY <1>1 DEF TenantInv, Undisturbed, CreatorAt
<1>5. c \notin clean /\ (clean' = clean \/ clean' = {})
  BY <1>1 DEF TenantInv, CleanIsAlone, CleanAt, MarkFailed, UpdateStatus, NoFault, TenantFault
<1>6. /\ JobGoes(c, "user") \/ Answers(c, "error")
      /\ tenantRow' = tenantRow \/ (tenantRow # "none" /\ tenantRow' = "PROVISIONING_FAILED")
  BY <1>1 DEF MarkFailed, UpdateStatus
<1>7. /\ job' \in [Jobs -> Job] /\ \A k \in Jobs \ {c} : job'[k] = job[k]
      /\ job'[c].pc \in {"user", "done"}
  <2>1. CASE JobGoes(c, "user")
    BY <1>1, <2>1, JobGoesOn DEF CreatorPCs
  <2>2. CASE Answers(c, "error")
    BY <1>1, <2>2, JobAnswers
  <2> QED  BY <1>6, <2>1, <2>2
<1>8. job'[c].pc \in CreatorPCs /\ (job'[c].pc # "done" => CreatorAt(c)')
  BY <1>7 DEF CreatorAt, CreatorPCs
<1>9. ~overlapped => tenantRow' # "ACTIVE"
  BY <1>4, <1>6
<1> QED  BY <1>1, <1>2, <1>3, <1>5, <1>6, <1>7, <1>8, <1>9, StatusMoves

-----------------------------------------------------------------------------
(* The administrator.                                                      *)

(* A creation that is past the tenant changes only its administrator.      *)
LEMMA AdministratorMoves ==
  ASSUME TenantInv, NEW c \in Creators, job[c].pc \in {"user", "assign"},
         job' \in [Jobs -> Job], \A k \in Jobs \ {c} : job'[k] = job[k],
         job'[c].pc \in {"assign", "done"},
         NEW a \in {"none", "user", "admin"},
         realm' = [realm EXCEPT !.admin = a] \/ realm' = realm,
         UNCHANGED <<tenantRow, stored, schema, overlapped>>,
         clean' = clean \/ clean' = {}, c \in clean' => CleanAt(c)'
  PROVE  TenantInv'
<1>1. c \in Jobs /\ Working(c) /\ realm \in Realm
  BY Kinds DEF Working, TenantInv, TenantTypes
<1>2. /\ realm' \in Realm /\ realm'.exists = realm.exists /\ realm'.frontend = realm.frontend
      /\ realm'.secret = realm.secret /\ realm'.roles = realm.roles
  BY <1>1 DEF Realm
<1>3. TenantTypes'
  BY <1>2, Kinds DEF TenantInv, TenantTypes, CreatorPCs
<1>4. Provisioned' <=> Provisioned
  BY <1>2 DEF Provisioned
<1>5. ~overlapped => /\ tenantRow = "ACTIVE" => Provisioned
                     /\ tenantRow # "none"
  BY <1>1 DEF TenantInv, Undisturbed
<1>6. Working(c)' => CreatorAt(c)'
  BY DEF Working, CreatorAt
<1> QED  BY <1>1, <1>2, <1>3, <1>4, <1>5, <1>6, Kinds, WorkerMoves

(* CreateUser keeps the invariant.                                         *)
LEMMA CreateUserStep ==
  ASSUME TenantInv, NEW c \in Creators, CreateUser(c)
  PROVE  TenantInv'
<1> DEFINE applies == realm.exists /\ realm.admin = "none"
           r == [realm EXCEPT !.admin = "user"]
<1>1. /\ c \in Jobs /\ job \in [Jobs -> Job] /\ job[c].pc = "user" /\ Working(c)
      /\ realm \in Realm
  BY Kinds DEF CreateUser, Working, TenantInv, TenantTypes
<1>2. /\ UNCHANGED <<tenantRow, stored, schema, overlapped>>
      /\ \/ applies /\ realm' = r /\ JobGoes(c, "assign") /\ NoFault
         \/ ~applies /\ UNCHANGED realm /\ Answers(c, "error") /\ NoFault
         \/ TenantFault /\ Answers(c, "error")
            /\ realm' \in {realm, IF applies THEN r ELSE realm}
  BY DEF CreateUser
<1>3. c \in clean => tenantRow = "ACTIVE" /\ realm.exists
  BY <1>1 DEF TenantInv, Undisturbed, CleanIsAlone, CleanAt, Provisioned
<1>4. r.admin = "user"  BY <1>1 DEF Realm
<1>5. CASE applies /\ realm' = r /\ JobGoes(c, "assign") /\ NoFault
  <2>1. /\ job' \in [Jobs -> Job] /\ \A k \in Jobs \ {c} : job'[k] = job[k]
        /\ job'[c].pc = "assign"
    BY <1>1, <1>5, JobGoesOn DEF CreatorPCs
  <2>2. clean' = clean  BY <1>5 DEF NoFault
  <2>3. realm' = [realm EXCEPT !.admin = "user"] /\ realm'.admin = "user"  BY <1>4, <1>5
  <2> HIDE DEF r
  <2>4. c \in clean' => CleanAt(c)'
    BY <1>2, <1>3, <2>1, <2>2, <2>3 DEF CleanAt
  <2> QED  BY <1>1, <1>2, <2>1, <2>2, <2>3, <2>4, AdministratorMoves
<1>6. CASE ~applies /\ UNCHANGED realm /\ Answers(c, "error") /\ NoFault
  <2>1. /\ job' \in [Jobs -> Job] /\ \A k \in Jobs \ {c} : job'[k] = job[k]
        /\ job'[c].pc = "done" /\ job'[c].result = "error"
    BY <1>1, <1>6, JobAnswers
  <2>2. clean' = clean /\ realm' = realm  BY <1>6 DEF NoFault
  <2>3. c \in clean' => CleanAt(c)'
    BY <1>2, <1>3, <1>6, <2>1, <2>2 DEF CleanAt
  <2> QED  BY <1>1, <1>2, <2>1, <2>2, <2>3, AdministratorMoves
<1>7. CASE TenantFault /\ Answers(c, "error") /\ realm' \in {realm, IF applies THEN r ELSE realm}
  <2>1. /\ job' \in [Jobs -> Job] /\ \A k \in Jobs \ {c} : job'[k] = job[k]
        /\ job'[c].pc = "done"
    BY <1>1, <1>7, JobAnswers
  <2>2. clean' = {}  BY <1>7 DEF TenantFault
  <2>3. realm' = [realm EXCEPT !.admin = "user"] \/ realm' = realm  BY <1>7
  <2> HIDE DEF r
  <2> QED  BY <1>1, <1>2, <2>1, <2>2, <2>3, AdministratorMoves
<1> QED  BY <1>2, <1>5, <1>6, <1>7

(* AssignRole keeps the invariant: a provisioned realm has the role.       *)
LEMMA AssignRoleStep ==
  ASSUME TenantInv, NEW c \in Creators, AssignRole(c)
  PROVE  TenantInv'
<1> DEFINE r == [realm EXCEPT !.admin = "admin"]
<1>1. /\ c \in Jobs /\ job \in [Jobs -> Job] /\ job[c].pc = "assign" /\ Working(c)
      /\ realm \in Realm /\ Answers(c, "ok")
  BY Kinds DEF AssignRole, Working, TenantInv, TenantTypes
<1>2. /\ UNCHANGED <<tenantRow, stored, schema, overlapped>>
      /\ \/ NoFault /\ realm' = IF "admin" \in realm.roles /\ realm.admin # "none" THEN r ELSE realm
         \/ TenantFault /\ UNCHANGED realm
  BY DEF AssignRole
<1>3. /\ job' \in [Jobs -> Job] /\ \A k \in Jobs \ {c} : job'[k] = job[k]
      /\ job'[c].pc = "done" /\ job'[c].result = "ok"
  BY <1>1, JobAnswers
<1>4. c \in clean => tenantRow = "ACTIVE" /\ "admin" \in realm.roles /\ realm.admin # "none"
  BY <1>1 DEF TenantInv, Undisturbed, CleanIsAlone, CleanAt, Provisioned, defaultRoles
<1>5. r.admin = "admin"  BY <1>1 DEF Realm
<1>6. c \in clean' => CleanAt(c)'
  <2> SUFFICES ASSUME c \in clean'  PROVE CleanAt(c)'
    OBVIOUS
  <2>1. c \in clean /\ realm' = IF "admin" \in realm.roles /\ realm.admin # "none" THEN r ELSE realm
    BY <1>2 DEF NoFault, TenantFault
  <2>2. realm'.admin = "admin" /\ tenantRow' = "ACTIVE"
    BY <1>2, <1>4, <1>5, <2>1
  <2> QED  BY <1>3, <2>2 DEF CleanAt
<1>7. clean' = clean \/ clean' = {}  BY <1>2 DEF NoFault, TenantFault
<1>8. realm' = [realm EXCEPT !.admin = "admin"] \/ realm' = realm  BY <1>2
<1> HIDE DEF r
<1> QED  BY <1>1, <1>2, <1>3, <1>6, <1>7, <1>8, AdministratorMoves

-----------------------------------------------------------------------------
(* The begin and the end of a job.                                         *)

(* InsertTenant keeps the invariant: what overlaps with the insertion is   *)
(* noted, and a creation that finds a row ends.                            *)
LEMMA InsertStep ==
  ASSUME TenantInv, NEW c \in Creators, InsertTenant(c)
  PROVE  TenantInv'
<1>1. /\ c \in Jobs /\ job \in [Jobs -> Job] /\ job[c].pc = "idle" /\ ~Working(c)
      /\ UNCHANGED <<stored, schema, realm>>
  BY Kinds DEF InsertTenant, Working, TenantInv, TenantTypes
<1>2. CASE /\ tenantRow = "none" /\ tenantRow' = "PROVISIONING" /\ JobGoes(c, "migrate")
           /\ overlapped' = ~Alone(c) /\ clean' = IF Alone(c) THEN {c} ELSE {}
  <2>1. /\ job' \in [Jobs -> Job] /\ \A k \in Jobs \ {c} : job'[k] = job[k]
        /\ job'[c].pc = "migrate" /\ "migrate" \in CreatorPCs
    BY <1>1, <1>2, JobGoesOn DEF CreatorPCs
  <2>2. TenantTypes'
    <3>1. overlapped' \in BOOLEAN  BY <1>2
    <3> QED  BY <1>1, <1>2, <2>1, <3>1, Kinds DEF TenantInv, TenantTypes
  <2>3. ~overlapped' => \A k \in Jobs \ {c} : ~Working(k)'
    BY <1>2, <2>1 DEF Alone, Working
  <2>4. CreatorAt(c)' /\ CleanAt(c)'
    BY <1>2, <2>1 DEF CreatorAt, CleanAt
  <2>5. Undisturbed'
    BY <1>2, <2>3, <2>4, Kinds DEF Undisturbed
  <2>6. CleanIsAlone'
    <3> SUFFICES ASSUME NEW k \in clean'
                 PROVE  k \in Creators /\ ~overlapped' /\ Alone(k)' /\ CleanAt(k)'
      BY DEF CleanIsAlone
    <3>1. k = c /\ ~overlapped'  BY <1>2
    <3> QED  BY <2>3, <2>4, <3>1 DEF Alone
  <2> QED  BY <2>2, <2>5, <2>6 DEF TenantInv
<1>3. CASE /\ tenantRow # "none" /\ Answers(c, "error") /\ clean' = {}
           /\ UNCHANGED <<tenantRow, overlapped>>
  <2>1. /\ job' \in [Jobs -> Job] /\ \A k \in Jobs \ {c} : job'[k] = job[k]
        /\ job'[c].pc = "done" /\ "done" \in CreatorPCs
    BY <1>1, <1>3, JobAnswers DEF CreatorPCs
  <2>2. TenantTypes'
    BY <1>1, <1>3, <2>1, Kinds DEF TenantInv, TenantTypes
  <2>3. ~Working(c)' /\ \A k \in Jobs \ {c} : Working(k)' <=> Working(k)
    BY <2>1 DEF Working
  <2>4. Provisioned' <=> Provisioned
    BY <1>1 DEF Provisioned
  <2>5. \A k \in Creators \ {c} : CreatorAt(k)' <=> CreatorAt(k)
    BY <1>1, <1>3, <2>1, Kinds DEF CreatorAt
  <2>6. \A k \in Backfills : BackfillAt(k)' <=> BackfillAt(k)
    BY <1>1, <1>3, <2>1, Kinds DEF BackfillAt
  <2>7. Undisturbed'
    BY <1>3, <2>3, <2>4, <2>5, <2>6, Kinds DEF TenantInv, Undisturbed
  <2>8. CleanIsAlone'  BY <1>3 DEF CleanIsAlone
  <2> QED  BY <2>2, <2>7, <2>8 DEF TenantInv
<1>4. CASE /\ tenantRow = "none" /\ clean' = {} /\ Answers(c, "error")
           /\ overlapped' = ~Alone(c) /\ tenantRow' \in {"none", "PROVISIONING"}
  <2>1. /\ job' \in [Jobs -> Job] /\ \A k \in Jobs \ {c} : job'[k] = job[k]
        /\ job'[c].pc = "done" /\ "done" \in CreatorPCs
    BY <1>1, <1>4, JobAnswers DEF CreatorPCs
  <2>2. TenantTypes'
    <3>1. overlapped' \in BOOLEAN  BY <1>4
    <3> QED  BY <1>1, <1>4, <2>1, <3>1, Kinds DEF TenantInv, TenantTypes
  <2>3. ~overlapped' => \A k \in Jobs : ~Working(k)'
    BY <1>4, <2>1 DEF Alone, Working
  <2>4. Undisturbed'
    BY <1>4, <2>3, Kinds DEF Undisturbed
  <2>5. CleanIsAlone'  BY <1>4 DEF CleanIsAlone
  <2> QED  BY <2>2, <2>4, <2>5 DEF TenantInv
<1> QED  BY <1>2, <1>3, <1>4 DEF InsertTenant, TenantFault

(* The steps of a deletion keep the invariant: the first one ends every    *)
(* promise until the id is inserted again.                                 *)
LEMMA DeleteStep ==
  ASSUME TenantInv, NEW d \in Deleters, DeleteRealm(d) \/ DropSchema(d) \/ DeleteTenant(d)
  PROVE  TenantInv'
<1>1. d \in Jobs /\ job \in [Jobs -> Job] /\ realm \in Realm /\ NoRealm \in Realm
  BY Kinds DEF TenantInv, TenantTypes, NoRealm, Realm, Secrets
<1>2. /\ \E pc \in DeleterPCs : JobGoes(d, pc) \/ Answers(d, "ok") \/ Answers(d, "error")
      /\ realm' \in Realm /\ schema' \in BOOLEAN
      /\ stored' \in Secrets /\ tenantRow' \in {tenantRow, "none"}
  <2>1. schema \in BOOLEAN /\ stored \in Secrets /\ NoSecret \in Secrets
    BY DEF TenantInv, TenantTypes, Secrets
  <2>2. CASE DeleteRealm(d)
    BY <1>1, <2>1, <2>2 DEF DeleteRealm, DeleterPCs
  <2>3. CASE DropSchema(d)
    BY <1>1, <2>1, <2>3 DEF DropSchema, DeleterPCs
  <2>4. CASE DeleteTenant(d)
    BY <1>1, <2>1, <2>4 DEF DeleteTenant, DeleterPCs
  <2> QED  BY <2>2, <2>3, <2>4
<1>3. /\ job' \in [Jobs -> Job] /\ \A k \in Jobs \ {d} : job'[k] = job[k]
      /\ job'[d].pc \in DeleterPCs
  <2>1. PICK pc \in DeleterPCs : JobGoes(d, pc) \/ Answers(d, "ok") \/ Answers(d, "error")
    BY <1>2
  <2>2. CASE JobGoes(d, pc)
    BY <1>1, <2>2, JobGoesOn
  <2>3. CASE Answers(d, "ok") \/ Answers(d, "error")
    <3>1. "done" \in DeleterPCs  BY DEF DeleterPCs
    <3> QED  BY <1>1, <2>3, <3>1, JobAnswers
  <2> QED  BY <2>1, <2>2, <2>3
<1>4. overlapped' \in BOOLEAN
  BY DEF TenantInv, TenantTypes, DeleteRealm, DropSchema, DeleteTenant
<1>5. TenantTypes'
  BY <1>2, <1>3, <1>4, Kinds DEF TenantInv, TenantTypes
<1>6. CASE DeleteRealm(d)
  <2>1. overlapped' /\ clean' = {}  BY <1>6 DEF DeleteRealm
  <2> QED  BY <1>5, <2>1 DEF TenantInv, Undisturbed, CleanIsAlone
<1>7. CASE DropSchema(d) \/ DeleteTenant(d)
  <2>1. Working(d) /\ overlapped' = overlapped /\ (clean' = clean \/ clean' = {})
    BY <1>7 DEF DropSchema, DeleteTenant, Working, NoFault, TenantFault
  <2> QED  BY <1>5, <2>1, DeleterMoves
<1> QED  BY <1>6, <1>7

(* StartBackfill keeps the invariant: it begins with an active tenant.     *)
LEMMA StartBackfillStep ==
  ASSUME TenantInv, NEW b \in Backfills, StartBackfill(b)
  PROVE  TenantInv'
<1>1. /\ b \in Jobs /\ job \in [Jobs -> Job] /\ tenantRow = "ACTIVE" /\ clean' = {}
      /\ JobGoes(b, "workload") /\ UNCHANGED <<tenantRow, stored, schema, realm, overlapped>>
  BY Kinds DEF StartBackfill, TenantInv, TenantTypes
<1>2. /\ job' \in [Jobs -> Job] /\ \A k \in Jobs \ {b} : job'[k] = job[k]
      /\ job'[b].pc = "workload"
  BY <1>1, JobGoesOn DEF CreatorPCs
<1>3. TenantTypes'
  BY <1>1, <1>2, Kinds DEF TenantInv, TenantTypes, BackfillPCs
<1>4. \A k \in Jobs \ {b} : Working(k)' <=> Working(k)
  BY <1>2 DEF Working
<1>5. \A k \in Creators : CreatorAt(k)' <=> CreatorAt(k)
  BY <1>1, <1>2, Kinds DEF CreatorAt
<1>6. \A k \in Backfills \ {b} : BackfillAt(k)' <=> BackfillAt(k)
  BY <1>1, <1>2, Kinds DEF BackfillAt
<1>7. BackfillAt(b)'
  BY <1>1, <1>2 DEF BackfillAt
<1>8. Provisioned' <=> Provisioned
  BY <1>1 DEF Provisioned
<1>9. Undisturbed'
  <2> SUFFICES ASSUME ~overlapped
               PROVE  /\ \A d \in Deleters : ~Working(d)'
                      /\ \A c, e \in Creators : Working(c)' /\ Working(e)' => c = e
                      /\ \A c \in Creators : Working(c)' => CreatorAt(c)'
                      /\ \A k \in Backfills : Working(k)' => BackfillAt(k)'
                      /\ tenantRow' = "ACTIVE" => Provisioned'
    BY <1>1 DEF Undisturbed
  <2>1. /\ \A d \in Deleters : ~Working(d)
        /\ \A c, e \in Creators : Working(c) /\ Working(e) => c = e
        /\ \A c \in Creators : Working(c) => CreatorAt(c)
        /\ \A k \in Backfills : Working(k) => BackfillAt(k)
        /\ tenantRow = "ACTIVE" => Provisioned
    BY DEF TenantInv, Undisturbed
  <2>2. \A d \in Deleters : ~Working(d)'
    BY <1>4, <2>1, Kinds
  <2>3. \A c, e \in Creators : Working(c)' /\ Working(e)' => c = e
    BY <1>4, <2>1, Kinds
  <2>4. \A c \in Creators : Working(c)' => CreatorAt(c)'
    BY <1>4, <1>5, <2>1, Kinds
  <2>5. \A k \in Backfills : Working(k)' => BackfillAt(k)'
    BY <1>4, <1>6, <1>7, <2>1, Kinds
  <2> QED  BY <1>1, <1>8, <2>1, <2>2, <2>3, <2>4, <2>5
<1>10. CleanIsAlone'
  BY <1>1 DEF CleanIsAlone
<1> QED  BY <1>3, <1>9, <1>10 DEF TenantInv

(* The death of a process keeps the invariant, at whichever step.          *)
LEMMA JobDiesStep ==
  ASSUME TenantInv, NEW j \in Jobs, JobDies(j)
  PROVE  TenantInv'
<1>1. /\ job \in [Jobs -> Job] /\ Working(j) /\ clean' = {}
      /\ Answers(j, "died") /\ UNCHANGED <<tenantRow, stored, schema, realm, overlapped>>
  BY DEF JobDies, TenantFault, TenantInv, TenantTypes
<1>2. /\ job' \in [Jobs -> Job] /\ \A k \in Jobs \ {j} : job'[k] = job[k]
      /\ job'[j].pc = "done"
  BY <1>1, JobAnswers
<1>3. TenantTypes'
  BY <1>1, <1>2, Kinds DEF TenantInv, TenantTypes, CreatorPCs, BackfillPCs, DeleterPCs
<1>4. CASE j \in Deleters
  BY <1>1, <1>3, <1>4, DeleterMoves
<1>5. CASE j \in Creators \cup Backfills
  <2>1. ~Working(j)'  BY <1>2 DEF Working
  <2>2. ~overlapped => (tenantRow' = "ACTIVE" => Provisioned') /\ tenantRow' # "none"
    BY <1>1, Kinds DEF TenantInv, Undisturbed, Provisioned
  <2> QED  BY <1>1, <1>2, <1>3, <1>5, <2>1, <2>2, WorkerMoves
<1> QED  BY <1>4, <1>5 DEF Jobs

-----------------------------------------------------------------------------
(* The invariant holds in every state of the tenant.                       *)
LEMMA TenantInvariant == TenantSpec => []TenantInv
<1>1. TenantInit => TenantInv
  <2> SUFFICES ASSUME TenantInit  PROVE TenantInv
    OBVIOUS
  <2>1. TenantTypes
    BY Kinds DEF TenantInit, TenantTypes, Job, Realm, NoRealm, Secrets,
       CreatorPCs, DeleterPCs, BackfillPCs
  <2>2. \A j \in Jobs : ~Working(j)
    BY DEF TenantInit, Working
  <2>3. Undisturbed
    BY <2>2, Kinds DEF TenantInit, Undisturbed
  <2>4. CleanIsAlone
    BY DEF TenantInit, CleanIsAlone
  <2> QED  BY <2>1, <2>3, <2>4 DEF TenantInv
<1>2. TenantInv /\ [TenantNext]_tenantVars => TenantInv'
  <2> SUFFICES ASSUME TenantInv, [TenantNext]_tenantVars  PROVE TenantInv'
    OBVIOUS
  <2>1. ASSUME NEW c \in Creators,
               \/ InsertTenant(c) \/ MigrateTenant(c) \/ createRealm(c) \/ createClient(c)
               \/ createRealmRole(c) \/ Activate(c) \/ MarkFailed(c)
               \/ CreateUser(c) \/ AssignRole(c)
        PROVE  TenantInv'
    BY <2>1, InsertStep, MigrateStep, CreateRealmStep, CreateClientStep, CreateRealmRoleStep,
       ActivateStep, MarkFailedStep, CreateUserStep, AssignRoleStep
  <2>2. ASSUME NEW j \in Creators \cup Backfills,
               CreateWorkloadClient(j) \/ VerifyWorkloadClient(j) \/ StoreCredential(j)
        PROVE  TenantInv'
    BY <2>2, CreateWorkloadClientStep, VerifyWorkloadClientStep, StoreCredentialStep
  <2>3. ASSUME NEW d \in Deleters, DeleteRealm(d) \/ DropSchema(d) \/ DeleteTenant(d)
        PROVE  TenantInv'
    BY <2>3, DeleteStep
  <2>4. ASSUME NEW b \in Backfills, StartBackfill(b)  PROVE TenantInv'
    BY <2>4, StartBackfillStep
  <2>5. ASSUME NEW j \in Jobs, JobDies(j)  PROVE TenantInv'
    BY <2>5, JobDiesStep
  <2>6. CASE UNCHANGED tenantVars
    BY <2>6 DEF tenantVars, TenantInv, TenantTypes, Undisturbed, CleanIsAlone, CreatorAt,
       BackfillAt, CleanAt, Provisioned, Working, Alone
  <2> QED  BY <2>1, <2>2, <2>3, <2>4, <2>5, <2>6 DEF TenantNext
<1> QED  BY <1>1, <1>2, PTL DEF TenantSpec

(* Whatever failed before and whatever was left behind, an active tenant   *)
(* that no other work overlapped has its schema, its realm and the         *)
(* credential the realm accepts.                                           *)
THEOREM ExposedIsProvisioned == TenantSpec => []ActiveIsProvisioned
<1>1. TenantInv => ActiveIsProvisioned
  BY DEF TenantInv, Undisturbed, ActiveIsProvisioned
<1> QED  BY <1>1, TenantInvariant, PTL

(* A creation that met no fault and had the id for itself ends with an     *)
(* active, provisioned tenant, and with an administrator unless its        *)
(* account was left over: then it answers an error, and the account may    *)
(* lack the role.                                                          *)
THEOREM CleanCompletes == TenantSpec => []CleanCreateCompletes
<1>1. TenantInv => CleanCreateCompletes
  <2> SUFFICES ASSUME TenantInv, NEW c \in clean \cap Creators, job[c].pc = "done"
               PROVE  /\ tenantRow = "ACTIVE" /\ Provisioned
                      /\ IF job[c].result = "ok" THEN realm.admin = "admin"
                         ELSE realm.admin # "none"
    BY DEF CleanCreateCompletes
  <2>1. ~overlapped /\ CleanAt(c)
    BY DEF TenantInv, CleanIsAlone
  <2> QED  BY <2>1 DEF TenantInv, Undisturbed, CleanAt
<1> QED  BY <1>1, TenantInvariant, PTL
=============================================================================
