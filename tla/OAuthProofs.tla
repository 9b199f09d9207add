----------------------------- MODULE OAuthProofs -----------------------------
(***************************************************************************)
(* Proofs about OAuth, for any number of handlers, people, codes, tokens   *)
(* and scopes.                                                             *)
(***************************************************************************)
EXTENDS OAuth, TLAPS

USE OAuthAssumption

(***************************************************************************)
(* The inductive invariant.  What a handler holds between two calls is     *)
(* still there: the code it took, the token it judged.                     *)
(***************************************************************************)
HandlerInv(r) ==
    /\ req[r].stage \in {"bind", "take", "mint"} =>
         req[r].session \in Session /\ req[r].authz \in Authz
    /\ req[r].stage \in {"code", "insert", "remember"} => req[r].code \in Code
    /\ req[r].stage \in {"remember", "rotate", "revoke"} =>
         req[r].token \in Token /\ Exists(req[r].token)
    /\ req[r].stage = "rotate" =>
         req[r].scope \subseteq code[token[req[r].token].code].granted \cup {Public}
    /\ req[r].stage = "remember" =>
         token[req[r].token].code = req[r].code /\ token[req[r].token].family = req[r].token

(* A family is named by its first token, and a token by a minted code. *)
RowInv(t) ==
    Exists(t) =>
      /\ token[t].family \in Token /\ Exists(token[t].family)
      /\ token[t].code \in Code /\ code[token[t].code] # NoCode

(* Names of tokens outside their table are names of rows, and what a code  *)
(* is remembered by is the first token of the family it began.             *)
NameInv ==
    /\ \A t \in known \cap Token : Exists(t)
    /\ \A c \in Code : memory[c] # None =>
         /\ Exists(memory[c])
         /\ token[memory[c]].code = c /\ token[memory[c]].family = memory[c]
    /\ \A f \in ended : Exists(f)

Unredeemed(c) == \A t \in Token : Exists(t) => token[t].code # c

(* A code is in the cache, or in the hands of one handler, or redeemed.    *)
CachedInv == \A c \in cached : code[c] # NoCode /\ Unredeemed(c)

TakenInv(r) ==
    At(r, "insert") =>
      /\ req[r].code \notin cached
      /\ code[req[r].code] # NoCode /\ Unredeemed(req[r].code)
      /\ \A q \in Request : At(q, "insert") /\ req[q].code = req[r].code => q = r

GrantInv(c) ==
    code[c] # NoCode =>
      /\ code[c].session \in Session
      /\ code[c].granted \subseteq Held[code[c].session] \cup {Public}

WidthInv(t) == Exists(t) => token[t].scope \subseteq code[token[t].code].granted \cup {Public}

(* The handler that is about to remember or to revoke a family names the   *)
(* code that began it, so that its failure is counted against that code.   *)
ReplayInv(t) ==
    (Exists(t) /\ t = token[t].family /\ token[t].code \notin forgotten) =>
      \/ memory[token[t].code] = t
      \/ t \in ended
      \/ \E r \in Request : /\ req[r].stage \in {"remember", "revoke"}
                            /\ req[r].token = t /\ req[r].code = token[t].code

DecidedInv(a) == a \notin rebound => decided[a] <= 1 /\ (Waits(a) => decided[a] = 0)

RowsInv ==
    /\ \A t \in Token : RowInv(t) /\ WidthInv(t)
    /\ \A c \in Code : GrantInv(c)
    /\ OneLiveToken
    /\ RevokedForGood
    /\ CodeBeginsOneFamily

CodesInv ==
    /\ CachedInv
    /\ \A r \in Request : TakenInv(r)

IInv ==
    /\ TypeOK
    /\ \A r \in Request : HandlerInv(r)
    /\ RowsInv
    /\ NameInv
    /\ CodesInv
    /\ \A t \in Token : ReplayInv(t)
    /\ \A a \in Authz : DecidedInv(a)

-----------------------------------------------------------------------------
(* What becomes of a handler is a handler. *)
LEMMA HandlerTypes ==
    ASSUME req \in [Request -> Handlers], NEW r \in Request
    PROVE  /\ Finish(r) => req' \in [Request -> Handlers]
           /\ \A stage \in Stages : Goto(r, stage) => req' \in [Request -> Handlers]
           /\ \A h \in Handlers : req' = [req EXCEPT ![r] = h] => req' \in [Request -> Handlers]
<1>1. Idle \in Handlers
  BY DEF Idle, Handlers, Stages
<1>2. \A stage \in Stages : [req[r] EXCEPT !.stage = stage] \in Handlers
  BY DEF Handlers
<1> QED
  BY <1>1, <1>2 DEF Finish, Goto

(* A row as NewToken makes it, and as a statement changes it. *)
LEMMA RowTypes ==
    /\ NoToken \in Rows
    /\ \A f \in Token, c \in Code, scope \in SUBSET AnyScope :
         /\ NewToken(f, c, scope) \in Rows
         /\ NewToken(f, c, scope).family = f /\ NewToken(f, c, scope).code = c
         /\ NewToken(f, c, scope).scope = scope
         /\ ~NewToken(f, c, scope).used /\ ~NewToken(f, c, scope).revoked
    /\ \A row \in Rows : /\ [row EXCEPT !.used = TRUE] \in Rows
                         /\ [row EXCEPT !.revoked = TRUE] \in Rows
                         /\ [row EXCEPT !.aged = TRUE] \in Rows
  BY DEF NoToken, Rows, NewToken

(* What a refresh may ask for, and a consent grant, is a set of scopes. *)
LEMMA ScopesTyped ==
    ASSUME TypeOK
    PROVE  /\ \A scope \in SUBSET AnyScope : RefreshScopes(scope) \subseteq SUBSET AnyScope
           /\ \A scope \in SUBSET AnyScope : \A held : Intersect(scope, held) \in SUBSET AnyScope
  BY DEF TypeOK, RefreshScopes, CurrentScopes, Intersect, AnyScope

(* Every step keeps the types. *)
LEMMA TypeInvariant == IInv /\ [Next]_vars => TypeOK'
<1> SUFFICES ASSUME IInv, [Next]_vars PROVE TypeOK'
  OBVIOUS
<1>0. /\ TypeOK
      /\ \A r \in Request : HandlerInv(r)
      /\ \A t \in Token : RowInv(t)
      /\ {"idle", "bind", "take", "mint", "code", "insert", "remember", "rotate", "revoke"} = Stages
  BY DEF IInv, RowsInv, Stages
<1>1. ASSUME UNCHANGED vars PROVE TypeOK'
  BY <1>0, <1>1 DEF TypeOK, vars, flowVars, tokenVars
<1>2. ASSUME NEW a \in Authz, Authorize(a) PROVE TypeOK'
  BY <1>0, <1>2 DEF TypeOK, Authorize, tokenVars, Requests
<1>3. ASSUME NEW r \in Request, Consent(r) PROVE TypeOK'
  <2>1. ASSUME NEW s \in Session, NEW a \in Authz, GetAuthorization(r, s, a) PROVE TypeOK'
    <3>1. [Idle EXCEPT !.stage = "bind", !.session = s, !.authz = a, !.scope = pending[a].scope] \in Handlers
      BY <1>0 DEF TypeOK, Requests, Idle, Handlers
    <3>2. req' \in [Request -> Handlers]
      BY <1>0, <2>1, <3>1, HandlerTypes DEF TypeOK, GetAuthorization
    <3> QED
      BY <1>0, <2>1, <3>2 DEF TypeOK, GetAuthorization, flowVars, tokenVars
  <2>2. ASSUME NEW s \in Session, NEW a \in Authz, DecideAuthorization(r, s, a) PROVE TypeOK'
    <3>1. [Idle EXCEPT !.stage = "take", !.session = s, !.authz = a, !.scope = pending[a].scope] \in Handlers
      BY <1>0 DEF TypeOK, Requests, Idle, Handlers
    <3>2. req' \in [Request -> Handlers]
      BY <1>0, <2>2, <3>1, HandlerTypes DEF TypeOK, DecideAuthorization
    <3> QED
      BY <1>0, <2>2, <3>2 DEF TypeOK, DecideAuthorization, flowVars, tokenVars
  <2>3. CASE Bind(r)
    <3>1. [session |-> req[r].session, scope |-> req[r].scope] \in Requests
      BY <1>0 DEF TypeOK, Handlers, Requests
    <3>2. pending' \in [Authz -> Requests] /\ rebound' \in SUBSET Authz
      BY <1>0, <2>3, <3>1 DEF TypeOK, Bind, At, HandlerInv
    <3>3. req' \in [Request -> Handlers]
      BY <1>0, <2>3, HandlerTypes DEF TypeOK, Bind
    <3> QED
      BY <1>0, <2>3, <3>2, <3>3 DEF TypeOK, Bind, tokenVars
  <2>4. CASE TakePending(r)
    <3>1. NoRequest \in Requests /\ req[r].authz \in Authz
      BY <1>0, <2>4 DEF NoRequest, Requests, TakePending, At, HandlerInv
    <3>2. req' \in [Request -> Handlers]
      BY <1>0, <2>4, HandlerTypes DEF TypeOK, TakePending
    <3>3. pending' \in [Authz -> Requests] /\ decided' \in [Authz -> Nat]
      BY <1>0, <2>4, <3>1 DEF TypeOK, TakePending
    <3> QED
      BY <1>0, <2>4, <3>2, <3>3 DEF TypeOK, TakePending, tokenVars
  <2>5. CASE MintCode(r)
    <3>1. \A held : [session |-> req[r].session, granted |-> Intersect(req[r].scope, held)] \in Codes
      BY <1>0, ScopesTyped DEF TypeOK, Handlers, Codes
    <3>2. code' \in [Code -> Codes] /\ cached' \in SUBSET Code /\ known' \in SUBSET (Code \cup Token)
      BY <1>0, <2>5, <3>1 DEF TypeOK, MintCode
    <3>3. req' \in [Request -> Handlers]
      BY <1>0, <2>5, HandlerTypes DEF TypeOK, MintCode
    <3> QED
      BY <1>0, <2>5, <3>2, <3>3 DEF TypeOK, MintCode, tokenVars
  <2> QED
    BY <1>3, <2>1, <2>2, <2>3, <2>4, <2>5 DEF Consent
<1>4. ASSUME NEW r \in Request, Redeem(r) PROVE TypeOK'
  <2>1. ASSUME NEW c \in Code, RedeemCode(r, c) PROVE TypeOK'
    <3>1. /\ [Idle EXCEPT !.stage = "code", !.code = c] \in Handlers
          /\ [Idle EXCEPT !.stage = "revoke", !.code = c, !.token = memory[c]] \in Handlers
      BY <1>0 DEF TypeOK, Idle, Handlers
    <3>2. req' \in [Request -> Handlers]
      <4>1. \E h \in Handlers : req' = [req EXCEPT ![r] = h]
        BY <2>1, <3>1 DEF RedeemCode, Idle
      <4> QED
        BY <1>0, <4>1, HandlerTypes DEF TypeOK
    <3>3. memory' \in [Code -> Token \cup {None}]
      BY <1>0, <2>1 DEF TypeOK, RedeemCode
    <3> QED
      BY <1>0, <2>1, <3>2, <3>3 DEF TypeOK, RedeemCode, flowVars
  <2>2. CASE TakeCode(r)
    <3>1. req' \in [Request -> Handlers]
      BY <1>0, <2>2, HandlerTypes DEF TypeOK, TakeCode
    <3> QED
      BY <1>0, <2>2, <3>1 DEF TypeOK, TakeCode, tokenVars
  <2>3. CASE NewFamily(r)
    <3>1. req[r].code \in Code /\ code[req[r].code].granted \in SUBSET AnyScope
      BY <1>0, <2>3 DEF TypeOK, Codes, NewFamily, At, HandlerInv
    <3>2. PICK t \in Token :
            /\ token' = [token EXCEPT ![t] = NewToken(t, req[r].code, code[req[r].code].granted)]
            /\ req' = [req EXCEPT ![r].stage = "remember", ![r].token = t]
      BY <2>3 DEF NewFamily
    <3>3. token' \in [Token -> Rows]
      BY <1>0, <3>1, <3>2, RowTypes DEF TypeOK
    <3>4. \A q \in Request : req'[q] \in Handlers
      <4>1. req'[r] = [req[r] EXCEPT !.stage = "remember", !.token = t]
        BY <1>0, <3>2 DEF TypeOK
      <4>2. req[r] \in Handlers
        BY <1>0 DEF TypeOK
      <4>3. req'[r] \in Handlers
        BY <1>0, <4>1, <4>2 DEF Handlers
      <4> QED
        BY <1>0, <3>2, <4>3 DEF TypeOK
    <3>5. req' \in [Request -> Handlers]
      BY <1>0, <3>2, <3>4 DEF TypeOK
    <3> QED
      BY <1>0, <2>3, <3>3, <3>5 DEF TypeOK, NewFamily, flowVars
  <2>4. CASE RememberRedeemed(r)
    <3>1. req[r].code \in Code /\ req[r].token \in Token
      BY <1>0, <2>4 DEF RememberRedeemed, At, HandlerInv
    <3>2. req' \in [Request -> Handlers]
      BY <1>0, <2>4, HandlerTypes DEF TypeOK, RememberRedeemed
    <3> QED
      BY <1>0, <2>4, <3>1, <3>2 DEF TypeOK, RememberRedeemed, flowVars
  <2> QED
    BY <1>4, <2>1, <2>2, <2>3, <2>4 DEF Redeem
<1>5. ASSUME NEW r \in Request, Rotation(r) PROVE TypeOK'
  <2>1. ASSUME NEW t \in Token, Refresh(r, t) PROVE TypeOK'
    <3>1. RefreshScopes(token[t].scope) \subseteq SUBSET AnyScope
      BY <1>0, ScopesTyped DEF TypeOK, Rows
    <3>2. [Idle EXCEPT !.stage = "revoke", !.token = t] \in Handlers
      BY <1>0 DEF Idle, Handlers
    <3>3. \A scopes \in RefreshScopes(token[t].scope) :
            [Idle EXCEPT !.stage = "rotate", !.token = t, !.scope = scopes] \in Handlers
      BY <1>0, <3>1 DEF Idle, Handlers
    <3>4. req' \in [Request -> Handlers]
      <4>1. \E h \in Handlers : req' = [req EXCEPT ![r] = h]
        BY <2>1, <3>2, <3>3 DEF Refresh, Idle
      <4> QED
        BY <1>0, <4>1, HandlerTypes DEF TypeOK
    <3> QED
      BY <1>0, <2>1, <3>4 DEF TypeOK, Refresh, flowVars, tokenVars
  <2>2. ASSUME NEW t \in Token, Revoke(r, t) PROVE TypeOK'
    <3>1. [Idle EXCEPT !.stage = "revoke", !.token = t] \in Handlers
      BY <1>0 DEF Idle, Handlers
    <3>2. req' \in [Request -> Handlers]
      <4>1. \E h \in Handlers : req' = [req EXCEPT ![r] = h]
        BY <2>2, <3>1 DEF Revoke, Idle
      <4> QED
        BY <1>0, <4>1, HandlerTypes DEF TypeOK
    <3> QED
      BY <1>0, <2>2, <3>2 DEF TypeOK, Revoke, flowVars, tokenVars
  <2>3. CASE RotateRefreshToken(r)
    <3>1. /\ req[r].token \in Token /\ token[req[r].token].family \in Token
          /\ token[req[r].token].code \in Code /\ req[r].scope \in SUBSET AnyScope
      BY <1>0, <2>3 DEF TypeOK, Handlers, RotateRefreshToken, At, HandlerInv, RowInv
    <3>2. req' \in [Request -> Handlers]
      BY <1>0, <2>3, HandlerTypes DEF TypeOK, RotateRefreshToken
    <3>3. token' \in [Token -> Rows]
      <4> DEFINE t == req[r].token
      <4>1. CASE Live(t)
        <5>1. PICK n \in Token : token' = [token EXCEPT ![t].used = TRUE,
                                 ![n] = NewToken(token[t].family, token[t].code, req[r].scope)]
          BY <2>3, <4>1 DEF RotateRefreshToken
        <5>2. NewToken(token[t].family, token[t].code, req[r].scope) \in Rows
          BY <3>1, RowTypes
        <5>3. \A u \in Token : token'[u] \in Rows
          BY <1>0, <5>1, <5>2 DEF TypeOK, Rows
        <5> QED
          BY <1>0, <5>1, <5>3 DEF TypeOK
      <4> QED
        BY <1>0, <2>3, <4>1 DEF TypeOK, RotateRefreshToken
    <3>4. known' \in SUBSET (Code \cup Token)
      BY <1>0, <2>3 DEF TypeOK, RotateRefreshToken
    <3> QED
      BY <1>0, <2>3, <3>2, <3>3, <3>4 DEF TypeOK, RotateRefreshToken, flowVars
  <2>4. CASE RevokeRefreshFamily(r)
    <3>1. token[req[r].token].family \in Token
      BY <1>0, <2>4 DEF RevokeRefreshFamily, At, HandlerInv, RowInv
    <3>2. req' \in [Request -> Handlers]
      BY <1>0, <2>4, HandlerTypes DEF TypeOK, RevokeRefreshFamily
    <3>3. token' \in [Token -> Rows]
      <4>1. PICK f : token' = Revoked(f)
        BY <2>4 DEF RevokeRefreshFamily
      <4>2. \A t \in Token : token'[t] \in Rows
        <5> TAKE t \in Token
        <5>1. token[t] \in Rows
          BY <1>0 DEF TypeOK
        <5>2. token'[t] = IF token[t].family = f THEN [token[t] EXCEPT !.revoked = TRUE] ELSE token[t]
          BY <4>1 DEF Revoked
        <5> QED
          BY <5>1, <5>2 DEF Rows
      <4> QED
        BY <4>1, <4>2 DEF Revoked
    <3> QED
      BY <1>0, <2>4, <3>1, <3>2, <3>3 DEF TypeOK, RevokeRefreshFamily, flowVars
  <2> QED
    BY <1>5, <2>1, <2>2, <2>3, <2>4 DEF Rotation
<1>6. ASSUME NEW r \in Request, Fails(r) PROVE TypeOK'
  <2>1. req' \in [Request -> Handlers]
    BY <1>0, <1>6, HandlerTypes DEF TypeOK, Fails
  <2> QED
    BY <1>0, <1>6, <2>1 DEF TypeOK, Fails, flowVars
<1>7. CASE Time
  <2>1. NoRequest \in Requests
    BY DEF NoRequest, Requests
  <2>2. ASSUME NEW t \in Token, Age(t) PROVE TypeOK'
    <3>1. [token[t] EXCEPT !.aged = TRUE] \in Rows
      BY <1>0, RowTypes DEF TypeOK
    <3>2. token' \in [Token -> Rows]
      BY <1>0, <2>2, <3>1 DEF TypeOK, Age
    <3> QED
      BY <1>0, <2>2, <3>2 DEF TypeOK, Age, flowVars
  <2>3. ASSUME NEW a \in Authz, ExpirePending(a) PROVE TypeOK'
    BY <1>0, <2>1, <2>3 DEF TypeOK, ExpirePending, tokenVars
  <2>4. ASSUME NEW c \in Code, ExpireCode(c) \/ ForgetRedeemed(c) PROVE TypeOK'
    BY <1>0, <2>4 DEF TypeOK, ExpireCode, ForgetRedeemed, tokenVars, flowVars
  <2> QED
    BY <1>7, <2>2, <2>3, <2>4 DEF Time
<1>8. CASE Restart
  <2>1. req' \in [Request -> Handlers]
    BY <1>0, <1>8 DEF Restart, Idle, Handlers
  <2> QED
    BY <1>0, <1>8, <2>1 DEF TypeOK, Restart, flowVars
<1> QED
  BY <1>1, <1>2, <1>3, <1>4, <1>5, <1>6, <1>7, <1>8 DEF Next

-----------------------------------------------------------------------------
(***************************************************************************)
(* Few steps touch the rows: the others keep them, and what is written     *)
(* once stays as it is.                                                    *)
(***************************************************************************)
Kept(t) ==
    Exists(t) =>
      /\ Exists(t)' /\ (Live(t)' => Live(t))
      /\ token'[t].family = token[t].family /\ token'[t].code = token[t].code
      /\ token'[t].scope = token[t].scope

(* The steps that write a row, a code or a family's end. *)
LEMMA Writers ==
    ASSUME [Next]_vars
    PROVE  \/ UNCHANGED <<token, code, ended>>
           \/ \E r \in Request : MintCode(r) \/ NewFamily(r) \/ RotateRefreshToken(r)
                                 \/ RevokeRefreshFamily(r)
           \/ \E t \in Token : Age(t)
  BY DEF Next, Consent, Redeem, Rotation, Time, vars, tokenVars, flowVars, Authorize, GetAuthorization,
         DecideAuthorization, Bind, TakePending, RedeemCode, TakeCode, RememberRedeemed, Refresh, Revoke,
         Fails, ExpirePending, ExpireCode, ForgetRedeemed, Restart

(* What RotateRefreshToken does to a live token and to its successor. *)
LEMMA Rotated ==
    ASSUME IInv, NEW r \in Request, RotateRefreshToken(r), Live(req[r].token)
    PROVE  \E n \in Token :
             /\ ~Exists(n) /\ req[r].token \in Token /\ n # req[r].token
             /\ token'[n] = NewToken(token[req[r].token].family, token[req[r].token].code, req[r].scope)
             /\ token'[req[r].token] = [token[req[r].token] EXCEPT !.used = TRUE]
             /\ \A u \in Token \ {n, req[r].token} : token'[u] = token[u]
             /\ known' \in {known, known \cup {n}}
<1> DEFINE t == req[r].token
<1>1. t \in Token /\ Exists(t) /\ token \in [Token -> Rows]
  BY DEF IInv, TypeOK, RotateRefreshToken, At, HandlerInv
<1>2. PICK n \in Token :
        /\ ~Exists(n) /\ known' \in {known, known \cup {n}}
        /\ token' = [token EXCEPT ![t].used = TRUE,
                       ![n] = NewToken(token[t].family, token[t].code, req[r].scope)]
  BY DEF RotateRefreshToken
<1>3. n # t
  BY <1>1, <1>2
<1> QED
  BY <1>1, <1>2, <1>3

(* What NewFamily writes. *)
LEMMA Begun ==
    ASSUME IInv, NEW r \in Request, NewFamily(r)
    PROVE  /\ req[r].code \in Code /\ code[req[r].code] # NoCode /\ Unredeemed(req[r].code)
           /\ \E n \in Token :
                /\ ~Exists(n)
                /\ token'[n] = NewToken(n, req[r].code, code[req[r].code].granted)
                /\ \A u \in Token \ {n} : token'[u] = token[u]
                /\ req' = [req EXCEPT ![r].stage = "remember", ![r].token = n]
<1>1. req[r].code \in Code /\ code[req[r].code] # NoCode /\ Unredeemed(req[r].code)
  BY DEF IInv, CodesInv, TakenInv, HandlerInv, NewFamily, At
<1>2. token \in [Token -> Rows]
  BY DEF IInv, TypeOK
<1> QED
  BY <1>1, <1>2 DEF NewFamily

(* What RevokeRefreshFamily writes. *)
LEMMA Ended ==
    ASSUME IInv, NEW r \in Request, RevokeRefreshFamily(r)
    PROVE  \E f \in Token :
             /\ f = token[req[r].token].family /\ req[r].token \in Token /\ Exists(req[r].token)
             /\ Exists(f) /\ ended' = ended \cup {f}
             /\ \A u \in Token : token'[u] = IF token[u].family = f
                                             THEN [token[u] EXCEPT !.revoked = TRUE] ELSE token[u]
  BY DEF IInv, HandlerInv, RowsInv, RowInv, RevokeRefreshFamily, Revoked, At

(* Neither a revocation nor time tells anything new of a family or a code. *)
LEMMA EndedKeeps ==
    ASSUME IInv,
           \/ \E r \in Request : RevokeRefreshFamily(r)
           \/ \E t \in Token : Age(t)
    PROVE  \A u \in Token : /\ token'[u].code = token[u].code /\ token'[u].family = token[u].family
                            /\ token'[u].scope = token[u].scope
<1>0. token \in [Token -> Rows]
  BY DEF IInv, TypeOK
<1> SUFFICES ASSUME NEW u \in Token
             PROVE  /\ token'[u].code = token[u].code /\ token'[u].family = token[u].family
                    /\ token'[u].scope = token[u].scope
  OBVIOUS
<1>1. \A row \in Rows : /\ [row EXCEPT !.revoked = TRUE].code = row.code
                        /\ [row EXCEPT !.revoked = TRUE].family = row.family
                        /\ [row EXCEPT !.revoked = TRUE].scope = row.scope
                        /\ [row EXCEPT !.aged = TRUE].code = row.code
                        /\ [row EXCEPT !.aged = TRUE].family = row.family
                        /\ [row EXCEPT !.aged = TRUE].scope = row.scope
  BY DEF Rows
<1>2. ASSUME NEW r \in Request, RevokeRefreshFamily(r)
      PROVE  token'[u] = token[u] \/ token'[u] = [token[u] EXCEPT !.revoked = TRUE]
  BY <1>2, Ended
<1>3. ASSUME NEW t \in Token, Age(t)
      PROVE  token'[u] = token[u] \/ token'[u] = [token[u] EXCEPT !.aged = TRUE]
  BY <1>0, <1>3 DEF Age
<1> QED
  BY <1>0, <1>1, <1>2, <1>3

(* What a row says of its family, code and scope it says for good, and a   *)
(* token that is not usable is not usable again.                           *)
LEMMA RowsKept == IInv /\ [Next]_vars => \A t \in Token : Kept(t)
<1> SUFFICES ASSUME IInv, [Next]_vars PROVE \A t \in Token : Kept(t)
  OBVIOUS
<1>0. token \in [Token -> Rows]
  BY DEF IInv, TypeOK
<1>1. CASE UNCHANGED token
  BY <1>1 DEF Kept, Exists, Live
<1>2. ASSUME NEW r \in Request, NewFamily(r) PROVE \A t \in Token : Kept(t)
  <2>1. PICK n \in Token : ~Exists(n) /\ \A u \in Token \ {n} : token'[u] = token[u]
    BY <1>2, Begun
  <2> QED
    BY <2>1 DEF Kept, Exists, Live
<1>3. ASSUME NEW r \in Request, RotateRefreshToken(r) PROVE \A t \in Token : Kept(t)
  <2>1. CASE Live(req[r].token)
    <3>1. PICK n \in Token :
            /\ ~Exists(n) /\ req[r].token \in Token
            /\ token'[req[r].token] = [token[req[r].token] EXCEPT !.used = TRUE]
            /\ \A u \in Token \ {n, req[r].token} : token'[u] = token[u]
      BY <1>3, <2>1, Rotated
    <3>2. token[req[r].token] \in Rows
      BY <1>0, <3>1
    <3> QED
      BY <3>1, <3>2 DEF Kept, Exists, Live, Rows
  <2>2. CASE ~Live(req[r].token)
    BY <1>1, <1>3, <2>2 DEF RotateRefreshToken
  <2> QED
    BY <2>1, <2>2
<1>4. ASSUME NEW r \in Request, RevokeRefreshFamily(r) PROVE \A t \in Token : Kept(t)
  BY <1>0, <1>4, Ended DEF Kept, Exists, Live, Rows
<1>5. ASSUME NEW t \in Token, Age(t) PROVE \A u \in Token : Kept(u)
  BY <1>0, <1>5 DEF Age, Kept, Exists, Live, Rows
<1> QED
  BY <1>1, <1>2, <1>3, <1>4, <1>5, Writers DEF MintCode, tokenVars

(* A code that was minted stays what it was minted for. *)
LEMMA CodesKept == IInv /\ [Next]_vars => \A c \in Code : code[c] # NoCode => code'[c] = code[c]
<1> SUFFICES ASSUME IInv, [Next]_vars, NEW c \in Code, code[c] # NoCode PROVE code'[c] = code[c]
  OBVIOUS
<1>1. ASSUME NEW r \in Request, MintCode(r) PROVE code'[c] = code[c]
  BY <1>1 DEF MintCode, IInv, TypeOK
<1>2. UNCHANGED code \/ \E r \in Request : MintCode(r)
  BY Writers DEF NewFamily, RotateRefreshToken, RevokeRefreshFamily, Age, flowVars
<1> QED
  BY <1>1, <1>2

-----------------------------------------------------------------------------
(***************************************************************************)
(* The rows: one usable token in a family, none in one that ended, one     *)
(* family for a code, no scope that was not granted.                       *)
(***************************************************************************)
LEMMA RowsInvariant == IInv /\ [Next]_vars => RowsInv'
<1> SUFFICES ASSUME IInv, [Next]_vars PROVE RowsInv'
  OBVIOUS
<1>0. /\ token \in [Token -> Rows] /\ token' \in [Token -> Rows] /\ code \in [Code -> Codes]
      /\ \A t \in Token : RowInv(t) /\ WidthInv(t) /\ Kept(t)
      /\ \A c \in Code : GrantInv(c)
      /\ \A c \in Code : code[c] # NoCode => code'[c] = code[c]
      /\ OneLiveToken /\ RevokedForGood /\ CodeBeginsOneFamily
      /\ \A f \in ended : f \in Token /\ Exists(f)
  BY TypeInvariant, RowsKept, CodesKept DEF IInv, RowsInv, NameInv, TypeOK
<1>1. CASE UNCHANGED <<token, code, ended>>
  BY <1>0, <1>1 DEF RowsInv, RowInv, WidthInv, GrantInv, OneLiveToken, RevokedForGood, CodeBeginsOneFamily,
                    Exists, Live
<1>2. ASSUME NEW r \in Request, MintCode(r) PROVE RowsInv'
  <2>1. UNCHANGED <<token, ended>>
    BY <1>2 DEF MintCode, tokenVars
  <2>2. ASSUME NEW c \in Code PROVE GrantInv(c)'
    <3>1. PICK d \in Code :
            code' = [code EXCEPT ![d] = [session |-> req[r].session,
                       granted |-> Intersect(req[r].scope, PrincipalScopes(req[r].session))]]
      BY <1>2 DEF MintCode
    <3>2. CASE c = d
      <4>1. req[r].session \in Session
        BY <1>2 DEF IInv, HandlerInv, MintCode, At
      <4>2. code'[c] = [session |-> req[r].session,
                        granted |-> Intersect(req[r].scope, PrincipalScopes(req[r].session))]
        BY <1>0, <3>1, <3>2
      <4> QED
        BY <4>1, <4>2 DEF GrantInv, Intersect, PrincipalScopes
    <3>3. CASE c # d
      BY <1>0, <3>1, <3>3 DEF GrantInv
    <3> QED
      BY <3>2, <3>3
  <2>3. ASSUME NEW t \in Token PROVE RowInv(t)' /\ WidthInv(t)'
    BY <1>0, <2>1 DEF RowInv, WidthInv, Exists
  <2>4. OneLiveToken' /\ RevokedForGood' /\ CodeBeginsOneFamily'
    BY <1>0, <2>1 DEF OneLiveToken, RevokedForGood, CodeBeginsOneFamily, Exists, Live
  <2> QED
    BY <2>2, <2>3, <2>4 DEF RowsInv
<1>3. ASSUME NEW r \in Request, NewFamily(r) PROVE RowsInv'
  <2>1. UNCHANGED <<code, ended>>
    BY <1>3 DEF NewFamily, flowVars
  <2>2. PICK n \in Token :
          /\ ~Exists(n)
          /\ token'[n] = NewToken(n, req[r].code, code[req[r].code].granted)
          /\ \A u \in Token \ {n} : token'[u] = token[u]
    BY <1>3, Begun
  <2>3. req[r].code \in Code /\ code[req[r].code] # NoCode /\ Unredeemed(req[r].code)
    BY <1>3, Begun
  <2>4. /\ token'[n].family = n /\ token'[n].code = req[r].code
        /\ token'[n].scope = code[req[r].code].granted /\ Exists(n)'
    BY <2>2 DEF NewToken, NoToken, Exists
  <2>5. \A u \in Token : Exists(u) => token[u].family # n /\ u # n
    BY <1>0, <2>2 DEF RowInv
  <2>6. ASSUME NEW t \in Token PROVE RowInv(t)' /\ WidthInv(t)'
    BY <1>0, <2>1, <2>2, <2>3, <2>4 DEF RowInv, WidthInv, Exists
  <2>7. ASSUME NEW c \in Code PROVE GrantInv(c)'
    BY <1>0, <2>1 DEF GrantInv
  <2>8. OneLiveToken'
    BY <1>0, <2>2, <2>4, <2>5 DEF OneLiveToken, Live, Exists
  <2>9. RevokedForGood'
    BY <1>0, <2>1, <2>2, <2>4 DEF RevokedForGood, Live, Exists
  <2>10. CodeBeginsOneFamily'
    BY <1>0, <2>2, <2>3, <2>4 DEF CodeBeginsOneFamily, Exists, Unredeemed
  <2> QED
    BY <2>6, <2>7, <2>8, <2>9, <2>10 DEF RowsInv
<1>4. ASSUME NEW r \in Request, RotateRefreshToken(r), Live(req[r].token) PROVE RowsInv'
  <2>1. UNCHANGED <<code, ended>>
    BY <1>4 DEF RotateRefreshToken, flowVars
  <2>2. PICK t \in Token, n \in Token :
          /\ t = req[r].token /\ ~Exists(n) /\ n # t
          /\ token'[n] = NewToken(token[t].family, token[t].code, req[r].scope)
          /\ token'[t] = [token[t] EXCEPT !.used = TRUE]
          /\ \A u \in Token \ {n, t} : token'[u] = token[u]
    BY <1>4, Rotated
  <2>3. token[t] \in Rows /\ Exists(t) /\ Live(t)
    BY <1>0, <1>4, <2>2 DEF Live
  <2>4. /\ token'[n].family = token[t].family /\ token'[n].code = token[t].code
        /\ token'[n].scope = req[r].scope /\ Exists(n)'
    BY <2>2, <2>3 DEF NewToken, NoToken, Exists
  <2>5. token'[t].used /\ token'[t].family = token[t].family /\ token'[t].code = token[t].code
    BY <2>2, <2>3 DEF Rows
  <2>12. \A u \in Token \ {n} : /\ token'[u].family = token[u].family /\ token'[u].code = token[u].code
                               /\ (Exists(u)' <=> Exists(u)) /\ (Live(u)' => Live(u) /\ u # t)
    <3> TAKE u \in Token \ {n}
    <3>1. CASE u = t
      BY <2>3, <2>5, <3>1 DEF Live, Exists
    <3>2. CASE u # t
      BY <2>2, <3>2 DEF Live, Exists
    <3> QED
      BY <3>1, <3>2
  <2>6. req[r].scope \subseteq code[token[t].code].granted \cup {Public}
    BY <1>4, <2>2 DEF IInv, HandlerInv, RotateRefreshToken, At
  <2>7. ASSUME NEW u \in Token PROVE RowInv(u)' /\ WidthInv(u)'
    <3>1. CASE u = n
      BY <1>0, <2>1, <2>2, <2>3, <2>4, <2>6, <3>1 DEF RowInv, WidthInv, Kept
    <3>2. CASE u # n
      BY <1>0, <2>1, <2>2, <2>3, <3>2 DEF RowInv, WidthInv, Kept, Exists
    <3> QED
      BY <3>1, <3>2
  <2>8. ASSUME NEW c \in Code PROVE GrantInv(c)'
    BY <1>0, <2>1 DEF GrantInv
  <2>9. OneLiveToken'
    BY <1>0, <2>2, <2>3, <2>4, <2>12 DEF OneLiveToken
  <2>10. RevokedForGood'
    BY <1>0, <2>1, <2>2, <2>3, <2>4, <2>12 DEF RevokedForGood
  <2>11. CodeBeginsOneFamily'
    BY <1>0, <2>2, <2>3, <2>4, <2>12 DEF CodeBeginsOneFamily
  <2> QED
    BY <2>7, <2>8, <2>9, <2>10, <2>11 DEF RowsInv
<1>5. ASSUME NEW r \in Request, RotateRefreshToken(r), ~Live(req[r].token) PROVE RowsInv'
  BY <1>1, <1>5 DEF RotateRefreshToken, flowVars
<1>6. ASSUME NEW r \in Request, RevokeRefreshFamily(r) PROVE RowsInv'
  <2>1. UNCHANGED code
    BY <1>6 DEF RevokeRefreshFamily, flowVars
  <2>2. PICK f \in Token :
          /\ Exists(f) /\ ended' = ended \cup {f}
          /\ \A u \in Token : token'[u] = IF token[u].family = f
                                          THEN [token[u] EXCEPT !.revoked = TRUE] ELSE token[u]
    BY <1>6, Ended
  <2>3. \A u \in Token : /\ token'[u].family = token[u].family /\ token'[u].code = token[u].code
                         /\ token'[u].scope = token[u].scope
                         /\ (Exists(u)' <=> Exists(u)) /\ (Live(u)' => Live(u) /\ token[u].family # f)
    BY <1>0, <2>2 DEF Rows, Live, Exists
  <2>4. ASSUME NEW u \in Token PROVE RowInv(u)' /\ WidthInv(u)'
    BY <1>0, <2>1, <2>3 DEF RowInv, WidthInv
  <2>5. ASSUME NEW c \in Code PROVE GrantInv(c)'
    BY <1>0, <2>1 DEF GrantInv
  <2>6. OneLiveToken' /\ RevokedForGood' /\ CodeBeginsOneFamily'
    BY <1>0, <2>2, <2>3 DEF OneLiveToken, RevokedForGood, CodeBeginsOneFamily
  <2> QED
    BY <2>4, <2>5, <2>6 DEF RowsInv
<1>7. ASSUME NEW t \in Token, Age(t) PROVE RowsInv'
  <2>1. UNCHANGED <<code, ended>> /\ token' = [token EXCEPT ![t].aged = TRUE]
    BY <1>7 DEF Age, flowVars
  <2>2. \A u \in Token : /\ token'[u].family = token[u].family /\ token'[u].code = token[u].code
                         /\ token'[u].scope = token[u].scope
                         /\ (Exists(u)' <=> Exists(u)) /\ (Live(u)' => Live(u))
    BY <1>0, <2>1 DEF Rows, Live, Exists
  <2>3. ASSUME NEW u \in Token PROVE RowInv(u)' /\ WidthInv(u)'
    BY <1>0, <2>1, <2>2 DEF RowInv, WidthInv
  <2>4. ASSUME NEW c \in Code PROVE GrantInv(c)'
    BY <1>0, <2>1 DEF GrantInv
  <2>5. OneLiveToken' /\ RevokedForGood' /\ CodeBeginsOneFamily'
    BY <1>0, <2>1, <2>2 DEF OneLiveToken, RevokedForGood, CodeBeginsOneFamily
  <2> QED
    BY <2>3, <2>4, <2>5 DEF RowsInv
<1> QED
  BY <1>1, <1>2, <1>3, <1>4, <1>5, <1>6, <1>7, Writers

-----------------------------------------------------------------------------
(***************************************************************************)
(* The handlers: which step moves one, and what it holds then.             *)
(***************************************************************************)
Moves(q) ==
    \/ \E s \in Session, a \in Authz : GetAuthorization(q, s, a) \/ DecideAuthorization(q, s, a)
    \/ TakePending(q) /\ req'[q] = [req[q] EXCEPT !.stage = "mint"]
    \/ \E c \in Code : RedeemCode(q, c)
    \/ TakeCode(q) /\ req'[q] = [req[q] EXCEPT !.stage = "insert"]
    \/ NewFamily(q)
    \/ \E t \in Token : Refresh(q, t) \/ Revoke(q, t)
    \/ RotateRefreshToken(q) /\ req'[q] = [req[q] EXCEPT !.stage = "revoke"]

(* A handler stays, is over, or makes one of its moves. *)
LEMMA Moved ==
    ASSUME IInv, [Next]_vars, NEW q \in Request
    PROVE  req'[q] = req[q] \/ req'[q] = Idle \/ Moves(q)
<1>0. req \in [Request -> Handlers]
  BY DEF IInv, TypeOK
<1>1. ASSUME NEW r \in Request, Consent(r) PROVE req'[q] = req[q] \/ req'[q] = Idle \/ Moves(q)
  <2>1. CASE q = r
    BY <1>0, <1>1, <2>1 DEF Consent, Moves, Bind, TakePending, MintCode, Goto, Finish
  <2>2. CASE q # r
    BY <1>0, <1>1, <2>2 DEF Consent, GetAuthorization, DecideAuthorization, Bind, TakePending, MintCode,
                            Goto, Finish
  <2> QED
    BY <2>1, <2>2
<1>2. ASSUME NEW r \in Request, Redeem(r) PROVE req'[q] = req[q] \/ req'[q] = Idle \/ Moves(q)
  <2>1. CASE q = r
    BY <1>0, <1>2, <2>1 DEF Redeem, Moves, TakeCode, RememberRedeemed, Goto, Finish
  <2>2. CASE q # r
    BY <1>0, <1>2, <2>2 DEF Redeem, RedeemCode, TakeCode, NewFamily, RememberRedeemed, Goto, Finish
  <2> QED
    BY <2>1, <2>2
<1>3. ASSUME NEW r \in Request, Rotation(r) PROVE req'[q] = req[q] \/ req'[q] = Idle \/ Moves(q)
  <2>1. CASE q = r
    BY <1>0, <1>3, <2>1 DEF Rotation, Moves, RotateRefreshToken, RevokeRefreshFamily, Goto, Finish
  <2>2. CASE q # r
    BY <1>0, <1>3, <2>2 DEF Rotation, Refresh, Revoke, RotateRefreshToken, RevokeRefreshFamily, Goto, Finish
  <2> QED
    BY <2>1, <2>2
<1>4. ASSUME NEW r \in Request, Fails(r) PROVE req'[q] = req[q] \/ req'[q] = Idle
  BY <1>0, <1>4 DEF Fails, Finish
<1>5. ASSUME NEW a \in Authz, Authorize(a) PROVE req'[q] = req[q]
  BY <1>5 DEF Authorize
<1>6. CASE Time
  BY <1>6 DEF Time, ExpirePending, ExpireCode, ForgetRedeemed, Age
<1>7. CASE Restart
  BY <1>7 DEF Restart
<1>8. CASE UNCHANGED vars
  BY <1>8 DEF vars
<1> QED
  BY <1>1, <1>2, <1>3, <1>4, <1>5, <1>6, <1>7, <1>8 DEF Next

(* A handler that stays where it is keeps what it holds. *)
LEMMA HandlerKept ==
    ASSUME IInv, [Next]_vars, NEW q \in Request, req'[q] = req[q]
    PROVE  HandlerInv(q)'
<1>1. /\ \A t \in Token : Kept(t) /\ RowInv(t)
      /\ \A c \in Code : code[c] # NoCode => code'[c] = code[c]
      /\ HandlerInv(q)
  BY RowsKept, CodesKept DEF IInv, RowsInv
<1>2. CASE req[q].stage \in {"remember", "rotate", "revoke"}
  <2>1. PICK t \in Token : t = req[q].token /\ Exists(t)
    BY <1>1, <1>2 DEF HandlerInv
  <2>2. /\ Exists(t)' /\ token'[t].family = token[t].family
        /\ token'[t].code = token[t].code /\ code'[token[t].code] = code[token[t].code]
    BY <1>1, <2>1 DEF Kept, RowInv
  <2> QED
    BY <1>1, <1>2, <2>1, <2>2 DEF HandlerInv, Exists
<1>3. CASE req[q].stage \notin {"remember", "rotate", "revoke"}
  BY <1>1, <1>3 DEF HandlerInv
<1> QED
  BY <1>2, <1>3

LEMMA HandlersInvariant == IInv /\ [Next]_vars => \A q \in Request : HandlerInv(q)'
<1> SUFFICES ASSUME IInv, [Next]_vars, NEW q \in Request PROVE HandlerInv(q)'
  OBVIOUS
<1>0. /\ req \in [Request -> Handlers] /\ memory \in [Code -> Token \cup {None}]
      /\ HandlerInv(q) /\ NameInv
      /\ \A t \in Token : Kept(t) /\ RowInv(t) /\ WidthInv(t)
      /\ \A c \in Code : code[c] # NoCode => code'[c] = code[c]
  BY RowsKept, CodesKept DEF IInv, RowsInv, TypeOK
<1>1. CASE req'[q] = req[q]
  BY <1>1, HandlerKept
<1>2. CASE req'[q] = Idle
  BY <1>2 DEF HandlerInv, Idle
<1>3. ASSUME NEW s \in Session, NEW a \in Authz, GetAuthorization(q, s, a) \/ DecideAuthorization(q, s, a)
      PROVE HandlerInv(q)'
  <2>1. req'[q].stage \in {"bind", "take"} /\ req'[q].session = s /\ req'[q].authz = a
    <3>1. CASE GetAuthorization(q, s, a)
      BY <1>0, <3>1 DEF GetAuthorization, Idle
    <3>2. CASE DecideAuthorization(q, s, a)
      BY <1>0, <3>2 DEF DecideAuthorization, Idle
    <3> QED
      BY <1>3, <3>1, <3>2
  <2> QED
    BY <2>1 DEF HandlerInv
<1>4. CASE TakePending(q) /\ req'[q] = [req[q] EXCEPT !.stage = "mint"]
  BY <1>0, <1>4 DEF TakePending, At, HandlerInv, Handlers
<1>5. ASSUME NEW c \in Code, RedeemCode(q, c) PROVE HandlerInv(q)'
  <2>1. CASE memory[c] # None /\ req' = [req EXCEPT ![q] = [Idle EXCEPT !.stage = "revoke",
                                                             !.code = c, !.token = memory[c]]]
    <3>1. PICK t \in Token : t = memory[c] /\ Exists(t)
      BY <1>0, <2>1 DEF NameInv
    <3>2. Exists(t)'
      BY <1>0, <3>1 DEF Kept
    <3>3. req'[q].stage = "revoke" /\ req'[q].token = t
      BY <1>0, <2>1, <3>1 DEF Idle
    <3> QED
      BY <3>2, <3>3 DEF HandlerInv, Exists
  <2>2. CASE req' = [req EXCEPT ![q] = [Idle EXCEPT !.stage = "code", !.code = c]]
    <3>1. req'[q].stage = "code" /\ req'[q].code = c
      BY <1>0, <2>2 DEF Idle
    <3> QED
      BY <3>1 DEF HandlerInv
  <2> QED
    BY <1>5, <2>1, <2>2 DEF RedeemCode
<1>6. CASE TakeCode(q) /\ req'[q] = [req[q] EXCEPT !.stage = "insert"]
  <2>1. req'[q].stage = "insert" /\ req'[q].code = req[q].code /\ req[q].code \in Code
    BY <1>0, <1>6 DEF TakeCode, At, HandlerInv, Handlers
  <2> QED
    BY <2>1 DEF HandlerInv
<1>7. CASE NewFamily(q)
  <2>1. PICK n \in Token :
          /\ token'[n] = NewToken(n, req[q].code, code[req[q].code].granted)
          /\ req' = [req EXCEPT ![q].stage = "remember", ![q].token = n]
    BY <1>7, Begun
  <2>2. req'[q].stage = "remember" /\ req'[q].token = n /\ req'[q].code = req[q].code
    BY <1>0, <2>1 DEF Handlers
  <2>3. token'[n].code = req[q].code /\ token'[n].family = n /\ req[q].code \in Code
    BY <1>7, <2>1, Begun DEF NewToken, NoToken
  <2> QED
    BY <2>2, <2>3 DEF HandlerInv, Exists
<1>8. ASSUME NEW t \in Token, Refresh(q, t) \/ Revoke(q, t) PROVE HandlerInv(q)'
  <2>1. Exists(t) /\ Exists(t)' /\ token'[t].code = token[t].code /\ token[t].code \in Code
        /\ code'[token[t].code] = code[token[t].code] /\ WidthInv(t)
    BY <1>0, <1>8 DEF Refresh, Revoke, NameInv, Kept, RowInv
  <2>2. CASE req'[q].stage = "revoke" /\ req'[q].token = t
    BY <2>1, <2>2 DEF HandlerInv, Exists
  <2>3. CASE \E scopes \in RefreshScopes(token[t].scope) :
               req' = [req EXCEPT ![q] = [Idle EXCEPT !.stage = "rotate", !.token = t, !.scope = scopes]]
    <3>1. PICK scopes \in RefreshScopes(token[t].scope) :
            req'[q].stage = "rotate" /\ req'[q].token = t /\ req'[q].scope = scopes
      BY <1>0, <2>3 DEF Idle
    <3>2. scopes \subseteq token[t].scope \cup {Public}
      BY DEF RefreshScopes, CurrentScopes
    <3> QED
      BY <2>1, <3>1, <3>2 DEF HandlerInv, Exists, WidthInv
  <2> QED
    BY <1>0, <1>8, <2>2, <2>3 DEF Refresh, Revoke, Idle
<1>9. CASE RotateRefreshToken(q) /\ req'[q] = [req[q] EXCEPT !.stage = "revoke"]
  <2>1. PICK t \in Token : t = req[q].token /\ Exists(t)
    BY <1>0, <1>9 DEF RotateRefreshToken, At, HandlerInv
  <2>2. Exists(t)'
    BY <1>0, <2>1 DEF Kept
  <2>3. req'[q].stage = "revoke" /\ req'[q].token = t
    BY <1>0, <1>9, <2>1 DEF Handlers
  <2> QED
    BY <2>2, <2>3 DEF HandlerInv, Exists
<1> QED
  BY <1>1, <1>2, <1>3, <1>4, <1>5, <1>6, <1>7, <1>8, <1>9, Moved DEF Moves

-----------------------------------------------------------------------------
(***************************************************************************)
(* What is remembered of a token, by a client, by the cache or by a family *)
(* that ended, is a row.                                                   *)
(***************************************************************************)
(* The steps that tell a client something. *)
LEMMA KnownWriters ==
    ASSUME [Next]_vars
    PROVE  \/ UNCHANGED known
           \/ \E r \in Request : MintCode(r) \/ RememberRedeemed(r) \/ RotateRefreshToken(r)
  BY DEF Next, Consent, Redeem, Rotation, Time, vars, tokenVars, flowVars, Authorize, GetAuthorization,
         DecideAuthorization, Bind, TakePending, RedeemCode, TakeCode, NewFamily, Refresh, Revoke,
         RevokeRefreshFamily, Fails, ExpirePending, ExpireCode, ForgetRedeemed, Age, Restart

(* The steps that change what is remembered of a code. *)
MemoryMoves(c) ==
    \/ \E r \in Request : RedeemCode(r, c)
    \/ \E r \in Request : /\ RememberRedeemed(r) /\ req[r].code = c
                          /\ memory' = [memory EXCEPT ![c] = req[r].token]
    \/ ForgetRedeemed(c)

LEMMA MemoryWriters ==
    ASSUME IInv, [Next]_vars, NEW c \in Code
    PROVE  memory'[c] = memory[c] \/ MemoryMoves(c)
<1>0. memory \in [Code -> Token \cup {None}]
  BY DEF IInv, TypeOK
<1>1. ASSUME NEW r \in Request, NEW d \in Code, RedeemCode(r, d) PROVE memory'[c] = memory[c] \/ MemoryMoves(c)
  BY <1>0, <1>1 DEF RedeemCode, MemoryMoves
<1>2. ASSUME NEW r \in Request, RememberRedeemed(r) PROVE memory'[c] = memory[c] \/ MemoryMoves(c)
  BY <1>0, <1>2 DEF RememberRedeemed, MemoryMoves
<1>3. ASSUME NEW d \in Code, ForgetRedeemed(d) PROVE memory'[c] = memory[c] \/ MemoryMoves(c)
  BY <1>0, <1>3 DEF ForgetRedeemed, MemoryMoves
<1>4. \/ UNCHANGED memory
      \/ \E r \in Request : RememberRedeemed(r) \/ \E d \in Code : RedeemCode(r, d)
      \/ \E d \in Code : ForgetRedeemed(d)
  BY DEF Next, Consent, Redeem, Rotation, Time, vars, tokenVars, flowVars, Authorize, GetAuthorization,
         DecideAuthorization, Bind, TakePending, MintCode, TakeCode, NewFamily, Refresh, Revoke,
         RotateRefreshToken, RevokeRefreshFamily, Fails, ExpirePending, ExpireCode, Age, Restart
<1> QED
  BY <1>1, <1>2, <1>3, <1>4

(* A redemption that is remembered names the family it began. *)
LEMMA NamesInvariant == IInv /\ [Next]_vars => NameInv'
<1> SUFFICES ASSUME IInv, [Next]_vars PROVE NameInv'
  OBVIOUS
<1>0. /\ token \in [Token -> Rows] /\ memory \in [Code -> Token \cup {None}]
      /\ memory' \in [Code -> Token \cup {None}] /\ ended \in SUBSET Token /\ known \in SUBSET (Code \cup Token)
      /\ \A t \in Token : Kept(t) /\ RowInv(t)
      /\ \A r \in Request : HandlerInv(r)
      /\ NameInv
  BY TypeInvariant, RowsKept DEF IInv, RowsInv, TypeOK
<1>1. ASSUME NEW t \in known' \cap Token PROVE Exists(t)'
  <2>1. CASE t \in known
    BY <1>0, <2>1 DEF NameInv, Kept
  <2>2. ASSUME NEW r \in Request, MintCode(r) PROVE t \in known
    BY <2>2 DEF MintCode
  <2>3. ASSUME NEW r \in Request, RememberRedeemed(r) PROVE Exists(t)'
    <3>1. t \in known \/ (t = req[r].token /\ Exists(t))
      BY <1>0, <2>3 DEF RememberRedeemed, At, HandlerInv
    <3> QED
      BY <1>0, <2>1, <3>1 DEF Kept
  <2>4. ASSUME NEW r \in Request, RotateRefreshToken(r), t \notin known PROVE Exists(t)'
    <3>1. Live(req[r].token)
      BY <2>4 DEF RotateRefreshToken
    <3>2. req[r].token \in Token /\ token[req[r].token].family \in Token
      BY <1>0, <2>4 DEF RotateRefreshToken, At, HandlerInv, RowInv
    <3>3. PICK n \in Token :
            /\ token'[n] = NewToken(token[req[r].token].family, token[req[r].token].code, req[r].scope)
            /\ known' \in {known, known \cup {n}}
      BY <2>4, <3>1, Rotated
    <3>4. token'[n].family \in Token
      BY <3>2, <3>3 DEF NewToken, NoToken
    <3> QED
      BY <2>4, <3>3, <3>4 DEF Exists
  <2> QED
    BY <2>1, <2>2, <2>3, <2>4, KnownWriters
<1>2. ASSUME NEW c \in Code, memory'[c] # None
      PROVE  \E t \in Token : memory'[c] = t /\ Exists(t) /\ token[t].code = c /\ token[t].family = t
  <2>1. CASE memory'[c] = memory[c]
    BY <1>0, <1>2, <2>1 DEF NameInv
  <2>2. ASSUME NEW r \in Request, RedeemCode(r, c) PROVE memory'[c] = None \/ memory'[c] = memory[c]
    BY <1>0, <2>2 DEF RedeemCode
  <2>3. ASSUME NEW r \in Request, RememberRedeemed(r), req[r].code = c,
               memory' = [memory EXCEPT ![c] = req[r].token]
        PROVE  \E t \in Token : memory'[c] = t /\ Exists(t) /\ token[t].code = c /\ token[t].family = t
    BY <1>0, <2>3 DEF RememberRedeemed, At, HandlerInv
  <2>4. CASE ForgetRedeemed(c)
    BY <1>0, <1>2, <2>4 DEF ForgetRedeemed
  <2> QED
    BY <1>2, <2>1, <2>2, <2>3, <2>4, MemoryWriters DEF MemoryMoves
<1>3. ASSUME NEW c \in Code, memory'[c] # None
      PROVE  (Exists(memory[c]) /\ token[memory[c]].code = c /\ token[memory[c]].family = memory[c])'
  <2>1. PICK t \in Token : memory'[c] = t /\ Exists(t) /\ token[t].code = c /\ token[t].family = t
    BY <1>2, <1>3
  <2>2. token'[t].family = t /\ token'[t].code = c /\ token'[t].family # None
    BY <1>0, <2>1 DEF Kept, Exists
  <2> QED
    BY <2>1, <2>2 DEF Exists
<1>4. ASSUME NEW f \in ended' PROVE Exists(f)'
  <2>1. f \in Token /\ Exists(f)
    <3>1. CASE f \in ended
      BY <1>0, <3>1 DEF NameInv
    <3>2. ASSUME NEW r \in Request, RevokeRefreshFamily(r), f \notin ended PROVE f \in Token /\ Exists(f)
      BY <3>2, Ended
    <3> QED
      BY <3>1, <3>2, Writers DEF MintCode, NewFamily, RotateRefreshToken, Age, tokenVars
  <2> QED
    BY <1>0, <2>1 DEF Kept
<1> QED
  BY <1>1, <1>3, <1>4 DEF NameInv

-----------------------------------------------------------------------------
(***************************************************************************)
(* The codes: taken by one handler, which begins the one family.           *)
(***************************************************************************)
(* A code stays unredeemed until a handler that took it begins a family.   *)
LEMMA UnredeemedKept ==
    ASSUME IInv, [Next]_vars, NEW c \in Code, Unredeemed(c),
           \A r \in Request : NewFamily(r) => req[r].code # c
    PROVE  Unredeemed(c)'
<1>0. token \in [Token -> Rows] /\ \A t \in Token : RowInv(t) /\ Kept(t)
  BY RowsKept DEF IInv, RowsInv, TypeOK
<1>1. CASE UNCHANGED token
  BY <1>1 DEF Unredeemed, Exists
<1>2. ASSUME NEW r \in Request, NewFamily(r) PROVE Unredeemed(c)'
  <2>1. PICK n \in Token :
          /\ token'[n] = NewToken(n, req[r].code, code[req[r].code].granted)
          /\ \A u \in Token \ {n} : token'[u] = token[u]
    BY <1>2, Begun
  <2>2. token'[n].code # c
    BY <1>2, <2>1 DEF NewToken, NoToken
  <2> QED
    BY <2>1, <2>2 DEF Unredeemed, Exists
<1>3. ASSUME NEW r \in Request, RotateRefreshToken(r) PROVE Unredeemed(c)'
  <2>1. CASE Live(req[r].token)
    <3>1. PICK t \in Token, n \in Token :
            /\ t = req[r].token /\ Exists(t)
            /\ token'[n] = NewToken(token[t].family, token[t].code, req[r].scope)
            /\ token'[t] = [token[t] EXCEPT !.used = TRUE]
            /\ \A u \in Token \ {n, t} : token'[u] = token[u]
      <4>1. Exists(req[r].token)
        BY <2>1 DEF Live
      <4> QED
        BY <1>3, <2>1, <4>1, Rotated
    <3>2. token'[n].code # c
      BY <3>1 DEF NewToken, NoToken, Unredeemed
    <3>3. token[t].code # c /\ token'[t].code = token[t].code
      BY <1>0, <3>1 DEF Unredeemed, Kept
    <3> QED
      BY <3>1, <3>2, <3>3 DEF Unredeemed, Exists
  <2>2. CASE ~Live(req[r].token)
    BY <1>1, <1>3, <2>2 DEF RotateRefreshToken
  <2> QED
    BY <2>1, <2>2
<1>4. ASSUME NEW r \in Request, RevokeRefreshFamily(r) PROVE Unredeemed(c)'
  <2>1. \A u \in Token : token'[u].code = token[u].code /\ token'[u].family = token[u].family
    BY <1>4, EndedKeeps
  <2> QED
    BY <2>1 DEF Unredeemed, Exists
<1>5. ASSUME NEW t \in Token, Age(t) PROVE Unredeemed(c)'
  <2>1. \A u \in Token : token'[u].code = token[u].code /\ token'[u].family = token[u].family
    BY <1>5, EndedKeeps
  <2> QED
    BY <2>1 DEF Unredeemed, Exists
<1> QED
  BY <1>1, <1>2, <1>3, <1>4, <1>5, Writers DEF MintCode, tokenVars

(* The steps that touch the cached codes. *)
LEMMA CacheWriters ==
    ASSUME [Next]_vars
    PROVE  cached' \subseteq cached \/ \E r \in Request : MintCode(r)
  BY DEF Next, Consent, Redeem, Rotation, Time, vars, tokenVars, flowVars, Authorize, GetAuthorization,
         DecideAuthorization, Bind, TakePending, RedeemCode, TakeCode, NewFamily, RememberRedeemed, Refresh,
         Revoke, RotateRefreshToken, RevokeRefreshFamily, Fails, ExpirePending, ExpireCode, ForgetRedeemed,
         Age, Restart

(* Minting makes a code nobody has. *)
LEMMA Minted ==
    ASSUME IInv, NEW r \in Request, MintCode(r)
    PROVE  \E c \in Code :
             /\ code[c] = NoCode /\ cached' = cached \cup {c} /\ code'[c] # NoCode
             /\ Unredeemed(c) /\ UNCHANGED token
<1>1. /\ code \in [Code -> Codes] /\ req[r].session \in Session
      /\ \A t \in Token : RowInv(t)
  BY DEF IInv, TypeOK, RowsInv, HandlerInv, MintCode, At
<1>2. PICK c \in Code :
        /\ code[c] = NoCode /\ cached' = cached \cup {c}
        /\ code' = [code EXCEPT ![c] = [session |-> req[r].session,
                      granted |-> Intersect(req[r].scope, PrincipalScopes(req[r].session))]]
  BY DEF MintCode
<1>3. code'[c].session # None
  BY <1>1, <1>2
<1>4. Unredeemed(c)
  BY <1>1, <1>2 DEF RowInv, Unredeemed
<1> QED
  BY <1>2, <1>3, <1>4 DEF NoCode, MintCode, tokenVars

LEMMA CodesInvariant == IInv /\ [Next]_vars => CodesInv'
<1> SUFFICES ASSUME IInv, [Next]_vars PROVE CodesInv'
  OBVIOUS
<1>0. /\ req \in [Request -> Handlers] /\ cached \in SUBSET Code /\ CachedInv
      /\ \A r \in Request : TakenInv(r) /\ HandlerInv(r)
      /\ \A c \in Code : code[c] # NoCode => code'[c] = code[c]
  BY CodesKept DEF IInv, CodesInv, TypeOK
<1>1. ASSUME NEW c \in cached' PROVE code'[c] # NoCode /\ Unredeemed(c)'
  <2>1. CASE c \in cached
    <3>1. c \in Code /\ code[c] # NoCode /\ Unredeemed(c)
      BY <1>0, <2>1 DEF CachedInv
    <3>2. \A r \in Request : NewFamily(r) => req[r].code # c
      BY <1>0, <2>1 DEF TakenInv, NewFamily
    <3> QED
      BY <1>0, <3>1, <3>2, UnredeemedKept
  <2>2. CASE c \notin cached
    <3>1. PICK r \in Request : MintCode(r)
      BY <2>2, CacheWriters
    <3>2. PICK d \in Code : /\ code'[d] # NoCode /\ cached' = cached \cup {d}
                            /\ Unredeemed(d) /\ UNCHANGED token
      BY <3>1, Minted
    <3>3. c = d
      BY <2>2, <3>2
    <3> QED
      BY <3>2, <3>3 DEF Unredeemed, Exists
  <2> QED
    BY <2>1, <2>2
<1>2. ASSUME NEW q \in Request, req'[q].stage = "insert"
      PROVE  \/ req'[q] = req[q] /\ At(q, "insert")
             \/ TakeCode(q) /\ req[q].code \in cached /\ req'[q].code = req[q].code
  <2>1. req'[q] # Idle
    BY <1>2 DEF Idle
  <2>2. CASE req'[q] = req[q]
    BY <1>2, <2>2 DEF At
  <2>3. CASE TakeCode(q) /\ req'[q] = [req[q] EXCEPT !.stage = "insert"]
    <3>1. req'[q].code = req[q].code
      BY <1>0, <2>3 DEF Handlers
    <3>2. req[q].code \in cached
      BY <1>0, <2>1, <2>3 DEF TakeCode, Finish
    <3> QED
      BY <2>3, <3>1, <3>2
  <2>4. ASSUME NEW s \in Session, NEW a \in Authz, GetAuthorization(q, s, a) \/ DecideAuthorization(q, s, a)
        PROVE  FALSE
    BY <1>0, <1>2, <2>4 DEF GetAuthorization, DecideAuthorization, Idle
  <2>5. ~(TakePending(q) /\ req'[q] = [req[q] EXCEPT !.stage = "mint"])
    BY <1>0, <1>2 DEF Handlers
  <2>6. ASSUME NEW c \in Code, RedeemCode(q, c) PROVE FALSE
    BY <1>0, <1>2, <2>6 DEF RedeemCode, Idle
  <2>7. ASSUME NewFamily(q) PROVE FALSE
    <3>1. PICK n \in Token : req' = [req EXCEPT ![q].stage = "remember", ![q].token = n]
      BY <2>7, Begun
    <3> QED
      BY <1>0, <1>2, <3>1 DEF Handlers
  <2>8. ASSUME NEW t \in Token, Refresh(q, t) \/ Revoke(q, t) PROVE FALSE
    BY <1>0, <1>2, <2>8 DEF Refresh, Revoke, Idle
  <2>9. ~(RotateRefreshToken(q) /\ req'[q] = [req[q] EXCEPT !.stage = "revoke"])
    BY <1>0, <1>2 DEF Handlers
  <2> QED
    BY <2>1, <2>2, <2>3, <2>4, <2>5, <2>6, <2>7, <2>8, <2>9, Moved DEF Moves
<1>3. ASSUME NEW q \in Request, req'[q].stage = "insert", NEW c \in Code, c = req'[q].code
      PROVE  /\ c \notin cached' /\ code'[c] # NoCode /\ Unredeemed(c)'
             /\ \A p \in Request : req'[p].stage = "insert" /\ req'[p].code = c => p = q
  <2>1. CASE req'[q] = req[q] /\ At(q, "insert")
    <3>1. /\ c = req[q].code /\ c \notin cached /\ code[c] # NoCode /\ Unredeemed(c)
          /\ \A p \in Request : At(p, "insert") /\ req[p].code = c => p = q
      BY <1>0, <1>3, <2>1 DEF TakenInv
    <3>2. c \notin cached'
      <4>1. ASSUME NEW r \in Request, MintCode(r) PROVE c \notin cached'
        BY <3>1, <4>1, Minted
      <4> QED
        BY <3>1, <4>1, CacheWriters
    <3>3. \A r \in Request : NewFamily(r) => req[r].code # c
      <4> SUFFICES ASSUME NEW r \in Request, NewFamily(r), req[r].code = c PROVE FALSE
        OBVIOUS
      <4>1. r = q
        BY <3>1 DEF NewFamily
      <4>2. PICK n \in Token : req' = [req EXCEPT ![r].stage = "remember", ![r].token = n]
        BY Begun
      <4> QED
        BY <1>0, <1>3, <4>1, <4>2 DEF Handlers
    <3>4. Unredeemed(c)'
      BY <3>1, <3>3, UnredeemedKept
    <3>5. \A p \in Request : req'[p].stage = "insert" /\ req'[p].code = c => p = q
      BY <1>2, <3>1 DEF At
    <3> QED
      BY <1>0, <3>1, <3>2, <3>4, <3>5
  <2>2. CASE TakeCode(q) /\ req[q].code \in cached /\ req'[q].code = req[q].code
    <3>1. c \in cached /\ cached' = cached \ {c} /\ UNCHANGED <<token, code>>
          /\ \A p \in Request \ {q} : req'[p] = req[p]
      BY <1>0, <1>3, <2>2 DEF TakeCode, tokenVars, Goto, Finish
    <3>2. code'[c] # NoCode /\ Unredeemed(c)'
      BY <1>0, <3>1 DEF CachedInv, Unredeemed, Exists
    <3>3. \A p \in Request : req'[p].stage = "insert" /\ req'[p].code = c => p = q
      BY <1>0, <3>1 DEF TakenInv, At
    <3> QED
      BY <3>1, <3>2, <3>3
  <2> QED
    BY <1>2, <1>3, <2>1, <2>2
<1>4. ASSUME NEW q \in Request PROVE TakenInv(q)'
  <2> SUFFICES ASSUME req'[q].stage = "insert" PROVE TakenInv(q)'
    BY DEF TakenInv, At
  <2>1. req'[q].code \in Code
    BY HandlersInvariant DEF HandlerInv
  <2>2. PICK c \in Code : c = req'[q].code
    BY <2>1
  <2>3. /\ c \notin cached' /\ code'[c] # NoCode /\ Unredeemed(c)'
        /\ \A p \in Request : req'[p].stage = "insert" /\ req'[p].code = c => p = q
    BY <1>3, <2>2
  <2> QED
    BY <2>2, <2>3 DEF TakenInv, At, Unredeemed, Exists
<1> QED
  BY <1>1, <1>4 DEF CodesInv, CachedInv, Unredeemed, Exists

-----------------------------------------------------------------------------
(***************************************************************************)
(* A replayed code: what its family can still be found by.                 *)
(***************************************************************************)
(* How a handler stops naming the token it is to remember or to revoke.    *)
LEMMA Leaving ==
    ASSUME IInv, [Next]_vars, NEW r \in Request, req[r].stage \in {"remember", "revoke"}
    PROVE  req'[r] = req[r] \/ RememberRedeemed(r) \/ RevokeRefreshFamily(r) \/ Fails(r) \/ Restart
<1>0. req \in [Request -> Handlers] /\ ~At(r, "idle")
  BY DEF IInv, TypeOK, At
<1>1. ASSUME NEW q \in Request, q # r, Consent(q) \/ Redeem(q) \/ Rotation(q) \/ Fails(q)
      PROVE  req'[r] = req[r]
  <2>1. CASE Consent(q)
    BY <1>0, <1>1, <2>1 DEF Consent, GetAuthorization, DecideAuthorization, Bind, TakePending, MintCode,
                            Goto, Finish
  <2>2. CASE Redeem(q)
    BY <1>0, <1>1, <2>2 DEF Redeem, RedeemCode, TakeCode, NewFamily, RememberRedeemed, Goto, Finish
  <2>3. CASE Rotation(q)
    BY <1>0, <1>1, <2>3 DEF Rotation, Refresh, Revoke, RotateRefreshToken, RevokeRefreshFamily, Goto, Finish
  <2>4. CASE Fails(q)
    BY <1>0, <1>1, <2>4 DEF Fails, Finish
  <2> QED
    BY <1>1, <2>1, <2>2, <2>3, <2>4
<1>2. ~Consent(r)
  BY <1>0 DEF Consent, GetAuthorization, DecideAuthorization, Bind, TakePending, MintCode, At
<1>3. Redeem(r) => RememberRedeemed(r)
  BY <1>0 DEF Redeem, RedeemCode, TakeCode, NewFamily, At
<1>4. Rotation(r) => RevokeRefreshFamily(r)
  BY <1>0 DEF Rotation, Refresh, Revoke, RotateRefreshToken, At
<1>5. ASSUME NEW a \in Authz, Authorize(a) PROVE req'[r] = req[r]
  BY <1>5 DEF Authorize
<1>6. Time => req'[r] = req[r]
  BY DEF Time, ExpirePending, ExpireCode, ForgetRedeemed, Age
<1>7. UNCHANGED vars => req'[r] = req[r]
  BY DEF vars
<1> QED
  BY <1>1, <1>2, <1>3, <1>4, <1>5, <1>6, <1>7 DEF Next

(* What has ended stays so, and what was forgotten. *)
LEMMA HistoryGrows ==
    ASSUME [Next]_vars
    PROVE  forgotten \subseteq forgotten' /\ ended \subseteq ended' /\ rebound \subseteq rebound'
  BY DEF Next, Consent, Redeem, Rotation, Time, vars, tokenVars, flowVars, Authorize, GetAuthorization,
         DecideAuthorization, Bind, TakePending, MintCode, RedeemCode, TakeCode, NewFamily, RememberRedeemed,
         Refresh, Revoke, RotateRefreshToken, RevokeRefreshFamily, Fails, ExpirePending, ExpireCode,
         ForgetRedeemed, Age, Restart

(* The first token of a family is one that began it, or was there.         *)
LEMMA FirstOfFamily ==
    ASSUME IInv, [Next]_vars, NEW t \in Token, ~Exists(t), token'[t].family = t
    PROVE  \E r \in Request : /\ NewFamily(r) /\ token'[t].code = req[r].code
                              /\ req'[r].stage = "remember" /\ req'[r].token = t
                              /\ req'[r].code = req[r].code
<1>0. /\ token \in [Token -> Rows] /\ req \in [Request -> Handlers]
      /\ \A u \in Token : RowInv(u)
  BY DEF IInv, RowsInv, TypeOK
<1>1. token'[t] # token[t]
  BY DEF Exists
<1>2. ASSUME NEW r \in Request, NewFamily(r)
      PROVE  /\ token'[t].code = req[r].code
             /\ req'[r].stage = "remember" /\ req'[r].token = t /\ req'[r].code = req[r].code
  <2>1. PICK n \in Token :
          /\ token'[n] = NewToken(n, req[r].code, code[req[r].code].granted)
          /\ \A u \in Token \ {n} : token'[u] = token[u]
          /\ req' = [req EXCEPT ![r].stage = "remember", ![r].token = n]
    BY <1>2, Begun
  <2>2. n = t
    BY <1>1, <2>1
  <2>3. token'[t].code = req[r].code
    BY <2>1, <2>2 DEF NewToken, NoToken
  <2>4. req'[r].stage = "remember" /\ req'[r].token = t /\ req'[r].code = req[r].code
    BY <1>0, <2>1, <2>2 DEF Handlers
  <2> QED
    BY <2>3, <2>4
<1>3. ASSUME NEW r \in Request, RotateRefreshToken(r) PROVE FALSE
  <2>1. CASE Live(req[r].token)
    <3>1. PICK o \in Token : o = req[r].token /\ Exists(o)
      BY <1>3 DEF IInv, HandlerInv, RotateRefreshToken, At
    <3>2. PICK n \in Token :
            /\ token'[n] = NewToken(token[o].family, token[o].code, req[r].scope)
            /\ \A u \in Token \ {n, o} : token'[u] = token[u]
      BY <1>3, <2>1, <3>1, Rotated
    <3>3. t = n
      BY <1>1, <3>1, <3>2
    <3>4. token'[n].family = token[o].family
      BY <3>2 DEF NewToken, NoToken
    <3> QED
      BY <1>0, <3>1, <3>3, <3>4 DEF RowInv
  <2>2. CASE ~Live(req[r].token)
    BY <1>1, <1>3, <2>2 DEF RotateRefreshToken
  <2> QED
    BY <2>1, <2>2
<1>4. ASSUME NEW r \in Request, RevokeRefreshFamily(r) PROVE FALSE
  <2>1. token'[t].family = token[t].family
    BY <1>4, EndedKeeps
  <2> QED
    BY <2>1 DEF Exists
<1>5. ASSUME NEW u \in Token, Age(u) PROVE FALSE
  <2>1. token'[t].family = token[t].family
    BY <1>5, EndedKeeps
  <2> QED
    BY <2>1 DEF Exists
<1> QED
  BY <1>1, <1>2, <1>3, <1>4, <1>5, Writers DEF MintCode, NewFamily, tokenVars

LEMMA ReplayInvariant == IInv /\ [Next]_vars => \A t \in Token : ReplayInv(t)'
<1> SUFFICES ASSUME IInv, [Next]_vars, NEW t \in Token, NEW c, c = token'[t].code,
                    Exists(t)', t = token'[t].family, c \notin forgotten'
             PROVE  \/ memory'[c] = t
                    \/ t \in ended'
                    \/ \E r \in Request : /\ req'[r].stage \in {"remember", "revoke"}
                                          /\ req'[r].token = t /\ req'[r].code = c
  BY DEF ReplayInv, Exists
<1>0. /\ token \in [Token -> Rows] /\ req \in [Request -> Handlers]
      /\ memory \in [Code -> Token \cup {None}]
      /\ Kept(t) /\ RowInv(t) /\ ReplayInv(t) /\ CodeBeginsOneFamily
      /\ \A r \in Request : HandlerInv(r)
      /\ c \notin forgotten /\ ended \subseteq ended'
  BY RowsKept, HistoryGrows DEF IInv, RowsInv, TypeOK
<1>1. CASE ~Exists(t)
  <2>1. PICK r \in Request : /\ token'[t].code = req[r].code /\ req'[r].stage = "remember"
                            /\ req'[r].token = t /\ req'[r].code = req[r].code
    BY <1>1, FirstOfFamily
  <2> QED
    BY <2>1
<1>2. CASE Exists(t)
  <2>1. t = token[t].family /\ c = token[t].code /\ c \in Code
    BY <1>0, <1>2 DEF Kept, RowInv
  <2>2. CASE memory[c] = t
    <3>1. ASSUME NEW r \in Request, RedeemCode(r, c)
          PROVE  \/ memory'[c] = t
                 \/ req'[r].stage = "revoke" /\ req'[r].token = t /\ req'[r].code = c
      <4>1. CASE req' = [req EXCEPT ![r] = [Idle EXCEPT !.stage = "revoke", !.code = c, !.token = memory[c]]]
        BY <1>0, <2>2, <4>1 DEF Idle
      <4>2. CASE UNCHANGED memory
        BY <2>2, <4>2
      <4> QED
        BY <3>1, <4>1, <4>2 DEF RedeemCode
    <3>2. ASSUME NEW r \in Request, RememberRedeemed(r), req[r].code = c,
                 memory' = [memory EXCEPT ![c] = req[r].token]
          PROVE  memory'[c] = t
      <4>1. PICK u \in Token : u = req[r].token /\ Exists(u) /\ token[u].code = c /\ token[u].family = u
        BY <1>0, <3>2 DEF RememberRedeemed, At, HandlerInv
      <4>2. u = t
        BY <1>0, <1>2, <2>1, <4>1 DEF CodeBeginsOneFamily
      <4> QED
        BY <1>0, <2>1, <3>2, <4>1, <4>2
    <3>3. ~ForgetRedeemed(c)
      BY DEF ForgetRedeemed
    <3> QED
      BY <2>1, <2>2, <3>1, <3>2, <3>3, MemoryWriters DEF MemoryMoves
  <2>3. CASE t \in ended
    BY <1>0, <2>3
  <2>4. ASSUME NEW r \in Request, req[r].stage \in {"remember", "revoke"}, req[r].token = t, req[r].code = c
        PROVE  \/ memory'[c] = t
               \/ t \in ended'
               \/ req'[r] = req[r]
    <3>1. CASE RememberRedeemed(r)
      <4>1. memory' = [memory EXCEPT ![c] = t] \/ c \in forgotten'
        BY <2>4, <3>1 DEF RememberRedeemed
      <4> QED
        BY <1>0, <2>1, <4>1
    <3>2. CASE RevokeRefreshFamily(r)
      BY <2>1, <2>4, <3>2 DEF RevokeRefreshFamily
    <3>3. ~Fails(r)
      BY <2>1, <2>4 DEF Fails, At
    <3>4. ~Restart
      BY <2>1, <2>4 DEF Restart
    <3> QED
      BY <2>4, <3>1, <3>2, <3>3, <3>4, Leaving
  <2> QED
    BY <1>0, <1>2, <2>1, <2>2, <2>3, <2>4 DEF ReplayInv
<1> QED
  BY <1>1, <1>2

-----------------------------------------------------------------------------
(***************************************************************************)
(* Requests are decided once.                                              *)
(***************************************************************************)
(* The steps that touch the pending requests. *)
LEMMA PendingWriters ==
    ASSUME [Next]_vars
    PROVE  \/ UNCHANGED <<pending, decided>>
           \/ \E a \in Authz : Authorize(a) \/ ExpirePending(a)
           \/ \E r \in Request : Bind(r) \/ TakePending(r)
  BY DEF Next, Consent, Redeem, Rotation, Time, vars, tokenVars, flowVars, GetAuthorization,
         DecideAuthorization, MintCode, RedeemCode, TakeCode, NewFamily, RememberRedeemed, Refresh, Revoke,
         RotateRefreshToken, RevokeRefreshFamily, Fails, ExpireCode, ForgetRedeemed, Age, Restart

LEMMA DecidedInvariant == IInv /\ [Next]_vars => \A a \in Authz : DecidedInv(a)'
<1> SUFFICES ASSUME IInv, [Next]_vars, NEW a \in Authz, a \notin rebound'
             PROVE  decided'[a] <= 1 /\ (Waits(a)' => decided'[a] = 0)
  BY DEF DecidedInv
<1>0. /\ pending \in [Authz -> Requests] /\ decided \in [Authz -> Nat] /\ a \notin rebound
      /\ decided[a] <= 1 /\ (Waits(a) => decided[a] = 0)
  BY HistoryGrows DEF IInv, DecidedInv, TypeOK
<1>1. CASE UNCHANGED <<pending, decided>>
  BY <1>0, <1>1 DEF Waits
<1>2. ASSUME NEW b \in Authz, Authorize(b) PROVE decided'[a] <= 1 /\ (Waits(a)' => decided'[a] = 0)
  <2>1. UNCHANGED decided /\ (b = a => decided[a] = 0) /\ (b # a => pending'[a] = pending[a])
    BY <1>0, <1>2 DEF Authorize
  <2> QED
    BY <1>0, <2>1 DEF Waits
<1>3. ASSUME NEW b \in Authz, ExpirePending(b) PROVE decided'[a] <= 1 /\ (Waits(a)' => decided'[a] = 0)
  <2>1. UNCHANGED decided /\ (pending'[a] = pending[a] \/ pending'[a] = NoRequest)
    BY <1>0, <1>3 DEF ExpirePending
  <2> QED
    BY <1>0, <2>1 DEF Waits, NoRequest
<1>4. ASSUME NEW r \in Request, Bind(r) PROVE decided'[a] <= 1 /\ (Waits(a)' => decided'[a] = 0)
  <2>1. UNCHANGED decided /\ (pending'[a] = pending[a] \/ decided[a] = 0)
    BY <1>0, <1>4 DEF Bind
  <2> QED
    BY <1>0, <2>1 DEF Waits
<1>5. ASSUME NEW r \in Request, TakePending(r) PROVE decided'[a] <= 1 /\ (Waits(a)' => decided'[a] = 0)
  <2>1. CASE req[r].authz = a /\ Waits(a)
    <3>1. pending'[a] = NoRequest /\ decided'[a] = decided[a] + 1
      BY <1>0, <1>5, <2>1 DEF TakePending
    <3> QED
      BY <1>0, <2>1, <3>1 DEF Waits, NoRequest
  <2>2. CASE ~(req[r].authz = a /\ Waits(a))
    <3>1. pending'[a] = pending[a] /\ decided'[a] = decided[a]
      BY <1>0, <1>5, <2>2 DEF TakePending
    <3> QED
      BY <1>0, <3>1 DEF Waits
  <2> QED
    BY <2>1, <2>2
<1> QED
  BY <1>1, <1>2, <1>3, <1>4, <1>5, PendingWriters

-----------------------------------------------------------------------------
(***************************************************************************)
(* The theorems.                                                           *)
(***************************************************************************)
(* The first state: nothing was asked for, minted or issued. *)
LEMMA Initially == Init => IInv
<1> SUFFICES ASSUME Init PROVE IInv
  OBVIOUS
<1>1. TypeOK
  BY DEF Init, TypeOK, AnyScope, Requests, NoRequest, Codes, NoCode, Rows, NoToken, Handlers, Idle, Stages
<1>2. \A t \in Token : ~Exists(t)
  BY DEF Init, Exists, NoToken
<1>3. \A r \in Request : req[r].stage = "idle"
  BY DEF Init, Idle
<1>4. \A c \in Code : code[c] = NoCode /\ memory[c] = None
  BY DEF Init
<1>5. \A r \in Request : HandlerInv(r)
  BY <1>3 DEF HandlerInv
<1>6. RowsInv
  BY <1>2, <1>4 DEF RowsInv, RowInv, WidthInv, GrantInv, OneLiveToken, RevokedForGood, CodeBeginsOneFamily, Live
<1>7. NameInv
  BY <1>4 DEF NameInv, Init
<1>8. CodesInv
  BY <1>3 DEF CodesInv, CachedInv, TakenInv, At, Init
<1>9. \A t \in Token : ReplayInv(t)
  BY <1>2 DEF ReplayInv
<1>10. \A a \in Authz : DecidedInv(a)
  BY DEF DecidedInv, Init
<1> QED
  BY <1>1, <1>5, <1>6, <1>7, <1>8, <1>9, <1>10 DEF IInv

(* Whatever requests interleave, fail, are replayed or cut off by a        *)
(* restart, the invariant holds.                                           *)
THEOREM Invariant == Spec => []IInv
<1>1. IInv /\ [Next]_vars => IInv'
  BY TypeInvariant, HandlersInvariant, RowsInvariant, NamesInvariant, CodesInvariant, ReplayInvariant,
     DecidedInvariant DEF IInv
<1> QED
  BY <1>1, Initially, PTL DEF Spec

(* Rows, codes and handlers stay what their columns and fields can hold.   *)
THEOREM TypeCorrect == Spec => []TypeOK
  BY Invariant, PTL DEF IInv

(* "A code is redeemed exactly once across replicas": any number of        *)
(* requests with one code begin one family of refresh tokens.              *)
THEOREM CodeRedeemedOnce == Spec => []CodeBeginsOneFamily
  BY Invariant, PTL DEF IInv, RowsInv

(* A family never has two usable tokens. *)
THEOREM OneUsableToken == Spec => []OneLiveToken
  BY Invariant, PTL DEF IInv, RowsInv

(* None of the tokens of a family that was revoked is usable again. *)
THEOREM RevocationIsFinal == Spec => []RevokedForGood
  BY Invariant, PTL DEF IInv, RowsInv

(* Rotation never carries a scope the person did not hold and consent to.  *)
THEOREM ScopesStayGranted == Spec => []ScopeNeverWidens
<1>1. IInv => ScopeNeverWidens
  BY DEF IInv, RowsInv, RowInv, WidthInv, GrantInv, ScopeNeverWidens
<1> QED
  BY <1>1, Invariant, PTL

(* What a code issued can be revoked when the code comes back. *)
THEOREM ReplayFindsTheFamily == Spec => []ReplayCanRevoke
<1>1. IInv => ReplayCanRevoke
  BY DEF IInv, ReplayInv, ReplayCanRevoke
<1> QED
  BY <1>1, Invariant, PTL

(* A request gets one decision, unless it was bound after its decision. *)
THEOREM OneDecision == Spec => []DecidedOnce
<1>1. IInv => DecidedOnce
  BY DEF IInv, TypeOK, DecidedInv, DecidedOnce
<1> QED
  BY <1>1, Invariant, PTL

-----------------------------------------------------------------------------
(***************************************************************************)
(* The rows implement RefreshFamily.                                       *)
(***************************************************************************)
(* What UsableToken says of a family, now and after the step. *)
LEMMA UsableIs ==
    ASSUME OneLiveToken, RevokedForGood, NEW f \in Token
    PROVE  /\ \A t \in Token : Live(t) /\ token[t].family = f => UsableToken(f) = t
           /\ (\A t \in Token : token[t].family = f => ~Live(t)) =>
                UsableToken(f) = IF \E t \in Token : token[t].family = f THEN "ended" ELSE "unborn"
<1>1. ASSUME NEW t \in Token, Live(t), token[t].family = f PROVE UsableToken(f) = t
  <2>1. {u \in Family(f) : Live(u)} = {t}
    BY <1>1 DEF Family, OneLiveToken
  <2>2. f \notin ended /\ Family(f) # {}
    BY <1>1 DEF Family, RevokedForGood
  <2> QED
    BY <2>1, <2>2 DEF UsableToken
<1>2. ASSUME \A t \in Token : token[t].family = f => ~Live(t)
      PROVE  UsableToken(f) = IF \E t \in Token : token[t].family = f THEN "ended" ELSE "unborn"
  <2>1. {u \in Family(f) : Live(u)} = {}
    BY <1>2 DEF Family
  <2>2. Family(f) = {} <=> ~\E t \in Token : token[t].family = f
    BY DEF Family
  <2> QED
    BY <2>1, <2>2 DEF UsableToken
<1> QED
  BY <1>1, <1>2

LEMMA UsableNext ==
    ASSUME OneLiveToken', RevokedForGood', NEW f \in Token
    PROVE  /\ \A t \in Token : Live(t)' /\ token'[t].family = f => UsableToken(f)' = t
           /\ (\A t \in Token : token'[t].family = f => ~Live(t)') =>
                UsableToken(f)' = IF \E t \in Token : token'[t].family = f THEN "ended" ELSE "unborn"
<1>1. ASSUME NEW t \in Token, Live(t)', token'[t].family = f PROVE UsableToken(f)' = t
  <2>1. {u \in Family(f) : Live(u)}' = {t}
    BY <1>1 DEF Family, OneLiveToken, Live, Exists
  <2>2. f \notin ended' /\ Family(f)' # {}
    BY <1>1 DEF Family, RevokedForGood, Live, Exists
  <2> QED
    BY <2>1, <2>2 DEF UsableToken
<1>2. ASSUME \A t \in Token : token'[t].family = f => ~Live(t)'
      PROVE  UsableToken(f)' = IF \E t \in Token : token'[t].family = f THEN "ended" ELSE "unborn"
  <2>1. {u \in Family(f) : Live(u)}' = {}
    BY <1>2 DEF Family, Live, Exists
  <2>2. Family(f)' = {} <=> ~\E t \in Token : token'[t].family = f
    BY DEF Family
  <2> QED
    BY <2>1, <2>2 DEF UsableToken
<1> QED
  BY <1>1, <1>2

(* A family whose tokens a step leaves as they are. *)
LEMMA SameUsable ==
    ASSUME OneLiveToken, OneLiveToken', RevokedForGood, RevokedForGood', NEW f \in Token,
           \A t \in Token : /\ token'[t].family = f <=> token[t].family = f
                            /\ token[t].family = f => (Live(t)' <=> Live(t))
    PROVE  UsableToken(f)' = UsableToken(f)
<1>1. ASSUME NEW t \in Token, Live(t), token[t].family = f PROVE UsableToken(f)' = UsableToken(f)
  <2>1. UsableToken(f) = t
    BY <1>1, UsableIs
  <2>2. UsableToken(f)' = t
    BY <1>1, UsableNext
  <2> QED
    BY <2>1, <2>2
<1>2. ASSUME \A t \in Token : token[t].family = f => ~Live(t) PROVE UsableToken(f)' = UsableToken(f)
  <2>1. UsableToken(f) = IF \E t \in Token : token[t].family = f THEN "ended" ELSE "unborn"
    BY <1>2, UsableIs
  <2>2. UsableToken(f)' = IF \E t \in Token : token'[t].family = f THEN "ended" ELSE "unborn"
    BY <1>2, UsableNext
  <2> QED
    BY <2>1, <2>2
<1> QED
  BY <1>1, <1>2

(* No token of a revoked family is live, so what is spent is not live. *)
Spent == {t \in Token : Exists(t) /\ ~Live(t)}
LEMMA SpentIs ==
    /\ RevokedForGood => SpentTokens = Spent
    /\ RevokedForGood' => SpentTokens' = Spent'
  BY DEF SpentTokens, Spent, RevokedForGood, Live, Exists

(* Every step begins, rotates or ends one family, or none. *)
LEMMA Simulation == IInv /\ IInv' /\ [Next]_vars => [F!Next]_(F!familyVars)
<1> SUFFICES ASSUME IInv, IInv', [Next]_vars
             PROVE  F!Next \/ UNCHANGED F!familyVars
  OBVIOUS
<1>0. /\ token \in [Token -> Rows] /\ OneLiveToken /\ OneLiveToken'
      /\ RevokedForGood /\ RevokedForGood' /\ SpentTokens = Spent /\ SpentTokens' = Spent'
      /\ \A t \in Token : RowInv(t)
  BY SpentIs DEF IInv, RowsInv, TypeOK
<1>stutter. ASSUME \A f \in Token : UsableToken(f)' = UsableToken(f),
                   \A t \in Token : (Exists(t) /\ ~Live(t))' <=> (Exists(t) /\ ~Live(t))
            PROVE  UNCHANGED F!familyVars
  <2>1. Spent' = Spent
    BY <1>stutter DEF Spent
  <2> QED
    BY <1>0, <1>stutter, <2>1 DEF F!familyVars
<1>1. CASE UNCHANGED token
  <2>1. \A t \in Token : token'[t] = token[t] /\ (Live(t)' <=> Live(t)) /\ (Exists(t)' <=> Exists(t))
    BY <1>1 DEF Live, Exists
  <2>2. \A f \in Token : UsableToken(f)' = UsableToken(f)
    BY <1>0, <2>1, SameUsable
  <2> QED
    BY <1>stutter, <2>1, <2>2
<1>2. ASSUME NEW t \in Token, Age(t) PROVE UNCHANGED F!familyVars
  <2>1. \A u \in Token : /\ token'[u].family = token[u].family
                         /\ (Live(u)' <=> Live(u)) /\ (Exists(u)' <=> Exists(u))
    BY <1>0, <1>2 DEF Age, Rows, Live, Exists
  <2>2. \A f \in Token : UsableToken(f)' = UsableToken(f)
    BY <1>0, <2>1, SameUsable
  <2> QED
    BY <1>stutter, <2>1, <2>2
<1>unseen. ASSUME NEW n \in Token, ~Exists(n) PROVE F!Unseen(n)
  <2>1. n \notin Spent
    BY <1>unseen DEF Spent
  <2>2. ASSUME NEW f \in Token PROVE UsableToken(f) # n
    <3>1. CASE \E t \in Token : Live(t) /\ token[t].family = f
      BY <1>0, <1>unseen, <3>1, UsableIs DEF Live
    <3>2. CASE \A t \in Token : token[t].family = f => ~Live(t)
      <4>1. UsableToken(f) \in {"ended", "unborn"}
        BY <1>0, <3>2, UsableIs
      <4> QED
        BY <4>1
    <3> QED
      BY <3>1, <3>2
  <2> QED
    BY <1>0, <2>1, <2>2 DEF F!Unseen
<1>3. ASSUME NEW r \in Request, NewFamily(r) PROVE F!Next
  <2>1. PICK n \in Token :
          /\ ~Exists(n)
          /\ token'[n] = NewToken(n, req[r].code, code[req[r].code].granted)
          /\ \A u \in Token \ {n} : token'[u] = token[u]
    BY <1>3, Begun
  <2>2. token'[n].family = n /\ Live(n)' /\ Exists(n)'
    BY <2>1 DEF NewToken, NoToken, Live, Exists
  <2>3. \A u \in Token \ {n} : (Live(u)' <=> Live(u)) /\ (Exists(u)' <=> Exists(u))
    BY <2>1 DEF Live, Exists
  <2>4. UsableToken(n) = "unborn"
    <3>1. \A u \in Token : token[u].family # n
      BY <1>0, <2>1 DEF RowInv, Exists
    <3> QED
      BY <1>0, <3>1, UsableIs
  <2>5. UsableToken(n)' = n
    BY <1>0, <2>2, UsableNext
  <2>6. ASSUME NEW f \in Token \ {n} PROVE UsableToken(f)' = UsableToken(f)
    <3>1. token[n].family # f
      BY <2>1 DEF Exists
    <3> QED
      BY <1>0, <2>1, <2>2, <2>3, <3>1, SameUsable
  <2>7. Spent' = Spent
    BY <2>1, <2>2, <2>3 DEF Spent
  <2>8. [f \in Token |-> UsableToken(f)]' = [[f \in Token |-> UsableToken(f)] EXCEPT ![n] = n]
    BY <2>5, <2>6
  <2>9. F!Start(n)
    BY <1>0, <1>unseen, <2>1, <2>4, <2>7, <2>8 DEF F!Start
  <2> QED
    BY <2>9 DEF F!Next
<1>4. ASSUME NEW r \in Request, RotateRefreshToken(r), Live(req[r].token) PROVE F!Next
  <2>1. PICK t \in Token : t = req[r].token /\ Live(t) /\ Exists(t)
    BY <1>4 DEF IInv, HandlerInv, RotateRefreshToken, At
  <2>2. PICK n \in Token :
          /\ ~Exists(n) /\ n # t
          /\ token'[n] = NewToken(token[t].family, token[t].code, req[r].scope)
          /\ token'[t] = [token[t] EXCEPT !.used = TRUE]
          /\ \A u \in Token \ {n, t} : token'[u] = token[u]
    BY <1>4, <2>1, Rotated
  <2>3. PICK f \in Token : f = token[t].family
    BY <1>0, <2>1 DEF RowInv
  <2>4. token'[n].family = f /\ Live(n)' /\ Exists(n)'
    BY <2>2, <2>3 DEF NewToken, NoToken, Live, Exists
  <2>5. token'[t].family = f /\ ~Live(t)' /\ Exists(t)'
    BY <1>0, <2>2, <2>3 DEF Rows, Live, Exists
  <2>6. \A u \in Token \ {n, t} : (Live(u)' <=> Live(u)) /\ (Exists(u)' <=> Exists(u))
    BY <2>2 DEF Live, Exists
  <2>7. UsableToken(f) = t /\ UsableToken(f)' = n
    BY <1>0, <2>1, <2>3, <2>4, UsableIs, UsableNext
  <2>8. ASSUME NEW g \in Token \ {f} PROVE UsableToken(g)' = UsableToken(g)
    <3>1. token[n].family # g
      BY <2>2 DEF Exists
    <3> QED
      BY <1>0, <2>2, <2>3, <2>4, <2>5, <2>6, <3>1, SameUsable
  <2>9. Spent' = Spent \cup {t}
    BY <2>1, <2>2, <2>4, <2>5, <2>6 DEF Spent
  <2>10. [g \in Token |-> UsableToken(g)]' = [[g \in Token |-> UsableToken(g)] EXCEPT ![f] = n]
    BY <2>7, <2>8
  <2>11. F!Rotate(f)
    BY <1>0, <1>unseen, <2>2, <2>7, <2>9, <2>10 DEF F!Rotate
  <2> QED
    BY <2>11 DEF F!Next
<1>5. ASSUME NEW r \in Request, RevokeRefreshFamily(r) PROVE F!Next \/ UNCHANGED F!familyVars
  <2>1. PICK f \in Token :
          /\ f = token[req[r].token].family /\ req[r].token \in Token
          /\ ended' = ended \cup {f}
          /\ \A u \in Token : token'[u] = IF token[u].family = f
                                          THEN [token[u] EXCEPT !.revoked = TRUE] ELSE token[u]
    BY <1>5, Ended
  <2>2. \A u \in Token : token'[u].family = token[u].family /\ (Exists(u)' <=> Exists(u))
    BY <1>5, EndedKeeps DEF Exists
  <2>3. \A u \in Token : token[u].family = f => ~Live(u)'
    BY <1>0, <2>1, <2>2 DEF RevokedForGood
  <2>4. \A u \in Token : token[u].family # f => (Live(u)' <=> Live(u))
    BY <2>1 DEF Live, Exists
  <2>5. UsableToken(f)' = "ended"
    BY <1>0, <2>1, <2>2, <2>3, UsableNext
  <2>6. ASSUME NEW g \in Token \ {f} PROVE UsableToken(g)' = UsableToken(g)
    BY <1>0, <2>2, <2>4, SameUsable
  <2>7. ASSUME NEW t \in Token, Live(t), token[t].family = f PROVE F!Next
    <3>1. UsableToken(f) = t
      BY <1>0, <2>7, UsableIs
    <3>2. Spent' = Spent \cup {t}
      <4>1. \A u \in Token : u # t /\ token[u].family = f => ~Live(u)
        BY <1>0, <2>7 DEF OneLiveToken
      <4> QED
        BY <2>2, <2>3, <2>4, <2>7, <4>1 DEF Spent, Live
    <3>3. [g \in Token |-> UsableToken(g)]' = [[g \in Token |-> UsableToken(g)] EXCEPT ![f] = "ended"]
      BY <2>5, <2>6
    <3>4. F!End(f)
      BY <1>0, <3>1, <3>2, <3>3 DEF F!End
    <3> QED
      BY <3>4 DEF F!Next
  <2>8. ASSUME \A t \in Token : token[t].family = f => ~Live(t) PROVE UNCHANGED F!familyVars
    <3>1. UsableToken(f) = "ended"
      BY <1>0, <2>1, <2>8, UsableIs
    <3>2. \A g \in Token : UsableToken(g)' = UsableToken(g)
      BY <2>5, <2>6, <3>1
    <3>3. \A t \in Token : (Exists(t) /\ ~Live(t))' <=> (Exists(t) /\ ~Live(t))
      BY <2>2, <2>3, <2>4, <2>8 DEF Exists, Live
    <3> QED
      BY <1>stutter, <3>2, <3>3
  <2> QED
    BY <2>7, <2>8
<1>6. ASSUME NEW r \in Request, RotateRefreshToken(r), ~Live(req[r].token) PROVE UNCHANGED token
  BY <1>6 DEF RotateRefreshToken
<1>7. UNCHANGED token \/ (\E t \in Token : Age(t))
      \/ \E r \in Request : NewFamily(r) \/ RotateRefreshToken(r) \/ RevokeRefreshFamily(r)
  BY Writers DEF MintCode, tokenVars
<1> QED
  BY <1>1, <1>2, <1>3, <1>4, <1>5, <1>6, <1>7

(* The rows of oauth_refresh_tokens, under any interleaving, are families  *)
(* that are begun once, rotate one usable token and end for good.          *)
THEOREM RowsImplementFamilies == Spec => Families
<1>1. Init => F!Init
  <2> SUFFICES ASSUME Init PROVE F!Init
    OBVIOUS
  <2>1. \A t \in Token : ~Exists(t) /\ token[t].family = None
    BY DEF Init, Exists, NoToken
  <2>2. OneLiveToken /\ RevokedForGood /\ SpentTokens = {}
    BY <2>1 DEF OneLiveToken, RevokedForGood, Live, SpentTokens
  <2>3. \A f \in Token : UsableToken(f) = "unborn"
    BY <2>1, <2>2, UsableIs
  <2> QED
    BY <2>2, <2>3 DEF F!Init
<1> QED
  BY <1>1, Simulation, Invariant, PTL DEF Spec, Families, F!Spec

=============================================================================
