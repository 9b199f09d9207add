------------------------------- MODULE OAuth -------------------------------
(***************************************************************************)
(* docz-api's authorization server (internal/oauth over a Redis cache and  *)
(* Postgres): authorization requests that wait for a person's consent,     *)
(* codes redeemed once, and refresh tokens rotated in families.            *)
(*                                                                         *)
(* Every handler is a sequence of calls to the cache or the database, and  *)
(* the handlers of several requests, on several replicas, interleave       *)
(* between any two calls.  A call is atomic: Take is Redis's GETDEL, a     *)
(* rotation and a revocation are one SQL statement each.  A client may     *)
(* send what it was given any number of times, so a lost answer, a retry   *)
(* and a replay are all the same request sent again.                       *)
(***************************************************************************)
EXTENDS Naturals, FiniteSets

CONSTANTS
    Request,   \* handlers running at the same time
    Authz,     \* authorization requests (pending ids)
    Session,   \* site sessions, each one person's
    Code,      \* authorization codes
    Token,     \* refresh tokens
    Scope,     \* scopes, public:read excluded
    Public,    \* public:read, which every principal holds
    Held,      \* Held[s]: what the scope map of the first start grants s
    None       \* no session, no token, no code

ASSUME OAuthAssumption ==
    /\ Public \notin Scope
    /\ Held \in [Session -> SUBSET Scope]
    /\ None \notin Session \cup Token \cup Code \cup Authz
    /\ Code \cap Token = {}
    /\ {"unborn", "ended"} \cap Token = {}

AnyScope == Scope \cup {Public}

VARIABLES
    grantable,  \* the scopes of AUTHZ_SCOPE_MAP, which a restart may narrow
    pending,    \* pending[a]: the cached authorization request, or NoRequest
    rebound,    \* history: requests bound after they had been decided
    decided,    \* history: how often each request was decided
    code,       \* code[c]: what the code was minted for, or NoCode
    cached,     \* the codes in the cache
    memory,     \* memory[c]: the family a redeemed code began, or None
    forgotten,  \* history: codes whose memory was lost to a failure or to time
    token,      \* token[t]: the row of oauth_refresh_tokens, or NoToken
    known,      \* the codes and tokens that reached a client
    ended,      \* history: families whose revocation was carried out
    req         \* req[r]: where the handler stands and what it holds

flowVars == <<pending, rebound, decided, code, cached>>
tokenVars == <<memory, forgotten, token, ended>>
vars == <<grantable, flowVars, tokenVars, known, req>>

-----------------------------------------------------------------------------
NoRequest == [session |-> None, scope |-> {}]

NoCode == [session |-> None, granted |-> {}]

NoToken == [family |-> None, code |-> None, scope |-> {},
            used |-> FALSE, revoked |-> FALSE, aged |-> FALSE]

Idle == [stage |-> "idle", session |-> None, authz |-> None, code |-> None,
         token |-> None, scope |-> {}]

Stages == {"idle", "bind", "take", "mint", "code", "insert", "remember",
           "rotate", "revoke"}

(* What a cached request, a code, a row and a handler may hold. *)
Requests == [session : Session \cup {None}, scope : SUBSET AnyScope]

Codes == [session : Session \cup {None}, granted : SUBSET AnyScope]

Rows == [family : Token \cup {None}, code : Code \cup {None},
         scope : SUBSET AnyScope, used : BOOLEAN, revoked : BOOLEAN, aged : BOOLEAN]

Handlers == [stage : Stages, session : Session \cup {None}, authz : Authz \cup {None},
             code : Code \cup {None}, token : Token \cup {None}, scope : SUBSET AnyScope]

TypeOK ==
    /\ grantable \in SUBSET AnyScope /\ Public \in grantable
    /\ pending \in [Authz -> Requests]
    /\ rebound \in SUBSET Authz
    /\ decided \in [Authz -> Nat]
    /\ code \in [Code -> Codes]
    /\ cached \in SUBSET Code
    /\ memory \in [Code -> Token \cup {None}]
    /\ forgotten \in SUBSET Code
    /\ token \in [Token -> Rows]
    /\ known \in SUBSET (Code \cup Token)
    /\ ended \in SUBSET Token
    /\ req \in [Request -> Handlers]

Init ==
    /\ grantable = AnyScope
    /\ pending = [a \in Authz |-> NoRequest]
    /\ rebound = {}
    /\ decided = [a \in Authz |-> 0]
    /\ code = [c \in Code |-> NoCode]
    /\ cached = {}
    /\ memory = [c \in Code |-> None]
    /\ forgotten = {}
    /\ token = [t \in Token |-> NoToken]
    /\ known = {}
    /\ ended = {}
    /\ req = [r \in Request |-> Idle]

-----------------------------------------------------------------------------
Waits(a) == pending[a].scope # {}

Exists(t) == token[t].family # None

Live(t) == Exists(t) /\ ~token[t].used /\ ~token[t].revoked

Family(f) == {t \in Token : token[t].family = f}

(* ScopesFor: what a session's principal holds under the present map. *)
PrincipalScopes(s) == {Public} \cup (Held[s] \cap grantable)

Intersect(requested, held) == requested \cap (held \cup {Public})

(* currentScopes: what can still be granted, public:read when that is      *)
(* nothing.                                                                *)
CurrentScopes(granted) ==
    IF granted \cap grantable = {} THEN {Public} ELSE granted \cap grantable

(* A mutant of RefreshScopes: whatever can be granted at all. *)
RefreshAnything(granted) == (SUBSET grantable) \ {{}}

(* refreshScopes: a request that names scopes gets just them, if it may.   *)
RefreshScopes(granted) ==
    LET scopes == CurrentScopes(granted)
    IN {scopes} \cup ((SUBSET scopes) \ {{}})

At(r, stage) == req[r].stage = stage

Goto(r, stage) == req' = [req EXCEPT ![r].stage = stage]

Finish(r) == req' = [req EXCEPT ![r] = Idle]

(* A call fails with an error that ends the handler, the answer is an      *)
(* error: nothing changes but that the request is over.                    *)
Fails(r) ==
    /\ ~At(r, "idle")
    /\ Finish(r)
    /\ forgotten' = IF At(r, "remember") \/ At(r, "revoke")
                    THEN forgotten \cup ({req[r].code} \cap Code) ELSE forgotten
    /\ UNCHANGED <<grantable, flowVars, memory, token, ended, known>>

-----------------------------------------------------------------------------
(* GET /oauth/authorize: a request that passes every check is stored; one  *)
(* that does not changes nothing.                                          *)
Authorize(a) ==
    /\ ~Waits(a) /\ decided[a] = 0
    /\ \E scopes \in (SUBSET grantable) \ {{}} :
         pending' = [pending EXCEPT ![a] = [session |-> None, scope |-> scopes]]
    /\ UNCHANGED <<grantable, rebound, decided, code, cached,
                   tokenVars, known, req>>

(* GET .../authorizations/{id}: the first session to read the request is   *)
(* written into it.  A bound request is only shown, or is a 404.           *)
GetAuthorization(r, s, a) ==
    /\ At(r, "idle")
    /\ Waits(a) /\ pending[a].session = None
    /\ req' = [req EXCEPT ![r] = [Idle EXCEPT !.stage = "bind", !.session = s,
                                  !.authz = a, !.scope = pending[a].scope]]
    /\ UNCHANGED <<grantable, flowVars, tokenVars, known>>

Bind(r) ==
    /\ At(r, "bind")
    /\ LET a == req[r].authz IN
       /\ pending' = [pending EXCEPT ![a] = [session |-> req[r].session,
                                             scope |-> req[r].scope]]
       /\ rebound' = IF decided[a] > 0 THEN rebound \cup {a} ELSE rebound
    /\ Finish(r)
    /\ UNCHANGED <<grantable, decided, code, cached, tokenVars, known>>

(* POST .../authorizations/{id}: only the session it is bound to decides.  *)
DecideAuthorization(r, s, a) ==
    /\ At(r, "idle")
    /\ Waits(a) /\ pending[a].session = s
    /\ req' = [req EXCEPT ![r] = [Idle EXCEPT !.stage = "take", !.session = s,
                                  !.authz = a, !.scope = pending[a].scope]]
    /\ UNCHANGED <<grantable, flowVars, tokenVars, known>>

(* A mutant of TakePending: what the handler read decides. *)
DecideAsRead(r) ==
    /\ At(r, "take")
    /\ LET a == req[r].authz IN
       /\ pending' = [pending EXCEPT ![a] = NoRequest]
       /\ decided' = [decided EXCEPT ![a] = @ + 1]
    /\ Goto(r, "mint") \/ Finish(r)
    /\ UNCHANGED <<grantable, rebound, code, cached, tokenVars, known>>

(* The id is consumed: allowed the handler goes on to mint a code, denied  *)
(* it is over; a request that another decision consumed is a 404.          *)
TakePending(r) ==
    /\ At(r, "take")
    /\ LET a == req[r].authz IN
       IF Waits(a)
       THEN /\ pending' = [pending EXCEPT ![a] = NoRequest]
            /\ decided' = [decided EXCEPT ![a] = @ + 1]
            /\ Goto(r, "mint") \/ Finish(r)
       ELSE Finish(r) /\ UNCHANGED <<pending, decided>>
    /\ UNCHANGED <<grantable, rebound, code, cached, tokenVars, known>>

(* The user row is written, the code stored, the consent remembered (or    *)
(* the failure to is logged: nothing here reads it) and the code answered. *)
MintCode(r) ==
    /\ At(r, "mint")
    /\ \E c \in Code :
         /\ code[c] = NoCode
         /\ code' = [code EXCEPT ![c] =
              [session |-> req[r].session,
               granted |-> Intersect(req[r].scope,
                                     PrincipalScopes(req[r].session))]]
         /\ cached' = cached \cup {c}
         /\ known' \in {known, known \cup {c}}
    /\ Finish(r)
    /\ UNCHANGED <<grantable, pending, rebound, decided, tokenVars>>

-----------------------------------------------------------------------------
(* POST /oauth/token, authorization_code.  A code that is remembered as    *)
(* redeemed revokes its family; if the cache cannot say, the code is tried *)
(* all the same.                                                           *)
RedeemCode(r, c) ==
    /\ At(r, "idle")
    /\ c \in known
    /\ \/ /\ memory[c] # None
          /\ memory' = [memory EXCEPT ![c] = None]
          /\ req' = [req EXCEPT ![r] = [Idle EXCEPT !.stage = "revoke",
                                        !.code = c, !.token = memory[c]]]
       \/ req' = [req EXCEPT ![r] = [Idle EXCEPT !.stage = "code", !.code = c]]
          /\ UNCHANGED memory
    /\ UNCHANGED <<grantable, flowVars, forgotten, token, ended, known>>

(* A mutant of TakeCode: the cache keeps the code, as Get would. *)
GetCode(r) ==
    /\ At(r, "code")
    /\ req[r].code \in cached
    /\ Goto(r, "insert") \/ Finish(r)
    /\ UNCHANGED <<grantable, flowVars, tokenVars, known>>

(* The code is taken before it is checked: a wrong verifier, client,       *)
(* redirect_uri or resource uses it up.                                    *)
TakeCode(r) ==
    /\ At(r, "code")
    /\ cached' = cached \ {req[r].code}
    /\ \/ req[r].code \in cached /\ Goto(r, "insert")
       \/ Finish(r)
    /\ UNCHANGED <<grantable, pending, rebound, decided, code,
                   tokenVars, known>>

NewToken(family, c, scope) ==
    [NoToken EXCEPT !.family = family, !.code = c, !.scope = scope]

NewFamily(r) ==
    /\ At(r, "insert")
    /\ \E t \in Token :
         /\ ~Exists(t)
         /\ token' = [token EXCEPT ![t] =
                        NewToken(t, req[r].code, code[req[r].code].granted)]
         /\ req' = [req EXCEPT ![r].stage = "remember", ![r].token = t]
    /\ UNCHANGED <<grantable, flowVars, memory, forgotten, ended, known>>

(* A mutant: the memory is set under the wrong condition, never. *)
RememberNothing(r) ==
    /\ At(r, "remember")
    /\ known' = known \cup {req[r].token}
    /\ Finish(r)
    /\ UNCHANGED <<grantable, flowVars, tokenVars>>

(* The redemption is remembered, or the failure to is logged, and the      *)
(* tokens are answered unless the access token cannot be signed.           *)
RememberRedeemed(r) ==
    /\ At(r, "remember")
    /\ LET c == req[r].code IN
       \/ memory' = [memory EXCEPT ![c] = req[r].token] /\ UNCHANGED forgotten
       \/ forgotten' = forgotten \cup {c} /\ UNCHANGED memory
    /\ known' \in {known, known \cup {req[r].token}}
    /\ Finish(r)
    /\ UNCHANGED <<grantable, flowVars, token, ended>>

-----------------------------------------------------------------------------
(* POST /oauth/token, refresh_token.  The row is read and judged; a token  *)
(* that was used, or is out of date, ends its family, one that is revoked  *)
(* or another client's is refused and nothing changes.                     *)
Refresh(r, t) ==
    /\ At(r, "idle")
    /\ t \in known /\ ~token[t].revoked
    /\ IF token[t].used \/ token[t].aged
       THEN req' = [req EXCEPT ![r] = [Idle EXCEPT !.stage = "revoke", !.token = t]]
       ELSE \E scopes \in RefreshScopes(token[t].scope) :
              req' = [req EXCEPT ![r] = [Idle EXCEPT !.stage = "rotate",
                                         !.token = t, !.scope = scopes]]
    /\ UNCHANGED <<grantable, flowVars, tokenVars, known>>

(* A mutant of RotateRefreshToken: the row's state is not looked at again. *)
RotateAsRead(r) ==
    /\ At(r, "rotate")
    /\ LET t == req[r].token IN
       \E n \in Token :
              /\ ~Exists(n)
              /\ token' = [token EXCEPT ![t].used = TRUE,
                             ![n] = NewToken(token[t].family, token[t].code,
                                             req[r].scope)]
              /\ known' \in {known, known \cup {n}}
              /\ Finish(r)
    /\ UNCHANGED <<grantable, flowVars, memory, forgotten, ended>>

(* One statement: the live token is marked used and its successor is       *)
(* inserted; a token no longer live was rotated by another request, which  *)
(* is reuse.  The answer may fail to reach the client.                     *)
RotateRefreshToken(r) ==
    /\ At(r, "rotate")
    /\ LET t == req[r].token IN
       IF Live(t)
       THEN \E n \in Token :
              /\ ~Exists(n)
              /\ token' = [token EXCEPT ![t].used = TRUE,
                             ![n] = NewToken(token[t].family, token[t].code,
                                             req[r].scope)]
              /\ known' \in {known, known \cup {n}}
              /\ Finish(r)
       ELSE Goto(r, "revoke") /\ UNCHANGED <<token, known>>
    /\ UNCHANGED <<grantable, flowVars, memory, forgotten, ended>>

(* POST /oauth/revoke. *)
Revoke(r, t) ==
    /\ At(r, "idle")
    /\ t \in known
    /\ req' = [req EXCEPT ![r] = [Idle EXCEPT !.stage = "revoke", !.token = t]]
    /\ UNCHANGED <<grantable, flowVars, tokenVars, known>>

(* A mutant of Revoked: the token presented, not its family. *)
RevokedToken(f) == [token EXCEPT ![f].revoked = TRUE]

Revoked(f) ==
    [t \in Token |-> IF token[t].family = f THEN [token[t] EXCEPT !.revoked = TRUE]
                     ELSE token[t]]

RevokeRefreshFamily(r) ==
    /\ At(r, "revoke")
    /\ LET f == token[req[r].token].family IN
       token' = Revoked(f) /\ ended' = ended \cup {f}
    /\ Finish(r)
    /\ UNCHANGED <<grantable, flowVars, memory, forgotten, known>>

-----------------------------------------------------------------------------
(* Time: what is in the cache runs out, a token is not used for too long.  *)
ExpirePending(a) ==
    /\ Waits(a)
    /\ pending' = [pending EXCEPT ![a] = NoRequest]
    /\ UNCHANGED <<grantable, rebound, decided, code, cached,
                   tokenVars, known, req>>

ExpireCode(c) ==
    /\ c \in cached
    /\ cached' = cached \ {c}
    /\ UNCHANGED <<grantable, pending, rebound, decided, code,
                   tokenVars, known, req>>

ForgetRedeemed(c) ==
    /\ memory[c] # None
    /\ memory' = [memory EXCEPT ![c] = None]
    /\ forgotten' = forgotten \cup {c}
    /\ UNCHANGED <<grantable, flowVars, token, ended, known, req>>

Age(t) ==
    /\ Live(t) /\ ~token[t].aged
    /\ token' = [token EXCEPT ![t].aged = TRUE]
    /\ UNCHANGED <<grantable, flowVars, memory, forgotten, ended, known, req>>

(* The process restarts with a narrower scope map; requests are cut off.   *)
Restart ==
    /\ \E scopes \in SUBSET grantable :
         scopes # grantable /\ grantable' = scopes \cup {Public}
    /\ req' = [r \in Request |-> Idle]
    /\ forgotten' = forgotten \cup
         {c \in Code : \E r \in Request :
            req[r].stage \in {"remember", "revoke"} /\ req[r].code = c}
    /\ UNCHANGED <<flowVars, memory, token, ended, known>>

Consent(r) ==
    \/ \E s \in Session, a \in Authz :
         GetAuthorization(r, s, a) \/ DecideAuthorization(r, s, a)
    \/ Bind(r) \/ TakePending(r) \/ MintCode(r)

Redeem(r) ==
    \/ \E c \in Code : RedeemCode(r, c)
    \/ TakeCode(r) \/ NewFamily(r) \/ RememberRedeemed(r)

Rotation(r) ==
    \/ \E t \in Token : Refresh(r, t) \/ Revoke(r, t)
    \/ RotateRefreshToken(r) \/ RevokeRefreshFamily(r)

Time ==
    \/ \E a \in Authz : ExpirePending(a)
    \/ \E c \in Code : ExpireCode(c) \/ ForgetRedeemed(c)
    \/ \E t \in Token : Age(t)

Next ==
    \/ \E a \in Authz : Authorize(a)
    \/ \E r \in Request : Consent(r) \/ Redeem(r) \/ Rotation(r) \/ Fails(r)
    \/ Time
    \/ Restart

Spec == Init /\ [][Next]_vars

-----------------------------------------------------------------------------
(* A family never has two usable tokens, whatever requests race: the       *)
(* statement of RotateRefreshToken and the checks before it (token.go).    *)
OneLiveToken ==
    \A t, u \in Token : Live(t) /\ Live(u) /\ token[t].family = token[u].family
                        => t = u

(* Once a family was revoked (a replayed code, a reused, outdated or       *)
(* returned token), none of its tokens is usable again, also not one a     *)
(* rotation already under way would have brought.                          *)
RevokedForGood == \A t \in Token : token[t].family \in ended => ~Live(t)

(* "So a pending authorization or a code is redeemed exactly once across   *)
(* replicas" (cache.go): a code begins one family.                         *)
CodeBeginsOneFamily ==
    \A t, u \in Token : Exists(t) /\ Exists(u) /\ token[t].code = token[u].code
                        => token[t].family = token[u].family

(* A replay can revoke what its code issued: between the answer and the    *)
(* replay the family is remembered under the code, already revoked, or     *)
(* about to be, unless the cache failed, forgot, or the process stopped.   *)
ReplayCanRevoke ==
    \A t \in Token :
      LET c == token[t].code IN
      (Exists(t) /\ t = token[t].family /\ c \notin forgotten) =>
        \/ memory[c] = t
        \/ t \in ended
        \/ \E r \in Request : /\ req[r].stage \in {"remember", "revoke"}
                              /\ req[r].token = t

(* No token carries a scope beyond what the person held and consented to,  *)
(* however often it was rotated, public:read excepted.                     *)
ScopeNeverWidens ==
    \A t \in Token : Exists(t) =>
      LET c == code[token[t].code] IN
      /\ token[t].scope \subseteq c.granted \cup {Public}
      /\ c.granted \subseteq Held[c.session] \cup {Public}

(* A request is decided once: one code or one refusal, by the session it   *)
(* was bound to, unless a session that had read it unbound wrote its       *)
(* binding after the decision.                                             *)
DecidedOnce == \A a \in Authz \ rebound : decided[a] <= 1

(* A family that was revoked is over, whatever its rows say.               *)
UsableToken(f) ==
    LET live == {t \in Family(f) : Live(t)} IN
    IF Family(f) = {} THEN "unborn"
    ELSE IF f \in ended \/ live = {} THEN "ended" ELSE CHOOSE t \in live : TRUE

SpentTokens == {t \in Token : Exists(t) /\ (Live(t) => token[t].family \in ended)}

F == INSTANCE RefreshFamily WITH
       Families <- Token, Tokens <- Token, Unborn <- "unborn", Ended <- "ended",
       usable <- [f \in Token |-> UsableToken(f)],
       spent <- SpentTokens

(* The rows of oauth_refresh_tokens behave as RefreshFamily says. *)
Families == F!Spec

=============================================================================
