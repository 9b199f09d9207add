-------------------------- MODULE ConfluenceClient --------------------------
(***************************************************************************)
(* The one Confluence client of a docz-api process (httpclient.go): the    *)
(* cloud id resolved once, requests sent again after a 429, and the calls  *)
(* of the startup check (cmd/docz-api) and of the exports that share it,   *)
(* against a site that comes, goes, limits and rejects.                    *)
(*                                                                         *)
(* A call is one request of the client's interface; what its pages say is  *)
(* PageExport's.  Time is not modelled: a timeout is Cancel at any moment. *)
(***************************************************************************)
EXTENDS Naturals

CONSTANTS
    Exporter,    \* the worker's exports, each one call at a time
    Startup,     \* the startup check
    MaxRetries,  \* maxRetries
    MaxWeather,  \* bound: how often the site changes its behaviour
    MaxRestarts  \* bound: how often the process is started again

ASSUME ConfluenceClientAssumption ==
    /\ Startup \notin Exporter
    /\ MaxRetries \in Nat /\ MaxWeather \in Nat /\ MaxRestarts \in Nat

Caller == Exporter \cup {Startup}

VARIABLES
    proc,      \* the process: in its checks, serving, draining, stopped
    site,      \* how Confluence answers
    weather,   \* bound: changes of site so far
    restarts,  \* bound: starts so far
    gate,      \* sync.Once of gateway, with what it remembers
    call,      \* call[c]: the call c is in, or its last one's result
    ctx,       \* ctx[c]: whether the call's context is live
    sent,      \* history: sent[c], requests of this call the site applied
    asked      \* history: callers that asked for the cloud id

clientVars == <<proc, site, weather, restarts, gate, call, ctx, sent, asked>>

Sites == {"up", "limits", "down", "rejects", "refuses"}

Failures == {"transient", "rejected", "refused", "context"}

Idle(result) == [stage |-> "idle", what |-> "api", tries |-> 0, result |-> result]

NewClient == [once |-> "new", err |-> "none"]

ClientTypeOK ==
    /\ proc \in {"github", "check", "serve", "drain", "stopped", "failed"}
    /\ site \in Sites /\ weather \in 0..MaxWeather
    /\ restarts \in 0..MaxRestarts
    /\ gate \in [once : {"new", "held", "done"}, err : Failures \cup {"none"}]
    /\ call \in [Caller -> [stage : {"idle", "once", "send", "sleep"},
                            what : {"tenant", "api"}, tries : 0..MaxRetries,
                            result : Failures \cup {"none", "ok"}]]
    /\ ctx \in [Caller -> BOOLEAN]
    /\ sent \in [Caller -> Nat]
    /\ asked \subseteq Caller

ClientInit ==
    /\ proc = "github" /\ site \in Sites /\ weather = 0 /\ restarts = 0
    /\ gate = NewClient
    /\ call = [c \in Caller |-> Idle("none")]
    /\ ctx = [c \in Caller |-> TRUE]
    /\ sent = [c \in Caller |-> 0]
    /\ asked = {}

-----------------------------------------------------------------------------
Weather ==
    /\ weather < MaxWeather
    /\ site' \in Sites \ {site}
    /\ weather' = weather + 1
    /\ UNCHANGED <<proc, restarts, gate, call, ctx, sent, asked>>

Starts(c) ==
    /\ call' = [call EXCEPT ![c] = [Idle("none") EXCEPT !.stage = "once"]]
    /\ ctx' = [ctx EXCEPT ![c] = TRUE]
    /\ sent' = [sent EXCEPT ![c] = 0]

(* run: a rejected GitHub credential, or a store, an index or a queue that *)
(* is not there, fails the deploy; then setupConfluence asks for the       *)
(* allowed spaces.                                                         *)
CheckGitHub ==
    /\ proc = "github"
    /\ \/ proc' = "failed" /\ UNCHANGED <<call, ctx, sent>>
       \/ proc' = "check" /\ Starts(Startup)
    /\ UNCHANGED <<site, weather, restarts, gate, asked>>

(* checkConfluenceCredentials: only a 401 is fatal.  -onboard and -export  *)
(* enqueue and stop; otherwise the worker starts.                          *)
Checked ==
    /\ proc = "check" /\ call[Startup].stage = "idle"
    /\ IF call[Startup].result = "rejected" THEN proc' = "failed"
       ELSE proc' \in {"serve", "stopped"}
    /\ UNCHANGED <<site, weather, restarts, gate, call, ctx, sent, asked>>

(* An export's next request, of its first attempt or of a retry. *)
Begin(e) ==
    /\ proc = "serve" /\ call[e].stage = "idle"
    /\ Starts(e)
    /\ UNCHANGED <<proc, site, weather, restarts, gate, asked>>

Returns(c, result) == call' = [call EXCEPT ![c] = Idle(result)]

(* gateway: the first caller resolves the cloud id, others wait for it,    *)
(* whatever their context says; a failure is remembered.                   *)
EnterOnce(c) ==
    /\ call[c].stage = "once"
    /\ \/ /\ gate.once = "new"
          /\ gate' = [gate EXCEPT !.once = "held"]
          /\ asked' = asked \cup {c}
          /\ call' = [call EXCEPT ![c].stage = "send", ![c].what = "tenant"]
       \/ /\ gate.once = "done"
          /\ IF gate.err = "none"
             THEN call' = [call EXCEPT ![c].stage = "send", ![c].what = "api"]
             ELSE Returns(c, gate.err)
          /\ UNCHANGED <<gate, asked>>
    /\ UNCHANGED <<proc, site, weather, restarts, ctx, sent>>

(* What http.Do and readResponse make of the site's answer. *)
Answers(c) ==
    IF ~ctx[c] THEN {"context"}
    ELSE CASE site = "up" -> {"ok", "transient"}  \* the answer may be lost
           [] site = "limits" -> {"limited"}
           [] site = "down" -> {"transient"}
           [] site = "rejects" -> {"rejected"}
           [] site = "refuses" -> {"refused"}

(* A mutant of Again: a request that got no answer is sent again. *)
AgainUnanswered(c, a) ==
    a \in {"limited", "transient"} /\ call[c].tries < MaxRetries

(* A mutant of Again: a 429 is waited out for as long as it takes. *)
AgainForever(c, a) == a = "limited"

(* decode: a 429 is tried again, up to MaxRetries times. *)
Again(c, a) == a = "limited" /\ call[c].tries < MaxRetries

(* One request of a call.  The cloud id's result opens the gate for all.   *)
Send(c) ==
    /\ call[c].stage = "send"
    /\ \E a \in Answers(c) :
         LET result == IF a = "limited" THEN "transient" ELSE a
             applies == ctx[c] /\ site = "up" /\ call[c].what = "api"
         IN
         /\ sent' = [sent EXCEPT ![c] = IF applies THEN @ + 1 ELSE @]
         /\ \/ /\ Again(c, a)
               /\ call' = [call EXCEPT ![c].stage = "sleep",
                             ![c].tries = IF @ > MaxRetries THEN @ ELSE @ + 1]
               /\ UNCHANGED gate
            \/ /\ ~Again(c, a) /\ call[c].what = "api"
               /\ Returns(c, result)
               /\ UNCHANGED gate
            \/ /\ ~Again(c, a) /\ call[c].what = "tenant"
               /\ gate' = [once |-> "done", err |-> IF a = "ok" THEN "none" ELSE result]
               /\ IF a = "ok"
                  THEN call' = [call EXCEPT ![c].what = "api", ![c].tries = 0]
                  ELSE Returns(c, result)
    /\ UNCHANGED <<proc, site, weather, restarts, ctx, asked>>

(* sleepCtx: the wait ends, or the context does. *)
Sleep(c) ==
    /\ call[c].stage = "sleep"
    /\ IF ctx[c] THEN call' = [call EXCEPT ![c].stage = "send"] /\ UNCHANGED gate
       ELSE /\ Returns(c, "context")
            /\ gate' = IF call[c].what = "tenant"
                       THEN [once |-> "done", err |-> "context"] ELSE gate
    /\ UNCHANGED <<proc, site, weather, restarts, ctx, sent, asked>>

(* The startup check's timeout, the export task's, or the worker stopping. *)
Cancel(c) ==
    /\ call[c].stage # "idle" /\ ctx[c]
    /\ ctx' = [ctx EXCEPT ![c] = FALSE]
    /\ UNCHANGED <<proc, site, weather, restarts, gate, call, sent, asked>>

-----------------------------------------------------------------------------
(* serveWithWorker: a signal ends the serving, the worker drains, and the  *)
(* process ends when no export is left.                                    *)
Terminate ==
    /\ proc = "serve"
    /\ proc' = "drain"
    /\ UNCHANGED <<site, weather, restarts, gate, call, ctx, sent, asked>>

Stop ==
    /\ proc = "drain" /\ \A e \in Exporter : call[e].stage = "idle"
    /\ proc' = "stopped"
    /\ UNCHANGED <<site, weather, restarts, gate, call, ctx, sent, asked>>

Restart ==
    /\ proc \in {"stopped", "failed"} /\ restarts < MaxRestarts
    /\ proc' = "github" /\ restarts' = restarts + 1
    /\ gate' = NewClient /\ asked' = {}
    /\ call' = [c \in Caller |-> Idle("none")]
    /\ UNCHANGED <<site, weather, ctx, sent>>

CallNext(c) == EnterOnce(c) \/ Send(c) \/ Sleep(c) \/ Cancel(c)

ClientNext ==
    \/ Weather \/ CheckGitHub \/ Checked \/ Terminate \/ Stop \/ Restart
    \/ \E e \in Exporter : Begin(e)
    \/ \E c \in Caller : CallNext(c)

ClientSpec == ClientInit /\ [][ClientNext]_clientVars

(* Goroutines run, timers fire, and the queue runs an export it has.  An   *)
(* answer of a site that is up is not lost every time.                     *)
Answered(c) == Send(c) /\ (site = "up" /\ ctx[c] => call'[c].result # "transient")

ClientFairness ==
    /\ \A c \in Caller :
         /\ WF_clientVars(EnterOnce(c)) /\ WF_clientVars(Send(c))
         /\ WF_clientVars(Sleep(c)) /\ SF_clientVars(Answered(c))
    /\ \A e \in Exporter : WF_clientVars(Begin(e))
    /\ WF_clientVars(CheckGitHub) /\ WF_clientVars(Checked)

ClientFairSpec == ClientSpec /\ ClientFairness

-----------------------------------------------------------------------------
(* One goroutine asks for the cloud id, however many callers start at      *)
(* once, and every request goes to the site it resolved: gateway.          *)
ResolvedOnce ==
    /\ \A c, d \in asked : c = d
    /\ \A c \in Caller :
         (call[c].stage \in {"send", "sleep"} /\ call[c].what = "api") =>
           gate = [once |-> "done", err |-> "none"]

(* A request the site may have carried out is never sent again by the      *)
(* client (decode): a create that got no answer makes one page.            *)
AppliedOnce == \A c \in Caller : sent[c] <= 1

(* Every call ends: the limit on retries, the contexts and the gate leave  *)
(* no caller waiting for ever.                                             *)
EveryCallReturns ==
    \A c \in Caller : (call[c].stage # "idle") ~> (call[c].stage = "idle")

(* "an error a retry may clear" (export/retry.go, transient): once the     *)
(* site is up and stays so, a serving process's exports get through.       *)
RetryClears ==
    \A e \in Exporter :
      <>[](site = "up" /\ proc = "serve" /\ ctx[e]) => <>(call[e].result = "ok")

=============================================================================
