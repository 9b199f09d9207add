-------------------------- MODULE ConfluenceProofs ---------------------------
(***************************************************************************)
(* Proofs about an export to Confluence.  ConfluenceClient, for any number *)
(* of exports, retries of a 429, changes of the site and restarts.  Then   *)
(* PageExport, for any documents, titles and contents, any number of runs, *)
(* pushes and acts of people, and every mode of exporting.                 *)
(***************************************************************************)
EXTENDS PageExport, ConfluenceClient, TLAPS, WellFoundedInduction

-----------------------------------------------------------------------------
(***************************************************************************)
(* The calls: ConfluenceClient.                                            *)
(***************************************************************************)
(* The inductive invariant: a call under way has had nothing applied, and  *)
(* the one caller that asks for the cloud id is the one that holds the     *)
(* gate.                                                                   *)
ClientInv ==
    /\ ClientTypeOK
    /\ \A c \in Caller : sent[c] <= 1 /\ (call[c].stage # "idle" => sent[c] = 0)
    /\ \A c, d \in asked : c = d
    /\ gate.once = "new" => asked = {}
    /\ \A c \in Caller : call[c].stage \in {"send", "sleep"} =>
         IF call[c].what = "tenant" THEN gate.once = "held" /\ c \in asked
         ELSE gate = [once |-> "done", err |-> "none"]


CallType == [stage : {"idle", "once", "send", "sleep"}, what : {"tenant", "api"},
             tries : 0..MaxRetries, result : Failures \cup {"none", "ok"}]

LEMMA IdleType ==
    ASSUME NEW r \in Failures \cup {"none", "ok"}
    PROVE  Idle(r) \in CallType /\ Idle(r).stage = "idle"
<1>1. 0 \in 0..MaxRetries
    BY ConfluenceClientAssumption
<1> QED
    BY <1>1 DEF Idle, CallType

LEMMA ClientInitInv == ClientInit => ClientInv
<1> SUFFICES ASSUME ClientInit PROVE ClientInv
    OBVIOUS
<1>1. ClientTypeOK
    <2>1. call \in [Caller -> CallType]
        BY IdleType DEF ClientInit
    <2>2. gate \in [once : {"new", "held", "done"}, err : Failures \cup {"none"}]
        BY DEF ClientInit, NewClient
    <2>3. 0 \in 0..MaxWeather /\ 0 \in 0..MaxRestarts
        BY ConfluenceClientAssumption
    <2> QED
        BY <2>1, <2>2, <2>3 DEF ClientInit, ClientTypeOK, CallType
<1> QED
    BY <1>1, IdleType DEF ClientInit, ClientInv, NewClient

(* A step of one call: where it may go, and what it does to the gate.      *)
LEMMA CallInv ==
    ASSUME ClientInv, NEW c \in Caller, CallNext(c)
    PROVE  ClientInv'
<1> DEFINE GateType == [once : {"new", "held", "done"}, err : Failures \cup {"none"}]
<1>1. /\ ClientTypeOK /\ call \in [Caller -> CallType] /\ call[c] \in CallType
      /\ ctx \in [Caller -> BOOLEAN] /\ sent \in [Caller -> Nat] /\ asked \subseteq Caller
      /\ gate \in GateType
    BY DEF ClientInv, ClientTypeOK, CallType
<1>2. CASE EnterOnce(c)
    <2>0. /\ UNCHANGED <<proc, site, weather, restarts, ctx, sent>> /\ call[c].stage = "once"
        BY <1>2 DEF EnterOnce
    <2>1. CASE /\ gate.once = "new"
               /\ gate' = [gate EXCEPT !.once = "held"]
               /\ asked' = asked \cup {c}
               /\ call' = [call EXCEPT ![c].stage = "send", ![c].what = "tenant"]
        <3> PICK r : r = [call[c] EXCEPT !.stage = "send", !.what = "tenant"]
            OBVIOUS
        <3>1. r \in CallType /\ r.stage = "send" /\ r.what = "tenant" /\ call' = [call EXCEPT ![c] = r]
            BY <1>1, <2>1 DEF CallType
        <3>2. gate' \in GateType /\ gate'.once = "held" /\ asked' \subseteq Caller
            BY <1>1, <2>1
        <3>3. ClientTypeOK'
            BY <1>1, <2>0, <3>1, <3>2 DEF ClientTypeOK, CallType
        <3> QED
            BY <1>1, <2>0, <2>1, <3>1, <3>2, <3>3 DEF ClientInv
    <2>2. CASE /\ gate.once = "done"
               /\ IF gate.err = "none"
                  THEN call' = [call EXCEPT ![c].stage = "send", ![c].what = "api"]
                  ELSE Returns(c, gate.err)
               /\ UNCHANGED <<gate, asked>>
        <3>1. CASE gate.err = "none"
            <4> PICK r : r = [call[c] EXCEPT !.stage = "send", !.what = "api"]
                OBVIOUS
            <4>1. r \in CallType /\ r.stage = "send" /\ r.what = "api" /\ call' = [call EXCEPT ![c] = r]
                BY <1>1, <2>2, <3>1 DEF CallType
            <4>2. gate = [once |-> "done", err |-> "none"]
                BY <1>1, <2>2, <3>1
            <4>3. ClientTypeOK'
                BY <1>1, <2>0, <2>2, <4>1 DEF ClientTypeOK, CallType
            <4> QED
                BY <1>1, <2>0, <2>2, <4>1, <4>2, <4>3 DEF ClientInv
        <3>2. CASE gate.err # "none"
            <4> PICK r : r = Idle(gate.err)
                OBVIOUS
            <4>1. r \in CallType /\ r.stage = "idle" /\ call' = [call EXCEPT ![c] = r]
                BY <1>1, <2>2, <3>2, IdleType DEF Returns
            <4>2. ClientTypeOK'
                BY <1>1, <2>0, <2>2, <4>1 DEF ClientTypeOK, CallType
            <4> QED
                BY <1>1, <2>0, <2>2, <4>1, <4>2 DEF ClientInv
        <3> QED
            BY <3>1, <3>2
    <2> QED
        BY <1>2, <2>1, <2>2 DEF EnterOnce
<1>3. CASE Send(c)
    <2> PICK a \in Answers(c) :
            LET result == IF a = "limited" THEN "transient" ELSE a
                applies == ctx[c] /\ site = "up" /\ call[c].what = "api"
            IN
            /\ sent' = [sent EXCEPT ![c] = IF applies THEN @ + 1 ELSE @]
            /\ \/ /\ Again(c, a)
                  /\ call' = [call EXCEPT ![c].stage = "sleep",
                                ![c].tries = IF @ > MaxRetries THEN @ ELSE @ + 1]
                  /\ UNCHANGED gate
               \/ /\ ~Again(c, a) /\ call[c].what = "api"
                  /\ Returns(c, result)
                  /\ UNCHANGED gate
               \/ /\ ~Again(c, a) /\ call[c].what = "tenant"
                  /\ gate' = [once |-> "done", err |-> IF a = "ok" THEN "none" ELSE result]
                  /\ IF a = "ok"
                     THEN call' = [call EXCEPT ![c].what = "api", ![c].tries = 0]
                     ELSE Returns(c, result)
        BY <1>3 DEF Send
    <2>0. /\ UNCHANGED <<proc, site, weather, restarts, ctx, asked>> /\ call[c].stage = "send"
          /\ sent[c] = 0
        BY <1>3 DEF Send, ClientInv
    <2> PICK result : result = IF a = "limited" THEN "transient" ELSE a
        OBVIOUS
    <2>1. a \in {"context", "ok", "transient", "limited", "rejected", "refused"}
        <3>1. site \in Sites
            BY <1>1 DEF ClientTypeOK
        <3>2. CASE ~ctx[c]
            BY <3>2 DEF Answers
        <3>3. CASE ctx[c] /\ site \in {"up", "limits"}
            BY <3>3 DEF Answers
        <3>4. CASE ctx[c] /\ site \in {"down", "rejects", "refuses"}
            BY <3>4 DEF Answers
        <3> QED
            BY <3>1, <3>2, <3>3, <3>4 DEF Sites
    <2>2. result \in Failures \cup {"none", "ok"} /\ (a # "ok" => result \in Failures)
        BY <2>1 DEF Failures
    <2>3. sent' \in [Caller -> Nat] /\ \A d \in Caller : sent'[d] <= 1 /\ (d # c => sent'[d] = sent[d])
        BY <1>1, <2>0 DEF ClientInv
    <2>4. CASE /\ Again(c, a)
               /\ call' = [call EXCEPT ![c].stage = "sleep",
                             ![c].tries = IF @ > MaxRetries THEN @ ELSE @ + 1]
               /\ UNCHANGED gate
        <3> PICK r : r = [call[c] EXCEPT !.stage = "sleep",
                            !.tries = IF @ > MaxRetries THEN @ ELSE @ + 1]
            OBVIOUS
        <3>1. call[c].tries < MaxRetries /\ call[c].tries \in 0..MaxRetries /\ a = "limited"
            BY <1>1, <2>4 DEF Again, CallType
        <3>2. call[c].tries + 1 \in 0..MaxRetries
            BY <3>1, ConfluenceClientAssumption
        <3>3. r \in CallType /\ r.stage = "sleep" /\ r.what = call[c].what /\ call' = [call EXCEPT ![c] = r]
            BY <1>1, <2>4, <3>1, <3>2 DEF CallType
        <3>4. sent'[c] = 0
            BY <1>1, <2>0, <3>1 DEF Answers
        <3>5. ClientTypeOK'
            BY <1>1, <2>0, <2>3, <2>4, <3>3 DEF ClientTypeOK, CallType
        <3> QED
            BY <1>1, <2>0, <2>3, <2>4, <3>3, <3>4, <3>5 DEF ClientInv
    <2>5. CASE /\ ~Again(c, a) /\ call[c].what = "api"
               /\ Returns(c, result)
               /\ UNCHANGED gate
        <3> PICK r : r = Idle(result)
            OBVIOUS
        <3>1. r \in CallType /\ r.stage = "idle" /\ call' = [call EXCEPT ![c] = r]
            BY <2>2, <2>5, IdleType DEF Returns
        <3>2. ClientTypeOK'
            BY <1>1, <2>0, <2>3, <2>5, <3>1 DEF ClientTypeOK, CallType
        <3> QED
            BY <1>1, <2>0, <2>3, <2>5, <3>1, <3>2 DEF ClientInv
    <2>6. CASE /\ ~Again(c, a) /\ call[c].what = "tenant"
               /\ gate' = [once |-> "done", err |-> IF a = "ok" THEN "none" ELSE result]
               /\ IF a = "ok"
                  THEN call' = [call EXCEPT ![c].what = "api", ![c].tries = 0]
                  ELSE Returns(c, result)
        <3>1. gate' \in GateType /\ gate'.once = "done" /\ (a = "ok" => gate'.err = "none")
            BY <2>2, <2>6
        <3>2. sent' = sent /\ gate.once = "held" /\ c \in asked
            BY <1>1, <2>0, <2>6 DEF ClientInv
        <3>3. \A d \in Caller : call[d].stage \in {"send", "sleep"} => d = c
            BY <1>1, <2>0, <2>6, <3>2 DEF ClientInv
        <3>4. CASE a = "ok"
            <4> PICK r : r = [call[c] EXCEPT !.what = "api", !.tries = 0]
                OBVIOUS
            <4>0. 0 \in 0..MaxRetries
                BY ConfluenceClientAssumption
            <4>1. r \in CallType /\ r.stage = "send" /\ r.what = "api" /\ call' = [call EXCEPT ![c] = r]
                BY <1>1, <2>0, <2>6, <3>4, <4>0 DEF CallType
            <4>2. ClientTypeOK'
                BY <1>1, <2>0, <3>1, <3>2, <4>1 DEF ClientTypeOK, CallType
            <4> QED
                BY <1>1, <2>0, <2>6, <3>1, <3>2, <3>3, <3>4, <4>1, <4>2 DEF ClientInv
        <3>5. CASE a # "ok"
            <4> PICK r : r = Idle(result)
                OBVIOUS
            <4>1. r \in CallType /\ r.stage = "idle" /\ call' = [call EXCEPT ![c] = r]
                BY <2>2, <2>6, <3>5, IdleType DEF Returns
            <4>2. ClientTypeOK'
                BY <1>1, <2>0, <3>1, <3>2, <4>1 DEF ClientTypeOK, CallType
            <4> QED
                BY <1>1, <2>0, <3>1, <3>2, <3>3, <4>1, <4>2 DEF ClientInv
        <3> QED
            BY <3>4, <3>5
    <2> QED
        BY <2>4, <2>5, <2>6
<1>4. CASE Sleep(c)
    <2>0. UNCHANGED <<proc, site, weather, restarts, ctx, sent, asked>> /\ call[c].stage = "sleep"
        BY <1>4 DEF Sleep
    <2>1. CASE ctx[c]
        <3> PICK r : r = [call[c] EXCEPT !.stage = "send"]
            OBVIOUS
        <3>1. r \in CallType /\ r.stage = "send" /\ r.what = call[c].what /\ call' = [call EXCEPT ![c] = r]
            BY <1>1, <1>4, <2>1 DEF Sleep, CallType
        <3>2. gate' = gate
            BY <1>4, <2>1 DEF Sleep
        <3>3. ClientTypeOK'
            BY <1>1, <2>0, <3>1, <3>2 DEF ClientTypeOK, CallType
        <3> QED
            BY <1>1, <2>0, <3>1, <3>2, <3>3 DEF ClientInv
    <2>2. CASE ~ctx[c]
        <3> PICK r : r = Idle("context")
            OBVIOUS
        <3>1. r \in CallType /\ r.stage = "idle" /\ call' = [call EXCEPT ![c] = r]
            BY <1>4, <2>2, IdleType DEF Sleep, Returns, Failures
        <3>2. gate' = IF call[c].what = "tenant" THEN [once |-> "done", err |-> "context"] ELSE gate
            BY <1>4, <2>2 DEF Sleep
        <3>3. gate' \in GateType
            BY <1>1, <3>2 DEF Failures
        <3>4. ClientTypeOK'
            BY <1>1, <2>0, <3>1, <3>3 DEF ClientTypeOK, CallType
        <3>5. CASE call[c].what = "tenant"
            <4>1. gate.once = "held" /\ c \in asked
                BY <2>0, <3>5 DEF ClientInv
            <4>2. \A d \in Caller : call[d].stage \in {"send", "sleep"} => d = c
                BY <1>1, <4>1 DEF ClientInv
            <4> QED
                BY <1>1, <2>0, <3>1, <3>2, <3>4, <3>5, <4>2 DEF ClientInv
        <3>6. CASE call[c].what # "tenant"
            BY <1>1, <2>0, <3>1, <3>2, <3>4, <3>6 DEF ClientInv
        <3> QED
            BY <3>5, <3>6
    <2> QED
        BY <2>1, <2>2
<1>5. CASE Cancel(c)
    BY <1>5 DEF Cancel, ClientInv, ClientTypeOK
<1> QED
    BY <1>2, <1>3, <1>4, <1>5 DEF CallNext

(* A call begins with nothing of its own at the site.                      *)
LEMMA StartsInv ==
    ASSUME ClientInv, NEW c \in Caller, Starts(c), proc' \in {"check", "serve"},
           UNCHANGED <<site, weather, restarts, gate, asked>>
    PROVE  ClientInv'
<1> PICK r : r = [Idle("none") EXCEPT !.stage = "once"]
    OBVIOUS
<1>1. r \in CallType /\ r.stage = "once" /\ call' = [call EXCEPT ![c] = r]
    BY IdleType DEF Starts, CallType, Idle
<1>2. call \in [Caller -> CallType] /\ sent \in [Caller -> Nat] /\ ctx \in [Caller -> BOOLEAN]
    BY DEF ClientInv, ClientTypeOK, CallType
<1>3. sent' = [sent EXCEPT ![c] = 0] /\ ctx' = [ctx EXCEPT ![c] = TRUE]
    BY DEF Starts
<1>4. ClientTypeOK'
    BY <1>1, <1>2, <1>3 DEF ClientInv, ClientTypeOK, CallType
<1> QED
    BY <1>1, <1>2, <1>3, <1>4 DEF ClientInv

LEMMA ClientNextInv == ClientInv /\ [ClientNext]_clientVars => ClientInv'
<1> SUFFICES ASSUME ClientInv, [ClientNext]_clientVars PROVE ClientInv'
    OBVIOUS
<1>1. ClientTypeOK /\ Startup \in Caller /\ \A e \in Exporter : e \in Caller
    BY DEF ClientInv, Caller
<1>2. CASE Weather
    <2>1. weather' \in 0..MaxWeather /\ site' \in Sites
        BY <1>1, <1>2, ConfluenceClientAssumption DEF Weather, ClientTypeOK
    <2>2. ClientTypeOK'
        BY <1>1, <1>2, <2>1 DEF Weather, ClientTypeOK
    <2> QED
        BY <1>2, <2>2 DEF Weather, ClientInv
<1>3. CASE CheckGitHub
    <2>1. CASE proc' = "failed" /\ UNCHANGED <<call, ctx, sent>>
        BY <1>1, <1>3, <2>1 DEF CheckGitHub, ClientInv, ClientTypeOK
    <2>2. CASE proc' = "check" /\ Starts(Startup)
        BY <1>1, <1>3, <2>2, StartsInv DEF CheckGitHub
    <2> QED
        BY <1>3, <2>1, <2>2 DEF CheckGitHub
<1>4. CASE Checked \/ Terminate \/ Stop
    BY <1>1, <1>4 DEF Checked, Terminate, Stop, ClientInv, ClientTypeOK
<1>5. ASSUME NEW e \in Exporter, Begin(e) PROVE ClientInv'
    BY <1>1, <1>5, StartsInv DEF Begin
<1>6. ASSUME NEW c \in Caller, CallNext(c) PROVE ClientInv'
    BY <1>6, CallInv
<1>7. CASE Restart
    <2>1. restarts' \in 0..MaxRestarts
        BY <1>1, <1>7, ConfluenceClientAssumption DEF Restart, ClientTypeOK
    <2>2. gate' \in [once : {"new", "held", "done"}, err : Failures \cup {"none"}]
          /\ gate'.once = "new"
        BY <1>7 DEF Restart, NewClient
    <2>3. call' \in [Caller -> CallType] /\ \A c \in Caller : call'[c].stage = "idle"
        BY <1>7, IdleType DEF Restart
    <2>4. ClientTypeOK'
        BY <1>1, <1>7, <2>1, <2>2, <2>3 DEF Restart, ClientTypeOK, CallType
    <2> QED
        BY <1>7, <2>2, <2>3, <2>4 DEF Restart, ClientInv
<1>8. CASE UNCHANGED clientVars
    BY <1>8 DEF clientVars, ClientInv, ClientTypeOK
<1> QED
    BY <1>2, <1>3, <1>4, <1>5, <1>6, <1>7, <1>8 DEF ClientNext

LEMMA ClientInvariance == ClientSpec => []ClientInv
BY ClientInitInv, ClientNextInv, PTL DEF ClientSpec

(* No request the site may have carried out is sent again by the client,   *)
(* for any number of retries of a 429 (decode).                            *)
THEOREM RequestsAreAppliedOnce == ClientSpec => []AppliedOnce
<1>1. ClientInv => AppliedOnce
    BY DEF ClientInv, AppliedOnce
<1> QED
    BY <1>1, ClientInvariance, PTL

(* However many callers start at once, one of them resolves the cloud id,  *)
(* and every request goes to the site it resolved (gateway).               *)
THEOREM CloudIdIsResolvedOnce == ClientSpec => []ResolvedOnce
<1>1. ClientInv => ResolvedOnce
    BY DEF ClientInv, ResolvedOnce, ClientTypeOK
<1> QED
    BY <1>1, ClientInvariance, PTL

-----------------------------------------------------------------------------
(***************************************************************************)
(* The pages: PageExport.                                                  *)
(***************************************************************************)
USE ExportAssumption

PropertyType == [key : Keys, hash : Bodies, version : Nat]

(***************************************************************************)
(* The inductive invariant.  A property is docz's own and not ahead of its *)
(* page; where it has the page's version, nobody edited the page, unless   *)
(* archiving masked it.                                                    *)
(***************************************************************************)
Own(p) ==
    pages[p].prop # Nothing =>
      /\ pages[p].made = "docz"
      /\ pages[p].prop.version <= pages[p].version
      /\ pages[p].prop.version = pages[p].version /\ pages[p].body = Human => pages[p].masked

(* A run that is to update a page without --force found docz's property on *)
(* it, and the version it found if it takes the page for unedited; one     *)
(* that is to write the property wrote the page before.                    *)
AtPage == {"decide", "update", "stamp", "archive", "restamp"}
AtItem == {"find", "create", "decide", "update", "stamp"}

RunInv ==
    /\ run.pc \in AtPage => run.page # 0
    /\ run.pc \in AtItem => run.key \in Items(run.plan) /\ run.todo \subseteq Items(run.plan)
    /\ run.pc \in {"orphan", "archive", "restamp"} => run.todo \subseteq DOMAIN pages
    /\ run.pc \in {"archive", "restamp"} => run.key \in Keys
    /\ run.pc = "stamp" => run.what \in {"created", "updated"}
    /\ run.pc = "update" /\ run.mode # "force" /\ run.edited => run.mode = "server"

(* What the run knows of the page it is at. *)
Known(page) ==
    /\ run.pc \in {"archive", "restamp"} => page.prop # Nothing
    /\ run.pc = "update" /\ run.mode # "force" =>
         /\ page.prop # Nothing
         /\ ~run.edited => page.prop.version = run.version
    /\ run.pc = "stamp" =>
         /\ page.made = "docz" /\ run.version <= page.version
         /\ run.version = page.version => page.body # Human
    /\ run.pc = "restamp" =>
         /\ run.version <= page.version
         /\ run.version = page.version /\ page.prop.version + 1 = run.version
              /\ page.body = Human => page.masked

Result == [what : {"none"} \cup Successes \cup Skips \cup {"failed"}, page : 0 .. Len(pages)]

IInv ==
    /\ TypeOK /\ RunInv
    /\ run.pc \in AtPage => Known(pages[run.page])
    /\ \A p \in DOMAIN pages : Own(p)

-----------------------------------------------------------------------------
(* A set of numbers has a least one. *)
LEMMA Least ==
    ASSUME NEW S \in SUBSET Nat, S # {}
    PROVE  \E k \in S : \A j \in S : k <= j
<1>1. IsWellFoundedOn(OpToRel(<, Nat), Nat)
    BY NatLessThanWellFounded
<1>2. PICK k \in S : \A j \in S : ~(<<j, k>> \in OpToRel(<, Nat))
    BY <1>1, WFMin
<1>3. \A j \in S : ~(j < k)
    BY <1>2 DEF OpToRel
<1>4. \A j \in S : k <= j
    BY <1>3, SMT
<1> QED
    BY <1>4

(* One page is replaced, or one is added. *)
LEMMA SetPage ==
    ASSUME pages \in Seq(Page), NEW p \in DOMAIN pages, NEW r \in Page,
           NEW s, s = [pages EXCEPT ![p] = r]
    PROVE  /\ s \in Seq(Page) /\ Len(s) = Len(pages) /\ DOMAIN s = DOMAIN pages
           /\ s[p] = r /\ \A q \in DOMAIN pages : q # p => s[q] = pages[q]
OBVIOUS

LEMMA AddPage ==
    ASSUME pages \in Seq(Page), NEW r \in Page, NEW s, s = Append(pages, r)
    PROVE  /\ s \in Seq(Page) /\ Len(s) = Len(pages) + 1 /\ Len(pages) \in Nat
           /\ DOMAIN s = 1 .. Len(pages) + 1 /\ DOMAIN pages = 1 .. Len(pages)
           /\ s[Len(pages) + 1] = r /\ \A q \in DOMAIN pages : s[q] = pages[q]
OBVIOUS

LEMMA PageFields ==
    ASSUME TypeOK, NEW p \in DOMAIN pages
    PROVE  /\ pages \in Seq(Page) /\ DOMAIN pages = 1 .. Len(pages) /\ Len(pages) \in Nat
           /\ pages[p] \in Page /\ pages[p].version \in Nat
           /\ pages[p].prop # Nothing => pages[p].prop \in PropertyType
<1>1. pages \in Seq(Page) /\ DOMAIN pages = 1 .. Len(pages) /\ Len(pages) \in Nat
    BY DEF TypeOK
<1>2. pages[p] \in Page
    BY <1>1
<1> QED
    BY <1>1, <1>2 DEF Page, PropertyType

LEMMA InitIInv == Init => IInv
<1> SUFFICES ASSUME Init PROVE IInv
    OBVIOUS
<1>1. [k \in Keys |-> Nothing] \in Trees
    BY DEF Trees
<1>2. run \in Run
    BY <1>1 DEF Init, NoRun, Run, Stages, Places
<1>3. pages \in Seq(Page) /\ 0 \in 0 .. Len(pages)
    BY DEF Init
<1>4. NoResults \in [Keys -> Result]
    BY <1>3 DEF NoResults, Result
<1>5. left \in [runs : Nat, pushes : Nat, acts : Nat]
    BY DEF Init
<1>6. TypeOK
    BY <1>2, <1>3, <1>4, <1>5 DEF Init, TypeOK, Result
<1> QED
    BY <1>6 DEF IInv, RunInv, Init, NoRun, AtPage, AtItem, Own

-----------------------------------------------------------------------------
(* People leave properties as they are, and raise the version of a page    *)
(* whose body they replace.                                                *)
Touched(p) ==
    /\ pages'[p].prop = pages[p].prop /\ pages'[p].made = pages[p].made
    /\ pages'[p].masked = pages[p].masked /\ pages'[p].title = pages[p].title
    /\ \/ pages'[p].version = pages[p].version /\ pages'[p].body = pages[p].body
       \/ pages'[p].version = pages[p].version + 1 /\ pages'[p].body = Human

LEMMA PeopleFacts ==
    ASSUME TypeOK, People
    PROVE  /\ pages' \in Seq(Page) /\ DOMAIN pages \subseteq DOMAIN pages'
           /\ Len(pages') >= Len(pages)
           /\ \A p \in DOMAIN pages : Touched(p)
           /\ \A p \in DOMAIN pages' \ DOMAIN pages :
                /\ pages'[p].prop = Nothing /\ p = Len(pages')
                /\ \A q \in DOMAIN pages : pages[q].title # pages'[p].title
           /\ left' \in [runs : Nat, pushes : Nat, acts : Nat] /\ left' # left
           /\ quiet' = FALSE /\ settled' = FALSE
           /\ UNCHANGED <<docs, folder, recorded, run, results>>
<1>1. /\ pages \in Seq(Page) /\ DOMAIN pages = 1 .. Len(pages) /\ Len(pages) \in Nat
      /\ left \in [runs : Nat, pushes : Nat, acts : Nat]
    BY DEF TypeOK
<1>2. Act /\ UNCHANGED <<docs, folder, recorded, run, results>>
    BY DEF People, WritePage, Edit, Move
<1>3. /\ left' \in [runs : Nat, pushes : Nat, acts : Nat] /\ left' # left
      /\ quiet' = FALSE /\ settled' = FALSE
    <2>1. left.acts \in Nat /\ left.acts > 0 /\ left' = [left EXCEPT !.acts = left.acts - 1]
        BY <1>1, <1>2 DEF Act
    <2>2. left.acts - 1 \in Nat /\ left.acts - 1 # left.acts
        BY <2>1
    <2> QED
        BY <1>1, <1>2, <2>1, <2>2 DEF Act, Disturb
<1>4. CASE WritePage
    <2>1. PICK title \in Titles, place \in {"tree", "elsewhere"} :
            /\ Free(title)
            /\ pages' = Append(pages, [title |-> title, at |-> place, version |-> 1,
                                       body |-> Human, prop |-> Nothing, made |-> "people",
                                       masked |-> FALSE])
        BY <1>4 DEF WritePage
    <2>2. PICK r : r = [title |-> title, at |-> place, version |-> 1, body |-> Human,
                        prop |-> Nothing, made |-> "people", masked |-> FALSE]
        OBVIOUS
    <2>3. r \in Page /\ r.prop = Nothing /\ r.title = title
        BY <2>2 DEF Page, Places
    <2>4. pages' = Append(pages, r)
        BY <2>1, <2>2
    <2>5. /\ pages' \in Seq(Page) /\ Len(pages') = Len(pages) + 1
          /\ DOMAIN pages' = 1 .. Len(pages) + 1 /\ pages'[Len(pages) + 1] = r
          /\ \A q \in DOMAIN pages : pages'[q] = pages[q]
        BY <1>1, <2>3, <2>4, AddPage
    <2>6. \A q \in DOMAIN pages : pages[q].title # r.title
        BY <2>1, <2>3 DEF Free
    <2> QED
        BY <1>1, <1>2, <1>3, <2>3, <2>5, <2>6 DEF Touched
<1>5. CASE \E p \in DOMAIN pages : Edit(p) \/ Move(p)
    <2>1. PICK p \in DOMAIN pages : Edit(p) \/ Move(p)
        BY <1>5
    <2>2. pages[p] \in Page /\ pages[p].version \in Nat
        BY PageFields
    <2>3. \E r \in Page :
            /\ pages' = [pages EXCEPT ![p] = r]
            /\ r.prop = pages[p].prop /\ r.made = pages[p].made /\ r.masked = pages[p].masked
            /\ r.title = pages[p].title
            /\ \/ r.version = pages[p].version /\ r.body = pages[p].body
               \/ r.version = pages[p].version + 1 /\ r.body = Human
        <3>1. CASE Edit(p)
            <4>1. PICK r : r = [pages[p] EXCEPT !.body = Human, !.version = @ + 1]
                OBVIOUS
            <4>2. /\ r \in Page /\ r.prop = pages[p].prop /\ r.made = pages[p].made
                  /\ r.masked = pages[p].masked /\ r.title = pages[p].title
                  /\ r.version = pages[p].version + 1 /\ r.body = Human
                <5>1. pages[p].version + 1 \in Nat
                    BY <2>2
                <5> QED
                    BY <2>2, <4>1, <5>1 DEF Page
            <4>3. pages' = [pages EXCEPT ![p] = r]
                BY <1>1, <3>1, <4>1 DEF Edit
            <4> QED
                BY <4>2, <4>3
        <3>2. CASE Move(p)
            <4>1. PICK place \in Places : pages' = [pages EXCEPT ![p].at = place]
                BY <3>2 DEF Move
            <4>2. PICK r : r = [pages[p] EXCEPT !.at = place]
                OBVIOUS
            <4>3. /\ r \in Page /\ r.prop = pages[p].prop /\ r.made = pages[p].made
                  /\ r.masked = pages[p].masked /\ r.title = pages[p].title
                  /\ r.version = pages[p].version /\ r.body = pages[p].body
                BY <2>2, <4>2 DEF Page
            <4>4. pages' = [pages EXCEPT ![p] = r]
                BY <1>1, <4>1, <4>2
            <4> QED
                BY <4>3, <4>4
        <3> QED
            BY <2>1, <3>1, <3>2
    <2>4. PICK r \in Page :
            /\ pages' = [pages EXCEPT ![p] = r]
            /\ r.prop = pages[p].prop /\ r.made = pages[p].made /\ r.masked = pages[p].masked
            /\ r.title = pages[p].title
            /\ \/ r.version = pages[p].version /\ r.body = pages[p].body
               \/ r.version = pages[p].version + 1 /\ r.body = Human
        BY <2>3
    <2>5. /\ pages' \in Seq(Page) /\ Len(pages') = Len(pages) /\ DOMAIN pages' = DOMAIN pages
          /\ pages'[p] = r /\ \A q \in DOMAIN pages : q # p => pages'[q] = pages[q]
        BY <1>1, <2>4, SetPage
    <2> QED
        BY <1>1, <1>2, <1>3, <2>4, <2>5 DEF Touched
<1> QED
    BY <1>4, <1>5 DEF People

LEMMA PeopleIInv ==
    ASSUME IInv, People
    PROVE  IInv'
<1>1. TypeOK /\ RunInv /\ run \in Run
    BY DEF IInv, TypeOK
<1>2. /\ pages' \in Seq(Page) /\ DOMAIN pages \subseteq DOMAIN pages'
      /\ Len(pages') >= Len(pages)
      /\ \A p \in DOMAIN pages : Touched(p)
      /\ \A p \in DOMAIN pages' \ DOMAIN pages : pages'[p].prop = Nothing
      /\ left' \in [runs : Nat, pushes : Nat, acts : Nat] /\ left' # left
      /\ quiet' = FALSE /\ settled' = FALSE
      /\ UNCHANGED <<docs, folder, recorded, run, results>>
    BY <1>1, PeopleFacts
<1>3. pages \in Seq(Page) /\ Len(pages) \in Nat /\ Len(pages') \in Nat /\ DOMAIN pages = 1 .. Len(pages)
    BY <1>1, <1>2 DEF TypeOK
<1>4. \A i : i \in 0 .. Len(pages) => i \in 0 .. Len(pages')
    BY <1>2, <1>3
<1>5. run' \in Run'
    BY <1>1, <1>2, <1>4 DEF Run
<1>6. TypeOK'
    <2>1. recorded' \in [Keys -> 0 .. Len(pages')]
        BY <1>1, <1>2, <1>4 DEF TypeOK
    <2>2. results' \in [Keys -> Result']
        BY <1>1, <1>2, <1>4 DEF TypeOK, Result
    <2> QED
        BY <1>1, <1>2, <1>5, <2>1, <2>2 DEF TypeOK, Result
<1>7. ASSUME NEW p \in DOMAIN pages'
      PROVE  Own(p)'
    <2>1. CASE p \in DOMAIN pages
        <3>1. Own(p) /\ Touched(p) /\ pages[p].version \in Nat
              /\ (pages[p].prop # Nothing => pages[p].prop.version \in Nat)
            BY <1>1, <1>2, <2>1, PageFields DEF IInv, PropertyType
        <3> QED
            BY <3>1 DEF Own, Touched
    <2> QED
        BY <1>2, <2>1 DEF Own
<1>8. RunInv'
    BY <1>1, <1>2 DEF RunInv
<1>9. run'.pc \in AtPage => Known(pages[run.page])'
    <2>1. SUFFICES ASSUME run.pc \in AtPage PROVE Known(pages[run.page])'
        BY <1>2
    <2>2. run.page \in DOMAIN pages /\ run.version \in Nat /\ Known(pages[run.page])
        BY <1>1, <1>3, <2>1 DEF Run, RunInv, IInv
    <2>3. Touched(run.page) /\ pages[run.page].version \in Nat
        BY <1>1, <1>2, <2>2, PageFields
    <2> QED
        BY <1>2, <2>2, <2>3 DEF Known, Touched
<1> QED
    BY <1>6, <1>7, <1>8, <1>9 DEF IInv

LEMMA PushIInv ==
    ASSUME IInv, Push
    PROVE  IInv'
<1>1. /\ docs' \in Trees /\ UNCHANGED <<pages, folder, recorded, run, results>>
      /\ left.pushes > 0 /\ left' = [left EXCEPT !.pushes = left.pushes - 1]
      /\ quiet' = FALSE /\ settled' = FALSE
    BY DEF Push, Disturb
<1>2. TypeOK /\ left \in [runs : Nat, pushes : Nat, acts : Nat]
    BY DEF IInv, TypeOK
<1>3. left' \in [runs : Nat, pushes : Nat, acts : Nat]
    <2>1. left.pushes - 1 \in Nat
        BY <1>1, <1>2
    <2> QED
        BY <1>1, <1>2, <2>1
<1>4. TypeOK'
    BY <1>1, <1>2, <1>3 DEF TypeOK, Run
<1> QED
    BY <1>1, <1>4 DEF IInv, RunInv, Known, Own

-----------------------------------------------------------------------------
(* What a run may become when it goes on, or is done with an item.         *)
LEMMA RunGrows ==
    ASSUME Len(pages) \in Nat, Len(pages') \in Nat, Len(pages') >= Len(pages), NEW r \in Run
    PROVE  r \in Run'
<1>1. r.page \in 0 .. Len(pages')
    BY DEF Run
<1> QED
    BY <1>1 DEF Run

LEMMA NoRunType ==
    ASSUME TypeOK
    PROVE  /\ NoRun \in Run /\ NoRun.pc = "idle" /\ NoRun.page = 0
           /\ NoResults \in [Keys -> Result]
<1>1. [k \in Keys |-> Nothing] \in Trees
    BY DEF Trees
<1>2. 0 \in 0 .. Len(pages)
    BY DEF TypeOK
<1> QED
    BY <1>1, <1>2 DEF NoRun, Run, Stages, Places, NoResults, Result

LEMMA RestFacts ==
    ASSUME TypeOK
    PROVE  /\ Resting \in Run /\ Resting.pc = "idle" /\ Resting.page = 0
           /\ Resting.mode = run.mode /\ Resting.plan = [k \in Keys |-> Nothing]
<1>1. /\ NoRun \in Run /\ NoRun.pc = "idle" /\ NoRun.page = 0 /\ run \in Run
      /\ NoRun.plan = [k \in Keys |-> Nothing]
    BY NoRunType DEF TypeOK, NoRun
<1>2. run.mode \in Modes \cup {"cli"}
    BY <1>1 DEF Run
<1>3. Resting = [NoRun EXCEPT !.mode = run.mode]
    BY DEF Resting
<1> HIDE DEF NoRun
<1> QED
    BY <1>1, <1>2, <1>3 DEF Run

(* What an item is to show is a rendered document. *)
LEMMA RenderedFacts ==
    ASSUME NEW d \in Docs, NEW mode
    PROVE  /\ Rendered(d, mode).title = d.title /\ Rendered(d, mode).title \in Titles
           /\ Rendered(d, mode).body \in Bodies /\ Rendered(d, mode).body # Human
           /\ Rendered(d, mode).body.text = d.content
           /\ Rendered(d, mode).body.edits = Fate(mode)
<1>1. Rendered(d, mode).body = [text |-> d.content, edits |-> Fate(mode)]
    BY DEF Rendered
<1>2. d.content \in Contents /\ d.title \in Titles
    BY DEF Contents, Titles
<1>3. Fate(mode) \in {"kept", "overwritten"}
    BY DEF Fate
<1>4. Rendered(d, mode).body \in Bodies
    BY <1>1, <1>2, <1>3 DEF Bodies
<1> QED
    BY <1>1, <1>2, <1>4, ExportAssumption DEF Rendered

LEMMA OnToFacts ==
    ASSUME TypeOK, NEW S \in SUBSET Items(run.plan)
    PROVE  /\ OnTo(S) \in Run /\ OnTo(S).pc \in {"list", "find"}
           /\ OnTo(S).plan = run.plan /\ OnTo(S).mode = run.mode /\ OnTo(S).page = 0
           /\ OnTo(S).pc = "find" => OnTo(S).key \in S /\ OnTo(S).todo = S \ {OnTo(S).key}
           /\ OnTo(S).pc = "list" => S = {}
           /\ OnTo(S).broken = FALSE
<1> DEFINE r == [NoRun EXCEPT !.mode = run.mode, !.plan = run.plan]
<1>1. /\ r \in Run /\ r.mode = run.mode /\ r.plan = run.plan /\ r.page = 0 /\ r.pc = "idle"
      /\ r.broken = FALSE
    BY NoRunType DEF TypeOK, Run, NoRun
<1>2. S \subseteq Keys /\ S \in SUBSET Nat
    BY DEF Items
<1>3. CASE S = {}
    <2>1. OnTo(S) = [r EXCEPT !.pc = "list"]
        BY <1>3 DEF OnTo
    <2> HIDE DEF r
    <2>2. OnTo(S) \in Run
        BY <1>1, <2>1 DEF Run, Stages
    <2>3. OnTo(S).broken = r.broken
        BY <1>1, <2>1 DEF Run
    <2> QED
        BY <1>1, <1>3, <2>1, <2>2, <2>3 DEF Run
<1>4. CASE S # {}
    <2> DEFINE k == CHOOSE k \in S : \A j \in S : k <= j
    <2>1. k \in S
        BY <1>2, <1>4, Least
    <2>2. OnTo(S) = [r EXCEPT !.pc = "find", !.key = k, !.todo = S \ {k}]
        BY <1>4 DEF OnTo
    <2> HIDE DEF r, k
    <2>3. k \in Keys /\ S \ {k} \in SUBSET Nat
        BY <1>2, <2>1
    <2>4. OnTo(S) \in Run
        BY <1>1, <2>2, <2>3 DEF Run, Stages
    <2> QED
        BY <1>1, <2>1, <2>2, <2>4 DEF Run
<1> QED
    BY <1>3, <1>4

(* A run that begins an item, or has done them all, knows of no page yet. *)
LEMMA Begins ==
    ASSUME IInv, NEW S \in SUBSET Items(run.plan), run' = OnTo(S),
           pages' \in Seq(Page), Len(pages') = Len(pages)
    PROVE  /\ run' \in Run' /\ RunInv' /\ run'.pc \notin AtPage
<1>1. TypeOK /\ Len(pages) \in Nat
    BY DEF IInv, TypeOK
<1>2. /\ OnTo(S) \in Run /\ OnTo(S).pc \in {"list", "find"}
      /\ OnTo(S).plan = run.plan /\ OnTo(S).mode = run.mode /\ OnTo(S).page = 0
      /\ OnTo(S).pc = "find" => OnTo(S).key \in S /\ OnTo(S).todo = S \ {OnTo(S).key}
    BY <1>1, OnToFacts
<1>3. run' \in Run'
    BY <1>1, <1>2, RunGrows
<1>4. /\ run'.pc \in {"list", "find"} /\ run'.plan = run.plan
      /\ run'.pc = "find" => run'.key \in S /\ run'.todo \subseteq S
    BY <1>2
<1> QED
    BY <1>3, <1>4 DEF RunInv, AtPage, AtItem

LEMMA DoneFacts ==
    ASSUME IInv, run.pc \in AtItem, NEW page \in 0 .. Len(pages),
           NEW what \in {"none"} \cup Successes \cup Skips \cup {"failed"}, Done(what, page),
           pages' \in Seq(Page), Len(pages') = Len(pages)
    PROVE  /\ run' \in Run' /\ RunInv' /\ run'.pc \notin AtPage
           /\ results' \in [Keys -> Result']
<1>1. run.todo \in SUBSET Items(run.plan) /\ results \in [Keys -> Result]
    BY DEF IInv, RunInv, TypeOK, Result
<1>2. run' = OnTo(run.todo) /\ results' = [results EXCEPT ![run.key] = [what |-> what, page |-> page]]
    BY DEF Done
<1>3. /\ run' \in Run' /\ RunInv' /\ run'.pc \notin AtPage
    BY <1>1, <1>2, Begins
<1>4. [what |-> what, page |-> page] \in Result /\ Result' = Result
    BY DEF Result
<1>5. results' \in [Keys -> Result]
    BY <1>1, <1>2, <1>4
<1> QED
    BY <1>3, <1>4, <1>5

(* A step that leaves pages alone. *)
LEMMA Reads ==
    ASSUME IInv, UNCHANGED <<docs, pages>>, folder' \in {"none", "bare", "ours"},
           recorded' \in [Keys -> 0 .. Len(pages)], run' \in Run, RunInv',
           results' \in [Keys -> Result], left' \in [runs : Nat, pushes : Nat, acts : Nat],
           quiet' \in BOOLEAN, settled' \in BOOLEAN,
           run'.pc \in AtPage => Known(pages[run.page])'
    PROVE  IInv'
<1>1. TypeOK'
    BY DEF IInv, TypeOK, Run, Result
<1>2. \A p \in DOMAIN pages' : Own(p)'
    BY DEF IInv, Own
<1> QED
    BY <1>1, <1>2 DEF IInv

(* What decide leads to: without --force, an update is of a page that has  *)
(* docz's property, and by the CLI of one that nobody edited.              *)
LEMMA DecisionFacts ==
    ASSUME run \in Run, NEW prop
    PROVE  /\ Decision(prop) \in {"unchanged", "notOurs", "edited", "update"}
           /\ Decision(prop) = "update" /\ run.mode # "force" =>
                /\ prop # Nothing
                /\ Edited(prop) => run.mode = "server"
<1>1. run.mode \in {"cli", "force", "server"}
    BY DEF Run
<1> HIDE DEF Same
<1>2. CASE run.mode = "force"
    BY <1>2 DEF Decision
<1>3. CASE run.mode # "force" /\ prop = Nothing
    BY <1>3 DEF Decision, Edited
<1>4. CASE run.mode = "server" /\ Edited(prop)
    BY <1>4 DEF Decision, Edited
<1>5. CASE run.mode = "cli" /\ Edited(prop)
    BY <1>5 DEF Decision, Edited
<1>6. CASE run.mode # "force" /\ prop # Nothing /\ ~Edited(prop)
    BY <1>6 DEF Decision
<1> QED
    BY <1>1, <1>2, <1>3, <1>4, <1>5, <1>6

LEMMA ReadingSteps ==
    ASSUME IInv,
           \/ Start \/ UseFolder \/ CreateFolder \/ StampFolder \/ RefuseFolder \/ FindPage
           \/ Decide \/ FailItem \/ ListChildren \/ CheckOrphan \/ EndOrphans \/ FailOrphan
           \/ Interrupt \/ End \/ Crash
    PROVE  IInv'
<1>1. /\ TypeOK /\ RunInv /\ run \in Run /\ results \in [Keys -> Result]
      /\ left \in [runs : Nat, pushes : Nat, acts : Nat] /\ quiet \in BOOLEAN /\ settled \in BOOLEAN
      /\ recorded \in [Keys -> 0 .. Len(pages)] /\ folder \in {"none", "bare", "ours"}
      /\ docs \in Trees /\ pages \in Seq(Page) /\ Len(pages) \in Nat
      /\ DOMAIN pages = 1 .. Len(pages)
    BY DEF IInv, TypeOK, Result
<1>2. /\ NoRun \in Run /\ NoRun.pc = "idle" /\ NoRun.page = 0 /\ NoResults \in [Keys -> Result]
      /\ Resting \in Run /\ Resting.pc = "idle" /\ Resting.page = 0
    BY <1>1, NoRunType, RestFacts
<1>3. Items(run.plan) \in SUBSET Items(run.plan)
    OBVIOUS
<1>4. CASE Start
    <2>1. PICK mode \in Modes :
            /\ run' = [NoRun EXCEPT !.pc = "folder", !.mode = mode, !.plan = docs]
            /\ settled' = (settled /\ Fate(mode) = Fate(run.mode))
        BY <1>4 DEF Start
    <2>2. run' \in Run /\ run'.pc = "folder"
        BY <1>1, <1>2, <2>1 DEF Run, Stages
    <2>3. left' \in [runs : Nat, pushes : Nat, acts : Nat]
        <3>1. left.runs > 0 /\ left' = [left EXCEPT !.runs = left.runs - 1]
            BY <1>4, Zenon DEF Start
        <3>2. left.runs - 1 \in Nat
            BY <1>1, <3>1
        <3> QED
            BY <1>1, <3>1, <3>2
    <2>4. RunInv' /\ run'.pc \notin AtPage
        BY <2>2 DEF RunInv, AtPage, AtItem
    <2> QED
        BY <1>1, <1>4, <2>2, <2>3, <2>4, Reads DEF Start, space
<1>5. CASE UseFolder \/ StampFolder
    <2>1. /\ run' = OnTo(Items(run.plan))
          /\ UNCHANGED <<docs, pages, recorded, left, quiet, settled, results>>
          /\ folder' \in {"none", "bare", "ours"}
        BY <1>1, <1>5 DEF UseFolder, StampFolder, space, flags
    <2>2. run' \in Run' /\ RunInv' /\ run'.pc \notin AtPage
        BY <1>1, <1>3, <2>1, Begins
    <2>3. Run' = Run
        BY <2>1 DEF Run
    <2> QED
        BY <1>1, <2>1, <2>2, <2>3, Reads
<1>6. CASE CreateFolder \/ EndOrphans
    <2>1. PICK pc \in {"stampFolder", "end"} : run' = [run EXCEPT !.pc = pc]
        BY <1>6 DEF CreateFolder, EndOrphans, GoTo
    <2>2. run' \in Run /\ run'.pc \in {"stampFolder", "end"}
        BY <1>1, <2>1 DEF Run, Stages
    <2>3. RunInv' /\ run'.pc \notin AtPage
        BY <2>2 DEF RunInv, AtPage, AtItem
    <2> QED
        BY <1>1, <1>6, <2>2, <2>3, Reads DEF CreateFolder, EndOrphans, space, flags
<1>7. CASE RefuseFolder \/ Crash
    <2>1. run' = Resting /\ results' \in [Keys -> Result]
        BY <1>1, <1>2, <1>7 DEF RefuseFolder, Crash
    <2>2. RunInv' /\ run'.pc \notin AtPage
        BY <1>2, <2>1 DEF RunInv, AtPage, AtItem
    <2> QED
        BY <1>1, <1>2, <1>7, <2>1, <2>2, Reads DEF RefuseFolder, Crash, space, flags
<1>8. CASE FindPage
    <2>0. UNCHANGED <<docs, pages, folder, recorded, left, quiet, settled, results>> /\ run.pc = "find"
        BY <1>8 DEF FindPage, space, flags, At
    <2>1. CASE GoTo("create")
        <3>1. run' \in Run /\ run'.pc = "create"
            BY <1>1, <2>1 DEF GoTo, Run, Stages
        <3>2. RunInv'
            BY <1>1, <2>0, <2>1, <3>1 DEF RunInv, GoTo, AtPage, AtItem, Run
        <3> QED
            BY <1>1, <2>0, <3>1, <3>2, Reads DEF AtPage
    <2>2. CASE \E p \in Found :
                 run' = [run EXCEPT !.pc = "decide", !.page = p, !.version = pages[p].version,
                                    !.place = pages[p].at, !.title = pages[p].title]
        <3>1. PICK p \in Found :
                 run' = [run EXCEPT !.pc = "decide", !.page = p, !.version = pages[p].version,
                                    !.place = pages[p].at, !.title = pages[p].title]
            BY <2>2
        <3>2. p \in DOMAIN pages
            <4>1. run.key \in Keys
                BY <1>1, <2>0 DEF RunInv, AtItem, Items
            <4>2. recorded[run.key] \in 0 .. Len(pages)
                BY <1>1, <4>1
            <4> QED
                BY <1>1, <4>2 DEF Found
        <3>3. pages[p].version \in Nat /\ pages[p].at \in Places /\ pages[p].title \in Titles
            BY <1>1, <3>2, PageFields DEF Page
        <3>4. p \in 0 .. Len(pages) /\ p # 0
            BY <1>1, <3>2
        <3>5. run' \in Run /\ run'.pc = "decide" /\ run'.page = p
            BY <1>1, <3>1, <3>3, <3>4 DEF Run, Stages
        <3>6. run'.key = run.key /\ run'.plan = run.plan /\ run'.todo = run.todo
            BY <1>1, <3>1 DEF Run
        <3>7. RunInv'
            BY <1>1, <2>0, <3>4, <3>5, <3>6 DEF RunInv, AtPage, AtItem
        <3>8. Known(pages[run.page])'
            BY <3>5 DEF Known
        <3> QED
            BY <1>1, <2>0, <3>5, <3>7, <3>8, Reads
    <2> QED
        BY <1>8, <2>1, <2>2 DEF FindPage
<1>9. CASE Decide
    <2>0. UNCHANGED <<docs, pages, folder, recorded, left, quiet, settled>> /\ run.pc = "decide"
        BY <1>9 DEF Decide, space, flags, At
    <2>1. run.page \in DOMAIN pages /\ run.page \in 0 .. Len(pages)
        BY <1>1, <2>0 DEF RunInv, AtPage, Run
    <2> DEFINE prop == pages[run.page].prop
    <2>2. CASE Decision(prop) = "update"
        <3>1. results' = results
            BY <1>9, <2>2 DEF Decide
        <3>2. PICK e \in BOOLEAN : e = Edited(prop)
            BY Zenon DEF Edited
        <3>3. run' = [run EXCEPT !.pc = "update", !.edited = e, !.place = "tree", !.title = Nothing]
            BY <1>9, <2>2, <3>2, Zenon DEF Decide
        <3>4. /\ run' \in Run /\ run'.pc = "update" /\ run'.edited = e /\ run'.mode = run.mode
              /\ run'.page = run.page /\ run'.key = run.key /\ run'.plan = run.plan
              /\ run'.todo = run.todo /\ run'.version = run.version
            BY <1>1, <3>3 DEF Run, Stages, Places
        <3>5. run.mode # "force" => prop # Nothing /\ (e => run.mode = "server")
            BY <1>1, <2>2, <3>2, DecisionFacts, Zenon
        <3>6. ~e => prop = Nothing \/ prop.version = run.version
            BY <3>2 DEF Edited
        <3>7. RunInv'
            BY <1>1, <2>0, <3>4, <3>5 DEF RunInv, AtPage, AtItem
        <3>8. Known(pages[run.page])'
            BY <2>0, <3>4, <3>5, <3>6 DEF Known
        <3> QED
            BY <1>1, <2>0, <3>1, <3>4, <3>7, <3>8, Reads
    <2>3. CASE Decision(prop) # "update"
        <3>1. Done(Decision(prop), run.page)
            BY <1>9, <2>3, Zenon DEF Decide
        <3>2. Decision(prop) \in {"none"} \cup Successes \cup Skips \cup {"failed"}
            BY <1>1, <2>3, DecisionFacts DEF Successes, Skips
        <3>3. run.pc \in AtItem
            BY <2>0 DEF AtItem
        <3> HIDE DEF prop
        <3>4. /\ run' \in Run' /\ RunInv' /\ run'.pc \notin AtPage
              /\ results' \in [Keys -> Result']
            BY <1>1, <2>0, <2>1, <3>1, <3>2, <3>3, DoneFacts
        <3>5. Run' = Run /\ Result' = Result
            BY <2>0 DEF Run, Result
        <3> QED
            BY <1>1, <2>0, <3>4, <3>5, Reads
    <2> QED
        BY <2>2, <2>3
<1>10. CASE FailItem
    <2>0. /\ UNCHANGED <<docs, pages, folder, recorded, left, quiet, settled>>
          /\ run.pc \in AtItem /\ Done("failed", run.page)
        BY <1>10 DEF FailItem, space, flags, AtItem
    <2>1. run.page \in 0 .. Len(pages)
        BY <1>1 DEF Run
    <2>2. /\ run' \in Run' /\ RunInv' /\ run'.pc \notin AtPage
          /\ results' \in [Keys -> Result']
        BY <1>1, <2>0, <2>1, DoneFacts
    <2>3. Run' = Run /\ Result' = Result
        BY <2>0 DEF Run, Result
    <2> QED
        BY <1>1, <2>0, <2>2, <2>3, Reads
<1>11. CASE ListChildren
    <2>0. UNCHANGED <<docs, pages, folder, recorded, left, quiet, settled, results>>
        BY <1>11 DEF ListChildren, space, flags
    <2>1. PICK S : /\ S \subseteq DOMAIN pages
                   /\ run' = [run EXCEPT !.pc = "orphan", !.todo = S]
        BY <1>11 DEF ListChildren, InTree
    <2>2. S \in SUBSET Nat
        BY <1>1, <2>1
    <2>3. run' \in Run /\ run'.pc = "orphan" /\ run'.todo = S
        BY <1>1, <2>1, <2>2 DEF Run, Stages
    <2>4. RunInv' /\ run'.pc \notin AtPage
        BY <2>0, <2>1, <2>3 DEF RunInv, AtPage, AtItem
    <2> QED
        BY <1>1, <2>0, <2>3, <2>4, Reads
<1>12. CASE CheckOrphan
    <2>0. /\ UNCHANGED <<docs, pages, folder, recorded, left, quiet, settled, results>>
          /\ run.pc = "orphan" /\ run.todo \subseteq DOMAIN pages
        BY <1>1, <1>12 DEF CheckOrphan, space, flags, At, RunInv
    <2>1. PICK p \in run.todo :
            run' = IF Orphan(p)
                   THEN [run EXCEPT !.pc = "archive", !.page = p, !.todo = run.todo \ {p},
                                    !.key = pages[p].prop.key]
                   ELSE [run EXCEPT !.todo = run.todo \ {p}]
        BY <1>12 DEF CheckOrphan
    <2>2. p \in DOMAIN pages /\ p # 0 /\ run.todo \ {p} \subseteq DOMAIN pages
        BY <1>1, <2>0
    <2>3. run.todo \ {p} \in SUBSET Nat /\ p \in 0 .. Len(pages)
        BY <1>1, <2>2
    <2>4. CASE Orphan(p)
        <3>1. pages[p].prop # Nothing /\ pages[p].prop.key \in Keys
            BY <1>1, <2>2, <2>4, PageFields DEF Orphan, PropertyType
        <3>2. run' = [run EXCEPT !.pc = "archive", !.page = p, !.todo = run.todo \ {p},
                                 !.key = pages[p].prop.key]
            BY <2>1, <2>4, Zenon
        <3>3. /\ run' \in Run /\ run'.pc = "archive" /\ run'.page = p
              /\ run'.todo = run.todo \ {p} /\ run'.key \in Keys
            BY <1>1, <2>3, <3>1, <3>2 DEF Run, Stages
        <3>4. RunInv'
            BY <2>0, <2>2, <3>3 DEF RunInv, AtPage, AtItem
        <3>5. Known(pages[run.page])'
            BY <2>0, <3>1, <3>3 DEF Known
        <3> QED
            BY <1>1, <2>0, <3>3, <3>4, <3>5, Reads
    <2>5. CASE ~Orphan(p)
        <3>1. run' = [run EXCEPT !.todo = run.todo \ {p}]
            BY <2>1, <2>5, Zenon
        <3>2. run' \in Run /\ run'.pc = "orphan" /\ run'.todo = run.todo \ {p}
            BY <1>1, <2>0, <2>3, <3>1 DEF Run
        <3>3. RunInv' /\ run'.pc \notin AtPage
            BY <2>0, <2>2, <3>2 DEF RunInv, AtPage, AtItem
        <3> QED
            BY <1>1, <2>0, <3>2, <3>3, Reads
    <2> QED
        BY <2>4, <2>5
<1>13. CASE FailOrphan
    <2>0. /\ UNCHANGED <<docs, pages, folder, recorded, left, quiet, settled>>
          /\ run.pc \in {"archive", "restamp"} /\ Archived("failed") /\ OnToOrphans(TRUE)
        BY <1>13 DEF FailOrphan, space, flags
    <2>1. run.page \in 0 .. Len(pages) /\ run.key \in Keys /\ run.todo \subseteq DOMAIN pages
        BY <1>1, <2>0 DEF Run, RunInv
    <2>2. results' \in [Keys -> Result]
        <3>1. [what |-> "failed", page |-> run.page] \in Result
            BY <2>1 DEF Result
        <3> QED
            BY <1>1, <2>0, <2>1, <3>1 DEF Archived
    <2>3. run' = [run EXCEPT !.pc = "orphan", !.page = 0, !.key = 0, !.version = 0, !.broken = TRUE]
        BY <1>1, <2>0 DEF OnToOrphans
    <2>4. 0 \in 0 .. Len(pages)
        BY <1>1
    <2>5. run' \in Run /\ run'.pc = "orphan" /\ run'.todo = run.todo
        BY <1>1, <2>3, <2>4 DEF Run, Stages
    <2>6. RunInv' /\ run'.pc \notin AtPage
        BY <2>0, <2>1, <2>5 DEF RunInv, AtPage, AtItem
    <2> QED
        BY <1>1, <2>0, <2>2, <2>5, <2>6, Reads
<1>14. CASE Interrupt
    <2>0. UNCHANGED <<docs, pages, folder, recorded, left, quiet, settled, results>>
        BY <1>14 DEF Interrupt, space, flags
    <2>1. run' = [run EXCEPT !.pc = "end", !.key = 0, !.todo = {}, !.broken = TRUE]
        BY <1>14 DEF Interrupt
    <2>2. run' \in Run /\ run'.pc = "end"
        BY <1>1, <2>1 DEF Run, Stages
    <2>3. RunInv' /\ run'.pc \notin AtPage
        BY <2>2 DEF RunInv, AtPage, AtItem
    <2> QED
        BY <1>1, <2>0, <2>2, <2>3, Reads
<1>15. CASE End
    <2>0. UNCHANGED <<docs, pages, folder, left, quiet>> /\ run' = Resting /\ results' = NoResults
        BY <1>15 DEF End
    <2>1. recorded' \in [Keys -> 0 .. Len(pages)]
        <3>1. \A k \in Keys : results[k].page \in 0 .. Len(pages) /\ recorded[k] \in 0 .. Len(pages)
            BY <1>1 DEF Result
        <3> QED
            BY <1>15, <3>1 DEF End
    <2>2. settled' \in BOOLEAN
        BY <1>1, <1>15, Zenon DEF End
    <2>3. RunInv' /\ run'.pc \notin AtPage
        BY <1>2, <2>0 DEF RunInv, AtPage, AtItem
    <2> QED
        BY <1>1, <1>2, <2>0, <2>1, <2>2, <2>3, Reads
<1> QED
    BY <1>4, <1>5, <1>6, <1>7, <1>8, <1>9, <1>10, <1>11, <1>12, <1>13, <1>14, <1>15

(* A step that replaces the page the run is at. *)
LEMMA Writes ==
    ASSUME IInv, NEW p \in DOMAIN pages, NEW r \in Page, pages' = [pages EXCEPT ![p] = r],
           UNCHANGED <<docs, folder, recorded, left, quiet, settled>>,
           run' \in Run, RunInv', results' \in [Keys -> Result],
           run'.pc \in AtPage => run'.page = p /\ Known(r)',
           r.prop # Nothing =>
             /\ r.made = "docz" /\ r.prop.version <= r.version
             /\ r.prop.version = r.version /\ r.body = Human => r.masked
    PROVE  IInv'
<1>1. TypeOK /\ pages \in Seq(Page)
    BY DEF IInv, TypeOK
<1>2. /\ pages' \in Seq(Page) /\ Len(pages') = Len(pages) /\ DOMAIN pages' = DOMAIN pages
      /\ pages'[p] = r /\ \A q \in DOMAIN pages : q # p => pages'[q] = pages[q]
    BY <1>1, SetPage
<1>3. TypeOK'
    BY <1>1, <1>2 DEF TypeOK, Run, Result
<1>4. ASSUME NEW q \in DOMAIN pages' PROVE Own(q)'
    <2>1. CASE q = p
        BY <1>2, <2>1 DEF Own
    <2>2. CASE q # p
        <3>1. pages'[q] = pages[q] /\ Own(q)
            BY <1>2, <2>2 DEF IInv
        <3> QED
            BY <3>1 DEF Own
    <2> QED
        BY <2>1, <2>2
<1>5. run'.pc \in AtPage => Known(pages[run.page])'
    BY <1>2 DEF Known
<1> QED
    BY <1>3, <1>4, <1>5 DEF IInv

LEMMA WritingSteps ==
    ASSUME IInv, CreatePage \/ UpdatePage \/ Stamp \/ ArchivePage \/ Restamp
    PROVE  IInv'
<1>1. /\ TypeOK /\ RunInv /\ run \in Run /\ results \in [Keys -> Result]
      /\ left \in [runs : Nat, pushes : Nat, acts : Nat] /\ quiet \in BOOLEAN /\ settled \in BOOLEAN
      /\ recorded \in [Keys -> 0 .. Len(pages)] /\ folder \in {"none", "bare", "ours"}
      /\ docs \in Trees /\ pages \in Seq(Page) /\ Len(pages) \in Nat
      /\ DOMAIN pages = 1 .. Len(pages) /\ run.page \in 0 .. Len(pages) /\ run.version \in Nat
    BY DEF IInv, TypeOK, Result, Run
<1>2. UNCHANGED <<docs, folder, recorded, left, quiet, settled>>
    BY DEF CreatePage, UpdatePage, Stamp, ArchivePage, Restamp, flags
<1>3. run.pc \in AtPage =>
        /\ run.page \in DOMAIN pages /\ Known(pages[run.page]) /\ Own(run.page)
        /\ pages[run.page] \in Page /\ pages[run.page].version \in Nat
        /\ pages[run.page].prop # Nothing => pages[run.page].prop \in PropertyType
    <2>1. SUFFICES ASSUME run.pc \in AtPage
                   PROVE  /\ run.page \in DOMAIN pages /\ Known(pages[run.page]) /\ Own(run.page)
                          /\ pages[run.page] \in Page /\ pages[run.page].version \in Nat
                          /\ pages[run.page].prop # Nothing => pages[run.page].prop \in PropertyType
        OBVIOUS
    <2>2. run.page \in DOMAIN pages
        BY <1>1, <2>1 DEF RunInv
    <2> QED
        BY <1>1, <2>1, <2>2, PageFields DEF IInv
<1>4. run.pc \in AtItem => /\ Want.title \in Titles /\ Want.body \in Bodies
                           /\ Want.body # Human /\ run.key \in Keys
    <2>1. SUFFICES ASSUME run.pc \in AtItem
                   PROVE  /\ Want.title \in Titles /\ Want.body \in Bodies
                          /\ Want.body # Human /\ run.key \in Keys
        OBVIOUS
    <2>2. run.key \in Keys /\ run.plan[run.key] # Nothing /\ run.plan \in Trees
        BY <1>1, <2>1 DEF RunInv, Items, Run
    <2>3. run.plan[run.key] \in Docs
        BY <2>2 DEF Trees
    <2> QED
        BY <2>2, <2>3, RenderedFacts DEF Want
<1>5. CASE CreatePage
    <2>0. run.pc = "create" /\ run.pc \in AtItem
        BY <1>5 DEF CreatePage, At, AtItem
    <2>1. CASE ~Free(Want.title) /\ Done("failed", 0) /\ UNCHANGED pages
        <3>1. 0 \in 0 .. Len(pages)
            BY <1>1
        <3>2. /\ run' \in Run' /\ RunInv' /\ run'.pc \notin AtPage
              /\ results' \in [Keys -> Result']
            BY <1>1, <2>0, <2>1, <3>1, DoneFacts
        <3>3. Run' = Run /\ Result' = Result
            BY <2>1 DEF Run, Result
        <3> QED
            BY <1>1, <1>2, <2>1, <3>2, <3>3, Reads
    <2>2. CASE /\ pages' = Append(pages, [title |-> Want.title, at |-> "tree", version |-> 1,
                                          body |-> Want.body, prop |-> Nothing,
                                          made |-> "docz", masked |-> FALSE])
               /\ run' = [run EXCEPT !.pc = "stamp", !.page = Len(pages'), !.version = 1,
                                      !.what = "created"]
               /\ UNCHANGED results
        <3>1. PICK r : r = [title |-> Want.title, at |-> "tree", version |-> 1,
                            body |-> Want.body, prop |-> Nothing,
                            made |-> "docz", masked |-> FALSE]
            OBVIOUS
        <3>2. /\ r \in Page /\ r.prop = Nothing /\ r.made = "docz" /\ r.version = 1
              /\ r.body # Human
            BY <1>4, <2>0, <3>1 DEF Page, Places
        <3>3. /\ pages' \in Seq(Page) /\ Len(pages') = Len(pages) + 1
              /\ DOMAIN pages' = 1 .. Len(pages) + 1 /\ pages'[Len(pages) + 1] = r
              /\ \A q \in DOMAIN pages : pages'[q] = pages[q]
            BY <1>1, <2>2, <3>1, <3>2, AddPage
        <3>4. run \in Run'
            BY <1>1, <3>3, RunGrows
        <3>5. Len(pages) + 1 \in 0 .. Len(pages') /\ Len(pages) + 1 # 0
            BY <1>1, <3>3
        <3>6. run' = [run EXCEPT !.pc = "stamp", !.page = Len(pages) + 1, !.version = 1,
                                 !.what = "created"]
            BY <2>2, <3>3
        <3>7. /\ run' \in Run' /\ run'.pc = "stamp" /\ run'.page = Len(pages) + 1
              /\ run'.version = 1 /\ run'.what = "created" /\ run'.key = run.key
              /\ run'.plan = run.plan /\ run'.todo = run.todo
            BY <3>4, <3>5, <3>6 DEF Run, Stages
        <3>8. RunInv'
            BY <1>1, <2>0, <3>5, <3>7 DEF RunInv, AtPage, AtItem
        <3>9. Known(pages[run.page])'
            BY <3>2, <3>3, <3>7 DEF Known
        <3>10. \A j : j \in 0 .. Len(pages) => j \in 0 .. Len(pages')
            BY <1>1, <3>3
        <3>11. recorded' \in [Keys -> 0 .. Len(pages')]
            BY <1>1, <1>2, <3>10
        <3>12. results' \in [Keys -> Result']
            BY <1>1, <2>2, <3>10 DEF Result
        <3>13. TypeOK'
            BY <1>1, <1>2, <3>3, <3>7, <3>11, <3>12 DEF TypeOK, Result
        <3>14. ASSUME NEW q \in DOMAIN pages' PROVE Own(q)'
            <4>1. CASE q \in DOMAIN pages
                <5>1. pages'[q] = pages[q] /\ Own(q)
                    BY <3>3, <4>1 DEF IInv
                <5> QED
                    BY <5>1 DEF Own
            <4>2. CASE q = Len(pages) + 1
                BY <3>2, <3>3, <4>2 DEF Own
            <4> QED
                BY <1>1, <3>3, <4>1, <4>2
        <3> QED
            BY <3>8, <3>9, <3>13, <3>14 DEF IInv
    <2> QED
        BY <1>5, <2>1, <2>2 DEF CreatePage
<1>6. CASE UpdatePage
    <2>0. run.pc = "update" /\ run.pc \in AtItem /\ run.pc \in AtPage
        BY <1>6 DEF UpdatePage, At, AtItem, AtPage
    <2>1. CASE Done("failed", run.page) /\ UNCHANGED pages
        <3>1. /\ run' \in Run' /\ RunInv' /\ run'.pc \notin AtPage
              /\ results' \in [Keys -> Result']
            BY <1>1, <2>0, <2>1, DoneFacts
        <3>2. Run' = Run /\ Result' = Result
            BY <2>1 DEF Run, Result
        <3> QED
            BY <1>1, <1>2, <2>1, <3>1, <3>2, Reads
    <2>2. CASE /\ pages[run.page].version = run.version
               /\ pages' = [pages EXCEPT ![run.page] = Written(pages[run.page])]
               /\ run' = [run EXCEPT !.pc = "stamp", !.version = run.version + 1,
                                      !.what = "updated"]
               /\ UNCHANGED results
        <3>1. PICK r : r = Written(pages[run.page])
            OBVIOUS
        <3>2. pages' = [pages EXCEPT ![run.page] = r]
            BY <2>2, <3>1
        <3>3. pages[run.page].version + 1 \in Nat
            BY <1>3, <2>0
        <3>4. /\ r \in Page /\ r.prop = pages[run.page].prop /\ r.made = "docz"
              /\ r.version = run.version + 1 /\ r.body # Human
            BY <1>3, <1>4, <2>0, <2>2, <3>1, <3>3 DEF Page, Places, Written
        <3>5. r.prop # Nothing => r.made = "docz" /\ r.prop.version <= r.version
            BY <1>1, <1>3, <2>0, <2>2, <3>4 DEF Own, PropertyType
        <3>6. run.version + 1 \in Nat
            BY <1>1
        <3>7. /\ run' \in Run /\ run'.pc = "stamp" /\ run'.page = run.page
              /\ run'.version = run.version + 1 /\ run'.what = "updated" /\ run'.key = run.key
              /\ run'.plan = run.plan /\ run'.todo = run.todo
            BY <1>1, <2>2, <3>6 DEF Run, Stages
        <3>8. RunInv'
            BY <1>1, <2>0, <3>7 DEF RunInv, AtPage, AtItem
        <3>9. Known(r)'
            BY <3>4, <3>6, <3>7 DEF Known
        <3>10. r.prop # Nothing =>
                 /\ r.made = "docz" /\ r.prop.version <= r.version
                 /\ r.prop.version = r.version /\ r.body = Human => r.masked
            BY <3>4, <3>5
        <3>11. run.page \in DOMAIN pages /\ results' \in [Keys -> Result]
            BY <1>1, <1>3, <2>0, <2>2
        <3> QED
            BY <1>2, <3>2, <3>4, <3>7, <3>8, <3>9, <3>10, <3>11, Writes
    <2> QED
        BY <1>6, <2>1, <2>2, Zenon DEF UpdatePage
<1>7. CASE Stamp
    <2>0. run.pc = "stamp" /\ run.pc \in AtItem /\ run.pc \in AtPage
        BY <1>7 DEF Stamp, At, AtItem, AtPage
    <2>1. /\ pages' = [pages EXCEPT ![run.page].prop = Property(run.key, Want.body, run.version)]
          /\ Done(run.what, run.page)
        BY <1>7 DEF Stamp
    <2>2. PICK prop : prop = Property(run.key, Want.body, run.version)
        OBVIOUS
    <2>3. prop \in PropertyType /\ prop.version = run.version
        BY <1>1, <1>4, <2>0, <2>2 DEF Property, PropertyType
    <2>4. PICK r : r = [pages[run.page] EXCEPT !.prop = prop]
        OBVIOUS
    <2>5. pages' = [pages EXCEPT ![run.page] = r]
        BY <1>1, <1>3, <2>0, <2>1, <2>2, <2>4
    <2>6. /\ r \in Page /\ r.prop = prop /\ r.made = pages[run.page].made
          /\ r.version = pages[run.page].version /\ r.body = pages[run.page].body
        BY <1>3, <2>0, <2>3, <2>4 DEF Page, PropertyType
    <2>7. /\ r.made = "docz" /\ r.prop.version <= r.version
          /\ r.prop.version = r.version => r.body # Human
        BY <1>3, <2>0, <2>3, <2>6 DEF Known
    <2>8. run.what \in {"none"} \cup Successes \cup Skips \cup {"failed"}
        BY <1>1, <2>0 DEF RunInv, Successes
    <2>9. pages' \in Seq(Page) /\ Len(pages') = Len(pages)
        BY <1>1, <1>3, <2>0, <2>5, <2>6, SetPage
    <2>10. /\ run' \in Run' /\ RunInv' /\ run'.pc \notin AtPage
           /\ results' \in [Keys -> Result']
        BY <1>1, <2>0, <2>1, <2>8, <2>9, DoneFacts
    <2>11. Run' = Run /\ Result' = Result
        BY <2>9 DEF Run, Result
    <2> QED
        BY <1>1, <1>2, <1>3, <2>0, <2>5, <2>6, <2>7, <2>10, <2>11, Writes
<1>8. CASE ArchivePage
    <2>0. run.pc = "archive" /\ run.pc \in AtPage /\ UNCHANGED results
        BY <1>8 DEF ArchivePage, At, AtPage
    <2>1. /\ pages' = [pages EXCEPT ![run.page].at = "archive", ![run.page].version = @ + 1]
          /\ run' = [run EXCEPT !.pc = "restamp", !.version = pages[run.page].version + 1]
        BY <1>8 DEF ArchivePage
    <2>2. PICK r : r = [pages[run.page] EXCEPT !.at = "archive",
                                               !.version = pages[run.page].version + 1]
        OBVIOUS
    <2>3. pages' = [pages EXCEPT ![run.page] = r]
        BY <1>1, <1>3, <2>0, <2>1, <2>2
    <2>4. pages[run.page].version + 1 \in Nat
        BY <1>3, <2>0
    <2>5. /\ r \in Page /\ r.prop = pages[run.page].prop /\ r.made = pages[run.page].made
          /\ r.version = pages[run.page].version + 1
          /\ r.masked = pages[run.page].masked /\ r.body = pages[run.page].body
        BY <1>3, <2>0, <2>2, <2>4 DEF Page, Places
    <2>6. /\ r.prop # Nothing /\ r.made = "docz" /\ r.prop.version < r.version
        BY <1>3, <2>0, <2>5 DEF Own, Known, PropertyType
    <2>7. /\ run' \in Run /\ run'.pc = "restamp" /\ run'.page = run.page
          /\ run'.version = r.version /\ run'.todo = run.todo /\ run'.key = run.key
        BY <1>1, <2>1, <2>4, <2>5 DEF Run, Stages
    <2>8. RunInv'
        <3>1. DOMAIN pages' = DOMAIN pages
            BY <1>1, <1>3, <2>0, <2>3, <2>5, SetPage
        <3> QED
            BY <1>1, <2>0, <2>7, <3>1 DEF RunInv, AtPage, AtItem
    <2>9. Known(r)'
        <3>1. r.prop.version + 1 = r.version /\ r.body = Human => r.masked
            BY <1>3, <2>0, <2>5, <2>6 DEF Own, PropertyType
        <3> QED
            BY <2>4, <2>5, <2>6, <2>7, <3>1 DEF Known
    <2>10. r.prop.version <= r.version /\ r.prop.version # r.version
        BY <1>3, <2>0, <2>4, <2>5, <2>6 DEF PropertyType
    <2> QED
        BY <1>1, <1>2, <1>3, <2>0, <2>3, <2>5, <2>6, <2>7, <2>8, <2>9, <2>10, Writes
<1>9. CASE Restamp
    <2>0. /\ run.pc = "restamp" /\ run.pc \in AtPage
          /\ Archived("archived") /\ OnToOrphans(FALSE)
        BY <1>9 DEF Restamp, At, AtPage
    <2>1. PICK m \in BOOLEAN : m = (pages[run.page].masked
                                      \/ (pages[run.page].version = run.version
                                            /\ pages[run.page].prop.version + 1 # run.version))
        BY Zenon
    <2>2. PICK prop : prop = [pages[run.page].prop EXCEPT !.version = run.version]
        OBVIOUS
    <2>3. /\ pages[run.page].prop \in PropertyType /\ pages[run.page].made = "docz"
          /\ run.version <= pages[run.page].version
          /\ run.version = pages[run.page].version /\ pages[run.page].prop.version + 1 = run.version
               /\ pages[run.page].body = Human => pages[run.page].masked
        BY <1>3, <2>0 DEF Known, Own
    <2>4. prop \in PropertyType /\ prop.version = run.version
        BY <1>1, <2>2, <2>3 DEF PropertyType
    <2>5. PICK r : r = Restamped(pages[run.page])
        OBVIOUS
    <2>6. /\ r \in Page /\ r.prop = prop /\ r.made = pages[run.page].made /\ r.masked = m
          /\ r.version = pages[run.page].version /\ r.body = pages[run.page].body
        <3>1. r = [pages[run.page] EXCEPT !.prop = prop, !.masked = m]
            BY <1>3, <2>0, <2>1, <2>2, <2>5 DEF Restamped, Page
        <3> QED
            BY <1>3, <2>0, <2>4, <3>1 DEF Page, PropertyType
    <2>7. pages' = [pages EXCEPT ![run.page] = r]
        BY <1>9, <2>5 DEF Restamp
    <2>8. /\ r.made = "docz" /\ r.prop.version <= r.version
          /\ r.prop.version = r.version /\ r.body = Human => r.masked
        BY <2>1, <2>3, <2>4, <2>6
    <2>9. results' \in [Keys -> Result]
        <3>1. [what |-> "archived", page |-> run.page] \in Result
            BY <1>1 DEF Result, Successes
        <3> QED
            BY <1>1, <2>0, <3>1 DEF Archived
    <2>10. run' = [run EXCEPT !.pc = "orphan", !.page = 0, !.key = 0, !.version = 0]
        <3>1. run.broken \in BOOLEAN /\ run.broken = (run.broken \/ FALSE)
            BY <1>1 DEF Run
        <3> QED
            BY <1>1, <2>0, <3>1 DEF OnToOrphans, Run
    <2>11. 0 \in 0 .. Len(pages)
        BY <1>1
    <2>12. run' \in Run /\ run'.pc = "orphan" /\ run'.todo = run.todo
        BY <1>1, <2>10, <2>11 DEF Run, Stages
    <2>13. RunInv' /\ run'.pc \notin AtPage
        <3>1. DOMAIN pages' = DOMAIN pages
            BY <1>1, <1>3, <2>0, <2>6, <2>7, SetPage
        <3> QED
            BY <1>1, <2>0, <2>12, <3>1 DEF RunInv, AtPage, AtItem
    <2> QED
        BY <1>1, <1>2, <1>3, <2>0, <2>6, <2>7, <2>8, <2>9, <2>12, <2>13, Writes
<1> QED
    BY <1>5, <1>6, <1>7, <1>8, <1>9

LEMMA NextIInv == IInv /\ [Next]_vars => IInv'
<1> SUFFICES ASSUME IInv, [Next]_vars PROVE IInv'
    OBVIOUS
<1>1. CASE UNCHANGED vars
    BY <1>1 DEF vars, IInv, TypeOK, Run, RunInv, Known, Own
<1>2. CASE Next
    BY <1>2, PushIInv, PeopleIInv, ReadingSteps, WritingSteps DEF Next, Export
<1> QED
    BY <1>1, <1>2

LEMMA Invariance == Spec => []IInv
BY InitIInv, NextIInv, PTL DEF Spec

(* The variables hold what the program can hold. *)
THEOREM TypeCorrect == Spec => []TypeOK
<1>1. IInv => TypeOK
    BY DEF IInv
<1> QED
    BY <1>1, Invariance, PTL

-----------------------------------------------------------------------------
(* Which pages a step changes: people's own act, or the page a run wrote,  *)
(* stamped or archived because it knew it for docz's.                      *)
LEMMA ChangedPages ==
    ASSUME IInv, Next, NEW p \in DOMAIN pages, pages'[p] # pages[p]
    PROVE  \/ left' # left /\ (pages'[p].body = pages[p].body \/ pages'[p].body = Human)
           \/ run.pc = "update" /\ p = run.page /\ pages[p].version = run.version
           \/ /\ run.pc \in {"stamp", "archive", "restamp"} /\ p = run.page
              /\ pages[p].made = "docz" /\ pages'[p].body = pages[p].body
<1>1. /\ TypeOK /\ RunInv /\ run \in Run /\ pages \in Seq(Page) /\ Len(pages) \in Nat
      /\ DOMAIN pages = 1 .. Len(pages)
    BY DEF IInv, TypeOK
<1>2. CASE People
    BY <1>1, <1>2, PeopleFacts DEF Touched
<1>3. CASE CreatePage
    <2>1. ~UNCHANGED pages
        OBVIOUS
    <2>2. \E r : pages' = Append(pages, r)
        BY <1>3, <2>1 DEF CreatePage
    <2> QED
        BY <1>1, <2>2
<1>4. CASE UpdatePage \/ Stamp \/ ArchivePage \/ Restamp
    <2>1. run.pc \in {"update", "stamp", "archive", "restamp"} /\ run.pc \in AtPage
        BY <1>4 DEF UpdatePage, Stamp, ArchivePage, Restamp, At, AtPage
    <2>2. run.page \in DOMAIN pages /\ Known(pages[run.page]) /\ Own(run.page)
        BY <1>1, <2>1 DEF IInv, RunInv, Run
    <2>3. \E r : pages' = [pages EXCEPT ![run.page] = r]
        BY <1>1, <1>4, <2>2 DEF UpdatePage, Stamp, ArchivePage, Restamp
    <2>4. p = run.page
        BY <2>3
    <2>5. pages[p] \in Page
        BY <1>1, PageFields
    <2>6. CASE UpdatePage
        BY <2>4, <2>6 DEF UpdatePage, At
    <2>7. CASE Stamp
        <3>1. pages' = [pages EXCEPT ![p].prop = Property(run.key, Want.body, run.version)]
            BY <2>4, <2>7 DEF Stamp
        <3>2. run.pc = "stamp"
            BY <2>7 DEF Stamp, At
        <3>3. pages[p].made = "docz"
            BY <2>2, <2>4, <3>2 DEF Known
        <3>4. pages'[p] = [pages[p] EXCEPT !.prop = Property(run.key, Want.body, run.version)]
            BY <1>1, <3>1
        <3>5. pages'[p].body = pages[p].body
            BY <2>5, <3>4 DEF Page
        <3> QED
            BY <2>4, <3>2, <3>3, <3>5
    <2>8. CASE ArchivePage
        <3>1. pages' = [pages EXCEPT ![p].at = "archive", ![p].version = @ + 1]
            BY <2>4, <2>8 DEF ArchivePage
        <3>2. run.pc = "archive"
            BY <2>8 DEF ArchivePage, At
        <3>3. pages[p].made = "docz"
            BY <2>2, <2>4, <3>2 DEF Known, Own
        <3>4. pages'[p].body = pages[p].body
            BY <1>1, <2>5, <3>1 DEF Page
        <3> QED
            BY <2>4, <3>2, <3>3, <3>4
    <2>9. CASE Restamp
        <3>1. pages' = [pages EXCEPT ![p] = Restamped(pages[p])]
            BY <2>4, <2>9 DEF Restamp
        <3>2. run.pc = "restamp"
            BY <2>9 DEF Restamp, At
        <3>3. pages[p].made = "docz"
            BY <2>2, <2>4, <3>2 DEF Known, Own
        <3>4. pages'[p].body = pages[p].body
            BY <1>1, <2>5, <3>1 DEF Page, Restamped
        <3> QED
            BY <2>4, <3>2, <3>3, <3>4
    <2> QED
        BY <1>4, <2>6, <2>7, <2>8, <2>9
<1>5. CASE \/ Push \/ Start \/ UseFolder \/ CreateFolder \/ StampFolder \/ RefuseFolder
           \/ FindPage \/ Decide \/ FailItem \/ ListChildren \/ CheckOrphan \/ EndOrphans
           \/ FailOrphan \/ Interrupt \/ End \/ Crash
    <2>1. CASE Push \/ CreateFolder \/ StampFolder \/ End
        BY <2>1 DEF Push, CreateFolder, StampFolder, End
    <2>2. CASE \/ Start \/ UseFolder \/ RefuseFolder \/ FindPage \/ Decide \/ FailItem
               \/ ListChildren \/ CheckOrphan \/ EndOrphans \/ FailOrphan \/ Interrupt \/ Crash
        <3>1. CASE Start
            <4>1. UNCHANGED <<space, results>>
                BY <3>1, Zenon DEF Start
            <4> QED
                BY <4>1 DEF space
        <3>2. CASE FindPage
            <4>1. UNCHANGED <<space, flags, results>>
                BY <3>2, Zenon DEF FindPage
            <4> QED
                BY <4>1 DEF space
        <3>3. CASE \/ UseFolder \/ RefuseFolder \/ Decide \/ FailItem \/ ListChildren
                   \/ CheckOrphan \/ EndOrphans \/ FailOrphan \/ Interrupt \/ Crash
            BY <3>3 DEF UseFolder, RefuseFolder, Decide, FailItem, ListChildren, CheckOrphan,
                EndOrphans, FailOrphan, Interrupt, Crash, space
        <3> QED
            BY <2>2, <3>1, <3>2, <3>3
    <2> QED
        BY <1>5, <2>1, <2>2
<1> QED
    BY <1>2, <1>3, <1>4, <1>5, Zenon DEF Next, Export

(* What somebody wrote in Confluence is replaced only by --force, or by a  *)
(* server run that reports the edit, or where archiving masked it, however *)
(* edits fall between a run's reads and its writes (decide, update).       *)
THEOREM EditsAreKept == Spec => NoSilentOverwrite
<1> DEFINE Kept(p) ==
        pages[p].body = Human /\ pages'[p].body # Human =>
          \/ run.mode = "force"
          \/ run.mode = "server" /\ run.edited
          \/ pages[p].masked /\ pages[p].prop.version = pages[p].version
<1>1. ASSUME IInv, Next, NEW p \in DOMAIN pages, pages[p].body = Human, pages'[p].body # Human,
             run.mode # "force", ~(run.mode = "server" /\ run.edited)
      PROVE  pages[p].masked /\ pages[p].prop.version = pages[p].version
    <2>1. run.pc = "update" /\ p = run.page /\ pages[p].version = run.version
        BY <1>1, ChangedPages
    <2>2. Known(pages[p]) /\ Own(p) /\ RunInv
        BY <1>1, <2>1 DEF IInv, AtPage
    <2>3. ~run.edited
        BY <1>1, <2>1, <2>2 DEF RunInv
    <2>4. pages[p].prop # Nothing /\ pages[p].prop.version = pages[p].version
        BY <1>1, <2>1, <2>2, <2>3 DEF Known
    <2> QED
        BY <1>1, <2>2, <2>4 DEF Own
<1>2. IInv /\ [Next]_vars => [\A p \in DOMAIN pages : Kept(p)]_vars
    BY <1>1
<1> HIDE DEF Kept
<1>3. Spec => [][\A p \in DOMAIN pages : Kept(p)]_vars
    BY <1>2, Invariance, PTL DEF Spec
<1> QED
    BY <1>3 DEF NoSilentOverwrite, Kept

(* Without --force an export never writes, moves or marks a page that docz *)
(* did not write, whatever people do between its steps (decide, orphan).   *)
THEOREM PeoplesPagesAreLeft == Spec => NeverTakesOver
<1> DEFINE Spared(p) ==
        left' = left /\ pages'[p] # pages[p] /\ run.mode # "force" => pages[p].made = "docz"
<1>1. ASSUME IInv, Next, NEW p \in DOMAIN pages, left' = left, pages'[p] # pages[p],
             run.mode # "force"
      PROVE  pages[p].made = "docz"
    <2>1. CASE run.pc = "update" /\ p = run.page
        <3>1. Known(pages[p]) /\ Own(p)
            BY <1>1, <2>1 DEF IInv, AtPage
        <3> QED
            BY <1>1, <2>1, <3>1 DEF Known, Own
    <2> QED
        BY <1>1, <2>1, ChangedPages
<1>2. IInv /\ [Next]_vars => [\A p \in DOMAIN pages : Spared(p)]_vars
    BY <1>1
<1> HIDE DEF Spared
<1>3. Spec => [][\A p \in DOMAIN pages : Spared(p)]_vars
    BY <1>2, Invariance, PTL DEF Spec
<1> QED
    BY <1>3 DEF NeverTakesOver, Spared

-----------------------------------------------------------------------------
(***************************************************************************)
(* What a clean run leaves: CleanRunMirrors and SecondRunQuiet, for        *)
(* documents whose titles differ at any time (Distinct) and of which two   *)
(* are never the same (Apart): a title has its document's id in it, and a  *)
(* page with a source names it in its banner (writeBanner).                *)
(***************************************************************************)
Apart ==
    \A j, k \in Keys : j # k =>
      \A d \in Versions[j], e \in Versions[k] : d.title # e.title \/ d.content # e.content

TitlesDiffer == \A p, q \in DOMAIN pages : pages[p].title = pages[q].title => p = q

(* The property has the page's version; it then describes the page, unless *)
(* archiving hid that it does not.                                         *)
Current(page) == page.prop # Nothing /\ page.prop.version = page.version

Sound(page) ==
    /\ page.body = page.prop.hash
    /\ \E d \in Versions[page.prop.key] : d.title = page.title /\ d.content = page.prop.hash.text

Truthful(page) == Current(page) => page.masked \/ Sound(page)

(* What the run knows of the page it is at, whatever people did since.     *)
PageKnown(page) ==
    /\ run.pc \in {"decide", "update"} /\ run.mode # "server" => page.title = Want.title
    /\ run.pc = "stamp" =>
         /\ page.title = Want.title
         /\ run.version = page.version => page.body = Want.body
    /\ run.pc \in {"archive", "restamp"} =>
         page.prop # Nothing /\ run.key = page.prop.key /\ run.key \notin Items(run.plan)
    /\ run.pc = "restamp" /\ run.version = page.version /\ page.prop.version + 1 = run.version
         => page.masked \/ Sound(page)

Before == {"idle", "folder", "stampFolder"}

(* The items that have no result yet. *)
Pending ==
    IF run.pc \in AtItem THEN {run.key} \cup run.todo ELSE IF run.pc \in Before THEN Keys ELSE {}

(* The results so far; the server never comes to another page than the one *)
(* it recorded.                                                            *)
ResultsAgree ==
    /\ run.pc \in Before => results = NoResults
    /\ run.pc \notin Before => folder = "ours"
    /\ run.pc \in AtItem => run.key \notin run.todo /\ run.broken = FALSE
    /\ run.pc \in {"find", "create"} => run.page = 0
    /\ run.pc \in {"archive", "restamp"} => run.page \notin run.todo
    /\ run.broken = FALSE =>
         \A k \in Items(run.plan) : results[k].what = "none" <=> k \in Pending
    /\ run.mode = "server" =>
         /\ run.pc = "create" => recorded[run.key] = 0
         /\ run.pc \in {"decide", "update", "stamp"} => recorded[run.key] \in {0, run.page}
         /\ \A k \in Items(run.plan) :
              results[k].page # 0 => recorded[k] \in {0, results[k].page}

Titled == {docs[k].title : k \in Items(docs)}

Shown(k) == Rendered(docs[k], run.mode).body

(* The page shows the document k of HEAD, as far as the next run can see.  *)
Fresh(k, page) ==
    /\ page.at = "tree" /\ page.title = docs[k].title
    /\ Current(page) /\ page.prop.hash = Shown(k)
    /\ page.masked \/ (page.prop.key = k /\ page.body = page.prop.hash)

(* The page of k has become another document's, which a recorded id led to.*)
Taken(k) ==
    /\ run.mode = "server"
    /\ \/ \E j \in Items(docs) : j # k /\ results[j].what # "none"
                                       /\ results[j].page = results[k].page
       \/ run.pc = "stamp" /\ run.page = results[k].page

Stray(page) ==
    /\ page.at = "tree" /\ page.title \notin Titled
    /\ page.prop # Nothing /\ page.prop.key \notin Items(docs)

AtOrphan == {"orphan", "archive", "restamp"}

Exported(k) ==
    results[k].what \in Successes =>
      /\ results[k].page \in DOMAIN pages
      /\ Fresh(k, pages[results[k].page]) \/ Taken(k)

(* What a run that nobody disturbed has done, and what it has left to do.  *)
QuietRun ==
    quiet /\ run.pc # "idle" =>
      /\ run.plan = docs
      /\ \A k \in Items(docs) : Exported(k)
      /\ run.pc \in AtOrphan =>
           /\ \A p \in run.todo : pages[p].at = "tree" /\ pages[p].title \notin Titled
           /\ run.broken = FALSE =>
                \A p \in DOMAIN pages :
                  Stray(pages[p]) => p \in run.todo \/ (run.pc = "archive" /\ p = run.page)
      /\ run.pc = "end" /\ run.broken = FALSE => \A p \in DOMAIN pages : ~Stray(pages[p])

QuietPage(page) ==
    quiet =>
      /\ run.pc = "decide" =>
           run.version = page.version /\ run.place = page.at /\ run.title = page.title
      /\ run.pc = "stamp" => run.version = page.version /\ page.at = "tree"
      /\ run.pc \in {"archive", "restamp"} => page.title \notin Titled
      /\ run.pc = "restamp" => page.at # "tree"

Mirrors ==
    /\ \A k \in Items(docs) : \E p \in DOMAIN pages : Fresh(k, pages[p])
    /\ \A p \in DOMAIN pages : ~Stray(pages[p])

(* After a clean run the next one finds nothing to write: what it would    *)
(* update is another page than the one that has the title already.         *)
NothingToWrite ==
    /\ run.pc \notin {"create", "stamp", "archive", "restamp"}
    /\ run.pc = "update" => pages[run.page].title # Want.title

SettledInv == settled => quiet /\ folder = "ours" /\ (~Entangled => Mirrors /\ NothingToWrite)

MInv ==
    /\ TitlesDiffer
    /\ \A p \in DOMAIN pages : Truthful(pages[p])
    /\ run.pc \in AtPage => PageKnown(pages[run.page]) /\ QuietPage(pages[run.page])
    /\ ResultsAgree /\ QuietRun /\ SettledInv

(* What IInv says of the state, for the steps below to cite.               *)
LEMMA Basics ==
    ASSUME IInv
    PROVE  /\ TypeOK /\ RunInv /\ run \in Run /\ results \in [Keys -> Result]
           /\ recorded \in [Keys -> 0 .. Len(pages)] /\ docs \in Trees
           /\ pages \in Seq(Page) /\ Len(pages) \in Nat /\ DOMAIN pages = 1 .. Len(pages)
           /\ quiet \in BOOLEAN /\ settled \in BOOLEAN
           /\ run.page \in 0 .. Len(pages) /\ run.version \in Nat /\ run.plan \in Trees
           /\ run.broken \in BOOLEAN /\ run.mode \in {"cli", "force", "server"}
<1>1. /\ TypeOK /\ RunInv /\ run \in Run /\ results \in [Keys -> Result]
      /\ recorded \in [Keys -> 0 .. Len(pages)] /\ docs \in Trees
      /\ pages \in Seq(Page) /\ Len(pages) \in Nat /\ DOMAIN pages = 1 .. Len(pages)
      /\ quiet \in BOOLEAN /\ settled \in BOOLEAN
    BY DEF IInv, TypeOK, Result
<1>2. /\ run.page \in 0 .. Len(pages) /\ run.version \in Nat /\ run.plan \in Trees
      /\ run.broken \in BOOLEAN /\ run.mode \in Modes \cup {"cli"}
    BY <1>1 DEF Run
<1> QED
    BY <1>1, <1>2

LEMMA AtThePage ==
    ASSUME IInv, MInv, run.pc \in AtPage
    PROVE  /\ run.page \in DOMAIN pages /\ pages[run.page] \in Page
           /\ pages[run.page].version \in Nat
           /\ pages[run.page].prop # Nothing => pages[run.page].prop \in PropertyType
           /\ Known(pages[run.page]) /\ Own(run.page) /\ Truthful(pages[run.page])
           /\ PageKnown(pages[run.page]) /\ QuietPage(pages[run.page])
<1>1. run.page \in DOMAIN pages
    BY Basics DEF RunInv
<1>2. /\ pages[run.page] \in Page /\ pages[run.page].version \in Nat
      /\ pages[run.page].prop # Nothing => pages[run.page].prop \in PropertyType
    BY <1>1, Basics, PageFields
<1> QED
    BY <1>1, <1>2 DEF IInv, MInv

LEMMA AtTheItem ==
    ASSUME IInv, run.pc \in AtItem
    PROVE  /\ run.key \in Keys /\ run.key \in Items(run.plan) /\ run.todo \subseteq Items(run.plan)
           /\ run.plan[run.key] \in Versions[run.key]
           /\ Want.title = run.plan[run.key].title /\ Want.body.text = run.plan[run.key].content
           /\ run.plan = docs => Want.title = docs[run.key].title /\ Want.body = Shown(run.key)
           /\ Want.title \in Titles /\ Want.body \in Bodies /\ Want.body # Human
<1>1. run.key \in Items(run.plan) /\ run.todo \subseteq Items(run.plan) /\ run.plan \in Trees
    BY Basics DEF RunInv
<1>2. run.key \in Keys /\ run.plan[run.key] \in Versions[run.key]
    BY <1>1 DEF Items, Trees
<1>3. run.plan[run.key] \in Docs
    BY <1>2 DEF Docs
<1>4. Want = Rendered(run.plan[run.key], run.mode)
    BY DEF Want, Rendered
<1> QED
    BY <1>1, <1>2, <1>3, <1>4, RenderedFacts DEF Shown

LEMMA ShownStays ==
    ASSUME UNCHANGED docs, Fate(run'.mode) = Fate(run.mode), NEW k
    PROVE  Shown(k)' = Shown(k)
BY DEF Shown, Rendered

LEMMA TitlesOf ==
    ASSUME Distinct, NEW tree \in Trees, NEW j \in Items(tree), NEW k \in Items(tree), j # k
    PROVE  tree[j].title # tree[k].title
BY DEF Trees, Items

(* An undisturbed run: its plan is HEAD's tree. *)
LEMMA QuietFacts ==
    ASSUME MInv, quiet, run.pc # "idle"
    PROVE  run.plan = docs /\ \A k \in Items(docs) : Exported(k)
BY DEF MInv, QuietRun

(* A fresh page is the only one with its document's title.                 *)
LEMMA FreshIsOne ==
    ASSUME MInv, NEW k, NEW p \in DOMAIN pages, NEW q \in DOMAIN pages,
           Fresh(k, pages[p]), pages[q].title = docs[k].title
    PROVE  p = q
BY DEF MInv, TitlesDiffer, Fresh, Shown, Rendered

(* decide leaves a page that is what it should be.                         *)
LEMMA DecisionIsUnchanged ==
    ASSUME run \in Run, NEW prop
    PROVE  Decision(prop) = "unchanged" <=> Same(prop) /\ ~Edited(prop)
<1>1. run.mode \in {"cli", "force", "server"}
    BY DEF Run
<1>2. Same(prop) => prop # Nothing
    BY DEF Same
<1> HIDE DEF Same
<1>3. CASE run.mode = "force"
    BY <1>3 DEF Decision
<1>4. CASE run.mode # "force" /\ prop = Nothing
    BY <1>2, <1>4 DEF Decision, Edited
<1>5. CASE run.mode = "server" /\ Edited(prop)
    BY <1>5 DEF Decision, Edited
<1>6. CASE run.mode = "cli" /\ Edited(prop)
    BY <1>6 DEF Decision, Edited
<1>7. CASE run.mode # "force" /\ prop # Nothing /\ ~Edited(prop)
    BY <1>2, <1>7 DEF Decision
<1> QED
    BY <1>1, <1>3, <1>4, <1>5, <1>6, <1>7

(* A step that leaves the space, HEAD and the record alone.                *)
LEMMA MirrorReads ==
    ASSUME IInv, MInv, UNCHANGED <<docs, pages, folder, recorded, quiet, settled>>,
           run'.mode = run.mode,
           run'.pc \in AtPage => PageKnown(pages[run.page])' /\ QuietPage(pages[run.page])',
           ResultsAgree', QuietRun', settled /\ ~Entangled /\ Mirrors => NothingToWrite'
    PROVE  MInv'
<1>1. TitlesDiffer' /\ \A p \in DOMAIN pages' : Truthful(pages[p])'
    BY DEF MInv, TitlesDiffer, Truthful, Current, Sound
<1>2. Entangled' = Entangled
    BY DEF Entangled, Items
<1>3. Mirrors' <=> Mirrors
    BY DEF Mirrors, Fresh, Stray, Current, Titled, Items, Shown, Rendered
<1>4. SettledInv'
    BY <1>2, <1>3 DEF MInv, SettledInv
<1> QED
    BY <1>1, <1>4 DEF MInv

LEMMA InitMirrors == Init => MInv
<1> SUFFICES ASSUME Init PROVE MInv
    OBVIOUS
<1>1. /\ run.pc = "idle" /\ run.page = 0 /\ run.mode = "cli"
      /\ run.plan = [k \in Keys |-> Nothing] /\ pages = <<>> /\ results = NoResults
      /\ settled = FALSE
    BY DEF Init, NoRun
<1>2. Items(run.plan) = {} /\ DOMAIN pages = {}
    BY <1>1 DEF Items
<1> QED
    BY <1>1, <1>2 DEF MInv, TitlesDiffer, AtPage, AtItem, ResultsAgree, Before, QuietRun, SettledInv

(* People's acts and pushes end what is said of an undisturbed run.        *)
LEMMA DisturbedMirrors ==
    ASSUME IInv, MInv, Push \/ People
    PROVE  MInv'
<1>1. /\ UNCHANGED <<folder, recorded, run, results>> /\ quiet' = FALSE /\ settled' = FALSE
    <2>1. CASE Push
        BY <2>1 DEF Push, Disturb
    <2>2. CASE People
        BY <2>2, Basics, PeopleFacts
    <2> QED
        BY <2>1, <2>2
<1>2. ResultsAgree'
    <2>1. Pending' = Pending
        BY <1>1 DEF Pending
    <2> QED
        BY <1>1, <2>1 DEF MInv, ResultsAgree
<1>3. QuietRun' /\ SettledInv'
    BY <1>1 DEF QuietRun, SettledInv
<1>4. Want' = Want /\ Items(run.plan)' = Items(run.plan)
    BY <1>1 DEF Want, Rendered
<1>5. CASE Push
    <2>1. UNCHANGED pages
        BY <1>5 DEF Push
    <2>2. TitlesDiffer' /\ \A p \in DOMAIN pages' : Truthful(pages[p])'
        BY <2>1 DEF MInv, TitlesDiffer, Truthful, Current, Sound
    <2>3. run'.pc \in AtPage => PageKnown(pages[run.page])' /\ QuietPage(pages[run.page])'
        BY <1>1, <1>4, <2>1 DEF MInv, PageKnown, QuietPage, Sound
    <2> QED
        BY <1>2, <1>3, <2>2, <2>3 DEF MInv
<1>6. CASE People
    <2>1. /\ DOMAIN pages \subseteq DOMAIN pages' /\ \A p \in DOMAIN pages : Touched(p)
          /\ \A p \in DOMAIN pages' \ DOMAIN pages :
               /\ pages'[p].prop = Nothing /\ p = Len(pages')
               /\ \A q \in DOMAIN pages : pages[q].title # pages'[p].title
        BY <1>6, Basics, PeopleFacts
    <2>2. TitlesDiffer'
        BY <2>1 DEF MInv, TitlesDiffer, Touched
    <2>3. ASSUME NEW p \in DOMAIN pages
          PROVE  /\ pages'[p].title = pages[p].title /\ pages'[p].prop = pages[p].prop
                 /\ pages'[p].masked = pages[p].masked
                 /\ pages[p].version \in Nat
                 /\ pages[p].prop # Nothing => /\ pages[p].prop.version \in Nat
                                               /\ pages[p].prop.version <= pages[p].version
                 /\ \/ pages'[p].version = pages[p].version /\ pages'[p].body = pages[p].body
                    \/ pages'[p].version = pages[p].version + 1
        BY <2>1, Basics, PageFields DEF Touched, IInv, Own, PropertyType
    <2>4. ASSUME NEW p \in DOMAIN pages'
          PROVE  Truthful(pages[p])'
        <3>1. CASE p \in DOMAIN pages
            <4>1. Truthful(pages[p])
                BY <3>1 DEF MInv
            <4>2. CASE pages'[p].version = pages[p].version /\ pages'[p].body = pages[p].body
                BY <2>3, <3>1, <4>1, <4>2 DEF Truthful, Current, Sound
            <4>3. CASE pages'[p].version = pages[p].version + 1
                <5>1. ~Current(pages'[p])
                    BY <2>3, <3>1, <4>3 DEF Current
                <5> QED
                    BY <5>1 DEF Truthful, Current
            <4> QED
                BY <2>3, <3>1, <4>2, <4>3
        <3>2. CASE p \notin DOMAIN pages
            BY <2>1, <3>2 DEF Truthful, Current
        <3> QED
            BY <3>1, <3>2
    <2>5. ASSUME run.pc \in AtPage
          PROVE  PageKnown(pages[run.page])' /\ QuietPage(pages[run.page])'
        <3>1. run.page \in DOMAIN pages /\ Known(pages[run.page]) /\ PageKnown(pages[run.page])
            BY <2>5, AtThePage
        <3>2. PICK page : page = pages[run.page]
            OBVIOUS
        <3>3. PICK page2 : page2 = pages'[run.page]
            OBVIOUS
        <3>4. /\ page2.title = page.title /\ page2.prop = page.prop /\ page2.masked = page.masked
              /\ page.version \in Nat
              /\ \/ page2.version = page.version /\ page2.body = page.body
                 \/ page2.version = page.version + 1
            BY <2>3, <3>1, <3>2, <3>3
        <3>5. /\ run.pc \in {"stamp", "restamp"} => run.version <= page.version
              /\ run.version \in Nat
            BY <3>1, <3>2, Basics DEF Known
        <3>6. run.version = page2.version /\ run.pc \in {"stamp", "restamp"}
                => page2.version = page.version /\ page2.body = page.body
            BY <3>4, <3>5
        <3>7. Sound(page) /\ page2.body = page.body => Sound(page2)
            BY <3>4 DEF Sound
        <3>8. PageKnown(page2)'
            BY <1>1, <1>4, <3>1, <3>2, <3>4, <3>6, <3>7, Zenon DEF PageKnown, Sound
        <3> QED
            BY <1>1, <3>3, <3>8 DEF QuietPage
    <2> QED
        BY <1>1, <1>2, <1>3, <2>2, <2>4, <2>5 DEF MInv
<1> QED
    BY <1>5, <1>6

-----------------------------------------------------------------------------
(* An item is done: with its page fresh where the run says so, and with    *)
(* the pages of the others as they were.                                   *)
LEMMA DoneMirrors ==
    ASSUME IInv, MInv, run.pc \in AtItem,
           NEW what \in Successes \cup Skips \cup {"failed"}, NEW page \in 0 .. Len(pages),
           Done(what, page), UNCHANGED <<docs, folder, recorded, quiet, settled>>,
           TitlesDiffer', \A p \in DOMAIN pages' : Truthful(pages[p])',
           DOMAIN pages' = DOMAIN pages,
           run.mode = "server" /\ page # 0 => recorded[run.key] \in {0, page},
           run.pc = "stamp" => page = run.page,
           quiet /\ what \in Successes => page \in DOMAIN pages /\ Fresh(run.key, pages'[page]),
           \A k \in Items(docs), p \in DOMAIN pages :
             quiet /\ k # run.key /\ Fresh(k, pages[p]) => pages'[p] = pages[p],
           settled /\ ~Entangled => UNCHANGED pages
    PROVE  MInv'
<1>1. /\ run'.pc \in {"list", "find"} /\ run'.plan = run.plan /\ run'.mode = run.mode
      /\ run'.page = 0 /\ run'.broken = FALSE
      /\ run'.pc = "find" => run'.key \in run.todo /\ run'.todo = run.todo \ {run'.key}
      /\ run'.pc = "list" => run.todo = {}
    BY Basics, AtTheItem, OnToFacts DEF Done
<1>2. /\ run.key \in Keys /\ run.key \in Items(run.plan) /\ results \in [Keys -> Result]
      /\ run.todo \subseteq Items(run.plan)
    BY Basics, AtTheItem
<1>3. PICK rec : rec = [what |-> what, page |-> page]
    OBVIOUS
<1>4. /\ results' = [results EXCEPT ![run.key] = rec] /\ rec.what = what /\ rec.page = page
    BY <1>3 DEF Done
<1>5. results'[run.key] = rec /\ \A k \in Keys : k # run.key => results'[k] = results[k]
    BY <1>2, <1>4
<1>6. Pending = {run.key} \cup run.todo /\ run.key \notin run.todo /\ run.broken = FALSE
    BY DEF Pending, MInv, ResultsAgree
<1>7. Pending' = run.todo
    <2>1. CASE run'.pc = "find"
        <3>1. {run'.key} \cup run'.todo = run.todo
            BY <1>1, <2>1
        <3> QED
            BY <2>1, <3>1 DEF Pending, AtItem
    <2>2. CASE run'.pc = "list"
        BY <1>1, <2>2 DEF Pending, AtItem, Before
    <2> QED
        BY <1>1, <2>1, <2>2
<1>8. what # "none"
    BY DEF Successes, Skips
<1>9. \A k \in Items(run.plan) : results[k].what = "none" <=> k \in Pending
    BY <1>6 DEF MInv, ResultsAgree
<1>10. results[run.key].what = "none"
    BY <1>2, <1>6, <1>9
<1>11. ResultsAgree'
    <2>1. \A k \in Items(run.plan) : results'[k].what = "none" <=> k \in Pending'
        BY <1>4, <1>5, <1>6, <1>7, <1>8, <1>9 DEF Items
    <2>2. run.mode = "server" => \A k \in Items(run.plan) :
            results'[k].page # 0 => recorded[k] \in {0, results'[k].page}
        BY <1>4, <1>5 DEF MInv, ResultsAgree, Items
    <2>3. folder = "ours"
        BY DEF MInv, ResultsAgree, AtItem, Before
    <2> QED
        BY <1>1, <2>1, <2>2, <2>3 DEF ResultsAgree, Before, AtItem
<1>12. QuietRun'
    <2>1. SUFFICES ASSUME quiet PROVE QuietRun'
        BY DEF QuietRun
    <2>2. run.plan = docs /\ \A k \in Items(docs) : Exported(k)
        BY <2>1, QuietFacts DEF AtItem
    <2>3. ASSUME NEW k \in Items(docs), results'[k].what \in Successes
          PROVE  /\ results'[k].page \in DOMAIN pages'
                 /\ Fresh(k, pages[results[k].page])' \/ Taken(k)'
        <3>1. CASE k = run.key
            <4>1. what \in Successes /\ results'[k].page = page
                BY <1>4, <1>5, <2>3, <3>1
            <4>2. page \in DOMAIN pages' /\ Fresh(k, pages'[page])
                BY <2>1, <3>1, <4>1
            <4> QED
                BY <1>1, <4>1, <4>2 DEF Fresh, Shown, Rendered
        <3>2. CASE k # run.key
            <4>1. k \in Keys /\ results'[k] = results[k]
                BY <1>5, <3>2 DEF Items
            <4>2. PICK p : p = results[k].page
                OBVIOUS
            <4>3. p \in DOMAIN pages /\ (Fresh(k, pages[p]) \/ Taken(k))
                BY <2>2, <2>3, <4>1, <4>2 DEF Exported
            <4>4. CASE Fresh(k, pages[p])
                <5>1. pages'[p] = pages[p]
                    BY <2>1, <3>2, <4>3, <4>4
                <5> QED
                    BY <1>1, <4>1, <4>2, <4>3, <4>4, <5>1 DEF Fresh, Shown, Rendered
            <4>5. CASE Taken(k)
                <5>1. run.mode = "server"
                    BY <4>5 DEF Taken
                <5>2. CASE \E j \in Items(docs) : j # k /\ results[j].what # "none"
                                                  /\ results[j].page = results[k].page
                    <6>1. PICK j \in Items(docs) : j # k /\ results[j].what # "none"
                                                   /\ results[j].page = results[k].page
                        BY <5>2
                    <6>2. j \in Keys /\ results'[j] = results[j]
                        BY <1>5, <1>10, <6>1 DEF Items
                    <6> QED
                        BY <1>1, <4>1, <4>2, <4>3, <5>1, <6>1, <6>2 DEF Taken, Items
                <5>3. CASE run.pc = "stamp" /\ run.page = results[k].page
                    <6>1. results'[run.key].page = results'[k].page
                          /\ results'[run.key].what # "none"
                        BY <1>4, <1>5, <1>8, <4>1, <5>3
                    <6>2. run.key \in Items(docs)
                        BY <1>2, <2>2
                    <6> QED
                        BY <1>1, <3>2, <4>1, <4>2, <4>3, <5>1, <6>1, <6>2 DEF Taken, Items
                <5> QED
                    BY <4>5, <5>2, <5>3 DEF Taken
            <4> QED
                BY <4>3, <4>4, <4>5
        <3> QED
            BY <3>1, <3>2
    <2>4. \A k \in Items(docs) : Exported(k)'
        BY <2>3 DEF Exported
    <2> QED
        BY <1>1, <2>2, <2>4 DEF QuietRun, AtOrphan, Items
<1>13. SettledInv'
    <2>1. Entangled' = Entangled
        BY DEF Entangled, Items
    <2>2. settled /\ ~Entangled /\ Mirrors => Mirrors'
        BY <1>1 DEF Mirrors, Fresh, Stray, Current, Titled, Items, Shown, Rendered
    <2>3. NothingToWrite'
        BY <1>1 DEF NothingToWrite
    <2> QED
        BY <2>1, <2>2, <2>3 DEF MInv, SettledInv
<1>14. run'.pc \notin AtPage
    BY <1>1 DEF AtPage
<1> QED
    BY <1>11, <1>12, <1>13, <1>14 DEF MInv

(* The steps before the first item, and those that leave a run.            *)
LEMMA OpeningMirrors ==
    ASSUME IInv, MInv, Start \/ UseFolder \/ CreateFolder \/ StampFolder \/ RefuseFolder \/ Crash
    PROVE  MInv'
<1>1. /\ Resting.pc = "idle" /\ Resting.mode = run.mode /\ Resting.page = 0
      /\ Resting.plan = [k \in Keys |-> Nothing]
    BY Basics, RestFacts
<1>2. CASE Start
    <2>1. PICK mode \in Modes :
            /\ run' = [NoRun EXCEPT !.pc = "folder", !.mode = mode, !.plan = docs]
            /\ settled' = (settled /\ Fate(mode) = Fate(run.mode))
        BY <1>2 DEF Start
    <2>2. run'.pc = "folder" /\ run'.plan = docs /\ run'.mode = mode
        BY <2>1 DEF NoRun
    <2>3. /\ run.pc = "idle" /\ UNCHANGED <<docs, pages, folder, recorded, results>>
          /\ quiet' = TRUE
        BY <1>2, Zenon DEF Start, At, space
    <2>4. results = NoResults
        BY <2>3 DEF MInv, ResultsAgree, Before
    <2>5. ASSUME NEW k \in Keys PROVE results[k].what = "none" /\ results[k].page = 0
        BY <2>4 DEF NoResults
    <2>6. ResultsAgree'
        BY <2>2, <2>3, <2>4, <2>5 DEF ResultsAgree, Before, AtItem, Pending, Items
    <2>7. QuietRun'
        <3>1. \A k \in Items(docs') : Exported(k)'
            BY <2>3, <2>5 DEF Exported, Successes, Items
        <3> QED
            BY <2>2, <2>3, <3>1 DEF QuietRun, AtOrphan
    <2>8. SettledInv'
        <3>1. settled' => settled /\ Fate(run'.mode) = Fate(run.mode)
            BY <2>1, <2>2
        <3>2. Entangled' = Entangled
            BY <2>3 DEF Entangled, Items
        <3>3. settled' => (Mirrors => Mirrors')
            BY <2>3, <3>1 DEF Mirrors, Fresh, Stray, Current, Titled, Items, Shown, Rendered
        <3> QED
            BY <2>2, <2>3, <3>1, <3>2, <3>3 DEF MInv, SettledInv, NothingToWrite
    <2>9. TitlesDiffer' /\ \A p \in DOMAIN pages' : Truthful(pages[p])'
        BY <2>3 DEF MInv, TitlesDiffer, Truthful, Current, Sound
    <2> QED
        BY <2>2, <2>6, <2>7, <2>8, <2>9 DEF MInv, AtPage
<1>3. CASE UseFolder \/ StampFolder
    <2>1. /\ run' = OnTo(Items(run.plan)) /\ run.pc \in {"folder", "stampFolder"}
          /\ UNCHANGED <<docs, pages, recorded, quiet, settled, results>>
          /\ folder' = "ours"
        BY <1>3 DEF UseFolder, StampFolder, space, flags, At
    <2>2. /\ run'.pc \in {"list", "find"} /\ run'.plan = run.plan /\ run'.mode = run.mode
          /\ run'.page = 0 /\ run'.broken = FALSE
          /\ run'.pc = "find" => /\ run'.key \in Items(run.plan)
                                 /\ run'.todo = Items(run.plan) \ {run'.key}
          /\ run'.pc = "list" => Items(run.plan) = {}
        BY <2>1, Basics, OnToFacts
    <2>3. results = NoResults
        BY <2>1 DEF MInv, ResultsAgree, Before
    <2>4. ASSUME NEW k \in Keys PROVE results[k].what = "none" /\ results[k].page = 0
        BY <2>3 DEF NoResults
    <2>5. \A k \in Items(run.plan) : k \in Pending'
        BY <2>2 DEF Pending, AtItem, Before
    <2>6. ResultsAgree'
        BY <2>1, <2>2, <2>4, <2>5 DEF ResultsAgree, Before, AtItem, Items
    <2>7. QuietRun'
        <3>1. \A k \in Items(docs') : Exported(k)'
            BY <2>1, <2>4 DEF Exported, Successes, Items
        <3>2. quiet => run.plan = docs
            BY <2>1, QuietFacts
        <3> QED
            BY <2>1, <2>2, <3>1, <3>2 DEF QuietRun, AtOrphan
    <2>8. SettledInv'
        <3>1. Entangled' = Entangled
            BY <2>1 DEF Entangled, Items
        <3>2. \A k : Shown(k)' = Shown(k)
            BY <2>1, <2>2, ShownStays
        <3>3. Mirrors => Mirrors'
            BY <2>1, <3>2 DEF Mirrors, Fresh, Stray, Current, Titled, Items
        <3> QED
            BY <2>1, <2>2, <3>1, <3>3 DEF MInv, SettledInv, NothingToWrite
    <2>9. TitlesDiffer' /\ \A p \in DOMAIN pages' : Truthful(pages[p])'
        BY <2>1 DEF MInv, TitlesDiffer, Truthful, Current, Sound
    <2> QED
        BY <2>2, <2>6, <2>7, <2>8, <2>9 DEF MInv, AtPage
<1>4. CASE CreateFolder
    <2>1. /\ run.pc = "folder" /\ folder = "none" /\ run' = [run EXCEPT !.pc = "stampFolder"]
          /\ UNCHANGED <<docs, pages, recorded, quiet, settled, results>>
        BY <1>4 DEF CreateFolder, At, GoTo, flags
    <2>2. /\ run'.pc = "stampFolder" /\ run'.plan = run.plan /\ run'.mode = run.mode
          /\ run'.broken = run.broken
        BY <2>1, Basics DEF Run
    <2>3. ResultsAgree'
        <3>1. results = NoResults
            BY <2>1 DEF MInv, ResultsAgree, Before
        <3>2. ASSUME NEW k \in Keys PROVE results[k].what = "none" /\ results[k].page = 0
            BY <3>1 DEF NoResults
        <3> QED
            BY <2>1, <2>2, <3>1, <3>2 DEF ResultsAgree, Before, AtItem, Pending, Items
    <2>4. QuietRun'
        <3>1. quiet => run.plan = docs /\ \A k \in Items(docs) : Exported(k)
            BY <2>1, QuietFacts
        <3>2. quiet => \A k \in Items(docs) : Exported(k)'
            BY <2>1, <2>2, <3>1 DEF Exported, Fresh, Taken, Current, Items, Shown, Rendered
        <3> QED
            BY <2>1, <2>2, <3>1, <3>2 DEF QuietRun, AtOrphan
    <2>5. ~settled
        BY <2>1 DEF MInv, SettledInv
    <2>6. TitlesDiffer' /\ \A p \in DOMAIN pages' : Truthful(pages[p])'
        BY <2>1 DEF MInv, TitlesDiffer, Truthful, Current, Sound
    <2> QED
        BY <2>1, <2>2, <2>3, <2>4, <2>5, <2>6 DEF MInv, AtPage, SettledInv
<1>5. CASE RefuseFolder \/ Crash
    <2>1. /\ run' = Resting /\ UNCHANGED <<docs, pages, folder, recorded, quiet, settled>>
          /\ results' = NoResults
        <3>1. RefuseFolder => results = NoResults
            BY DEF RefuseFolder, MInv, ResultsAgree, At, Before
        <3> QED
            BY <1>5, <3>1 DEF RefuseFolder, Crash, space, flags
    <2>2. run'.pc = "idle" /\ run'.mode = run.mode /\ Items(run'.plan) = {}
        BY <1>1, <2>1 DEF Items
    <2>3. ResultsAgree'
        BY <2>1, <2>2 DEF ResultsAgree, Before, AtItem
    <2>4. QuietRun'
        BY <2>2 DEF QuietRun
    <2>5. NothingToWrite'
        BY <2>2 DEF NothingToWrite
    <2> QED
        BY <2>1, <2>2, <2>3, <2>4, <2>5, MirrorReads DEF AtPage
<1> QED
    BY <1>2, <1>3, <1>4, <1>5

(* Finding a page: a settled run always finds one. *)
LEMMA FindMirrors ==
    ASSUME IInv, MInv, FindPage
    PROVE  MInv'
<1>1. /\ run.pc = "find" /\ run.pc \in AtItem /\ run.page = 0 /\ run.broken = FALSE
      /\ UNCHANGED <<docs, pages, folder, recorded, quiet, settled, results>>
    BY DEF FindPage, At, AtItem, space, flags, MInv, ResultsAgree
<1>2. /\ run.key \in Keys /\ run.key \in Items(run.plan) /\ run.key \notin run.todo
      /\ recorded[run.key] \in 0 .. Len(pages) /\ Len(pages) \in Nat
      /\ DOMAIN pages = 1 .. Len(pages)
    BY <1>1, Basics, AtTheItem DEF MInv, ResultsAgree
<1>3. Found \subseteq DOMAIN pages
    BY <1>2 DEF Found
<1>4. ASSUME NEW pc \in {"create", "decide"}, run'.pc = pc, run'.key = run.key,
             run'.todo = run.todo, run'.plan = run.plan, run'.mode = run.mode,
             run'.broken = run.broken,
             pc = "create" => /\ run'.page = 0
                              /\ run.mode = "server" => recorded[run.key] = 0,
             run.mode = "server" => recorded[run.key] \in {0, run'.page}
      PROVE  ResultsAgree' /\ QuietRun'
    <2>1. Pending' = Pending
        BY <1>1, <1>4 DEF Pending, AtItem
    <2>2. ResultsAgree'
        BY <1>1, <1>2, <1>4, <2>1 DEF MInv, ResultsAgree, Before, AtItem
    <2>3. QuietRun'
        <3>1. quiet => run.plan = docs /\ \A k \in Items(docs) : Exported(k)
            BY <1>1, QuietFacts
        <3>2. quiet => \A k \in Items(docs) : Exported(k)'
            BY <1>1, <1>4, <3>1 DEF Exported, Fresh, Taken, Current, Items, Shown, Rendered
        <3> QED
            BY <1>1, <1>4, <3>1, <3>2 DEF QuietRun, AtOrphan
    <2> QED
        BY <2>2, <2>3
<1>5. CASE Found = {} /\ GoTo("create")
    <2>1. /\ run'.pc = "create" /\ run'.key = run.key /\ run'.todo = run.todo
          /\ run'.plan = run.plan /\ run'.mode = run.mode /\ run'.broken = run.broken
          /\ run'.page = 0
        BY <1>1, <1>5, Basics DEF GoTo, Run
    <2>2. run.mode = "server" => recorded[run.key] = 0
        BY <1>5 DEF Found
    <2>3. ResultsAgree' /\ QuietRun'
        BY <1>4, <2>1, <2>2
    <2>4. ~(settled /\ ~Entangled /\ Mirrors)
        <3>1. SUFFICES ASSUME settled, Mirrors PROVE FALSE
            OBVIOUS
        <3>2. run.plan = docs
            BY <1>1, <3>1, QuietFacts DEF MInv, SettledInv
        <3>3. PICK p \in DOMAIN pages : Fresh(run.key, pages[p])
            BY <1>2, <3>1, <3>2 DEF Mirrors
        <3>4. pages[p].title = Want.title
            BY <3>2, <3>3 DEF Fresh, Want, Shown, Rendered
        <3> QED
            BY <1>5, <3>4 DEF Found
    <2> QED
        BY <1>1, <2>1, <2>3, <2>4, MirrorReads DEF AtPage
<1>6. CASE \E p \in Found :
             run' = [run EXCEPT !.pc = "decide", !.page = p, !.version = pages[p].version,
                                !.place = pages[p].at, !.title = pages[p].title]
    <2>1. PICK p \in Found :
             run' = [run EXCEPT !.pc = "decide", !.page = p, !.version = pages[p].version,
                                !.place = pages[p].at, !.title = pages[p].title]
        BY <1>6
    <2>2. p \in DOMAIN pages
        BY <1>3, <2>1
    <2>3. PICK page : page = pages[p]
        OBVIOUS
    <2>4. /\ run'.pc = "decide" /\ run'.key = run.key /\ run'.todo = run.todo
          /\ run'.plan = run.plan /\ run'.mode = run.mode /\ run'.broken = run.broken
          /\ run'.page = p /\ run'.version = page.version /\ run'.place = page.at
          /\ run'.title = page.title
        BY <2>1, <2>3, Basics DEF Run
    <2>5. run.mode = "server" => recorded[run.key] \in {0, p}
        BY <2>1 DEF Found
    <2>6. ResultsAgree' /\ QuietRun'
        BY <1>4, <2>4, <2>5
    <2>7. run.mode # "server" => page.title = Want.title
        BY <2>1, <2>3 DEF Found
    <2>8. PageKnown(page)'
        BY <2>4, <2>7 DEF PageKnown, Want, Rendered
    <2>9. QuietPage(page)'
        BY <2>4 DEF QuietPage
    <2>10. NothingToWrite'
        BY <2>4 DEF NothingToWrite
    <2>11. pages'[run'.page] = page
        BY <1>1, <2>3, <2>4
    <2>12. run'.mode = run.mode
        BY <2>4
    <2> QED
        BY <1>1, <2>6, <2>8, <2>9, <2>10, <2>11, <2>12, MirrorReads DEF PageKnown, QuietPage
<1> QED
    BY <1>5, <1>6 DEF FindPage

(* decide: a page that is left as unchanged is fresh, and after a clean run*)
(* a page with its document's title is.                                    *)
LEMMA DecideMirrors ==
    ASSUME IInv, MInv, Apart, Decide
    PROVE  MInv'
<1>1. /\ run.pc = "decide" /\ run.pc \in AtItem /\ run.pc \in AtPage
      /\ UNCHANGED <<docs, pages, folder, recorded, quiet, settled>>
    BY DEF Decide, At, AtItem, AtPage, space, flags
<1>2. /\ run \in Run /\ run.page \in DOMAIN pages /\ run.page \in 0 .. Len(pages)
      /\ run.key \in Keys /\ run.key \in Items(run.plan) /\ run.key \notin run.todo
      /\ run.broken = FALSE /\ run.plan[run.key] \in Versions[run.key]
      /\ Want.title = run.plan[run.key].title /\ Want.body.text = run.plan[run.key].content
      /\ run.plan = docs => Want.title = docs[run.key].title /\ Want.body = Shown(run.key)
    BY <1>1, Basics, AtThePage, AtTheItem DEF MInv, ResultsAgree
<1>3. PICK page : page = pages[run.page]
    OBVIOUS
<1>4. PICK prop : prop = page.prop
    OBVIOUS
<1>5. /\ PageKnown(page) /\ QuietPage(page) /\ Truthful(page)
      /\ prop # Nothing => prop \in PropertyType
    BY <1>1, <1>3, <1>4, AtThePage
<1>6. run.mode = "server" => recorded[run.key] \in {0, run.page}
    BY <1>1 DEF MInv, ResultsAgree
<1>7. CASE Decision(prop) = "update"
    <2>1. results' = results
        BY <1>3, <1>4, <1>7, Zenon DEF Decide
    <2>2. PICK e \in BOOLEAN : e = Edited(prop)
        BY Zenon DEF Edited
    <2>3. run' = [run EXCEPT !.pc = "update", !.edited = e, !.place = "tree", !.title = Nothing]
        BY <1>3, <1>4, <1>7, <2>2, Zenon DEF Decide
    <2>4. /\ run'.pc = "update" /\ run'.key = run.key /\ run'.todo = run.todo
          /\ run'.plan = run.plan /\ run'.mode = run.mode /\ run'.broken = run.broken
          /\ run'.page = run.page
        BY <1>2, <2>3 DEF Run
    <2>5. Pending' = Pending
        BY <1>1, <2>4 DEF Pending, AtItem
    <2>6. ResultsAgree'
        BY <1>1, <1>2, <1>6, <2>1, <2>4, <2>5 DEF MInv, ResultsAgree, Before, AtItem
    <2>7. QuietRun'
        <3>1. quiet => run.plan = docs /\ \A k \in Items(docs) : Exported(k)
            BY <1>1, QuietFacts
        <3>2. quiet => \A k \in Items(docs) : Exported(k)'
            BY <1>1, <2>1, <2>4, <3>1 DEF Exported, Fresh, Taken, Current, Items, Shown, Rendered
        <3> QED
            BY <1>1, <2>4, <3>1, <3>2 DEF QuietRun, AtOrphan
    <2>8. PageKnown(page)'
        BY <1>1, <1>5, <2>4 DEF PageKnown, Want, Rendered
    <2>9. QuietPage(page)'
        BY <2>4 DEF QuietPage
    <2>10. settled /\ ~Entangled /\ Mirrors => page.title # Want.title
        <3>1. SUFFICES ASSUME settled, Mirrors, page.title = Want.title PROVE FALSE
            OBVIOUS
        <3>2. quiet /\ run.plan = docs
            BY <1>1, <3>1, QuietFacts DEF MInv, SettledInv
        <3>3. PICK p \in DOMAIN pages : Fresh(run.key, pages[p])
            BY <1>2, <3>1, <3>2 DEF Mirrors
        <3>4. page.title = docs[run.key].title
            BY <3>1, <3>2 DEF Want, Rendered
        <3>5. p = run.page
            BY <1>2, <1>3, <3>3, <3>4, FreshIsOne
        <3>6. Fresh(run.key, page)
            BY <1>3, <3>3, <3>5
        <3>7. Same(prop) /\ ~Edited(prop)
            BY <1>1, <1>4, <1>5, <3>2, <3>4, <3>6 DEF Fresh, Current, Same, Edited, QuietPage, Want, Shown, Rendered
        <3> QED
            BY <1>2, <1>7, <3>7, DecisionIsUnchanged
    <2>11. settled /\ ~Entangled /\ Mirrors => NothingToWrite'
        <3>1. pages'[run'.page] = page /\ Want' = Want
            BY <1>1, <1>3, <2>4 DEF Want, Rendered
        <3> QED
            BY <2>4, <2>10, <3>1 DEF NothingToWrite
    <2>12. pages'[run'.page] = page
        BY <1>1, <1>3, <2>4
    <2>13. run'.mode = run.mode
        BY <2>4
    <2> QED
        BY <1>1, <2>6, <2>7, <2>8, <2>9, <2>11, <2>12, <2>13, MirrorReads DEF PageKnown, QuietPage
<1>8. CASE Decision(prop) # "update"
    <2>1. PICK d : d = Decision(prop)
        OBVIOUS
    <2>2. Done(d, run.page)
        BY <1>3, <1>4, <1>8, <2>1, Zenon DEF Decide
    <2>3. d \in {"unchanged", "notOurs", "edited"}
        BY <1>2, <1>8, <2>1, DecisionFacts
    <2>4. d \in Successes \cup Skips \cup {"failed"} /\ (d \in Successes => d = "unchanged")
        BY <2>3 DEF Successes, Skips
    <2>5. ASSUME quiet, d = "unchanged"
          PROVE  Fresh(run.key, page)
        <3>1. Same(prop) /\ ~Edited(prop)
            BY <1>2, <2>1, <2>5, DecisionIsUnchanged
        <3>2. run.plan = docs
            BY <1>1, <2>5, QuietFacts
        <3>3. /\ run.version = page.version /\ run.place = page.at /\ run.title = page.title
            BY <1>1, <1>5, <2>5 DEF QuietPage
        <3>4. /\ prop # Nothing /\ prop.version = page.version /\ prop.hash = Want.body
              /\ page.at = "tree" /\ page.title = Want.title
            BY <3>1, <3>3 DEF Same, Edited
        <3>5. page.masked \/ Sound(page)
            BY <1>4, <1>5, <3>4 DEF Truthful, Current
        <3>6. Sound(page) => prop.key = run.key /\ page.body = prop.hash
            <4>1. SUFFICES ASSUME Sound(page) PROVE prop.key = run.key
                BY <1>4 DEF Sound
            <4>2. PICK v \in Versions[prop.key] : v.title = page.title /\ v.content = prop.hash.text
                BY <1>4, <4>1 DEF Sound
            <4>3. prop.key \in Keys
                BY <1>5, <3>4 DEF PropertyType
            <4>4. v.title = run.plan[run.key].title /\ v.content = run.plan[run.key].content
                BY <1>2, <3>4, <4>2
            <4>5. PICK j \in Keys : j = prop.key
                BY <4>3
            <4>6. j = run.key
                BY <1>2, <4>2, <4>4, <4>5 DEF Apart
            <4> QED
                BY <4>5, <4>6
        <3> QED
            BY <1>4, <3>2, <3>4, <3>5, <3>6 DEF Fresh, Current, Want, Shown, Rendered
    <2>6. TitlesDiffer' /\ \A p \in DOMAIN pages' : Truthful(pages[p])'
        BY <1>1 DEF MInv, TitlesDiffer, Truthful, Current, Sound
    <2>7. quiet /\ d \in Successes => run.page \in DOMAIN pages /\ Fresh(run.key, pages'[run.page])
        BY <1>1, <1>2, <1>3, <2>4, <2>5
    <2> QED
        BY <1>1, <1>2, <1>6, <2>2, <2>4, <2>6, <2>7, DoneMirrors
<1> QED
    BY <1>7, <1>8

LEMMA FailMirrors ==
    ASSUME IInv, MInv, FailItem
    PROVE  MInv'
<1>1. /\ run.pc \in AtItem /\ Done("failed", run.page)
      /\ UNCHANGED <<docs, pages, folder, recorded, quiet, settled>>
    BY DEF FailItem, AtItem, space, flags
<1>2. /\ run.page \in 0 .. Len(pages)
      /\ run.mode = "server" /\ run.page # 0 => recorded[run.key] \in {0, run.page}
    BY <1>1, Basics DEF AtItem, MInv, ResultsAgree
<1>3. TitlesDiffer' /\ \A p \in DOMAIN pages' : Truthful(pages[p])'
    BY <1>1 DEF MInv, TitlesDiffer, Truthful, Current, Sound
<1>4. "failed" \in Successes \cup Skips \cup {"failed"} /\ "failed" \notin Successes
    BY DEF Successes
<1> QED
    BY <1>1, <1>2, <1>3, <1>4, DoneMirrors

(* The orphans, as far as nothing is written.                              *)
LEMMA OrphanMirrors ==
    ASSUME IInv, MInv, ListChildren \/ CheckOrphan \/ EndOrphans \/ Interrupt
    PROVE  MInv'
<1>1. /\ UNCHANGED <<docs, pages, folder, recorded, quiet, settled, results>>
      /\ run.pc \in {"find", "list", "orphan"}
    BY DEF ListChildren, CheckOrphan, EndOrphans, Interrupt, space, flags, At
<1>2. run \in Run /\ run.broken \in BOOLEAN
    BY Basics
<1>3. quiet => run.plan = docs /\ \A k \in Items(docs) : Exported(k)
    BY <1>1, QuietFacts
<1>4. ASSUME run'.plan = run.plan, run'.mode = run.mode, run'.pc \notin AtItem \cup Before,
             run'.broken = FALSE => run.broken = FALSE /\ run.pc # "find",
             run'.pc = "archive" => run'.page \notin run'.todo, run'.pc # "restamp"
      PROVE  /\ ResultsAgree'
             /\ quiet => \A k \in Items(docs) : Exported(k)'
    <2>1. run.pc # "find" => Pending = {}
        BY <1>1 DEF Pending, AtItem, Before
    <2>2. Pending' = {}
        BY <1>4 DEF Pending, AtItem, Before
    <2>3. ResultsAgree'
        BY <1>1, <1>4, <2>1, <2>2 DEF MInv, ResultsAgree, Before, AtItem
    <2>4. quiet => \A k \in Items(docs) : Exported(k)'
        BY <1>1, <1>3, <1>4 DEF Exported, Fresh, Taken, Current, Items, Shown, Rendered
    <2> QED
        BY <2>3, <2>4
<1>5. CASE ListChildren
    <2>1. PICK S : /\ S = {p \in InTree : pages[p].title \notin {run.plan[k].title : k \in Items(run.plan)}}
                   /\ run' = [run EXCEPT !.pc = "orphan", !.todo = S]
        BY <1>5 DEF ListChildren
    <2>2. /\ run.pc = "list" /\ run'.pc = "orphan" /\ run'.plan = run.plan /\ run'.mode = run.mode
          /\ run'.broken = run.broken /\ run'.todo = S
        BY <1>2, <1>5, <2>1 DEF Run, ListChildren, At
    <2>3. /\ ResultsAgree'
          /\ quiet => \A k \in Items(docs) : Exported(k)'
        BY <1>4, <2>2 DEF AtItem, Before
    <2>4. quiet => S = {p \in DOMAIN pages : pages[p].at = "tree" /\ pages[p].title \notin Titled}
        BY <1>3, <2>1 DEF InTree, Titled
    <2>5. QuietRun'
        BY <1>1, <1>3, <2>2, <2>3, <2>4 DEF QuietRun, AtOrphan, Stray, Titled, Items
    <2>6. NothingToWrite'
        BY <2>2 DEF NothingToWrite
    <2> QED
        BY <1>1, <2>2, <2>3, <2>5, <2>6, MirrorReads DEF AtPage
<1>6. CASE CheckOrphan
    <2>1. PICK p \in run.todo :
            run' = IF Orphan(p)
                   THEN [run EXCEPT !.pc = "archive", !.page = p, !.todo = run.todo \ {p},
                                    !.key = pages[p].prop.key]
                   ELSE [run EXCEPT !.todo = run.todo \ {p}]
        BY <1>6 DEF CheckOrphan
    <2>2. run.pc = "orphan" /\ run.todo \subseteq DOMAIN pages
        BY <1>6, Basics DEF CheckOrphan, At, RunInv
    <2>3. p \in DOMAIN pages
        BY <2>2
    <2>4. PICK page : page = pages[p]
        OBVIOUS
    <2>5. quiet => /\ \A q \in run.todo : pages[q].at = "tree" /\ pages[q].title \notin Titled
                   /\ run.broken = FALSE =>
                        \A q \in DOMAIN pages : Stray(pages[q]) => q \in run.todo
        BY <2>2 DEF MInv, QuietRun, AtOrphan
    <2>6. quiet => page.at = "tree" /\ page.title \notin Titled
        BY <2>4, <2>5
    <2>7. Orphan(p) <=> page.prop # Nothing /\ page.prop.key \notin Items(run.plan)
        BY <2>4 DEF Orphan
    <2>8. CASE Orphan(p)
        <3>1. run' = [run EXCEPT !.pc = "archive", !.page = p, !.todo = run.todo \ {p},
                                 !.key = page.prop.key]
            BY <2>1, <2>4, <2>8, Zenon
        <3>2. /\ run'.pc = "archive" /\ run'.plan = run.plan /\ run'.mode = run.mode
              /\ run'.broken = run.broken /\ run'.todo = run.todo \ {p} /\ run'.page = p
              /\ run'.key = page.prop.key
            BY <1>2, <3>1 DEF Run
        <3>3. /\ ResultsAgree'
              /\ quiet => \A k \in Items(docs) : Exported(k)'
            BY <1>4, <2>2, <3>2 DEF AtItem, Before
        <3>4. QuietRun'
            BY <1>1, <1>3, <2>5, <3>2, <3>3 DEF QuietRun, AtOrphan, Stray, Titled, Items
        <3>5. PageKnown(page)'
            BY <2>7, <2>8, <3>2 DEF PageKnown
        <3>6. QuietPage(page)'
            BY <1>1, <2>6, <3>2 DEF QuietPage, Titled, Items
        <3>7. ~(settled /\ ~Entangled /\ Mirrors)
            <4>1. SUFFICES ASSUME settled, Mirrors PROVE FALSE
                OBVIOUS
            <4>2. quiet /\ run.plan = docs
                BY <1>3, <4>1 DEF MInv, SettledInv
            <4>3. Stray(page)
                BY <2>6, <2>7, <2>8, <4>2 DEF Stray
            <4> QED
                BY <2>3, <2>4, <4>1, <4>3 DEF Mirrors
        <3>8. pages'[run'.page] = page
            BY <1>1, <2>4, <3>2
        <3>9. run'.mode = run.mode
            BY <3>2
        <3> QED
            BY <1>1, <3>3, <3>4, <3>5, <3>6, <3>7, <3>8, <3>9, MirrorReads DEF PageKnown, QuietPage
    <2>9. CASE ~Orphan(p)
        <3>1. run' = [run EXCEPT !.todo = run.todo \ {p}]
            BY <2>1, <2>9, Zenon
        <3>2. /\ run'.pc = "orphan" /\ run'.plan = run.plan /\ run'.mode = run.mode
              /\ run'.broken = run.broken /\ run'.todo = run.todo \ {p}
            BY <1>2, <2>2, <3>1 DEF Run
        <3>3. /\ ResultsAgree'
              /\ quiet => \A k \in Items(docs) : Exported(k)'
            BY <1>4, <2>2, <3>2 DEF AtItem, Before
        <3>4. quiet => ~Stray(page)
            BY <1>3, <2>7, <2>9 DEF Stray
        <3>5. QuietRun'
            BY <1>1, <1>3, <2>4, <2>5, <3>2, <3>3, <3>4 DEF QuietRun, AtOrphan, Stray, Titled, Items
        <3>6. NothingToWrite'
            BY <3>2 DEF NothingToWrite
        <3> QED
            BY <1>1, <3>2, <3>3, <3>5, <3>6, MirrorReads DEF AtPage
    <2> QED
        BY <2>8, <2>9
<1>7. CASE EndOrphans
    <2>1. run.pc = "orphan" /\ run.todo = {} /\ run' = [run EXCEPT !.pc = "end"]
        BY <1>7 DEF EndOrphans, At, GoTo
    <2>2. /\ run'.pc = "end" /\ run'.plan = run.plan /\ run'.mode = run.mode
          /\ run'.broken = run.broken
        BY <1>2, <2>1 DEF Run
    <2>3. /\ ResultsAgree'
          /\ quiet => \A k \in Items(docs) : Exported(k)'
        BY <1>4, <2>1, <2>2 DEF AtItem, Before
    <2>4. quiet /\ run.broken = FALSE => \A q \in DOMAIN pages : ~Stray(pages[q])
        BY <2>1 DEF MInv, QuietRun, AtOrphan
    <2>5. QuietRun'
        BY <1>1, <1>3, <2>2, <2>3, <2>4 DEF QuietRun, AtOrphan, Stray, Titled, Items
    <2>6. NothingToWrite'
        BY <2>2 DEF NothingToWrite
    <2> QED
        BY <1>1, <2>2, <2>3, <2>5, <2>6, MirrorReads DEF AtPage
<1>8. CASE Interrupt
    <2>1. run' = [run EXCEPT !.pc = "end", !.key = 0, !.todo = {}, !.broken = TRUE]
        BY <1>8 DEF Interrupt
    <2>2. /\ run'.pc = "end" /\ run'.plan = run.plan /\ run'.mode = run.mode
          /\ run'.broken = TRUE
        BY <1>2, <2>1 DEF Run
    <2>3. /\ ResultsAgree'
          /\ quiet => \A k \in Items(docs) : Exported(k)'
        BY <1>4, <2>2 DEF AtItem, Before
    <2>4. QuietRun'
        BY <1>1, <1>3, <2>2, <2>3 DEF QuietRun, AtOrphan, Items
    <2>5. NothingToWrite'
        BY <2>2 DEF NothingToWrite
    <2> QED
        BY <1>1, <2>2, <2>3, <2>4, <2>5, MirrorReads DEF AtPage
<1> QED
    BY <1>5, <1>6, <1>7, <1>8

(* The next three leave pages of documents that are not exported.          *)
LEMMA FailOrphanMirrors ==
    ASSUME IInv, MInv, FailOrphan
    PROVE  MInv'
<1>1. /\ UNCHANGED <<docs, pages, folder, recorded, quiet, settled>>
      /\ run.pc \in {"archive", "restamp"} /\ Archived("failed") /\ OnToOrphans(TRUE)
    BY DEF FailOrphan, space, flags
<1>2. /\ run \in Run /\ run.key \in Keys /\ results \in [Keys -> Result]
      /\ run.key \notin Items(run.plan)
    BY <1>1, Basics, AtThePage DEF RunInv, AtPage, PageKnown
<1>3. PICK rec : results' = [results EXCEPT ![run.key] = rec]
    BY <1>1 DEF Archived
<1>4. \A k \in Items(run.plan) : results'[k] = results[k]
    BY <1>2, <1>3 DEF Items
<1>5. run' = [run EXCEPT !.pc = "orphan", !.page = 0, !.key = 0, !.version = 0, !.broken = TRUE]
    BY <1>1, Basics DEF OnToOrphans
<1>6. /\ run'.pc = "orphan" /\ run'.plan = run.plan /\ run'.mode = run.mode
      /\ run'.broken = TRUE /\ run'.todo = run.todo
    BY <1>2, <1>5 DEF Run
<1>7. ResultsAgree'
    BY <1>1, <1>4, <1>6 DEF MInv, ResultsAgree, Before, AtItem
<1>8. QuietRun'
    <2>1. quiet => run.plan = docs /\ \A k \in Items(docs) : Exported(k)
        BY <1>1, QuietFacts
    <2>2. quiet => \A k \in Items(docs) : Exported(k)'
        BY <1>1, <1>4, <1>6, <2>1 DEF Exported, Fresh, Taken, Current, Items, Shown, Rendered
    <2>3. quiet => \A q \in run.todo : pages[q].at = "tree" /\ pages[q].title \notin Titled
        BY <1>1 DEF MInv, QuietRun, AtOrphan
    <2> QED
        BY <1>1, <1>6, <2>1, <2>2, <2>3 DEF QuietRun, AtOrphan, Titled, Items
<1>9. NothingToWrite'
    BY <1>6 DEF NothingToWrite
<1> QED
    BY <1>1, <1>6, <1>7, <1>8, <1>9, MirrorReads DEF AtPage

-----------------------------------------------------------------------------
(* The steps that write. *)
LEMMA CreateMirrors ==
    ASSUME IInv, MInv, CreatePage
    PROVE  MInv'
<1>1. /\ run.pc = "create" /\ run.pc \in AtItem /\ run.page = 0
      /\ UNCHANGED <<docs, folder, recorded, quiet, settled>>
    BY DEF CreatePage, At, AtItem, flags, MInv, ResultsAgree
<1>2. /\ run \in Run /\ pages \in Seq(Page) /\ Len(pages) \in Nat /\ DOMAIN pages = 1 .. Len(pages)
      /\ Want.title \in Titles /\ Want.body \in Bodies /\ run.key \in Items(run.plan)
    BY <1>1, Basics, AtTheItem
<1>3. CASE ~Free(Want.title) /\ Done("failed", 0) /\ UNCHANGED pages
    <2>1. TitlesDiffer' /\ \A p \in DOMAIN pages' : Truthful(pages[p])'
        BY <1>3 DEF MInv, TitlesDiffer, Truthful, Current, Sound
    <2>2. "failed" \in Successes \cup Skips \cup {"failed"} /\ "failed" \notin Successes
        BY DEF Successes
    <2>3. 0 \in 0 .. Len(pages)
        BY <1>2
    <2> QED
        BY <1>1, <1>3, <2>1, <2>2, <2>3, DoneMirrors
<1>4. CASE /\ Free(Want.title)
           /\ pages' = Append(pages, [title |-> Want.title, at |-> "tree", version |-> 1,
                                      body |-> Want.body, prop |-> Nothing,
                                      made |-> "docz", masked |-> FALSE])
           /\ run' = [run EXCEPT !.pc = "stamp", !.page = Len(pages'), !.version = 1,
                                  !.what = "created"]
           /\ UNCHANGED results
    <2>1. PICK r : r = [title |-> Want.title, at |-> "tree", version |-> 1,
                        body |-> Want.body, prop |-> Nothing,
                        made |-> "docz", masked |-> FALSE]
        OBVIOUS
    <2>2. /\ r \in Page /\ r.prop = Nothing /\ r.title = Want.title /\ r.version = 1
          /\ r.body = Want.body /\ r.at = "tree"
        BY <1>2, <2>1 DEF Page, Places
    <2>3. /\ Len(pages') = Len(pages) + 1
          /\ DOMAIN pages' = DOMAIN pages \cup {Len(pages) + 1} /\ pages'[Len(pages) + 1] = r
          /\ \A q \in DOMAIN pages : pages'[q] = pages[q]
        BY <1>2, <1>4, <2>1, <2>2, AddPage
    <2>4. PICK new : new = Len(pages) + 1
        OBVIOUS
    <2>5. /\ DOMAIN pages' = DOMAIN pages \cup {new} /\ pages'[new] = r
          /\ \A q \in DOMAIN pages : pages'[q] = pages[q]
        BY <2>3, <2>4
    <2>6. run' = [run EXCEPT !.pc = "stamp", !.page = new, !.version = 1, !.what = "created"]
        BY <1>4, <2>3, <2>4
    <2>7. /\ run'.pc = "stamp" /\ run'.page = new /\ run'.version = 1 /\ run'.key = run.key
          /\ run'.todo = run.todo /\ run'.plan = run.plan /\ run'.mode = run.mode
          /\ run'.broken = run.broken
        BY <1>2, <2>6 DEF Run
    <2>8. \A q \in DOMAIN pages : pages[q].title # r.title
        BY <1>4, <2>2 DEF Free
    <2>9. TitlesDiffer'
        BY <2>5, <2>8 DEF MInv, TitlesDiffer
    <2>10. \A p \in DOMAIN pages' : Truthful(pages[p])'
        BY <2>2, <2>5 DEF MInv, Truthful, Current, Sound
    <2>11. PageKnown(pages[run.page])' /\ QuietPage(pages[run.page])'
        BY <2>2, <2>5, <2>7 DEF PageKnown, QuietPage, Want, Rendered
    <2>12. ResultsAgree'
        <3>1. Pending' = Pending
            BY <1>1, <2>7 DEF Pending, AtItem
        <3> QED
            BY <1>1, <1>4, <2>7, <3>1 DEF MInv, ResultsAgree, Before, AtItem
    <2>13. QuietRun'
        <3>1. quiet => run.plan = docs /\ \A k \in Items(docs) : Exported(k)
            BY <1>1, QuietFacts
        <3>2. ASSUME quiet, NEW k \in Items(docs)
              PROVE  Exported(k)'
            <4>1. Exported(k)
                BY <3>1, <3>2
            <4>2. Taken(k) => Taken(k)'
                BY <1>1, <1>4, <2>7 DEF Taken, Items
            <4>3. ASSUME results[k].page \in DOMAIN pages
                  PROVE  /\ results[k].page \in DOMAIN pages'
                         /\ pages'[results[k].page] = pages[results[k].page]
                BY <2>5, <4>3
            <4> QED
                BY <1>1, <1>4, <4>1, <4>2, <4>3 DEF Exported, Fresh, Shown, Rendered
        <3> QED
            BY <1>1, <2>7, <3>1, <3>2 DEF QuietRun, AtOrphan, Items
    <2>14. SettledInv'
        <3>1. Entangled' = Entangled
            BY <1>1 DEF Entangled, Items
        <3> QED
            BY <1>1, <3>1 DEF MInv, SettledInv, NothingToWrite
    <2> QED
        BY <2>9, <2>10, <2>11, <2>12, <2>13, <2>14 DEF MInv
<1> QED
    BY <1>3, <1>4 DEF CreatePage

(* A page another document's title found is not a fresh one; an id may     *)
(* have led there.                                                         *)
LEMMA UpdateMirrors ==
    ASSUME IInv, MInv, Distinct, UpdatePage
    PROVE  MInv'
<1>1. /\ run.pc = "update" /\ run.pc \in AtItem /\ run.pc \in AtPage
      /\ UNCHANGED <<docs, folder, recorded, quiet, settled>>
    BY DEF UpdatePage, At, AtItem, AtPage, flags
<1>2. /\ run \in Run /\ pages \in Seq(Page) /\ run.page \in DOMAIN pages
      /\ run.page \in 0 .. Len(pages) /\ run.version \in Nat
      /\ Want.title \in Titles /\ Want.body \in Bodies /\ run.key \in Items(run.plan)
    BY <1>1, Basics, AtThePage, AtTheItem
<1>3. run.mode = "server" => recorded[run.key] \in {0, run.page}
    BY <1>1 DEF MInv, ResultsAgree
<1>4. PICK page : page = pages[run.page]
    OBVIOUS
<1>5. /\ page \in Page /\ page.version \in Nat /\ Own(run.page) /\ PageKnown(page)
      /\ page.prop # Nothing => page.prop \in PropertyType
    BY <1>1, <1>4, AtThePage
<1>6. CASE Done("failed", run.page) /\ UNCHANGED pages
    <2>1. TitlesDiffer' /\ \A p \in DOMAIN pages' : Truthful(pages[p])'
        BY <1>6 DEF MInv, TitlesDiffer, Truthful, Current, Sound
    <2>2. "failed" \in Successes \cup Skips \cup {"failed"} /\ "failed" \notin Successes
        BY DEF Successes
    <2> QED
        BY <1>1, <1>2, <1>3, <1>6, <2>1, <2>2, DoneMirrors
<1>7. CASE /\ page.version = run.version
           /\ \A q \in DOMAIN pages \ {run.page} : pages[q].title # Want.title
           /\ pages' = [pages EXCEPT ![run.page] = Written(page)]
           /\ run' = [run EXCEPT !.pc = "stamp", !.version = run.version + 1, !.what = "updated"]
           /\ UNCHANGED results
    <2>1. PICK r : r = Written(page)
        OBVIOUS
    <2>2. page.version + 1 \in Nat /\ run.version + 1 \in Nat
        BY <1>2, <1>5
    <2>3. /\ r \in Page /\ r.prop = page.prop /\ r.title = Want.title /\ r.at = "tree"
          /\ r.version = page.version + 1 /\ r.body = Want.body
        BY <1>2, <1>5, <2>1, <2>2 DEF Page, Places, Written
    <2>4. /\ DOMAIN pages' = DOMAIN pages /\ pages'[run.page] = r
          /\ \A q \in DOMAIN pages : q # run.page => pages'[q] = pages[q]
        BY <1>2, <1>7, <2>1, <2>3, SetPage
    <2>5. /\ run'.pc = "stamp" /\ run'.page = run.page /\ run'.version = run.version + 1
          /\ run'.key = run.key /\ run'.todo = run.todo /\ run'.plan = run.plan
          /\ run'.mode = run.mode /\ run'.broken = run.broken
        BY <1>2, <1>7, <2>2 DEF Run
    <2>6. TitlesDiffer'
        BY <1>7, <2>3, <2>4 DEF MInv, TitlesDiffer
    <2>7. ~Current(r)
        BY <1>4, <1>5, <2>3 DEF Current, Own, PropertyType
    <2>8. \A p \in DOMAIN pages' : Truthful(pages[p])'
        <3>1. \A q \in DOMAIN pages : q # run.page => Truthful(pages[q])
            BY DEF MInv
        <3> QED
            BY <2>4, <2>7, <3>1 DEF Truthful, Current, Sound
    <2>9. PageKnown(r)' /\ QuietPage(r)'
        BY <1>7, <2>3, <2>5 DEF PageKnown, QuietPage, Want, Rendered
    <2>10. ResultsAgree'
        <3>1. Pending' = Pending
            BY <1>1, <2>5 DEF Pending, AtItem
        <3> QED
            BY <1>1, <1>3, <1>7, <2>5, <3>1 DEF MInv, ResultsAgree, Before, AtItem
    <2>11. QuietRun'
        <3>1. quiet => run.plan = docs /\ \A k \in Items(docs) : Exported(k)
            BY <1>1, QuietFacts
        <3>2. ASSUME quiet, NEW k \in Items(docs), results[k].what \in Successes
              PROVE  /\ results[k].page \in DOMAIN pages'
                     /\ Fresh(k, pages[results[k].page])' \/ Taken(k)'
            <4>1. /\ results[k].page \in DOMAIN pages
                  /\ Fresh(k, pages[results[k].page]) \/ Taken(k)
                BY <3>1, <3>2 DEF Exported
            <4>2. Taken(k) => Taken(k)'
                BY <1>1, <1>7, <2>5 DEF Taken, Items
            <4>3. CASE results[k].page # run.page /\ Fresh(k, pages[results[k].page])
                <5>1. pages'[results[k].page] = pages[results[k].page]
                    BY <2>4, <4>1, <4>3
                <5> QED
                    BY <1>1, <1>7, <2>4, <4>1, <4>3, <5>1 DEF Fresh, Shown, Rendered
            <4>4. CASE results[k].page = run.page /\ run.mode = "server"
                BY <1>7, <2>4, <2>5, <4>1, <4>4 DEF Taken
            <4>5. CASE results[k].page = run.page /\ run.mode # "server" /\ Fresh(k, page)
                <5>1. page.title = Want.title /\ page.title = docs[k].title
                    BY <1>1, <1>5, <4>5 DEF PageKnown, Fresh, Shown, Rendered
                <5>2. Want.title = docs[run.key].title /\ run.key \in Items(docs)
                    BY <1>2, <3>1, <3>2 DEF Want, Rendered
                <5>3. k = run.key
                    <6>1. docs \in Trees
                        BY Basics
                    <6>2. SUFFICES ASSUME k # run.key PROVE FALSE
                        OBVIOUS
                    <6>3. docs[k].title # docs[run.key].title
                        BY <3>2, <5>2, <6>1, <6>2, TitlesOf
                    <6> QED
                        BY <5>1, <5>2, <6>3
                <5>4. run.key \in Pending /\ run.broken = FALSE
                    BY <1>1 DEF Pending, MInv, ResultsAgree
                <5>5. results[k].what = "none"
                    BY <1>2, <5>3, <5>4 DEF MInv, ResultsAgree
                <5> QED
                    BY <3>2, <5>5 DEF Successes
            <4> QED
                BY <1>4, <2>4, <4>1, <4>2, <4>3, <4>4, <4>5
        <3>3. quiet => \A k \in Items(docs) : Exported(k)'
            BY <1>7, <3>2 DEF Exported
        <3> QED
            BY <1>1, <2>5, <3>1, <3>3 DEF QuietRun, AtOrphan, Items
    <2>12. SettledInv'
        <3>1. Entangled' = Entangled
            BY <1>1 DEF Entangled, Items
        <3>2. ~(settled /\ ~Entangled)
            <4>1. SUFFICES ASSUME settled, ~Entangled PROVE FALSE
                OBVIOUS
            <4>2. quiet /\ Mirrors /\ page.title # Want.title
                BY <1>1, <1>4, <4>1 DEF MInv, SettledInv, NothingToWrite
            <4>3. run.plan = docs
                BY <1>1, <4>2, QuietFacts
            <4>4. PICK p \in DOMAIN pages : Fresh(run.key, pages[p])
                BY <1>2, <4>2, <4>3 DEF Mirrors
            <4>5. pages[p].title = Want.title
                BY <4>3, <4>4 DEF Fresh, Want, Shown, Rendered
            <4> QED
                BY <1>4, <1>7, <4>2, <4>5
        <3> QED
            BY <1>1, <3>1, <3>2 DEF MInv, SettledInv
    <2> QED
        BY <2>4, <2>5, <2>6, <2>8, <2>9, <2>10, <2>11, <2>12 DEF MInv, PageKnown, QuietPage
<1> QED
    BY <1>4, <1>6, <1>7, Zenon DEF UpdatePage

(* The property makes the page fresh. *)
LEMMA StampMirrors ==
    ASSUME IInv, MInv, Distinct, Stamp
    PROVE  MInv'
<1>1. /\ run.pc = "stamp" /\ run.pc \in AtItem /\ run.pc \in AtPage
      /\ UNCHANGED <<docs, folder, recorded, quiet, settled>> /\ Done(run.what, run.page)
    BY DEF Stamp, At, AtItem, AtPage, flags
<1>2. /\ run \in Run /\ pages \in Seq(Page) /\ run.page \in DOMAIN pages
      /\ run.page \in 0 .. Len(pages) /\ run.version \in Nat /\ run.key \in Keys
      /\ run.plan[run.key] \in Versions[run.key] /\ Want.body \in Bodies
      /\ Want.title = run.plan[run.key].title /\ Want.body.text = run.plan[run.key].content
      /\ run.key \in Items(run.plan)
    BY <1>1, Basics, AtThePage, AtTheItem
<1>3. PICK page : page = pages[run.page]
    OBVIOUS
<1>4. /\ page \in Page /\ page.version \in Nat /\ PageKnown(page) /\ QuietPage(page)
    BY <1>1, <1>3, AtThePage
<1>5. page.title = Want.title /\ (run.version = page.version => page.body = Want.body)
    BY <1>1, <1>4 DEF PageKnown
<1>6. PICK prop : prop = Property(run.key, Want.body, run.version)
    OBVIOUS
<1>7. /\ prop \in PropertyType /\ prop.version = run.version /\ prop.hash = Want.body
      /\ prop.key = run.key
    BY <1>2, <1>6 DEF Property, PropertyType
<1>8. PICK r : r = [page EXCEPT !.prop = prop]
    OBVIOUS
<1>9. /\ r \in Page /\ r.prop = prop /\ r.title = page.title /\ r.at = page.at
      /\ r.version = page.version /\ r.body = page.body /\ r.masked = page.masked
    BY <1>4, <1>7, <1>8 DEF Page, PropertyType
<1>10. pages' = [pages EXCEPT ![run.page] = r]
    BY <1>2, <1>3, <1>6, <1>8 DEF Stamp
<1>11. /\ DOMAIN pages' = DOMAIN pages /\ pages'[run.page] = r
       /\ \A q \in DOMAIN pages : q # run.page => pages'[q] = pages[q]
    BY <1>2, <1>9, <1>10, SetPage
<1>12. TitlesDiffer'
    BY <1>3, <1>9, <1>11 DEF MInv, TitlesDiffer
<1>13. \A p \in DOMAIN pages' : Truthful(pages[p])'
    <2>1. Current(r) => Sound(r)
        BY <1>2, <1>5, <1>7, <1>9 DEF Current, Sound
    <2>2. \A q \in DOMAIN pages : q # run.page => Truthful(pages[q])
        BY DEF MInv
    <2> QED
        BY <1>11, <2>1, <2>2 DEF Truthful, Current, Sound
<1>14. run.what \in {"created", "updated"}
    BY <1>1, Basics DEF RunInv
<1>15. run.what \in Successes \cup Skips \cup {"failed"}
    BY <1>14 DEF Successes
<1>16. prop # Nothing
    BY <1>7 DEF PropertyType
<1>17. quiet => Fresh(run.key, r)
    <2>1. SUFFICES ASSUME quiet PROVE Fresh(run.key, r)
        OBVIOUS
    <2>2. run.plan = docs
        BY <1>1, <2>1, QuietFacts
    <2>3. run.version = page.version /\ page.at = "tree"
        BY <1>1, <1>4, <2>1 DEF QuietPage
    <2> QED
        BY <1>5, <1>7, <1>9, <1>16, <2>2, <2>3 DEF Fresh, Current, Want, Shown, Rendered
<1>18. ASSUME quiet, NEW k \in Items(docs), NEW p \in DOMAIN pages, k # run.key, Fresh(k, pages[p])
       PROVE  pages'[p] = pages[p]
    <2>1. run.plan = docs
        BY <1>1, <1>18, QuietFacts
    <2>2. docs[k].title # docs[run.key].title
        BY <1>2, <1>18, <2>1, Basics, TitlesOf
    <2>3. p # run.page
        BY <1>3, <1>5, <1>18, <2>1, <2>2 DEF Fresh, Want, Shown, Rendered
    <2> QED
        BY <1>11, <2>3
<1>19. ~(settled /\ ~Entangled)
    BY <1>1 DEF MInv, SettledInv, NothingToWrite
<1>20. run.mode = "server" => recorded[run.key] \in {0, run.page}
    BY <1>1 DEF MInv, ResultsAgree
<1>21. PICK what \in Successes \cup Skips \cup {"failed"} : what = run.what
    BY <1>15
<1> QED
    BY <1>1, <1>2, <1>11, <1>12, <1>13, <1>17, <1>18, <1>19, <1>20, <1>21, DoneMirrors

LEMMA ArchiveMirrors ==
    ASSUME IInv, MInv, ArchivePage
    PROVE  MInv'
<1>1. /\ run.pc = "archive" /\ run.pc \in AtPage
      /\ UNCHANGED <<docs, folder, recorded, quiet, settled, results>>
    BY DEF ArchivePage, At, AtPage, flags
<1>2. /\ run \in Run /\ pages \in Seq(Page) /\ run.page \in DOMAIN pages
    BY <1>1, Basics, AtThePage
<1>3. PICK page : page = pages[run.page]
    OBVIOUS
<1>4. /\ page \in Page /\ page.version \in Nat /\ PageKnown(page) /\ QuietPage(page)
      /\ Own(run.page) /\ Truthful(page)
      /\ page.prop # Nothing => page.prop \in PropertyType
    BY <1>1, <1>3, AtThePage
<1>5. /\ page.prop # Nothing /\ run.key = page.prop.key /\ run.key \notin Items(run.plan)
    BY <1>1, <1>4 DEF PageKnown
<1>6. page.version + 1 \in Nat
    BY <1>4
<1>7. PICK r : r = [page EXCEPT !.at = "archive", !.version = page.version + 1]
    OBVIOUS
<1>8. /\ r \in Page /\ r.prop = page.prop /\ r.title = page.title /\ r.at = "archive"
      /\ r.version = page.version + 1 /\ r.body = page.body /\ r.masked = page.masked
    BY <1>4, <1>6, <1>7 DEF Page, Places
<1>9. pages' = [pages EXCEPT ![run.page] = r]
    BY <1>2, <1>3, <1>7 DEF ArchivePage
<1>10. /\ DOMAIN pages' = DOMAIN pages /\ pages'[run.page] = r
       /\ \A q \in DOMAIN pages : q # run.page => pages'[q] = pages[q]
    BY <1>2, <1>8, <1>9, SetPage
<1>11. run' = [run EXCEPT !.pc = "restamp", !.version = page.version + 1]
    BY <1>3 DEF ArchivePage
<1>12. /\ run'.pc = "restamp" /\ run'.version = r.version /\ run'.page = run.page
       /\ run'.key = run.key /\ run'.todo = run.todo /\ run'.plan = run.plan
       /\ run'.mode = run.mode /\ run'.broken = run.broken
    BY <1>2, <1>6, <1>8, <1>11 DEF Run
<1>13. TitlesDiffer'
    BY <1>3, <1>8, <1>10 DEF MInv, TitlesDiffer
<1>14. \A p \in DOMAIN pages' : Truthful(pages[p])'
    <2>1. ~Current(r)
        BY <1>3, <1>4, <1>5, <1>8 DEF Current, Own, PropertyType
    <2>2. \A q \in DOMAIN pages : q # run.page => Truthful(pages[q])
        BY DEF MInv
    <2> QED
        BY <1>10, <2>1, <2>2 DEF Truthful, Current, Sound
<1>15. PageKnown(r)'
    <2>1. r.prop.version + 1 = r.version => Current(page)
        BY <1>4, <1>5, <1>8 DEF Current, PropertyType
    <2>2. r.prop.version + 1 = r.version => r.masked \/ Sound(r)
        BY <1>4, <1>8, <2>1 DEF Truthful, Sound
    <2> QED
        BY <1>5, <1>8, <1>12, <2>2 DEF PageKnown, Sound
<1>16. QuietPage(r)'
    BY <1>1, <1>4, <1>8, <1>12 DEF QuietPage, Titled, Items
<1>17. ResultsAgree'
    <2>1. Pending' = {} /\ Pending = {}
        BY <1>1, <1>12 DEF Pending, AtItem, Before
    <2> QED
        BY <1>1, <1>12, <2>1 DEF MInv, ResultsAgree, Before, AtItem
<1>18. QuietRun'
    <2>1. SUFFICES ASSUME quiet PROVE QuietRun'
        BY <1>1 DEF QuietRun
    <2>2. run.plan = docs /\ \A k \in Items(docs) : Exported(k)
        BY <1>1, <2>1, QuietFacts
    <2>3. page.title \notin Titled
        BY <1>1, <1>4, <2>1 DEF QuietPage
    <2>4. ASSUME NEW k \in Items(docs)
          PROVE  Exported(k)'
        <3>1. Exported(k) /\ Taken(k)' = Taken(k)
            BY <1>1, <1>12, <2>2 DEF Taken, Items
        <3>2. ~Fresh(k, page)
            BY <2>3 DEF Fresh, Titled, Shown, Rendered
        <3>3. \A p \in DOMAIN pages : Fresh(k, pages[p]) => pages'[p] = pages[p]
            BY <1>3, <1>10, <3>2
        <3> QED
            BY <1>1, <1>10, <1>12, <3>1, <3>3 DEF Exported, Fresh, Shown, Rendered
    <2>5. /\ \A p \in run.todo : pages[p].at = "tree" /\ pages[p].title \notin Titled
          /\ run.broken = FALSE =>
               \A p \in DOMAIN pages : Stray(pages[p]) => p \in run.todo \/ p = run.page
          /\ run.page \notin run.todo /\ run.todo \subseteq DOMAIN pages
        BY <1>1, <2>1, Basics DEF MInv, QuietRun, AtOrphan, ResultsAgree, RunInv
    <2>6. \A p \in run.todo : pages'[p] = pages[p]
        BY <1>10, <2>5
    <2>7. ~Stray(r)
        BY <1>8 DEF Stray
    <2>8. run.broken = FALSE => \A p \in DOMAIN pages : Stray(pages'[p]) => p \in run.todo
        BY <1>10, <2>5, <2>7
    <2> QED
        BY <1>1, <1>10, <1>12, <2>2, <2>4, <2>5, <2>6, <2>8
            DEF QuietRun, AtOrphan, Stray, Titled, Items
<1>19. SettledInv'
    <2>1. Entangled' = Entangled
        BY <1>1 DEF Entangled, Items
    <2> QED
        BY <1>1, <2>1 DEF MInv, SettledInv, NothingToWrite
<1> QED
    BY <1>10, <1>12, <1>13, <1>14, <1>15, <1>16, <1>17, <1>18, <1>19
        DEF MInv, PageKnown, QuietPage

(* The version is brought along: the property describes the page as far as *)
(* it did before, or the page is masked.                                   *)
LEMMA RestampMirrors ==
    ASSUME IInv, MInv, Restamp
    PROVE  MInv'
<1>1. /\ run.pc = "restamp" /\ run.pc \in AtPage
      /\ UNCHANGED <<docs, folder, recorded, quiet, settled>>
      /\ Archived("archived") /\ OnToOrphans(FALSE)
    BY DEF Restamp, At, AtPage, flags
<1>2. /\ run \in Run /\ pages \in Seq(Page) /\ run.page \in DOMAIN pages /\ run.version \in Nat
      /\ run.broken \in BOOLEAN /\ run.key \in Keys /\ results \in [Keys -> Result]
    BY <1>1, Basics, AtThePage DEF RunInv
<1>3. PICK page : page = pages[run.page]
    OBVIOUS
<1>4. /\ page \in Page /\ page.version \in Nat /\ PageKnown(page) /\ QuietPage(page)
      /\ page.prop # Nothing => page.prop \in PropertyType
    BY <1>1, <1>3, AtThePage
<1>5. /\ page.prop # Nothing /\ run.key = page.prop.key /\ run.key \notin Items(run.plan)
      /\ run.version = page.version /\ page.prop.version + 1 = run.version
           => page.masked \/ Sound(page)
    BY <1>1, <1>4 DEF PageKnown
<1>6. PICK prop : prop = [page.prop EXCEPT !.version = run.version]
    OBVIOUS
<1>7. /\ prop \in PropertyType /\ prop.version = run.version /\ prop.hash = page.prop.hash
      /\ prop.key = page.prop.key
    BY <1>2, <1>4, <1>5, <1>6 DEF PropertyType
<1>8. PICK m \in BOOLEAN : m = (page.masked \/ (page.version = run.version
                                                  /\ page.prop.version + 1 # run.version))
    BY Zenon
<1>9. PICK r : r = Restamped(page)
    OBVIOUS
<1>10. /\ r \in Page /\ r.prop = prop /\ r.title = page.title /\ r.at = page.at
       /\ r.version = page.version /\ r.body = page.body /\ r.masked = m
    <2>1. r = [page EXCEPT !.prop = prop, !.masked = m]
        BY <1>4, <1>6, <1>8, <1>9 DEF Restamped, Page
    <2> QED
        BY <1>4, <1>7, <2>1 DEF Page, PropertyType
<1>11. pages' = [pages EXCEPT ![run.page] = r]
    BY <1>3, <1>9 DEF Restamp
<1>12. /\ DOMAIN pages' = DOMAIN pages /\ pages'[run.page] = r
       /\ \A q \in DOMAIN pages : q # run.page => pages'[q] = pages[q]
    BY <1>2, <1>10, <1>11, SetPage
<1>13. run' = [run EXCEPT !.pc = "orphan", !.page = 0, !.key = 0, !.version = 0]
    <2>1. run.broken = (run.broken \/ FALSE)
        BY <1>2
    <2> QED
        BY <1>1, <1>2, <2>1 DEF OnToOrphans, Run
<1>14. /\ run'.pc = "orphan" /\ run'.todo = run.todo /\ run'.plan = run.plan
       /\ run'.mode = run.mode /\ run'.broken = run.broken
    BY <1>2, <1>13 DEF Run
<1>15. \A k \in Items(run.plan) : results'[k] = results[k]
    BY <1>1, <1>2, <1>5 DEF Archived, Items
<1>16. TitlesDiffer'
    BY <1>3, <1>10, <1>12 DEF MInv, TitlesDiffer
<1>17. \A p \in DOMAIN pages' : Truthful(pages[p])'
    <2>1. Truthful(r)
        <3>1. SUFFICES ASSUME Current(r), ~m PROVE Sound(r)
            BY <1>10 DEF Truthful
        <3>2. run.version = page.version
            BY <1>7, <1>10, <3>1 DEF Current
        <3>3. page.prop.version + 1 = run.version /\ ~page.masked
            BY <1>8, <3>1, <3>2
        <3>4. Sound(page)
            BY <1>5, <3>2, <3>3
        <3> QED
            BY <1>7, <1>10, <3>4 DEF Sound
    <2>2. \A q \in DOMAIN pages : q # run.page => Truthful(pages[q])
        BY DEF MInv
    <2> QED
        BY <1>12, <2>1, <2>2 DEF Truthful, Current, Sound
<1>18. ResultsAgree'
    <2>1. Pending' = {} /\ Pending = {}
        BY <1>1, <1>14 DEF Pending, AtItem, Before
    <2> QED
        BY <1>1, <1>14, <1>15, <2>1 DEF MInv, ResultsAgree, Before, AtItem
<1>19. QuietRun'
    <2>1. SUFFICES ASSUME quiet PROVE QuietRun'
        BY <1>1 DEF QuietRun
    <2>2. run.plan = docs /\ \A k \in Items(docs) : Exported(k)
        BY <1>1, <2>1, QuietFacts
    <2>3. page.title \notin Titled /\ page.at # "tree"
        BY <1>1, <1>4, <2>1 DEF QuietPage
    <2>4. ASSUME NEW k \in Items(docs)
          PROVE  Exported(k)'
        <3>1. Exported(k) /\ results'[k] = results[k]
            BY <1>15, <2>2
        <3>2. Taken(k) => Taken(k)'
            BY <1>1, <1>14, <1>15, <2>2 DEF Taken, Items
        <3>3. ~Fresh(k, page)
            BY <2>3 DEF Fresh, Shown, Rendered
        <3>4. \A p \in DOMAIN pages : Fresh(k, pages[p]) => pages'[p] = pages[p]
            BY <1>3, <1>12, <3>3
        <3> QED
            BY <1>1, <1>12, <1>14, <3>1, <3>2, <3>4 DEF Exported, Fresh, Shown, Rendered
    <2>5. /\ \A p \in run.todo : pages[p].at = "tree" /\ pages[p].title \notin Titled
          /\ run.broken = FALSE =>
               \A p \in DOMAIN pages : Stray(pages[p]) => p \in run.todo
          /\ run.page \notin run.todo /\ run.todo \subseteq DOMAIN pages
        BY <1>1, <2>1, Basics DEF MInv, QuietRun, AtOrphan, ResultsAgree, RunInv
    <2>6. \A p \in run.todo : pages'[p] = pages[p]
        BY <1>12, <2>5
    <2>7. ~Stray(r)
        BY <1>10, <2>3 DEF Stray
    <2>8. run.broken = FALSE => \A p \in DOMAIN pages : Stray(pages'[p]) => p \in run.todo
        BY <1>12, <2>5, <2>7
    <2> QED
        BY <1>1, <1>12, <1>14, <2>2, <2>4, <2>5, <2>6, <2>8
            DEF QuietRun, AtOrphan, Stray, Titled, Items
<1>20. SettledInv'
    <2>1. Entangled' = Entangled
        BY <1>1 DEF Entangled, Items
    <2> QED
        BY <1>1, <2>1 DEF MInv, SettledInv, NothingToWrite
<1> QED
    BY <1>14, <1>16, <1>17, <1>18, <1>19, <1>20 DEF MInv, AtPage

-----------------------------------------------------------------------------
(* The record of a run keeps what is entangled at HEAD, and entangles what *)
(* took another document's page.                                           *)
LEMMA EndMirrors ==
    ASSUME IInv, MInv, End
    PROVE  MInv'
<1>1. /\ run.pc = "end" /\ UNCHANGED <<docs, pages, folder, quiet>>
      /\ run' = Resting /\ results' = NoResults /\ settled' = (settled \/ Clean)
    BY DEF End, At
<1>2. /\ Resting.pc = "idle" /\ Resting.mode = run.mode /\ Resting.page = 0
      /\ Resting.plan = [k \in Keys |-> Nothing]
    BY Basics, RestFacts
<1>3. run'.pc = "idle" /\ run'.mode = run.mode /\ Items(run'.plan) = {}
    BY <1>1, <1>2 DEF Items
<1>4. /\ results \in [Keys -> Result] /\ recorded \in [Keys -> 0 .. Len(pages)]
      /\ settled \in BOOLEAN /\ quiet \in BOOLEAN /\ run.broken \in BOOLEAN
      /\ run \in Run /\ Len(pages) \in Nat /\ DOMAIN pages = 1 .. Len(pages)
    BY Basics
<1>5. \A k \in Keys : recorded'[k] = IF run.mode = "server" /\ results[k].page # 0
                                     THEN results[k].page ELSE recorded[k]
    BY DEF End
<1>6. TitlesDiffer' /\ \A p \in DOMAIN pages' : Truthful(pages[p])'
    BY <1>1 DEF MInv, TitlesDiffer, Truthful, Current, Sound
<1>7. ResultsAgree'
    BY <1>1, <1>3 DEF ResultsAgree, Before, AtItem
<1>8. QuietRun' /\ run'.pc \notin AtPage /\ NothingToWrite'
    BY <1>3 DEF QuietRun, AtPage, NothingToWrite
<1>9. folder = "ours"
    BY <1>1 DEF MInv, ResultsAgree, Before
<1>10. Mirrors => Mirrors'
    BY <1>1, <1>3 DEF Mirrors, Fresh, Stray, Current, Titled, Items, Shown, Rendered
<1>11. ASSUME settled
       PROVE  quiet /\ (~Entangled' => Mirrors')
    <2>1. quiet /\ (~Entangled => Mirrors)
        BY <1>11 DEF MInv, SettledInv
    <2>2. run.plan = docs
        BY <1>1, <2>1, QuietFacts
    <2>3. ASSUME Entangled PROVE Entangled'
        <3>1. PICK j, k \in Items(docs) : j # k /\ recorded[j] = recorded[k] /\ recorded[j] # 0
            BY <2>3 DEF Entangled
        <3>2. ASSUME NEW i \in Items(docs), recorded[i] # 0
              PROVE  recorded'[i] = recorded[i]
            <4>1. run.mode = "server" /\ results[i].page # 0 => recorded[i] \in {0, results[i].page}
                BY <2>2 DEF MInv, ResultsAgree
            <4> QED
                BY <1>5, <3>2, <4>1 DEF Items
        <3>3. recorded'[j] = recorded[j] /\ recorded'[k] = recorded[k]
            BY <3>1, <3>2
        <3> QED
            BY <1>1, <3>1, <3>3 DEF Entangled, Items
    <2> QED
        BY <1>10, <2>1, <2>3
<1>12. ASSUME Clean
       PROVE  quiet /\ (~Entangled' => Mirrors')
    <2>1. /\ quiet /\ run.broken = FALSE
          /\ \A k \in Keys : results[k].what \in Successes \cup {"none"}
        BY <1>4, <1>12 DEF Clean
    <2>2. run.plan = docs /\ \A k \in Items(docs) : Exported(k)
        BY <1>1, <2>1, QuietFacts
    <2>3. Pending = {}
        BY <1>1 DEF Pending, AtItem, Before
    <2>4. \A k \in Items(docs) : results[k].what \in Successes
        BY <2>1, <2>2, <2>3 DEF MInv, ResultsAgree, Items
    <2>5. \A p \in DOMAIN pages : ~Stray(pages[p])
        BY <1>1, <2>1 DEF MInv, QuietRun
    <2>6. ASSUME NEW k \in Items(docs), Taken(k)
          PROVE  Entangled'
        <3>1. PICK j \in Items(docs) : j # k /\ results[j].page = results[k].page
            BY <1>1, <2>6 DEF Taken
        <3>2. results[k].page # 0
            BY <1>4, <2>2, <2>4 DEF Exported
        <3>3. recorded'[j] = results[j].page /\ recorded'[k] = results[k].page
            BY <1>5, <2>6, <3>1, <3>2 DEF Taken, Items
        <3> QED
            BY <1>1, <3>1, <3>2, <3>3 DEF Entangled, Items
    <2>7. ~Entangled' => \A k \in Items(docs) : \E p \in DOMAIN pages : Fresh(k, pages[p])
        BY <2>2, <2>4, <2>6 DEF Exported
    <2>8. ~Entangled' => Mirrors
        BY <2>5, <2>7 DEF Mirrors
    <2> QED
        BY <1>10, <2>1, <2>8
<1>13. SettledInv'
    <2>1. settled' => settled \/ Clean
        BY <1>1
    <2> QED
        BY <1>1, <1>8, <1>9, <1>11, <1>12, <2>1 DEF SettledInv
<1> QED
    BY <1>6, <1>7, <1>8, <1>13 DEF MInv

LEMMA NextMirrors ==
    ASSUME Distinct, Apart
    PROVE  IInv /\ MInv /\ [Next]_vars => MInv'
<1> SUFFICES ASSUME IInv, MInv, [Next]_vars PROVE MInv'
    OBVIOUS
<1>1. CASE UNCHANGED vars
    <2>1. UNCHANGED <<docs, pages, folder, recorded, run, results, quiet, settled>>
        BY <1>1 DEF vars
    <2>2. Pending' = Pending /\ Want' = Want /\ Items(run.plan)' = Items(run.plan)
          /\ Titled' = Titled
        BY <2>1 DEF Pending, Want, Titled, Items, Rendered
    <2>3. ResultsAgree'
        BY <2>1, <2>2 DEF MInv, ResultsAgree
    <2>4. \A k \in Items(docs) : Exported(k) => Exported(k)'
        BY <2>1 DEF Exported, Fresh, Taken, Current, Items, Shown, Rendered
    <2>5. QuietRun'
        BY <2>1, <2>2, <2>4 DEF MInv, QuietRun, Stray, Titled, Items
    <2>6. run.pc \in AtPage => PageKnown(pages[run.page])' /\ QuietPage(pages[run.page])'
        BY <2>1, <2>2 DEF MInv, PageKnown, QuietPage, Sound
    <2>7. settled /\ ~Entangled /\ Mirrors => NothingToWrite'
        BY <2>1, <2>2 DEF MInv, SettledInv, NothingToWrite
    <2> QED
        BY <2>1, <2>3, <2>5, <2>6, <2>7, MirrorReads
<1>2. CASE Next
    BY <1>2, DisturbedMirrors, OpeningMirrors, FindMirrors, CreateMirrors, DecideMirrors,
       UpdateMirrors, StampMirrors, FailMirrors, OrphanMirrors, ArchiveMirrors, RestampMirrors,
       FailOrphanMirrors, EndMirrors DEF Next, Export
<1> QED
    BY <1>1, <1>2

LEMMA MirrorInvariance ==
    ASSUME Distinct, Apart
    PROVE  Spec => [](IInv /\ MInv)
<1>1. IInv /\ MInv /\ [Next]_vars => MInv'
    BY NextMirrors
<1> QED
    BY <1>1, InitMirrors, Invariance, PTL DEF Spec

(* After a clean run the space shows the repository, whatever runs failed  *)
(* or stopped before it, and it stays so while nobody pushes or acts.      *)
THEOREM CleanRunsMirror ==
    ASSUME Distinct, Apart
    PROVE  Spec => []CleanRunMirrors
<1>1. ASSUME MInv PROVE CleanRunMirrors
    <2>1. SUFFICES ASSUME settled, ~Entangled
                   PROVE  /\ EveryDocumentMirrored
                          /\ \A p \in InTree : pages[p].prop # Nothing /\ ~pages[p].masked
                                                  => pages[p].prop.key \in Items(docs)
        BY DEF CleanRunMirrors
    <2>2. Mirrors
        BY <1>1, <2>1 DEF MInv, SettledInv
    <2>3. EveryDocumentMirrored
        BY <2>2 DEF Mirrors, EveryDocumentMirrored, Mirrored, Fresh, Current, InTree, Shown, Rendered
    <2>4. ASSUME NEW p \in InTree, pages[p].prop # Nothing, ~pages[p].masked
          PROVE  pages[p].prop.key \in Items(docs)
        <3>1. p \in DOMAIN pages /\ pages[p].at = "tree"
            BY DEF InTree
        <3>2. CASE pages[p].title \notin Titled
            BY <2>2, <2>4, <3>1, <3>2 DEF Mirrors, Stray
        <3>3. CASE pages[p].title \in Titled
            <4>1. PICK k \in Items(docs) : pages[p].title = docs[k].title
                BY <3>3 DEF Titled
            <4>2. PICK q \in DOMAIN pages : Fresh(k, pages[q])
                BY <2>2 DEF Mirrors
            <4>3. q = p
                BY <1>1, <3>1, <4>1, <4>2, FreshIsOne
            <4> QED
                BY <2>4, <4>2, <4>3 DEF Fresh, Shown, Rendered
        <3> QED
            BY <3>2, <3>3
    <2> QED
        BY <2>3, <2>4
<1> QED
    BY <1>1, MirrorInvariance, PTL

(* A run after a clean one writes nothing, until somebody pushes or acts,  *)
(* or a run of the other kind begins.                                      *)
THEOREM SecondRunsWriteNothing ==
    ASSUME Distinct, Apart
    PROVE  Spec => SecondRunQuiet
<1>1. ASSUME IInv, MInv, Next, settled, settled', ~Entangled
      PROVE  UNCHANGED <<pages, folder>>
    <2>1. quiet /\ folder = "ours" /\ Mirrors /\ NothingToWrite
        BY <1>1 DEF MInv, SettledInv
    <2>2. ~Push /\ ~People
        BY <1>1, Basics, PeopleFacts DEF Push, Disturb
    <2>3. CASE Start
        BY <2>3, Zenon DEF Start, space
    <2>4. CASE FindPage
        BY <2>4, Zenon DEF FindPage, space
    <2>5. CASE \/ UseFolder \/ StampFolder \/ RefuseFolder \/ Decide \/ FailItem
               \/ ListChildren \/ CheckOrphan \/ EndOrphans \/ FailOrphan \/ Interrupt
               \/ End \/ Crash
        BY <2>1, <2>5 DEF UseFolder, StampFolder, RefuseFolder, Decide, FailItem,
            ListChildren, CheckOrphan, EndOrphans, FailOrphan, Interrupt, End, Crash, space
    <2>6. ~CreateFolder /\ ~CreatePage /\ ~Stamp /\ ~ArchivePage /\ ~Restamp
        BY <2>1 DEF CreateFolder, CreatePage, Stamp, ArchivePage, Restamp, At, NothingToWrite
    <2>7. CASE UpdatePage
        <3>1. run.pc = "update" /\ UNCHANGED folder
            BY <2>7 DEF UpdatePage, At
        <3>2. run.page \in DOMAIN pages /\ run.key \in Items(run.plan) /\ run.plan = docs
            BY <1>1, <2>1, <3>1, AtThePage, AtTheItem, QuietFacts DEF AtPage, AtItem
        <3>3. PICK p \in DOMAIN pages : Fresh(run.key, pages[p])
            BY <2>1, <3>2 DEF Mirrors
        <3>4. pages[p].title = Want.title /\ p # run.page
            BY <2>1, <3>1, <3>2, <3>3 DEF Fresh, Want, NothingToWrite, Shown, Rendered
        <3>5. \E q \in DOMAIN pages \ {run.page} : pages[q].title = Want.title
            BY <3>4
        <3> QED
            BY <2>7, <3>1, <3>5, Zenon DEF UpdatePage
    <2> QED
        BY <1>1, <2>2, <2>3, <2>4, <2>5, <2>6, <2>7, Zenon DEF Next, Export
<1>2. IInv /\ MInv /\ [Next]_vars
        => [settled /\ settled' /\ ~Entangled => UNCHANGED <<pages, folder>>]_vars
    BY <1>1
<1> QED
    BY <1>2, MirrorInvariance, PTL DEF Spec, SecondRunQuiet

=============================================================================
