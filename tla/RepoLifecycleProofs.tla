------------------------- MODULE RepoLifecycleProofs -------------------------
(***************************************************************************)
(* Proofs about RepoLifecycle, for any number of commits, deliveries,      *)
(* attempts and installations, and any values of docs_dir.                 *)
(***************************************************************************)
EXTENDS RepoLifecycle, TLAPS

USE LifecycleAssumption

(***************************************************************************)
(* The inductive invariant.  Installations are numbered upwards and end    *)
(* with their "deleted"; commits only add to the branch; while the App has *)
(* access, some onboarding has no offboarding after it.                    *)
(***************************************************************************)
Last(d) ==
    /\ sent[d].kind \in Onboarding
    /\ \A e \in DOMAIN sent : e > d => sent[e].kind \notin Offboarding

SentInv ==
    /\ Tip >= 1 /\ gh.inst <= gh.installs /\ (gh.granted => gh.inst # 0)
    /\ \A d \in DOMAIN sent :
         /\ sent[d].inst <= gh.installs /\ sent[d].at \in 1 .. Tip
         /\ sent[d].kind = "deleted" => sent[d].inst # gh.inst
    /\ \A d, e \in DOMAIN sent : d < e =>
         /\ sent[d].at <= sent[e].at
         /\ sent[d].kind = "deleted" => sent[e].inst # sent[d].inst
    /\ gh.granted => \E d \in DOMAIN sent : Last(d)

(* An attempt that got past RecordDelivery has the delivery recorded, and  *)
(* is the only one.                                                        *)
Past(d, a) == hdl[d][a].pc \in Routing \cup Accepted \cup {"error"}

AttemptInv(d) ==
    /\ d \notin DOMAIN sent => ~Begun(d)
    /\ \A a \in Attempts : hdl[d][a].id < nextId
    /\ \A a \in Attempts : Past(d, a) =>
         d \in recorded /\ \A b \in Attempts : Past(d, b) => b = a

(* What an attempt may be doing, by the kind of its delivery. *)
KindInv(d, a) ==
    /\ hdl[d][a].pc \in {"enqueue", "enqueued", "coalesced", "busy"} => sent[d].kind \notin Offboarding
    /\ hdl[d][a].pc \in {"unknown", "irrelevant"} => sent[d].kind = "push"
    /\ hdl[d][a].pc = "delete" => sent[d].kind = "deleted"
    /\ hdl[d][a].pc \in {"purge", "absent", "offboarded", "unpurged"} => sent[d].kind \in Offboarding

(* The row is older than the sequence and not ahead of the branch. *)
RowInv ==
    /\ nextId >= 1 /\ repo.id < nextId /\ (repo = NoRepo \/ repo.id >= 1)
    /\ repo.head <= Tip
    /\ repo # NoRepo => \E c \in DOMAIN gh.dirs : repo.dir = gh.dirs[c]

(* A run is ahead of the row it will commit; once it has, the row is its   *)
(* own, and the run indexes its documents or they already are.             *)
RunInv ==
    /\ run.pc = "idle" <=> job.state # "active"
    /\ run.pc = "fetched" => run.head \in 1 .. Tip /\ repo.head <= run.head /\ run.dir = gh.dirs[run.head]
    /\ run.pc \in {"committed", "read"} /\ repo # NoRepo =>
         /\ repo.id = run.id
         /\ run.upserted \/ run.id \in index \cup lagged \cup moved

(* A purge is of a row that is gone: a listed row of another installation  *)
(* has moved.                                                              *)
PurgeInv(d, a) ==
    repo # NoRepo /\ hdl[d][a].id = repo.id =>
      /\ At(d, a, "purge") => repo.id \in moved
      /\ At(d, a, "delete") => repo.inst = sent[d].inst \/ repo.id \in moved

(* Behind a handled "deleted" neither the installation nor its row is left. *)
UninstallInv(d) ==
    sent[d].kind = "deleted" /\ AnsweredBy(d, {"purge", "offboarded", "unpurged"}) /\ ~reordered =>
      sent[d].inst \notin inst /\ ~OfInstallation(sent[d].inst)

(* What was taken into the queue is covered: by what is queued or running, *)
(* by the row, or by the onboarding that will bring the row back.          *)
Taken(d) == AnsweredBy(d, {"enqueued", "coalesced"})

Awaited == \E d \in DOMAIN sent : Last(d) /\ ~Taken(d)

Covered(h) ==
    \/ reordered \/ gaveUp \/ ~gh.granted \/ Awaited
    \/ job.state = "queued" \/ run.pc \in {"started", "fetched"}
    \/ repo.head >= h

CoverInv(d) ==
    Taken(d) => Covered(sent[d].at) /\ (run.pc = "fetched" => run.head >= sent[d].at)

(* A push judged irrelevant was judged by the docs_dir of some commit. *)
JudgedInv(d) ==
    AnsweredBy(d, {"irrelevant"}) =>
      \E c \in DOMAIN gh.dirs : ~ShouldIngest(sent[d].touched, gh.dirs[c])

IInv ==
    /\ TypeOK /\ SentInv /\ RowInv /\ RunInv /\ LiveRowIndexed
    /\ \A d \in Deliveries : AttemptInv(d)
    /\ \A d \in DOMAIN sent :
         /\ \A a \in Attempts : KindInv(d, a) /\ PurgeInv(d, a)
         /\ UninstallInv(d) /\ CoverInv(d) /\ JudgedInv(d)

-----------------------------------------------------------------------------
(* Appending keeps what a sequence has and adds one element at its end.    *)
LEMMA AppendFacts ==
    ASSUME NEW S, NEW s \in Seq(S), NEW x \in S
    PROVE  /\ Append(s, x) \in Seq(S)
           /\ Len(Append(s, x)) = Len(s) + 1 /\ Len(s) \in Nat
           /\ DOMAIN s = 1 .. Len(s) /\ DOMAIN Append(s, x) = 1 .. Len(s) + 1
           /\ \A i \in 1 .. Len(s) : Append(s, x)[i] = s[i]
           /\ Append(s, x)[Len(s) + 1] = x
OBVIOUS

LEMMA InitIInv == Init => IInv
<1> SUFFICES ASSUME Init PROVE IInv
    OBVIOUS
<1> PICK dir \in DocsDir :
        gh = [inst |-> 0, installs |-> 0, granted |-> FALSE, dirs |-> <<dir>>]
    BY DEF Init, DocsDir
<1>1. /\ gh.dirs = <<dir>> /\ gh.inst = 0 /\ gh.installs = 0 /\ ~gh.granted
      /\ <<dir>> \in Seq(DocsDir) /\ Tip = 1
    BY DEF Tip
<1>2. DOMAIN sent = {} /\ Len(sent) = 0 /\ nextId = 1
    BY DEF Init
<1>3. TypeOK
    <2>1. gh \in [inst : Insts \cup {0}, installs : Insts \cup {0}, granted : BOOLEAN,
                  dirs : Seq(DocsDir)]
        BY <1>1
    <2>2. hdl \in [Deliveries -> [Attempts -> [pc : HandlerState, id : Nat]]]
        BY DEF Init, HandlerState
    <2>3. repo \in [id : Nat, inst : Insts \cup {0}, head : Nat, dir : DocsDir]
        BY DEF Init, NoRepo, DocsDir
    <2>4. run \in [pc : {"idle", "started", "fetched", "committed", "read"},
                   inst : Insts \cup {0}, head : Nat, dir : DocsDir, id : Nat,
                   upserted : BOOLEAN]
        BY DEF Init, NoRun, DocsDir
    <2>5. job \in [state : {"none", "queued", "active"}, inst : Insts \cup {0}]
        BY DEF Init
    <2>6. sent \in Seq([kind : EventKind, inst : Insts, at : Nat, touched : Dirs \cup {Manifest}])
        BY DEF Init
    <2>7. Len(sent) <= MaxEvents
        BY <1>2
    <2>8. recorded \subseteq DOMAIN sent /\ inst \subseteq Insts
        BY DEF Init
    <2>9. /\ index \cup lagged \cup moved \subseteq Nat
          /\ nextId \in Nat /\ gaveUp \in BOOLEAN /\ reordered \in BOOLEAN
        BY DEF Init
    <2> QED
        BY <2>1, <2>2, <2>3, <2>4, <2>5, <2>6, <2>7, <2>8, <2>9 DEF TypeOK
<1>4. SentInv
    BY <1>1, <1>2 DEF SentInv
<1>5. RowInv /\ RunInv /\ LiveRowIndexed
    BY <1>1, <1>2 DEF Init, NoRepo, NoRun, RowInv, RunInv, LiveRowIndexed
<1>6. ASSUME NEW d \in Deliveries PROVE AttemptInv(d)
    BY DEF Init, AttemptInv, Begun, At, Past, Routing, Accepted
<1> QED
    BY <1>2, <1>3, <1>4, <1>5, <1>6 DEF IInv

(* A handler's step changes its own attempt and nothing on GitHub.         *)
Others(d, a) ==
    \A e \in Deliveries, b \in Attempts : e # d \/ b # a => hdl'[e][b] = hdl[e][b]

LEMMA GoToFacts ==
    ASSUME hdl \in [Deliveries -> [Attempts -> [pc : HandlerState, id : Nat]]],
           NEW d \in Deliveries, NEW a \in Attempts, NEW pc \in HandlerState, GoTo(d, a, pc)
    PROVE  /\ hdl' \in [Deliveries -> [Attempts -> [pc : HandlerState, id : Nat]]]
           /\ Others(d, a)
           /\ hdl'[d][a].pc = pc /\ hdl'[d][a].id = hdl[d][a].id
<1> DEFINE Attempt == [pc : HandlerState, id : Nat]
<1>1. hdl[d] \in [Attempts -> Attempt] /\ hdl[d][a] \in Attempt
    OBVIOUS
<1> PICK h : h = [hdl[d][a] EXCEPT !.pc = pc]
    OBVIOUS
<1>2. h \in Attempt /\ h.pc = pc /\ h.id = hdl[d][a].id
    BY <1>1
<1>3. hdl' = [hdl EXCEPT ![d] = [hdl[d] EXCEPT ![a] = h]]
    BY DEF GoTo
<1> HIDE DEF Attempt
<1> QED
    BY <1>1, <1>2, <1>3 DEF Others, Attempt

-----------------------------------------------------------------------------
(* GitHub adds a delivery and at most a commit. *)
Message == [kind : EventKind, inst : Insts, at : Nat, touched : Dirs \cup {Manifest}]

Sends(m) ==
    /\ sent' = Append(sent, m)
    /\ Tip' \in Nat /\ Tip <= Tip' /\ m.at = Tip'
    /\ \A c \in 1 .. Tip : gh'.dirs[c] = gh.dirs[c]

(* What a delivery says of the installation and the grant. *)
Event(m) ==
    \/ /\ m.kind = "created" /\ m.inst = gh.installs + 1
       /\ gh'.inst = m.inst /\ gh'.installs = m.inst
    \/ /\ m.kind = "deleted" /\ m.inst = gh.inst /\ gh.inst # 0
       /\ gh'.inst = 0 /\ gh'.installs = gh.installs /\ ~gh'.granted
    \/ /\ m.kind = "added" /\ m.inst = gh.inst /\ gh.inst # 0
       /\ gh'.inst = gh.inst /\ gh'.installs = gh.installs
    \/ /\ m.kind = "removed" /\ m.inst = gh.inst
       /\ gh'.inst = gh.inst /\ gh'.installs = gh.installs /\ ~gh'.granted
    \/ /\ m.kind = "push" /\ m.inst = gh.inst /\ gh.granted
       /\ gh'.inst = gh.inst /\ gh'.installs = gh.installs

LEMMA SentTypes ==
    ASSUME TypeOK, NEW d \in DOMAIN sent
    PROVE  /\ sent[d].kind \in EventKind /\ sent[d].inst \in Insts /\ sent[d].at \in Nat
           /\ sent[d].touched \in Dirs \cup {Manifest}
           /\ DOMAIN sent = 1 .. Len(sent) /\ Len(sent) \in Nat /\ Len(sent) <= MaxEvents
           /\ d \in Deliveries
<1>1. sent \in Seq(Message) /\ Len(sent) <= MaxEvents
    BY DEF TypeOK, Message
<1>2. sent[d] \in Message /\ DOMAIN sent = 1 .. Len(sent) /\ Len(sent) \in Nat
    BY <1>1
<1>3. d \in Deliveries
    BY <1>1, <1>2 DEF Deliveries
<1> QED
    BY <1>1, <1>2, <1>3 DEF Message

LEMMA GitHubSteps ==
    ASSUME TypeOK, SentInv, GitHub
    PROVE  /\ UNCHANGED <<recorded, hdl, rows, worker, index, reordered>>
           /\ gh' \in [inst : Insts \cup {0}, installs : Insts \cup {0}, granted : BOOLEAN,
                       dirs : Seq(DocsDir)]
           /\ Len(sent) < MaxEvents
           /\ \E m \in Message : Sends(m) /\ Event(m)
<1> DEFINE G == [inst : Insts \cup {0}, installs : Insts \cup {0}, granted : BOOLEAN,
                 dirs : Seq(DocsDir)]
<1>0. gh \in G /\ Tip \in Nat /\ Tip = Len(gh.dirs) /\ Tip' = Len(gh'.dirs)
    BY DEF TypeOK, Tip
<1> USE DEF Send, Sends, EventKind, Onboarding, Offboarding
<1>1. CASE Install
    <2> DEFINE i == gh.installs + 1
               m == [kind |-> "created", inst |-> i, at |-> Tip, touched |-> Manifest]
    <2>1. i \in Insts
        BY <1>0, <1>1 DEF Install, Insts
    <2>2. gh' \in G /\ gh'.dirs = gh.dirs
        BY <1>0, <1>1, <2>1 DEF Install
    <2>3. m \in Message /\ m.at = Tip
        BY <1>0, <2>1 DEF Message
    <2>4. Event(m)
        BY <1>0, <1>1, <2>1 DEF Event, Install
    <2>5. Sends(m)
        BY <1>0, <1>1, <2>2, <2>3 DEF Install
    <2> HIDE DEF m, Sends
    <2> QED
        BY <1>1, <2>2, <2>3, <2>4, <2>5 DEF Install
<1>2. CASE Uninstall
    <2> DEFINE m == [kind |-> "deleted", inst |-> gh.inst, at |-> Tip, touched |-> Manifest]
    <2>1. gh' \in G /\ gh'.dirs = gh.dirs
        BY <1>0, <1>2 DEF Uninstall
    <2>2. m \in Message /\ m.at = Tip
        BY <1>0, <1>2 DEF Message, Uninstall
    <2>4. Event(m)
        BY <1>0, <1>2 DEF Event, Uninstall
    <2>5. Sends(m)
        BY <1>0, <1>2, <2>1, <2>2 DEF Uninstall
    <2> HIDE DEF m, Sends
    <2> QED
        BY <1>2, <2>1, <2>2, <2>4, <2>5 DEF Uninstall
<1>3. CASE Grant
    <2> DEFINE m == [kind |-> "added", inst |-> gh.inst, at |-> Tip, touched |-> Manifest]
    <2>1. gh' \in G /\ gh'.dirs = gh.dirs
        BY <1>0, <1>3 DEF Grant
    <2>2. m \in Message /\ m.at = Tip
        BY <1>0, <1>3 DEF Message, Grant
    <2>4. Event(m)
        BY <1>0, <1>3 DEF Event, Grant
    <2>5. Sends(m)
        BY <1>0, <1>3, <2>1, <2>2 DEF Grant
    <2> HIDE DEF m, Sends
    <2> QED
        BY <1>3, <2>1, <2>2, <2>4, <2>5 DEF Grant
<1>4. CASE Revoke
    <2> DEFINE m == [kind |-> "removed", inst |-> gh.inst, at |-> Tip, touched |-> Manifest]
    <2>1. gh' \in G /\ gh'.dirs = gh.dirs
        BY <1>0, <1>4 DEF Revoke
    <2>2. m \in Message /\ m.at = Tip
        BY <1>0, <1>4 DEF Message, Revoke, SentInv
    <2>4. Event(m)
        BY <1>0, <1>4 DEF Event, Revoke, SentInv
    <2>5. Sends(m)
        BY <1>0, <1>4, <2>1, <2>2 DEF Revoke
    <2> HIDE DEF m, Sends
    <2> QED
        BY <1>4, <2>1, <2>2, <2>4, <2>5 DEF Revoke
<1>5. CASE Push
    <2> PICK dir \in DocsDir, touched \in Dirs \cup {Manifest} :
            /\ gh' = [gh EXCEPT !.dirs = Append(@, dir)]
            /\ Send("push", gh.inst, Tip + 1, touched)
        BY <1>5 DEF Push, DocsDir
    <2> DEFINE m == [kind |-> "push", inst |-> gh.inst, at |-> Tip + 1, touched |-> touched]
    <2>1. /\ gh' \in G /\ gh'.dirs = Append(gh.dirs, dir) /\ Tip' = Tip + 1
          /\ \A c \in 1 .. Tip : gh'.dirs[c] = gh.dirs[c]
        <3>1. gh'.dirs = Append(gh.dirs, dir) /\ Append(gh.dirs, dir) \in Seq(DocsDir)
            BY <1>0, AppendFacts
        <3>2. gh' \in G
            BY <1>0, <3>1
        <3>3. Tip' = Tip + 1 /\ \A c \in 1 .. Tip : gh'.dirs[c] = gh.dirs[c]
            BY <1>0, <3>1, AppendFacts
        <3> QED
            BY <3>1, <3>2, <3>3
    <2>2. gh.inst \in Insts /\ Tip + 1 \in Nat /\ "push" \in EventKind
        BY <1>0, <1>5 DEF Push, SentInv
    <2>3. m \in Message /\ m.at = Tip + 1
        BY <2>2 DEF Message
    <2>4. sent' = Append(sent, m) /\ Tip' \in Nat /\ Tip <= Tip'
        BY <1>0, <2>1
    <2>5. Sends(m)
        BY <2>1, <2>3, <2>4
    <2>6. Event(m)
        BY <1>0, <1>5 DEF Event, Push
    <2>7. \E x \in Message : Sends(x) /\ Event(x)
        <3> HIDE DEF m, Sends
        <3> QED
            BY <2>3, <2>5, <2>6
    <2> QED
        BY <2>1, <2>7
<1> QED
    BY <1>1, <1>2, <1>3, <1>4, <1>5 DEF GitHub

LEMMA SendFacts ==
    ASSUME TypeOK, NEW m \in Message, Sends(m)
    PROVE  /\ sent' \in Seq(Message) /\ Len(sent') = Len(sent) + 1 /\ Len(sent) \in Nat
           /\ DOMAIN sent = 1 .. Len(sent) /\ DOMAIN sent' = 1 .. Len(sent) + 1
           /\ \A d \in DOMAIN sent : sent'[d] = sent[d]
           /\ sent'[Len(sent) + 1] = m
           /\ m.kind \in EventKind /\ m.inst \in Insts /\ m.at \in Nat
<1>1. sent \in Seq(Message)
    BY DEF TypeOK, Message
<1>2. m.kind \in EventKind /\ m.inst \in Insts /\ m.at \in Nat
    BY DEF Message
<1> QED
    BY <1>1, <1>2, AppendFacts DEF Sends

-----------------------------------------------------------------------------
(* A handler moves its own attempt along, towards one answer.              *)
Moves(d, a) ==
    LET p == hdl[d][a].pc
        q == hdl'[d][a].pc
        k == sent[d].kind
    IN \/ p = "idle" /\ q \in {"route", "replayed", "refused"}
            /\ (q = "route" => d \notin recorded /\ d \in recorded')
       \/ p \in Routing /\ q = "error"
       \/ p = "route" /\ k = "push" /\ q \in {"unknown", "irrelevant", "enqueue"}
       \/ p = "route" /\ k \in Onboarding /\ q = "enqueue"
       \/ p = "enqueue" /\ q \in {"enqueued", "coalesced", "busy"}
       \/ p = "route" /\ k = "removed" /\ q \in {"absent", "purge"}
       \/ p = "route" /\ k = "deleted" /\ q = "delete"
       \/ p = "delete" /\ q \in {"offboarded", "purge"}
       \/ p = "purge" /\ q \in {"offboarded", "unpurged"}

(* The rest of what a handler may change.                                  *)
Effects(d, a) ==
    /\ hdl'[d][a].id \in {0, repo.id, hdl[d][a].id}
    /\ recorded \subseteq recorded' /\ recorded' \subseteq recorded \cup {d}
    /\ UNCHANGED <<gh, sent, nextId, run, lagged, moved, gaveUp>>
    /\ repo' \in {repo, NoRepo}
    /\ \/ job' = job
       \/ job.state = "none" /\ job' = [state |-> "queued", inst |-> sent[d].inst]
    /\ inst' \subseteq inst \cup {sent[d].inst} /\ index' \subseteq index
    /\ reordered' \in BOOLEAN /\ (reordered => reordered')

LEMMA HandlerSteps ==
    ASSUME TypeOK, NEW d \in Deliveries, NEW a \in Attempts, AttemptInv(d),
           Handler(d, a) \/ FailHandler(d, a)
    PROVE  /\ d \in DOMAIN sent
           /\ hdl' \in [Deliveries -> [Attempts -> [pc : HandlerState, id : Nat]]]
           /\ Others(d, a) /\ Moves(d, a) /\ Effects(d, a)
<1> DEFINE Attempt == [pc : HandlerState, id : Nat]
<1>0. /\ hdl \in [Deliveries -> [Attempts -> Attempt]] /\ hdl[d] \in [Attempts -> Attempt]
      /\ hdl[d][a] \in Attempt /\ repo.id \in Nat /\ reordered \in BOOLEAN
    BY DEF TypeOK
<1>1. ~At(d, a, "idle") => d \in DOMAIN sent
    BY DEF AttemptInv, Begun
<1>2. /\ {"route", "replayed", "refused", "error", "enqueue", "delete", "purge"} \subseteq HandlerState
      /\ {"unknown", "irrelevant", "enqueued", "coalesced", "busy"} \subseteq HandlerState
      /\ {"absent", "offboarded", "unpurged"} \subseteq HandlerState
    BY DEF HandlerState, Routing, Accepted
<1> USE DEF Effects, github, rows, worker, At
<1>g. ASSUME NEW pc \in HandlerState, GoTo(d, a, pc)
      PROVE  /\ hdl' \in [Deliveries -> [Attempts -> Attempt]] /\ Others(d, a)
             /\ hdl'[d][a].pc = pc /\ hdl'[d][a].id = hdl[d][a].id
    BY <1>0, <1>g, GoToFacts
<1> SUFFICES /\ d \in DOMAIN sent
             /\ hdl' \in [Deliveries -> [Attempts -> Attempt]]
             /\ Others(d, a) /\ Moves(d, a) /\ Effects(d, a)
    OBVIOUS
<1> HIDE DEF Attempt
<1>3. CASE Record(d, a)
    <2>1. /\ d \in DOMAIN sent /\ hdl[d][a].pc = "idle"
          /\ UNCHANGED <<github, rows, worker, index, reordered>>
        BY <1>3 DEF Record
    <2>2. CASE d \notin recorded /\ GoTo(d, a, "route") /\ recorded' = recorded \cup {d}
        BY <1>0, <1>2, <2>1, <2>2, <1>g DEF Moves
    <2>3. CASE d \in recorded /\ GoTo(d, a, "replayed") /\ UNCHANGED recorded
        BY <1>0, <1>2, <2>1, <2>3, <1>g DEF Moves
    <2>4. CASE GoTo(d, a, "refused") /\ recorded' \in {recorded, recorded \cup {d}}
        BY <1>0, <1>2, <2>1, <2>4, <1>g DEF Moves
    <2> QED
        BY <1>3, <2>2, <2>3, <2>4 DEF Record
<1>4. CASE FailHandler(d, a)
    <2>1. hdl[d][a].pc \in Routing /\ GoTo(d, a, "error")
        BY <1>4 DEF FailHandler
    <2>2. d \in DOMAIN sent
        BY <1>1, <2>1 DEF Routing
    <2> QED
        BY <1>0, <1>2, <1>4, <2>1, <2>2, <1>g DEF FailHandler, Moves
<1>5. CASE HandlePush(d, a)
    <2>1. PICK pc \in {"unknown", "irrelevant", "enqueue"} : GoTo(d, a, pc)
        BY <1>5 DEF HandlePush
    <2>2. hdl[d][a].pc = "route" /\ sent[d].kind = "push" /\ d \in DOMAIN sent
        BY <1>1, <1>5 DEF HandlePush
    <2>3. Effects(d, a)
        BY <1>0, <1>2, <1>5, <2>1, <1>g DEF HandlePush
    <2> QED
        BY <1>0, <1>2, <2>1, <2>2, <2>3, <1>g DEF Moves
<1>6. CASE UpsertInstallation(d, a)
    <2>1. reordered' \in BOOLEAN /\ (reordered => reordered')
        BY <1>0, <1>6 DEF UpsertInstallation, Late
    <2> QED
        BY <1>0, <1>1, <1>2, <1>6, <2>1, <1>g DEF UpsertInstallation, Moves
<1>7. CASE EnqueueIngest(d, a)
    <2>1. PICK pc \in {"enqueued", "coalesced", "busy"} : GoTo(d, a, pc)
        BY <1>7 DEF EnqueueIngest
    <2>2. hdl[d][a].pc = "enqueue" /\ d \in DOMAIN sent
        BY <1>1, <1>7 DEF EnqueueIngest
    <2>3. Effects(d, a)
        BY <1>0, <1>2, <1>7, <2>1, <1>g DEF EnqueueIngest
    <2> QED
        BY <1>0, <1>2, <2>1, <2>2, <2>3, <1>g DEF Moves
<1>8. CASE OffboardRepo(d, a)
    <2> DEFINE h == [pc |-> IF repo = NoRepo THEN "absent" ELSE "purge", id |-> repo.id]
    <2>1. h \in Attempt /\ h.id = repo.id /\ h.pc \in {"absent", "purge"}
        BY <1>0, <1>2 DEF Attempt
    <2>2. hdl' = [hdl EXCEPT ![d] = [hdl[d] EXCEPT ![a] = h]]
        BY <1>8 DEF OffboardRepo
    <2>3. hdl' \in [Deliveries -> [Attempts -> Attempt]] /\ Others(d, a) /\ hdl'[d][a] = h
        <3> HIDE DEF h
        <3> QED
            BY <1>0, <2>1, <2>2 DEF Others
    <2>4. hdl[d][a].pc = "route" /\ sent[d].kind = "removed" /\ d \in DOMAIN sent
        BY <1>1, <1>8 DEF OffboardRepo
    <2>5. reordered' \in BOOLEAN /\ (reordered => reordered')
        BY <1>0, <1>8 DEF OffboardRepo, Late
    <2>6. Effects(d, a)
        BY <1>8, <2>1, <2>3, <2>5 DEF OffboardRepo
    <2> QED
        BY <2>1, <2>3, <2>4, <2>6 DEF Moves
<1>9. CASE ListRepoIDs(d, a)
    <2> DEFINE h == [pc |-> "delete", id |-> IF OfInstallation(sent[d].inst) THEN repo.id ELSE 0]
    <2>1. h \in Attempt /\ h.id \in {0, repo.id} /\ h.pc = "delete"
        BY <1>0, <1>2 DEF Attempt
    <2>2. hdl' = [hdl EXCEPT ![d] = [hdl[d] EXCEPT ![a] = h]]
        BY <1>9 DEF ListRepoIDs
    <2>3. hdl' \in [Deliveries -> [Attempts -> Attempt]] /\ Others(d, a) /\ hdl'[d][a] = h
        <3> HIDE DEF h
        <3> QED
            BY <1>0, <2>1, <2>2 DEF Others
    <2>4. hdl[d][a].pc = "route" /\ sent[d].kind = "deleted" /\ d \in DOMAIN sent
        BY <1>1, <1>9 DEF ListRepoIDs
    <2>5. Effects(d, a)
        BY <1>0, <1>9, <2>1, <2>3 DEF ListRepoIDs
    <2> QED
        BY <2>1, <2>3, <2>4, <2>5 DEF Moves
<1>10. CASE DeleteInstallation(d, a)
    <2>1. PICK pc \in {"offboarded", "purge"} : GoTo(d, a, pc)
        BY <1>10 DEF DeleteInstallation
    <2>2. hdl[d][a].pc = "delete" /\ d \in DOMAIN sent
        BY <1>1, <1>10 DEF DeleteInstallation
    <2>3. reordered' \in BOOLEAN /\ (reordered => reordered')
        BY <1>0, <1>10 DEF DeleteInstallation, Late
    <2>4. Effects(d, a)
        BY <1>0, <1>2, <1>10, <2>1, <2>3, <1>g DEF DeleteInstallation
    <2> QED
        BY <1>0, <1>2, <2>1, <2>2, <2>4, <1>g DEF Moves
<1>11. CASE PurgeIndex(d, a)
    <2>1. PICK pc \in {"offboarded", "unpurged"} : GoTo(d, a, pc)
        BY <1>11 DEF PurgeIndex
    <2>2. hdl[d][a].pc = "purge" /\ d \in DOMAIN sent
        BY <1>1, <1>11 DEF PurgeIndex
    <2>3. Effects(d, a)
        BY <1>0, <1>2, <1>11, <2>1, <1>g DEF PurgeIndex
    <2> QED
        BY <1>0, <1>2, <2>1, <2>2, <2>3, <1>g DEF Moves
<1> QED
    BY <1>3, <1>4, <1>5, <1>6, <1>7, <1>8, <1>9, <1>10, <1>11 DEF Handler

-----------------------------------------------------------------------------
(* Types. *)
RepoType == [id : Nat, inst : Insts \cup {0}, head : Nat, dir : DocsDir]

JobType == [state : {"none", "queued", "active"}, inst : Insts \cup {0}]

RunType == [pc : {"idle", "started", "fetched", "committed", "read"},
            inst : Insts \cup {0}, head : Nat, dir : DocsDir, id : Nat, upserted : BOOLEAN]

LEMMA Zeros ==
    NoRepo \in RepoType /\ NoRun \in RunType /\ [state |-> "none", inst |-> 0] \in JobType
BY DEF NoRepo, NoRun, RepoType, RunType, JobType, DocsDir

LEMMA HandlerTypeOK ==
    ASSUME TypeOK, NEW d \in Deliveries, NEW a \in Attempts, AttemptInv(d),
           Handler(d, a) \/ FailHandler(d, a)
    PROVE  TypeOK'
<1>1. /\ d \in DOMAIN sent /\ Effects(d, a)
      /\ hdl' \in [Deliveries -> [Attempts -> [pc : HandlerState, id : Nat]]]
    BY HandlerSteps
<1>2. sent[d].inst \in Insts
    BY <1>1, SentTypes
<1>3. repo' \in RepoType
    BY <1>1, Zeros DEF TypeOK, Effects, RepoType
<1>4. [state |-> "queued", inst |-> sent[d].inst] \in JobType
    BY <1>2 DEF JobType
<1>5. job' \in JobType
    BY <1>1, <1>4 DEF TypeOK, Effects, JobType
<1>6. /\ inst \subseteq Insts /\ recorded \subseteq DOMAIN sent
      /\ index \subseteq Nat /\ lagged \subseteq Nat /\ moved \subseteq Nat
    BY DEF TypeOK
<1>7. /\ inst' \subseteq Insts /\ recorded' \subseteq DOMAIN sent
      /\ index' \subseteq Nat /\ reordered' \in BOOLEAN
    BY <1>1, <1>2, <1>6 DEF Effects
<1>8. UNCHANGED <<gh, sent, nextId, run, lagged, moved, gaveUp>>
    BY <1>1 DEF Effects
<1>9. index' \cup lagged' \cup moved' \subseteq Nat
    BY <1>6, <1>7, <1>8
<1> QED
    BY <1>1, <1>3, <1>5, <1>7, <1>8, <1>9 DEF TypeOK, RepoType, JobType

LEMMA GitHubTypeOK ==
    ASSUME TypeOK, SentInv, GitHub
    PROVE  TypeOK'
<1>1. PICK m \in Message : Sends(m)
    BY GitHubSteps
<1>2. /\ sent' \in Seq(Message) /\ Len(sent') <= MaxEvents /\ DOMAIN sent \subseteq DOMAIN sent'
      /\ UNCHANGED <<recorded, hdl, rows, worker, index, reordered>>
      /\ gh' \in [inst : Insts \cup {0}, installs : Insts \cup {0}, granted : BOOLEAN,
                  dirs : Seq(DocsDir)]
    BY <1>1, GitHubSteps, SendFacts
<1> QED
    BY <1>2 DEF TypeOK, Message, rows, worker

(* What a run may change. *)
LEMMA RunTypeOK ==
    ASSUME TypeOK, SentInv, Run
    PROVE  TypeOK'
<1>1. /\ gh.dirs \in Seq(DocsDir) /\ Tip = Len(gh.dirs) /\ repo \in RepoType /\ job \in JobType
      /\ run \in RunType /\ nextId \in Nat /\ gaveUp \in BOOLEAN /\ inst \subseteq Insts
      /\ index \subseteq Nat /\ lagged \subseteq Nat /\ moved \subseteq Nat
    BY DEF TypeOK, RepoType, JobType, RunType, Tip
<1>2. job.inst \in Insts \cup {0} /\ run.id \in Nat /\ repo.id \in Nat
    BY <1>1 DEF RunType, JobType, RepoType
<1>3. SUFFICES /\ UNCHANGED <<github, recorded, hdl, inst, reordered>>
               /\ repo' \in RepoType /\ job' \in JobType /\ run' \in RunType
               /\ nextId' \in Nat /\ gaveUp' \in BOOLEAN
               /\ index' \subseteq Nat /\ lagged' \subseteq Nat /\ moved' \subseteq Nat
    BY DEF TypeOK, github, RepoType, JobType, RunType
<1> USE DEF github, rows
<1>4. CASE StartRun
    <2>1. job' \in JobType
        BY <1>1, <1>4 DEF StartRun, JobType
    <2>2. run' \in RunType
        BY <1>2, <1>4, Zeros DEF StartRun, RunType
    <2> QED
        BY <1>1, <1>4, <2>1, <2>2 DEF StartRun
<1>5. CASE Fetch
    <2>1. Tip \in Nat /\ gh.dirs[Tip] \in DocsDir
        BY <1>1 DEF SentInv
    <2>2. run' \in RunType
        BY <1>1, <1>5, <2>1 DEF Fetch, RunType
    <2> QED
        BY <1>1, <1>5, <2>2 DEF Fetch
<1>6. CASE Commit
    <2> PICK id \in Nat :
            /\ repo' = [id |-> id, inst |-> run.inst, head |-> run.head, dir |-> run.dir]
            /\ run' = [run EXCEPT !.pc = "committed", !.id = id, !.upserted = (id = nextId)]
        BY <1>1, <1>2, <1>6 DEF Commit
    <2> PICK b \in BOOLEAN : b = (id = nextId)
        BY Zenon
    <2>1. repo' \in RepoType
        BY <1>1 DEF RepoType, RunType
    <2>2. [run EXCEPT !.pc = "committed", !.id = id, !.upserted = b] \in RunType
        BY <1>1 DEF RunType
    <2>4. run' \in RunType
        BY <2>2, Zenon
    <2>3. nextId' \in {nextId, nextId + 1} /\ gaveUp' \in BOOLEAN
        BY <1>6 DEF Commit, AdvancedSequence
    <2>7. nextId' \in Nat
        BY <1>1, <2>3
    <2>5. moved' \in {moved, moved \cup {repo.id}}
        BY <1>6 DEF Commit
    <2>6. moved' \subseteq Nat
        BY <1>1, <1>2, <2>5
    <2> QED
        BY <1>1, <1>6, <2>1, <2>3, <2>4, <2>6, <2>7 DEF Commit
<1>7. CASE ReadRows
    <2>1. run' \in RunType
        BY <1>1, <1>7 DEF ReadRows, RunType
    <2> QED
        BY <1>1, <1>7, <2>1 DEF ReadRows
<1>8. CASE IndexDocuments
    BY <1>1, <1>2, <1>8, Zeros DEF IndexDocuments
<1>9. CASE FailRun
    <2>1. [job EXCEPT !.state = "queued"] \in JobType
        BY <1>1 DEF JobType
    <2>2. job' \in JobType /\ gaveUp' \in BOOLEAN
        BY <1>1, <1>9, <2>1, Zeros DEF FailRun
    <2> QED
        BY <1>1, <1>2, <1>9, <2>2, Zeros DEF FailRun
<1> QED
    BY <1>4, <1>5, <1>6, <1>7, <1>8, <1>9 DEF Run

-----------------------------------------------------------------------------
(* What GitHub does keeps the order of its deliveries, ...                 *)
LEMMA SendKeepsOrder ==
    ASSUME TypeOK, SentInv, NEW m \in Message, Sends(m),
           gh.installs \in Nat, gh'.installs \in Nat, gh'.inst \in Nat,
           gh.installs <= gh'.installs, m.inst <= gh'.installs, gh'.inst <= gh'.installs,
           gh'.granted => gh'.inst # 0,
           m.kind = "deleted" => m.inst # gh'.inst,
           \A d \in DOMAIN sent : sent[d].kind = "deleted" =>
             sent[d].inst # gh'.inst /\ sent[d].inst # m.inst,
           gh'.granted => m.kind \in Onboarding \/ (gh.granted /\ m.kind \notin Offboarding)
    PROVE  SentInv'
<1> PICK n \in Nat : n = Len(sent) + 1
    BY SendFacts
<1>1. /\ Len(sent) \in Nat /\ DOMAIN sent = 1 .. Len(sent) /\ DOMAIN sent' = 1 .. n
      /\ \A d \in DOMAIN sent : sent'[d] = sent[d]
      /\ sent'[n] = m /\ m.at \in Nat /\ m.inst \in Nat
    BY SendFacts DEF Insts
<1>2. Tip \in Nat /\ Tip' \in Nat /\ Tip <= Tip' /\ m.at = Tip' /\ Tip >= 1
    <2>1. gh.dirs \in Seq(DocsDir)
        BY DEF TypeOK
    <2> QED
        BY <2>1 DEF Sends, SentInv, Tip
<1>3. \A d \in DOMAIN sent : sent[d].inst \in Nat /\ sent[d].at \in 1 .. Tip
    BY SentTypes DEF SentInv, Insts
<1>4. ASSUME NEW d \in DOMAIN sent'
      PROVE  /\ sent'[d].inst <= gh'.installs /\ sent'[d].at \in 1 .. Tip'
             /\ sent'[d].kind = "deleted" => sent'[d].inst # gh'.inst
    <2>1. CASE d = n
        BY <1>1, <1>2, <2>1
    <2>2. CASE d \in DOMAIN sent
        <3>1. sent'[d] = sent[d] /\ sent[d].inst <= gh.installs
            BY <1>1, <2>2 DEF SentInv
        <3>2. sent[d].inst \in Nat /\ sent[d].at \in 1 .. Tip
            BY <1>3, <2>2
        <3>3. sent[d].inst <= gh'.installs /\ sent[d].at \in 1 .. Tip'
            BY <1>2, <3>1, <3>2
        <3> QED
            BY <2>2, <3>1, <3>3
    <2> QED
        BY <1>1, <1>4, <2>1, <2>2
<1>5. ASSUME NEW d \in DOMAIN sent', NEW e \in DOMAIN sent', d < e
      PROVE  /\ sent'[d].at <= sent'[e].at
             /\ sent'[d].kind = "deleted" => sent'[e].inst # sent'[d].inst
    <2>1. d \in DOMAIN sent
        BY <1>1, <1>5
    <2>2. CASE e = n
        BY <1>1, <1>2, <1>3, <2>1, <2>2
    <2>3. CASE e \in DOMAIN sent
        BY <1>1, <1>5, <2>1, <2>3 DEF SentInv
    <2> QED
        BY <1>1, <1>5, <2>2, <2>3
<1>6. ASSUME gh'.granted PROVE \E d \in DOMAIN sent' : Last(d)'
    <2>1. CASE m.kind \in Onboarding
        <3>1. Last(n)'
            BY <1>1, <2>1 DEF Last
        <3> QED
            BY <1>1, <3>1
    <2>2. CASE gh.granted /\ m.kind \notin Offboarding
        <3> PICK d \in DOMAIN sent : Last(d)
            BY <2>2 DEF SentInv
        <3>1. d \in DOMAIN sent' /\ sent'[d].kind \in Onboarding
            BY <1>1 DEF Last
        <3>2. ASSUME NEW e \in DOMAIN sent', e > d PROVE sent'[e].kind \notin Offboarding
            BY <1>1, <2>2, <3>2 DEF Last
        <3> QED
            BY <3>1, <3>2 DEF Last
    <2> QED
        BY <1>6, <2>1, <2>2
<1> QED
    BY <1>2, <1>4, <1>5, <1>6 DEF SentInv

LEMMA GitHubSentInv ==
    ASSUME TypeOK, SentInv, GitHub
    PROVE  SentInv'
<1> PICK m \in Message : Sends(m) /\ Event(m)
    BY GitHubSteps
<1>0. /\ gh.inst \in Insts \cup {0} /\ gh.installs \in Insts \cup {0}
      /\ gh'.inst \in Insts \cup {0} /\ gh'.installs \in Insts \cup {0}
    <2>1. gh' \in [inst : Insts \cup {0}, installs : Insts \cup {0}, granted : BOOLEAN,
                   dirs : Seq(DocsDir)]
        BY GitHubSteps
    <2> QED
        BY <2>1 DEF TypeOK
<1>1. /\ gh.inst \in Nat /\ gh.installs \in Nat /\ gh.inst <= gh.installs
      /\ gh'.inst \in Nat /\ gh'.installs \in Nat
    BY <1>0 DEF SentInv, Insts
<1>2. \A d \in DOMAIN sent :
        /\ sent[d].inst \in Nat \ {0} /\ sent[d].inst <= gh.installs
        /\ sent[d].kind = "deleted" => sent[d].inst # gh.inst
    BY SentTypes DEF SentInv, Insts
<1>3. gh.granted => gh.inst # 0
    BY DEF SentInv
<1>4. gh.inst # 0 \/ m.kind \in {"created", "removed"}
    BY <1>3 DEF Event
<1>5. gh'.granted => gh'.inst # 0
    BY <1>1, <1>3 DEF Event
<1> QED
    BY <1>1, <1>2, <1>3, <1>5, SendKeepsOrder DEF Event, Onboarding, Offboarding

(* ... and asks nothing of a row, a run or an answered delivery.           *)
LEMMA GitHubIInv ==
    ASSUME IInv, GitHub
    PROVE  IInv'
<1> PICK m \in Message : Sends(m) /\ Event(m)
    BY GitHubSteps DEF IInv
<1> PICK n \in Nat : n = Len(sent) + 1
    BY SendFacts DEF IInv
<1>1. TypeOK /\ SentInv /\ RowInv /\ RunInv /\ LiveRowIndexed
    BY DEF IInv
<1>2. /\ UNCHANGED <<recorded, hdl, rows, worker, index, reordered>>
      /\ n \in Deliveries
    <2>1. Len(sent) < MaxEvents /\ UNCHANGED <<recorded, hdl, rows, worker, index, reordered>>
        BY <1>1, GitHubSteps
    <2> QED
        BY <1>1, <2>1, SendFacts DEF Deliveries
<1>3. /\ DOMAIN sent = 1 .. Len(sent) /\ Len(sent) \in Nat /\ DOMAIN sent' = 1 .. n
      /\ \A d \in DOMAIN sent : sent'[d] = sent[d]
      /\ sent'[n] = m
    BY <1>1, SendFacts
<1>4. /\ Tip \in Nat /\ Tip' \in Nat /\ Tip <= Tip' /\ \A c \in 1 .. Tip : gh'.dirs[c] = gh.dirs[c]
      /\ DOMAIN gh.dirs = 1 .. Tip /\ DOMAIN gh'.dirs = 1 .. Tip'
    <2>1. gh.dirs \in Seq(DocsDir)
        BY <1>1 DEF TypeOK
    <2>2. gh'.dirs \in Seq(DocsDir)
        <3>1. gh' \in [inst : Insts \cup {0}, installs : Insts \cup {0}, granted : BOOLEAN,
                       dirs : Seq(DocsDir)]
            BY <1>1, GitHubSteps
        <3> QED
            BY <3>1
    <2> QED
        BY <2>1, <2>2 DEF Sends, Tip
<1>5. TypeOK' /\ SentInv'
    BY <1>1, GitHubTypeOK, GitHubSentInv
<1>6. \A a \in Attempts : hdl[n][a].pc = "idle"
    <2>1. AttemptInv(n) /\ n \notin DOMAIN sent
        BY <1>2, <1>3 DEF IInv
    <2> QED
        BY <2>1 DEF AttemptInv, Begun, At
<1> USE DEF rows, worker
<1>7. RowInv'
    <2>1. repo.head \in Nat
        BY <1>1 DEF TypeOK
    <2>2. repo' = repo /\ nextId' = nextId /\ repo.head <= Tip'
        BY <1>1, <1>2, <1>4, <2>1 DEF RowInv
    <2>3. repo # NoRepo => \E c \in DOMAIN gh'.dirs : repo.dir = gh'.dirs[c]
        BY <1>1, <1>4 DEF RowInv
    <2> QED
        BY <1>1, <2>2, <2>3 DEF RowInv
<1>8. RunInv'
    <2>1. run.head \in Nat
        BY <1>1 DEF TypeOK
    <2>2. /\ run' = run /\ job' = job /\ repo' = repo /\ index' = index /\ lagged' = lagged
          /\ moved' = moved
        BY <1>2
    <2>3. run.pc = "fetched" => run.head \in 1 .. Tip' /\ run.dir = gh'.dirs[run.head]
        BY <1>1, <1>4, <2>1 DEF RunInv
    <2> QED
        BY <1>1, <2>2, <2>3 DEF RunInv
<1>9. LiveRowIndexed'
    BY <1>1, <1>2 DEF LiveRowIndexed
<1>10. ASSUME NEW d \in Deliveries PROVE AttemptInv(d)'
    <2>1. AttemptInv(d) /\ (d \in DOMAIN sent => d \in DOMAIN sent')
        BY <1>3 DEF IInv
    <2> QED
        BY <1>2, <2>1 DEF AttemptInv, Begun, At, Past
<1>11. Awaited => Awaited' \/ ~gh'.granted
    <2> SUFFICES ASSUME Awaited, gh'.granted PROVE Awaited'
        OBVIOUS
    <2>1. CASE m.kind = "push"
        <3> PICK d \in DOMAIN sent : Last(d) /\ ~Taken(d)
            BY DEF Awaited
        <3>1. d \in DOMAIN sent' /\ sent'[d] = sent[d]
            BY <1>3
        <3>2. ASSUME NEW e \in DOMAIN sent', e > d PROVE sent'[e].kind \notin Offboarding
            BY <1>3, <2>1, <3>2 DEF Last, Offboarding
        <3>3. Last(d)' /\ ~Taken(d)'
            BY <1>2, <3>1, <3>2 DEF Last, Taken, AnsweredBy, Answer
        <3> QED
            BY <3>1, <3>3 DEF Awaited
    <2>2. CASE m.kind \in Onboarding
        <3>1. Last(n)' /\ n \in DOMAIN sent'
            BY <1>3, <2>2 DEF Last
        <3>2. ~Taken(n)'
            BY <1>2, <1>6 DEF Taken, AnsweredBy, Answer
        <3> QED
            BY <3>1, <3>2 DEF Awaited
    <2> QED
        BY <2>1, <2>2 DEF Event, Onboarding
<1>12. ~gh.granted => Awaited' \/ ~gh'.granted
    <2> SUFFICES ASSUME ~gh.granted, gh'.granted PROVE Awaited'
        OBVIOUS
    <2>1. m.kind \in Onboarding
        BY DEF Event, Onboarding
    <2>2. Last(n)' /\ n \in DOMAIN sent'
        BY <1>3, <2>1 DEF Last
    <2>3. ~Taken(n)'
        BY <1>2, <1>6 DEF Taken, AnsweredBy, Answer
    <2> QED
        BY <2>2, <2>3 DEF Awaited
<1>13. ASSUME NEW d \in DOMAIN sent'
       PROVE  /\ \A a \in Attempts : KindInv(d, a)' /\ PurgeInv(d, a)'
              /\ UninstallInv(d)' /\ CoverInv(d)' /\ JudgedInv(d)'
    <2> USE DEF AnsweredBy, Answer, Taken
    <2>1. CASE d = n
        <3>1. \A a \in Attempts : hdl'[d][a].pc = "idle"
            BY <1>2, <1>6, <2>1
        <3> QED
            BY <3>1 DEF KindInv, PurgeInv, UninstallInv, CoverInv, JudgedInv, At
    <2>2. CASE d \in DOMAIN sent
        <3>1. /\ \A a \in Attempts : KindInv(d, a) /\ PurgeInv(d, a)
              /\ UninstallInv(d) /\ CoverInv(d) /\ JudgedInv(d)
              /\ sent'[d] = sent[d]
            BY <1>3, <2>2 DEF IInv
        <3>2. \A a \in Attempts : KindInv(d, a)' /\ PurgeInv(d, a)'
            BY <1>2, <3>1 DEF KindInv, PurgeInv, At
        <3>3. UninstallInv(d)'
            BY <1>2, <3>1 DEF UninstallInv, OfInstallation
        <3>4. CoverInv(d)'
            BY <1>2, <1>11, <1>12, <3>1 DEF CoverInv, Covered
        <3>5. JudgedInv(d)'
            BY <1>2, <1>4, <3>1 DEF JudgedInv
        <3> QED
            BY <3>2, <3>3, <3>4, <3>5
    <2> QED
        BY <1>3, <2>1, <2>2
<1> QED
    BY <1>5, <1>7, <1>8, <1>9, <1>10, <1>13 DEF IInv

-----------------------------------------------------------------------------
(* What each handler leaves behind.                                        *)
Outcome(d, a) ==
    LET p == hdl[d][a].pc
        q == hdl'[d][a].pc
        k == sent[d].kind
        i == sent[d].inst
    IN /\ index' # index => p = "purge" /\ index' = index \ {hdl[d][a].id}
       /\ repo' # repo => k \in Offboarding /\ (Late(d, Onboarding) => reordered')
       /\ ~(inst' \subseteq inst) => k \in Onboarding /\ (Late(d, Offboarding) => reordered')
       /\ q = "delete" => hdl'[d][a].id = 0 \/ repo.inst = i
       /\ q = "purge" => repo' = NoRepo \/ (p = "delete" /\ hdl'[d][a].id = hdl[d][a].id)
       /\ p = "delete" /\ q # "error" => i \notin inst' /\ ~OfInstallation(i)'
       /\ q \in {"enqueued", "coalesced"} => job'.state = "queued"
       /\ q = "irrelevant" => repo # NoRepo /\ ~ShouldIngest(sent[d].touched, repo.dir)

LEMMA HandlerOutcomes ==
    ASSUME TypeOK, NEW d \in Deliveries, NEW a \in Attempts, AttemptInv(d), KindInv(d, a),
           Handler(d, a) \/ FailHandler(d, a)
    PROVE  Outcome(d, a)
<1>1. /\ hdl \in [Deliveries -> [Attempts -> [pc : HandlerState, id : Nat]]]
      /\ d \in DOMAIN sent
    BY HandlerSteps DEF TypeOK
<1>2. /\ {"route", "replayed", "refused", "error", "enqueue", "delete", "purge"} \subseteq HandlerState
      /\ {"unknown", "irrelevant", "enqueued", "coalesced", "busy"} \subseteq HandlerState
      /\ {"absent", "offboarded", "unpurged"} \subseteq HandlerState
    BY DEF HandlerState, Routing, Accepted
<1>g. ASSUME NEW pc \in HandlerState, GoTo(d, a, pc)
      PROVE  hdl'[d][a].pc = pc /\ hdl'[d][a].id = hdl[d][a].id
    BY <1>1, <1>g, GoToFacts
<1>h. ASSUME NEW h, hdl' = [hdl EXCEPT ![d][a] = h] PROVE hdl'[d][a] = h
    BY <1>1, <1>h
<1> USE DEF Outcome, github, rows, worker, At
<1>3. CASE Record(d, a)
    <2> PICK pc \in {"route", "replayed", "refused"} : GoTo(d, a, pc)
        BY <1>3 DEF Record
    <2> QED
        BY <1>2, <1>3, <1>g DEF Record
<1>4. CASE FailHandler(d, a)
    <2>1. hdl'[d][a].pc = "error"
        BY <1>2, <1>4, <1>g DEF FailHandler
    <2> QED
        BY <1>4, <2>1 DEF FailHandler
<1>5. CASE HandlePush(d, a)
    <2>1. CASE repo # NoRepo /\ ~Relevant(d) /\ GoTo(d, a, "irrelevant")
        BY <1>2, <1>5, <1>g, <2>1 DEF HandlePush, Relevant
    <2>2. CASE GoTo(d, a, "unknown") \/ GoTo(d, a, "enqueue")
        BY <1>2, <1>5, <1>g, <2>2 DEF HandlePush
    <2> QED
        BY <1>5, <2>1, <2>2 DEF HandlePush
<1>6. CASE UpsertInstallation(d, a)
    BY <1>2, <1>6, <1>g DEF UpsertInstallation
<1>7. CASE EnqueueIngest(d, a)
    <2>1. PICK pc \in {"enqueued", "coalesced", "busy"} :
            GoTo(d, a, pc) /\ (pc # "busy" => job'.state = "queued")
        BY <1>7 DEF EnqueueIngest
    <2> QED
        BY <1>2, <1>7, <1>g, <2>1 DEF EnqueueIngest
<1>8. CASE OffboardRepo(d, a)
    <2> PICK h : h = [pc |-> IF repo = NoRepo THEN "absent" ELSE "purge", id |-> repo.id]
        OBVIOUS
    <2>1. hdl'[d][a] = h /\ h.pc \in {"absent", "purge"}
        BY <1>8, <1>h DEF OffboardRepo
    <2>2. /\ repo' = NoRepo /\ sent[d].kind \in Offboarding /\ (Late(d, Onboarding) => reordered')
          /\ hdl[d][a].pc = "route" /\ UNCHANGED <<index, inst>>
        BY <1>8 DEF OffboardRepo, Offboarding
    <2> QED
        BY <2>1, <2>2
<1>9. CASE ListRepoIDs(d, a)
    <2> PICK h : h = [pc |-> "delete",
                      id |-> IF OfInstallation(sent[d].inst) THEN repo.id ELSE 0]
        OBVIOUS
    <2>1. hdl'[d][a] = h /\ h.pc = "delete" /\ (h.id = 0 \/ repo.inst = sent[d].inst)
        BY <1>9, <1>h DEF ListRepoIDs, OfInstallation
    <2>2. hdl[d][a].pc = "route" /\ UNCHANGED <<index, rows>>
        BY <1>9 DEF ListRepoIDs
    <2> QED
        BY <2>1, <2>2
<1>10. CASE DeleteInstallation(d, a)
    <2>1. PICK pc \in {"offboarded", "purge"} : GoTo(d, a, pc)
        BY <1>10 DEF DeleteInstallation
    <2>2. hdl'[d][a].pc = pc /\ hdl'[d][a].id = hdl[d][a].id
        BY <1>2, <1>g, <2>1
    <2>3. sent[d].inst \notin inst' /\ ~OfInstallation(sent[d].inst)'
        BY <1>10 DEF DeleteInstallation, OfInstallation
    <2>4. /\ UNCHANGED index /\ hdl[d][a].pc = "delete" /\ inst' \subseteq inst
          /\ Late(d, Onboarding) => reordered'
        BY <1>10 DEF DeleteInstallation
    <2>5. sent[d].kind \in Offboarding \/ repo' = repo
        BY <1>10 DEF DeleteInstallation, KindInv, Offboarding
    <2> QED
        BY <2>2, <2>3, <2>4, <2>5
<1>11. CASE PurgeIndex(d, a)
    <2>1. PICK pc \in {"offboarded", "unpurged"} : GoTo(d, a, pc)
        BY <1>11 DEF PurgeIndex
    <2> QED
        BY <1>2, <1>11, <1>g, <2>1 DEF PurgeIndex
<1> QED
    BY <1>3, <1>4, <1>5, <1>6, <1>7, <1>8, <1>9, <1>10, <1>11 DEF Handler

LEMMA HandlerIInv ==
    ASSUME IInv, NEW d \in Deliveries, NEW a \in Attempts,
           Handler(d, a) \/ FailHandler(d, a)
    PROVE  IInv'
<1>1. /\ TypeOK /\ SentInv /\ RowInv /\ RunInv /\ LiveRowIndexed
      /\ \A e \in Deliveries : AttemptInv(e)
    BY DEF IInv
<1>2. d \in DOMAIN sent /\ Others(d, a) /\ Moves(d, a) /\ Effects(d, a)
    BY <1>1, HandlerSteps
<1>3. Outcome(d, a) /\ KindInv(d, a) /\ PurgeInv(d, a)
    BY <1>1, <1>2, HandlerOutcomes DEF IInv
<1>4. TypeOK'
    BY <1>1, HandlerTypeOK
<1>5. gh' = gh /\ sent' = sent /\ Tip' = Tip /\ nextId' = nextId /\ run' = run
    BY <1>2 DEF Effects, Tip
<1>6. lagged' = lagged /\ moved' = moved /\ gaveUp' = gaveUp
    BY <1>2 DEF Effects
<1>7. repo.id \in Nat /\ repo.head \in Nat /\ nextId \in Nat /\ hdl[d][a].id \in Nat
    BY <1>1 DEF TypeOK
<1>8. \A e \in DOMAIN sent : e \in Deliveries
    BY <1>1, SentTypes
<1>9. \A e \in Deliveries, b \in Attempts : (e = d /\ b = a) \/ hdl'[e][b] = hdl[e][b]
    BY <1>2 DEF Others
<1>10. SentInv'
    <2>1. \A e : Last(e)' = Last(e)
        BY <1>5 DEF Last
    <2> QED
        BY <1>1, <1>5, <2>1 DEF SentInv
<1>11. RowInv'
    <2>1. Tip \in Nat
        BY <1>1 DEF TypeOK, Tip
    <2>2. CASE repo' = repo
        BY <1>1, <1>5, <2>2 DEF RowInv
    <2>3. CASE repo' = NoRepo
        <3>1. repo'.id = 0 /\ repo'.head = 0
            BY <2>3 DEF NoRepo
        <3> QED
            BY <1>1, <1>5, <1>7, <2>1, <2>3, <3>1 DEF RowInv
    <2> QED
        BY <1>2, <2>2, <2>3 DEF Effects
<1>12. repo' # NoRepo => repo' = repo /\ (repo.id \in index => repo.id \in index' \cup moved)
    BY <1>2, <1>3 DEF Effects, Outcome, PurgeInv, At
<1>13. RunInv'
    <2>1. run.pc = "idle" <=> job'.state # "active"
        BY <1>1, <1>2 DEF RunInv, Effects
    <2>2. run.pc = "fetched" => repo'.head <= run.head
        <3>1. run.head \in Nat
            BY <1>1 DEF TypeOK
        <3> QED
            BY <1>1, <1>2, <1>7, <3>1 DEF RunInv, Effects, NoRepo
    <2> QED
        BY <1>1, <1>5, <1>6, <1>12, <2>1, <2>2 DEF RunInv
<1>14. LiveRowIndexed'
    BY <1>1, <1>5, <1>6, <1>12 DEF LiveRowIndexed
<1>15. ASSUME NEW e \in Deliveries PROVE AttemptInv(e)'
    <2>1. AttemptInv(e) /\ recorded \subseteq recorded'
        BY <1>1, <1>2 DEF Effects
    <2>2. Past(d, a)' => Past(d, a) \/ (d \notin recorded /\ d \in recorded')
        BY <1>2 DEF Moves, Past, Routing, Accepted
    <2>3. ASSUME NEW b \in Attempts PROVE hdl'[e][b].id < nextId
        <3>1. hdl[e][b].id < nextId
            BY <2>1 DEF AttemptInv
        <3>2. repo.id < nextId /\ 0 < nextId
            BY <1>1, <1>7 DEF RowInv
        <3> QED
            BY <1>2, <1>9, <3>1, <3>2 DEF Effects
    <2>4. ASSUME NEW b \in Attempts, Past(e, b)' PROVE e \in recorded'
        BY <1>9, <2>1, <2>2, <2>4 DEF AttemptInv, Past
    <2>5. ASSUME NEW b \in Attempts, NEW c \in Attempts, Past(e, b)', Past(e, c)' PROVE b = c
        <3>1. CASE Past(e, b) /\ Past(e, c)
            BY <2>1, <3>1 DEF AttemptInv
        <3>2. CASE Past(e, b) /\ ~Past(e, c)
            BY <1>9, <2>1, <2>2, <2>5, <3>2 DEF AttemptInv, Past
        <3>3. CASE ~Past(e, b) /\ Past(e, c)
            BY <1>9, <2>1, <2>2, <2>5, <3>3 DEF AttemptInv, Past
        <3>4. CASE ~Past(e, b) /\ ~Past(e, c)
            BY <1>9, <2>5, <3>4 DEF Past
        <3> QED
            BY <3>1, <3>2, <3>3, <3>4
    <2>6. e \notin DOMAIN sent => ~Begun(e)'
        BY <1>2, <1>9, <2>1 DEF AttemptInv, Begun, At
    <2> QED
        BY <1>5, <2>3, <2>4, <2>5, <2>6 DEF AttemptInv
<1>16. ASSUME NEW e \in DOMAIN sent, NEW b \in Attempts PROVE KindInv(e, b)'
    <2>1. KindInv(e, b) /\ e \in Deliveries
        BY <1>8 DEF IInv
    <2>2. CASE e = d /\ b = a
        BY <1>2, <1>3, <1>5, <2>2 DEF KindInv, Moves, Routing, Onboarding, Offboarding
    <2>3. CASE hdl'[e][b] = hdl[e][b]
        BY <1>5, <2>1, <2>3 DEF KindInv
    <2> QED
        BY <1>9, <2>1, <2>2, <2>3
<1>17. ASSUME NEW e \in DOMAIN sent, NEW b \in Attempts PROVE PurgeInv(e, b)'
    <2>1. PurgeInv(e, b) /\ e \in Deliveries
        BY <1>8 DEF IInv
    <2>2. SUFFICES ASSUME repo' # NoRepo PROVE PurgeInv(e, b)'
        BY DEF PurgeInv
    <2>3. repo' = repo /\ repo.id # 0
        BY <1>1, <1>12, <2>2 DEF RowInv
    <2>4. CASE e = d /\ b = a
        <3>1. CASE At(d, a, "delete")'
            BY <1>3, <1>5, <2>2, <2>3, <2>4, <3>1 DEF PurgeInv, Outcome, At
        <3>2. CASE At(d, a, "purge")'
            <4>1. hdl[d][a].pc = "delete" /\ hdl'[d][a].id = hdl[d][a].id
                BY <1>3, <2>2, <3>2 DEF Outcome, At
            <4>2. ~OfInstallation(sent[d].inst)'
                BY <1>3, <3>2, <4>1 DEF Outcome, At
            <4> QED
                BY <1>3, <1>5, <1>6, <2>2, <2>3, <2>4, <4>1, <4>2
                DEF PurgeInv, OfInstallation, At
        <3> QED
            BY <2>4, <3>1, <3>2 DEF PurgeInv
    <2>5. CASE hdl'[e][b] = hdl[e][b]
        BY <1>5, <1>6, <2>1, <2>3, <2>5 DEF PurgeInv, At
    <2> QED
        BY <1>9, <2>1, <2>4, <2>5
<1>18. ASSUME NEW e \in DOMAIN sent, NEW pcs, AnsweredBy(e, pcs)', ~AnsweredBy(e, pcs)
       PROVE  e = d /\ hdl'[d][a].pc \in pcs /\ hdl[d][a].pc \notin pcs
    <2> PICK b \in Attempts : hdl'[e][b].pc \in pcs
        BY <1>18 DEF AnsweredBy, Answer
    <2>1. hdl[e][b].pc \notin pcs
        BY <1>18 DEF AnsweredBy, Answer
    <2> QED
        BY <1>8, <1>9, <2>1
<1>19. ASSUME NEW e \in DOMAIN sent PROVE UninstallInv(e)'
    <2> DEFINE pcs == {"purge", "offboarded", "unpurged"}
    <2> SUFFICES ASSUME sent[e].kind = "deleted", AnsweredBy(e, pcs)', ~reordered'
                 PROVE  sent[e].inst \notin inst' /\ ~OfInstallation(sent[e].inst)'
        BY <1>5 DEF UninstallInv
    <2>1. UninstallInv(e) /\ ~reordered
        BY <1>2 DEF IInv, Effects
    <2>2. CASE AnsweredBy(e, pcs)
        <3>1. sent[e].inst \notin inst /\ ~OfInstallation(sent[e].inst)
            BY <2>1, <2>2 DEF UninstallInv
        <3>2. ~OfInstallation(sent[e].inst)'
            BY <1>2, <3>1 DEF Effects, OfInstallation
        <3>3. Begun(e)
            BY <2>2 DEF AnsweredBy, Answer, Begun, At
        <3>4. ASSUME ~(inst' \subseteq inst), sent[d].inst = sent[e].inst PROVE FALSE
            <4>1. sent[d].kind \in Onboarding /\ ~Late(d, Offboarding)
                BY <1>3, <3>4 DEF Outcome
            <4>2. d # e /\ ~(e < d)
                BY <1>1, <1>2, <3>4, <4>1 DEF SentInv, Onboarding
            <4>3. e > d
                BY <1>2, <1>8, <4>2 DEF Deliveries
            <4> QED
                BY <3>3, <4>1, <4>3 DEF Late, Offboarding
        <3> QED
            BY <1>2, <3>1, <3>2, <3>4 DEF Effects
    <2>3. CASE ~AnsweredBy(e, pcs)
        <3>1. e = d /\ hdl'[d][a].pc \in pcs /\ hdl[d][a].pc \notin pcs
            BY <1>18, <2>3
        <3>2. hdl[d][a].pc = "delete"
            BY <1>2, <3>1 DEF Moves, Onboarding
        <3> QED
            BY <1>3, <3>1, <3>2 DEF Outcome
    <2> QED
        BY <2>2, <2>3
<1>20. ASSUME NEW e \in DOMAIN sent, Taken(e)', ~Taken(e) PROVE e = d /\ job'.state = "queued"
    BY <1>3, <1>18, <1>20 DEF Taken, Outcome
<1>21. Awaited => Awaited' \/ job'.state = "queued"
    <2>1. \A e \in DOMAIN sent : Last(e)' = Last(e)
        BY <1>5 DEF Last
    <2> QED
        BY <1>5, <1>20, <2>1 DEF Awaited
<1>22. ASSUME repo' # repo, gh.granted PROVE Awaited' \/ reordered'
    <2> PICK l \in DOMAIN sent : Last(l)
        BY <1>1, <1>22 DEF SentInv
    <2>1. sent[d].kind \in Offboarding /\ (Late(d, Onboarding) => reordered')
        BY <1>3, <1>22 DEF Outcome
    <2>2. l > d
        <3>1. ~(d > l) /\ d # l
            BY <1>2, <2>1 DEF Last, Onboarding, Offboarding
        <3> QED
            BY <1>2, <1>8, <3>1 DEF Deliveries
    <2>3. CASE Begun(l)
        BY <2>1, <2>2, <2>3 DEF Late, Last
    <2>4. CASE ~Begun(l)
        <3>1. ~Taken(l)
            BY <2>4 DEF Taken, AnsweredBy, Answer, Begun, At
        <3>2. l # d
            BY <1>2, <2>1 DEF Last, Onboarding, Offboarding
        <3>3. ~Taken(l)'
            BY <1>20, <3>1, <3>2
        <3>4. Last(l)' /\ l \in DOMAIN sent'
            BY <1>5 DEF Last
        <3> QED
            BY <3>3, <3>4 DEF Awaited
    <2> QED
        BY <2>3, <2>4
<1>23. ASSUME NEW h, Covered(h) PROVE Covered(h)'
    <2>1. reordered => reordered'
        BY <1>2 DEF Effects
    <2>2. job.state = "queued" => job'.state = "queued"
        BY <1>2 DEF Effects
    <2>3. repo.head >= h => repo'.head >= h \/ ~gh.granted \/ Awaited' \/ reordered'
        BY <1>22
    <2> QED
        BY <1>5, <1>6, <1>21, <1>23, <2>1, <2>2, <2>3 DEF Covered
<1>24. ASSUME NEW e \in DOMAIN sent PROVE CoverInv(e)'
    <2> SUFFICES ASSUME Taken(e)'
                 PROVE  Covered(sent[e].at)' /\ (run.pc = "fetched" => run.head >= sent[e].at)
        <3> PICK h : h = sent[e].at
            OBVIOUS
        <3> QED
            BY <1>5 DEF CoverInv
    <2> PICK h : h = sent[e].at
        OBVIOUS
    <2>1. CASE Taken(e)
        <3>1. Covered(h) /\ (run.pc = "fetched" => run.head >= h)
            BY <2>1 DEF IInv, CoverInv
        <3>2. Covered(h)'
            BY <1>23, <3>1
        <3> QED
            BY <1>5, <3>1, <3>2 DEF Covered
    <2>2. CASE ~Taken(e)
        <3>1. job'.state = "queued"
            BY <1>20, <2>2
        <3>2. job.state # "active"
            BY <1>2, <3>1 DEF Effects
        <3>3. run.pc # "fetched"
            BY <1>1, <3>2 DEF RunInv
        <3> QED
            BY <3>1, <3>3 DEF Covered
    <2> QED
        BY <2>1, <2>2
<1>25. ASSUME NEW e \in DOMAIN sent PROVE JudgedInv(e)'
    <2>1. CASE AnsweredBy(e, {"irrelevant"})
        BY <1>5, <2>1 DEF IInv, JudgedInv
    <2>2. CASE AnsweredBy(e, {"irrelevant"})' /\ ~AnsweredBy(e, {"irrelevant"})
        <3>1. e = d /\ hdl'[d][a].pc = "irrelevant"
            BY <1>18, <2>2
        <3>2. repo # NoRepo /\ ~ShouldIngest(sent[d].touched, repo.dir)
            BY <1>3, <3>1 DEF Outcome
        <3> QED
            BY <1>1, <1>5, <3>1, <3>2 DEF RowInv, JudgedInv
    <2> QED
        BY <2>1, <2>2 DEF JudgedInv
<1> QED
    BY <1>4, <1>5, <1>10, <1>11, <1>13, <1>14, <1>15, <1>16, <1>17, <1>19, <1>24, <1>25 DEF IInv

-----------------------------------------------------------------------------
(* The row after a commit: the old one moved on, or a new one.             *)
LEMMA CommitFacts ==
    ASSUME IInv, Commit
    PROVE  /\ repo'.inst = run.inst /\ repo'.head = run.head /\ repo'.dir = run.dir
           /\ run'.pc = "committed" /\ run'.id = repo'.id
           /\ run.inst \in inst /\ run.pc = "fetched" /\ repo'.id >= 1 /\ repo'.id < nextId'
           /\ nextId' \in Nat /\ nextId <= nextId' /\ repo'.id \in Nat
           /\ \/ repo = NoRepo /\ repo'.id = nextId /\ run'.upserted /\ moved' = moved
              \/ /\ repo # NoRepo /\ repo'.id = repo.id
                 /\ moved \subseteq moved' /\ (repo.inst # run.inst => repo.id \in moved')
           /\ UNCHANGED <<gh, sent, recorded, hdl, inst, job, index, lagged, reordered>>
<1>1. /\ repo.id \in Nat /\ nextId \in Nat /\ nextId >= 1 /\ repo.id < nextId
      /\ repo = NoRepo \/ repo.id >= 1
      /\ run \in RunType
    BY DEF IInv, TypeOK, RowInv, RunType
<1> PICK id : id = IF repo = NoRepo THEN nextId ELSE repo.id
    OBVIOUS
<1> PICK b \in BOOLEAN : b = (id = nextId)
    BY Zenon
<1>2. repo' = [id |-> id, inst |-> run.inst, head |-> run.head, dir |-> run.dir]
    BY DEF Commit
<1>3. run' = [run EXCEPT !.pc = "committed", !.id = id, !.upserted = (id = nextId)]
    BY DEF Commit
<1>4. run' = [run EXCEPT !.pc = "committed", !.id = id, !.upserted = b]
    BY <1>3, Zenon
<1>5. run'.pc = "committed" /\ run'.id = id /\ run'.upserted = b
    BY <1>1, <1>4 DEF RunType
<1>6. run.pc = "fetched" /\ run.inst \in inst
    BY DEF Commit, HasInstallation
<1>7. UNCHANGED <<gh, sent, recorded, hdl, inst, job, index, lagged, reordered>>
    BY DEF Commit, github
<1>8. CASE repo = NoRepo
    <2>1. id = nextId /\ b /\ nextId' = nextId + 1 /\ moved' = moved
        BY <1>8 DEF Commit, AdvancedSequence
    <2> QED
        BY <1>1, <1>2, <1>5, <1>6, <1>7, <1>8, <2>1
<1>9. CASE repo # NoRepo
    <2>1. /\ id = repo.id /\ nextId' = nextId
          /\ moved \subseteq moved' /\ (repo.inst # run.inst => repo.id \in moved')
        BY <1>9 DEF Commit, AdvancedSequence
    <2> QED
        BY <1>1, <1>2, <1>5, <1>6, <1>7, <1>9, <2>1
<1> QED
    BY <1>8, <1>9

(* What the parts of IInv about deliveries need of a step of the run.      *)
LEMMA RunKeepsDeliveries ==
    ASSUME IInv, NEW d \in DOMAIN sent, UNCHANGED <<gh, sent, recorded, hdl, inst, reordered>>,
           moved \subseteq moved',
           repo' = repo
    PROVE  /\ \A a \in Attempts : KindInv(d, a)' /\ PurgeInv(d, a)'
           /\ UninstallInv(d)' /\ JudgedInv(d)'
<1>1. /\ \A a \in Attempts : KindInv(d, a) /\ PurgeInv(d, a)
      /\ UninstallInv(d) /\ JudgedInv(d)
    BY DEF IInv
<1> QED
    BY <1>1 DEF KindInv, PurgeInv, UninstallInv, JudgedInv, AnsweredBy, Answer, OfInstallation, At

LEMMA RunIInv ==
    ASSUME IInv, Run
    PROVE  IInv'
<1>1. /\ TypeOK /\ SentInv /\ RowInv /\ RunInv /\ LiveRowIndexed
      /\ \A d \in Deliveries : AttemptInv(d)
    BY DEF IInv
<1>2. TypeOK'
    BY <1>1, RunTypeOK
<1>3. /\ UNCHANGED <<gh, sent, recorded, hdl, inst, reordered>>
      /\ moved \subseteq moved' /\ (Commit \/ (repo' = repo /\ nextId' = nextId))
    BY DEF Run, StartRun, Fetch, Commit, ReadRows, IndexDocuments, FailRun, github, rows
<1>4. /\ nextId \in Nat /\ nextId' \in Nat /\ nextId <= nextId'
      /\ Tip' = Tip /\ Tip \in Nat /\ Tip >= 1
    <2>1. gh.dirs \in Seq(DocsDir) /\ nextId \in Nat
        BY <1>1 DEF TypeOK
    <2> QED
        BY <1>1, <1>3, <2>1, CommitFacts DEF SentInv, Tip
<1>5. SentInv'
    <2>1. \A e : Last(e)' = Last(e)
        BY <1>3 DEF Last
    <2> QED
        BY <1>1, <1>3, <1>4, <2>1 DEF SentInv
<1>6. ASSUME NEW d \in Deliveries PROVE AttemptInv(d)'
    <2>1. \A a \in Attempts : hdl[d][a].id \in Nat
        BY <1>1 DEF TypeOK
    <2>2. AttemptInv(d)
        BY <1>1
    <2>3. \A a \in Attempts : hdl[d][a].id < nextId'
        BY <1>4, <2>1, <2>2 DEF AttemptInv
    <2> QED
        BY <1>3, <2>2, <2>3 DEF AttemptInv, Begun, At, Past
<1>7. \A e \in DOMAIN sent : (Taken(e)' = Taken(e)) /\ CoverInv(e)
    BY <1>3 DEF Taken, AnsweredBy, Answer, IInv
<1>8. (Awaited)' = Awaited
    <2>1. \A e \in DOMAIN sent : Last(e)' = Last(e)
        BY <1>3 DEF Last
    <2> QED
        BY <1>3, <1>7, <2>1 DEF Awaited
<1>9. ASSUME repo' = repo, nextId' = nextId
      PROVE  RowInv' /\ \A d \in DOMAIN sent :
               /\ \A a \in Attempts : KindInv(d, a)' /\ PurgeInv(d, a)'
               /\ UninstallInv(d)' /\ JudgedInv(d)'
    BY <1>1, <1>3, <1>4, <1>9, RunKeepsDeliveries DEF RowInv
<1>10. /\ run.head \in Nat /\ repo.head \in Nat
       /\ \A d \in DOMAIN sent : sent[d].at \in 1 .. Tip
       /\ run \in RunType
    BY <1>1 DEF TypeOK, SentInv, RunType
<1>11. SUFFICES /\ RowInv' /\ RunInv' /\ LiveRowIndexed'
                /\ \A d \in DOMAIN sent : CoverInv(d)'
                /\ \A d \in DOMAIN sent :
                     /\ \A a \in Attempts : KindInv(d, a)' /\ PurgeInv(d, a)'
                     /\ UninstallInv(d)' /\ JudgedInv(d)'
    BY <1>2, <1>3, <1>5, <1>6 DEF IInv
<1> USE DEF github, rows
<1>12. CASE StartRun
    <2>1. /\ repo' = repo /\ nextId' = nextId /\ job'.state = "active" /\ run'.pc = "started"
          /\ run.pc = "idle" /\ UNCHANGED <<index, lagged, moved, gaveUp>>
        BY <1>1, <1>12 DEF StartRun, NoRun, RunInv, TypeOK
    <2>2. RunInv' /\ LiveRowIndexed'
        BY <1>1, <2>1 DEF RunInv, LiveRowIndexed
    <2>3. ASSUME NEW d \in DOMAIN sent PROVE CoverInv(d)'
        BY <2>1 DEF CoverInv, Covered
    <2> QED
        BY <1>9, <2>1, <2>2, <2>3
<1>13. CASE Fetch
    <2>1. /\ repo' = repo /\ nextId' = nextId /\ job' = job
          /\ run'.pc = "fetched" /\ run'.head = Tip /\ run'.dir = gh.dirs[Tip] /\ run.pc = "started"
          /\ UNCHANGED <<index, lagged, moved, gaveUp>>
        BY <1>10, <1>13 DEF Fetch, RunType
    <2>2. RunInv'
        BY <1>1, <1>3, <1>4, <1>10, <2>1 DEF RunInv, RowInv
    <2>3. LiveRowIndexed'
        BY <1>1, <2>1 DEF LiveRowIndexed
    <2>4. ASSUME NEW d \in DOMAIN sent PROVE CoverInv(d)'
        BY <1>3, <1>4, <1>10, <2>1 DEF CoverInv, Covered
    <2> QED
        BY <1>9, <2>1, <2>2, <2>3, <2>4
<1>14. CASE Commit
    <2>1. /\ repo'.inst = run.inst /\ repo'.head = run.head /\ repo'.dir = run.dir
          /\ run'.pc = "committed" /\ run'.id = repo'.id
          /\ run.inst \in inst /\ run.pc = "fetched" /\ repo'.id >= 1 /\ repo'.id < nextId'
          /\ repo'.id \in Nat
          /\ UNCHANGED <<job, index, lagged>>
        BY <1>14, CommitFacts
    <2>2. \/ repo = NoRepo /\ repo'.id = nextId /\ run'.upserted /\ moved' = moved
          \/ /\ repo # NoRepo /\ repo'.id = repo.id
             /\ moved \subseteq moved' /\ (repo.inst # run.inst => repo.id \in moved')
        BY <1>14, CommitFacts
    <2>3. RowInv'
        <3>1. run.head \in 1 .. Tip /\ run.dir = gh.dirs[run.head]
            BY <1>1, <2>1 DEF RunInv
        <3>2. \E c \in DOMAIN gh.dirs : run.dir = gh.dirs[c]
            BY <1>1, <3>1 DEF TypeOK, Tip
        <3> QED
            BY <1>3, <1>4, <1>10, <2>1, <3>1, <3>2 DEF RowInv
    <2>4. RunInv'
        <3>1. repo # NoRepo => repo.id \in index \cup lagged \cup moved
            BY <1>1, <2>1 DEF LiveRowIndexed
        <3> QED
            BY <1>1, <2>1, <2>2, <3>1 DEF RunInv
    <2>5. LiveRowIndexed'
        BY <2>1 DEF LiveRowIndexed
    <2>6. ASSUME NEW d \in DOMAIN sent PROVE CoverInv(d)'
        BY <1>3, <1>7, <2>1 DEF CoverInv, Covered
    <2>7. ASSUME NEW d \in DOMAIN sent
          PROVE  /\ \A a \in Attempts : KindInv(d, a)' /\ PurgeInv(d, a)'
                 /\ UninstallInv(d)' /\ JudgedInv(d)'
        <3>1. d \in Deliveries
            BY <1>1, SentTypes
        <3>2. /\ \A a \in Attempts : KindInv(d, a) /\ PurgeInv(d, a)
              /\ UninstallInv(d) /\ JudgedInv(d) /\ AttemptInv(d)
            BY <3>1 DEF IInv
        <3>3. UninstallInv(d)'
            BY <1>3, <2>1, <3>2 DEF UninstallInv, OfInstallation, AnsweredBy, Answer
        <3>4. ASSUME NEW a \in Attempts PROVE PurgeInv(d, a)'
            <4>1. hdl[d][a].id \in Nat /\ hdl[d][a].id < nextId
                BY <1>1, <3>1, <3>2 DEF AttemptInv, TypeOK
            <4>2. CASE repo = NoRepo
                BY <1>3, <1>4, <2>2, <4>1, <4>2 DEF PurgeInv
            <4>3. CASE repo # NoRepo
                BY <1>3, <2>1, <2>2, <3>2, <4>3 DEF PurgeInv, At
            <4> QED
                BY <4>2, <4>3
        <3> QED
            BY <1>3, <3>2, <3>3, <3>4 DEF KindInv, JudgedInv, AnsweredBy, Answer
    <2> QED
        BY <2>3, <2>4, <2>5, <2>6, <2>7
<1>15. CASE ReadRows
    <2>1. /\ repo' = repo /\ nextId' = nextId /\ job' = job
          /\ run'.pc = "read" /\ run'.id = run.id /\ run.pc = "committed"
          /\ run'.upserted = (run.upserted /\ repo.id = run.id)
          /\ UNCHANGED <<index, lagged, moved, gaveUp>>
        BY <1>10, <1>15 DEF ReadRows, RunType
    <2>2. RunInv' /\ LiveRowIndexed'
        BY <1>1, <2>1 DEF RunInv, LiveRowIndexed
    <2>3. ASSUME NEW d \in DOMAIN sent PROVE CoverInv(d)'
        BY <1>3, <1>7, <1>8, <2>1 DEF CoverInv, Covered
    <2> QED
        BY <1>9, <2>1, <2>2, <2>3
<1>16. CASE IndexDocuments
    <2>1. /\ repo' = repo /\ nextId' = nextId /\ job'.state = "none" /\ run'.pc = "idle"
          /\ run.pc = "read" /\ UNCHANGED <<moved, gaveUp>>
          /\ run.upserted => run.id \in index' \cup lagged'
          /\ index \subseteq index' /\ lagged \subseteq lagged'
        BY <1>16 DEF IndexDocuments, NoRun
    <2>2. RunInv' /\ LiveRowIndexed'
        BY <1>1, <2>1 DEF RunInv, LiveRowIndexed
    <2>3. job.state = "active"
        BY <1>1, <2>1 DEF RunInv, TypeOK
    <2>4. ASSUME NEW d \in DOMAIN sent PROVE CoverInv(d)'
        BY <1>3, <1>7, <1>8, <2>1, <2>3 DEF CoverInv, Covered
    <2> QED
        BY <1>9, <2>1, <2>2, <2>4
<1>17. CASE FailRun
    <2>1. /\ repo' = repo /\ nextId' = nextId /\ run'.pc = "idle"
          /\ run.pc # "idle" /\ UNCHANGED <<index, moved>>
          /\ lagged \subseteq lagged' /\ (run.upserted => run.id \in lagged')
        BY <1>17 DEF FailRun, NoRun
    <2>2. job'.state = "queued" \/ (job'.state = "none" /\ gaveUp')
        BY <1>1, <1>17 DEF FailRun, TypeOK
    <2>3. RunInv' /\ LiveRowIndexed'
        BY <1>1, <2>1, <2>2 DEF RunInv, LiveRowIndexed
    <2>4. ASSUME NEW d \in DOMAIN sent PROVE CoverInv(d)'
        BY <2>1, <2>2 DEF CoverInv, Covered
    <2> QED
        BY <1>9, <2>1, <2>3, <2>4
<1> QED
    BY <1>12, <1>13, <1>14, <1>15, <1>16, <1>17 DEF Run

-----------------------------------------------------------------------------
LEMMA NextIInv == IInv /\ [Next]_vars => IInv'
<1> SUFFICES ASSUME IInv, [Next]_vars PROVE IInv'
    OBVIOUS
<1>1. CASE GitHub
    BY <1>1, GitHubIInv
<1>2. CASE \E d \in Deliveries, a \in Attempts : Handler(d, a) \/ FailHandler(d, a)
    BY <1>2, HandlerIInv
<1>3. CASE Run
    BY <1>3, RunIInv
<1>4. CASE UNCHANGED vars
    <2> USE <1>4 DEF vars, Tip
    <2>1. TypeOK'
        BY DEF IInv, TypeOK
    <2>2. SentInv'
        BY DEF IInv, SentInv, Last
    <2>3. RowInv' /\ RunInv' /\ LiveRowIndexed'
        BY DEF IInv, RowInv, RunInv, LiveRowIndexed
    <2>4. \A d \in Deliveries : AttemptInv(d)'
        BY DEF IInv, AttemptInv, Begun, At, Past
    <2>5. ASSUME NEW d \in DOMAIN sent
          PROVE  /\ \A a \in Attempts : KindInv(d, a)' /\ PurgeInv(d, a)'
                 /\ UninstallInv(d)' /\ JudgedInv(d)'
        BY RunKeepsDeliveries
    <2>6. ASSUME NEW d \in DOMAIN sent PROVE CoverInv(d)'
        BY DEF IInv, CoverInv, Covered, Awaited, Taken, AnsweredBy, Answer, Last
    <2> QED
        BY <2>1, <2>2, <2>3, <2>4, <2>5, <2>6 DEF IInv
<1> QED
    BY <1>1, <1>2, <1>3, <1>4 DEF Next

LEMMA Invariance == Spec => []IInv
BY InitIInv, NextIInv, PTL DEF Spec

(* The variables hold what the program can hold. *)
THEOREM TypeCorrect == Spec => []TypeOK
<1>1. IInv => TypeOK
    BY DEF IInv
<1> QED
    BY <1>1, Invariance, PTL

(* However many attempts at a delivery race, at most one gets past         *)
(* RecordDelivery (ServeHTTP).                                             *)
THEOREM DeliveriesAreHandledOnce == Spec => []HandledOnce
<1>1. IInv => HandledOnce
    BY DEF IInv, AttemptInv, Past, HandledOnce
<1> QED
    BY <1>1, Invariance, PTL

(* No run brings an uninstalled repository back, because                   *)
(* repos.installation_id is a foreign key (offboardInstallation,           *)
(* ReconcileRepo).                                                         *)
THEOREM UninstallsAreFinal == Spec => []UninstallIsFinal
<1>1. IInv => UninstallIsFinal
    BY DEF IInv, UninstallInv, UninstallIsFinal, AnsweredBy
<1> QED
    BY <1>1, Invariance, PTL

(* No purge takes a live row's documents out of the index (purgeIndex,     *)
(* syncIndex).                                                             *)
THEOREM LiveRowsStayIndexed == Spec => []LiveRowIndexed
<1>1. IInv => LiveRowIndexed
    BY DEF IInv
<1> QED
    BY <1>1, Invariance, PTL

(* When every delivery is answered and the queue is empty, Postgres holds  *)
(* the head of the last push that matters: a row that is behind is covered *)
(* by nothing else then.                                                   *)
LEMMA CoveredIsSettled == IInv => SettlesAtHead
<1> SUFFICES ASSUME IInv, Quiet, gh.granted, ~gaveUp, ~reordered,
                    \A d \in DOMAIN sent : ~Dismissed(d),
                    NEW d \in DOMAIN sent,
                    ShouldIngest(sent[d].touched, gh.dirs[sent[d].at])
             PROVE  repo.head >= sent[d].at
    BY DEF SettlesAtHead
<1>1. job.state = "none" /\ run.pc = "idle"
    BY DEF Quiet, IInv, RunInv
<1>2. ASSUME NEW e \in DOMAIN sent, sent[e].kind \notin Offboarding
      PROVE  Taken(e) \/ (sent[e].kind = "push" /\ AnsweredBy(e, {"irrelevant"}))
    <2> PICK a \in Attempts : hdl[e][a].pc \in Accepted
        BY DEF Quiet, AnsweredBy, Answer
    <2>1. KindInv(e, a)
        BY DEF IInv
    <2>2. hdl[e][a].pc \notin {"busy", "unknown"}
        BY DEF Dismissed, AnsweredBy, Answer
    <2>3. hdl[e][a].pc \in {"irrelevant", "enqueued", "coalesced"}
        <3>1. hdl[e][a].pc \notin {"absent", "offboarded", "unpurged"}
            BY <1>2, <2>1 DEF KindInv
        <3> QED
            BY <2>2, <3>1 DEF Accepted
    <2> QED
        BY <2>1, <2>3 DEF KindInv, Taken, AnsweredBy, Answer
<1>3. ~Awaited
    BY <1>2 DEF Awaited, Last, Onboarding, Offboarding
<1>4. ASSUME NEW e \in DOMAIN sent, Taken(e) PROVE repo.head >= sent[e].at
    <2>1. Covered(sent[e].at)
        BY <1>4 DEF IInv, CoverInv
    <2> QED
        BY <1>1, <1>3, <2>1 DEF Covered
<1>5. CASE sent[d].kind \in Offboarding
    <2> PICK l \in DOMAIN sent : Last(l)
        BY DEF IInv, SentInv
    <2>1. Taken(l)
        BY <1>2 DEF Last, Onboarding, Offboarding
    <2>2. d < l
        <3>1. ~(d > l) /\ d # l
            BY <1>5 DEF Last, Onboarding, Offboarding
        <3>2. d \in Nat /\ l \in Nat
            BY SentTypes DEF IInv, Deliveries
        <3> QED
            BY <3>1, <3>2
    <2>3. sent[d].at <= sent[l].at
        BY <2>2 DEF IInv, SentInv
    <2>4. sent[d].at \in Nat /\ sent[l].at \in Nat /\ repo.head \in Nat
        BY SentTypes DEF IInv, TypeOK
    <2> QED
        BY <1>4, <2>1, <2>3, <2>4
<1>6. CASE sent[d].kind \notin Offboarding
    <2>1. CASE Taken(d)
        BY <1>4, <2>1
    <2>2. CASE AnsweredBy(d, {"irrelevant"})
        <3> PICK c \in DOMAIN gh.dirs : ~ShouldIngest(sent[d].touched, gh.dirs[c])
            BY <2>2 DEF IInv, JudgedInv
        <3>1. gh.dirs[c] = gh.dirs[sent[d].at]
            BY <2>2 DEF Dismissed
        <3> QED
            BY <3>1
    <2> QED
        BY <1>2, <1>6, <2>1, <2>2
<1> QED
    BY <1>5, <1>6

(* End to end: an empty queue and answered deliveries leave the row at the *)
(* head of the last push that matters (the webhook handlers, EnqueueIngest,*)
(* the worker's run and ReconcileRepo together).                           *)
THEOREM RowsSettleAtHead == Spec => []SettlesAtHead
BY CoveredIsSettled, Invariance, PTL
=============================================================================
