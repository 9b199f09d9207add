--------------------------- MODULE RepoFilesProofs ---------------------------
(***************************************************************************)
(* Proofs about RepoFiles, for any processes, titles and statuses, and any *)
(* number of documents, commands, acts of a person and kills.              *)
(***************************************************************************)
EXTENDS RepoFiles, TLAPS, NaturalsInduction, WellFoundedInduction

-----------------------------------------------------------------------------
(***************************************************************************)
(* The inductive invariant: what a command knows from what it read, and    *)
(* for how long it may still believe it.  Nobody locks the directory, so   *)
(* each part is under the condition that its history variable records: a   *)
(* scan lists the directory while it is `fresh`, a copy says what was said *)
(* of its file while the file is not `exposed`, a number is past every     *)
(* other while nobody `collided` and nothing `vanished`.                   *)
(***************************************************************************)
Writing == {"open", "fill"}
Indexing == {"openIndex", "fillIndex"}

(* It holds a scan of the directory. *)
Listing(c) == c.pc \in {"scan", "toc"} \/ (c.op = "update" /\ c.pc \in Writing)

(* What a command knows of its own: what it read can be read and carries   *)
(* the number of its name, and what it is about to write too.              *)
CommandInv(c) ==
    /\ \A e \in c.seen : Readable(e.doc) /\ e.doc.id = e.name.num
    /\ Listing(c) => \A e, f \in c.seen : e.name = f.name => e = f
    /\ c.pc = "scan" => \A e \in c.seen : e.name \notin c.todo
    /\ c.pc \in {"stat", "read"} => c.num > 0
    /\ c.pc \in Writing => c.num > 0 /\ c.doc.id = c.num
    /\ c.op = "update" /\ c.pc \in {"toc"} \union Writing =>
         \A n \in c.todo : \E e \in c.seen : e.name = n
    /\ c.op = "update" /\ c.pc \in Writing =>
         /\ Name(c) \notin c.todo
         /\ \E e \in c.seen : e.name = Name(c) /\ c.doc = WithToC(e.doc)
    /\ c.pc \in Indexing =>
         /\ c.body.there
         /\ c.op = "init" => c.body = Scaffold({})
         /\ c.op = "update" => c.body.rows = {Row(e) : e \in c.seen}

(* Where nobody deleted a file under it, what a command is to write is there *)
PresentInv(c) ==
    ~ vanished =>
      /\ Listing(c) \/ c.pc = "find" => \A e \in c.seen : e.name \in DOMAIN files
      /\ c.pc = "scan" => c.todo \subseteq DOMAIN files
      /\ c.op # "create" /\ c.pc \in {"read"} \union Writing => Name(c) \in DOMAIN files

Numbering(c) == c.op = "create" /\ c.pc \in {"stat", "open"}
NumberInv(c) ==
    ~ collided /\ ~ vanished /\ Numbering(c) => \A n \in DOMAIN files : n.num < c.num
ApartInv == ~ collided => \A p, q \in Procs : Numbering(run[p]) /\ Numbering(run[q]) => p = q

FilesInv == \A n \in DOMAIN files : files[n] # Blank => files[n].id = n.num

SaidInv == \A n \in DOMAIN said : said[n] # Blank

Kept(n, d) == n \in DOMAIN said /\ Body(d) = Body(said[n])
CopyInv(c) ==
    /\ c.op = "update" /\ c.pc = "scan" /\ ~ c.flag =>
         \A e \in c.seen : NeedsToC(e.doc) /\ e.name \notin exposed => Kept(e.name, e.doc)
    /\ c.op = "update" /\ c.pc \in {"toc"} \union Writing =>
         \A e \in c.seen : e.name \in c.todo \ exposed => Kept(e.name, e.doc)
    /\ c.pc \in Writing /\ Name(c) \notin exposed => Body(c.doc) = Body(Meant(c))

FreshInv(c) ==
    c.fresh =>
      /\ c.pc = "scan" =>
           /\ \A e \in c.seen : e.name \in DOMAIN files /\ files[e.name] = e.doc
           /\ \A n \in DOMAIN files : Readable(files[n]) => n \in c.todo \/ \E e \in c.seen : e.name = n
           /\ c.todo \subseteq DOMAIN files
      /\ c.op = "update" /\ c.pc \in {"toc"} \union Writing \union Indexing =>
           /\ \A e \in c.seen : e.name \in DOMAIN files
           /\ \A e \in c.seen : ~ (c.pc = "fill" /\ Name(c) = e.name) =>
                Readable(files[e.name]) /\ Row([name |-> e.name, doc |-> files[e.name]]) = Row(e)
           /\ \A n \in DOMAIN files : Readable(files[n]) => \E e \in c.seen : e.name = n

BodyInv(c) ==
    Readme \notin exposed /\ kills = 0 =>
      /\ c.pc \in Indexing /\ c.op = "update" => c.body.prose = words /\ (c.body.marked \/ words > 0)
      /\ c.pc = "fillIndex" => index = BlankIndex
WordsInv == ~ index.there => words = 0

IInv ==
    /\ TypeOK /\ FilesInv /\ SaidInv /\ ApartInv /\ WordsInv
    /\ \A p \in Procs : /\ CommandInv(run[p]) /\ PresentInv(run[p]) /\ NumberInv(run[p])
                        /\ CopyInv(run[p]) /\ FreshInv(run[p]) /\ BodyInv(run[p])
    /\ NumbersDistinct /\ ChangesKept /\ IndexIsTrue /\ ProseKept

-----------------------------------------------------------------------------
(* What the definitions say of documents, names, numbers and commands. *)
LEMMA Constants ==
    /\ FirstStatus \in Statuses /\ Readme.slug \in Slugs /\ Readme.num = 0
    /\ MaxNumber \in Nat /\ MaxNumber >= 2 /\ MaxEdits \in Nat /\ MaxKills \in Nat /\ MaxCommands \in Nat
    /\ \A n \in Names : n.num \in 1..MaxNumber /\ n.slug \in Slugs
    /\ Readme \notin Names
<1>1. /\ FirstStatus \in Statuses /\ Slugs # {} /\ MaxNumber \in Nat /\ MaxNumber >= 2
      /\ MaxEdits \in Nat /\ MaxKills \in Nat /\ MaxCommands \in Nat
  BY RepoFilesAssumption
<1>2. Readme.slug \in Slugs /\ Readme.num = 0
  BY <1>1 DEF Readme
<1>3. \A n \in Names : n.num \in 1..MaxNumber /\ n.slug \in Slugs
  BY DEF Names
<1>. QED
  BY <1>1, <1>2, <1>3

LEMMA NameFacts ==
    /\ \A n \in Names : [num |-> n.num, slug |-> n.slug] = n
    /\ \A m \in 1..MaxNumber, s \in Slugs : [num |-> m, slug |-> s] \in Names
  BY DEF Names

(* What a document keeps when its table of contents, its status or its     *)
(* task is replaced.                                                       *)
LEMMA DocumentFacts ==
    ASSUME NEW d \in Documents
    PROVE  /\ d.id \in 0..MaxNumber /\ (d = Blank <=> d.id = 0)
           /\ d.status \in Statuses
           /\ ~ Readable(Blank)
<1>1. MaxNumber \in Nat
  BY Constants
<1>. QED
  BY <1>1, Constants DEF Documents, Blank, Readable

LEMMA Contented ==
    ASSUME NEW d \in Documents \ {Blank}
    PROVE  /\ WithToC(d) \in Documents /\ WithToC(d).id = d.id
           /\ WithToC(d).status = d.status /\ WithToC(d).cr = d.cr
           /\ Body(WithToC(d)) = Body(d)
  BY DEF WithToC, Body, Documents

LEMMA Restated ==
    ASSUME NEW d \in Documents \ {Blank}, NEW s \in Statuses
    PROVE  /\ WithStatus(d, s) \in Documents /\ WithStatus(d, s).id = d.id
           /\ WithStatus(d, s).status = s
           /\ \A e \in Documents : Body(d) = Body(e) => Body(WithStatus(d, s)) = Body(WithStatus(e, s))
<1>1. /\ WithStatus(d, s) \in Documents /\ WithStatus(d, s).id = d.id
      /\ WithStatus(d, s).status = s
  BY DEF WithStatus, Documents
<1>2. ASSUME NEW e \in Documents, Body(d) = Body(e) 
      PROVE  Body(WithStatus(d, s)) = Body(WithStatus(e, s))
  <2>1. \A f \in Documents : Body(WithStatus(f, s)) = [Body(f) EXCEPT !.status = s]
    BY DEF WithStatus, Body, Documents, Blank
  <2>. QED
    BY <1>2, <2>1
<1>. QED
  BY <1>1, <1>2

LEMMA Ticked ==
    ASSUME NEW d \in Documents \ {Blank}, NEW b \in BOOLEAN
    PROVE  /\ WithTask(d, b) \in Documents /\ WithTask(d, b).id = d.id
           /\ WithTask(d, b).ticked = b
           /\ \A e \in Documents : Body(d) = Body(e) => Body(WithTask(d, b)) = Body(WithTask(e, b))
<1>1. /\ WithTask(d, b) \in Documents /\ WithTask(d, b).id = d.id
      /\ WithTask(d, b).ticked = b
  BY DEF WithTask, Documents
<1>2. ASSUME NEW e \in Documents, Body(d) = Body(e) 
      PROVE  Body(WithTask(d, b)) = Body(WithTask(e, b))
  <2>1. \A f \in Documents : Body(WithTask(f, b)) = [Body(f) EXCEPT !.ticked = b]
    BY DEF WithTask, Body, Documents, Blank
  <2>. QED
    BY <1>2, <2>1
<1>. QED
  BY <1>1, <1>2

LEMMA RenderedFacts ==
    ASSUME NEW num \in 1..MaxNumber
    PROVE  Rendered(num) \in Documents /\ Rendered(num).id = num
  BY Constants DEF Rendered, Documents, Headings

(* A set of names has one that comes first, and one of the greatest number. *)
LEMMA LeastOne ==
    ASSUME NEW S \in SUBSET Nat, S # {}
    PROVE  \E k \in S : \A j \in S : k <= j
<1>1. IsWellFoundedOn(OpToRel(<, Nat), Nat)
  BY NatLessThanWellFounded
<1>2. PICK k \in S : \A j \in S : ~(<<j, k>> \in OpToRel(<, Nat))
  BY <1>1, WFMin
<1>3. \A j \in S : ~(j < k)
  BY <1>2 DEF OpToRel
<1>. QED
  BY <1>3

LEMMA LeastFacts ==
    ASSUME NEW S \in SUBSET Names, S # {}
    PROVE  Least(S) \in S
<1>. DEFINE T == {n.num : n \in S}
<1>1. T \in SUBSET Nat /\ T # {}
  BY Constants
<1>2. PICK k \in T : \A j \in T : k <= j
  BY <1>1, LeastOne
<1>3. PICK n \in S : n.num = k
  OBVIOUS
<1>4. \A m \in S : n.num <= m.num
  BY <1>2, <1>3
<1>. QED
  BY <1>3, <1>4 DEF Least

LEMMA NextNumberFacts ==
    ASSUME DOMAIN files \subseteq Names
    PROVE  /\ NextNumber \in Nat /\ NextNumber > 0
           /\ \A n \in DOMAIN files : n.num < NextNumber
<1>1. CASE DOMAIN files = {}
  BY <1>1 DEF NextNumber
<1>2. CASE DOMAIN files # {}
  <2>. DEFINE S == {n.num : n \in DOMAIN files}
              T == {MaxNumber - k : k \in S}
  <2>1. S \subseteq 1..MaxNumber /\ S # {} /\ MaxNumber \in Nat
    BY <1>2, Constants
  <2>2. T \in SUBSET Nat /\ T # {}
    BY <2>1
  <2>3. PICK t \in T : \A u \in T : t <= u
    BY <2>2, LeastOne
  <2>4. PICK k \in S : t = MaxNumber - k
    OBVIOUS
  <2>5. \A j \in S : MaxNumber - j \in T
    OBVIOUS
  <2>6. \A j \in S : k >= j
    <3>1. SUFFICES ASSUME NEW j \in S PROVE k >= j
      OBVIOUS
    <3>2. MaxNumber - k <= MaxNumber - j
      BY <2>3, <2>4, <2>5
    <3>3. k \in Int /\ j \in Int
      BY <2>1
    <3>. HIDE DEF S, T
    <3>. QED
      BY <2>1, <3>2, <3>3
  <2>7. Max(S) \in S /\ \A j \in S : Max(S) >= j
    BY <2>4, <2>6 DEF Max
  <2>8. NextNumber = Max(S) + 1
    BY <1>2 DEF NextNumber
  <2>9. \A n \in DOMAIN files : n.num \in S
    OBVIOUS
  <2>. HIDE DEF S
  <2>10. \A j \in S : j \in Nat
    BY <2>1
  <2>11. Max(S) \in Nat
    BY <2>7, <2>10
  <2>. HIDE DEF T
  <2>. QED
    BY <2>7, <2>8, <2>9, <2>10, <2>11
<1>. QED
  BY <1>1, <1>2

LEMMA CommandFacts ==
    ASSUME NEW c \in Commands
    PROVE  /\ c.num \in 0..MaxNumber /\ c.slug \in Slugs /\ c.status \in Statuses
           /\ c.doc \in Documents /\ c.todo \in SUBSET Names /\ c.seen \in SUBSET Entries
           /\ c.body \in Readmes
           /\ c.num > 0 => Name(c) \in Names
           /\ Name(c).num = c.num
           /\ \A e \in c.seen : /\ e.name \in Names /\ e.doc \in Documents \ {Blank}
                                /\ e.doc.id \in 1..MaxNumber
<1>1. /\ c.num \in 0..MaxNumber /\ c.slug \in Slugs /\ c.status \in Statuses
      /\ c.doc \in Documents /\ c.todo \in SUBSET Names /\ c.seen \in SUBSET Entries
      /\ c.body \in Readmes
  BY DEF Commands
<1>2. /\ c.num > 0 => Name(c) \in Names
      /\ Name(c).num = c.num
  BY <1>1, NameFacts, Constants DEF Name
<1>3. \A e \in Entries : e.name \in Names /\ e.doc \in Documents \ {Blank}
  BY DEF Entries
<1>4. \A d \in Documents \ {Blank} : d.id \in 1..MaxNumber
  BY DocumentFacts, Constants
<1>. QED
  BY <1>1, <1>2, <1>3, <1>4

LEMMA Indexes ==
    /\ NoIndex \in Readmes /\ BlankIndex \in Readmes /\ BlankIndex.there /\ ~ BlankIndex.marked
    /\ \A rows \in SUBSET Rows : /\ Scaffold(rows) \in Readmes /\ Scaffold(rows).there
                                 /\ Scaffold(rows).marked /\ Scaffold(rows).prose = 0
                                 /\ Scaffold(rows).rows = rows
    /\ ~ NoIndex.there
<1>1. NoIndex \in Readmes /\ ~ NoIndex.there /\ 0 \in 0..MaxEdits
  BY Constants DEF NoIndex, Readmes
<1>2. BlankIndex \in Readmes /\ BlankIndex.there /\ ~ BlankIndex.marked
  <2>1. PICK ix \in Readmes : ix = NoIndex
    BY <1>1
  <2>2. [ix EXCEPT !.there = TRUE] \in Readmes /\ [ix EXCEPT !.there = TRUE].there
        /\ [ix EXCEPT !.there = TRUE].marked = ix.marked
    BY DEF Readmes
  <2>3. ix.marked = FALSE
    BY <2>1 DEF NoIndex
  <2>. QED
    BY <2>1, <2>2, <2>3, Zenon DEF BlankIndex
<1>3. ASSUME NEW rows \in SUBSET Rows
      PROVE  /\ Scaffold(rows) \in Readmes /\ Scaffold(rows).there
             /\ Scaffold(rows).marked /\ Scaffold(rows).prose = 0
             /\ Scaffold(rows).rows = rows
  BY <1>1, <1>3 DEF Scaffold, Readmes
<1>. QED
  BY <1>1, <1>2, <1>3

LEMMA CommandType ==
    ASSUME NEW op \in {"none", "create", "update", "status", "task", "init"}, NEW pc \in Stages
    PROVE  /\ Command(op, pc) \in Commands
           /\ Command(op, pc).op = op /\ Command(op, pc).pc = pc
           /\ Command(op, pc).seen = {} /\ Command(op, pc).todo = {}
           /\ ~ Command(op, pc).fresh
  BY Constants, Indexes DEF Command, Commands, Documents

LEMMA IdleFacts ==
    Idle \in Commands /\ Idle.pc = "idle" /\ Idle.op = "none" /\ ~ Idle.fresh /\ Idle.seen = {}
<1>1. "idle" \in Stages
  BY DEF Stages
<1>. QED
  BY <1>1, CommandType DEF Idle

Knows(c) == /\ CommandInv(c) /\ PresentInv(c) /\ NumberInv(c)
            /\ CopyInv(c) /\ FreshInv(c) /\ BodyInv(c)

LEMMA KnowsNothing ==
    ASSUME NEW c \in Commands, \A e \in c.seen : Readable(e.doc) /\ e.doc.id = e.name.num,
           c.pc \in {"idle", "plan", "planned", "number", "list", "config", "fillConfig", "type"}
    PROVE  Knows(c)
  BY DEF Knows, CommandInv, PresentInv, NumberInv, CopyInv, FreshInv, BodyInv, Numbering,
         Writing, Indexing, Listing

LEMMA LocalStep ==
    ASSUME IInv, NEW p \in Procs, NEW c \in Commands, run' = [run EXCEPT ![p] = c],
           c.pc \in StagesOf(c.op), Knows(c),
           UNCHANGED <<files, index, edits, said, exposed, vanished, current, words>>,
           config' \in {"none", "own", "default", "blank"}, started' \in 0..MaxCommands,
           kills' \in 0..MaxKills, kills' >= kills, collided' \in BOOLEAN, collided => collided',
           run[p].pc \in {"fill", "fillIndex"} => kills' > 0,
           Numbering(c) /\ ~ collided' =>
             Numbering(run[p]) \/ \A q \in Procs \ {p} : ~ Numbering(run[q])
    PROVE  IInv'
<1>1. /\ \A q \in Procs : run[q] \in Commands /\ run[q].pc \in StagesOf(run[q].op)
      /\ run \in [Procs -> Commands] /\ kills \in Nat
  BY Constants DEF IInv, TypeOK
<1>2. /\ run'[p] = c /\ \A q \in Procs : q # p => run'[q] = run[q]
      /\ run' \in [Procs -> Commands]
  BY <1>1
<1>3. TypeOK'
  BY <1>1, <1>2 DEF IInv, TypeOK
<1>4. FilesInv' /\ SaidInv' /\ WordsInv'
  BY DEF IInv, FilesInv, SaidInv, WordsInv
<1>5. ApartInv'
  BY <1>2 DEF IInv, ApartInv, Numbering
<1>6. ASSUME NEW q \in Procs
      PROVE  /\ CommandInv(run[q])' /\ PresentInv(run[q])' /\ NumberInv(run[q])'
             /\ CopyInv(run[q])' /\ FreshInv(run[q])' /\ BodyInv(run[q])'
  <2>1. PICK d : d = run'[q]
    OBVIOUS
  <2>2. /\ CommandInv(d) /\ PresentInv(d) /\ NumberInv(d)
        /\ CopyInv(d) /\ FreshInv(d) /\ BodyInv(d)
    BY <1>2, <2>1 DEF IInv, Knows
  <2>3. CommandInv(run[q])'
    BY <2>1, <2>2 DEF CommandInv, Name, Writing, Indexing, Listing
  <2>4. PresentInv(run[q])'
    BY <2>1, <2>2 DEF PresentInv, Name, Writing, Listing
  <2>5. NumberInv(run[q])'
    BY <2>1, <2>2 DEF NumberInv, Numbering
  <2>6. CopyInv(run[q])'
    BY <2>1, <2>2 DEF CopyInv, Name, Writing, Kept, Meant
  <2>7. FreshInv(run[q])'
    BY <2>1, <2>2 DEF FreshInv, Name, Writing, Indexing
  <2>8. BodyInv(run[q])'
    BY <1>1, <2>1, <2>2 DEF BodyInv, Indexing, IInv, TypeOK
  <2>. QED
    BY <2>3, <2>4, <2>5, <2>6, <2>7, <2>8
<1>7. NumbersDistinct' /\ IndexIsTrue'
  BY DEF IInv, NumbersDistinct, IndexIsTrue
<1>8. ChangesKept'
  <2>1. ASSUME NEW n \in DOMAIN files \ exposed, files[n] = Blank
        PROVE  kills' > 0 \/ \E q \in Procs : run'[q].pc = "fill" /\ Name(run'[q]) = n
    <3>1. CASE kills > 0
      BY <1>1, <3>1
    <3>2. CASE \E q \in Procs : At(q, "fill") /\ Name(run[q]) = n
      BY <1>1, <1>2, <3>2 DEF At
    <3>. QED
      BY <2>1, <3>1, <3>2 DEF IInv, ChangesKept
  <2>. QED
    BY <2>1 DEF IInv, ChangesKept, At, Name
<1>9. ProseKept'
  BY <1>1, <1>2 DEF IInv, ProseKept, At, TypeOK
<1>. QED
  BY <1>3, <1>4, <1>5, <1>6, <1>7, <1>8, <1>9 DEF IInv

-----------------------------------------------------------------------------
(* The steps that write no file. *)
LEMMA RunFacts ==
    ASSUME IInv, NEW p \in Procs
    PROVE  \E d \in Commands : d = run[p] /\ Knows(d) /\ d.pc \in StagesOf(d.op)
<1>1. run[p] \in Commands /\ run[p].pc \in StagesOf(run[p].op)
  BY DEF IInv, TypeOK
<1>2. Knows(run[p])
  BY DEF IInv, Knows
<1>. QED
  BY <1>1, <1>2

(* A step of a command that writes nothing. *)
LEMMA RunStep ==
    ASSUME IInv, NEW p \in Procs, NEW c \in Commands, Step(p, c), c.pc \in StagesOf(c.op), Knows(c),
           UNCHANGED <<files, index, config, counters, history>>,
           run[p].pc \notin {"fill", "fillIndex"}, Numbering(c) => Numbering(run[p])
    PROVE  IInv'
<1>1. /\ config \in {"none", "own", "default", "blank"} /\ started \in 0..MaxCommands
      /\ kills \in 0..MaxKills /\ collided \in BOOLEAN
  BY DEF IInv, TypeOK
<1>2. /\ config' \in {"none", "own", "default", "blank"} /\ started' \in 0..MaxCommands
      /\ kills' \in 0..MaxKills /\ kills' >= kills /\ collided' \in BOOLEAN
      /\ collided => collided'
      /\ UNCHANGED <<files, index, edits, said, exposed, vanished, current, words>>
  BY <1>1, Constants DEF counters, history
<1>. QED
  BY <1>2, LocalStep DEF Step

LEMMA FinishStep ==
    ASSUME IInv, NEW p \in Procs, Finish(p), UNCHANGED <<files, index, config, counters, history>>,
           run[p].pc \notin {"fill", "fillIndex"}
    PROVE  IInv'
<1>1. Knows(Idle) /\ Idle.pc \in StagesOf(Idle.op) /\ ~ Numbering(Idle)
  BY IdleFacts, KnowsNothing DEF StagesOf, Numbering
<1>. QED
  BY <1>1, IdleFacts, RunStep DEF Finish

LEMMA KillStep ==
    ASSUME IInv, NEW p \in Procs, Kill(p)
    PROVE  IInv'
<1>1. Knows(Idle) /\ Idle.pc \in StagesOf(Idle.op) /\ ~ Numbering(Idle)
  BY IdleFacts, KnowsNothing DEF StagesOf, Numbering
<1>2. /\ config \in {"none", "own", "default", "blank"} /\ started \in 0..MaxCommands
      /\ kills \in 0..MaxKills /\ collided \in BOOLEAN
  BY DEF IInv, TypeOK
<1>3. kills' \in 0..MaxKills /\ kills' > 0 /\ kills' >= kills
  BY <1>2, Constants DEF Kill
<1>. QED
  BY <1>1, <1>2, <1>3, IdleFacts, LocalStep DEF Kill, Finish, Step, history

LEMMA BeginStep ==
    ASSUME IInv, NEW p \in Procs, NEW c \in Commands, Begin(p, c), c.pc \in StagesOf(c.op),
           Knows(c), ~ Numbering(c)
    PROVE  IInv'
<1>1. /\ config \in {"none", "own", "default", "blank"} /\ started \in 0..MaxCommands
      /\ kills \in 0..MaxKills /\ collided \in BOOLEAN
  BY DEF IInv, TypeOK
<1>2. run[p].pc \notin {"fill", "fillIndex"}
  BY DEF Begin, At
<1>3. run' = [run EXCEPT ![p] = c]
  BY DEF Begin, Step
<1>4. UNCHANGED <<files, index, edits, said, exposed, vanished, current, words>>
  BY DEF Begin, history
<1>5. UNCHANGED <<config, kills, collided>>
  BY DEF Begin, history
<1>6. started < MaxCommands /\ started' = started + 1
  BY DEF Begin
<1>7. started' \in 0..MaxCommands
  BY <1>1, <1>6, Constants
<1>8. /\ config' \in {"none", "own", "default", "blank"} /\ kills' \in 0..MaxKills
      /\ kills' >= kills /\ collided' \in BOOLEAN /\ (collided => collided')
  BY <1>1, <1>5, Constants
<1>. QED
  BY <1>2, <1>3, <1>4, <1>7, <1>8, LocalStep

LEMMA BeginsStep ==
    ASSUME IInv, NEW p \in Procs,
           BeginCreate(p) \/ BeginUpdate(p) \/ BeginStatus(p) \/ BeginTask(p) \/ BeginInit(p)
    PROVE  IInv'
<1>1. CASE BeginCreate(p)
  <2>1. PICK s \in Slugs, refresh \in BOOLEAN :
          Begin(p, [Command("create", "plan") EXCEPT !.slug = s, !.flag = refresh])
    BY <1>1 DEF BeginCreate
  <2>2. PICK d \in Commands : d = Command("create", "plan") /\ d.op = "create" /\ d.pc = "plan" /\ d.seen = {}
    BY CommandType DEF Stages
  <2>. DEFINE c == [d EXCEPT !.slug = s, !.flag = refresh]
  <2>3. c \in Commands /\ c.op = "create" /\ c.pc = "plan" /\ c.seen = {}
    BY <2>2 DEF Commands
  <2>4. Begin(p, c)
    BY <2>1, <2>2
  <2>. HIDE DEF c
  <2>5. Knows(c) /\ c.pc \in StagesOf(c.op) /\ ~ Numbering(c)
    BY <2>3, KnowsNothing DEF StagesOf, Numbering
  <2>. QED
    BY <2>3, <2>4, <2>5, BeginStep
<1>2. CASE BeginUpdate(p)
  <2>1. PICK dry \in BOOLEAN : Begin(p, [Command("update", "list") EXCEPT !.flag = dry])
    BY <1>2 DEF BeginUpdate
  <2>2. PICK d \in Commands : d = Command("update", "list") /\ d.op = "update" /\ d.pc = "list" /\ d.seen = {}
    BY CommandType DEF Stages
  <2>. DEFINE c == [d EXCEPT !.flag = dry]
  <2>3. c \in Commands /\ c.op = "update" /\ c.pc = "list" /\ c.seen = {}
    BY <2>2 DEF Commands
  <2>4. Begin(p, c)
    BY <2>1, <2>2
  <2>. HIDE DEF c
  <2>5. Knows(c) /\ c.pc \in StagesOf(c.op) /\ ~ Numbering(c)
    BY <2>3, KnowsNothing DEF StagesOf, Numbering
  <2>. QED
    BY <2>3, <2>4, <2>5, BeginStep
<1>3. CASE BeginStatus(p)
  <2>1. PICK num \in 1..MaxNumber, status \in Statuses :
          Begin(p, [Command("status", "list") EXCEPT !.num = num, !.status = status])
    BY <1>3 DEF BeginStatus
  <2>2. PICK d \in Commands : d = Command("status", "list") /\ d.op = "status" /\ d.pc = "list" /\ d.seen = {}
    BY CommandType DEF Stages
  <2>. DEFINE c == [d EXCEPT !.num = num, !.status = status]
  <2>3. c \in Commands /\ c.op = "status" /\ c.pc = "list" /\ c.seen = {}
    <3>1. num \in 0..MaxNumber
      BY Constants
    <3>. QED
      BY <2>2, <3>1 DEF Commands
  <2>4. Begin(p, c)
    BY <2>1, <2>2
  <2>. HIDE DEF c
  <2>5. Knows(c) /\ c.pc \in StagesOf(c.op) /\ ~ Numbering(c)
    BY <2>3, KnowsNothing DEF StagesOf, Numbering
  <2>. QED
    BY <2>3, <2>4, <2>5, BeginStep
<1>4. CASE BeginTask(p)
  <2>1. PICK n \in DOMAIN files, ticked \in BOOLEAN :
          Begin(p, [Command("task", "read") EXCEPT !.num = n.num, !.slug = n.slug, !.flag = ticked])
    BY <1>4 DEF BeginTask
  <2>2. PICK d \in Commands : d = Command("task", "read") /\ d.op = "task" /\ d.pc = "read" /\ d.seen = {}
    BY CommandType DEF Stages
  <2>3. n \in Names /\ n.num \in 1..MaxNumber /\ n.slug \in Slugs
    BY Constants DEF IInv, TypeOK
  <2>. DEFINE c == [d EXCEPT !.num = n.num, !.slug = n.slug, !.flag = ticked]
  <2>4. c \in Commands /\ c.op = "task" /\ c.pc = "read" /\ c.seen = {} /\ Name(c) = n /\ c.num > 0
    <3>1. n.num \in 0..MaxNumber
      BY <2>3, Constants
    <3>2. c \in Commands /\ c.op = "task" /\ c.pc = "read" /\ c.seen = {} /\ c.num = n.num /\ c.slug = n.slug
      BY <2>2, <2>3, <3>1 DEF Commands
    <3>. HIDE DEF c
    <3>. QED
      BY <2>3, <3>2, NameFacts, Constants DEF Name
  <2>5. Begin(p, c)
    BY <2>1, <2>2
  <2>. HIDE DEF c
  <2>6. Knows(c) /\ c.pc \in StagesOf(c.op) /\ ~ Numbering(c)
    BY <2>4 DEF StagesOf, Numbering, Knows, CommandInv, PresentInv, NumberInv, CopyInv, FreshInv,
                BodyInv, Writing, Indexing, Listing
  <2>. QED
    BY <2>4, <2>5, <2>6, BeginStep
<1>5. CASE BeginInit(p)
  <2>1. PICK force \in BOOLEAN : Begin(p, [Command("init", "config") EXCEPT !.flag = force])
    BY <1>5 DEF BeginInit
  <2>2. PICK d \in Commands : d = Command("init", "config") /\ d.op = "init" /\ d.pc = "config" /\ d.seen = {}
    BY CommandType DEF Stages
  <2>. DEFINE c == [d EXCEPT !.flag = force]
  <2>3. c \in Commands /\ c.op = "init" /\ c.pc = "config" /\ c.seen = {}
    BY <2>2 DEF Commands
  <2>4. Begin(p, c)
    BY <2>1, <2>2
  <2>. HIDE DEF c
  <2>5. Knows(c) /\ c.pc \in StagesOf(c.op) /\ ~ Numbering(c)
    BY <2>3, KnowsNothing DEF StagesOf, Numbering
  <2>. QED
    BY <2>3, <2>4, <2>5, BeginStep
<1>. QED
  BY <1>1, <1>2, <1>3, <1>4, <1>5

LEMMA PlanStep ==
    ASSUME IInv, NEW p \in Procs, Plan(p)
    PROVE  IInv'
<1>1. PICK d \in Commands : d = run[p] /\ Knows(d) /\ d.pc \in StagesOf(d.op)
  BY RunFacts
<1>2. NextNumber \in 0..MaxNumber
  BY NextNumberFacts, Constants DEF Plan, IInv, TypeOK
<1>3. PICK m \in 0..MaxNumber : m = NextNumber
  BY <1>2
<1>. DEFINE c == [d EXCEPT !.num = m, !.pc = "planned"]
<1>4. d.pc = "plan" /\ Step(p, c) /\ UNCHANGED <<files, index, config, counters, history>>
  BY <1>1, <1>3 DEF Plan, At
<1>5. c \in Commands /\ c.op = d.op /\ c.pc = "planned" /\ c.seen = d.seen
  BY DEF Commands, Stages
<1>. HIDE DEF c
<1>6. Knows(c) /\ ~ Numbering(c)
  BY <1>1, <1>5, KnowsNothing DEF Knows, CommandInv, Numbering
<1>7. c.pc \in StagesOf(c.op)
  BY <1>1, <1>4, <1>5 DEF StagesOf
<1>. QED
  BY <1>1, <1>4, <1>5, <1>6, <1>7, RunStep

LEMMA GotoStep ==
    ASSUME IInv, NEW p \in Procs,
           NEW pc \in {"planned", "number", "config", "fillConfig", "type"}, Goto(p, pc),
           run[p].pc \notin {"fill", "fillIndex"}, pc \in StagesOf(run[p].op),
           config' \in {"none", "own", "default", "blank"},
           UNCHANGED <<files, index, counters, history>>
    PROVE  IInv'
<1>1. PICK d \in Commands : d = run[p] /\ Knows(d) /\ d.pc \in StagesOf(d.op)
  BY RunFacts
<1>. DEFINE c == [d EXCEPT !.pc = pc]
<1>2. c \in Commands /\ c.op = d.op /\ c.pc = pc /\ c.seen = d.seen
  BY DEF Commands, Stages
<1>3. run' = [run EXCEPT ![p] = c]
  BY <1>1 DEF Goto, Step
<1>. HIDE DEF c
<1>4. Knows(c) /\ ~ Numbering(c) /\ c.pc \in StagesOf(c.op)
  BY <1>1, <1>2, KnowsNothing DEF Knows, CommandInv, Numbering
<1>5. /\ started' \in 0..MaxCommands
      /\ kills' \in 0..MaxKills /\ kills' >= kills /\ collided' \in BOOLEAN
      /\ collided => collided'
      /\ UNCHANGED <<files, index, edits, said, exposed, vanished, current, words>>
  BY Constants DEF counters, history, IInv, TypeOK
<1>. QED
  BY <1>1, <1>2, <1>3, <1>4, <1>5, LocalStep

LEMMA StatPlannedStep ==
    ASSUME IInv, NEW p \in Procs, StatPlanned(p)
    PROVE  IInv'
<1>1. /\ run[p].pc = "planned" /\ run[p].pc \in StagesOf(run[p].op)
      /\ config \in {"none", "own", "default", "blank"}
      /\ UNCHANGED <<files, index, config, counters, history>>
  BY DEF StatPlanned, At, IInv, TypeOK
<1>2. "number" \in StagesOf(run[p].op)
  BY <1>1 DEF StagesOf
<1>. QED
  BY <1>1, <1>2, FinishStep, GotoStep DEF StatPlanned

LEMMA NumberAgainStep ==
    ASSUME IInv, NEW p \in Procs, NumberAgain(p)
    PROVE  IInv'
<1>1. PICK d \in Commands : d = run[p] /\ Knows(d) /\ d.pc \in StagesOf(d.op)
  BY RunFacts
<1>2. /\ NextNumber \in 0..MaxNumber /\ NextNumber > 0 /\ \A n \in DOMAIN files : n.num < NextNumber
  BY NextNumberFacts, Constants DEF NumberAgain, IInv, TypeOK
<1>3. PICK m \in 0..MaxNumber : m = NextNumber
  BY <1>2
<1>. DEFINE c == [d EXCEPT !.num = m, !.pc = "stat"]
<1>4. /\ d.pc = "number" /\ run' = [run EXCEPT ![p] = c]
      /\ UNCHANGED <<files, index, edits, said, exposed, vanished, current, words>>
      /\ UNCHANGED <<config, started, kills>>
      /\ collided' = (collided \/ \E q \in Others(p) :
                         run[q].op = "create" /\ run[q].pc \in {"stat", "open"})
  BY <1>1, <1>3 DEF NumberAgain, At, Step, counters
<1>5. c \in Commands /\ c.op = d.op /\ c.pc = "stat" /\ c.seen = d.seen /\ c.num = m
  BY DEF Commands, Stages
<1>. HIDE DEF c
<1>6. Knows(c)
  BY <1>1, <1>2, <1>3, <1>5 DEF Knows, CommandInv, PresentInv, NumberInv, CopyInv, FreshInv, BodyInv,
     Numbering, Writing, Indexing, Listing
<1>7. c.pc \in StagesOf(c.op)
  BY <1>1, <1>4, <1>5 DEF StagesOf
<1>8. ~ collided' => \A q \in Procs \ {p} : ~ Numbering(run[q])
  BY <1>4 DEF Numbering, Others
<1>9. /\ config' \in {"none", "own", "default", "blank"} /\ started' \in 0..MaxCommands
      /\ kills' \in 0..MaxKills /\ kills' >= kills
      /\ collided => collided'
  BY <1>4, Constants DEF IInv, TypeOK
<1>10. collided' \in BOOLEAN
  BY <1>4
<1>. QED
  BY <1>1, <1>4, <1>5, <1>6, <1>7, <1>8, <1>9, <1>10, LocalStep

LEMMA StatAgainStep ==
    ASSUME IInv, NEW p \in Procs, StatAgain(p)
    PROVE  IInv'
<1>1. PICK d \in Commands : d = run[p] /\ Knows(d) /\ d.pc \in StagesOf(d.op)
  BY RunFacts
<1>2. d.pc = "stat" /\ UNCHANGED <<files, index, config, counters, history>>
  BY <1>1 DEF StatAgain, At
<1>3. CASE Name(d) \in DOMAIN files
  BY <1>1, <1>2, <1>3, FinishStep DEF StatAgain
<1>4. CASE Name(d) \notin DOMAIN files
  <2>1. d.num > 0 /\ d.num \in 1..MaxNumber /\ d.op = "create"
    BY <1>1, <1>2, CommandFacts DEF Knows, CommandInv, StagesOf
  <2>2. PICK r \in Documents : r = Rendered(d.num) /\ r.id = d.num
    BY <2>1, RenderedFacts
  <2>. DEFINE c == [d EXCEPT !.pc = "open", !.doc = r]
  <2>3. Step(p, c)
    BY <1>1, <1>4, <2>2 DEF StatAgain
  <2>4. c \in Commands /\ c.op = "create" /\ c.pc = "open" /\ c.seen = d.seen /\ c.num = d.num
        /\ c.doc = r /\ c.slug = d.slug
    BY <2>1 DEF Commands, Stages
  <2>. HIDE DEF c
  <2>5. CommandInv(c) /\ PresentInv(c) /\ FreshInv(c) /\ BodyInv(c)
    BY <1>1, <2>1, <2>2, <2>4 DEF Knows, CommandInv, PresentInv, FreshInv, BodyInv,
       Writing, Indexing, Listing
  <2>6. NumberInv(c)
    BY <1>1, <1>2, <2>1, <2>4 DEF Knows, NumberInv, Numbering
  <2>7. CopyInv(c)
    BY <2>4 DEF CopyInv, Meant, Writing
  <2>8. c.pc \in StagesOf(c.op) /\ (Numbering(c) => Numbering(run[p]))
    BY <1>1, <1>2, <2>1, <2>4 DEF StagesOf, Numbering
  <2>. QED
    BY <1>1, <1>2, <2>3, <2>4, <2>5, <2>6, <2>7, <2>8, RunStep DEF Knows
<1>. QED
  BY <1>3, <1>4

LEMMA InitConfigStep ==
    ASSUME IInv, NEW p \in Procs, InitConfig(p) \/ FillConfig(p)
    PROVE  IInv'
<1>1. /\ run[p].pc \in {"config", "fillConfig"} /\ run[p].pc \in StagesOf(run[p].op)
      /\ config \in {"none", "own", "default", "blank"}
      /\ UNCHANGED <<files, index, counters, history>>
  BY DEF InitConfig, FillConfig, At, IInv, TypeOK
<1>2. "type" \in StagesOf(run[p].op) /\ "fillConfig" \in StagesOf(run[p].op)
  BY <1>1 DEF StagesOf
<1>. QED
  BY <1>1, <1>2, GotoStep DEF InitConfig, FillConfig

LEMMA InitTypeStep ==
    ASSUME IInv, NEW p \in Procs, InitType(p)
    PROVE  IInv'
<1>1. PICK d \in Commands : d = run[p] /\ Knows(d) /\ d.pc \in StagesOf(d.op)
  BY RunFacts
<1>2. d.pc = "type" /\ UNCHANGED <<files, index, config, counters, history>>
  BY <1>1 DEF InitType, At
<1>3. CASE index.there /\ ~ d.flag
  BY <1>1, <1>2, <1>3, FinishStep DEF InitType
<1>4. CASE ~ (index.there /\ ~ d.flag)
  <2>1. d.op = "init"
    BY <1>1, <1>2 DEF StagesOf
  <2>2. PICK b \in Readmes : b = Scaffold({}) /\ b.there
    BY Indexes
  <2>. DEFINE c == [d EXCEPT !.pc = "openIndex", !.body = b]
  <2>3. Step(p, c)
    BY <1>1, <1>4, <2>2 DEF InitType
  <2>4. c \in Commands /\ c.op = "init" /\ c.pc = "openIndex" /\ c.seen = d.seen /\ c.body = b
    BY <2>1 DEF Commands, Stages
  <2>. HIDE DEF c
  <2>5. Knows(c) /\ c.pc \in StagesOf(c.op) /\ ~ Numbering(c)
    BY <1>1, <2>2, <2>4 DEF Knows, CommandInv, PresentInv, FreshInv, BodyInv, NumberInv, CopyInv,
       Writing, Indexing, Listing, StagesOf, Numbering
  <2>. QED
    BY <1>1, <1>2, <2>3, <2>4, <2>5, RunStep
<1>. QED
  BY <1>3, <1>4

LEMMA EntryFacts ==
    \A n \in Names, v \in Documents \ {Blank} :
        \E e \in Entries : e = [name |-> n, doc |-> v] /\ e.name = n /\ e.doc = v
<1>1. SUFFICES ASSUME NEW n \in Names, NEW v \in Documents \ {Blank}
               PROVE  \E e \in Entries : e = [name |-> n, doc |-> v] /\ e.name = n /\ e.doc = v
  OBVIOUS
<1>2. [name |-> n, doc |-> v] \in Entries
  BY <1>1 DEF Entries
<1>. QED
  BY <1>2

LEMMA ListStep ==
    ASSUME IInv, NEW p \in Procs, List(p)
    PROVE  IInv'
<1>1. PICK d \in Commands : d = run[p] /\ Knows(d) /\ d.pc \in StagesOf(d.op)
  BY RunFacts
<1>2. PICK S \in SUBSET Names : S = DOMAIN files
  BY DEF IInv, TypeOK
<1>. DEFINE c == [d EXCEPT !.pc = "scan", !.todo = S, !.seen = {}, !.fresh = TRUE]
<1>3. d.pc = "list" /\ Step(p, c) /\ UNCHANGED <<files, index, config, counters, history>>
  BY <1>1, <1>2 DEF List, At
<1>4. c \in Commands /\ c.op = d.op /\ c.pc = "scan" /\ c.seen = {} /\ c.todo = S
  BY DEF Commands, Stages
<1>. HIDE DEF c
<1>5. Knows(c)
  BY <1>2, <1>4 DEF Knows, CommandInv, PresentInv, FreshInv, BodyInv, NumberInv, CopyInv,
     Writing, Indexing, Listing, Numbering
<1>6. c.pc \in StagesOf(c.op) /\ ~ Numbering(c)
  BY <1>1, <1>3, <1>4 DEF StagesOf, Numbering
<1>. QED
  BY <1>1, <1>3, <1>4, <1>5, <1>6, RunStep

LEMMA ScanFileStep ==
    ASSUME IInv, NEW p \in Procs, ScanFile(p)
    PROVE  IInv'
<1>1. PICK d \in Commands : d = run[p] /\ Knows(d) /\ d.pc \in StagesOf(d.op)
  BY RunFacts
<1>2. /\ d.pc = "scan" /\ d.todo # {} /\ d.todo \in SUBSET Names
      /\ UNCHANGED <<files, index, config, counters, history>>
  BY <1>1, CommandFacts DEF ScanFile, At
<1>3. PICK n \in d.todo : n = Least(d.todo)
  BY <1>2, LeastFacts
<1>4. PICK got : got = IF n \in DOMAIN files /\ Readable(files[n])
                       THEN {[name |-> n, doc |-> files[n]]} ELSE {}
  OBVIOUS
<1>5. /\ got \in SUBSET Entries
      /\ \A e \in got : /\ e.name = n /\ n \in DOMAIN files /\ e.doc = files[n]
                        /\ Readable(files[n]) /\ files[n] # Blank
      /\ n \in DOMAIN files /\ Readable(files[n]) => \E e \in got : e.name = n
      /\ \A e, f \in got : e = f
  <2>1. CASE n \in DOMAIN files /\ Readable(files[n])
    <3>1. PICK v \in Documents \ {Blank} : v = files[n]
      BY <2>1, DocumentFacts DEF IInv, TypeOK, Readable
    <3>2. PICK e \in Entries : e = [name |-> n, doc |-> v] /\ e.name = n /\ e.doc = v
      <4>1. n \in Names
        BY <1>2
      <4>. QED
        BY <4>1, EntryFacts
    <3>3. got = {e}
      BY <1>4, <2>1, <3>1, <3>2
    <3>. QED
      BY <2>1, <3>1, <3>2, <3>3
  <2>2. CASE ~ (n \in DOMAIN files /\ Readable(files[n]))
    BY <1>4, <2>2
  <2>. QED
    BY <2>1, <2>2
<1>. DEFINE c == [d EXCEPT !.todo = d.todo \ {n}, !.seen = d.seen \union got]
<1>6. Step(p, c)
  <2>1. Step(p, [d EXCEPT !.todo = @ \ {n}, !.seen = @ \union got])
    BY <1>1, <1>3, <1>4 DEF ScanFile
  <2>. QED
    BY <2>1
<1>7. /\ c \in Commands /\ c.op = d.op /\ c.pc = "scan" /\ c.todo = d.todo \ {n}
      /\ c.seen = d.seen \union got /\ c.flag = d.flag /\ c.fresh = d.fresh
  BY <1>2, <1>5 DEF Commands
<1>. HIDE DEF c
<1>8. /\ \A e \in d.seen : e.name # n /\ e.name \notin d.todo
      /\ \A e, f \in d.seen : e.name = f.name => e = f
      /\ \A e \in d.seen : Readable(e.doc) /\ e.doc.id = e.name.num
  BY <1>1, <1>2 DEF Knows, CommandInv, Listing
<1>9. CommandInv(c)
  <2>1. \A e \in got : e.doc.id = e.name.num
    BY <1>5, DocumentFacts DEF IInv, FilesInv
  <2>2. \A e, f \in c.seen : e.name = f.name => e = f
    BY <1>5, <1>7, <1>8
  <2>3. \A e \in c.seen : e.name \notin c.todo
    BY <1>5, <1>7, <1>8
  <2>. QED
    BY <1>5, <1>7, <1>8, <2>1, <2>2, <2>3 DEF CommandInv, Listing, Writing, Indexing
<1>10. PresentInv(c)
  BY <1>1, <1>2, <1>5, <1>7 DEF Knows, PresentInv, Listing, Writing
<1>11. NumberInv(c) /\ BodyInv(c) /\ ~ Numbering(c)
  BY <1>7 DEF NumberInv, BodyInv, Numbering, Indexing
<1>12. CopyInv(c)
  <2>1. ASSUME NEW e \in got, e.name \notin exposed PROVE Kept(e.name, e.doc)
    BY <1>5, <2>1, DocumentFacts DEF IInv, ChangesKept, Kept
  <2>. QED
    BY <1>1, <1>2, <1>7, <2>1 DEF Knows, CopyInv, Writing
<1>13. FreshInv(c)
  <2>1. SUFFICES ASSUME c.fresh
                 PROVE  /\ \A e \in c.seen : e.name \in DOMAIN files /\ files[e.name] = e.doc
                        /\ \A m \in DOMAIN files : Readable(files[m]) =>
                             m \in c.todo \/ \E e \in c.seen : e.name = m
                        /\ c.todo \subseteq DOMAIN files
    BY <1>7 DEF FreshInv, Writing, Indexing
  <2>2. /\ \A e \in d.seen : e.name \in DOMAIN files /\ files[e.name] = e.doc
        /\ \A m \in DOMAIN files : Readable(files[m]) =>
             m \in d.todo \/ \E e \in d.seen : e.name = m
        /\ d.todo \subseteq DOMAIN files
    BY <1>1, <1>2, <1>7, <2>1 DEF Knows, FreshInv
  <2>. QED
    BY <1>5, <1>7, <2>2
<1>14. c.pc \in StagesOf(c.op)
  BY <1>1, <1>2, <1>7
<1>. QED
  BY <1>1, <1>2, <1>6, <1>7, <1>9, <1>10, <1>11, <1>12, <1>13, <1>14, RunStep DEF Knows

LEMMA ScanDoneStep ==
    ASSUME IInv, NEW p \in Procs, ScanDone(p)
    PROVE  IInv'
<1>1. PICK d \in Commands : d = run[p] /\ Knows(d) /\ d.pc \in StagesOf(d.op)
  BY RunFacts
<1>2. /\ d.pc = "scan" /\ d.todo = {} /\ d.op \in {"update", "status"}
      /\ UNCHANGED <<files, index, config, counters, history>>
  BY <1>1 DEF ScanDone, At, StagesOf
<1>3. CASE d.op = "status"
  <2>. DEFINE c == [d EXCEPT !.pc = "find"]
  <2>1. Step(p, c)
    BY <1>1, <1>3 DEF ScanDone, Goto
  <2>2. c \in Commands /\ c.op = d.op /\ c.pc = "find" /\ c.seen = d.seen
    BY DEF Commands, Stages
  <2>. HIDE DEF c
  <2>3. Knows(c) /\ c.pc \in StagesOf(c.op) /\ ~ Numbering(c)
    BY <1>1, <1>2, <1>3, <2>2 DEF Knows, CommandInv, PresentInv, FreshInv, BodyInv, NumberInv,
       CopyInv, Writing, Indexing, Listing, StagesOf, Numbering
  <2>. QED
    BY <1>1, <1>2, <2>1, <2>2, <2>3, RunStep
<1>4. CASE d.op = "update"
  <2>1. PICK S : S = IF d.flag THEN {} ELSE {e.name : e \in {e \in d.seen : NeedsToC(e.doc)}}
    OBVIOUS
  <2>2. /\ S \in SUBSET Names
        /\ \A n \in S : \E e \in d.seen : e.name = n /\ NeedsToC(e.doc) /\ ~ d.flag
    <3>1. CASE d.flag
      BY <2>1, <3>1
    <3>2. CASE ~ d.flag
      BY <2>1, <3>2, CommandFacts
    <3>. QED
      BY <3>1, <3>2
  <2>. DEFINE c == [d EXCEPT !.pc = "toc", !.todo = S]
  <2>3. Step(p, c)
    BY <1>1, <1>4, <2>1 DEF ScanDone
  <2>4. /\ c \in Commands /\ c.op = d.op /\ c.pc = "toc" /\ c.todo = S
        /\ c.seen = d.seen /\ c.fresh = d.fresh
    BY <2>2 DEF Commands, Stages
  <2>. HIDE DEF c
  <2>5. CommandInv(c) /\ PresentInv(c)
    BY <1>1, <1>2, <1>4, <2>2, <2>4 DEF Knows, CommandInv, PresentInv, Listing, Writing, Indexing
  <2>6. NumberInv(c) /\ BodyInv(c) /\ ~ Numbering(c)
    BY <2>4 DEF NumberInv, BodyInv, Numbering, Indexing
  <2>7. CopyInv(c)
    <3>1. ASSUME NEW e \in d.seen, e.name \in S \ exposed PROVE Kept(e.name, e.doc)
      <4>1. PICK f \in d.seen : f.name = e.name /\ NeedsToC(f.doc) /\ ~ d.flag
        BY <2>2, <3>1
      <4>2. f = e
        BY <1>1, <1>2, <4>1 DEF Knows, CommandInv, Listing
      <4>. QED
        BY <1>1, <1>2, <1>4, <3>1, <4>1, <4>2 DEF Knows, CopyInv
    <3>. QED
      BY <2>4, <3>1 DEF CopyInv, Writing
  <2>8. FreshInv(c)
    <3>1. \A e \in d.seen : Readable(e.doc) /\ e = [name |-> e.name, doc |-> e.doc]
      BY <1>1, CommandFacts DEF Knows, CommandInv, Entries
    <3>2. ASSUME d.fresh
          PROVE  /\ \A e \in d.seen : e.name \in DOMAIN files /\ files[e.name] = e.doc
                 /\ \A m \in DOMAIN files : Readable(files[m]) => \E e \in d.seen : e.name = m
      BY <1>1, <1>2, <3>2 DEF Knows, FreshInv
    <3>3. ASSUME d.fresh, NEW e \in d.seen
          PROVE  /\ Readable(files[e.name])
                 /\ Row([name |-> e.name, doc |-> files[e.name]]) = Row(e)
      BY <3>1, <3>2, <3>3
    <3>. QED
      BY <2>4, <3>2, <3>3 DEF FreshInv, Writing, Indexing
  <2>9. c.pc \in StagesOf(c.op)
    BY <1>4, <2>4 DEF StagesOf
  <2>. QED
    BY <1>1, <1>2, <2>3, <2>4, <2>5, <2>6, <2>7, <2>8, <2>9, RunStep DEF Knows
<1>. QED
  BY <1>2, <1>3, <1>4

LEMMA UpdateToCStep ==
    ASSUME IInv, NEW p \in Procs, UpdateToC(p)
    PROVE  IInv'
<1>1. PICK d \in Commands : d = run[p] /\ Knows(d) /\ d.pc \in StagesOf(d.op)
  BY RunFacts
<1>2. /\ d.pc = "toc" /\ d.todo # {} /\ d.todo \in SUBSET Names /\ d.op = "update"
      /\ UNCHANGED <<files, index, config, counters, history>>
  BY <1>1, CommandFacts DEF UpdateToC, At, StagesOf
<1>3. PICK n \in d.todo : n = Least(d.todo)
  BY <1>2, LeastFacts
<1>4. PICK e \in d.seen : e.name = n /\ e.doc = Scanned(d, n)
  BY <1>1, <1>2, <1>3 DEF Scanned, Knows, CommandInv
<1>5. /\ e.doc \in Documents \ {Blank} /\ Readable(e.doc) /\ e.doc.id = n.num
      /\ n \in Names /\ n.num \in 1..MaxNumber /\ n.slug \in Slugs
  BY <1>1, <1>2, <1>4, CommandFacts, Constants DEF Knows, CommandInv
<1>6. PICK v \in Documents : v = WithToC(e.doc) /\ v.id = n.num /\ Body(v) = Body(e.doc)
  BY <1>5, Contented
<1>7. PICK m \in 0..MaxNumber : m = n.num /\ m > 0
  BY <1>5, Constants
<1>. DEFINE c == [d EXCEPT !.pc = "open", !.num = m, !.slug = n.slug, !.todo = d.todo \ {n}, !.doc = v]
<1>8. Step(p, c)
  <2>1. Step(p, [d EXCEPT !.pc = "open", !.num = n.num, !.slug = n.slug,
                       !.todo = @ \ {n}, !.doc = WithToC(Scanned(d, n))])
    BY <1>1, <1>3 DEF UpdateToC
  <2>. QED
    BY <1>4, <1>6, <1>7, <2>1
<1>9. /\ c \in Commands /\ c.op = d.op /\ c.pc = "open" /\ c.todo = d.todo \ {n} /\ c.num = m
      /\ c.slug = n.slug /\ c.doc = v /\ c.seen = d.seen /\ c.fresh = d.fresh
  BY <1>2, <1>5 DEF Commands, Stages
<1>. HIDE DEF c
<1>10. Name(c) = n
  BY <1>5, <1>7, <1>9, NameFacts DEF Name
<1>11. CommandInv(c)
  BY <1>1, <1>2, <1>4, <1>6, <1>7, <1>9, <1>10 DEF Knows, CommandInv, Listing, Writing, Indexing
<1>12. PresentInv(c)
  BY <1>1, <1>2, <1>4, <1>9, <1>10 DEF Knows, PresentInv, Listing, Writing
<1>13. NumberInv(c) /\ BodyInv(c) /\ ~ Numbering(c)
  BY <1>2, <1>9 DEF NumberInv, BodyInv, Numbering, Indexing
<1>14. CopyInv(c)
  <2>1. n \notin exposed => Kept(n, e.doc)
    BY <1>1, <1>2, <1>4 DEF Knows, CopyInv
  <2>2. n \notin exposed => Body(c.doc) = Body(Meant(c))
    BY <1>2, <1>6, <1>9, <1>10, <2>1 DEF Meant, Kept
  <2>. QED
    BY <1>1, <1>2, <1>9, <1>10, <2>2 DEF Knows, CopyInv, Writing
<1>15. FreshInv(c)
  BY <1>1, <1>2, <1>9 DEF Knows, FreshInv, Writing, Indexing
<1>16. c.pc \in StagesOf(c.op)
  BY <1>2, <1>9 DEF StagesOf
<1>. QED
  BY <1>1, <1>2, <1>8, <1>9, <1>11, <1>12, <1>13, <1>14, <1>15, <1>16, RunStep DEF Knows

LEMMA ReadIndexStep ==
    ASSUME IInv, NEW p \in Procs, ReadIndex(p)
    PROVE  IInv'
<1>1. PICK d \in Commands : d = run[p] /\ Knows(d) /\ d.pc \in StagesOf(d.op)
  BY RunFacts
<1>2. /\ d.pc = "toc" /\ d.todo = {} /\ d.op = "update"
      /\ UNCHANGED <<files, index, config, counters, history>>
  BY <1>1 DEF ReadIndex, At, StagesOf
<1>3. CASE d.flag \/ ~ Spliceable(index)
  BY <1>1, <1>2, <1>3, FinishStep DEF ReadIndex
<1>4. CASE ~ (d.flag \/ ~ Spliceable(index))
  <2>1. PICK ix \in Readmes : ix = index
    BY DEF IInv, TypeOK
  <2>2. PICK S : S = {Row(e) : e \in d.seen}
    OBVIOUS
  <2>3. S \in SUBSET Rows
    <3>1. \A e \in d.seen : Row(e) \in Rows
      <4>1. SUFFICES ASSUME NEW e \in d.seen PROVE Row(e) \in Rows
        OBVIOUS
      <4>2. e.doc.id \in 1..MaxNumber /\ e.doc.status \in Statuses /\ e.name \in Names
        BY CommandFacts, DocumentFacts
      <4>. QED
        BY <4>2 DEF Row, Rows
    <3>. QED
      BY <2>2, <3>1
  <2>4. PICK b : b = Splice(ix, S)
    OBVIOUS
  <2>5. /\ b \in Readmes /\ b.there /\ b.rows = S
        /\ ix.there => b.prose = ix.prose /\ (ix.marked => b.marked)
        /\ ~ ix.there => b.prose = 0 /\ b.marked
    <3>1. CASE ix.there
      <4>1. b = [ix EXCEPT !.rows = S]
        BY <2>4, <3>1 DEF Splice
      <4>2. /\ b \in Readmes /\ b.rows = S /\ b.prose = ix.prose
            /\ b.there = ix.there /\ b.marked = ix.marked
        BY <2>3, <4>1 DEF Readmes
      <4>. QED
        BY <3>1, <4>2, Zenon
    <3>2. CASE ~ ix.there
      <4>1. b = Scaffold(S)
        BY <2>4, <3>2 DEF Splice
      <4>. QED
        BY <2>3, <3>2, <4>1, Indexes
    <3>. QED
      BY <3>1, <3>2
  <2>. DEFINE c == [d EXCEPT !.pc = "openIndex", !.body = b]
  <2>6. Step(p, c)
    BY <1>1, <1>4, <2>1, <2>2, <2>4 DEF ReadIndex
  <2>7. /\ c \in Commands /\ c.op = d.op /\ c.pc = "openIndex" /\ c.seen = d.seen /\ c.body = b
        /\ c.fresh = d.fresh
    BY <2>5 DEF Commands, Stages
  <2>. HIDE DEF c
  <2>8. CommandInv(c)
    BY <1>1, <1>2, <2>2, <2>5, <2>7 DEF Knows, CommandInv, Listing, Writing, Indexing
  <2>9. PresentInv(c) /\ NumberInv(c) /\ CopyInv(c) /\ ~ Numbering(c) /\ c.pc \in StagesOf(c.op)
    BY <1>2, <2>7 DEF PresentInv, NumberInv, CopyInv, Numbering, Listing, Writing, StagesOf
  <2>10. FreshInv(c)
    BY <1>1, <1>2, <2>7 DEF Knows, FreshInv, Writing, Indexing
  <2>11. BodyInv(c)
    <3>1. SUFFICES ASSUME Readme \notin exposed, kills = 0
                   PROVE  c.body.prose = words /\ (c.body.marked \/ words > 0)
      BY <2>7 DEF BodyInv, Indexing
    <3>2. CASE ~ ix.there
      BY <2>1, <2>5, <2>7, <3>2 DEF IInv, WordsInv
    <3>3. CASE ix.there
      <4>1. ix.marked
        BY <1>4, <2>1, <3>3 DEF Spliceable
      <4>2. \A q \in Procs : ~ At(q, "fillIndex")
        BY <2>1, <3>1, <4>1, Indexes DEF IInv, BodyInv, Indexing, At
      <4>3. ix.prose = words
        BY <2>1, <3>1, <3>3, <4>2 DEF IInv, ProseKept
      <4>. QED
        BY <2>5, <2>7, <3>3, <4>1, <4>3
    <3>. QED
      BY <3>2, <3>3
  <2>. QED
    BY <1>1, <1>2, <2>6, <2>7, <2>8, <2>9, <2>10, <2>11, RunStep DEF Knows
<1>. QED
  BY <1>3, <1>4

LEMMA FindStep ==
    ASSUME IInv, NEW p \in Procs, Find(p)
    PROVE  IInv'
<1>1. PICK d \in Commands : d = run[p] /\ Knows(d) /\ d.pc \in StagesOf(d.op)
  BY RunFacts
<1>2. /\ d.pc = "find" /\ d.op = "status"
      /\ UNCHANGED <<files, index, config, counters, history>>
  BY <1>1 DEF Find, At, StagesOf
<1>3. CASE Finish(p)
  BY <1>1, <1>2, <1>3, FinishStep
<1>4. ASSUME NEW e \in d.seen,
             Step(p, [d EXCEPT !.pc = "read", !.num = e.name.num, !.slug = e.name.slug, !.seen = {}])
      PROVE  IInv'
  <2>1. e.name \in Names /\ e.name.num \in 1..MaxNumber /\ e.name.slug \in Slugs
    BY CommandFacts, Constants
  <2>2. PICK m \in 0..MaxNumber : m = e.name.num /\ m > 0
    BY <2>1, Constants
  <2>. DEFINE c == [d EXCEPT !.pc = "read", !.num = m, !.slug = e.name.slug, !.seen = {}]
  <2>3. Step(p, c)
    BY <1>4, <2>2
  <2>4. /\ c \in Commands /\ c.op = d.op /\ c.pc = "read" /\ c.seen = {} /\ c.num = m
        /\ c.slug = e.name.slug
    BY <2>1 DEF Commands, Stages
  <2>. HIDE DEF c
  <2>5. Name(c) = e.name
    BY <2>1, <2>2, <2>4, NameFacts DEF Name
  <2>6. CommandInv(c) /\ NumberInv(c) /\ CopyInv(c) /\ FreshInv(c) /\ BodyInv(c)
    BY <1>2, <2>2, <2>4 DEF CommandInv, NumberInv, CopyInv, FreshInv, BodyInv, Numbering,
       Listing, Writing, Indexing
  <2>7. PresentInv(c)
    BY <1>1, <1>2, <2>4, <2>5 DEF Knows, PresentInv, Listing, Writing
  <2>8. c.pc \in StagesOf(c.op) /\ ~ Numbering(c)
    BY <1>2, <2>4 DEF StagesOf, Numbering
  <2>. QED
    BY <1>1, <1>2, <2>3, <2>4, <2>6, <2>7, <2>8, RunStep DEF Knows
<1>5. CASE \E e \in d.seen :
             Step(p, [d EXCEPT !.pc = "read", !.num = e.name.num, !.slug = e.name.slug, !.seen = {}])
  BY <1>4, <1>5
<1>6. \/ Finish(p)
      \/ \E e \in d.seen :
           Step(p, [d EXCEPT !.pc = "read", !.num = e.name.num, !.slug = e.name.slug, !.seen = {}])
  BY <1>1 DEF Find
<1>. QED
  BY <1>3, <1>5, <1>6

LEMMA ReadStep ==
    ASSUME IInv, NEW p \in Procs, Read(p)
    PROVE  IInv'
<1>1. PICK d \in Commands : d = run[p] /\ Knows(d) /\ d.pc \in StagesOf(d.op)
  BY RunFacts
<1>2. /\ d.pc = "read" /\ d.op \in {"status", "task"} /\ d.num > 0 /\ Name(d) \in Names
      /\ Name(d).num = d.num /\ d.status \in Statuses /\ d.flag \in BOOLEAN
      /\ UNCHANGED <<files, index, config, counters, history>>
  <2>1. d.flag \in BOOLEAN
    BY DEF Commands
  <2>. QED
    BY <1>1, <2>1, CommandFacts DEF Read, At, StagesOf, Knows, CommandInv
<1>3. PICK n : n = Name(d)
  OBVIOUS
<1>4. CASE n \notin DOMAIN files \/ Refused(d, files[n])
  BY <1>1, <1>2, <1>3, <1>4, FinishStep DEF Read
<1>5. CASE n \in DOMAIN files /\ ~ Refused(d, files[n])
  <2>1. PICK f \in Documents \ {Blank} : f = files[n] /\ f.id = n.num
    BY <1>5, DocumentFacts DEF IInv, TypeOK, FilesInv, Refused, Readable
  <2>2. PICK v : v = IF d.op = "status" THEN WithStatus(f, d.status) ELSE WithTask(f, d.flag)
    OBVIOUS
  <2>3. v \in Documents /\ v.id = n.num
    BY <1>2, <2>1, <2>2, Restated, Ticked
  <2>. DEFINE c == [d EXCEPT !.pc = "open", !.doc = v]
  <2>4. Step(p, c)
    BY <1>1, <1>3, <1>5, <2>1, <2>2 DEF Read
  <2>5. /\ c \in Commands /\ c.op = d.op /\ c.pc = "open" /\ c.seen = d.seen /\ c.num = d.num
        /\ c.slug = d.slug /\ c.doc = v
    BY <2>3 DEF Commands, Stages
  <2>. HIDE DEF c
  <2>6. Name(c) = n
    BY <1>3, <2>5 DEF Name
  <2>7. CommandInv(c) /\ NumberInv(c) /\ FreshInv(c) /\ BodyInv(c)
    BY <1>1, <1>2, <1>3, <2>3, <2>5 DEF Knows, CommandInv, NumberInv, FreshInv, BodyInv, Numbering,
       Listing, Writing, Indexing
  <2>8. PresentInv(c)
    BY <1>2, <1>5, <2>5, <2>6 DEF PresentInv, Listing, Writing
  <2>9. CopyInv(c)
    <3>1. SUFFICES ASSUME n \notin exposed PROVE Body(v) = Body(Meant(c))
      BY <1>2, <2>5, <2>6 DEF CopyInv, Writing
    <3>2. PICK old \in Documents : old = said[n] /\ n \in DOMAIN said /\ Body(f) = Body(old)
      BY <1>5, <2>1, <3>1 DEF IInv, ChangesKept, TypeOK
    <3>3. CASE d.op = "status"
      <4>1. v = WithStatus(f, d.status) /\ v.status = d.status
        BY <1>2, <2>1, <2>2, <3>3, Restated
      <4>2. Meant(c) = WithStatus(old, d.status)
        BY <2>5, <2>6, <3>2, <3>3, <4>1 DEF Meant
      <4>. QED
        BY <1>2, <2>1, <3>2, <4>1, <4>2, Restated
    <3>4. CASE d.op = "task"
      <4>1. v = WithTask(f, d.flag) /\ v.ticked = d.flag
        BY <1>2, <2>1, <2>2, <3>4, Ticked
      <4>2. Meant(c) = WithTask(old, d.flag)
        BY <2>5, <2>6, <3>2, <3>4, <4>1 DEF Meant
      <4>. QED
        BY <1>2, <2>1, <3>2, <4>1, <4>2, Ticked
    <3>. QED
      BY <1>2, <3>3, <3>4
  <2>10. c.pc \in StagesOf(c.op) /\ ~ Numbering(c)
    BY <1>2, <2>5 DEF StagesOf, Numbering
  <2>. QED
    BY <1>1, <1>2, <2>4, <2>5, <2>7, <2>8, <2>9, <2>10, RunStep DEF Knows
<1>. QED
  BY <1>4, <1>5

-----------------------------------------------------------------------------
(* The steps that write one: what the others know of it goes stale. *)
(* The same command, but for what it knows of the directory being whole. *)
Same(c, d) == /\ c.op = d.op /\ c.pc = d.pc /\ c.num = d.num /\ c.slug = d.slug /\ c.flag = d.flag
              /\ c.doc = d.doc /\ c.todo = d.todo /\ c.seen = d.seen /\ c.body = d.body

LEMMA StaleFacts ==
    \A d \in Commands : \E c \in Commands : c = [d EXCEPT !.fresh = FALSE] /\ Same(c, d) /\ ~ c.fresh
<1>1. SUFFICES ASSUME NEW d \in Commands
               PROVE  \E c \in Commands : c = [d EXCEPT !.fresh = FALSE] /\ Same(c, d) /\ ~ c.fresh
  OBVIOUS
<1>. DEFINE c == [d EXCEPT !.fresh = FALSE]
<1>2. c \in Commands /\ ~ c.fresh
  BY DEF Commands
<1>3. Same(c, d)
  BY DEF Commands, Same
<1>. QED
  BY <1>2, <1>3

LEMMA StaleRun ==
    ASSUME IInv, NEW p \in Procs, NEW c \in Commands,
           run' = [q \in Procs |-> IF q = p THEN c ELSE [run[q] EXCEPT !.fresh = FALSE]]
    PROVE  /\ run' \in [Procs -> Commands] /\ run'[p] = c
           /\ \A q \in Procs : q # p => Same(run'[q], run[q]) /\ ~ run'[q].fresh
<1>1. \A q \in Procs : run[q] \in Commands
  BY DEF IInv, TypeOK
<1>2. ASSUME NEW q \in Procs, q # p
      PROVE  run'[q] \in Commands /\ Same(run'[q], run[q]) /\ ~ run'[q].fresh
  <2>1. PICK d \in Commands : d = run[q]
    BY <1>1
  <2>2. run'[q] = [d EXCEPT !.fresh = FALSE]
    BY <1>2, <2>1
  <2>. QED
    BY <2>1, <2>2, StaleFacts
<1>3. run'[p] = c
  OBVIOUS
<1>4. \A q \in Procs : run'[q] \in Commands
  BY <1>2, <1>3
<1>5. run' = [q \in Procs |-> run'[q]]
  OBVIOUS
<1>. QED
  BY <1>2, <1>3, <1>4, <1>5

(* What a command knows still holds after somebody else wrote `n`. *)
LEMMA Bystander ==
    ASSUME IInv, NEW q \in Procs, NEW c \in Commands, Same(c, run[q]), NEW n,
           exposed \subseteq exposed', Holds(q, n) => n \in exposed',
           \A m : m # n => (m \in DOMAIN said' <=> m \in DOMAIN said)
                       /\ (m \in DOMAIN said => said'[m] = said[m]),
           collided' = collided, vanished => vanished', kills' = kills,
           ~ vanished' => DOMAIN files \subseteq DOMAIN files' \/ (c.pc = "idle" /\ c.op = "none"),
           ~ vanished' /\ ~ collided /\ Numbering(c) => DOMAIN files' \subseteq DOMAIN files,
           n = Readme \/ UNCHANGED <<index, words>>
    PROVE  CommandInv(c)' /\ PresentInv(c)' /\ NumberInv(c)' /\ CopyInv(c)' /\ BodyInv(c)'
<1>1. PICK d \in Commands : d = run[q] /\ Knows(d) /\ d.pc \in StagesOf(d.op)
  BY RunFacts
<1>2. /\ c.op = d.op /\ c.pc = d.pc /\ c.num = d.num /\ c.slug = d.slug /\ c.flag = d.flag
      /\ c.doc = d.doc /\ c.todo = d.todo /\ c.seen = d.seen /\ c.body = d.body /\ Name(c) = Name(d)
  BY <1>1 DEF Same, Name
<1>3. CommandInv(c)'
  BY <1>1, <1>2 DEF Knows, CommandInv, Listing, Writing, Indexing
<1>4. PresentInv(c)'
  BY <1>1, <1>2 DEF Knows, PresentInv, Listing, Writing
<1>5. NumberInv(c)'
  BY <1>1, <1>2 DEF Knows, NumberInv, Numbering
<1>6. CopyInv(c)'
  <2>1. ASSUME c.op = "update", c.pc = "scan", ~ c.flag,
               NEW e \in c.seen, NeedsToC(e.doc), e.name \notin exposed'
        PROVE  Kept(e.name, e.doc)'
    <3>1. e.name # n
      BY <1>1, <1>2, <2>1 DEF Holds
    <3>2. Kept(e.name, e.doc)
      BY <1>1, <1>2, <2>1 DEF Knows, CopyInv
    <3>. QED
      BY <3>1, <3>2 DEF Kept
  <2>2. ASSUME c.op = "update", c.pc \in {"toc"} \union Writing, NEW e \in c.seen,
               e.name \in c.todo \ exposed'
        PROVE  Kept(e.name, e.doc)'
    <3>1. e.name # n
      BY <1>1, <1>2, <2>2 DEF Holds, Writing
    <3>2. Kept(e.name, e.doc)
      BY <1>1, <1>2, <2>2 DEF Knows, CopyInv
    <3>. QED
      BY <3>1, <3>2 DEF Kept
  <2>3. ASSUME c.pc \in Writing, Name(c) \notin exposed'
        PROVE  Body(c.doc) = Body(Meant(c)')
    <3>1. Name(d) # n
      BY <1>1, <1>2, <2>3 DEF Holds, Writing
    <3>2. Body(d.doc) = Body(Meant(d))
      BY <1>1, <1>2, <2>3 DEF Knows, CopyInv
    <3>3. Meant(c)' = Meant(d)
      BY <1>2, <3>1 DEF Meant
    <3>. QED
      BY <1>2, <3>2, <3>3
  <2>. QED
    BY <2>1, <2>2, <2>3 DEF CopyInv, Name
<1>7. BodyInv(c)'
  <2>1. CASE n = Readme
    BY <1>1, <1>2, <2>1 DEF BodyInv, Holds, Indexing
  <2>2. CASE UNCHANGED <<index, words>>
    BY <1>1, <1>2, <2>2 DEF Knows, BodyInv, Indexing
  <2>. QED
    BY <2>1, <2>2
<1>. QED
  BY <1>3, <1>4, <1>5, <1>6, <1>7

(* What is said of a file is a document. *)
LEMMA MeantFacts ==
    ASSUME IInv, NEW c \in Commands, c.doc \in Documents \ {Blank}
    PROVE  Meant(c) \in Documents \ {Blank} /\ (c.op = "create" => Meant(c) = c.doc)
<1>1. PICK old \in Documents \ {Blank} :
        old = IF Name(c) \in DOMAIN said THEN said[Name(c)] ELSE c.doc
  BY DEF IInv, TypeOK, SaidInv
<1>2. c.doc.status \in Statuses /\ c.doc.ticked \in BOOLEAN
  <2>1. \A d \in Documents \ {Blank} : d.ticked \in BOOLEAN
    BY DEF Documents
  <2>. QED
    BY <2>1, DocumentFacts
<1>3. /\ WithStatus(old, c.doc.status) \in Documents \ {Blank}
      /\ WithTask(old, c.doc.ticked) \in Documents \ {Blank}
  BY <1>2, DocumentFacts, Restated, Ticked
<1>4. Meant(c) = CASE c.op = "create" -> c.doc
                   [] c.op = "status" -> WithStatus(old, c.doc.status)
                   [] c.op = "task" -> WithTask(old, c.doc.ticked)
                   [] OTHER -> old
  BY <1>1 DEF Meant
<1>. QED
  BY <1>3, <1>4

(* The parts of the invariant. *)
LEMMA Parts ==
    ASSUME run' \in [Procs -> Commands], TypeOK', FilesInv', SaidInv', ApartInv', WordsInv',
           \A q \in Procs : Knows(run[q])',
           NumbersDistinct', ChangesKept', IndexIsTrue', ProseKept'
    PROVE  IInv'
  BY DEF IInv, Knows

LEMMA OpenStep ==
    ASSUME IInv, NEW p \in Procs, Open(p)
    PROVE  IInv'
<1>1. PICK d \in Commands : d = run[p] /\ Knows(d) /\ d.pc \in StagesOf(d.op)
  BY RunFacts
<1>2. /\ d.pc = "open" /\ d.op \in {"create", "update", "status", "task"} /\ d.num > 0
      /\ UNCHANGED <<index, config, counters, said, collided, vanished, words>> /\ current' = FALSE
  BY <1>1 DEF Open, At, Knows, CommandInv, Writing, StagesOf
<1>3. PICK n \in Names : n = Name(d) /\ n.num = d.num
  BY <1>2, CommandFacts
<1>. DEFINE c == [d EXCEPT !.pc = "fill"]
<1>4. /\ run' = [q \in Procs |-> IF q = p THEN c ELSE [run[q] EXCEPT !.fresh = FALSE]]
      /\ files' = [m \in DOMAIN files \union {n} |-> IF m = n THEN Blank ELSE files[m]]
      /\ exposed' = IF \E q \in Others(p) : Holds(q, n) THEN exposed \union {n} ELSE exposed
  BY <1>1, <1>3 DEF Open, Wrote, Put, Exposes
<1>5. c \in Commands /\ Name(c) = n /\ c.pc = "fill" /\ c.op = d.op /\ c.num = d.num /\ c.flag = d.flag
      /\ c.doc = d.doc /\ c.todo = d.todo /\ c.seen = d.seen /\ c.body = d.body /\ c.fresh = d.fresh
      /\ c.slug = d.slug
  BY <1>3 DEF Commands, Stages, Name
<1>. HIDE DEF c
<1>6. /\ run' \in [Procs -> Commands] /\ run'[p] = c
      /\ \A q \in Procs : q # p => Same(run'[q], run[q]) /\ ~ run'[q].fresh
  BY <1>4, <1>5, StaleRun
<1>7. exposed \subseteq exposed' /\ \A q \in Procs : q # p /\ Holds(q, n) => n \in exposed'
  BY <1>4 DEF Others
<1>8. ~ collided /\ d.op = "create" => \A q \in Procs : q # p => ~ Numbering(run[q])
  BY <1>1, <1>2 DEF IInv, ApartInv, Numbering
<1>9. ~ vanished /\ d.op # "create" => n \in DOMAIN files
  BY <1>1, <1>2, <1>3 DEF Knows, PresentInv, Writing
<1>10. DOMAIN files' = DOMAIN files \union {n}
  BY <1>4
<1>11. ASSUME NEW q \in Procs, q # p
       PROVE  Knows(run[q])'
  <2>1. PICK e \in Commands : e = run'[q]
    BY <1>6
  <2>2. Same(e, run[q]) /\ ~ e.fresh
    BY <1>6, <1>11, <2>1
  <2>3. ~ vanished' /\ ~ collided /\ Numbering(e) => DOMAIN files' \subseteq DOMAIN files
    BY <1>2, <1>8, <1>9, <1>10, <1>11, <2>2 DEF Numbering, Same
  <2>4. CommandInv(e)' /\ PresentInv(e)' /\ NumberInv(e)' /\ CopyInv(e)' /\ BodyInv(e)'
    BY <1>2, <1>7, <1>10, <1>11, <2>2, <2>3, Bystander DEF counters
  <2>5. FreshInv(e)'
    BY <2>2 DEF FreshInv
  <2>. QED
    BY <2>1, <2>4, <2>5 DEF Knows, CommandInv, PresentInv, NumberInv, CopyInv, BodyInv, FreshInv,
       Numbering, Name, Kept, Meant
<1>12. Knows(run[p])'
  <2>1. CommandInv(c)
    BY <1>1, <1>2, <1>3, <1>5 DEF Knows, CommandInv, Writing, Indexing, Listing
  <2>2. PresentInv(c)'
    BY <1>1, <1>2, <1>5, <1>10 DEF Knows, PresentInv, Writing, Listing
  <2>3. NumberInv(c)' /\ BodyInv(c)'
    BY <1>5 DEF NumberInv, BodyInv, Numbering, Indexing
  <2>4. CopyInv(c)'
    <3>1. Meant(c)' = Meant(d)
      BY <1>2, <1>3, <1>5 DEF Meant
    <3>. QED
      BY <1>1, <1>2, <1>3, <1>5, <1>7, <3>1 DEF Knows, CopyInv, Writing, Kept
  <2>5. FreshInv(c)'
    <3>1. \A m \in DOMAIN files' : Readable(files'[m]) => m # n /\ m \in DOMAIN files /\ files'[m] = files[m]
      BY <1>4, DocumentFacts DEF Documents
    <3>2. \A m \in DOMAIN files : m # n => files'[m] = files[m] /\ m \in DOMAIN files'
      BY <1>4
    <3>. QED
      BY <1>1, <1>2, <1>3, <1>5, <1>10, <3>1, <3>2 DEF Knows, FreshInv, Writing, Indexing
  <2>. QED
    BY <1>6, <2>1, <2>2, <2>3, <2>4, <2>5 DEF Knows, CommandInv, PresentInv, NumberInv, CopyInv,
       BodyInv, FreshInv, Numbering, Name, Kept, Meant, Writing, Indexing, Listing
<1>13. TypeOK' /\ FilesInv' /\ SaidInv' /\ WordsInv'
  <2>1. \A q \in Procs : run'[q].pc \in StagesOf(run'[q].op)
    <3>1. c.pc \in StagesOf(c.op)
      BY <1>2, <1>5 DEF StagesOf
    <3>. QED
      BY <1>6, <3>1 DEF IInv, TypeOK, Same
  <2>2. exposed' \subseteq Names \union {Readme}
    BY <1>4 DEF IInv, TypeOK
  <2>3. Blank \in Documents
    BY DEF Documents
  <2>4. DOMAIN files' \subseteq Names /\ \A m \in DOMAIN files' : files'[m] \in Documents
    BY <1>4, <2>3 DEF IInv, TypeOK
  <2>5. TypeOK'
    BY <1>2, <1>6, <2>1, <2>2, <2>4 DEF IInv, TypeOK, counters
  <2>6. FilesInv'
    BY <1>4 DEF IInv, FilesInv
  <2>. QED
    BY <1>2, <2>5, <2>6 DEF IInv, SaidInv, WordsInv
<1>14. ApartInv'
  <2>1. ~ Numbering(c)
    BY <1>5 DEF Numbering
  <2>. QED
    BY <1>2, <1>6, <2>1 DEF IInv, ApartInv, Numbering, Same
<1>15. NumbersDistinct'
  <2>1. ASSUME ~ collided, ~ vanished, d.op = "create", NEW m \in DOMAIN files
        PROVE  m.num < n.num /\ m.num \in Nat /\ n.num \in Nat
    <3>1. m \in Names
      BY DEF IInv, TypeOK
    <3>. QED
      BY <1>1, <1>2, <1>3, <2>1, <3>1, Constants DEF Knows, NumberInv, Numbering
  <2>2. ASSUME ~ collided, ~ vanished, NEW m \in DOMAIN files', NEW k \in DOMAIN files', m.num = k.num
        PROVE  m = k
    <3>1. CASE d.op = "create"
      BY <1>2, <1>10, <2>1, <2>2, <3>1 DEF IInv, NumbersDistinct
    <3>2. CASE d.op # "create"
      BY <1>2, <1>9, <1>10, <2>2, <3>2 DEF IInv, NumbersDistinct
    <3>. QED
      BY <3>1, <3>2
  <2>. QED
    BY <1>2, <1>13, <2>2 DEF NumbersDistinct, FilesInv
<1>16. ChangesKept'
  <2>1. SUFFICES ASSUME NEW m \in DOMAIN files' \ exposed'
        PROVE  IF files'[m] = Blank
               THEN kills' > 0 \/ \E q \in Procs : run'[q].pc = "fill" /\ Name(run'[q]) = m
               ELSE m \in DOMAIN said /\ Body(files'[m]) = Body(said[m])
    BY <1>2 DEF ChangesKept, At, Name
  <2>2. CASE m = n
    BY <1>4, <1>5, <1>6, <2>2
  <2>3. CASE m # n
    <3>1. m \in DOMAIN files \ exposed /\ files'[m] = files[m]
      BY <1>4, <1>7, <2>3
    <3>2. \A q \in Procs : At(q, "fill") /\ Name(run[q]) = m => run'[q].pc = "fill" /\ Name(run'[q]) = m
      BY <1>1, <1>2, <1>6 DEF At, Name, Same
    <3>. QED
      BY <1>2, <3>1, <3>2 DEF IInv, ChangesKept, counters
  <2>. QED
    BY <2>2, <2>3
<1>17. IndexIsTrue' /\ ProseKept'
  BY <1>1, <1>2, <1>5, <1>6, <1>7 DEF IInv, IndexIsTrue, ProseKept, At, Same, counters
<1>. QED
  BY <1>6, <1>11, <1>12, <1>13, <1>14, <1>15, <1>16, <1>17, Parts

LEMMA FillStep ==
    ASSUME IInv, NEW p \in Procs, Fill(p)
    PROVE  IInv'
<1>1. PICK d \in Commands : d = run[p] /\ Knows(d) /\ d.pc \in StagesOf(d.op)
  BY RunFacts
<1>2. /\ d.pc = "fill" /\ d.op \in {"create", "update", "status", "task"} /\ d.num > 0
      /\ d.doc \in Documents /\ d.doc.id = d.num
      /\ UNCHANGED <<index, config, counters, collided, vanished, words>> /\ current' = FALSE
  BY <1>1, CommandFacts DEF Fill, At, Knows, CommandInv, Writing, StagesOf
<1>3. PICK n \in Names : n = Name(d) /\ n.num = d.num
  BY <1>2, CommandFacts
<1>4. d.doc # Blank /\ d.doc.id = n.num
  BY <1>2, <1>3, DocumentFacts
<1>5. PICK v \in Documents \ {Blank} : v = Meant(d)
  BY <1>2, <1>4, MeantFacts
<1>6. PICK c \in Commands :
        /\ c = AfterWrite(d) /\ c.pc \in StagesOf(c.op) /\ c.pc \in {"idle", "list", "toc"}
        /\ c.pc # "toc" => c.seen = {}
        /\ c.pc = "toc" => /\ d.op = "update" /\ c.op = "update" /\ c.todo = d.todo
                           /\ c.seen = d.seen /\ c.fresh = d.fresh
  <2>1. CASE d.op = "create" /\ d.flag
    <3>1. AfterWrite(d) = Command("update", "list")
      BY <2>1 DEF AfterWrite
    <3>2. "list" \in Stages /\ "list" \in StagesOf("update")
      BY DEF Stages, StagesOf
    <3>. QED
      BY <3>1, <3>2, CommandType
  <2>2. CASE d.op = "update"
    <3>1. PICK c : c = [d EXCEPT !.pc = "toc"]
      OBVIOUS
    <3>2. AfterWrite(d) = c
      BY <2>2, <3>1 DEF AfterWrite
    <3>3. /\ c \in Commands /\ c.pc = "toc" /\ c.op = "update" /\ c.todo = d.todo
          /\ c.seen = d.seen /\ c.fresh = d.fresh
      BY <2>2, <3>1 DEF Commands, Stages
    <3>4. "toc" \in StagesOf("update")
      BY DEF StagesOf
    <3>. QED
      BY <2>2, <3>2, <3>3, <3>4
  <2>3. CASE ~ (d.op = "create" /\ d.flag) /\ d.op # "update"
    <3>1. AfterWrite(d) = Idle
      BY <2>3 DEF AfterWrite
    <3>2. "idle" \in StagesOf("none")
      BY DEF StagesOf
    <3>. QED
      BY <3>1, <3>2, IdleFacts
  <2>. QED
    BY <2>1, <2>2, <2>3
<1>7. /\ run' = [q \in Procs |-> IF q = p THEN c ELSE [run[q] EXCEPT !.fresh = FALSE]]
      /\ exposed' = IF \E q \in Others(p) : Holds(q, n) THEN exposed \union {n} ELSE exposed
  BY <1>1, <1>3, <1>6 DEF Fill, Wrote, Exposes
<1>8. /\ DOMAIN files' = DOMAIN files
      /\ \A m \in DOMAIN files : files'[m] = IF m = n THEN d.doc ELSE files[m]
      /\ n \in DOMAIN files => n \in DOMAIN said' /\ said'[n] = v
      /\ \A m : m # n => (m \in DOMAIN said' <=> m \in DOMAIN said)
                       /\ (m \in DOMAIN said => said'[m] = said[m])
      /\ DOMAIN said' \subseteq Names
      /\ \A m \in DOMAIN said' : said'[m] \in Documents /\ said'[m] # Blank
  <2>1. CASE n \in DOMAIN files
    <3>1. /\ files' = [m \in DOMAIN files \union {n} |-> IF m = n THEN d.doc ELSE files[m]]
          /\ said' = [m \in DOMAIN said \union {n} |-> IF m = n THEN v ELSE said[m]]
      BY <1>1, <1>3, <1>5, <2>1 DEF Fill, Put, Say
    <3>2. DOMAIN files' = DOMAIN files
      BY <2>1, <3>1
    <3>3. \A m : m # n => (m \in DOMAIN said' <=> m \in DOMAIN said)
                       /\ (m \in DOMAIN said => said'[m] = said[m])
      <4>1. SUFFICES ASSUME NEW m, m # n
                     PROVE  (m \in DOMAIN said' <=> m \in DOMAIN said)
                       /\ (m \in DOMAIN said => said'[m] = said[m])
        OBVIOUS
      <4>. QED
        BY <3>1, <4>1
    <3>. QED
      BY <2>1, <3>1, <3>2, <3>3 DEF IInv, TypeOK, SaidInv
  <2>2. CASE n \notin DOMAIN files
    <3>1. UNCHANGED <<files, said>>
      BY <1>1, <1>3, <2>2 DEF Fill
    <3>. QED
      BY <2>2, <3>1 DEF IInv, TypeOK, SaidInv
  <2>. QED
    BY <2>1, <2>2
<1>9. /\ run' \in [Procs -> Commands] /\ run'[p] = c
      /\ \A q \in Procs : q # p => Same(run'[q], run[q]) /\ ~ run'[q].fresh
  BY <1>6, <1>7, StaleRun
<1>10. exposed \subseteq exposed' /\ \A q \in Procs : q # p /\ Holds(q, n) => n \in exposed'
  BY <1>7 DEF Others
<1>11. ASSUME NEW q \in Procs, q # p
       PROVE  Knows(run[q])'
  <2>1. PICK e \in Commands : e = run'[q]
    BY <1>9
  <2>2. Same(e, run[q]) /\ ~ e.fresh
    BY <1>9, <1>11, <2>1
  <2>3. kills' = kills /\ collided' = collided /\ vanished' = vanished /\ UNCHANGED <<index, words>>
    BY <1>2 DEF counters
  <2>4. CommandInv(e)' /\ PresentInv(e)' /\ NumberInv(e)' /\ CopyInv(e)' /\ BodyInv(e)'
    BY <1>8, <1>10, <1>11, <2>2, <2>3, Bystander
  <2>5. FreshInv(e)'
    BY <2>2 DEF FreshInv
  <2>. QED
    BY <2>1, <2>4, <2>5 DEF Knows, CommandInv, PresentInv, NumberInv, CopyInv, BodyInv, FreshInv,
       Numbering, Name, Kept, Meant
<1>12. Knows(run[p])'
  <2>1. CommandInv(c)
    BY <1>1, <1>2, <1>6 DEF Knows, CommandInv, Writing, Indexing, Listing
  <2>2. PresentInv(c)'
    BY <1>1, <1>2, <1>6, <1>8 DEF Knows, PresentInv, Writing, Listing
  <2>3. NumberInv(c)' /\ BodyInv(c)'
    BY <1>6 DEF NumberInv, BodyInv, Numbering, Indexing
  <2>4. CopyInv(c)'
    <3>1. ASSUME c.pc = "toc", NEW e \in c.seen, e.name \in c.todo \ exposed'
          PROVE  Kept(e.name, e.doc)'
      <4>1. e.name # n
        BY <1>1, <1>2, <1>3, <1>6, <3>1 DEF Knows, CommandInv, Writing
      <4>2. Kept(e.name, e.doc)
        BY <1>1, <1>2, <1>6, <1>10, <3>1 DEF Knows, CopyInv, Writing
      <4>. QED
        BY <1>8, <4>1, <4>2 DEF Kept
    <3>. QED
      BY <1>6, <3>1 DEF CopyInv, Writing
  <2>5. FreshInv(c)'
    <3>1. SUFFICES ASSUME c.pc = "toc", c.fresh
          PROVE  /\ \A e \in c.seen : e.name \in DOMAIN files'
                 /\ \A e \in c.seen : Readable(files'[e.name]) /\ Row([name |-> e.name, doc |-> files'[e.name]]) = Row(e)
                 /\ \A m \in DOMAIN files' : Readable(files'[m]) => \E e \in c.seen : e.name = m
      BY <1>6 DEF FreshInv, Writing, Indexing
    <3>2. /\ \A e \in d.seen : e.name \in DOMAIN files
          /\ \A e \in d.seen : e.name # n =>
                Readable(files[e.name]) /\ Row([name |-> e.name, doc |-> files[e.name]]) = Row(e)
          /\ \A m \in DOMAIN files : Readable(files[m]) => \E e \in d.seen : e.name = m
      BY <1>1, <1>2, <1>3, <1>6, <3>1 DEF Knows, FreshInv, Writing, Indexing
    <3>3. PICK e0 \in d.seen : e0.name = n /\ d.doc = WithToC(e0.doc)
      BY <1>1, <1>2, <1>3, <1>6, <3>1 DEF Knows, CommandInv, Writing
    <3>4. e0.doc \in Documents \ {Blank} /\ ~ e0.doc.cr
      BY <1>1, <3>3, CommandFacts DEF Knows, CommandInv, Readable
    <3>5. Readable(d.doc) /\ d.doc.id = e0.doc.id /\ d.doc.status = e0.doc.status
      BY <1>4, <3>3, <3>4, Contented DEF Readable
    <3>6. \A e \in d.seen : e.name = n => e = e0
      BY <1>1, <1>2, <1>6, <3>1, <3>3 DEF Knows, CommandInv, Listing, Writing
    <3>7. Row([name |-> n, doc |-> d.doc]) = Row(e0)
      BY <3>3, <3>5 DEF Row
    <3>8. ASSUME NEW e \in d.seen
          PROVE  Readable(files'[e.name]) /\ Row([name |-> e.name, doc |-> files'[e.name]]) = Row(e)
      <4>1. CASE e.name = n
        BY <1>8, <3>2, <3>5, <3>6, <3>7, <4>1
      <4>2. CASE e.name # n
        BY <1>8, <3>2, <4>2
      <4>. QED
        BY <4>1, <4>2
    <3>9. ASSUME NEW m \in DOMAIN files', Readable(files'[m]) PROVE \E e \in d.seen : e.name = m
      BY <1>8, <3>2, <3>3, <3>9
    <3>. QED
      BY <1>6, <1>8, <3>1, <3>2, <3>8, <3>9
  <2>. QED
    BY <1>9, <2>1, <2>2, <2>3, <2>4, <2>5 DEF Knows, CommandInv, PresentInv, NumberInv, CopyInv,
       BodyInv, FreshInv, Numbering, Name, Kept, Meant, Writing, Indexing, Listing
<1>13. TypeOK' /\ FilesInv' /\ SaidInv' /\ WordsInv'
  <2>1. \A q \in Procs : run'[q].pc \in StagesOf(run'[q].op)
    BY <1>6, <1>9 DEF IInv, TypeOK, Same
  <2>2. exposed' \subseteq Names \union {Readme}
    BY <1>7 DEF IInv, TypeOK
  <2>3. DOMAIN files' \subseteq Names /\ \A m \in DOMAIN files' : files'[m] \in Documents
    BY <1>2, <1>8 DEF IInv, TypeOK
  <2>4. TypeOK'
    BY <1>2, <1>8, <1>9, <2>1, <2>2, <2>3 DEF IInv, TypeOK, counters
  <2>5. FilesInv'
    BY <1>4, <1>8 DEF IInv, FilesInv
  <2>. QED
    BY <1>2, <1>8, <2>4, <2>5 DEF IInv, SaidInv, WordsInv
<1>14. ApartInv'
  <2>1. ~ Numbering(c)
    BY <1>6 DEF Numbering
  <2>. QED
    BY <1>2, <1>9, <2>1 DEF IInv, ApartInv, Numbering, Same
<1>15. NumbersDistinct'
  BY <1>2, <1>8, <1>13 DEF IInv, NumbersDistinct, FilesInv
<1>16. ChangesKept'
  <2>1. SUFFICES ASSUME NEW m \in DOMAIN files' \ exposed'
        PROVE  IF files'[m] = Blank
               THEN kills' > 0 \/ \E q \in Procs : run'[q].pc = "fill" /\ Name(run'[q]) = m
               ELSE m \in DOMAIN said' /\ Body(files'[m]) = Body(said'[m])
    BY DEF ChangesKept, At, Name
  <2>2. CASE m = n
    <3>1. Body(d.doc) = Body(v)
      BY <1>1, <1>2, <1>3, <1>5, <1>10, <2>1, <2>2 DEF Knows, CopyInv, Writing
    <3>. QED
      BY <1>4, <1>8, <2>2, <3>1
  <2>3. CASE m # n
    <3>1. m \in DOMAIN files \ exposed /\ files'[m] = files[m]
      BY <1>8, <1>10, <2>3
    <3>2. \A q \in Procs : At(q, "fill") /\ Name(run[q]) = m => run'[q].pc = "fill" /\ Name(run'[q]) = m
      BY <1>1, <1>3, <1>9, <2>3 DEF At, Name, Same
    <3>. QED
      BY <1>2, <1>8, <2>3, <3>1, <3>2 DEF IInv, ChangesKept, counters
  <2>. QED
    BY <2>2, <2>3
<1>17. IndexIsTrue' /\ ProseKept'
  BY <1>1, <1>2, <1>6, <1>9, <1>10 DEF IInv, IndexIsTrue, ProseKept, At, Same, counters
<1>. QED
  BY <1>9, <1>11, <1>12, <1>13, <1>14, <1>15, <1>16, <1>17, Parts

LEMMA OpenIndexStep ==
    ASSUME IInv, NEW p \in Procs, OpenIndex(p)
    PROVE  IInv'
<1>1. PICK d \in Commands : d = run[p] /\ Knows(d) /\ d.pc \in StagesOf(d.op)
  BY RunFacts
<1>2. /\ d.pc = "openIndex" /\ d.op \in {"update", "init"} /\ index' = BlankIndex /\ current' = FALSE
      /\ UNCHANGED <<files, config, counters, said, collided, vanished, words>>
      /\ exposed' = IF \E q \in Others(p) : Holds(q, Readme) THEN exposed \union {Readme} ELSE exposed
  BY <1>1 DEF OpenIndex, At, StagesOf, Exposes
<1>. DEFINE c == [d EXCEPT !.pc = "fillIndex"]
<1>3. run' = [run EXCEPT ![p] = c]
  BY <1>1 DEF OpenIndex, Step
<1>4. c \in Commands /\ c.pc = "fillIndex" /\ c.op = d.op /\ c.num = d.num /\ c.flag = d.flag
      /\ c.doc = d.doc /\ c.todo = d.todo /\ c.seen = d.seen /\ c.body = d.body /\ c.fresh = d.fresh
  BY DEF Commands, Stages
<1>. HIDE DEF c
<1>5. /\ run' \in [Procs -> Commands] /\ run'[p] = c
      /\ \A q \in Procs : q # p => run'[q] = run[q]
  BY <1>3, <1>4 DEF IInv, TypeOK
<1>6. exposed \subseteq exposed' /\ \A q \in Procs : q # p /\ Holds(q, Readme) => Readme \in exposed'
  BY <1>2 DEF Others
<1>7. ASSUME NEW q \in Procs, q # p
      PROVE  Knows(run[q])'
  <2>1. PICK e \in Commands : e = run[q] /\ e = run'[q] /\ Knows(e)
    BY <1>5, <1>7, RunFacts
  <2>2. kills' = kills /\ collided' = collided /\ vanished' = vanished /\ said' = said /\ files' = files
    BY <1>2 DEF counters
  <2>3. Same(e, run[q])
    BY <2>1 DEF Same
  <2>4. CommandInv(e)' /\ PresentInv(e)' /\ NumberInv(e)' /\ CopyInv(e)' /\ BodyInv(e)'
    BY <1>6, <1>7, <2>2, <2>3, Bystander
  <2>5. FreshInv(e)'
    BY <2>1, <2>2 DEF Knows, FreshInv
  <2>. QED
    BY <2>1, <2>4, <2>5 DEF Knows, CommandInv, PresentInv, NumberInv, CopyInv, BodyInv, FreshInv,
       Numbering, Name, Kept, Meant
<1>8. Knows(run[p])'
  <2>1. CommandInv(c) /\ PresentInv(c)' /\ NumberInv(c)' /\ CopyInv(c)'
    BY <1>1, <1>2, <1>4 DEF Knows, CommandInv, PresentInv, NumberInv, CopyInv, Numbering,
       Writing, Indexing, Listing
  <2>2. FreshInv(c)'
    BY <1>1, <1>2, <1>4 DEF Knows, FreshInv, Writing, Indexing
  <2>3. BodyInv(c)'
    BY <1>1, <1>2, <1>4, <1>6 DEF Knows, BodyInv, Indexing, counters
  <2>. QED
    BY <1>5, <2>1, <2>2, <2>3 DEF Knows, CommandInv, PresentInv, NumberInv, CopyInv,
       BodyInv, FreshInv, Numbering, Name, Kept, Meant, Writing, Indexing, Listing
<1>9. TypeOK' /\ FilesInv' /\ SaidInv' /\ WordsInv'
  <2>1. \A q \in Procs : run'[q].pc \in StagesOf(run'[q].op)
    <3>1. c.pc \in StagesOf(c.op)
      BY <1>2, <1>4 DEF StagesOf
    <3>. QED
      BY <1>5, <3>1 DEF IInv, TypeOK
  <2>2. exposed' \subseteq Names \union {Readme}
    BY <1>2 DEF IInv, TypeOK
  <2>3. TypeOK'
    BY <1>2, <1>5, <2>1, <2>2, Indexes DEF IInv, TypeOK, counters
  <2>. QED
    BY <1>2, <2>3, Indexes DEF IInv, FilesInv, SaidInv, WordsInv
<1>10. ApartInv' /\ NumbersDistinct' /\ IndexIsTrue'
  <2>1. ~ Numbering(c)
    BY <1>4 DEF Numbering
  <2>. QED
    BY <1>2, <1>5, <2>1 DEF IInv, ApartInv, Numbering, NumbersDistinct, IndexIsTrue
<1>11. ChangesKept'
  <2>1. \A m, q : q \in Procs /\ At(q, "fill") /\ Name(run[q]) = m => run'[q].pc = "fill" /\ Name(run'[q]) = m
    BY <1>1, <1>2, <1>5 DEF At
  <2>. QED
    BY <1>2, <1>6, <2>1 DEF IInv, ChangesKept, counters, At, Name
<1>12. ProseKept'
  BY <1>4, <1>5 DEF ProseKept, At
<1>. QED
  BY <1>5, <1>7, <1>8, <1>9, <1>10, <1>11, <1>12, Parts

LEMMA FillIndexStep ==
    ASSUME IInv, NEW p \in Procs, FillIndex(p)
    PROVE  IInv'
<1>1. PICK d \in Commands : d = run[p] /\ Knows(d) /\ d.pc \in StagesOf(d.op)
  BY RunFacts
<1>2. /\ d.pc = "fillIndex" /\ d.op \in {"update", "init"} /\ index' = d.body
      /\ UNCHANGED <<files, config, counters, said, collided, vanished>>
      /\ current' = (d.op = "update" /\ d.fresh)
      /\ words' = IF d.op = "init" THEN 0 ELSE words
      /\ exposed' = IF \E q \in Others(p) : Holds(q, Readme) THEN exposed \union {Readme} ELSE exposed
  BY <1>1 DEF FillIndex, At, StagesOf, Exposes
<1>3. PICK c \in Commands : c = Idle
  BY IdleFacts
<1>4. /\ run' \in [Procs -> Commands] /\ run'[p] = c
      /\ \A q \in Procs : q # p => run'[q] = run[q]
  BY <1>3 DEF FillIndex, Finish, Step, IInv, TypeOK
<1>5. c.pc = "idle" /\ c.op = "none" /\ c.seen = {} /\ ~ c.fresh
  BY <1>3, IdleFacts
<1>6. exposed \subseteq exposed' /\ \A q \in Procs : q # p /\ Holds(q, Readme) => Readme \in exposed'
  BY <1>2 DEF Others
<1>7. ASSUME NEW q \in Procs, q # p
      PROVE  Knows(run[q])'
  <2>1. PICK e \in Commands : e = run[q] /\ e = run'[q] /\ Knows(e)
    BY <1>4, <1>7, RunFacts
  <2>2. kills' = kills /\ collided' = collided /\ vanished' = vanished /\ said' = said /\ files' = files
    BY <1>2 DEF counters
  <2>3. Same(e, run[q])
    BY <2>1 DEF Same
  <2>4. CommandInv(e)' /\ PresentInv(e)' /\ NumberInv(e)' /\ CopyInv(e)' /\ BodyInv(e)'
    BY <1>6, <1>7, <2>2, <2>3, Bystander
  <2>5. FreshInv(e)'
    BY <2>1, <2>2 DEF Knows, FreshInv
  <2>. QED
    BY <2>1, <2>4, <2>5 DEF Knows, CommandInv, PresentInv, NumberInv, CopyInv, BodyInv, FreshInv,
       Numbering, Name, Kept, Meant
<1>8. Knows(run[p])'
  <2>1. Knows(c)'
    BY <1>5 DEF Knows, CommandInv, PresentInv, NumberInv, CopyInv, FreshInv, BodyInv, Numbering,
       Writing, Indexing, Listing
  <2>. QED
    BY <1>4, <2>1 DEF Knows, CommandInv, PresentInv, NumberInv, CopyInv,
       BodyInv, FreshInv, Numbering, Name, Kept, Meant, Writing, Indexing, Listing
<1>9. TypeOK' /\ FilesInv' /\ SaidInv' /\ WordsInv'
  <2>1. \A q \in Procs : run'[q].pc \in StagesOf(run'[q].op)
    <3>1. c.pc \in StagesOf(c.op)
      BY <1>5 DEF StagesOf
    <3>. QED
      BY <1>4, <3>1 DEF IInv, TypeOK
  <2>2. exposed' \subseteq Names \union {Readme}
    BY <1>2 DEF IInv, TypeOK
  <2>3. words' \in 0..MaxEdits
    BY <1>2, Constants DEF IInv, TypeOK
  <2>4. current' \in BOOLEAN
    BY <1>2
  <2>5. index' \in Readmes
    BY <1>2, CommandFacts
  <2>6. TypeOK'
    BY <1>2, <1>4, <2>1, <2>2, <2>3, <2>4, <2>5 DEF IInv, TypeOK, counters
  <2>7. index'.there
    BY <1>1, <1>2 DEF Knows, CommandInv, Indexing
  <2>. QED
    BY <1>2, <2>6, <2>7 DEF IInv, FilesInv, SaidInv, WordsInv
<1>10. ApartInv' /\ NumbersDistinct'
  <2>1. ~ Numbering(c)
    BY <1>5 DEF Numbering
  <2>. QED
    BY <1>2, <1>4, <2>1 DEF IInv, ApartInv, Numbering, NumbersDistinct
<1>11. ChangesKept'
  <2>1. \A m, q : q \in Procs /\ At(q, "fill") /\ Name(run[q]) = m => run'[q].pc = "fill" /\ Name(run'[q]) = m
    BY <1>1, <1>2, <1>4 DEF At
  <2>. QED
    BY <1>2, <1>6, <2>1 DEF IInv, ChangesKept, counters, At, Name
<1>12. IndexIsTrue'
  <2>1. SUFFICES ASSUME d.op = "update", d.fresh
                 PROVE  d.body.rows = {Row([name |-> n, doc |-> files[n]]) :
                                         n \in {n \in DOMAIN files : Readable(files[n])}}
    BY <1>2 DEF IndexIsTrue
  <2>2. d.body.rows = {Row(e) : e \in d.seen}
    BY <1>1, <1>2, <2>1 DEF Knows, CommandInv, Indexing
  <2>3. /\ \A e \in d.seen : e.name \in DOMAIN files
        /\ \A e \in d.seen : Readable(files[e.name]) /\ Row([name |-> e.name, doc |-> files[e.name]]) = Row(e)
        /\ \A n \in DOMAIN files : Readable(files[n]) => \E e \in d.seen : e.name = n
    BY <1>1, <1>2, <2>1 DEF Knows, FreshInv, Writing, Indexing
  <2>. DEFINE R(n) == Row([name |-> n, doc |-> files[n]])
              G == {n \in DOMAIN files : Readable(files[n])}
  <2>4. (\A e \in d.seen : e.name \in G /\ R(e.name) = Row(e)) /\ \A n \in G : \E e \in d.seen : e.name = n
    BY <2>3
  <2>5. {Row(e) : e \in d.seen} = {R(n) : n \in G}
    <3>. HIDE DEF R, G
    <3>. QED
      BY <2>4
  <2>. QED
    BY <2>2, <2>5
<1>13. ProseKept'
  <2>1. CASE d.op = "init"
    <3>1. PICK b : b = d.body /\ b.marked /\ b.prose = 0
      BY <1>1, <1>2, <2>1, Indexes DEF Knows, CommandInv, Indexing
    <3>. QED
      BY <1>2, <2>1, <3>1 DEF ProseKept
  <2>2. CASE d.op = "update"
    BY <1>1, <1>2, <1>6, <2>2 DEF Knows, BodyInv, Indexing, ProseKept, counters
  <2>. QED
    BY <1>2, <2>1, <2>2
<1>. QED
  BY <1>4, <1>7, <1>8, <1>9, <1>10, <1>11, <1>12, <1>13, Parts

LEMMA StaleAll ==
    ASSUME IInv, run' = [q \in Procs |-> [run[q] EXCEPT !.fresh = FALSE]]
    PROVE  /\ run' \in [Procs -> Commands]
           /\ \A q \in Procs : Same(run'[q], run[q]) /\ ~ run'[q].fresh
           /\ \A q \in Procs : run'[q].pc \in StagesOf(run'[q].op)
<1>1. ASSUME NEW q \in Procs
      PROVE  run'[q] \in Commands /\ Same(run'[q], run[q]) /\ ~ run'[q].fresh
  <2>1. PICK d \in Commands : d = run[q]
    BY DEF IInv, TypeOK
  <2>2. run'[q] = [d EXCEPT !.fresh = FALSE]
    BY <2>1
  <2>. QED
    BY <2>1, <2>2, StaleFacts
<1>2. run' = [q \in Procs |-> run'[q]]
  OBVIOUS
<1>. QED
  BY <1>1, <1>2 DEF IInv, TypeOK, Same

(* What somebody outside writes leaves what every command knows. *)
LEMMA PersonStep ==
    ASSUME IInv, NEW n, Edit(n), n \in Names \union {Readme}, UNCHANGED <<started, kills, collided>>,
           config' = config, vanished' \in BOOLEAN, vanished => vanished',
           ~ vanished' => DOMAIN files \subseteq DOMAIN files' \/ \A q \in Procs : run[q] = Idle,
           DOMAIN files' \subseteq DOMAIN files,
           \A m \in DOMAIN files' : files'[m] \in Documents,
           DOMAIN said' \subseteq Names, \A m \in DOMAIN said' : said'[m] \in Documents,
           FilesInv', SaidInv', WordsInv', index' \in Readmes, words' \in 0..MaxEdits,
           \A m : m # n => /\ m \in DOMAIN said' <=> m \in DOMAIN said
                           /\ m \in DOMAIN said => said'[m] = said[m],
           \A m \in DOMAIN files' : m # n => files'[m] = files[m],
           n \in DOMAIN files' => files'[n] # Blank /\ n \in DOMAIN said' /\ said'[n] = files'[n],
           n = Readme \/ UNCHANGED <<index, words>>,
           ProseKept'
    PROVE  IInv'
<1>1. /\ run' \in [Procs -> Commands]
      /\ \A q \in Procs : Same(run'[q], run[q]) /\ ~ run'[q].fresh
      /\ \A q \in Procs : run'[q].pc \in StagesOf(run'[q].op)
  BY StaleAll DEF Edit
<1>2. exposed \subseteq exposed' /\ \A q \in Procs : Holds(q, n) => n \in exposed'
  BY DEF Edit, Exposes
<1>3. edits' \in 0..MaxEdits /\ current' = FALSE /\ exposed' \subseteq Names \union {Readme}
  BY Constants DEF Edit, Exposes, IInv, TypeOK
<1>4. ASSUME NEW q \in Procs
      PROVE  Knows(run[q])'
  <2>1. PICK e \in Commands : e = run'[q] /\ Same(e, run[q]) /\ ~ e.fresh
    BY <1>1
  <2>2. ~ vanished' => DOMAIN files \subseteq DOMAIN files' \/ (e.pc = "idle" /\ e.op = "none")
    BY <2>1, IdleFacts DEF Same
  <2>3. CommandInv(e)' /\ PresentInv(e)' /\ NumberInv(e)' /\ CopyInv(e)' /\ BodyInv(e)'
    BY <1>2, <2>1, <2>2, Bystander
  <2>4. FreshInv(e)'
    BY <2>1 DEF FreshInv
  <2>. QED
    BY <2>1, <2>3, <2>4 DEF Knows, CommandInv, PresentInv, NumberInv, CopyInv, BodyInv, FreshInv,
       Numbering, Name, Kept, Meant
<1>5. TypeOK'
  <2>1. /\ config \in {"none", "own", "default", "blank"} /\ started \in 0..MaxCommands
        /\ kills \in 0..MaxKills /\ collided \in BOOLEAN /\ DOMAIN files \subseteq Names
    BY DEF IInv, TypeOK
  <2>. QED
    BY <1>1, <1>3, <2>1 DEF TypeOK
<1>6. ApartInv'
  BY <1>1 DEF IInv, ApartInv, Numbering, Same
<1>7. NumbersDistinct' /\ IndexIsTrue'
  BY <1>3 DEF IInv, NumbersDistinct, IndexIsTrue, FilesInv
<1>8. ChangesKept'
  <2>1. SUFFICES ASSUME NEW m \in DOMAIN files' \ exposed'
        PROVE  IF files'[m] = Blank
               THEN kills' > 0 \/ \E q \in Procs : run'[q].pc = "fill" /\ Name(run'[q]) = m
               ELSE m \in DOMAIN said' /\ Body(files'[m]) = Body(said'[m])
    BY DEF ChangesKept, At, Name
  <2>2. CASE m = n
    BY <2>1, <2>2
  <2>3. CASE m # n
    <3>1. m \in DOMAIN files \ exposed /\ files'[m] = files[m]
      BY <1>2, <2>3
    <3>2. \A q \in Procs : At(q, "fill") /\ Name(run[q]) = m => run'[q].pc = "fill" /\ Name(run'[q]) = m
      BY <1>1 DEF At, Name, Same
    <3>. QED
      BY <2>3, <3>1, <3>2 DEF IInv, ChangesKept
  <2>. QED
    BY <2>2, <2>3
<1>. QED
  BY <1>1, <1>4, <1>5, <1>6, <1>7, <1>8, Parts

(* The prose a person left is there while only documents change. *)
LEMMA ProseStays ==
    ASSUME IInv, run' = [q \in Procs |-> [run[q] EXCEPT !.fresh = FALSE]],
           exposed \subseteq exposed', UNCHANGED <<index, words, kills>>
    PROVE  ProseKept' /\ WordsInv' /\ index' \in Readmes /\ words' \in 0..MaxEdits
<1>1. \A q \in Procs : Same(run'[q], run[q])
  BY StaleAll
<1>. QED
  BY <1>1 DEF IInv, ProseKept, WordsInv, TypeOK, At, Same

LEMMA PersonEditsStep ==
    ASSUME IInv, PersonEdits
    PROVE  IInv'
<1>1. PICK n \in DOMAIN files :
        /\ files[n] # Blank /\ Edit(n)
        /\ \E d \in {[files[n] EXCEPT !.heads = 1 - @], [files[n] EXCEPT !.cr = TRUE]} : Put(n, d) /\ Say(n, d)
        /\ UNCHANGED <<index, config, started, kills, collided, vanished, words>>
  BY DEF PersonEdits
<1>2. PICK f \in Documents \ {Blank} : f = files[n] /\ f.id = n.num
  BY <1>1 DEF IInv, TypeOK, FilesInv
<1>3. PICK d \in Documents \ {Blank} : d.id = n.num /\ Put(n, d) /\ Say(n, d)
  <2>1. f.heads \in Headings
    BY DEF Documents
  <2>2. PICK h \in Headings : h = 1 - f.heads
    BY <2>1 DEF Headings
  <2>3. [f EXCEPT !.heads = h] \in Documents /\ [f EXCEPT !.heads = h].id = f.id
    BY DEF Documents
  <2>4. [f EXCEPT !.cr = TRUE] \in Documents /\ [f EXCEPT !.cr = TRUE].id = f.id
    BY DEF Documents
  <2>5. \E d \in {[f EXCEPT !.heads = h], [f EXCEPT !.cr = TRUE]} : Put(n, d) /\ Say(n, d)
    BY <1>1, <1>2, <2>2
  <2>6. f.id # 0
    BY DocumentFacts
  <2>. QED
    BY <1>2, <2>3, <2>4, <2>5, <2>6, DocumentFacts
<1>4. /\ DOMAIN files' = DOMAIN files /\ files'[n] = d /\ \A m \in DOMAIN files : m # n => files'[m] = files[m]
      /\ DOMAIN said' = DOMAIN said \union {n} /\ said'[n] = d
      /\ \A m \in DOMAIN said : m # n => said'[m] = said[m]
  BY <1>3 DEF Put, Say
<1>5. n \in Names /\ DOMAIN said' \subseteq Names
  BY <1>4 DEF IInv, TypeOK
<1>6. FilesInv' /\ SaidInv'
  BY <1>3, <1>4 DEF IInv, FilesInv, SaidInv
<1>7. /\ \A m \in DOMAIN files' : files'[m] \in Documents
      /\ \A m \in DOMAIN said' : said'[m] \in Documents
  BY <1>3, <1>4 DEF IInv, TypeOK
<1>8. ProseKept' /\ WordsInv' /\ index' \in Readmes /\ words' \in 0..MaxEdits
  BY <1>1, ProseStays DEF Edit, Exposes
<1>9. vanished' \in BOOLEAN
  BY <1>1 DEF IInv, TypeOK
<1>. QED
  BY <1>1, <1>3, <1>4, <1>5, <1>6, <1>7, <1>8, <1>9, PersonStep

LEMMA PersonDeletesStep ==
    ASSUME IInv, PersonDeletes
    PROVE  IInv'
<1>1. PICK n \in DOMAIN files :
        /\ Edit(n)
        /\ files' = [m \in DOMAIN files \ {n} |-> files[m]]
        /\ said' = [m \in DOMAIN said \ {n} |-> said[m]]
        /\ vanished' = (vanished \/ \E q \in Procs : run[q] # Idle)
        /\ UNCHANGED <<index, config, started, kills, collided, words>>
  BY DEF PersonDeletes
<1>2. /\ DOMAIN files' = DOMAIN files \ {n} /\ \A m \in DOMAIN files' : files'[m] = files[m]
      /\ DOMAIN said' = DOMAIN said \ {n} /\ \A m \in DOMAIN said' : said'[m] = said[m]
  BY <1>1
<1>3. n \in Names /\ DOMAIN said' \subseteq Names
  BY <1>2 DEF IInv, TypeOK
<1>4. FilesInv' /\ SaidInv'
  BY <1>2 DEF IInv, FilesInv, SaidInv
<1>5. /\ \A m \in DOMAIN files' : files'[m] \in Documents
      /\ \A m \in DOMAIN said' : said'[m] \in Documents
  BY <1>2 DEF IInv, TypeOK
<1>6. ProseKept' /\ WordsInv' /\ index' \in Readmes /\ words' \in 0..MaxEdits
  BY <1>1, ProseStays DEF Edit, Exposes
<1>7. vanished' \in BOOLEAN /\ (vanished => vanished') /\ (~ vanished' => \A q \in Procs : run[q] = Idle)
  BY <1>1 DEF IInv, TypeOK
<1>. QED
  BY <1>1, <1>2, <1>3, <1>4, <1>5, <1>6, <1>7, PersonStep

LEMMA PersonWritesIndexStep ==
    ASSUME IInv, PersonWritesIndex
    PROVE  IInv'
<1>1. /\ index.there /\ Edit(Readme)
      /\ index' \in {[index EXCEPT !.prose = edits + 1],
                     [index EXCEPT !.prose = edits + 1, !.marked = FALSE, !.rows = {}]}
      /\ words' = edits + 1
      /\ UNCHANGED <<files, config, started, kills, said, collided, vanished>>
  BY DEF PersonWritesIndex
<1>2. PICK k \in 0..MaxEdits : k = edits + 1 /\ k > 0
  BY <1>1, Constants DEF Edit, IInv, TypeOK
<1>3. PICK ix \in Readmes : ix = index
  BY DEF IInv, TypeOK
<1>4. index' \in Readmes /\ index'.prose = k /\ index'.there
  <2>1. CASE index' = [ix EXCEPT !.prose = k]
    <3>1. index' \in Readmes /\ index'.prose = k /\ index'.there = ix.there
      BY <2>1 DEF Readmes
    <3>. QED
      BY <1>1, <1>3, <3>1, Zenon
  <2>2. CASE index' = [ix EXCEPT !.prose = k, !.marked = FALSE, !.rows = {}]
    <3>1. index' \in Readmes /\ index'.prose = k /\ index'.there = ix.there
      BY <2>2 DEF Readmes
    <3>. QED
      BY <1>1, <1>3, <3>1, Zenon
  <2>. QED
    BY <1>1, <1>2, <1>3, <2>1, <2>2
<1>5. WordsInv' /\ ProseKept' /\ words' \in 0..MaxEdits
  BY <1>1, <1>2, <1>4 DEF WordsInv, ProseKept
<1>6. FilesInv' /\ SaidInv' /\ vanished' \in BOOLEAN
  BY <1>1 DEF IInv, FilesInv, SaidInv, TypeOK
<1>7. /\ DOMAIN files \subseteq Names /\ \A m \in DOMAIN files' : files'[m] \in Documents
      /\ DOMAIN said' \subseteq Names /\ \A m \in DOMAIN said' : said'[m] \in Documents
  BY <1>1 DEF IInv, TypeOK
<1>8. Readme \notin DOMAIN files'
  BY <1>1, <1>7, Constants
<1>. QED
  BY <1>1, <1>4, <1>5, <1>6, <1>7, <1>8, PersonStep

LEMMA StutterStep ==
    ASSUME IInv, UNCHANGED vars
    PROVE  IInv'
<1>1. /\ UNCHANGED <<files, index, config, run, started, edits, kills, said, exposed, collided>>
      /\ UNCHANGED <<vanished, current, words>>
  BY DEF vars
<1>2. \A q \in Procs : Knows(run[q])'
  BY <1>1 DEF IInv, Knows, CommandInv, PresentInv, NumberInv, CopyInv, BodyInv, FreshInv,
     Numbering, Name, Kept, Meant, Writing, Indexing, Listing
<1>3. TypeOK' /\ FilesInv' /\ SaidInv' /\ ApartInv' /\ WordsInv' /\ run' \in [Procs -> Commands]
  BY <1>1 DEF IInv, TypeOK, FilesInv, SaidInv, ApartInv, WordsInv, Numbering
<1>4. NumbersDistinct' /\ ChangesKept' /\ IndexIsTrue' /\ ProseKept'
  BY <1>1 DEF IInv, NumbersDistinct, ChangesKept, IndexIsTrue, ProseKept, At, Name
<1>. QED
  BY <1>2, <1>3, <1>4, Parts

LEMMA InitIInv == Init => IInv
<1>1. SUFFICES ASSUME Init PROVE IInv
  OBVIOUS
<1>2. \A p \in Procs : run[p] = Idle
  BY <1>1 DEF Init
<1>3. /\ said = files /\ DOMAIN files \subseteq Names
      /\ \A n \in DOMAIN files : files[n] \in Documents /\ files[n] # Blank /\ files[n].id = n.num
      /\ \A m, n \in DOMAIN files : m = n
  <2>1. CASE files = << >>
    BY <1>1, <2>1 DEF Init
  <2>2. ASSUME NEW num \in 1..2, NEW toc \in {0, NoRegion},
               files = [n \in {[num |-> num, slug |-> Readme.slug]} |-> [Rendered(num) EXCEPT !.toc = toc]]
        PROVE  /\ DOMAIN files \subseteq Names
               /\ \A n \in DOMAIN files : files[n] \in Documents /\ files[n] # Blank /\ files[n].id = n.num
               /\ \A m, n \in DOMAIN files : m = n
    <3>1. PICK k \in 1..MaxNumber : k = num
      BY Constants
    <3>2. PICK n \in Names : n = [num |-> k, slug |-> Readme.slug] /\ n.num = k
      BY Constants, NameFacts
    <3>3. PICK r \in Documents : r = Rendered(k) /\ r.id = k /\ r # Blank
      BY RenderedFacts, DocumentFacts, Constants
    <3>4. PICK d : d = [r EXCEPT !.toc = toc]
      OBVIOUS
    <3>5. d \in Documents /\ d.id = k
      BY <3>3, <3>4 DEF Documents, Headings
    <3>6. d # Blank
      BY <3>5, DocumentFacts, Constants
    <3>7. files = [m \in {n} |-> d]
      BY <2>2, <3>1, <3>2, <3>3, <3>4
    <3>. QED
      BY <3>2, <3>5, <3>6, <3>7
  <2>. QED
    BY <1>1, <2>1, <2>2 DEF Init
<1>4. /\ index \in {NoIndex, Scaffold({})} /\ config \in {"none", "own"}
      /\ run = [p \in Procs |-> Idle] /\ started = 0 /\ edits = 0 /\ kills = 0
      /\ exposed = {} /\ collided = FALSE /\ vanished = FALSE /\ current = FALSE /\ words = 0
  BY <1>1 DEF Init
<1>5. TypeOK
  <2>1. index \in Readmes
    BY <1>4, Indexes
  <2>2. run \in [Procs -> Commands]
    BY <1>4, IdleFacts
  <2>3. \A p \in Procs : run[p].pc \in StagesOf(run[p].op)
    BY <1>2, IdleFacts DEF StagesOf
  <2>4. DOMAIN said \subseteq Names /\ \A n \in DOMAIN said : said[n] \in Documents
    BY <1>3
  <2>5. /\ config \in {"none", "own", "default", "blank"} /\ exposed \subseteq Names \union {Readme}
        /\ collided \in BOOLEAN /\ vanished \in BOOLEAN /\ current \in BOOLEAN
    BY <1>4
  <2>6. words \in 0..MaxEdits /\ started \in 0..MaxCommands /\ edits \in 0..MaxEdits /\ kills \in 0..MaxKills
    BY <1>4, Constants
  <2>. QED
    BY <1>3, <2>1, <2>2, <2>3, <2>4, <2>5, <2>6 DEF TypeOK
<1>6. \A p \in Procs : Knows(run[p])
  <2>1. Knows(Idle)
    BY IdleFacts, KnowsNothing
  <2>. QED
    BY <1>2, <2>1
<1>7. FilesInv /\ SaidInv /\ WordsInv /\ NumbersDistinct /\ IndexIsTrue
  BY <1>3, <1>4 DEF FilesInv, SaidInv, WordsInv, NumbersDistinct, IndexIsTrue
<1>8. ApartInv
  BY <1>2, IdleFacts DEF ApartInv, Numbering
<1>9. ChangesKept
  BY <1>3, <1>4 DEF ChangesKept
<1>10. ProseKept
  <2>1. index.there => index.marked /\ index.prose = 0
    BY <1>4, Indexes
  <2>. QED
    BY <1>4, <2>1 DEF ProseKept
<1>. QED
  BY <1>5, <1>6, <1>7, <1>8, <1>9, <1>10 DEF IInv, Knows

LEMMA NextStep ==
    ASSUME IInv, [Next]_vars
    PROVE  IInv'
<1>1. CASE UNCHANGED vars
  BY <1>1, StutterStep
<1>2. CASE PersonEdits \/ PersonDeletes \/ PersonWritesIndex
  BY <1>2, PersonEditsStep, PersonDeletesStep, PersonWritesIndexStep
<1>3. ASSUME NEW p \in Procs,
             BeginCreate(p) \/ BeginUpdate(p) \/ BeginStatus(p) \/ BeginTask(p) \/ BeginInit(p)
      PROVE  IInv'
  BY <1>3, BeginsStep
<1>4. ASSUME NEW p \in Procs,
             Plan(p) \/ StatPlanned(p) \/ NumberAgain(p) \/ StatAgain(p) \/ Open(p) \/ Fill(p)
      PROVE  IInv'
  BY <1>4, PlanStep, StatPlannedStep, NumberAgainStep, StatAgainStep, OpenStep, FillStep
<1>5. ASSUME NEW p \in Procs,
             List(p) \/ ScanFile(p) \/ ScanDone(p) \/ UpdateToC(p) \/ ReadIndex(p)
               \/ OpenIndex(p) \/ FillIndex(p) \/ Find(p) \/ Read(p)
      PROVE  IInv'
  BY <1>5, ListStep, ScanFileStep, ScanDoneStep, UpdateToCStep, ReadIndexStep, OpenIndexStep,
     FillIndexStep, FindStep, ReadStep
<1>6. ASSUME NEW p \in Procs, InitConfig(p) \/ FillConfig(p) \/ InitType(p) \/ Kill(p)
      PROVE  IInv'
  BY <1>6, InitConfigStep, InitTypeStep, KillStep
<1>. QED
  BY <1>1, <1>2, <1>3, <1>4, <1>5, <1>6 DEF Next

(* Every part of the invariant holds in every state. *)
THEOREM Invariance == Spec => []IInv
<1>1. IInv /\ [Next]_vars => IInv'
  BY NextStep
<1>. QED
  BY <1>1, InitIInv, PTL DEF Spec

(* The commands' files, README and locals are what their code can hold     *)
(* (docwrite, index, toc).                                                 *)
THEOREM TypeCorrect == Spec => []TypeOK
<1>1. IInv => TypeOK
  BY DEF IInv
<1>. QED
  BY <1>1, Invariance, PTL

(* Two documents share a number only where two creations listed the        *)
(* directory before either wrote, or a file was deleted under a command    *)
(* (docwrite.Create, nextID).                                              *)
THEOREM NumbersStayDistinct == Spec => []NumbersDistinct
<1>1. IInv => NumbersDistinct
  BY DEF IInv
<1>. QED
  BY <1>1, Invariance, PTL

(* What a command or a person wrote into a document stays until somebody   *)
(* changes it: only a command that had read the file before undoes it      *)
(* (UpdateFiles, SetStatus, SetTaskState).                                 *)
THEOREM ChangesStay == Spec => []ChangesKept
<1>1. IInv => ChangesKept
  BY DEF IInv
<1>. QED
  BY <1>1, Invariance, PTL

(* An update leaves a table of the documents that can be read, and the     *)
(* prose around it as the person wrote it (UpdateReadme, Splice).          *)
THEOREM ReadmeStays == Spec => []ReadmeKept
<1>1. IInv => ReadmeKept
  BY DEF IInv, ReadmeKept
<1>. QED
  BY <1>1, Invariance, PTL

=============================================================================
