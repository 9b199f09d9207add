----------------------------- MODULE RepoFiles -----------------------------
(***************************************************************************)
(* The files of one document type and the commands that write them: docz   *)
(* create, update, status set, check and init (pkg/doczcore/docwrite, repo,*)
(* index, toc).  No command locks anything: each reads, decides and writes *)
(* whole files with os.WriteFile, which truncates before it writes.  Two   *)
(* commands run side by side, a person edits between their steps, and a    *)
(* command may be killed after any of them.                                *)
(*                                                                         *)
(* A document is its frontmatter's id and status, one task, its headings'  *)
(* version, the version its table of contents lists, and whether it was    *)
(* saved with CRLF line ends; Blank is what a killed write leaves.         *)
(***************************************************************************)
EXTENDS Naturals, FiniteSets, FiniteSetsExt

CONSTANTS Procs, Slugs, Statuses, FirstStatus,
          MaxNumber, MaxCommands, MaxEdits, MaxKills       \* bounds

ASSUME RepoFilesAssumption ==
    /\ FirstStatus \in Statuses /\ Slugs # {} /\ MaxNumber >= 2
    /\ {MaxNumber, MaxCommands, MaxEdits, MaxKills} \subseteq Nat

VARIABLES
    files,      \* the type's directory: name -> document
    index,      \* its README
    config,     \* .docz.yaml: "none", "own", "default" or "blank"
    run,        \* each process's command and its locals
    started, edits, kills,        \* what the bounds count
    said,       \* history: what each file should hold, by its last writer
    exposed,    \* history: files (and the README) changed under a command that had read them
    collided,   \* history: two creations numbered their document at the same time
    vanished,   \* history: a person deleted a file under a running command
    current,    \* history: nothing was written since the index was refreshed
    words       \* history: the prose last written around the index

vars == <<files, index, config, run, started, edits, kills,
          said, exposed, collided, vanished, current, words>>
history == <<said, exposed, collided, vanished, current, words>>
counters == <<started, edits, kills>>

Names == [num : 1..MaxNumber, slug : Slugs]
Readme == [num |-> 0, slug |-> CHOOSE s \in Slugs : TRUE]   \* the README's name in `exposed`
Headings == 0..1
NoRegion == 2                              \* no table-of-contents markers

Blank == [id |-> 0, status |-> FirstStatus, ticked |-> FALSE, heads |-> 0, toc |-> NoRegion, cr |-> FALSE]
Documents == [id : 1..MaxNumber, status : Statuses, ticked : BOOLEAN, heads : Headings,
              toc : Headings \union {NoRegion}, cr : BOOLEAN] \union {Blank}

Rows == [id : 1..MaxNumber, status : Statuses, name : Names]
NoIndex == [there |-> FALSE, marked |-> FALSE, prose |-> 0, rows |-> {}]
BlankIndex == [NoIndex EXCEPT !.there = TRUE]

-----------------------------------------------------------------------------
(***************************************************************************)
(* What the commands compute of what they read.                            *)
(***************************************************************************)
\* ParseFrontmatter: a blank file has no frontmatter, CRLF is refused.
Readable(d) == d # Blank /\ ~ d.cr

\* A mutant of NextNumber: the files counted.
NextByCount == Cardinality(DOMAIN files) + 1
\* nextID: one more than the greatest number a file's name carries.
NextNumber == IF DOMAIN files = {} THEN 1 ELSE Max({n.num : n \in DOMAIN files}) + 1

Rendered(num) ==
    [id |-> num, status |-> FirstStatus, ticked |-> FALSE, heads |-> 0, toc |-> 0, cr |-> FALSE]

\* UpdateToC on the bytes that were scanned.
NeedsToC(d) == d.toc # NoRegion /\ d.toc # d.heads
WithToC(d) == [d EXCEPT !.toc = d.heads]

\* SetStatusBytes, SetTaskStateBytes: the value changes, nothing else does.
WithStatus(d, status) == [d EXCEPT !.status = status]
WithTask(d, ticked) == [d EXCEPT !.ticked = ticked]

Row(e) == [id |-> e.doc.id, status |-> e.doc.status, name |-> e.name]

(***************************************************************************)
(* Splice: an absent README is scaffolded, one without an index region is  *)
(* left alone, and the table alone is replaced in one that has a region.   *)
(***************************************************************************)
Scaffold(rows) == [there |-> TRUE, marked |-> TRUE, prose |-> 0, rows |-> rows]
Spliceable(ix) == ~ ix.there \/ ix.marked
\* Mutants: the rows of the old table stay; the README is scaffolded afresh.
SpliceAppended(ix, rows) == IF ix.there THEN [ix EXCEPT !.rows = @ \union rows] ELSE Scaffold(rows)
SpliceScaffold(ix, rows) == Scaffold(rows)
Splice(ix, rows) == IF ix.there THEN [ix EXCEPT !.rows = rows] ELSE Scaffold(rows)

-----------------------------------------------------------------------------
\* A command and its locals.
Command(op, pc) ==
    [num |-> 0, slug |-> Readme.slug, status |-> FirstStatus, doc |-> Blank, op |-> op, pc |-> pc,
     flag |-> FALSE, todo |-> {}, seen |-> {}, body |-> NoIndex, fresh |-> FALSE]
Idle == Command("none", "idle")
Name(c) == [num |-> c.num, slug |-> c.slug]

\* The next file in name order (slugs of one number in a fixed order).
Least(S) == CHOOSE n \in S : \A m \in S : n.num <= m.num
Others(p) == Procs \ {p}
At(p, pc) == run[p].pc = pc
Step(p, c) == run' = [run EXCEPT ![p] = c]
Goto(p, pc) == Step(p, [run[p] EXCEPT !.pc = pc])
Finish(p) == Step(p, Idle)

\* A process that will write a copy of `n` it has already read.
Holds(q, n) ==
    LET c == run[q]
    IN  \/ /\ c.op = "update" /\ c.pc = "scan" /\ ~ c.flag
           /\ \E e \in c.seen : e.name = n /\ NeedsToC(e.doc)
        \/ c.op = "update" /\ c.pc \in {"toc", "open", "fill"} /\ n \in c.todo
        \/ c.pc \in {"open", "fill"} /\ Name(c) = n
        \/ c.pc \in {"openIndex", "fillIndex"} /\ n = Readme

(***************************************************************************)
(* The bookkeeping of a write to `n`: whoever scanned before it no longer  *)
(* has the directory as it is, and whoever holds a copy will write over it.*)
(***************************************************************************)
Exposes(n, others) ==
    exposed' = IF \E q \in others : Holds(q, n) THEN exposed \union {n} ELSE exposed

Wrote(p, n, c) ==
    /\ run' = [q \in Procs |-> IF q = p THEN c ELSE [run[q] EXCEPT !.fresh = FALSE]]
    /\ Exposes(n, Others(p))

Put(n, d) == files' = [m \in DOMAIN files \union {n} |-> IF m = n THEN d ELSE files[m]]
Meant(c) ==                                \* what the command was to change
    LET n == Name(c)
        old == IF n \in DOMAIN said THEN said[n] ELSE c.doc
    IN  CASE c.op = "create" -> c.doc
          [] c.op = "status" -> WithStatus(old, c.doc.status)
          [] c.op = "task" -> WithTask(old, c.doc.ticked)
          [] OTHER -> old
Say(n, d) == said' = [m \in DOMAIN said \union {n} |-> IF m = n THEN d ELSE said[m]]

StagesOf(op) ==
    CASE op = "create" -> {"plan", "planned", "number", "stat", "open", "fill"}
      [] op = "update" -> {"list", "scan", "toc", "open", "fill", "openIndex", "fillIndex"}
      [] op = "status" -> {"list", "scan", "find", "read", "open", "fill"}
      [] op = "task" -> {"read", "open", "fill"}
      [] op = "init" -> {"config", "fillConfig", "type", "openIndex", "fillIndex"}
      [] OTHER -> {"idle"}

Stages == {"idle", "plan", "planned", "number", "stat", "open", "fill", "list", "scan", "toc",
           "openIndex", "fillIndex", "find", "read", "config", "fillConfig", "type"}
Entries == [name : Names, doc : Documents \ {Blank}]
Readmes == [there : BOOLEAN, marked : BOOLEAN, prose : 0..MaxEdits, rows : SUBSET Rows]
Commands ==
    [num : 0..MaxNumber, slug : Slugs, status : Statuses, doc : Documents,
     op : {"none", "create", "update", "status", "task", "init"}, pc : Stages, flag : BOOLEAN,
     todo : SUBSET Names, seen : SUBSET Entries, body : Readmes, fresh : BOOLEAN]

TypeOK ==
    /\ DOMAIN files \subseteq Names /\ \A n \in DOMAIN files : files[n] \in Documents
    /\ DOMAIN said \subseteq Names /\ \A n \in DOMAIN said : said[n] \in Documents
    /\ index \in Readmes
    /\ config \in {"none", "own", "default", "blank"}
    /\ run \in [Procs -> Commands] /\ \A p \in Procs : run[p].pc \in StagesOf(run[p].op)
    /\ exposed \subseteq Names \union {Readme}
    /\ words \in 0..MaxEdits /\ collided \in BOOLEAN /\ vanished \in BOOLEAN /\ current \in BOOLEAN
    /\ started \in 0..MaxCommands /\ edits \in 0..MaxEdits /\ kills \in 0..MaxKills

Init ==
    /\ \/ files = << >>
       \/ \E num \in 1..2, toc \in {0, NoRegion} :
             files = [n \in {[num |-> num, slug |-> Readme.slug]} |->
                         [Rendered(num) EXCEPT !.toc = toc]]
    /\ said = files
    /\ index \in {NoIndex, Scaffold({})} /\ config = IF files = << >> THEN "none" ELSE "own"
    /\ run = [p \in Procs |-> Idle]
    /\ started = 0 /\ edits = 0 /\ kills = 0
    /\ exposed = {} /\ collided = FALSE /\ vanished = FALSE /\ current = FALSE /\ words = 0

-----------------------------------------------------------------------------
(***************************************************************************)
(* Commands begin.                                                         *)
(***************************************************************************)
Begin(p, c) ==
    /\ At(p, "idle") /\ started < MaxCommands /\ started' = started + 1
    /\ Step(p, c)
    /\ UNCHANGED <<files, index, config, edits, kills, history>>

BeginCreate(p) ==
    \E s \in Slugs, refresh \in BOOLEAN :
        Begin(p, [Command("create", "plan") EXCEPT !.slug = s, !.flag = refresh])
BeginUpdate(p) ==
    \E dry \in BOOLEAN : Begin(p, [Command("update", "list") EXCEPT !.flag = dry])
BeginStatus(p) ==
    \E num \in 1..MaxNumber, status \in Statuses :
        Begin(p, [Command("status", "list") EXCEPT !.num = num, !.status = status])
BeginTask(p) ==
    \E n \in DOMAIN files, ticked \in BOOLEAN :
        Begin(p, [Command("task", "read") EXCEPT !.num = n.num, !.slug = n.slug, !.flag = ticked])
BeginInit(p) ==
    \E force \in BOOLEAN : Begin(p, [Command("init", "config") EXCEPT !.flag = force])

-----------------------------------------------------------------------------
(***************************************************************************)
(* Create: number and stat for the path repo.Create plans, then again in   *)
(* docwrite.Create for the path it writes.                                 *)
(***************************************************************************)
Plan(p) ==
    /\ At(p, "plan") /\ NextNumber <= MaxNumber
    /\ Step(p, [run[p] EXCEPT !.num = NextNumber, !.pc = "planned"])
    /\ UNCHANGED <<files, index, config, counters, history>>

StatPlanned(p) ==                                                \* ExistsError
    /\ At(p, "planned")
    /\ IF Name(run[p]) \in DOMAIN files THEN Finish(p) ELSE Goto(p, "number")
    /\ UNCHANGED <<files, index, config, counters, history>>

NumberAgain(p) ==
    /\ At(p, "number") /\ NextNumber <= MaxNumber
    /\ Step(p, [run[p] EXCEPT !.num = NextNumber, !.pc = "stat"])
    /\ collided' = (collided \/ \E q \in Others(p) :
                                   run[q].op = "create" /\ run[q].pc \in {"stat", "open"})
    /\ UNCHANGED <<files, index, config, counters, said, exposed, vanished, current, words>>

StatAgain(p) ==
    /\ At(p, "stat")
    /\ IF Name(run[p]) \in DOMAIN files THEN Finish(p)
       ELSE Step(p, [run[p] EXCEPT !.pc = "open", !.doc = Rendered(run[p].num)])
    /\ UNCHANGED <<files, index, config, counters, history>>

-----------------------------------------------------------------------------
(***************************************************************************)
(* os.WriteFile of one document: the file is emptied, then filled.  A file *)
(* removed in between is filled where nobody sees it.                      *)
(***************************************************************************)
AfterWrite(c) ==
    CASE c.op = "create" /\ c.flag -> Command("update", "list")
      [] c.op = "update" -> [c EXCEPT !.pc = "toc"]
      [] OTHER -> Idle

Open(p) ==
    /\ At(p, "open")
    /\ LET n == Name(run[p])
       IN  Put(n, Blank) /\ Wrote(p, n, [run[p] EXCEPT !.pc = "fill"])
    /\ current' = FALSE
    /\ UNCHANGED <<index, config, counters, said, collided, vanished, words>>

Fill(p) ==
    /\ At(p, "fill")
    /\ LET n == Name(run[p])
       IN  /\ IF n \in DOMAIN files THEN Put(n, run[p].doc) ELSE UNCHANGED files
           /\ IF n \in DOMAIN files THEN Say(n, Meant(run[p])) ELSE UNCHANGED said
           /\ Wrote(p, n, AfterWrite(run[p]))
    /\ current' = FALSE
    /\ UNCHANGED <<index, config, counters, collided, vanished, words>>

-----------------------------------------------------------------------------
(***************************************************************************)
(* ScanDocuments, one file at a time, in name order.                       *)
(***************************************************************************)
List(p) ==
    /\ At(p, "list")
    /\ Step(p, [run[p] EXCEPT !.pc = "scan", !.todo = DOMAIN files, !.seen = {}, !.fresh = TRUE])
    /\ UNCHANGED <<files, index, config, counters, history>>

ScanFile(p) ==
    /\ At(p, "scan") /\ run[p].todo # {}
    /\ LET n == Least(run[p].todo)
           got == IF n \in DOMAIN files /\ Readable(files[n])
                  THEN {[name |-> n, doc |-> files[n]]} ELSE {}
       IN  Step(p, [run[p] EXCEPT !.todo = @ \ {n}, !.seen = @ \union got])
    /\ UNCHANGED <<files, index, config, counters, history>>

ScanDone(p) ==
    /\ At(p, "scan") /\ run[p].todo = {}
    /\ IF run[p].op = "status" THEN Goto(p, "find")
       ELSE Step(p, [run[p] EXCEPT !.pc = "toc",
                        !.todo = IF run[p].flag THEN {}                 \* dry run
                                 ELSE {e.name : e \in {e \in run[p].seen : NeedsToC(e.doc)}}])
    /\ UNCHANGED <<files, index, config, counters, history>>

(***************************************************************************)
(* UpdateFiles: the tables of contents, one document at a time, each from  *)
(* the bytes of the scan.                                                  *)
(***************************************************************************)
Scanned(c, n) == (CHOOSE e \in c.seen : e.name = n).doc

UpdateToC(p) ==
    /\ At(p, "toc") /\ run[p].todo # {}
    /\ LET n == Least(run[p].todo)
       IN  Step(p, [run[p] EXCEPT !.pc = "open", !.num = n.num, !.slug = n.slug,
                       !.todo = @ \ {n}, !.doc = WithToC(Scanned(run[p], n))])
    /\ UNCHANGED <<files, index, config, counters, history>>

ReadIndex(p) ==
    /\ At(p, "toc") /\ run[p].todo = {}
    /\ IF run[p].flag \/ ~ Spliceable(index) THEN Finish(p)            \* dry run, or no markers
       ELSE Step(p, [run[p] EXCEPT !.pc = "openIndex",
                        !.body = Splice(index, {Row(e) : e \in run[p].seen})])
    /\ UNCHANGED <<files, index, config, counters, history>>

OpenIndex(p) ==
    /\ At(p, "openIndex")
    /\ index' = BlankIndex
    /\ Step(p, [run[p] EXCEPT !.pc = "fillIndex"])
    /\ Exposes(Readme, Others(p)) /\ current' = FALSE
    /\ UNCHANGED <<files, config, counters, said, collided, vanished, words>>

FillIndex(p) ==
    /\ At(p, "fillIndex")
    /\ index' = run[p].body
    /\ Finish(p)
    /\ Exposes(Readme, Others(p))
    /\ current' = (run[p].op = "update" /\ run[p].fresh)
    /\ words' = IF run[p].op = "init" THEN 0 ELSE words
    /\ UNCHANGED <<files, config, counters, said, collided, vanished>>

-----------------------------------------------------------------------------
(***************************************************************************)
(* SetStatus: FindIn takes the first document of the scan with the id, and *)
(* the file is read again before it is written.                            *)
(***************************************************************************)
\* Mutant: the scan's bytes are written back, not read again.
FindAndWrite(p) ==
    /\ At(p, "find")
    /\ LET same == {e \in run[p].seen : e.doc.id = run[p].num}
       IN  IF same = {} THEN Finish(p)
           ELSE \E e \in same :
                  Step(p, [run[p] EXCEPT !.pc = "open", !.num = e.name.num, !.slug = e.name.slug,
                              !.seen = {}, !.doc = WithStatus(e.doc, run[p].status)])
    /\ UNCHANGED <<files, index, config, counters, history>>

Find(p) ==
    /\ At(p, "find")
    /\ LET same == {e \in run[p].seen : e.doc.id = run[p].num}
       IN  IF same = {} THEN Finish(p)                                  \* NotFoundError
           ELSE \E e \in same :
                  IF e.doc.status = run[p].status THEN Finish(p)        \* nothing to write
                  ELSE Step(p, [run[p] EXCEPT !.pc = "read", !.num = e.name.num,
                                   !.slug = e.name.slug, !.seen = {}])
    /\ UNCHANGED <<files, index, config, counters, history>>

Refused(c, d) == ~ Readable(d) \/ (c.op = "task" /\ d.ticked = c.flag)

Read(p) ==
    /\ At(p, "read")
    /\ LET n == Name(run[p])
       IN  IF n \notin DOMAIN files THEN Finish(p)
           ELSE IF Refused(run[p], files[n]) THEN Finish(p)
           ELSE Step(p, [run[p] EXCEPT !.pc = "open",
                            !.doc = IF run[p].op = "status" THEN WithStatus(files[n], run[p].status)
                                    ELSE WithTask(files[n], run[p].flag)])
    /\ UNCHANGED <<files, index, config, counters, history>>

-----------------------------------------------------------------------------
(***************************************************************************)
(* Init: the configuration is written only where there is none, the index  *)
(* only where there is none or with --force, empty.                        *)
(***************************************************************************)
InitConfig(p) ==
    /\ At(p, "config")
    /\ IF config = "none" THEN config' = "blank" /\ Goto(p, "fillConfig")
       ELSE UNCHANGED config /\ Goto(p, "type")
    /\ UNCHANGED <<files, index, counters, history>>

FillConfig(p) ==
    /\ At(p, "fillConfig")
    /\ config' = "default" /\ Goto(p, "type")
    /\ UNCHANGED <<files, index, counters, history>>

InitType(p) ==
    /\ At(p, "type")
    /\ IF index.there /\ ~ run[p].flag THEN Finish(p)
       ELSE Step(p, [run[p] EXCEPT !.pc = "openIndex", !.body = Scaffold({})])
    /\ UNCHANGED <<files, index, config, counters, history>>

-----------------------------------------------------------------------------
(***************************************************************************)
(* The person at the repository, and the kill of a command.                *)
(***************************************************************************)
Edit(n) ==
    /\ edits < MaxEdits /\ edits' = edits + 1
    /\ Exposes(n, Procs) /\ current' = FALSE
    /\ run' = [q \in Procs |-> [run[q] EXCEPT !.fresh = FALSE]]

PersonEdits ==
    \E n \in DOMAIN files :
        /\ files[n] # Blank
        /\ Edit(n)
        /\ \E d \in {[files[n] EXCEPT !.heads = 1 - @], [files[n] EXCEPT !.cr = TRUE]} :
              Put(n, d) /\ Say(n, d)
        /\ UNCHANGED <<index, config, started, kills, collided, vanished, words>>

PersonDeletes ==
    \E n \in DOMAIN files :
        /\ Edit(n)
        /\ files' = [m \in DOMAIN files \ {n} |-> files[m]]
        /\ said' = [m \in DOMAIN said \ {n} |-> said[m]]
        /\ vanished' = (vanished \/ \E q \in Procs : run[q] # Idle)
        /\ UNCHANGED <<index, config, started, kills, collided, words>>

PersonWritesIndex ==
    /\ index.there /\ Edit(Readme)
    /\ index' \in {[index EXCEPT !.prose = edits + 1],
                   [index EXCEPT !.prose = edits + 1, !.marked = FALSE, !.rows = {}]}
    /\ words' = edits + 1
    /\ UNCHANGED <<files, config, started, kills, said, collided, vanished>>

Kill(p) ==
    /\ run[p] # Idle /\ kills < MaxKills /\ kills' = kills + 1
    /\ Finish(p)
    /\ UNCHANGED <<files, index, config, started, edits, history>>

Next ==
    \/ \E p \in Procs :
         \/ BeginCreate(p) \/ BeginUpdate(p) \/ BeginStatus(p) \/ BeginTask(p) \/ BeginInit(p)
         \/ Plan(p) \/ StatPlanned(p) \/ NumberAgain(p) \/ StatAgain(p) \/ Open(p) \/ Fill(p)
         \/ List(p) \/ ScanFile(p) \/ ScanDone(p) \/ UpdateToC(p) \/ ReadIndex(p)
         \/ OpenIndex(p) \/ FillIndex(p) \/ Find(p) \/ Read(p)
         \/ InitConfig(p) \/ FillConfig(p) \/ InitType(p) \/ Kill(p)
    \/ PersonEdits \/ PersonDeletes \/ PersonWritesIndex

Spec == Init /\ [][Next]_vars

-----------------------------------------------------------------------------
(***************************************************************************)
(* Create numbers a document one past the greatest: two documents share a  *)
(* number only where two creations listed the directory before either      *)
(* wrote (docwrite/create.go:95), or a person deleted a file under a       *)
(* command that then wrote it back.  A killed creation uses its number up. *)
(***************************************************************************)
NumbersDistinct ==
    ~ collided /\ ~ vanished =>
        /\ \A m, n \in DOMAIN files : m.num = n.num => m = n
        /\ \A n \in DOMAIN files : files[n] # Blank => files[n].id = n.num

(***************************************************************************)
(* What a command or a person wrote last into a document - status, task,   *)
(* text - is there until somebody changes it, whichever commands ran since:*)
(* only a command that had already read the file when it changed may undo  *)
(* it, and only a kill in the middle of a write leaves a blank file.       *)
(***************************************************************************)
Body(d) == [d EXCEPT !.toc = NoRegion]
ChangesKept ==
    \A n \in DOMAIN files \ exposed :
        IF files[n] = Blank THEN kills > 0 \/ \E p \in Procs : At(p, "fill") /\ Name(run[p]) = n
        ELSE n \in DOMAIN said /\ Body(files[n]) = Body(said[n])

(***************************************************************************)
(* The index an update leaves lists the documents that can be read, each   *)
(* under its id and status, where nothing was written since the update     *)
(* listed the directory.                                                   *)
(***************************************************************************)
IndexIsTrue ==
    current =>
        index.rows = {Row([name |-> n, doc |-> files[n]]) : n \in {n \in DOMAIN files : Readable(files[n])}}

(***************************************************************************)
(* The prose around the index is the person's: commands replace the region *)
(* alone, but for init --force; the region's markers go only by a person.  *)
(***************************************************************************)
ProseKept ==
    Readme \notin exposed /\ kills = 0 /\ index.there /\ (\A p \in Procs : ~ At(p, "fillIndex")) =>
        /\ index.prose = words
        /\ index.marked \/ words > 0

(***************************************************************************)
(* What the commands leave of a README: a true table, and a person's prose *)
(* (UpdateReadme, Splice).                                                 *)
(***************************************************************************)
ReadmeKept == IndexIsTrue /\ ProseKept

=============================================================================
