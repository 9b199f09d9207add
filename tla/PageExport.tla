----------------------------- MODULE PageExport -----------------------------
(***************************************************************************)
(* One repository's pages in Confluence: pkg/export/confluence.Export run  *)
(* by the CLI, by the CLI with --force, or by docz-api, while people edit, *)
(* move and create pages and the repository changes.  Confluence has no    *)
(* transaction over a page and its docz property: a page is found, its     *)
(* property is read, it is written at the version that was found, and the  *)
(* property is written after it; people act, and a run may fail or stop,   *)
(* between any two.                                                        *)
(*                                                                         *)
(* The home page, type pages, documents and api: pages are all reconciled  *)
(* the same way and are the documents here, in one container; the Archive  *)
(* page and inline comments are left out.  Every run is a full one.        *)
(*                                                                         *)
(* What a page shows is a document's text under a banner that says what    *)
(* becomes of edits, which is not the same for the server and for the CLI, *)
(* so that each finds the other's pages out of date.  Only a home page     *)
(* made from no file has no banner; here every page has one.               *)
(***************************************************************************)
EXTENDS Naturals, Sequences

CONSTANTS
    Keys,      \* property keys, in the order a run reconciles them
    Versions,  \* Versions[k]: the titles and contents the document k may have
    Distinct,  \* no two documents ever have the same title at once
    Human,     \* a body somebody edited or wrote in Confluence
    Modes,     \* who runs exports: "cli", "force", "server"
    Nothing,   \* no document, no property
    MaxRuns,   \* bound: runs
    MaxPushes, \* bound: changes of the repository
    MaxActs    \* bound: acts of people in Confluence

Docs == UNION {Versions[k] : k \in Keys}
Titles == {d.title : d \in Docs}
Contents == {d.content : d \in Docs}

(* The banner on a page says "overwritten" of edits where every run        *)
(* overwrites them, else "kept" (writeBanner; Force changes nothing there).*)
Fate(mode) == IF mode = "server" THEN "overwritten" ELSE "kept"

Bodies == [text : Contents, edits : {"kept", "overwritten"}]

(* Render. *)
Rendered(doc, mode) ==
    [title |-> doc.title, body |-> [text |-> doc.content, edits |-> Fate(mode)]]

(* What the tree at HEAD may hold. *)
Trees == {tree \in [Keys -> Docs \cup {Nothing}] :
             /\ \A k \in Keys : tree[k] \in Versions[k] \cup {Nothing}
             /\ Distinct => \A j, k \in Keys : j # k /\ Nothing \notin {tree[j], tree[k]}
                                            => tree[j].title # tree[k].title}

ASSUME ExportAssumption ==
    /\ Keys \subseteq Nat \ {0}
    /\ Distinct \in BOOLEAN
    /\ Modes \subseteq {"cli", "force", "server"}
    /\ \A d \in Docs : DOMAIN d = {"title", "content"}
    /\ Human \notin Bodies
    /\ Nothing \notin [key : Keys, hash : Bodies, version : Nat]
    /\ {MaxRuns, MaxPushes, MaxActs} \subseteq Nat

VARIABLES
    docs,      \* docs[k]: the document k at HEAD
    pages,     \* the pages of the space, by id
    folder,    \* the repository's folder: "none", "bare" (no property), "ours"
    recorded,  \* recorded[k]: the page id docz-api recorded for k, 0 for none
    run,       \* the run under way
    results,   \* results[k]: what the run did to k
    left,      \* the runs, pushes and acts that are left
    quiet,     \* history: nobody pushed or acted since the run began
    settled    \* history: nobody did since a run ended with every page exported,
               \* and no run began that words the banner otherwise

vars == <<docs, pages, folder, recorded, run, results, left, quiet, settled>>

Places == {"tree", "archive", "elsewhere"}
Stages == {"folder", "stampFolder", "find", "create", "decide", "update", "stamp",
           "list", "orphan", "archive", "restamp", "end"}
Skips == {"notOurs", "edited"}
Successes == {"created", "updated", "unchanged", "archived"}

Page == [title : Titles, at : Places, version : Nat, body : Bodies \cup {Human},
         prop : [key : Keys, hash : Bodies, version : Nat] \cup {Nothing},
         made : {"docz", "people"}, masked : BOOLEAN]

NoRun == [pc |-> "idle", mode |-> "cli", plan |-> [k \in Keys |-> Nothing], todo |-> {},
          key |-> 0, page |-> 0, version |-> 0, place |-> "tree", title |-> Nothing,
          what |-> "none", edited |-> FALSE, broken |-> FALSE]

Run == [pc : Stages \cup {"idle"}, mode : Modes \cup {"cli"}, plan : Trees, todo : SUBSET Nat,
        key : Keys \cup {0}, page : 0 .. Len(pages), version : Nat, place : Places,
        title : Titles \cup {Nothing}, what : {"none", "created", "updated"},
        edited : BOOLEAN, broken : BOOLEAN]

TypeOK ==
    /\ docs \in Trees
    /\ pages \in Seq(Page)
    /\ folder \in {"none", "bare", "ours"}
    /\ recorded \in [Keys -> 0 .. Len(pages)]
    /\ run \in Run
    /\ results \in [Keys -> [what : {"none"} \cup Successes \cup Skips \cup {"failed"},
                             page : 0 .. Len(pages)]]
    /\ left \in [runs : Nat, pushes : Nat, acts : Nat]
    /\ quiet \in BOOLEAN /\ settled \in BOOLEAN

NoResults == [k \in Keys |-> [what |-> "none", page |-> 0]]

Init ==
    /\ docs \in Trees
    /\ pages = <<>> /\ folder = "none"
    /\ recorded = [k \in Keys |-> 0]
    /\ run = NoRun /\ results = NoResults
    /\ left = [runs |-> MaxRuns, pushes |-> MaxPushes, acts |-> MaxActs]
    /\ quiet = FALSE /\ settled = FALSE

-----------------------------------------------------------------------------
(* The repository and the people who use the space. *)

(* Acts after the last run are of no interest. *)
Disturb ==
    /\ run.pc # "idle" \/ left.runs > 0
    /\ quiet' = FALSE /\ settled' = FALSE

Push ==
    /\ left.pushes > 0 /\ left' = [left EXCEPT !.pushes = @ - 1]
    /\ docs' \in {[docs EXCEPT ![k] = d] : k \in Keys, d \in Docs \cup {Nothing}}
    /\ docs' \in Trees /\ docs' # docs
    /\ Disturb
    /\ UNCHANGED <<pages, folder, recorded, run, results>>

Act == left.acts > 0 /\ left' = [left EXCEPT !.acts = @ - 1] /\ Disturb

Edit(p) ==
    /\ Act
    /\ pages' = [pages EXCEPT ![p].body = Human, ![p].version = @ + 1]
    /\ UNCHANGED <<docs, folder, recorded, run, results>>

Move(p) ==
    /\ Act
    /\ \E place \in Places \ {pages[p].at} : pages' = [pages EXCEPT ![p].at = place]
    /\ UNCHANGED <<docs, folder, recorded, run, results>>

Free(title) == \A p \in DOMAIN pages : pages[p].title # title

WritePage ==
    /\ Act
    /\ \E title \in Titles, place \in {"tree", "elsewhere"} :
         /\ Free(title)
         /\ pages' = Append(pages, [title |-> title, at |-> place, version |-> 1,
                                    body |-> Human, prop |-> Nothing, made |-> "people",
                                    masked |-> FALSE])
    /\ UNCHANGED <<docs, folder, recorded, run, results>>

People == WritePage \/ \E p \in DOMAIN pages : Edit(p) \/ Move(p)

-----------------------------------------------------------------------------
(* Export. *)

space == <<docs, pages, folder, recorded>>
flags == <<left, quiet, settled>>

At(pc) == run.pc = pc

GoTo(pc) == run' = [run EXCEPT !.pc = pc]

Items(plan) == {k \in Keys : plan[k] # Nothing}

(* The run as it goes on with the first of the items left, or with the     *)
(* orphans.                                                                *)
OnTo(left_) ==
    LET r == [NoRun EXCEPT !.mode = run.mode, !.plan = run.plan] IN
    IF left_ = {} THEN [r EXCEPT !.pc = "list"]
    ELSE LET k == CHOOSE k \in left_ : \A j \in left_ : k <= j IN
         [r EXCEPT !.pc = "find", !.key = k, !.todo = left_ \ {k}]

(* Between two runs; the mode is the last one's. *)
Resting == [NoRun EXCEPT !.mode = run.mode]

Start ==
    /\ At("idle") /\ left.runs > 0
    /\ left' = [left EXCEPT !.runs = @ - 1]
    /\ \E mode \in Modes :
         /\ run' = [NoRun EXCEPT !.pc = "folder", !.mode = mode, !.plan = docs]
         /\ settled' = (settled /\ Fate(mode) = Fate(run.mode))
    /\ quiet' = TRUE /\ UNCHANGED <<space, results>>

(* resolveFolder, createFolder. *)
UseFolder ==
    /\ At("folder") /\ folder = "ours"
    /\ run' = OnTo(Items(run.plan))
    /\ UNCHANGED <<space, flags, results>>

CreateFolder ==
    /\ At("folder") /\ folder = "none"
    /\ folder' = "bare" /\ GoTo("stampFolder")
    /\ UNCHANGED <<docs, pages, recorded, flags, results>>

StampFolder ==
    /\ At("stampFolder")
    /\ folder' = "ours" /\ run' = OnTo(Items(run.plan))
    /\ UNCHANGED <<docs, pages, recorded, flags, results>>

RefuseFolder ==
    /\ At("folder") /\ folder = "bare"
    /\ run' = Resting
    /\ UNCHANGED <<space, flags, results>>

Want == Rendered(run.plan[run.key], run.mode)

(* An item is done. *)
Done(what, page) ==
    /\ results' = [results EXCEPT ![run.key] = [what |-> what, page |-> page]]
    /\ run' = OnTo(run.todo)

(* findPage: by the recorded id, else by title. *)
Found ==
    IF run.mode = "server" /\ recorded[run.key] # 0 THEN {recorded[run.key]}
    ELSE {p \in DOMAIN pages : pages[p].title = Want.title}

FindPage ==
    /\ At("find")
    /\ \/ Found = {} /\ GoTo("create")
       \/ \E p \in Found :
            run' = [run EXCEPT !.pc = "decide", !.page = p, !.version = pages[p].version,
                               !.place = pages[p].at, !.title = pages[p].title]
    /\ UNCHANGED <<space, flags, results>>

CreatePage ==
    /\ At("create")
    /\ \/ /\ Free(Want.title)
          /\ pages' = Append(pages, [title |-> Want.title, at |-> "tree", version |-> 1,
                                     body |-> Want.body, prop |-> Nothing,
                                     made |-> "docz", masked |-> FALSE])
          /\ run' = [run EXCEPT !.pc = "stamp", !.page = Len(pages'), !.version = 1,
                                 !.what = "created"]
          /\ UNCHANGED results
       \/ ~Free(Want.title) /\ Done("failed", 0) /\ UNCHANGED pages
    /\ UNCHANGED <<docs, folder, recorded, flags>>

(* decide, on the page as it was found and the property as it is now. *)
Edited(prop) == prop # Nothing /\ prop.version # run.version

(* A mutant of Same: only the hash counts. *)
SameHash(prop) == prop # Nothing /\ prop.hash = Want.body

Same(prop) ==
    /\ prop # Nothing
    /\ prop.hash = Want.body /\ run.place = "tree" /\ run.title = Want.title

(* A mutant of Decision: a page without a property is adopted. *)
Adopt(prop) ==
    IF Same(prop) /\ ~Edited(prop) THEN "unchanged"
    ELSE IF run.mode = "cli" /\ Edited(prop) THEN "edited" ELSE "update"

Decision(prop) ==
    CASE run.mode = "force" -> IF Same(prop) /\ ~Edited(prop) THEN "unchanged" ELSE "update"
      [] run.mode # "force" /\ prop = Nothing -> "notOurs"
      [] run.mode = "server" /\ Edited(prop) -> "update"
      [] run.mode = "cli" /\ Edited(prop) -> "edited"
      [] OTHER -> IF Same(prop) THEN "unchanged" ELSE "update"

Decide ==
    /\ At("decide")
    /\ LET prop == pages[run.page].prop
           d == Decision(prop)
       IN IF d = "update"
          THEN /\ run' = [run EXCEPT !.pc = "update", !.edited = Edited(prop),
                                      !.place = "tree", !.title = Nothing]
               /\ UNCHANGED results
          ELSE Done(d, run.page)
    /\ UNCHANGED <<space, flags>>

Property(key, hash, version) == [key |-> key, hash |-> hash, version |-> version]

(* The page a run writes, moved where it belongs. *)
Written(page) ==
    [page EXCEPT !.title = Want.title, !.at = "tree", !.body = Want.body,
                 !.version = @ + 1, !.made = "docz", !.masked = FALSE]

(* A mutant of UpdatePage: whatever the version. *)
UpdateAnyVersion ==
    /\ At("update")
    /\ \A q \in DOMAIN pages \ {run.page} : pages[q].title # Want.title
    /\ pages' = [pages EXCEPT ![run.page] = Written(@)]
    /\ run' = [run EXCEPT !.pc = "stamp", !.version = pages'[run.page].version,
                           !.what = "updated"]
    /\ UNCHANGED <<docs, folder, recorded, flags, results>>

(* update, whose version number Confluence checks against the page's.      *)
UpdatePage ==
    /\ At("update")
    /\ \/ /\ pages[run.page].version = run.version
          /\ \A q \in DOMAIN pages \ {run.page} : pages[q].title # Want.title
          /\ pages' = [pages EXCEPT ![run.page] = Written(@)]
          /\ run' = [run EXCEPT !.pc = "stamp", !.version = @ + 1, !.what = "updated"]
          /\ UNCHANGED results
       \/ /\ \/ pages[run.page].version # run.version
             \/ \E q \in DOMAIN pages \ {run.page} : pages[q].title = Want.title
          /\ Done("failed", run.page) /\ UNCHANGED pages
    /\ UNCHANGED <<docs, folder, recorded, flags>>

(* A mutant of Stamp: a property that exists keeps its hash. *)
StampOldHash ==
    /\ At("stamp")
    /\ LET old == pages[run.page].prop
           hash == IF old = Nothing THEN Want.body ELSE old.hash
       IN pages' = [pages EXCEPT ![run.page].prop = Property(run.key, hash, run.version)]
    /\ Done(run.what, run.page)
    /\ UNCHANGED <<docs, folder, recorded, flags>>

(* writeProperty, after create and after update. *)
Stamp ==
    /\ At("stamp")
    /\ pages' = [pages EXCEPT ![run.page].prop = Property(run.key, Want.body, run.version)]
    /\ Done(run.what, run.page)
    /\ UNCHANGED <<docs, folder, recorded, flags>>

(* A request of the item failed. *)
FailItem ==
    /\ run.pc \in {"find", "create", "decide", "update", "stamp"}
    /\ Done("failed", run.page)
    /\ UNCHANGED <<space, flags>>

-----------------------------------------------------------------------------
(* Orphans, after the items of a full run. *)

InTree == {p \in DOMAIN pages : pages[p].at = "tree"}

(* The children whose titles the run does not write, as they are listed.   *)
ListChildren ==
    /\ At("list")
    /\ LET titles == {run.plan[k].title : k \in Items(run.plan)} IN
       run' = [run EXCEPT !.pc = "orphan", !.todo = {p \in InTree : pages[p].title \notin titles}]
    /\ UNCHANGED <<space, flags, results>>

Orphan(p) ==
    pages[p].prop # Nothing /\ pages[p].prop.key \notin Items(run.plan)

CheckOrphan ==
    /\ At("orphan")
    /\ \E p \in run.todo :
         /\ \A q \in run.todo : p <= q
         /\ run' = IF Orphan(p)
                   THEN [run EXCEPT !.pc = "archive", !.page = p, !.todo = @ \ {p},
                                    !.key = pages[p].prop.key]
                   ELSE [run EXCEPT !.todo = @ \ {p}]
    /\ UNCHANGED <<space, flags, results>>

OnToOrphans(broken) ==
    run' = [run EXCEPT !.pc = "orphan", !.page = 0, !.key = 0, !.version = 0,
                       !.broken = @ \/ broken]

EndOrphans ==
    /\ At("orphan") /\ run.todo = {}
    /\ GoTo("end")
    /\ UNCHANGED <<space, flags, results>>

Archived(what) ==
    results' = [results EXCEPT ![run.key] = [what |-> what, page |-> run.page]]

(* A move: the body and the version are the page's at that moment.         *)
ArchivePage ==
    /\ At("archive")
    /\ pages' = [pages EXCEPT ![run.page].at = "archive", ![run.page].version = @ + 1]
    /\ run' = [run EXCEPT !.pc = "restamp", !.version = pages[run.page].version + 1]
    /\ UNCHANGED <<docs, folder, recorded, flags, results>>

(* The property is brought along, with the hash it had; that the page had  *)
(* been edited, or written by a run that got no further, before the move   *)
(* no longer shows then.                                                   *)
Restamped(page) ==
    LET hidden == page.version = run.version /\ page.prop.version + 1 # run.version IN
    [page EXCEPT !.prop.version = run.version, !.masked = @ \/ hidden]

Restamp ==
    /\ At("restamp")
    /\ pages' = [pages EXCEPT ![run.page] = Restamped(@)]
    /\ Archived("archived") /\ OnToOrphans(FALSE)
    /\ UNCHANGED <<docs, folder, recorded, flags>>

FailOrphan ==
    /\ run.pc \in {"archive", "restamp"}
    /\ Archived("failed") /\ OnToOrphans(TRUE)
    /\ UNCHANGED <<space, flags>>

(* The context was cancelled between two pages, or the listing failed.     *)
Interrupt ==
    /\ run.pc \in {"find", "list", "orphan"}
    /\ run' = [run EXCEPT !.pc = "end", !.key = 0, !.todo = {}, !.broken = TRUE]
    /\ UNCHANGED <<space, flags, results>>

(* record, on the server. *)
Clean ==
    /\ quiet /\ ~run.broken
    /\ \A k \in Keys : results[k].what \in Successes \cup {"none"}

End ==
    /\ At("end")
    /\ recorded' = [k \in Keys |-> IF run.mode = "server" /\ results[k].page # 0
                                   THEN results[k].page ELSE recorded[k]]
    /\ run' = Resting /\ results' = NoResults
    /\ settled' = (settled \/ Clean)
    /\ UNCHANGED <<docs, pages, folder, left, quiet>>

(* The process stops, or Postgres refuses the record: nothing is recorded. *)
Crash ==
    /\ ~At("idle")
    /\ run' = Resting /\ results' = NoResults
    /\ UNCHANGED <<space, flags>>

Export ==
    \/ Start \/ UseFolder \/ CreateFolder \/ StampFolder \/ RefuseFolder
    \/ FindPage \/ CreatePage \/ Decide \/ UpdatePage \/ Stamp \/ FailItem
    \/ ListChildren \/ CheckOrphan \/ EndOrphans \/ ArchivePage \/ Restamp
    \/ FailOrphan \/ Interrupt \/ End \/ Crash

Next == Push \/ People \/ Export

Spec == Init /\ [][Next]_vars

-----------------------------------------------------------------------------
(* What somebody wrote in Confluence is replaced only by --force, or by a  *)
(* server run that reports the edit, however edits fall between a run's    *)
(* reads and its writes (decide, update); but for pages edited before they *)
(* were archived and not since, which Restamp masks.                       *)
NoSilentOverwrite ==
    [][\A p \in DOMAIN pages :
        pages[p].body = Human /\ pages'[p].body # Human =>
          \/ run.mode = "force"
          \/ run.mode = "server" /\ run.edited
          \/ pages[p].masked /\ pages[p].prop.version = pages[p].version]_vars

(* Without --force an export never writes, moves or marks a page that docz *)
(* did not write, whatever its title and place (decide, orphan).           *)
NeverTakesOver ==
    [][\A p \in DOMAIN pages :
        left' = left /\ pages'[p] # pages[p] /\ run.mode # "force" => pages[p].made = "docz"]_vars

(* Two documents at HEAD are recorded at one page.                         *)
Entangled ==
    \E j, k \in Items(docs) : j # k /\ recorded[j] = recorded[k] /\ recorded[j] # 0

Mirrored(k) ==
    \E p \in InTree :
        /\ pages[p].prop # Nothing /\ pages[p].title = docs[k].title
        /\ \/ pages[p].prop.key = k /\ pages[p].body = Rendered(docs[k], run.mode).body
           \/ pages[p].masked

EveryDocumentMirrored == \A k \in Items(docs) : Mirrored(k)

(* After an undisturbed run in which nothing was skipped or failed, every  *)
(* document has its page in the tree, with its title and content, and no   *)
(* page of a document that is gone is left there (Export), but for pages   *)
(* of which archiving hid that they were out of date, and unless the       *)
(* server recorded one page for two documents.                             *)
CleanRunMirrors ==
    settled /\ ~Entangled =>
        /\ EveryDocumentMirrored
        /\ \A p \in InTree : pages[p].prop # Nothing /\ ~pages[p].masked
                                => pages[p].prop.key \in Items(docs)

(* A further export of a repository and a space nobody touched since a     *)
(* clean run writes nothing (decide), be it forced or not, if the server   *)
(* ran both or the CLI did; again unless the server recorded one page for  *)
(* two documents.                                                          *)
SecondRunQuiet ==
    [][settled /\ settled' /\ ~Entangled => UNCHANGED <<pages, folder>>]_vars

(* "an unchanged document costs no write" (DESIGN-0020, Goals): a run      *)
(* after a clean one writes nothing.                                       *)
UnchangedCostsNoWrite ==
    [][settled /\ settled' => UNCHANGED <<pages, folder>>]_vars

(* "Create or update one Confluence page per document" (DESIGN-0020,       *)
(* Goals): after a clean run every document has its page, with the ids     *)
(* that earlier runs of the server recorded as well.                       *)
EveryDocumentHasItsPage == settled => EveryDocumentMirrored

=============================================================================
