----------------------------- MODULE RepoPages -----------------------------
(***************************************************************************)
(* From a repository's tree at HEAD to the pages docz-api serves: what     *)
(* internal/githubapp downloads of the tree, on hints read from the raw    *)
(* configuration, and what internal/ingest publishes of the download, on   *)
(* the configuration it parsed and validated.                              *)
(*                                                                         *)
(* `raw` is the configuration as written: its docs_dir, its types, its api *)
(* block and its changelog.  A tree is a set of file paths.                *)
(***************************************************************************)
EXTENDS ConfigPaths

FileNumber == ("0001-a.md" :> "0001") @@ ("0002-b.md" :> "0002")
IsDoczFile(seg) == seg \in DOMAIN FileNumber
IsMarkdown(seg) == seg \in Markdown
README == "README.md"

(***************************************************************************)
(* The parsed configuration (ParseBytes, then Validate).                   *)
(***************************************************************************)
Config(raw) == [raw EXCEPT !.api = NormalizeAPI(raw.docsDir, @),
                           !.changelog = NormalizeChangelog(@)]
Validates(cfg) ==
    /\ cfg.docsDir # Empty
    /\ ValidateResolution(cfg.types)
    /\ ValidateChangelog(cfg.changelogOn, cfg.changelog)
    /\ ValidateAPI(cfg.docsDir, cfg.types, cfg.api)

TypeDir(cfg, name) == Join(cfg.docsDir, cfg.types[name].dir)
TypeDirs(cfg) == {TypeDir(cfg, name) : name \in EnabledTypes(cfg.types)}

(***************************************************************************)
(* What is downloaded: the hints are a second reading of the raw file.     *)
(***************************************************************************)
DocsDirHint(raw) ==
    LET p == NormalizeRepoPath(raw.docsDir)
    IN  IF Len(p) > 1 /\ Last(p) = "" THEN Front(p) ELSE p

ChangelogHint(raw) ==
    LET f == raw.changelog
        once == IF Len(f) > 1 /\ f[1] = "." THEN Tail(f) ELSE f
    IN  IF once = Empty THEN <<"CHANGELOG.md">> ELSE once

LandingHint(raw) ==
    IF raw.api.on /\ NormalizeRepoPath(raw.api.landing) # Empty
    THEN NormalizeRepoPath(raw.api.landing)
    ELSE Join(DocsDirHint(raw), <<"index.md">>)

\* Mutant.
DocsOnly(tree, raw) == {p \in tree : IsDoczFile(Base(p))}

ClassifyTree(tree, raw) ==
    {p \in tree :
        \/ IsDoczFile(Base(p))
        \/ raw.api.on /\ IsMarkdown(Base(p)) /\ UnderDir(p, DocsDirHint(raw))}

\* Mutant.
AdditionalAsWritten(tree, raw) ==
    IF raw.api.on THEN {p \in tree \intersect Range(raw.api.docs) : IsMarkdown(Base(p))} ELSE {}

AdditionalFetch(tree, raw) ==
    LET entries == {NormalizeRepoPath(raw.api.docs[i]) : i \in DOMAIN raw.api.docs}
    IN  IF raw.api.on THEN {p \in tree \intersect entries : IsMarkdown(Base(p))} ELSE {}

Fetched(tree, raw) == ClassifyTree(tree, raw) \union AdditionalFetch(tree, raw)
FetchedLanding(tree, raw) == tree \intersect {LandingHint(raw)}
FetchedChangelog(tree, raw) ==
    IF raw.changelogOn THEN tree \intersect {ChangelogHint(raw)} ELSE {}

(***************************************************************************)
(* What is published.                                                      *)
(***************************************************************************)
DocsRoot(cfg) == Clean(NormalizeRepoPath(cfg.docsDir))
Excluded(cfg, p) ==
    \E e \in {Templates} \union cfg.api.exclude : IsPrefix(Join(DocsRoot(cfg), e), p)
InTypeDir(cfg, p) == \E d \in TypeDirs(cfg) : UnderDir(p, d)

Relative(cfg, p) == SubSeq(p, Len(DocsRoot(cfg)) + 1, Len(p))

\* The directories, relative to docs_dir, whose page is their README.md.
ReadmeDirs(cfg, blobs) ==
    {Dir(Relative(cfg, p)) : p \in {q \in blobs :
        /\ UnderDir(q, DocsRoot(cfg)) /\ ~ Excluded(cfg, q) /\ ~ InTypeDir(cfg, q)
        /\ Base(q) = README /\ Len(Relative(cfg, q)) > 1}}

ClassifiesDocsDir(cfg, p) ==
    /\ p # cfg.api.landing
    /\ UnderDir(p, DocsRoot(cfg)) /\ IsMarkdown(Base(p))
    /\ ~ Excluded(cfg, p) /\ ~ InTypeDir(cfg, p)

Published(rel, readmeDirs) ==
    IF /\ Len(rel) > 1
       /\ \/ Base(rel) = README
          \/ Base(rel) = "index.md" /\ Dir(rel) \notin readmeDirs
    THEN Dir(rel) ELSE rel

ValidPublishedPath(p) == \A i \in DOMAIN p : p[i] \notin {"", ".", ".."} \union Hostile

DocsDirPages(cfg, blobs) ==
    {page \in {[path |-> Published(Relative(cfg, p), ReadmeDirs(cfg, blobs)), file |-> p] :
                    p \in {q \in blobs : ClassifiesDocsDir(cfg, q)}} :
        ValidPublishedPath(page.path)}

\* Mutant.
AdditionalAlways(cfg, blobs) ==
    {[path |-> p, file |-> p] : p \in {e \in Range(cfg.api.docs) \intersect blobs : IsMarkdown(Base(e))}}

AdditionalPages(cfg, blobs) ==
    LET taken == {page.path : page \in DocsDirPages(cfg, blobs)}
        entries == {cfg.api.docs[i] : i \in DOMAIN cfg.api.docs}
    IN  {[path |-> p, file |-> p] :
            p \in {e \in entries \intersect blobs : IsMarkdown(Base(e)) /\ e \notin taken}}

BuildPages(cfg, blobs) ==
    IF cfg.api.on THEN DocsDirPages(cfg, blobs) \union AdditionalPages(cfg, blobs) ELSE {}

\* The documents: the downloaded files with frontmatter directly in an enabled type's directory.
Documents(cfg, blobs, withFrontmatter) ==
    {p \in blobs \intersect withFrontmatter : Dir(p) \in TypeDirs(cfg)}

(***************************************************************************)
(* Where a relative link leads on the site (httpapi/fragment.go): a        *)
(* published page by its file, a document by its type's directory, or      *)
(* nowhere ({}).                                                           *)
(***************************************************************************)
SiteAddress(cfg, pages, p) ==
    IF p[1] = ".." THEN {}
    ELSE IF \E g \in pages : g.file = p
    THEN {<<"pages">> \o g.path : g \in {h \in pages : h.file = p}}
    ELSE IF ~ IsDoczFile(Base(p)) THEN {}
    ELSE {<<name, FileNumber[Base(p)]>> :
            name \in {k \in EnabledTypes(cfg.types) : Dir(p) = TypeDir(cfg, k)}}
SiteResolver(cfg, pages, from, target) == SiteAddress(cfg, pages, Clean(Dir(from) \o target))
=============================================================================
