---------------------------- MODULE ConfigPaths ----------------------------
(***************************************************************************)
(* The paths, scopes and export settings of a configuration, as            *)
(* pkg/doczcore/config normalises and validates them.                      *)
(*                                                                         *)
(* A path is the sequence of its segments: "docs/a.md" is                  *)
(* <<"docs", "a.md">>, a trailing slash an empty last segment, a leading   *)
(* one an empty first segment and the empty string <<"">>.  What a segment *)
(* is spelled like matters only through the classes below.                 *)
(***************************************************************************)
EXTENDS ConfigTypes

Empty == <<"">>
Hostile == {"b\\c", "nul"}       \* a backslash or a control character inside
Volumes == {"C:"}
Tildes == {"~x"}
Blunt == {"docs.", "..", "."}    \* ends in a space or a period
Markdown == {"README.md", "index.md", "x.md", "0001-a.md", "0002-b.md", "readme.md",
             "rfc%2Fx.md"}
Decoded1 == ("rfc%2Fx.md" :> <<"rfc", "x.md">>)
FoldedNames == ("README.md" :> "readme.md") @@ ("DOCS" :> "docs") @@ ("Rfc" :> "rfc")

Fold(seg) == IF seg \in DOMAIN FoldedNames THEN FoldedNames[seg] ELSE Lower(seg)
FoldPath(p) == [i \in DOMAIN p |-> Fold(p[i])]

(***************************************************************************)
(* Go's path.Clean, path.Join, path.Dir and path.Base on relative paths.   *)
(***************************************************************************)
CleanStep(done, seg) ==
    CASE seg \in {"", "."} -> done
      [] seg = ".." /\ done # << >> /\ Last(done) # ".." -> Front(done)
      [] OTHER -> Append(done, seg)
Clean(p) == LET c == FoldLeft(CleanStep, << >>, p) IN IF c = << >> THEN <<".">> ELSE c
Join(a, b) == Clean(a \o b)
Dir(p) == IF Len(p) = 1 THEN <<".">> ELSE Clean(Front(p))
Base(p) == Last(p)

UnderDir(p, dir) == IsStrictPrefix(dir, p)                      \* exact bytes
IsUnderDir(p, dir) ==                                           \* folded
    dir = <<".">> \/ IsPrefix(FoldPath(dir), FoldPath(p))

(***************************************************************************)
(* Normalisation (never rejects) and the rules every configured path obeys. *)
(***************************************************************************)
NormalizeRepoPath(p) ==
    IF \E n \in 0 .. Len(p) - 1 : p[n + 1] # "."
    THEN LET n == CHOOSE k \in 0 .. Len(p) - 1 :
                    p[k + 1] # "." /\ \A j \in 1 .. k : p[j] = "."
         IN  SubSeq(p, n + 1, Len(p))
    ELSE <<".">>

NormalizeExcludePrefix(p) ==
    LET n == NormalizeRepoPath(p)
    IN  IF Len(n) > 1 /\ Last(n) = "" /\ n # <<"", "">> THEN Front(n) ELSE n

CheckPathShape(p, allowDir) ==
    /\ p # Empty
    /\ \A i \in DOMAIN p : p[i] \notin Hostile
    /\ p[1] \notin {""} \union Volumes \union Tildes
    /\ allowDir \/ Last(p) # ""

CheckPathSegments(p, allowDir) ==
    LET segments == IF allowDir /\ Len(p) > 1 /\ Last(p) = "" THEN Front(p) ELSE p
    IN  \A i \in DOMAIN segments : segments[i] \notin {"", ".", ".."} \union Blunt

ValidRepoPath(p, allowDir) == CheckPathShape(p, allowDir) /\ CheckPathSegments(p, allowDir)

(***************************************************************************)
(* The api block: what a server publishes beside the documents.            *)
(***************************************************************************)
NormalizeAPI(docsDir, api) ==
    [api EXCEPT
        !.landing = LET l == NormalizeRepoPath(@)
                    IN  IF api.on /\ l = Empty THEN Join(docsDir, <<"index.md">>) ELSE l,
        !.exclude = {NormalizeExcludePrefix(e) : e \in @},
        !.docs = [i \in DOMAIN @ |-> NormalizeRepoPath(@[i])]]

NormalizedDocsDir(docsDir) == Clean(NormalizeRepoPath(docsDir))
Templates == <<"templates">>

ValidateLandingPage(docsDir, api) ==
    \A e \in {Templates} \union api.exclude :
        ~ IsUnderDir(api.landing, Join(NormalizedDocsDir(docsDir), e))

\* The first segments of the routes that enabled types answer to.
ReservedRouteSegments(types) ==
    LET on == EnabledTypes(types)
    IN  {Fold(t) : t \in UNION {ResolutionTokens(types, k) \union {types[k].dir[1]} : k \in on}}
            \ {""}

\* Mutant.
CheckRawSegment(entry, reserved) == Fold(entry[1]) \notin reserved

CheckReservedSegment(entry, reserved) ==
    LET spellings == {entry[1]} \union
            (IF entry[1] \in DOMAIN Decoded1 THEN {Decoded1[entry[1]][1]} ELSE {})
    IN  \A s \in spellings : Fold(s) \notin reserved

\* Mutant.
AdditionalAnywhere(docsDir, types, api) ==
    \A i \in DOMAIN api.docs : ValidRepoPath(api.docs[i], FALSE)

ValidateAdditionalDocs(docsDir, types, api) ==
    \A i \in DOMAIN api.docs :
        /\ ValidRepoPath(api.docs[i], FALSE)
        /\ \A j \in 1 .. i - 1 : FoldPath(api.docs[j]) # FoldPath(api.docs[i])
        /\ FoldPath(api.docs[i]) # FoldPath(api.landing)
        /\ ~ IsUnderDir(api.docs[i], NormalizedDocsDir(docsDir))
        /\ CheckReservedSegment(api.docs[i], ReservedRouteSegments(types))

ValidateAPI(docsDir, types, api) ==
    api.on =>
        /\ ValidRepoPath(api.landing, FALSE)
        /\ \A e \in api.exclude : ValidRepoPath(e, TRUE)
        /\ ValidateLandingPage(docsDir, api)
        /\ ValidateAdditionalDocs(docsDir, types, api)

(***************************************************************************)
(* The changelog, the Confluence export and the access scopes.             *)
(***************************************************************************)
NormalizeChangelog(file) ==
    LET f == NormalizeRepoPath(file) IN IF f = Empty THEN <<"CHANGELOG.md">> ELSE f
ValidateChangelog(on, file) == on => ValidRepoPath(file, FALSE)

\* The export's site is a class of URL; its layout, folder and parent are as written.
NormalizeSync(s) ==
    [s EXCEPT !.layout = IF @ = "" THEN "folder" ELSE @,
              !.exclude = {NormalizeExcludePrefix(e) : e \in @},
              !.viewer = IF @ = "" THEN "auto" ELSE @]

ValidateSyncLayout(s) ==
    \/ s.layout = "page" /\ s.parent # "" /\ s.folder = ""
    \/ s.layout = "folder" /\ s.folder \notin {"too long", "control"}

\* Map order decides which type a token names when several match.
ValidateSyncTypes(types, tokens) ==
    \A t \in tokens : \E k \in ResolveType(types, t) : types[k].on

ValidateSync(types, apiOn, s) ==
    s.on =>
        /\ s.site = "https host"
        /\ s.space # ""
        /\ ValidateSyncLayout(s)
        /\ ValidateSyncTypes(types, Range(s.types))
        /\ \A e \in s.exclude : ValidRepoPath(e, TRUE)
        /\ s.apiPages => apiOn
        /\ s.viewer \in {"auto", "off", "extension key"}

\* A scope is <<audience, action>>, or <<word>> without a colon.
NormalizeAccess(scopes) ==
    LET folded == [i \in DOMAIN scopes |-> [j \in DOMAIN scopes[i] |-> Lower(scopes[i][j])]]
        kept == {i \in DOMAIN folded :
                    folded[i] # Empty /\ \A j \in 1 .. i - 1 : folded[j] # folded[i]}
    IN  IF kept = {} THEN << <<"public", "read">> >>
        ELSE [n \in 1 .. Cardinality(kept) |->
                folded[CHOOSE i \in kept : Cardinality({j \in kept : j <= i}) = n]]

Audiences == {"public", "team", "confluence"}
ValidateScope(scope) ==
    /\ Len(scope) = 2 /\ scope[1] \in Audiences
    /\ scope[2] = "read" \/ scope = <<"confluence", "write">>
ValidateAccess(scopes) ==
    \A i \in DOMAIN scopes :
        /\ ValidateScope(scopes[i])
        /\ \A j \in 1 .. i - 1 : scopes[j] # scopes[i]
=============================================================================
