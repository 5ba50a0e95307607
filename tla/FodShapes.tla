----------------------------- MODULE FodShapes -----------------------------
(***************************************************************************)
(* The shapes of fixed-output derivations (FODs) that the FOD check knows. *)
(*                                                                         *)
(* A fetcher of nixpkgs turns a call into a derivation.  The check looks   *)
(* at a FOD in three stages: which family of fetchers does it look like    *)
(* (FamilyOf), does it equal a canonical instance of that family that was  *)
(* evaluated from a trusted nixpkgs, except in the family's parameters     *)
(* (Mismatch), and, outside the families, is it an exact copy of a package *)
(* of nixpkgs or of a hand-written fixture.  All else is a violation.      *)
(*                                                                         *)
(* An attribute key is a pair: where it is serialised, in structuredAttrs  *)
(* ("sa") or in env ("env"), and its name.  Of the names, those stand here *)
(* that tell families apart or that something executes, and one or two of  *)
(* each kind of parameter.  A text is what the rules see in it: what it    *)
(* says, who wrote it, and the parameter spliced into it.                  *)
(***************************************************************************)
EXTENDS Naturals, FiniteSets

CONSTANTS
    Builtin,           \* the builder builtin:fetchurl, which runs nothing
    AllowedPostfetch,  \* the texts of allowed-postfetch.json
    Suffix             \* source -> what its name ends in, where that matters

Fetchurls == {"fetchurl", "fetchzip", "fetchpatch", "fetchgithub"}
Families == Fetchurls \union
    {"fetchgit", "fetchhg", "fetchsvn", "npmDeps", "pnpmDeps", "caddyDeps",
     "goModules", "cargoDeps", "yarnDeps"}
Native == "nat"
Labels == Families \union {Native}

Sa(d, k) == <<"sa", k>> \in DOMAIN d.attrs
Env(d, k) == <<"env", k>> \in DOMAIN d.attrs

\* What the attribute says, in env unless it is empty there.
Says(d, k, what) ==
    LET side == IF Env(d, k) /\ d.attrs[<<"env", k>>].says # "nothing" THEN "env" ELSE "sa" IN
    /\ <<side, k>> \in DOMAIN d.attrs
    /\ d.attrs[<<side, k>>].says = what

-----------------------------------------------------------------------------
(* What a derivation is. *)

\* Fixed-output (an output carries a hash) or impure.
IsFod(d) == \E o \in DOMAIN d.outputs : d.outputs[o].hash \/ d.outputs[o].impure

\* The build command, of structuredAttrs unless it is empty there.
BuildCommand(d) ==
    {d.attrs[<<side, "buildCommand">>] :
        side \in {s \in {"sa", "env"} :
            /\ <<s, "buildCommand">> \in DOMAIN d.attrs
            /\ s = "env" => ~Sa(d, "buildCommand")
                            \/ d.attrs[<<"sa", "buildCommand">>].says = "nothing"}}

\* Its build command installs $out/nix-support/setup-hook.
IsHookProvider(d) == \E text \in BuildCommand(d) : text.says = "setup-hook"

\* The phase a derivation runs: that of structuredAttrs before that of env.
PhaseSays(d, phase, what) ==
    LET side == IF Sa(d, phase) THEN "sa" ELSE "env" IN
    /\ <<side, phase>> \in DOMAIN d.attrs
    /\ d.attrs[<<side, phase>>].says = what

-----------------------------------------------------------------------------
(* The family a FOD looks like: the first test that holds. *)

Tests(d) == <<
    [family |-> "fetchgithub", holds |-> Sa(d, "urls") /\ (Sa(d, "owner") \/ Sa(d, "repo"))],
    [family |-> "fetchzip",    holds |-> Sa(d, "urls") /\ Sa(d, "recursiveHash")],
    [family |-> "fetchpatch",  holds |-> Sa(d, "urls") /\ Sa(d, "postFetch")
                                         /\ d.attrs[<<"sa", "postFetch">>].says = "patch-prologue"],
    [family |-> "fetchurl",    holds |-> Sa(d, "urls")],
    [family |-> "fetchgit",    holds |-> Sa(d, "rev") /\ \E k \in {"fetchSubmodules", "deepClone"} : Sa(d, k)],
    [family |-> "fetchsvn",    holds |-> Env(d, "SVN_SSH") \/ Sa(d, "SVN_SSH")],
    [family |-> "fetchhg",     holds |-> (Env(d, "url") \/ Sa(d, "url"))
                                         /\ Says(d, "nativeBuildInputs", "mercurial")],
    [family |-> "npmDeps",     holds |-> Env(d, "NPM_FETCHER_VERSION")],
    [family |-> "pnpmDeps",    holds |-> Env(d, "fetcherVersion")],
    [family |-> "caddyDeps",   holds |-> d.name.claims = "caddyDeps"],
    [family |-> "goModules",   holds |-> Env(d, "GOTOOLCHAIN") /\ Env(d, "modRoot")],
    [family |-> "cargoDeps",   holds |-> PhaseSays(d, "buildPhase", "vendor-staging")],
    [family |-> "yarnDeps",    holds |-> PhaseSays(d, "buildPhase", "yarn-prefetch")] >>

LooksLike(d) == {i \in DOMAIN Tests(d) : Tests(d)[i].holds}

\* Variant of FamilyOf: the last test that holds.
FamilyOfLast(d) ==
    IF LooksLike(d) = {} THEN "none"
    ELSE Tests(d)[CHOOSE i \in LooksLike(d) : \A j \in LooksLike(d) : i >= j].family

FamilyOf(d) ==
    IF LooksLike(d) = {} THEN "none"
    ELSE Tests(d)[CHOOSE i \in LooksLike(d) : \A j \in LooksLike(d) : i <= j].family

-----------------------------------------------------------------------------
(* The comparison with a canonical instance. *)

\* The attributes that are a family's parameters: their values, and whether
\* they are there at all, are each call's own.
FetcherCommon == {"urls", "url", "rev", "outputHash"}
InstanceVars(family) ==
    CASE family = "fetchurl" -> FetcherCommon \union {"patches"}
      [] family = "fetchpatch" -> FetcherCommon
      [] family = "fetchzip" -> FetcherCommon \union {"stripRoot", "downloadToTemp"}
      [] family = "fetchgithub" ->
            FetcherCommon \union {"stripRoot", "downloadToTemp", "owner", "repo"}
      [] family = "fetchgit" ->
            FetcherCommon \union {"fetchSubmodules", "deepClone", "owner", "repo"}
      [] family = "fetchhg" -> FetcherCommon \union {"subrepoClause"}
      [] family = "fetchsvn" -> FetcherCommon
      [] family = "npmDeps" ->
            {"src", "outputHash", "NPM_FETCHER_VERSION", "fetcherVersion", "patches", "preBuild"}
      [] family = "pnpmDeps" -> {"src", "outputHash", "fetcherVersion", "nativeBuildInputs"}
      [] family = "goModules" ->
            {"src", "outputHash", "modRoot", "nativeBuildInputs", "patches", "preBuild",
             "checkPhase"}
      [] family = "caddyDeps" -> {"outputHash"}
      [] family = "cargoDeps" -> {"src", "outputHash", "patches", "preBuild"}
      [] family = "yarnDeps" -> {"yarnLock", "outputHash"}
      [] OTHER -> {}

\* Variant of Ivars: the toolchain setting is a parameter of goModules.
IvarsWithToolchain(family) ==
    InstanceVars(family) \union {"SSL_CERT_FILE"}
    \union (IF family = "goModules" THEN {"GOTOOLCHAIN"} ELSE {})

\* TLS verification is on for a fake hash only, so it is everybody's own.
Ivars(family) == InstanceVars(family) \union {"SSL_CERT_FILE"}

Phases == {"buildPhase", "checkPhase"}

\* The parameters that a generator splices into the text of a phase are
\* masked before the texts are compared.
Normalised(family, name, text) ==
    IF name \in Phases /\ family \in {"npmDeps", "pnpmDeps", "caddyDeps", "goModules"}
    THEN [text EXCEPT !.splice = "masked"]
    ELSE text

\* The families whose postFetch is listed text by text instead of compared.
PostfetchFamilies == {"fetchzip", "fetchgithub", "fetchgit", "fetchpatch"}

PostfetchProblem(text) == text.says # "nothing" /\ text \notin AllowedPostfetch

\* The keys in which two derivations of a family differ.
AttrProblems(d, t, family) ==
    {key \in DOMAIN d.attrs \union DOMAIN t.attrs :
        /\ key[2] \notin Ivars(family)
        /\ IF key[2] = "postFetch" /\ family \in PostfetchFamilies
           THEN key \in DOMAIN d.attrs /\ PostfetchProblem(d.attrs[key])
           ELSE \/ key \notin DOMAIN d.attrs
                \/ key \notin DOMAIN t.attrs
                \/ Normalised(family, key[2], d.attrs[key])
                      # Normalised(family, key[2], t.attrs[key])}

\* The sources that the families with a package's source take as an input.
OwnSrcs(d, family) ==
    LET names == IF family \in {"npmDeps", "pnpmDeps", "goModules", "cargoDeps"} THEN {"src"}
                 ELSE IF family = "yarnDeps" THEN {"src", "yarnLock"} ELSE {}
    IN {d.attrs[<<"env", k>>].by : k \in {n \in names : Env(d, n)}}

\* Patches, lock files and, for fetchgit, the cross-file of Meson are told by
\* their names, whatever is in them.
DataSuffixes(family) ==
    {".patch", ".diff", "-Cargo.lock", "-package-lock.json", "-yarn.lock"}
    \union (IF family = "fetchgit" THEN {"-cross-file.conf"} ELSE {})
IsDataSrc(s, family) == s \in DOMAIN Suffix /\ Suffix[s] \in DataSuffixes(family)

SrcsProblem(d, t, family) ==
    \/ t.srcs \ d.srcs # {}
    \/ \E s \in d.srcs \ t.srcs : s \notin OwnSrcs(d, family) /\ ~IsDataSrc(s, family)

\* Same outputs, each by the same method; the hash is each call's own.
OutputsProblem(d, t) ==
    \/ DOMAIN d.outputs # DOMAIN t.outputs
    \/ \E o \in DOMAIN d.outputs : \/ d.outputs[o].method # t.outputs[o].method
                                   \/ d.outputs[o].impure # t.outputs[o].impure

\* Nothing but parameters tells d from the template t.
Matches(d, t, family) ==
    /\ d.builder = t.builder /\ d.args = t.args /\ d.system = t.system
    /\ ~OutputsProblem(d, t)
    /\ ~SrcsProblem(d, t, family)
    /\ AttrProblems(d, t, family) = {}

\* A package of nixpkgs or a fixture: the same name and no parameters.
MatchesExactly(d, t) == d.name = t.name /\ Matches(d, t, Native)

\* The template that the name of a derivation claims.
NatOf(d) == d.name.claims = Native
CatalogueOf(d, catalogue) == {c \in catalogue : c.name.claims = d.name.claims}

-----------------------------------------------------------------------------
(* The verdict on one FOD.  templates maps each label to its canonical     *)
(* instances, of every nixpkgs source and system of the entry point.       *)

\* fetchpatch's templates serve fetchurl too.
Candidates(family, templates) ==
    templates[family] \union (IF family = "fetchurl" THEN templates["fetchpatch"] ELSE {})

Recognised(d, templates, catalogue) ==
    \/ d.builder = Builtin
    \/ /\ FamilyOf(d) \in Families
       /\ \E t \in Candidates(FamilyOf(d), templates) : Matches(d, t, FamilyOf(d))
    \/ /\ FamilyOf(d) = "none" /\ NatOf(d)
       /\ \E t \in templates[Native] : MatchesExactly(d, t)
    \/ /\ FamilyOf(d) = "none" /\ ~NatOf(d)
       /\ \E t \in CatalogueOf(d, catalogue) : MatchesExactly(d, t)

=============================================================================
