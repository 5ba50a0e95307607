------------------------------ MODULE MCFodWalk ------------------------------
(* A small closure: a FOD of any family and a second one, a package that      *)
(* brings a hook of its own, and the stdenv, hook and shell of nixpkgs.       *)
EXTENDS FodWalk

Text(says, by, splice) == [says |-> says, by |-> by, splice |-> splice]
Canon(says) == Text(says, "nixpkgs", "canon")
Own(says) == Text(says, "package", "own")
SplicedText == Text("plain", "nixpkgs", "own")
Unpack == Canon("unpack")
Prologue == Canon("patch-prologue")
Odd == Own("patch-prologue")

MCAllowed == {Unpack, Prologue}

Sas(ks) == [k \in {<<"sa", n>> : n \in ks} |-> Canon("plain")]
Envs(ks) == [k \in {<<"env", n>> : n \in ks} |-> Canon("plain")]
With(attrs, key, text) ==
    [k \in DOMAIN attrs \union {key} |-> IF k = key THEN text ELSE attrs[k]]

Shape(l) ==
    CASE l = "fetchurl" -> With(Sas({"urls", "outputHash", "stdenv"}),
                                <<"sa", "postFetch">>, Canon("nothing"))
      [] l = "fetchzip" -> With(Sas({"urls", "outputHash", "stdenv", "recursiveHash", "SSL_CERT_FILE"}),
                                <<"sa", "postFetch">>, Unpack)
      [] l = "fetchpatch" -> With(Sas({"urls", "outputHash", "stdenv"}),
                                  <<"sa", "postFetch">>, Prologue)
      [] l = "fetchgithub" -> With(Sas({"urls", "outputHash", "stdenv", "recursiveHash", "owner"}),
                                   <<"sa", "postFetch">>, Unpack)
      [] l = "fetchgit" -> With(Sas({"rev", "outputHash", "stdenv", "fetchSubmodules"}),
                                <<"sa", "postFetch">>, Canon("nothing"))
      [] l = "fetchhg" -> With(Envs({"url", "rev", "outputHash"}),
                               <<"env", "nativeBuildInputs">>, Canon("mercurial"))
      [] l = "fetchsvn" -> Envs({"url", "rev", "outputHash", "SVN_SSH", "nativeBuildInputs"})
      [] l = "npmDeps" -> Envs({"NPM_FETCHER_VERSION", "src", "outputHash", "buildPhase",
                                "nativeBuildInputs"})
      [] l = "pnpmDeps" -> Envs({"fetcherVersion", "src", "outputHash", "buildPhase",
                                 "nativeBuildInputs"})
      [] l = "goModules" -> Envs({"GOTOOLCHAIN", "modRoot", "src", "outputHash", "buildPhase",
                                  "nativeBuildInputs"})
      [] l = "caddyDeps" -> Envs({"outputHash", "buildPhase", "nativeBuildInputs"})
      [] l = "cargoDeps" -> With(Envs({"src", "outputHash", "nativeBuildInputs"}),
                                 <<"env", "buildPhase">>, Canon("vendor-staging"))
      [] l = "yarnDeps" -> With(Envs({"yarnLock", "outputHash", "nativeBuildInputs"}),
                                <<"env", "buildPhase">>, Canon("yarn-prefetch"))
      [] OTHER -> Envs({"outputHash", "buildPhase"})

Out(hash) == [o \in {"out"} |-> [method |-> "nar", hash |-> hash, impure |-> FALSE]]
Derivation(claims, rest, builder, hash, attrs, inputs) ==
    [name |-> [claims |-> claims, rest |-> rest], builder |-> builder, args |-> "builder.sh",
     system |-> "x86_64-linux", outputs |-> Out(hash), srcs |-> {"builder.sh"},
     attrs |-> attrs, inputs |-> inputs, realised |-> ~hash]

Claims(l) == IF l \in {"nat", "caddyDeps"} THEN l ELSE "nothing"
Canonical(l) ==
    Derivation(Claims(l), "fodcheck", "bash", TRUE, Shape(l), {"stdenv", "gone"})
MCTemplates == [l \in Labels |-> {Canonical(l)}]
Fixture == [Canonical("nat") EXCEPT !.name.claims = "alloy"]
MCCatalogue == {Fixture}

\* A call of the fetcher: a name and parameters of its own.
Call(t, l) ==
    [t EXCEPT !.name.rest = IF l \in Families THEN "own" ELSE @,
              !.inputs = {"stdenv"},
              !.attrs = [k \in DOMAIN @ |->
                            IF k[2] \in Ivars(l) THEN [@[k] EXCEPT !.by = "package"]
                            ELSE IF Normalised(l, k[2], @[k]) # @[k] THEN SplicedText ELSE @[k]]]

Package0(inputs, says) ==
    Derivation("nothing", "own", "bash", FALSE,
               [k \in {<<"env", "buildCommand">>} |-> Own(says)], inputs)
Nixpkgs(inputs, says) ==
    Derivation("nothing", "nixpkgs", "bash", FALSE,
               [k \in {<<"env", "buildCommand">>} |-> Canon(says)], inputs)

Listed0 == {"bash", "hook", "stdenv", "planted", "pkg", "blob", "fod"}
Fixed0 == {"bash", "hook", "stdenv", "blob"}
Drv0 == Listed0 \union {"gone"}

Walk(fod) ==
    [d \in Listed0 |->
        CASE d = "bash" -> Nixpkgs({"gone"}, "plain")
          [] d = "hook" -> Nixpkgs({"bash"}, "setup-hook")
          [] d = "stdenv" -> Nixpkgs({"bash", "hook"}, "plain")
          [] d = "planted" -> Package0({"stdenv", "hook"}, "setup-hook")
          [] d = "pkg" -> Package0({"stdenv", "planted", "blob", "fod"}, "plain")
          [] d = "blob" -> [Call(Canonical("fetchurl"), "fetchurl") EXCEPT !.inputs = {}]
          [] d = "fod" -> fod]

BuiltIn == [Call(Canonical("fetchurl"), "fetchurl") EXCEPT !.builder = Builtin]
MCInitials == {Walk(fod) : fod \in {Call(Canonical(l), l) : l \in Labels} \union {Fixture, BuiltIn}}

MCTexts ==
    {<<"fod", <<"sa", "postFetch">>, text>> : text \in {Unpack, Odd}}
    \union {<<"fod", <<"sa", name>>, Own("plain")>> : name \in {"stdenv", "owner", "urls"}}
    \union {<<"fod", <<"env", name>>, Own("plain")>> :
               name \in {"stdenv", "buildPhase", "preBuild", "nativeBuildInputs", "checkPhase",
                         "fetcherVersion", "GOTOOLCHAIN"}}
    \union {<<"fod", <<"env", "buildCommand">>, Own("setup-hook")>>,
            <<"pkg", <<"sa", "buildCommand">>, Own("setup-hook")>>}
    \union {<<"planted", <<"sa", "buildCommand">>, Own(says)>> : says \in {"nothing", "plain"}}
MCBuilds == {"fod"} \X {"pkg", "blob", "gone"}
MCLinks == {<<"fod", "hook">>, <<"fod", "pkg">>, <<"fod", "planted">>, <<"fod", "blob">>,
            <<"planted", "pkg">>}
MCScripts == {<<"fod", s>> : s \in {"a.patch", "cross.conf", "package", "script.sh"}}
MCSuffix == [s \in {"a.patch", "cross.conf"} |->
                IF s = "a.patch" THEN ".patch" ELSE "-cross-file.conf"]

==============================================================================
