------------------------------ MODULE ChartRefs ------------------------------
(***************************************************************************)
(* References to charts, what Helm may pull for one, and the name under    *)
(* which the pulled file is kept: the pure parts of PullAndLoadChart in    *)
(* pkg/clients/helm/client.go.                                             *)
(*                                                                         *)
(* A reference is the chart part of a Release: the URL, or NoURL, and      *)
(* repository, name, version and digest.  A URL of a registry is taken     *)
(* apart into the same four fields.  Of another URL only the name of the   *)
(* file at its end is read (file); repository, name and version say what   *)
(* is served there, which may be replaced by a newer version if it is 0.   *)
(*                                                                         *)
(* Versions are numbered in the order of publication; 0 stands for no      *)
(* version and for "any, also development versions", and "" for no digest. *)
(***************************************************************************)
EXTENDS Integers

CONSTANTS Charts,    \* all charts that are ever published
          Refs,      \* the references of Releases
          OCIRepos,  \* the repositories that are OCI registries
          NoURL

ChartType == [repo: STRING, name: STRING, version: Nat \ {0}, digest: STRING]

LocationType == [repo: STRING, name: STRING, version: Nat, digest: STRING]

(* Names of files, app-1.tgz, app@sha256-1.tgz and app.tgz.  *)
FileType == [name: STRING, version: Nat, digest: STRING]

URLType == [repo: STRING, name: STRING, version: Nat, digest: STRING, file: FileType]

RefType == [url: URLType \cup {NoURL}, repo: STRING, name: STRING,
            version: Nat, digest: STRING]

ASSUME ChartsAreTyped == Charts \subseteq ChartType
ASSUME RefsAreTyped == Refs \subseteq RefType
-----------------------------------------------------------------------------
ByOCI(ref) == ref.url # NoURL /\ ref.url.repo \in OCIRepos

ByHTTP(ref) == ref.url # NoURL /\ ref.url.repo \notin OCIRepos

(* Where the chart is looked for: the URL replaces everything but the digest, *)
(* and the digest only counts for a registry.                               *)
Resolved(ref) ==
    IF ref.url = NoURL
    THEN [repo |-> ref.repo, name |-> ref.name, version |-> ref.version, digest |-> ref.digest]
    ELSE [repo |-> ref.url.repo, name |-> ref.url.name, version |-> ref.url.version,
          digest |-> IF ByHTTP(ref) THEN ""
                     ELSE IF ref.url.digest = "" THEN ref.digest ELSE ref.url.digest]

Versionless(loc) == loc.version = 0 /\ loc.digest = ""

(* What is pulled at every call.  A URL that is no registry's never is: what *)
(* is cached of it stays.                                                   *)
Latest(ref) == Versionless(Resolved(ref)) /\ ~ByHTTP(ref)

(* References PullAndLoadChart returns an error for at once: a digest without *)
(* any registry, two digests that differ, no name or no repository.         *)
Rejected(ref) ==
    \/ ref.digest # "" /\ ~ByOCI(ref) /\ ref.repo \notin OCIRepos
    \/ ByOCI(ref) /\ ref.digest # "" /\ ref.url.digest \notin {"", ref.digest}
    \/ ref.url = NoURL /\ ~Latest(ref) /\ "" \in {ref.name, ref.repo}

(* What a pull may bring.  A version may bring different charts when its tag *)
(* moves, a digest never does.                                              *)
Pulls(loc, published) ==
    {c \in published :
        /\ c.repo = loc.repo /\ c.name = loc.name
        /\ loc.digest # "" => c.digest = loc.digest
        /\ loc.digest = "" /\ loc.version # 0 => c.version = loc.version
        /\ Versionless(loc) => \A d \in published :
                                  d.repo = loc.repo /\ d.name = loc.name => d.version <= c.version}

(* Mutant: a file is named after the version even if a digest was given. *)
File_NoDigest(name, version, digest) == [name |-> name, version |-> version, digest |-> ""]

(* Files are named after the chart and its version, or after the chart and  *)
(* the digest it was asked for by.                                          *)
File(name, version, digest) ==
    [name |-> name, version |-> IF digest = "" THEN version ELSE 0, digest |-> digest]

CachePath(ref) ==
    LET loc == Resolved(ref)
    IN  IF ByHTTP(ref) THEN ref.url.file ELSE File(loc.name, loc.version, loc.digest)

(* Helm names what it downloads; at a URL, after the file at its end.       *)
PulledName(ref, c) ==
    IF ByHTTP(ref) THEN ref.url.file ELSE File(c.name, c.version, Resolved(ref).digest)
-----------------------------------------------------------------------------
(* What the API promises of the chart a reference is deployed from: it is   *)
(* the one at the URL or in the repository, pulled by its digest when one   *)
(* is specified, of its version otherwise.                                  *)
Meets(ref, c) ==
    LET loc == Resolved(ref)
    IN  /\ c.repo = loc.repo /\ c.name = loc.name
        /\ ref.digest # "" => c.digest = ref.digest
        /\ loc.digest # "" => c.digest = loc.digest
        /\ loc.digest = "" /\ loc.version # 0 => c.version = loc.version

(* Without a version, nothing older than what there was when asking; but   *)
(* what was once at a URL may be what is deployed from it.                 *)
Fresh(ref, c, before) ==
    LET loc == Resolved(ref)
    IN  Latest(ref) => \A d \in before :
                          d.repo = loc.repo /\ d.name = loc.name => d.version <= c.version
=============================================================================
