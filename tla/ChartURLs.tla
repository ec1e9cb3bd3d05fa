------------------------------ MODULE ChartURLs ------------------------------
(***************************************************************************)
(* Two readers of where a chart comes from: registryauth takes the URL of  *)
(* a repository or chart apart to look credentials up for it               *)
(* (normalizeRegistryURL), the Helm client to pull from it                 *)
(* (resolveOCIChartVersionAndDigest, resolveOCIChartRef).                  *)
(*                                                                         *)
(* A location is [oci, ref]: whether the scheme is oci://, and what        *)
(* follows the scheme as a sequence of tokens, "/", ":" and "@" among      *)
(* them.  A chart is [url, repo, name]; what is not given is NoLocation,   *)
(* or "".                                                                  *)
(***************************************************************************)
EXTENDS Integers, SequencesExt

CONSTANTS NoLocation,
          Tokens,    \* what locations and names are made of
          Foreign,   \* tokens with characters a registry reference may not have
          Endings    \* pairs of tokens: the first ends in the second

Separators == {"/", ":", "@"}

ASSUME TokensAssumption == Separators \subseteq Tokens

IndexOf(token, s) == SelectInSeq(s, LAMBDA t : t = token)

LastIndexOf(token, s) == SelectLastInSeq(s, LAMBDA t : t = token)

Before(s, i) == SubSeq(s, 1, i - 1)

After(s, i) == SubSeq(s, i + 1, Len(s))

TrimSlash(s) == IF s # <<>> /\ Last(s) = "/" THEN Front(s) ELSE s
-----------------------------------------------------------------------------
(* registryauth *)

(* A string that ends in the name, although its last segment may be longer. *)
EndsIn(s, name) == s # <<>> /\ <<Last(s), name>> \in Endings

(* The repository goes before the URL here. *)
fullRepoURL(chart) ==
    LET given == IF chart.repo # NoLocation THEN chart.repo.ref ELSE chart.url.ref
    IN  IF chart.name = "" \/ EndsIn(given, chart.name) THEN given
        ELSE TrimSlash(given) \o <<"/", chart.name>>

(* Mutant: a port is cut off like a tag. *)
normalizeRegistryURL_Ports(s) ==
    LET ref   == IF IndexOf("@", s) = 0 THEN s ELSE Before(s, IndexOf("@", s))
        colon == LastIndexOf(":", ref)
    IN  TrimSlash(IF colon > 0 THEN Before(ref, colon) ELSE ref)

normalizeRegistryURL(s) ==
    LET ref   == IF IndexOf("@", s) = 0 THEN s ELSE Before(s, IndexOf("@", s))
        colon == LastIndexOf(":", ref)
        slash == LastIndexOf("/", ref)
    IN  TrimSlash(IF slash > 1 /\ colon > slash THEN Before(ref, colon) ELSE ref)

(* A registry may have a port; nothing behind it may have a colon. *)
parseFails(ref) ==
    \/ \E i \in DOMAIN ref : ref[i] \in Foreign
    \/ \E i \in DOMAIN ref : ref[i] = ":" /\ IndexOf("/", ref) < i
-----------------------------------------------------------------------------
(* The Helm client *)
resolveOCIChartVersionAndDigest(s) ==
    LET slash == IndexOf("/", s)
        host  == IF slash = 0 THEN s ELSE Before(s, slash)
        path  == IF slash = 0 THEN <<>> ELSE SubSeq(s, slash, Len(s))
        at    == LastIndexOf("@", path)
        named == IF at = 0 THEN path ELSE Before(path, at)
        colon == LastIndexOf(":", named)
    IN  [base    |-> host \o (IF colon = 0 THEN named ELSE Before(named, colon)),
         version |-> IF colon = 0 THEN <<>> ELSE After(named, colon),
         digest  |-> IF at = 0 THEN <<>> ELSE After(path, at)]

resolveOCIChartRef(chart) == TrimSlash(chart.repo.ref) \o <<"/", chart.name>>

(* The registry the client logs in to: the URL goes before the repository.  *)
location(chart) == IF chart.url # NoLocation THEN chart.url ELSE chart.repo

(* The repository in it that the chart is pulled from. *)
pulledFrom(chart) ==
    IF chart.url # NoLocation THEN resolveOCIChartVersionAndDigest(chart.url.ref).base
    ELSE resolveOCIChartRef(chart)
-----------------------------------------------------------------------------
(* The charts there are: an OCI URL has a registry, a repository of it in   *)
(* segments that are not empty, perhaps a tag, and perhaps a digest, which  *)
(* has no slash; the URL of an OCI repository has no digest; a chart in a   *)
(* repository has a name.                                                   *)
WellFormedURL(s) ==
    /\ \E n \in DOMAIN s : s[n] = "/"
    /\ s[1] # "/"
    /\ \A n \in DOMAIN s : s[n] = "/" => n < Len(s) /\ s[n + 1] \notin Separators
    /\ \A n \in DOMAIN s : s[n] = "@" =>
           /\ \E m \in 1..(n - 1) : s[m] = "/"
           /\ \A m \in (n + 1)..Len(s) : s[m] \notin {"/", "@"}

WellFormed(chart) ==
    /\ chart.name \in Tokens \ Separators
    /\ chart.url # NoLocation =>
           chart.url.ref \in Seq(Tokens) /\ (chart.url.oci => WellFormedURL(chart.url.ref))
    /\ chart.repo # NoLocation =>
           /\ chart.repo.ref \in Seq(Tokens)
           /\ chart.repo.oci => \A n \in DOMAIN chart.repo.ref : chart.repo.ref[n] # "@"
    /\ chart.url = NoLocation => chart.repo # NoLocation /\ chart.name # ""
=============================================================================
