--------------------------- MODULE MCReleaseInputs ---------------------------
(* Instances of the reading of a Release's inputs for TLC. *)
EXTENDS ReleaseInputs, ValueTrees

CONSTANTS one, two, secret, v1, v2, s1, p1, p2, pull, d1, d2

MCScalars == {one, two}
MCObjects == {v1, v2, s1, p1, p2, pull, d1, d2}

a == <<"a">>
b == <<"b">>

Ours(v) == [part |-> TRUE, value |-> v]
Others(v) == [part |-> FALSE, value |-> v]

(* A map under "a", a scalar in its place, a map again with another key. *)
MCHolds ==
    [o \in MCObjects |->
        CASE o = v1   -> {Nested(a \o b, one), Nested(a, one), Missing, Garbled}
          [] o = v2   -> {Nested(a \o a, two), Nested(a, two) @@ Nested(b, two), Missing, NoData}
          [] o = s1   -> {one, two, Blank, NoKey}
          [] o = p1   -> {<<"p">>, <<"q">>, Garbled, Missing}
          [] o = p2   -> {<<"q">>, <<>>, Blank, NoKey}
          [] o = pull -> {secret, Blank, Missing}
          [] o = d1   -> {Ours(one), Ours(two), Garbled}
          [] o = d2   -> {Ours(two), Others(one), NoKey}]

MCStart ==
    [o \in MCObjects |->
        CASE o = v1 -> Nested(a \o b, one) [] o = v2 -> Missing [] o = s1 -> one
          [] o = p1 -> <<"p">> [] o = p2 -> Blank [] o = pull -> secret
          [] o = d1 -> Ours(one) [] o = d2 -> Ours(two)]

InSecret(o, optional) == [secret |-> o, configMap |-> None, optional |-> optional]
InConfigMap(o, optional) == [secret |-> None, configMap |-> o, optional |-> optional]
Set(path, value, from) == [path |-> path, value |-> value, from |-> from]

Host == <<"host">>
HostPort == <<"host", ":", "5000">>
Digest == <<"@", "sha256", ":", "d1">>
OCI(ref) == [oci |-> TRUE, ref |-> ref]
HTTP(ref) == [oci |-> FALSE, ref |-> ref]
AtURL(url, name) == [url |-> url, repo |-> NoLocation, name |-> name]
InRepo(repo, name) == [url |-> NoLocation, repo |-> repo, name |-> name]

Plain ==
    [scope |-> "namespaced", namespace |-> "target", skipCreateNamespace |-> FALSE,
     valuesFrom |-> <<>>, values |-> EmptyMap, set |-> <<>>, patchesFrom |-> <<>>,
     chart |-> InRepo(HTTP(Host), "app"), pullSecret |-> None, pullNamespace |-> TRUE,
     details |-> <<>>]

(* Every layer of values, with patches in two objects. *)
Layered ==
    [Plain EXCEPT
        !.valuesFrom = <<InSecret(v1, FALSE), InConfigMap(v2, TRUE)>>,
        !.values = Nested(a \o b, two), !.set = <<Set(a \o b, None, InSecret(s1, TRUE))>>,
        !.patchesFrom = <<InConfigMap(p1, FALSE), InConfigMap(p2, TRUE)>>]

(* The namespace is that of the Release, which Create does not see. *)
OwnNamespace == [Plain EXCEPT !.namespace = ""]

Skipping ==
    [Plain EXCEPT !.skipCreateNamespace = TRUE, !.patchesFrom = <<InSecret(p1, TRUE)>>,
                  !.valuesFrom = <<InSecret(v1, TRUE)>>, !.set = <<Set(b, two, None)>>]

(* The second detail of a key counts. *)
Detailed(skip) ==
    [Plain EXCEPT !.details = <<[object |-> d1, skip |-> FALSE, key |-> "url"],
                                [object |-> d2, skip |-> skip, key |-> "url"],
                                [object |-> d1, skip |-> TRUE, key |-> "user"]>>]

Nowhere == [Plain EXCEPT !.valuesFrom = <<InSecret(None, TRUE)>>]

Unset == [Plain EXCEPT !.set = <<Set(b, None, None)>>]

WithSecret(given) ==
    [Plain EXCEPT !.scope = "cluster", !.pullSecret = pull, !.pullNamespace = given,
                  !.valuesFrom = <<InConfigMap(v1, TRUE)>>]

SomeCharts ==
    {AtURL(OCI(host \o <<"/", repository>> \o tail), name) :
        host \in {Host, HostPort}, repository \in {"app", "myapp"}, name \in {"", "app"},
        tail \in {<<>>, <<":", "1">>, Digest, <<":", "1">> \o Digest}}
    \cup {InRepo(OCI(host \o tail), "app") :
        host \in {Host, HostPort}, tail \in {<<>>, <<"/">>, <<"/", "charts">>, <<"/", "myapp">>}}
    \cup {AtURL(HTTP(<<"host", "/", "App-1+x.tgz">>), "")}

MCSpecs ==
    {Layered, OwnNamespace, Skipping, Nowhere, Unset, WithSecret(TRUE), WithSecret(FALSE),
     Detailed(TRUE), Detailed(FALSE)}
    \cup {[Plain EXCEPT !.chart = chart] : chart \in SomeCharts}

MCTokens ==
    {"", "host", "5000", "app", "myapp", "charts", "1", "sha256", "d1", "App-1+x.tgz"} \cup Separators

MCForeign == {"App-1+x.tgz"}
MCEndings == {<<"app", "app">>, <<"myapp", "app">>}
=============================================================================
