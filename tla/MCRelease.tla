------------------------------ MODULE MCRelease ------------------------------
(* Instances of the Release controller for TLC. *)
EXTENDS ReleaseProperties

A1 == [name |-> "app", version |-> "1", digest |-> "d1"]
A2 == [name |-> "app", version |-> "2", digest |-> "d2"]
A3 == [name |-> "app", version |-> "3", digest |-> "d3"]
MCCharts == {A1, A2}
ThreeCharts == {A1, A2, A3}

B1 == [name |-> "bad", version |-> "1", digest |-> "d3"]
WithBad == {A1, A2, B1}
B1Broken == {B1}

Ref(version) == [url |-> NoURL, name |-> "app", version |-> version, digest |-> ""]
ByDigest(digest) == [url |-> NoURL, name |-> "app", version |-> "", digest |-> digest]
BadRef == [url |-> NoURL, name |-> "bad", version |-> "1", digest |-> ""]
ByURL(chart) == [url |-> chart, name |-> "", version |-> "", digest |-> ""]

Asked(chart, vals, patch, limit) ==
    [chart |-> chart, vals |-> vals, patch |-> patch, take |-> FALSE,
     limit |-> limit, policies |-> Actions]

(* Rolled back at most once or twice, the second time from a chart that     *)
(* never deploys. The values of the first may become unreadable.            *)
RetrySpecs == {Asked(Ref("1"), FromSource, NoPatch, 1), Asked(BadRef, "u", NoPatch, 2)}

(* One version is kept when its object is deleted, another, which nobody    *)
(* publishes, is neither created nor updated.                               *)
PolicySpecs == {[Asked(Ref(""), "u", NoPatch, 1) EXCEPT !.policies = {"Create", "Update"}],
                [Asked(Ref("3"), "u", NoPatch, NoLimit) EXCEPT !.policies = {"LateInitialize", "Delete"}]}

RetryAndPolicySpecs == RetrySpecs \cup PolicySpecs

(* Patches and digests: what the status has to remember. *)
PatchSpecs == {Asked(ByDigest("d1"), "u", NoPatch, NoLimit), Asked(ByDigest("d1"), "u", "p", NoLimit),
               Asked(ByDigest("d2"), "u", "p", NoLimit)}

(* Values from a source that may disappear, a chart by URL whose name and   *)
(* version are filled in, and a version that cannot be deployed.            *)
SettlingSpecs == {Asked(Ref("1"), FromSource, NoPatch, NoLimit), Asked(ByURL(A2), "u", NoPatch, 1),
                  Asked(Ref("3"), "u", NoPatch, 2)}

(* Instances on which the code departs from what is written about it. *)
OwningSpecs == {[Asked(Ref(v), "u", NoPatch, NoLimit) EXCEPT !.take = TRUE] : v \in {"1", "2"}}
PlainPatchSpecs == {Asked(Ref("1"), "u", patch, NoLimit) : patch \in {NoPatch, "p"}}
PatchedRetrySpecs == {Asked(Ref("2"), "u", "p", 1)}
TaggedSpecs == {Asked(ByURL(A1), FromSource, NoPatch, NoLimit)}
OneRetrySpecs == {Asked(Ref("1"), "u", NoPatch, 2)}

NoneBroken == {}
A2Broken == {A2}
A3Broken == {A3}
NoTags == {}
A1Tagged == {A1}
=============================================================================
