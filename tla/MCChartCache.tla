---------------------------- MODULE MCChartCache ----------------------------
(* Instances of the chart cache for TLC. *)
EXTENDS ChartCache

Chart(repo, version, digest) ==
    [repo |-> repo, name |-> "app", version |-> version, digest |-> digest]

Web(version) == [repo |-> "http", name |-> "web", version |-> version, digest |-> ""]

(* The file web.tgz holds version 1 of web and is replaced by version 2. *)
OneRepo == {Chart("oci", 1, "d1"), Chart("oci", 2, "d2"), Web(1), Web(2)}
TwoRepos == {Chart("http", 1, "d1"), Chart("oci", 1, "d2")}

ByName(repo, name, version, digest) ==
    [url |-> NoURL, repo |-> repo, name |-> name, version |-> version, digest |-> digest]
ByURL(repo, version, inURL, digest) ==
    [url |-> [repo |-> repo, name |-> "app", version |-> version, digest |-> inURL,
              file |-> File("app", version, "")],
     repo |-> "", name |-> "", version |-> 0, digest |-> digest]
WebURL(version, file) ==
    [url |-> [repo |-> "http", name |-> "web", version |-> version, digest |-> "", file |-> file],
     repo |-> "", name |-> "", version |-> 0, digest |-> ""]

(* The latest version, a file that is not named after a version, a digest   *)
(* beside the version of another, and digests in conflict.                  *)
OneRepoRefs == {ByName("oci", "app", 0, ""), WebURL(0, File("web", 0, "")),
                ByName("oci", "app", 2, "d1"), ByURL("oci", 0, "d2", "d1")}
TwoRepoRefs == {ByName("http", "app", 1, ""), ByName("oci", "app", 1, "")}

OCI == {"oci"}
=============================================================================
