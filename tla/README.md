# provider-helm in TLA+

TLA+ models of [provider-helm](../src/README.md), the Crossplane provider that
deploys Helm charts as `Release` objects, with TLC instances that check them and
TLAPS proofs about them. Paths below are relative to the repository.

## 1. The system

A user writes a `Release`: a chart, values, patches, a rollback limit. A controller
reconciles it: it asks Helm for the last revision of the release, compares that
with the spec, and installs, upgrades, rolls back or uninstalls. Helm keeps the
history of the release as Secrets in the target cluster. What the controller has
to remember beyond Helm's history - failures counted so far, the hash of the
deployed patches, the digest a chart was pulled by - it keeps in the status of the
object, which is written once, at the end of a reconcile.

| component | code | state it keeps | operations |
|---|---|---|---|
| Release controllers, namespaced and cluster-scoped | `pkg/controller/*/release/{release,observe,patch}.go` | spec, status, finalizer of the object; the object in the worker's memory | Connect, Observe, Create, Update, Delete, deploy, rollback or uninstall to retry |
| Helm client | `pkg/clients/helm/client.go` | none; Helm's history is in the target cluster | GetLastRelease, Install, Upgrade, Rollback, Uninstall |
| chart cache | `pkg/clients/helm/client.go` | files in `/tmp/charts`, shared by all reconciles | NewClient makes it; PullAndLoadChart looks, pulls, renames, loads |
| values, patches, sources | `pkg/controller/*/release/{values,patch,data}.go` | none; ConfigMaps and Secrets are read | compose, merge, set; look up a key |
| registry credentials | `pkg/clients/registryauth/auth.go` | none | normalise a reference, read a Secret or a keychain |
| provider configuration | `pkg/clients/helm/helm.go`, `pkg/controller/*/config` | ProviderConfigUsage objects, finalizer of the ProviderConfig | resolve, then track the use; count uses; let go |
| post-renderer | `pkg/clients/helm/kustomize.go` | a temporary directory | run kustomize over the manifest |
| startup | `cmd/provider/main.go`, `pkg/controller/*/helm.go` | which CRDs are established | start controllers when they are |
| adapters, API types | `restclientgetter.go`, `logger.go`, `apis/` | none | |

Interactions. The work queue of controller-runtime calls the managed reconciler of
crossplane-runtime, at most one reconcile per object at a time; that calls Connect,
Observe and one of Create, Update, Delete of this repository, and does the writes
to the API server around them. Reads come from an informer cache that lags behind.
Up to 100 reconciles of *different* objects run at once (`cmd/provider/main.go:92`)
and share the cache directory.

Behaviours that are hard to get right or to test, and the properties that watch them:

* results of a reconcile that are never stored - a crash, a refused or failed final
  write (`release.go:351`, `:391`): `RetryBudget`, `AvailableIsTrue`, `UpgradeHasCause`,
  `InputsSettle`;
* edits while Helm runs, sources that change between Observe and deploy:
  `NoNeedlessUpgrade`, `Settles`;
* the order of finalizer, install and uninstall under crashes and stale reads:
  `NoOrphan`, `DeletionCompletes`, and what all of it comes to: `LifeSpec`;
* a dozen Secrets and ConfigMaps that are read one by one, twice, while they change:
  `InputsSettle`, `UpgradeHasCause`, `LastLayerWins`;
* two parsers of the same URL: `CredentialsFit`;
* retries: the boundary of the limit, uninstall in place of rollback:
  `RetryBudget`, `RetryKeepsDeployed`, `UninstallRetries`, `RetriesLimited`;
* one directory for many workers: `SourceSpec`, `LoadsWholeFiles`, `DirRaceEnds`,
  `RepositoryHonoured`;
* a configuration that is read first and recorded as used afterwards, while another
  controller counts uses to let it go: `UseIsKept`, `DeletedReleasesGo`, `ConfigsGo`,
  also when the controllers start in either order, not at all, or again;
* bounds: `HistoryBounded`.

`PROJECT.json` lists every hazard with its line.

## 2. The modules

| module | models | |
|---|---|---|
| `HelmStore` | Helm's history of one release, as the operations of `client.go` change it (external) | operators |
| `ReleaseRules` | the decisions: `isUpToDate`, `hasUpdates`, `shouldRollBack`, late initialization, what a chart reference may pull and which registry reference it makes | operators, assumptions on the constants |
| `Release` | one object, its controller, the informer, the user, the faults | state machine |
| `ReleaseProperties` | what the controller is to guarantee | formulas |
| `ReleaseLife` | the promise: what is tried, what runs, what is removed, and when the object goes | abstract specification |
| `MCRelease` | instances for TLC | |
| `ReleaseProofs`, `ReleaseLifeProofs`, `ReleaseStatusProofs` | theorems about `Release`; that it implements `ReleaseLife`; that its status remembers what is deployed | proofs |
| `ReleaseValues` | merging of values and `--set`, path by path; by which layer a path is decided | operators, a reference definition |
| `ValueTrees` | the same by recursion over nested maps, as the code does it | recursive operators, compared with `ReleaseValues` |
| `ChartURLs` | how registryauth and the Helm client take chart URLs apart | operators |
| `ReleaseInputs` | the worker reading namespace, values, credentials, patches and connection details, to compare and to deploy | state machine |
| `MCReleaseInputs`, `ReleaseInputsProofs` | instances for TLC; theorems about `ReleaseInputs` | |
| `ChartRefs` | chart references, the names of cached files, what a pull may bring | operators |
| `ChartSource` | the promise: each call is answered in one step with a chart that meets its reference | abstract specification |
| `ChartCache` | the directory and the workers that share it; implements `ChartSource` | state machine |
| `MCChartCache`, `ChartCacheProofs` | instances for TLC; theorems about `ChartCache` | |
| `ProviderConfigUse` | the start of the two controllers; configurations, their usages, the informers, reconciles of Releases up to their deployment | state machine |
| `ProviderConfigUseProofs` | theorems about `ProviderConfigUse` | proofs |

### Release

The namespaced and the cluster-scoped controller are the same program but for the
type of the object and where a source is looked up; one module stands for both, and
the map in `PROJECT.json` names lines of either.

State. `cr` is the object in the API server and `cache` the informer's copy;
`cacheFresh` says that the copy has the current resourceVersion. `pc`, `mem`,
`memFresh` and `takeOwnership` are the worker: where it is, the `cr` of the Go code,
whether a write of it would pass the API server's conflict check, and the argument
the Helm client was made with. `hist` is Helm's history, a sequence of revisions
with status, configuration (chart, values, patches) and the TakeOwnership flag.
`source` is the content of the ConfigMap or Secret that specs refer to. `tries` and
`lost` are observed by properties and read by no action.

Actions, in the order of a reconcile:

| actions | code |
|---|---|
| `Connect` | `connector.Connect` and `withRelease`; the reconciler reads the object from the cache, and skips the external client when a deleted object's release is to be kept |
| `ObserveMissing`, `ObserveFails`, `ObserveDeleting`, `ObserveError`, `ObserveHealthy`, `ObserveDetailsFail`, `ObserveUnhealthy` | the return paths of `Observe` |
| `StartCreate`, `RecordCreate`, `RecordCreateConflicts` | what the reconciler writes around `Create` |
| `StartInstall`, `StartUpgrade`, `UpgradeIsRefused`, `DeployCannotStart`, `FinishDeploy`, `FailDeploy` | `deploy`: sources, pull and late initialization and the pending revision Helm writes first; then the outcome |
| `RetryByUninstall`, `RetryByRollback`, `RetryFails`, `RetriesExhausted`, `FinishRollback`, `FailRollback` | `Update` on a failed or pending release |
| `StartDelete`, `DeleteFails`, `FinishUninstall`, `FailUninstall` | `Delete` and every uninstall |
| `PublishStatus`, `PublishConflicts`, `PublishFails`, `Conflicts`, `Finalize` | how a reconcile ends |
| `Crash`, `SyncCache`, `EditSpec`, `EditSource`, `DeleteCR` | process, informer, users |

A Helm operation is two steps because Helm writes a pending revision, then works for
minutes, then writes the outcome; a crash or an edit falls between the two. Reading
the sources, pulling and the pending revision are one step: the reads before it
decide only whether it happens, and a change of a source after Observe can happen
before it.

Behaviour of crossplane-runtime is external and modelled from how this code sets it
up: `WithDeterministicExternalName(true)` (`release.go:100`) makes a reconcile go on
when an earlier Create was cut off, so Create need not be remembered. After an
`Update` of the object the response is decoded into the worker's object; fields the
stored status leaves out keep the worker's value (`Decoded`).

### ReleaseLife

A user who knows nothing of caches, statuses and retries still expects something:
that what runs in the cluster is replaced only by something that was deployed
successfully, and goes away only because the object was deleted. `ReleaseLife` says
that with five variables: the `life` of the object, whether it is kept, the
configurations `tried` of which Helm holds a revision, the one `attempt` under way
and the one that is `running`. `ReleaseProperties` maps the detailed state to it:

| `ReleaseLife` | `Release` |
|---|---|
| `life` | `cr.deleted`, `cr.gone` |
| `keep` | Delete is not among the managementPolicies |
| `tried` | the configurations of all revisions in `hist` |
| `attempt` | that of a last revision that is pending |
| `running` | that of the revisions with status `deployed` |

`StartInstall` and `StartUpgrade` are `Try`, `RetryByRollback` is `GoBack`, the ends of
Helm operations `Succeed`, `Fail` or `Remove`, `Finalize` is `LetGo`, and everything the
worker does between them is a stutter. A crash in the middle of a Helm operation
leaves an `attempt`, which `GoBack` or `Remove` ends.

### ReleaseInputs

`Release` takes the reading of a Release's inputs for one step, since there only
*what* is deployed matters. This module is about how it is put together: the worker
reads one object after the other, in Observe to compare and in deploy again, and
every object may be edited between any two reads.

| actions | code |
|---|---|
| `Begin`, `createNamespace` | a release that does not exist is created, another observed; `Create` makes the namespace of the spec |
| `ReadValues`, `InlineValues`, `SetOne` | the three loops of `composeValuesFromSpec`; `Unavailable`, `getDataValueFromSource` are `data.go` |
| `ValuesInSync`, `ReadPatches`, `InSync`, `StartUpdate` | the end of `isUpToDate`, and `Update` when it finds a difference |
| `ResolveCreds` | `ResolveNamespaced`, `ResolveCluster`: a pull secret, or a keychain that has credentials for the reference or none |
| `Deploy` | Helm gets values and patches, and the worker's copy of the status the hash of the patches (`release.go:328-342` of the cluster-scoped controller) |
| `PublishStatus`, `PublishConflicts` | the reconciler's write of the status at the end, refused if the copy was out of date when the reconcile began |
| `connectionDetails`, `PublishConnection` | the details of a healthy release, and the secret they end up in |
| `Fail`, `Interrupted` | the first object that cannot be read, parsed or found; the API server or the process |
| `SyncCache` | the informer is told what was stored |
| `EditObject` | others |

The hash of the deployed patches is thus in four places: `patches` of `deployed` is what
it ought to be the hash of, `hash` is in the worker's copy, `sha` is stored, `seen` is in
the informer's copy, which `Begin` reads. `memFresh` and `cacheFresh` say of the copies that they
are what is stored. A crash between `Deploy` and `PublishStatus`, or a refused write,
leaves `sha` behind what is deployed; `stored` is an observation of that.

What a key may hold is one of values (a map or a scalar), patches or credentials, or
`Missing` (no object), `NoData` (an object without data), `NoKey`, `Blank` (an empty
text), `Garbled` (a text that cannot be parsed). Chart, deployment failures and
edits of the spec stay in `Release`. The text of a URL is a sequence of tokens with
`/`, `:` and `@` among them (`ChartURLs`), enough to tell ports, tags and digests.

`mergeMaps` recurses into maps of maps. `ReleaseValues` writes values down flat
instead, as what is at each path, so that merging is one function constructor and can be
reasoned about: what is in the later map counts, and the earlier one keeps what no
scalar of the later one hides. That this is the same function is an assumption of `ValueTrees`
that TLC evaluates: `mergeTrees` and `SetInTree` are the code's recursion, `Flat` writes
a tree down flat, and for all 144 trees with two keys and two levels merging and setting
commute with it (`MergesAgree`, `SetsAgree`).

### ChartCache

Each worker makes a client (`StatDir`, `MakeDir`), calls PullAndLoadChart with a
reference (`Call`, `CallRejected`), looks for a file (`Stat`), pulls into a directory
of its own (`StartPull`, `FinishPull`, `PullFails`), renames the file into the shared
directory (`Rename`) and loads it by name (`Load`). Others may rename to the same
name between any two of these. New charts, and new charts under an old tag, are
published at any time. File names are records of chart name, version and digest,
without the repository, as in the code. `Partial` stands for half-written content.

A chart at a URL that is no registry's is cached under the last part of the URL
(`client.go:417-423`), whatever chart and version it holds, and is looked for there first
even if no version is known. Such a URL has a field `file`, and is never `Latest`: when
the file at the URL is replaced, the provider goes on to load the old one.

`ChartSource` has none of this: a call is asked and answered. `SourceSpec` says that
`ChartCache` implements it, with `published`, `want`, `since` and `got` shared by
name and files, directories and program counters hidden; only `Load` answers, and
`PullFails` refuses. It promises what is current (`Fresh`) for a chart that is asked for
without a version in a repository or a registry; for a file at a URL, only that it was
there at some time.

### ProviderConfigUse

`Release` takes the client that Connect makes for granted; this module is about how
Connect comes by it, and takes the rest of a reconcile for one step. `Resolve` is the
`Get` of `helm.go:54` and `:84`, `Track` and `TrackConflicts` are the tracker's three
ways through `:59` and `:99`, `Fails` is whatever fails between there and the end.
`HoldConfig` and `LetGo` are the reconciler of crossplane-runtime that
`pkg/controller/*/config` sets up: it adds its finalizer to a configuration, and takes
it from a deleted one when it sees no usage. `config` and `usage` are what the API
server has, `seenConfig` and `seenUsage` what the informers have; a `Get` of the
provider reads the informer (only Secrets may be excepted, `main.go:113-120`). A configuration that is still there though
deleted resolves like any other.

Nothing orders the read before the record, or the record before the count: a
configuration may be let go under the reconcile that has just read it, and the Release
that is then deployed holds credentials nobody keeps. The properties say what is left
to rely on. `care` follows what the user has waited for: a reconcile that starts when
the informer has the Release's usage as it is (`fresh`), deploys through a
configuration that has its finalizer (`served`), and an informer that has seen the
usage since (`covered`). From there on the configuration stays (`UseIsKept`), until
the reference is edited. The first wait is necessary: after an edit from A to B and back to A,
the informer's copy may still name A, the tracker writes nothing, and the usage that
counts names B.

A Release is read as it is; that its own copy may lag too is part of `Release` only.

`setup` is the start of the process (`main.go:216-267`, `pkg/controller/*/helm.go`,
`SetupGated`). `Establish` is the CRD of a kind becoming established, after which users
can make objects of it. A process that may watch CRDs starts each controller when its
kinds are there (`SetupGated`), so Releases may be reconciled before configurations
are; another starts both at once (`Setup`). An error behind the gate is only logged
(`SetupFails`), and that controller does nothing until the process is restarted.
`Restart` forgets every reconcile under way.

## 3. What is checked

`tlc -config <run>.cfg <module>.tla`. Constants the runs do not list are as small as
possible: one ConfigMap, charts of one name.

| run | instance | checks | states |
|---|---|---|---|
| `MCRelease_retries` | a version with rollbackLimit 1 and values from a source, a chart that never deploys with limit 2, a release that is kept on deletion and late-initializes nothing, and one of a chart that does not exist that is never created; two faults of seven kinds and an edit of one spec into another or of the source | `TypeOK`, `RetryBudget`, `NoOrphan`, `RetryKeepsDeployed`, `DeletionCompletes`, `LifeSpec` | 382 000 |
| `MCRelease_patches` | patches on and off, digest 1 and 2, maxHistory 2; one fault or stale read, two edits | `HistoryBounded`, `AvailableIsTrue`, `NoNeedlessUpgrade` | 231 000 |
| `MCRelease_settles` | values from a source, a chart by URL, a version that always fails; one fault, two edits | `Settles` | 1 257 000 |
| `MCReleaseInputs_prepare` | a spec with two sources, inline values, `--set` and two patch sources; one with connection details, with and without the part-of-release check; pull secrets, namespaces, nothing to read from; 25 forms of chart references; one fault, an informer that lags, two edits of objects | `TypeOK`, `LastLayerWins`, `CredentialsFit`, `UpgradeHasCause`, `InputsSettle` | 183 000 |
| `MCChartCache_shared` | two workers, three calls; the latest version, a file replaced at its URL, a digest beside the version of another chart, two digests in conflict | `TypeOK`, `LoadsWholeFiles`, `SourceSpec`, `DirRaceEnds` | 567 000 |
| `ProviderConfigUse_config_use` | one Release, two configurations, two edits of the reference, two failing reconciles, failing setups or restarts | `TypeOK`, `UseIsKept`, `DeletedReleasesGo`, `ConfigsGo` | 642 000 |

and where the code departs from what is written about it (each run ends with a
counterexample):

| run | property | what happens |
|---|---|---|
| `MCRelease_ownership` | `OwnershipTakenOnce` | every status is stored, `ownershipTaken` among them; then Observe rebuilds the status of the deployed release without it (`release.go:242`), that is stored too, and the upgrade after an edit takes ownership again |
| `MCRelease_lost_patch` | `UpToDateMeansDeployed` | the spec is edited back while Helm deploys other patches; the status with the new hash is refused, the old hash matches, and the release is judged Available |
| `MCRelease_patch_retries` | `RetriesLimited` | a patched release whose deployment fails is never in sync, so it is upgraded again and again and `rollbackLimit` is not consulted |
| `MCRelease_tagged_url` | `URLOverrides` | a chart by an OCI URL with a tag is installed and its name late-initialized; when its values change, the name is put behind the tag, the registry reference cannot be parsed, and no upgrade is ever tried (`auth.go:106`, `:133`) |
| `MCRelease_uninstall` | `UninstallRetries` | the uninstall that is to precede a new install fails; status `uninstalling` counts as in sync and is not retried |
| `MCChartCache_repository` | `RepositoryHonoured` | two repositories, one chart name and version: the second reference loads the first's file |

### What the properties say and where they stop

* `RetryBudget`: between reconciles, retries since the release was last healthy are
  at most some `rollbackLimit` in use plus the number of statuses that were lost.
  The second term is real: a lost counter costs a retry.
* `RetryKeepsDeployed`: the uninstall that stands in for a rollback when the observed
  revision is 1 never meets a deployed or superseded revision.
* `NoOrphan`: the object goes only with Helm's history empty or Delete not allowed.
* `LifeSpec`: the controller implements `ReleaseLife`, under every fault of the run. It
  covers what the single properties leave open, for example that a failed upgrade
  followed by retries never takes away what an earlier upgrade deployed.
* `AvailableIsTrue` and `NoNeedlessUpgrade` hold under the conditions they name, and TLC
  finds a counterexample to them when any one is dropped.
  - Both: every status was stored (`lost = 0`; see `lost_patch`). No spec has a rollback
    limit: a rollback writes an old revision again and leaves the hash alone (`release.go:389-399`), so
    that a release that was rolled back to other patches can be judged Available. Either all
    specs name a digest or none does: one that is added to a deployed spec is filled into
    the status unseen (`release.go:267`), although it is documented as "the last successfully
    deployed chart digest" (`types.go:127`), and the release counts as in sync with it. `chart.url` is not given: `isUpToDate` does
    not compare it, so an edit of a URL that leaves name and version alone is not deployed.
  - `AvailableIsTrue`: Update is among the managementPolicies, since without it
    nothing is done about a difference. It holds of stale copies too.
  - `NoNeedlessUpgrade`: the object is fresh, and values do not come from a source, which
    may be edited and edited back between Observe and deploy. Where a digest is
    given, `version` is left out or is what the digest holds: otherwise the digest is what
    Helm pulls by, the version is what is compared, and the release is upgraded at every poll.
* `HistoryBounded` stops at rollbacks: the client for rollbacks is made without
  MaxHistory (`client.go:185`), so every rollback adds a revision.
* `Settles` and the other passing runs have `Tagged` empty: chart URLs end in a file or
  in the name of the chart; `tagged_url` shows why.
* `Settles`: faults of kind Crash and Uninstall are left out, because two
  states are never left. `pending-rollback`, after a crash in a rollback, is missing
  from `shouldRollBack` (`release.go:422-424`) and Helm refuses to upgrade it; and
  `uninstalling` as above. So are specs with patches together with a version that
  fails (`patch_retries`), and a chart URL beside a contradicting name or version,
  which is upgraded at every reconcile (`observe.go:115`, `:128`) although the URL
  "overrides others fields in the spec" (`types.go:39`).
* `status.atProvider.digest` is filled from the spec on a healthy release
  (`release.go:267`) even if the chart was not pulled by it; no property is about
  this field alone.
* `OwnershipTakenOnce`: the flag may also be lost because a status was not stored, and
  whoever works on a stale copy has not seen it. Neither counts here (`lost = 0`,
  `memFresh`): what is left is the rebuilt status, and a model whose Observe keeps the
  flag has no counterexample.
* `SourceSpec`: two URLs of different charts that end in one name, say `.../a/app.tgz` and
  `.../b/app.tgz`, share a file, and the second Release gets the first one's chart, as
  `MCChartCache_repository` shows for repositories; a URL that ends in `app-1.tgz` shares the file of
  version 1 of the chart `app`. The instance has no such pair, the theorem excludes
  them by name (`OwnFiles`).
* A digest beside an HTTP URL passes the check of `client.go:376` when the unused
  `repository` is a registry, and is then ignored; `SourceSpec` is claimed without
  such references.
* `LastLayerWins`: at every path, the values composed so far are what the last layer
  that says anything about the path says, whether maps are merged, replaced by scalars
  or the other way round. The reference definition (`LastWord`) looks at one path and
  knows nothing of merging.
* `CredentialsFit`: without a pull secret, credentials for an OCI chart are looked up for
  the repository it is pulled from. Three cases are excepted, and real: when both `url`
  and `repository` are given the chart is pulled from the URL (`client.go:256`) and
  credentials are looked up for the repository (`auth.go:93`); and a repository whose
  text ends in the chart's name (`.../myapp` for a chart `app`) is looked up without the
  name behind it (`auth.go:106`); and a URL beside a name that it does not end in
  is looked up with that name behind it (same line).
* `UpgradeHasCause`: an upgrade of a release whose spec is not edited needs an object
  that changed since what is deployed began to be read. Two conditions come with it,
  and TLC finds a counterexample without either: the status was stored after
  the last deployment (`stored`; else the next poll compares with an older hash, and
  upgrades although nothing was edited), and this reconcile began with the stored
  status (`memFresh`; an older copy has an older hash, too).
* `InputsSettle`: a deployment
  may mix old and new contents, and its status may be lost, but in the end the deployed
  revision and the connection
  secret are what the objects hold, unless one of them cannot be read (`Blocked`).
  One case is excused, for the patches alone (`EditedBack`): the status of an upgrade is lost
  and the patches are edited back to what the old hash is of, so that others stay deployed.
  This is the departure that `lost_patch` shows for edits of the spec.
  `Blocked` names what else keeps a Release from being deployed for good:
  a namespaced Release without `namespace`, for which `Create` asks for a namespace
  without a name (`release.go:372`) although it "will be used if nothing is set"
  (`types.go:85`); a reference that is no registry reference, for example an HTTP chart
  URL with capitals; an optional source whose object has no data at all (`data.go:49`); a
  `--set` whose optional source is missing (`values.go:79`).
* `DeletedReleasesGo` and `ConfigsGo`: a deleted Release whose use was waited for is
  uninstalled, and a deleted configuration goes once every Release is gone or has a
  reference to another one that is still there. A Release whose configuration went
  before it is never let go, since every Connect fails; that is why the first of them needs
  the wait. Usages of different Releases never meet but where `LetGo` counts them, so
  one Release is checked and the theorem is for any number. Both excuse a controller
  whose setup failed and that is not restarted: it is never tried again
  (`config.go:87`).

### Bounds

`MaxFaults`, `MaxEdits`, `MaxRevision` and `MaxCalls` cap what would grow for ever.
Two faults are enough for every pair "an operation fails and its record is lost";
two edits for "there and back", which is what misleads a remembered hash; the
revisions are more than the edits, faults and retries of an instance can use up, so
no run that passes liveness stops at the bound (`Settles` and `DeletionCompletes`
would fail there). In `MCRelease_retries`
one edit leads from any of its four specs to any other, patches left out: a patched spec that
never deploys is upgraded for ever (`MCRelease_patch_retries`). In `ReleaseInputs` two edits make a source change
between the comparison and the deployment and again within it, or change there and
back; every spec is about one group of inputs, since the worker reads the groups one after the other
and they share nothing. Three calls let one worker pull and two others' calls hit and
replace the file. Deadlock is not checked: a release whose object is gone and a cache
whose calls are used up stop rightly. `ReleaseInputs` polls for ever and is checked for deadlock. In `ProviderConfigUse` two edits are what
there-and-back needs; informers never stop there, so nothing is excused from the deadlock
check.

### Fairness

`WF(SyncCache)`: the informer delivers what it watches. `WF(Worker)`: every reconcile
that can go on does, and after it ended the poll interval (`WithPollInterval`,
`release.go:95`) or an error brings the next; a Helm operation ends since each has a
timeout. Faults, edits and deletions have none. In `ChartCache` each worker is
scheduled fairly; publication is not. In `ProviderConfigUse` informers, the garbage
collector, reconciles of Releases (polled) and of configurations (resynchronized after
`--sync`) are fair, failures are bounded, users are free; the kinds come with the
provider's package, so `Start` is fair, but nothing makes a failed setup be tried again
or a process restart. In `ReleaseInputs` the worker and the informer are fair, as in `Release`.

## 4. What is proved

All for arbitrary constants that satisfy the named assumptions of `ReleaseRules`,
`Release`, `ChartURLs`, `ReleaseInputs`, `ChartRefs`, `ChartCache` and `ProviderConfigUse` (types of charts,
specs and bounds; model values outside the sets they extend). TLC evaluates every one of them on
its instances. `SpecsAssumption` has one that is more than a type, `WellFormed`: an OCI
URL is a registry and a path of segments that are not empty, with no slash or second `@`
behind a digest, and an OCI repository has no digest. The rest of
what a user may write is not excluded: ports, tags, digests, foreign characters, slashes at the end of a repository.

`ReleaseProofs`

* `TypeCorrect`: `Spec => []TypeOK`. `TypeInv` adds the parts of the state that the
  steps' types need.
* `NothingOrphaned`: `Spec => []NoOrphan`. `NoOrphan` is not inductive: whether the
  worker may remove the finalizer depends on what it read. `LifeInv` says that a fresh
  copy agrees with the stored object, that whoever is about to let go saw an empty
  history or may keep the release, and that a history is only begun under a stored
  finalizer.
* `RetriesWithinBudget`: `Spec => []RetryBudget`. `BudgetInv` relates three counters:
  the stored one, the worker's and `tries` differ by at most the retry under way and
  the lost ones, and each is capped by a limit in use.
* `HistoryStaysBounded`: `Spec => []HistoryBounded`, from lemmas on what `Pruned`
  removes.

`ReleaseLifeProofs`

* `LifeImplemented`: `Spec => LifeSpec`, the refinement for any charts, specs and bounds.
  Every step of the controller maps to a step of `ReleaseLife` or a stutter; lemmas say
  what each operation of `HelmStore` does to the tried, attempted and running
  configurations. The strengthening `HistInv` says that the revision
  numbers of the history grow and one at most is deployed; that its last revision is pending
  while an operation runs; that the status the worker updates by is that of the last
  revision; that nothing deployed is uninstalled unless the object is deleted; and that
  worker, cache and API server agree about the deletion as far as each can know.
* `DeployedSurvivesRetries`: `Spec => RetryKeepsDeployed`, from `HistInv`: a retry
  uninstalls only what Observe found to be revision 1 in a failed or pending state; as
  revision numbers grow, nothing stands before it, so nothing is deployed.

`ReleaseStatusProofs`

* `JudgedAvailable`: `Spec => AvailableIsTrue`, and `UpgradedWhenNeeded`:
  `Spec => NoNeedlessUpgrade`. Neither patches nor digest are in Helm's revision, so the
  judgement is as good as the status. `StatusInv` says where the memory of a deployed
  revision is: in the stored status, or, between a deployment that succeeded and the
  write that stores it, in the worker's (`MemoryInv`); and that what runs is what the
  worker's spec asks for (`OperationInv`). The difficulty is the informer: a stale copy has
  an old status. Either it still remembers the deployed revision, or its own spec asked for
  it (`Serves`), so that what looks in sync with the stale status is in sync with the truth.
  TLC checked `StatusInv` before it was proved, on an instance with all kinds of faults.

`ReleaseInputsProofs`

* `TypesHold`: `Spec => []TypeOK`; in particular, no empty or unparsed text is merged and
  nothing that was read outlives its reconcile.
* `LastWins`: `Spec => []LastLayerWins`, for any sources, maps and names. `WordInv` says so at
  every path there is: a lemma on `mergeMaps` says what is at a path of two merged maps, and
  another that the last layer to speak among `n + 1` is the new one or the last of
  the `n`. It needs that a finite set of positions has a greatest one (`GreatestOf`), which
  comes from the library's well-foundedness of `<` on the naturals.
* `UpgradesHaveCause`: `Spec => UpgradeHasCause`. `PlaceInv` says where the hash is: the
  stored one is of the deployed patches once the status was stored, a copy that is
  fresh agrees with it, and until the status is written the worker's copy has the new one. What a reconcile composes is a fold over
  what it reads, which is out of reach of the provers as a recursion. The proof uses traces
  instead: a trace is the sequence of the values before each read, each the
  one before it merged with what the object now holds. As long as nothing was edited, what a deployment has
  read so far is a trace (`FreshInv`), what is deployed is the end of one, and what Observe has read is
  a prefix of it (`CurrentInv`); two traces of the same objects are equal
  (`SameTraces`, by the least position at which they differ).
* `CredentialsForChart`: `Spec => []CredentialsFit`, for locations of any length and
  form. Both parsers are shown to leave what the location is without digest and tag:
  `normalizeRegistryURL` because nothing behind the last slash but a tag has a colon,
  unless the reference cannot be parsed and nothing is deployed; the Helm client because
  it looks for both behind the registry. Then what a name appended behind it changes.

`ChartCacheProofs`

* `CacheTyped`, `WholeFilesLoaded`: type correctness, and that what a worker is about to
  load is a whole chart, for any number of workers.
* `CacheIsSource`: `OneHome`, `DigestUsed`, `OwnFiles` imply `Spec => SourceSpec`. `OneHome`
  (no two repositories offer charts of one name) is what the file names take for
  granted; without it `RepositoryHonoured` fails. `DigestUsed` excludes the digest beside
  an HTTP URL. `OwnFiles` is about URLs that are no registry's: what ends in the name and
  version of a chart holds it, and two that end in the same hold the same chart and
  version. Nothing is assumed about what the last part of a URL looks like otherwise, or about
  when the file behind it is replaced. The invariant says of every cached file that it was
  saved for some reference under the name it has and holds a chart that suits that reference,
  and of every call under way that it is led to the file of its own reference or,
  if it asked for the latest, to one named after a version no older than the charts there were
  when it asked.

`ProviderConfigUseProofs`

* `TypeCorrect`: every state is well typed, only deleted configurations are gone, and
  credentials do not outlive their reconcile.
* `UsesKept`: `Spec => []UseIsKept`. `UseInv` says of each stage of waiting what it has
  established: in a fresh reconcile the informer agrees with the usage until the use
  is recorded; a served Release has a usage that names its configuration, which is
  held and not deleted; a covered one has it in the informer too, so that its
  configuration is not let go.

`TypeCorrect` of `ProviderConfigUse` and `UsesKept` hold for every order in which the
controllers start, fail to or are restarted.

Every invariant and action property of the passing runs is thus proved, but for the
liveness. Model-checked only: liveness (`Settles`, `DeletionCompletes`, `DirRaceEnds`,
`DeletedReleasesGo`, `ConfigsGo`, `InputsSettle`), which TLAPS does not reach; that
`ReleaseValues` is what the code's recursion computes (`ValueTrees`), an induction over
nested maps; and the departures.

## 5. What is not modelled

* Contents: YAML, the syntax of `--set` beyond dotted names, kustomize, manifests.
  A value is a scalar or a map, a patch set a sequence of patches, a chart a member of
  a small set. That values come through JSON (`normalizeConfig`) matters only for that
  abstraction to be right: a number is the same number in either type.
* The managed reconciler's finer points: pausing, back-off, events, metrics, the
  external-name initializer (which writes the object once, before anything else), and
  observe-only policies.
* Two processes on one object. Leader election is off by default
  (`cmd/provider/main.go:82`); one process never reconciles one object twice at a time.
* In `Release`, Connect's resolution of the ProviderConfig: it can fail, which ends a
  reconcile with nothing changed. In `ProviderConfigUse`, kinds and namespaces of
  configurations, the secrets behind them, and where a Release was deployed before its
  reference was edited.
* Wait strategies, timeouts of single Helm calls, `skipCRDs`, `plainHTTP`, TLS and
  `ssaForceConflicts`: handed to Helm as they are.
* Helm's content cache directory, which is made like the chart cache; the login to a
  registry beyond where it goes.
* `repoCredsFromSecret` (`chart.go`), which nothing calls; the REST client getter and the
  logger, which adapt interfaces; generated code and the v1alpha1 types.

## 6. Plan

Done: `Release` and `ChartCache` with their rules, instances and theorems;
`ProviderConfigUse` with the start of the controllers; the abstract `ReleaseLife` and the
proof that the controller implements it; `ReleaseInputs` with values, patches,
credentials, namespaces and connection details; theorems for every safety property of
the passing runs.

Left, in this order:

1. Two processes on one object, as a rollout without leader election makes them.
2. A Release whose `providerConfigRef` is edited and leaves a release behind in the
   cluster of the old configuration.
