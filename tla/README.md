# Specifications of rke2-patcher

rke2-patcher replaces the container images of the components that RKE2 installs
from embedded Helm charts, without waiting for the next RKE2 release. It writes
image values into the `HelmChartConfig` of a component's chart, either from a
command line tool (the CLI mode) or from a controller that follows `ImagePatch`
objects (the controller mode). This directory holds TLA+ modules translated from
the Go code, TLC configurations that check them on small instances, and proofs
that every safety property of the passing runs holds in every instance.

Everything is translated from `src/`; what runs outside it (the API server, RKE2,
helm-controller, the registry, users) is modelled from how the code uses it.
`PROJECT.json` maps every definition to the lines it stands for.

## 1. The system

| Part | Source | State it keeps | Operations |
|---|---|---|---|
| ImagePatch controller | `internal/controller` | nothing between two passes but the informer cache and the work queue; everything else is in the API objects | a reconcile pass (19 API calls in the order of the code), finalize, revert, the event handlers |
| ImagePatch API | `api/v1alpha1` | spec, status, finalizer, the reverted-generation annotation | read and written by users and the controller |
| HelmChartConfig access | `internal/kube/helmchartconfigs.go` | the HelmChartConfigs | get; create or update guarded by the resource version |
| HelmChartConfig values | `internal/patcher` | none | generate, merge, compare and subtract the values of a component; the bundled tag of a chart |
| Tag policy | `internal/policy` | none | parse, order and validate tags; the 45-day patch window |
| CLI commands | `internal/cmd` | the memory of one process | `image-patch`, `image-reconcile`, `image-list`, `image-cve` |
| CLI state | `internal/clistate`, `internal/kube/state_configmap.go` | the ConfigMap `rke2-patcher-state`, one entry per version and component | load; update (load, mutate, save, up to 5 times); revert an entry |
| Registry client | `internal/registry` | page, token and result of one listing | list the tags of a repository |
| Cluster facts | `internal/kube` (`version.go`, `images.go`, `prime*.go`, `chart_values.go`, `helmcharts.go`) | none | the RKE2 version, running images, the zero-day, the prime flag, a chart's defaults |
| Scan job | `internal/kube/cve_job.go` | a Job with its pod in the scan namespace | ensure the namespace (asking the user), create, poll, read logs, delete |
| CVE scanner | `internal/cve`, `internal/vex` | the cached VEX report under the user's home | scan one image or a batch, in the cluster or with local tools; refresh the report; read a batch out of a log |
| Component registry | `internal/components` | a table | resolve a component; its repository, chart and workload |
| Manager start-up | `internal/cmd/controller.go`, `internal/kube/client.go` | the leader lease | run one controller at a time |
| Output, configuration, node arguments | `internal/cmd/output.go`, `config.go`, `internal/kube/node_args.go` | none | wording, environment variables, lookups |

### How the parts interact

The API objects are the only shared state. The controller reads ImagePatches
from an informer cache that lags behind and everything else from the API server.
Its writes to ImagePatches and HelmChartConfigs carry the resource version of
what they are based on; so do the CLI's writes to HelmChartConfigs and to the
state ConfigMap. Watch events for ImagePatches, HelmChartConfigs, HelmCharts,
kube-apiserver pods, the state ConfigMap and workloads put names into the controller's queue;
an outcome also has a requeue delay of its own, or none. Several components may
share a chart (coredns, its autoscaler and its node cache; calico and flannel),
so several ImagePatches, and several runs of the CLI, write one HelmChartConfig.
`image-cve` and `image-list --with-cves` touch none of these objects: they share
the scan namespace and, when they scan locally, one cached file with the other
commands of the same user, without a lock.
The modes look for each other: the controller does nothing while the CLI state
has entries, and `image-patch` refuses while ImagePatches exist.

### What is hard about it

- *Interleaving.* A pass is a long sequence of reads with one write at its end.
  Users, RKE2 upgrades, other ImagePatches and the CLI run in between.
- *Stale copies.* The ImagePatch a pass works on, its marker included, is the
  informer's copy.
- *Partial failure.* The values and the status (or the state entry) are two
  writes; finalize reverts in one write and releases the object in another;
  AutoRevert marks in one and reverts in another. A call may fail, an answer may
  be lost, the leader may die between two calls.
- *No record of what was applied.* Reverting subtracts what would be generated
  now from what users have made of the values since.
- *Deferred clean-up.* A scan Job is deleted, and a temporary file removed, by a
  deferred call, which a killed process does not make.
- *Text between two programs.* A shell script prints the reports of a batch into
  one log and a Go function takes them apart by marker lines; the log may hold
  messages of others and may have lost its beginning.
- *Being told.* An outcome with no requeue relies on a watch event to be
  computed again.
- *Order.* Tags are ordered by build date before version, and the CLI and the
  controller each have their own code for the same rules.

The full list, each at its line and with the properties that cover it, is under
`hazards` in `PROJECT.json`.

### What makes each part correct

- *Controller:* it never loses or overwrites what others wrote, never leaves
  managed values without an ImagePatch that will revert them, never mixes
  patches of two RKE2 versions, completes deletions, reverts what the bundled
  tag overtakes, does not apply again what it reverted, and ends with a status
  that is true.
- *Values:* merge, compare and subtract agree on every tree users may write; the
  controller leaves the images of other components of a chart alone.
- *Policy and tag selection:* a total order, a window that ends after 45 days,
  one set of rules for an explicit tag in both modes, and a listing that says
  which tags may be patched.
- *Registry client:* it lists everything, once, and survives a token that runs out.
- *CLI:* concurrent runs keep each other's writes, the first baseline is kept,
  every value it wrote has an entry.
- *Scans:* no Job, and no temporary file, is left by a command that was not killed;
  only the log of a finished pod is reported, each image with its own findings and none
  of an incomplete report; the findings of a scan that went well are not lost; the shared report is whole at any time and old only when nothing newer could be
  had; every scan ends.
- *Both:* the modes exclude each other.

## 2. The modules

| Module | Extends | Models |
|---|---|---|
| `Policy` | | `internal/policy`: order of tags, build dates, validation, window |
| `TagListing` | | `registry.ListTags` against a registry with pages and tokens |
| `TagSelection` | `Policy`, `TagListing` | what the CLI selects from a listing |
| `PatchWindow` | `Policy` | the 45-day window against a calendar walked day by day |
| `MCPolicyRules` | `TagSelection`, `PatchWindow` | instances |
| `PatchValues`, `MCPatchValues` | | trees of values; the layouts of the charts |
| `MCRules` | `MCPolicyRules`, `MCPatchValues` | the two instances in one run, each while the other one rests |
| `ImagePatchController` | `Policy` | the controller and its cluster |
| `MCController` | `ImagePatchController` | instances |
| `Cli` | `Policy` | runs of `image-patch` and `image-reconcile` |
| `CliMode`, `MCCliMode` | `Cli` | a cluster patched with the CLI alone; instances |
| `PatchModes`, `MCPatchModes` | `ImagePatchController`, an instance of `Cli` | both modes in one cluster |
| `PatchLifecycle` | | abstract: claimed components and the version a patch was applied on |
| `CveCommand` | | what the scans share: commands, requests, outcomes of a scanner |
| `ScanJob` | `CveCommand` | a scan in the cluster, with the Job controller and the pod |
| `VexFile` | `CveCommand` | a local scan, with the cached report |
| `BatchLog` | `CveCommand` | the script that prints a batch and the function that reads it |
| `CveScan`, `MCCveScan` | `ScanJob`, `VexFile`, `BatchLog` | commands scanning at the same time; instances |
| `FoldLemmas` | | induction on natural numbers and the value of a `FoldLeft`, one element at a time |
| `TagProofs` | `TagSelection`, `PatchWindow`, `FoldLemmas` | the listing, the order of tags, the two sets of rules, the window |
| `PatchValuesProofs` | `PatchValues` | trees, and what patches and reverts keep |
| `ImagePatchControllerProofs` | `ImagePatchController` | type correctness |
| `ControllerSafetyProofs` | the former | what a step of each kind changes; snapshots, lost updates, foreign values, one version, no orphan, marked before reverted, the life cycle |
| `CliProofs` | `CliMode` | snapshots and records of concurrent runs |
| `LogProofs` | `BatchLog`, `FoldLemmas` | the log of a batch, frame by frame, and what its reader makes of it |
| `CveProofs` | `CveScan`, `LogProofs` | Jobs, the cached report, what is reported |

### Policy

A tag name is its rank in the string order of names; what `ParseTag` reads out
of the characters is the constant function `ParseTag`, with its second result
in the field `ok`. `CompareTags` compares the same eight fields in the same order
as the code. Build numbers are dates: `IsBuildDate` and `DayNumber` are what
`time.Parse("20060102")` and `AddDate` do. The validations return `"OK"` or the reason
of the violation.

### TagListing and TagSelection

`ListTags` is a loop of HTTP requests. A request is answered with a page and a
link, refused with a challenge, or fails; a refusal fetches a token and tries
once more. The registry counts pages from the front of its order and may get a
new name in front in between, so that a name appears on two pages, which is what the
code's `seen` is for. A token may run out between two pages, not during the
request it was fetched for (the token specification asks for at least a minute,
the client gives up after 20 seconds). `TagSelection` is pure: the decisions of
`image-patch` and `image-list` over what `ListTags` returned. The loops of `ListTags` over
a page and of `OrderTags` over a listing are folds of the function that handles one element
(`AddName`, `Insert`). `Insert` puts a tag behind those it is not newer than, so the fold is a
sort that drops unparsable names and repeated ones, as `OrderTags` does in three loops.

`PatchWindow` is the window of `Policy` beside a calendar that knows the lengths of the months
and is walked day by day: the arithmetic on build dates has to agree with it.

### ImagePatchController

State: the ImagePatch objects (`patches`), the informer's copies (`cache`), the
HelmChartConfigs (`hcc`), facts of the cluster (`version`, `charts`, `running`,
`cliEntries`), the `queue`, and the pass under way (`worker`: the step it has
reached and every local variable that is read later). Every API call of
`reconcilePatch`, `finalize` and the frame is an action, named after the call or
its purpose; the code between two calls belongs to the first of them. An object
that is removed keeps its resource version as a counter, so none comes back.

Disturbances are what others do, at most `MaxDisturbances` of the `Kinds` a run
allows: users create, edit and delete ImagePatches, remove markers, set values,
edit or delete HelmChartConfigs; RKE2 is upgraded or rolled back; `prime.enabled`
changes; the CLI records entries; a call fails, an answer is lost, the leader
dies. Embedded charts follow an upgrade one at a time (`ReplaceChart`),
pods follow the rendered values (`RollOut`), the cache follows the API server
(`Observe`).

Abstractions: the value a chart sets for a component is one tag (`PatchValues` looks
at the trees); a requeue delay is queued at once; the Applied and RolledOut
conditions follow from the reason of the outcome and are left out with the
messages and events; the registry answers with all published tags.

### PatchLifecycle

Two variables: the components whose ImagePatch has the finalizer and, per component,
the version its patch was applied on. A patch is applied to a claimed component
while no other component has one of another version; it is stripped in one step
with others when a HelmChartConfig is deleted; a component is released when
its patch is gone. `ImagePatchController` implements it with the refinement mapping
`claimed`, `appliedOn` (the finalizers and the annotations): `ImplementsLifecycle`
is a PROPERTY of `ControllerSafety` and a theorem.

### Cli, CliMode, PatchModes

A run is a record like the controller's worker. `image-patch` reads, decides,
asks the user, writes the HelmChartConfig and then records the patch through the
update loop of the state, before which `EnsureNamespace` looks for the namespace
of the ConfigMap and `PromptYesNo` asks whether to create it; `image-reconcile` strips values entry by entry and then
removes the entries. Any run may end at any step (a call fails, the user
declines or interrupts). `PatchModes` instantiates `Cli` with the ImagePatches of
the controller's module and turns its writes into watch events. The command's
prime check is taken as passed, and the default target is the closest newer
published tag; a running tag that is not published is refused.

### CveCommand, ScanJob, VexFile, BatchLog, CveScan

A command scans in the cluster or locally, by an environment variable. `ScanJob`
follows `runScanJob`: the record of a command says how far it has got, the deferred
`deleteJob` is the step `delete` that every return after the creation goes
through (`Return`), and the timeout is the action `Expire`, possible at any moment of the
polling. A poll that fails ends the scan, as in the code. The Job controller, the
kubelet and the scanner are external: the pod may wait for ever, fail, be removed with
its logs, or end well with what the script printed. A Job has one pod, so how
`findJobPodName` chooses among several is not looked at. A Job is named by the clock;
`Stamp` is what two clocks may read at the same time.

`VexFile` follows `scanImageLocally`, `ensureLocalVEXFile` and `downloadVEXFileOnce`
system call by system call: the look at the file, the request, the copy into a
temporary file, the rename, and the tool that opens the file that is there by then.
The report is whole or a part of it; the network goes and comes, files
age, the user empties the cache.

`BatchLog` is pure: what the script prints for a list of images whose scans
end well, with messages in between, with a long line, badly or silently; what the
kubelet keeps of it; and what `listCVEsForImagesInCluster` makes of that, line by line.
A report is two lines that name the image they belong to, which is how the properties can
tell whose findings are reported.

`CveScan` puts them together. The namespace of the scans and the one of the CLI state have
the same default, but the commands of `Cli` and `CveScan` share nothing else and are
checked apart.

### PatchValues

A tree is the function from the paths of its leaves to their scalars, an empty
map being a leaf. `Merge`, `Subtract`, `Conflicts`/`Present` and `BundledImageTag` are
what `mergeMapsWithOverride`, `deepSubtractMap`, `compareLeaves` and
`bundledImageTag` do on such trees. Users set scalars and empty maps above, at
and beside the paths the patcher writes, in the layouts of three charts. A path is a
non-empty sequence of keys; an edit replaces what its path clashes with. `Rendered` is what helm
makes of a chart's defaults and the values: a scalar hides what the defaults have at or below
its path, an empty map hides nothing of a map.

`ChartsAssumption` is what the code relies on in the charts it knows: the image maps of
two components of a chart are below different top-level keys, and where all the maps that are
written for a component hold its image, no other map does. TLC evaluates it on the layouts
that `internal/patcher/bundled_test.go` quotes from RKE2.

`Patch` has the guards of the controller: the bundled tag can be read at the paths that are about to be
written (`BundledImageTag`), and values of somebody else are left alone. `image-patch` merges
without either (`internal/cmd/run.go:208-278`), so `UsersValuesKept`, `OtherImagesKept`
and `EveryImagePatched` say nothing about it. `ComponentsOf` has the components of the charts in
the instance and some more, not all.

## 3. The runs

| Run | Instance | Question |
|---|---|---|
| `ControllerSafety` | 2 components with a chart each, 2 versions, 1 user tag, 2 of 9 kinds of disturbance | `NoOrphan`, `NoLostUpdate`, `OneVersion`, the types, and that `PatchLifecycle` is implemented |
| `ControllerProgress` | 1 component, 2 versions, tags that are overtaken, refused or at the baseline, 2 of 7 kinds, both policies | the liveness properties of finalize, overtaken tags and AutoRevert, `ForeignValuesKept`, `MarkedBeforeReverted` |
| `ControllerStatus` | 1 component, 2 versions, roll-outs, edits and upgrades; no failing call, no crash | `StatusSettles` |
| `Rules` | up to 4 of 9 names listed by pages of 2 with a limit of 3; 120 days from 6 zero-days; by themselves, 3 charts, 2 tags, users' edits at 3 to 5 paths | listing, order, both sets of rules, window; merge, compare, subtract, bundled tag |
| `CliRuns` | 2 runs, 2 components of 1 chart, 2 versions, 2 attempts, 2 disturbances, no state namespace yet | concurrent runs |
| `CveScans` | 2 commands, 2 images, 2 time stamps, 2 attempts, 1 of 10 kinds of disturbance; both in the cluster or both local | Jobs, the cached report, batch logs, the end of every scan |
| `RollbackAfterConflict`, `EditSwallowedByAutoRevert`, `EntryOfRunningPatchRemoved`, `ModesNotExclusive`, `OnlyTagNotScanned`, `GoodScanLost` | the smallest instance that shows it | a documented statement that does not hold, see section 6 |

**Why the bounds are enough to be interesting.** Two components on one chart are the
least with which a write of one may undo the other's (`CliRuns`; for the controller
the proofs of `NoLostUpdate` and `NoOrphan` hold for any number of components on a chart);
two charts are the least with which another HelmChartConfig can change after it was
read (`ControllerSafety`). Two versions give an
upgrade and the way back. Two disturbances are enough to put an event into a pass and
a second one into the pass that repairs it; every safety property of the
controller is proved without the bounds as well. The tags cover older,
equal, newer, at-the-baseline, next-minor, outside-the-window on one version and
unparsable. `limit` 3 and pages of 2 make a listing end in the middle of a page,
at the limit, and after a page on which nothing is new. Two sessions with two
attempts reach the end of the retry loop; the code has 5. Two commands
with two time stamps may or may not collide on a Job's name; two images are the least
with which the lines of one report can be taken for those of another, and a log of
ten lines may have lost up to six of them. One disturbance is enough for `CveScans` because the difficulties
that need no disturbance (the timeout, a pod that never starts, an offline network,
an old or absent file, missing tools, prompts, name collisions) combine with it freely; the proofs of
its safety properties have no such bound. Scans in the cluster and local
scans share no state, so the instance takes both commands in one mode.

Deadlock is not checked: the controller's cluster comes to rest when the queue is
empty and the disturbances are spent, runs of the CLI end, calendars end.

**Fairness** (`FairSpec`, used by the two runs with liveness properties). The worker
goroutine takes its next step (WF of `WorkerStep`: every call returns or times
out). The queue hands a name out eventually even if it is requeued again and
again, and others come first: controller-runtime's queue is first in, first out
and never holds a name twice (SF of `Reconcile(c)`). Informers deliver, RKE2 replaces
its charts, helm-controller rolls out what is rendered (WF). Disturbances have
no fairness: they need not happen, and stop after `MaxDisturbances`.
`CveScans` assumes that calls return and that time passes: WF of the steps of a command
and of `Expire`. Nothing makes a user answer a prompt, a pod start or end, or a command
start. That `http.Get` of the report returns is an assumption as well: the code sets no timeout there.

**The properties**

- `NoOrphan`: managed values always have an ImagePatch with its finalizer.
- `NoLostUpdate`: no step of the controller changes what is not its component's
  in a HelmChartConfig.
- `ForeignValuesKept`: the controller neither replaces nor removes a value
  without the annotation. (A user's value that equals the generated one is
  taken over: it is annotated, and later removed by a revert.)
- `OneVersion`: patches applied on two RKE2 versions never coexist, although the
  check reads before the write.
- `MarkedBeforeReverted`, `RevertedStaysReverted`: the protocol of AutoRevert.
- `NoOlderImageKept`: an image the bundled one overtakes is reverted.
- `DeletionCompletes`: a deleted ImagePatch goes away.
- `StatusSettles`: every status ends up true and observed, if no call fails (section 6 has
  what happens otherwise).
- `ImplementsLifecycle`: every step is one of `PatchLifecycle`.
- `JobsRemoved`, `ForeignJobsKept`, `OnlyFinishedReported`: who creates a Job deletes it,
  on every way out, and reports it only when its pod has ended.
- `FindingsReported`: what is reported of an image are its own findings, of a scan that went well and a
  report the log has all of. Such a report is reported unless something gets in its way, and the
  property says what may: a message of the download before the report of a single image, a message
  inside the report, or, in a batch, a line of any image that is too long for the reader.
  That these lose good scans is a defect; `GoodScanLost` shows the first.
- `WholeFileOnly`, `TempsRemoved`, `StaleAsLastResort`: the cached report is never half
  written, its temporary files go, and an old one is used when every download failed.
- `ScansEnd`: every scan ends once its user has answered.
- `OthersEntriesKept`, `BaselineKept`, `OthersValuesKept`: concurrent runs of the CLI.
- `NothingSkipped`, `TokenRenewed`: the listing.
- `OrderedNewestFirst`, `CLIAgreesWithPolicy`, `NextNewerTag`: the order and the two sets of
  rules for an explicit tag.
- `ListingMatchesPatching`: exactly which tags `image-list` shows as eligible and as blocked, and
  that `image-patch` accepts of the eligible ones the newer tags of the running line and no other
  tag. The documentation says more, see section 6.
- `WindowClosesAfter45Days`, `OnlyDatesAreBuildDates`: the window against a calendar
  that is computed in another way.
- `ComparisonPredictsMerge`, `UsersValuesKept`, `OtherImagesKept`, `EveryImagePatched`: values,
  the last three of the controller.

Every property of a passing run has a mutant in `PROJECT.json`: a definition
changed as a plausible bug would, under which the run finds the property violated.

## 4. The proofs

For every set of components, charts, versions, tags, runs, commands and images, and
every number of disturbances and attempts:

| Theorem | States |
|---|---|
| `TypeCorrect` | `Spec => []TypeOK` |
| `NoUpdateLost` | `Spec => NoLostUpdate` |
| `ForeignValuesSurvive` | `Spec => ForeignValuesKept` |
| `OneVersionHolds` | `Spec => []OneVersion` |
| `NoOrphanHolds` | `Spec => []NoOrphan` |
| `MarkedFirst` | `Spec => MarkedBeforeReverted` |
| `ControllerImplementsLifecycle` | `Spec => ImplementsLifecycle` |
| `CliTypes`, `EntriesOfOthersKept`, `FirstBaselineKept`, `ValuesOfOthersKept` | `TypeOK`, `OthersEntriesKept`, `BaselineKept`, `OthersValuesKept` of the CLI mode |
| `CveTypes`, `JobsAreRemoved`, `FinishedIsReported`, `FindingsAreReported`, `OwnJobDeleted` | `CveTypeOK`, `JobsRemoved`, `OnlyFinishedReported`, `FindingsReported`, `ForeignJobsKept` of `CveScan` |
| `WholeFile`, `TempsAreRemoved`, `OldFileIsLastResort` | `WholeFileOnly`, `TempsRemoved`, `StaleAsLastResort` of `CveScan` |
| `NothingIsSkipped`, `TokensAreRenewed` | `NothingSkipped`, `TokenRenewed` for every registry, page size and limit |
| `OrderedList`, `CLIAgrees`, `NextTagIsNext`, `ListingMatches` | `OrderedNewestFirst`, `CLIAgreesWithPolicy`, `NextNewerTag`, `ListingMatchesPatching` for listings of any length |
| `TagsAreOrdered` | the comparison of tags is a strict total order on every set of tags |
| `LinesAgree` | the CLI's and the controller's rules on release lines are the same |
| `DaysAreCounted`, `WindowCloses`, `DatesAreDays` | the window counts days, in every year; `WindowClosesAfter45Days`, `OnlyDatesAreBuildDates` for walks of any length from any zero-day |
| `ComparisonIsRight`, `UsersValues`, `OtherImages`, `ImagesArePatched` | `ComparisonPredictsMerge`, `UsersValuesKept`, `OtherImagesKept`, `EveryImagePatched` for all documents of values, edits of users and charts that satisfy `ChartsAssumption` |
| `RevertUndoesPatch`, `OrderDoesNotMatter` | a revert gives back what was there before the patch, without the component's image values; two components of a chart may be patched and reverted in any order |

They assume what `ImagePatchController` and `Policy` assume of their constants:
`ChartOf`, `BundledTag`, `Published` and `ZeroDay` are functions of the right kind,
`None` is no tag and no version, users choose among the tags and policies there
are; of the calendar, that every number that looks like a date is the build number of a tag,
with years of four digits; of the charts, what section 2 says of `PatchValues`.
TLC evaluates these assumptions in every run.

The argument, in the order of the modules:

1. `TypeOK` is not inductive: an action indexes functions with `worker.component`,
   which is `None` while the worker is idle. `TInv` adds that a worker that is
   not idle has a component.
2. `SnapshotInv` is the heart of the optimistic concurrency: a HelmChartConfig
   that still has the resource version the pass read has the content it read
   (`SnapshotCurrent`), because every write and removal increments the version. With it
   a write that succeeds changes only what `Merged` and `Subtracted` change, which
   gives `NoUpdateLost`; `ForeignValuesSurvive` also needs that a pass that reverts
   found the component managed, and that one that applies found it managed or without a value.
3. `OneVersion` is preserved by `Apply` only because of what the pass has looked at:
   `VersionInv` says that no component the pass has checked is managed on another
   version than the pass read. Only the worker's own `Apply` adds an annotation, and
   everybody else can only remove one, so nothing becomes stale between the check and
   the write, even if the version the cluster reports changes.
4. `NoOrphan` depends on the cache. `OwnerInv` says what the cache and the copy of a
   pass may still claim: neither is newer than the object; a copy that is not being
   deleted and has the finalizer stands for an object that still has it, since only a
   finalize pass removes it; and `RemoveFinalizer` is reached with the component unmanaged only,
   which only this worker could change.
5. `MarkerInv` says that a pass about to revert either found values of the version it
   read or holds a copy with the marker of its own generation; `MarkedFirst` follows for
   an object nobody has written since.

The first lemmas of `ControllerSafetyProofs` say once per action which variables it may change
and how, so that the four inductions do not repeat nineteen cases of a pass each.

6. The life cycle needs nothing new: `ApplyOn` is enabled because of `VersionInv` (no
   other version) and `OwnerInv` (the finalizer is there when a pass applies), `Release`
   because of `OwnerInv` (nothing managed any more); the other actions claim, strip or
   change neither variable.

For the CLI (`CliProofs`) the invariant is per run. `Fresh` says that the HelmChartConfig
and the ConfigMap a run holds are not newer than the objects and, while they have the same
resource version, equal to them; so a guarded write that succeeds is based on what
is there. `Sound` says what else a run's record holds at each step (what it is about to save is its
decision applied to what it has read). `ProperConfig` and `ProperState` say that an absent
object is empty, which makes a guarded create as good as a guarded update. Each step is
first summarised by what it may write (`RunEffect`), then the three action
properties follow from the summaries.

For the scans (`CveProofs`) the invariant has a part for each half. `JobInv` adds to the types
that a command past its start has a name, that a command that polls, reads or deletes holds the Job of its
name (`Holding`: it exists and is its own), and that a Job counts a pod as succeeded
only with an output (`Counted`). `VexInv` adds that a command about to rename holds a whole
temporary file and how many requests it has made at each step. Neither half touches the
variables of the other, so each is preserved by the other's steps.

`FindingsReported` joins the two programs that talk through a log. `Asks` says what the
scan of a command has been asked for and what it may hold of its pod's output. The rest is
about text (`LogProofs`): the log that is printed is a concatenation of frames, so a marker of an
image can only stand in its own frame; the reader is a fold over the lines, and its state
after a frame is a function of whether it has seen the frame's beginning. An induction over
the frames, from the one the kept part of the log begins in, gives what is reported of each image. The
proof shows what the reader needs besides a good scan and a complete report: of a single image nothing
but the report may be left of the log, and a batch must have no long line.

For the tags (`TagProofs`) `CompareTags` is shown to compare eight-field keys
lexicographically: two keys that differ have a first difference, which decides, and the
first differences of two comparisons give that of their composition. `OrderedList` is an
induction over the fold: `Insert` keeps a list ordered because the tags newer than the new
one are a prefix of it. `NextTagIsNext` and the two theorems on agreement follow from the order and from the
position of a tag in an ordered list. `NothingIsSkipped` has as its invariant that a tag
which was there when the listing began is listed already or still to come on the next pages: a name pushed
in front moves the others back by one, never forward over the page that is read next.

For the window the invariant is that the day reached has the day number of the zero-day plus the
days that have passed. A step of the calendar is inside a month, into the next month or into the
next year, and `DaysAreCounted` says of each that the number goes up by one.

For the values (`PatchValuesProofs`) a tree is a function whose paths do not clash; `Merge`,
`Without` and an edit keep it one. The invariant says besides that only components with a
bundled tag are managed, since `Patch` refuses the others, which is why the assumption on the charts
is enough for the images: where a chart keeps the image of a component elsewhere than the
patcher writes, there is no bundled tag and no patch. `RevertUndoesPatch` is what a
revert without a record of the former values can promise: the keys that are subtracted do not depend on the tag.

Recursive definitions are within reach as long as they are folds: `FoldLemmas` has the
induction in a form the provers can instantiate, with a set in the place of a predicate.
Out of reach of the prover and left to TLC are the liveness properties (fairness and
`ENABLED`): `DeletionCompletes`, `NoOlderImageKept`, `RevertedStaysReverted`, `StatusSettles`,
`ScansEnd`. The violation runs are not for proving.

## 5. What is not modelled

- What a report says: vulnerabilities are listed as they are found. The exact names of
  images, scripts and tools are left out with them.
- `internal/kube/node_args.go`: nothing in the repository calls it, and it keeps no state.
- Output and configuration: wording and environment variables, no state.
- The pods of a component one by one: a roll-out is one step (`running`).
- Unpacking chart archives, YAML formatting, comments and documents, names of
  environment variables: I/O and text without control the properties
  could tell apart.
- Two leaders at the same moment: controller-runtime's lease is trusted.
- Generated code, the packaging chart, the end-to-end helpers.

## 6. What the documentation says and the code does not do

Six runs end in a violation, on purpose; `findings` quotes the statements.

- `RollbackAfterConflict`: the rollback guard compares with `status.appliedTag`, which is
  written after the values. When the status write conflicts with an edit of the
  spec, the first tag is not recorded and an older one is let through.
- `EditSwallowedByAutoRevert`: AutoRevert marks the generation it sees, also that of
  a spec that was edited after the reverted values were applied: the
  edit is never applied.
- `EntryOfRunningPatchRemoved`: `image-reconcile` removes entries by key and takes
  the entry another `image-patch` has just recorded.
- `ModesNotExclusive`: both modes look for the other before their own writes.
- `OnlyTagNotScanned`: the Job of a batch of one image prints no markers, and its reader
  reports an image without markers as a missing result, so `image-list --with-cves` of a
  component with a single tag to scan shows no CVEs after a scan that went well.
- `GoodScanLost`: the log of a pod has both output streams and is parsed as a whole as JSON, so the message
  of a download that failed once and then went well makes `image-cve` fail after a good scan.
  In a batch the messages trivy writes into a report and a long line of any image do the same
  to the image, and to all images of the batch.

One divergence is stated by a property that holds. `image-list` calls tags eligible that "can be patched on
the current cluster" (`README.md:131`); the running tag, the previous tag, and newer tags of
another minor release are among them, and `image-patch` refuses all of these. `ListingMatchesPatching`
has the exact sets, and in `Rules` v1.15.0-build20260208 is such a tag.

Other observations, without a run of their own: after a call that failed the status may stay `Error` for
ever, since `writeStatus` (`imagepatch_controller.go:586`) compares with the status of the informer's copy: a retry from a copy
that does not show the `Error` yet takes the status before it for written, and a change of a status
wakes nobody (`StatusSettles` is violated by this sequence when calls may fail);
`EntryOfRunningPatchRemoved` has no disturbances, so that a run dying between its two writes is not
exercised (what it leaves is below);
an entry whose HelmChartConfig is gone is never removed (a test expects it to
stay) and keeps the controller waiting; a managed value that somebody changed before the
bundled tag moved past `spec.tag` is neither corrected nor reverted, the outcome is
`NotNewer` (`NoOlderImageKept` is about values that are still the applied ones); without `--tag` the CLI may choose a tag of a lower
minor line, which `--tag` would be refused for; values that were applied by a run
that died before its entry was saved, whose save conflicted five times, or whose user declined
to create the state namespace, have no entry; a pass that starts from an informer copy without the
marker applies a reverted spec again until a later pass reverts it (`RevertedStaysReverted`); `images.go` counts
containers where the output says pods, so a pod with an init container of the same repository counts twice; pods that
are not running are not counted, so a patch is called rolled out while the last pod cannot start;
one failed poll ends a scan that would have gone well; an upgrade between a run's check and its save leaves
entries of two versions; a listing stops at 200 tags, in the registry's order.

## 7. Plan

Done: the policy, the listing and selection of tags, the controller and its life cycle, the
CLI, both modes together (a violation run), the values, the scans; every safety property of
the passing runs proved. Left:

1. What the modes do keep when they meet in `PatchModes`: neither undoes a write of the other, since
   both write by resource version. The proof needs the lemmas of `CliProofs` on one
   run's step, instantiated beside the controller's snapshots.
2. The pods of a workload in place of `running`, with the count of `images.go`, and what the
   status claims while some of them cannot start.
3. A second leader for the moment of a hand-over.
4. Violation runs for the drifted value and for the status that stays `Error`, of section 6.
5. The merge of `image-patch` in `PatchValues`, without the guards of the controller.
