# TLA+ models of the BTP Crossplane provider

The provider (Go, crossplane-runtime, partly upjet/Terraform) turns Kubernetes
resources into SAP BTP objects: subaccounts, entitlements, service instances,
bindings, environments. Every resource kind has a controller whose reconcile
runs *Connect*, *Observe* and then one of *Create*, *Update*, *Delete* or
nothing. Nothing is kept in a database: the state is in the resource's
annotations, spec and status at the Kubernetes API server, in informer caches
that lag behind it, in a few process-wide caches, and in BTP. A reconcile works
on a copy of its resource and may die, fail or be overtaken between any two
calls. These modules model that.

## 1. Inventory

| part | state | operations | talks to | what is hard | what makes it correct |
|---|---|---|---|---|---|
| **usage tracking** `internal/tracking`, `controller/account/resourceusage` | ResourceUsage records with a finalizer, the in-use condition, informer caches, work queue | Track (every Connect), SetConditions, DeleteShouldBeBlocked, Reconcile of a record | every controller calls it; garbage collector | three lagging caches, a name used again, records deleted by others | a source is not deleted under a live target whose record was in force; records go when targets go; nobody waits for ever |
| **entitlement** `controller/account/entitlement`, `clients/entitlement` | external-name, Deleting condition, the assignment in BTP | Observe, Create, Update, Delete | siblings share one assignment; describe cache; BTP finishes later | read, list, write are three moments; adoption of foreign assignments; unset amounts | BTP converges to the sum; no quota without a resource; nothing foreign is taken without proof |
| **describe cache** `clients/entitlement` | TTL entry, singleflight calls | DescribeInstance, DescribeInstanceFresh, invalidate on write | all entitlement reconciles | flights overtaken by writes or by one another; a read joins a flight that began before a write; a write's answer is lost | a read sees every write invalidated before it, unless an older answer was on its way, and every write older than a TTL; a stored answer gives way only to a newer one |
| **service binding** `controller/account/servicebinding`, `clients/account/servicebinding` | external-name, pending name, force annotation, status, retiredKeys; bindings in BTP | Observe (heal, retire), Create (commit name, adopt), Update, Delete | key rotator, service manager lookup, status writer, managed reconciler's create annotations | the answer of a create is lost; the copy is outdated; two records of the current binding | no binding is untracked; the current one is not deleted; retired ones are, in time and with the resource |
| **recovery** `internal/recovery`, `clients/servicemanager/recovery.go` | create annotations | IsOwnedByCR, lookups | binding, instance, service manager, cloud management, subaccount | skewed clocks, same names | adopts only its own |
| **status writer** `internal/reconcilerutil` | none | fetch, apply, write, retry | binding and others | applies an old observation to a new resource | the last writer is not the most outdated |
| **terraform proxy** `clients/tfclient`, **service instance** `controller/account/serviceinstance` | Terraform state, one running operation and callbacks in memory; external-name, async condition, generation marker on the resource | Connect (import), Observe, launch of create, update, delete, callback, heal | Terraform, recovery, the managed reconciler | the callback comes after the next reconcile, fails, or dies with the process while BTP goes on | one operation at a time; its result belongs to its generation; the newest spec is applied; no instance leaks |
| **service manager, cloud management** `controller/account/{servicemanager,cloudmanagement}`, `clients/{servicemanager,cis}` | external-name "instance/binding", ids in the status, Terraform states in memory | Connect (migrate), Observe (heal), Create in two phases, Delete in two | recovery, Terraform, the managed reconciler's create annotations | crash, lost answer or loss in BTP between the phases | no half leaks; a recorded half is kept; both are recorded in the end; nothing foreign is taken |
| **subaccount, directory, subscription, Kyma and Cloud Foundry environment** `controller/account/{subaccount,directory,subscription}`, `controller/environment` | external-name, ready condition, retry counter; BTP's own processing | Observe (heal, recreate, circuit breaker), Create, Update (move, two calls), Delete | accounts, subscription and provisioning services | what a call started is unfinished, fails, or is not recorded | the spec is applied again and again; an object is deleted once; deletion completes and leaves nothing; nothing foreign is touched |
| **Kyma binding** `controller/kymaenvironmentbinding`, `clients/kymaenvironmentbinding` | the list of bindings in the status, the connection secret; bindings that become due and expire | Observe (list, validate, purge), Create with rollback, Delete | provisioning service, status writer | the status is the only record and is judged on copies; writes are given up | the secret works; a binding is made only when needed; bindings are tracked; rotation goes on |
| **memo map** `internal/memoize` | a map with ages and a key limit | Get, Set, Invalidate, collector, Stop | connectors and clients | checks and deletes under different locks | what was lost or replaced never comes back; fresh values stay |
| kyma module | none of its own; a list in an object of a remote cluster | Observe, Create, Delete | the Kyma cluster | list edited by others | one entry per resource |
| destinations, certificates, role collections, oidc, kubeconfig | none of their own | CRUD, token refresh | their services | drift | status follows the service |
| provider configuration, exporter, api types, generated clients | none | wiring, printing | | | |

`PROJECT.json` lists every part, and the hazards with their lines.

## 2. Modules

| module | models | composes |
|---|---|---|
| `ResourceUsage` | usage tracking from target to source | the API server, garbage collector, two kinds of managed reconciler as environment |
| `ResourceUsage_proofs` | theorems about it | |
| `Entitlement` | the resources of one (subaccount, service, plan, qualifier) | its own abstraction of the describe cache, BTP's processing |
| `Entitlement_proofs` | theorems about it | |
| `DescribeCache` | the cache in detail | |
| `ServiceBinding` | one binding resource with rotation | recovery's lookup, the status writer, the managed reconciler's create protocol |
| `ServiceBinding_proofs` | theorems about it | |
| `TwoPhaseCreate` | one service manager or cloud management resource | recovery's lookup, Terraform's states, the create protocol |
| `TwoPhaseCreate_proofs` | theorems about it | |
| `AsyncInstance` | one service instance | the asynchronous Terraform client, its callback, recovery's lookup, the create protocol |
| `AsyncInstance_proofs` | theorems about it | |
| `PolledResource` | one subaccount, directory, subscription, Kyma or Cloud Foundry environment | BTP's processing, the create protocol, recovery's window |
| `PolledResource_proofs` | theorems about it | |
| `KymaBinding` | one Kyma environment binding | the status writer attempt by attempt, the create protocol |
| `KymaBinding_proofs` | theorems about it | |
| `LossyStore` | what a memo map promises its callers | abstract |
| `MemoMap` | the memo map with its two locks | implements `LossyStore` |
| `Caches_proofs` | theorems about both caches: the memo map's, with the refinement, and the describe cache's | |
| `MC...` | small instances for TLC | |

The create protocol is the managed reconciler's: it announces a create in an
annotation, calls it, records its end, and stops at an attempt without an end
(`incomplete`) until the user removes the annotation.

### ResourceUsage

A *target* references a *source*. A record is named after both UIDs, so it is
identified by a target name and an instance number; `life[n]` counts instances
of a name up and down, which makes a cached life just an older number.
`TargetConnect`/`TargetApply`/`TargetAct` are the target's Connect (`Track`),
the `Apply` in `createTracking` and what the managed reconciler does next;
`SourceCheck`/`SourceExternalDelete` are the source's Delete, split between the
check and the call; `RUGet` to `RUAddFinalizer` are `Reconcile`, split at each
call to the API server. `SyncUsage` applies the `DesiredStateChanged` filter:
a finalizer's change wakes nobody. `cacheNewest`/`heldNewest` stand for
resourceVersions. `guarded` is a history variable: the records in force when the
source's deletion was asked for. *In force* (`Established`) means: the finalizer
is on, the source's cache and the reconciler's target cache know it, and no
reconcile that read the targets earlier is still under way. Less than that
does not protect (section 4).

### Entitlement

`Observe` reads (possibly cached) through `Await`/`FlightReturns`, decides by
`ExternalNameVerdict` (`observeExternalName`) and `ExistingVerdict` (the rest)
and records the aggregate it saw in `req`; the writes come in later steps, when
siblings may have changed. The Deleting condition (`delCond`) is set by the last
step of a Delete and is the only thing that takes a resource out of its
siblings' lists. BTP answers requests at once and finishes, or fails, later.
A first numeric assignment has no amount until it is granted. Amounts are
distinct powers of two, so every set of siblings has its own sum.

A write is `SetServicePlans` and, when it has returned without an error,
`Invalidate`; `WriteUnanswered` is the write that BTP has done and that returns an
error, after which the entry from before it stays. A read that finds an entry is a
flight as well (`hit`), because the lookup is inside the singleflight's closure.
`behind` and `misled` are histories: whether the entry or the flight, and whose
last answer, is older than such an unanswered write.

### DescribeCache

The assignment is the number of writes BTP has done. A read joins the flight on
its key or begins one (`Ask`), whatever the cache holds; all else happens in the
flight's closure, step by step: `Lookup` and `Purge` are `describeCacheGet`,
`Stamp` takes `issuedAt` and sends the request, `Serve` is BTP's answer,
`LoadOrStore` and `CompareAndSwap` are the loop of `describeCacheStore`, `Return`
answers everybody who joined. A fresh flight has a key of its own and no lookup.
Between any two steps the other flight, a write (`Write`), its invalidation
(`Drop`) or its lost answer (`WriteUnanswered`), and expiry (`Age`) may come. Time
is the number of requests sent, so "issued later" is the code's comparison of
stamps; what is stored is compared by its stamp, not by its data. Histories:
`quiet` is the newest version invalidated while no older answer was on its way,
`verAt` the version at each time, `floor` the version a TTL before a flight began,
`owed` what a caller's read must see, `kept` the newest stamp of an answer stored
since the last invalidation. The module's names are its own, so `Caches_proofs`
extends it beside `MemoMap`.

### ServiceBinding

Ids are numbers in order of creation, generated names are numbers, the spec's
name is 0. `mem` is the reconcile's copy; `Refused` (the copy differs from the
resource) is a conflict. A status write fetches first, so it succeeds on the
newest resource, or the reconcile ends. `due` and `expired` replace dates.
The steps from `CreateStart` to `CreateFailed` are `Create` inside the create
protocol: pending annotation, committed name, name in the status, lookup and
adoption, BTP's create, patch, success or failure.

What may come in between a reconcile's steps is named in `Allowed`: `force` (a
user forces a rotation), `edit` (rotation is switched on or off), `fault` (a
call fails, its answer is lost, or the process dies), `loss` (somebody deletes a
binding in BTP) and `stale` (a reconcile begins with an outdated cached copy).
`events` counts them; at most `MaxEvents` happen in a behaviour. A property that
does not hold under some of them says so with `Never(...)`, so every exception
is written down in the property itself and explained in section 4.

### TwoPhaseCreate

The name's halves are `cr.inst` and `cr.bind`; `None` in both is the fallback
name, in the second alone a truncated one. `tf` holds the two Terraform states
of the process: `Connect` makes the missing ones from the name, `Restart` drops
them. `Observe` is `ObserveResources` with `setStatus`, then `Verdict` chooses
between healing, creating, deleting and letting go. `RecordPending` to
`RecordResult` are `Create` inside the create protocol. A write conflicts when the deletion arrived after the reconcile
began (`Current`). `inWindow` stands for the comparison of BTP's creation time
with the last attempt (`IsOwnedByCR`); nothing foreign is ever in the window.
The two kinds share all of this and differ in `WithStatus`, `Recorded` and
`MigrationNeeded`.

The events in `Allowed`: `lost` (a call to BTP fails, done or not), `drop` (a
write of the resource fails), `blind` (a lookup fails), `restart`, `late` (a new
attempt comes after the window of what exists), `loss` (somebody deletes in BTP)
and `clear` (the user answers an attempt). They are counted as in
`ServiceBinding`, here and in the modules below.

### AsyncInstance

`tf`, `op` and `ended` are the process: the id in the Terraform state, the
operation that runs (or ended and was not observed yet), and the callbacks still
to run. `Restart` drops all three while BTP may go on. An operation that ends
(`CreateEnds`, `UpdateEnds`, `DeleteEnds`) leaves its result in `ended`;
`Callback` saves it later as the condition `cond`, with the generation that
`marker` holds by then (`saveCallback`), and may fail unnoticed. `Observe` and
`ObserveConflict` are the two branches of the controller's Observe; `Found`,
`LearnsName` and `NotExisting` are its decisions; `HealClears` and `HealNames`
are the two writes of a healing, each of which may conflict; `Mark` is the write
of the marker before every launch. When it conflicts or fails in a Create
(`MarkFails`), Create returns its error and the managed reconciler records an
answered, failed create. Events: `edit`, `reject` (an operation
fails), `lost` (its answer is lost, done or not), `drop`, `blind`, `restart`,
`late`, `loss`, `clear`.

### PolledResource

One module for five kinds, because the controllers have one shape: name, poll,
decide, start something. They differ in what is compared (`NeedsUpdate`), in
what Update calls (`UpdateKyma`, `UpdateSubaccount`, `UpdateDirectory` with
`UpdateDirectoryFeatures`), in whether a lost id is looked up (`LooksUp`), in
recreation (`ShouldRecreate`) and in the circuit breaker (`Counted`, `Broken`).
`first` and `second` are the generations of the spec that the two halves of the
object have; BTP finishes what was started in `CreationEnds`, `UpdateEnds` and
`DeletionEnds`, or fails it (`fail`). `deleting` in the resource is the Ready
condition's reason, which only recreation reads. A reconcile decides on one
answer of BTP (`seen`). `UserClearsIncomplete` takes external-create-pending away
and with it `attempted`, the proof of the attempt that `LooksUp` asks for.

### KymaBinding

`binds` and `active` are the status. `Describe`, `Validate` and `Purge` are
Observe; `CreateInstance`, `AppendNew`, `Rollback` and `PublishConnection` are
Create; `UpdateStatusWithRetry` is the status writer attempt by attempt: it
writes, judges again on a newer copy, or is given up while the reconcile goes
on. `base` is the copy as it was read (its resourceVersion), `mine` as it is
now. `due` and `expired` replace dates; older bindings become due first. `cut` is
a connection that breaks during a deletion, which the client counts as done.

### MemoMap and LossyStore

`Get` is `GetReads` under one lock, `GetJudges` without, `GetPurges` under
another. Values are numbered as they are stored, and `horizon` is the newest
value that has expired. `LossyStore` says what callers may rely on: an answer is
nothing, or a value that was stored at one moment between question and answer;
anything may be lost, nothing lost comes back. `KeepsPromise` is the refinement,
with `asked` computed from the caller's step and `seen` its read value.

## 3. Runs

Passing:

| run | instance | shows |
|---|---|---|
| `MCResourceUsage` | 1 source, 1 name used twice; 2.3 million states | a record in force protects the source and stays in force, finalizers outlive their targets |
| `MCResourceUsageLive` | 1 source, 1 target, 1 restart, fair | deletions complete; records go, or stall in the one way `Stalled` names |
| `MCEntitlementSerial` | 2 resources, numeric or enable-based, one reconcile at a time, an abort or a lost answer, a failed operation, a foreign assignment, every sort of name; 2.6 million states | no quota without a resource, but for a deletion misled by the entry that an unanswered write left |
| `MCEntitlementConverge` | 2 resources of either sort, reconciles overlap, a foreign assignment, fair; 1 million states | BTP converges to what is left; foreign assignments are written only with a claim |
| `MCDescribeCache` | 3 reconciles, 1 write, 3 requests; 0.3 million states | reads see the writes they must, stored answers give way to newer ones only |
| `MCServiceBinding` | 3 bindings, any 2 of the 5 events, fair; 0.8 million states | bindings are tracked, keys kept and deleted in time, a forced rotation makes a new one, deletion completes and leaves nothing |
| `MCTwoPhaseCreate` | both kinds, 4 starting worlds, any 4 of the 7 events, fair; 0.3 million states | a recorded half is kept, both halves are recorded at last, deletion completes and leaves nothing, nothing foreign is taken |
| `MCAsyncInstance` | 3 starting worlds, any 2 of the 9 events, fair; 76 thousand states | failures belong to their generation, the newest spec is applied at last, deletion completes and leaves nothing, nothing foreign is taken |
| `MCPolledResource` | five kinds, with and without recreation, a foreign object or none, any 3 of the 8 events, fair; 0.2 million states | the spec is applied again and again, nothing is deleted twice, deletion completes and leaves nothing, nothing foreign is changed |
| `MCKymaBinding` | 3 bindings, any 2 of the 9 events, fair; 1 million states | the secret works, bindings are made only when needed and stay tracked, rotation goes on, only rotated bindings outlive the resource |
| `MCMemoMap` | 2 callers, 2 keys, limit 1, 3 values | the map implements `LossyStore`; fresh values go only in the two ways named |

Violated, the finding of `PROJECT.json`: `MCEntitlementOrphan`. Two enable-based
siblings deleted together each leave the rest to the other, and the assignment
stays enabled without a resource. With numeric plans two reconciles break it too
(`Kinds = {TRUE}`), though in another way: a read issued before the first write
tells both deletions that there is no assignment.

**Bounds.** One source and one target name are enough for ordering, because a
record belongs to one pair and pairs share only the source's check; two
instances of a name cover reuse. Two entitlements are the least with a sibling;
with powers of two as amounts, every wrong sum is visible. One write and three
requests let a read join a flight that began before the write, and requests,
stores and purges overtake one another; the proofs cover any number. Three
bindings are one first binding and two rotations; two events are enough for
every exception found in it but two (a retired key is dropped after two edits
and an outdated copy; a deletion fails in part when the current binding was retired
after a disturbed create); its safety properties were also checked with three. In `TwoPhaseCreate` four events allow a lost answer in
each phase with a restart and a failed lookup (five give the same results, with
a million states). In `AsyncInstance` two events let a result be lost and the
process restart, or a callback overlap an edit; three give the same results,
with 0.7 million states and four minutes. In `PolledResource` three events are
an edit, a failure of BTP and one more, and four objects are the foreign one
and three generations of the resource's own. `KymaBinding` reaches with two
events an edit between two status writes of an outdated copy, and with three
bindings two rotations; its safety properties were also checked with three
events, in 7.9 million states. One stored key of two is the least limit that a
second key meets. `RoomToRotate` keeps a binding
from becoming due when the bound leaves no room: BTP has none. CHECK_DEADLOCK
is off since users may stop and everything be done. The ignore annotation is
part of `ResourceUsage`, and the theorems cover every `Ignore`; the runs use
none.

**Fairness.** Weak, per controller (`TargetReconcile`, `SourceReconcile`,
`RUReconcile`, and `Reconcile` of the others): resources are polled (1 min) and retried with
backoff (1 s to 60 s), and within a reconcile one call follows the other.
Informers deliver, the garbage collector and BTP's processing run, cache entries
expire (`describeCacheT`). In `AsyncInstance` an operation's end and its
callback are strongly fair between two reconciles (`Between`): operations have
a deadline and callbacks run at once, in seconds, while reconciles are a minute
apart; without it every end might fall within a reconcile, for ever. Nothing
says that a callback comes before the next reconcile. Users, restarts, failures, losses and somebody else's
writes are bounded and owe nothing.

## 4. What the code does not promise

One disagreement between code and text is a run (`MCEntitlementOrphan`). These
others came up while modelling; where the first column names a property, the exception
is written in it.

| where | what | said |
|---|---|---|
| `EstablishedUsageProtects` (record must be *in force*) | Delete decides on a cached list (`resourcetracker.go:285-313`): a record the cache has not seen does not block | `docs/contribution-notes/resource-usage-tracking.md:89`: "our `Delete()` refuses while RU records still exist." |
| `ReadsAreRecent` (no older answer on its way) | a flight that has loaded the old entry, or that BTP answered before the write, is under way at the invalidation: a read begun after it joins and gets the old answer; one from BTP is stored as well (`entitlement.go:165-188`) | `clients/entitlement/entitlement.go:260`: "so the next Observe reads fresh state instead of pre-write data." |
| the same (a write that is invalidated) | BTP has written but the call returns an error, so the entry from before the write stays until it expires (`entitlement.go:256-262`) | the same |
| `NoOrphanedQuota` (`misled`) | the answer of the write that made the assignment is lost while the entry says there is none; a deletion within its TTL decides on the entry and lets the finalizer go with the quota assigned | `entitlement.go:418` of the controller: "When deleting, sibling CRs continue managing any remaining amount." |
| `EveryBindingIsTracked` (no `stale`) | an outdated observation written into the fresh status (`servicebinding.go:199`) makes the retired binding due again; the current one is replaced and leaks | `keyrotator.go:19-26`: "find and adopt the binding it already made rather than leaking it and creating another" |
| the same (no `edit`, no `force` without rotation) | the sort of name changes after a lost create, so the lookup misses the binding; rotation switched off between Observe's decision and its status write replaces the current binding without retiring it | the same |
| the same (no `loss`) | a binding lost in BTP and a lost create: external-name is no fallback any more, so nothing is healed | the same |
| `DeleteLeavesNothing` (no `loss`) | while deleting, a missing current binding lets the finalizer go although retired bindings exist (`servicebinding.go:186-196`) | `service-binding-rotation.md:116`: "all remaining instances should be deleted" |
| the same (no `fault`) | a rotation's create loses its answer or its result is not recorded, and the resource is deleted: Delete knows the retired keys and the external-name, which is no fallback, so nothing is looked up and the new binding leaks; a first create's is looked up, best effort | the same |
| the same (no `fault`) | the current binding was retired itself after a disturbed create, and Delete removes it among the retired keys but not all of them: the next observation finds nothing and lets the finalizer go | the same |
| the same (no `edit`) | rotation switched off between Observe's decision and its status write: the current binding is replaced without being retired (`keyrotator.go:116-120` judges the newest copy) | the same |
| the same (no `stale`) | an outdated observation in the fresh status makes Observe retire the wrong binding, and the current one is replaced | the same |
| `RetiredKeysAreKept` (no `stale`) | an outdated copy whose name differs from the status makes Update replace the whole list of retired keys by the copy's (`servicebinding.go:389-395`) | |
| `ForceMeansNewBinding` (no `fault`) | after a disturbed create a forced rotation adopts the binding it retired, and Update later deletes the live binding (`keyrotator.go:234`) | `service-binding-rotation.md:80`: "This duplication is not a problem." |
| rotation switched off midway | the current binding stays in retiredKeys | the same: the status "should always represent the current instance" |
| `rotation.ttl` left out (not modelled) | `keyrotator.go:146` dereferences it although the API makes it optional | `servicebinding_types.go:80` |
| `UsageReleasedOrStalled` (`Stalled`) | a record whose target was still cached when it was last reconciled is never released: only records are watched (`setup.go:35-38`), nothing requeues (`reconciler.go:196`) | `reconciler.go:193`: "We're watching our usages, so we'll be requeued when they go." |
| `isRotationEnabled` | the force annotation alone changes the name Create uses (`servicebinding.go:586-596`) | `keyrotator.go:98`: "If force rotation is requested but rotation is not configured, ignore the request" |
| `DeletionCompletes` of `TwoPhaseCreate` (not `Stranded`) | the answer of a binding's create is lost and the resource is deleted: a deletion heals nothing while the instance exists, the binding is unknown, and BTP keeps an instance that has a binding | `servicemanager.go:336-339`: "so a failed binding create cannot strand the instance" |
| `DeleteLeavesNothing` of `TwoPhaseCreate` (not `lost` with `blind`) | while deleting, a failed lookup counts as nothing to heal and the finalizer goes (`servicemanager.go:240-251`) | `recovery.go:86-90`: "Returning {ResourceExists:false} would be unsafe on the delete leg" |
| the same, and `BothAreRecorded` (not `Replaced`) | a name beside a loss is complete, so a create whose answer is lost is neither healed nor remembered | |
| `BothAreRecorded` (not `Masked`) | a truncated name stays while the process's Terraform state knows the binding, until a restart | |
| `BothAreRecorded` (not `Replaced`), cloud management | once its instance is lost in BTP it asks for ever for a binding of it: the status is never cleared (`cloudmanagement.go:420`, `cis_tf_client.go:175`) | `external-name-handling.md:176` |
| `HealExternalName` | a truncated name is healed | `external-name-handling.md:95-97`: a single UUID is not recoverable |
| `MayAdopt` | a sibling with a deletion timestamp but no Deleting condition vouches (`entitlement.go:847`) | `entitlement.go:339`: "a non-deleting same-key sibling" |
| `FreshIsPurgedLate` | a Get that judged an old value deletes what has been stored since (`memoize.go:157`) | `memoize.go:135`: returns a stored value "unless the key is expired" |
| `EditsDoNotRelabel` (marker of a later launch) | the callback of an ended operation that runs after the launch of the next is saved with the later generation: a spurious retry (`serviceinstance.go:94`) | `serviceinstance.go:95`: "so a spec edit alone does not relabel an earlier operation's result" |
| `DeleteLeavesNothing` of `AsyncInstance` (not `lost` or `restart` with `blind` or `loss`, no `clear`) | a create whose answer was lost, or that a restart cut, is not found when the lookup fails (it counts as nothing found), when the name is that of a lost instance, or when the user has removed the annotation that proves the attempt: the finalizer goes with the instance left (`serviceinstance.go:253-263`) | `serviceinstance.go:249-251`: "Recovery also covers the delete leg" |
| `SpecIsApplied` of `AsyncInstance` (not `Refused`) | a create refused for its name, that the window does not prove or whose attempt the user cleared, waits for the user | |
| `SpecIsApplied` of `PolledResource` (circuit breaker) | polls that saw the same difference are counted, not failed updates, also while BTP creates or updates: an edit during a creation of three polls is never applied (`kymaenvironment.go:337`) | `kymaenvironment_types.go:99-104` |
| the same (`broken` with equal parameters) | a failed update that changed nothing is not retried | |
| the same (recreation) | the Deleting reason is set before the call and locks recreation: a lost call, a quick second failure, or a subscription in UNSUBSCRIBE_FAILED, which counts as failed but is not deletable | `subscription_types.go:88-92` names SUBSCRIBE_FAILED only |
| the same, and `DeletionCompletes` (subscription) | a subscription that BTP failed to delete stays, also when its resource is deleted | |
| the same (directory) | after a failed update the directory is not available, and only available ones are updated | |
| `DeletedOnce` (`ShouldRecreate`) | a deleted resource whose object failed is deleted by its observation and again by the reconcile | `subscription.go:238`: "api will return 500 if called multiple times, so we will ensure to call it only once" |
| `DeleteLeavesNothing`, `SpecIsApplied` of `PolledResource` (`Unrecovered`) | directory, environments and subscription never look up what a lost create made: a conflict for ever, and a leak on deletion; the subaccount looks only while it has no name, and a failed lookup counts as nothing | |
| the same, subaccount (`clear`) | the user answers an unanswered create by removing external-create-pending, which is also the proof of the attempt (`recovery.go:60-81`, `subaccount.go:178,192`): the subaccount it made is not healed until the next attempt, and by then its window has moved, so a live resource meets its own object as a conflict for ever and a deleted one leaves it | |
| `EveryBindingIsTracked`, `DeleteLeavesRotated` (no `refuse`, `cut`) | a Kyma binding whose deletion or rollback fails is not deleted again; a transport error counts as deleted (`binding.go:80`) | |
| `DeleteLeavesRotated` (bindings past rotation) | while the only active binding is due, a deletion finds nothing active and lets the finalizer go with the due bindings left (`kymaenvironmentbinding.go:106`) | |
| `SecretWorks` (*a* binding, not the newest) | only Create returns connection details: after a failed publication or a crash the older one stays until it expires | |

## 5. Proofs

Proved by TLAPS for any set of sources and targets, any reference function, any
ignore set and any bounds, from `ConstantsAssumption` alone
(`ResourceUsage_proofs`): type correctness, `EstablishedUsageProtects`,
`ProtectionIsStable`, `FinalizerOutlivesTarget`. The safety property is not
inductive. Its strengthening `IInv` adds that cached lives lag behind the real
ones (`ReadsLag`) and that a record in `guarded` is in force until its target is
gone (`GuardsHold`): then the source's cache still lists it, so the check
blocks. A record in force is safe from the reconciler because what a reconcile
read of the target is not older than the cache and the cache is the real one.

`Caches_proofs`, for the describe cache and any number of reconciles, writes and
requests: `ReadsAreRecent` and `StoredAnswersStand`. Neither is inductive, as what
a read returns comes from a flight, which has it from BTP or from the entry, which
another flight stored. `IInv` adds what each flight has at each step of the closure
(`FlightsFit`: its answer includes the quiet writes and those a TTL older than its
beginning; what it stores is as new as its stamp; what it purges is expired; what
it swaps was issued earlier), the same of the entry (`EntriesFit`), that versions
only grow with time (`TimesGrow`: so an entry that is still fresh, stamped after
`aged`, includes every version a TTL old), and that a reconcile that waits has a
flight that owes it no less than it must see (`WaitersAreServed`).
`StoredAnswersStand` needs that a flight swaps exactly the entry it has loaded and
purges only what has expired, whatever came between the two.

`TwoPhaseCreate_proofs`, for any kinds, starting worlds, events and bound: type
correctness, `ForeignIsSpared` and `RecordedIsKept`. For the first, `IInv` adds
the other places from which a name is made (status, Terraform states, what
Create returned: `OursAlone`), that theirs are the older ids, and that in BTP a
binding of theirs belongs to an instance of theirs, which no window proves ours
(`ForeignInBTP`). For the second, `RInv` says what each write of the name relies
on: a migration fills in the binding of the instance already named
(`MigrationIsSafe`, which rests on `StatusFollows`), a heal comes only for a name
without a binding (`HealsIncomplete`), and a create's result extends the recorded
instance or replaces a lost one (`MadeFits`, which rests on `Chosen` and
`StatesFollow`: a process that creates knows what the name says).
`DeleteLeavesNothing`: `LInv` adds that an instance of ours is in the name, or made
by a create that is still unanswered, or one that the lookup will find
(`InstanceIsKnown`), and how steps follow each other, with no binding of ours where
there is no instance of ours (`Orderly`).

`ServiceBinding_proofs`, for any number of bindings, events and edits: type
correctness, `RetiredKeysAreKept`, `EveryBindingIsTracked` and `ForceMeansNewBinding`.
`KeyInv` adds to the types that a reconcile that did not begin with an outdated copy has the resource's own list of
keys, and that what Update is about to drop is gone from BTP (`NoKeyIsDropped`);
only `Rotate` and `UpdateRetiredKeys` write the list. For `EveryBindingIsTracked`,
`TInv` adds that a reconcile knows what the resource says of its bindings
(`Knows`), and, with rotation (`Generated`), that a binding is the current one,
retired, or has the committed name; that a create begins only when the current
binding is retired or missing; and that the observation before it puts the
current id into the status, or finds it there: what `Rotate` retires is the
status's id, what `Create` overwrites the external-name. Without rotation
(`Plain`) there is one binding, of the spec's name. For `ForceMeansNewBinding`,
`Fresh` says that, while no call fails, the name a create committed belongs to no
binding until `CreateBinding` makes one of it, so that there is nothing old to
adopt; ids grow (`InOrder`), so what is recorded is new. `DeleteLeavesNothing`:
`DInv` adds that, without disturbing events, a copy is the resource's (`Knows`),
that every binding is current, retired or just made (`Held`), that while there is
any the current one is there (`Anchored`), and that the current one goes last
(`InTurn`).

`AsyncInstance_proofs`, for any starting worlds, events and bound: type
correctness and `ForeignIsSpared`. `NoForeignId` says that neither the resource,
the reconcile's copy (with what its lookup found) nor the Terraform state has the
foreign id, and that what is in the window is not foreign: ids that a create
makes are newer, and a heal takes only what is in the window. `EditsDoNotRelabel`
follows from `GInv`: the marker in the resource is never behind what the copy
knows (`MarkerLeads`), and neither an operation nor a failure that is not yet
saved is newer than it (`ResultsAreMarked`). `DeleteLeavesNothing`: `LInv` adds that
a copy has the resource's name and attempts (`CopyKnows`), that an instance of ours
is in the name, in the Terraform state or in the window of the lookup
(`InstanceIsKnown`), that the name is that of the instance there (`NamesFit`), and
that nobody creates or lets go beside a running operation (`Orderly`); a create
that failed at the marker has launched nothing.

`Entitlement_proofs`, for any finite set of resources and any amounts: type
correctness, `ForeignAssignmentUntouched` and, with one reconcile at a time,
`NoOrphanedQuota`. A request is at most what all resources ask for together; that
`Total`, a fold over a set, is well defined, does not depend on the order and
grows with the set (`SumsExist`, `TotalTakesOut`, `TotalGrows`) is shown by taking
a smallest set that contradicts it, as the induction rules of the library have an
operator parameter. For the second, `VInv` adds that a name is never taken away
and that a reconcile on its way to a write was let on by one, or read that there
was nothing (`WritesAreVouched`). For the third, `QInv` adds that only one
reconcile is under way and that a flight has it waiting (`FlightIsAwaited`), so a
answered write leaves no older answer behind, and an unanswered one marks the entry and
the flight as `behind`: whatever else can still be judged (`Known`) and says
that there is nothing to release is true (`WhatIsReadHolds`), and a finalizer goes
only then, beside a sibling, or for a resource that an older answer has misled
(`LastOneLetsGo`). With two reconciles this is false,
as `MCEntitlementOrphan` shows; one at a time is `--max-reconcile-rate=1` (its default is 3), which is
`MaxConcurrentReconciles` (`cmd/provider/main.go:157`).

`PolledResource_proofs`, for any kinds, events and number of objects: type
correctness and `ForeignIsSpared`. Every call to BTP needs a name, so `PInv` adds
that beside a foreign object nothing has one (`NothingIsNamed`: a create is a
conflict, and no lookup finds it in the window), and that an own object differs
from it (`OwnIsNotForeign`). `DeletedOnce`: what is being deleted was seen so, or
this reconcile has just asked (`DInv`). `DeleteLeavesNothing`: `LInv` adds what
the copies share with the resource (`Copies`), that without lost answers and
writes the one object there is recorded or about to be (`Recorded`), and that a
subaccount's is recorded or still in the window of the lookup (`CanBeFound`: a
live subaccount with an id has its object, so only one without an id creates,
and its observation has found nothing). It needs that the user answers no create:
the answer takes the attempt away by which the lookup finds the object.

`KymaBinding_proofs`, for any number of bindings and any events: type
correctness, `EveryBindingIsTracked`, `DeleteLeavesRotated`, `SecretWorks` and
`MadeWhenNeeded`. None is inductive. `KInv` adds that copies are never newer than
the resource and that only expired bindings are purged (`Ordered`), that what is
not active in any copy is past rotation (`InactiveAreDue`), what each step knows
of the status it will write (`StepKnows`), that a binding just made is there
until its reconcile is done with it (`NewIsThere`), that every copy that can still
be written lists what BTP has (`Tracked`), and that a copy without a conflict is
complete (`WritableIsComplete`): that is why a status write given up loses
nothing.

The same module, for the memo map, any finite set of keys, any callers, limit and number of
values: type correctness, the refinement `Spec => KeepsPromise` and
`FreshIsPurgedLate`. Every step of the map maps to a step of `LossyStore` or a
stutter: `Set` puts, `Invalidate` and `Collect` lose, `GetReads` looks,
`GetPurges` answers nothing while losing a key. The second theorem needs that who
purges has judged an expired value (`Judged`).

The provers use the named assumptions of the modules only (`ConstantsAssumption`
and `MapAssumption`), and TLC evaluates these in every run.

Proving also corrected the model: in four modules a `CASE` had guards that overlap,
and TLA+ does not say which alternative holds then. They are exclusive now, or an
`IF`, in the order of the code's early returns.

Only model-checked: liveness, which is out of the prover's reach under fairness.

## 6. Not modelled, and assumptions

- Kubernetes (optimistic concurrency, finalizers, garbage collection, informers
  that never go back), crossplane-runtime's managed reconciler and BTP are
  environment, modelled from how the code uses them.
- ResourceUsage: references do not move; sources are not recreated; the status
  update of a blocked record does nothing (the CRD has no status subresource).
- Entitlement: amounts are not edited; all resources of a key are of one sort;
  sibling lists are current when taken; a resource is reconciled once before it
  is deleted.
- ServiceBinding: the only drift is a name that differs from the status; no
  parameter edits; secrets' contents, deletion-attempt counters and settings
  validation are left out; the ownership window of a heal is a free choice.
- TwoPhaseCreate: the upjet/Terraform external client is not in the repository;
  it keeps a state per process, makes a missing one from the name, reads by id,
  and finds nothing to delete where something is gone or unknown. BTP refuses a
  second object of a name, a binding of an instance it does not have, and the
  deletion of an instance with a binding. Somebody else's objects are not born
  within the window of our attempt. Plan lookup, the temporary admin binding,
  Update, the usage tracker's block and malformed names are left out.
- AsyncInstance: the same Terraform client, asynchronous: one operation at a time,
  its state in memory, a create that BTP refuses for its name reported as a
  conflict. Health flags, the plan lookup, secrets of parameters and the usage
  tracker's block are left out; a second create is not launched while one runs.
- PolledResource: BTP refuses calls on an object that it is processing, and a
  second object of a name; an update sets both halves when it ends (Kyma: its
  parameters). Labels, the migration of old names, managers and users of an
  organization, the Cloud Foundry login cache, observe-only names and the usage
  tracker are left out.
- KymaBinding: expiry is later than rotation, and older bindings expire first; the
  kubeconfig's contents are left out.
- MemoMap: a value's age is its place in the order of stores.
- Left out as a whole: the service binding's temporary admin binding of a plan
  lookup; destinations, certificates, role collections and the kyma module, which
  do one synchronous call per reconcile and keep nothing in between; oidc and
  kubeconfig (token refresh and text); provider configuration (wiring); the
  exporter (offline listing and printing).
- Five of six lines of the repository's implementation are generated: the API
  clients under `internal/openapi_clients` (130 thousand lines) and the deepcopy
  and accessor methods of `apis` (14 thousand). They hold no state and no
  decision of the provider. The modules cover the controllers and clients with
  state or decisions, among some ten thousand lines of them; a share of the whole
  that counts the generated code stays small whatever is modelled.

## 7. Plan

The ten models above and eight modules of proofs exist. What is left, the most
important first:

1. `Entitlement` over `DescribeCache`: an abstract cache that returns some value
   no older than its reads are owed, implemented by `DescribeCache`, in the place of
   `Entitlement`'s own.
2. `BindingPromise`, an abstract specification of what a rotated binding
   promises (one current binding, a set of retired ones), implemented by
   `ServiceBinding` without disturbing events; "both or neither is recorded",
   implemented by `TwoPhaseCreate` without failures.
3. `ResourceUsage` as the block of the modules' Delete: what a source's deletion
   waits for while its own creation is unanswered.
4. The migrations of old external-names of subaccount and Cloud Foundry, the
   temporary admin binding, and the kyma module's list in the remote object.
