# A TLA+ verification of groot-windows

groot-windows is the Garden image plugin for Windows: it pulls container images,
unpacks their layers into a store on disk, and creates, inspects and deletes the
volumes of containers. Each command is one short-lived process. Commands run at the
same time on one store, and any of them may be killed at any point. This project models
the two stores and the processes that work on them, the composition of both into a
command, the tar stream, the arithmetic of limits and the test doubles; checks the models
with TLC on small instances; states what the stores promise as abstract specifications
that they implement; and proves with TLAPS, for every instance, all the safety properties
that hold: of the stores, of the commands composed of them, of the tar stream, the limits
and the doubles, refinements included.

Paths are relative to the repository (`src/` in `PROJECT.json`); `groot/`, `filelock/`
and `hcsshim/` are the vendored packages of those names.

## 1. Inventory

| Component | State | Operations | Hard behaviour |
|---|---|---|---|
| Layer store: `driver/unpack.go`, `driver/driver.go` | `<store>/layers/<chain ID>` directories, each with a `size` file once unpacked | `Unpack` | no lock; a check and the delete it justifies are separate calls; the size file marks a layer as final before the writer is closed; crash at any call |
| Image puller: `groot/imagepuller` | the pull's running size, position in the chain | `Pull`, `buildLayers`, `buildLayer`, `chainIDs`, `quotaExceeded` | a failed layer must stop the chain; sizes are added across cached and unpacked layers |
| Layer writers: `hcsshim/internal/wclayer` | open directory handles, the current file, a remembered error, staged files | `Add`, `AddLink`, `Remove`, `Write`, `Close` | base and other layers differ: one writes in place, the other stages and imports in `Close` |
| Privilege elevator: `privilege/elevator.go` | process privileges | enable, disable | must bracket every use of the writer |
| Volume store: `driver/bundle.go`, `delete.go`, `stats.go`, `write_metadata.go` | `<store>/volumes/<bundle ID>`: sandbox layer, active, prepared, quota, `metadata.json` | `Bundle`, `Delete`, `Stats`, `WriteMetadata` | clean-up after a failure; partial volumes after a crash; a check outside the lock |
| HCS client: `hcs/client.go` | none of its own | `CreateLayer`, `DestroyLayer` and pass-through calls | three calls under a machine-wide file lock; a retry loop whose error message dereferences three errors |
| File lock: `filelock` | `create.lock` | `Open`, `Close` | blocks; must not outlive its holder |
| Disk limiter: `volume/limiter.go` | quota of a mounted volume | `SetQuota`, `GetQuotaUsed` | zero means unlimited; a fixed overhead is added; sizes at the ends of their range |
| Tar streamer: `tarstream/tarstream.go` | position in the tar, backup copies of boot files | `SetReader`, `Next`, `WriteBackupStreamFromTarFile` | one buffer for all entries; deferred flush and closes when the error may already be `io.EOF` |
| Commands: `groot/create.go`, `pull.go`, `delete.go`, `stats.go` | none | create = pull, limit arithmetic, `Bundle`, `WriteMetadata` | an error after `Bundle` leaves the volume |
| Command line: `main.go`, `groot/groot.go` | the store directory | one command per process | an empty store is refused by some operations and resolved to `C:\` by others |
| Test doubles: `driver/fakes`, `hcs/fakes` | per method arguments and programmed results, over all methods the invocations | calls, setters, readers, `Invocations` | one mutex per method and one over all, taken in two orders |
| Fetchers | none that outlives a call | registry and file access | not modelled |

Interaction: `create` calls the puller, which calls `Driver.Unpack` once per layer, base
first; then `Driver.Bundle`, which calls the HCS client (under `create.lock`) and the
limiter; then `Driver.WriteMetadata`. Processes meet only on disk and at `create.lock`.

What makes the parts correct:

- *Layer store*: a layer that is final stays as it is; a size file holds the true size;
  a final base layer has every file; what a failed or killed pull left is repaired by
  the next one; parents are there when a layer is imported; the writer is privileged.
- *Volume store*: sandbox layers are made one at a time; a successful create gives a
  mounted volume with the promised quota and metadata; nothing but a delete touches a
  finished volume; delete removes whatever a create left; nobody waits for the lock
  forever.
- *Command*: a container is charged what its image's layers hold; the layers under a
  volume do not change; a healthy create succeeds whatever earlier ones left.
- *Limits*: no wrap and no conversion turns a limit into another one, or a usage.
- *Tar streamer*: `io.EOF` means that every entry, and every backup copy, is whole.
- *Test doubles*: the records agree with each other and with the results handed out.

The hazards, each at its line and with the properties aimed at it, are the `hazards` of
`PROJECT.json`.

## 2. Modules

| Module | What it is |
|---|---|
| `LayerStore` | pulls by several processes on one layer store |
| `LayerClaims` | abstract: the size file as a claim protocol; `LayerStore` implements it |
| `MCLayerStore` | its instances: a chain of three layers, two images over one base, one layer |
| `LayerStoreProofs` | proofs: types, privileges, final layers, the refinement of `LayerClaims` |
| `PullProofs` | proofs: sizes, parents and base layers |
| `VolumeStore` | create, delete and stats by several processes on one volume store |
| `BundleSpec` | abstract: what create, delete and stats promise a serial caller; `VolumeStore` implements it |
| `MCVolumeStore` | its instances: the kinds of limits, and one request |
| `VolumeStoreProofs` | proofs: `create.lock`, types; for serial callers, volumes and the refinement of `BundleSpec` |
| `Groot`, `MCGroot` | a command from its flags to its exit: instances of `LayerStore` and `VolumeStore` over one environment |
| `GrootProofs` | proofs: commands use the two stores as their models allow; sizes charged; layers under volumes |
| `Limits`, `LimitsProofs` | sizes, limits, quota and usage at machine width; proofs |
| `TarStream`, `MCTarStream`, `TarStreamProofs` | the tar streamer's buffer, backup copies and deferred calls; proofs |
| `Fake`, `FakeProofs` | the five generated test doubles, which share one shape; proofs |
| `Sums`, `SumsProofs` | sums over the entries of a tar and the layers of an image; the lemmas about them |

The two store models give each process a program counter `pc[p]` that names the next call it
makes, and a record `op[p]` with the locals of the command. One call on shared state is
one action. An error return is the other disjunct of its action: it jumps to the first
deferred call that has still to run. Definitions whose name has a suffix after `_`, such
as `Taken_Ignored`, are mutated forms of the definition after them; nothing uses them in
the specification, and they serve to show that a property notices the defect.

### LayerStore

`disk[l]` is the directory of a layer: whether it exists, its files (entry of the tar,
whole or cut off), whether a writer's `Close` has finished it, and the size file
(`NoFile`, `Torn` if it was created and not filled, or a number). `writer[p]` is the open
layer writer, `priv[p]` the two privileges.

| Action | Code |
|---|---|
| `Start` | `Pull` of a new process, `ImageInfo` |
| `LayerExists`, `EnableProcessPrivileges`, `ReadSize` | `Unpack` lines 27-59 |
| `DestroyLayer` | one round of the loop in `Client.DestroyLayer` |
| `MkdirAll`, `NewLayerWriter` | `Unpack` lines 61-77 |
| `FirstHeader`, `WriteEntry`, `EntryFails`, `StreamFails`, `ContentFails` | a round of the tar loop, and the ways it ends early |
| `CreateSizeFile`, `WriteSizeFile` | the `os.WriteFile` of line 124, split where a crash can fall |
| `CloseWriter`, `DisableProcessPrivileges` | the deferred calls, in their order; `buildLayers` after `Unpack` returns |
| `Crash`, `Heal` | a process dies; calls stop failing |

A base layer's writer creates files in place with `FILE_CREATE` (an existing file is an
error) and refuses whiteouts; the other writer stages and imports in `Close`. A failed write
leaves its error in either writer (`err`), and `Close` then ends before it finishes or
imports the layer. After any other failure, such as a tar that breaks off, `Close` imports
what there is.

### VolumeStore

`vol[h]` is the volume of a bundle ID, `lock` the holder of `create.lock`. Any volume may be
one that an older groot made, mounted and without `metadata.json` (`OldVolume`); such a
volume counts as remains in `BundleSpec`: it stops a create, and a delete takes it away.

| Action | Code |
|---|---|
| `Create` | `groot create` up to `Bundle`: the pull as one step, the limit arithmetic |
| `BundleExists`, `GetLayerMountPath`, `SetQuota` | `Bundle` and `Limiter.SetQuota` |
| `LockCreate` ... `UnlockCreate` | `Client.CreateLayer` |
| `CreateMetadata`, `FillMetadata` | `WriteMetadata` |
| `UnprepareLayer`, `DeactivateLayer`, `DestroyLayer` | `Client.DestroyLayer`, from `Delete` and from the clean-up of `Bundle` |
| `Delete`, `DeleteExists` | `Delete` |
| `Stats`, `StatsMountPath`, `GetQuotaUsed`, `OpenMetadata`, `StatsMetadata` | `Stats`; `os.ReadFile` holds `metadata.json` open between two steps |

`Serial` restricts the environment to one create or delete at a time per bundle ID, with
stats at any time, which is how Garden uses the plugin. Runs that need it set it;
`volumes_lock` and `volumes_two_creates` do without.

### Groot

`job[p]` is the command line of a process and whether its pull is over; `parents[h]` the
layers `CreateSandboxLayer` was given. `Pull` starts `LayerStore` in the process,
`AfterPull` hands the size it returned to `VolumeStore`, and every step of a process is
one of either store. `Requests` are what `VolumeStore` may be asked for: a limit of a command
line with the exact size of an image; that `Bundle` is asked for nothing else is checked and
proved (`HalvesFollow`), not built in. A process keeps the outcome of its last volume command until it
starts the next one. `Init` has the layers without size files of an older groot and its
volumes on them; `parents` is empty for those. An unset store (`NoStore`) stops pulls and deletes; stats has no such
check and looks in the root of drive C (`Resolve`), which may be the store.

### Limits

One container after the other: `QuotaExceeded` (manifest against limit), `BuildLayer`,
`CreateQuota`, `SetQuota`, then any usage and `Stats`. Integers are `W` bits wide and wrap
as Go's (`Half` is 2^(W-1)). A manifest may claim any size; bytes that exist lie on one disk, whose size an
int64 holds, so the image and the usage of a volume together do not exceed it (`Usage`).
That the sum in `stats.go:41` does not wrap rests on this, not on a check in the code.

### TarStream

`BeginEntry` resets the buffer to the layer writer, or to it and a backup copy; `CopyChunk`
fills it and spills it when full; `EndOfEntry` asks for the next header; `Flush` and
`CloseCopy` are the deferred calls in their order, with `FlushError` and `CloseError` the
rules by which each replaces the error to be returned. Links and tombstones have no content
and pass the streamer by.

### Fake

A call is `Enter`, `AppendArgs`, `RecordInvocation`, `Return`; the setters are one step
each; `Invocations` takes the mutexes one by one (`LockNext`). Which mutex a goroutine
holds follows from its program counter. A writer that waits keeps new readers out, as a
`sync.RWMutex` does.

### Environment

`env` starts faulty or healthy (`InitEnv`). While it is faulty every call may fail and
every process may die; `Heal` ends that once and for all. Outcomes the state forces
(a missing directory, an open file) do not depend on it. So safety covers every
placement of failures, and liveness can ask what a command does after failures stop.

### Abstractions worth knowing

- hcsshim, quota.dll and the Windows file system are outside the repository's own code.
  They are modelled from how the code uses them, loosely where Windows leaves room: a
  removal that fails may leave any subset of the files; destroying a layer that is not
  there may succeed or fail; unpreparing or deactivating a volume that is not prepared
  or active may succeed or fail; importing into a directory that was removed meanwhile
  may recreate it or not.
- A file that another process has open for writing is not removed, as Go opens files
  without `FILE_SHARE_DELETE`. `HeldFiles`, `SizeFileOpen` and `MetadataOpen` say which.
- A killed process is modelled, a power loss is not: a write that returned is on disk.
- In `LayerStore` the unprepare and deactivate calls of `DestroyLayer` have no effect on
  a read-only layer, so a round is one step and a last failed round may end in an error
  or in the nil dereference that `VolumeStore` models exactly.
- Contents, names and log lines are left out. A tar entry is its kind and its size.

## 3. Runs

| Run | Instance | Shows |
|---|---|---|
| `layers_one_process` | one process at a time, a chain of three layers, an image over two of them | a writer is always privileged (`PrivilegedWriter`); parents have their size while a layer is written (`ParentsInstalled`); a base layer with a size has all its files (`SizedBaseHasFiles`); a healthy pull repairs what earlier ones left and succeeds (`PullRecovers`) |
| `layers_two_processes` | two processes, two images over one base | sizes are exact (`ImageSizeExact`) and final layers are final (`SettledStable`) without any lock, in all interleavings with crashes and failures; `LayerStore` implements `LayerClaims` (`LayersClaimed`) |
| `layers_stale_check` | two processes, no failures | **violated**: `DeletesOnlyUnsizedLayers` |
| `layers_dropped_close_error` | one process | **violated**: `PulledLayersImported` |
| `volumes_serial` | two processes, one bundle ID, six requests, creates and deletes one at a time, stats at any time | a successful create gives the promised volume (`BundleUsable`), which only a delete touches (`CreatedVolumeUntouched`); a successful delete removed it (`DeleteComplete`); a healthy delete copes with any remains, unless a stats holds the metadata open (`DeleteRecovers`); `VolumeStore` implements `BundleSpec` (`BundlePromise`) |
| `volumes_lock` | two processes, one bundle ID, any commands at once | `CreateMutex`, and no create waits for ever (`CreateProceeds`) |
| `volumes_two_creates` | two processes, one bundle ID, no failures | **violated**: `CreatedVolumeUntouched` |
| `volumes_destroy_gives_up` | one process | **violated**: `NoPanic` |
| `create_end_to_end` | one process, one bundle ID, one image of two layers, five limits, any layers and volume of an older groot | quota and metadata follow from the tars (`CreatedExactly`); commands are pulls to `LayerStore` and creates, deletes and stats to `VolumeStore` (`HalvesFollow`); the layers under a volume stay (`ParentsImmutable`); a healthy create succeeds (`CreateCompletes`) |
| `limits` | 3-bit integers, two layers | `QuotaExact`, `StatsExact` for every limit, manifest and content |
| `tar_stream` | all tars of up to three entries out of six, a buffer of two chunks | `CopiesWhole`, and the one failure Unpack does not learn of (`FailuresReported`) |
| `test_doubles` | two goroutines, two calls, one programming, each double | `ResultsFollowArgs`, `RecordsAgree`; only the inverted lock order makes a call hang (`CallsReturn`) |

`ParentsInstalled` and `SizedBaseHasFiles` are stated for one process at a time: with two
the race of `layers_stale_check` takes layers away. What stays true with two is in
`layers_two_processes`. For the same reason `create_end_to_end` runs one process at a time.

**Refinement.** `LayerClaims` keeps of the layer store the size files and, per layer, the
processes that have decided to write it. The mapping takes the latter from the program
counter (`Rebuilding`): a process claims a layer when it finds it absent or without a size
file, and gives it up when it returns from `Unpack` or dies. `BundleSpec` keeps one box per
bundle ID: nothing, remains, or a finished volume with its quota and size. A volume counts
as finished when it is prepared and has a whole `metadata.json`, so the last write of a
create is the step at which the abstract create succeeds. Both abstract specifications are
safety only. `HalvesFollow` is a refinement in the other direction of detail: the composed
command, seen through either half of its variables, is a behaviour of that store.

**Bounds.** The state spaces are finite without a cut: processes restart any number of
times, the loops are bounded by the tar and by three rounds. Three layers give a layer
with a parent that itself has one. The tars of the chain hold each kind of entry, a whiteout only
above the base, an empty tar, and two files of different sizes, so that a lost or doubled
entry changes the sum. Two processes give every pairwise race; a third only adds a second
copy of a rival. Sizes 1, 2 and 3 and an overhead of 10 tell apart every sum that
occurs. Bundle IDs share only `create.lock`, so one suffices; that the lock excludes
across IDs is proved (`CreateIsExclusive`). Three bits give seven limits on both sides of zero, sums that wrap both
ways and an overhead of two that can cross the top; the code has no constant that depends
on the width, except that the overhead is small against it. A buffer of two chunks and
entries of none to five meet every fill level; three entries put each kind first, between
others and last. Two goroutines suffice for the lock order, since a cycle needs one
holder of each kind. `MaxCalls` and `MaxSetups` bound the doubles. The six requests cover a limit of zero, below, at and above the image size,
one that excludes the image and a negative one. The image of `create_end_to_end` holds three
bytes in its base and two above; of its limits one is negative, one zero, one used up by the
image, one leaves a byte, and one is smaller than the image but excludes it. So creates
succeed on both layers, with either of them unpacked by the process or read from its size
file. A second image over the same base multiplies the states beyond the time of a run; the
theorems about `Groot` hold for any images, and `LayerStore` is checked with two.

**Symmetry** of the processes is used in `layers_two_processes`, which has no liveness.

**Fairness.** `WF` on the steps of each process: the operating system runs a process
that is ready, and no call of the code blocks for ever, except waiting for the lock.
`SF` on `LockCreate`: `LockFileEx` queues its waiters, so a lock that is freed again and
again reaches each of them. `Start`, `Command`, `Crash` and `Heal` have no fairness. The
liveness properties that need a healthy environment start from a state in which it is.
`Groot` has `WF` on the steps of a command. `Fake` has `SF` on the steps of a goroutine: a
`sync.RWMutex` hands itself to those that wait.

## 4. Findings

1. **A layer with a size file is deleted** (`driver/unpack.go:50`). Two pulls of one image
   into an empty store, no call fails: A finds no layer, makes its directory and writes the
   entries; B finds the directory without a size file and takes it for a layer of an older
   groot; A writes the size file and closes the layer; B deletes it, though the comment at
   line 46 makes the missing size file the reason. Two pulls that both find an older layer
   can do the same.
2. **A layer that was not imported counts as pulled** (`driver/unpack.go:74`, `:124`).
   The size file is written before the deferred `Close`, and the error of `Close` is
   dropped. If the import fails, the pull succeeds and every later pull stops at the
   size file.
3. **The loser of two creates destroys the winner's volume** (`driver/bundle.go:45`).
   The check for an existing volume is made outside `create.lock`; the create that fails
   in `CreateSandboxLayer` cleans up a volume it did not make.
4. **DestroyLayer panics when it gives up** (`hcs/client.go:68`) if one of its first two
   calls worked in the last round: their errors are nil and the message calls `Error()`.

Related facts violate nothing the repository says. The upgrade path deletes a layer that has
no size file also when a volume an older groot made lies on it: `ParentsImmutable` is about
the layers that this groot has put under a volume, and for the others says nothing. A torn size file is never repaired
(`SettledStable` holds for it), so each later pull of that layer fails. When a boot file is
the last entry of a tar, an error of closing its backup copy is lost (`FailuresReported`
allows exactly that). `quotaExceeded` may be fooled by sizes that wrap; the check after the
pull is not (`QuotaExact`). `Invocations` of a double can lock out a call that is under way
and be locked out by it; no test of the repository calls it.

## 5. Proofs

Every theorem is stated of `Spec`, so it covers every crash, failing call and
interleaving, and holds for every value of the constants that meets the named assumptions:

- `LayerStore`: images are non-empty chains of layers, a chain ID determines the chain
  below it (`ChainAssumption`: it is a digest over it), tar entries have a kind and a
  natural size, the sentinels are not values.
- `VolumeStore`: limits are integers, sizes natural numbers, the overhead is positive.
- `Groot`: those of both stores; that its `Requests` have natural sizes is proved
  (`RequestsType`).
- `Limits`: at least two bits, an overhead that an integer holds, `Half` a natural number.
- `TarStream`: a buffer of at least one chunk; links have no content. With a link that
  had some, `CopiesWhole` would be false: `Unpack` never hands its content on.

| Theorem | States | For |
|---|---|---|
| `LayerStoreProofs!TypeCorrect` | `TypeOK` | any pulls |
| `LayerStoreProofs!WriterIsPrivileged` | `PrivilegedWriter` | any pulls |
| `LayerStoreProofs!SettledIsStable` | `SettledStable` | any pulls |
| `LayerStoreProofs!ClaimsKept` | `LayersClaimed` | any pulls |
| `PullProofs!SizesAreExact` | `ImageSizeExact` | any pulls |
| `PullProofs!ParentsAreInstalled` | `ParentsInstalled` | one process (`OneProcess`) |
| `PullProofs!SizedBaseIsWhole` | `SizedBaseHasFiles` | one process (`OneProcess`) |
| `VolumeStoreProofs!TypeCorrect` | `TypeOK` | any callers |
| `VolumeStoreProofs!CreateIsExclusive` | `CreateMutex` | any callers |
| `VolumeStoreProofs!CreatedIsUsable` | `BundleUsable` | serial callers (`Serial`) |
| `VolumeStoreProofs!DeletedIsGone` | `DeleteComplete` | serial callers (`Serial`) |
| `VolumeStoreProofs!FinishedIsUntouched` | `CreatedVolumeUntouched` | serial callers (`Serial`) |
| `VolumeStoreProofs!PromiseKept` | `BundlePromise` | serial callers (`Serial`) |
| `GrootProofs!HalvesKept` | `HalvesFollow` | any commands |
| `GrootProofs!ChargedExactly` | `CreatedExactly` | serial callers (`Serial`) |
| `GrootProofs!CommandsKeepPromises` | both abstract specifications, of `Groot` | serial callers (`Serial`) |
| `GrootProofs!ParentsStay` | `ParentsImmutable` | one process (`OneProcess`) |
| `LimitsProofs!QuotaIsExact` | `QuotaExact` | any width |
| `LimitsProofs!StatsAreExact` | `StatsExact` | any width |
| `TarStreamProofs!EOFMeansWhole` | `CopiesWhole` | any tars and buffer |
| `TarStreamProofs!OnlyLastCloseIsLost` | `FailuresReported` | any tars and buffer |
| `FakeProofs!ResultFollowsNumber` | `ResultsFollowArgs` | any goroutines |
| `FakeProofs!RecordsNeverDisagree` | `RecordsAgree` | any goroutines |

`OneProcess` and `Serial` are where the findings draw the line: without them the races of
`layers_stale_check` and `volumes_two_creates` refute the statements. Under `OneProcess`
processes still die and are started again, any number of times.

**The invariants.**

- `TypeOK` is inductive in both stores. Each proof has a lemma per shape of update (jump,
  return, finish, advance, put, import) and one step per action.
- `PrivilegedWriter` is not inductive: nothing in it says that a process between taking
  and dropping the privileges has them, or that a process at rest has no writer.
  `PrivilegeInv` adds both.
- `SettledStable` needs `SizeFileInv`: a size file lies in a directory that exists, and a
  process about to fill a size file finds it there. Without the first, a process that sees
  no directory could write a layer with a size file; the second keeps the file in place
  between its two steps. Then the only steps that change a layer are those of a process
  that is rebuilding it (`DiskFrame`), and no process starts rebuilding a layer that has a
  size file (`NoNewRebuild`).
- `LayersClaimed`: each step of a process that is rebuilding a layer is a write, a claim or
  a release of `LayerClaims`; each step of one that is not leaves the size files alone and
  is a claim or a stutter.
- `ImageSizeExact` needs `SumsInv`: how far the running sums are at each call. `total`
  counts the layers below, `size` the entries before the one under the header, and after
  the loop, or after the size file was read, the whole layer. The size files of other
  processes are exact by the same invariant, which is why no lock is needed.
- `ParentsInstalled` and `SizedBaseHasFiles` share `InstallInv`: what the directory of the
  layer holds at each call (nothing before `MkdirAll`; of a base layer, the first entries
  while it is streamed; no size before the last), and that the layers below have theirs.
  That a rebuild does not touch a parent is `ChainAssumption`: a chain ID has one place in
  a chain.
- `CreateMutex` follows from `LockInv`: whoever is between the lock and the unlock holds
  `create.lock`, and there is one holder.
- The four results about serial callers share `BundleInv`: a volume has at most one process
  that works on it or was the last to (`OneOwner`); the program counter tells the command
  (`KindInv`) and what stands of the volume (`StageInv`), from nothing at the lock to the
  finished volume at a success; a create that cleans up has not reached the metadata, so
  what it removes never counts as finished. Every call of a command is shown to
  move its process and its volume only in ways that `Allowed` permits (`StepDoes`); from
  that alone follow both the invariant (`AllowedKeeps`) and the step of `BundleSpec`, or the
  stutter, that the call is (`AllowedRefines`).
- `HalvesFollow` comes in two steps. That commands are pulls to `LayerStore` follows action
  by action (`LayersNext`), so every theorem about `LayerStore` holds of commands at once,
  `ImageSizeExact` among them. With it goes `JobInv`: while a command pulls, its pull is of
  its image and its half of the volume store rests; afterwards its pull rests, and the
  outcome it has, unless a later command replaced it, is of its bundle ID with its limit and
  the size of its image. Then the size that `AfterPull` hands over is that of the image, and
  commands are creates, deletes and stats to `VolumeStore` too (`VolumesNext`).
- `CreatedExactly` is `BundleUsable`, which now holds of commands, with `JobInv` to say which
  request the create was for. It needs `Serial` as `BundleUsable` does, but no `OneProcess`:
  pulls of other commands may race.
- `ParentsImmutable` needs `ParentsInv`: the layers recorded for a volume, and those of a
  create on its way to making one, are settled in the sense of `SettledStable`. A volume's
  directory comes only from `CreateSandboxLayer` (`WayToSandbox`), which only a create that
  has pulled reaches; when the pull of the only process has succeeded, each layer of the
  image has its size (`PulledSized`, proved in `PullProofs` from `InstallInv`) and nobody is
  writing it. With two processes a layer that one pull has counted may be in the hands of
  the other: finding 1.
- `QuotaExact` and `StatsExact` need `ExactInv`: the running image size is the sum of the
  layers built so far and a charged image is below the limit. As bytes that exist fit in an
  int64, no conversion and no sum wraps where the results are used, though
  `quotaExceeded`, which reads the manifest, may.
- `CopiesWhole` and `FailuresReported` need `StreamInv`: entries before the current one are
  done and later ones untouched; what the layer writer has of the current one and what is in
  the buffer make up the chunks read; `io.EOF` is pending exactly at the last entry. All of
  it holds only while no error is on its way to `Unpack`.
- The doubles need `FakeInv`: whom the mutexes keep out, that what a call read under its
  method's mutex still stands while it holds it, and that the invocations lag by the call
  between its two records.

`SumsProofs` proves that sums over a prefix obey their recursion and that a prefix of
natural numbers sums to no more than the whole. The induction in it is made by hand, as a
least counterexample, because the library's induction theorems take an operator as parameter.

The theorems about the stores are used in `GrootProofs` through instances of their proof
modules (`LP`, `VP`); each use discharges the assumptions of that module from those of
`Groot`. `SameLayers` and `SameVolumes` say that the actions of these instances are those
`Groot` is composed of.

`SumsInv`, `InstallInv`, `BundleInv`, `ExactInv`, `FakeInv`, `StreamInv`, `JobInv` and
`ParentsInv` were also checked as invariants of the runs' instances.

**Only model-checked.** Liveness: `PullRecovers`, `DeleteRecovers`, `CreateProceeds`,
`CreateCompletes` and `CallsReturn`, since the prover has no fairness reasoning. And the four
violations, which are counterexamples.

## 6. Not modelled

- Fetchers: a pull sees them as calls that may fail.
- Flag parsing, the choice of a fetcher and the runtime spec that create prints.
- The inside of hcsshim's legacy writer and its utility VM handling; the text of Windows
  error messages.
- Two commands at once in `Groot`: the two stores are checked with several processes on
  their own, and their product is out of TLC's reach. `HalvesKept`, `ChargedExactly` and
  `CommandsKeepPromises` are proved for any number of processes. What two pulls do to the
  layers under a volume follows from finding 1.
- Tests; they are read for what they promise.

## 7. Left open

Every safety property that a passing run checks is also proved. Liveness stays with TLC. What could
follow is a model of the legacy layer writer of hcsshim, so that the outcomes `CloseWriter`
leaves open could be derived, and of power loss, under which a write that returned need not
be on disk.
