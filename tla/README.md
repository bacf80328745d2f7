# A verification of astroimg

TLA+ models of `astroimg`, the program that builds, seals, tests and ships
QEMU golden images (`src/`), with the TLC runs that check them and the TLAPS
proofs that hold for every size of the system. `PROJECT.json` lists, in machine
readable form, the components, the runs, the source lines behind every
definition, the mutants that show each property can fail, the hazards and the
theorems.

astroimg is a sequential command-line program. What makes it hard is that one
image takes several commands and several tools (qemu, qemu-img, ssh, oras), that
all of them meet in files under fixed names and on one forwarded port, that any
command may fail, be interrupted or be killed between two steps, and that the
next command decides what to do by looking whether a file exists.

## 1. Inventory

| component | state it keeps | operations | hard about it | what makes it correct |
|---|---|---|---|---|
| download (`download.go`, `imagefetch`) | `.part` file, downloaded image, base disk | GET with retries, stream, rename, fetch manifest, verify, convert, resize | ends between any two steps; existence is taken for completeness; no client timeout | a base disk comes from a verified, whole image, is complete and is never rewritten |
| VM launch and sealing (`run.go`, `sysprep.go`, `qemurun`) | instance disk, known_hosts, the qemu process, the port | clone or overlay, start qemu, pin the host key, wait for cloud-init, sysprep, wait for the power-off | guest, process and user move on their own; errors that mean success; shared port; attempts inside a deadline | only a guest that was provisioned and powered itself off becomes an artifact; a finished guest is noticed |
| build (`build.go`) | artifact under `build/` | convert, remove the instance disk | in-place truncation; removal after an error | the disk goes only when the artifact holds it |
| layers, `pipeline --all` (`pipeline.go`, `helpers.go`, `config.Resolve`) | backing chains by file name | overlay, package as delta or flattened, base then layers | names outlive contents: base rebuilt, overlay left over; one `--layer-base-image` for all of `--all` | a layer's chain is the one it was made over |
| push (`push.go`, `orasclient`) | staging directory, registry tag | stage, rebase, upload | writes beside hard links of artifacts | artifacts stay as they are; what is pulled boots |
| test-boot, test-oci (`testboot.go`, `testoci.go`) | fork files, extract directory, qemu, the port | pull, fork, boot, log in, clean up | every early return; someone else's guest on the port | nothing is left behind; success is about the image under test |
| clean (`clean.go`) | - | removes the runtime directory | - | - |
| main (`main.go`) | the context | cancels on SIGINT, SIGTERM | a child outlives its parent | Ctrl-C ends the command |
| pin-hostkey (`pinhostkey.go`) | `build/known_hosts` | unpin, pin | another file than every reader's | the pinned key is found by the command that needs it |
| prepare, cloud-init and ISO (`prepare.go`, `iso.go`, `cloudinit`, `iso`) | key pair, user-data, meta-data, ISO, EFI variables | generate, render, write | half a key pair, a torn or an old ISO, ids by the second, two architectures on one ISO | a guest takes the key that is on disk, and is provisioned anew on each new seed |
| config (`config.go`) | - | `Resolve` derives every path and registry name | two builds, one name | a name is shared by the builds that should share it, and an artifact is made from its own vendor image |
| platform detection, `get`, flags | - | detect, list, parse | none: no state | not modelled (section 5) |
| CI workflows | - | base job, then layer jobs | artifact hand-over between jobs | not modelled (section 5) |

Components interact through files (each module's disk variables), through the
port and known_hosts (`vm`, `pinned` in `SealPipeline` and `TestFork`, `known` in
`Access`) and through the context that a signal cancels (`cancelled`). There are
no messages and no shared memory.

## 2. Modules

| module | models | variables and the code |
|---|---|---|
| `BaseDisk` | `doDownload`, `downloadAndVerify`, `Download`, `FetchText`, `doGetWithRetry`, `VerifyFile` | `part`, `img`, `base` are the three files (content, whole, resized); `pc`, `tries`, `cancelled` the running invocation; `listed` the content the manifest names. `vouched` and `cut` are history: accepted contents, and windows some invocation ended inside of |
| `VendorDisk` | what the downloaded image and the base disk go through, whatever the invocations run into: the abstract specification of `BaseDisk` | `image` (its content; published, accepted or unchecked) and `disk` (its content; making, ready or abandoned) |
| `GoldenImage` | what the two files of a build go through, whoever runs which command: the abstract specification of `SealPipeline` | `disk`, `art`, `loose` |
| `SealPipeline` | `prepareVMDisks`, `startVM`, `sealVM`, `doSysprep`, `waitForShutdown`, `doBuild` as `pipeline`, `run`, `run --seal`, `sysprep` and `build` use them; implements `GoldenImage` | per build `pc`, `cmd`, `cancelled`, `mine` (the process's `qemuCmd` is alive), `disk`, `art`; on the host `vm` (who holds the port, and its guest) and `pinned`; history `loose`: on a disk that was not sealed, an end of qemu was taken for the power-off or `build` was run by hand |
| `Waits` | what a wait for a guest promises the command that uses it, without attempts: the abstract specification of `Access` | `at`, `cmd`, `result`, `over` (time is up, or Ctrl-C); `pinned`; `vm`, the guest and how far it is |
| `Access` | the inside of the waits: `WaitAndPinHostKey`, `WaitForCloudInit`, `SSHArgs`, `verifySSH`, and `pin-hostkey` | `pc`, `ssh` (the attempt: none, open, dead, mute), `seen`, `late` (the wait's deadline has passed), `cancelled`, `result`; `known`, the two known_hosts; `said`, what pin-hostkey announced; `guest`: its key, its sshd, whether it has the user's key, cloud-init's status |
| `Names` | the names `Resolve` derives | one operator per name: the sequence of the words between its hyphens, those of the build (`BuildType`) and those `Resolve` adds |
| `Workspace` | `doPrepare`, `GenerateSSHKey`, `doISO`, `prepareVMDisks`, `GenerateInstanceID`, `RenderMetaData`, and the order of `pipeline`, over the files of `Names` | per build `pc`, `cmd`, `seed` (what the command has read), `guest`; per file name, so that builds with one name share it, `ud`, `md`, `iso`, `img`, `base`, `efivars`, `inst`, `art`; `priv`, `pub`; history `shared`: another build's command may have written this one's seed |
| `Layers` | `createOverlayDisk`, `doBuild`'s three shapes of artifact, `runPipelineAll`, `push`, `clean` | `art` (identity, whole, backing name, and the identity the delta was recorded over), `inst` overlays, `stage` push's directory and whether its image is a hard link of the artifact, `job` the command with what `--layer-base-image` names (`flag`) and the source that follows from it, `todo` what `--all` has left |
| `Lease` | what one throwaway test may do to the port and the runtime directory it shares, whatever kind of test it is and whatever fails: the abstract specification of `TestFork` | per test `phase`, `name` (of its files), `said` (whose guest it spoke of); `holder` of the port; `litter`, the names some file has |
| `TestFork` | `newTestFork`, `cleanup`, `verifySSH`, `test-boot`, `test-oci`, `Pull` | per invocation `pc`, `got`, `at` (the second its names carry), `mine`; `vm`, `pinned` as above; `extract` the pulled file; `left` the fork files some cleanup owes; history `contested`: someone else touched the port or the extract directory |
| `MCBaseDisk`, `MCSealPipeline`, `MCWorkspace`, `MCLayers`, `MCTestFork` | the instances TLC checks | bounds and symmetry |
| `*_proofs` | the theorems of section 4 | |

One wait of `SealPipeline` (`PinOk`, `CloudInitDone`, `WaitFailed`, ...) is what
`Access` takes attempt by attempt, and `Waits` is the contract between the two:
`Access` implements it, and `SealPipeline` uses no more of it (its
`CloudInitDone` has the guard of the contract's; its `WaitFailed` needs no
cause). One `Download` of `Workspace` is what `BaseDisk` makes in many steps, and
`VendorDisk` says what comes out of them; one `SealVM` of `Workspace` is the
middle of `SealPipeline`. `Workspace`
is about builds that each have a port, `SealPipeline` about builds that share one.

Every action is one step between two points where the process may fail, be
cancelled or be killed, or where another process may move. An external tool that
writes a file is two steps (it has started, so the file is there; it has ended).
A definition that precedes another one under a comment that says "Mutant of" is
not part of the specification: it is what a plausible bug would make of the one
it names, and some property must break with it.

What is modelled from outside the source: the guest (boot, sshd, cloud-init,
the sysprep chain's effect), qemu's file locks and its exit when the port is
taken, ssh-keygen, and the user who ends a leftover qemu. These are constrained
by what the code's comments and arguments say of them, and otherwise free.

Simplifications of `Workspace`: a VM may go on after its command has ended; a
seed is a key and an instance id, the rest of the templates being constant; an
ISO is whole or torn, never half right; clone, download and convert succeed or
leave nothing (`SealPipeline` and `BaseDisk` have their failures); and
`os.WriteFile` of user-data and meta-data, which truncates and writes, is one
step. That last one leaves behaviours out: a command ended inside it would leave
an empty file, from which `iso` makes a seed without a key or an id, and two
architectures built at once may read each other's file empty. With both steps,
even without `iso` and with one kind of torn file at a time, the run has 4.4
million states, and 12.7 million with `iso`: more than the bounds below leave
room for. The properties held on those; a pipeline rewrites both files, so only
`run` and shared seeds, which the properties exempt, ever met an empty one.

`BaseDisk` takes a body that ends early for an error of `io.Copy`, as it is with
a length or with chunks. One that the server ends by closing the connection
cannot be told from a whole one there; it is left to the checksum, and a distro
without a manifest has no defence against it.

`SealPipeline` lets any login to a guest that listens and whose key is pinned
work or fail, `wiping` and `wedged` ones included: when the chain of commands
has removed the keys is not followed. `Layers` lets a layer be built over its own
artifact: whether qemu-img refuses, because the overlay's backing file is open, or
truncates it, is not asserted by the model, which takes the second.

## 3. Runs

| run | question | bounds | outcome |
|---|---|---|---|
| `base` | what may lie where the next download looks; do image and base disk live as `VendorDisk` states? | three contents, three attempts | passes |
| `base_unverified` | "verifies it ... before it's trusted" | two contents, three attempts | violated: the image is renamed before its checksum is known; an end in between leaves it trusted |
| `seal_alone` | one build: `pipeline`, `run --seal`, `run`, one after the other, and `sysprep` by hand at any moment | one build | passes |
| `seal_shared` | overlapping commands of two builds: `pipeline`, `run`, `sysprep` and `build` by hand; qemu may exit by itself; is it still the life cycle of `GoldenImage`? | two builds, whole clones, one artifact at a time | passes |
| `seal_orphan` | "Compress the sysprepped instance disk", for pipelines that never overlap | two builds | violated: a VM left by a failed pipeline is sealed in the next one's place |
| `access` | the waits on a guest whose sshd restarts, whose key comes late and whose qemu may vanish; is it what `Waits` promises? | two host keys, two restarts | passes |
| `access_pin` | pin-hostkey, when `run` gave up waiting | two host keys | violated: it pins into a file the waiting command does not read |
| `workspace` | two architectures of one release: `download`, `iso`, `pipeline`, `run --seal` in any order and overlap, ended at any step | two boots, two key pairs (one `clean`) | passes |
| `workspace_release` | is an artifact built from the release it is named for, by `pipeline`, after a `prepare` or without? | two releases, two boots | violated: they share one base disk |
| `layers` | which chains hold together, under any `--layer-base-image`, with `--all` too? Does push only read? | a base, two layers, five packagings | passes |
| `layers_reused` | `--all`: base first, then its layers | six packagings | violated: an overlay over the old base is packed |
| `fork` | cleanup and verification under interference; does each test keep to what `Lease` allows? | two tests, one image that boots and one that does not, one second | passes |

The properties, by the question they answer:

* Interrupted download: `DownloadWhole`, `VouchedUnlessCut` and
  `PristineUnlessCut` say what holds between invocations; the two "unless"
  properties name, exactly, the two windows that are open: before the checksum's
  answer has been acted on - the manifest fails, the process ends, a rejected image cannot
  be removed; `base_unverified` goes through it - and
  inside convert and resize, which work on the final name of the base disk.
  `PristineIsStable`: nothing rewrites a finished base disk, which instance disks
  were cloned from. `Implements` puts them in one piece, `VendorDisk`: an image is
  published once, then accepted, removed or left unchecked; the base disk is begun
  only when no answer about its image is out, and once it is there, finished or
  abandoned, only `clean` takes it away. `CancelEnds`.
* Sealing: with one build, no stray qemu exit and no `build` by hand
  `SealedArtifact` holds as stated; in general `SealedUnlessLoose` holds, that is, there
  are two ways to an unsealed artifact and no third. `waitForShutdown` takes
  another exit of qemu for the power-off: `seal_orphan` is one such way, Ctrl-C
  during `run --seal`'s sysprep another (ssh's error counts as the end of a
  session that worked, qemu is killed with the context, and "sealed" is printed).
  Or a user runs `build` on a disk that is not sealed: it packs any instance disk
  there is, such as the one a failed pipeline left. `Implements` says the same of the whole
  life of the files: no disk is wiped before it booted, packed while it changes, or given up
  for less than its artifact. `WipeAfterProvisioned`: a command that waited for
  cloud-init starts the wipe only in a guest that is provisioned, or that a user
  is wiping by hand. `NothingLost`: no
  build removes an instance disk the artifact does not hold. `CommandsEnd`: a
  command ends, or is held by a sysprep chain that does not, or is a `run` whose
  VM is up; `CancelEnds`: and then Ctrl-C ends it.
* Waiting: `FinishedIsNoticed`: once cloud-init has finished, the wait ends
  without its deadline, however many sessions an sshd restart has killed or
  muted. `VerdictHasCause`: a sealing command fails only on a status, its
  deadline or a signal, never on one bad attempt. `DeadlinesHold`: a deadline or
  a signal ends every wait, whatever the ssh client is doing. `Implements`: seen from
  outside, all this is `Waits` - the host key taken is that of the guest on the
  port, and "ok" needs a guest that takes the login under strict checking and has
  done what was waited for.
* Seeds: `ProvisionedUnlessReused`: an artifact comes from a disk on which
  cloud-init ran user-data to its end, also when the same instance disk was
  booted and killed before - unless the ISO was one the command did not make
  (`run` takes the one it finds) or could have been rewritten (two architectures
  at once share its name). `LoginKeyFits`: the key a guest was given is the
  private key on disk when a command waits to log in; only a torn ISO leaves it
  none. `OwnImage`: the artifact is made from its own vendor image; it holds of
  two architectures, and `workspace_release` shows that it does not of two releases
  of one distro, which share a base disk. Two distros that give a release one name
  share the downloaded image instead: the theorem about `OwnImage` has to exclude
  both. Nor does it hold of builds whose words join to one name (distro a-b with
  version c, a with b-c): they have one instance disk and one artifact.
* Layers: `FreshLayerCoherent` and `AllCoherentUnlessReused` say when a chain is
  sound (each image below is the one the next was recorded over);
  the second excepts an `--all` that picked up an overlay (`layers_reused`) and
  one whose `--layer-base-image` names another image than its base: `--all` keeps
  that flag for every layer, and naming an artifact it is about to rebuild leaves
  the layers made before over what is gone. `PushOnlyReads`: push writes no artifact, although it
  rebases in place what it staged, and stages artifacts as hard links where it
  can - never the one it rebases; `PushedBoots`: what is uploaded boots when the
  artifact holds together and stands alone or over a self-contained image. A layer
  chained on another layer is outside of it: push bundles one image, and that
  one's own backing file stays behind.
* Tests: `NothingLeftBehind` and `NoVMLeftBehind` over every early return,
  `VerifiedUnlessContested` for what "verified" means. A guest that some failed
  command left on the port is the open window: it may answer for a broken image.
  `Implements` is the other half, what a test may do to the others, as `Lease`
  has it: it takes the port only if it is free and ends its own guest only, makes files of one
  name and only until its VM is started, and has neither guest nor files
  when it ends. What `Lease` grants shows what is shared in earnest: the files
  of another test with the same name go with its own.

One comment that is no longer true was met on the way and is not the subject of a
run: `testboot.go:194` speaks of the "Same 10-minute budget as `run`'s own boot
wait", and `startVM` waits for twenty minutes.

### Bounds, and why they are enough

* `BaseDisk`: what is in the `.part` file, under the image's name and in the base disk
  can be three different contents, and no more; three attempts are
  the code's number. The state space is finite without a bound.
* `SealPipeline`: interference is pairwise, for there is one port and one
  known_hosts entry. In `seal_shared` the constraint `SharedBound` drops
  truncated clones (a build's own affair, in `seal_alone`) and states with two
  artifacts; what it says of `NothingLost` is therefore said of whole clones, and
  the proof has no such bound; the interleavings up to and past the first packaging stay. Builds
  are interchangeable (`SYMMETRY`; that run checks no liveness).
* `Access`: two host keys tell "the key that was pinned" from "another one"; two
  restarts (`MaxRestarts`, guard of `SshdRestarts`) let one attempt die and the
  next one too.
* `Workspace`: `MaxBoots` also bounds the clock (ids are seconds that a boot
  separates, see below); `MaxKeys` bounds `ssh-keygen` and, through the guard of
  `Clean`, the cleans. A seed goes wrong with two writers or two boots, and a key
  with a first and a second one. Architectures are interchangeable. A `prepare`
  changes what a `pipeline` that is ended before its download does, and is left to
  `workspace_release`. `download` by itself makes the one case in which `run` finds a
  base disk and an ISO, the other architecture's, but no firmware variables.
* `Layers`: `MaxBuilds` bounds the images packaged in a behaviour (guard of
  `ConvertStarts`). A stale chain needs a base, a layer and a second base;
  a second layer over it makes four, and the fifth is one more.
* `TestFork`: one second makes every name that can clash do so. Two tests, for
  the reason above; a pipeline on the port is to a test what another test is.

`Workspace` lets any number of prepares have one id between two boots (instance
ids carry seconds, `cloudinit.go:54`), and takes a boot to last longer than a
second: an id that a guest has seen is not made again.

### Fairness

`BaseDisk`: weak fairness of the invocation's steps *once its context is
cancelled*; before that a silent server may hold the transfer, since
`http.DefaultClient` has no timeout. `SealPipeline`: weak fairness of each
process's own steps, because every wait has a deadline in the code (20 minutes
for the host key, 90 for cloud-init, 5 for the power-off), and of the kill that
`exec.CommandContext` sends; the sysprep session is fair when its chain has ended
or its context is cancelled. `Access`: weak fairness of the command's own steps
(attempts have fifteen seconds, pauses a timer), strong fairness of an answer (a
guest that can be logged in to again and again does not let every attempt time
out) and weak fairness of an sshd that restarts coming back; deadlines are *not*
fair, so that `FinishedIsNoticed` does not lean on them. Nothing is assumed of
cloud-init, of the user, or of signals. `Workspace`, `Layers` and `TestFork`
state safety only.

## 4. Proofs

TLAPS proves, for every value of the constants:

| theorem | says |
|---|---|
| `BaseDisk_proofs!TypeCorrect`, `DownloadWholeHolds`, `VouchedUnlessCutHolds`, `PristineUnlessCutHolds`, `PristineIsStableHolds` | the safety properties of `base`, for any set of images and number of attempts |
| `BaseDisk_proofs!Refinement` | `BaseDisk` implements `VendorDisk`, under the same generality |
| `SealPipeline_proofs!TypeCorrect`, `SealedUnlessLooseHolds`, `NothingLostHolds` | type correctness, and the properties of `seal_shared`, for any number of overlapping builds and with no bound on clones or artifacts |
| `GoldenImage_proofs!Refinement` | `SealPipeline` implements `GoldenImage`, under the same generality |
| `SealPipeline_proofs!SealedArtifactHolds`, `WipeAfterProvisionedHolds` | the safety properties of `seal_alone`, assuming `Lone`: one build, no stray qemu exit, no `build` by hand |
| `Access_proofs!TypeCorrect`, `VerdictHasCauseHolds` | for any host keys and number of sshd restarts |
| `Access_proofs!Refinement` | `Access` implements `Waits`, under the same generality |
| `Names_proofs!BaseDiskNames`, `DownloadedImgNames`, `ImageTagNames`, `WorkNames`, `KindsApart`, `OCINames`, `LayerCalledBase` | exactly which builds share a name, for any words in distro, version, release, variant and layer |
| `Workspace_proofs!TypeCorrect`, `OwnImageHolds`, `ProvisionedUnlessReusedHolds`, `LoginKeyFitsHolds` | for any builds, commands, boots and keys; the last two assume that no two builds have one instance disk (`OwnDisks`), `OwnImageHolds` that none have one artifact name and that, for each architecture, no two share their distro or their release |
| `Layers_proofs!TypeCorrect`, `PushOnlyReadsHolds`, `PushedBootsHolds`, `FreshLayerCoherentHolds`, `AllCoherentUnlessReusedHolds` | for any layers, sources, order of `--all` that starts with the base, chain length and number of builds |
| `TestFork_proofs!TypeCorrect`, `NothingLeftBehindHolds`, `NoVMLeftBehindHolds`, `VerifiedUnlessContestedHolds` | for any number of overlapping tests, artifacts and seconds |
| `TestFork_proofs!Refinement` | `TestFork` implements `Lease`, under the same generality |

Assumptions: the named `ASSUME`s of the modules (a positive number of attempts;
`Absent` is no file; `NoBuild` is no build, `NoKey` no key; `--all` starts with
the base), which TLC evaluates, and those stated with their theorems: `Lone`,
`OwnDisks`, those of `OwnImageHolds`, and the shapes of names below. By
`ImageTagNames` and `WorkNames`, different builds with names of one shape have
instance disks and artifacts of their own, unless only the release's code name differs.

The argument is an inductive invariant each time, with one lemma or step per action.

* `BaseDisk`: the properties speak of files, and a step's effect on them depends
  on what is there when it is taken. `FilesFit` says which files exist, and how
  whole they are, at each point of an invocation (`pc = "rename"` needs a whole
  `.part`, "resize" a converted disk).
* `SealPipeline`: `FilesFit` ties each process's place to its disk and to the VM -
  above all, a running VM's disk is not sealed and not being converted, which is
  what qemu's lock gives - and `SealKept` follows a sealed disk from
  `waitForShutdown` through convert to the artifact, unless `loose`.
* The refinements: each has an invariant that says what a step of the abstract
  specification finds, where the detailed one has other guards. For `GoldenImage`
  the mapping is the identity on `disk`, `art` and `loose`; its guards are on the
  disk's stage, those of `SealPipeline` on the guest, and `GuestFits` says that the
  two agree. For `VendorDisk` what is known of an image (`Trust`) and how far the
  base disk is (`Progress`) are read off the place of the running invocation;
  `ImageFits` says that nothing has the image's name while one is fetched, and that an
  image left unchecked is not the one an invocation is still checking. For `Waits` a pause, a probe or a poll is a stutter,
  and the last look at cloud-init after a verdict (`cloud-init status --long`) falls
  after the wait has ended; `SessionFits` says that an open session is with
  a guest that let it in, that nothing is pinned yet while pinning, and that no
  wait's end is left over for the next command. For `Lease` a test's phase is
  read off its place, and the key and the pin are stutters; `NoVMLeftBehind` and
  `Placed` are most of what it needs, and `Silent`, that a
  test still to pull has not spoken of any guest.
* `Names`: two names that are equal as sequences of words need not have equal parts:
  distro "a-b" with version "c" reads as distro "a" with version "b-c". `Splits` is
  the lemma the rest follow from: with first (or last) parts of one length the
  parts are equal. The architecture is one word and last, so that most names come
  apart without more; `ImageTagNames` and `OCINames` ask for distros, versions
  and variants of as many words, as all of `distros/` have.
* `Lone`: the guest a command deals with may be one that an earlier, killed
  command left, but then it is the same build's. `LoneFits` keeps, from `startVM`
  to `doBuild`, that the command is cancelled (and convert will refuse), its
  guest still runs (and qemu's lock will refuse), or the disk is sealed.
* `Access`: the invariant adds to the types that only a sealing command is in the
  two loops and `--long` is run only on a verdict (`InLoop`), and that a guest on the port has a host key (`HasKey`); a
  verdict's cause is then found step by step.
* `Workspace`: `OwnImage` needs that downloaded images, base disks, instance disks
  and artifacts have one source; that no other build has their names follows from
  `BaseDiskNames`, `DownloadedImgNames` and `WorkNames`. The other two need, together, that the two halves of the key pair
  agree with every copy of the key under way (`KeysAgree`), that no id lies in the
  future and those a disk has seen in the past (`IdsAge`), that a build not
  `shared` has no rival (`NoRivals`), that its seed is newer than anything its
  disk has seen from "metadata" to "boot" (`SeedsNew`), and that a guest that is
  done was provisioned, or its disk is marked (`DoneIsMarked`).
* `Layers`: identities are handed out in order, so that nothing is recorded over an
  image that is not made yet (`Ages`); `Own` ties a fresh overlay to the source it was
  made over, so that "coherent" goes from the source through convert to the
  artifact, whatever the length of the chain; `Packs` and `Packed` keep what
  `--all` has finished; `Staged` is what push
  has in its directory at each step; and `RebaseApart` is why it only reads: at "rebase"
  the staged image is a copy. For `--all`, `OwnAll` says that a run to be judged
  makes every layer over the base it built.
* `TestFork`: `Placed` says that a fork has a name from its first file on, and only
  then, and the type invariant whose qemu is alive; `Undisturbed` that, unless
  contested, no other guest is on the port, the extracted file is what the test
  pulled, and its guest was booted from it.

`LayerCalledBase` states a gap: `ValidateLayerDir` accepts a layer called "base",
and `push` gives it the tag of the base image it was built on (config.go:337-344).

Left to TLC: liveness (`CommandsEnd`, both `CancelEnds`, `FinishedIsNoticed`,
`DeadlinesHold`), which needs fairness and ENABLED, out of the prover's reach; and
the violated properties. Every safety property of a passing run is also proved.

## 5. Not modelled

* CI workflows: YAML that GitHub runs around the program. Every job starts on a
  fresh checkout, takes the base artifact from the job before it and runs the
  modelled commands one after the other; nothing in it interleaves.
* Platform detection, `get`, flag parsing and completion, the reading and
  validation of YAML: sequential text processing without state, which the unit
  tests cover. qemu's argument vector is not interpreted.
* Two downloads at once: both write one `.part` file. `BaseDisk` has one
  invocation, which is how `pipeline --all` and the workflows run it.
* A removal that fails in a fork's cleanup, and a fork made right after `clean`
  (its overlay's creation may always fail in `TestFork`; that it must is left out).
* A staging directory left by a killed push: no later command reads it.
* The text of checksum manifests and templates, the EFI variables' contents,
  registry credentials, the media types and annotations of a push.

## 6. Plan

Done, in this order: `BaseDisk` and its proofs; `SealPipeline` and its proofs;
`Layers`; `TestFork`; `Access`; `SealPipeline` with `run` and `sysprep` by hand;
`GoldenImage` and the refinement; `Names` and `Workspace`; the proofs of
`Workspace`, `TestFork`, `Layers` and of a lone pipeline; `VendorDisk`, `Waits`
and `Lease` with their refinements; names as words, and which builds share one.

What could follow, the proofs first:

* a chain of images as an abstract specification, and `Layers` as its
  implementation;
* two invocations of `BaseDisk` at once, with the `.part` file they share;
* a composition of `Workspace` and `SealPipeline`, so that builds share the port and
  the seed in one model, and a test that runs beside a pipeline, with the guests of
  both in one `vm`.
