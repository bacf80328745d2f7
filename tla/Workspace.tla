------------------------------ MODULE Workspace ------------------------------
(***************************************************************************)
(* The files that the base builds of one checkout share, and what a guest  *)
(* is booted with: the SSH key pair, user-data, meta-data and the          *)
(* cloud-init ISO, the firmware's variables and the base disk              *)
(* (cmd/astroimg/prepare.go, iso.go, the head of run.go and pipeline.go,   *)
(* internal/cloudinit, internal/iso and the names of internal/config).     *)
(*                                                                         *)
(* Every build has a port of its own.  SealPipeline is about builds that   *)
(* share a port, and about what can go wrong between the first boot and    *)
(* the artifact; BaseDisk is about how a base disk is made.                *)
(***************************************************************************)
EXTENDS Naturals, Names

CONSTANTS Builds,     \* the builds: distro, version, layer and arch of each
          Absent,     \* no such file
          Commands,   \* the commands users run; "run" is run --seal, then build
          MaxBoots,   \* bound: boots in one behaviour
          MaxKeys     \* bound: key pairs made in one behaviour

ASSUME CommandsAssumption == Commands \subseteq {"pipeline", "prepare", "download", "iso", "run"}
ASSUME BoundsAssumption == MaxBoots \in Nat /\ MaxKeys \in Nat

Tags == {ImageTag(b) : b \in Builds}
BaseDisks == {BaseDisk(b) : b \in Builds}
DownloadedImgs == {DownloadedImg(b) : b \in Builds}
VarsFiles == {VarsFile(b) : b \in Builds}
InstanceDisks == {InstanceDisk(b) : b \in Builds}
FinalImages == {FinalImageName(b) : b \in Builds}
Now == 1..(MaxBoots + 1)      \* seconds, as far as instance ids tell them apart
KeyIds == 1..MaxKeys
NoSeed == [key |-> 0, id |-> 0]                     \* a truncated ISO
Seed == [key : KeyIds, id : Now]
Instance == [source : Builds, seen : SUBSET Now, key : KeyIds \cup {0},
             ok : BOOLEAN, stale : BOOLEAN]
Artifact == [source : Builds, ok : BOOLEAN, stale : BOOLEAN]

ASSUME AbsentAssumption ==
  Absent \notin KeyIds \cup Now \cup Seed \cup {NoSeed} \cup Builds \cup Instance \cup Artifact

VARIABLES
  pc,       \* where each build's command is
  cmd,      \* which command it is
  seed,     \* what prepare or iso has read: a key, an instance id
  priv,     \* id_ed25519
  pub,      \* id_ed25519.pub
  made,     \* keys made so far
  ud,       \* user-data of each tag: the key in it
  md,       \* meta-data of each tag: the instance id in it
  iso,      \* the cloud-init ISO of each tag
  efivars,  \* the architectures whose vars file is there
  img,      \* downloaded images: the build each was fetched for
  base,     \* base disks: the build whose image each was converted from
  inst,     \* instance disks: ids seen, login key, whether provisioned
  guest,    \* the guest each build's own qemu runs, on its instance disk
  art,      \* artifacts
  shared,   \* history: a command of another build wrote its seed files too
  clock     \* the time in seconds, as far as it matters

cli == <<pc, cmd, seed, shared>>
keys == <<priv, pub, made>>
seeds == <<ud, md, iso>>
disks == <<img, base, inst, art>>
vars == <<cli, keys, seeds, efivars, disks, guest, clock>>

Labels == {"idle", "stat", "keygen", "keypub", "readpub", "userdata", "metadata",
           "efivars", "base", "readiso", "openiso", "writeiso", "disk", "boot",
           "guest", "build"}

TypeOK ==
  /\ pc \in [Builds -> Labels]
  /\ cmd \in [Builds -> Commands \cup {"none"}]
  /\ seed \in [Builds -> [key : KeyIds \cup {0}, id : Now \cup {0}]]
  /\ priv \in KeyIds \cup {Absent} /\ pub \in KeyIds \cup {Absent}
  /\ made \in 0..MaxKeys
  /\ ud \in [Tags -> KeyIds \cup {Absent}]
  /\ md \in [Tags -> Now \cup {Absent}]
  /\ iso \in [Tags -> Seed \cup {NoSeed, Absent}]
  /\ efivars \subseteq VarsFiles
  /\ img \in [DownloadedImgs -> Builds \cup {Absent}]
  /\ base \in [BaseDisks -> Builds \cup {Absent}]
  /\ inst \in [InstanceDisks -> Instance \cup {Absent}]
  /\ guest \in [Builds -> {"off", "busy", "done"}]
  /\ art \in [FinalImages -> Artifact \cup {Absent}]
  /\ shared \in [Builds -> BOOLEAN]
  /\ clock \in Now
  /\ \A b \in Builds : guest[b] # "off" => inst[InstanceDisk(b)] # Absent

Init ==
  /\ pc = [b \in Builds |-> "idle"] /\ cmd = [b \in Builds |-> "none"]
  /\ seed = [b \in Builds |-> NoSeed] /\ shared = [b \in Builds |-> FALSE]
  /\ priv = Absent /\ pub = Absent /\ made = 0
  /\ ud = [t \in Tags |-> Absent] /\ md = [t \in Tags |-> Absent]
  /\ iso = [t \in Tags |-> Absent]
  /\ efivars = {}
  /\ img = [n \in DownloadedImgs |-> Absent]
  /\ base = [n \in BaseDisks |-> Absent]
  /\ inst = [d \in InstanceDisks |-> Absent]
  /\ art = [n \in FinalImages |-> Absent]
  /\ guest = [b \in Builds |-> "off"]
  /\ clock = 1

-----------------------------------------------------------------------------
(* Commands. *)

Go(b, from, to) ==
  /\ pc[b] = from
  /\ pc' = [pc EXCEPT ![b] = to]
  /\ UNCHANGED <<cmd, shared>>

Has(b, s) == seed' = [seed EXCEPT ![b] = s]

(* The builds whose commands are under way and use b's user-data,          *)
(* meta-data and ISO.                                                      *)
Rivals(b) == {c \in Builds \ {b} : pc[c] # "idle" /\ ImageTag(c) = ImageTag(b)}

First == [pipeline |-> "stat", prepare |-> "stat", download |-> "base",
          iso |-> "readiso", run |-> "disk"]

Begin(b, c) ==
  /\ pc[b] = "idle"
  /\ pc' = [pc EXCEPT ![b] = First[c]]
  /\ cmd' = [cmd EXCEPT ![b] = c]
  /\ shared' = [x \in Builds |-> IF x = b THEN Rivals(b) # {}
                                 ELSE shared[x] \/ x \in Rivals(b)]
  /\ UNCHANGED <<seed, keys, seeds, efivars, disks, guest, clock>>

(* The command ends: an error on the way, a signal, or all is done.  A VM  *)
(* it started may go on.                                                   *)
Leave(b) ==
  /\ pc' = [pc EXCEPT ![b] = "idle"]
  /\ cmd' = [cmd EXCEPT ![b] = "none"]
  /\ shared' = [shared EXCEPT ![b] = FALSE]
  /\ Has(b, NoSeed)

Stop(b) ==
  /\ pc[b] # "idle"
  /\ Leave(b)
  /\ UNCHANGED <<keys, seeds, efivars, disks, guest, clock>>

(* `clean`, which nobody calls while a command runs.  A VM left behind goes *)
(* on, on a disk that has no name any more.                                *)
Clean ==
  /\ made < MaxKeys
  /\ \A b \in Builds : pc[b] = "idle"
  /\ priv' = Absent /\ pub' = Absent
  /\ ud' = [t \in Tags |-> Absent] /\ md' = [t \in Tags |-> Absent]
  /\ iso' = [t \in Tags |-> Absent]
  /\ efivars' = {}
  /\ img' = [n \in DownloadedImgs |-> Absent]
  /\ base' = [n \in BaseDisks |-> Absent]
  /\ inst' = [d \in InstanceDisks |-> Absent]
  /\ guest' = [b \in Builds |-> "off"]
  /\ UNCHANGED <<cli, made, art, clock>>

-----------------------------------------------------------------------------
(* doPrepare. *)

(* GenerateSSHKey looks for the private key alone. *)
StatKey(b) ==
  /\ Go(b, "stat", IF priv = Absent THEN "keygen" ELSE "readpub")
  /\ UNCHANGED <<seed, keys, seeds, efivars, disks, guest, clock>>

(* ssh-keygen writes the private key, and will not overwrite one: it asks, *)
(* and has nobody to ask.  Then the public key.                            *)
Keygen(b) ==
  /\ Go(b, "keygen", "keypub")
  /\ priv = Absent /\ made < MaxKeys
  /\ made' = made + 1 /\ priv' = made'
  /\ Has(b, [key |-> made', id |-> 0])
  /\ UNCHANGED <<pub, seeds, efivars, disks, guest, clock>>

KeygenPublic(b) ==
  /\ Go(b, "keypub", "readpub")
  /\ pub' = seed[b].key
  /\ UNCHANGED <<seed, priv, made, seeds, efivars, disks, guest, clock>>

ReadPub(b) ==
  /\ Go(b, "readpub", "userdata")
  /\ pub # Absent
  /\ Has(b, [key |-> pub, id |-> 0])
  /\ UNCHANGED <<keys, seeds, efivars, disks, guest, clock>>

(* os.WriteFile truncates and writes: one step here, as for meta-data. *)
WriteUserData(b) ==
  /\ Go(b, "userdata", "metadata")
  /\ ud' = [ud EXCEPT ![ImageTag(b)] = seed[b].key]
  /\ Has(b, NoSeed)
  /\ UNCHANGED <<keys, md, iso, efivars, disks, guest, clock>>

(* Mutant of RenderMetaData: the template's own instance-id stays.         *)
TemplateId(b) ==
  /\ Go(b, "metadata", "efivars")
  /\ md' = [md EXCEPT ![ImageTag(b)] = 1]
  /\ UNCHANGED <<seed, keys, ud, iso, efivars, disks, guest, clock>>

(* GenerateInstanceID: the prefix stands for the tag. *)
RenderMetaData(b) ==
  /\ Go(b, "metadata", "efivars")
  /\ md' = [md EXCEPT ![ImageTag(b)] = clock]
  /\ UNCHANGED <<seed, keys, ud, iso, efivars, disks, guest, clock>>

(* A copy of the firmware's template, or an empty placeholder.  prepare    *)
(* ends here; pipeline goes on; prepareVMDisks asked for the vars file.    *)
WriteVars(b) ==
  /\ pc[b] = "efivars"
  /\ efivars' = efivars \cup {VarsFile(b)}
  /\ IF cmd[b] = "prepare"
     THEN Leave(b)
     ELSE /\ Go(b, "efivars", IF cmd[b] = "run" THEN "disk" ELSE "base")
          /\ UNCHANGED seed
  /\ UNCHANGED <<keys, seeds, disks, guest, clock>>

(* doDownload: an image of that name is not fetched again, nor is a base   *)
(* disk of that name converted again.                                      *)
Download(b) ==
  /\ pc[b] = "base"
  /\ IF cmd[b] = "download"
     THEN Leave(b)
     ELSE Go(b, "base", "readiso") /\ UNCHANGED seed
  /\ img' = IF img[DownloadedImg(b)] = Absent
            THEN [img EXCEPT ![DownloadedImg(b)] = b]
            ELSE img
  /\ base' = IF base[BaseDisk(b)] = Absent
             THEN [base EXCEPT ![BaseDisk(b)] = img'[DownloadedImg(b)]]
             ELSE base
  /\ UNCHANGED <<keys, seeds, efivars, inst, art, guest, clock>>

-----------------------------------------------------------------------------
(* doISO: user-data is read, then meta-data; the ISO is truncated, then    *)
(* written.                                                                *)
ReadUserData(b) ==
  /\ Go(b, "readiso", "openiso")
  /\ ud[ImageTag(b)] # Absent
  /\ Has(b, [key |-> ud[ImageTag(b)], id |-> 0])
  /\ UNCHANGED <<keys, seeds, efivars, disks, guest, clock>>

(* Mutant of OpenISO: an ISO that is there is taken for written, the way   *)
(* base and instance disks are.                                            *)
KeepISO(b) ==
  LET old == iso[ImageTag(b)]
  IN /\ Go(b, "openiso", IF old = Absent THEN "writeiso" ELSE "disk")
     /\ md[ImageTag(b)] # Absent
     /\ Has(b, [key |-> seed[b].key, id |-> md[ImageTag(b)]])
     /\ iso' = [iso EXCEPT ![ImageTag(b)] = IF old = Absent THEN NoSeed ELSE old]
     /\ UNCHANGED <<keys, ud, md, efivars, disks, guest, clock>>

(* The meta-data is read, and the ISO truncated. *)
OpenISO(b) ==
  /\ Go(b, "openiso", "writeiso")
  /\ md[ImageTag(b)] # Absent
  /\ Has(b, [key |-> seed[b].key, id |-> md[ImageTag(b)]])
  /\ iso' = [iso EXCEPT ![ImageTag(b)] = NoSeed]
  /\ UNCHANGED <<keys, ud, md, efivars, disks, guest, clock>>

WriteISO(b) ==
  /\ pc[b] = "writeiso"
  /\ iso' = [iso EXCEPT ![ImageTag(b)] = seed[b]]
  /\ IF cmd[b] = "iso"
     THEN Leave(b)
     ELSE Go(b, "writeiso", "disk") /\ Has(b, NoSeed)
  /\ UNCHANGED <<keys, ud, md, efivars, disks, guest, clock>>

-----------------------------------------------------------------------------
(* startVM and the guest. *)

(* Mutant of Prepared: the source disk is not looked for. *)
SeedPrepared(b) == iso[ImageTag(b)] # Absent

(* prepareVMDisks: the source disk and the ISO have to be there, whatever  *)
(* is in them; a missing vars file takes a whole prepare, and the ISO      *)
(* stays as it was; the disk is cloned unless it exists.                   *)
Prepared(b) == base[BaseDisk(b)] # Absent /\ iso[ImageTag(b)] # Absent

VarsMissing(b) ==
  /\ Prepared(b) /\ VarsFile(b) \notin efivars
  /\ Go(b, "disk", "stat")
  /\ UNCHANGED <<seed, keys, seeds, efivars, disks, guest, clock>>

PrepareVMDisks(b) ==
  /\ Prepared(b) /\ VarsFile(b) \in efivars
  /\ Go(b, "disk", "boot")
  /\ inst' = IF inst[InstanceDisk(b)] # Absent THEN inst
             ELSE [inst EXCEPT ![InstanceDisk(b)] =
                     [source |-> base[BaseDisk(b)], seen |-> {}, key |-> 0,
                      ok |-> FALSE, stale |-> FALSE]]
  /\ UNCHANGED <<seed, keys, seeds, efivars, img, base, art, guest, clock>>

(* Whether cloud-init will take the seed for a new instance. *)
Fresh(b) ==
  /\ iso[ImageTag(b)] # NoSeed
  /\ iso[ImageTag(b)].id \notin inst[InstanceDisk(b)].seen

(* With a fresh seed cloud-init starts over; with one it has seen, or      *)
(* none, it has nothing left to do.  "stale" says that this was to be      *)
(* expected: run takes the ISO it finds, and another build may have        *)
(* written it meanwhile.                                                   *)
Booted(b) ==
  LET read == iso[ImageTag(b)]
      disk == inst[InstanceDisk(b)]
  IN IF Fresh(b)
     THEN [disk EXCEPT !.seen = @ \cup {read.id}, !.key = read.key,
                       !.ok = FALSE, !.stale = FALSE]
     ELSE [disk EXCEPT !.stale = cmd[b] = "run" \/ shared[b]]

(* qemu locks the disk it runs on, whichever build's command started it. *)
InUse(d) == \E b \in Builds : InstanceDisk(b) = d /\ guest[b] # "off"

(* The guest reads the ISO once. *)
Boot(b) ==
  /\ inst[InstanceDisk(b)] # Absent /\ ~InUse(InstanceDisk(b))
  /\ clock <= MaxBoots
  /\ Go(b, "boot", "guest")
  /\ clock' = clock + 1
  /\ guest' = [guest EXCEPT ![b] = IF Fresh(b) THEN "busy" ELSE "done"]
  /\ inst' = [inst EXCEPT ![InstanceDisk(b)] = Booted(b)]
  /\ UNCHANGED <<seed, keys, seeds, efivars, img, base, art>>

(* cloud-init runs user-data to its end. *)
Provision(b) ==
  /\ guest[b] = "busy"
  /\ guest' = [guest EXCEPT ![b] = "done"]
  /\ inst' = [inst EXCEPT ![InstanceDisk(b)].ok = TRUE]
  /\ UNCHANGED <<cli, keys, seeds, efivars, img, base, art, clock>>

(* qemu ends: killed, or the guest powers off. *)
VMEnds(b) ==
  /\ guest[b] # "off"
  /\ guest' = [guest EXCEPT ![b] = "off"]
  /\ UNCHANGED <<cli, keys, seeds, efivars, disks, clock>>

(* sealVM logs in with the private key.  sysprep removes the key from the  *)
(* guest and makes cloud-init forget every instance; the guest powers off. *)
SealVM(b) ==
  /\ guest[b] = "done" /\ inst[InstanceDisk(b)].key = priv
  /\ Go(b, "guest", "build")
  /\ guest' = [guest EXCEPT ![b] = "off"]
  /\ inst' = [inst EXCEPT ![InstanceDisk(b)].seen = {},
                          ![InstanceDisk(b)].key = 0]
  /\ UNCHANGED <<seed, keys, seeds, efivars, img, base, art, clock>>

Packed(b) ==
  LET disk == inst[InstanceDisk(b)]
  IN [source |-> disk.source, ok |-> disk.ok, stale |-> disk.stale]

(* doBuild: there has to be a disk, and qemu-img does not read one that is *)
(* in use.                                                                 *)
DoBuild(b) ==
  /\ pc[b] = "build"
  /\ inst[InstanceDisk(b)] # Absent /\ ~InUse(InstanceDisk(b))
  /\ art' = [art EXCEPT ![FinalImageName(b)] = Packed(b)]
  /\ inst' = [inst EXCEPT ![InstanceDisk(b)] = Absent]
  /\ Leave(b)
  /\ UNCHANGED <<keys, seeds, efivars, img, base, guest, clock>>

-----------------------------------------------------------------------------
Next ==
  \/ \E b \in Builds :
       \/ \E c \in Commands : Begin(b, c)
       \/ Stop(b)
       \/ StatKey(b) \/ Keygen(b) \/ KeygenPublic(b) \/ ReadPub(b)
       \/ WriteUserData(b) \/ RenderMetaData(b) \/ WriteVars(b) \/ Download(b)
       \/ ReadUserData(b) \/ OpenISO(b) \/ WriteISO(b)
       \/ VarsMissing(b) \/ PrepareVMDisks(b) \/ Boot(b)
       \/ Provision(b) \/ VMEnds(b) \/ SealVM(b) \/ DoBuild(b)
  \/ Clean

Spec == Init /\ [][Next]_vars

-----------------------------------------------------------------------------
(* Properties. *)

(* A pipeline's artifact comes from a disk that cloud-init ran user-data   *)
(* on from beginning to end, whatever was killed before on the same disk:  *)
(* every prepare makes an instance id that no disk has seen, and every     *)
(* pipeline writes a new ISO.  The exception is a seed that someone else   *)
(* wrote: `run` with the ISO it finds (run.go:237), and two architectures  *)
(* built at once, whose ISO has one name (config.go:380).                  *)
ProvisionedUnlessReused ==
  \A n \in FinalImages : art[n] # Absent => art[n].ok \/ art[n].stale

(* A guest lets the command in that waits for it: the key it was given is  *)
(* the private key on disk, although key, user-data and ISO are written by *)
(* different steps, survive kills and are reused by later commands         *)
(* (prepare.go:42-58, run.go:237).  Only a truncated ISO leaves it without *)
(* one, and a pipeline does not meet that on its own.                      *)
LoginKeyFits ==
  \A b \in Builds :
    pc[b] = "guest" /\ guest[b] # "off" =>
      \/ inst[InstanceDisk(b)].key = priv
      \/ inst[InstanceDisk(b)].key = 0 /\ (cmd[b] = "run" \/ shared[b])

(* An artifact named for a distro, a release and an architecture was built *)
(* from the vendor's image for them (config.go:347-348: the name of the    *)
(* base disk carries the first and the last, that of the downloaded image  *)
(* the last two).                                                          *)
OwnImage ==
  \A b \in Builds :
    art[FinalImageName(b)] # Absent => art[FinalImageName(b)].source = b
=============================================================================
