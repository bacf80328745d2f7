-------------------------- MODULE Workspace_proofs --------------------------
(***************************************************************************)
(* Workspace keeps its types and its properties for any set of builds and  *)
(* any number of boots and keys.                                           *)
(***************************************************************************)
EXTENDS Workspace, Names_proofs, TLAPS

ISOLabels == {"readiso", "openiso", "writeiso"}
VMLabels == {"disk", "boot", "guest", "build"}

(* What a command holds at a label, and which commands come there. *)
Held(b) ==
  /\ pc[b] \in {"keypub", "userdata"} => seed[b].key \in KeyIds
  /\ pc[b] = "openiso" => seed[b].key \in KeyIds
  /\ pc[b] = "writeiso" => seed[b] \in Seed
  /\ pc[b] = "boot" => iso[ImageTag(b)] # Absent

Comes(b) ==
  /\ pc[b] \in {"stat", "keygen", "keypub", "readpub", "userdata", "metadata", "efivars"}
       => cmd[b] \in {"pipeline", "prepare", "run"}
  /\ pc[b] = "base" => cmd[b] \in {"pipeline", "download"}
  /\ pc[b] \in ISOLabels => cmd[b] \in {"pipeline", "iso"}
  /\ pc[b] \in VMLabels => cmd[b] \in {"pipeline", "run"}

TInv == TypeOK /\ \A b \in Builds : Held(b) /\ Comes(b)

LEMMA NamesOfBuilds == \A b \in Builds :
  /\ ImageTag(b) \in Tags
  /\ BaseDisk(b) \in BaseDisks
  /\ DownloadedImg(b) \in DownloadedImgs
  /\ VarsFile(b) \in VarsFiles
  /\ InstanceDisk(b) \in InstanceDisks
  /\ FinalImageName(b) \in FinalImages
BY DEF Tags, BaseDisks, DownloadedImgs, VarsFiles, InstanceDisks, FinalImages

LEMMA Absence ==
  /\ Absent \notin KeyIds /\ Absent \notin Now /\ Absent \notin Seed /\ Absent # NoSeed
  /\ Absent \notin Builds /\ Absent \notin Instance /\ Absent \notin Artifact
BY AbsentAssumption

LEMMA Numbers ==
  /\ \A k \in KeyIds : k \in Nat /\ k # 0
  /\ \A i \in Now : i \in Nat /\ i # 0
  /\ NoSeed \notin Seed /\ NoSeed \in [key : KeyIds \cup {0}, id : Now \cup {0}]
  /\ Seed \subseteq [key : KeyIds \cup {0}, id : Now \cup {0}]
  /\ 1 \in Now /\ 0 \in 0..MaxKeys
BY BoundsAssumption DEF KeyIds, Now, NoSeed, Seed

LEMMA InitTypes == Init => TInv
<1> SUFFICES ASSUME Init PROVE TInv
  OBVIOUS
<1> USE DEF Init
<1>1. TypeOK
  BY Numbers DEF TypeOK, Labels
<1>2. \A b \in Builds : Held(b) /\ Comes(b)
  BY DEF Held, Comes, ISOLabels, VMLabels
<1> QED BY <1>1, <1>2 DEF TInv

-----------------------------------------------------------------------------
(* Types, action by action. *)

LEMMA CommandTypes ==
  ASSUME TInv, NEW b \in Builds,
         (\E c \in Commands : Begin(b, c)) \/ Stop(b)
  PROVE  TInv'
<1>1. CASE Stop(b)
  BY <1>1, Numbers DEF Stop, Leave, Has, TInv, TypeOK, Held, Comes, Labels, ISOLabels, VMLabels,
     keys, seeds, disks
<1>2. ASSUME NEW c \in Commands, Begin(b, c) PROVE TInv'
  <2> USE <1>2 DEF Begin, TInv, Labels, ISOLabels, VMLabels, keys, seeds, disks
  <2>1. pc'[b] = First[c]
    BY DEF TypeOK
  <2>2. c \in {"pipeline", "prepare", "download", "iso", "run"}
    BY CommandsAssumption
  <2>3. pc' \in [Builds -> Labels] /\ cmd' \in [Builds -> Commands \cup {"none"}]
    BY <2>1, <2>2 DEF TypeOK, First
  <2>4. shared' \in [Builds -> BOOLEAN]
    BY DEF TypeOK
  <2>5. TypeOK'
    BY <2>3, <2>4 DEF TypeOK
  <2>6. \A x \in Builds : Held(x)'
    BY <2>1, <2>2 DEF TypeOK, Held, First
  <2>7. \A x \in Builds : Comes(x)'
    BY <2>1, <2>2 DEF TypeOK, Comes, First
  <2> QED BY <2>5, <2>6, <2>7
<1> QED BY <1>1, <1>2

LEMMA PrepareTypes ==
  ASSUME TInv, NEW b \in Builds,
         \/ StatKey(b) \/ Keygen(b) \/ KeygenPublic(b) \/ ReadPub(b)
         \/ WriteUserData(b) \/ RenderMetaData(b) \/ WriteVars(b)
  PROVE  TInv'
<1> USE NamesOfBuilds, Numbers, Absence
    DEF Go, Has, TInv, TypeOK, Held, Comes, Labels, ISOLabels, VMLabels, keys, seeds, disks
<1>1. CASE StatKey(b)
  BY <1>1 DEF StatKey
<1>2. CASE Keygen(b)
  <2>1. made' \in 0..MaxKeys /\ made' \in KeyIds
    <3>1. made \in 0..MaxKeys /\ made < MaxKeys /\ made' = made + 1
      BY <1>2 DEF Keygen
    <3> HIDE DEF TInv, TypeOK
    <3> QED BY <3>1, BoundsAssumption DEF KeyIds
  <2>2. seed'[b].key = made' /\ seed' \in [Builds -> [key : KeyIds \cup {0}, id : Now \cup {0}]]
    BY <1>2, <2>1 DEF Keygen
  <2> QED BY <1>2, <2>1, <2>2 DEF Keygen
<1>3. CASE KeygenPublic(b)
  BY <1>3 DEF KeygenPublic
<1>4. CASE ReadPub(b)
  <2>1. pub \in KeyIds
    BY <1>4 DEF ReadPub
  <2>2. seed'[b].key = pub /\ seed' \in [Builds -> [key : KeyIds \cup {0}, id : Now \cup {0}]]
    BY <1>4, <2>1 DEF ReadPub
  <2> QED BY <1>4, <2>1, <2>2 DEF ReadPub
<1>5. CASE WriteUserData(b)
  BY <1>5 DEF WriteUserData
<1>6. CASE RenderMetaData(b)
  BY <1>6 DEF RenderMetaData
<1>7. CASE WriteVars(b)
  <2>1. efivars' \subseteq VarsFiles
    BY <1>7 DEF WriteVars
  <2>2. CASE cmd[b] = "prepare"
    <3>1. /\ pc' = [pc EXCEPT ![b] = "idle"] /\ cmd' = [cmd EXCEPT ![b] = "none"]
          /\ shared' = [shared EXCEPT ![b] = FALSE] /\ seed' = [seed EXCEPT ![b] = NoSeed]
      BY <1>7, <2>2 DEF WriteVars, Leave
    <3>2. UNCHANGED <<keys, seeds, disks, guest, clock>>
      BY <1>7, <2>2 DEF WriteVars
    <3>3. TypeOK'
      BY <2>1, <3>1, <3>2
    <3>4. \A x \in Builds : Held(x)' /\ Comes(x)'
      BY <2>1, <3>1, <3>2
    <3> QED BY <3>3, <3>4
  <2>3. CASE cmd[b] # "prepare"
    <3>1. pc' = [pc EXCEPT ![b] = IF cmd[b] = "run" THEN "disk" ELSE "base"]
      BY <1>7, <2>3 DEF WriteVars
    <3>2. UNCHANGED <<cmd, shared, seed, keys, seeds, disks, guest, clock>>
      BY <1>7, <2>3 DEF WriteVars
    <3>3. TypeOK'
      BY <2>1, <3>1, <3>2
    <3>4. pc[b] = "efivars" /\ cmd[b] \in {"pipeline", "run"}
      BY <1>7, <2>3 DEF WriteVars
    <3>5. \A x \in Builds : Held(x)' /\ Comes(x)'
      BY <3>1, <3>2, <3>4
    <3> QED BY <3>3, <3>5
  <2> QED BY <2>2, <2>3
<1> QED BY <1>1, <1>2, <1>3, <1>4, <1>5, <1>6, <1>7

LEMMA ISOTypes ==
  ASSUME TInv, NEW b \in Builds,
         Download(b) \/ ReadUserData(b) \/ OpenISO(b) \/ WriteISO(b)
  PROVE  TInv'
<1> USE NamesOfBuilds, Numbers, Absence
    DEF Go, Has, TInv, TypeOK, Held, Comes, Labels, ISOLabels, VMLabels, keys, seeds, disks
<1>1. CASE Download(b)
  <2>0. img' \in [DownloadedImgs -> Builds \cup {Absent}]
    BY <1>1 DEF Download
  <2>1. base' \in [BaseDisks -> Builds \cup {Absent}]
    BY <1>1, <2>0 DEF Download
  <2>2. CASE cmd[b] = "download"
    <3>1. /\ pc' = [pc EXCEPT ![b] = "idle"] /\ cmd' = [cmd EXCEPT ![b] = "none"]
          /\ shared' = [shared EXCEPT ![b] = FALSE] /\ seed' = [seed EXCEPT ![b] = NoSeed]
      BY <1>1, <2>2 DEF Download, Leave
    <3>2. UNCHANGED <<keys, seeds, efivars, inst, art, guest, clock>>
      BY <1>1, <2>2 DEF Download
    <3>3. TypeOK'
      BY <2>0, <2>1, <3>1, <3>2
    <3>4. \A x \in Builds : Held(x)' /\ Comes(x)'
      BY <2>0, <2>1, <3>1, <3>2
    <3> QED BY <3>3, <3>4
  <2>3. CASE cmd[b] # "download"
    <3>1. pc[b] = "base" /\ cmd[b] = "pipeline" /\ pc' = [pc EXCEPT ![b] = "readiso"]
      BY <1>1, <2>3 DEF Download
    <3>2. UNCHANGED <<cmd, shared, seed, keys, seeds, efivars, inst, art, guest, clock>>
      BY <1>1, <2>3 DEF Download
    <3>3. TypeOK'
      BY <2>0, <2>1, <3>1, <3>2
    <3>4. \A x \in Builds : Held(x)' /\ Comes(x)'
      BY <3>1, <3>2
    <3> QED BY <3>3, <3>4
  <2> QED BY <2>2, <2>3
<1>2. CASE ReadUserData(b)
  <2>1. ud[ImageTag(b)] \in KeyIds
    BY <1>2 DEF ReadUserData
  <2> QED BY <1>2, <2>1 DEF ReadUserData
<1>3. CASE OpenISO(b)
  <2>1. [key |-> seed[b].key, id |-> md[ImageTag(b)]] \in Seed
    BY <1>3 DEF OpenISO, Seed
  <2> QED BY <1>3, <2>1 DEF OpenISO
<1>4. CASE WriteISO(b)
  <2>1. iso' \in [Tags -> Seed \cup {NoSeed, Absent}]
    BY <1>4 DEF WriteISO
  <2>2. \A t \in Tags : iso[t] # Absent => iso'[t] # Absent
    BY <1>4 DEF WriteISO
  <2>3. CASE cmd[b] = "iso"
    <3>1. /\ pc' = [pc EXCEPT ![b] = "idle"] /\ cmd' = [cmd EXCEPT ![b] = "none"]
          /\ shared' = [shared EXCEPT ![b] = FALSE] /\ seed' = [seed EXCEPT ![b] = NoSeed]
      BY <1>4, <2>3 DEF WriteISO, Leave
    <3>2. UNCHANGED <<keys, ud, md, efivars, disks, guest, clock>>
      BY <1>4, <2>3 DEF WriteISO
    <3>3. TypeOK'
      BY <2>1, <2>2, <3>1, <3>2
    <3>4. \A x \in Builds : Held(x)' /\ Comes(x)'
      BY <2>1, <2>2, <3>1, <3>2
    <3> QED BY <3>3, <3>4
  <2>4. CASE cmd[b] # "iso"
    <3>1. /\ pc[b] = "writeiso" /\ cmd[b] = "pipeline" /\ pc' = [pc EXCEPT ![b] = "disk"]
          /\ seed' = [seed EXCEPT ![b] = NoSeed]
      BY <1>4, <2>4 DEF WriteISO
    <3>2. UNCHANGED <<cmd, shared, keys, ud, md, efivars, disks, guest, clock>>
      BY <1>4, <2>4 DEF WriteISO
    <3>3. TypeOK'
      BY <2>1, <3>1, <3>2
    <3>4. \A x \in Builds : Held(x)' /\ Comes(x)'
      BY <2>2, <3>1, <3>2
    <3> QED BY <3>3, <3>4
  <2> QED BY <2>3, <2>4
<1> QED BY <1>1, <1>2, <1>3, <1>4

(* A new or changed instance disk is one. *)
LEMMA Disks ==
  ASSUME TInv, NEW b \in Builds
  PROVE  /\ PrepareVMDisks(b) => inst'[InstanceDisk(b)] \in Instance
         /\ Boot(b) => inst'[InstanceDisk(b)] \in Instance /\ clock' \in Now
         /\ Provision(b) => inst'[InstanceDisk(b)] \in Instance
         /\ SealVM(b) => inst'[InstanceDisk(b)] \in Instance
<1> USE NamesOfBuilds, Numbers, Absence DEF TInv, TypeOK, Held, Instance
<1>1. ASSUME PrepareVMDisks(b) PROVE inst'[InstanceDisk(b)] \in Instance
  BY <1>1 DEF PrepareVMDisks, Prepared
<1>2. ASSUME Boot(b) PROVE inst'[InstanceDisk(b)] \in Instance /\ clock' \in Now
  <2>1. clock' \in Now
    <3>1. clock \in Now /\ clock <= MaxBoots /\ clock' = clock + 1
      BY <1>2 DEF Boot
    <3> HIDE DEF TInv, TypeOK
    <3> QED BY <3>1, BoundsAssumption DEF Now
  <2>2. pc[b] = "boot" /\ inst[InstanceDisk(b)] \in Instance /\ iso[ImageTag(b)] \in Seed \cup {NoSeed}
    BY <1>2 DEF Boot, Go
  <2>0. inst'[InstanceDisk(b)] = Booted(b)
    BY <1>2 DEF Boot
  <2>3. CASE Fresh(b)
    <3>1. iso[ImageTag(b)].key \in KeyIds /\ iso[ImageTag(b)].id \in Now
      BY <2>2, <2>3 DEF Fresh, Seed
    <3>2. inst'[InstanceDisk(b)] = [inst[InstanceDisk(b)] EXCEPT
                        !.seen = inst[InstanceDisk(b)].seen \cup {iso[ImageTag(b)].id},
                        !.key = iso[ImageTag(b)].key, !.ok = FALSE, !.stale = FALSE]
      BY <2>0, <2>3 DEF Booted
    <3>3. inst[InstanceDisk(b)] \in Instance
      BY <2>2
    <3> HIDE DEF TInv, TypeOK, Held
    <3>4. inst[InstanceDisk(b)].seen \cup {iso[ImageTag(b)].id} \in SUBSET Now
      BY <3>1, <3>3 DEF Instance
    <3> QED BY <2>1, <3>1, <3>2, <3>3, <3>4 DEF Instance
  <2>4. CASE ~Fresh(b)
    <3>1. (cmd[b] = "run" \/ shared[b]) \in BOOLEAN
      OBVIOUS
    <3>2. inst'[InstanceDisk(b)] = [inst[InstanceDisk(b)] EXCEPT !.stale = cmd[b] = "run" \/ shared[b]]
      BY <2>0, <2>4 DEF Booted
    <3> QED BY <2>1, <2>2, <3>1, <3>2
  <2> QED BY <2>3, <2>4
<1>3. ASSUME Provision(b) PROVE inst'[InstanceDisk(b)] \in Instance
  <2>1. inst[InstanceDisk(b)] \in Instance /\ inst'[InstanceDisk(b)] = [inst[InstanceDisk(b)] EXCEPT !.ok = TRUE]
    BY <1>3 DEF Provision
  <2> QED BY <2>1
<1>4. ASSUME SealVM(b) PROVE inst'[InstanceDisk(b)] \in Instance
  <2>1. inst[InstanceDisk(b)] \in Instance /\ inst'[InstanceDisk(b)] = [inst[InstanceDisk(b)] EXCEPT !.seen = {}, !.key = 0]
    BY <1>4 DEF SealVM
  <2> QED BY <2>1
<1> QED BY <1>1, <1>2, <1>3, <1>4

(* A step that changes a disk leaves the others alone.                     *)
LEMMA OneDisk ==
  ASSUME TInv, NEW b \in Builds,
         PrepareVMDisks(b) \/ Boot(b) \/ Provision(b) \/ SealVM(b)
  PROVE  /\ inst'[InstanceDisk(b)] \in Instance
         /\ \A d \in InstanceDisks \ {InstanceDisk(b)} : inst'[d] = inst[d]
         /\ inst' \in [InstanceDisks -> Instance \cup {Absent}]
<1>1. inst \in [InstanceDisks -> Instance \cup {Absent}] /\ InstanceDisk(b) \in InstanceDisks
  BY NamesOfBuilds DEF TInv, TypeOK
<1>2. inst'[InstanceDisk(b)] \in Instance
  BY Disks
<1>3. PICK v : inst' = [inst EXCEPT ![InstanceDisk(b)] = v]
  <2>1. CASE PrepareVMDisks(b) /\ inst' = inst
    BY <1>1, <2>1
  <2>2. CASE PrepareVMDisks(b) /\ inst' # inst
    BY <2>2 DEF PrepareVMDisks
  <2>3. CASE Boot(b)
    BY <2>3 DEF Boot
  <2>4. CASE Provision(b)
    BY <2>4 DEF Provision
  <2>5. CASE SealVM(b)
    BY <2>5 DEF SealVM
  <2> QED BY <2>1, <2>2, <2>3, <2>4, <2>5
<1> QED BY <1>1, <1>2, <1>3

LEMMA VMTypes ==
  ASSUME TInv, NEW b \in Builds,
         \/ VarsMissing(b) \/ PrepareVMDisks(b) \/ Boot(b)
         \/ Provision(b) \/ VMEnds(b) \/ SealVM(b) \/ DoBuild(b)
  PROVE  TInv'
<1> USE NamesOfBuilds, Numbers, Absence, Disks
    DEF Go, Has, TInv, TypeOK, Held, Comes, Labels, ISOLabels, VMLabels, keys, seeds, disks, cli
<1>1. CASE VarsMissing(b)
  BY <1>1 DEF VarsMissing
<1>2. CASE PrepareVMDisks(b)
  BY <1>2 DEF PrepareVMDisks, Prepared
<1>3. CASE Boot(b)
  <2>1. \A d \in InstanceDisks : inst[d] # Absent => inst'[d] # Absent
    BY <1>3, OneDisk
  <2>2. TypeOK'
    BY <1>3, <2>1, OneDisk DEF Boot
  <2>3. \A x \in Builds : Held(x)' /\ Comes(x)'
    BY <1>3 DEF Boot
  <2> QED BY <2>2, <2>3
<1>4. CASE Provision(b)
  <2>1. \A d \in InstanceDisks : inst[d] # Absent => inst'[d] # Absent
    BY <1>4, OneDisk
  <2>2. TypeOK'
    BY <1>4, <2>1, OneDisk DEF Provision
  <2>3. \A x \in Builds : Held(x)' /\ Comes(x)'
    BY <1>4 DEF Provision
  <2> QED BY <2>2, <2>3
<1>5. CASE VMEnds(b)
  <2>1. TypeOK'
    BY <1>5 DEF VMEnds
  <2>2. \A x \in Builds : Held(x)' /\ Comes(x)'
    BY <1>5 DEF VMEnds
  <2> QED BY <2>1, <2>2
<1>6. CASE SealVM(b)
  <2>1. \A d \in InstanceDisks : inst[d] # Absent => inst'[d] # Absent
    BY <1>6, OneDisk
  <2>2. TypeOK'
    BY <1>6, <2>1, OneDisk DEF SealVM
  <2>3. \A x \in Builds : Held(x)' /\ Comes(x)'
    BY <1>6 DEF SealVM
  <2> QED BY <2>2, <2>3
<1>7. CASE DoBuild(b)
  <2>1. Packed(b) \in Artifact
    <3>1. inst[InstanceDisk(b)] \in Instance
      BY <1>7 DEF DoBuild
    <3> QED BY <3>1 DEF Packed, Instance, Artifact
  <2>2. \A x \in Builds : guest[x] # "off" => inst'[InstanceDisk(x)] # Absent
    BY <1>7 DEF DoBuild, InUse
  <2>3. /\ art' \in [FinalImages -> Artifact \cup {Absent}]
        /\ inst' \in [InstanceDisks -> Instance \cup {Absent}]
    BY <1>7, <2>1 DEF DoBuild
  <2> HIDE DEF Held, Comes
  <2>4. TypeOK'
    BY <1>7, <2>2, <2>3 DEF DoBuild, Leave
  <2>5. \A x \in Builds : Held(x)' /\ Comes(x)'
    BY <1>7 DEF DoBuild, Leave, Held, Comes
  <2> QED BY <2>4, <2>5
<1> QED BY <1>1, <1>2, <1>3, <1>4, <1>5, <1>6, <1>7

LEMMA CleanTypes == TInv /\ Clean => TInv'
BY DEF Clean, TInv, TypeOK, Held, Comes, Labels, ISOLabels, VMLabels, cli

LEMMA StepTypes == TInv /\ [Next]_vars => TInv'
<1> SUFFICES ASSUME TInv, [Next]_vars PROVE TInv'
  OBVIOUS
<1>1. CASE UNCHANGED vars
  BY <1>1 DEF TInv, TypeOK, Held, Comes, vars, cli, keys, seeds, disks
<1> QED BY <1>1, CommandTypes, PrepareTypes, ISOTypes, VMTypes, CleanTypes DEF Next

(* Every state is well typed, whatever the commands and however they       *)
(* overlap and end.                                                        *)
THEOREM TypeCorrect == Spec => []TypeOK
<1>1. TInv => TypeOK
  BY DEF TInv
<1> QED BY <1>1, InitTypes, StepTypes, PTL DEF Spec

-----------------------------------------------------------------------------
(* The downloaded image and the base disk a build finds under its names    *)
(* are its own when no two builds share them; what is cloned and packed    *)
(* comes from there.                                                       *)

Own ==
  \A b \in Builds :
    /\ img[DownloadedImg(b)] \in {b, Absent}
    /\ base[BaseDisk(b)] \in {b, Absent}
    /\ inst[InstanceDisk(b)] # Absent => inst[InstanceDisk(b)].source = b
    /\ art[FinalImageName(b)] # Absent => art[FinalImageName(b)].source = b

LEMMA StepOwn ==
  ASSUME TInv, Own, [Next]_vars,
         \A b, c \in Builds : InstanceDisk(b) = InstanceDisk(c) => b = c,
         \A b, c \in Builds : FinalImageName(b) = FinalImageName(c) => b = c,
         \A b, c \in Builds : BaseDisk(b) = BaseDisk(c) => b = c,
         \A b, c \in Builds : DownloadedImg(b) = DownloadedImg(c) => b = c
  PROVE  Own'
<1> USE NamesOfBuilds, Absence DEF Own, keys, seeds, disks, cli, Go
<1>1. CASE UNCHANGED vars
  BY <1>1 DEF vars
<1>2. CASE Clean
  BY <1>2 DEF Clean
<1>3. ASSUME NEW b \in Builds, \/ \E c \in Commands : Begin(b, c)
                               \/ Stop(b) \/ StatKey(b) \/ Keygen(b) \/ KeygenPublic(b)
                               \/ ReadPub(b) \/ WriteUserData(b) \/ RenderMetaData(b)
                               \/ WriteVars(b) \/ ReadUserData(b) \/ OpenISO(b) \/ WriteISO(b)
                               \/ VarsMissing(b) \/ VMEnds(b)
      PROVE  UNCHANGED <<img, base, inst, art>>
  BY <1>3 DEF Begin, Stop, StatKey, Keygen, KeygenPublic, ReadPub, WriteUserData,
     RenderMetaData, WriteVars, ReadUserData, OpenISO, WriteISO, VarsMissing, VMEnds
<1>4. ASSUME NEW b \in Builds, Download(b) PROVE Own'
  <2>1. /\ img \in [DownloadedImgs -> Builds \cup {Absent}]
        /\ base \in [BaseDisks -> Builds \cup {Absent}]
    BY DEF TInv, TypeOK
  <2>2. /\ img' = img \/ img' = [img EXCEPT ![DownloadedImg(b)] = b]
        /\ img'[DownloadedImg(b)] = b
    BY <1>4, <2>1 DEF Download
  <2>3. \A c \in Builds : img'[DownloadedImg(c)] \in {c, Absent}
    BY <2>1, <2>2
  <2>4. base' = base \/ base' = [base EXCEPT ![BaseDisk(b)] = b]
    BY <1>4, <2>2 DEF Download
  <2>5. \A c \in Builds : base'[BaseDisk(c)] \in {c, Absent}
    BY <2>1, <2>4
  <2> QED BY <1>4, <2>3, <2>5 DEF Download
<1>5. ASSUME NEW b \in Builds, PrepareVMDisks(b) PROVE Own'
  <2>1. inst \in [InstanceDisks -> Instance \cup {Absent}] /\ UNCHANGED <<img, base, art>>
    BY <1>5 DEF PrepareVMDisks, TInv, TypeOK
  <2>2. base[BaseDisk(b)] = b
    BY <1>5 DEF PrepareVMDisks, Prepared
  <2>3. \A c \in Builds : inst'[InstanceDisk(c)] # Absent => inst'[InstanceDisk(c)].source = c
    BY <1>5, <2>1, <2>2 DEF PrepareVMDisks
  <2> QED BY <2>1, <2>3
<1>6. ASSUME NEW b \in Builds, Boot(b) \/ Provision(b) \/ SealVM(b) PROVE Own'
  <2>1. inst \in [InstanceDisks -> Instance \cup {Absent}] /\ inst[InstanceDisk(b)] \in Instance /\ UNCHANGED <<img, base, art>>
    BY <1>6 DEF Boot, Provision, SealVM, TInv, TypeOK, Held
  <2>2. \A c \in Builds \ {b} : inst'[InstanceDisk(c)] = inst[InstanceDisk(c)]
    BY <1>6, <2>1 DEF Boot, Provision, SealVM
  <2>3. inst'[InstanceDisk(b)].source = inst[InstanceDisk(b)].source
    <3>1. CASE Boot(b)
      BY <2>1, <3>1 DEF Boot, Booted, Instance
    <3>2. CASE Provision(b)
      BY <2>1, <3>2 DEF Provision, Instance
    <3>3. CASE SealVM(b)
      BY <2>1, <3>3 DEF SealVM, Instance
    <3> QED BY <1>6, <3>1, <3>2, <3>3
  <2> QED BY <2>1, <2>2, <2>3
<1>7. ASSUME NEW b \in Builds, DoBuild(b) PROVE Own'
  <2>1. /\ inst[InstanceDisk(b)] \in Instance
        /\ inst \in [InstanceDisks -> Instance \cup {Absent}]
        /\ art \in [FinalImages -> Artifact \cup {Absent}]
    BY <1>7 DEF DoBuild, TInv, TypeOK, Held
  <2>2. Packed(b).source = b
    BY <2>1 DEF Packed
  <2>3. /\ art' = [art EXCEPT ![FinalImageName(b)] = Packed(b)]
        /\ inst' = [inst EXCEPT ![InstanceDisk(b)] = Absent]
        /\ UNCHANGED <<img, base>>
    BY <1>7 DEF DoBuild
  <2>4. \A c \in Builds : art'[FinalImageName(c)] # Absent => art'[FinalImageName(c)].source = c
    BY <2>1, <2>2, <2>3
  <2>5. \A c \in Builds : inst'[InstanceDisk(c)] # Absent => inst'[InstanceDisk(c)].source = c
    BY <2>1, <2>3
  <2> QED BY <2>3, <2>4, <2>5
<1> QED BY <1>1, <1>2, <1>3, <1>4, <1>5, <1>6, <1>7 DEF Next

(* Two builds never share a downloaded image or a base disk if for one     *)
(* architecture they have neither the distro nor the release in common.    *)
LEMMA OwnNames ==
  ASSUME NEW words, Builds \subseteq BuildType(words),
         \A b, c \in Builds :
           b.arch = c.arch /\ (b.distro = c.distro \/ b.release = c.release) => b = c
  PROVE  \A b, c \in Builds :
           BaseDisk(b) = BaseDisk(c) \/ DownloadedImg(b) = DownloadedImg(c) => b = c
<1> SUFFICES ASSUME NEW b \in Builds, NEW c \in Builds,
                    BaseDisk(b) = BaseDisk(c) \/ DownloadedImg(b) = DownloadedImg(c)
             PROVE  b = c
  OBVIOUS
<1>1. b \in BuildType(words) /\ c \in BuildType(words)
  OBVIOUS
<1>2. CASE BaseDisk(b) = BaseDisk(c)
  BY <1>1, <1>2, BaseDiskNames
<1>3. CASE DownloadedImg(b) = DownloadedImg(c)
  BY <1>1, <1>3, DownloadedImgNames
<1> QED BY <1>2, <1>3

(* An artifact comes from its own vendor image as long as no two builds    *)
(* have one artifact name (words that join to one name do: a-b with c, a   *)
(* with b-c) and, for each architecture, a distro is built for one release *)
(* and no two distros call a release by one name.                          *)
THEOREM OwnImageHolds ==
  ASSUME NEW words, Builds \subseteq BuildType(words),
         \A b, c \in Builds : FinalImageName(b) = FinalImageName(c) => b = c,
         \A b, c \in Builds :
           b.arch = c.arch /\ (b.distro = c.distro \/ b.release = c.release) => b = c
  PROVE  Spec => []OwnImage
<1>1. Init => Own
  BY NamesOfBuilds DEF Init, Own
<1>2. Own => OwnImage
  BY DEF Own, OwnImage
<1>3. /\ \A b, c \in Builds : BaseDisk(b) = BaseDisk(c) => b = c
      /\ \A b, c \in Builds : DownloadedImg(b) = DownloadedImg(c) => b = c
  BY OwnNames
<1>4. \A b, c \in Builds : InstanceDisk(b) = InstanceDisk(c) => b = c
  BY WorkNames
<1>5. TInv /\ Own /\ [Next]_vars => Own'
  BY <1>3, <1>4, StepOwn
<1> QED BY <1>1, <1>2, <1>5, InitTypes, StepTypes, PTL DEF Spec
-----------------------------------------------------------------------------
(* Keys, instance ids and who may write them.                              *)

(* One key pair at a time: what was ever made from it carries its key.     *)
KeysAgree ==
  /\ pub \in {priv, Absent}
  /\ \A t \in Tags : ud[t] \in {priv, Absent}
  /\ \A t \in Tags : iso[t] \in Seed => iso[t].key = priv
  /\ \A b \in Builds :
       pc[b] \in {"keypub", "userdata", "openiso", "writeiso"} => seed[b].key = priv
  /\ \A d \in InstanceDisks : inst[d] # Absent => inst[d].key \in {0, priv}

(* Ids are never ahead of the clock, and those a disk has seen are behind. *)
IdsAge ==
  /\ \A t \in Tags : md[t] # Absent => md[t] <= clock
  /\ \A t \in Tags : iso[t] \in Seed => iso[t].id <= clock
  /\ \A b \in Builds : pc[b] = "writeiso" => seed[b].id <= clock
  /\ \A d \in InstanceDisks : inst[d] # Absent => \A i \in inst[d].seen : i < clock

(* A build whose seed is marked as its own has it for itself.              *)
NoRivals ==
  \A b, c \in Builds :
    b # c /\ pc[b] # "idle" /\ ~shared[b] /\ ImageTag(b) = ImageTag(c) => pc[c] = "idle"

Unseen(b, i) == inst[InstanceDisk(b)] # Absent => i \notin inst[InstanceDisk(b)].seen

(* On its way to the guest, the seed of a pipeline that has it for itself  *)
(* stays one its disk has not seen.                                        *)
SeedIsNew(b) ==
  /\ pc[b] \in {"efivars", "base", "readiso", "openiso"} =>
       md[ImageTag(b)] # Absent /\ Unseen(b, md[ImageTag(b)])
  /\ pc[b] = "writeiso" => Unseen(b, seed[b].id)
  /\ pc[b] \in {"disk", "boot"} =>
       iso[ImageTag(b)] \in Seed /\ Unseen(b, iso[ImageTag(b)].id)
  /\ pc[b] = "guest" /\ guest[b] # "off" => inst[InstanceDisk(b)].key # 0

SeedsNew == \A b \in Builds : cmd[b] = "pipeline" /\ ~shared[b] => SeedIsNew(b)

(* A guest with nothing left to do was provisioned, or is marked.          *)
DoneIsMarked ==
  /\ \A b \in Builds :
       (guest[b] = "done" \/ pc[b] = "build") /\ inst[InstanceDisk(b)] # Absent =>
         inst[InstanceDisk(b)].ok \/ inst[InstanceDisk(b)].stale
  /\ ProvisionedUnlessReused

(* No two builds work on one instance disk.                                *)
OwnDisks == \A b, c \in Builds : InstanceDisk(b) = InstanceDisk(c) => b = c

GInv == KeysAgree /\ IdsAge /\ NoRivals /\ SeedsNew /\ DoneIsMarked

LEMMA InitG == Init => GInv
<1> SUFFICES ASSUME Init PROVE GInv
  OBVIOUS
<1>1. KeysAgree /\ IdsAge
  BY NamesOfBuilds, Absence, Numbers DEF Init, KeysAgree, IdsAge
<1>2. NoRivals /\ SeedsNew /\ DoneIsMarked
  BY NamesOfBuilds DEF Init, NoRivals, SeedsNew, SeedIsNew, DoneIsMarked, ProvisionedUnlessReused
<1> QED BY <1>1, <1>2 DEF GInv

LEMMA StepKeys == TInv /\ KeysAgree /\ [Next]_vars => KeysAgree'
<1> SUFFICES ASSUME TInv, KeysAgree, [Next]_vars PROVE KeysAgree'
  OBVIOUS
<1> USE NamesOfBuilds, Absence, Numbers DEF KeysAgree, keys, seeds, disks, cli, Go, Has
<1>0. /\ TypeOK /\ \A b \in Builds : Held(b)
  BY DEF TInv
<1>1. CASE UNCHANGED vars
  BY <1>1 DEF vars
<1>2. CASE Clean
  BY <1>2 DEF Clean
<1>3. ASSUME NEW b \in Builds, NEW c \in Commands, Begin(b, c) PROVE KeysAgree'
  <2>1. pc' = [pc EXCEPT ![b] = First[c]] /\ First[c] \in {"stat", "base", "readiso", "disk"}
    BY <1>3, CommandsAssumption DEF Begin, First
  <2> QED BY <1>0, <1>3, <2>1 DEF Begin, TypeOK
<1>4. ASSUME NEW b \in Builds, Stop(b) \/ DoBuild(b) PROVE KeysAgree'
  BY <1>0, <1>4 DEF Stop, DoBuild, Leave, TypeOK
<1>5. ASSUME NEW b \in Builds, StatKey(b) \/ VarsMissing(b) \/ VMEnds(b) \/ RenderMetaData(b)
      PROVE  KeysAgree'
  BY <1>0, <1>5 DEF StatKey, VarsMissing, VMEnds, RenderMetaData, TypeOK
<1>6. ASSUME NEW b \in Builds, Keygen(b) PROVE KeysAgree'
  <2>1. priv = Absent /\ pub' = pub /\ seed'[b].key = priv'
    BY <1>0, <1>6 DEF Keygen, TypeOK
  <2>2. /\ \A t \in Tags : ud'[t] = Absent /\ iso'[t] \notin Seed
    BY <1>0, <1>6, <2>1 DEF Keygen, TypeOK, Seed
  <2>3. \A x \in Builds \ {b} : pc'[x] \notin {"keypub", "userdata", "openiso", "writeiso"}
    BY <1>0, <1>6, <2>1 DEF Keygen, TypeOK, Held, Seed
  <2>4. \A d \in InstanceDisks : inst'[d] # Absent => inst'[d].key = 0
    BY <1>0, <1>6, <2>1 DEF Keygen, TypeOK, Instance
  <2> QED BY <2>1, <2>2, <2>3, <2>4
<1>7. ASSUME NEW b \in Builds, KeygenPublic(b) PROVE KeysAgree'
  BY <1>0, <1>7 DEF KeygenPublic, TypeOK
<1>8. ASSUME NEW b \in Builds, ReadPub(b) \/ WriteUserData(b) PROVE KeysAgree'
  <2>1. CASE ReadPub(b)
    BY <1>0, <2>1 DEF ReadPub, TypeOK
  <2>2. CASE WriteUserData(b)
    BY <1>0, <2>2 DEF WriteUserData, TypeOK
  <2> QED BY <1>8, <2>1, <2>2
<1>9. ASSUME NEW b \in Builds, WriteVars(b) \/ Download(b) PROVE KeysAgree'
  <2>1. /\ UNCHANGED <<keys, seeds, inst>>
        /\ \A x \in Builds \ {b} : pc'[x] = pc[x] /\ seed'[x] = seed[x]
        /\ pc'[b] \in {"idle", "disk", "base", "readiso"}
    BY <1>0, <1>9 DEF WriteVars, Download, Leave, TypeOK
  <2> QED BY <2>1
<1>10. ASSUME NEW b \in Builds, ReadUserData(b) PROVE KeysAgree'
  BY <1>0, <1>10 DEF ReadUserData, TypeOK
<1>11. ASSUME NEW b \in Builds, OpenISO(b) PROVE KeysAgree'
  BY <1>0, <1>11 DEF OpenISO, TypeOK
<1>12. ASSUME NEW b \in Builds, WriteISO(b) PROVE KeysAgree'
  <2>1. /\ UNCHANGED <<keys, ud, inst>>
        /\ \A x \in Builds \ {b} : pc'[x] = pc[x] /\ seed'[x] = seed[x]
        /\ pc'[b] \in {"idle", "disk"}
        /\ \A t \in Tags : iso'[t] = iso[t] \/ iso'[t].key = priv
    BY <1>0, <1>12 DEF WriteISO, Leave, TypeOK
  <2> QED BY <2>1
<1>13. ASSUME NEW b \in Builds, PrepareVMDisks(b) \/ Provision(b) \/ SealVM(b) PROVE KeysAgree'
  <2>1. /\ UNCHANGED <<keys, seeds, seed>>
        /\ \A x \in Builds : pc'[x] \in {"keypub", "userdata", "openiso", "writeiso"} => pc[x] = pc'[x]
    BY <1>0, <1>13 DEF PrepareVMDisks, Provision, SealVM, TypeOK
  <2>2. \A d \in InstanceDisks : inst'[d] # Absent => inst'[d].key \in {0, priv}
    <3>1. \A d \in InstanceDisks \ {InstanceDisk(b)} : inst'[d] = inst[d]
      BY <1>13, OneDisk
    <3>2. PrepareVMDisks(b) => inst'[InstanceDisk(b)] = inst[InstanceDisk(b)] \/ inst'[InstanceDisk(b)].key = 0
      BY <1>0 DEF PrepareVMDisks, TypeOK
    <3>3. Provision(b) => inst[InstanceDisk(b)] \in Instance /\ inst'[InstanceDisk(b)].key = inst[InstanceDisk(b)].key
      BY <1>0 DEF Provision, TypeOK, Instance
    <3>4. SealVM(b) => inst'[InstanceDisk(b)].key = 0
      BY <1>0 DEF SealVM, TypeOK, Instance
    <3> QED BY <1>13, <3>1, <3>2, <3>3, <3>4
  <2> QED BY <2>1, <2>2
<1>14. ASSUME NEW b \in Builds, Boot(b) PROVE KeysAgree'
  <2>1. /\ UNCHANGED <<keys, seeds, seed>>
        /\ \A x \in Builds : pc'[x] \in {"keypub", "userdata", "openiso", "writeiso"} => pc[x] = pc'[x]
    BY <1>0, <1>14 DEF Boot, TypeOK
  <2>2. inst[InstanceDisk(b)] \in Instance /\ iso[ImageTag(b)] \in Seed \cup {NoSeed}
    BY <1>0, <1>14 DEF Boot, TypeOK, Held
  <2>3. inst'[InstanceDisk(b)].key \in {0, priv}
    BY <1>0, <1>14, <2>2 DEF Boot, Booted, Fresh, TypeOK, Instance
  <2>4. \A d \in InstanceDisks \ {InstanceDisk(b)} : inst'[d] = inst[d]
    BY <1>14, OneDisk
  <2> QED BY <2>1, <2>3, <2>4
<1> QED BY <1>1, <1>2, <1>3, <1>4, <1>5, <1>6, <1>7, <1>8, <1>9, <1>10, <1>11, <1>12, <1>13,
        <1>14 DEF Next

LEMMA StepIds == TInv /\ IdsAge /\ [Next]_vars => IdsAge'
<1> SUFFICES ASSUME TInv, IdsAge, [Next]_vars PROVE IdsAge'
  OBVIOUS
<1> USE NamesOfBuilds, Absence, Numbers DEF IdsAge, keys, seeds, disks, cli, Go, Has
<1>0. /\ TypeOK /\ \A b \in Builds : Held(b)
  BY DEF TInv
<1>1. CASE UNCHANGED vars
  BY <1>1 DEF vars
<1>2. CASE Clean
  BY <1>2 DEF Clean
<1>3. ASSUME NEW b \in Builds, NEW c \in Commands, Begin(b, c) PROVE IdsAge'
  <2>1. pc' = [pc EXCEPT ![b] = First[c]] /\ First[c] \in {"stat", "base", "readiso", "disk"}
    BY <1>3, CommandsAssumption DEF Begin, First
  <2> QED BY <1>0, <1>3, <2>1 DEF Begin, TypeOK
<1>4. ASSUME NEW b \in Builds, \/ Stop(b) \/ StatKey(b) \/ Keygen(b) \/ KeygenPublic(b)
                               \/ ReadPub(b) \/ WriteUserData(b) \/ WriteVars(b) \/ Download(b)
                               \/ VarsMissing(b) \/ VMEnds(b)
      PROVE IdsAge'
  <2>1. /\ UNCHANGED <<md, iso, inst, clock>>
        /\ \A x \in Builds \ {b} : pc'[x] = pc[x] /\ seed'[x] = seed[x]
    BY <1>0, <1>4 DEF Stop, Leave, StatKey, Keygen, KeygenPublic, ReadPub, WriteUserData,
       WriteVars, Download, VarsMissing, VMEnds, TypeOK
  <2>2. pc'[b] \in {"writeiso"} => pc'[b] = pc[b] /\ seed'[b] = seed[b]
    BY <1>0, <1>4 DEF Stop, Leave, StatKey, Keygen, KeygenPublic, ReadPub, WriteUserData,
       WriteVars, Download, VarsMissing, VMEnds, TypeOK
  <2> QED BY <2>1, <2>2
<1>5. ASSUME NEW b \in Builds, RenderMetaData(b) PROVE IdsAge'
  BY <1>0, <1>5 DEF RenderMetaData, TypeOK
<1>6. ASSUME NEW b \in Builds, ReadUserData(b) PROVE IdsAge'
  BY <1>0, <1>6 DEF ReadUserData, TypeOK
<1>7. ASSUME NEW b \in Builds, OpenISO(b) PROVE IdsAge'
  BY <1>0, <1>7 DEF OpenISO, TypeOK
<1>8. ASSUME NEW b \in Builds, WriteISO(b) PROVE IdsAge'
  <2>1. /\ UNCHANGED <<md, inst, clock>>
        /\ \A x \in Builds \ {b} : pc'[x] = pc[x] /\ seed'[x] = seed[x]
        /\ pc'[b] \in {"idle", "disk"}
        /\ \A t \in Tags : iso'[t] = iso[t] \/ iso'[t].id <= clock
    BY <1>0, <1>8 DEF WriteISO, Leave, TypeOK
  <2> QED BY <2>1
<1>9. ASSUME NEW b \in Builds, \/ PrepareVMDisks(b) \/ Boot(b) \/ Provision(b) \/ SealVM(b)
                               \/ DoBuild(b)
      PROVE IdsAge'
  <2>1. /\ UNCHANGED <<md, iso>>
        /\ \A x \in Builds \ {b} : pc'[x] = pc[x] /\ seed'[x] = seed[x]
        /\ \A d \in InstanceDisks \ {InstanceDisk(b)} : inst'[d] = inst[d]
    <3>1. CASE DoBuild(b)
      BY <1>0, <3>1 DEF DoBuild, Leave, TypeOK
    <3>2. CASE PrepareVMDisks(b) \/ Boot(b) \/ Provision(b) \/ SealVM(b)
      BY <1>0, <3>2, OneDisk DEF PrepareVMDisks, Boot, Provision, SealVM, TypeOK
    <3> QED BY <1>9, <3>1, <3>2
  <2>2. pc'[b] \in {"writeiso"} => pc'[b] = pc[b] /\ seed'[b] = seed[b]
    BY <1>0, <1>9 DEF PrepareVMDisks, Boot, Provision, SealVM, DoBuild, Leave, TypeOK
  <2>3. clock' \in Nat /\ clock <= clock' /\ (Boot(b) => clock' = clock + 1) /\ clock \in Nat
    BY <1>0, <1>9 DEF PrepareVMDisks, Boot, Provision, SealVM, DoBuild, TypeOK
  <2>4. inst'[InstanceDisk(b)] # Absent => \A i \in inst'[InstanceDisk(b)].seen : i < clock'
    <3>1. PrepareVMDisks(b) => inst'[InstanceDisk(b)] = inst[InstanceDisk(b)] \/ inst'[InstanceDisk(b)].seen = {}
      BY <1>0 DEF PrepareVMDisks, TypeOK
    <3>2. Provision(b) => inst[InstanceDisk(b)] \in Instance /\ inst'[InstanceDisk(b)].seen = inst[InstanceDisk(b)].seen
      BY <1>0 DEF Provision, TypeOK, Instance
    <3>3. SealVM(b) => inst'[InstanceDisk(b)].seen = {}
      BY <1>0 DEF SealVM, TypeOK, Instance
    <3>4. DoBuild(b) => inst'[InstanceDisk(b)] = Absent
      BY <1>0 DEF DoBuild, TypeOK
    <3>5. Boot(b) => /\ inst[InstanceDisk(b)] \in Instance
                     /\ \/ inst'[InstanceDisk(b)].seen = inst[InstanceDisk(b)].seen
                        \/ /\ iso[ImageTag(b)] \in Seed
                           /\ inst'[InstanceDisk(b)].seen = inst[InstanceDisk(b)].seen \cup {iso[ImageTag(b)].id}
      <4> SUFFICES ASSUME Boot(b)
                   PROVE  /\ inst[InstanceDisk(b)] \in Instance
                          /\ \/ inst'[InstanceDisk(b)].seen = inst[InstanceDisk(b)].seen
                             \/ /\ iso[ImageTag(b)] \in Seed
                                /\ inst'[InstanceDisk(b)].seen = inst[InstanceDisk(b)].seen \cup {iso[ImageTag(b)].id}
        OBVIOUS
      <4>1. inst[InstanceDisk(b)] \in Instance /\ iso[ImageTag(b)] \in Seed \cup {NoSeed}
        BY <1>0 DEF Boot, TypeOK, Held
      <4>2. inst'[InstanceDisk(b)] = Booted(b)
        BY <1>0 DEF Boot, TypeOK
      <4>3. CASE Fresh(b)
        BY <4>1, <4>2, <4>3 DEF Booted, Fresh, Instance
      <4>4. CASE ~Fresh(b)
        BY <4>1, <4>2, <4>4 DEF Booted, Instance
      <4> QED BY <4>1, <4>3, <4>4
    <3>6. ASSUME inst[InstanceDisk(b)] # Absent, NEW i \in inst[InstanceDisk(b)].seen PROVE i < clock'
      <4>1. i < clock /\ i \in Nat
        BY <1>0, <3>6 DEF TypeOK, Instance
      <4> QED BY <2>3, <4>1
    <3>7. Boot(b) /\ iso[ImageTag(b)] \in Seed => iso[ImageTag(b)].id < clock'
      <4>1. iso[ImageTag(b)] \in Seed => iso[ImageTag(b)].id \in Nat /\ iso[ImageTag(b)].id <= clock
        BY DEF Seed
      <4> QED BY <2>3, <4>1
    <3> QED BY <1>9, <3>1, <3>2, <3>3, <3>4, <3>5, <3>6, <3>7
  <2>5. /\ \A t \in Tags : md[t] # Absent => md[t] <= clock'
        /\ \A t \in Tags : iso[t] \in Seed => iso[t].id <= clock'
    <3>1. \A t \in Tags : md[t] # Absent => md[t] \in Nat
      BY <1>0 DEF TypeOK
    <3>2. \A t \in Tags : iso[t] \in Seed => iso[t].id \in Nat
      BY DEF Seed
    <3> QED BY <2>3, <3>1, <3>2
  <2>6. \A x \in Builds : pc'[x] \in {"writeiso"} => seed'[x].id <= clock'
    <3>1. \A x \in Builds : seed[x].id \in Nat
      BY <1>0 DEF TypeOK
    <3> QED BY <2>1, <2>2, <2>3, <3>1
  <2>7. \A d \in InstanceDisks \ {InstanceDisk(b)} :
          inst'[d] # Absent => \A i \in inst'[d].seen : i < clock'
    <3>1. \A d \in InstanceDisks : inst[d] # Absent => \A i \in inst[d].seen : i \in Nat
      BY <1>0 DEF TypeOK, Instance
    <3> QED BY <2>1, <2>3, <3>1
  <2> QED BY <2>1, <2>4, <2>5, <2>6, <2>7
<1> QED BY <1>1, <1>2, <1>3, <1>4, <1>5, <1>6, <1>7, <1>8, <1>9 DEF Next

(* Which builds' commands are under way.                                   *)
LEMMA StepRivals == TInv /\ NoRivals /\ [Next]_vars => NoRivals'
<1> SUFFICES ASSUME TInv, NoRivals, [Next]_vars PROVE NoRivals'
  OBVIOUS
<1> USE DEF NoRivals, keys, seeds, disks, cli, Go, Has
<1>0. TypeOK
  BY DEF TInv
<1>1. CASE UNCHANGED vars
  BY <1>1 DEF vars
<1>2. CASE Clean
  BY <1>2 DEF Clean
<1>3. ASSUME NEW b \in Builds, NEW c \in Commands, Begin(b, c) PROVE NoRivals'
  <2>1. \A x \in Builds : Rivals(x) = {y \in Builds \ {x} : pc[y] # "idle" /\ ImageTag(y) = ImageTag(x)}
    BY DEF Rivals
  <2>2. \A x \in Builds \ {b} : pc'[x] = pc[x]
    BY <1>0, <1>3 DEF Begin, TypeOK
  <2>3. \A x \in Builds : ~shared'[x] =>
          IF x = b THEN Rivals(b) = {} ELSE ~shared[x] /\ x \notin Rivals(b)
    BY <1>0, <1>3 DEF Begin, TypeOK
  <2> QED BY <2>1, <2>2, <2>3
<1>4. ASSUME NEW b \in Builds, \/ Stop(b) \/ StatKey(b) \/ Keygen(b) \/ KeygenPublic(b) \/ ReadPub(b)
                               \/ WriteUserData(b) \/ RenderMetaData(b) \/ WriteVars(b)
                               \/ Download(b) \/ ReadUserData(b) \/ OpenISO(b) \/ WriteISO(b)
                               \/ VarsMissing(b) \/ PrepareVMDisks(b) \/ Boot(b)
                               \/ Provision(b) \/ VMEnds(b) \/ SealVM(b) \/ DoBuild(b)
      PROVE NoRivals'
  <2>1. /\ \A x \in Builds \ {b} : pc'[x] = pc[x] /\ shared'[x] = shared[x]
        /\ pc'[b] = "idle" \/ pc' = pc \/ (pc[b] # "idle" /\ shared'[b] = shared[b])
    BY <1>0, <1>4 DEF Stop, StatKey, Keygen, KeygenPublic, ReadPub, WriteUserData, RenderMetaData,
       WriteVars, Download, ReadUserData, OpenISO, WriteISO, VarsMissing, PrepareVMDisks, Boot,
       Provision, VMEnds, SealVM, DoBuild, Leave, TypeOK
  <2>2. pc' = pc => shared' = shared \/ pc'[b] = "idle"
    BY <1>0, <1>4 DEF Stop, StatKey, Keygen, KeygenPublic, ReadPub, WriteUserData, RenderMetaData,
       WriteVars, Download, ReadUserData, OpenISO, WriteISO, VarsMissing, PrepareVMDisks, Boot,
       Provision, VMEnds, SealVM, DoBuild, Leave, TypeOK
  <2> QED BY <2>1, <2>2
<1> QED BY <1>1, <1>2, <1>3, <1>4 DEF Next

(* The other builds in a step of b's.  A file that b writes and that has   *)
(* the name of x's as well is not one that x has for itself.               *)
LEMMA Others ==
  ASSUME OwnDisks, TInv, NoRivals, NEW b \in Builds, NEW x \in Builds \ {b},
         \/ \E c \in Commands : Begin(b, c)
         \/ Stop(b) \/ StatKey(b) \/ Keygen(b) \/ KeygenPublic(b) \/ ReadPub(b)
         \/ WriteUserData(b) \/ RenderMetaData(b) \/ WriteVars(b) \/ Download(b)
         \/ ReadUserData(b) \/ OpenISO(b) \/ WriteISO(b)
         \/ VarsMissing(b) \/ PrepareVMDisks(b) \/ Boot(b)
         \/ Provision(b) \/ VMEnds(b) \/ SealVM(b) \/ DoBuild(b)
  PROVE  /\ pc'[x] = pc[x] /\ cmd'[x] = cmd[x] /\ seed'[x] = seed[x]
         /\ inst'[InstanceDisk(x)] = inst[InstanceDisk(x)] /\ guest'[x] = guest[x]
         /\ ~shared'[x] => ~shared[x]
         /\ pc[x] # "idle" /\ ~shared'[x] =>
              md'[ImageTag(x)] = md[ImageTag(x)] /\ iso'[ImageTag(x)] = iso[ImageTag(x)]
<1> USE NamesOfBuilds DEF keys, seeds, disks, cli, Go, Has
<1>0. TypeOK
  BY DEF TInv
<1>1. /\ pc'[x] = pc[x] /\ cmd'[x] = cmd[x] /\ seed'[x] = seed[x] /\ guest'[x] = guest[x]
      /\ ~shared'[x] => ~shared[x]
  BY <1>0 DEF Begin, Stop, StatKey, Keygen, KeygenPublic, ReadPub, WriteUserData,
     RenderMetaData, WriteVars, Download, ReadUserData, OpenISO, WriteISO, VarsMissing,
     PrepareVMDisks, Boot, Provision, VMEnds, SealVM, DoBuild, Leave, TypeOK
<1>4. inst'[InstanceDisk(x)] = inst[InstanceDisk(x)]
  <2>1. InstanceDisk(x) \in InstanceDisks \ {InstanceDisk(b)}
    BY DEF OwnDisks
  <2>2. CASE PrepareVMDisks(b) \/ Boot(b) \/ Provision(b) \/ SealVM(b)
    BY <2>1, <2>2, OneDisk
  <2>3. CASE DoBuild(b)
    BY <1>0, <2>1, <2>3 DEF DoBuild, TypeOK
  <2>4. CASE ~(PrepareVMDisks(b) \/ Boot(b) \/ Provision(b) \/ SealVM(b) \/ DoBuild(b))
    BY <2>4 DEF Begin, Stop, StatKey, Keygen, KeygenPublic, ReadPub, WriteUserData,
       RenderMetaData, WriteVars, Download, ReadUserData, OpenISO, WriteISO, VarsMissing, VMEnds
  <2> QED BY <2>2, <2>3, <2>4
<1>2. \/ md' = md /\ iso' = iso
      \/ /\ pc[b] # "idle"
         /\ \A t \in Tags \ {ImageTag(b)} : md'[t] = md[t] /\ iso'[t] = iso[t]
  BY <1>0 DEF Begin, Stop, StatKey, Keygen, KeygenPublic, ReadPub, WriteUserData,
     RenderMetaData, WriteVars, Download, ReadUserData, OpenISO, WriteISO, VarsMissing,
     PrepareVMDisks, Boot, Provision, VMEnds, SealVM, DoBuild, Leave, TypeOK
<1>3. pc[x] # "idle" /\ ~shared[x] /\ pc[b] # "idle" => ImageTag(x) # ImageTag(b)
  BY DEF NoRivals
<1> QED BY <1>1, <1>2, <1>3, <1>4

LEMMA StepSeeds ==
  ASSUME OwnDisks, TInv, IdsAge, NoRivals, SeedsNew, [Next]_vars
  PROVE  SeedsNew'
<1> USE NamesOfBuilds, Absence, Numbers DEF keys, seeds, disks, cli, Go, Has, SeedIsNew, Unseen
<1>0. /\ TypeOK /\ \A b \in Builds : Held(b) /\ Comes(b)
  BY DEF TInv
<1>1. CASE UNCHANGED vars
  BY <1>1 DEF vars, SeedsNew
<1>2. CASE Clean
  BY <1>2 DEF Clean, SeedsNew
<1>3. ASSUME NEW b \in Builds,
             \/ \E c \in Commands : Begin(b, c)
             \/ Stop(b) \/ StatKey(b) \/ Keygen(b) \/ KeygenPublic(b) \/ ReadPub(b)
             \/ WriteUserData(b) \/ RenderMetaData(b) \/ WriteVars(b) \/ Download(b)
             \/ ReadUserData(b) \/ OpenISO(b) \/ WriteISO(b)
             \/ VarsMissing(b) \/ PrepareVMDisks(b) \/ Boot(b)
             \/ Provision(b) \/ VMEnds(b) \/ SealVM(b) \/ DoBuild(b)
      PROVE SeedsNew'
  <2>1. \A x \in Builds \ {b} : cmd'[x] = "pipeline" /\ ~shared'[x] => SeedIsNew(x)'
    <3> SUFFICES ASSUME NEW x \in Builds \ {b}, cmd'[x] = "pipeline", ~shared'[x]
                 PROVE  SeedIsNew(x)'
      OBVIOUS
    <3>1. /\ pc'[x] = pc[x] /\ cmd'[x] = cmd[x] /\ seed'[x] = seed[x]
          /\ inst'[InstanceDisk(x)] = inst[InstanceDisk(x)] /\ guest'[x] = guest[x] /\ ~shared[x]
          /\ pc[x] # "idle" =>
               md'[ImageTag(x)] = md[ImageTag(x)] /\ iso'[ImageTag(x)] = iso[ImageTag(x)]
      BY <1>3, Others
    <3>2. SeedIsNew(x)
      BY <3>1 DEF SeedsNew
    <3> QED BY <3>1, <3>2
  <2>2. cmd'[b] = "pipeline" /\ ~shared'[b] => SeedIsNew(b)'
    <3> SUFFICES ASSUME cmd'[b] = "pipeline", ~shared'[b] PROVE SeedIsNew(b)'
      OBVIOUS
    <3>1. ASSUME NEW c \in Commands, Begin(b, c) PROVE SeedIsNew(b)'
      <4>1. c = "pipeline" /\ pc'[b] = "stat"
        BY <1>0, <3>1 DEF Begin, First, TypeOK
      <4> QED BY <4>1
    <3>2. CASE Stop(b) \/ DoBuild(b)
      BY <1>0, <3>2 DEF Stop, DoBuild, Leave, TypeOK
    <3>3. CASE \/ StatKey(b) \/ Keygen(b) \/ KeygenPublic(b) \/ ReadPub(b) \/ WriteUserData(b)
               \/ VarsMissing(b) \/ SealVM(b)
      <4>1. pc'[b] \in {"keygen", "keypub", "readpub", "userdata", "metadata", "stat", "build"}
        BY <1>0, <3>3 DEF StatKey, Keygen, KeygenPublic, ReadPub, WriteUserData, VarsMissing,
           SealVM, TypeOK
      <4> QED BY <4>1
    <3> DEFINE Same == cmd[b] = "pipeline" /\ ~shared[b]
    <3>4. ~(\E c \in Commands : Begin(b, c)) /\ ~Stop(b) /\ ~DoBuild(b) => Same
      BY <1>0, <1>3 DEF StatKey, Keygen, KeygenPublic, ReadPub, WriteUserData, RenderMetaData,
         WriteVars, Download, ReadUserData, OpenISO, WriteISO, VarsMissing, PrepareVMDisks, Boot,
         Provision, VMEnds, SealVM, Leave, TypeOK
    <3>5. Same => SeedIsNew(b)
      BY DEF SeedsNew
    <3> HIDE DEF Same
    <3>6. CASE RenderMetaData(b)
      <4>1. pc'[b] = "efivars" /\ md'[ImageTag(b)] = clock /\ inst' = inst
        BY <1>0, <3>6 DEF RenderMetaData, TypeOK
      <4>2. clock # Absent /\ Unseen(b, clock)
        BY <1>0 DEF TypeOK, IdsAge
      <4> QED BY <4>1, <4>2
    <3>7. CASE (WriteVars(b) \/ Download(b)) /\ Same
      <4>1. /\ pc[b] \in {"efivars", "base"} /\ UNCHANGED <<md, inst>>
            /\ pc'[b] \in {"base", "readiso"}
        BY <1>0, <3>7 DEF WriteVars, Download, Leave, TypeOK, Same
      <4> QED BY <3>5, <3>7, <4>1
    <3>8. CASE ReadUserData(b) /\ Same
      <4>1. /\ pc[b] = "readiso" /\ pc'[b] = "openiso" /\ inst' = inst
            /\ md' = md
        BY <1>0, <3>8 DEF ReadUserData, TypeOK
      <4> QED BY <3>5, <3>8, <4>1
    <3>9. CASE OpenISO(b) /\ Same
      <4>1. /\ pc[b] = "openiso" /\ pc'[b] = "writeiso" /\ inst' = inst
            /\ seed'[b].id = md[ImageTag(b)]
        BY <1>0, <3>9 DEF OpenISO, TypeOK
      <4> QED BY <3>5, <3>9, <4>1
    <3>10. CASE WriteISO(b) /\ Same
      <4>1. pc[b] = "writeiso" /\ pc'[b] = "disk" /\ inst' = inst /\ iso'[ImageTag(b)] = seed[b]
        BY <1>0, <3>10 DEF WriteISO, Leave, TypeOK, Same
      <4>2. seed[b] \in Seed
        BY <1>0, <4>1 DEF Held
      <4> QED BY <3>5, <3>10, <4>1, <4>2
    <3>11. CASE PrepareVMDisks(b) /\ Same
      <4>1. /\ pc[b] = "disk" /\ pc'[b] = "boot" /\ iso' = iso
            /\ inst'[InstanceDisk(b)] = inst[InstanceDisk(b)] \/ inst'[InstanceDisk(b)].seen = {}
        BY <1>0, <3>11 DEF PrepareVMDisks, TypeOK
      <4> QED BY <3>5, <3>11, <4>1
    <3>12. CASE Boot(b) /\ Same
      <4>1. pc[b] = "boot" /\ pc'[b] = "guest" /\ inst'[InstanceDisk(b)] = Booted(b) /\ inst[InstanceDisk(b)] \in Instance
        BY <1>0, <3>12 DEF Boot, TypeOK, Held
      <4>2. iso[ImageTag(b)] \in Seed /\ iso[ImageTag(b)].id \notin inst[InstanceDisk(b)].seen
        BY <3>5, <3>12, <4>1
      <4>3. Fresh(b)
        BY <4>2 DEF Fresh
      <4>4. inst'[InstanceDisk(b)].key = iso[ImageTag(b)].key
        BY <4>1, <4>3 DEF Booted, Instance
      <4>5. iso[ImageTag(b)].key # 0
        BY <4>2 DEF Seed
      <4> QED BY <4>1, <4>4, <4>5
    <3>13. CASE Provision(b) /\ Same
      <4>1. /\ pc' = pc /\ UNCHANGED <<md, seed, iso>> /\ guest[b] # "off"
            /\ inst[InstanceDisk(b)] \in Instance /\ inst'[InstanceDisk(b)] = [inst[InstanceDisk(b)] EXCEPT !.ok = TRUE]
        BY <1>0, <3>13 DEF Provision, TypeOK
      <4>2. inst'[InstanceDisk(b)].seen = inst[InstanceDisk(b)].seen /\ inst'[InstanceDisk(b)].key = inst[InstanceDisk(b)].key /\ inst[InstanceDisk(b)] # Absent
        BY <4>1 DEF Instance
      <4> QED BY <3>5, <3>13, <4>1, <4>2
    <3>14. CASE VMEnds(b) /\ Same
      <4>1. pc' = pc /\ UNCHANGED <<md, seed, iso, inst>> /\ guest'[b] = "off"
        BY <1>0, <3>14 DEF VMEnds, TypeOK
      <4> QED BY <3>5, <3>14, <4>1
    <3> QED BY <1>3, <3>1, <3>2, <3>3, <3>4, <3>6, <3>7, <3>8, <3>9, <3>10, <3>11, <3>12, <3>13,
            <3>14
  <2> QED BY <2>1, <2>2 DEF SeedsNew
<1> QED BY <1>1, <1>2, <1>3 DEF Next

LEMMA StepDone ==
  ASSUME OwnDisks, TInv, SeedsNew, DoneIsMarked, [Next]_vars
  PROVE  DoneIsMarked'
<1> USE NamesOfBuilds, Absence
    DEF DoneIsMarked, ProvisionedUnlessReused, keys, seeds, disks, cli, Go
<1>0. /\ TypeOK /\ \A b \in Builds : Held(b) /\ Comes(b)
  BY DEF TInv
<1>1. CASE UNCHANGED vars
  BY <1>1 DEF vars
<1>2. CASE Clean
  BY <1>2 DEF Clean
<1>3. ASSUME NEW b \in Builds, \/ \E c \in Commands : Begin(b, c)
                               \/ Stop(b) \/ StatKey(b) \/ Keygen(b) \/ KeygenPublic(b)
                               \/ ReadPub(b) \/ WriteUserData(b) \/ RenderMetaData(b)
                               \/ WriteVars(b) \/ Download(b) \/ ReadUserData(b) \/ OpenISO(b)
                               \/ WriteISO(b) \/ VarsMissing(b) \/ VMEnds(b)
      PROVE DoneIsMarked'
  <2>1. UNCHANGED <<inst, art>>
    BY <1>3 DEF Begin, Stop, StatKey, Keygen, KeygenPublic, ReadPub, WriteUserData,
       RenderMetaData, WriteVars, Download, ReadUserData, OpenISO, WriteISO, VarsMissing, VMEnds
  <2>2. \A x \in Builds : (guest'[x] = "done" => guest[x] = "done")
    BY <1>0, <1>3 DEF Begin, Stop, StatKey, Keygen, KeygenPublic, ReadPub, WriteUserData,
       RenderMetaData, WriteVars, Download, ReadUserData, OpenISO, WriteISO, VarsMissing, VMEnds,
       TypeOK
  <2>3. \A x \in Builds : (pc'[x] = "build" => pc[x] = "build")
    <3>1. ASSUME NEW c \in Commands, Begin(b, c) PROVE First[c] # "build"
      BY CommandsAssumption DEF First
    <3> QED BY <1>0, <1>3, <3>1 DEF Begin, Stop, StatKey, Keygen, KeygenPublic, ReadPub,
        WriteUserData, RenderMetaData, WriteVars, Download, ReadUserData, OpenISO, WriteISO,
        VarsMissing, VMEnds, Leave, TypeOK
  <2> QED BY <2>1, <2>2, <2>3
<1>4. ASSUME NEW b \in Builds, PrepareVMDisks(b) \/ Boot(b) \/ Provision(b) \/ SealVM(b)
      PROVE  \A x \in Builds \ {b} : inst'[InstanceDisk(x)] = inst[InstanceDisk(x)]
  <2>1. \A x \in Builds \ {b} : InstanceDisk(x) \in InstanceDisks \ {InstanceDisk(b)}
    BY DEF OwnDisks
  <2> QED BY <1>4, <2>1, OneDisk
<1>5. ASSUME NEW b \in Builds, PrepareVMDisks(b) PROVE DoneIsMarked'
  <2>1. /\ pc' = [pc EXCEPT ![b] = "boot"] /\ UNCHANGED <<art, guest>>
        /\ inst[InstanceDisk(b)] # Absent => inst'[InstanceDisk(b)] = inst[InstanceDisk(b)]
    BY <1>0, <1>5 DEF PrepareVMDisks, TypeOK
  <2>2. guest[b] = "done" => inst[InstanceDisk(b)] # Absent
    BY <1>0 DEF TypeOK
  <2> QED BY <1>0, <1>5, <1>4, <2>1, <2>2 DEF TypeOK
<1>6. ASSUME NEW b \in Builds, Boot(b) PROVE DoneIsMarked'
  <2>1. /\ pc[b] = "boot" /\ pc'[b] = "guest" /\ art' = art /\ inst[InstanceDisk(b)] \in Instance
        /\ inst'[InstanceDisk(b)] = Booted(b) /\ guest'[b] = IF Fresh(b) THEN "busy" ELSE "done"
        /\ \A x \in Builds \ {b} : pc'[x] = pc[x] /\ guest'[x] = guest[x]
    BY <1>0, <1>6 DEF Boot, TypeOK, Held
  <2>2. ~Fresh(b) => inst'[InstanceDisk(b)].stale
    <3>1. ~Fresh(b) => cmd[b] = "run" \/ shared[b]
      <4>1. cmd[b] \in {"pipeline", "run"}
        BY <1>0, <2>1 DEF Comes, VMLabels
      <4>2. cmd[b] = "pipeline" /\ ~shared[b] =>
              iso[ImageTag(b)] \in Seed /\ iso[ImageTag(b)].id \notin inst[InstanceDisk(b)].seen
        BY <2>1 DEF SeedsNew, SeedIsNew, Unseen, Instance
      <4> QED BY <4>1, <4>2, Numbers DEF Fresh
    <3>2. ~Fresh(b) => inst'[InstanceDisk(b)].stale = (cmd[b] = "run" \/ shared[b])
      BY <2>1 DEF Booted, Instance
    <3> QED BY <3>1, <3>2
  <2> QED BY <1>6, <1>4, <2>1, <2>2
<1>7. ASSUME NEW b \in Builds, Provision(b) PROVE DoneIsMarked'
  <2>1. /\ UNCHANGED <<pc, art>> /\ inst[InstanceDisk(b)] \in Instance
        /\ inst'[InstanceDisk(b)] = [inst[InstanceDisk(b)] EXCEPT !.ok = TRUE]
        /\ \A x \in Builds \ {b} : guest'[x] = guest[x]
    BY <1>0, <1>7 DEF Provision, TypeOK
  <2>2. inst'[InstanceDisk(b)].ok
    BY <2>1 DEF Instance
  <2> QED BY <1>7, <1>4, <2>1, <2>2
<1>8. ASSUME NEW b \in Builds, SealVM(b) PROVE DoneIsMarked'
  <2>1. /\ guest[b] = "done" /\ art' = art /\ inst[InstanceDisk(b)] \in Instance
        /\ inst'[InstanceDisk(b)] = [inst[InstanceDisk(b)] EXCEPT !.seen = {}, !.key = 0]
        /\ \A x \in Builds \ {b} : pc'[x] = pc[x] /\ guest'[x] = guest[x]
    BY <1>0, <1>8 DEF SealVM, TypeOK
  <2>2. inst'[InstanceDisk(b)].ok = inst[InstanceDisk(b)].ok /\ inst'[InstanceDisk(b)].stale = inst[InstanceDisk(b)].stale
    BY <2>1 DEF Instance
  <2> QED BY <1>8, <1>4, <2>1, <2>2
<1>9. ASSUME NEW b \in Builds, DoBuild(b) PROVE DoneIsMarked'
  <2>1. /\ pc[b] = "build" /\ pc'[b] = "idle" /\ guest' = guest
        /\ inst[InstanceDisk(b)] # Absent /\ inst'[InstanceDisk(b)] = Absent
        /\ art' = [art EXCEPT ![FinalImageName(b)] = Packed(b)]
        /\ \A x \in Builds \ {b} : pc'[x] = pc[x]
    BY <1>0, <1>9 DEF DoBuild, Leave, TypeOK
  <2>2. \A x \in Builds \ {b} : inst'[InstanceDisk(x)] = inst[InstanceDisk(x)]
    <3>1. inst' = [inst EXCEPT ![InstanceDisk(b)] = Absent]
      BY <1>9 DEF DoBuild
    <3> QED BY <1>0, <3>1 DEF OwnDisks, TypeOK
  <2>3. Packed(b).ok \/ Packed(b).stale
    BY <2>1 DEF Packed
  <2>4. ProvisionedUnlessReused'
    BY <1>0, <2>1, <2>3 DEF TypeOK
  <2> HIDE DEF ProvisionedUnlessReused
  <2> QED BY <2>1, <2>2, <2>4
<1> QED BY <1>1, <1>2, <1>3, <1>5, <1>6, <1>7, <1>8, <1>9 DEF Next

LEMMA StepG ==
  ASSUME OwnDisks
  PROVE  TInv /\ GInv /\ [Next]_vars => GInv'
BY StepKeys, StepIds, StepRivals, StepSeeds, StepDone DEF GInv

(* A pipeline that has its seed for itself never packs a disk on which     *)
(* cloud-init has not run user-data to its end, whatever was ended before, *)
(* as long as no two builds work on one instance disk.                     *)
THEOREM ProvisionedUnlessReusedHolds ==
  ASSUME OwnDisks
  PROVE  Spec => []ProvisionedUnlessReused
<1>1. GInv => ProvisionedUnlessReused
  BY DEF GInv, DoneIsMarked
<1> QED BY <1>1, InitTypes, StepTypes, InitG, StepG, PTL DEF Spec

(* The key of the guest a command waits for is the private key on disk,    *)
(* as long as no two builds work on one instance disk.                     *)
THEOREM LoginKeyFitsHolds ==
  ASSUME OwnDisks
  PROVE  Spec => []LoginKeyFits
<1>1. TInv /\ GInv => LoginKeyFits
  <2> SUFFICES ASSUME TInv, GInv, NEW b \in Builds, pc[b] = "guest", guest[b] # "off"
               PROVE  \/ inst[InstanceDisk(b)].key = priv
                      \/ inst[InstanceDisk(b)].key = 0 /\ (cmd[b] = "run" \/ shared[b])
    BY DEF LoginKeyFits
  <2>1. inst[InstanceDisk(b)].key \in {0, priv}
    BY NamesOfBuilds DEF TInv, TypeOK, GInv, KeysAgree
  <2>2. cmd[b] \in {"pipeline", "run"}
    BY DEF TInv, Comes, VMLabels
  <2>3. cmd[b] = "pipeline" /\ ~shared[b] => inst[InstanceDisk(b)].key # 0
    BY DEF GInv, SeedsNew, SeedIsNew
  <2> QED BY <2>1, <2>2, <2>3
<1> QED BY <1>1, InitTypes, StepTypes, InitG, StepG, PTL DEF Spec
=============================================================================
