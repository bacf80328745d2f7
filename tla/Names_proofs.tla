----------------------------- MODULE Names_proofs -----------------------------
(***************************************************************************)
(* Which builds share a file, for any words in their names.  A name does   *)
(* not say where one part ends and the next begins: "a-b" with "c" and "a" *)
(* with "b-c" read the same.  Parts with equally many words do come apart, *)
(* and so does the architecture, which is one word at the end.             *)
(***************************************************************************)
EXTENDS Names, SequenceTheorems, TLAPS

(* The words Resolve adds. *)
Fixed == {"base", "server", "cloudimg", "vars", "instance", "overlay", "qcow2", "image"}

(* Two joined names that agree, with first parts of one length, agree in   *)
(* both parts.                                                             *)
LEMMA Splits ==
  ASSUME NEW S, NEW s \in Seq(S), NEW t \in Seq(S), NEW u \in Seq(S), NEW v \in Seq(S),
         s \o u = t \o v, Len(s) = Len(t)
  PROVE  s = t /\ u = v
<1>1. Len(s) \in Nat /\ Len(t) \in Nat /\ Len(u) \in Nat /\ Len(v) \in Nat
  BY LenProperties
<1>2. ASSUME NEW i \in 1..Len(s) PROVE s[i] = t[i]
  <2>1. i \in 1..(Len(s) + Len(u)) /\ i \in 1..(Len(t) + Len(v)) /\ i <= Len(s)
    BY <1>1
  <2>2. (s \o u)[i] = s[i]
    BY <2>1, ConcatProperties
  <2>3. (t \o v)[i] = t[i]
    BY <2>1, ConcatProperties
  <2> QED BY <2>2, <2>3
<1>3. s = t
  BY <1>2, SeqEqual
<1>4. \A S_, s_, t_, v_ : s_ \in Seq(S_) /\ t_ \in Seq(S_) /\ v_ \in Seq(S_) /\ s_ \o t_ = s_ \o v_ => t_ = v_
  BY ConcatSimplifications
<1> QED BY <1>3, <1>4

(* So with last parts of one length. *)
LEMMA SplitsBehind ==
  ASSUME NEW S, NEW s \in Seq(S), NEW t \in Seq(S), NEW u \in Seq(S), NEW v \in Seq(S),
         s \o u = t \o v, Len(u) = Len(v)
  PROVE  s = t /\ u = v
<1>1. Len(s) + Len(u) = Len(t) + Len(v)
  <2>1. Len(s \o u) = Len(s) + Len(u) /\ Len(t \o v) = Len(t) + Len(v)
    BY ConcatProperties
  <2> QED BY <2>1
<1>2. Len(s) = Len(t)
  BY <1>1, LenProperties
<1> QED BY <1>2, Splits

(* The last word of a name. *)
LEMMA SplitsLast ==
  ASSUME NEW S, NEW s \in Seq(S), NEW t \in Seq(S), NEW x \in S, NEW y \in S,
         s \o <<x>> = t \o <<y>>
  PROVE  s = t /\ x = y
<1>1. <<x>> \in Seq(S) /\ <<y>> \in Seq(S) /\ Len(<<x>>) = Len(<<y>>)
  OBVIOUS
<1>2. s = t /\ <<x>> = <<y>>
  BY <1>1, SplitsBehind
<1> QED BY <1>2

(* The parts of a build's names are sequences of words, the added ones     *)
(* among them.                                                             *)
LEMMA Parts ==
  ASSUME NEW words, NEW b \in BuildType(words), NEW W, W = words \cup Fixed
  PROVE  /\ b.distro \in Seq(W) /\ b.version \in Seq(W) /\ b.release \in Seq(W)
         /\ b.variant \in Seq(W) /\ b.layer \in Seq(W) /\ b.arch \in W
         /\ b.distro \o b.version \in Seq(W)
         /\ b.distro \o b.version \o b.variant \in Seq(W)
         /\ ImageTag(b) \in Seq(W)
         /\ Fixed \subseteq W
<1>1. /\ b.distro \in Seq(words) /\ b.version \in Seq(words) /\ b.release \in Seq(words)
      /\ b.variant \in Seq(words) /\ b.layer \in Seq(words) /\ b.arch \in words
  BY DEF BuildType
<1>2. \A s \in Seq(words) : s \in Seq(W)
  BY SeqMonotonic
<1>3. /\ b.distro \in Seq(W) /\ b.version \in Seq(W) /\ b.release \in Seq(W)
      /\ b.variant \in Seq(W) /\ b.layer \in Seq(W) /\ b.arch \in W
  BY <1>1, <1>2
<1>4. b.distro \o b.version \in Seq(W)
  BY <1>3, ConcatProperties
<1>5. b.distro \o b.version \o b.variant \in Seq(W)
  BY <1>3, <1>4, ConcatProperties
<1>6. ImageTag(b) \in Seq(W)
  BY <1>3, <1>5, ConcatProperties DEF ImageTag
<1> QED BY <1>3, <1>4, <1>5, <1>6

-----------------------------------------------------------------------------
(* A base disk is shared by the releases of a distro for one architecture, *)
(* and by nothing else (config.go:347).                                    *)
THEOREM BaseDiskNames ==
  ASSUME NEW words, NEW b \in BuildType(words), NEW c \in BuildType(words)
  PROVE  BaseDisk(b) = BaseDisk(c) <=> b.distro = c.distro /\ b.arch = c.arch
<1> DEFINE W == words \cup Fixed
<1> DEFINE front(d) == <<"base">> \o d.distro
<1>1. /\ b.distro \in Seq(W) /\ c.distro \in Seq(W) /\ b.arch \in W /\ c.arch \in W
      /\ <<"base">> \in Seq(W)
  BY Parts DEF Fixed
<1> HIDE DEF W
<1>2. front(b) \in Seq(W) /\ front(c) \in Seq(W)
  BY <1>1, ConcatProperties
<1>3. ASSUME BaseDisk(b) = BaseDisk(c) PROVE b.distro = c.distro /\ b.arch = c.arch
  <2>1. front(b) \o <<b.arch>> = front(c) \o <<c.arch>>
    BY <1>3 DEF BaseDisk
  <2>2. front(b) = front(c) /\ b.arch = c.arch
    <3> HIDE DEF front
    <3> QED BY <1>1, <1>2, <2>1, SplitsLast
  <2> QED BY <1>1, <2>2, Splits
<1> QED BY <1>3 DEF BaseDisk

(* A downloaded image is shared by whatever distros give a release the     *)
(* same name, for one architecture (config.go:348).                        *)
THEOREM DownloadedImgNames ==
  ASSUME NEW words, NEW b \in BuildType(words), NEW c \in BuildType(words)
  PROVE  DownloadedImg(b) = DownloadedImg(c) <=> b.release = c.release /\ b.arch = c.arch
<1> DEFINE W == words \cup Fixed
<1> DEFINE rest(d) == <<"server", "cloudimg", d.arch>>
<1>1. /\ b.release \in Seq(W) /\ c.release \in Seq(W) /\ b.arch \in W /\ c.arch \in W
      /\ "server" \in W /\ "cloudimg" \in W
  BY Parts DEF Fixed
<1> HIDE DEF W
<1>2. rest(b) \in Seq(W) /\ rest(c) \in Seq(W) /\ Len(rest(b)) = Len(rest(c))
  BY <1>1
<1>3. ASSUME DownloadedImg(b) = DownloadedImg(c) PROVE b.release = c.release /\ b.arch = c.arch
  <2>1. b.release \o rest(b) = c.release \o rest(c)
    BY <1>3 DEF DownloadedImg
  <2>2. b.release = c.release /\ rest(b) = rest(c)
    <3> HIDE DEF rest
    <3> QED BY <1>1, <1>2, <2>1, SplitsBehind
  <2> QED BY <2>2
<1> QED BY <1>3 DEF DownloadedImg

(* Names of one shape: distro, version and variant have as many words.     *)
SameShape(b, c) ==
  Len(b.distro) = Len(c.distro) /\ Len(b.version) = Len(c.version)
  /\ Len(b.variant) = Len(c.variant)

(* The tag says distro, version, variant and layer, and no architecture:   *)
(* the architectures share user-data, meta-data and the ISO                *)
(* (config.go:346, 380-382).                                               *)
THEOREM ImageTagNames ==
  ASSUME NEW words, NEW b \in BuildType(words), NEW c \in BuildType(words), SameShape(b, c)
  PROVE  ImageTag(b) = ImageTag(c) <=>
           /\ b.distro = c.distro /\ b.version = c.version
           /\ b.variant = c.variant /\ b.layer = c.layer
<1> DEFINE W == words \cup Fixed
<1> DEFINE two(d) == d.distro \o d.version
<1> DEFINE three(d) == two(d) \o d.variant
<1>1. \A d \in {b, c} :
        /\ d.distro \in Seq(W) /\ d.version \in Seq(W) /\ d.variant \in Seq(W)
        /\ d.layer \in Seq(W) /\ two(d) \in Seq(W) /\ three(d) \in Seq(W)
  BY Parts
<1> HIDE DEF W
<1>2. Len(two(b)) = Len(two(c))
  <2>1. Len(two(b)) = Len(b.distro) + Len(b.version)
    BY <1>1, ConcatProperties
  <2>2. Len(two(c)) = Len(c.distro) + Len(c.version)
    BY <1>1, ConcatProperties
  <2> QED BY <2>1, <2>2 DEF SameShape
<1>3. Len(three(b)) = Len(three(c))
  <2> HIDE DEF two
  <2>1. Len(three(b)) = Len(two(b)) + Len(b.variant)
    BY <1>1, ConcatProperties
  <2>2. Len(three(c)) = Len(two(c)) + Len(c.variant)
    BY <1>1, ConcatProperties
  <2> QED BY <1>2, <2>1, <2>2 DEF SameShape
<1>4. ASSUME ImageTag(b) = ImageTag(c)
      PROVE  /\ b.distro = c.distro /\ b.version = c.version
             /\ b.variant = c.variant /\ b.layer = c.layer
  <2>1. three(b) \o b.layer = three(c) \o c.layer
    BY <1>4 DEF ImageTag
  <2>2. three(b) = three(c) /\ b.layer = c.layer
    <3> HIDE DEF three
    <3> QED BY <1>1, <1>3, <2>1, Splits
  <2>3. two(b) = two(c) /\ b.variant = c.variant
    <3> HIDE DEF two
    <3> QED BY <1>1, <1>2, <2>2, Splits
  <2>4. b.distro = c.distro /\ b.version = c.version
    <3>1. b.distro \o b.version = c.distro \o c.version
      BY <2>3
    <3>2. /\ b.distro \in Seq(W) /\ c.distro \in Seq(W)
          /\ b.version \in Seq(W) /\ c.version \in Seq(W)
      BY <1>1
    <3>3. Len(b.distro) = Len(c.distro)
      BY DEF SameShape
    <3> HIDE DEF two, three
    <3> QED BY <3>1, <3>2, <3>3, Splits
  <2> QED BY <2>2, <2>3, <2>4
<1> QED BY <1>4 DEF ImageTag

(* Whatever the shapes, two builds that share the artifact's name share    *)
(* the tag and the architecture, and two that share the instance disk      *)
(* share the artifact: a base and a layer never work on one disk           *)
(* (config.go:370-378).                                                    *)
THEOREM WorkNames ==
  ASSUME NEW words, NEW b \in BuildType(words), NEW c \in BuildType(words)
  PROVE  /\ FinalImageName(b) = FinalImageName(c) <=>
              ImageTag(b) = ImageTag(c) /\ b.arch = c.arch
         /\ InstanceDisk(b) = InstanceDisk(c) <=>
              /\ FinalImageName(b) = FinalImageName(c)
              /\ b.layer = <<>> <=> c.layer = <<>>
<1> DEFINE W == words \cup Fixed
<1> DEFINE kind(d) == <<IF d.layer = <<>> THEN "instance" ELSE "overlay">>
<1> DEFINE front(d) == kind(d) \o ImageTag(d)
<1>1. /\ ImageTag(b) \in Seq(W) /\ ImageTag(c) \in Seq(W) /\ b.arch \in W /\ c.arch \in W
      /\ kind(b) \in Seq(W) /\ kind(c) \in Seq(W)
  BY Parts DEF Fixed
<1> HIDE DEF W
<1>2. FinalImageName(b) = FinalImageName(c) <=> ImageTag(b) = ImageTag(c) /\ b.arch = c.arch
  BY <1>1, SplitsLast DEF FinalImageName
<1>3. kind(b) = kind(c) <=> (b.layer = <<>> <=> c.layer = <<>>)
  OBVIOUS
<1>4. Len(kind(b)) = Len(kind(c))
  OBVIOUS
<1>5. InstanceDisk(b) = front(b) \o <<b.arch>> /\ InstanceDisk(c) = front(c) \o <<c.arch>>
  BY DEF InstanceDisk
<1> HIDE DEF kind
<1>6. front(b) \in Seq(W) /\ front(c) \in Seq(W)
  BY <1>1, ConcatProperties
<1>7. front(b) = front(c) <=> kind(b) = kind(c) /\ ImageTag(b) = ImageTag(c)
  BY <1>1, <1>4, Splits
<1> HIDE DEF front
<1>8. InstanceDisk(b) = InstanceDisk(c) <=> front(b) = front(c) /\ b.arch = c.arch
  <2>1. \A f, g \in Seq(W) : f \o <<b.arch>> = g \o <<c.arch>> => f = g /\ b.arch = c.arch
    <3>1. b.arch \in W /\ c.arch \in W
      BY <1>1
    <3> QED BY <3>1, SplitsLast
  <2> QED BY <1>5, <1>6, <2>1
<1> QED BY <1>2, <1>3, <1>7, <1>8

-----------------------------------------------------------------------------
LEMMA FirstWord ==
  ASSUME NEW S, NEW s \in Seq(S), NEW t \in Seq(S), Len(s) > 0
  PROVE  (s \o t)[1] = s[1] /\ s \o t \in Seq(S) /\ Len(s \o t) > 0
<1>1. 1 \in 1..(Len(s) + Len(t)) /\ 1 <= Len(s) /\ Len(s) + Len(t) > 0
  BY LenProperties
<1> QED BY <1>1, ConcatProperties

(* The disk a build works on is never a base disk, its own or another's,   *)
(* although both are qcow2 files of the runtime directory and are named    *)
(* for the distro and the architecture (config.go:347, 378).               *)
THEOREM KindsApart ==
  ASSUME NEW words, NEW b \in BuildType(words), NEW c \in BuildType(words)
  PROVE  BaseDisk(b) # InstanceDisk(c)
<1> DEFINE W == words \cup Fixed
<1> DEFINE kind == <<IF c.layer = <<>> THEN "instance" ELSE "overlay">>
<1>1. /\ b.distro \in Seq(W) /\ b.arch \in W /\ ImageTag(c) \in Seq(W) /\ c.arch \in W
      /\ "base" \in W /\ kind \in Seq(W)
  BY Parts DEF Fixed
<1>2. kind[1] \in {"instance", "overlay"} /\ Len(kind) > 0
  OBVIOUS
<1> HIDE DEF W
<1>3. <<"base">> \in Seq(W) /\ <<b.arch>> \in Seq(W) /\ <<c.arch>> \in Seq(W)
      /\ Len(<<"base">>) > 0 /\ <<"base">>[1] = "base"
  BY <1>1
<1>4. BaseDisk(b)[1] = "base"
  <2>1. /\ (<<"base">> \o b.distro)[1] = "base" /\ <<"base">> \o b.distro \in Seq(W)
        /\ Len(<<"base">> \o b.distro) > 0
    BY <1>1, <1>3, FirstWord
  <2> QED BY <1>3, <2>1, FirstWord DEF BaseDisk
<1>5. InstanceDisk(c) = (kind \o ImageTag(c)) \o <<c.arch>>
  BY DEF InstanceDisk
<1> HIDE DEF kind
<1>6. InstanceDisk(c)[1] = kind[1]
  <2>1. /\ (kind \o ImageTag(c))[1] = kind[1] /\ kind \o ImageTag(c) \in Seq(W)
        /\ Len(kind \o ImageTag(c)) > 0
    BY <1>1, <1>2, FirstWord
  <2> QED BY <1>3, <1>5, <2>1, FirstWord
<1> QED BY <1>2, <1>4, <1>6

(* In the registry, too, a name stands for one distro, version, layer and  *)
(* architecture, provided no layer is called "base" (config.go:337-343).   *)
THEOREM OCINames ==
  ASSUME NEW words, NEW b \in BuildType(words), NEW c \in BuildType(words),
         Len(b.version) = Len(c.version), b.layer # <<"base">>, c.layer # <<"base">>
  PROVE  OCIRepo(b) = OCIRepo(c) /\ OCITag(b) = OCITag(c) <=>
           /\ b.distro = c.distro /\ b.version = c.version
           /\ b.layer = c.layer /\ b.arch = c.arch
<1> DEFINE W == words \cup Fixed
<1> DEFINE shown(d) == IF d.layer = <<>> THEN <<"base">> ELSE d.layer
<1> DEFINE front(d) == d.version \o shown(d)
<1>1. \A d \in {b, c} : /\ d.distro \in Seq(W) /\ d.version \in Seq(W)
                        /\ shown(d) \in Seq(W) /\ d.arch \in W
  <2>1. <<"base">> \in Seq(W)
    BY DEF Fixed
  <2>2. \A d \in {b, c} : d.distro \in Seq(W) /\ d.version \in Seq(W) /\ d.layer \in Seq(W)
                        /\ d.arch \in W
    BY Parts
  <2> QED BY <2>1, <2>2
<1>2. <<"qcow2", "image">> \in Seq(W)
  BY DEF Fixed
<1> HIDE DEF W
<1>3. ASSUME OCIRepo(b) = OCIRepo(c) PROVE b.distro = c.distro
  BY <1>1, <1>2, <1>3, SplitsBehind DEF OCIRepo
<1>4. shown(b) = shown(c) => b.layer = c.layer
  OBVIOUS
<1>5. \A d \in {b, c} : OCITag(d) = front(d) \o <<d.arch>>
  BY DEF OCITag
<1>6. ASSUME OCITag(b) = OCITag(c)
      PROVE  b.version = c.version /\ b.layer = c.layer /\ b.arch = c.arch
  <2> HIDE DEF shown
  <2>1. front(b) \in Seq(W) /\ front(c) \in Seq(W)
    BY <1>1, ConcatProperties
  <2>2. front(b) = front(c) /\ b.arch = c.arch
    <3>1. b.arch \in W /\ c.arch \in W
      BY <1>1
    <3>2. front(b) \o <<b.arch>> = front(c) \o <<c.arch>>
      BY <1>5, <1>6
    <3> HIDE DEF front
    <3> QED BY <2>1, <3>1, <3>2, SplitsLast
  <2>3. b.version = c.version /\ shown(b) = shown(c)
    BY <1>1, <2>2, Splits
  <2> QED BY <1>4, <2>2, <2>3
<1> QED BY <1>3, <1>6 DEF OCIRepo, OCITag

(* A layer called "base", which ValidateLayerDir accepts, is pushed under  *)
(* the name of the base image it was built on, although their artifacts    *)
(* have names of their own (config.go:337-343, 377).                       *)
THEOREM LayerCalledBase ==
  ASSUME NEW words, NEW b \in BuildType(words), NEW c \in BuildType(words),
         b.layer = <<>>, c.layer = <<"base">>,
         b.distro = c.distro, b.version = c.version, b.variant = c.variant, b.arch = c.arch
  PROVE  /\ OCIRepo(b) = OCIRepo(c) /\ OCITag(b) = OCITag(c)
         /\ FinalImageName(b) # FinalImageName(c)
<1>1. OCIRepo(b) = OCIRepo(c) /\ OCITag(b) = OCITag(c)
  BY DEF OCIRepo, OCITag
<1>2. ImageTag(b) # ImageTag(c)
  <2>1. SameShape(b, c) /\ b.layer # c.layer
    BY DEF SameShape
  <2> QED BY <2>1, ImageTagNames
<1> QED BY <1>1, <1>2, WorkNames
=============================================================================
