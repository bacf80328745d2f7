-------------------------------- MODULE Names --------------------------------
(***************************************************************************)
(* The names config.Resolve derives for a build (internal/config/config.go). *)
(* Resolve joins what it is given with hyphens, and what it is given may   *)
(* hold hyphens itself (namePattern): a name is the sequence of the words  *)
(* between its hyphens, and two builds share a file when those are equal.  *)
(* The directory and the extension, fixed for each kind of file, are left  *)
(* out.  The SSH key pair has one name for all.                            *)
(***************************************************************************)
EXTENDS Sequences

(* A build: what the flags and distro.yaml select; no layer is <<>>.       *)
BuildType(words) ==
  [distro : Seq(words), version : Seq(words), release : Seq(words),
   variant : Seq(words), layer : Seq(words), arch : words]

(* Mutant of BaseDisk: the architecture is forgotten too.                  *)
DistroDisk(b) == <<"base">> \o b.distro

(* The source disk: the distro and the architecture, not the release.      *)
BaseDisk(b) == <<"base">> \o b.distro \o <<b.arch>>

(* The vendor's image: the release and the architecture, not the distro.   *)
DownloadedImg(b) == b.release \o <<"server", "cloudimg", b.arch>>

(* ImageTag, and with it user-data, meta-data and the cloud-init ISO: not  *)
(* the architecture.                                                       *)
ImageTag(b) == b.distro \o b.version \o b.variant \o b.layer

(* The copy of the firmware's variables. *)
VarsFile(b) == <<"vars", b.arch>>

(* The instance disk and the artifact. *)
InstanceDisk(b) ==
  <<IF b.layer = <<>> THEN "instance" ELSE "overlay">> \o ImageTag(b) \o <<b.arch>>
FinalImageName(b) == ImageTag(b) \o <<b.arch>>

(* What push calls it in the registry. *)
OCIRepo(b) == b.distro \o <<"qcow2", "image">>
OCITag(b) ==
  b.version \o (IF b.layer = <<>> THEN <<"base">> ELSE b.layer) \o <<b.arch>>
=============================================================================
