------------------------------ MODULE BaseDisk ------------------------------
(***************************************************************************)
(* `astroimg download`: fetch the upstream cloud image, check it against   *)
(* the distro's manifest, convert it into the pristine base disk that      *)
(* every base build clones (cmd/astroimg/download.go and                   *)
(* internal/imagefetch/imagefetch.go).                                     *)
(*                                                                         *)
(* One invocation runs at a time.  What survives it is the runtime         *)
(* directory: the ".part" file, the downloaded image and the base disk.    *)
(* An invocation may fail at every step, be cancelled (Ctrl-C or SIGTERM   *)
(* cancels the context) or be killed outright; a later one starts from     *)
(* whatever it finds on disk.                                              *)
(***************************************************************************)
EXTENDS Naturals

CONSTANTS Images,         \* contents the mirror may serve under ImageURL
          Absent,         \* "no such file", and "no entry for this file name"
          RetryAttempts   \* imagefetch.retryAttempts

ASSUME RetryAssumption == RetryAttempts \in Nat \ {0}

VARIABLES
  pc,         \* where the invocation is
  tries,      \* doGetWithRetry's attempt counter
  cancelled,  \* the invocation's context is cancelled
  listed,     \* the content the fetched manifest vouches for
  part,       \* "<DownloadedImg>.part"
  img,        \* DownloadedImg
  base,       \* BaseDisk
  manifest,   \* the distro's configuration names a manifest (ChecksumURL)
  vouched,    \* history: contents VerifyFile accepted since the last clean
  cut         \* history: guarded windows some invocation ended inside of

process == <<pc, tries, cancelled, listed>>
files == <<part, img, base>>
history == <<vouched, cut>>
vars == <<process, files, manifest, history>>

Labels == {"idle", "get", "stream", "rename", "sums", "verify", "convert",
           "resize"}
File == [of : Images, whole : BOOLEAN]
Disk == [of : Images, whole : BOOLEAN, sized : BOOLEAN]

ASSUME AbsentAssumption == Absent \notin Images \cup File \cup Disk

TypeOK ==
  /\ pc \in Labels
  /\ tries \in 1 .. RetryAttempts
  /\ cancelled \in BOOLEAN
  /\ listed \in Images \cup {Absent}
  /\ part \in File \cup {Absent}
  /\ img \in File \cup {Absent}
  /\ base \in Disk \cup {Absent}
  /\ manifest \in BOOLEAN
  /\ vouched \subseteq Images
  /\ cut \subseteq {"verify", "base"}

Init ==
  /\ pc = "idle" /\ tries = 1 /\ cancelled = FALSE
  /\ listed = Absent
  /\ part = Absent /\ img = Absent /\ base = Absent
  /\ manifest \in BOOLEAN /\ vouched = {} /\ cut = {}

-----------------------------------------------------------------------------
(* Leaving and moving on.                                                  *)

GoTo(l) ==
  /\ pc' = l
  /\ tries' = 1
  /\ UNCHANGED <<cancelled, listed>>

Exit == pc' = "idle" /\ tries' = 1 /\ cancelled' = FALSE /\ listed' = Absent

(* The window an invocation is in: between the rename that publishes the   *)
(* image and VerifyFile's answer, or between the first byte of the base    *)
(* disk and the end of its resize.                                         *)
Window ==
  IF pc \in {"sums", "verify"} THEN {"verify"}
  ELSE IF pc \in {"convert", "resize"} THEN {"base"} ELSE {}

(* Mutant of ConvertIfMissing: the base disk is not looked for. *)
AlwaysConvert(i) ==
  /\ GoTo("convert")
  /\ base' = [of |-> i.of, whole |-> FALSE, sized |-> FALSE]

(* doDownload's second half: qemu-img convert runs only if the base disk   *)
(* does not exist; it creates its output file first, so the disk exists,   *)
(* unfinished, from here on.                                               *)
ConvertIfMissing(i) ==
  \/ /\ base = Absent
     /\ GoTo("convert")
     /\ base' = [of |-> i.of, whole |-> FALSE, sized |-> FALSE]
  \/ /\ base # Absent
     /\ Exit
     /\ base' = base

-----------------------------------------------------------------------------
(* Mutant of InvokeBase: the image is fetched though it is there. *)
AlwaysFetch ==
  /\ pc = "idle"
  /\ GoTo("get")
  /\ UNCHANGED <<files, history>>

(* `astroimg download`; with --layer it returns before it does anything. *)
InvokeBase ==
  /\ pc = "idle"
  /\ \/ /\ img = Absent
        /\ GoTo("get")
        /\ base' = base
     \/ /\ img # Absent
        /\ ConvertIfMissing(img)
  /\ UNCHANGED <<part, img, history>>

(* Mutants of RetryOrFail: one attempt too many; the count starts over.*)
RetryPastLimit ==
  \/ tries' = tries + 1 /\ UNCHANGED <<pc, cancelled, listed>>
  \/ cancelled /\ Exit

RetryForever ==
  \/ /\ tries' = IF tries < RetryAttempts THEN tries + 1 ELSE 1
     /\ UNCHANGED <<pc, cancelled, listed>>
  \/ cancelled /\ Exit

(* A GET that fails: wait and try again, give up after the last attempt,   *)
(* or return early because the context is done.  With the context done     *)
(* and the timer fired, select takes either branch.                        *)
RetryOrFail ==
  \/ /\ tries < RetryAttempts
     /\ tries' = tries + 1
     /\ UNCHANGED <<pc, cancelled, listed>>
  \/ /\ tries = RetryAttempts \/ cancelled
     /\ Exit

(* The image's GET answers 200: the .part file is created or truncated.    *)
GetOk ==
  /\ pc = "get"
  /\ GoTo("stream")
  /\ \E i \in Images : part' = [of |-> i, whole |-> FALSE]
  /\ UNCHANGED <<img, base, history>>

GetFailed ==
  /\ pc = "get"
  /\ RetryOrFail
  /\ UNCHANGED <<files, history>>

(* The GET answers 200 and the directory or the .part file cannot be made. *)
PartFailed ==
  /\ pc = "get"
  /\ Exit
  /\ UNCHANGED <<files, history>>

StreamOk ==
  /\ pc = "stream"
  /\ GoTo("rename")
  /\ part' = [part EXCEPT !.whole = TRUE]
  /\ UNCHANGED <<img, base, history>>

(* Mutant of StreamFailed: io.Copy's error is dropped. *)
StreamErrorIgnored ==
  /\ pc = "stream"
  /\ GoTo("rename")
  /\ UNCHANGED <<files, history>>

(* io.Copy or Close fails: the .part file is removed, if it can be. *)
StreamFailed ==
  /\ pc = "stream"
  /\ Exit
  /\ part' \in {Absent, part}
  /\ UNCHANGED <<img, base, history>>

(* The rename publishes the image; without a manifest nothing verifies it. *)
Rename ==
  /\ pc = "rename"
  /\ img' = part
  /\ part' = Absent
  /\ \/ manifest /\ GoTo("sums") /\ base' = base
     \/ ~manifest /\ ConvertIfMissing(part)
  /\ UNCHANGED history

(* os.Rename fails: the .part file stays. *)
RenameFailed ==
  /\ pc = "rename"
  /\ Exit
  /\ UNCHANGED <<files, history>>

(* The manifest's GET answers 200; it may list another content under the   *)
(* file's name (the mirror lags, the release moved) or no entry at all.    *)
SumsOk ==
  /\ pc = "sums"
  /\ pc' = "verify" /\ tries' = 1
  /\ listed' \in Images \cup {Absent}
  /\ UNCHANGED <<cancelled, files, history>>

(* FetchText fails: the error is returned, the renamed image stays.  Its   *)
(* GET fails, or the manifest is cut short.                                *)
SumsFailed ==
  /\ pc = "sums"
  /\ RetryOrFail
  /\ cut' = IF pc' = "idle" THEN cut \cup Window ELSE cut
  /\ UNCHANGED <<files, vouched>>

SumsCutShort ==
  /\ pc = "sums"
  /\ Exit
  /\ cut' = cut \cup Window
  /\ UNCHANGED <<files, vouched>>

VerifyOk ==
  /\ pc = "verify"
  /\ img.whole /\ img.of = listed
  /\ vouched' = vouched \cup {img.of}
  /\ ConvertIfMissing(img)
  /\ UNCHANGED <<part, img, cut>>

(* Mutant of VerifyFailed: the rejected image is left in place. *)
RejectWithoutRemoving ==
  /\ pc = "verify"
  /\ Exit
  /\ UNCHANGED <<files, history>>

(* VerifyFile fails: on another digest, on a manifest without the entry, or *)
(* on a manifest or an image it cannot read, a good image included.  The   *)
(* image is removed, or the removal fails as well.                         *)
VerifyFailed ==
  /\ pc = "verify"
  /\ Exit
  /\ \/ img' = Absent /\ UNCHANGED cut
     \/ img' = img /\ cut' = cut \cup Window
  /\ UNCHANGED <<part, base, vouched>>

ConvertOk ==
  /\ pc = "convert"
  /\ GoTo("resize")
  /\ base' = [base EXCEPT !.whole = TRUE]
  /\ UNCHANGED <<part, img, history>>

(* Mutant of ConvertFailed: convert's error is dropped. *)
ConvertErrorIgnored ==
  /\ pc = "convert"
  /\ GoTo("resize")
  /\ UNCHANGED <<files, history>>

(* qemu-img convert fails or never starts; nothing removes what it wrote.  *)
ConvertFailed ==
  /\ pc = "convert"
  /\ Exit
  /\ base' \in {base, Absent}
  /\ cut' = cut \cup Window
  /\ UNCHANGED <<part, img, vouched>>

ResizeOk ==
  /\ pc = "resize"
  /\ Exit
  /\ base' = [base EXCEPT !.sized = TRUE]
  /\ UNCHANGED <<part, img, history>>

ResizeFailed ==
  /\ pc = "resize"
  /\ Exit
  /\ cut' = cut \cup Window
  /\ UNCHANGED <<files, vouched>>

-----------------------------------------------------------------------------
(* The world around an invocation. *)

Cancel ==
  /\ pc # "idle" /\ ~cancelled
  /\ cancelled' = TRUE
  /\ UNCHANGED <<pc, tries, listed, files, history>>

Killed ==
  /\ pc # "idle"
  /\ Exit
  /\ cut' = cut \cup Window
  /\ UNCHANGED <<files, vouched>>

(* `astroimg clean`: the runtime directory goes, and its past with it. *)
Clean ==
  /\ pc = "idle"
  /\ part' = Absent /\ img' = Absent /\ base' = Absent
  /\ vouched' = {} /\ cut' = {}
  /\ UNCHANGED <<pc, tries, cancelled, listed>>

Step ==
  \/ GetOk \/ GetFailed \/ PartFailed \/ StreamOk \/ StreamFailed
  \/ Rename \/ RenameFailed \/ SumsOk \/ SumsFailed \/ SumsCutShort
  \/ VerifyOk \/ VerifyFailed
  \/ ConvertOk \/ ConvertFailed \/ ResizeOk \/ ResizeFailed

Next ==
  /\ InvokeBase \/ Step \/ Cancel \/ Killed \/ Clean
  /\ UNCHANGED manifest

(* The HTTP client has no timeout, so a silent server may hold a step      *)
(* forever.  A cancelled context ends every blocking call: once it is      *)
(* cancelled the invocation keeps moving.                                  *)
Fairness == WF_vars(cancelled /\ Step /\ UNCHANGED manifest)

Spec == Init /\ [][Next]_vars /\ Fairness

-----------------------------------------------------------------------------
(* What every step keeps; BaseDisk_proofs shows that it is inductive.      *)

(* Where the invocation is and which files exist agree.                    *)
FilesFit ==
  /\ pc \in {"stream", "rename"} => part # Absent
  /\ pc = "rename" => part.whole
  /\ pc \in {"sums", "verify"} => manifest /\ img # Absent
  /\ img # Absent => img.whole
  /\ pc \in {"convert", "resize"} => base # Absent /\ ~base.sized
  /\ pc = "resize" => base.whole
  /\ "base" \notin cut /\ pc \notin {"convert", "resize"} /\ base # Absent
       => base.whole /\ base.sized

-----------------------------------------------------------------------------
(* An interrupted download never leaves a truncated file where the next    *)
(* run looks for the finished one (imagefetch.go, Download).               *)
DownloadWhole == img # Absent => img.whole

(* Whatever the earlier invocations did, the image and the base disk hold  *)
(* contents that VerifyFile accepted -- unless an invocation ended after   *)
(* the rename and before VerifyFile's answer, or could not remove an image *)
(* VerifyFile rejected (download.go:71-95).                                *)
VouchedUnlessCut ==
  manifest /\ "verify" \notin cut =>
    /\ img # Absent /\ pc \notin {"sums", "verify"} => img.of \in vouched
    /\ base # Absent => base.of \in vouched

(* Between invocations the base disk, if there is one, is complete and has *)
(* its 25G -- unless an invocation ended inside convert or resize          *)
(* (download.go:47-61).                                                    *)
PristineUnlessCut ==
  "base" \notin cut /\ pc = "idle" /\ base # Absent => base.whole /\ base.sized

(* No later invocation rewrites a finished base disk: it stays as it is    *)
(* until clean removes it.                                                 *)
PristineIsStable ==
  [][base # Absent /\ base.sized => base' \in {base, Absent}]_vars

(* Over all invocations the two files lead the lives VendorDisk allows.  A  *)
(* disk that is neither finished nor being made was abandoned.             *)
Trust ==
  IF pc \in {"sums", "verify"} THEN "published"
  ELSE IF "verify" \in cut THEN "unchecked" ELSE "accepted"

Progress ==
  IF base.sized THEN "ready"
  ELSE IF pc \in {"convert", "resize"} THEN "making" ELSE "abandoned"

Vendor ==
  INSTANCE VendorDisk
  WITH Images <- Images, Absent <- Absent,
       image <- IF img = Absent THEN Absent ELSE [of |-> img.of, trust |-> Trust],
       disk <- IF base = Absent THEN Absent ELSE [of |-> base.of, state |-> Progress]

ASSUME VendorAssumption == Absent \notin Vendor!Image \cup Vendor!Disk

Implements == Vendor!Spec

(* Ctrl-C ends the invocation, however the server behaves. *)
CancelEnds == cancelled ~> pc = "idle"

-----------------------------------------------------------------------------
(* What the code's own words claim, and a failed or killed invocation      *)
(* refutes.                                                                *)

(* "verifies it against a SHA256SUMS manifest before it's trusted"         *)
(* (download.go:66-67): a base disk only ever comes from a content         *)
(* VerifyFile accepted.                                                    *)
VerifiedBeforeTrusted == manifest /\ base # Absent => base.of \in vouched
=============================================================================
