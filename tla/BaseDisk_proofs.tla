--------------------------- MODULE BaseDisk_proofs ---------------------------
(* Safety of BaseDisk for every set of contents and every number of GET    *)
(* attempts.                                                               *)
EXTENDS BaseDisk, TLAPS

USE AbsentAssumption, RetryAssumption

(* VouchedUnlessCut is inductive beside FilesFit. *)
IInv == TypeOK /\ FilesFit /\ VouchedUnlessCut

LEMMA InitIInv == Init => IInv
<1> SUFFICES ASSUME Init PROVE IInv
  OBVIOUS
<1>1. 1 \in 1 .. RetryAttempts
  OBVIOUS
<1>2. TypeOK
  BY <1>1 DEF Init, TypeOK, Labels
<1>3. QED
  BY <1>2 DEF Init, IInv, FilesFit, VouchedUnlessCut

(* The two ways out of a label, and what they do to the process variables. *)
LEMMA GoTypes ==
  ASSUME TypeOK, NEW l \in Labels, GoTo(l)
  PROVE  /\ pc' = l /\ tries' \in 1 .. RetryAttempts
         /\ cancelled' \in BOOLEAN /\ listed' \in Images \cup {Absent}
BY DEF TypeOK, GoTo

LEMMA ExitTypes ==
  ASSUME Exit
  PROVE  /\ pc' = "idle" /\ pc' \in Labels /\ tries' \in 1 .. RetryAttempts
         /\ cancelled' \in BOOLEAN /\ listed' \in Images \cup {Absent}
<1>1. 1 \in 1 .. RetryAttempts
  OBVIOUS
<1>2. QED BY <1>1 DEF Exit, Labels

(* A new base disk is typed, of the image it came from, and unfinished. *)
LEMMA ConvertFacts ==
  ASSUME TypeOK, NEW i \in File, ConvertIfMissing(i)
  PROVE  /\ pc' \in Labels /\ tries' \in 1 .. RetryAttempts
         /\ cancelled' \in BOOLEAN /\ listed' \in Images \cup {Absent}
         /\ base' \in Disk \cup {Absent}
         /\ \/ /\ base = Absent /\ pc' = "convert"
               /\ base' # Absent /\ base'.of = i.of /\ ~base'.sized
            \/ base # Absent /\ pc' = "idle" /\ base' = base
<1>1. CASE base = Absent /\ GoTo("convert")
           /\ base' = [of |-> i.of, whole |-> FALSE, sized |-> FALSE]
  <2>1. base' \in Disk
    BY <1>1 DEF File, Disk
  <2>2. QED BY <1>1, <2>1, GoTypes DEF Labels
<1>2. CASE base # Absent /\ Exit /\ base' = base
  BY <1>2, ExitTypes DEF TypeOK
<1>3. QED BY <1>1, <1>2 DEF ConvertIfMissing

LEMMA InvokeStep ==
  ASSUME IInv, InvokeBase, UNCHANGED manifest
  PROVE  IInv'
<1>1. CASE img = Absent
  <2>1. pc = "idle" /\ GoTo("get") /\ base' = base /\ UNCHANGED <<part, img, history>>
    BY <1>1 DEF InvokeBase
  <2>2. TypeOK'
    BY <2>1, GoTypes DEF IInv, TypeOK, history, Labels
  <2>3. pc' = "get" /\ UNCHANGED <<files, history>>
    BY <2>1 DEF GoTo, files
  <2>4. QED
    BY <2>1, <2>2, <2>3
       DEF IInv, FilesFit, VouchedUnlessCut, files, history
<1>2. CASE img # Absent
  <2>1. pc = "idle" /\ ConvertIfMissing(img) /\ UNCHANGED <<part, img, history>>
    BY <1>2 DEF InvokeBase
  <2>2. img \in File
    BY <1>2 DEF IInv, TypeOK
  <2>3. TypeOK'
    BY <2>1, <2>2, ConvertFacts DEF IInv, TypeOK, history
  <2>4. QED
    BY <1>2, <2>1, <2>2, <2>3, ConvertFacts
       DEF IInv, FilesFit, VouchedUnlessCut, history
<1>3. QED BY <1>1, <1>2

LEMMA RetryFacts ==
  ASSUME TypeOK, RetryOrFail
  PROVE  /\ pc' \in Labels /\ tries' \in 1 .. RetryAttempts
         /\ cancelled' \in BOOLEAN /\ listed' \in Images \cup {Absent}
         /\ pc' = pc \/ pc' = "idle"
<1>1. CASE tries < RetryAttempts /\ tries' = tries + 1
           /\ UNCHANGED <<pc, cancelled, listed>>
  <2>1. tries' \in 1 .. RetryAttempts
    BY <1>1 DEF TypeOK
  <2>2. QED BY <1>1, <2>1 DEF TypeOK
<1>2. CASE Exit
  BY <1>2, ExitTypes
<1>3. QED BY <1>1, <1>2 DEF RetryOrFail

LEMMA GetStep ==
  ASSUME IInv, GetOk \/ GetFailed \/ PartFailed, UNCHANGED manifest
  PROVE  IInv'
<1>1. CASE GetOk
  <2>1. part' \in File
    BY <1>1 DEF GetOk, File
  <2>2. TypeOK'
    BY <1>1, <2>1, GoTypes DEF GetOk, IInv, TypeOK, history, Labels
  <2>3. QED
    BY <1>1, <2>1, <2>2, GoTypes
       DEF GetOk, IInv, FilesFit, VouchedUnlessCut, history,
           Labels
<1>2. CASE PartFailed
  BY <1>2, ExitTypes DEF PartFailed, IInv, TypeOK, FilesFit, VouchedUnlessCut, files, history
<1>3. CASE GetFailed
  <2>1. pc = "get" /\ RetryOrFail /\ UNCHANGED <<files, history>> /\ TypeOK
    BY <1>3 DEF GetFailed, IInv
  <2>2. TypeOK'
    BY <2>1, RetryFacts DEF TypeOK, files, history
  <2>3. QED
    BY <2>1, <2>2, RetryFacts
       DEF IInv, FilesFit, VouchedUnlessCut, files, history
<1>4. QED BY <1>1, <1>2, <1>3

LEMMA StreamStep ==
  ASSUME IInv, StreamOk \/ StreamFailed, UNCHANGED manifest
  PROVE  IInv'
<1>1. CASE StreamOk
  <2>1. part \in File /\ part' = [part EXCEPT !.whole = TRUE]
    BY <1>1 DEF StreamOk, IInv, TypeOK, FilesFit
  <2>2. part' \in File /\ part'.whole
    BY <2>1 DEF File
  <2>3. TypeOK'
    BY <1>1, <2>2, GoTypes DEF StreamOk, IInv, TypeOK, history, Labels
  <2>4. QED
    BY <1>1, <2>2, <2>3, GoTypes
       DEF StreamOk, IInv, FilesFit, VouchedUnlessCut,
           history, Labels
<1>2. CASE StreamFailed
  <2>1. TypeOK'
    BY <1>2, ExitTypes DEF StreamFailed, IInv, TypeOK, history
  <2>2. QED
    BY <1>2, <2>1, ExitTypes
       DEF StreamFailed, IInv, FilesFit, VouchedUnlessCut,
           history
<1>3. QED BY <1>1, <1>2

LEMMA RenameStep ==
  ASSUME IInv, Rename \/ RenameFailed, UNCHANGED manifest
  PROVE  IInv'
<1>0. CASE RenameFailed
  BY <1>0, ExitTypes DEF RenameFailed, IInv, TypeOK, FilesFit, VouchedUnlessCut, files,
     history
<1> SUFFICES ASSUME Rename PROVE IInv'
  BY <1>0
<1>1. /\ pc = "rename" /\ part \in File /\ part.whole /\ TypeOK
      /\ img' = part /\ part' = Absent /\ UNCHANGED history
  BY DEF Rename, IInv, TypeOK, FilesFit
<1>2. CASE manifest /\ GoTo("sums") /\ base' = base
  <2>1. TypeOK'
    BY <1>1, <1>2, GoTypes DEF TypeOK, history, Labels
  <2>2. QED
    BY <1>1, <1>2, <2>1, GoTypes
       DEF IInv, FilesFit, VouchedUnlessCut, history, Labels
<1>3. CASE ~manifest /\ ConvertIfMissing(part)
  <2>1. TypeOK'
    BY <1>1, <1>3, ConvertFacts DEF TypeOK, history
  <2>2. QED
    BY <1>1, <1>3, <2>1, ConvertFacts
       DEF IInv, FilesFit, VouchedUnlessCut, history
<1>4. QED BY <1>2, <1>3 DEF Rename

LEMMA SumsStep ==
  ASSUME IInv, SumsOk \/ SumsFailed \/ SumsCutShort, UNCHANGED manifest
  PROVE  IInv'
<1>0. 1 \in 1 .. RetryAttempts
  OBVIOUS
<1>1. CASE SumsOk
  <2>1. TypeOK'
    BY <1>0, <1>1 DEF SumsOk, IInv, TypeOK, files, history, Labels
  <2>2. QED
    BY <1>1, <2>1
       DEF SumsOk, IInv, FilesFit, VouchedUnlessCut, files,
           history
<1>2. CASE SumsFailed
  <2>1. /\ pc = "sums" /\ RetryOrFail /\ UNCHANGED <<files, vouched>> /\ TypeOK
        /\ cut' = IF pc' = "idle" THEN cut \cup {"verify"} ELSE cut
    BY <1>2 DEF SumsFailed, IInv, Window
  <2>2. TypeOK'
    BY <2>1, RetryFacts DEF TypeOK, files
  <2>3. QED
    BY <2>1, <2>2, RetryFacts
       DEF IInv, FilesFit, VouchedUnlessCut, files
<1>3. CASE SumsCutShort
  <2>1. cut' = cut \cup {"verify"} /\ UNCHANGED <<files, vouched>> /\ Exit /\ pc = "sums"
    BY <1>3 DEF SumsCutShort, Window
  <2>2. QED
    BY <2>1, ExitTypes DEF IInv, TypeOK, FilesFit, VouchedUnlessCut, files
<1>4. QED BY <1>1, <1>2, <1>3

LEMMA VerifyStep ==
  ASSUME IInv, VerifyOk \/ VerifyFailed, UNCHANGED manifest
  PROVE  IInv'
<1>0. pc = "verify" /\ img \in File /\ manifest /\ TypeOK
  BY DEF VerifyOk, VerifyFailed, IInv, TypeOK, FilesFit
<1>1. CASE VerifyOk
  <2>1. /\ ConvertIfMissing(img) /\ vouched' = vouched \cup {img.of}
        /\ UNCHANGED <<part, img, cut>>
    BY <1>1 DEF VerifyOk
  <2>2. img.of \in Images
    BY <1>0 DEF File
  <2>3. TypeOK'
    BY <1>0, <2>1, <2>2, ConvertFacts DEF TypeOK
  <2>4. QED
    BY <1>0, <2>1, <2>3, ConvertFacts
       DEF IInv, FilesFit, VouchedUnlessCut
<1>2. CASE VerifyFailed
  <2>1. UNCHANGED <<part, base, vouched>>
    BY <1>2 DEF VerifyFailed
  <2>2. CASE Exit /\ img' = Absent /\ UNCHANGED cut
    <3>1. TypeOK'
      BY <1>0, <2>1, <2>2, ExitTypes DEF TypeOK
    <3>2. QED
      BY <1>0, <2>1, <2>2, <3>1, ExitTypes
         DEF IInv, FilesFit, VouchedUnlessCut
  <2>3. CASE Exit /\ img' = img /\ cut' = cut \cup Window
    <3>1. cut' = cut \cup {"verify"}
      BY <1>0, <2>3 DEF Window
    <3>2. TypeOK'
      BY <1>0, <2>1, <2>3, <3>1, ExitTypes DEF TypeOK
    <3>3. QED
      BY <1>0, <2>1, <2>3, <3>1, <3>2, ExitTypes
         DEF IInv, FilesFit, VouchedUnlessCut
  <2>4. QED BY <1>2, <2>2, <2>3 DEF VerifyFailed
<1>3. QED BY <1>1, <1>2

LEMMA ConvertStep ==
  ASSUME IInv, ConvertOk \/ ConvertFailed, UNCHANGED manifest
  PROVE  IInv'
<1>0. pc = "convert" /\ base \in Disk /\ ~base.sized /\ TypeOK
  BY DEF ConvertOk, ConvertFailed, IInv, TypeOK, FilesFit
<1>1. CASE ConvertOk
  <2>1. base' \in Disk /\ base'.whole /\ ~base'.sized /\ base'.of = base.of
    BY <1>0, <1>1 DEF ConvertOk, Disk
  <2>2. TypeOK'
    BY <1>0, <1>1, <2>1, GoTypes DEF ConvertOk, TypeOK, history, Labels
  <2>3. pc' = "resize" /\ UNCHANGED <<part, img, vouched, cut>>
    BY <1>0, <1>1 DEF ConvertOk, GoTo, history
  <2>4. FilesFit'
    BY <1>0, <2>1, <2>3 DEF IInv, FilesFit
  <2>5. VouchedUnlessCut'
    BY <1>0, <2>1, <2>3 DEF IInv, VouchedUnlessCut
  <2>6. QED BY <2>2, <2>4, <2>5 DEF IInv
<1>2. CASE ConvertFailed
  <2>1. /\ cut' = cut \cup {"base"} /\ base' \in {base, Absent}
        /\ UNCHANGED <<part, img, vouched>> /\ Exit
    BY <1>0, <1>2 DEF ConvertFailed, Window
  <2>2. TypeOK'
    BY <1>0, <2>1, ExitTypes DEF TypeOK
  <2>3. QED
    BY <1>0, <2>1, <2>2, ExitTypes
       DEF IInv, FilesFit, VouchedUnlessCut
<1>3. QED BY <1>1, <1>2

LEMMA ResizeStep ==
  ASSUME IInv, ResizeOk \/ ResizeFailed, UNCHANGED manifest
  PROVE  IInv'
<1>0. pc = "resize" /\ base \in Disk /\ base.whole /\ TypeOK
  BY DEF ResizeOk, ResizeFailed, IInv, TypeOK, FilesFit
<1>1. CASE ResizeOk
  <2>1. base' \in Disk /\ base'.whole /\ base'.sized /\ base'.of = base.of
    BY <1>0, <1>1 DEF ResizeOk, Disk
  <2>2. TypeOK'
    BY <1>0, <1>1, <2>1, ExitTypes DEF ResizeOk, TypeOK, history
  <2>3. QED
    BY <1>0, <1>1, <2>1, <2>2, ExitTypes
       DEF ResizeOk, IInv, FilesFit, VouchedUnlessCut,
           history
<1>2. CASE ResizeFailed
  <2>1. cut' = cut \cup {"base"} /\ UNCHANGED <<files, vouched>> /\ Exit
    BY <1>0, <1>2 DEF ResizeFailed, Window
  <2>2. TypeOK'
    BY <1>0, <2>1, ExitTypes DEF TypeOK, files
  <2>3. QED
    BY <1>0, <2>1, <2>2, ExitTypes
       DEF IInv, FilesFit, VouchedUnlessCut, files
<1>3. QED BY <1>1, <1>2

LEMMA WorldStep ==
  ASSUME IInv, Cancel \/ Killed \/ Clean, UNCHANGED manifest
  PROVE  IInv'
<1>1. CASE Cancel
  BY <1>1 DEF Cancel, IInv, TypeOK, FilesFit, VouchedUnlessCut, files, history
<1>2. CASE Killed
  <2>1. /\ cut' = cut \cup Window /\ UNCHANGED <<files, vouched>>
        /\ Exit /\ TypeOK
    BY <1>2 DEF Killed, IInv
  <2>2. TypeOK'
    BY <2>1, ExitTypes DEF TypeOK, files, Window
  <2>3. FilesFit'
    BY <2>1, ExitTypes DEF IInv, FilesFit, files, Window
  <2>4. VouchedUnlessCut'
    BY <2>1, ExitTypes
       DEF IInv, VouchedUnlessCut, files, Window
  <2>5. QED BY <2>2, <2>3, <2>4 DEF IInv
<1>3. CASE Clean
  BY <1>3 DEF Clean, IInv, TypeOK, FilesFit, VouchedUnlessCut
<1>4. QED BY <1>1, <1>2, <1>3

THEOREM NextIInv == IInv /\ [Next]_vars => IInv'
<1>1. CASE UNCHANGED vars
  BY <1>1 DEF IInv, TypeOK, FilesFit, VouchedUnlessCut,
              vars, process, files, history
<1>2. ASSUME IInv, Next PROVE IInv'
  BY <1>2, InvokeStep, GetStep, StreamStep, RenameStep, SumsStep, VerifyStep,
     ConvertStep, ResizeStep, WorldStep
     DEF Next, Step
<1>3. QED BY <1>1, <1>2

-----------------------------------------------------------------------------
(* The state always has the shape the model gives it. *)
THEOREM TypeCorrect == Spec => []TypeOK
<1>1. IInv => TypeOK
  BY DEF IInv
<1>2. QED BY InitIInv, NextIInv, <1>1, PTL DEF Spec

(* The image the next run finds is never a truncated download. *)
THEOREM DownloadWholeHolds == Spec => []DownloadWhole
<1>1. IInv => DownloadWhole
  BY DEF IInv, FilesFit, DownloadWhole
<1>2. QED BY InitIInv, NextIInv, <1>1, PTL DEF Spec

(* An unverified base disk needs an invocation that ended between the      *)
(* rename and VerifyFile's answer.                                         *)
THEOREM VouchedUnlessCutHolds == Spec => []VouchedUnlessCut
<1>1. IInv => VouchedUnlessCut
  BY DEF IInv
<1>2. QED BY InitIInv, NextIInv, <1>1, PTL DEF Spec

(* An unfinished base disk needs an invocation that ended inside convert   *)
(* or resize.                                                              *)
THEOREM PristineUnlessCutHolds == Spec => []PristineUnlessCut
<1>1. IInv => PristineUnlessCut
  BY DEF IInv, FilesFit, PristineUnlessCut
<1>2. QED BY InitIInv, NextIInv, <1>1, PTL DEF Spec

(* A finished base disk stays as it is until clean removes it. *)
THEOREM PristineIsStableHolds == Spec => PristineIsStable
<1>1. ASSUME IInv, [Next]_vars, base # Absent, base.sized
      PROVE  base' \in {base, Absent}
  <2>1. pc \notin {"convert", "resize"}
    BY <1>1 DEF IInv, FilesFit
  <2>2. QED
    BY <1>1, <2>1
       DEF Next, Step, InvokeBase, ConvertIfMissing, GetOk,
           GetFailed, PartFailed, StreamOk, StreamFailed, Rename, RenameFailed,
           SumsOk, SumsFailed, SumsCutShort,
           VerifyOk, VerifyFailed, ConvertOk, ConvertFailed, ResizeOk,
           ResizeFailed, Cancel, Killed, Clean, vars, files
<1>2. QED BY InitIInv, NextIInv, <1>1, PTL DEF Spec, PristineIsStable

-----------------------------------------------------------------------------
(* Nothing is fetched over an image that is there, and one whose answer    *)
(* was missed once is there until clean, unverified.                       *)
ImageFits ==
  /\ pc \in {"get", "stream", "rename"} => img = Absent
  /\ "verify" \in cut =>
       img # Absent /\ pc \notin {"get", "stream", "rename", "sums", "verify"}

Fits == IInv /\ ImageFits

LEMMA StepFits == Fits /\ [Next]_vars => ImageFits'
<1> SUFFICES ASSUME Fits, [Next]_vars PROVE ImageFits'
  OBVIOUS
<1>t. TypeOK /\ FilesFit /\ ImageFits
  BY DEF Fits, IInv
<1> USE DEF ImageFits
<1>2. CASE InvokeBase
  BY <1>2, <1>t DEF InvokeBase, ConvertIfMissing, GoTo, Exit, history
<1>3. CASE GetOk \/ GetFailed \/ PartFailed \/ StreamOk \/ StreamFailed \/ RenameFailed
  BY <1>3, <1>t DEF GetOk, GetFailed, PartFailed, StreamOk, StreamFailed, RenameFailed, RetryOrFail, GoTo, Exit,
     files, history
<1>4. CASE Rename
  BY <1>4, <1>t DEF Rename, ConvertIfMissing, GoTo, Exit, FilesFit, history
<1>5. CASE SumsOk \/ SumsFailed \/ SumsCutShort
  BY <1>5, <1>t DEF SumsOk, SumsFailed, SumsCutShort, RetryOrFail, Exit, FilesFit, Window, files, history
<1>6. CASE VerifyOk
  BY <1>6, <1>t DEF VerifyOk, ConvertIfMissing, GoTo, Exit, FilesFit
<1>7. CASE VerifyFailed
  BY <1>7, <1>t DEF VerifyFailed, Exit, FilesFit, Window
<1>8. CASE ConvertOk \/ ConvertFailed \/ ResizeOk \/ ResizeFailed
  BY <1>8, <1>t DEF ConvertOk, ConvertFailed, ResizeOk, ResizeFailed, GoTo, Exit, Window,
     files, history
<1>9. CASE Cancel \/ Killed \/ Clean
  BY <1>9, <1>t DEF Cancel, Killed, Clean, Exit, FilesFit, Window, files, history
<1>10. CASE UNCHANGED vars
  BY <1>10, <1>t DEF vars, process, files, history
<1> QED
  BY <1>2, <1>3, <1>4, <1>5, <1>6, <1>7, <1>8, <1>9, <1>10 DEF Next, Step

LEMMA FitsHolds == Spec => []Fits
<1>1. Init => Fits
  BY InitIInv DEF Init, Fits, ImageFits
<1>2. Fits /\ [Next]_vars => Fits'
  BY NextIInv, StepFits DEF Fits
<1> QED BY <1>1, <1>2, PTL DEF Spec

(* What the files are mapped to is never the name for "no file".           *)
LEMMA Mapped ==
  /\ \A i \in Images, t \in {"published", "accepted", "unchecked"} :
       [of |-> i, trust |-> t] # Absent
  /\ \A i \in Images, t \in {"making", "ready", "abandoned"} :
       [of |-> i, state |-> t] # Absent
BY VendorAssumption DEF Vendor!Image, Vendor!Disk

(* Each step of an invocation is a step in the life of the two files. *)
LEMMA StepIsVendor == Fits /\ [Next]_vars => [Vendor!Next]_(Vendor!files)
<1> SUFFICES ASSUME Fits, [Next]_vars PROVE Vendor!Next \/ UNCHANGED Vendor!files
  OBVIOUS
<1>t. TypeOK /\ FilesFit /\ ImageFits /\ TypeOK'
  BY NextIInv DEF Fits, IInv
<1>m. /\ img # Absent => [of |-> img.of, trust |-> Trust] # Absent
      /\ base # Absent => [of |-> base.of, state |-> Progress] # Absent
      /\ img' # Absent => [of |-> img.of, trust |-> Trust]' # Absent
      /\ base' # Absent => [of |-> base.of, state |-> Progress]' # Absent
  BY Mapped, <1>t DEF TypeOK, File, Disk, Trust, Progress
<1>2. CASE InvokeBase
  <2>1. CASE img = Absent
    BY <1>2, <2>1, <1>t DEF InvokeBase, GoTo, FilesFit, Progress, Vendor!files, history
  <2>2. CASE img # Absent /\ base # Absent
    BY <1>2, <2>2, <1>t DEF InvokeBase, ConvertIfMissing, Exit, FilesFit, Trust, Progress,
       Vendor!files, history
  <2>3. CASE img # Absent /\ base = Absent
    <3>1. /\ pc = "idle" /\ img' = img /\ cut' = cut /\ img \in File
          /\ ConvertIfMissing(img)
      BY <1>2, <2>3, <1>t DEF InvokeBase, TypeOK, history
    <3>2. pc' = "convert" /\ base' # Absent /\ base'.of = img.of /\ ~base'.sized
      BY <2>3, <3>1, <1>t, ConvertFacts
    <3>3. Trust' = Trust /\ Trust # "published" /\ Progress' = "making"
      BY <3>1, <3>2 DEF Trust, Progress
    <3>4. Vendor!Begin
      BY <2>3, <3>1, <3>2, <3>3, <1>m DEF Vendor!Begin, Vendor!Begun
    <3> QED BY <3>4 DEF Vendor!Next
  <2> QED BY <2>1, <2>2, <2>3
<1>3. CASE GetOk \/ GetFailed \/ PartFailed \/ StreamOk \/ StreamFailed \/ RenameFailed
  <2>1. img = Absent /\ img' = Absent /\ UNCHANGED base /\ pc \notin {"convert", "resize"}
        /\ pc' \notin {"convert", "resize"}
    BY <1>3, <1>t DEF GetOk, GetFailed, PartFailed, StreamOk, StreamFailed, RenameFailed, RetryOrFail, GoTo, Exit,
       ImageFits, files
  <2> QED BY <2>1 DEF Progress, Vendor!files
<1>4. CASE Rename
  <2>1. /\ pc = "rename" /\ img = Absent /\ part \in File /\ img' = part /\ img' # Absent
        /\ img'.of \in Images /\ "verify" \notin cut' /\ cut' = cut
    BY <1>4, <1>t DEF Rename, ImageFits, FilesFit, TypeOK, File, history
  <2>2. CASE manifest /\ GoTo("sums") /\ base' = base
    <3>1. Trust' = "published" /\ Progress' = Progress
      BY <2>1, <2>2 DEF GoTo, Trust, Progress
    <3>2. Vendor!Publish
      BY <2>1, <2>2, <3>1, <1>m DEF Vendor!Publish
    <3> QED BY <3>2 DEF Vendor!Next
  <2>3. CASE ~manifest /\ ConvertIfMissing(part)
    <3>1. Trust' = "accepted"
      BY <2>1, <2>3 DEF ConvertIfMissing, GoTo, Exit, Trust
    <3>2. CASE base = Absent
      <4>1. pc' = "convert" /\ base' # Absent /\ base'.of = part.of /\ ~base'.sized
        BY <2>1, <2>3, <3>2, <1>t, ConvertFacts
      <4>2. Progress' = "making"
        BY <4>1 DEF Progress
      <4>3. Vendor!Publish
        BY <2>1, <3>1, <3>2, <4>1, <4>2, <1>m DEF Vendor!Publish, Vendor!Begun
      <4> QED BY <4>3 DEF Vendor!Next
    <3>3. CASE base # Absent
      <4>1. base' = base /\ Progress' = Progress
        BY <2>1, <2>3, <3>3 DEF ConvertIfMissing, Exit, Progress
      <4>2. Vendor!Publish
        BY <2>1, <3>1, <3>3, <4>1, <1>m DEF Vendor!Publish, Vendor!Begun
      <4> QED BY <4>2 DEF Vendor!Next
    <3> QED BY <3>2, <3>3
  <2> QED BY <1>4, <2>2, <2>3 DEF Rename
<1>5. CASE SumsOk \/ SumsFailed \/ SumsCutShort
  <2>1. /\ pc = "sums" /\ img # Absent /\ UNCHANGED <<img, base>> /\ Progress' = Progress
        /\ Trust = "published"
        /\ \/ Trust' = "published"
           \/ Trust' = "unchecked"
    BY <1>5, <1>t DEF SumsOk, SumsFailed, SumsCutShort, RetryOrFail, Exit, Window, FilesFit, files, Trust,
       Progress
  <2>2. Vendor!Slip \/ UNCHANGED Vendor!files
    BY <2>1, <1>m DEF Vendor!Slip, Vendor!Published, Vendor!Becomes, Vendor!files
  <2> QED BY <2>2 DEF Vendor!Next
<1>6. CASE VerifyOk
  <2>1. /\ pc = "verify" /\ img # Absent /\ img' = img /\ ConvertIfMissing(img)
        /\ Trust = "published" /\ "verify" \notin cut /\ cut' = cut /\ Trust' = "accepted"
    BY <1>6, <1>t DEF VerifyOk, ConvertIfMissing, GoTo, Exit, FilesFit, ImageFits, Trust
  <2>2. CASE base = Absent
    <3>1. img \in File
      BY <2>1, <1>t DEF TypeOK
    <3>2. pc' = "convert" /\ base' # Absent /\ base'.of = img.of /\ ~base'.sized
      BY <2>1, <2>2, <3>1, <1>t, ConvertFacts
    <3>3. Progress' = "making"
      BY <3>2 DEF Progress
    <3>4. Vendor!Accept
      BY <2>1, <2>2, <3>2, <3>3, <1>m DEF Vendor!Accept, Vendor!Published, Vendor!Becomes, Vendor!Begun
    <3> QED BY <3>4 DEF Vendor!Next
  <2>3. CASE base # Absent
    <3>1. base' = base /\ Progress' = Progress
      BY <2>1, <2>3 DEF ConvertIfMissing, Exit, Progress
    <3>2. Vendor!Accept
      BY <2>1, <2>3, <3>1, <1>m DEF Vendor!Accept, Vendor!Published, Vendor!Becomes, Vendor!Begun
    <3> QED BY <3>2 DEF Vendor!Next
  <2> QED BY <2>2, <2>3
<1>7. CASE VerifyFailed
  <2>1. /\ pc = "verify" /\ pc' = "idle" /\ img # Absent /\ base' = base
        /\ Trust = "published" /\ Progress' = Progress
    BY <1>7, <1>t DEF VerifyFailed, Exit, FilesFit, Trust, Progress
  <2>2. img' = Absent \/ (img' = img /\ Trust' = "unchecked")
    BY <1>7, <2>1 DEF VerifyFailed, Window, Trust
  <2>3. Vendor!Reject \/ Vendor!Slip
    BY <2>1, <2>2, <1>m DEF Vendor!Reject, Vendor!Slip, Vendor!Published, Vendor!Becomes
  <2> QED BY <2>3 DEF Vendor!Next
<1>8. CASE ConvertOk
  <2>1. /\ base # Absent /\ base' # Absent /\ base'.of = base.of /\ base'.sized = base.sized
        /\ pc = "convert" /\ pc' = "resize" /\ UNCHANGED <<img, cut>>
    BY <1>8, <1>t DEF ConvertOk, GoTo, FilesFit, TypeOK, Disk, history
  <2> QED BY <2>1 DEF Trust, Progress, Vendor!files
<1>9. CASE ResizeOk
  <2>1. /\ base # Absent /\ base' # Absent /\ base'.of = base.of /\ ~base.sized /\ base'.sized
        /\ pc = "resize" /\ pc' = "idle" /\ UNCHANGED <<img, cut>>
    BY <1>9, <1>t DEF ResizeOk, Exit, FilesFit, TypeOK, Disk, history
  <2>2. Progress = "making" /\ Progress' = "ready" /\ Trust' = Trust
    BY <2>1 DEF Progress, Trust
  <2>3. Vendor!Finish
    BY <2>1, <2>2, <1>m DEF Vendor!Finish, Vendor!Making
  <2> QED BY <2>3 DEF Vendor!Next
<1>10. CASE ConvertFailed \/ ResizeFailed
  <2>1. /\ base # Absent /\ ~base.sized /\ base' \in {base, Absent}
        /\ pc \in {"convert", "resize"} /\ pc' = "idle" /\ img' = img /\ cut' = cut \cup {"base"}
    BY <1>10, <1>t DEF ConvertFailed, ResizeFailed, Exit, FilesFit, Window, files
  <2>2. /\ Progress = "making" /\ Trust' = Trust
        /\ base' = base => Progress' = "abandoned"
    BY <2>1 DEF Progress, Trust
  <2>3. Vendor!Abandon
    BY <2>1, <2>2, <1>m DEF Vendor!Abandon, Vendor!Making
  <2> QED BY <2>3 DEF Vendor!Next
<1>11. CASE Cancel
  BY <1>11 DEF Cancel, Trust, Progress, Vendor!files, files, history
<1>12. CASE Killed
  <2>1. pc' = "idle" /\ UNCHANGED <<img, base>> /\ cut' = cut \cup Window
    BY <1>12 DEF Killed, Exit, files
  <2>2. CASE pc \in {"sums", "verify"}
    <3>1. /\ img # Absent /\ Trust = "published" /\ Trust' = "unchecked"
          /\ Progress' = Progress
      BY <2>1, <2>2, <1>t DEF FilesFit, Window, Trust, Progress
    <3>2. Vendor!Slip
      BY <2>1, <3>1, <1>m DEF Vendor!Slip, Vendor!Published, Vendor!Becomes
    <3> QED BY <3>2 DEF Vendor!Next
  <2>3. CASE pc \in {"convert", "resize"}
    <3>1. /\ base # Absent /\ Progress = "making" /\ Progress' = "abandoned" /\ Trust' = Trust
      BY <2>1, <2>3, <1>t DEF FilesFit, Window, Trust, Progress
    <3>2. Vendor!Abandon
      BY <2>1, <3>1, <1>m DEF Vendor!Abandon, Vendor!Making
    <3> QED BY <3>2 DEF Vendor!Next
  <2>4. CASE pc \notin {"sums", "verify", "convert", "resize"}
    BY <2>1, <2>4 DEF Window, Trust, Progress, Vendor!files
  <2> QED BY <2>2, <2>3, <2>4
<1>13. CASE Clean
  <2>1. Vendor!Clean
    BY <1>13 DEF Clean, Vendor!Clean
  <2> QED BY <2>1 DEF Vendor!Next
<1>14. CASE UNCHANGED vars
  BY <1>14 DEF vars, process, files, history, Trust, Progress, Vendor!files
<1> QED
  BY <1>2, <1>3, <1>4, <1>5, <1>6, <1>7, <1>8, <1>9, <1>10, <1>11, <1>12,
     <1>13, <1>14 DEF Next, Step

(* However often the download is started, fails, is cancelled or is killed: *)
(* the image and the base disk live the life VendorDisk allows, for any    *)
(* contents the mirror serves.                                             *)
THEOREM Refinement == Spec => Implements
<1>1. Init => Vendor!Init
  BY DEF Init, Vendor!Init
<1> QED BY <1>1, StepIsVendor, FitsHolds, PTL DEF Spec, Implements, Vendor!Spec
=============================================================================
