-------------------------------- MODULE Limits --------------------------------
(***************************************************************************)
(* The numbers of groot create and groot stats at their machine width: the *)
(* sizes of the image, the disk limit, the quota of the volume and the     *)
(* usage that stats reports.  int64 and uint64 are W bits wide here, and   *)
(* every sum and conversion wraps as Go's do.  What a manifest says about  *)
(* sizes is not checked by anyone and may be any int64.  Bytes that exist  *)
(* lie on one disk, whose size an int64 holds.                             *)
(***************************************************************************)
EXTENDS Integers, Sums

CONSTANTS
    W,          \* bits of an int64
    Layers,     \* number of layers of an image
    Overhead,   \* DISK_QUOTA_OVERHEAD
    NoQuota     \* "the volume has no quota"

Half == 2^(W - 1)      \* half of the 2^W words
MaxInt == Half - 1
Int64 == (-Half)..MaxInt
ToInt64(n) == ((n + Half) % (2 * Half)) - Half
ToUint64(n) == n % (2 * Half)

ASSUME WidthAssumption ==
    /\ W \in Nat \ {0, 1} /\ Half \in Nat
    /\ Layers \in Nat
    /\ Overhead \in 1..MaxInt

VARIABLES
    req,        \* limit and exclude of the request; dll: quota.dll can be loaded
    manifest,   \* manifest[k]: the size of layer k by the manifest
    content,    \* content[k]: the bytes of the files of layer k
    pc,
    built,      \* layers built so far
    image,      \* totalBytes of buildLayers, then Image.Size
    quota,      \* the local quota of Create, then what quota.dll was given
    used,       \* bytes in the volume
    report      \* what stats answered last

vars == <<req, manifest, content, pc, built, image, quota, used, report>>

Total(sizes) == SumTo(sizes, Layers)

NoReport == [total |-> 0, exclusive |-> 0]

Init ==
    /\ req \in [limit : Int64, exclude : BOOLEAN, dll : BOOLEAN]
    /\ manifest \in [1..Layers -> Int64]
    /\ content \in [1..Layers -> 0..MaxInt]
    /\ Total(content) <= MaxInt
    /\ pc = "limit" /\ built = 0 /\ image = 0
    /\ quota = NoQuota /\ used = 0 /\ report = NoReport

Goto(at) == pc' = at
Inputs == <<req, manifest, content>>

-----------------------------------------------------------------------------
Charged == req.limit # 0 /\ ~req.exclude

\* layersSize adds one by one; the wraps add up to one.
LayersSize == ToInt64(Total(manifest))

\* Create refuses a negative limit; Pull compares the manifest with the limit.
QuotaExceeded ==
    /\ pc = "limit"
    /\ Goto(IF req.limit < 0 \/ (Charged /\ LayersSize > req.limit)
              THEN "refused" ELSE "build")
    /\ UNCHANGED <<Inputs, built, image, quota, used, report>>

BuildLayer ==
    /\ pc = "build" /\ built < Layers
    /\ built' = built + 1
    /\ image' = ToInt64(image + content[built'])
    /\ UNCHANGED <<Inputs, pc, quota, used, report>>

Remaining == ToInt64(req.limit - image)

CreateQuota ==
    /\ pc = "build" /\ built = Layers
    /\ IF Charged
         THEN /\ quota' = Remaining
              /\ Goto(IF quota' <= 0 THEN "refused" ELSE "set")
         ELSE quota' = req.limit /\ Goto("set")
    /\ UNCHANGED <<Inputs, built, image, used, report>>

\* Mutant: the overhead is added before the test for "no limit".
QuotaOf_OverheadFirst(size) ==
    LET s == ToUint64(size + Overhead) IN IF s = 0 THEN NoQuota ELSE s

\* SetQuota: zero means that no quota is set.
QuotaOf(size) == IF size = 0 THEN NoQuota ELSE ToUint64(size + Overhead)

\* Without quota.dll only a volume without a limit can be made.
LoadProc == req.dll

SetQuota ==
    LET size == ToUint64(quota) IN
    /\ pc = "set"
    /\ \/ /\ size = 0 \/ LoadProc
          /\ quota' = QuotaOf(size)
          /\ Goto("made")
       \/ size # 0 /\ ~LoadProc /\ Goto("refused") /\ UNCHANGED quota
    /\ UNCHANGED <<Inputs, built, image, used, report>>

-----------------------------------------------------------------------------
\* The container writes and deletes files: Windows enforces the quota, the disk its size.
Usage ==
    /\ pc = "made"
    /\ used' \in {u \in 0..(MaxInt - Total(content)) : quota = NoQuota \/ u <= quota}
    /\ UNCHANGED <<Inputs, pc, built, image, quota, report>>

\* Mutant: the usage is taken to include the image.
TotalUsed_Exclusive(size, bytes) == ToInt64(bytes)

TotalUsed(size, bytes) == ToInt64(size + ToInt64(bytes))

\* Stats reads the usage by the same library and the image size from metadata.json.
Stats ==
    /\ pc = "made" /\ LoadProc
    /\ report' = [total |-> TotalUsed(image, used), exclusive |-> ToInt64(used)]
    /\ UNCHANGED <<Inputs, pc, built, image, quota, used>>

\* The next container.
Again ==
    /\ pc \in {"refused", "made"}
    /\ Goto("limit") /\ built' = 0 /\ image' = 0
    /\ quota' = NoQuota /\ used' = 0 /\ report' = NoReport
    /\ UNCHANGED Inputs

Next == QuotaExceeded \/ BuildLayer \/ CreateQuota \/ SetQuota \/ Usage \/ Stats \/ Again

Spec == Init /\ [][Next]_vars
-----------------------------------------------------------------------------
(* Properties. *)

\* A create that succeeds has given quota.dll the number its limit stands for, at both
\* ends of the range: no limit sets no quota, a limit never turns into "no limit", the
\* image counts by the bytes that were unpacked, whatever the manifest claims and however
\* its sizes wrap in quotaExceeded, and neither the difference nor the overhead wraps.
QuotaExact ==
    pc = "made" =>
        quota = IF req.limit = 0 THEN NoQuota
                ELSE req.limit - (IF req.exclude THEN 0 ELSE Total(content)) + Overhead

\* Stats reports the bytes of the image and of the volume, with no wrap in the conversion
\* of the uint64 usage nor in the sum.
StatsExact ==
    [][Stats => /\ report'.exclusive = used
                /\ report'.total = Total(content) + used]_vars
=============================================================================
