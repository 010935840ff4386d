---------------------------- MODULE UploadPolicy ----------------------------
(***************************************************************************)
(* What the upload routes accept: the limits of a deployment, the parts a  *)
(* file is cut into by the browser and the parts the Worker expects, and   *)
(* the media types let through.  Pure operators, no state.                 *)
(*                                                                         *)
(* A file is a record of its size, the prefix it is dropped on, its        *)
(* extension, the Content-Type the browser declares and the one its first  *)
(* bytes show.                                                             *)
(***************************************************************************)
EXTENDS Naturals, Sequences, SequencesExt

CONSTANTS
    R2MaxParts,          \* R2_MAX_UPLOAD_PARTS
    R2MaxPartSize,       \* R2_MAX_PART_SIZE_BYTES
    PartSize,            \* R2E_UPLOAD_PART_SIZE_BYTES
    ConfiguredMaxParts,  \* R2E_UPLOAD_MAX_PARTS, 0 when unset
    MaxFileBytes,        \* R2E_UPLOAD_MAX_FILE_BYTES, 0 for no limit
    PrefixAllowlist,     \* R2E_UPLOAD_PREFIX_ALLOWLIST, as paths
    AllowedExtensions,   \* R2E_UPLOAD_ALLOWED_EXT
    BlockedExtensions,   \* R2E_UPLOAD_BLOCKED_EXT
    AllowedMime,         \* R2E_UPLOAD_ALLOWED_MIME
    BlockedMime,         \* R2E_UPLOAD_BLOCKED_MIME
    Staging,             \* the first segment of the reserved staging prefix
    NoExtension,         \* a filename without a simple extension
    ZipType,                 \* application/zip
    ZipContainers,       \* the media types of ZIP container formats
    Unknown              \* first bytes no signature is known for

ASSUME LimitsAssumption ==
    /\ PartSize \in Nat \ {0}
    /\ R2MaxPartSize \in Nat
    /\ PartSize <= R2MaxPartSize
    /\ R2MaxParts \in Nat \ {0}
    /\ ConfiguredMaxParts \in Nat
    /\ MaxFileBytes \in Nat
    /\ Unknown \notin BlockedMime

-----------------------------------------------------------------------------
(* Parts.                                                                  *)

MaxParts ==
    IF ConfiguredMaxParts # 0 /\ ConfiguredMaxParts < R2MaxParts
    THEN ConfiguredMaxParts
    ELSE R2MaxParts

\* Mutant: rounds down and adds one.
ExpectedPartCountPlusOne(size) == size \div PartSize + 1

\* max(1, ceil(size / PartSize))
ExpectedPartCount(size) ==
    IF size = 0 THEN 1 ELSE (size + PartSize - 1) \div PartSize

\* Mutant: the last chunk is as long as the others.
SliceIntoChunksUncut(size) == [i \in {k \in 1 .. size : (k - 1) * PartSize < size} |-> PartSize]

\* The sizes of the client's chunks: one for each offset below the file's size,
\* the last cut at its end.
SliceIntoChunks(size) ==
    [i \in {k \in 1 .. size : (k - 1) * PartSize < size} |->
        IF i * PartSize <= size THEN PartSize ELSE size - (i - 1) * PartSize]

\* What sign-part accepts for a session of a file of this size.
SignPartAccepts(size, partNumber, contentLength) ==
    LET last == ExpectedPartCount(size)
        remaining == size - PartSize * (last - 1)
    IN  /\ partNumber <= MaxParts
        /\ contentLength <= R2MaxPartSize
        /\ partNumber <= last
        /\ partNumber < last => contentLength = PartSize
        /\ partNumber = last =>
             contentLength = IF remaining > 0 THEN remaining ELSE PartSize

\* What complete accepts as the numbers of the parts, before it assembles them.
CompletePartsAccepted(size, numbers) ==
    /\ \A i \in DOMAIN numbers :
         /\ numbers[i] <= MaxParts
         /\ numbers[i] > IF i = 1 THEN 0 ELSE numbers[i - 1]
    /\ Len(numbers) = ExpectedPartCount(size)

-----------------------------------------------------------------------------
(* Names and types.                                                        *)

\* An empty prefix is the bucket's root; one that climbs is refused (".." stands
\* for every segment that contains it, or a backslash).
PrefixAllowed(prefix) ==
    /\ \A i \in DOMAIN prefix : prefix[i] # ".."
    /\ prefix = <<>> \/ prefix[1] # Staging
    /\ \/ PrefixAllowlist = {}
       \/ \E allowed \in PrefixAllowlist : IsPrefix(allowed, prefix)

ExtensionAllowed(extension) ==
    /\ extension = NoExtension \/ extension \notin BlockedExtensions
    /\ AllowedExtensions = {} \/ extension \in AllowedExtensions

TypeAllowed(type) ==
    /\ type \notin BlockedMime
    /\ AllowedMime = {} \/ type \in AllowedMime

MagicMimeMatchesDeclared(declared, detected) ==
    \/ declared = detected
    \/ detected = ZipType /\ declared \in ZipContainers

\* Mutant: bytes that show another type than the declared one are let through.
MagicAllowedMismatched(declared, detected) ==
    \/ detected = Unknown
    \/ /\ detected \notin BlockedMime
       /\ AllowedMime = {} \/ detected \in AllowedMime

MagicAllowed(declared, detected) ==
    \/ detected = Unknown
    \/ /\ MagicMimeMatchesDeclared(declared, detected)
       /\ detected \notin BlockedMime
       /\ \/ AllowedMime = {}
          \/ detected \in AllowedMime
          \/ declared \in AllowedMime /\ MagicMimeMatchesDeclared(declared, detected)

-----------------------------------------------------------------------------
(* The routes' verdicts.                                                   *)

InitAccepts(f) ==
    /\ f.size > 0
    /\ PrefixAllowed(f.prefix)
    /\ ExtensionAllowed(f.extension)
    /\ TypeAllowed(f.type)
    /\ MaxFileBytes > 0 => f.size <= MaxFileBytes
    /\ ExpectedPartCount(f.size) <= MaxParts

\* The checks of an assembled object, of the declared size or not.
StagedAccepted(f, size) ==
    /\ MaxFileBytes > 0 => size <= MaxFileBytes
    /\ size = f.size
    /\ TypeAllowed(f.type)
    /\ MagicAllowed(f.type, f.magic)
=============================================================================
