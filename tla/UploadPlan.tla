------------------------------- MODULE UploadPlan -------------------------------
(***************************************************************************)
(* The arithmetic of a multipart upload, in                                *)
(* apps/api/internal/domain/photo/upload.go: how the policy bounds parts,  *)
(* how many parts a photo has, which part numbers are signed, and which    *)
(* manifests a completion accepts.  No number here comes near the width of *)
(* an int64: config.go keeps sizes and parts below 5 GiB.                  *)
(***************************************************************************)
EXTENDS Integers, Sequences, Functions

CONSTANTS
    MinimumPartSize,  \* minimumMultipartPartSize
    MaxByteSize,      \* UploadPolicy.MaxByteSize
    PartSize,         \* UploadPolicy.PartSize
    MaxParts          \* UploadPolicy.MaxParts

\* NewUploadPolicy: the largest photo fits into MaxParts parts.
PolicyAccepted ==
    /\ MaxByteSize > 0
    /\ PartSize >= MinimumPartSize
    /\ MaxParts \in 1..10000
    /\ (MaxByteSize + PartSize - 1) \div PartSize <= MaxParts

ASSUME SizesAssumption ==
    /\ MinimumPartSize \in Nat \ {0}
    /\ {MaxByteSize, PartSize, MaxParts} \subseteq Int

\* The API does not start with a policy that is refused.
ASSUME PolicyAssumption == PolicyAccepted

\* The pieces of PartSize a photo is cut into, the last one shorter if need be.
PartCount(byteSize) == IF byteSize <= 0 THEN 0 ELSE (byteSize + PartSize - 1) \div PartSize

\* Initiate refuses a photo that is larger than the policy allows.
Admitted(byteSize) == byteSize <= MaxByteSize

\* Mutant: any part the policy knows is signed, whatever the photo's size.
SignableAnyPart(n, byteSize) == n \in 1..MaxParts

\* SignPart: the part is one the policy knows and the photo has.
Signable(n, byteSize) == n \in 1..MaxParts /\ n <= PartCount(byteSize)

\* NewCompletedParts: each number above the one before it, and so above all before it.
ValidManifest(parts) ==
    /\ Len(parts) \in 1..MaxParts
    /\ \A i \in DOMAIN parts : parts[i] \in 1..MaxParts
    /\ \A i, j \in DOMAIN parts : i < j => parts[i] < parts[j]

\* Complete: as many parts as the photo has.
FullCount(parts, byteSize) == Len(parts) = PartCount(byteSize)

=============================================================================
